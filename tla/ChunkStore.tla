----------------------------- MODULE ChunkStore -----------------------------
(***************************************************************************)
(* Storing and reading one file name: the put and get commands of dfc      *)
(* processes (client.c) against the chunk files of the servers (server.c). *)
(*                                                                         *)
(* A put is named by its timestamp, so two puts never have the same one.   *)
(* Each client has one connection per server; the requests on it are       *)
(* served in order, by one worker at a time (WorkerPool), and connections  *)
(* are served concurrently.  A file name is a directory, so names do not   *)
(* interfere.  In some short files the last chunks have no bytes.          *)
(***************************************************************************)
EXTENDS ChunkTable

CONSTANTS
  Earlier,     \* timestamps of the puts that ended well before we look
  Puts,        \* timestamps of the puts we watch
  Gets,        \* the gets we watch
  Filled,      \* per put, how many of its chunks have bytes (Partition)
  StampMod,    \* 2^32: a timestamp goes over the wire as a 32-bit word
  MaxCrashes,  \* bound on the crashes of servers
  Faults       \* which of the faults below may happen

(***************************************************************************)
(* put_dies: a put is killed between two transfers; put_cut: in the middle *)
(* of one; save_fails: a server cannot make the directory or the temp file *)
(* (server.c:352, 364); short_read: a chunk list, or an answer's message   *)
(* header, is cut or late; cut_header: the chunk_info after a message      *)
(* header is cut (client.c:241 asks for the message header only);          *)
(* late_data: a chunk's data is late (utils.c:101 takes -1 for a length).  *)
(***************************************************************************)
FaultKinds ==
  {"put_dies", "put_cut", "save_fails", "short_read", "cut_header", "late_data"}

MutantStamp(p) == p % (StampMod \div 2)

Stamp(p) == p % StampMod
Clients == Puts \cup Gets

ASSUME StoreAssumption ==
  /\ Puts \cup Earlier \subseteq Nat
  /\ Puts \cap Earlier = {}
  /\ Puts \cap Gets = {}
  /\ Filled \in [Puts \cup Earlier -> 1..N]
  /\ StampMod \in Nat \ {0}
  /\ \A p, q \in Puts \cup Earlier : Stamp(p) = Stamp(q) => p = q
  /\ MaxCrashes \in Nat
  /\ Faults \subseteq FaultKinds
  /\ None \notin Nat \cup [put : Nat, chunk : Nat, whole : BOOLEAN]

VARIABLES
  disk,       \* per server, the published chunk files: <<stamp, chunk>> to content
  running,    \* the servers that run
  crashes,    \* how many crashes so far
  linked,     \* per client, the servers it has a socket to
  alive,      \* per client, those whose end of the connection still exists
  inbox,      \* per put and server, chunks sent and not yet read
  saving,     \* per put and server, the chunk a worker is writing to a temp file
  pstate,     \* per put: idle, sending, done, dead
  sent,       \* per put, transfers done
  failed,     \* per put, whether has_failed is set
  gstate,     \* per get: idle, query, choose, fetch, ok, incomplete, failed
  asked,      \* per get, servers queried so far
  table,      \* per get, the chunk table: <<stamp, chunk>> to the server to ask
  stale,      \* per get, servers whose answer was not read to its end
  chosen,     \* per get, the stamp of the set it fetches
  fetched,    \* per get, the contents of the chunks written to the local file
  settled     \* history: per get, the puts that were fully stored when it began

serverVars == <<disk, running, crashes>>
linkVars == <<linked, alive, inbox, saving>>
putVars == <<pstate, sent, failed>>
getVars == <<gstate, asked, table, stale, chosen, fetched, settled>>
vars == <<serverVars, linkVars, putVars, getVars>>

Content(p, c, whole) == [put |-> p, chunk |-> c, whole |-> whole]

\* A content of which a part is missing.
CutOff(x) == Content(x.put, x.chunk, FALSE)

\* The bytes of a short file run out before its last chunks.
HasBytes(p, c) == c < Filled[p]

\* Every chunk of the put, and every one that has bytes, is on both its servers.
OnDisk(p, c) ==
  \A s \in Homes[c] :
    /\ <<Stamp(p), c>> \in DOMAIN disk[s]
    /\ disk[s][<<Stamp(p), c>>] = Content(p, c, TRUE)
Replicated(p) == \A c \in Chunks : OnDisk(p, c)
Stored(p) == \A c \in Chunks : HasBytes(p, c) => OnDisk(p, c)

\* What the earlier puts left on a server.
EarlierFiles(s) ==
  UNION {{<<Stamp(p), c>> : c \in {d \in Chunks : s \in Homes[d] /\ HasBytes(p, d)}} : p \in Earlier}

Init ==
  /\ disk = [s \in Servers |->
       [f \in EarlierFiles(s) |->
          Content(CHOOSE p \in Earlier : Stamp(p) = f[1], f[2], TRUE)]]
  /\ running \in SUBSET Servers
  /\ crashes = 0
  /\ linked = [c \in Clients |-> {}]
  /\ alive = [c \in Clients |-> {}]
  /\ inbox = [p \in Puts |-> [s \in Servers |-> <<>>]]
  /\ saving = [p \in Puts |-> [s \in Servers |-> None]]
  /\ pstate = [p \in Puts |-> "idle"]
  /\ sent = [p \in Puts |-> 0]
  /\ failed = [p \in Puts |-> FALSE]
  /\ gstate = [g \in Gets |-> "idle"]
  /\ asked = [g \in Gets |-> 0]
  /\ table = [g \in Gets |-> <<>>]
  /\ stale = [g \in Gets |-> {}]
  /\ chosen = [g \in Gets |-> None]
  /\ fetched = [g \in Gets |-> <<>>]
  /\ settled = [g \in Gets |-> {}]

\* connect_to_servers: a socket to every server that runs, -1 for the others.
Connect(c) ==
  /\ linked' = [linked EXCEPT ![c] = running]
  /\ alive' = [alive EXCEPT ![c] = running]
  /\ UNCHANGED <<inbox, saving>>

-----------------------------------------------------------------------------
(* put                                                                     *)

StartPut(p) ==
  /\ pstate[p] = "idle"
  /\ pstate' = [pstate EXCEPT ![p] = "sending"]
  /\ Connect(p)
  /\ UNCHANGED <<serverVars, sent, failed, getVars>>

Deliver(p, s, content) ==
  inbox' = [inbox EXCEPT ![p][s] = Append(@, content)]

MutantSendChunk(p) ==
  LET i == sent[p]
      s == Dest(i)
  IN /\ pstate[p] = "sending"
     /\ IF HasBytes(p, ChunkSent(i)) /\ s \in alive[p]
        THEN Deliver(p, s, Content(p, ChunkSent(i), TRUE))
        ELSE UNCHANGED inbox
     /\ sent' = [sent EXCEPT ![p] = i + 1]
     /\ pstate' = [pstate EXCEPT ![p] = IF i + 1 = N THEN "done" ELSE "sending"]
     /\ UNCHANGED <<serverVars, linked, alive, saving, failed, getVars>>

\* One transfer.  A server without a socket is skipped.  What is sent to a broken
\* connection fails, or vanishes when the break has not been noticed yet.  Of a
\* chunk without bytes nothing is sent, not even a header, and that is a success.
SendChunk(p) ==
  LET i == sent[p]
      c == ChunkSent(i)
      s == Dest(i)
  IN /\ pstate[p] = "sending"
     /\ \/ /\ s \in alive[p] /\ HasBytes(p, c)
           /\ Deliver(p, s, Content(p, c, TRUE))
           /\ UNCHANGED failed
        \/ /\ s \notin linked[p] \/ (s \notin alive[p] /\ HasBytes(p, c))
           /\ failed' = [failed EXCEPT ![p] = TRUE]
           /\ UNCHANGED inbox
        \/ /\ s \in linked[p]
           /\ s \notin alive[p] \/ ~HasBytes(p, c)
           /\ UNCHANGED <<inbox, failed>>
     /\ sent' = [sent EXCEPT ![p] = i + 1]
     /\ pstate' = [pstate EXCEPT ![p] = IF i + 1 = 2 * N THEN "done" ELSE "sending"]
     /\ UNCHANGED <<serverVars, linked, alive, saving, getVars>>

\* The process is killed between two transfers or in the middle of one.
PutDies(p) ==
  LET c == ChunkSent(sent[p])
      s == Dest(sent[p])
  IN /\ pstate[p] = "sending"
     /\ pstate' = [pstate EXCEPT ![p] = "dead"]
     /\ \/ "put_dies" \in Faults /\ UNCHANGED inbox
        \/ /\ "put_cut" \in Faults
           /\ s \in alive[p] /\ HasBytes(p, c)
           /\ Deliver(p, s, Content(p, c, FALSE))
     /\ UNCHANGED <<serverVars, linked, alive, saving, sent, failed, getVars>>

-----------------------------------------------------------------------------
(* The server's side of a put (receive_chunk)                              *)

\* f with y at x, added or replaced.
Extend(f, x, y) == [z \in DOMAIN f \cup {x} |-> IF z = x THEN y ELSE f[z]]

MutantBeginSave(p, s) ==
  /\ s \in alive[p]
  /\ saving[p][s] = None
  /\ inbox[p][s] # <<>>
  /\ saving' = [saving EXCEPT ![p][s] = Head(inbox[p][s])]
  /\ inbox' = [inbox EXCEPT ![p][s] = Tail(@)]
  /\ disk' = [disk EXCEPT ![s] =
       Extend(@, <<Stamp(p), Head(inbox[p][s]).chunk>>, CutOff(Head(inbox[p][s])))]
  /\ UNCHANGED <<running, crashes, linked, alive, putVars, getVars>>

\* The header is read and the temp file opened.
BeginSave(p, s) ==
  /\ s \in alive[p]
  /\ saving[p][s] = None
  /\ inbox[p][s] # <<>>
  /\ saving' = [saving EXCEPT ![p][s] = Head(inbox[p][s])]
  /\ inbox' = [inbox EXCEPT ![p][s] = Tail(@)]
  /\ UNCHANGED <<serverVars, linked, alive, putVars, getVars>>

\* The directory or the temp file cannot be made: the chunk's data stays in the
\* socket, where the worker takes it for the next header.  That is no valid one, so
\* the connection ends there, and what put sent or sends after it is lost; put never
\* reads the error reply.
RefuseSave(p, s) ==
  /\ "save_fails" \in Faults
  /\ s \in alive[p]
  /\ saving[p][s] = None
  /\ inbox[p][s] # <<>>
  /\ alive' = [alive EXCEPT ![p] = @ \ {s}]
  /\ inbox' = [inbox EXCEPT ![p][s] = <<>>]
  /\ UNCHANGED <<serverVars, linked, saving, putVars, getVars>>

\* The data has arrived, or the connection has ended early, which the code does
\* not tell apart: the temp file is renamed to its final name.
FinishSave(p, s) ==
  /\ saving[p][s] # None
  /\ disk' = [disk EXCEPT ![s] =
       Extend(@, <<Stamp(p), saving[p][s].chunk>>, saving[p][s])]
  /\ saving' = [saving EXCEPT ![p][s] = None]
  /\ UNCHANGED <<running, crashes, linked, alive, inbox, putVars, getVars>>

\* A server goes down with its connections, and what was in them, and leaves its
\* temp files behind.
Crash(s) ==
  /\ s \in running
  /\ crashes < MaxCrashes
  /\ running' = running \ {s}
  /\ crashes' = crashes + 1
  /\ alive' = [c \in Clients |-> alive[c] \ {s}]
  /\ inbox' = [p \in Puts |-> [inbox[p] EXCEPT ![s] = <<>>]]
  /\ saving' = [p \in Puts |-> [saving[p] EXCEPT ![s] = None]]
  /\ UNCHANGED <<disk, linked, putVars, getVars>>

Restart(s) ==
  /\ s \notin running
  /\ running' = running \cup {s}
  /\ UNCHANGED <<disk, crashes, linkVars, putVars, getVars>>

-----------------------------------------------------------------------------
(* get                                                                     *)

StartGet(g) ==
  /\ gstate[g] = "idle"
  /\ gstate' = [gstate EXCEPT ![g] = "query"]
  /\ Connect(g)
  /\ settled' = [settled EXCEPT ![g] = {p \in Puts \cup Earlier : Replicated(p)}]
  /\ UNCHANGED <<serverVars, putVars, asked, table, stale, chosen, fetched>>

AsksNext(g) ==
  /\ asked' = [asked EXCEPT ![g] = @ + 1]
  /\ gstate' = [gstate EXCEPT ![g] = IF asked[g] + 1 = N THEN "choose" ELSE "query"]

\* The server's chunk list is read to its end.
Query(g) ==
  LET s == asked[g]
  IN /\ gstate[g] = "query"
     /\ s \in alive[g]
     /\ table' = [table EXCEPT ![g] = AddToTable(@, DOMAIN disk[s], s)]
     /\ AsksNext(g)
     /\ UNCHANGED <<serverVars, linkVars, putVars, stale, chosen, fetched, settled>>

MutantQueryFails(g) ==
  /\ gstate[g] = "query"
  /\ asked[g] \in linked[g] \ alive[g]
  /\ AsksNext(g)
  /\ UNCHANGED <<serverVars, linkVars, putVars, table, stale, chosen, fetched, settled>>

\* No socket, or the connection is broken: the server contributes nothing.
QueryFails(g) ==
  /\ gstate[g] = "query"
  /\ asked[g] \notin alive[g]
  /\ AsksNext(g)
  /\ UNCHANGED <<serverVars, linkVars, putVars, table, stale, chosen, fetched, settled>>

\* recv gives less than a whole record, or nothing within the second it waits:
\* the rest of the answer is given up, but stays in the socket.
QueryIsCut(g) ==
  LET s == asked[g]
  IN /\ "short_read" \in Faults
     /\ gstate[g] = "query"
     /\ s \in alive[g]
     /\ \E part \in SUBSET DOMAIN disk[s] :
          table' = [table EXCEPT ![g] = AddToTable(@, part, s)]
     /\ stale' = [stale EXCEPT ![g] = @ \cup {s}]
     /\ AsksNext(g)
     /\ UNCHANGED <<serverVars, linkVars, putVars, chosen, fetched, settled>>

Choose(g) ==
  LET found == FindLatestValidSet(table[g])
  IN /\ gstate[g] = "choose"
     /\ chosen' = [chosen EXCEPT ![g] = found]
     /\ gstate' = [gstate EXCEPT ![g] = IF found = None THEN "incomplete" ELSE "fetch"]
     /\ UNCHANGED <<serverVars, linkVars, putVars, asked, table, stale, fetched, settled>>

\* The server to ask for the next chunk.
Source(g) == table[g][<<chosen[g], Len(fetched[g])>>]

MutantFetch(g) ==
  LET c == Len(fetched[g])
  IN /\ gstate[g] = "fetch"
     /\ Source(g) \in alive[g]
     /\ fetched' = [fetched EXCEPT ![g] = Append(@, disk[Source(g)][<<chosen[g], c>>])]
     /\ gstate' = [gstate EXCEPT ![g] = IF c + 1 = N THEN "ok" ELSE "fetch"]
     /\ UNCHANGED <<serverVars, linkVars, putVars, asked, table, stale, chosen, settled>>

\* send_chunk on the server, and its answer written to the local file.
Fetch(g) ==
  LET c == Len(fetched[g])
  IN /\ gstate[g] = "fetch"
     /\ Source(g) \in alive[g] \ stale[g]
     /\ fetched' = [fetched EXCEPT ![g] = Append(@, disk[Source(g)][<<chosen[g], c>>])]
     /\ gstate' = [gstate EXCEPT ![g] = IF c + 1 = N THEN "ok" ELSE "fetch"]
     /\ UNCHANGED <<serverVars, linkVars, putVars, asked, table, stale, chosen, settled>>

\* The header comes without all of its chunk_info, or the data is late: get goes on
\* with a wrong length, leaves what it did not read in the socket, and does not know.
FetchCut(g) ==
  LET c == Len(fetched[g])
  IN /\ Faults \cap {"cut_header", "late_data"} # {}
     /\ gstate[g] = "fetch"
     /\ Source(g) \in alive[g] \ stale[g]
     /\ fetched' = [fetched EXCEPT ![g] =
          Append(@, CutOff(disk[Source(g)][<<chosen[g], c>>]))]
     /\ stale' = [stale EXCEPT ![g] = @ \cup {Source(g)}]
     /\ gstate' = [gstate EXCEPT ![g] = IF c + 1 = N THEN "ok" ELSE "fetch"]
     /\ UNCHANGED <<serverVars, linkVars, putVars, asked, table, chosen, settled>>

\* The connection is broken or old bytes are taken for the answer's header; of a
\* chunk file cut to nothing no answer comes; or the message header is late or cut,
\* or late data ends the process.  get gives up, though the chunk's other server may
\* have it.
FetchFails(g) ==
  /\ gstate[g] = "fetch"
  /\ \/ Source(g) \notin alive[g] \ stale[g] /\ UNCHANGED stale
     \/ /\ Source(g) \in alive[g] \ stale[g]
        /\ ~disk[Source(g)][<<chosen[g], Len(fetched[g])>>].whole
        /\ UNCHANGED stale
     \/ /\ Faults \cap {"short_read", "late_data"} # {}
        /\ stale' = [stale EXCEPT ![g] = @ \cup {Source(g)}]
  /\ gstate' = [gstate EXCEPT ![g] = "failed"]
  /\ UNCHANGED <<serverVars, linkVars, putVars, asked, table, chosen, fetched, settled>>

-----------------------------------------------------------------------------
PutStep(p) == StartPut(p) \/ SendChunk(p) \/ PutDies(p)
SaveStep(p, s) == BeginSave(p, s) \/ RefuseSave(p, s) \/ FinishSave(p, s)
GetStep(g) ==
  \/ Query(g) \/ QueryFails(g) \/ QueryIsCut(g) \/ Choose(g)
  \/ Fetch(g) \/ FetchCut(g) \/ FetchFails(g)

Next ==
  \/ \E p \in Puts : PutStep(p) \/ \E s \in Servers : SaveStep(p, s)
  \/ \E g \in Gets : StartGet(g) \/ GetStep(g)
  \/ \E s \in Servers : Crash(s) \/ Restart(s)

Spec == Init /\ [][Next]_vars

(***************************************************************************)
(* A dfc process runs on; a server's workers come to every connection that *)
(* has a request (NoStall of WorkerPool).  Nothing else is promised: not   *)
(* that a command is started, not that a server restarts.                  *)
(***************************************************************************)
Fairness ==
  /\ \A p \in Puts : WF_vars(SendChunk(p)) /\ \A s \in Servers : WF_vars(SaveStep(p, s))
  /\ \A g \in Gets : WF_vars(GetStep(g))

FairSpec == Spec /\ Fairness

-----------------------------------------------------------------------------
(* Properties                                                              *)

Files == {<<Stamp(p), c>> : p \in Puts \cup Earlier, c \in Chunks}
Contents == {Content(p, c, whole) : p \in Puts \cup Earlier, c \in Chunks, whole \in BOOLEAN}

PartialFunction(f, D, R) == DOMAIN f \subseteq D /\ f \in [DOMAIN f -> R]

\* The state has the shape the code gives it: what is on disk, in the sockets and
\* in the clients' variables.
TypeOK ==
  /\ disk = [s \in Servers |-> disk[s]]
  /\ \A s \in Servers : PartialFunction(disk[s], Files, Contents)
  /\ running \subseteq Servers
  /\ crashes \in 0..MaxCrashes
  /\ linked \in [Clients -> SUBSET Servers]
  /\ alive \in [Clients -> SUBSET Servers]
  /\ inbox \in [Puts -> [Servers -> Seq(Contents)]]
  /\ saving \in [Puts -> [Servers -> Contents \cup {None}]]
  /\ pstate \in [Puts -> {"idle", "sending", "done", "dead"}]
  /\ sent \in [Puts -> 0..(2 * N)]
  /\ failed \in [Puts -> BOOLEAN]
  /\ gstate \in [Gets -> {"idle", "query", "choose", "fetch", "ok", "incomplete", "failed"}]
  /\ asked \in [Gets -> 0..N]
  /\ table = [g \in Gets |-> table[g]]
  /\ \A g \in Gets : PartialFunction(table[g], Files, Servers)
  /\ stale \in [Gets -> SUBSET Servers]
  /\ chosen \in [Gets -> {Stamp(p) : p \in Puts \cup Earlier} \cup {None}]
  /\ fetched \in [Gets -> Seq(Contents)]
  /\ settled \in [Gets -> SUBSET (Puts \cup Earlier)]

\* A get that succeeds has all the chunks of one put, each whole and in its
\* place, whatever puts, refusals and crashes went on meanwhile.  It holds while no
\* upload, no chunk's header and no chunk's data is cut or late.
GetWhole ==
  \A g \in Gets : gstate[g] = "ok" =>
    \E p \in Puts \cup Earlier : fetched[g] = [i \in 1..N |-> Content(p, i - 1, TRUE)]

\* A get that succeeds returns nothing older than what was fully stored when it
\* began, even if servers were down or crashed in between.
FreshGet ==
  \A g \in Gets : gstate[g] = "ok" =>
    \A p \in settled[g] : p <= fetched[g][1].put

\* When something was fully stored before a get began, the get succeeds unless a
\* connection broke on the way, an answer was cut or late, a cut upload was
\* published, or two neighbouring servers were down.  One broken connection is
\* enough: a chunk's other server is never asked.
GetSurvivesFailures ==
  \A g \in Gets : gstate[g] \in {"incomplete", "failed"} =>
    \/ settled[g] = {}
    \/ alive[g] # linked[g]
    \/ stale[g] # {}
    \/ \E s \in Servers : \E f \in DOMAIN disk[s] : ~disk[s][f].whole
    \/ Gap(linked[g])

\* A published chunk file never changes and never goes away; what a get has seen
\* in a chunk list it can fetch.
PublishedStays ==
  [][\A s \in Servers : \A f \in DOMAIN disk[s] :
       f \in DOMAIN disk'[s] /\ disk'[s][f] = disk[s][f]]_vars

\* Server s has put p's chunk c whole, in its socket, its temp file or its directory.
Holds(s, p, c) ==
  \/ \E k \in DOMAIN inbox[p][s] : inbox[p][s][k] = Content(p, c, TRUE)
  \/ saving[p][s] = Content(p, c, TRUE)
  \/ <<Stamp(p), c>> \in DOMAIN disk[s] /\ disk[s][<<Stamp(p), c>>] = Content(p, c, TRUE)

\* When put ends, and ever after, both servers of a chunk that has bytes hold it, but
\* for one that crashed or refused a chunk since put connected; a server put had no
\* socket to makes it report a failure.  Nothing is sent again, so nothing may be
\* dropped or overwritten.
PutLeavesAll ==
  \A p \in Puts : pstate[p] = "done" => \A c \in Chunks : \A s \in Homes[c] :
    /\ s \in alive[p] /\ HasBytes(p, c) => Holds(s, p, c)
    /\ s \notin linked[p] => failed[p]

\* A put that reports no failure is in the end on all its servers, as far as its
\* chunks have bytes, unless one of them crashes or refuses a chunk, which put is
\* not told; put itself never waits for that.
CleanPutReplicates ==
  \A p \in Puts :
    pstate[p] = "done" /\ ~failed[p] ~> Stored(p) \/ alive[p] # linked[p]

\* Every get comes to an end.
GetEnds ==
  \A g \in Gets :
    gstate[g] = "query" ~> gstate[g] \in {"ok", "incomplete", "failed"}

\* readme.md:22 excludes only files with fewer bytes than there are servers, and put
\* refuses just those: every other put that reports no failure, on servers that take
\* what they get, is a version that a get finds complete.
AcceptedIsStored ==
  \A p \in Puts :
    /\ pstate[p] = "done" /\ ~failed[p] /\ alive[p] = linked[p]
    /\ \A s \in Servers : inbox[p][s] = <<>> /\ saving[p][s] = None
    => Replicated(p)

(***************************************************************************)
(* The store as a user sees it.                                            *)
(***************************************************************************)
PhaseOf(g) ==
  CASE gstate[g] = "idle" -> "idle"
    [] gstate[g] = "ok" -> "answered"
    [] gstate[g] \in {"incomplete", "failed"} -> "gaveup"
    [] OTHER -> "pending"

\* The puts whose whole file, chunk by chunk, is in the local file.
AnswerOf(g) ==
  IF gstate[g] # "ok" THEN {}
  ELSE {p \in Puts \cup Earlier : fetched[g] = [i \in 1..N |-> Content(p, i - 1, TRUE)]}

File ==
  INSTANCE FileStore WITH
    begun <- Earlier \cup {p \in Puts : pstate[p] # "idle"},
    kept <- {p \in Puts \cup Earlier : Replicated(p)},
    floor <- settled,
    phase <- [g \in Gets |-> PhaseOf(g)],
    answer <- [g \in Gets |-> AnswerOf(g)]

\* Chunks, servers, connections and crashes implement a store of whole versions: a
\* get that succeeds answers with exactly one put's file, never a truncated or a
\* mixed one, and never one that is too old.
ImplementsFileStore == File!Spec

=============================================================================
