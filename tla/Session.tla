------------------------------- MODULE Session -------------------------------
(***************************************************************************)
(* One dfc process that lists the files or gets several of them            *)
(* (client.c), over one connection per server, with the worker at the      *)
(* other end of each (server.c).                                           *)
(*                                                                         *)
(* Nothing in an answer says which request it answers: the client waits a  *)
(* second for it, and one that comes later, or that is not read to its     *)
(* end, is met by the next read on that connection.  A connection carries  *)
(* messages; what is left of one that was read in part is Rest.            *)
(***************************************************************************)
EXTENDS ChunkTable, SequencesExt

CONSTANTS
  Names,          \* the file names
  Hidden,         \* those that begin with a dot
  Arguments,      \* those a get may be given
  Garbled,        \* a name cut short, or bytes behind the buffer taken for one
  Layouts,        \* what the servers may have on disk
  Commands,       \* the commands to run
  NamesInBuffer,  \* how many names of a list come with one recv
  RequestsInBuffer,  \* how many requests one recv of handle_name_query takes: 7
  MaxStamp,       \* the greatest timestamp, 32 bits wide
  Faults          \* "split": a recv may give less than what was sent at once

ASSUME SessionAssumption ==
  /\ Hidden \subseteq Names /\ Arguments \subseteq Names
  /\ Garbled \notin Names
  /\ IsFiniteSet(Names)
  /\ Commands \subseteq {"list", "get"}
  /\ NamesInBuffer \in Nat /\ MaxStamp \in Nat
  /\ RequestsInBuffer \in Nat \ {0}
  /\ Faults \subseteq {"split"}
  /\ None \notin Nat

\* A server has a directory per file, and in it chunk files.  Which chunks it has is
\* a matter of each file's name.
ASSUME LayoutAssumption ==
  \A disk \in Layouts : \A s \in Servers :
    /\ DOMAIN disk[s] \subseteq Names
    /\ \A f \in DOMAIN disk[s] : \A e \in disk[s][f] :
         e \in (0..MaxStamp) \X Chunks

\* Puts of different files have different timestamps.
ASSUME StampsAssumption ==
  \A disk \in Layouts : \A s, r \in Servers : \A f \in DOMAIN disk[s], g \in DOMAIN disk[r] :
    f # g => \A d \in disk[s][f], e \in disk[r][g] : d[1] # e[1]

VARIABLES
  disk,       \* per server, a function from file names to the records of their chunks
  known,      \* server_address: the servers dfc.conf gives an address for
  linked,     \* sockets_to_server: the servers there is a socket to
  requests,   \* per server, what the client sent and no worker has read
  wire,       \* per server, answers sent and not read
  command,    \* list or get
  cstate,     \* idle, names, next, chunks, choose, fetch, done
  i,          \* the loop counter over servers or over chunks
  awaiting,   \* whether the client is in recv for the answer of its last request
  todo,       \* the name table from the current name on
  table,      \* the chunk table of the current name
  chosen,     \* the stamp of the set get fetches
  local,      \* per name, the chunks written to the local file
  verdict,    \* per name: none, complete, incomplete, ok, failed
  late        \* history: connections where an answer was not awaited to its end

serverVars == <<disk, requests, wire>>
fileVars == <<todo, table, chosen, local, verdict>>
vars == <<serverVars, known, linked, command, cstate, i, awaiting, fileVars, late>>

Request(kind, f, record) == [kind |-> kind, file |-> f, record |-> record]
Answer(kind, f, body) == [kind |-> kind, file |-> f, body |-> body]
Error == Answer("error", None, {})
Rest == Answer("rest", None, {})

\* What a worker has left of a request it read in part.
Spoilt == Request("spoilt", None, None)

Init ==
  /\ disk \in Layouts
  /\ known \in SUBSET Servers
  /\ linked = {}
  /\ requests = [s \in Servers |-> <<>>]
  /\ wire = [s \in Servers |-> <<>>]
  /\ command \in Commands
  /\ cstate = "idle"
  /\ i = 0
  /\ awaiting = FALSE
  /\ todo = <<>> /\ table = <<>> /\ chosen = None
  /\ local = [f \in Names |-> <<>>]
  /\ verdict = [f \in Names \cup {Garbled} |-> "none"]
  /\ late = {}

\* connect_to_servers: the sockets there are stay, some of the others come about.
Connect == linked' \in {linked \cup more : more \in SUBSET (known \ linked)}

\* main up to the call of the command: list starts from no names, get from its
\* arguments, each once and in their order.
Begin ==
  /\ cstate = "idle"
  /\ Connect
  /\ \/ /\ command = "list"
        /\ cstate' = "names"
        /\ UNCHANGED todo
     \/ /\ command = "get"
        /\ cstate' = "next"
        /\ \E args \in SUBSET Arguments : todo' \in SetToSeqs(args)
  /\ UNCHANGED <<serverVars, known, command, i, awaiting, table, chosen, local, verdict, late>>

Current == Head(todo)

\* The server the client talks to.
Peer == IF cstate = "fetch" THEN table[<<chosen, i>>] ELSE i

Send(s, r) ==
  /\ requests' = [requests EXCEPT ![s] = Append(@, r)]
  /\ awaiting' = TRUE
  /\ UNCHANGED <<disk, wire, known, linked, command, cstate, i, fileVars, late>>

\* The next turn of a loop over the servers.
NextServer ==
  IF i + 1 < N
  THEN i' = i + 1 /\ UNCHANGED cstate
  ELSE i' = 0 /\ cstate' = IF cstate = "names" THEN "next" ELSE "choose"

\* The command is done with the current name.
Conclude(v) ==
  /\ verdict' = [verdict EXCEPT ![Current] = v]
  /\ todo' = Tail(todo)
  /\ cstate' = "next"
  /\ i' = 0

\* What a recv leaves that does not find the header it expects: how many bytes it
\* takes, and of how many messages, is left open.
Leftovers(w) ==
  LET after(n) == SubSeq(w, n + 1, Len(w))
  IN {after(n) : n \in 1..Len(w)} \cup {<<Rest>> \o after(n) : n \in 1..Len(w)}

-----------------------------------------------------------------------------
(* Reading and giving up, common to all requests                           *)

\* The type of the answer to what was asked last.
Expects == [names |-> "name_list", chunks |-> "chunk_list", fetch |-> "chunk_data"]

\* list and the queries go on with the next server, a get of this name ends.
Fails ==
  /\ awaiting' = FALSE
  /\ IF cstate = "fetch"
     THEN Conclude("failed")
     ELSE NextServer /\ UNCHANGED <<todo, verdict>>
  /\ UNCHANGED <<disk, known, linked, requests, command, table, chosen, local>>

MutantTimeOut ==
  /\ awaiting
  /\ wire[Peer] = <<>> /\ requests[Peer] = <<>>
  /\ late' = late \cup {Peer}
  /\ Fails
  /\ UNCHANGED wire

\* Nothing has come for a second; the answer may come later.
TimeOut ==
  /\ awaiting
  /\ wire[Peer] = <<>>
  /\ late' = late \cup {Peer}
  /\ Fails
  /\ UNCHANGED wire

\* An error, which is a bare header, or what an earlier request has left.
ReadWrong ==
  /\ awaiting
  /\ wire[Peer] # <<>>
  /\ Head(wire[Peer]).kind # Expects[cstate]
  /\ \/ /\ wire[Peer] = <<Error>>
        /\ wire' = [wire EXCEPT ![Peer] = <<>>]
        /\ UNCHANGED late
     \/ /\ wire[Peer] # <<Error>> \/ "split" \in Faults
        /\ \E w \in Leftovers(wire[Peer]) : wire' = [wire EXCEPT ![Peer] = w]
        /\ late' = late \cup {Peer}
  /\ Fails

\* The answer is read to its end.
Takes(s) ==
  /\ wire' = [wire EXCEPT ![s] = Tail(@)]
  /\ UNCHANGED late

\* The rest of it stays where it is.
TakesPart(s) ==
  /\ wire' = [wire EXCEPT ![s] = <<Rest>> \o Tail(@)]
  /\ late' = late \cup {s}

\* The awaited answer, of the type expected, is there.
Finds(kind) ==
  /\ awaiting
  /\ wire[Peer] # <<>>
  /\ Head(wire[Peer]).kind = kind

\* No socket, nothing to ask.
SkipServer ==
  /\ cstate \in {"names", "chunks"}
  /\ ~awaiting
  /\ i \notin linked
  /\ NextServer
  /\ UNCHANGED <<serverVars, known, linked, command, awaiting, fileVars, late>>

-----------------------------------------------------------------------------
(* Names (query_file_names)                                                *)

AskNames ==
  /\ cstate = "names" /\ ~awaiting
  /\ i \in linked
  /\ Send(i, Request("name_query", None, None))

MutantAddNames(found) == todo' \in {todo \o new : new \in SetToSeqs(found)}

\* name_table_add, for the names of one list in their order, which is that of the
\* directory: names it has are not added again.
AddNames(found) == todo' \in {todo \o new : new \in SetToSeqs(found \ ToSet(todo))}

MutantReadNames ==
  /\ cstate = "names"
  /\ Finds("name_list")
  /\ \E part \in SUBSET Head(wire[i]).body :
       /\ Cardinality(part) = NamesInBuffer - 1 \/ part = Head(wire[i]).body
       /\ AddNames(part)
  /\ Takes(i)
  /\ awaiting' = FALSE
  /\ NextServer
  /\ UNCHANGED <<disk, known, linked, requests, command, table, chosen, local, verdict>>

\* All the names come from one recv.  A list that is not all there is taken for
\* its first names, the last one maybe cut; when it fills the buffer, names may be
\* found behind the buffer too.
ReadNames ==
  LET list == Head(wire[i]).body
      fits == Cardinality(list) <= NamesInBuffer
  IN /\ cstate = "names"
     /\ Finds("name_list")
     /\ \/ /\ fits
           /\ AddNames(list)
           /\ Takes(i)
        \/ /\ ~fits \/ "split" \in Faults
           /\ \E part \in SUBSET list, cut \in SUBSET {Garbled} :
                Cardinality(part) <= NamesInBuffer /\ AddNames(part \cup cut)
           /\ TakesPart(i)
     /\ awaiting' = FALSE
     /\ NextServer
     /\ UNCHANGED <<disk, known, linked, requests, command, table, chosen, local, verdict>>

-----------------------------------------------------------------------------
(* Chunks of one name (get_valid_chunk_set, query_chunk_info)              *)

MutantNextName ==
  /\ cstate = "next"
  /\ IF todo = <<>>
     THEN cstate' = "done" /\ UNCHANGED <<linked, table, chosen>>
     ELSE /\ cstate' = "chunks"
          /\ chosen' = None
          /\ UNCHANGED table
          /\ IF command = "list" THEN Connect ELSE UNCHANGED linked
  /\ UNCHANGED <<serverVars, known, command, i, awaiting, todo, local, verdict, late>>

\* The loop over the name table, in list and in main: a new chunk table for each
\* name.  list tries the servers it has no socket to again.
NextName ==
  /\ cstate = "next"
  /\ IF todo = <<>>
     THEN cstate' = "done" /\ UNCHANGED <<linked, table, chosen>>
     ELSE /\ cstate' = "chunks"
          /\ table' = <<>> /\ chosen' = None
          /\ IF command = "list" THEN Connect ELSE UNCHANGED linked
  /\ UNCHANGED <<serverVars, known, command, i, awaiting, todo, local, verdict, late>>

AskChunks ==
  /\ cstate = "chunks" /\ ~awaiting
  /\ i \in linked
  /\ Send(i, Request("chunk_query", Current, None))

MutantReadChunks ==
  /\ cstate = "chunks"
  /\ Finds("chunk_list")
  /\ table' = AddToTable(table, Head(wire[i]).body, i)
  /\ wire' = [wire EXCEPT ![i] = <<Rest>> \o Tail(@)]
  /\ awaiting' = FALSE
  /\ NextServer
  /\ UNCHANGED <<disk, known, linked, requests, command, todo, chosen, local, verdict, late>>

\* Record after record goes to the table, up to the end mark or to the first one
\* that does not come whole or in time.
ReadChunks ==
  LET list == Head(wire[i]).body
  IN /\ cstate = "chunks"
     /\ Finds("chunk_list")
     /\ \/ /\ table' = AddToTable(table, list, i)
           /\ Takes(i)
        \/ /\ "split" \in Faults
           /\ \E part \in SUBSET list : table' = AddToTable(table, part, i)
           /\ TakesPart(i)
     /\ awaiting' = FALSE
     /\ NextServer
     /\ UNCHANGED <<disk, known, linked, requests, command, todo, chosen, local, verdict>>

\* list prints the name, as incomplete when there is no valid set.
ListVerdict ==
  /\ cstate = "choose" /\ command = "list"
  /\ Conclude(IF FindLatestValidSet(table) = None THEN "incomplete" ELSE "complete")
  /\ UNCHANGED <<serverVars, known, linked, command, awaiting, table, chosen, local, late>>

-----------------------------------------------------------------------------
(* get_file                                                                *)

\* No valid set, or a local file that cannot be opened.
GetNothing ==
  /\ cstate = "choose" /\ command = "get"
  /\ \/ FindLatestValidSet(table) = None /\ Conclude("incomplete")
     \/ FindLatestValidSet(table) # None /\ Conclude("failed")
  /\ UNCHANGED <<serverVars, known, linked, command, awaiting, table, chosen, local, late>>

OpenLocal ==
  /\ cstate = "choose" /\ command = "get"
  /\ chosen' = FindLatestValidSet(table)
  /\ chosen' # None
  /\ cstate' = "fetch"
  /\ UNCHANGED <<serverVars, known, linked, command, i, awaiting, todo, table, local, verdict, late>>

\* A request for one chunk is a chunk_list of one record.
AskChunk ==
  /\ cstate = "fetch" /\ ~awaiting
  /\ Send(Peer, Request("chunk_list", Current, <<chosen, i>>))

MutantReadChunk ==
  /\ cstate = "fetch"
  /\ awaiting /\ wire[Peer] # <<>>
  /\ local' = [local EXCEPT ![Current] = Append(@, Head(wire[Peer]))]
  /\ Takes(Peer)
  /\ awaiting' = FALSE
  /\ IF i + 1 < N
     THEN i' = i + 1 /\ UNCHANGED <<todo, verdict, cstate>>
     ELSE Conclude("ok")
  /\ UNCHANGED <<disk, known, linked, requests, command, table, chosen>>

\* The chunk arrives whole: ChunkTransfer has its bytes.
ReadChunk ==
  /\ cstate = "fetch"
  /\ Finds("chunk_data")
  /\ local' = [local EXCEPT ![Current] = Append(@, Head(wire[Peer]))]
  /\ Takes(Peer)
  /\ awaiting' = FALSE
  /\ IF i + 1 < N
     THEN i' = i + 1 /\ UNCHANGED <<todo, verdict, cstate>>
     ELSE Conclude("ok")
  /\ UNCHANGED <<disk, known, linked, requests, command, table, chosen>>

-----------------------------------------------------------------------------
(* The servers' handlers.  One worker at a time has the connection.        *)

Asked(s, kind) == requests[s] # <<>> /\ Head(requests[s]).kind = kind

\* The worker answers, with unread left of the requests.
Reply(s, unread, a) ==
  /\ requests' = [requests EXCEPT ![s] = unread]
  /\ wire' = [wire EXCEPT ![s] = Append(@, a)]
  /\ UNCHANGED <<disk, known, linked, command, cstate, i, awaiting, fileVars, late>>

\* What one recv may leave of the requests r: it takes a buffer's worth of what has
\* arrived, the last request maybe in part.
Unread(r) ==
  LET after(n) == SubSeq(r, n + 1, Len(r))
      fit(n) == Cardinality({j \in 1..n : r[j] # Spoilt}) <= RequestsInBuffer
  IN {after(n) : n \in {k \in 1..Len(r) : fit(k)}} \cup
     {<<Spoilt>> \o after(n) : n \in {k \in 2..Len(r) :
        fit(k - 1) /\ (~fit(k) \/ "split" \in Faults)}}

\* The directories there are, without those that begin with a dot.
Listed(s) == DOMAIN disk[s] \ Hidden

\* Later requests go with the first.  The end of one and the beginning of the next
\* make a header too: with zeros behind a file name for its type, a name query, and
\* otherwise none that is answered.  The storage directory exists from the first
\* upload on.
HandleNameQuery(s) ==
  /\ \/ Asked(s, "name_query")
     \/ Asked(s, "spoilt") /\ Len(requests[s]) > 1
  /\ \E unread \in Unread(requests[s]) :
       \/ Reply(s, unread, Answer("name_list", None, Listed(s)))
       \/ DOMAIN disk[s] = {} /\ Reply(s, unread, Error)

\* The chunk files in the file's directory, or an error when it has none.
HandleChunkQuery(s) ==
  /\ Asked(s, "chunk_query")
  /\ LET f == Head(requests[s]).file
     IN \/ f \in DOMAIN disk[s] /\ Reply(s, Tail(requests[s]), Answer("chunk_list", f, disk[s][f]))
        \/ f \notin DOMAIN disk[s] /\ Reply(s, Tail(requests[s]), Error)

\* The named chunk file, or an error when it cannot be opened.
SendChunk(s) ==
  /\ Asked(s, "chunk_list")
  /\ LET f == Head(requests[s]).file
         r == Head(requests[s]).record
         opens == f \in DOMAIN disk[s] /\ r \in disk[s][f]
     IN \/ opens /\ Reply(s, Tail(requests[s]), Answer("chunk_data", f, {r}))
        \/ ~opens /\ Reply(s, Tail(requests[s]), Error)

-----------------------------------------------------------------------------
ClientStep ==
  \/ Begin \/ SkipServer \/ TimeOut \/ ReadWrong
  \/ AskNames \/ ReadNames
  \/ NextName \/ AskChunks \/ ReadChunks \/ ListVerdict
  \/ GetNothing \/ OpenLocal \/ AskChunk \/ ReadChunk

ServerStep(s) == HandleNameQuery(s) \/ HandleChunkQuery(s) \/ SendChunk(s)

Next == ClientStep \/ \E s \in Servers : ServerStep(s)

Spec == Init /\ [][Next]_vars

\* The client runs on, and its recv returns after a second at the latest.  The
\* servers promise nothing: one may be too slow, or busy with others, at any time.
FairSpec == Spec /\ WF_vars(ClientStep)

-----------------------------------------------------------------------------
(* Properties                                                              *)

FileNames == Names \cup {Garbled}
Stamps(f) == {e[1] : e \in UNION {disk[s][f] : s \in {r \in Servers : f \in DOMAIN disk[r]}}}
RecordsOn(s, f) == IF f \in DOMAIN disk[s] THEN disk[s][f] ELSE {}

\* The variables have the values the code gives them, and the name table has no
\* name twice.
TypeOK ==
  /\ disk \in Layouts
  /\ linked \subseteq known /\ known \subseteq Servers /\ late \subseteq linked
  /\ \A s \in Servers :
       /\ \A j \in DOMAIN requests[s] :
            /\ requests[s][j].kind \in {"name_query", "chunk_query", "chunk_list", "spoilt"}
            /\ requests[s][j].file \in FileNames \cup {None}
       /\ \A j \in DOMAIN wire[s] :
            wire[s][j].kind \in {"name_list", "chunk_list", "chunk_data", "error", "rest"}
  /\ cstate \in {"idle", "names", "next", "chunks", "choose", "fetch", "done"}
  /\ i \in 0..(N - 1) /\ awaiting \in BOOLEAN
  /\ awaiting => cstate \in {"names", "chunks", "fetch"} /\ Peer \in linked
  /\ \A j, l \in DOMAIN todo : todo[j] \in FileNames /\ (todo[j] = todo[l] => j = l)
  /\ cstate \in {"chunks", "choose", "fetch"} => todo # <<>>
  /\ \A e \in DOMAIN table : table[e] \in linked
  /\ cstate = "fetch" => \A c \in Chunks : <<chosen, c>> \in DOMAIN table
  /\ verdict \in [FileNames -> {"none", "complete", "incomplete", "ok", "failed"}]

\* What the client asked last.
LastRequest ==
  CASE cstate = "names" -> Request("name_query", None, None)
    [] cstate = "chunks" -> Request("chunk_query", Current, None)
    [] cstate = "fetch" -> Request("chunk_list", Current, <<chosen, i>>)

\* The answers a server may give to a request.
MayAnswer(s, r) ==
  {Error} \cup
  CASE r.kind = "name_query" -> {Answer("name_list", None, Listed(s))}
    [] r.kind = "chunk_query" -> {Answer("chunk_list", r.file, RecordsOn(s, r.file))}
    [] r.kind = "chunk_list" -> {Answer("chunk_data", r.file, {r.record})}

\* Requests and answers stay in step on a connection as long as no answer on it was
\* late or cut: it carries the one request that the client waits for, or the answer
\* to just that request, and otherwise nothing.
InStep ==
  \A s \in Servers \ late :
    IF awaiting /\ s = Peer
    THEN \/ requests[s] = <<LastRequest>> /\ wire[s] = <<>>
         \/ requests[s] = <<>> /\ \E a \in MayAnswer(s, LastRequest) : wire[s] = <<a>>
    ELSE requests[s] = <<>> /\ wire[s] = <<>>

\* The chunk table tells of the current file what its servers have.  Only an answer
\* on a connection where one was late or cut may be about another file, and that is
\* one the command has been through before; never is anything but a chunk record
\* taken for one, which would index chunk_set.chunks with any number.
TableTrue ==
  cstate \in {"chunks", "choose", "fetch"} => \A e \in DOMAIN table :
    \E f \in {Current} \cup {g \in Names : verdict[g] # "none"} :
      e \in RecordsOn(table[e], f) /\ (table[e] \notin late => f = Current)

\* Whatever was late, cut or mistaken for something else before, what get writes to
\* a local file are chunks of that file, of one version and in their order, and all
\* of them when it reports success.
GetsOwnFile ==
  \A f \in Names :
    /\ local[f] # <<>> => \E t \in Stamps(f) : \A j \in DOMAIN local[f] :
         /\ local[f][j] = Answer("chunk_data", f, {<<t, j - 1>>})
         /\ \E s \in Servers : <<t, j - 1>> \in RecordsOn(s, f)
    /\ verdict[f] = "ok" => Len(local[f]) = N

\* When list goes on to the chunks it has every name of every server whose list fits
\* one buffer and was neither late nor cut.  When that is so of all servers it has
\* just these names, else there may be one that no server has.  Of a longer list it
\* may lose any name: NameListRead.
NamesListed ==
  [][cstate = "names" /\ cstate' = "next" =>
       LET fits(s) == Cardinality(Listed(s)) <= NamesInBuffer
           good == {s \in linked \ late' : fits(s)}
       IN /\ \A s \in good : Listed(s) \subseteq ToSet(todo')
          /\ good = linked => ToSet(todo') = UNION {Listed(s) : s \in linked}]_vars

\* An answer longer than the buffer is read on: "incomplete name, move to start of
\* buffer and continue reading" (client.c).  So each name of a list is in the table
\* when the client is done with it.
NameListRead ==
  [][cstate = "names" /\ Finds("name_list") /\ ~awaiting' =>
       Head(wire[i]).body \subseteq ToSet(todo')]_vars

\* The versions of a file that are whole on the servers there is a socket to.
WholeSets(f) ==
  {t \in {e[1] : e \in UNION {RecordsOn(s, f) : s \in linked}} :
     \A c \in Chunks : \E s \in linked : <<t, c>> \in RecordsOn(s, f)}

\* With no answer late or cut, a name is called incomplete exactly when no version
\* is whole on the connected servers, a get that succeeds has the newest that is,
\* and it fails only for the local file.
VerdictRight ==
  [][\A f \in Names : verdict'[f] # verdict[f] /\ late' = {} =>
       /\ verdict'[f] = "incomplete" <=> WholeSets(f) = {}
       /\ verdict'[f] = "ok" =>
            \A j \in DOMAIN local'[f] : local'[f][j].body = {<<Max(WholeSets(f)), j - 1>>}
       /\ verdict'[f] = "failed" => cstate = "choose"]_vars

\* The command ends, however slow the servers are and whatever requests were
\* swallowed: no read waits for an answer for ever.
CommandEnds == cstate # "idle" ~> cstate = "done"

=============================================================================
