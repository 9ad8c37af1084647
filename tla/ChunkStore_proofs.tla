------------------------- MODULE ChunkStore_proofs -------------------------
(***************************************************************************)
(* Proofs about ChunkStore, for any number of servers, puts, gets and      *)
(* crashes.                                                                *)
(*                                                                         *)
(* StoreInv: the types of what puts and servers keep.                      *)
(* GetInv: the types of the gets' variables; every table entry names a     *)
(*   file that is there (TableOK), and what is chosen is the greatest      *)
(*   complete set of the table (ChosenOK).                                 *)
(* StoredInv: what is in a socket, a temp file or a chunk file belongs to  *)
(*   the put and chunk its name says, and to one of the chunk's servers.   *)
(* OnceInv: a chunk comes to a server once, and is there in one place.     *)
(* SentInv: every chunk sent is held by its server, unless the connection  *)
(*   broke or put knows that it failed.                                    *)
(* FetchedInv: what a get has fetched are the first chunks of its choice.  *)
(* AnswerInv: what was stored when the get began is still there; every     *)
(*   server the table names, and every server asked, that answered to the  *)
(*   end has all it had of it in the table.                                *)
(* SeenInv: the table has all of it whose chunks get has fetched so far.   *)
(* GetLeft, PutLeft, SaveLeft: how many steps are left.                    *)
(***************************************************************************)
EXTENDS ChunkStore, ChunkTable_proofs, Placement_proofs, TLAPS

\* The timestamps, as they go over the wire, are in the order of the puts.
StampsInOrder ==
  \A p, q \in Puts \cup Earlier : Stamp(p) <= Stamp(q) => p <= q

All == Puts \cup Earlier

-----------------------------------------------------------------------------
(* Data                                                                    *)

\* A content is what its fields say.
LEMMA ContentFields ==
  /\ \A p \in All, c \in Chunks, w \in BOOLEAN :
       /\ Content(p, c, w) \in Contents
       /\ Content(p, c, w).put = p /\ Content(p, c, w).chunk = c /\ Content(p, c, w).whole = w
  /\ \A x \in Contents :
       /\ x.put \in All /\ x.chunk \in Chunks /\ x.whole \in BOOLEAN
       /\ x = Content(x.put, x.chunk, x.whole)
BY DEF Contents, Content, All

\* A content of which a part is missing is of the same chunk.
LEMMA CutContent ==
  ASSUME NEW x \in Contents
  PROVE  /\ CutOff(x) \in Contents
         /\ CutOff(x).put = x.put /\ CutOff(x).chunk = x.chunk /\ CutOff(x).whole = FALSE
BY ContentFields DEF CutOff

\* A stamp is a natural number below StampMod.
LEMMA StampRange == \A p \in All : Stamp(p) \in 0..(StampMod - 1)
BY StoreAssumption DEF All, Stamp

\* A file name is a stamp and a chunk number.
LEMMA FileFields ==
  /\ \A p \in All, c \in Chunks : <<Stamp(p), c>> \in Files
  /\ \A f \in Files : f = <<f[1], f[2]>> /\ f[2] \in Chunks /\ f[1] \in 0..(StampMod - 1)
BY StampRange DEF Files, All

-----------------------------------------------------------------------------
(* The side of puts and servers                                            *)

\* The types of what puts and servers keep.
StoreInv ==
  /\ disk = [s \in Servers |-> disk[s]]
  /\ \A s \in Servers : PartialFunction(disk[s], Files, Contents)
  /\ running \subseteq Servers
  /\ crashes \in 0..MaxCrashes
  /\ linked \in [Clients -> SUBSET Servers]
  /\ alive \in [Clients -> SUBSET Servers]
  /\ inbox \in [Puts -> [Servers -> Seq(Contents)]]
  /\ saving \in [Puts -> [Servers -> Contents \cup {None}]]
  /\ pstate \in [Puts -> {"idle", "sending", "done", "dead"}]
  /\ sent \in [Puts -> 0..(2 * N)]
  /\ failed \in [Puts -> BOOLEAN]
  /\ \A p \in Puts : pstate[p] = "idle" => sent[p] = 0
  /\ \A p \in Puts : pstate[p] = "sending" => sent[p] < 2 * N

\* While a put sends, its next transfer is one of put_file's.
LEMMA NextTransfer ==
  ASSUME StoreInv, NEW p \in Puts, pstate[p] = "sending"
  PROVE  /\ sent[p] \in Transfers
         /\ Dest(sent[p]) \in Servers /\ ChunkSent(sent[p]) \in Chunks
         /\ Dest(sent[p]) \in Homes[ChunkSent(sent[p])]
<1>1. sent[p] \in Transfers
  BY PlacementAssumption DEF StoreInv, Transfers
<1> QED  BY <1>1, TransferTypes DEF Homes

\* A file added to those of a server.
LEMMA ExtendType ==
  ASSUME NEW f, NEW D, NEW R, PartialFunction(f, D, R), NEW x \in D, NEW y \in R
  PROVE  /\ PartialFunction(Extend(f, x, y), D, R)
         /\ DOMAIN Extend(f, x, y) = DOMAIN f \cup {x}
         /\ \A z \in DOMAIN f \cup {x} : Extend(f, x, y)[z] = IF z = x THEN y ELSE f[z]
BY DEF Extend, PartialFunction

\* The disks start with whole copies of the earlier puts, where put_file sends them.
LEMMA InitialDisk ==
  ASSUME Init, NEW s \in Servers
  PROVE  /\ DOMAIN disk[s] = EarlierFiles(s)
         /\ \A f \in EarlierFiles(s) : \E p \in Earlier, c \in Chunks :
              s \in Homes[c] /\ f = <<Stamp(p), c>> /\ disk[s][f] = Content(p, c, TRUE)
<1>1. disk[s] = [f \in EarlierFiles(s) |->
                   Content(CHOOSE p \in Earlier : Stamp(p) = f[1], f[2], TRUE)]
  BY DEF Init
<1>2. ASSUME NEW f \in EarlierFiles(s)
      PROVE  \E p \in Earlier, c \in Chunks :
               s \in Homes[c] /\ f = <<Stamp(p), c>> /\ disk[s][f] = Content(p, c, TRUE)
  <2>0. PICK p \in Earlier :
          f \in {<<Stamp(p), d>> : d \in {e \in Chunks : s \in Homes[e] /\ HasBytes(p, e)}}
    BY DEF EarlierFiles
  <2>1. PICK c \in Chunks : f = <<Stamp(p), c>> /\ s \in Homes[c]
    BY <2>0
  <2>2. f[1] = Stamp(p) /\ f[2] = c
    BY <2>1
  <2>3. (CHOOSE q \in Earlier : Stamp(q) = f[1]) = p
    BY <2>2, StoreAssumption
  <2>4. disk[s][f] = Content(p, c, TRUE)
    BY <1>1, <2>2, <2>3
  <2> QED  BY <2>1, <2>4
<1> QED  BY <1>1, <1>2

\* The types hold whatever puts and servers do.
LEMMA StoreInvInit == Init => StoreInv
<1> SUFFICES ASSUME Init PROVE StoreInv
  OBVIOUS
<1>1. \A s \in Servers : PartialFunction(disk[s], Files, Contents)
  <2> TAKE s \in Servers
  <2>1. \A f \in EarlierFiles(s) : f \in Files /\ disk[s][f] \in Contents
    <3> TAKE f \in EarlierFiles(s)
    <3>1. \E p \in Earlier, c \in Chunks : f = <<Stamp(p), c>> /\ disk[s][f] = Content(p, c, TRUE)
      BY InitialDisk
    <3>2. PICK p \in Earlier, c \in Chunks : f = <<Stamp(p), c>> /\ disk[s][f] = Content(p, c, TRUE)
      BY <3>1
    <3>3. p \in All /\ c \in Chunks /\ TRUE \in BOOLEAN
      BY DEF All
    <3>4. Content(p, c, TRUE) \in Contents /\ <<Stamp(p), c>> \in Files
      BY <3>3, ContentFields, FileFields
    <3> QED  BY <3>2, <3>4
  <2>2. disk[s] = [f \in EarlierFiles(s) |->
                     Content(CHOOSE p \in Earlier : Stamp(p) = f[1], f[2], TRUE)]
    BY DEF Init
  <2> QED  BY <2>1, <2>2 DEF PartialFunction
<1>2. <<>> \in Seq(Contents)
  OBVIOUS
<1>3. /\ linked \in [Clients -> SUBSET Servers]
      /\ alive \in [Clients -> SUBSET Servers]
      /\ inbox \in [Puts -> [Servers -> Seq(Contents)]]
      /\ saving \in [Puts -> [Servers -> Contents \cup {None}]]
      /\ running \subseteq Servers
  BY <1>2 DEF Init
<1>4. /\ crashes \in 0..MaxCrashes
      /\ pstate \in [Puts -> {"idle", "sending", "done", "dead"}]
      /\ sent \in [Puts -> 0..(2 * N)]
      /\ failed \in [Puts -> BOOLEAN]
      /\ \A p \in Puts : sent[p] = 0 /\ pstate[p] = "idle"
  BY StoreAssumption, PlacementAssumption DEF Init
<1>5. disk = [s \in Servers |-> disk[s]]
  BY DEF Init
<1> QED  BY <1>1, <1>3, <1>4, <1>5 DEF StoreInv

\* What a step leaves alone.
LEMMA StoreInvFrame ==
  ASSUME StoreInv, UNCHANGED <<disk, running, crashes, inbox, saving, putVars>>,
         linked' \in [Clients -> SUBSET Servers], alive' \in [Clients -> SUBSET Servers]
  PROVE  StoreInv'
BY DEF StoreInv, putVars

\* A connection is to servers that run.
LEMMA ConnectTypes ==
  ASSUME StoreInv, NEW c \in Clients, Connect(c)
  PROVE  linked' \in [Clients -> SUBSET Servers] /\ alive' \in [Clients -> SUBSET Servers]
BY DEF StoreInv, Connect

\* What a chunk sent adds to an inbox.
LEMMA DeliverTypes ==
  ASSUME StoreInv, NEW p \in Puts, NEW s \in Servers, NEW x \in Contents, Deliver(p, s, x)
  PROVE  inbox' \in [Puts -> [Servers -> Seq(Contents)]]
<1>1. Append(inbox[p][s], x) \in Seq(Contents)
  BY AppendSeq DEF StoreInv
<1> QED  BY <1>1 DEF StoreInv, Deliver

\* The types hold after every step.
LEMMA StoreInvStep == StoreInv /\ [Next]_vars => StoreInv'
<1> SUFFICES ASSUME StoreInv, [Next]_vars PROVE StoreInv'
  OBVIOUS
<1> USE DEF Clients
<1>1. ASSUME NEW p \in Puts, StartPut(p) PROVE StoreInv'
  <2>1. linked' \in [Clients -> SUBSET Servers] /\ alive' \in [Clients -> SUBSET Servers]
    BY <1>1, ConnectTypes DEF StartPut
  <2>2. 0 < 2 * N
    BY PlacementAssumption
  <2> QED
    BY <1>1, <2>1, <2>2 DEF StartPut, Connect, StoreInv, serverVars
<1>2. ASSUME NEW p \in Puts, SendChunk(p) PROVE StoreInv'
  <2>1. /\ pstate[p] = "sending" /\ sent' = [sent EXCEPT ![p] = sent[p] + 1]
        /\ pstate' = [pstate EXCEPT ![p] = IF sent[p] + 1 = 2 * N THEN "done" ELSE "sending"]
        /\ UNCHANGED <<disk, running, crashes, linked, alive, saving>>
    BY <1>2 DEF SendChunk, serverVars
  <2>2. Content(p, ChunkSent(sent[p]), TRUE) \in Contents
    BY <2>1, NextTransfer, ContentFields DEF All
  <2>3. inbox' \in [Puts -> [Servers -> Seq(Contents)]]
    BY <1>2, <2>1, <2>2, NextTransfer, DeliverTypes DEF SendChunk, StoreInv
  <2>4. failed' \in [Puts -> BOOLEAN]
    BY <1>2 DEF SendChunk, StoreInv
  <2>5. sent[p] + 1 \in 0..(2 * N)
    BY <2>1, NextTransfer, PlacementAssumption DEF Transfers
  <2>6. sent' \in [Puts -> 0..(2 * N)] /\ pstate' \in [Puts -> {"idle", "sending", "done", "dead"}]
    BY <2>1, <2>5 DEF StoreInv
  <2>7. \A q \in Puts : /\ pstate'[q] = "idle" => sent'[q] = 0
                        /\ pstate'[q] = "sending" => sent'[q] < 2 * N
    <3> TAKE q \in Puts
    <3>1. CASE q # p
      BY <2>1, <3>1 DEF StoreInv
    <3>2. CASE q = p
      <4>1. sent'[p] = sent[p] + 1
        BY <2>1 DEF StoreInv
      <4>2. pstate'[p] = IF sent[p] + 1 = 2 * N THEN "done" ELSE "sending"
        BY <2>1 DEF StoreInv
      <4>3. pstate'[p] # "idle"
        BY <4>2
      <4>4. pstate'[p] = "sending" => sent[p] + 1 < 2 * N
        <5>1. 2 * N \in Nat
          BY PlacementAssumption
        <5> QED  BY <2>5, <4>2, <5>1
      <4> QED  BY <3>2, <4>1, <4>3, <4>4
    <3> QED  BY <3>1, <3>2
  <2> QED  BY <2>1, <2>3, <2>4, <2>6, <2>7 DEF StoreInv
<1>3. ASSUME NEW p \in Puts, PutDies(p) PROVE StoreInv'
  <2>1. pstate[p] = "sending"
    BY <1>3 DEF PutDies
  <2>2. Content(p, ChunkSent(sent[p]), FALSE) \in Contents
    BY <2>1, NextTransfer, ContentFields DEF All
  <2>3. inbox' \in [Puts -> [Servers -> Seq(Contents)]]
    BY <1>3, <2>1, <2>2, NextTransfer, DeliverTypes DEF PutDies, StoreInv
  <2> QED  BY <1>3, <2>3 DEF PutDies, StoreInv, serverVars
<1>4. ASSUME NEW p \in Puts, NEW s \in Servers, BeginSave(p, s) PROVE StoreInv'
  <2>1. inbox[p][s] \in Seq(Contents) /\ inbox[p][s] # <<>>
    BY <1>4 DEF BeginSave, StoreInv
  <2>2. Head(inbox[p][s]) \in Contents /\ Tail(inbox[p][s]) \in Seq(Contents)
    BY <2>1, HeadTailSeq
  <2>3. inbox' \in [Puts -> [Servers -> Seq(Contents)]]
        /\ saving' \in [Puts -> [Servers -> Contents \cup {None}]]
    BY <1>4, <2>2 DEF BeginSave, StoreInv
  <2> QED  BY <1>4, <2>3 DEF BeginSave, StoreInv, serverVars, putVars
<1>5. ASSUME NEW p \in Puts, NEW s \in Servers, FinishSave(p, s) PROVE StoreInv'
  <2> DEFINE x == saving[p][s]
             d == Extend(disk[s], <<Stamp(p), x.chunk>>, x)
  <2>1. x \in Contents /\ <<Stamp(p), x.chunk>> \in Files
    BY <1>5, ContentFields, FileFields DEF FinishSave, StoreInv, All
  <2>2. PartialFunction(d, Files, Contents)
    BY <2>1, ExtendType DEF StoreInv
  <2>3. disk' = [disk EXCEPT ![s] = d]
    BY <1>5 DEF FinishSave
  <2>4. disk' = [t \in Servers |-> disk'[t]] /\ \A t \in Servers : PartialFunction(disk'[t], Files, Contents)
    <3> HIDE DEF d
    <3> QED  BY <2>2, <2>3 DEF StoreInv
  <2>5. saving' \in [Puts -> [Servers -> Contents \cup {None}]]
    BY <1>5 DEF FinishSave, StoreInv
  <2> QED  BY <1>5, <2>4, <2>5 DEF FinishSave, StoreInv, putVars
<1>6. ASSUME NEW s \in Servers, Crash(s) PROVE StoreInv'
  <2>1. <<>> \in Seq(Contents)
    OBVIOUS
  <2>2. inbox' \in [Puts -> [Servers -> Seq(Contents)]]
        /\ saving' \in [Puts -> [Servers -> Contents \cup {None}]]
    BY <1>6, <2>1 DEF Crash, StoreInv
  <2>3. alive' \in [Clients -> SUBSET Servers] /\ running' \subseteq Servers
        /\ crashes' \in 0..MaxCrashes
    BY <1>6, StoreAssumption DEF Crash, StoreInv
  <2> QED  BY <1>6, <2>2, <2>3 DEF Crash, StoreInv, putVars
<1>6a. ASSUME NEW p \in Puts, NEW s \in Servers, RefuseSave(p, s) PROVE StoreInv'
  <2>1. <<>> \in Seq(Contents)
    OBVIOUS
  <2>2. inbox' \in [Puts -> [Servers -> Seq(Contents)]]
    BY <1>6a, <2>1 DEF RefuseSave, StoreInv
  <2>3. alive' \in [Clients -> SUBSET Servers]
    BY <1>6a DEF RefuseSave, StoreInv
  <2> QED  BY <1>6a, <2>2, <2>3 DEF RefuseSave, StoreInv, serverVars, putVars
<1>7. ASSUME NEW s \in Servers, Restart(s) PROVE StoreInv'
  BY <1>7 DEF Restart, StoreInv, linkVars, putVars
<1>8. ASSUME NEW g \in Gets, StartGet(g) PROVE StoreInv'
  BY <1>8, ConnectTypes, StoreInvFrame DEF StartGet, Connect, serverVars
<1>9. ASSUME NEW g \in Gets, GetStep(g) PROVE StoreInv'
  <2>1. UNCHANGED <<serverVars, linkVars, putVars>>
    BY <1>9 DEF GetStep, Query, QueryFails, QueryIsCut, Choose, Fetch, FetchCut, FetchFails
  <2> QED  BY <2>1 DEF StoreInv, serverVars, linkVars, putVars
<1>10. CASE UNCHANGED vars
  BY <1>10 DEF vars, StoreInv, serverVars, linkVars, putVars
<1> QED
  BY <1>1, <1>2, <1>3, <1>4, <1>5, <1>6, <1>6a, <1>7, <1>8, <1>9, <1>10
  DEF Next, PutStep, SaveStep

\* The types of what puts and servers keep.
THEOREM StoreStoreInv == Spec => []StoreInv
BY StoreInvInit, StoreInvStep, PTL DEF Spec

\* A chunk file, once published, keeps its name.
LEMMA DiskGrows ==
  ASSUME StoreInv, [Next]_vars
  PROVE  \A s \in Servers : DOMAIN disk[s] \subseteq DOMAIN disk'[s]
<1>1. ASSUME NEW p \in Puts, NEW t \in Servers, FinishSave(p, t), NEW s \in Servers
      PROVE  DOMAIN disk[s] \subseteq DOMAIN disk'[s]
  <2> DEFINE d == Extend(disk[t], <<Stamp(p), saving[p][t].chunk>>, saving[p][t])
  <2>1. disk' = [disk EXCEPT ![t] = d]
    BY <1>1 DEF FinishSave
  <2>2. DOMAIN disk[t] \subseteq DOMAIN d
    BY DEF Extend
  <2> HIDE DEF d
  <2> QED  BY <2>1, <2>2 DEF StoreInv
<1>2. CASE UNCHANGED disk
  BY <1>2
<1>3. ASSUME NEW p \in Puts, PutStep(p) PROVE UNCHANGED disk
  BY <1>3 DEF PutStep, StartPut, SendChunk, PutDies, serverVars
<1>4. ASSUME NEW p \in Puts, NEW t \in Servers, BeginSave(p, t) \/ RefuseSave(p, t)
      PROVE  UNCHANGED disk
  BY <1>4 DEF BeginSave, RefuseSave, serverVars
<1>5. ASSUME NEW g \in Gets, StartGet(g) \/ GetStep(g) PROVE UNCHANGED disk
  BY <1>5 DEF StartGet, GetStep, Query, QueryFails, QueryIsCut, Choose, Fetch, FetchCut, FetchFails, serverVars
<1>6. ASSUME NEW t \in Servers, Crash(t) \/ Restart(t) PROVE UNCHANGED disk
  BY <1>6 DEF Crash, Restart
<1>7. CASE UNCHANGED vars
  BY <1>7 DEF vars, serverVars
<1> QED  BY <1>1, <1>2, <1>3, <1>4, <1>5, <1>6, <1>7 DEF Next, SaveStep

\* Puts and servers leave the gets' variables alone; a crash takes connections away.
LEMMA GetsFrame ==
  ASSUME StoreInv,
         \/ \E p \in Puts : PutStep(p) \/ \E s \in Servers : SaveStep(p, s)
         \/ \E s \in Servers : Crash(s) \/ Restart(s)
         \/ UNCHANGED vars
  PROVE  /\ UNCHANGED getVars
         /\ \A g \in Gets : linked'[g] = linked[g] /\ alive'[g] \subseteq alive[g]
<1> USE DEF Clients
<1>1. ASSUME NEW p \in Puts, StartPut(p)
      PROVE  UNCHANGED getVars /\ \A g \in Gets : linked'[g] = linked[g] /\ alive'[g] = alive[g]
  <2>1. \A g \in Gets : g # p
    BY StoreAssumption
  <2> QED  BY <1>1, <2>1 DEF StartPut, Connect, StoreInv
<1>2. ASSUME NEW p \in Puts, SendChunk(p) \/ PutDies(p)
      PROVE  UNCHANGED getVars /\ UNCHANGED <<linked, alive>>
  BY <1>2 DEF SendChunk, PutDies
<1>3. ASSUME NEW p \in Puts, NEW s \in Servers, SaveStep(p, s)
      PROVE  UNCHANGED getVars /\ \A g \in Gets : linked'[g] = linked[g] /\ alive'[g] = alive[g]
  <2>1. CASE BeginSave(p, s) \/ FinishSave(p, s)
    BY <2>1 DEF BeginSave, FinishSave
  <2>2. CASE RefuseSave(p, s)
    <3>1. \A g \in Gets : g # p
      BY StoreAssumption
    <3> QED  BY <2>2, <3>1 DEF RefuseSave, StoreInv
  <2> QED  BY <1>3, <2>1, <2>2 DEF SaveStep
<1>4. ASSUME NEW s \in Servers, Crash(s)
      PROVE  UNCHANGED getVars /\ UNCHANGED linked /\ \A g \in Gets : alive'[g] = alive[g] \ {s}
  BY <1>4 DEF Crash
<1>5. ASSUME NEW s \in Servers, Restart(s)
      PROVE  UNCHANGED getVars /\ UNCHANGED <<linked, alive>>
  BY <1>5 DEF Restart, linkVars
<1>6. CASE UNCHANGED vars
  BY <1>6 DEF vars, linkVars
<1> QED  BY <1>1, <1>2, <1>3, <1>4, <1>5, <1>6 DEF PutStep

-----------------------------------------------------------------------------
(* The side of gets                                                        *)

\* The stamps of the complete sets of a table, the greatest, and when a stamp is one.
LEMMA ValidSetsType ==
  ASSUME NEW t, PartialFunction(t, Files, Servers)
  PROVE  /\ ValidSets(t) \subseteq {Stamp(p) : p \in All}
         /\ \A v \in ValidSets(t), c \in Chunks : <<v, c>> \in DOMAIN t
         /\ \A v : (\A c \in Chunks : <<v, c>> \in DOMAIN t) => v \in ValidSets(t)
         /\ ValidSets(t) # {} =>
              /\ Max(ValidSets(t)) \in ValidSets(t)
              /\ \A v \in ValidSets(t) : v <= Max(ValidSets(t))
<1>1. ASSUME NEW v \in ValidSets(t)
      PROVE  v \in {Stamp(p) : p \in All} /\ \A c \in Chunks : <<v, c>> \in DOMAIN t
  <2>1. PICK f \in DOMAIN t : f[1] = v /\ \A c \in Chunks : <<f[1], c>> \in DOMAIN t
    BY DEF ValidSets
  <2>2. f \in Files
    BY <2>1 DEF PartialFunction
  <2> QED  BY <2>1, <2>2 DEF Files, All
<1>2. ASSUME NEW v, \A c \in Chunks : <<v, c>> \in DOMAIN t
      PROVE  v \in ValidSets(t)
  <2>1. 0 \in Chunks
    BY PlacementAssumption DEF Chunks
  <2>2. <<v, 0>> \in DOMAIN t /\ <<v, 0>>[1] = v
    BY <1>2, <2>1
  <2> QED  BY <1>2, <2>2 DEF ValidSets
<1>3. ValidSets(t) \subseteq 0..(StampMod - 1)
  BY <1>1, StampRange
<1>4. StampMod - 1 \in Nat
  BY StoreAssumption
<1>5. ValidSets(t) # {} => /\ Max(ValidSets(t)) \in ValidSets(t)
                           /\ \A v \in ValidSets(t) : v <= Max(ValidSets(t))
  BY <1>3, <1>4, MaxExists
<1> QED  BY <1>1, <1>2, <1>5

\* A chunk list added to a table.
LEMMA AddToTableType ==
  ASSUME NEW t, PartialFunction(t, Files, Servers), NEW files, files \subseteq Files,
         NEW s \in Servers
  PROVE  /\ PartialFunction(AddToTable(t, files, s), Files, Servers)
         /\ DOMAIN AddToTable(t, files, s) = DOMAIN t \cup files
         /\ \A f \in DOMAIN t \cup files :
              AddToTable(t, files, s)[f] = IF f \in files THEN s ELSE t[f]
BY DEF AddToTable, PartialFunction

\* The types of the gets' variables.
GetTypes ==
  /\ gstate \in [Gets -> {"idle", "query", "choose", "fetch", "ok", "incomplete", "failed"}]
  /\ asked \in [Gets -> 0..N]
  /\ table = [g \in Gets |-> table[g]]
  /\ \A g \in Gets : PartialFunction(table[g], Files, Servers)
  /\ stale \in [Gets -> SUBSET Servers]
  /\ chosen \in [Gets -> {Stamp(p) : p \in Puts \cup Earlier} \cup {None}]
  /\ fetched \in [Gets -> Seq(Contents)]
  /\ settled \in [Gets -> SUBSET (Puts \cup Earlier)]

\* Every entry of the table names a file that is there.
TableOK(g) == \A f \in DOMAIN table[g] : f \in DOMAIN disk[table[g][f]]

\* How far the get is, and what it has chosen.
ChosenOK(g) ==
  /\ gstate[g] \in {"idle", "query"} => asked[g] < N
  /\ gstate[g] \in {"fetch", "ok"} =>
       ValidSets(table[g]) # {} /\ chosen[g] = Max(ValidSets(table[g]))
  /\ gstate[g] = "fetch" => Len(fetched[g]) < N
  /\ gstate[g] = "ok" => Len(fetched[g]) = N
  /\ gstate[g] \in {"idle", "query", "choose", "incomplete"} => fetched[g] = <<>>

GetInv == GetTypes /\ \A g \in Gets : TableOK(g) /\ ChosenOK(g)

\* A get that fetches asks for a chunk of the file, a server that has it.
LEMMA NextSource ==
  ASSUME StoreInv, GetInv, NEW g \in Gets, gstate[g] = "fetch"
  PROVE  /\ Len(fetched[g]) \in Chunks /\ fetched[g] \in Seq(Contents)
         /\ <<chosen[g], Len(fetched[g])>> \in DOMAIN table[g]
         /\ Source(g) \in Servers
         /\ <<chosen[g], Len(fetched[g])>> \in DOMAIN disk[Source(g)]
         /\ disk[Source(g)][<<chosen[g], Len(fetched[g])>>] \in Contents
<1>1. fetched[g] \in Seq(Contents) /\ Len(fetched[g]) < N /\ PartialFunction(table[g], Files, Servers)
  BY DEF GetInv, GetTypes, ChosenOK
<1>2. Len(fetched[g]) \in Chunks
  BY <1>1, PlacementAssumption DEF Chunks
<1>3. chosen[g] \in ValidSets(table[g])
  BY <1>1, ValidSetsType DEF GetInv, ChosenOK
<1>4. <<chosen[g], Len(fetched[g])>> \in DOMAIN table[g]
  BY <1>1, <1>2, <1>3, ValidSetsType
<1>5. Source(g) \in Servers /\ <<chosen[g], Len(fetched[g])>> \in DOMAIN disk[Source(g)]
  BY <1>1, <1>4 DEF Source, PartialFunction, GetInv, TableOK
<1>6. disk[Source(g)][<<chosen[g], Len(fetched[g])>>] \in Contents
  BY <1>5 DEF StoreInv, PartialFunction
<1> QED  BY <1>1, <1>2, <1>4, <1>5, <1>6

\* Nothing is chosen or fetched at the start.
LEMMA GetInvInit == Init => GetInv
<1> SUFFICES ASSUME Init PROVE GetInv
  OBVIOUS
<1>1. 0 \in 0..N /\ 0 < N
  BY PlacementAssumption
<1>2. <<>> \in Seq(Contents) /\ PartialFunction(<<>>, Files, Servers) /\ DOMAIN <<>> = {}
  BY DEF PartialFunction
<1>3. \A g \in Gets : table[g] = <<>> /\ fetched[g] = <<>> /\ gstate[g] = "idle" /\ asked[g] = 0
  BY DEF Init
<1>4. GetTypes
  <2>1. table = [g \in Gets |-> table[g]] /\ \A g \in Gets : PartialFunction(table[g], Files, Servers)
    <3>1. table = [g \in Gets |-> <<>>]
      BY DEF Init
    <3> QED  BY <3>1, <1>2
  <2> QED  BY <1>1, <1>2, <2>1 DEF Init, GetTypes
<1>5. \A g \in Gets : TableOK(g) /\ ChosenOK(g)
  BY <1>1, <1>2, <1>3 DEF TableOK, ChosenOK
<1> QED  BY <1>4, <1>5 DEF GetInv

\* A get's step leaves the disks alone, and the other gets.
LEMMA GetFrame ==
  ASSUME StoreInv, GetInv, NEW g \in Gets, StartGet(g) \/ GetStep(g)
  PROVE  /\ UNCHANGED <<disk, running, crashes, inbox, saving, putVars>>
         /\ \A h \in Gets : h # g =>
              /\ gstate'[h] = gstate[h] /\ asked'[h] = asked[h] /\ table'[h] = table[h]
              /\ stale'[h] = stale[h] /\ chosen'[h] = chosen[h] /\ fetched'[h] = fetched[h]
              /\ settled'[h] = settled[h] /\ linked'[h] = linked[h] /\ alive'[h] = alive[h]
<1> USE DEF GetInv, GetTypes, StoreInv, Clients
<1>1. CASE StartGet(g)
  BY <1>1 DEF StartGet, Connect, serverVars
<1>2. CASE Query(g) \/ QueryFails(g) \/ QueryIsCut(g)
  BY <1>2 DEF Query, QueryFails, QueryIsCut, AsksNext, serverVars, linkVars
<1>3. CASE Choose(g)
  BY <1>3 DEF Choose, serverVars, linkVars
<1>4. CASE Fetch(g)
  BY <1>4 DEF Fetch, serverVars, linkVars
<1>5. CASE FetchCut(g)
  BY <1>5 DEF FetchCut, serverVars, linkVars
<1>6. CASE FetchFails(g)
  BY <1>6 DEF FetchFails, serverVars, linkVars
<1> QED  BY <1>1, <1>2, <1>3, <1>4, <1>5, <1>6 DEF GetStep

\* What is known of one get holds while its own variables stay and files only come.
LEMMA OtherGet ==
  ASSUME StoreInv, GetInv, NEW h \in Gets, gstate'[h] = gstate[h], asked'[h] = asked[h],
         table'[h] = table[h], chosen'[h] = chosen[h], fetched'[h] = fetched[h],
         \A s \in Servers : DOMAIN disk[s] \subseteq DOMAIN disk'[s]
  PROVE  TableOK(h)' /\ ChosenOK(h)'
<1>1. \A f \in DOMAIN table[h] : table[h][f] \in Servers
  BY DEF GetInv, GetTypes, PartialFunction
<1> QED  BY <1>1 DEF GetInv, TableOK, ChosenOK

\* The next server is asked, or the queries end.
LEMMA AsksNextTypes ==
  ASSUME GetInv, NEW g \in Gets, gstate[g] = "query", AsksNext(g)
  PROVE  /\ asked' \in [Gets -> 0..N]
         /\ gstate' \in [Gets -> {"idle", "query", "choose", "fetch", "ok", "incomplete", "failed"}]
         /\ asked[g] \in Servers /\ asked'[g] = asked[g] + 1
         /\ \/ gstate'[g] = "query" /\ asked'[g] < N
            \/ gstate'[g] = "choose" /\ asked'[g] = N
<1>1. asked[g] \in 0..N /\ asked[g] < N
  BY DEF GetInv, GetTypes, ChosenOK
<1>2. asked[g] \in Servers /\ asked[g] + 1 \in 0..N
  BY <1>1, PlacementAssumption DEF Servers
<1>3. asked' \in [Gets -> 0..N] /\ asked'[g] = asked[g] + 1
  BY <1>2 DEF AsksNext, GetInv, GetTypes
<1>4. gstate'[g] = IF asked[g] + 1 = N THEN "choose" ELSE "query"
  BY DEF AsksNext, GetInv, GetTypes
<1>5. gstate' \in [Gets -> {"idle", "query", "choose", "fetch", "ok", "incomplete", "failed"}]
  BY DEF AsksNext, GetInv, GetTypes
<1> QED  BY <1>1, <1>2, <1>3, <1>4, <1>5, PlacementAssumption

\* A server's answer, whole or in part, leaves a table of files that are there.
LEMMA AnswerTypes ==
  ASSUME StoreInv, GetInv, NEW g \in Gets, NEW s \in Servers,
         NEW files, files \subseteq DOMAIN disk[s], UNCHANGED disk,
         table' = [table EXCEPT ![g] = AddToTable(table[g], files, s)]
  PROVE  /\ table' = [h \in Gets |-> table'[h]]
         /\ \A h \in Gets : PartialFunction(table'[h], Files, Servers)
         /\ TableOK(g)'
         /\ DOMAIN table'[g] = DOMAIN table[g] \cup files
         /\ \A f \in DOMAIN table[g] \cup files :
              table'[g][f] = IF f \in files THEN s ELSE table[g][f]
<1> DEFINE a == AddToTable(table[g], files, s)
<1>1. PartialFunction(table[g], Files, Servers) /\ files \subseteq Files
  BY DEF StoreInv, GetInv, GetTypes, PartialFunction
<1>2. /\ PartialFunction(a, Files, Servers)
      /\ DOMAIN a = DOMAIN table[g] \cup files
      /\ \A f \in DOMAIN table[g] \cup files : a[f] = IF f \in files THEN s ELSE table[g][f]
  BY <1>1, AddToTableType
<1>3. table' = [table EXCEPT ![g] = a]
  OBVIOUS
<1> HIDE DEF a
<1>4. table'[g] = a /\ \A h \in Gets : h # g => table'[h] = table[h]
  BY <1>3 DEF GetInv, GetTypes
<1>5. table' = [h \in Gets |-> table'[h]] /\ \A h \in Gets : PartialFunction(table'[h], Files, Servers)
  BY <1>2, <1>3, <1>4 DEF GetInv, GetTypes
<1>6. \A f \in DOMAIN a : f \in DOMAIN disk[a[f]]
  BY <1>2 DEF GetInv, TableOK
<1>7. TableOK(g)'
  BY <1>4, <1>6 DEF TableOK
<1> QED  BY <1>2, <1>4, <1>5, <1>7

\* A get's step keeps its types, its table and its choice in order.
LEMMA GetInvStep ==
  StoreInv /\ GetInv /\ [Next]_vars => GetInv'
<1> SUFFICES ASSUME StoreInv, GetInv, [Next]_vars PROVE GetInv'
  OBVIOUS
<1>0. \A s \in Servers : DOMAIN disk[s] \subseteq DOMAIN disk'[s]
  BY DiskGrows
<1>1. CASE UNCHANGED getVars
  <2>1. GetTypes'
    BY <1>1 DEF GetInv, GetTypes, getVars
  <2>2. \A h \in Gets : TableOK(h)' /\ ChosenOK(h)'
    BY <1>0, <1>1, OtherGet DEF getVars
  <2> QED  BY <2>1, <2>2 DEF GetInv
<1>2. ASSUME NEW g \in Gets, StartGet(g) \/ GetStep(g), GetTypes', TableOK(g)', ChosenOK(g)'
      PROVE  GetInv'
  <2>1. \A h \in Gets : h # g => TableOK(h)' /\ ChosenOK(h)'
    BY <1>0, <1>2, GetFrame, OtherGet
  <2> QED  BY <1>2, <2>1 DEF GetInv
<1>3. ASSUME NEW g \in Gets, StartGet(g) PROVE GetInv'
  <2>1. {p \in Puts \cup Earlier : Replicated(p)} \in SUBSET (Puts \cup Earlier)
    OBVIOUS
  <2>2. GetTypes'
    BY <1>3, <2>1 DEF StartGet, GetInv, GetTypes
  <2>3. TableOK(g)' /\ ChosenOK(g)'
    BY <1>3 DEF StartGet, GetInv, GetTypes, TableOK, ChosenOK, serverVars
  <2> QED  BY <1>2, <1>3, <2>2, <2>3
<1>4. ASSUME NEW g \in Gets, Query(g) \/ QueryFails(g) \/ QueryIsCut(g) PROVE GetInv'
  <2>1. gstate[g] = "query" /\ AsksNext(g) /\ UNCHANGED <<disk, chosen, fetched, settled>>
    BY <1>4 DEF Query, QueryFails, QueryIsCut, serverVars
  <2>2. /\ asked' \in [Gets -> 0..N] /\ asked[g] \in Servers
        /\ gstate' \in [Gets -> {"idle", "query", "choose", "fetch", "ok", "incomplete", "failed"}]
        /\ \/ gstate'[g] = "query" /\ asked'[g] < N
           \/ gstate'[g] = "choose"
    BY <2>1, AsksNextTypes
  <2>3. ChosenOK(g)'
    BY <2>1, <2>2 DEF GetInv, ChosenOK
  <2>4. stale' \in [Gets -> SUBSET Servers]
    <3>1. stale' = stale \/ stale' = [stale EXCEPT ![g] = stale[g] \cup {asked[g]}]
      BY <1>4 DEF Query, QueryFails, QueryIsCut
    <3>2. stale[g] \cup {asked[g]} \in SUBSET Servers /\ stale \in [Gets -> SUBSET Servers]
      BY <2>2 DEF GetInv, GetTypes
    <3> QED  BY <3>1, <3>2
  <2>5. /\ table' = [h \in Gets |-> table'[h]]
        /\ \A h \in Gets : PartialFunction(table'[h], Files, Servers)
        /\ TableOK(g)'
    <3>1. CASE Query(g)
      <4>1. table' = [table EXCEPT ![g] = AddToTable(table[g], DOMAIN disk[asked[g]], asked[g])]
        BY <3>1 DEF Query
      <4>2. DOMAIN disk[asked[g]] \subseteq DOMAIN disk[asked[g]] /\ asked[g] \in Servers /\ disk' = disk
        BY <2>1, <2>2
      <4> QED  BY <4>1, <4>2, AnswerTypes, Zenon
    <3>2. CASE QueryIsCut(g)
      <4>1. PICK part \in SUBSET DOMAIN disk[asked[g]] :
              table' = [table EXCEPT ![g] = AddToTable(table[g], part, asked[g])]
        BY <3>2 DEF QueryIsCut
      <4>2. part \subseteq DOMAIN disk[asked[g]] /\ asked[g] \in Servers /\ disk' = disk
        BY <2>1, <2>2
      <4> QED  BY <4>1, <4>2, AnswerTypes, Zenon
    <3>3. CASE QueryFails(g)
      BY <2>1, <3>3 DEF QueryFails, GetInv, GetTypes, TableOK
    <3> QED  BY <1>4, <3>1, <3>2, <3>3
  <2>6. GetTypes'
    BY <2>1, <2>2, <2>4, <2>5 DEF GetInv, GetTypes
  <2> QED  BY <1>2, <1>4, <2>3, <2>5, <2>6 DEF GetStep
<1>5. ASSUME NEW g \in Gets, Choose(g) PROVE GetInv'
  <2> DEFINE found == FindLatestValidSet(table[g])
  <2>1. /\ gstate[g] = "choose" /\ chosen' = [chosen EXCEPT ![g] = found]
        /\ gstate' = [gstate EXCEPT ![g] = IF found = None THEN "incomplete" ELSE "fetch"]
        /\ UNCHANGED <<disk, asked, table, stale, fetched, settled>>
    BY <1>5 DEF Choose, serverVars
  <2>2. /\ found \in {Stamp(p) : p \in Puts \cup Earlier} \cup {None}
        /\ found # None => ValidSets(table[g]) # {} /\ found = Max(ValidSets(table[g]))
    BY ValidSetsType DEF FindLatestValidSet, GetInv, GetTypes, All
  <2> HIDE DEF found
  <2>3. GetTypes'
    BY <2>1, <2>2 DEF GetInv, GetTypes
  <2>4. gstate'[g] = (IF found = None THEN "incomplete" ELSE "fetch") /\ chosen'[g] = found
    BY <2>1 DEF GetInv, GetTypes
  <2>5. fetched[g] = <<>> /\ Len(fetched[g]) < N
    BY <2>1, PlacementAssumption DEF GetInv, ChosenOK
  <2>6. ChosenOK(g)'
    BY <2>1, <2>2, <2>4, <2>5 DEF ChosenOK
  <2>7. TableOK(g)'
    BY <2>1 DEF GetInv, TableOK
  <2> QED  BY <1>2, <1>5, <2>3, <2>6, <2>7 DEF GetStep
<1>6. ASSUME NEW g \in Gets, Fetch(g) \/ FetchCut(g) PROVE GetInv'
  <2> DEFINE y == disk[Source(g)][<<chosen[g], Len(fetched[g])>>]
  <2>0. gstate[g] = "fetch" /\ y \in Contents /\ CutOff(y) \in Contents
    <3>1. gstate[g] = "fetch"
      BY <1>6 DEF Fetch, FetchCut
    <3>2. y \in Contents
      BY <3>1, NextSource
    <3> QED  BY <3>1, <3>2, CutContent
  <2>1. PICK x \in {y, CutOff(y)} :
          /\ fetched' = [fetched EXCEPT ![g] = Append(fetched[g], x)]
          /\ gstate' = [gstate EXCEPT ![g] = IF Len(fetched[g]) + 1 = N THEN "ok" ELSE "fetch"]
          /\ UNCHANGED <<disk, asked, table, chosen, settled>>
    BY <1>6 DEF Fetch, FetchCut, serverVars
  <2>2. x \in Contents /\ fetched[g] \in Seq(Contents) /\ Len(fetched[g]) \in Chunks
    BY <2>0, <2>1, NextSource
  <2>2a. stale' \in [Gets -> SUBSET Servers]
    <3>1. stale' = stale \/ stale' = [stale EXCEPT ![g] = stale[g] \cup {Source(g)}]
      BY <1>6 DEF Fetch, FetchCut
    <3>2. Source(g) \in Servers /\ stale \in [Gets -> SUBSET Servers]
      BY <2>0, NextSource DEF GetInv, GetTypes
    <3>3. stale[g] \cup {Source(g)} \in SUBSET Servers
      BY <3>2
    <3> QED  BY <3>1, <3>2, <3>3
  <2> HIDE DEF y
  <2>3. Append(fetched[g], x) \in Seq(Contents) /\ Len(Append(fetched[g], x)) = Len(fetched[g]) + 1
    BY <2>2, AppendSeq
  <2>4. GetTypes'
    BY <2>1, <2>2a, <2>3 DEF GetInv, GetTypes
  <2>5. /\ fetched'[g] = Append(fetched[g], x)
        /\ gstate'[g] = IF Len(fetched[g]) + 1 = N THEN "ok" ELSE "fetch"
    BY <2>1 DEF GetInv, GetTypes
  <2>6. Len(fetched[g]) + 1 = N \/ Len(fetched[g]) + 1 < N
    BY <2>2, PlacementAssumption DEF Chunks
  <2>7. ChosenOK(g)'
    <3>1. ValidSets(table[g]) # {} /\ chosen[g] = Max(ValidSets(table[g]))
      BY <2>0 DEF GetInv, ChosenOK
    <3>2. table'[g] = table[g] /\ chosen'[g] = chosen[g]
      BY <2>1
    <3>3. Len(fetched'[g]) = Len(fetched[g]) + 1
      BY <2>3, <2>5
    <3> QED  BY <2>5, <2>6, <3>1, <3>2, <3>3 DEF ChosenOK
  <2>8. TableOK(g)'
    BY <2>1 DEF GetInv, TableOK
  <2> QED  BY <1>2, <1>6, <2>4, <2>7, <2>8 DEF GetStep
<1>7. ASSUME NEW g \in Gets, FetchFails(g) PROVE GetInv'
  <2>1. /\ gstate[g] = "fetch" /\ gstate' = [gstate EXCEPT ![g] = "failed"]
        /\ UNCHANGED <<disk, asked, table, chosen, fetched, settled>>
    BY <1>7 DEF FetchFails, serverVars
  <2>2. Source(g) \in Servers
    BY <2>1, NextSource
  <2>3. stale' \in [Gets -> SUBSET Servers]
    <3>1. stale' = stale \/ stale' = [stale EXCEPT ![g] = stale[g] \cup {Source(g)}]
      BY <1>7 DEF FetchFails
    <3>2. stale[g] \cup {Source(g)} \in SUBSET Servers /\ stale \in [Gets -> SUBSET Servers]
      BY <2>2 DEF GetInv, GetTypes
    <3> QED  BY <3>1, <3>2
  <2>4. GetTypes'
    BY <2>1, <2>3 DEF GetInv, GetTypes
  <2>5. gstate'[g] = "failed"
    BY <2>1 DEF GetInv, GetTypes
  <2>6. TableOK(g)' /\ ChosenOK(g)'
    BY <2>1, <2>5 DEF GetInv, TableOK, ChosenOK
  <2> QED  BY <1>2, <1>7, <2>4, <2>6 DEF GetStep
<1>8. CASE \/ \E p \in Puts : PutStep(p) \/ \E s \in Servers : SaveStep(p, s)
           \/ \E s \in Servers : Crash(s) \/ Restart(s)
           \/ UNCHANGED vars
  BY <1>1, <1>8, GetsFrame
<1> QED  BY <1>3, <1>4, <1>5, <1>6, <1>7, <1>8 DEF Next, GetStep

\* The state keeps its shape.
THEOREM StoreTypeOK == Spec => []TypeOK
<1>1. Init => StoreInv /\ GetInv
  BY StoreInvInit, GetInvInit
<1>2. StoreInv /\ GetInv /\ [Next]_vars => StoreInv' /\ GetInv'
  BY StoreInvStep, GetInvStep
<1>3. StoreInv /\ GetInv => TypeOK
  BY DEF StoreInv, GetInv, GetTypes, TypeOK
<1> QED  BY <1>1, <1>2, <1>3, PTL DEF Spec

-----------------------------------------------------------------------------
(* What is stored, and that it stays                                       *)

\* x is a chunk of put p, on its way to a server the chunk belongs on.
Good(x, p, s) ==
  /\ x.put = p
  /\ s \in Homes[x.chunk]
  /\ "put_cut" \notin Faults => x.whole

StoredInv ==
  /\ \A p \in Puts, s \in Servers : \A i \in DOMAIN inbox[p][s] : Good(inbox[p][s][i], p, s)
  /\ \A p \in Puts, s \in Servers : saving[p][s] # None => Good(saving[p][s], p, s)
  /\ \A s \in Servers : \A f \in DOMAIN disk[s] :
       /\ f = <<Stamp(disk[s][f].put), disk[s][f].chunk>>
       /\ Good(disk[s][f], disk[s][f].put, s)

\* The earlier puts' chunks are where they belong.
LEMMA StoredInvInit == Init => StoredInv
<1> SUFFICES ASSUME Init PROVE StoredInv
  OBVIOUS
<1>1. ASSUME NEW s \in Servers, NEW f \in DOMAIN disk[s]
      PROVE  /\ f = <<Stamp(disk[s][f].put), disk[s][f].chunk>>
             /\ Good(disk[s][f], disk[s][f].put, s)
  <2>1. f \in EarlierFiles(s)
    BY <1>1, InitialDisk
  <2>2. \E p \in Earlier, c \in Chunks :
          s \in Homes[c] /\ f = <<Stamp(p), c>> /\ disk[s][f] = Content(p, c, TRUE)
    BY <2>1, InitialDisk
  <2>3. PICK p \in Earlier, c \in Chunks :
          s \in Homes[c] /\ f = <<Stamp(p), c>> /\ disk[s][f] = Content(p, c, TRUE)
    BY <2>2
  <2>4. disk[s][f].put = p /\ disk[s][f].chunk = c /\ disk[s][f].whole = TRUE
    BY <2>3 DEF Content
  <2> QED  BY <2>3, <2>4 DEF Good
<1>2. ASSUME NEW p \in Puts, NEW s \in Servers
      PROVE  inbox[p][s] = <<>> /\ saving[p][s] = None /\ DOMAIN <<>> = {}
  BY DEF Init
<1> QED  BY <1>1, <1>2 DEF StoredInv

\* A chunk that a put sends belongs where it is sent.
LEMMA DeliverGood ==
  ASSUME StoreInv, StoredInv, NEW p \in Puts, NEW s \in Servers, NEW x \in Contents,
         Good(x, p, s), Deliver(p, s, x), UNCHANGED <<disk, saving>>
  PROVE  StoredInv'
<1>1. inbox[p][s] \in Seq(Contents)
  BY DEF StoreInv
<1>2. \A q \in Puts, t \in Servers :
        inbox'[q][t] = IF q = p /\ t = s THEN Append(inbox[p][s], x) ELSE inbox[q][t]
  BY DEF Deliver, StoreInv
<1>3. \A i \in DOMAIN Append(inbox[p][s], x) : Good(Append(inbox[p][s], x)[i], p, s)
  <2> DEFINE q == inbox[p][s]
             r == Append(q, x)
  <2>1. r \in Seq(Contents) /\ Len(r) = Len(q) + 1
        /\ \A j \in 1..(Len(q) + 1) : r[j] = IF j <= Len(q) THEN q[j] ELSE x
    BY <1>1, AppendSeq
  <2>2. q \in Seq(Contents) /\ \A i \in DOMAIN q : Good(q[i], p, s)
    BY <1>1 DEF StoredInv
  <2> HIDE DEF q, r
  <2>3. \A j \in DOMAIN r : r[j] = x \/ (j \in DOMAIN q /\ r[j] = q[j])
    BY <2>1, <2>2
  <2>4. \A j \in DOMAIN r : Good(r[j], p, s)
    BY <2>2, <2>3
  <2> QED  BY <2>4 DEF q, r
<1>4. \A q \in Puts, t \in Servers : \A i \in DOMAIN inbox'[q][t] : Good(inbox'[q][t][i], q, t)
  <2> TAKE q \in Puts, t \in Servers
  <2>1. CASE q = p /\ t = s
    BY <1>2, <1>3, <2>1
  <2>2. CASE ~(q = p /\ t = s)
    <3>1. inbox'[q][t] = inbox[q][t]
      BY <1>2, <2>2
    <3> QED  BY <3>1 DEF StoredInv
  <2> QED  BY <2>1, <2>2
<1> QED  BY <1>4 DEF StoredInv, Good

\* What is in sockets, temp files and chunk files stays where it belongs.
LEMMA StoredInvStep ==
  StoreInv /\ StoredInv /\ [Next]_vars => StoredInv'
<1> SUFFICES ASSUME StoreInv, StoredInv, [Next]_vars PROVE StoredInv'
  OBVIOUS
<1>0. CASE UNCHANGED <<disk, inbox, saving>>
  BY <1>0 DEF StoredInv, Good
<1>1. ASSUME NEW p \in Puts, SendChunk(p) \/ PutDies(p) PROVE StoredInv'
  <2> DEFINE c == ChunkSent(sent[p])
             s == Dest(sent[p])
  <2>1. pstate[p] = "sending" /\ UNCHANGED <<disk, saving>>
    BY <1>1 DEF SendChunk, PutDies, serverVars
  <2>2. s \in Servers /\ c \in Chunks /\ s \in Homes[c]
    BY <2>1, NextTransfer
  <2>3. \/ UNCHANGED inbox
        \/ Deliver(p, s, Content(p, c, TRUE))
        \/ "put_cut" \in Faults /\ Deliver(p, s, Content(p, c, FALSE))
    BY <1>1 DEF SendChunk, PutDies
  <2> HIDE DEF c, s
  <2>4. /\ Content(p, c, TRUE) \in Contents /\ Good(Content(p, c, TRUE), p, s)
        /\ Content(p, c, FALSE) \in Contents
        /\ "put_cut" \in Faults => Good(Content(p, c, FALSE), p, s)
    <3>1. p \in All
      BY DEF All
    <3>2. \A w \in BOOLEAN :
            /\ Content(p, c, w) \in Contents /\ Content(p, c, w).put = p
            /\ Content(p, c, w).chunk = c /\ Content(p, c, w).whole = w
      BY <2>2, <3>1, ContentFields
    <3>3. Content(p, c, TRUE) \in Contents /\ Content(p, c, FALSE) \in Contents
      BY <3>2
    <3>4. Good(Content(p, c, TRUE), p, s)
      BY <2>2, <3>2 DEF Good
    <3>5. "put_cut" \in Faults => Good(Content(p, c, FALSE), p, s)
      BY <2>2, <3>2 DEF Good
    <3> QED  BY <3>3, <3>4, <3>5
  <2>5. disk' = disk /\ saving' = saving
    BY <2>1
  <2>6. CASE Deliver(p, s, Content(p, c, TRUE))
    BY <2>2, <2>4, <2>5, <2>6, DeliverGood
  <2>7. CASE "put_cut" \in Faults /\ Deliver(p, s, Content(p, c, FALSE))
    BY <2>2, <2>4, <2>5, <2>7, DeliverGood
  <2> QED  BY <1>0, <2>3, <2>5, <2>6, <2>7
<1>2. ASSUME NEW p \in Puts, NEW s \in Servers, BeginSave(p, s) PROVE StoredInv'
  <2> DEFINE q == inbox[p][s]
  <2>1. /\ q # <<>> /\ saving' = [saving EXCEPT ![p][s] = Head(q)]
        /\ inbox' = [inbox EXCEPT ![p][s] = Tail(q)] /\ UNCHANGED disk
    BY <1>2 DEF BeginSave, serverVars
  <2>2. q \in Seq(Contents) /\ \A i \in DOMAIN q : Good(q[i], p, s)
    BY DEF StoreInv, StoredInv
  <2> HIDE DEF q
  <2>3. Good(Head(q), p, s) /\ \A i \in DOMAIN Tail(q) : Good(Tail(q)[i], p, s)
    BY <2>1, <2>2, HeadTailSeq
  <2>4. \A r \in Puts, t \in Servers :
          /\ inbox'[r][t] = IF r = p /\ t = s THEN Tail(q) ELSE inbox[r][t]
          /\ saving'[r][t] = IF r = p /\ t = s THEN Head(q) ELSE saving[r][t]
    BY <2>1 DEF StoreInv
  <2>5. ASSUME NEW r \in Puts, NEW t \in Servers
        PROVE  /\ \A i \in DOMAIN inbox'[r][t] : Good(inbox'[r][t][i], r, t)
               /\ saving'[r][t] # None => Good(saving'[r][t], r, t)
    <3>1. CASE r = p /\ t = s
      BY <2>3, <2>4, <3>1
    <3>2. CASE ~(r = p /\ t = s)
      <4>1. inbox'[r][t] = inbox[r][t] /\ saving'[r][t] = saving[r][t]
        BY <2>4, <3>2
      <4> QED  BY <4>1 DEF StoredInv
    <3> QED  BY <3>1, <3>2
  <2> QED  BY <2>1, <2>5 DEF StoredInv, Good
<1>3. ASSUME NEW p \in Puts, NEW s \in Servers, FinishSave(p, s) PROVE StoredInv'
  <2> DEFINE x == saving[p][s]
             n == <<Stamp(p), x.chunk>>
             d == Extend(disk[s], n, x)
  <2>1. /\ x # None /\ disk' = [disk EXCEPT ![s] = d] /\ UNCHANGED inbox
        /\ saving' = [saving EXCEPT ![p][s] = None]
    BY <1>3 DEF FinishSave
  <2>2. x.put = p /\ Good(x, p, s)
    BY <2>1 DEF StoredInv, Good
  <2>3. DOMAIN d = DOMAIN disk[s] \cup {n} /\ \A f \in DOMAIN d : d[f] = IF f = n THEN x ELSE disk[s][f]
    BY DEF Extend
  <2>3a. n = <<Stamp(x.put), x.chunk>>
    BY <2>2
  <2> HIDE DEF x, n, d
  <2>4. \A f \in DOMAIN d : f = <<Stamp(d[f].put), d[f].chunk>> /\ Good(d[f], d[f].put, s)
    BY <2>2, <2>3, <2>3a DEF StoredInv
  <2>5. \A t \in Servers : disk'[t] = IF t = s THEN d ELSE disk[t]
    BY <2>1 DEF StoreInv
  <2>6. \A t \in Servers : \A f \in DOMAIN disk'[t] :
          f = <<Stamp(disk'[t][f].put), disk'[t][f].chunk>> /\ Good(disk'[t][f], disk'[t][f].put, t)
    <3> TAKE t \in Servers
    <3>1. CASE t = s
      BY <2>4, <2>5, <3>1
    <3>2. CASE t # s
      BY <2>5, <3>2 DEF StoredInv
    <3> QED  BY <3>1, <3>2
  <2>7. \A r \in Puts, t \in Servers : saving'[r][t] # None => Good(saving'[r][t], r, t)
    BY <2>1 DEF StoreInv, StoredInv
  <2> QED  BY <2>1, <2>6, <2>7 DEF StoredInv, Good
<1>4. ASSUME NEW s \in Servers, Crash(s) PROVE StoredInv'
  <2>1. \A r \in Puts, t \in Servers :
          /\ inbox'[r][t] = IF t = s THEN <<>> ELSE inbox[r][t]
          /\ saving'[r][t] = IF t = s THEN None ELSE saving[r][t]
    BY <1>4 DEF Crash, StoreInv
  <2>2. UNCHANGED disk /\ DOMAIN <<>> = {}
    BY <1>4 DEF Crash
  <2>3. ASSUME NEW r \in Puts, NEW t \in Servers
        PROVE  /\ \A i \in DOMAIN inbox'[r][t] : Good(inbox'[r][t][i], r, t)
               /\ saving'[r][t] # None => Good(saving'[r][t], r, t)
    <3>1. CASE t = s
      BY <2>1, <2>2, <3>1
    <3>2. CASE t # s
      <4>1. inbox'[r][t] = inbox[r][t] /\ saving'[r][t] = saving[r][t]
        BY <2>1, <3>2
      <4> QED  BY <4>1 DEF StoredInv
    <3> QED  BY <3>1, <3>2
  <2> QED  BY <2>2, <2>3 DEF StoredInv, Good
<1>4a. ASSUME NEW p \in Puts, NEW s \in Servers, RefuseSave(p, s) PROVE StoredInv'
  <2>1. \A r \in Puts, t \in Servers :
          inbox'[r][t] = IF r = p /\ t = s THEN <<>> ELSE inbox[r][t]
    BY <1>4a DEF RefuseSave, StoreInv
  <2>2. UNCHANGED <<disk, saving>> /\ DOMAIN <<>> = {}
    BY <1>4a DEF RefuseSave, serverVars
  <2>3. ASSUME NEW r \in Puts, NEW t \in Servers
        PROVE  \A i \in DOMAIN inbox'[r][t] : Good(inbox'[r][t][i], r, t)
    <3>1. CASE r = p /\ t = s
      BY <2>1, <2>2, <3>1
    <3>2. CASE ~(r = p /\ t = s)
      <4>1. inbox'[r][t] = inbox[r][t]
        BY <2>1, <3>2
      <4> QED  BY <4>1 DEF StoredInv
    <3> QED  BY <3>1, <3>2
  <2> QED  BY <2>2, <2>3 DEF StoredInv, Good
<1>5. ASSUME NEW p \in Puts, StartPut(p) PROVE StoredInv'
  BY <1>0, <1>5 DEF StartPut, Connect, serverVars
<1>6. ASSUME NEW s \in Servers, Restart(s) PROVE StoredInv'
  BY <1>0, <1>6 DEF Restart, linkVars
<1>7. ASSUME NEW g \in Gets, StartGet(g) PROVE StoredInv'
  BY <1>0, <1>7 DEF StartGet, Connect, serverVars
<1>8. ASSUME NEW g \in Gets, GetStep(g) PROVE StoredInv'
  BY <1>0, <1>8
  DEF GetStep, Query, QueryFails, QueryIsCut, Choose, Fetch, FetchCut, FetchFails, serverVars, linkVars
<1>9. CASE UNCHANGED vars
  BY <1>0, <1>9 DEF vars, serverVars, linkVars
<1> QED
  BY <1>1, <1>2, <1>3, <1>4, <1>4a, <1>5, <1>6, <1>7, <1>8, <1>9 DEF Next, PutStep, SaveStep

-----------------------------------------------------------------------------
(* A chunk comes to a server once                                          *)

\* The transfers a put has begun, and the chunks they took to a server.
Tried(p) == {i \in Transfers : i < sent[p] \/ (i = sent[p] /\ pstate[p] = "dead")}
SentTo(p, s) == {ChunkSent(i) : i \in {k \in Tried(p) : Dest(k) = s}}

\* Where chunk c of put p can be on server s.
Queued(p, s, c) == \E i \in DOMAIN inbox[p][s] : inbox[p][s][i].chunk = c
Saving(p, s, c) == saving[p][s] # None /\ saving[p][s].chunk = c
Published(p, s, c) == <<Stamp(p), c>> \in DOMAIN disk[s]

\* It is there only if it was sent, in one place, and not twice in the socket.
OnceOK(p, s) ==
  /\ \A c \in Chunks :
       /\ Queued(p, s, c) \/ Saving(p, s, c) \/ Published(p, s, c) => c \in SentTo(p, s)
       /\ ~(Queued(p, s, c) /\ Saving(p, s, c))
       /\ ~(Queued(p, s, c) /\ Published(p, s, c))
       /\ ~(Saving(p, s, c) /\ Published(p, s, c))
  /\ \A i, j \in DOMAIN inbox[p][s] : inbox[p][s][i].chunk = inbox[p][s][j].chunk => i = j

OnceInv == \A p \in Puts, s \in Servers : OnceOK(p, s)

\* Nothing of the puts that are watched is anywhere at the start.
LEMMA OnceInvInit == Init => OnceInv
<1> SUFFICES ASSUME Init, NEW p \in Puts, NEW s \in Servers PROVE OnceOK(p, s)
  BY DEF OnceInv
<1>1. inbox[p][s] = <<>> /\ saving[p][s] = None /\ DOMAIN <<>> = {}
  BY DEF Init
<1>2. \A c \in Chunks : <<Stamp(p), c>> \notin DOMAIN disk[s]
  <2>1. \A c \in Chunks : <<Stamp(p), c>> \notin EarlierFiles(s)
    BY StoreAssumption DEF EarlierFiles
  <2> QED  BY <2>1, InitialDisk
<1> QED  BY <1>1, <1>2 DEF OnceOK, Queued, Saving, Published

\* What stays where it is stays there once.
LEMMA OnceStays ==
  ASSUME NEW p \in Puts, NEW s \in Servers, OnceOK(p, s),
         inbox'[p][s] = inbox[p][s], saving'[p][s] = saving[p][s],
         \A c \in Chunks : Published(p, s, c)' = Published(p, s, c),
         Tried(p) \subseteq Tried(p)'
  PROVE  OnceOK(p, s)'
<1>1. SentTo(p, s) \subseteq SentTo(p, s)'
  BY DEF SentTo
<1>2. \A c \in Chunks : /\ Queued(p, s, c)' = Queued(p, s, c)
                        /\ Saving(p, s, c)' = Saving(p, s, c)
  BY DEF Queued, Saving
<1> QED  BY <1>1, <1>2 DEF OnceOK

\* A transfer is a new one.
LEMMA TransferIsNew ==
  ASSUME StoreInv, NEW p \in Puts, SendChunk(p) \/ PutDies(p),
         NEW i \in Transfers, i = sent[p], NEW s \in Servers, s = Dest(i)
  PROVE  /\ \A q \in Puts : Tried(q) \subseteq Tried(q)'
         /\ ChunkSent(i) \notin SentTo(p, s)
         /\ ChunkSent(i) \in SentTo(p, s)'
<1>1. /\ pstate[p] = "sending" /\ pstate \in [Puts -> {"idle", "sending", "done", "dead"}]
      /\ sent \in [Puts -> 0..(2 * N)]
  BY DEF SendChunk, PutDies, StoreInv
<1>2. \A q \in Puts : q # p => sent'[q] = sent[q] /\ pstate'[q] = pstate[q]
  BY <1>1 DEF SendChunk, PutDies
<1>3. \/ sent'[p] = i + 1 /\ pstate'[p] # "dead"
      \/ sent'[p] = i /\ pstate'[p] = "dead"
  BY <1>1 DEF SendChunk, PutDies
<1>4. Tried(p) = {k \in Transfers : k < i}
  BY <1>1 DEF Tried
<1>5. \A k \in Transfers : k \in Int
  BY PlacementAssumption DEF Transfers
<1>6. Tried(p)' = {k \in Transfers : k <= i}
  <2>1. \A k \in Transfers : (k < sent'[p] \/ (k = sent'[p] /\ pstate'[p] = "dead")) <=> k <= i
    BY <1>3, <1>5
  <2> QED  BY <2>1 DEF Tried
<1>7. ASSUME NEW q \in Puts PROVE Tried(q) \subseteq Tried(q)'
  <2>1. CASE q = p
    BY <1>4, <1>5, <1>6, <2>1
  <2>2. CASE q # p
    BY <1>2, <2>2 DEF Tried
  <2> QED  BY <2>1, <2>2
<1>8. ChunkSent(i) \notin SentTo(p, s)
  <2> SUFFICES ASSUME NEW k \in Tried(p), Dest(k) = s, ChunkSent(k) = ChunkSent(i)
               PROVE  FALSE
    BY DEF SentTo
  <2>1. k \in Transfers /\ k < i
    BY <1>4
  <2>2. k = i
    BY <2>1, TransferOnce
  <2> QED  BY <1>5, <2>1, <2>2
<1>9. ChunkSent(i) \in SentTo(p, s)'
  <2>1. i \in Tried(p)'
    BY <1>5, <1>6
  <2> QED  BY <2>1 DEF SentTo
<1> QED  BY <1>7, <1>8, <1>9

\* A chunk that is sent, and was not there, is in the socket once.
LEMMA OnceSent ==
  ASSUME StoreInv, NEW p \in Puts, NEW s \in Servers, NEW x \in Contents, OnceOK(p, s),
         inbox'[p][s] = Append(inbox[p][s], x), UNCHANGED <<disk, saving>>,
         Tried(p) \subseteq Tried(p)',
         x.chunk \notin SentTo(p, s), x.chunk \in SentTo(p, s)'
  PROVE  OnceOK(p, s)'
<1> DEFINE q == inbox[p][s]
           r == Append(q, x)
<1>1. q \in Seq(Contents) /\ x.chunk \in Chunks
  BY ContentFields DEF StoreInv
<1>2. /\ r \in Seq(Contents) /\ Len(r) = Len(q) + 1 /\ Len(q) \in Nat
      /\ \A j \in 1..(Len(q) + 1) : r[j] = IF j <= Len(q) THEN q[j] ELSE x
  BY <1>1, AppendSeq
<1>3. ~Queued(p, s, x.chunk) /\ ~Saving(p, s, x.chunk) /\ ~Published(p, s, x.chunk)
  BY <1>1 DEF OnceOK
<1>4. SentTo(p, s) \subseteq SentTo(p, s)'
  BY DEF SentTo
<1>5. \A j \in DOMAIN q : q[j].chunk # x.chunk
  BY <1>3 DEF Queued
<1> HIDE DEF q, r
<1>6. \A j \in DOMAIN r : \/ j = Len(q) + 1 /\ r[j] = x
                          \/ j \in DOMAIN q /\ r[j] = q[j]
  BY <1>1, <1>2
<1>7. \A c \in Chunks : Queued(p, s, c)' => Queued(p, s, c) \/ c = x.chunk
  BY <1>6 DEF Queued, q, r
<1>8. \A c \in Chunks : Saving(p, s, c)' = Saving(p, s, c) /\ Published(p, s, c)' = Published(p, s, c)
  BY DEF Saving, Published
<1>9. \A i, j \in DOMAIN r : r[i].chunk = r[j].chunk => i = j
  <2>1. \A i, j \in DOMAIN q : q[i].chunk = q[j].chunk => i = j
    BY DEF OnceOK, q
  <2> QED  BY <1>5, <1>6, <2>1
<1>10. \A i, j \in DOMAIN inbox'[p][s] : inbox'[p][s][i].chunk = inbox'[p][s][j].chunk => i = j
  BY <1>9 DEF q, r
<1> QED  BY <1>3, <1>4, <1>7, <1>8, <1>10 DEF OnceOK

\* A chunk that is read leaves the socket for the temp file.
LEMMA OnceRead ==
  ASSUME StoreInv, NEW p \in Puts, NEW s \in Servers, OnceOK(p, s), BeginSave(p, s)
  PROVE  OnceOK(p, s)'
<1> DEFINE q == inbox[p][s]
           r == Tail(q)
<1>1. /\ q # <<>> /\ q \in Seq(Contents) /\ saving[p][s] = None
      /\ saving'[p][s] = Head(q) /\ inbox'[p][s] = r /\ UNCHANGED <<disk, putVars>>
  BY DEF BeginSave, StoreInv, serverVars
<1>2. /\ Head(q) = q[1] /\ 1 \in DOMAIN q /\ r \in Seq(Contents)
      /\ \A j \in DOMAIN r : j + 1 \in DOMAIN q /\ r[j] = q[j + 1]
  BY <1>1, HeadTailSeq
<1>3. \A i, j \in DOMAIN q : q[i].chunk = q[j].chunk => i = j
  BY DEF OnceOK
<1>4. \A c \in Chunks : SentTo(p, s)' = SentTo(p, s) /\ Published(p, s, c)' = Published(p, s, c)
  BY <1>1 DEF SentTo, Tried, Published, putVars
<1>5. r \in Seq(Contents) => \A j \in DOMAIN r : j \in Nat /\ j >= 1
  OBVIOUS
<1> HIDE DEF q, r
<1>6. \A j \in DOMAIN r : r[j].chunk # Head(q).chunk
  <2> TAKE j \in DOMAIN r
  <2>1. j + 1 # 1
    BY <1>2, <1>5
  <2> QED  BY <1>2, <1>3, <2>1
<1>7. \A c \in Chunks : /\ Queued(p, s, c)' => Queued(p, s, c) /\ c # Head(q).chunk
                        /\ Saving(p, s, c)' => Queued(p, s, c) /\ c = Head(q).chunk
  <2>1. \A c \in Chunks : Queued(p, s, c) <=> \E j \in DOMAIN q : q[j].chunk = c
    BY DEF Queued, q
  <2>2. \A c \in Chunks : Queued(p, s, c)' <=> \E j \in DOMAIN r : r[j].chunk = c
    BY <1>1 DEF Queued
  <2>3. \A c \in Chunks : Saving(p, s, c)' => c = Head(q).chunk
    BY <1>1 DEF Saving
  <2> QED  BY <1>2, <1>6, <2>1, <2>2, <2>3
<1>8. \A i, j \in DOMAIN r : r[i].chunk = r[j].chunk => i = j
  <2> TAKE i, j \in DOMAIN r
  <2>1. r[i].chunk = r[j].chunk => i + 1 = j + 1
    BY <1>2, <1>3
  <2> QED  BY <1>2, <1>5, <2>1
<1>9. \A i, j \in DOMAIN inbox'[p][s] : inbox'[p][s][i].chunk = inbox'[p][s][j].chunk => i = j
  BY <1>1, <1>8
<1> QED  BY <1>4, <1>7, <1>9 DEF OnceOK

\* A chunk that is saved gets a name that nothing has yet.
LEMMA SavedIsNew ==
  ASSUME StoreInv, StoredInv, OnceInv, NEW p \in Puts, NEW s \in Servers, FinishSave(p, s)
  PROVE  /\ saving[p][s].chunk \in Chunks
         /\ <<Stamp(p), saving[p][s].chunk>> \notin DOMAIN disk[s]
         /\ disk'[s] = Extend(disk[s], <<Stamp(p), saving[p][s].chunk>>, saving[p][s])
         /\ \A t \in Servers : t # s => disk'[t] = disk[t]
<1>1. saving[p][s] # None /\ saving[p][s] \in Contents
  BY DEF FinishSave, StoreInv
<1>2. saving[p][s].chunk \in Chunks
  BY <1>1, ContentFields
<1>3. Saving(p, s, saving[p][s].chunk) /\ OnceOK(p, s)
  BY <1>1 DEF Saving, OnceInv
<1>4. ~Published(p, s, saving[p][s].chunk)
  BY <1>2, <1>3 DEF OnceOK
<1> QED  BY <1>2, <1>4 DEF Published, FinishSave, StoreInv

\* It leaves the temp file.
LEMMA OncePublished ==
  ASSUME StoreInv, StoredInv, OnceInv, NEW p \in Puts, NEW s \in Servers, FinishSave(p, s)
  PROVE  OnceInv'
<1> SUFFICES ASSUME NEW q \in Puts, NEW t \in Servers PROVE OnceOK(q, t)'
  BY DEF OnceInv
<1>1. /\ saving' = [saving EXCEPT ![p][s] = None] /\ UNCHANGED <<inbox, putVars>>
      /\ saving \in [Puts -> [Servers -> Contents \cup {None}]] /\ saving[p][s] # None
  BY DEF FinishSave, StoreInv
<1>2. OnceOK(q, t) /\ Tried(q) = Tried(q)'
  BY <1>1 DEF OnceInv, Tried, putVars
<1>3. DOMAIN disk'[s] = DOMAIN disk[s] \cup {<<Stamp(p), saving[p][s].chunk>>}
  <2>1. disk'[s] = Extend(disk[s], <<Stamp(p), saving[p][s].chunk>>, saving[p][s])
    BY SavedIsNew
  <2> QED  BY <2>1 DEF Extend
<1>4. CASE q = p /\ t = s
  <2>1. \A c \in Chunks : /\ Published(p, s, c)' => Published(p, s, c) \/ Saving(p, s, c)
                          /\ Queued(p, s, c)' = Queued(p, s, c)
                          /\ ~Saving(p, s, c)'
    BY <1>1, <1>3 DEF Published, Saving, Queued
  <2>2. SentTo(p, s)' = SentTo(p, s) /\ inbox'[p][s] = inbox[p][s]
    BY <1>1 DEF SentTo, Tried, putVars
  <2> QED  BY <1>2, <1>4, <2>1, <2>2 DEF OnceOK
<1>5. CASE ~(q = p /\ t = s)
  <2>1. inbox'[q][t] = inbox[q][t] /\ saving'[q][t] = saving[q][t]
    BY <1>1, <1>5
  <2>2. \A c \in Chunks : Published(q, t, c)' = Published(q, t, c)
    <3>1. CASE t # s
      BY <3>1, SavedIsNew DEF Published
    <3>2. CASE t = s
      <4>1. Stamp(q) # Stamp(p)
        BY <1>5, <3>2, StoreAssumption
      <4> QED  BY <1>3, <3>2, <4>1 DEF Published
    <3> QED  BY <3>1, <3>2
  <2> QED  BY <1>2, <2>1, <2>2, OnceStays
<1> QED  BY <1>4, <1>5

\* Every chunk stays in one place on a server, through every step.
LEMMA OnceInvStep == StoreInv /\ StoredInv /\ OnceInv /\ [Next]_vars => OnceInv'
<1> SUFFICES ASSUME StoreInv, StoredInv, OnceInv, [Next]_vars PROVE OnceInv'
  OBVIOUS
<1>0. ASSUME UNCHANGED <<disk, inbox, saving>>, \A p \in Puts : Tried(p) \subseteq Tried(p)'
      PROVE  OnceInv'
  BY <1>0, OnceStays DEF OnceInv, Published
<1>a. ASSUME UNCHANGED putVars PROVE \A p \in Puts : Tried(p) \subseteq Tried(p)'
  BY <1>a DEF putVars, Tried
<1>1. ASSUME NEW p \in Puts, SendChunk(p) \/ PutDies(p) PROVE OnceInv'
  <2>1. pstate[p] = "sending" /\ UNCHANGED <<disk, saving>>
    BY <1>1 DEF SendChunk, PutDies, serverVars
  <2>2. PICK i \in Transfers : i = sent[p]
    BY <2>1, NextTransfer
  <2>3. PICK s \in Servers : s = Dest(i)
    BY <2>2, TransferTypes
  <2>4. PICK c \in Chunks : c = ChunkSent(i)
    BY <2>2, TransferTypes
  <2>5. /\ \A q \in Puts : Tried(q) \subseteq Tried(q)'
        /\ c \notin SentTo(p, s) /\ c \in SentTo(p, s)'
    BY <1>1, <2>2, <2>3, <2>4, TransferIsNew
  <2>6. UNCHANGED inbox \/ \E w \in BOOLEAN : Deliver(p, s, Content(p, c, w))
    BY <1>1, <2>2, <2>3, <2>4 DEF SendChunk, PutDies
  <2>7. ASSUME NEW w \in BOOLEAN, Deliver(p, s, Content(p, c, w)) PROVE OnceInv'
    <3>1. PICK x \in Contents : x = Content(p, c, w) /\ x.chunk = c
      BY ContentFields DEF All
    <3>2. \A q \in Puts, t \in Servers :
            inbox'[q][t] = IF q = p /\ t = s THEN Append(inbox[p][s], x) ELSE inbox[q][t]
      BY <2>7, <3>1 DEF Deliver, StoreInv
    <3>3. OnceOK(p, s)'
      BY <2>1, <2>5, <3>1, <3>2, OnceSent DEF OnceInv
    <3>4. ASSUME NEW q \in Puts, NEW t \in Servers, ~(q = p /\ t = s) PROVE OnceOK(q, t)'
      <4>1. inbox'[q][t] = inbox[q][t] /\ saving'[q][t] = saving[q][t]
        BY <2>1, <3>2, <3>4
      <4>2. \A d \in Chunks : Published(q, t, d)' = Published(q, t, d)
        BY <2>1 DEF Published
      <4> QED  BY <2>5, <4>1, <4>2, OnceStays DEF OnceInv
    <3> QED  BY <3>3, <3>4 DEF OnceInv
  <2> QED  BY <1>0, <2>1, <2>5, <2>6, <2>7
<1>2. ASSUME NEW p \in Puts, NEW s \in Servers, BeginSave(p, s) PROVE OnceInv'
  <2>1. OnceOK(p, s)'
    BY <1>2, OnceRead DEF OnceInv
  <2>2. ASSUME NEW q \in Puts, NEW t \in Servers, ~(q = p /\ t = s) PROVE OnceOK(q, t)'
    <3>1. inbox'[q][t] = inbox[q][t] /\ saving'[q][t] = saving[q][t] /\ UNCHANGED <<disk, putVars>>
      BY <1>2, <2>2 DEF BeginSave, StoreInv, serverVars
    <3>2. \A c \in Chunks : Published(q, t, c)' = Published(q, t, c)
      BY <3>1 DEF Published
    <3> QED  BY <1>a, <3>1, <3>2, OnceStays DEF OnceInv
  <2> QED  BY <2>1, <2>2 DEF OnceInv
<1>3. ASSUME NEW p \in Puts, NEW s \in Servers, FinishSave(p, s) PROVE OnceInv'
  BY <1>3, OncePublished
<1>4. ASSUME NEW s \in Servers, Crash(s) PROVE OnceInv'
  <2>1. \A q \in Puts, t \in Servers :
          /\ inbox'[q][t] = IF t = s THEN <<>> ELSE inbox[q][t]
          /\ saving'[q][t] = IF t = s THEN None ELSE saving[q][t]
    BY <1>4 DEF Crash, StoreInv
  <2>2. UNCHANGED <<disk, putVars>> /\ DOMAIN <<>> = {}
    BY <1>4 DEF Crash
  <2>3. ASSUME NEW q \in Puts, NEW t \in Servers PROVE OnceOK(q, t)'
    <3>0. \A c \in Chunks : Published(q, t, c)' = Published(q, t, c)
      BY <2>2 DEF Published
    <3>1. CASE t = s
      <4>1. \A c \in Chunks : ~Queued(q, t, c)' /\ ~Saving(q, t, c)'
        BY <2>1, <2>2, <3>1 DEF Queued, Saving
      <4>2. SentTo(q, t)' = SentTo(q, t) /\ DOMAIN inbox'[q][t] = {}
        BY <2>1, <2>2, <3>1 DEF SentTo, Tried, putVars
      <4> QED  BY <3>0, <4>1, <4>2 DEF OnceOK, OnceInv
    <3>2. CASE t # s
      <4>1. inbox'[q][t] = inbox[q][t] /\ saving'[q][t] = saving[q][t]
        BY <2>1, <3>2
      <4> QED  BY <1>a, <2>2, <3>0, <4>1, OnceStays DEF OnceInv
    <3> QED  BY <3>1, <3>2
  <2> QED  BY <2>3 DEF OnceInv
<1>4a. ASSUME NEW p \in Puts, NEW s \in Servers, RefuseSave(p, s) PROVE OnceInv'
  <2>1. \A q \in Puts, t \in Servers :
          /\ inbox'[q][t] = IF q = p /\ t = s THEN <<>> ELSE inbox[q][t]
          /\ saving'[q][t] = saving[q][t]
    BY <1>4a DEF RefuseSave, StoreInv
  <2>2. UNCHANGED <<disk, putVars>> /\ DOMAIN <<>> = {}
    BY <1>4a DEF RefuseSave, serverVars
  <2>3. ASSUME NEW q \in Puts, NEW t \in Servers PROVE OnceOK(q, t)'
    <3>0. \A c \in Chunks : Published(q, t, c)' = Published(q, t, c)
      BY <2>2 DEF Published
    <3>1. CASE q = p /\ t = s
      <4>1. \A c \in Chunks : ~Queued(q, t, c)' /\ Saving(q, t, c)' = Saving(q, t, c)
        BY <2>1, <2>2, <3>1 DEF Queued, Saving
      <4>2. SentTo(q, t)' = SentTo(q, t) /\ DOMAIN inbox'[q][t] = {}
        BY <2>1, <2>2, <3>1 DEF SentTo, Tried, putVars
      <4> QED  BY <3>0, <4>1, <4>2 DEF OnceOK, OnceInv
    <3>2. CASE ~(q = p /\ t = s)
      <4>1. inbox'[q][t] = inbox[q][t] /\ saving'[q][t] = saving[q][t]
        BY <2>1, <3>2
      <4> QED  BY <1>a, <2>2, <3>0, <4>1, OnceStays DEF OnceInv
    <3> QED  BY <3>1, <3>2
  <2> QED  BY <2>3 DEF OnceInv
<1>5. ASSUME NEW p \in Puts, StartPut(p) PROVE OnceInv'
  <2>1. UNCHANGED <<disk, inbox, saving>>
    BY <1>5 DEF StartPut, Connect, serverVars
  <2>2. ASSUME NEW q \in Puts PROVE Tried(q) \subseteq Tried(q)'
    BY <1>5 DEF StartPut, StoreInv, Tried
  <2> QED  BY <1>0, <2>1, <2>2
<1>6. ASSUME NEW s \in Servers, Restart(s) PROVE OnceInv'
  BY <1>0, <1>a, <1>6 DEF Restart, linkVars
<1>7. ASSUME NEW g \in Gets, StartGet(g) PROVE OnceInv'
  BY <1>0, <1>a, <1>7 DEF StartGet, Connect, serverVars
<1>8. ASSUME NEW g \in Gets, GetStep(g) PROVE OnceInv'
  BY <1>0, <1>a, <1>8
  DEF GetStep, Query, QueryFails, QueryIsCut, Choose, Fetch, FetchCut, FetchFails, serverVars, linkVars
<1>9. CASE UNCHANGED vars
  BY <1>0, <1>a, <1>9 DEF vars, serverVars, linkVars
<1> QED
  BY <1>1, <1>2, <1>3, <1>4, <1>4a, <1>5, <1>6, <1>7, <1>8, <1>9 DEF Next, PutStep, SaveStep

\* A step replaces no chunk file and removes none.
LEMMA PublishedStep ==
  ASSUME StoreInv, StoredInv, OnceInv, [Next]_vars
  PROVE  \A s \in Servers : \A f \in DOMAIN disk[s] :
           f \in DOMAIN disk'[s] /\ disk'[s][f] = disk[s][f]
<1>1. ASSUME NEW p \in Puts, NEW t \in Servers, FinishSave(p, t),
             NEW s \in Servers, NEW f \in DOMAIN disk[s]
      PROVE  f \in DOMAIN disk'[s] /\ disk'[s][f] = disk[s][f]
  <2>1. CASE s = t
    <3> DEFINE n == <<Stamp(p), saving[p][t].chunk>>
               d == Extend(disk[t], n, saving[p][t])
    <3>1. n \notin DOMAIN disk[t] /\ disk'[t] = d
      BY <1>1, SavedIsNew
    <3>2. \A e \in DOMAIN disk[t] : e \in DOMAIN d /\ (e # n => d[e] = disk[t][e])
      BY DEF Extend
    <3> HIDE DEF n, d
    <3> QED  BY <1>1, <2>1, <3>1, <3>2
  <2>2. CASE s # t
    BY <1>1, <2>2, SavedIsNew
  <2> QED  BY <2>1, <2>2
<1>2. CASE UNCHANGED disk
  BY <1>2
<1>3. ASSUME NEW p \in Puts, PutStep(p) PROVE UNCHANGED disk
  BY <1>3 DEF PutStep, StartPut, SendChunk, PutDies, serverVars
<1>4. ASSUME NEW p \in Puts, NEW t \in Servers, BeginSave(p, t) \/ RefuseSave(p, t)
      PROVE  UNCHANGED disk
  BY <1>4 DEF BeginSave, RefuseSave, serverVars
<1>5. ASSUME NEW g \in Gets, StartGet(g) \/ GetStep(g) PROVE UNCHANGED disk
  BY <1>5 DEF StartGet, GetStep, Query, QueryFails, QueryIsCut, Choose, Fetch, FetchCut, FetchFails, serverVars
<1>6. ASSUME NEW t \in Servers, Crash(t) \/ Restart(t) PROVE UNCHANGED disk
  BY <1>6 DEF Crash, Restart
<1>7. CASE UNCHANGED vars
  BY <1>7 DEF vars, serverVars
<1> QED  BY <1>1, <1>2, <1>3, <1>4, <1>5, <1>6, <1>7 DEF Next, SaveStep

\* A published chunk file never changes and never goes away, even when uploads are cut.
THEOREM StorePublishedStays == Spec => PublishedStays
<1>1. Init => StoreInv /\ StoredInv /\ OnceInv
  BY StoreInvInit, StoredInvInit, OnceInvInit
<1>2. StoreInv /\ StoredInv /\ OnceInv /\ [Next]_vars => StoreInv' /\ StoredInv' /\ OnceInv'
  BY StoreInvStep, StoredInvStep, OnceInvStep
<1>3. StoreInv /\ StoredInv /\ OnceInv /\ [Next]_vars =>
        [\A s \in Servers : \A f \in DOMAIN disk[s] :
           f \in DOMAIN disk'[s] /\ disk'[s][f] = disk[s][f]]_vars
  BY PublishedStep
<1> QED  BY <1>1, <1>2, <1>3, PTL DEF Spec, PublishedStays

-----------------------------------------------------------------------------
(* What a put leaves                                                       *)

\* Chunk c of put p is with server s, or it has no bytes, or the connection to s
\* broke, or put knows that it is not.
Accounted(p, s, c) ==
  /\ s \in alive[p] /\ HasBytes(p, c) => Holds(s, p, c)
  /\ s \notin linked[p] => failed[p]

\* Every transfer done is accounted for; a put ends after the last one.
SentOK(p) ==
  /\ pstate[p] = "done" => sent[p] = 2 * N
  /\ alive[p] \subseteq linked[p]
  /\ \A j \in Transfers : j < sent[p] => Accounted(p, Dest(j), ChunkSent(j))

SentInv == \A p \in Puts : SentOK(p)

\* No put has sent anything at the start.
LEMMA SentInvInit == Init => SentInv
<1> SUFFICES ASSUME Init, NEW p \in Puts PROVE SentOK(p)
  BY DEF SentInv
<1>1. sent[p] = 0 /\ pstate[p] = "idle" /\ alive[p] = {} /\ linked[p] = {}
  BY DEF Init, Clients
<1>2. \A j \in Transfers : ~(j < 0)
  BY PlacementAssumption DEF Transfers
<1> QED  BY <1>1, <1>2 DEF SentOK

\* None is no content.
LEMMA NoneIsNoContent == None \notin Contents
BY StoreAssumption, PlacementAssumption DEF Contents, Content, Chunks

\* What is sent is held, and stays in the socket behind what was there.
LEMMA SentIsHeld ==
  ASSUME StoreInv, NEW p \in Puts, NEW s \in Servers, NEW x \in Contents, Deliver(p, s, x)
  PROVE  /\ \A q \in Puts, t \in Servers : \A k \in DOMAIN inbox[q][t] :
              k \in DOMAIN inbox'[q][t] /\ inbox'[q][t][k] = inbox[q][t][k]
         /\ \E k \in DOMAIN inbox'[p][s] : inbox'[p][s][k] = x
<1> DEFINE q == inbox[p][s]
           r == Append(q, x)
<1>1. inbox' = [inbox EXCEPT ![p][s] = r] /\ q \in Seq(Contents)
  BY DEF Deliver, StoreInv
<1>2. /\ Len(r) = Len(q) + 1 /\ Len(q) \in Nat /\ r \in Seq(Contents)
      /\ \A j \in 1..(Len(q) + 1) : r[j] = IF j <= Len(q) THEN q[j] ELSE x
  BY <1>1, AppendSeq
<1>3. inbox'[p][s] = r
  BY <1>1 DEF StoreInv
<1>4. \A u \in Puts, t \in Servers : ~(u = p /\ t = s) => inbox'[u][t] = inbox[u][t]
  BY <1>1 DEF StoreInv
<1> HIDE DEF q, r
<1>5. /\ \A k \in DOMAIN q : k \in DOMAIN r /\ r[k] = q[k]
      /\ Len(q) + 1 \in DOMAIN r /\ r[Len(q) + 1] = x
  BY <1>1, <1>2
<1> QED  BY <1>3, <1>4, <1>5 DEF q

\* The server that reads a chunk has it in its temp file.
LEMMA ReadIsHeld ==
  ASSUME StoreInv, NEW p \in Puts, NEW s \in Servers, BeginSave(p, s),
         NEW c \in Chunks, Holds(s, p, c)
  PROVE  Holds(s, p, c)'
<1> DEFINE q == inbox[p][s]
           r == Tail(q)
<1>1. /\ q # <<>> /\ q \in Seq(Contents) /\ saving[p][s] = None
      /\ saving'[p][s] = Head(q) /\ inbox'[p][s] = r /\ UNCHANGED disk
  BY DEF BeginSave, StoreInv, serverVars
<1>2. /\ Head(q) = q[1] /\ r \in Seq(Contents) /\ Len(r) = Len(q) - 1 /\ Len(q) \in Nat
      /\ \A j \in DOMAIN r : r[j] = q[j + 1]
  BY <1>1, HeadTailSeq
<1>3. CASE \E k \in DOMAIN q : q[k] = Content(p, c, TRUE)
  <2>1. PICK k \in DOMAIN q : q[k] = Content(p, c, TRUE)
    BY <1>3
  <2>2. CASE k = 1
    BY <1>1, <1>2, <2>1, <2>2 DEF Holds
  <2>3. CASE k # 1
    <3>1. k - 1 \in DOMAIN r /\ k - 1 + 1 = k
      BY <1>1, <1>2, <2>3
    <3>2. r[k - 1] = q[k]
      BY <1>2, <3>1
    <3> QED  BY <1>1, <2>1, <3>1, <3>2 DEF Holds
  <2> QED  BY <2>2, <2>3
<1>4. CASE <<Stamp(p), c>> \in DOMAIN disk[s] /\ disk[s][<<Stamp(p), c>>] = Content(p, c, TRUE)
  BY <1>1, <1>4 DEF Holds
<1>5. saving[p][s] # Content(p, c, TRUE)
  <2>1. Content(p, c, TRUE) \in Contents
    BY ContentFields DEF All
  <2>2. None \notin Contents
    BY NoneIsNoContent
  <2> QED  BY <1>1, <2>1, <2>2
<1> QED  BY <1>3, <1>4, <1>5 DEF Holds

\* What a server has saved is in its directory.
LEMMA SavedIsHeld ==
  ASSUME StoreInv, StoredInv, OnceInv, NEW p \in Puts, NEW s \in Servers, FinishSave(p, s),
         NEW c \in Chunks, saving[p][s] = Content(p, c, TRUE)
  PROVE  Holds(s, p, c)'
<1>1. saving[p][s].chunk = c
  <2>1. Content(p, c, TRUE).chunk = c
    BY DEF Content
  <2> QED  BY <2>1
<1>2. disk'[s] = Extend(disk[s], <<Stamp(p), c>>, Content(p, c, TRUE))
  BY <1>1, SavedIsNew
<1>3. <<Stamp(p), c>> \in DOMAIN disk'[s] /\ disk'[s][<<Stamp(p), c>>] = Content(p, c, TRUE)
  BY <1>2 DEF Extend
<1> QED  BY <1>3 DEF Holds

\* A server that has a chunk keeps it while the connection stays.
LEMMA HeldStays ==
  ASSUME StoreInv, StoredInv, OnceInv, [Next]_vars, NEW p \in Puts, NEW s \in Servers,
         NEW c \in Chunks, Holds(s, p, c), s \in alive'[p]
  PROVE  Holds(s, p, c)'
<1>1. ASSUME inbox'[p][s] = inbox[p][s], saving'[p][s] = saving[p][s] PROVE Holds(s, p, c)'
  <2>1. <<Stamp(p), c>> \in DOMAIN disk[s] =>
          /\ <<Stamp(p), c>> \in DOMAIN disk'[s]
          /\ disk'[s][<<Stamp(p), c>>] = disk[s][<<Stamp(p), c>>]
    BY PublishedStep
  <2> QED  BY <1>1, <2>1 DEF Holds
<1>2. ASSUME NEW q \in Puts, SendChunk(q) \/ PutDies(q) PROVE Holds(s, p, c)'
  <2>1. pstate[q] = "sending" /\ UNCHANGED <<disk, saving>>
    BY <1>2 DEF SendChunk, PutDies, serverVars
  <2>2. \/ UNCHANGED inbox
        \/ \E w \in BOOLEAN : Deliver(q, Dest(sent[q]), Content(q, ChunkSent(sent[q]), w))
    BY <1>2 DEF SendChunk, PutDies
  <2>3. ASSUME NEW w \in BOOLEAN, Deliver(q, Dest(sent[q]), Content(q, ChunkSent(sent[q]), w))
        PROVE  Holds(s, p, c)'
    <3>1. Content(q, ChunkSent(sent[q]), w) \in Contents /\ Dest(sent[q]) \in Servers
      BY <2>1, NextTransfer, ContentFields DEF All
    <3>2. \A k \in DOMAIN inbox[p][s] : k \in DOMAIN inbox'[p][s] /\ inbox'[p][s][k] = inbox[p][s][k]
      BY <2>3, <3>1, SentIsHeld
    <3> QED  BY <2>1, <3>2 DEF Holds
  <2> QED  BY <1>1, <2>1, <2>2, <2>3
<1>3. ASSUME NEW q \in Puts, NEW t \in Servers, SaveStep(q, t) PROVE Holds(s, p, c)'
  <2>1. CASE ~(q = p /\ t = s)
    <3>1. inbox'[p][s] = inbox[p][s] /\ saving'[p][s] = saving[p][s]
      BY <1>3, <2>1 DEF SaveStep, BeginSave, RefuseSave, FinishSave, StoreInv
    <3> QED  BY <1>1, <3>1
  <2>2. CASE q = p /\ t = s /\ BeginSave(p, s)
    BY <2>2, ReadIsHeld
  <2>2a. CASE q = p /\ t = s /\ RefuseSave(p, s)
    <3>1. s \notin alive'[p]
      BY <2>2a DEF RefuseSave, StoreInv, Clients
    <3> QED  BY <3>1
  <2>3. CASE q = p /\ t = s /\ FinishSave(p, s)
    <3>1. CASE saving[p][s] = Content(p, c, TRUE)
      BY <2>3, <3>1, SavedIsHeld
    <3>2. CASE saving[p][s] # Content(p, c, TRUE)
      <4>1. inbox' = inbox
        BY <2>3 DEF FinishSave
      <4>2. <<Stamp(p), c>> \in DOMAIN disk[s] =>
              /\ <<Stamp(p), c>> \in DOMAIN disk'[s]
              /\ disk'[s][<<Stamp(p), c>>] = disk[s][<<Stamp(p), c>>]
        BY PublishedStep
      <4> QED  BY <3>2, <4>1, <4>2 DEF Holds
    <3> QED  BY <3>1, <3>2
  <2> QED  BY <1>3, <2>1, <2>2, <2>2a, <2>3 DEF SaveStep
<1>4. ASSUME NEW t \in Servers, Crash(t) PROVE Holds(s, p, c)'
  <2>1. t # s
    BY <1>4 DEF Crash, Clients
  <2>2. inbox'[p][s] = inbox[p][s] /\ saving'[p][s] = saving[p][s]
    BY <1>4, <2>1 DEF Crash, StoreInv
  <2> QED  BY <1>1, <2>2
<1>5. ASSUME NEW q \in Puts, StartPut(q) PROVE UNCHANGED <<inbox, saving>>
  BY <1>5 DEF StartPut, Connect
<1>6. ASSUME NEW t \in Servers, Restart(t) PROVE UNCHANGED <<inbox, saving>>
  BY <1>6 DEF Restart, linkVars
<1>7. ASSUME NEW g \in Gets, StartGet(g) \/ GetStep(g) PROVE UNCHANGED <<inbox, saving>>
  BY <1>7 DEF StartGet, Connect, GetStep, Query, QueryFails, QueryIsCut, Choose, Fetch,
              FetchCut, FetchFails, linkVars
<1>8. CASE UNCHANGED vars
  BY <1>1, <1>8 DEF vars, linkVars
<1> QED
  BY <1>1, <1>2, <1>3, <1>4, <1>5, <1>6, <1>7, <1>8 DEF Next, PutStep

\* A transfer stays accounted for while its put keeps its sockets and its verdict.
LEMMA AccountStays ==
  ASSUME StoreInv, StoredInv, OnceInv, [Next]_vars, NEW p \in Puts, SentOK(p),
         linked'[p] = linked[p], alive'[p] \subseteq alive[p], failed[p] => failed'[p]
  PROVE  \A j \in Transfers : j < sent[p] => Accounted(p, Dest(j), ChunkSent(j))'
<1> SUFFICES ASSUME NEW j \in Transfers, j < sent[p] PROVE Accounted(p, Dest(j), ChunkSent(j))'
  OBVIOUS
<1>1. PICK s \in Servers, c \in Chunks : s = Dest(j) /\ c = ChunkSent(j)
  BY TransferTypes
<1>2. Accounted(p, s, c)
  BY <1>1 DEF SentOK
<1>3. s \in alive'[p] /\ HasBytes(p, c) => Holds(s, p, c)'
  BY <1>2, HeldStays DEF Accounted
<1>4. Accounted(p, s, c)'
  BY <1>2, <1>3 DEF Accounted, HasBytes
<1> QED  BY <1>1, <1>4 DEF Dest, ChunkSent

\* A put's transfer is delivered, or has no bytes, or the connection is broken, or put
\* says that it failed.
LEMMA SentInvSend ==
  ASSUME StoreInv, StoredInv, OnceInv, SentInv, NEW p \in Puts, SendChunk(p)
  PROVE  SentOK(p)'
<1>1. /\ pstate[p] = "sending" /\ sent' = [sent EXCEPT ![p] = sent[p] + 1]
      /\ pstate' = [pstate EXCEPT ![p] = IF sent[p] + 1 = 2 * N THEN "done" ELSE "sending"]
      /\ UNCHANGED <<disk, linked, alive, saving>>
  BY DEF SendChunk, serverVars
<1>2. sent'[p] = sent[p] + 1 /\ pstate'[p] = IF sent[p] + 1 = 2 * N THEN "done" ELSE "sending"
  BY <1>1 DEF StoreInv
<1>3. PICK i \in Transfers : i = sent[p] /\ i \in Int
  BY <1>1, NextTransfer, PlacementAssumption DEF Transfers
<1>4. PICK s \in Servers, c \in Chunks : s = Dest(i) /\ c = ChunkSent(i)
  BY TransferTypes
<1>5. failed[p] => failed'[p]
  BY DEF SendChunk, StoreInv
<1>6. [Next]_vars
  BY DEF Next, PutStep
<1>7. \A j \in Transfers : j < i => Accounted(p, Dest(j), ChunkSent(j))'
  BY <1>1, <1>3, <1>5, <1>6, AccountStays DEF SentInv
<1>8. Accounted(p, s, c)'
  <2>1. CASE s \in alive[p] /\ HasBytes(p, c) /\ Deliver(p, s, Content(p, c, TRUE)) /\ UNCHANGED failed
    <3>1. Content(p, c, TRUE) \in Contents
      BY ContentFields DEF All
    <3>2. \E k \in DOMAIN inbox'[p][s] : inbox'[p][s][k] = Content(p, c, TRUE)
      BY <2>1, <3>1, SentIsHeld
    <3>3. s \in linked[p]
      BY <2>1 DEF SentInv, SentOK
    <3> QED  BY <1>1, <3>2, <3>3 DEF Accounted, Holds
  <2>2. CASE /\ s \notin linked[p] \/ (s \notin alive[p] /\ HasBytes(p, c))
             /\ failed' = [failed EXCEPT ![p] = TRUE]
    <3>1. failed'[p] /\ s \notin alive[p]
      BY <2>2 DEF StoreInv, SentInv, SentOK
    <3> QED  BY <1>1, <3>1 DEF Accounted
  <2>3. CASE s \in linked[p] /\ (s \notin alive[p] \/ ~HasBytes(p, c))
    BY <1>1, <2>3 DEF Accounted, HasBytes
  <2> QED  BY <1>3, <1>4, <2>1, <2>2, <2>3 DEF SendChunk
<1>9. \A j \in Transfers : j < i + 1 => Accounted(p, Dest(j), ChunkSent(j))'
  <2> SUFFICES ASSUME NEW j \in Transfers, j < i + 1, j # i
               PROVE  Accounted(p, Dest(j), ChunkSent(j))'
    BY <1>4, <1>8 DEF Dest, ChunkSent
  <2>1. j < i
    BY <1>3, PlacementAssumption DEF Transfers
  <2> QED  BY <1>7, <2>1
<1> QED  BY <1>1, <1>2, <1>3, <1>9 DEF SentOK, SentInv

\* Every step keeps account of what has been sent.
LEMMA SentInvStep ==
  StoreInv /\ StoredInv /\ OnceInv /\ SentInv /\ [Next]_vars => SentInv'
<1> SUFFICES ASSUME StoreInv, StoredInv, OnceInv, SentInv, [Next]_vars, NEW p \in Puts
             PROVE  SentOK(p)'
  BY DEF SentInv
<1>0. SentOK(p) /\ alive[p] \subseteq Servers /\ p \in Clients
  BY DEF SentInv, StoreInv, Clients
<1>1. ASSUME linked'[p] = linked[p], alive'[p] \subseteq alive[p],
             sent'[p] = sent[p], failed'[p] = failed[p],
             pstate'[p] = "done" => pstate[p] = "done"
      PROVE  SentOK(p)'
  <2>1. \A j \in Transfers : j < sent[p] => Accounted(p, Dest(j), ChunkSent(j))'
    BY <1>0, <1>1, AccountStays
  <2> QED  BY <1>0, <1>1, <2>1 DEF SentOK
<1>3. ASSUME StartPut(p) PROVE SentOK(p)'
  <2>1. /\ sent'[p] = 0 /\ pstate'[p] = "sending"
        /\ linked'[p] = running /\ alive'[p] = running
    BY <1>0, <1>3 DEF StartPut, Connect, StoreInv
  <2>2. \A j \in Transfers : ~(j < 0)
    BY PlacementAssumption DEF Transfers
  <2> QED  BY <2>1, <2>2 DEF SentOK
<1>4. ASSUME SendChunk(p) PROVE SentOK(p)'
  BY <1>4, SentInvSend
<1>5. ASSUME PutDies(p) PROVE SentOK(p)'
  <2>1. /\ UNCHANGED <<linked, alive, sent, failed>>
        /\ pstate'[p] = "dead"
    BY <1>5 DEF PutDies, StoreInv
  <2> QED  BY <1>1, <2>1
<1>6. ASSUME NEW q \in Puts, q # p, PutStep(q) PROVE SentOK(p)'
  <2>1. /\ linked'[p] = linked[p] /\ alive'[p] = alive[p]
        /\ sent'[p] = sent[p] /\ failed'[p] = failed[p] /\ pstate'[p] = pstate[p]
    BY <1>0, <1>6 DEF PutStep, StartPut, Connect, SendChunk, PutDies, StoreInv
  <2> QED  BY <1>1, <2>1
<1>7. ASSUME NEW q \in Puts, NEW s \in Servers, SaveStep(q, s) PROVE SentOK(p)'
  <2>1. UNCHANGED <<linked, putVars>> /\ alive'[p] \subseteq alive[p]
    BY <1>0, <1>7 DEF SaveStep, BeginSave, RefuseSave, FinishSave, StoreInv
  <2> QED  BY <1>1, <2>1 DEF putVars
<1>8. ASSUME NEW g \in Gets, StartGet(g) PROVE SentOK(p)'
  <2>1. g # p
    BY StoreAssumption
  <2>2. UNCHANGED putVars /\ linked'[p] = linked[p] /\ alive'[p] = alive[p]
    BY <1>0, <1>8, <2>1 DEF StartGet, Connect, StoreInv
  <2> QED  BY <1>1, <2>2 DEF putVars
<1>9. CASE \/ \E g \in Gets : GetStep(g)
           \/ \E s \in Servers : Restart(s)
           \/ UNCHANGED vars
  <2>1. UNCHANGED <<linkVars, putVars>>
    BY <1>9 DEF GetStep, Query, QueryFails, QueryIsCut, Choose, Fetch, FetchCut, FetchFails, Restart, vars
  <2> QED  BY <1>1, <2>1 DEF putVars, linkVars
<1>10. ASSUME NEW s \in Servers, Crash(s) PROVE SentOK(p)'
  <2>1. UNCHANGED <<linked, putVars>> /\ alive'[p] = alive[p] \ {s}
    BY <1>0, <1>10 DEF Crash
  <2> QED  BY <1>1, <2>1 DEF putVars
<1> QED
  BY <1>3, <1>4, <1>5, <1>6, <1>7, <1>8, <1>9, <1>10 DEF Next, PutStep

\* What has been sent is accounted for, in every state.
THEOREM StoreSentInv == Spec => [](StoreInv /\ StoredInv /\ OnceInv /\ SentInv)
<1>1. Init => StoreInv /\ StoredInv /\ OnceInv /\ SentInv
  BY StoreInvInit, StoredInvInit, OnceInvInit, SentInvInit
<1>2. StoreInv /\ StoredInv /\ OnceInv /\ SentInv /\ [Next]_vars
        => (StoreInv /\ StoredInv /\ OnceInv /\ SentInv)'
  BY StoreInvStep, StoredInvStep, OnceInvStep, SentInvStep
<1> QED  BY <1>1, <1>2, PTL DEF Spec

\* When put ends, both servers of every chunk that has bytes hold it, but for those
\* that crashed or refused a chunk, which put is not told, and for servers put had no
\* socket to, of which it reports a failure.
THEOREM StorePutLeavesAll == Spec => []PutLeavesAll
<1>1. StoreInv /\ SentInv => PutLeavesAll
  <2> SUFFICES ASSUME StoreInv, SentInv, NEW p \in Puts, pstate[p] = "done",
                      NEW c \in Chunks, NEW s \in Homes[c]
               PROVE  /\ s \in alive[p] /\ HasBytes(p, c) => Holds(s, p, c)
                      /\ s \notin linked[p] => failed[p]
    BY DEF PutLeavesAll
  <2>1. PICK j \in Transfers : ChunkSent(j) = c /\ Dest(j) = s
    BY DEF Homes
  <2>2. sent[p] = 2 * N /\ j < 2 * N
    BY PlacementAssumption DEF SentInv, SentOK, Transfers
  <2> QED  BY <2>1, <2>2 DEF SentInv, SentOK, Accounted
<1> QED  BY <1>1, StoreSentInv, PTL

\* The safety half of CleanPutReplicates: once nothing of a put that reported no
\* failure is left in a socket or a temp file, and none of its connections broke,
\* every chunk that has bytes is on both its servers.
THEOREM StoreCleanPutStored ==
  Spec => [](\A p \in Puts :
               /\ pstate[p] = "done" /\ ~failed[p] /\ alive[p] = linked[p]
               /\ \A s \in Servers : inbox[p][s] = <<>> /\ saving[p][s] = None
               => Stored(p))
<1>1. ASSUME StoreInv, PutLeavesAll, NEW p \in Puts,
             pstate[p] = "done", ~failed[p], alive[p] = linked[p],
             \A s \in Servers : inbox[p][s] = <<>> /\ saving[p][s] = None
      PROVE  Stored(p)
  <2> SUFFICES ASSUME NEW c \in Chunks, HasBytes(p, c), NEW s \in Homes[c]
               PROVE  /\ <<Stamp(p), c>> \in DOMAIN disk[s]
                      /\ disk[s][<<Stamp(p), c>>] = Content(p, c, TRUE)
    BY DEF Stored, OnDisk
  <2>1. s \in Servers
    BY TransferTypes DEF Homes
  <2>2. s \in alive[p]
    BY <1>1 DEF PutLeavesAll
  <2>3. Holds(s, p, c)
    BY <1>1, <2>2 DEF PutLeavesAll
  <2>4. Content(p, c, TRUE) \in Contents /\ None \notin Contents
    BY ContentFields, NoneIsNoContent DEF All
  <2>5. DOMAIN inbox[p][s] = {}
    <3>1. DOMAIN <<>> = {}
      OBVIOUS
    <3> QED  BY <1>1, <2>1, <3>1
  <2>6. saving[p][s] # Content(p, c, TRUE)
    BY <1>1, <2>1, <2>4
  <2> QED  BY <2>3, <2>5, <2>6 DEF Holds
<1>2. StoreInv /\ PutLeavesAll =>
        \A p \in Puts :
          /\ pstate[p] = "done" /\ ~failed[p] /\ alive[p] = linked[p]
          /\ \A s \in Servers : inbox[p][s] = <<>> /\ saving[p][s] = None
          => Stored(p)
  BY <1>1
<1> QED  BY <1>2, StoreSentInv, StorePutLeavesAll, PTL

-----------------------------------------------------------------------------
(* What a get returns                                                      *)

\* No upload is cut, and of no chunk that a get fetches a part is missing.
NothingCut == Faults \cap {"put_cut", "cut_header", "late_data"} = {}

\* What a get has fetched are the first chunks of the set it chose.
FetchedOK(g) ==
  \A k \in DOMAIN fetched[g] :
    /\ fetched[g][k].chunk = k - 1
    /\ Stamp(fetched[g][k].put) = chosen[g]
    /\ NothingCut => fetched[g][k].whole

FetchedInv == \A g \in Gets : FetchedOK(g)

\* A get that is not acting keeps what it has fetched.
LEMMA OtherFetched ==
  ASSUME NEW h \in Gets, FetchedOK(h), gstate'[h] = gstate[h], fetched'[h] = fetched[h],
         chosen'[h] = chosen[h]
  PROVE  FetchedOK(h)'
BY DEF FetchedOK

\* Nothing has been fetched at the start.
LEMMA FetchedInvInit == Init => FetchedInv
<1> SUFFICES ASSUME Init, NEW g \in Gets PROVE FetchedOK(g)
  BY DEF FetchedInv
<1>1. fetched[g] = <<>> /\ DOMAIN <<>> = {}
  BY DEF Init
<1> QED  BY <1>1 DEF FetchedOK

\* Every chunk fetched is the next one of the set.
LEMMA FetchedInvStep ==
  StoreInv /\ GetInv /\ StoredInv /\ FetchedInv /\ [Next]_vars => FetchedInv'
<1> SUFFICES ASSUME StoreInv, GetInv, StoredInv, FetchedInv, [Next]_vars PROVE FetchedInv'
  OBVIOUS
<1>1. CASE UNCHANGED getVars
  BY <1>1, OtherFetched DEF FetchedInv, getVars
<1>2. ASSUME NEW g \in Gets, StartGet(g) \/ GetStep(g), FetchedOK(g)'
      PROVE  FetchedInv'
  <2>1. \A h \in Gets : h # g => FetchedOK(h)'
    BY <1>2, GetFrame, OtherFetched DEF FetchedInv
  <2> QED  BY <1>2, <2>1 DEF FetchedInv
<1>3. ASSUME NEW g \in Gets, StartGet(g) \/ Query(g) \/ QueryFails(g) \/ QueryIsCut(g) \/ Choose(g)
      PROVE  FetchedInv'
  <2>1. fetched' = fetched /\ gstate[g] \in {"idle", "query", "choose"}
    BY <1>3 DEF StartGet, Query, QueryFails, QueryIsCut, Choose
  <2>2. fetched'[g] = <<>> /\ DOMAIN <<>> = {}
    BY <2>1 DEF GetInv, ChosenOK
  <2>3. FetchedOK(g)'
    BY <2>2 DEF FetchedOK
  <2> QED  BY <1>2, <1>3, <2>3 DEF GetStep
<1>4. ASSUME NEW g \in Gets, Fetch(g) \/ FetchCut(g) PROVE FetchedInv'
  <2> DEFINE n == Len(fetched[g])
             f == <<chosen[g], n>>
             y == disk[Source(g)][f]
  <2>1. PICK x \in {y, CutOff(y)} :
          /\ fetched' = [fetched EXCEPT ![g] = Append(fetched[g], x)]
          /\ gstate[g] = "fetch" /\ UNCHANGED chosen
          /\ NothingCut => x = y
    BY <1>4 DEF Fetch, FetchCut, NothingCut
  <2>2. /\ y \in Contents /\ fetched[g] \in Seq(Contents) /\ f \in DOMAIN disk[Source(g)]
        /\ Source(g) \in Servers /\ n \in Nat
    BY <2>1, NextSource
  <2>3. f = <<Stamp(y.put), y.chunk>> /\ (NothingCut => y.whole)
    BY <2>2 DEF StoredInv, Good, NothingCut
  <2>4. x \in Contents /\ x.put = y.put /\ x.chunk = y.chunk
    BY <2>1, <2>2, CutContent
  <2>5. x.chunk = n /\ Stamp(x.put) = chosen[g] /\ (NothingCut => x.whole)
    BY <2>1, <2>3, <2>4
  <2> HIDE DEF n, y
  <2>6. fetched'[g] = Append(fetched[g], x)
    BY <2>1 DEF GetInv, GetTypes
  <2>7. \A k \in DOMAIN fetched'[g] :
          \/ k \in DOMAIN fetched[g] /\ fetched'[g][k] = fetched[g][k]
          \/ k - 1 = n /\ fetched'[g][k] = x
    BY <2>2, <2>4, <2>6, AppendSeq DEF n
  <2>8. FetchedOK(g)
    BY DEF FetchedInv
  <2>9. chosen'[g] = chosen[g]
    BY <2>1
  <2>10. ASSUME NEW k \in DOMAIN fetched'[g]
         PROVE  /\ fetched'[g][k].chunk = k - 1
                /\ Stamp(fetched'[g][k].put) = chosen'[g]
                /\ NothingCut => fetched'[g][k].whole
    <3>1. CASE k \in DOMAIN fetched[g] /\ fetched'[g][k] = fetched[g][k]
      BY <2>8, <2>9, <3>1 DEF FetchedOK
    <3>2. CASE k - 1 = n /\ fetched'[g][k] = x
      BY <2>5, <2>9, <3>2
    <3> QED  BY <2>7, <3>1, <3>2
  <2>11. FetchedOK(g)'
    BY <2>10 DEF FetchedOK, NothingCut
  <2> QED  BY <1>2, <1>4, <2>11 DEF GetStep
<1>5. ASSUME NEW g \in Gets, FetchFails(g) PROVE FetchedInv'
  <2>1. gstate'[g] = "failed" /\ UNCHANGED <<chosen, fetched>>
    BY <1>5 DEF FetchFails, GetInv, GetTypes
  <2>2. FetchedOK(g)'
    BY <2>1 DEF FetchedInv, FetchedOK
  <2> QED  BY <1>2, <1>5, <2>2 DEF GetStep
<1>6. CASE \/ \E p \in Puts : PutStep(p) \/ \E s \in Servers : SaveStep(p, s)
           \/ \E s \in Servers : Crash(s) \/ Restart(s)
           \/ UNCHANGED vars
  BY <1>1, <1>6, GetsFrame
<1> QED  BY <1>3, <1>4, <1>5, <1>6 DEF Next, GetStep

\* A get that succeeds has all the chunks of one put, each whole and in its place.
LEMMA WholeFetched ==
  ASSUME StoreInv, GetInv, FetchedInv, NothingCut
  PROVE  GetWhole
<1> SUFFICES ASSUME NEW g \in Gets, gstate[g] = "ok"
             PROVE  \E p \in Puts \cup Earlier : fetched[g] = [i \in 1..N |-> Content(p, i - 1, TRUE)]
  BY DEF GetWhole
<1>1. fetched[g] \in Seq(Contents) /\ Len(fetched[g]) = N /\ 1 \in 1..N /\ N \in Nat
  BY PlacementAssumption DEF GetInv, GetTypes, ChosenOK
<1> DEFINE q == fetched[g]
<1>2. \A k \in 1..N : /\ q[k] \in Contents /\ q[k].chunk = k - 1
                      /\ Stamp(q[k].put) = chosen[g] /\ q[k].whole
  BY <1>1 DEF FetchedInv, FetchedOK
<1>3. q = [k \in 1..N |-> q[k]]
  BY <1>1
<1> HIDE DEF q
<1>4. \A k \in 1..N : q[k].put = q[1].put /\ q[1].put \in All
  <2> TAKE k \in 1..N
  <2>1. q[k].put \in All /\ q[1].put \in All
    BY <1>1, <1>2, ContentFields
  <2>2. Stamp(q[k].put) = Stamp(q[1].put)
    BY <1>1, <1>2
  <2> QED  BY <2>1, <2>2, StoreAssumption DEF All
<1>5. \A k \in 1..N : q[k] = Content(q[1].put, k - 1, TRUE)
  <2> TAKE k \in 1..N
  <2>1. q[k] = Content(q[k].put, q[k].chunk, q[k].whole)
    BY <1>2, ContentFields
  <2>2. q[k].whole = TRUE
    BY <1>2, ContentFields
  <2> QED  BY <1>2, <1>4, <2>1, <2>2
<1>6. q = [k \in 1..N |-> Content(q[1].put, k - 1, TRUE)]
  BY <1>3, <1>5
<1>7. q[1].put \in Puts \cup Earlier
  BY <1>1, <1>4 DEF All
<1> QED  BY <1>6, <1>7 DEF q

\* A get that succeeds returns one put's file, whole and in order, as long as no
\* upload, no header of an answer and no data of one is cut or late in the middle of a
\* chunk: neither puts that go on at the same time, nor a put that dies half-way, nor
\* refused chunks, crashes or chunk lists cut short can mix or truncate it.
THEOREM StoreGetWhole ==
  ASSUME NothingCut
  PROVE  Spec => []GetWhole
<1>1. Init => StoreInv /\ GetInv /\ StoredInv /\ FetchedInv
  BY StoreInvInit, GetInvInit, StoredInvInit, FetchedInvInit
<1>2. StoreInv /\ GetInv /\ StoredInv /\ FetchedInv /\ [Next]_vars
        => StoreInv' /\ GetInv' /\ StoredInv' /\ FetchedInv'
  BY StoreInvStep, GetInvStep, StoredInvStep, FetchedInvStep
<1>3. StoreInv /\ GetInv /\ FetchedInv => GetWhole
  BY WholeFetched
<1> QED  BY <1>1, <1>2, <1>3, PTL DEF Spec

-----------------------------------------------------------------------------
(* How fresh it is, and when a get fails                                   *)

\* What was fully stored when the get began is still there.
SettledOK(g) ==
  \A p \in settled[g], c \in Chunks : \A s \in Homes[c] : <<Stamp(p), c>> \in DOMAIN disk[s]

\* A server that the table names and that answered to the end has put all it had of
\* the settled puts into the table.
AnsweredOK(g) ==
  \A f \in DOMAIN table[g], p \in settled[g] :
    table[g][f] \notin stale[g] => <<Stamp(p), f[2]>> \in DOMAIN table[g]

\* So has every server that was asked over a connection that is not broken.
AskedOK(g) ==
  \A s \in alive[g] \ stale[g] : s < asked[g] =>
    \A p \in settled[g], c \in Chunks : s \in Homes[c] => <<Stamp(p), c>> \in DOMAIN table[g]

\* Part of a published chunk is missing.
CutOnDisk == \E s \in Servers : \E f \in DOMAIN disk[s] : ~disk[s][f].whole

\* A get asks only the servers it has a socket to, and does not fail for nothing.
EndOK(g) ==
  /\ alive[g] \subseteq linked[g]
  /\ \A f \in DOMAIN table[g] : table[g][f] \in linked[g]
  /\ gstate[g] = "idle" => table[g] = <<>> /\ asked[g] = 0
  /\ gstate[g] \in {"choose", "incomplete"} => asked[g] = N
  /\ gstate[g] = "incomplete" => ValidSets(table[g]) = {}
  /\ gstate[g] = "failed" => alive[g] # linked[g] \/ stale[g] # {} \/ CutOnDisk

AnswerOK(g) == SettledOK(g) /\ AnsweredOK(g) /\ AskedOK(g) /\ EndOK(g)
AnswerInv == \A g \in Gets : AnswerOK(g)

\* A get has nothing to answer for at the start.
LEMMA AnswerInvInit == Init => AnswerInv
<1> SUFFICES ASSUME Init, NEW g \in Gets PROVE AnswerOK(g)
  BY DEF AnswerInv
<1>1. /\ table[g] = <<>> /\ gstate[g] = "idle" /\ asked[g] = 0 /\ settled[g] = {}
      /\ alive[g] = {} /\ linked[g] = {} /\ DOMAIN <<>> = {}
  BY DEF Init, Clients
<1> QED  BY <1>1 DEF AnswerOK, SettledOK, AnsweredOK, AskedOK, EndOK

\* A get that is not acting loses connections at most, while files only come.
LEMMA OtherAnswer ==
  ASSUME NEW h \in Gets, AnswerOK(h), gstate'[h] = gstate[h], asked'[h] = asked[h],
         table'[h] = table[h], stale'[h] = stale[h], settled'[h] = settled[h],
         linked'[h] = linked[h], alive'[h] \subseteq alive[h],
         \A s \in Servers : \A f \in DOMAIN disk[s] :
           f \in DOMAIN disk'[s] /\ disk'[s][f] = disk[s][f]
  PROVE  AnswerOK(h)'
<1>1. \A c \in Chunks : Homes[c] \subseteq Servers
  BY TwoHomes
<1>2. SettledOK(h)'
  BY <1>1 DEF AnswerOK, SettledOK
<1>3. AnsweredOK(h)' /\ AskedOK(h)'
  BY DEF AnswerOK, AnsweredOK, AskedOK
<1>4. EndOK(h)'
  <2>1. CutOnDisk => CutOnDisk'
    BY DEF CutOnDisk
  <2> QED  BY <2>1 DEF AnswerOK, EndOK
<1> QED  BY <1>2, <1>3, <1>4 DEF AnswerOK

\* When a get begins, the servers have what is fully stored.
LEMMA StartAnswer ==
  ASSUME GetInv, StoreInv, AnswerInv, NEW g \in Gets, StartGet(g)
  PROVE  AnswerOK(g)'
<1>1. /\ gstate[g] = "idle" /\ gstate'[g] = "query"
      /\ settled'[g] = {p \in Puts \cup Earlier : Replicated(p)}
      /\ linked'[g] = running /\ alive'[g] = running
      /\ UNCHANGED <<disk, asked, table, stale>>
  BY DEF StartGet, Connect, GetInv, GetTypes, StoreInv, serverVars, Clients
<1>2. table'[g] = <<>> /\ asked'[g] = 0 /\ DOMAIN <<>> = {}
  BY <1>1 DEF AnswerInv, AnswerOK, EndOK
<1>3. SettledOK(g)'
  BY <1>1 DEF SettledOK, Replicated, OnDisk
<1>4. AnsweredOK(g)'
  BY <1>2 DEF AnsweredOK
<1>5. AskedOK(g)'
  <2>1. \A s \in running : ~(s < 0)
    BY PlacementAssumption DEF StoreInv, Servers
  <2> QED  BY <1>1, <1>2, <2>1 DEF AskedOK
<1>6. EndOK(g)'
  BY <1>1, <1>2 DEF EndOK
<1> QED  BY <1>3, <1>4, <1>5, <1>6 DEF AnswerOK

\* A whole answer brings everything the server has, so the table stays answered; of
\* a partial one only the server's own entries are stale; no answer changes nothing.
LEMMA QueryAnswer ==
  ASSUME StoreInv, GetInv, StoredInv, AnswerInv, NEW g \in Gets,
         Query(g) \/ QueryFails(g) \/ QueryIsCut(g)
  PROVE  AnswerOK(g)'
<1> DEFINE s == asked[g]
<1>1. /\ gstate[g] = "query" /\ AsksNext(g) /\ disk' = disk /\ settled' = settled
      /\ alive' = alive /\ linked' = linked
  BY DEF Query, QueryFails, QueryIsCut, serverVars, linkVars
<1>2. /\ s \in Servers /\ asked'[g] = s + 1
      /\ \/ gstate'[g] = "query"
         \/ gstate'[g] = "choose" /\ asked'[g] = N
  BY <1>1, AsksNextTypes
<1>3. AnswerOK(g)
  BY DEF AnswerInv
<1>4. SettledOK(g)'
  BY <1>1, <1>3 DEF AnswerOK, SettledOK
<1>5. \/ s \notin alive[g] /\ table'[g] = table[g] /\ stale'[g] = stale[g]
      \/ \E part \in SUBSET DOMAIN disk[s] :
           /\ s \in alive[g]
           /\ table' = [table EXCEPT ![g] = AddToTable(table[g], part, s)]
           /\ \/ part = DOMAIN disk[s] /\ stale'[g] = stale[g]
              \/ stale'[g] = stale[g] \cup {s}
  BY DEF Query, QueryFails, QueryIsCut, GetInv, GetTypes
<1>6. \A t \in alive[g] : t < s + 1 => t < s \/ t = s
  BY <1>2, PlacementAssumption DEF StoreInv, Clients, Servers
<1> HIDE DEF s
<1>7. CASE s \notin alive[g] /\ table'[g] = table[g] /\ stale'[g] = stale[g]
  <2>1. AnsweredOK(g)'
    BY <1>1, <1>3, <1>7 DEF AnswerOK, AnsweredOK
  <2>2. AskedOK(g)'
    BY <1>1, <1>2, <1>3, <1>6, <1>7 DEF AnswerOK, AskedOK, s
  <2>3. EndOK(g)'
    BY <1>1, <1>2, <1>3, <1>7 DEF AnswerOK, EndOK
  <2> QED  BY <1>4, <2>1, <2>2, <2>3 DEF AnswerOK
<1>8. ASSUME NEW part \in SUBSET DOMAIN disk[s], s \in alive[g],
             table' = [table EXCEPT ![g] = AddToTable(table[g], part, s)],
             \/ part = DOMAIN disk[s] /\ stale'[g] = stale[g]
             \/ stale'[g] = stale[g] \cup {s}
      PROVE  AnswerOK(g)'
  <2>1. /\ DOMAIN table'[g] = DOMAIN table[g] \cup part
        /\ \A f \in DOMAIN table[g] \cup part :
             table'[g][f] = IF f \in part THEN s ELSE table[g][f]
    <3>1. part \subseteq DOMAIN disk[s]
      OBVIOUS
    <3> QED  BY <1>1, <1>2, <1>8, <3>1, AnswerTypes, Zenon
  <2>2. ASSUME part = DOMAIN disk[s], NEW p \in settled[g], NEW c \in Chunks, s \in Homes[c]
        PROVE  <<Stamp(p), c>> \in DOMAIN table'[g]
    BY <1>3, <2>1, <2>2 DEF AnswerOK, SettledOK
  <2>3. \A f \in part : f[2] \in Chunks /\ s \in Homes[f[2]]
    <3> TAKE f \in part
    <3>1. f \in DOMAIN disk[s] /\ f \in Files /\ disk[s][f] \in Contents
      BY <1>2 DEF StoreInv, PartialFunction
    <3>2. f = <<Stamp(disk[s][f].put), disk[s][f].chunk>> /\ s \in Homes[disk[s][f].chunk]
      BY <1>2, <3>1 DEF StoredInv, Good
    <3>3. f[2] = disk[s][f].chunk
      BY <3>2
    <3> QED  BY <3>1, <3>2, <3>3, ContentFields
  <2>4. AnsweredOK(g)'
    <3> SUFFICES ASSUME NEW f \in DOMAIN table'[g], NEW p \in settled'[g],
                        table'[g][f] \notin stale'[g]
                 PROVE  <<Stamp(p), f[2]>> \in DOMAIN table'[g]
      BY DEF AnsweredOK
    <3>1. CASE f \in part
      <4>1. table'[g][f] = s
        BY <2>1, <3>1
      <4>2. part = DOMAIN disk[s] /\ p \in settled[g]
        BY <1>1, <1>8, <4>1
      <4> QED  BY <2>2, <2>3, <3>1, <4>2
    <3>2. CASE f \notin part
      <4>1. f \in DOMAIN table[g] /\ table[g][f] \notin stale[g] /\ p \in settled[g]
        BY <1>1, <1>8, <2>1, <3>2
      <4> QED  BY <1>3, <2>1, <4>1 DEF AnswerOK, AnsweredOK
    <3> QED  BY <3>1, <3>2
  <2>5. AskedOK(g)'
    <3> SUFFICES ASSUME NEW t \in alive[g], t \notin stale'[g], t < s + 1,
                        NEW p \in settled[g], NEW c \in Chunks, t \in Homes[c]
                 PROVE  <<Stamp(p), c>> \in DOMAIN table'[g]
      BY <1>1, <1>2 DEF AskedOK
    <3>1. CASE t = s
      <4>1. part = DOMAIN disk[s]
        BY <1>8, <3>1
      <4> QED  BY <2>2, <3>1, <4>1
    <3>2. CASE t < s
      <4>1. t \notin stale[g]
        BY <1>8
      <4>2. <<Stamp(p), c>> \in DOMAIN table[g]
        BY <1>3, <3>2, <4>1 DEF AnswerOK, AskedOK, s
      <4> QED  BY <2>1, <4>2
    <3> QED  BY <1>6, <3>1, <3>2
  <2>6. EndOK(g)'
    <3>1. \A f \in DOMAIN table'[g] : table'[g][f] \in linked[g]
      BY <1>3, <1>8, <2>1 DEF AnswerOK, EndOK
    <3> QED  BY <1>1, <1>2, <1>3, <3>1 DEF AnswerOK, EndOK
  <2> QED  BY <1>4, <2>4, <2>5, <2>6 DEF AnswerOK
<1> QED  BY <1>5, <1>7, <1>8

\* A get that chooses, fetches or gives up changes none of its answers.
LEMMA EndAnswer ==
  ASSUME StoreInv, GetInv, AnswerInv, NEW g \in Gets,
         Choose(g) \/ Fetch(g) \/ FetchCut(g) \/ FetchFails(g)
  PROVE  AnswerOK(g)'
<1>1. /\ UNCHANGED <<disk, linked, alive, asked, table, settled>>
      /\ \/ stale'[g] = stale[g]
         \/ stale'[g] = stale[g] \cup {Source(g)}
  BY DEF Choose, Fetch, FetchCut, FetchFails, serverVars, linkVars, GetInv, GetTypes
<1>2. AnswerOK(g)
  BY DEF AnswerInv
<1>3. SettledOK(g)' /\ AnsweredOK(g)' /\ AskedOK(g)'
  <2>1. SettledOK(g)'
    BY <1>1, <1>2 DEF AnswerOK, SettledOK
  <2>2. AnsweredOK(g)'
    BY <1>1, <1>2 DEF AnswerOK, AnsweredOK
  <2>3. AskedOK(g)'
    BY <1>1, <1>2 DEF AnswerOK, AskedOK
  <2> QED  BY <2>1, <2>2, <2>3
<1>4. CASE Choose(g)
  <2> DEFINE found == FindLatestValidSet(table[g])
  <2>1. gstate[g] = "choose" /\ gstate'[g] = IF found = None THEN "incomplete" ELSE "fetch"
    BY <1>4 DEF Choose, GetInv, GetTypes
  <2>2. found = None => ValidSets(table[g]) = {}
    <3>1. ASSUME ValidSets(table[g]) # {} PROVE Max(ValidSets(table[g])) # None
      <4>1. Max(ValidSets(table[g])) \in {Stamp(p) : p \in All}
        BY <3>1, ValidSetsType DEF GetInv, GetTypes
      <4> QED  BY <4>1, StampRange, StoreAssumption
    <3> QED  BY <3>1 DEF FindLatestValidSet
  <2>3. EndOK(g)'
    BY <1>1, <1>2, <2>1, <2>2 DEF AnswerOK, EndOK
  <2> QED  BY <1>3, <2>3 DEF AnswerOK
<1>5. CASE Fetch(g) \/ FetchCut(g)
  <2>1. gstate'[g] \in {"ok", "fetch"}
    BY <1>5 DEF Fetch, FetchCut, GetInv, GetTypes
  <2>2. EndOK(g)'
    BY <1>1, <1>2, <2>1 DEF AnswerOK, EndOK
  <2> QED  BY <1>3, <2>2 DEF AnswerOK
<1>6. CASE FetchFails(g)
  <2>1. gstate[g] = "fetch" /\ gstate'[g] = "failed"
    BY <1>6 DEF FetchFails, GetInv, GetTypes
  <2>2. /\ Source(g) \in linked[g] /\ Source(g) \in Servers
        /\ <<chosen[g], Len(fetched[g])>> \in DOMAIN disk[Source(g)]
    BY <1>2, <2>1, NextSource DEF AnswerOK, EndOK, Source
  <2>3. alive[g] # linked[g] \/ stale'[g] # {} \/ CutOnDisk
    <3>1. CASE Source(g) \notin alive[g] \ stale[g] /\ UNCHANGED stale
      BY <2>2, <3>1
    <3>2. CASE ~disk[Source(g)][<<chosen[g], Len(fetched[g])>>].whole
      BY <2>2, <3>2 DEF CutOnDisk
    <3>3. CASE stale' = [stale EXCEPT ![g] = stale[g] \cup {Source(g)}]
      BY <3>3 DEF GetInv, GetTypes
    <3> QED  BY <1>6, <3>1, <3>2, <3>3 DEF FetchFails
  <2>4. CutOnDisk' = CutOnDisk
    BY <1>1 DEF CutOnDisk
  <2>5. EndOK(g)'
    BY <1>1, <1>2, <2>1, <2>3, <2>4 DEF AnswerOK, EndOK
  <2> QED  BY <1>3, <2>5 DEF AnswerOK
<1> QED  BY <1>4, <1>5, <1>6

\* The tables stay answered.
LEMMA AnswerInvStep ==
  StoreInv /\ GetInv /\ StoredInv /\ OnceInv /\ AnswerInv /\ [Next]_vars => AnswerInv'
<1> SUFFICES ASSUME StoreInv, GetInv, StoredInv, OnceInv, AnswerInv, [Next]_vars PROVE AnswerInv'
  OBVIOUS
<1>1. \A s \in Servers : \A f \in DOMAIN disk[s] :
        f \in DOMAIN disk'[s] /\ disk'[s][f] = disk[s][f]
  BY PublishedStep
<1>2. ASSUME NEW g \in Gets, StartGet(g) \/ GetStep(g) PROVE AnswerInv'
  <2>1. AnswerOK(g)'
    BY <1>2, StartAnswer, QueryAnswer, EndAnswer DEF GetStep
  <2>2. \A h \in Gets : h # g => AnswerOK(h)'
    BY <1>1, <1>2, GetFrame, OtherAnswer DEF AnswerInv
  <2> QED  BY <2>1, <2>2 DEF AnswerInv
<1>3. CASE \/ \E p \in Puts : PutStep(p) \/ \E s \in Servers : SaveStep(p, s)
           \/ \E s \in Servers : Crash(s) \/ Restart(s)
           \/ UNCHANGED vars
  <2>1. UNCHANGED getVars /\ \A h \in Gets : linked'[h] = linked[h] /\ alive'[h] \subseteq alive[h]
    BY <1>3, GetsFrame
  <2> QED  BY <1>1, <2>1, OtherAnswer DEF AnswerInv, getVars
<1> QED  BY <1>2, <1>3 DEF Next

\* A chunk was fetched of a server that had answered to the end, so the table has the
\* same chunk of every settled put.
SeenOK(g) ==
  gstate[g] \in {"fetch", "ok"} =>
    \A k \in DOMAIN fetched[g] : \A p \in settled[g] : <<Stamp(p), k - 1>> \in DOMAIN table[g]

SeenInv == \A g \in Gets : SeenOK(g)

\* Nothing has been fetched at the start.
LEMMA SeenInvInit == Init => SeenInv
BY DEF Init, SeenInv, SeenOK

\* get fetches of no server whose answer it did not read to the end.
LEMMA SeenInvStep ==
  StoreInv /\ GetInv /\ AnswerInv /\ SeenInv /\ [Next]_vars => SeenInv'
<1> SUFFICES ASSUME StoreInv, GetInv, AnswerInv, SeenInv, [Next]_vars PROVE SeenInv'
  OBVIOUS
<1>1. CASE UNCHANGED getVars
  BY <1>1 DEF SeenInv, SeenOK, getVars
<1>2. ASSUME NEW g \in Gets, StartGet(g) \/ GetStep(g), SeenOK(g)'
      PROVE  SeenInv'
  <2>1. \A h \in Gets : h # g => SeenOK(h)'
    BY <1>2, GetFrame DEF SeenInv, SeenOK
  <2> QED  BY <1>2, <2>1 DEF SeenInv
<1>3. ASSUME NEW g \in Gets, StartGet(g) \/ Query(g) \/ QueryFails(g) \/ QueryIsCut(g) \/ Choose(g)
      PROVE  SeenInv'
  <2>1. fetched' = fetched /\ gstate[g] \in {"idle", "query", "choose"}
    BY <1>3 DEF StartGet, Query, QueryFails, QueryIsCut, Choose
  <2>2. fetched'[g] = <<>> /\ DOMAIN <<>> = {}
    BY <2>1 DEF GetInv, ChosenOK
  <2>3. SeenOK(g)'
    BY <2>2 DEF SeenOK
  <2> QED  BY <1>2, <1>3, <2>3 DEF GetStep
<1>4. ASSUME NEW g \in Gets, Fetch(g) \/ FetchCut(g) PROVE SeenInv'
  <2> DEFINE n == Len(fetched[g])
             f == <<chosen[g], n>>
             y == disk[Source(g)][f]
  <2>1. PICK x \in {y, CutOff(y)} :
          /\ fetched' = [fetched EXCEPT ![g] = Append(fetched[g], x)]
          /\ gstate[g] = "fetch" /\ UNCHANGED <<table, settled>>
          /\ Source(g) \notin stale[g]
    BY <1>4 DEF Fetch, FetchCut
  <2>2. y \in Contents /\ fetched[g] \in Seq(Contents) /\ f \in DOMAIN table[g] /\ n \in Nat
    BY <2>1, NextSource
  <2>3. x \in Contents
    BY <2>1, <2>2, CutContent
  <2>4. \A p \in settled[g] : <<Stamp(p), n>> \in DOMAIN table[g]
    <3>1. table[g][f] \notin stale[g] /\ f[2] = n
      BY <2>1 DEF Source
    <3> QED  BY <2>2, <3>1 DEF AnswerInv, AnswerOK, AnsweredOK
  <2> HIDE DEF n, y
  <2>5. fetched'[g] = Append(fetched[g], x)
    BY <2>1 DEF GetInv, GetTypes
  <2>6. \A k \in DOMAIN fetched'[g] : k \in DOMAIN fetched[g] \/ k - 1 = n
    BY <2>2, <2>3, <2>5, AppendSeq DEF n
  <2>7. \A k \in DOMAIN fetched[g] : \A p \in settled[g] : <<Stamp(p), k - 1>> \in DOMAIN table[g]
    BY <2>1 DEF SeenInv, SeenOK
  <2>8. SeenOK(g)'
    BY <2>1, <2>4, <2>6, <2>7 DEF SeenOK
  <2> QED  BY <1>2, <1>4, <2>8 DEF GetStep
<1>5. ASSUME NEW g \in Gets, FetchFails(g) PROVE SeenInv'
  <2>1. gstate'[g] = "failed"
    BY <1>5 DEF FetchFails, GetInv, GetTypes
  <2>2. SeenOK(g)'
    BY <2>1 DEF SeenOK
  <2> QED  BY <1>2, <1>5, <2>2 DEF GetStep
<1>6. CASE \/ \E p \in Puts : PutStep(p) \/ \E s \in Servers : SaveStep(p, s)
           \/ \E s \in Servers : Crash(s) \/ Restart(s)
           \/ UNCHANGED vars
  BY <1>1, <1>6, GetsFrame
<1> QED  BY <1>3, <1>4, <1>5, <1>6 DEF Next, GetStep

\* A get that fetched a whole set, asking only servers that answered to the end, has
\* all the chunks of every settled put in its table, so none of them is newer.
LEMMA FreshFetched ==
  ASSUME StampsInOrder, GetInv, FetchedInv, SeenInv
  PROVE  FreshGet
<1> SUFFICES ASSUME NEW g \in Gets, gstate[g] = "ok", NEW p \in settled[g]
             PROVE  p <= fetched[g][1].put
  BY DEF FreshGet
<1>1. /\ fetched[g] \in Seq(Contents) /\ Len(fetched[g]) = N /\ 1 \in 1..N /\ N \in Nat
      /\ PartialFunction(table[g], Files, Servers) /\ p \in All
  BY PlacementAssumption DEF GetInv, GetTypes, ChosenOK, All
<1>2. chosen[g] \in ValidSets(table[g]) /\ \A v \in ValidSets(table[g]) : v <= chosen[g]
  BY <1>1, ValidSetsType DEF GetInv, ChosenOK
<1>3. ASSUME NEW c \in Chunks PROVE <<Stamp(p), c>> \in DOMAIN table[g]
  <2>1. c + 1 \in DOMAIN fetched[g] /\ (c + 1) - 1 = c
    BY <1>1 DEF Chunks
  <2> QED  BY <2>1 DEF SeenInv, SeenOK
<1>4. Stamp(p) <= chosen[g]
  BY <1>1, <1>2, <1>3, ValidSetsType
<1>5. 1 \in DOMAIN fetched[g]
  BY <1>1
<1>6. Stamp(fetched[g][1].put) = chosen[g] /\ fetched[g][1].put \in All
  BY <1>1, <1>5, ContentFields DEF FetchedInv, FetchedOK
<1> QED  BY <1>1, <1>4, <1>6 DEF StampsInOrder, All

\* A get that succeeds returns nothing older than what was fully stored when it
\* began, as long as the stamps on the wire are in the order of the puts: even with
\* answers cut short, puts cut short, and any servers down or crashing.
THEOREM StoreFreshGet ==
  ASSUME StampsInOrder
  PROVE  Spec => []FreshGet
<1> DEFINE Inv == StoreInv /\ GetInv /\ StoredInv /\ OnceInv /\ FetchedInv /\ AnswerInv /\ SeenInv
<1>1. Init => Inv
  BY StoreInvInit, GetInvInit, StoredInvInit, OnceInvInit, FetchedInvInit, AnswerInvInit, SeenInvInit
<1>2. Inv /\ [Next]_vars => Inv'
  BY StoreInvStep, GetInvStep, StoredInvStep, OnceInvStep, FetchedInvStep, AnswerInvStep, SeenInvStep
<1>3. Inv => FreshGet
  BY FreshFetched
<1> QED  BY <1>1, <1>2, <1>3, PTL DEF Spec

\* A get that fails without a broken connection, a cut answer or a cut chunk has asked
\* servers that lack a chunk, and these lack two neighbours.
LEMMA FailsForCause ==
  ASSUME StoreInv, GetInv, AnswerInv
  PROVE  GetSurvivesFailures
<1> SUFFICES ASSUME NEW g \in Gets, gstate[g] \in {"incomplete", "failed"},
                    settled[g] # {}, alive[g] = linked[g], stale[g] = {},
                    ~CutOnDisk
             PROVE  Gap(linked[g])
  BY DEF GetSurvivesFailures, CutOnDisk
<1>1. gstate[g] = "incomplete" /\ asked[g] = N /\ ValidSets(table[g]) = {}
  BY DEF AnswerInv, AnswerOK, EndOK
<1>2. PICK p : p \in settled[g]
  OBVIOUS
<1>3. PICK c \in Chunks : <<Stamp(p), c>> \notin DOMAIN table[g]
  BY <1>1, ValidSetsType DEF GetInv, GetTypes
<1>4. \A s \in linked[g] : s \in alive[g] \ stale[g] /\ s < asked[g]
  BY <1>1, PlacementAssumption DEF StoreInv, Servers, Clients
<1>5. \A s \in linked[g] : s \notin Homes[c]
  BY <1>2, <1>3, <1>4 DEF AnswerInv, AnswerOK, AskedOK
<1>6. Homes[c] \cap linked[g] = {}
  BY <1>5
<1> QED  BY <1>6, CoveredUnlessGap

\* When something was fully stored before a get began, the get succeeds unless a
\* connection broke, an answer or an upload was cut, or two neighbouring servers were
\* down.
THEOREM StoreGetSurvivesFailures == Spec => []GetSurvivesFailures
<1>1. Init => StoreInv /\ GetInv /\ StoredInv /\ OnceInv /\ AnswerInv
  BY StoreInvInit, GetInvInit, StoredInvInit, OnceInvInit, AnswerInvInit
<1>2. StoreInv /\ GetInv /\ StoredInv /\ OnceInv /\ AnswerInv /\ [Next]_vars
        => StoreInv' /\ GetInv' /\ StoredInv' /\ OnceInv' /\ AnswerInv'
  BY StoreInvStep, GetInvStep, StoredInvStep, OnceInvStep, AnswerInvStep
<1>3. StoreInv /\ GetInv /\ AnswerInv => GetSurvivesFailures
  BY FailsForCause
<1> QED  BY <1>1, <1>2, <1>3, PTL DEF Spec

-----------------------------------------------------------------------------
(* How many steps a command can take                                       *)

\* The questions and chunks a get has before it, the transfers of a put, and the
\* steps of a server with what it has been sent.
GetLeft(g) ==
  CASE gstate[g] = "query" -> 2 * N + 1 - asked[g]
    [] gstate[g] = "choose" -> N + 1
    [] gstate[g] = "fetch" -> N - Len(fetched[g])
    [] OTHER -> 0
PutLeft(p) == IF pstate[p] = "sending" THEN 2 * N - sent[p] ELSE 0
SaveLeft(p, s) == IF saving[p][s] = None THEN 2 * Len(inbox[p][s]) ELSE 2 * Len(inbox[p][s]) + 1

\* These are numbers, at most 2N + 1 and 2N.
LEMMA LeftTypes ==
  ASSUME StoreInv, GetInv
  PROVE  /\ \A g \in Gets : GetLeft(g) \in 0..(2 * N + 1)
         /\ \A p \in Puts : PutLeft(p) \in 0..(2 * N)
         /\ \A p \in Puts, s \in Servers : SaveLeft(p, s) \in Nat
<1>1. N \in Nat
  BY PlacementAssumption
<1>2. ASSUME NEW g \in Gets PROVE GetLeft(g) \in 0..(2 * N + 1)
  <2>1. asked[g] \in 0..N /\ Len(fetched[g]) \in Nat
    BY DEF GetInv, GetTypes
  <2>2. gstate[g] = "fetch" => Len(fetched[g]) < N
    BY DEF GetInv, ChosenOK
  <2> QED  BY <1>1, <2>1, <2>2 DEF GetLeft
<1>3. ASSUME NEW p \in Puts PROVE PutLeft(p) \in 0..(2 * N)
  BY <1>1 DEF PutLeft, StoreInv
<1>4. ASSUME NEW p \in Puts, NEW s \in Servers PROVE SaveLeft(p, s) \in Nat
  <2>1. inbox[p][s] \in Seq(Contents)
    BY DEF StoreInv
  <2> QED  BY <2>1 DEF SaveLeft
<1> QED  BY <1>2, <1>3, <1>4

\* A question answered or given up is one less, so is a chunk fetched.
LEMMA GetNearer ==
  ASSUME StoreInv, GetInv, NEW g \in Gets, GetStep(g)
  PROVE  GetLeft(g)' < GetLeft(g)
<1>1. N \in Nat /\ N >= 2 /\ asked[g] \in 0..N /\ gstate \in [Gets -> {"idle", "query", "choose", "fetch", "ok", "incomplete", "failed"}]
  BY PlacementAssumption DEF GetInv, GetTypes
<1>2. CASE Query(g) \/ QueryFails(g) \/ QueryIsCut(g)
  <2>1. gstate[g] = "query" /\ AsksNext(g)
    BY <1>2 DEF Query, QueryFails, QueryIsCut
  <2>2. /\ asked'[g] = asked[g] + 1 /\ asked[g] < N
        /\ \/ gstate'[g] = "query"
           \/ gstate'[g] = "choose" /\ asked'[g] = N
    <3>1. asked[g] < N
      BY <2>1 DEF GetInv, ChosenOK
    <3> QED  BY <2>1, <3>1, AsksNextTypes
  <2> QED  BY <1>1, <2>1, <2>2 DEF GetLeft
<1>3. CASE Choose(g)
  <2>1. gstate[g] = "choose" /\ fetched' = fetched /\ gstate'[g] \in {"incomplete", "fetch"}
    BY <1>1, <1>3 DEF Choose
  <2>2. fetched[g] = <<>>
    BY <2>1 DEF GetInv, ChosenOK
  <2> QED  BY <1>1, <2>1, <2>2 DEF GetLeft
<1>4. CASE Fetch(g) \/ FetchCut(g)
  <2>1. gstate[g] = "fetch" /\ gstate'[g] \in {"fetch", "ok"} /\ Len(fetched[g]) \in Nat /\ Len(fetched[g]) < N
    BY <1>1, <1>4 DEF Fetch, FetchCut, GetInv, GetTypes, ChosenOK
  <2>2. PICK x : fetched'[g] = Append(fetched[g], x)
    BY <1>4 DEF Fetch, FetchCut, GetInv, GetTypes
  <2>3. Len(fetched'[g]) = Len(fetched[g]) + 1
    BY <2>1, <2>2, NextSource
  <2> QED  BY <1>1, <2>1, <2>3 DEF GetLeft
<1>5. CASE FetchFails(g)
  <2>1. gstate[g] = "fetch" /\ gstate'[g] = "failed" /\ Len(fetched[g]) \in Nat /\ Len(fetched[g]) < N
    BY <1>1, <1>5 DEF FetchFails, GetInv, GetTypes, ChosenOK
  <2> QED  BY <1>1, <2>1 DEF GetLeft
<1> QED  BY <1>2, <1>3, <1>4, <1>5 DEF GetStep

\* Nobody else's step gives a get more to do.
LEMMA GetNoMore ==
  ASSUME StoreInv, GetInv, [Next]_vars, NEW g \in Gets, ~StartGet(g), ~GetStep(g)
  PROVE  GetLeft(g)' = GetLeft(g)
<1>1. UNCHANGED <<gstate, asked, fetched>> => GetLeft(g)' = GetLeft(g)
  BY DEF GetLeft
<1>2. CASE \E h \in Gets : StartGet(h) \/ GetStep(h)
  <2>1. PICK h \in Gets : StartGet(h) \/ GetStep(h)
    BY <1>2
  <2>2. h # g
    BY <2>1
  <2>3. gstate'[g] = gstate[g] /\ asked'[g] = asked[g] /\ fetched'[g] = fetched[g]
    BY <2>1, <2>2, GetFrame
  <2> QED  BY <2>3 DEF GetLeft
<1>3. CASE ~ \E h \in Gets : StartGet(h) \/ GetStep(h)
  <2>1. UNCHANGED getVars
    BY <1>3, GetsFrame DEF Next
  <2> QED  BY <1>1, <2>1 DEF getVars
<1> QED  BY <1>2, <1>3

\* One transfer less, or none at all.
LEMMA PutNearer ==
  ASSUME StoreInv, NEW p \in Puts, SendChunk(p) \/ PutDies(p)
  PROVE  PutLeft(p)' < PutLeft(p)
<1>1. N \in Nat /\ sent[p] \in 0..(2 * N) /\ pstate[p] = "sending" /\ sent[p] < 2 * N
  BY PlacementAssumption DEF StoreInv, SendChunk, PutDies
<1>2. CASE SendChunk(p)
  <2>1. sent'[p] = sent[p] + 1 /\ pstate'[p] \in {"sending", "done"}
    BY <1>2 DEF SendChunk, StoreInv
  <2> QED  BY <1>1, <2>1 DEF PutLeft
<1>3. CASE PutDies(p)
  <2>1. pstate'[p] = "dead"
    BY <1>3 DEF PutDies, StoreInv
  <2> QED  BY <1>1, <2>1 DEF PutLeft
<1> QED  BY <1>2, <1>3

\* Opening the temp file takes the chunk out of the socket, the rename ends it.
LEMMA SaveNearer ==
  ASSUME StoreInv, NEW p \in Puts, NEW s \in Servers, SaveStep(p, s)
  PROVE  SaveLeft(p, s)' < SaveLeft(p, s) /\ SaveLeft(p, s)' \in Nat
<1>1. inbox[p][s] \in Seq(Contents)
  BY DEF StoreInv
<1>3. CASE BeginSave(p, s)
  <2>1. saving[p][s] = None /\ inbox[p][s] # <<>> /\ inbox'[p][s] = Tail(inbox[p][s])
    BY <1>3 DEF BeginSave, StoreInv
  <2>2. Len(inbox'[p][s]) = Len(inbox[p][s]) - 1 /\ Len(inbox[p][s]) \in Nat
    BY <1>1, <2>1
  <2> QED  BY <2>1, <2>2 DEF SaveLeft
<1>4. CASE FinishSave(p, s)
  <2>1. saving[p][s] # None /\ saving'[p][s] = None /\ inbox' = inbox
    BY <1>4 DEF FinishSave, StoreInv
  <2>2. Len(inbox[p][s]) \in Nat
    BY <1>1
  <2> QED  BY <2>1, <2>2 DEF SaveLeft
<1>5. CASE RefuseSave(p, s)
  <2>1. saving[p][s] = None /\ inbox[p][s] # <<>> /\ inbox'[p][s] = <<>> /\ saving' = saving
    BY <1>5 DEF RefuseSave, StoreInv
  <2>2. Len(<<>>) = 0 /\ Len(inbox[p][s]) \in Nat /\ Len(inbox[p][s]) > 0
    BY <1>1, <2>1
  <2> QED  BY <2>1, <2>2 DEF SaveLeft
<1> QED  BY <1>3, <1>4, <1>5 DEF SaveStep

\* Nobody else's step gives a put more transfers.
LEMMA PutNoMore ==
  ASSUME StoreInv, [Next]_vars, NEW p \in Puts, ~PutStep(p)
  PROVE  PutLeft(p)' = PutLeft(p)
<1>1. CASE \E q \in Puts : PutStep(q)
  <2>1. PICK q \in Puts : PutStep(q)
    BY <1>1
  <2>2. q # p
    BY <2>1
  <2>3. pstate'[p] = pstate[p] /\ sent'[p] = sent[p]
    BY <2>1, <2>2 DEF PutStep, StartPut, SendChunk, PutDies, StoreInv
  <2> QED  BY <2>3 DEF PutLeft
<1>2. CASE ~ \E q \in Puts : PutStep(q)
  <2>1. UNCHANGED putVars
    BY <1>2 DEF Next, SaveStep, BeginSave, RefuseSave, FinishSave, Crash, Restart, StartGet, GetStep, Query,
      QueryFails, QueryIsCut, Choose, Fetch, FetchCut, FetchFails, vars
  <2> QED  BY <2>1 DEF PutLeft, putVars
<1> QED  BY <1>1, <1>2

\* Only a transfer of the put gives a server more to save for it.
LEMMA SaveNoMore ==
  ASSUME StoreInv, [Next]_vars, NEW p \in Puts, ~SendChunk(p), ~PutDies(p), NEW s \in Servers
  PROVE  SaveLeft(p, s)' <= SaveLeft(p, s)
<1>1. Len(inbox[p][s]) \in Nat /\ SaveLeft(p, s) \in Nat
  <2>1. inbox[p][s] \in Seq(Contents)
    BY DEF StoreInv
  <2> QED  BY <2>1 DEF SaveLeft
<1>2. ASSUME inbox'[p][s] = inbox[p][s], saving'[p][s] = saving[p][s]
      PROVE  SaveLeft(p, s)' <= SaveLeft(p, s)
  BY <1>1, <1>2 DEF SaveLeft
<1>3. ASSUME NEW q \in Puts, PutStep(q)
      PROVE  inbox'[p] = inbox[p] /\ saving'[p] = saving[p]
  BY <1>3 DEF PutStep, StartPut, SendChunk, PutDies, Connect, Deliver, StoreInv
<1>4. ASSUME NEW q \in Puts, NEW r \in Servers, SaveStep(q, r)
      PROVE  SaveLeft(p, s)' <= SaveLeft(p, s)
  <2>1. CASE q = p /\ r = s
    BY <1>1, <1>4, <2>1, SaveNearer
  <2>2. CASE ~(q = p /\ r = s)
    <3>1. inbox'[p][s] = inbox[p][s] /\ saving'[p][s] = saving[p][s]
      BY <1>4, <2>2 DEF SaveStep, BeginSave, RefuseSave, FinishSave, StoreInv
    <3> QED  BY <1>2, <3>1
  <2> QED  BY <2>1, <2>2
<1>5. ASSUME NEW r \in Servers, Crash(r)
      PROVE  SaveLeft(p, s)' <= SaveLeft(p, s)
  <2>1. inbox'[p][s] = (IF s = r THEN <<>> ELSE inbox[p][s])
        /\ saving'[p][s] = (IF s = r THEN None ELSE saving[p][s])
    BY <1>5 DEF Crash, StoreInv
  <2>2. Len(<<>>) = 0
    OBVIOUS
  <2> QED  BY <1>1, <2>1, <2>2 DEF SaveLeft
<1>6. CASE \/ \E r \in Servers : Restart(r)
           \/ \E g \in Gets : StartGet(g) \/ GetStep(g)
           \/ UNCHANGED vars
  <2>1. UNCHANGED <<inbox, saving>>
    BY <1>6 DEF Restart, StartGet, Connect, GetStep, Query, QueryFails, QueryIsCut, Choose,
      Fetch, FetchCut, FetchFails, vars, linkVars
  <2> QED  BY <1>2, <2>1
<1> QED  BY <1>2, <1>3, <1>4, <1>5, <1>6 DEF Next

\* A get takes at most 2N + 1 steps and a put 2N, a server two for each chunk it is
\* sent, whatever fails: no failure makes a command begin anything again.  With the
\* fairness of FairSpec this is why gets end, and why what a put sent gets stored.
THEOREM StoreStepsRunOut ==
  Spec => [][/\ \A g \in Gets :
                  /\ GetLeft(g) \in 0..(2 * N + 1)
                  /\ GetStep(g) => GetLeft(g)' < GetLeft(g)
                  /\ ~StartGet(g) /\ ~GetStep(g) => GetLeft(g)' = GetLeft(g)
             /\ \A p \in Puts :
                  /\ PutLeft(p) \in 0..(2 * N)
                  /\ SendChunk(p) \/ PutDies(p) => PutLeft(p)' < PutLeft(p)
                  /\ ~PutStep(p) => PutLeft(p)' = PutLeft(p)
             /\ \A p \in Puts, s \in Servers :
                  /\ SaveLeft(p, s) \in Nat
                  /\ SaveStep(p, s) => SaveLeft(p, s)' < SaveLeft(p, s)
                  /\ ~SendChunk(p) /\ ~PutDies(p) => SaveLeft(p, s)' <= SaveLeft(p, s)]_vars
<1> DEFINE Gs == \A g \in Gets :
                   /\ GetLeft(g) \in 0..(2 * N + 1)
                   /\ GetStep(g) => GetLeft(g)' < GetLeft(g)
                   /\ ~StartGet(g) /\ ~GetStep(g) => GetLeft(g)' = GetLeft(g)
           Ps == \A p \in Puts :
                   /\ PutLeft(p) \in 0..(2 * N)
                   /\ SendChunk(p) \/ PutDies(p) => PutLeft(p)' < PutLeft(p)
                   /\ ~PutStep(p) => PutLeft(p)' = PutLeft(p)
           Ss == \A p \in Puts, s \in Servers :
                   /\ SaveLeft(p, s) \in Nat
                   /\ SaveStep(p, s) => SaveLeft(p, s)' < SaveLeft(p, s)
                   /\ ~SendChunk(p) /\ ~PutDies(p) => SaveLeft(p, s)' <= SaveLeft(p, s)
<1>1. ASSUME StoreInv, GetInv, [Next]_vars PROVE Gs /\ Ps /\ Ss
  <2>1. Gs
    BY <1>1, LeftTypes, GetNearer, GetNoMore
  <2>2. Ps
    BY <1>1, LeftTypes, PutNearer, PutNoMore
  <2>3. Ss
    BY <1>1, LeftTypes, SaveNearer, SaveNoMore
  <2> QED  BY <2>1, <2>2, <2>3
<1>2. Init => StoreInv /\ GetInv
  BY StoreInvInit, GetInvInit
<1>3. StoreInv /\ GetInv /\ [Next]_vars => (StoreInv /\ GetInv)'
  BY StoreInvStep, GetInvStep
<1>4. StoreInv /\ GetInv /\ [Next]_vars => [Gs /\ Ps /\ Ss]_vars
  BY <1>1
<1> QED  BY <1>2, <1>3, <1>4, PTL DEF Spec

=============================================================================
