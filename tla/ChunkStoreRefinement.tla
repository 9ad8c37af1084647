------------------------ MODULE ChunkStoreRefinement ------------------------
(***************************************************************************)
(* ChunkStore implements FileStore, for any number of servers, puts and    *)
(* gets, as long as the stamps on the wire are in the order of the puts    *)
(* and no upload, answer's header or data is cut or late in the middle of  *)
(* a chunk.                                                                *)
(*                                                                         *)
(* Begin is StartPut, Keep the rename that completes the last copy, Ask    *)
(* StartGet, Answer the last Fetch, GiveUp the failures; all other steps   *)
(* stutter.                                                                *)
(***************************************************************************)
EXTENDS ChunkStore_proofs

Begun == Earlier \cup {p \in Puts : pstate[p] # "idle"}
Kept == {p \in Puts \cup Earlier : Replicated(p)}

\* Everything stored, on its way or fetched is of a put that has begun.
BegunInv ==
  /\ \A p \in Puts, s \in Servers :
       inbox[p][s] # <<>> \/ saving[p][s] # None => pstate[p] # "idle"
  /\ \A s \in Servers : \A f \in DOMAIN disk[s] : disk[s][f].put \in Begun
  /\ \A g \in Gets : \A k \in DOMAIN fetched[g] : fetched[g][k].put \in Begun

\* The gets as FileStore sees them.
Phase == [g \in Gets |-> PhaseOf(g)]
Reply == [g \in Gets |-> AnswerOf(g)]

\* All that is known of a state.
Inv ==
  /\ StoreInv /\ GetInv /\ StoredInv /\ OnceInv
  /\ FetchedInv /\ AnswerInv /\ SeenInv /\ BegunInv

-----------------------------------------------------------------------------
(* Puts that have begun                                                    *)

\* At the start there are only the chunks of earlier puts.
LEMMA BegunInvInit == Init => BegunInv
<1> SUFFICES ASSUME Init PROVE BegunInv
  OBVIOUS
<1>1. ASSUME NEW s \in Servers, NEW f \in DOMAIN disk[s] PROVE disk[s][f].put \in Begun
  <2>1. f \in EarlierFiles(s)
    BY <1>1, InitialDisk
  <2>2. \E p \in Earlier, c \in Chunks :
          s \in Homes[c] /\ f = <<Stamp(p), c>> /\ disk[s][f] = Content(p, c, TRUE)
    BY <2>1, InitialDisk
  <2>3. PICK p \in Earlier, c \in Chunks : disk[s][f] = Content(p, c, TRUE)
    BY <2>2
  <2> QED  BY <2>3 DEF Content, Begun
<1>2. \A p \in Puts, s \in Servers : inbox[p][s] = <<>> /\ saving[p][s] = None
  BY DEF Init
<1>3. \A g \in Gets : fetched[g] = <<>> /\ DOMAIN <<>> = {}
  BY DEF Init
<1> QED  BY <1>1, <1>2, <1>3 DEF BegunInv

\* A put that has begun stays so.
LEMMA BegunGrows ==
  ASSUME StoreInv, [Next]_vars
  PROVE  Begun \subseteq Begun' /\ \A p \in Puts : pstate[p] # "idle" => pstate'[p] # "idle"
<1> USE DEF Begun
<1>1. ASSUME NEW p \in Puts, StartPut(p)
      PROVE  \A q \in Puts : pstate[q] # "idle" => pstate'[q] # "idle"
  BY <1>1 DEF StartPut, StoreInv
<1>2. ASSUME NEW p \in Puts, SendChunk(p)
      PROVE  \A q \in Puts : pstate[q] # "idle" => pstate'[q] # "idle"
  BY <1>2 DEF SendChunk, StoreInv
<1>3. ASSUME NEW p \in Puts, PutDies(p)
      PROVE  \A q \in Puts : pstate[q] # "idle" => pstate'[q] # "idle"
  BY <1>3 DEF PutDies, StoreInv
<1>4. ASSUME NEW p \in Puts, NEW s \in Servers, SaveStep(p, s) PROVE UNCHANGED pstate
  BY <1>4 DEF SaveStep, BeginSave, RefuseSave, FinishSave, putVars
<1>5. ASSUME NEW g \in Gets, StartGet(g) \/ GetStep(g) PROVE UNCHANGED pstate
  BY <1>5 DEF StartGet, GetStep, Query, QueryFails, QueryIsCut, Choose, Fetch, FetchCut, FetchFails, putVars
<1>6. ASSUME NEW s \in Servers, Crash(s) \/ Restart(s) PROVE UNCHANGED pstate
  BY <1>6 DEF Crash, Restart, putVars
<1>7. CASE UNCHANGED vars
  BY <1>7 DEF vars, putVars
<1>8. \A p \in Puts : pstate[p] # "idle" => pstate'[p] # "idle"
  BY <1>1, <1>2, <1>3, <1>4, <1>5, <1>6, <1>7 DEF Next, PutStep
<1> QED  BY <1>8

\* What a step stores, sends or fetches is of a put that has begun.
LEMMA BegunInvStep == Inv /\ [Next]_vars => BegunInv'
<1> SUFFICES ASSUME Inv, [Next]_vars PROVE BegunInv'
  OBVIOUS
<1>0. Begun \subseteq Begun' /\ \A p \in Puts : pstate[p] # "idle" => pstate'[p] # "idle"
  BY BegunGrows DEF Inv
<1>1. ASSUME NEW p \in Puts, NEW s \in Servers, inbox'[p][s] # <<>> \/ saving'[p][s] # None
      PROVE  pstate'[p] # "idle"
  <2>1. CASE (inbox'[p][s] = inbox[p][s] \/ inbox'[p][s] = <<>>)
             /\ (saving'[p][s] = saving[p][s] \/ saving'[p][s] = None)
    BY <1>0, <1>1, <2>1 DEF Inv, BegunInv
  <2>2. ASSUME NEW q \in Puts, StartPut(q) PROVE UNCHANGED <<inbox, saving>>
    BY <2>2 DEF StartPut, Connect
  <2>3. ASSUME NEW q \in Puts, SendChunk(q) \/ PutDies(q)
        PROVE  pstate'[p] # "idle" \/ (inbox'[p][s] = inbox[p][s] /\ saving'[p][s] = saving[p][s])
    <3>1. pstate[q] = "sending" /\ pstate'[q] # "idle" /\ UNCHANGED saving
      BY <2>3 DEF SendChunk, PutDies, Inv, StoreInv
    <3>2. q # p => inbox'[p] = inbox[p]
      BY <2>3 DEF SendChunk, PutDies, Deliver, Inv, StoreInv
    <3> QED  BY <3>1, <3>2
  <2>4. ASSUME NEW q \in Puts, NEW t \in Servers, BeginSave(q, t)
        PROVE  pstate'[p] # "idle" \/ (inbox'[p][s] = inbox[p][s] /\ saving'[p][s] = saving[p][s])
    <3>1. inbox[q][t] # <<>> /\ UNCHANGED pstate
      BY <2>4 DEF BeginSave, putVars
    <3>2. pstate'[q] # "idle"
      BY <3>1 DEF Inv, BegunInv
    <3>3. q # p => inbox'[p] = inbox[p] /\ saving'[p] = saving[p]
      BY <2>4 DEF BeginSave, Inv, StoreInv
    <3> QED  BY <3>2, <3>3
  <2>4a. ASSUME NEW q \in Puts, NEW t \in Servers, RefuseSave(q, t)
        PROVE  /\ inbox'[p][s] = inbox[p][s] \/ inbox'[p][s] = <<>>
               /\ saving'[p][s] = saving[p][s]
    BY <2>4a DEF RefuseSave, Inv, StoreInv
  <2>5. ASSUME NEW q \in Puts, NEW t \in Servers, FinishSave(q, t)
        PROVE  UNCHANGED inbox /\ (saving'[p][s] = saving[p][s] \/ saving'[p][s] = None)
    BY <2>5 DEF FinishSave, Inv, StoreInv
  <2>6. ASSUME NEW t \in Servers, Crash(t)
        PROVE  /\ inbox'[p][s] = inbox[p][s] \/ inbox'[p][s] = <<>>
               /\ saving'[p][s] = saving[p][s] \/ saving'[p][s] = None
    BY <2>6 DEF Crash, Inv, StoreInv
  <2>7. ASSUME NEW t \in Servers, Restart(t) PROVE UNCHANGED <<inbox, saving>>
    BY <2>7 DEF Restart, linkVars
  <2>8. ASSUME NEW g \in Gets, StartGet(g) \/ GetStep(g) PROVE UNCHANGED <<inbox, saving>>
    BY <2>8 DEF StartGet, Connect, GetStep, Query, QueryFails, QueryIsCut, Choose, Fetch,
                FetchCut, FetchFails, linkVars
  <2>9. CASE UNCHANGED vars
    BY <2>1, <2>9 DEF vars, linkVars
  <2> QED
    BY <2>1, <2>2, <2>3, <2>4, <2>4a, <2>5, <2>6, <2>7, <2>8, <2>9 DEF Next, PutStep, SaveStep
<1>2. ASSUME NEW s \in Servers, NEW f \in DOMAIN disk'[s] PROVE disk'[s][f].put \in Begun'
  <2>1. CASE disk'[s] = disk[s]
    BY <1>0, <1>2, <2>1 DEF Inv, BegunInv
  <2>2. ASSUME NEW p \in Puts, NEW t \in Servers, FinishSave(p, t)
        PROVE  disk'[s] = disk[s] \/ disk'[s][f].put \in Begun'
    <3> DEFINE x == saving[p][t]
               n == <<Stamp(p), x.chunk>>
               d == Extend(disk[t], n, x)
    <3>1. x # None /\ disk' = [disk EXCEPT ![t] = d]
      BY <2>2 DEF FinishSave
    <3>2. x.put = p /\ p \in Begun
      BY <3>1 DEF Inv, StoredInv, Good, BegunInv, Begun
    <3>3. \A e \in DOMAIN d : d[e] = x \/ (e \in DOMAIN disk[t] /\ d[e] = disk[t][e])
      BY DEF Extend
    <3> HIDE DEF x, n, d
    <3>4. \A e \in DOMAIN d : d[e].put \in Begun
      BY <3>2, <3>3 DEF Inv, BegunInv
    <3>5. s = t => disk'[s] = d
      BY <3>1 DEF Inv, StoreInv
    <3>6. s # t => disk'[s] = disk[s]
      BY <3>1 DEF Inv, StoreInv
    <3> QED  BY <1>0, <1>2, <3>4, <3>5, <3>6
  <2>3. ASSUME NEW p \in Puts, PutStep(p) PROVE UNCHANGED disk
    BY <2>3 DEF PutStep, StartPut, SendChunk, PutDies, serverVars
  <2>4. ASSUME NEW p \in Puts, NEW t \in Servers, BeginSave(p, t) \/ RefuseSave(p, t)
        PROVE  UNCHANGED disk
    BY <2>4 DEF BeginSave, RefuseSave, serverVars
  <2>5. ASSUME NEW g \in Gets, StartGet(g) \/ GetStep(g) PROVE UNCHANGED disk
    BY <2>5, GetFrame DEF Inv
  <2>6. ASSUME NEW t \in Servers, Crash(t) \/ Restart(t) PROVE UNCHANGED disk
    BY <2>6 DEF Crash, Restart
  <2>7. CASE UNCHANGED vars
    BY <2>1, <2>7 DEF vars, serverVars
  <2> QED  BY <2>1, <2>2, <2>3, <2>4, <2>5, <2>6, <2>7 DEF Next, SaveStep
<1>3. ASSUME NEW g \in Gets, NEW k \in DOMAIN fetched'[g] PROVE fetched'[g][k].put \in Begun'
  <2>1. CASE fetched'[g] = fetched[g]
    BY <1>0, <1>3, <2>1 DEF Inv, BegunInv
  <2>2. ASSUME NEW h \in Gets, StartGet(h) \/ GetStep(h)
        PROVE  fetched'[g] = fetched[g] \/ (h = g /\ (Fetch(g) \/ FetchCut(g)))
    <3>1. h # g => fetched'[g] = fetched[g]
      BY <2>2, GetFrame DEF Inv
    <3>2. Fetch(h) \/ FetchCut(h) \/ UNCHANGED fetched
      BY <2>2 DEF StartGet, GetStep, Query, QueryFails, QueryIsCut, Choose, FetchFails
    <3> QED  BY <3>1, <3>2
  <2>3. ASSUME Fetch(g) \/ FetchCut(g) PROVE fetched'[g][k].put \in Begun'
    <3> DEFINE y == disk[Source(g)][<<chosen[g], Len(fetched[g])>>]
    <3>1. PICK x \in {y, CutOff(y)} :
            gstate[g] = "fetch" /\ fetched' = [fetched EXCEPT ![g] = Append(fetched[g], x)]
      BY <2>3 DEF Fetch, FetchCut
    <3>2. x \in Contents /\ fetched[g] \in Seq(Contents) /\ x.put \in Begun
      <4>1. y \in Contents /\ fetched[g] \in Seq(Contents) /\ y.put \in Begun
        BY <3>1, NextSource DEF Inv, BegunInv
      <4> QED  BY <3>1, <4>1, CutContent
    <3> HIDE DEF y
    <3>3. fetched'[g] = Append(fetched[g], x)
      BY <3>1 DEF Inv, GetInv, GetTypes
    <3>4. fetched'[g][k] = x \/ (k \in DOMAIN fetched[g] /\ fetched'[g][k] = fetched[g][k])
      BY <1>3, <3>2, <3>3, AppendSeq
    <3> QED  BY <1>0, <3>2, <3>4 DEF Inv, BegunInv
  <2>4. CASE \/ \E p \in Puts : PutStep(p) \/ \E s \in Servers : SaveStep(p, s)
             \/ \E s \in Servers : Crash(s) \/ Restart(s)
             \/ UNCHANGED vars
    BY <2>1, <2>4, GetsFrame DEF Inv, getVars
  <2> QED  BY <2>1, <2>2, <2>3, <2>4 DEF Next
<1> QED  BY <1>1, <1>2, <1>3 DEF BegunInv

\* All that is known of a state, at the start and after every step.
LEMMA InvHolds ==
  /\ Init => Inv
  /\ Inv /\ [Next]_vars => Inv'
<1>1. Init => Inv
  BY StoreInvInit, GetInvInit, StoredInvInit, OnceInvInit, FetchedInvInit, AnswerInvInit, SeenInvInit,
     BegunInvInit DEF Inv
<1>2. Inv /\ [Next]_vars => Inv'
  BY StoreInvStep, GetInvStep, StoredInvStep, OnceInvStep, FetchedInvStep, AnswerInvStep, SeenInvStep,
     BegunInvStep DEF Inv
<1> QED  BY <1>1, <1>2

-----------------------------------------------------------------------------
(* Puts that are fully stored                                              *)

\* Only earlier puts are fully stored at the start.
LEMMA KeptInit == Init => Kept \subseteq Earlier
<1> SUFFICES ASSUME Init, NEW q \in Puts PROVE ~Replicated(q)
  BY DEF Kept
<1>1. 0 \in Chunks
  BY PlacementAssumption DEF Chunks
<1>2. PICK s \in Servers : s \in Homes[0]
  BY <1>1, TwoHomes
<1>3. <<Stamp(q), 0>> \notin EarlierFiles(s)
  BY StoreAssumption DEF EarlierFiles
<1>4. <<Stamp(q), 0>> \notin DOMAIN disk[s]
  BY <1>3, InitialDisk
<1> QED  BY <1>1, <1>2, <1>4 DEF Replicated, OnDisk

\* A rename adds one put to those that are fully stored, or none.
LEMMA KeptBySave ==
  ASSUME Inv, NEW p \in Puts, NEW t \in Servers, FinishSave(p, t)
  PROVE  Kept' = Kept \/ (p \in Begun \ Kept /\ Kept' = Kept \cup {p})
<1> DEFINE x == saving[p][t]
           n == <<Stamp(p), x.chunk>>
           d == Extend(disk[t], n, x)
<1>1. x # None /\ disk' = [disk EXCEPT ![t] = d]
  BY DEF FinishSave
<1>2. p \in Begun
  BY <1>1 DEF Inv, BegunInv, Begun
<1>3. DOMAIN d = DOMAIN disk[t] \cup {n} /\ \A e \in DOMAIN d : d[e] = IF e = n THEN x ELSE disk[t][e]
  BY DEF Extend
<1>4. n[1] = Stamp(p)
  OBVIOUS
<1> HIDE DEF x, n, d
<1>5. \A s \in Servers : disk'[s] = IF s = t THEN d ELSE disk[s]
  BY <1>1 DEF Inv, StoreInv
<1>6. \A c \in Chunks : Homes[c] \subseteq Servers
  BY TwoHomes
<1>7. \A s \in Servers : \A f \in DOMAIN disk[s] : f \in DOMAIN disk'[s] /\ disk'[s][f] = disk[s][f]
  <2>1. \E q \in Puts : \E s \in Servers : SaveStep(q, s)
    BY DEF SaveStep
  <2>2. [Next]_vars
    BY <2>1 DEF Next
  <2> QED  BY <2>2, PublishedStep DEF Inv
<1>8. ASSUME NEW q \in All, Replicated(q) PROVE Replicated(q)'
  BY <1>6, <1>7, <1>8 DEF Replicated, OnDisk, Content
<1>9. ASSUME NEW q \in All, q # p, Replicated(q)' PROVE Replicated(q)
  <2> SUFFICES ASSUME NEW c \in Chunks, NEW s \in Homes[c]
               PROVE  /\ <<Stamp(q), c>> \in DOMAIN disk[s]
                      /\ disk[s][<<Stamp(q), c>>] = Content(q, c, TRUE)
    BY DEF Replicated, OnDisk
  <2>1. Stamp(q) # Stamp(p)
    BY <1>9, StoreAssumption DEF All
  <2>2. <<Stamp(q), c>> # n /\ s \in Servers
    BY <1>4, <1>6, <2>1
  <2>3. <<Stamp(q), c>> \in DOMAIN disk'[s] /\ disk'[s][<<Stamp(q), c>>] = Content(q, c, TRUE)
    BY <1>9 DEF Replicated, OnDisk
  <2> QED  BY <1>3, <1>5, <2>2, <2>3
<1>10. Kept = {q \in All : Replicated(q)} /\ Kept' = {q \in All : Replicated(q)'}
  BY DEF Kept, All
<1>11. Kept \subseteq Kept' /\ Kept' \subseteq Kept \cup {p}
  BY <1>8, <1>9, <1>10
<1> QED  BY <1>2, <1>11

\* Without a rename the same puts are fully stored.
LEMMA KeptStays == ASSUME UNCHANGED disk PROVE Kept' = Kept
BY DEF Kept, Replicated, OnDisk, Content

-----------------------------------------------------------------------------
(* Every step is one of FileStore's, or stutters                           *)

\* What FileStore sees, in its own variables.
Same == /\ Begun' = Begun /\ Kept' = Kept /\ UNCHANGED settled
        /\ Phase' = Phase /\ Reply' = Reply

\* A step that changes none of it is a stutter of FileStore.
LEMMA SameStutters == Same => UNCHANGED File!fileVars
BY DEF Same, File!fileVars, Begun, Kept, Phase, Reply

\* A get is seen by its state and what it has fetched.
LEMMA SameGets ==
  ASSUME UNCHANGED <<gstate, fetched>>
  PROVE  Phase' = Phase /\ Reply' = Reply
BY DEF Phase, Reply, PhaseOf, AnswerOf

\* A get's step changes the view of that get alone.
LEMMA GetMoves ==
  ASSUME Inv, NEW g \in Gets, StartGet(g) \/ GetStep(g), NEW ph, PhaseOf(g)' = ph,
         NEW an, AnswerOf(g)' = an
  PROVE  /\ Phase' = [Phase EXCEPT ![g] = ph]
         /\ Reply' = [Reply EXCEPT ![g] = an]
         /\ Begun' = Begun /\ Kept' = Kept
<1>1. /\ UNCHANGED <<disk, pstate>>
      /\ \A h \in Gets : h # g => gstate'[h] = gstate[h] /\ fetched'[h] = fetched[h]
  BY GetFrame DEF Inv, putVars
<1>2. \A h \in Gets : h # g => PhaseOf(h)' = PhaseOf(h) /\ AnswerOf(h)' = AnswerOf(h)
  BY <1>1 DEF PhaseOf, AnswerOf
<1>3. Phase' = [h \in Gets |-> PhaseOf(h)'] /\ Reply' = [h \in Gets |-> AnswerOf(h)']
  BY DEF Phase, Reply
<1>4. Phase = [h \in Gets |-> PhaseOf(h)] /\ Reply = [h \in Gets |-> AnswerOf(h)]
  BY DEF Phase, Reply
<1>5. Phase' = [Phase EXCEPT ![g] = ph]
  BY <1>2, <1>3, <1>4
<1>6. Reply' = [Reply EXCEPT ![g] = an]
  BY <1>2, <1>3, <1>4
<1>7. Begun' = Begun
  BY <1>1 DEF Begun
<1> QED  BY <1>1, <1>5, <1>6, <1>7, KeptStays

\* Puts and servers begin a put, keep one, or stutter.
LEMMA PutMaps ==
  ASSUME Inv, UNCHANGED getVars,
         \/ \E p \in Puts : PutStep(p) \/ \E s \in Servers : SaveStep(p, s)
         \/ \E s \in Servers : Crash(s) \/ Restart(s)
         \/ UNCHANGED vars
  PROVE  [File!Next]_File!fileVars
<1>1. Phase' = Phase /\ Reply' = Reply /\ UNCHANGED settled
  BY SameGets DEF getVars
<1>2. ASSUME NEW p \in Puts, StartPut(p) PROVE File!Next
  <2>1. /\ pstate[p] = "idle" /\ pstate' = [pstate EXCEPT ![p] = "sending"] /\ UNCHANGED disk
        /\ pstate \in [Puts -> {"idle", "sending", "done", "dead"}]
    BY <1>2 DEF StartPut, serverVars, Inv, StoreInv
  <2>2. p \notin Begun /\ Begun' = Begun \cup {p}
    BY <2>1, StoreAssumption DEF Begun
  <2>3. Kept' = Kept
    BY <2>1, KeptStays
  <2>4. File!Begin(p)
    BY <1>1, <2>2, <2>3 DEF File!Begin, Begun, Kept, Phase, Reply
  <2> QED  BY <2>4 DEF File!Next
<1>3. ASSUME NEW p \in Puts, NEW t \in Servers, FinishSave(p, t) PROVE [File!Next]_File!fileVars
  <2>1. Begun' = Begun
    BY <1>3 DEF FinishSave, putVars, Begun
  <2>2. CASE Kept' = Kept
    BY <1>1, <2>1, <2>2, SameStutters DEF Same
  <2>3. CASE p \in Begun \ Kept /\ Kept' = Kept \cup {p}
    <3>1. File!Keep(p)
      BY <1>1, <2>1, <2>3 DEF File!Keep, Begun, Kept, Phase, Reply
    <3> QED  BY <3>1 DEF File!Next
  <2> QED  BY <1>3, <2>2, <2>3, KeptBySave
<1>4. ASSUME UNCHANGED <<disk, pstate>> PROVE UNCHANGED File!fileVars
  <2>1. Begun' = Begun /\ Kept' = Kept
    BY <1>4, KeptStays DEF Begun
  <2> QED  BY <1>1, <2>1, SameStutters DEF Same
<1>5. ASSUME NEW p \in Puts, SendChunk(p) \/ PutDies(p) PROVE UNCHANGED File!fileVars
  <2>1. UNCHANGED disk /\ pstate[p] = "sending"
    BY <1>5 DEF SendChunk, PutDies, serverVars
  <2>2. \A q \in Puts : pstate'[q] = "idle" <=> pstate[q] = "idle"
    BY <1>5 DEF SendChunk, PutDies, Inv, StoreInv
  <2>3. Begun' = Begun /\ Kept' = Kept
    BY <2>1, <2>2, KeptStays DEF Begun
  <2> QED  BY <1>1, <2>3, SameStutters DEF Same
<1>6. ASSUME NEW p \in Puts, NEW s \in Servers, BeginSave(p, s) \/ RefuseSave(p, s)
      PROVE  UNCHANGED <<disk, pstate>>
  BY <1>6 DEF BeginSave, RefuseSave, serverVars, putVars
<1>7. ASSUME NEW s \in Servers, Crash(s) \/ Restart(s) PROVE UNCHANGED <<disk, pstate>>
  BY <1>7 DEF Crash, Restart, putVars
<1>8. CASE UNCHANGED vars
  BY <1>4, <1>8 DEF vars, serverVars, putVars
<1> QED
  BY <1>2, <1>3, <1>4, <1>5, <1>6, <1>7, <1>8 DEF PutStep, SaveStep

\* A get that succeeds answers with one put's file.
OneAnswer == \A g \in Gets : gstate[g] = "ok" => AnswerOf(g) = {fetched[g][1].put}

\* It does: the chunks fetched name it.
LEMMA AnswersOnePut ==
  ASSUME Inv, NothingCut
  PROVE  OneAnswer
<1> SUFFICES ASSUME NEW g \in Gets, gstate[g] = "ok"
             PROVE  AnswerOf(g) = {fetched[g][1].put}
  BY DEF OneAnswer
<1>1. PICK p \in All : fetched[g] = [i \in 1..N |-> Content(p, i - 1, TRUE)]
  BY WholeFetched DEF Inv, GetWhole, All
<1>2. \A q \in All : [i \in 1..N |-> Content(q, i - 1, TRUE)][1].put = q
  BY PlacementAssumption DEF Content
<1>3. fetched[g][1].put = p
  BY <1>1, <1>2
<1>4. \A q \in All : fetched[g] = [i \in 1..N |-> Content(q, i - 1, TRUE)] => q = p
  BY <1>2, <1>3
<1> QED  BY <1>1, <1>3, <1>4 DEF AnswerOf, All

\* Gets ask, answer, give up, or stutter.
LEMMA GetMaps ==
  ASSUME StampsInOrder, NothingCut, Inv, Inv', NEW g \in Gets, StartGet(g) \/ GetStep(g)
  PROVE  [File!Next]_File!fileVars
<1> USE DEF Inv
<1>1. gstate \in [Gets -> {"idle", "query", "choose", "fetch", "ok", "incomplete", "failed"}]
  BY DEF GetInv, GetTypes
<1>2. Phase[g] = PhaseOf(g) /\ Phase \in [Gets -> {"idle", "pending", "answered", "gaveup"}]
  BY <1>1 DEF Phase, PhaseOf
<1>3. Reply = [h \in Gets |-> AnswerOf(h)] /\ Phase = [h \in Gets |-> PhaseOf(h)]
  BY DEF Reply, Phase
<1>4. ASSUME PhaseOf(g)' = PhaseOf(g), AnswerOf(g)' = AnswerOf(g), UNCHANGED settled
      PROVE  UNCHANGED File!fileVars
  <2>1. /\ Phase' = [Phase EXCEPT ![g] = PhaseOf(g)] /\ Reply' = [Reply EXCEPT ![g] = AnswerOf(g)]
        /\ Begun' = Begun /\ Kept' = Kept
    BY <1>4, GetMoves
  <2>2. Phase' = Phase /\ Reply' = Reply
    BY <1>3, <2>1
  <2> QED  BY <1>4, <2>1, <2>2, SameStutters DEF Same
<1>5. CASE StartGet(g)
  <2>1. /\ gstate[g] = "idle" /\ gstate'[g] = "query"
        /\ settled' = [settled EXCEPT ![g] = Kept]
    BY <1>1, <1>5 DEF StartGet, Kept
  <2>2. PhaseOf(g) = "idle" /\ PhaseOf(g)' = "pending" /\ AnswerOf(g) = {} /\ AnswerOf(g)' = {}
    BY <2>1 DEF PhaseOf, AnswerOf
  <2>3. /\ Phase' = [Phase EXCEPT ![g] = "pending"] /\ Reply' = [Reply EXCEPT ![g] = {}]
        /\ Begun' = Begun /\ Kept' = Kept
    BY <2>2, GetMoves
  <2>4. Reply' = Reply
    BY <1>3, <2>2, <2>3
  <2>5. Phase[g] = "idle"
    BY <1>2, <2>2
  <2>6. File!Ask(g)
    BY <2>1, <2>3, <2>4, <2>5 DEF File!Ask, Begun, Kept, Phase, Reply
  <2> QED  BY <2>6 DEF File!Next
<1>6. CASE Query(g) \/ QueryFails(g) \/ QueryIsCut(g)
  <2>1. gstate[g] = "query" /\ AsksNext(g) /\ UNCHANGED settled
    BY <1>6 DEF Query, QueryFails, QueryIsCut
  <2>2. gstate'[g] \in {"query", "choose"}
    BY <1>1, <2>1 DEF AsksNext
  <2> QED  BY <1>4, <2>1, <2>2 DEF PhaseOf, AnswerOf
<1>7. ASSUME gstate[g] \in {"choose", "fetch"}, gstate'[g] \in {"incomplete", "failed"},
             UNCHANGED settled
      PROVE  File!Next
  <2>1. PhaseOf(g) = "pending" /\ PhaseOf(g)' = "gaveup" /\ AnswerOf(g) = {} /\ AnswerOf(g)' = {}
    BY <1>7 DEF PhaseOf, AnswerOf
  <2>2. /\ Phase' = [Phase EXCEPT ![g] = "gaveup"] /\ Reply' = [Reply EXCEPT ![g] = {}]
        /\ Begun' = Begun /\ Kept' = Kept
    BY <2>1, GetMoves
  <2>3. Reply' = Reply /\ Phase[g] = "pending"
    BY <1>2, <1>3, <2>1, <2>2
  <2>4. File!GiveUp(g)
    BY <1>7, <2>2, <2>3 DEF File!GiveUp, File!Ends, Begun, Kept, Phase, Reply
  <2> QED  BY <2>4 DEF File!Next
<1>8. CASE Choose(g)
  <2>1. gstate[g] = "choose" /\ gstate'[g] \in {"incomplete", "fetch"} /\ UNCHANGED settled
    BY <1>1, <1>8 DEF Choose
  <2>2. CASE gstate'[g] = "fetch"
    BY <1>4, <2>1, <2>2 DEF PhaseOf, AnswerOf
  <2> QED  BY <1>7, <2>1, <2>2
<1>9. CASE Fetch(g) \/ FetchCut(g)
  <2>1. gstate[g] = "fetch" /\ gstate'[g] \in {"ok", "fetch"} /\ UNCHANGED settled
    BY <1>1, <1>9 DEF Fetch, FetchCut
  <2>2. CASE gstate'[g] = "fetch"
    BY <1>4, <2>1, <2>2 DEF PhaseOf, AnswerOf
  <2>3. CASE gstate'[g] = "ok"
    <3> DEFINE p == fetched'[g][1].put
    <3>1. 1 \in DOMAIN fetched'[g]
      BY <2>3, PlacementAssumption DEF GetInv, GetTypes, ChosenOK
    <3>2. p \in Begun' /\ p \in All
      BY <3>1, ContentFields DEF BegunInv, GetInv, GetTypes
    <3>3. \A q \in settled[g] : q <= p
      <4>1. FreshGet'
        BY FreshFetched, PTL
      <4> QED  BY <2>1, <2>3, <4>1 DEF FreshGet
    <3>4. PhaseOf(g) = "pending" /\ PhaseOf(g)' = "answered" /\ AnswerOf(g)' = {p}
      <4>1. AnswerOf(g)' = {p}
        <5>1. OneAnswer'
          BY AnswersOnePut, PTL
        <5> QED  BY <2>3, <5>1 DEF OneAnswer
      <4> QED  BY <2>1, <2>3, <4>1 DEF PhaseOf
    <3> HIDE DEF p
    <3>5. /\ Phase' = [Phase EXCEPT ![g] = "answered"] /\ Reply' = [Reply EXCEPT ![g] = {p}]
          /\ Begun' = Begun /\ Kept' = Kept
      BY <3>4, GetMoves
    <3>6. Phase[g] = "pending"
      BY <1>2, <3>4
    <3>7. File!Answer(g, p)
      BY <2>1, <3>2, <3>3, <3>5, <3>6 DEF File!Answer, File!Ends, Begun, Kept, Phase, Reply
    <3>8. p \in Begun
      BY <3>2, <3>5
    <3> QED  BY <3>7, <3>8 DEF File!Next, Begun
  <2> QED  BY <2>1, <2>2, <2>3
<1>10. CASE FetchFails(g)
  <2>1. gstate[g] = "fetch" /\ gstate'[g] = "failed" /\ UNCHANGED settled
    BY <1>1, <1>10 DEF FetchFails
  <2> QED  BY <1>7, <2>1
<1> QED  BY <1>5, <1>6, <1>8, <1>9, <1>10 DEF GetStep

\* The initial states of the store are those of FileStore.
LEMMA InitMaps == Init => File!Init
<1> SUFFICES ASSUME Init PROVE File!Init
  OBVIOUS
<1>1. Begun = Earlier
  BY DEF Begun, Init
<1>2. Kept \subseteq Earlier
  BY KeptInit
<1>3. \A g \in Gets : gstate[g] = "idle" /\ settled = [h \in Gets |-> {}]
  BY DEF Init
<1>4. Phase = [g \in Gets |-> "idle"] /\ Reply = [g \in Gets |-> {}]
  BY <1>3 DEF Phase, Reply, PhaseOf, AnswerOf
<1>5. settled = [g \in Gets |-> {}]
  BY DEF Init
<1> QED  BY <1>1, <1>2, <1>4, <1>5 DEF File!Init, Begun, Kept, Phase, Reply

\* Chunks on two servers each, connections that break, servers that crash or refuse
\* chunks, chunk lists cut short and puts that die implement a store of whole versions:
\* every answer is one put's file from its first chunk to its last, not older than
\* anything fully stored when it was asked for.  This needs that timestamps do not wrap
\* and that no upload and no answer to a request for a chunk is cut or late within it.
THEOREM StoreImplementsFileStore ==
  ASSUME StampsInOrder, NothingCut
  PROVE  Spec => ImplementsFileStore
<1>1. Init => Inv
  BY InvHolds
<1>2. Inv /\ [Next]_vars => Inv'
  BY InvHolds
<1>3. Init => File!Init
  BY InitMaps
<1>4. Inv /\ Inv' /\ [Next]_vars => [File!Next]_File!fileVars
  <2> SUFFICES ASSUME Inv, Inv', [Next]_vars PROVE [File!Next]_File!fileVars
    OBVIOUS
  <2>1. CASE \/ \E p \in Puts : PutStep(p) \/ \E s \in Servers : SaveStep(p, s)
             \/ \E s \in Servers : Crash(s) \/ Restart(s)
             \/ UNCHANGED vars
    <3>1. UNCHANGED getVars
      BY <2>1, GetsFrame DEF Inv
    <3> QED  BY <2>1, <3>1, PutMaps
  <2>2. ASSUME NEW g \in Gets, StartGet(g) \/ GetStep(g) PROVE [File!Next]_File!fileVars
    BY <2>2, GetMaps
  <2> QED  BY <2>1, <2>2 DEF Next
<1> QED  BY <1>1, <1>2, <1>3, <1>4, PTL DEF Spec, ImplementsFileStore, File!Spec
=============================================================================
