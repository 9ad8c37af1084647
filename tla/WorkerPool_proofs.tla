-------------------------- MODULE WorkerPool_proofs --------------------------
(***************************************************************************)
(* Proofs about the worker pool, for any number of workers, descriptors    *)
(* and stack slots.  The inductive invariant is built in layers: typing,   *)
(* control, waiting, counting, ownership; each layer uses those before it. *)
(* DrainLeft, at the end, bounds the steps after signal_finish.            *)
(***************************************************************************)
EXTENDS WorkerPool, TLAPS, FiniteSetTheorems, SequenceTheorems

Fds == Jobs \cup {BadFd}

-----------------------------------------------------------------------------
(* The sequences the stack operations build                                *)

\* job_stack_push puts the job above everything else.
LEMMA PushSeq ==
  ASSUME NEW S, NEW s \in Seq(S), NEW e \in S
  PROVE  /\ Append(s, e) \in Seq(S)
         /\ Len(Append(s, e)) = Len(s) + 1
         /\ \A i \in 1..Len(s) : Append(s, e)[i] = s[i]
         /\ Append(s, e)[Len(s) + 1] = e
  OBVIOUS

\* job_stack_push_back moves everything up one slot and fills the bottom.
LEMMA PushBackSeq ==
  ASSUME NEW S, NEW s \in Seq(S), NEW e \in S
  PROVE  /\ <<e>> \o s \in Seq(S)
         /\ Len(<<e>> \o s) = Len(s) + 1
         /\ \A i \in 1..Len(s) : (<<e>> \o s)[i + 1] = s[i]
         /\ (<<e>> \o s)[1] = e
  OBVIOUS

\* job_stack_pop takes the top away and leaves the rest.
LEMMA PopSeq ==
  ASSUME NEW S, NEW s \in Seq(S), s # <<>>
  PROVE  /\ SubSeq(s, 1, Len(s) - 1) \in Seq(S)
         /\ Len(SubSeq(s, 1, Len(s) - 1)) = Len(s) - 1
         /\ \A i \in 1..(Len(s) - 1) : SubSeq(s, 1, Len(s) - 1)[i] = s[i]
         /\ s[Len(s)] \in S
         /\ Len(s) \in Nat \ {0}
<1>1. Len(s) \in Nat \ {0}
  BY EmptySeq
<1>2. \A i \in 1..Len(s) : s[i] \in S
  BY ElementOfSeq
<1>3. \A i \in 1..(Len(s) - 1) : s[i] \in S
  BY <1>1, <1>2
<1>4. /\ SubSeq(s, 1, Len(s) - 1) \in Seq(S)
      /\ Len(SubSeq(s, 1, Len(s) - 1)) = IF 1 <= Len(s) - 1 THEN Len(s) - 1 - 1 + 1 ELSE 0
      /\ \A i \in 1..(Len(s) - 1 - 1 + 1) : SubSeq(s, 1, Len(s) - 1)[i] = s[1 + i - 1]
  BY <1>1, <1>3, SubSeqProperties
<1>5. ASSUME NEW i \in 1..(Len(s) - 1) PROVE SubSeq(s, 1, Len(s) - 1)[i] = s[i]
  <2>1. i \in 1..(Len(s) - 1 - 1 + 1) /\ 1 + i - 1 = i
    BY <1>1
  <2> QED
    BY <1>4, <2>1
<1>6. Len(SubSeq(s, 1, Len(s) - 1)) = Len(s) - 1
  <2>1. CASE Len(s) = 1
    BY <2>1, SubSeqEmpty, EmptySeq
  <2>2. CASE Len(s) > 1
    <3>1. 1 <= Len(s) - 1 /\ Len(s) - 1 - 1 + 1 = Len(s) - 1
      BY <1>1, <2>2
    <3> QED
      BY <1>4, <3>1, Zenon
  <2> QED
    BY <1>1, <2>1, <2>2
<1>7. s[Len(s)] \in S
  BY <1>1, <1>2
<1> QED
  BY <1>1, <1>4, <1>5, <1>6, <1>7

-----------------------------------------------------------------------------
(* Typing: a thread has a descriptor in its hands exactly where it should  *)

HeldOK ==
  /\ held[Main] # Nothing <=> pc[Main] \in {"push", "push_wait"}
  /\ \A w \in Workers : held[w] # Nothing <=> pc[w] \in Serving

TypeInv == TypeOK /\ HeldOK

\* Main's steps keep the state well-typed.
LEMMA TypeMain == TypeInv /\ MainStep => TypeInv'
<1> SUFFICES ASSUME TypeInv, MainStep PROVE TypeInv'
  OBVIOUS
<1> USE ThreadsAssumption, JobsAssumption
    DEF TypeInv, TypeOK, HeldOK, MainPC, WorkerPC, Serving, Threads,
        stackVars, Goto, Grab, LetGo
<1>1. CASE Listen
  BY <1>1 DEF Listen
<1>2. CASE CheckShutdown
  BY <1>2 DEF CheckShutdown
<1>3. CASE AcceptFails
  BY <1>3 DEF AcceptFails
<1>4. ASSUME NEW job \in Jobs, Accept(job) PROVE TypeInv'
  BY <1>4 DEF Accept
<1>5. CASE MainPush
  <2>1. CASE /\ Goto(Main, "push", "check") /\ Push(held[Main]) /\ LetGo(Main)
             /\ UNCHANGED <<open, shouldShutdown, orderly>>
    <3>1. content' \in Seq(Jobs \cup {BadFd})
      BY <2>1 DEF Push
    <3> QED
      BY <2>1, <3>1 DEF Push, Signal, MutexFree
  <2>2. CASE /\ Goto(Main, "push", "push_wait") /\ PushParks(Main)
             /\ UNCHANGED <<held, open, shouldShutdown, orderly>>
    BY <2>2 DEF PushParks, MutexFree
  <2>3. CASE /\ Goto(Main, "push", "check") /\ PushFinished(Main) /\ LetGo(Main)
             /\ UNCHANGED <<open, shouldShutdown, orderly>>
    BY <2>3 DEF PushFinished, MutexFree
  <2> QED
    BY <1>5, <2>1, <2>2, <2>3 DEF MainPush
<1>6. CASE MainRetriesPush
  BY <1>6 DEF MainRetriesPush, WakeUp
<1>7. CASE Finish
  BY <1>7 DEF Finish, SignalFinish
<1>8. CASE Join
  BY <1>8 DEF Join
<1> QED
  BY <1>1, <1>2, <1>3, <1>4, <1>5, <1>6, <1>7, <1>8 DEF MainStep

\* A worker's steps keep the state well-typed.
LEMMA TypeWorker ==
  ASSUME NEW w \in Workers
  PROVE  TypeInv /\ WorkerStep(w) => TypeInv'
<1> SUFFICES ASSUME TypeInv, WorkerStep(w) PROVE TypeInv'
  OBVIOUS
<1> USE ThreadsAssumption, JobsAssumption
    DEF TypeInv, TypeOK, HeldOK, MainPC, WorkerPC, Serving, Threads,
        stackVars, Goto, Grab, LetGo
<1>1. CASE WorkerPop(w)
  <2>1. ASSUME NEW job \in Fds, Goto(w, "pop", "serve"), Pop(job), Grab(w, job),
               UNCHANGED <<open, shouldShutdown, orderly>>
        PROVE  TypeInv'
    <3>1. content' \in Seq(Fds)
      BY <2>1, PopSeq DEF Pop, Fds
    <3> QED
      BY <2>1, <3>1 DEF Pop, Signal, Fds
  <2>2. CASE Goto(w, "pop", "pop_wait") /\ PopParks(w) /\ UNCHANGED <<held, open, shouldShutdown, orderly>>
    BY <2>2 DEF PopParks
  <2>3. CASE Goto(w, "pop", "exited") /\ PopFinished /\ UNCHANGED <<held, open, shouldShutdown, orderly>>
    BY <2>3 DEF PopFinished
  <2> QED
    BY <1>1, <2>1, <2>2, <2>3 DEF WorkerPop, Fds
<1>2. CASE WorkerRetriesPop(w)
  BY <1>2 DEF WorkerRetriesPop, WakeUp
<1>3. CASE RecvFails(w)
  BY <1>3 DEF RecvFails
<1>4. CASE Requeue(w)
  BY <1>4 DEF Requeue
<1>5. CASE Close(w)
  BY <1>5 DEF Close
<1>6. CASE InvalidHeader(w)
  BY <1>6 DEF InvalidHeader
<1>7. CASE CloseAgain(w)
  BY <1>7 DEF CloseAgain
<1>8. CASE ReadFinished(w)
  BY <1>8 DEF ReadFinished
<1>9. CASE WorkerPushBack(w)
  <2>1. held[w] \in Fds
    BY <1>9 DEF WorkerPushBack, Fds
  <2>2. content' \in Seq(Fds)
    BY <1>9, <2>1, PushBackSeq DEF WorkerPushBack, PushBack, Fds
  <2> QED
    BY <1>9, <2>2 DEF WorkerPushBack, PushBack, Signal, Fds
<1> QED
  BY <1>1, <1>2, <1>3, <1>4, <1>5, <1>6, <1>7, <1>8, <1>9 DEF WorkerStep

\* Every reachable state of the pool is well-typed, and a thread has a
\* descriptor in its hands exactly between taking it and giving it away.
THEOREM PoolTypeInv == Spec => []TypeInv
<1>1. Init => TypeInv
  <2> SUFFICES ASSUME Init PROVE TypeInv
    OBVIOUS
  <2> USE ThreadsAssumption, JobsAssumption DEF Init, StackInit, Threads
  <2>1. content \in Seq(Jobs \cup {BadFd})
    OBVIOUS
  <2>2. pc[Main] = "listen" /\ \A w \in Workers : pc[w] = "pop"
    OBVIOUS
  <2>3. pc \in [Threads -> MainPC \cup WorkerPC]
    BY DEF MainPC, WorkerPC
  <2>4. HeldOK
    BY <2>2 DEF HeldOK, Serving
  <2> QED
    BY <2>1, <2>2, <2>3, <2>4 DEF TypeInv, TypeOK, MainPC, WorkerPC
<1>2. TypeInv /\ [Next]_vars => TypeInv'
  <2> SUFFICES ASSUME TypeInv, [Next]_vars PROVE TypeInv'
    OBVIOUS
  <2>1. CASE MainStep
    BY <2>1, TypeMain
  <2>2. ASSUME NEW w \in Workers, WorkerStep(w) PROVE TypeInv'
    BY <2>2, TypeWorker
  <2>3. CASE SignalArrives
    BY <2>3 DEF SignalArrives, stackVars, TypeInv, TypeOK, HeldOK
  <2>4. CASE SpuriousWake
    BY <2>4 DEF SpuriousWake, SpuriousWakeUp, TypeInv, TypeOK, HeldOK
  <2>5. CASE UNCHANGED vars
    BY <2>5 DEF vars, TypeInv, TypeOK, HeldOK
  <2> QED
    BY <2>1, <2>2, <2>3, <2>4, <2>5 DEF Next, Terminated
<1> QED
  BY <1>1, <1>2, PTL DEF Spec

\* What a worker serves is something accept returned.
LEMMA ServedFd ==
  ASSUME TypeInv, NEW w \in Workers, pc[w] \in Serving
  PROVE  held[w] \in Fds /\ content \in Seq(Fds)
  BY DEF TypeInv, TypeOK, HeldOK, Fds, Threads

\* Every reachable state of the pool is well-typed (the stack's array, its flag
\* and wait queues, the threads and the descriptors they hold).
THEOREM PoolTypeOK == Spec => []TypeOK
  BY PoolTypeInv, PTL DEF TypeInv

-----------------------------------------------------------------------------
(* Control: the stack is finished once main has left its loop, so push     *)
(* never meets a finished stack and the mutex is never left locked         *)

BeforeFinish == {"listen", "check", "accept", "push", "push_wait", "finish"}

ControlInv ==
  /\ mutex = Nobody
  /\ pc[Main] \in BeforeFinish <=> ~finished
  /\ \A w \in Workers : pc[w] = "exited" => finished

\* No step of main or a worker takes it off that course.
LEMMA ControlStep == TypeInv /\ ControlInv /\ [Next]_vars => ControlInv'
<1> SUFFICES ASSUME TypeInv, ControlInv, [Next]_vars PROVE ControlInv'
  OBVIOUS
<1> USE ThreadsAssumption
    DEF TypeInv, TypeOK, ControlInv, BeforeFinish, MainPC, WorkerPC, Threads,
        stackVars, Goto, MutexFree
<1>1. CASE Listen \/ CheckShutdown \/ AcceptFails \/ \E job \in Jobs : Accept(job)
  BY <1>1 DEF Listen, CheckShutdown, AcceptFails, Accept
<1>2. CASE MainPush
  BY <1>2 DEF MainPush, Push, PushParks, PushFinished
<1>3. CASE MainRetriesPush
  BY <1>3 DEF MainRetriesPush, WakeUp
<1>4. CASE Finish
  BY <1>4 DEF Finish, SignalFinish
<1>5. CASE Join
  BY <1>5 DEF Join
<1>6. ASSUME NEW w \in Workers, WorkerPop(w) PROVE ControlInv'
  BY <1>6 DEF WorkerPop, Pop, PopParks, PopFinished
<1>7. ASSUME NEW w \in Workers, WorkerRetriesPop(w) \/ RecvFails(w) \/ Requeue(w)
                                  \/ Close(w) \/ InvalidHeader(w) \/ CloseAgain(w)
      PROVE ControlInv'
  BY <1>7 DEF WorkerRetriesPop, WakeUp, RecvFails, Requeue, Close, InvalidHeader, CloseAgain
<1>8. ASSUME NEW w \in Workers, ReadFinished(w) \/ WorkerPushBack(w) PROVE ControlInv'
  BY <1>8 DEF ReadFinished, WorkerPushBack, PushBack
<1>9. CASE SignalArrives \/ SpuriousWake \/ UNCHANGED vars
  BY <1>9 DEF SignalArrives, SpuriousWake, SpuriousWakeUp, vars
<1> QED
  BY <1>1, <1>2, <1>3, <1>4, <1>5, <1>6, <1>7, <1>8, <1>9
  DEF Next, MainStep, WorkerStep, Terminated

\* The stack is finished exactly after main has left its loop, workers exit only then,
\* and no call has left the mutex locked.
THEOREM PoolControlInv == Spec => []ControlInv
<1>1. Init => ControlInv
  BY ThreadsAssumption DEF Init, StackInit, ControlInv, BeforeFinish, Threads
<1> QED
  BY <1>1, ControlStep, PoolTypeInv, PTL DEF Spec

\* No call returns with the stack's mutex locked: the early return of push on a
\* finished stack, which forgets to unlock it, is never taken.
THEOREM PoolMutexReleased == Spec => []MutexReleased
  BY PoolControlInv, PTL DEF ControlInv, MutexReleased

-----------------------------------------------------------------------------
(* Waiting: who is parked, and why                                         *)

WaitInv ==
  /\ \A w \in notEmpty : pc[w] = "pop_wait"
  /\ finished => notEmpty = {}
  /\ PusherSleepsWhenFull

\* A step that parks or wakes a thread keeps the wait queues as the threads' control says.
LEMMA WaitStep ==
  TypeInv /\ ControlInv /\ WaitInv /\ [Next]_vars => WaitInv'
<1> SUFFICES ASSUME TypeInv, ControlInv, WaitInv, [Next]_vars PROVE WaitInv'
  OBVIOUS
<1> USE ThreadsAssumption, SizeAssumption
    DEF TypeInv, TypeOK, ControlInv, BeforeFinish, WaitInv, PusherSleepsWhenFull,
        Threads, stackVars, Goto
<1>1. CASE Listen \/ CheckShutdown \/ AcceptFails \/ \E job \in Jobs : Accept(job)
  BY <1>1 DEF Listen, CheckShutdown, AcceptFails, Accept
<1>2. CASE MainPush
  <2>1. CASE Goto(Main, "push", "check") /\ Push(held[Main]) /\ LetGo(Main)
    <3>1. Len(content) < MaxJobs /\ notEmpty' \subseteq notEmpty /\ UNCHANGED notFull
      BY <2>1 DEF Push, Signal
    <3> QED
      BY <2>1, <3>1 DEF Push
  <2>2. CASE Goto(Main, "push", "push_wait") /\ PushParks(Main)
    BY <2>2 DEF PushParks
  <2> QED
    BY <1>2, <2>1, <2>2 DEF MainPush, PushFinished
<1>3. CASE MainRetriesPush
  BY <1>3 DEF MainRetriesPush, WakeUp
<1>4. CASE Finish
  BY <1>4 DEF Finish, SignalFinish
<1>5. CASE Join
  BY <1>5 DEF Join
<1>6. ASSUME NEW w \in Workers, WorkerPop(w) PROVE WaitInv'
  <2>1. ASSUME NEW job, Goto(w, "pop", "serve"), Pop(job) PROVE WaitInv'
    BY <2>1 DEF Pop, Signal
  <2>2. CASE Goto(w, "pop", "pop_wait") /\ PopParks(w)
    BY <2>2 DEF PopParks
  <2>3. CASE Goto(w, "pop", "exited") /\ PopFinished
    BY <2>3 DEF PopFinished
  <2> QED
    BY <1>6, <2>1, <2>2, <2>3 DEF WorkerPop
<1>7. ASSUME NEW w \in Workers, WorkerRetriesPop(w) \/ RecvFails(w) \/ Requeue(w)
                                  \/ Close(w) \/ InvalidHeader(w) \/ CloseAgain(w)
      PROVE WaitInv'
  BY <1>7 DEF WorkerRetriesPop, WakeUp, RecvFails, Requeue, Close, InvalidHeader, CloseAgain
<1>8. ASSUME NEW w \in Workers, ReadFinished(w) PROVE WaitInv'
  BY <1>8 DEF ReadFinished
<1>9. ASSUME NEW w \in Workers, WorkerPushBack(w) PROVE WaitInv'
  <2>1. Len(content') = Len(content) + 1
    <3>1. pc[w] \in Serving
      BY <1>9 DEF WorkerPushBack, Serving
    <3>2. held[w] \in Fds /\ content \in Seq(Fds)
      BY <3>1, ServedFd
    <3> QED
      BY <1>9, <3>2, PushBackSeq DEF WorkerPushBack, PushBack
  <2>2. notEmpty' \subseteq notEmpty /\ UNCHANGED <<notFull, finished>>
    BY <1>9 DEF WorkerPushBack, PushBack, Signal
  <2> QED
    BY <1>9, <2>1, <2>2 DEF WorkerPushBack
<1>10. CASE SignalArrives \/ SpuriousWake \/ UNCHANGED vars
  BY <1>10 DEF SignalArrives, SpuriousWake, SpuriousWakeUp, vars
<1> QED
  BY <1>1, <1>2, <1>3, <1>4, <1>5, <1>6, <1>7, <1>8, <1>9, <1>10
  DEF Next, MainStep, WorkerStep, Terminated

\* Only poppers of an unfinished stack sleep on not_empty, and main only while the
\* stack is full.
THEOREM PoolWaitInv == Spec => []WaitInv
<1>1. Init => WaitInv
  BY DEF Init, StackInit, WaitInv, PusherSleepsWhenFull
<1> QED
  BY <1>1, WaitStep, PoolTypeInv, PoolControlInv, PTL DEF Spec

\* Main never sleeps on not_full while the stack has room for its job.
THEOREM PoolPusherSleepsWhenFull == Spec => []PusherSleepsWhenFull
  BY PoolWaitInv, PTL DEF WaitInv

-----------------------------------------------------------------------------
(* Draining: jobs left on the stack keep a worker from exiting             *)

DrainInv ==
  /\ content # <<>> => \E w \in Workers : pc[w] # "exited"
  /\ pc[Main] = "done" => \A w \in Workers : pc[w] = "exited"

\* A worker that exits leaves an empty stack, and one that brings a job back stays.
LEMMA DrainStep ==
  TypeInv /\ ControlInv /\ DrainInv /\ [Next]_vars => DrainInv'
<1> SUFFICES ASSUME TypeInv, ControlInv, DrainInv, [Next]_vars PROVE DrainInv'
  OBVIOUS
<1> USE ThreadsAssumption
    DEF TypeInv, TypeOK, ControlInv, BeforeFinish, DrainInv, Threads, stackVars, Goto
<1>1. CASE Listen \/ CheckShutdown \/ AcceptFails \/ \E job \in Jobs : Accept(job)
  BY <1>1 DEF Listen, CheckShutdown, AcceptFails, Accept
<1>2. CASE MainPush
  \* Main still pushes, so the stack is not finished and no worker has exited.
  <2>1. PICK w \in Workers : pc'[w] # "exited"
    BY <1>2 DEF MainPush
  <2> QED
    BY <1>2, <2>1 DEF MainPush
<1>3. CASE MainRetriesPush
  BY <1>3 DEF MainRetriesPush, WakeUp
<1>4. CASE Finish
  BY <1>4 DEF Finish, SignalFinish
<1>5. CASE Join
  BY <1>5 DEF Join
<1>6. ASSUME NEW w \in Workers, WorkerPop(w) PROVE DrainInv'
  BY <1>6 DEF WorkerPop, Pop, PopParks, PopFinished
<1>7. ASSUME NEW w \in Workers, WorkerRetriesPop(w) \/ RecvFails(w) \/ Requeue(w)
                                  \/ Close(w) \/ InvalidHeader(w) \/ CloseAgain(w)
                                  \/ ReadFinished(w) \/ WorkerPushBack(w)
      PROVE DrainInv'
  <2>1. pc'[w] # "exited" /\ pc[w] # "exited" /\ pc'[Main] = pc[Main]
    BY <1>7 DEF WorkerRetriesPop, WakeUp, RecvFails, Requeue, Close, InvalidHeader,
                CloseAgain, ReadFinished, WorkerPushBack
  <2> QED
    BY <2>1
<1>8. CASE SignalArrives \/ SpuriousWake \/ UNCHANGED vars
  BY <1>8 DEF SignalArrives, SpuriousWake, SpuriousWakeUp, vars
<1> QED
  BY <1>1, <1>2, <1>3, <1>4, <1>5, <1>6, <1>7, <1>8
  DEF Next, MainStep, WorkerStep, Terminated

\* While jobs are on the stack some worker has not exited, and main returns only when
\* all have.
THEOREM PoolDrainInv == Spec => []DrainInv
<1>1. Init => DrainInv
  BY ThreadsAssumption DEF Init, StackInit, DrainInv, Threads
<1> QED
  BY <1>1, DrainStep, PoolTypeInv, PoolControlInv, PTL DEF Spec

\* job_stack_destruct is only ever called on an empty stack: a job pushed back
\* by a worker that raced with signal_finish is popped again before all exit.
THEOREM PoolEmptyAtDestruct == Spec => []EmptyAtDestruct
<1>1. DrainInv => EmptyAtDestruct
  BY DEF DrainInv, EmptyAtDestruct
<1> QED
  BY <1>1, PoolDrainInv, PTL

-----------------------------------------------------------------------------
(* Counting: a job in a worker's hands has left a slot for its return      *)

Holding == {w \in Workers : pc[w] \in Serving}

CountInv == Len(content) + Cardinality(Holding) <= MaxJobs + Cardinality(Workers)

\* The counts used below are counts: Holding is a finite part of the workers.
LEMMA HoldingFinite ==
  /\ IsFiniteSet(Holding)
  /\ Cardinality(Holding) \in Nat
  /\ Cardinality(Workers) \in Nat
  /\ Cardinality(Holding) <= Cardinality(Workers)
<1>1. Holding \subseteq Workers
  BY DEF Holding
<1> QED
  BY <1>1, FS_Subset, FS_CardinalityType, ThreadsAssumption

\* A pop takes one job from the stack into a worker's hands, push_back returns it, and
\* push adds one only below MaxJobs.
LEMMA CountStep ==
  TypeInv /\ CountInv /\ [Next]_vars => CountInv'
<1> SUFFICES ASSUME TypeInv, CountInv, [Next]_vars PROVE CountInv'
  OBVIOUS
<1> USE HoldingFinite
<1>a. Len(content) \in Nat
  BY LenProperties DEF TypeInv, TypeOK
<1>b. ASSUME UNCHANGED content, Holding' \subseteq Holding PROVE CountInv'
  <2>1. Cardinality(Holding') <= Cardinality(Holding) /\ Cardinality(Holding') \in Nat
    BY <1>b, FS_Subset, FS_CardinalityType
  <2> QED
    BY <1>a, <1>b, <2>1, SizeAssumption DEF CountInv
<1> USE ThreadsAssumption, SizeAssumption
    DEF TypeInv, TypeOK, MainPC, WorkerPC, Threads, stackVars, Goto
<1>1. CASE Listen \/ CheckShutdown \/ AcceptFails \/ (\E job \in Jobs : Accept(job))
             \/ MainRetriesPush \/ Finish \/ Join
  <2>1. UNCHANGED content /\ \A w \in Workers : pc'[w] = pc[w]
    BY <1>1 DEF Listen, CheckShutdown, AcceptFails, Accept, MainRetriesPush, WakeUp,
                Finish, SignalFinish, Join
  <2> QED
    BY <1>b, <2>1 DEF Holding
<1>2. CASE MainPush
  <2>1. \A w \in Workers : pc'[w] = pc[w]
    BY <1>2 DEF MainPush
  <2>2. Holding' = Holding
    BY <2>1 DEF Holding
  <2>3. CASE UNCHANGED content
    BY <1>b, <2>2, <2>3
  <2>4. CASE Push(held[Main]) /\ Goto(Main, "push", "check")
    <3>1. held[Main] \in Fds /\ content \in Seq(Fds)
      BY <2>4 DEF HeldOK, Fds
    <3>2. Len(content) < MaxJobs /\ Len(content') = Len(content) + 1
      BY <2>4, <3>1, PushSeq DEF Push
    <3> QED
      BY <1>a, <2>2, <3>2 DEF CountInv
  <2> QED
    BY <1>2, <2>3, <2>4 DEF MainPush, PushParks, PushFinished
<1>3. ASSUME NEW w \in Workers, WorkerPop(w) PROVE CountInv'
  <2>1. ASSUME NEW job \in Fds, Goto(w, "pop", "serve"), Pop(job) PROVE CountInv'
    <3>1. Len(content') = Len(content) - 1
      BY <2>1, PopSeq DEF Pop
    <3>2. w \notin Holding /\ Holding' = Holding \cup {w}
      BY <2>1 DEF Holding, Serving
    <3>3. Cardinality(Holding') = Cardinality(Holding) + 1
      BY <3>2, FS_AddElement
    <3> QED
      BY <1>a, <3>1, <3>3 DEF CountInv
  <2>2. CASE (Goto(w, "pop", "pop_wait") \/ Goto(w, "pop", "exited")) /\ UNCHANGED content
    <3>1. Holding' = Holding
      BY <2>2 DEF Holding, Serving
    <3> QED
      BY <1>b, <2>2, <3>1
  <2> QED
    BY <1>3, <2>1, <2>2 DEF WorkerPop, PopParks, PopFinished, Fds
<1>4. ASSUME NEW w \in Workers, WorkerRetriesPop(w) \/ RecvFails(w) \/ Requeue(w)
                                  \/ Close(w) \/ InvalidHeader(w) \/ CloseAgain(w)
                                  \/ ReadFinished(w)
      PROVE CountInv'
  <2>1. UNCHANGED content /\ \A v \in Workers : pc'[v] \in Serving => pc[v] \in Serving
    BY <1>4 DEF WorkerRetriesPop, WakeUp, RecvFails, Requeue, Close, InvalidHeader,
                CloseAgain, ReadFinished, Serving
  <2> QED
    BY <1>b, <2>1 DEF Holding
<1>5. ASSUME NEW w \in Workers, WorkerPushBack(w) PROVE CountInv'
  <2>1. pc[w] \in Serving
    BY <1>5 DEF WorkerPushBack, Serving
  <2>2. Len(content') = Len(content) + 1
    BY <1>5, <2>1, ServedFd, PushBackSeq DEF WorkerPushBack, PushBack
  <2>3. w \in Holding /\ Holding' = Holding \ {w}
    BY <1>5, <2>1 DEF WorkerPushBack, Holding, Serving
  <2>4. Cardinality(Holding') = Cardinality(Holding) - 1
    BY <2>3, FS_RemoveElement
  <2> QED
    BY <1>a, <2>2, <2>4 DEF CountInv
<1>6. CASE SignalArrives \/ SpuriousWake \/ UNCHANGED vars
  BY <1>6, <1>b DEF SignalArrives, SpuriousWake, SpuriousWakeUp, vars, Holding
<1> QED
  BY <1>1, <1>2, <1>3, <1>4, <1>5, <1>6 DEF Next, MainStep, WorkerStep, Terminated

\* The jobs on the stack and in the workers' hands fit the slots and the reserve.
THEOREM PoolCountInv == Spec => []CountInv
<1>1. Init => CountInv
  <2> SUFFICES ASSUME Init PROVE CountInv
    OBVIOUS
  <2>1. Len(content) = 0
    BY DEF Init, StackInit
  <2> QED
    BY <2>1, HoldingFinite, SizeAssumption DEF CountInv
<1> QED
  BY <1>1, CountStep, PoolTypeInv, PTL DEF Spec

\* The array is never written past its end, although job_stack_push_back never
\* waits for room: what main fills up leaves one reserve slot for every job a
\* worker may still bring back.
THEOREM PoolCapacityOK == Spec => []CapacityOK
<1>1. TypeInv /\ CountInv => CapacityOK
  BY HoldingFinite, LenProperties, SizeAssumption
  DEF TypeInv, TypeOK, CountInv, CapacityOK, Capacity
<1> QED
  BY <1>1, PoolTypeInv, PoolCountInv, PTL

-----------------------------------------------------------------------------
(* Wake-ups: every signal sends a parked worker on its way                 *)

\* The workers on their way can be counted.
LEMMA OnTheirWayFinite ==
  IsFiniteSet(OnTheirWay) /\ Cardinality(OnTheirWay) \in Nat
<1>1. OnTheirWay \subseteq Workers
  BY DEF OnTheirWay
<1> QED
  BY <1>1, FS_Subset, FS_CardinalityType, ThreadsAssumption

\* A step that adds a job signals a sleeping worker, if there is one.
LEMMA WakeStep ==
  TypeInv /\ TypeInv' /\ WaitInv /\ NoLostWakeUp /\ [Next]_vars => NoLostWakeUp'
<1> SUFFICES ASSUME TypeInv, TypeInv', WaitInv, NoLostWakeUp, [Next]_vars PROVE NoLostWakeUp'
  OBVIOUS
<1> USE OnTheirWayFinite
<1>a. Len(content) \in Nat /\ Len(content') \in Nat
  BY LenProperties DEF TypeInv, TypeOK
<1>b. IsFiniteSet(OnTheirWay') /\ Cardinality(OnTheirWay') \in Nat
  <2>1. OnTheirWay' \subseteq Workers
    BY DEF OnTheirWay
  <2> QED
    BY <2>1, FS_Subset, FS_CardinalityType, ThreadsAssumption
<1>c. ASSUME UNCHANGED content, notEmpty' \subseteq notEmpty, OnTheirWay \subseteq OnTheirWay'
      PROVE  NoLostWakeUp'
  <2>1. Cardinality(OnTheirWay) <= Cardinality(OnTheirWay')
    BY <1>b, <1>c, FS_Subset
  <2> QED
    BY <1>a, <1>b, <1>c, <2>1 DEF NoLostWakeUp
\* One more job, one more worker on its way.
<1>d. ASSUME Len(content') = Len(content) + 1, notEmpty' \in Signal(notEmpty),
             \A v \in Workers : pc'[v] = pc[v] \/ (pc[v] # "pop" /\ pc[v] # "pop_wait")
      PROVE  NoLostWakeUp'
  <2> SUFFICES ASSUME notEmpty' # {} PROVE NoLostWakeUp'
    BY DEF NoLostWakeUp
  <2>1. PICK t \in notEmpty : notEmpty' = notEmpty \ {t}
    BY <1>d DEF Signal
  <2>2. t \in Workers /\ pc[t] = "pop_wait" /\ t \notin OnTheirWay
    BY <2>1 DEF TypeInv, TypeOK, WaitInv, OnTheirWay
  <2>3. OnTheirWay \cup {t} \subseteq OnTheirWay'
    BY <1>d, <2>1, <2>2 DEF OnTheirWay
  <2>4. Cardinality(OnTheirWay \cup {t}) = Cardinality(OnTheirWay) + 1
    BY <2>2, FS_AddElement
  <2>5. Cardinality(OnTheirWay \cup {t}) <= Cardinality(OnTheirWay')
    BY <1>b, <2>3, FS_Subset
  <2> QED
    BY <1>a, <1>b, <1>d, <2>1, <2>4, <2>5 DEF NoLostWakeUp
<1> USE ThreadsAssumption
    DEF TypeInv, TypeOK, MainPC, WorkerPC, Threads, stackVars, Goto
<1>1. CASE Listen \/ CheckShutdown \/ AcceptFails \/ (\E job \in Jobs : Accept(job))
             \/ MainRetriesPush \/ Finish \/ Join
  <2>1. UNCHANGED content /\ notEmpty' \subseteq notEmpty /\ \A w \in Workers : pc'[w] = pc[w]
    BY <1>1 DEF Listen, CheckShutdown, AcceptFails, Accept, MainRetriesPush, WakeUp,
                Finish, SignalFinish, Join
  <2> QED
    BY <1>c, <2>1 DEF OnTheirWay
<1>2. CASE MainPush
  <2>1. \A w \in Workers : pc'[w] = pc[w]
    BY <1>2 DEF MainPush
  <2>2. CASE UNCHANGED <<content, notEmpty>>
    BY <1>c, <2>1, <2>2 DEF OnTheirWay
  <2>3. CASE Push(held[Main]) /\ Goto(Main, "push", "check")
    <3>1. held[Main] \in Fds /\ content \in Seq(Fds)
      BY <2>3 DEF HeldOK, Fds
    <3>2. Len(content') = Len(content) + 1 /\ notEmpty' \in Signal(notEmpty)
      BY <2>3, <3>1, PushSeq DEF Push
    <3> QED
      BY <1>d, <2>1, <3>2
  <2> QED
    BY <1>2, <2>2, <2>3 DEF MainPush, PushParks, PushFinished
<1>3. ASSUME NEW w \in Workers, WorkerPop(w) PROVE NoLostWakeUp'
  <2>1. ASSUME NEW job \in Fds, Goto(w, "pop", "serve"), Pop(job) PROVE NoLostWakeUp'
    <3>1. Len(content') = Len(content) - 1 /\ notEmpty' = notEmpty
      BY <2>1, PopSeq DEF Pop
    <3>2. w \in OnTheirWay /\ OnTheirWay' = OnTheirWay \ {w}
      BY <2>1, <3>1 DEF OnTheirWay
    <3>3. Cardinality(OnTheirWay') = Cardinality(OnTheirWay) - 1
      BY <3>2, FS_RemoveElement
    <3> QED
      BY <1>a, <3>1, <3>3 DEF NoLostWakeUp
  <2>2. CASE PopParks(w)
    BY <1>a, <1>b, <2>2 DEF PopParks, NoLostWakeUp
  <2>3. CASE PopFinished
    BY <2>3 DEF PopFinished, NoLostWakeUp, WaitInv
  <2> QED
    BY <1>3, <2>1, <2>2, <2>3 DEF WorkerPop, Fds
<1>4. ASSUME NEW w \in Workers, WorkerRetriesPop(w) \/ RecvFails(w) \/ Requeue(w)
                                  \/ Close(w) \/ InvalidHeader(w) \/ CloseAgain(w)
                                  \/ ReadFinished(w)
      PROVE NoLostWakeUp'
  <2>1. /\ UNCHANGED <<content, notEmpty>>
        /\ \A v \in Workers : pc'[v] = pc[v] \/ (v = w /\ pc[v] \notin {"pop", "pop_wait"})
                                \/ (v = w /\ pc'[v] = "pop")
    BY <1>4 DEF WorkerRetriesPop, WakeUp, RecvFails, Requeue, Close, InvalidHeader,
                CloseAgain, ReadFinished
  <2> QED
    BY <1>c, <2>1 DEF OnTheirWay
<1>5. ASSUME NEW w \in Workers, WorkerPushBack(w) PROVE NoLostWakeUp'
  <2>1. Len(content') = Len(content) + 1 /\ notEmpty' \in Signal(notEmpty)
    <3>1. pc[w] \in Serving
      BY <1>5 DEF WorkerPushBack, Serving
    <3> QED
      BY <1>5, <3>1, ServedFd, PushBackSeq DEF WorkerPushBack, PushBack
  <2>2. \A v \in Workers : pc'[v] = pc[v] \/ (pc[v] # "pop" /\ pc[v] # "pop_wait")
    BY <1>5 DEF WorkerPushBack
  <2> QED
    BY <1>d, <2>1, <2>2
<1>6. CASE SignalArrives \/ SpuriousWake \/ UNCHANGED vars
  BY <1>6, <1>c DEF SignalArrives, SpuriousWake, SpuriousWakeUp, vars, OnTheirWay
<1> QED
  BY <1>1, <1>2, <1>3, <1>4, <1>5, <1>6 DEF Next, MainStep, WorkerStep, Terminated

\* No wake-up is lost: while workers sleep on not_empty, every job on the stack
\* has a worker on its way to pop it.
THEOREM PoolNoLostWakeUp == Spec => []NoLostWakeUp
<1>1. Init => NoLostWakeUp
  BY DEF Init, StackInit, NoLostWakeUp
<1> QED
  BY <1>1, WakeStep, PoolTypeInv, PoolWaitInv, PTL DEF Spec

-----------------------------------------------------------------------------
(* Ownership: while peeks find headers, only open descriptors are in       *)
(* circulation, so the one accept returns is nowhere else                  *)

OwnInv ==
  /\ InOnePlace
  /\ \A t \in Threads : held[t] \in Jobs => held[t] \in open
  /\ \A i \in DOMAIN content : content[i] \in Jobs => content[i] \in open
  /\ \A w \in Workers : pc[w] # "closed"

\* Main takes a descriptor that nobody has, and gives it to the stack.
LEMMA OwnMain ==
  ASSUME orderly, orderly', TypeInv, OwnInv, MainStep
  PROVE  OwnInv'
<1> USE ThreadsAssumption, JobsAssumption
    DEF TypeInv, TypeOK, MainPC, WorkerPC, Threads, stackVars, Goto, OwnInv
<1>1. CASE Listen \/ CheckShutdown \/ MainRetriesPush \/ Finish \/ Join
  BY <1>1 DEF Listen, CheckShutdown, MainRetriesPush, WakeUp, Finish, SignalFinish,
              Join, InOnePlace
<1>2. CASE AcceptFails
  BY <1>2 DEF AcceptFails, Grab, InOnePlace
<1>3. ASSUME NEW job \in Jobs, Accept(job) PROVE OwnInv'
  BY <1>3 DEF Accept, Grab, InOnePlace
<1>4. CASE MainPush
  <2>1. CASE Push(held[Main]) /\ Goto(Main, "push", "check") /\ LetGo(Main) /\ UNCHANGED open
    <3>1. held[Main] \in Fds /\ content \in Seq(Fds)
      BY <2>1 DEF HeldOK, Fds
    <3>2. DOMAIN content = 1..Len(content) /\ Len(content) \in Nat
      BY LenProperties
    <3>3. /\ DOMAIN content' = 1..(Len(content) + 1)
          /\ \A i \in 1..Len(content) : content'[i] = content[i]
          /\ content'[Len(content) + 1] = held[Main]
      BY <2>1, <3>1, PushSeq, LenProperties DEF Push
    <3>4. \A i \in DOMAIN content' :
            \/ i \in DOMAIN content /\ content'[i] = content[i]
            \/ i = Len(content) + 1 /\ content'[i] = held[Main]
      BY <3>2, <3>3
    <3>5. /\ \A t \in Threads : held'[t] \in Jobs => t # Main /\ held'[t] = held[t]
      BY <2>1 DEF LetGo
    <3>6. InOnePlace'
      BY <3>2, <3>4, <3>5 DEF InOnePlace
    <3> QED
      BY <2>1, <3>4, <3>5, <3>6
  <2>2. CASE UNCHANGED <<content, held, open>> /\ Goto(Main, "push", "push_wait")
    BY <2>2 DEF InOnePlace
  <2>3. CASE UNCHANGED <<content, open>> /\ LetGo(Main) /\ Goto(Main, "push", "check")
    BY <2>3 DEF InOnePlace, LetGo
  <2> QED
    BY <1>4, <2>1, <2>2, <2>3 DEF MainPush, PushParks, PushFinished
<1> QED
  BY <1>1, <1>2, <1>3, <1>4 DEF MainStep

\* A worker takes the descriptor on top, and gives it back or closes it.
LEMMA OwnWorker ==
  ASSUME orderly, orderly', TypeInv, OwnInv, NEW w \in Workers, WorkerStep(w)
  PROVE  OwnInv'
<1> USE ThreadsAssumption, JobsAssumption
    DEF TypeInv, TypeOK, MainPC, WorkerPC, Threads, stackVars, Goto, OwnInv
<1>a. DOMAIN content = 1..Len(content) /\ Len(content) \in Nat
  BY LenProperties
<1>1. CASE WorkerPop(w)
  <2>1. ASSUME NEW job \in Fds, Goto(w, "pop", "serve"), Pop(job), Grab(w, job), UNCHANGED open
        PROVE  OwnInv'
    <3>1. /\ DOMAIN content' = 1..(Len(content) - 1)
          /\ \A i \in 1..(Len(content) - 1) : content'[i] = content[i]
          /\ job = content[Len(content)] /\ Len(content) \in DOMAIN content
      BY <2>1, <1>a, PopSeq, LenProperties DEF Pop, Fds
    <3>2. \A i \in DOMAIN content' :
            i \in DOMAIN content /\ i # Len(content) /\ content'[i] = content[i]
      BY <3>1, <1>a
    <3>3. \A t \in Threads : held'[t] = IF t = w THEN job ELSE held[t]
      BY <2>1 DEF Grab
    <3>4. InOnePlace'
      BY <3>1, <3>2, <3>3 DEF InOnePlace
    <3> QED
      BY <2>1, <3>1, <3>2, <3>3, <3>4
  <2>2. CASE UNCHANGED <<content, held, open>> /\ (Goto(w, "pop", "pop_wait") \/ Goto(w, "pop", "exited"))
    BY <2>2 DEF InOnePlace
  <2> QED
    BY <1>1, <2>1, <2>2 DEF WorkerPop, PopParks, PopFinished, Fds
<1>2. CASE WorkerRetriesPop(w) \/ RecvFails(w) \/ Requeue(w) \/ ReadFinished(w)
  BY <1>2 DEF WorkerRetriesPop, WakeUp, RecvFails, Requeue, ReadFinished, LetGo, InOnePlace
<1>3. CASE Close(w)
  <2>1. held[w] \in Jobs
    BY <1>3 DEF Close
  <2>2. \A t \in Threads : held'[t] = IF t = w THEN Nothing ELSE held[t]
    BY <1>3 DEF Close, LetGo
  <2>3. InOnePlace'
    BY <1>3, <2>2 DEF Close, InOnePlace
  <2> QED
    BY <1>3, <2>1, <2>2, <2>3 DEF Close, InOnePlace
<1>4. CASE InvalidHeader(w) \/ CloseAgain(w)
  BY <1>4 DEF InvalidHeader, CloseAgain
<1>5. CASE WorkerPushBack(w)
  <2>1. held[w] \in Fds /\ content \in Seq(Fds)
    BY <1>5 DEF WorkerPushBack, HeldOK, Serving, Fds
  <2>2. /\ DOMAIN content' = 1..(Len(content) + 1)
        /\ \A i \in 1..Len(content) : content'[i + 1] = content[i]
        /\ content'[1] = held[w]
    BY <1>5, <2>1, PushBackSeq, LenProperties DEF WorkerPushBack, PushBack
  <2>3. \A i \in DOMAIN content' :
          \/ i - 1 \in DOMAIN content /\ content'[i] = content[i - 1]
          \/ i = 1 /\ content'[i] = held[w]
    <3>1. ASSUME NEW i \in DOMAIN content', i # 1
          PROVE  i - 1 \in 1..Len(content) /\ (i - 1) + 1 = i
      BY <2>2, <3>1, <1>a
    <3> QED
      BY <2>2, <3>1, <1>a
  <2>4. \A t \in Threads : held'[t] = IF t = w THEN Nothing ELSE held[t]
    BY <1>5 DEF WorkerPushBack, LetGo
  <2>5. ASSUME NEW i \in DOMAIN content', NEW k \in DOMAIN content',
               content'[i] \in Jobs, content'[i] = content'[k]
        PROVE  i = k
    <3>1. i \in Int /\ k \in Int
      BY <2>2, <1>a
    <3> QED
      BY <2>3, <2>5, <3>1 DEF InOnePlace
  <2>6. InOnePlace'
    BY <2>3, <2>4, <2>5 DEF InOnePlace
  <2> QED
    BY <1>5, <2>3, <2>4, <2>6 DEF WorkerPushBack
<1> QED
  BY <1>1, <1>2, <1>3, <1>4, <1>5 DEF WorkerStep

\* What is out of order stays so.
LEMMA OrderlyBefore ==
  ASSUME orderly \in BOOLEAN, [Next]_vars, orderly'
  PROVE  orderly
BY DEF Next, MainStep, WorkerStep, Listen, CheckShutdown, AcceptFails, Accept, MainPush,
       MainRetriesPush, Finish, Join, WorkerPop, WorkerRetriesPop, RecvFails, Requeue, Close,
       InvalidHeader, CloseAgain, ReadFinished, WorkerPushBack, SignalArrives, SpuriousWake,
       Terminated, vars

\* Until a peek finds bytes that are no header, a descriptor is in one place, and it
\* is open there.
THEOREM PoolOwnInv == Spec => [](orderly => OwnInv)
<1>1. Init => OwnInv
  BY ThreadsAssumption, JobsAssumption DEF Init, StackInit, OwnInv, InOnePlace, Threads
<1>2. TypeInv /\ (orderly => OwnInv) /\ [Next]_vars => (orderly' => OwnInv')
  <2> SUFFICES ASSUME TypeInv, orderly => OwnInv, [Next]_vars, orderly' PROVE OwnInv'
    OBVIOUS
  <2>0. orderly /\ OwnInv
    BY OrderlyBefore DEF TypeInv, TypeOK
  <2>1. CASE MainStep
    BY <2>0, <2>1, OwnMain
  <2>2. ASSUME NEW w \in Workers, WorkerStep(w) PROVE OwnInv'
    BY <2>0, <2>2, OwnWorker
  <2>3. CASE SignalArrives \/ SpuriousWake \/ UNCHANGED vars
    BY <2>0, <2>3 DEF SignalArrives, SpuriousWake, SpuriousWakeUp, vars, stackVars, OwnInv, InOnePlace
  <2> QED
    BY <2>1, <2>2, <2>3 DEF Next, Terminated
<1>3. (orderly => OwnInv)' <=> (orderly' => OwnInv')
  OBVIOUS
<1> QED
  BY <1>1, <1>2, <1>3, PoolTypeInv, PTL DEF Spec

\* Until a peek finds bytes that are no header, no descriptor is ever in two
\* places, so no two workers serve one connection.
THEOREM PoolSingleOwner == Spec => []SingleOwner
<1>1. (orderly => OwnInv) => SingleOwner
  BY DEF OwnInv, SingleOwner
<1> QED
  BY <1>1, PoolOwnInv, PTL

-----------------------------------------------------------------------------
(* The pool implements OneOwner: every step hands one descriptor on, along *)
(* the path accept - stack - worker - stack ... - closed, or none          *)

OnStack(j) == \E i \in DOMAIN content : content[i] = j

\* Who owns a descriptor, where it is in one place only.
LEMMA OwnerIs ==
  ASSUME OwnInv, NEW j \in Jobs
  PROVE  /\ \A t \in Threads : held[t] = j => OwnerOf(j) = t
         /\ OnStack(j) => OwnerOf(j) = "stacked" /\ \A t \in Threads : held[t] # j
         /\ (\A t \in Threads : held[t] # j) /\ ~OnStack(j)
              => OwnerOf(j) = IF j \in open THEN "lost" ELSE "outside"
BY DEF OwnInv, InOnePlace, OwnerOf, OnStack

\* The same after a step.
LEMMA OwnerBecomes ==
  ASSUME OwnInv', NEW j \in Jobs
  PROVE  /\ \A t \in Threads : held'[t] = j => OwnerOf(j)' = t
         /\ OnStack(j)' => OwnerOf(j)' = "stacked" /\ \A t \in Threads : held'[t] # j
         /\ (\A t \in Threads : held'[t] # j) /\ ~OnStack(j)'
              => OwnerOf(j)' = IF j \in open' THEN "lost" ELSE "outside"
BY DEF OwnInv, InOnePlace, OwnerOf, OnStack

\* A descriptor that stays where it is keeps its owner.
LEMMA OwnerStays ==
  ASSUME OwnInv, OwnInv', NEW j \in Jobs,
         \A t \in Threads : held'[t] = j <=> held[t] = j,
         OnStack(j)' <=> OnStack(j),
         j \in open' <=> j \in open
  PROVE  OwnerOf(j)' = OwnerOf(j)
<1>1. CASE \E t \in Threads : held[t] = j
  BY <1>1, OwnerIs, OwnerBecomes
<1>2. CASE OnStack(j)
  BY <1>2, OwnerIs, OwnerBecomes
<1>3. CASE (\A t \in Threads : held[t] # j) /\ ~OnStack(j)
  BY <1>3, OwnerIs, OwnerBecomes
<1> QED
  BY <1>1, <1>2, <1>3

\* An owner that has no descriptor in its hands owns none.
LEMMA EmptyHands ==
  ASSUME OwnInv, NEW t \in Threads, held[t] \notin Jobs
  PROVE  Ownership!OwnsNothing(t)
<1> SUFFICES ASSUME NEW j \in Jobs PROVE OwnerOf(j) # t
  BY DEF Ownership!OwnsNothing
<1>1. CASE \E u \in Threads : held[u] = j
  BY <1>1, OwnerIs
<1>2. CASE \A u \in Threads : held[u] # j
  BY <1>2, OwnersAssumption DEF OwnerOf
<1> QED
  BY <1>1, <1>2

\* One descriptor changes hands while the others stay where they are.
LEMMA HandsOn ==
  ASSUME OwnInv, OwnInv', NEW j \in Jobs,
         \A k \in Jobs \ {j} : /\ \A t \in Threads : held'[t] = k <=> held[t] = k
                               /\ OnStack(k)' <=> OnStack(k)
                               /\ k \in open' <=> k \in open
  PROVE  Ownership!Move(j, OwnerOf(j), OwnerOf(j)')
<1>1. \A k \in Jobs \ {j} : OwnerOf(k)' = OwnerOf(k)
  BY OwnerStays
<1>2. [k \in Jobs |-> OwnerOf(k)]' = [[k \in Jobs |-> OwnerOf(k)] EXCEPT ![j] = OwnerOf(j)']
  BY <1>1
<1> QED
  BY <1>2 DEF Ownership!Move

\* Nothing changes hands.
LEMMA NothingMoves ==
  ASSUME OwnInv, OwnInv',
         \A k \in Jobs : /\ \A t \in Threads : held'[t] = k <=> held[t] = k
                         /\ OnStack(k)' <=> OnStack(k)
                         /\ k \in open' <=> k \in open
  PROVE  UNCHANGED [j \in Jobs |-> OwnerOf(j)]
BY OwnerStays

\* Where the stack, the hands and the open descriptors stay, nothing changes hands.
LEMMA SamePlaces ==
  ASSUME UNCHANGED <<content, held, open>>
  PROVE  UNCHANGED [j \in Jobs |-> OwnerOf(j)]
BY DEF OwnerOf

\* What main does to a descriptor: Accept, Submit, or nothing.
LEMMA MainHandsOn ==
  ASSUME TypeInv, ControlInv, OwnInv, OwnInv', MainStep
  PROVE  [Ownership!Next]_[j \in Jobs |-> OwnerOf(j)]
<1> USE ThreadsAssumption, JobsAssumption
    DEF TypeInv, TypeOK, Threads, stackVars, Goto
<1>1. CASE Listen \/ CheckShutdown \/ MainRetriesPush \/ Finish \/ Join
  <2>1. UNCHANGED <<content, held, open>>
    BY <1>1 DEF Listen, CheckShutdown, MainRetriesPush, WakeUp, Finish, SignalFinish, Join
  <2> QED
    BY <2>1, SamePlaces
<1>2. CASE AcceptFails
  <2>1. held[Main] = Nothing /\ \A t \in Threads : held'[t] = IF t = Main THEN BadFd ELSE held[t]
    BY <1>2 DEF AcceptFails, Grab, HeldOK
  <2>2. \A k \in Jobs : \A t \in Threads : held'[t] = k <=> held[t] = k
    BY <2>1
  <2>3. UNCHANGED <<content, open>>
    BY <1>2 DEF AcceptFails
  <2> QED
    BY <2>2, <2>3, NothingMoves DEF OnStack
<1>3. ASSUME NEW job \in Jobs, Accept(job) PROVE Ownership!Next
  <2>1. held[Main] = Nothing /\ \A t \in Threads : held'[t] = IF t = Main THEN job ELSE held[t]
    BY <1>3 DEF Accept, Grab, HeldOK
  <2>2. UNCHANGED content /\ open' = open \cup {job} /\ job \notin open
    BY <1>3 DEF Accept
  <2>3. OwnerOf(job) = "outside"
    BY <2>2, OwnerIs DEF OwnInv, OnStack
  <2>4. OwnerOf(job)' = Main
    BY <2>1, OwnerBecomes
  <2>5. Ownership!Move(job, OwnerOf(job), OwnerOf(job)')
    BY <2>1, <2>2, HandsOn DEF OnStack
  <2>6. Ownership!OwnsNothing(Main)
    BY <2>1, EmptyHands
  <2> QED
    BY <2>3, <2>4, <2>5, <2>6 DEF Ownership!Next, Ownership!Accept
<1>4. CASE MainPush
  <2>1. pc[Main] = "push" /\ ~finished
    BY <1>4 DEF MainPush, ControlInv, BeforeFinish
  <2>2. CASE UNCHANGED <<content, held, open>>
    BY <2>2, SamePlaces
  <2>3. CASE Push(held[Main]) /\ LetGo(Main) /\ UNCHANGED open
    <3>1. PICK job \in Fds : job = held[Main]
      BY <2>1 DEF HeldOK, Fds
    <3>2. content \in Seq(Fds) /\ DOMAIN content = 1..Len(content) /\ Len(content) \in Nat
      BY LenProperties DEF Fds
    <3>3. /\ DOMAIN content' = 1..(Len(content) + 1)
          /\ \A i \in 1..Len(content) : content'[i] = content[i]
          /\ content'[Len(content) + 1] = job
      BY <2>3, <3>1, <3>2, PushSeq, LenProperties DEF Push
    <3>4. \A k \in Jobs : OnStack(k)' <=> OnStack(k) \/ k = job
      <4>1. \A i \in DOMAIN content : i \in DOMAIN content' /\ content'[i] = content[i]
        BY <3>2, <3>3
      <4>2. \A i \in DOMAIN content' : i \in DOMAIN content \/ i = Len(content) + 1
        BY <3>2, <3>3
      <4>3. Len(content) + 1 \in DOMAIN content'
        BY <3>2, <3>3
      <4> QED
        BY <3>3, <4>1, <4>2, <4>3 DEF OnStack
    <3>5. \A t \in Threads : held'[t] = IF t = Main THEN Nothing ELSE held[t]
      BY <2>3 DEF LetGo
    <3>6. CASE job \in Jobs
      <4>1. OwnerOf(job) = Main /\ OwnerOf(job)' = "stacked"
        BY <3>1, <3>4, <3>6, OwnerIs, OwnerBecomes
      <4>2. Ownership!Move(job, OwnerOf(job), OwnerOf(job)')
        BY <2>3, <3>1, <3>4, <3>5, <3>6, HandsOn
      <4> QED
        BY <3>6, <4>1, <4>2 DEF Ownership!Next, Ownership!Submit
    <3>7. CASE job \notin Jobs
      BY <2>3, <3>1, <3>4, <3>5, <3>7, NothingMoves
    <3> QED
      BY <3>6, <3>7
  <2> QED
    BY <1>4, <2>1, <2>2, <2>3 DEF MainPush, PushParks
<1> QED
  BY <1>1, <1>2, <1>3, <1>4 DEF MainStep

\* What a worker does to a descriptor: Claim, Return, Close, Lose, or nothing.
LEMMA WorkerHandsOn ==
  ASSUME orderly, orderly', TypeInv, OwnInv, OwnInv', NEW w \in Workers, WorkerStep(w)
  PROVE  [Ownership!Next]_[j \in Jobs |-> OwnerOf(j)]
<1> USE ThreadsAssumption, JobsAssumption
    DEF TypeInv, TypeOK, Threads, stackVars, Goto
<1>1. CASE UNCHANGED <<content, held, open>>
  BY <1>1, SamePlaces
<1>2. ASSUME NEW job \in Fds, pc[w] = "pop", Pop(job), Grab(w, job), UNCHANGED open
      PROVE  [Ownership!Next]_[j \in Jobs |-> OwnerOf(j)]
  <2>1. DOMAIN content = 1..Len(content) /\ Len(content) \in Nat
    BY LenProperties
  <2>2. /\ DOMAIN content' = 1..(Len(content) - 1)
        /\ \A i \in 1..(Len(content) - 1) : content'[i] = content[i]
        /\ job = content[Len(content)] /\ Len(content) \in DOMAIN content
    BY <1>2, <2>1, PopSeq, LenProperties DEF Pop, Fds
  <2>3. /\ \A i \in DOMAIN content' : i \in DOMAIN content /\ content'[i] = content[i]
        /\ \A i \in DOMAIN content : i \in DOMAIN content' \/ content[i] = job
    BY <2>1, <2>2
  <2>4. \A k \in Jobs \ {job} : OnStack(k)' <=> OnStack(k)
    BY <2>3 DEF OnStack
  <2>5. held[w] = Nothing /\ \A t \in Threads : held'[t] = IF t = w THEN job ELSE held[t]
    BY <1>2 DEF Grab, HeldOK, Serving
  <2>6. CASE job \in Jobs
    <3>1. OwnerOf(job) = "stacked" /\ OwnerOf(job)' = w
      BY <2>2, <2>5, <2>6, OwnerIs, OwnerBecomes DEF OnStack
    <3>2. Ownership!Move(job, OwnerOf(job), OwnerOf(job)')
      BY <1>2, <2>4, <2>5, <2>6, HandsOn
    <3>3. Ownership!OwnsNothing(w)
      BY <2>5, EmptyHands
    <3> QED
      BY <2>6, <3>1, <3>2, <3>3 DEF Ownership!Next, Ownership!Claim
  <2>7. CASE job \notin Jobs
    BY <1>2, <2>4, <2>5, <2>7, NothingMoves
  <2> QED
    BY <2>6, <2>7
<1>3. CASE LetGo(w) /\ UNCHANGED <<content, open>>
  <2>1. \A t \in Threads : held'[t] = IF t = w THEN Nothing ELSE held[t]
    BY <1>3 DEF LetGo
  <2>2. ASSUME NEW job \in Jobs, job = held[w]
        PROVE  [Ownership!Next]_[j \in Jobs |-> OwnerOf(j)]
    <3>1. OwnerOf(job) = w /\ job \in open /\ ~OnStack(job)
      BY <2>2, OwnerIs DEF OwnInv, InOnePlace, OnStack
    <3>2. \A t \in Threads : held'[t] # job
      BY <2>1, <2>2 DEF OwnInv, InOnePlace
    <3>3. OwnerOf(job)' = "lost"
      BY <1>3, <2>2, <3>1, <3>2, OwnerBecomes DEF OnStack
    <3>4. Ownership!Move(job, OwnerOf(job), OwnerOf(job)')
      BY <1>3, <2>1, <2>2, HandsOn DEF OnStack
    <3> QED
      BY <2>2, <3>1, <3>3, <3>4 DEF Ownership!Next, Ownership!Lose
  <2>3. CASE held[w] \notin Jobs
    BY <1>3, <2>1, <2>3, NothingMoves DEF OnStack
  <2> QED
    BY <2>2, <2>3
<1>4. CASE Close(w)
  <2>1. \A t \in Threads : held'[t] = IF t = w THEN Nothing ELSE held[t]
    BY <1>4 DEF Close, LetGo
  <2>2. PICK job \in Jobs : job = held[w] /\ open' = open \ {job} /\ UNCHANGED content
    BY <1>4 DEF Close
  <2>3. OwnerOf(job) = w /\ ~OnStack(job)
    BY <2>2, OwnerIs DEF OwnInv, InOnePlace, OnStack
  <2>4. \A t \in Threads : held'[t] # job
    BY <2>1, <2>2 DEF OwnInv, InOnePlace
  <2>5. OwnerOf(job)' = "outside"
    BY <2>2, <2>3, <2>4, OwnerBecomes DEF OnStack
  <2>6. Ownership!Move(job, OwnerOf(job), OwnerOf(job)')
    BY <2>1, <2>2, HandsOn DEF OnStack
  <2> QED
    BY <2>2, <2>3, <2>5, <2>6 DEF Ownership!Next, Ownership!Close
<1>5. CASE WorkerPushBack(w)
  <2>1. PICK job \in Fds : job = held[w]
    BY <1>5 DEF WorkerPushBack, HeldOK, Serving, Fds
  <2>a. content \in Seq(Fds)
    BY DEF Fds
  <2>2. /\ DOMAIN content' = 1..(Len(content) + 1)
        /\ \A i \in 1..Len(content) : content'[i + 1] = content[i]
        /\ content'[1] = job
        /\ DOMAIN content = 1..Len(content) /\ Len(content) \in Nat
    BY <1>5, <2>1, <2>a, PushBackSeq, LenProperties DEF WorkerPushBack, PushBack
  <2>3. /\ \A i \in DOMAIN content : i + 1 \in DOMAIN content' /\ content'[i + 1] = content[i]
        /\ \A i \in DOMAIN content' :
             i # 1 => i - 1 \in DOMAIN content /\ content'[i] = content[i - 1]
        /\ 1 \in DOMAIN content'
    <3>1. ASSUME NEW i \in DOMAIN content', i # 1
          PROVE  i - 1 \in DOMAIN content /\ (i - 1) + 1 = i
      BY <2>2, <3>1
    <3>2. ASSUME NEW i \in DOMAIN content', i # 1
          PROVE  content'[i] = content[i - 1]
      BY <2>2, <3>1, <3>2
    <3>3. ASSUME NEW i \in DOMAIN content
          PROVE  i + 1 \in DOMAIN content' /\ content'[i + 1] = content[i]
      BY <2>2
    <3>4. 1 \in DOMAIN content'
      BY <2>2
    <3> QED
      BY <3>1, <3>2, <3>3, <3>4
  <2>4. \A k \in Jobs : OnStack(k)' <=> OnStack(k) \/ k = job
    <3>1. ASSUME NEW k \in Jobs, OnStack(k) \/ k = job PROVE OnStack(k)'
      BY <2>2, <2>3, <3>1 DEF OnStack
    <3>2. ASSUME NEW k \in Jobs, NEW i \in DOMAIN content', content'[i] = k
          PROVE  OnStack(k) \/ k = job
      <4>1. CASE i = 1
        BY <2>2, <3>2, <4>1
      <4>2. CASE i # 1
        BY <2>3, <3>2, <4>2 DEF OnStack
      <4> QED
        BY <4>1, <4>2
    <3> QED
      BY <3>1, <3>2 DEF OnStack
  <2>5. /\ \A t \in Threads : held'[t] = IF t = w THEN Nothing ELSE held[t]
        /\ UNCHANGED open
    BY <1>5 DEF WorkerPushBack, LetGo
  <2>6. CASE job \in Jobs
    <3>1. OwnerOf(job) = w /\ OwnerOf(job)' = "stacked"
      BY <2>1, <2>4, <2>6, OwnerIs, OwnerBecomes
    <3>2. Ownership!Move(job, OwnerOf(job), OwnerOf(job)')
      BY <2>1, <2>4, <2>5, <2>6, HandsOn
    <3> QED
      BY <2>6, <3>1, <3>2 DEF Ownership!Next, Ownership!Return
  <2>7. CASE job \notin Jobs
    BY <2>1, <2>4, <2>5, <2>7, NothingMoves
  <2> QED
    BY <2>6, <2>7
<1>6. ~InvalidHeader(w) /\ ~CloseAgain(w)
  BY DEF InvalidHeader, CloseAgain, OwnInv
<1> QED
  BY <1>1, <1>2, <1>3, <1>4, <1>5, <1>6
  DEF WorkerStep, WorkerPop, PopParks, PopFinished, WorkerRetriesPop, WakeUp, RecvFails,
      Requeue, ReadFinished, Fds

\* Until a peek finds bytes that are no header, the pool implements OneOwner: a
\* descriptor goes from accept to the stack, to one worker, back to the stack or out.
THEOREM PoolImplementsOneOwner == Spec => OneOwnerAtATime
<1>1. Init => Ownership!Init
  BY JobsAssumption DEF Init, StackInit, Ownership!Init, OwnerOf, Threads
<1>2. TypeInv /\ ControlInv /\ (orderly => OwnInv) /\ (orderly => OwnInv)' /\ [Next]_vars
        => [orderly' => Ownership!Next]_[j \in Jobs |-> OwnerOf(j)]
  <2> SUFFICES ASSUME TypeInv, ControlInv, orderly => OwnInv, orderly' => OwnInv',
                      [Next]_vars, orderly'
               PROVE  [Ownership!Next]_[j \in Jobs |-> OwnerOf(j)]
    OBVIOUS
  <2>0. orderly /\ OwnInv /\ OwnInv'
    BY OrderlyBefore DEF TypeInv, TypeOK
  <2>1. CASE MainStep
    BY <2>0, <2>1, MainHandsOn
  <2>2. ASSUME NEW w \in Workers, WorkerStep(w)
        PROVE  [Ownership!Next]_[j \in Jobs |-> OwnerOf(j)]
    BY <2>0, <2>2, WorkerHandsOn
  <2>3. CASE SignalArrives \/ SpuriousWake \/ UNCHANGED vars
    <3>1. UNCHANGED <<content, held, open>>
      BY <2>3 DEF SignalArrives, SpuriousWake, SpuriousWakeUp, vars, stackVars
    <3> QED
      BY <3>1, SamePlaces
  <2> QED
    BY <2>1, <2>2, <2>3 DEF Next, Terminated
<1> QED
  BY <1>1, <1>2, PoolTypeInv, PoolControlInv, PoolOwnInv, PTL
  DEF Spec, OneOwnerAtATime

-----------------------------------------------------------------------------
(* The end: how many steps it takes the workers to drain the stack         *)

\* How many workers are at one of the places S, and whether a place is one.
At(S) == {w \in Workers : pc[w] \in S}
CountAt(S) == Cardinality(At(S))
One(place, S) == IF place \in S THEN 1 ELSE 0

\* A job on the stack costs four steps: it is popped, served, brought back in vain, and
\* its worker pops again.  A worker that is about to push it back, because it has
\* tested `finished` before it was set, has all of these still to do.
Cost(place) ==
  IF place = "exited" THEN 0
  ELSE IF place = "pop" THEN 1
  ELSE IF place \in {"pop_wait", "closed", "push_back"} THEN 2
  ELSE IF place = "serve" THEN 3 ELSE 6

\* The workers' costs, added up level by level, and four for each job.
NotExited == WorkerPC \ {"exited"}
Busy == WorkerPC \ {"exited", "pop"}
WithJob == {"serve", "push_back_lock"}
Returning == {"push_back_lock"}
DrainLeft ==
  4 * Len(content) + (CountAt(NotExited) + CountAt(Busy))
    + (CountAt(WithJob) + 3 * CountAt(Returning))

\* The workers at some places can be counted.
LEMMA AtFinite ==
  ASSUME NEW S
  PROVE  IsFiniteSet(At(S)) /\ CountAt(S) \in 0..Cardinality(Workers)
<1>1. At(S) \subseteq Workers
  BY DEF At
<1> QED  BY <1>1, FS_Subset, FS_CardinalityType, ThreadsAssumption DEF CountAt

\* One worker's move changes the count of a set of places by one at most.
LEMMA OneMoves ==
  ASSUME TypeInv, NEW w \in Workers, NEW x, NEW y, Goto(w, x, y), NEW S
  PROVE  /\ CountAt(S) \in Nat /\ One(x, S) \in Int /\ One(y, S) \in Int
         /\ CountAt(S)' = CountAt(S) - One(x, S) + One(y, S)
<1>1. IsFiniteSet(At(S)) /\ Cardinality(At(S)) \in Nat
  BY AtFinite, HoldingFinite DEF CountAt
<1>2. pc[w] = x /\ pc'[w] = y /\ \A v \in Workers : v # w => pc'[v] = pc[v]
  BY DEF Goto, TypeInv, TypeOK, Threads
<1>3. CASE x \in S /\ y \notin S
  <2>1. w \in At(S) /\ At(S)' = At(S) \ {w}
    BY <1>2, <1>3 DEF At
  <2>2. Cardinality(At(S) \ {w}) = Cardinality(At(S)) - 1
    BY <1>1, <2>1, FS_RemoveElement
  <2> QED  BY <1>1, <1>3, <2>1, <2>2 DEF One, CountAt
<1>4. CASE x \notin S /\ y \in S
  <2>1. w \notin At(S) /\ At(S)' = At(S) \cup {w}
    BY <1>2, <1>4 DEF At
  <2>2. Cardinality(At(S) \cup {w}) = Cardinality(At(S)) + 1
    BY <1>1, <2>1, FS_AddElement
  <2> QED  BY <1>1, <1>4, <2>1, <2>2 DEF One, CountAt
<1>5. CASE x \in S <=> y \in S
  <2>1. At(S)' = At(S)
    BY <1>2, <1>5 DEF At
  <2> QED  BY <1>1, <1>5, <2>1 DEF One, CountAt
<1> QED  BY <1>3, <1>4, <1>5

\* What a worker's move, and the jobs it takes or brings, do to the total.
LEMMA DrainMoves ==
  ASSUME TypeInv, NEW w \in Workers, NEW x \in WorkerPC, NEW y \in WorkerPC, Goto(w, x, y),
         NEW d \in Int, Len(content') = Len(content) + d
  PROVE  /\ DrainLeft \in Nat
         /\ DrainLeft' = DrainLeft + 4 * d + Cost(y) - Cost(x)
<1>1. Len(content) \in Nat
  BY DEF TypeInv, TypeOK
<1>2. \A z \in WorkerPC : Cost(z) = (One(z, NotExited) + One(z, Busy))
                                      + (One(z, WithJob) + 3 * One(z, Returning))
  BY DEF Cost, WorkerPC, One, NotExited, Busy, WithJob, Returning
<1>3. /\ CountAt(NotExited) \in Nat /\ One(x, NotExited) \in Int /\ One(y, NotExited) \in Int
      /\ CountAt(NotExited)' = CountAt(NotExited) - One(x, NotExited) + One(y, NotExited)
  BY OneMoves DEF NotExited
<1>4. /\ CountAt(Busy) \in Nat /\ One(x, Busy) \in Int /\ One(y, Busy) \in Int
      /\ CountAt(Busy)' = CountAt(Busy) - One(x, Busy) + One(y, Busy)
  BY OneMoves DEF Busy
<1>5. /\ CountAt(WithJob) \in Nat /\ One(x, WithJob) \in Int /\ One(y, WithJob) \in Int
      /\ CountAt(WithJob)' = CountAt(WithJob) - One(x, WithJob) + One(y, WithJob)
  BY OneMoves DEF WithJob
<1>6. /\ CountAt(Returning) \in Nat /\ One(x, Returning) \in Int /\ One(y, Returning) \in Int
      /\ CountAt(Returning)' = CountAt(Returning) - One(x, Returning) + One(y, Returning)
  BY OneMoves DEF Returning
<1>7. DrainLeft \in Nat
  <2>1. \A S : CountAt(S) \in Nat
    BY AtFinite, HoldingFinite
  <2> QED  BY <1>1, <2>1 DEF DrainLeft
<1>8. DrainLeft' = 4 * (Len(content) + d) + (CountAt(NotExited)' + CountAt(Busy)')
                     + (CountAt(WithJob)' + 3 * CountAt(Returning)')
  BY DEF DrainLeft, NotExited, Busy, WithJob, Returning, WorkerPC
<1>9. /\ Cost(x) = (One(x, NotExited) + One(x, Busy)) + (One(x, WithJob) + 3 * One(x, Returning))
      /\ Cost(y) = (One(y, NotExited) + One(y, Busy)) + (One(y, WithJob) + 3 * One(y, Returning))
  BY <1>2
<1>10. DrainLeft' = DrainLeft + 4 * d + Cost(y) - Cost(x)
  <2>1. 4 * (Len(content) + d) = 4 * Len(content) + 4 * d
        /\ 4 * Len(content) \in Int /\ 4 * d \in Int
    BY <1>1
  <2>2. /\ 3 * CountAt(Returning)'
             = 3 * CountAt(Returning) - 3 * One(x, Returning) + 3 * One(y, Returning)
        /\ 3 * CountAt(Returning) \in Int
        /\ 3 * One(x, Returning) \in Int /\ 3 * One(y, Returning) \in Int
    BY <1>6
  <2>3. CountAt(NotExited)' + CountAt(Busy)'
          = (CountAt(NotExited) + CountAt(Busy))
            + (One(y, NotExited) + One(y, Busy)) - (One(x, NotExited) + One(x, Busy))
    BY <1>3, <1>4
  <2>4. CountAt(WithJob)' + 3 * CountAt(Returning)'
          = (CountAt(WithJob) + 3 * CountAt(Returning))
            + (One(y, WithJob) + 3 * One(y, Returning)) - (One(x, WithJob) + 3 * One(x, Returning))
    BY <1>5, <2>2
  <2> DEFINE a == CountAt(NotExited) + CountAt(Busy)
             b == CountAt(WithJob) + 3 * CountAt(Returning)
             xa == One(x, NotExited) + One(x, Busy)
             xb == One(x, WithJob) + 3 * One(x, Returning)
             ya == One(y, NotExited) + One(y, Busy)
             yb == One(y, WithJob) + 3 * One(y, Returning)
             l == 4 * Len(content)
  <2>5. /\ a \in Int /\ b \in Int /\ xa \in Int /\ xb \in Int /\ ya \in Int /\ yb \in Int /\ l \in Int
    <3>1. a \in Int /\ xa \in Int /\ ya \in Int
      BY <1>3, <1>4
    <3>2. b \in Int /\ xb \in Int /\ yb \in Int
      BY <1>5, <2>2
    <3> QED  BY <2>1, <3>1, <3>2
  <2>6. DrainLeft = l + a + b /\ Cost(x) = xa + xb /\ Cost(y) = ya + yb
    BY <1>9 DEF DrainLeft
  <2>7. DrainLeft' = (l + 4 * d) + (a + ya - xa) + (b + yb - xb)
    BY <1>8, <2>1, <2>3, <2>4
  <2> HIDE DEF a, b, xa, xb, ya, yb, l
  <2> QED  BY <2>1, <2>5, <2>6, <2>7
<1> QED  BY <1>7, <1>10

\* After the end was signalled every step of a worker leaves less to do.
LEMMA DrainNearer ==
  ASSUME TypeInv, finished, NEW w \in Workers, WorkerStep(w)
  PROVE  DrainLeft' < DrainLeft
<1>1. Len(content) \in Nat
  BY DEF TypeInv, TypeOK
<1>2. ASSUME NEW x \in WorkerPC, NEW y \in WorkerPC, Goto(w, x, y), content' = content,
             Cost(y) < Cost(x), Cost(x) \in Nat, Cost(y) \in Nat
      PROVE  DrainLeft' < DrainLeft
  <2>1. Len(content') = Len(content) + 0 /\ 0 \in Int
    BY <1>1, <1>2
  <2>2. DrainLeft \in Nat /\ DrainLeft' = DrainLeft + 4 * 0 + Cost(y) - Cost(x)
    BY <1>2, <2>1, DrainMoves
  <2> QED  BY <1>2, <2>2
<1>3. CASE WorkerPop(w)
  <2>1. ASSUME NEW job \in Fds, Goto(w, "pop", "serve"), Pop(job)
        PROVE  DrainLeft' < DrainLeft
    <3>1. Len(content') = Len(content) + (-1)
      BY <1>1, <2>1, PopSeq DEF Pop, TypeInv, TypeOK, Fds
    <3>2. DrainLeft \in Nat /\ DrainLeft' = DrainLeft + 4 * (-1) + Cost("serve") - Cost("pop")
      BY <2>1, <3>1, DrainMoves DEF WorkerPC
    <3> QED  BY <3>2 DEF Cost
  <2>2. CASE Goto(w, "pop", "exited") /\ PopFinished
    BY <1>2, <2>2 DEF Cost, WorkerPC, PopFinished, stackVars
  <2> QED  BY <1>3, <2>1, <2>2 DEF WorkerPop, PopParks, Fds
<1>4. CASE WorkerRetriesPop(w)
  BY <1>2, <1>4 DEF WorkerRetriesPop, WakeUp, stackVars, Cost, WorkerPC
<1>5. CASE RecvFails(w) \/ Requeue(w) \/ Close(w)
  <2>1. UNCHANGED content /\ \E y \in {"pop", "push_back"} : Goto(w, "serve", y)
    BY <1>5 DEF RecvFails, Requeue, Close, stackVars
  <2> QED  BY <1>2, <2>1 DEF Cost, WorkerPC
<1>6. CASE InvalidHeader(w) \/ CloseAgain(w)
  <2>1. /\ UNCHANGED content
        /\ \/ \E y \in {"push_back", "closed"} : Goto(w, "serve", y)
           \/ Goto(w, "closed", "pop")
    BY <1>6 DEF InvalidHeader, CloseAgain, stackVars
  <2> QED  BY <1>2, <2>1 DEF Cost, WorkerPC
<1>7. CASE ReadFinished(w)
  BY <1>2, <1>7 DEF ReadFinished, stackVars, Cost, WorkerPC
<1>8. CASE WorkerPushBack(w)
  <2>1. Goto(w, "push_back_lock", "pop") /\ PushBack(held[w])
    BY <1>8 DEF WorkerPushBack
  <2>2. pc[w] \in Serving
    BY <2>1 DEF Goto, Serving
  <2>3. Len(content') = Len(content) + 1
    BY <2>1, <2>2, ServedFd, PushBackSeq DEF PushBack
  <2>4. DrainLeft \in Nat /\ DrainLeft' = DrainLeft + 4 * 1 + Cost("pop") - Cost("push_back_lock")
    BY <2>1, <2>3, DrainMoves DEF WorkerPC
  <2> QED  BY <2>4 DEF Cost
<1> QED  BY <1>3, <1>4, <1>5, <1>6, <1>7, <1>8 DEF WorkerStep

\* Nobody else adds to it: main has left its loop.
LEMMA DrainStays ==
  ASSUME TypeInv, ControlInv, finished, [Next]_vars, \A w \in Workers : ~WorkerStep(w)
  PROVE  DrainLeft' = DrainLeft
<1>1. pc[Main] \notin BeforeFinish
  BY DEF ControlInv
<1>2. UNCHANGED content /\ \A w \in Workers : pc'[w] = pc[w]
  <2>1. CASE MainStep
    <3>1. Join
      BY <1>1, <2>1 DEF MainStep, BeforeFinish, Goto, Listen, CheckShutdown, AcceptFails, Accept,
                        MainPush, MainRetriesPush, Finish
    <3> QED  BY <3>1, ThreadsAssumption DEF Join, Goto, stackVars, TypeInv, TypeOK, Threads
  <2>2. CASE SignalArrives \/ SpuriousWake \/ UNCHANGED vars
    BY <2>2 DEF SignalArrives, SpuriousWake, SpuriousWakeUp, vars, stackVars
  <2> QED  BY <2>1, <2>2 DEF Next, Terminated
<1>3. \A S : At(S)' = At(S)
  BY <1>2 DEF At
<1> QED  BY <1>2, <1>3 DEF DrainLeft, CountAt

\* What is left when the end is signalled is bounded by the slots and the workers.
LEMMA DrainBound ==
  ASSUME TypeInv, CapacityOK
  PROVE  DrainLeft \in 0..(4 * Capacity + 6 * Cardinality(Workers))
<1>1. Len(content) \in Nat /\ Len(content) <= Capacity /\ Capacity \in Nat /\ Cardinality(Workers) \in Nat
  BY SizeAssumption, HoldingFinite DEF TypeInv, TypeOK, CapacityOK, Capacity
<1>2. \A S : CountAt(S) \in 0..Cardinality(Workers)
  BY AtFinite
<1> QED  BY <1>1, <1>2 DEF DrainLeft

\* After main has signalled the end, its workers take at most so many steps, four per
\* slot of the stack and six each, whatever clients send and however many jobs are
\* still pushed back: the drain cannot go round in circles.  That they take them, and
\* main then returns (ShutdownCompletes), is their fairness.
THEOREM PoolDrainRunsOut ==
  Spec => [][finished =>
               /\ DrainLeft \in 0..(4 * Capacity + 6 * Cardinality(Workers))
               /\ \A w \in Workers : WorkerStep(w) => DrainLeft' < DrainLeft
               /\ (\A w \in Workers : ~WorkerStep(w)) => DrainLeft' = DrainLeft]_vars
<1>1. TypeInv /\ ControlInv /\ CapacityOK /\ [Next]_vars =>
        [finished =>
           /\ DrainLeft \in 0..(4 * Capacity + 6 * Cardinality(Workers))
           /\ \A w \in Workers : WorkerStep(w) => DrainLeft' < DrainLeft
           /\ (\A w \in Workers : ~WorkerStep(w)) => DrainLeft' = DrainLeft]_vars
  BY DrainBound, DrainNearer, DrainStays
<1> QED  BY <1>1, PoolTypeInv, PoolControlInv, PoolCapacityOK, PTL DEF Spec

=============================================================================
