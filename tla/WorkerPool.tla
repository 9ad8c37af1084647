----------------------------- MODULE WorkerPool -----------------------------
(***************************************************************************)
(* The threads of one server (server.c): main accepts connections and      *)
(* pushes their descriptors on the job stack until a signal tells it to    *)
(* shut down; each worker pops a descriptor, serves one request of it and  *)
(* pushes it back, closes it, or loses it.                                 *)
(*                                                                         *)
(* What a request is and how it is served is left out here: a served       *)
(* descriptor takes any of the ways out of the loop body of worker_main.   *)
(* Descriptors are recycled: accept returns one that is not open.          *)
(***************************************************************************)
EXTENDS JobStack

CONSTANTS
  Jobs,       \* the socket descriptors accept can return
  BadFd,      \* -1, what accept returns when it fails
  Nothing,    \* no descriptor in a thread's hands
  MayDesync   \* whether a peek may find bytes that are not a message header

ASSUME JobsAssumption ==
  /\ BadFd \notin Jobs
  /\ Nothing \notin Jobs \cup {BadFd}
  /\ MayDesync \in BOOLEAN

VARIABLES
  pc,              \* where each thread is
  held,            \* the descriptor each thread has in its hands
  open,            \* the descriptors that are open in the process
  shouldShutdown,  \* SHOULD_SHUTDOWN, set by the signal handler
  orderly          \* history: no peek has found bytes that are not a header

vars == <<content, finished, mutex, notEmpty, notFull,
          pc, held, open, shouldShutdown, orderly>>

MainPC == {"listen", "check", "accept", "push", "push_wait",
           "finish", "join", "done"}
WorkerPC == {"pop", "pop_wait", "serve", "closed", "push_back",
             "push_back_lock", "exited"}

\* Where a worker has a descriptor in its hands.
Serving == {"serve", "closed", "push_back", "push_back_lock"}

Init ==
  /\ StackInit
  /\ pc = [t \in Threads |-> IF t = Main THEN "listen" ELSE "pop"]
  /\ held = [t \in Threads |-> Nothing]
  /\ open = {}
  /\ shouldShutdown = FALSE
  /\ orderly = TRUE

Goto(t, from, to) == pc[t] = from /\ pc' = [pc EXCEPT ![t] = to]
Grab(t, job) == held' = [held EXCEPT ![t] = job]
LetGo(t) == held' = [held EXCEPT ![t] = Nothing]

-----------------------------------------------------------------------------
(* The main thread                                                         *)

\* The handler is installed before anything else main does, so the flag may be
\* set at any moment, also before Listen clears it.
SignalArrives ==
  /\ shouldShutdown' = TRUE
  /\ UNCHANGED <<stackVars, pc, held, open, orderly>>

\* The flag is cleared; it is set again if listen fails.
Listen ==
  /\ Goto(Main, "listen", "check")
  /\ shouldShutdown' \in BOOLEAN
  /\ UNCHANGED <<stackVars, held, open, orderly>>

CheckShutdown ==
  /\ \/ shouldShutdown /\ Goto(Main, "check", "finish")
     \/ ~shouldShutdown /\ Goto(Main, "check", "accept")
  /\ UNCHANGED <<stackVars, held, open, shouldShutdown, orderly>>

Accept(job) ==
  /\ job \notin open
  /\ Goto(Main, "accept", "push")
  /\ Grab(Main, job)
  /\ open' = open \cup {job}
  /\ UNCHANGED <<stackVars, shouldShutdown, orderly>>

MutantAcceptFailsUnassigned ==
  /\ Goto(Main, "accept", "push")
  /\ UNCHANGED <<stackVars, held, open, shouldShutdown, orderly>>

\* Interrupted by a signal, or out of descriptors: -1 is pushed like any other.
AcceptFails ==
  /\ Goto(Main, "accept", "push")
  /\ Grab(Main, BadFd)
  /\ UNCHANGED <<stackVars, open, shouldShutdown, orderly>>

\* The early return of push on a finished stack comes first.  FINISHED is not
\* FAIL, so main would go on; it is never taken (MutexReleased).
MainPush ==
  IF finished
  THEN /\ Goto(Main, "push", "check")
       /\ PushFinished(Main)
       /\ LetGo(Main)
       /\ UNCHANGED <<open, shouldShutdown, orderly>>
  ELSE \/ /\ Goto(Main, "push", "check")
          /\ Push(held[Main])
          /\ LetGo(Main)
          /\ UNCHANGED <<open, shouldShutdown, orderly>>
       \/ /\ Goto(Main, "push", "push_wait")
          /\ PushParks(Main)
          /\ UNCHANGED <<held, open, shouldShutdown, orderly>>

\* push returned FAIL, so main calls it again with the same descriptor.
MainRetriesPush ==
  /\ Goto(Main, "push_wait", "push")
  /\ WakeUp(Main)
  /\ UNCHANGED <<held, open, shouldShutdown, orderly>>

MutantFinishGoesOn ==
  /\ Goto(Main, "finish", "accept")
  /\ SignalFinish
  /\ UNCHANGED <<held, open, shouldShutdown, orderly>>

\* The loop is left and the workers are told so.
Finish ==
  /\ Goto(Main, "finish", "join")
  /\ SignalFinish
  /\ UNCHANGED <<held, open, shouldShutdown, orderly>>

\* All workers joined: the stack is destructed and main returns.
Join ==
  /\ \A w \in Workers : pc[w] = "exited"
  /\ Goto(Main, "join", "done")
  /\ UNCHANGED <<stackVars, held, open, shouldShutdown, orderly>>

MainStep ==
  \/ Listen \/ CheckShutdown \/ AcceptFails \/ \E job \in Jobs : Accept(job)
  \/ MainPush \/ MainRetriesPush \/ Finish \/ Join

-----------------------------------------------------------------------------
(* A worker                                                                *)

WorkerPop(w) ==
  \/ /\ Goto(w, "pop", "serve")
     /\ \E job \in Jobs \cup {BadFd} : Pop(job) /\ Grab(w, job)
     /\ UNCHANGED <<open, shouldShutdown, orderly>>
  \/ /\ Goto(w, "pop", "pop_wait")
     /\ PopParks(w)
     /\ UNCHANGED <<held, open, shouldShutdown, orderly>>
  \/ /\ Goto(w, "pop", "exited")
     /\ PopFinished
     /\ UNCHANGED <<held, open, shouldShutdown, orderly>>

WorkerRetriesPop(w) ==
  /\ Goto(w, "pop_wait", "pop")
  /\ WakeUp(w)
  /\ UNCHANGED <<held, open, shouldShutdown, orderly>>

\* The peek fails (EBADF always, a reset or a signal on an open socket): the
\* worker goes on with the next job and the descriptor stays as it is.
RecvFails(w) ==
  /\ Goto(w, "serve", "pop")
  /\ LetGo(w)
  /\ UNCHANGED <<stackVars, open, shouldShutdown, orderly>>

\* Not enough bytes yet, end of file, or served with keep_alive set.  Once a socket
\* was closed for an invalid header, another worker may have closed this one too
\* since this worker's peek; it is pushed back all the same.
Requeue(w) ==
  /\ held[w] \in open \/ (~orderly /\ held[w] \in Jobs)
  /\ Goto(w, "serve", "push_back")
  /\ UNCHANGED <<stackVars, held, open, shouldShutdown, orderly>>

\* Served with keep_alive clear.
Close(w) ==
  /\ held[w] \in open
  /\ Goto(w, "serve", "pop")
  /\ open' = open \ {held[w]}
  /\ LetGo(w)
  /\ UNCHANGED <<stackVars, shouldShutdown, orderly>>

\* An invalid header: the socket is closed, and then the code after the switch
\* runs for it too, with whatever keep_alive the bytes hold.
InvalidHeader(w) ==
  /\ MayDesync
  /\ held[w] \in open
  /\ \E next \in {"push_back", "closed"} : Goto(w, "serve", next)
  /\ open' = open \ {held[w]}
  /\ orderly' = FALSE
  /\ UNCHANGED <<stackVars, held, shouldShutdown>>

CloseAgain(w) ==
  /\ Goto(w, "closed", "pop")
  /\ open' = open \ {held[w]}
  /\ LetGo(w)
  /\ UNCHANGED <<stackVars, shouldShutdown, orderly>>

\* push_back reads `finished` before it takes the lock.  When it is set the
\* call fails, its result is ignored and the descriptor is lost.
ReadFinished(w) ==
  /\ \/ finished /\ Goto(w, "push_back", "pop") /\ LetGo(w)
     \/ ~finished /\ Goto(w, "push_back", "push_back_lock") /\ UNCHANGED held
  /\ UNCHANGED <<stackVars, open, shouldShutdown, orderly>>

MutantWorkerPushBack(w) ==
  /\ Goto(w, "push_back_lock", "exited")
  /\ PushBack(held[w])
  /\ LetGo(w)
  /\ UNCHANGED <<open, shouldShutdown, orderly>>

MutantPushBackThenClose(w) ==
  /\ Goto(w, "push_back_lock", "pop")
  /\ PushBack(held[w])
  /\ open' = open \ {held[w]}
  /\ LetGo(w)
  /\ UNCHANGED <<shouldShutdown, orderly>>

WorkerPushBack(w) ==
  /\ Goto(w, "push_back_lock", "pop")
  /\ PushBack(held[w])
  /\ LetGo(w)
  /\ UNCHANGED <<open, shouldShutdown, orderly>>

WorkerStep(w) ==
  \/ WorkerPop(w) \/ WorkerRetriesPop(w)
  \/ RecvFails(w) \/ Requeue(w) \/ Close(w) \/ InvalidHeader(w) \/ CloseAgain(w)
  \/ ReadFinished(w) \/ WorkerPushBack(w)

SpuriousWake ==
  /\ \E t \in Threads : SpuriousWakeUp(t)
  /\ UNCHANGED <<pc, held, open, shouldShutdown, orderly>>

Terminated == pc[Main] = "done" /\ UNCHANGED vars

Next ==
  \/ MainStep
  \/ \E w \in Workers : WorkerStep(w)
  \/ SignalArrives \/ SpuriousWake \/ Terminated

Spec == Init /\ [][Next]_vars

(***************************************************************************)
(* Every worker thread is scheduled, and so is main.  Accepting is not     *)
(* fair: no client need ever connect.  That a worker in "serve" goes on is *)
(* a promise of the clients: its peek blocks until the client sends        *)
(* something or closes, and a dfc process does one or the other.           *)
(***************************************************************************)
Fairness ==
  /\ \A w \in Workers : WF_vars(WorkerStep(w))
  /\ WF_vars(MainPush \/ MainRetriesPush \/ Finish \/ Join)

FairSpec == Spec /\ Fairness

\* Main, besides, wins the race for a free slot if there is one time and again.
LuckyMainSpec == FairSpec /\ SF_vars(MainPush /\ pc'[Main] = "check")

-----------------------------------------------------------------------------
(* Properties                                                              *)

\* The state of the job stack and of its threads has the shape the code gives
\* it; only main pushes, only workers pop.
TypeOK ==
  /\ content \in Seq(Jobs \cup {BadFd})
  /\ finished \in BOOLEAN
  /\ mutex \in Threads \cup {Nobody}
  /\ notEmpty \subseteq Workers
  /\ notFull \subseteq {Main}
  /\ pc \in [Threads -> MainPC \cup WorkerPC]
  /\ pc[Main] \in MainPC
  /\ \A w \in Workers : pc[w] \in WorkerPC
  /\ held \in [Threads -> Jobs \cup {BadFd, Nothing}]
  /\ open \subseteq Jobs
  /\ shouldShutdown \in BOOLEAN
  /\ orderly \in BOOLEAN

\* job_stack_push_back never waits for room, and still the array is never
\* written past its end: the reserve slots cover every worker's job even when
\* main fills the stack again while they all have one in their hands.
CapacityOK == Len(content) <= Capacity

\* Nobody calls the stack with its mutex left locked: push returns early on a
\* finished stack without unlocking it, and main never gets there.
MutexReleased == mutex = Nobody

\* A worker never sleeps on not_empty while more jobs are on the stack than
\* workers are on their way to pop them.
OnTheirWay ==
  {w \in Workers : pc[w] = "pop" \/ (pc[w] = "pop_wait" /\ w \notin notEmpty)}

NoLostWakeUp == notEmpty # {} => Len(content) <= Cardinality(OnTheirWay)

\* Main never sleeps on not_full while the stack has room for its job.
PusherSleepsWhenFull == Main \in notFull => Len(content) >= MaxJobs

\* A descriptor is in one place: main's hands, one worker's hands or one slot of
\* the stack.
InOnePlace ==
  /\ \A i, k \in DOMAIN content :
       content[i] \in Jobs /\ content[i] = content[k] => i = k
  /\ \A t, u \in Threads : held[t] \in Jobs /\ held[t] = held[u] => t = u
  /\ \A t \in Threads, i \in DOMAIN content :
       held[t] \in Jobs => held[t] # content[i]

\* No two workers ever serve the same connection, and the header a worker peeked at is
\* still there when it reads it: until a peek finds bytes that are no message header,
\* every descriptor is in one place.
SingleOwner == orderly => InOnePlace

\* The comment above the request handlers asks their callers to have seen the
\* message header in the socket; a second worker on the same socket takes it away
\* between the peek and the read.
ServedByOneWorker ==
  \A v, w \in Workers :
    pc[v] = "serve" /\ pc[w] = "serve" /\ held[v] = held[w] /\ held[v] \in open => v = w

\* main's loop around job_stack_push says that the client it has accepted must
\* still be serviced when the push fails: main gets its descriptor onto the stack.
AcceptedGetsOn == \A job \in Jobs : held[Main] = job ~> held[Main] # job

(***************************************************************************)
(* The owner of a descriptor, read off the pool's state.                   *)
(***************************************************************************)
OwnerOf(j) ==
  IF \E t \in Threads : held[t] = j THEN CHOOSE t \in Threads : held[t] = j
  ELSE IF \E i \in DOMAIN content : content[i] = j THEN "stacked"
  ELSE IF j \in open THEN "lost" ELSE "outside"

\* What is not a thread is not named like one.
ASSUME OwnersAssumption == Threads \cap {"outside", "stacked", "lost"} = {}

Ownership ==
  INSTANCE OneOwner WITH Outside <- "outside", Stacked <- "stacked",
                         Lost <- "lost", owner <- [j \in Jobs |-> OwnerOf(j)]

\* The pool implements the one-owner discipline as long as peeks find headers: every
\* step hands at most one descriptor on, from the thread that has it, to one new owner.
OneOwnerAtATime ==
  Ownership!Init /\ [][orderly' => Ownership!Next]_[j \in Jobs |-> OwnerOf(j)]

\* job_stack_destruct is called on an empty stack, as its comment demands, even
\* when a worker passed the test of `finished` just before it was set.
EmptyAtDestruct == pc[Main] = "done" => content = <<>>

\* Once main signals the end, the workers drain the stack and main returns.
ShutdownCompletes == pc[Main] = "finish" ~> pc[Main] = "done"

\* While jobs are on the stack, some worker gets to serve.
NoStall == content # <<>> ~> \E w \in Workers : pc[w] = "serve"

=============================================================================
