------------------------------ MODULE JobStack ------------------------------
(***************************************************************************)
(* The thread-safe job stack (thread-safe-job-stack.c): an array of socket *)
(* descriptors shared by the server's main thread, which pushes new        *)
(* connections on top, and the workers, which pop from the top and push    *)
(* unfinished connections back to the bottom.                              *)
(*                                                                         *)
(* Every operation is one critical section, so it is one action that needs *)
(* the mutex free.  Three places are finer than that and have actions of   *)
(* their own: a thread parked in pthread_cond_wait, the test of `finished` *)
(* that push_back makes before it locks, and the early return of push that *)
(* leaves the mutex locked.  The threads' control is in WorkerPool.        *)
(***************************************************************************)
EXTENDS Integers, Sequences, FiniteSets

CONSTANTS
  Main,          \* the server's main thread, the only producer
  Workers,       \* the worker threads
  MaxJobs,       \* max_job_count: push waits while the stack holds this many
  ReserveSlots,  \* reserve_job_count: extra slots for jobs pushed back
  Nobody         \* owner of the mutex when it is free

Threads == Workers \cup {Main}

ASSUME ThreadsAssumption ==
  /\ IsFiniteSet(Workers)
  /\ Workers # {}
  /\ Main \notin Workers
  /\ Nobody \notin Threads

\* server.c:83 passes SERVER_WORKERS reserve slots for SERVER_WORKERS workers.
ASSUME SizeAssumption ==
  /\ MaxJobs \in Nat \ {0}
  /\ ReserveSlots \in Nat
  /\ Cardinality(Workers) <= ReserveSlots

VARIABLES
  content,   \* the array up to `top`, bottom (index 0 of the array) first
  finished,  \* the `finished` flag
  mutex,     \* the thread that holds the mutex after its call returned
  notEmpty,  \* threads parked on the condition variable not_empty
  notFull    \* threads parked on the condition variable not_full

stackVars == <<content, finished, mutex, notEmpty, notFull>>

\* The array allocated by job_stack_construct.
Capacity == MaxJobs + ReserveSlots + 1

StackInit ==
  /\ content = <<>>
  /\ finished = FALSE
  /\ mutex = Nobody
  /\ notEmpty = {}
  /\ notFull = {}

MutexFree == mutex = Nobody

\* pthread_cond_signal: the queues it may leave, one waiter shorter if any waits.
Signal(queue) == IF queue = {} THEN {queue} ELSE {queue \ {t} : t \in queue}

-----------------------------------------------------------------------------
(* job_stack_push                                                          *)

MutantPushIgnoresMax(job) ==
  /\ MutexFree /\ ~finished
  /\ content' = Append(content, job)
  /\ notEmpty' \in Signal(notEmpty)
  /\ UNCHANGED <<finished, mutex, notFull>>

MutantPushForgetsSignal(job) ==
  /\ MutexFree /\ ~finished
  /\ Len(content) < MaxJobs
  /\ content' = Append(content, job)
  /\ UNCHANGED <<finished, mutex, notFull, notEmpty>>

\* Room on the stack: the job goes on top and a popper is signalled.
Push(job) ==
  /\ MutexFree /\ ~finished
  /\ Len(content) < MaxJobs
  /\ content' = Append(content, job)
  /\ notEmpty' \in Signal(notEmpty)
  /\ UNCHANGED <<finished, mutex, notFull>>

\* No room: the caller parks; after it is woken push returns FAIL, unpushed.
PushParks(t) ==
  /\ MutexFree /\ ~finished
  /\ Len(content) >= MaxJobs
  /\ notFull' = notFull \cup {t}
  /\ UNCHANGED <<content, finished, mutex, notEmpty>>

\* The early return of a finished stack keeps the mutex locked.
PushFinished(t) ==
  /\ MutexFree /\ finished
  /\ mutex' = t
  /\ UNCHANGED <<content, finished, notEmpty, notFull>>

-----------------------------------------------------------------------------
(* job_stack_push_back, after its unlocked test of `finished`              *)

\* Everything moves up one slot and the job goes to the bottom; never waits.
PushBack(job) ==
  /\ MutexFree
  /\ content' = <<job>> \o content
  /\ notEmpty' \in Signal(notEmpty)
  /\ UNCHANGED <<finished, mutex, notFull>>

-----------------------------------------------------------------------------
(* job_stack_pop                                                           *)

MutantPopLeavesTop(job) ==
  /\ MutexFree
  /\ content # <<>>
  /\ job = content[Len(content)]
  /\ notFull' \in Signal(notFull)
  /\ UNCHANGED <<content, finished, mutex, notEmpty>>

MutantPopForgetsSignal(job) ==
  /\ MutexFree
  /\ content # <<>>
  /\ job = content[Len(content)]
  /\ content' = SubSeq(content, 1, Len(content) - 1)
  /\ UNCHANGED <<finished, mutex, notFull, notEmpty>>

\* A job is there: it leaves the top and a parked pusher is signalled.
Pop(job) ==
  /\ MutexFree
  /\ content # <<>>
  /\ job = content[Len(content)]
  /\ content' = SubSeq(content, 1, Len(content) - 1)
  /\ notFull' \in Signal(notFull)
  /\ UNCHANGED <<finished, mutex, notEmpty>>

\* Empty and not finished: the caller parks; once woken pop returns FAIL.
PopParks(t) ==
  /\ MutexFree
  /\ content = <<>> /\ ~finished
  /\ notEmpty' = notEmpty \cup {t}
  /\ UNCHANGED <<content, finished, mutex, notFull>>

MutantPopFinishedEarly ==
  /\ MutexFree
  /\ finished
  /\ UNCHANGED stackVars

\* Empty and finished: pop returns FINISHED.
PopFinished ==
  /\ MutexFree
  /\ content = <<>> /\ finished
  /\ UNCHANGED stackVars

-----------------------------------------------------------------------------
(* Waking up, and job_stack_signal_finish                                  *)

\* A woken thread gets the mutex back, unlocks it and returns FAIL.
WakeUp(t) ==
  /\ t \notin notEmpty \cup notFull
  /\ MutexFree
  /\ UNCHANGED stackVars

\* POSIX lets pthread_cond_wait return without a signal.
SpuriousWakeUp(t) ==
  /\ t \in notEmpty \cup notFull
  /\ notEmpty' = notEmpty \ {t}
  /\ notFull' = notFull \ {t}
  /\ UNCHANGED <<content, finished, mutex>>

MutantFinishSignalsOne ==
  /\ MutexFree
  /\ finished' = TRUE
  /\ notEmpty' \in Signal(notEmpty)
  /\ UNCHANGED <<content, mutex, notFull>>

\* The flag is set and every parked popper is woken (pthread_cond_broadcast).
SignalFinish ==
  /\ MutexFree
  /\ finished' = TRUE
  /\ notEmpty' = {}
  /\ UNCHANGED <<content, mutex, notFull>>

=============================================================================
