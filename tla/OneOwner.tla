------------------------------ MODULE OneOwner ------------------------------
(***************************************************************************)
(* What the server promises about a socket descriptor: it has one owner at *)
(* a time, and changes hands only along the path accept - stack - worker - *)
(* stack ... - closed.  Locks, condition variables, the order of the jobs  *)
(* and the bound of the stack are not seen here.                           *)
(***************************************************************************)
CONSTANTS
  Main, Workers,   \* the threads
  Jobs,            \* the descriptors
  Outside,         \* owner of a descriptor that is not open
  Stacked,         \* owner of a descriptor that waits on the job stack
  Lost             \* owner of an open descriptor nobody will serve again

VARIABLE owner

Init == owner = [j \in Jobs |-> Outside]

OwnsNothing(t) == \A j \in Jobs : owner[j] # t

Move(j, from, to) ==
  /\ owner[j] = from
  /\ owner' = [owner EXCEPT ![j] = to]

Accept(j)    == OwnsNothing(Main) /\ Move(j, Outside, Main)
Submit(j)    == Move(j, Main, Stacked)
Claim(w, j)  == OwnsNothing(w) /\ Move(j, Stacked, w)
Return(w, j) == Move(j, w, Stacked)
Close(w, j)  == Move(j, w, Outside)
Lose(w, j)   == Move(j, w, Lost)

Next ==
  \E j \in Jobs :
    \/ Accept(j) \/ Submit(j)
    \/ \E w \in Workers : Claim(w, j) \/ Return(w, j) \/ Close(w, j) \/ Lose(w, j)

Spec == Init /\ [][Next]_owner

=============================================================================
