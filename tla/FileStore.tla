------------------------------ MODULE FileStore ------------------------------
(***************************************************************************)
(* What the distributed file system promises about one file name: a get    *)
(* answers with one put's file, not older than any put that was fully      *)
(* stored when the get began, or it answers with nothing.                  *)
(***************************************************************************)
EXTENDS Integers

CONSTANTS
  Earlier,   \* timestamps of the puts that ended before the start
  Puts,      \* timestamps of the others
  Gets       \* the get commands

VARIABLES
  begun,     \* the puts that have begun
  kept,      \* those that are fully stored
  floor,     \* per get, what was fully stored when it began
  phase,     \* per get: idle, pending, answered, gaveup
  answer     \* per get, the put whose file it returned, or none: a set

fileVars == <<begun, kept, floor, phase, answer>>

Init ==
  /\ begun = Earlier
  /\ kept \subseteq Earlier
  /\ floor = [g \in Gets |-> {}]
  /\ phase = [g \in Gets |-> "idle"]
  /\ answer = [g \in Gets |-> {}]

Begin(p) ==
  /\ p \notin begun
  /\ begun' = begun \cup {p}
  /\ UNCHANGED <<kept, floor, phase, answer>>

Keep(p) ==
  /\ p \in begun \ kept
  /\ kept' = kept \cup {p}
  /\ UNCHANGED <<begun, floor, phase, answer>>

Ask(g) ==
  /\ phase[g] = "idle"
  /\ phase' = [phase EXCEPT ![g] = "pending"]
  /\ floor' = [floor EXCEPT ![g] = kept]
  /\ UNCHANGED <<begun, kept, answer>>

Ends(g, how) ==
  /\ phase[g] = "pending"
  /\ phase' = [phase EXCEPT ![g] = how]

Answer(g, p) ==
  /\ Ends(g, "answered")
  /\ p \in begun
  /\ \A q \in floor[g] : q <= p
  /\ answer' = [answer EXCEPT ![g] = {p}]
  /\ UNCHANGED <<begun, kept, floor>>

GiveUp(g) ==
  /\ Ends(g, "gaveup")
  /\ UNCHANGED <<begun, kept, floor, answer>>

Next ==
  \/ \E p \in Puts : Begin(p) \/ Keep(p)
  \/ \E g \in Gets : Ask(g) \/ GiveUp(g) \/ \E p \in begun : Answer(g, p)

Spec == Init /\ [][Next]_fileVars

=============================================================================
