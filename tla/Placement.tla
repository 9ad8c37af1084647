------------------------------ MODULE Placement ------------------------------
(***************************************************************************)
(* Where put_file sends the chunks of a file (client.c): the file is cut   *)
(* into as many chunks as there are servers, and every server gets two     *)
(* neighbouring chunks, turned by an offset that is a hash of the name.    *)
(***************************************************************************)
EXTENDS Integers, FiniteSets

CONSTANTS
  N,        \* SERVERS, the number of servers and of chunks of a file
  Offset    \* map_offset, the hash of the file name modulo SERVERS

\* Two copies of a chunk need two servers (constants.h has 4).
ASSUME PlacementAssumption == N \in Nat /\ N >= 2 /\ Offset \in 0..(N - 1)

Servers == 0..(N - 1)
Chunks == 0..(N - 1)

\* put_file makes 2N transfers: two rounds over the servers.
Transfers == 0..(2 * N - 1)

Dest(i) == IF i < N THEN i ELSE i - N

MutantSameChunkTwice(i) ==
  IF i < N THEN (i - Offset + N) % N ELSE (i - N - Offset + N) % N

\* The remainder of a negative number is negative in C.
MutantNegativeRemainder(i) ==
  IF i < N THEN i - Offset ELSE (i - N - Offset + 1 + N) % N

ChunkSent(i) ==
  IF i < N THEN (i - Offset + N) % N ELSE (i - N - Offset + 1 + N) % N

\* The servers a chunk is sent to.
Homes == [c \in Chunks |-> {Dest(i) : i \in {k \in Transfers : ChunkSent(k) = c}}]

\* Two neighbours on the ring of servers, both outside S: what they share is in
\* no server of S.
Gap(S) == \E s \in Servers : s \notin S /\ (s + 1) % N \notin S

=============================================================================
