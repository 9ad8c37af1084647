-------------------------- MODULE Placement_proofs --------------------------
(***************************************************************************)
(* Where the copies of the chunks are, for any number of servers.          *)
(***************************************************************************)
EXTENDS Placement, TLAPS

\* The remainder of a number that is less than three times the divisor.
LEMMA SmallRemainder ==
  ASSUME NEW x \in 0..(2 * N)
  PROVE  x % N = IF x < N THEN x ELSE IF x < 2 * N THEN x - N ELSE 0
<1>1. N \in Nat \ {0}
  BY PlacementAssumption
<1>2. CASE x < N
  BY <1>1, <1>2
<1>3. CASE N <= x /\ x < 2 * N
  BY <1>1, <1>3
<1>4. CASE x = 2 * N
  BY <1>1, <1>4
<1> QED  BY <1>1, <1>2, <1>3, <1>4

\* Every transfer goes to a server and carries a chunk.
LEMMA TransferTypes ==
  ASSUME NEW t \in Transfers
  PROVE  Dest(t) \in Servers /\ ChunkSent(t) \in Chunks
<1>1. t \in Nat /\ t < 2 * N /\ N \in Nat \ {0} /\ Offset \in 0..(N - 1)
  BY PlacementAssumption DEF Transfers
<1>2. CASE t < N
  <2>1. t - Offset + N \in 0..(2 * N)
    BY <1>1, <1>2
  <2> QED  BY <1>1, <1>2, <2>1, SmallRemainder DEF Dest, ChunkSent, Servers, Chunks
<1>3. CASE ~(t < N)
  <2>1. t - N - Offset + 1 + N \in 0..(2 * N)
    BY <1>1, <1>3
  <2> QED  BY <1>1, <1>3, <2>1, SmallRemainder DEF Dest, ChunkSent, Servers, Chunks
<1> QED  BY <1>2, <1>3

\* No chunk is sent to a server twice.
LEMMA TransferOnce ==
  ASSUME NEW i \in Transfers, NEW j \in Transfers,
         Dest(i) = Dest(j), ChunkSent(i) = ChunkSent(j)
  PROVE  i = j
<1>1. i \in Nat /\ j \in Nat /\ N \in Nat \ {0} /\ i < 2 * N /\ j < 2 * N
  BY PlacementAssumption DEF Transfers
<1>2. ASSUME NEW k \in Transfers, NEW l \in Transfers, k < N, l = k + N
      PROVE  ChunkSent(k) # ChunkSent(l)
  <2>1. k \in 0..(N - 1) /\ N \in Nat /\ N >= 2 /\ Offset \in 0..(N - 1) /\ ~(l < N)
    BY <1>2, PlacementAssumption DEF Transfers
  <2>2. k - Offset + N \in 0..(2 * N) /\ l - N - Offset + 1 + N \in 0..(2 * N)
    BY <1>2, <2>1
  <2>3. ChunkSent(k) = IF k - Offset + N < N THEN k - Offset + N ELSE k - Offset
    BY <2>1, <2>2, SmallRemainder DEF ChunkSent
  <2>4. ChunkSent(l) = (l - N - Offset + 1 + N) % N
    BY <2>1 DEF ChunkSent
  <2>5. ChunkSent(l) = IF k - Offset + 1 < 0 THEN k - Offset + 1 + N
                       ELSE IF k - Offset + 1 < N THEN k - Offset + 1 ELSE 0
    BY <1>2, <2>1, <2>2, <2>4, SmallRemainder
  <2> QED  BY <2>1, <2>3, <2>5
<1>3. CASE i < N /\ ~(j < N)
  <2>1. j = i + N
    BY <1>1, <1>3 DEF Dest
  <2> QED  BY <1>2, <1>3, <2>1
<1>4. CASE j < N /\ ~(i < N)
  <2>1. i = j + N
    BY <1>1, <1>4 DEF Dest
  <2> QED  BY <1>2, <1>4, <2>1
<1> QED  BY <1>1, <1>3, <1>4 DEF Dest

\* The server a chunk goes to in the first round, and in the second.
FirstHome(c) == IF c + Offset < N THEN c + Offset ELSE c + Offset - N
SecondHome(c) == IF FirstHome(c) = 0 THEN N - 1 ELSE FirstHome(c) - 1

\* put_file sends every chunk to two servers, neighbours on the ring.
THEOREM TwoHomes ==
  ASSUME NEW c \in Chunks
  PROVE  /\ Homes[c] = {FirstHome(c), SecondHome(c)}
         /\ FirstHome(c) \in Servers /\ SecondHome(c) \in Servers
         /\ FirstHome(c) # SecondHome(c)
         /\ FirstHome(c) = (SecondHome(c) + 1) % N
<1>1. c \in 0..(N - 1) /\ N \in Nat /\ N >= 2 /\ Offset \in 0..(N - 1)
  BY PlacementAssumption DEF Chunks
<1> DEFINE a == FirstHome(c)
           b == SecondHome(c)
<1>2. a \in Servers /\ b \in Servers /\ a # b
  BY <1>1 DEF FirstHome, SecondHome, Servers
<1>3. a = (b + 1) % N
  <2>1. b + 1 \in 0..(2 * N)
    BY <1>1, <1>2 DEF Servers
  <2> QED  BY <1>1, <2>1, SmallRemainder DEF FirstHome, SecondHome
<1>4. \A t \in Transfers : t < N => (ChunkSent(t) = c <=> t = a)
  <2> TAKE t \in Transfers
  <2> HAVE t < N
  <2>1. t \in 0..(N - 1) /\ t - Offset + N \in 0..(2 * N)
    BY <1>1 DEF Transfers
  <2>2. ChunkSent(t) = IF t - Offset + N < N THEN t - Offset + N ELSE t - Offset
    BY <1>1, <2>1, SmallRemainder DEF ChunkSent
  <2> QED  BY <1>1, <2>1, <2>2 DEF FirstHome
<1>5. \A t \in Transfers : ~(t < N) => (ChunkSent(t) = c <=> t - N = b)
  <2> TAKE t \in Transfers
  <2> HAVE ~(t < N)
  <2>1. t - N \in 0..(N - 1) /\ t - N - Offset + 1 + N \in 0..(2 * N)
    BY <1>1 DEF Transfers
  <2>2. ChunkSent(t) = (t - N - Offset + 1 + N) % N
    BY DEF ChunkSent
  <2>3. ChunkSent(t) = IF t - Offset + 1 < N THEN t - Offset + 1
                       ELSE IF t - Offset + 1 < 2 * N THEN t - Offset + 1 - N ELSE 0
    BY <1>1, <2>1, <2>2, SmallRemainder DEF Transfers
  <2> QED  BY <1>1, <2>1, <2>3 DEF FirstHome, SecondHome, Transfers
<1>6. Homes[c] \subseteq {a, b}
  BY <1>1, <1>4, <1>5 DEF Homes, Dest, Transfers
<1>7. a \in Homes[c]
  <2>1. a \in Transfers /\ a < N
    BY <1>1, <1>2 DEF Transfers, Servers
  <2> QED  BY <1>4, <2>1 DEF Homes, Dest
<1>8. b \in Homes[c]
  <2> DEFINE t == b + N
  <2>2. t \in Transfers /\ ~(t < N) /\ t - N = b
    BY <1>1, <1>2 DEF Transfers, Servers
  <2> HIDE DEF t
  <2>3. ChunkSent(t) = c /\ Dest(t) = b
    BY <1>5, <2>2 DEF Dest
  <2> HIDE DEF b
  <2> QED  BY <2>2, <2>3 DEF Homes
<1> QED  BY <1>2, <1>3, <1>6, <1>7, <1>8

\* A set of servers has a copy of every chunk unless two neighbours are missing:
\* put's two rounds leave the file readable with any server down, and with half of
\* them down if they are not neighbours.
THEOREM CoveredUnlessGap ==
  ASSUME NEW S, \E c \in Chunks : Homes[c] \cap S = {}
  PROVE  Gap(S)
<1>1. PICK c \in Chunks : Homes[c] \cap S = {}
  OBVIOUS
<1>2. SecondHome(c) \in Servers /\ SecondHome(c) \notin S /\ (SecondHome(c) + 1) % N \notin S
  BY <1>1, TwoHomes
<1> QED  BY <1>2 DEF Gap

\* Conversely a gap leaves a chunk without a copy, so two neighbours that are down
\* always make a stored file unreadable.
THEOREM GapUncovered ==
  ASSUME NEW S, Gap(S)
  PROVE  \E c \in Chunks : Homes[c] \cap S = {}
<1>1. PICK s \in Servers : s \notin S /\ (s + 1) % N \notin S
  BY DEF Gap
<1>2. s \in 0..(N - 1) /\ N \in Nat /\ N >= 2 /\ Offset \in 0..(N - 1)
  BY PlacementAssumption DEF Servers
<1> DEFINE n == IF s + 1 < N THEN s + 1 ELSE 0
           c == IF n >= Offset THEN n - Offset ELSE n - Offset + N
<1>3. n = (s + 1) % N
  <2>1. s + 1 \in 0..(2 * N)
    BY <1>2
  <2> QED  BY <1>2, <2>1, SmallRemainder
<1>4. c \in Chunks /\ FirstHome(c) = n /\ SecondHome(c) = s
  BY <1>2 DEF Chunks, FirstHome, SecondHome
<1>5. Homes[c] = {n, s}
  BY <1>4, TwoHomes
<1>6. Homes[c] \cap S = {}
  <2> HIDE DEF n, c
  <2> QED  BY <1>1, <1>3, <1>5
<1> QED  BY <1>4, <1>6
=============================================================================
