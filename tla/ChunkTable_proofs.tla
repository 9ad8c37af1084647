------------------------- MODULE ChunkTable_proofs -------------------------
(***************************************************************************)
(* What the chunk table's operators return, and the facts about numbers    *)
(* and sequences that the proofs about its users need.                     *)
(***************************************************************************)
EXTENDS ChunkTable, WellFoundedInduction, TLAPS

\* The order on Nat, as a relation.
LEMMA LessInRelation ==
  ASSUME NEW m \in Nat, NEW d \in Nat, m < d
  PROVE  <<m, d>> \in OpToRel(<, Nat)
BY Zenon DEF OpToRel

\* A set of naturals has a least member.
LEMMA LeastExists ==
  ASSUME NEW D, D \subseteq Nat, D # {}
  PROVE  \E d \in D : \A m \in D : d <= m
<1>1. PICK d \in D : \A m \in D : ~ (<<m, d>> \in OpToRel(<, Nat))
  BY WFMin, NatLessThanWellFounded, Zenon
<1>2. \A m \in D : ~ (m < d)
  BY <1>1, LessInRelation
<1> QED  BY <1>2

\* A bounded set of naturals has a greatest member, which Max gives.
LEMMA MaxExists ==
  ASSUME NEW S, NEW b \in Nat, S \subseteq 0..b, S # {}
  PROVE  Max(S) \in S /\ \A x \in S : x <= Max(S)
<1> DEFINE D == {d \in Nat : b - d \in S}
<1>1. D \subseteq Nat
  OBVIOUS
<1>2. \A x \in S : x \in Nat /\ b - x \in D /\ b - (b - x) = x
  <2> TAKE x \in S
  <2>1. x \in 0..b
    OBVIOUS
  <2>2. b - x \in Nat /\ b - (b - x) = x
    BY <2>1
  <2> QED  BY <2>1, <2>2
<1>3. D # {}
  BY <1>2
<1>4. PICK d \in D : \A m \in D : d <= m
  <2> HIDE DEF D
  <2> QED  BY <1>1, <1>3, LeastExists
<1>5. b - d \in S /\ d \in Nat
  OBVIOUS
<1>6. \A x \in S : b - d >= x
  <2> TAKE x \in S
  <2>1. x \in Nat /\ d <= b - x
    BY <1>2, <1>4
  <2> QED  BY <1>5, <2>1
<1>7. \A x, y \in S : x >= y <=> y <= x
  OBVIOUS
<1> QED  BY <1>5, <1>6, <1>7 DEF Max

\* What Append does.
LEMMA AppendSeq ==
  ASSUME NEW S, NEW seq \in Seq(S), NEW x \in S
  PROVE  /\ Append(seq, x) \in Seq(S)
         /\ Len(Append(seq, x)) = Len(seq) + 1
         /\ \A j \in 1..(Len(seq) + 1) :
              Append(seq, x)[j] = IF j <= Len(seq) THEN seq[j] ELSE x
OBVIOUS

\* What Head and Tail give of a sequence that is not empty.
LEMMA HeadTailSeq ==
  ASSUME NEW S, NEW seq \in Seq(S), seq # <<>>
  PROVE  /\ Head(seq) = seq[1] /\ 1 \in DOMAIN seq /\ Head(seq) \in S
         /\ Tail(seq) \in Seq(S)
         /\ \A j \in DOMAIN Tail(seq) : j + 1 \in DOMAIN seq /\ Tail(seq)[j] = seq[j + 1]
OBVIOUS

\* The set that is chosen, of a table of stamps up to b, is the greatest of those
\* that the table has every chunk of.
LEMMA LatestValidSet ==
  ASSUME NEW b \in Nat, NEW t, DOMAIN t \subseteq (0..b) \X Chunks,
         FindLatestValidSet(t) # None
  PROVE  /\ FindLatestValidSet(t) \in ValidSets(t)
         /\ \A v \in ValidSets(t) : v <= FindLatestValidSet(t)
         /\ FindLatestValidSet(t) \in 0..b
         /\ \A c \in Chunks : <<FindLatestValidSet(t), c>> \in DOMAIN t
<1>1. ASSUME NEW v \in ValidSets(t)
      PROVE  v \in 0..b /\ \A c \in Chunks : <<v, c>> \in DOMAIN t
  <2>1. PICK f \in DOMAIN t : f[1] = v /\ \A c \in Chunks : <<f[1], c>> \in DOMAIN t
    BY DEF ValidSets
  <2>2. f[1] \in 0..b
    BY <2>1
  <2> QED  BY <2>1, <2>2
<1>2. ValidSets(t) # {} /\ FindLatestValidSet(t) = Max(ValidSets(t))
  BY DEF FindLatestValidSet
<1>3. /\ Max(ValidSets(t)) \in ValidSets(t)
      /\ \A v \in ValidSets(t) : v <= Max(ValidSets(t))
  <2>1. ValidSets(t) \subseteq 0..b
    BY <1>1
  <2> QED  BY <2>1, <1>2, MaxExists
<1> QED  BY <1>1, <1>2, <1>3

=============================================================================
