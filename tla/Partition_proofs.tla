-------------------------- MODULE Partition_proofs --------------------------
(***************************************************************************)
(* Proofs about Partition, for every number of servers and file length,    *)
(* and whatever the reads of copy_bytes_to_file give.                      *)
(*                                                                         *)
(* The invariant says where the loop stands: chunk c begins at c times the *)
(* chunk length or at the end of the file, whichever comes first, and what *)
(* has been copied reaches exactly to the read position.                   *)
(***************************************************************************)
EXTENDS Partition, TLAPS

Smaller(a, b) == IF a < b THEN a ELSE b

\* Quotient and remainder by the number of servers.
LEMMA Division ==
  ASSUME NEW len \in Nat
  PROVE  /\ len \div N \in Nat
         /\ len % N \in 0..(N - 1)
         /\ len = N * (len \div N) + (len % N)
BY PlacementAssumption, SMTT(30)

\* The chunk length is positive, and N chunks of it hold the whole file.
LEMMA OffsetCovers ==
  ASSUME NEW len \in Nat
  PROVE  /\ ChunkOffset(len) \in Nat \ {0}
         /\ N * ChunkOffset(len) >= len
<1> DEFINE q == len \div N
           r == len % N
<1>1. q \in Nat /\ r \in 0..(N - 1) /\ len = N * q + r
  BY Division
<1> HIDE DEF q, r
<1>2. N * (q + 1) = N * q + N
  BY <1>1, PlacementAssumption
<1>3. ChunkOffset(len) = q + 1
  BY DEF ChunkOffset, q
<1> QED  BY <1>1, <1>2, <1>3, PlacementAssumption

\* The last chunk begins at or after the end of the file exactly when quotient
\* and remainder add up to less than N.
LEMMA LastBegins ==
  ASSUME NEW len \in Nat
  PROVE  (N - 1) * ChunkOffset(len) >= len <=> (len \div N) + (len % N) < N
<1> DEFINE q == len \div N
           r == len % N
<1>1. q \in Nat /\ r \in 0..(N - 1) /\ len = N * q + r
  BY Division
<1> HIDE DEF q, r
<1>2. (N - 1) * (q + 1) = N * q + N - q - 1
  BY <1>1, PlacementAssumption
<1>3. ChunkOffset(len) = q + 1
  BY DEF ChunkOffset, q
<1>4. (N - 1) * (q + 1) >= len <=> q + r < N
  BY <1>1, <1>2, PlacementAssumption
<1> QED  BY <1>3, <1>4 DEF q, r

-----------------------------------------------------------------------------
(* Where chunk c begins.                                                   *)
Begins(c) == Smaller(c * ChunkOffset(length), length)

\* What the loop has done so far.
LoopInv ==
  /\ TypeOK
  /\ state \in {"open", "refused"} => i = 0
  /\ state \in {"copy", "done"} => length >= N
  /\ state = "done" => i = N - 1 /\ pos = Begins(N)
  /\ \A c \in Chunks : c <= i => start[c] = Begins(c)
  /\ \A c \in Chunks : c < i => copied[c] = Begins(c + 1) - Begins(c)
  /\ \A c \in Chunks : c > i => copied[c] = 0
  /\ copied[i] <= ChunkOffset(length)
  /\ pos = Begins(i) + copied[i]

\* One chunk length further, up to the end of the file.
LEMMA BeginsNext ==
  ASSUME length \in Nat, NEW c \in Nat
  PROVE  /\ Begins(c) \in 0..length
         /\ Begins(c + 1) = Smaller(Begins(c) + ChunkOffset(length), length)
<1> DEFINE off == ChunkOffset(length)
<1>1. off \in Nat \ {0}
  BY OffsetCovers
<1> HIDE DEF off
<1>2. c * off \in Nat /\ (c + 1) * off = c * off + off
  BY <1>1
<1>3. Begins(c) = Smaller(c * off, length) /\ Begins(c + 1) = Smaller((c + 1) * off, length)
  BY DEF Begins, off
<1> QED  BY <1>1, <1>2, <1>3 DEF Smaller, off

\* When copy_bytes_to_file returns, the read position is where the next chunk begins.
LEMMA ChunkEnds ==
  ASSUME LoopInv, ToCopy = 0 \/ pos = length
  PROVE  pos = Begins(i + 1)
<1>1. i \in Nat /\ length \in Nat /\ pos \in 0..length /\ copied[i] \in Nat
  BY PlacementAssumption DEF LoopInv, TypeOK, Chunks
<1>2. ChunkOffset(length) \in Nat \ {0}
  BY <1>1, OffsetCovers
<1>3. ToCopy = 0 => copied[i] = ChunkOffset(length)
  BY <1>1, <1>2, PlacementAssumption DEF ToCopy, Smaller, LoopInv
<1>4. Begins(i + 1) = Smaller(Begins(i) + ChunkOffset(length), length)
      /\ Begins(i) \in 0..length
  BY <1>1, BeginsNext
<1> QED  BY <1>1, <1>2, <1>3, <1>4 DEF LoopInv, Smaller

\* put_file's loop: the chunks tile the part of the file that has been read.
THEOREM PartitionLoopInv == Spec => []LoopInv
<1>1. Init => LoopInv
  <2> SUFFICES ASSUME Init PROVE LoopInv
    OBVIOUS
  <2>1. length \in Nat /\ 0 \in Chunks
    BY PlacementAssumption DEF Init, Chunks
  <2>2. Begins(0) = 0 /\ ChunkOffset(length) \in Nat \ {0}
    BY <2>1, OffsetCovers DEF Begins, Smaller
  <2> QED  BY <2>1, <2>2 DEF Init, LoopInv, TypeOK, Chunks
<1>2. LoopInv /\ [Next]_vars => LoopInv'
  <2> SUFFICES ASSUME LoopInv, [Next]_vars PROVE LoopInv'
    OBVIOUS
  <2>1. /\ i \in Nat /\ i \in Chunks /\ length \in Nat /\ pos \in 0..length
        /\ copied \in [Chunks -> 0..length] /\ start \in [Chunks -> 0..length]
    BY PlacementAssumption DEF LoopInv, TypeOK, Chunks
  <2>2. ChunkOffset(length) \in Nat \ {0}
    BY <2>1, OffsetCovers
  <2>3. \A c \in Chunks : Begins(c) \in 0..length
    BY <2>1, BeginsNext DEF Chunks
  <2>4. ASSUME Refuse PROVE LoopInv'
    BY <2>4 DEF Refuse, LoopInv, TypeOK, Begins
  <2>5. ASSUME Open PROVE LoopInv'
    BY <2>5 DEF Open, LoopInv, TypeOK, Begins
  <2>6. ASSUME CopyBatch PROVE LoopInv'
    <3>1. PICK n \in 1..ToCopy :
            /\ pos + n <= length /\ pos' = pos + n /\ copied' = [copied EXCEPT ![i] = @ + n]
            /\ UNCHANGED <<state, length, i, start>> /\ state = "copy"
      BY <2>6 DEF CopyBatch
    <3>2. n \in Nat /\ copied[i] + n <= ChunkOffset(length)
      BY <2>1, <2>2, <3>1 DEF ToCopy
    <3>3. Begins(i) \in 0..length /\ pos = Begins(i) + copied[i]
      BY <2>1, <2>3 DEF LoopInv
    <3>4. copied[i] + n \in 0..length
      BY <2>1, <3>1, <3>2, <3>3
    <3>5. TypeOK'
      BY <2>1, <3>1, <3>2, <3>4 DEF LoopInv, TypeOK
    <3> QED  BY <2>1, <3>1, <3>2, <3>3, <3>5 DEF LoopInv, Begins, Smaller, Chunks
  <2>7. ASSUME NextChunk PROVE LoopInv'
    <3>1. pos = Begins(i + 1)
      BY <2>7, ChunkEnds DEF NextChunk
    <3>2. Begins(i + 1) = Begins(i) + copied[i]
      BY <3>1 DEF LoopInv
    <3>3. CASE i + 1 < N
      <4>1. i + 1 \in Chunks
        BY <2>1, <3>3, PlacementAssumption DEF Chunks
      <4>2. /\ i' = i + 1 /\ start' = [start EXCEPT ![i + 1] = pos]
            /\ UNCHANGED <<state, length, pos, copied>> /\ state = "copy"
        BY <2>7, <3>3 DEF NextChunk
      <4>3. TypeOK'
        BY <2>1, <4>1, <4>2 DEF LoopInv, TypeOK
      <4>4. \A c \in Chunks : c <= i' => start'[c] = Begins(c)
        BY <2>1, <3>1, <4>1, <4>2 DEF LoopInv, Chunks
      <4>5. \A c \in Chunks : c < i' => copied[c] = Begins(c + 1) - Begins(c)
        BY <2>1, <2>3, <3>1, <3>2, <4>2 DEF LoopInv, Chunks
      <4>6. \A c \in Chunks : c > i' => copied[c] = 0
        BY <2>1, <4>2 DEF LoopInv, Chunks
      <4>7. copied[i + 1] = 0
        BY <2>1, <4>1 DEF LoopInv
      <4> QED  BY <2>1, <2>2, <3>1, <4>2, <4>3, <4>4, <4>5, <4>6, <4>7 DEF LoopInv, Begins
    <3>4. CASE ~(i + 1 < N)
      <4>1. i = N - 1
        BY <2>1, <3>4, PlacementAssumption DEF Chunks
      <4>2. state' = "done" /\ UNCHANGED <<length, pos, i, start, copied>>
        BY <2>7, <3>4 DEF NextChunk
      <4>3. pos = Begins(N)
        BY <3>1, <4>1, PlacementAssumption
      <4>4. length >= N
        BY <2>7 DEF NextChunk, LoopInv
      <4> QED  BY <4>1, <4>2, <4>3, <4>4 DEF LoopInv, TypeOK, Begins
    <3> QED  BY <3>3, <3>4
  <2>8. CASE UNCHANGED vars
    BY <2>8 DEF vars, LoopInv, TypeOK, Begins
  <2> QED  BY <2>4, <2>5, <2>6, <2>7, <2>8 DEF Next
<1> QED  BY <1>1, <1>2, PTL DEF Spec

\* The variables keep their types.
THEOREM PartitionTypeOK == Spec => []TypeOK
<1>1. LoopInv => TypeOK
  BY DEF LoopInv
<1> QED  BY <1>1, PartitionLoopInv, PTL

\* In the end every chunk ends where the next one begins, the last one at the end
\* of the file.
LEMMA DoneTiles ==
  ASSUME LoopInv, state = "done"
  PROVE  /\ Begins(N) = length
         /\ \A c \in Chunks : start[c] = Begins(c) /\ copied[c] = Begins(c + 1) - Begins(c)
<1>1. length \in Nat /\ i = N - 1 /\ pos \in 0..length /\ copied[i] \in Nat
  BY PlacementAssumption DEF LoopInv, TypeOK, Chunks
<1>2. Begins(N) = length
  BY <1>1, OffsetCovers, PlacementAssumption DEF Begins, Smaller
<1>3. \A c \in Chunks : Begins(c) \in 0..length
  BY <1>1, BeginsNext DEF Chunks
<1>4. copied[N - 1] = Begins((N - 1) + 1) - Begins(N - 1)
  BY <1>1, <1>3, PlacementAssumption DEF LoopInv, Chunks
<1> QED  BY <1>1, <1>2, <1>4, PlacementAssumption DEF LoopInv, Chunks

\* put_file loses no byte of the file and stores none twice within a copy.
THEOREM PartitionFileCovered == Spec => []FileCovered
<1>1. LoopInv => FileCovered
  <2> SUFFICES ASSUME LoopInv, state = "done" PROVE FileCovered
    BY DEF FileCovered
  <2>1. length \in Nat /\ 0 \in Chunks
    BY PlacementAssumption DEF LoopInv, TypeOK, Chunks
  <2>2. \A c \in Chunks : Begins(c) \in 0..length /\ Begins(c + 1) \in 0..length
    BY <2>1, BeginsNext DEF Chunks
  <2>3. Begins(0) = 0
    BY <2>1, OffsetCovers DEF Begins, Smaller
  <2>4. \A c \in Chunks : start[c] + copied[c] = Begins(c + 1)
    BY <2>2, DoneTiles
  <2>5. \A c \in Chunks : c + 1 < N => start[c + 1] = Begins(c + 1)
    BY DoneTiles, PlacementAssumption DEF Chunks
  <2>6. \A c \in Chunks : ~(c + 1 < N) => Begins(c + 1) = length
    BY DoneTiles, PlacementAssumption DEF Chunks
  <2> QED  BY <2>1, <2>3, <2>4, <2>5, <2>6, DoneTiles DEF FileCovered
<1> QED  BY <1>1, PartitionLoopInv, PTL

\* The chunks with bytes are those that begin before the end of the file.
LEMMA FilledBegin ==
  ASSUME LoopInv, state = "done", NEW c \in Chunks
  PROVE  copied[c] > 0 <=> c * ChunkOffset(length) < length
<1> DEFINE off == ChunkOffset(length)
<1>1. length \in Nat /\ c \in Nat
  BY DEF LoopInv, TypeOK, Chunks
<1>2. off \in Nat \ {0}
  BY <1>1, OffsetCovers
<1>3. copied[c] = Begins(c + 1) - Begins(c)
  BY DoneTiles
<1>4. Begins(c) \in 0..length /\ Begins(c + 1) = Smaller(Begins(c) + off, length)
  BY <1>1, BeginsNext
<1>5. c * off \in Nat /\ Begins(c) = Smaller(c * off, length)
  BY <1>1, <1>2 DEF Begins
<1> HIDE DEF off
<1>6. copied[c] > 0 <=> c * off < length
  BY <1>1, <1>2, <1>3, <1>4, <1>5 DEF Smaller
<1> QED  BY <1>6 DEF off

\* Which chunks put_file leaves without bytes and for which file lengths, for any
\* number of servers: it is what ChunkStore assumes of its constant Filled.
THEOREM PartitionEmptyChunksLast == Spec => []EmptyChunksLast
<1>1. ASSUME LoopInv, state = "done" PROVE EmptyChunksLast
  <2> DEFINE off == ChunkOffset(length)
             q == (length - 1) \div off
  <2>1. /\ length \in Nat \ {0} /\ N \in Nat \ {0} /\ N - 1 \in Chunks
        /\ \A c \in Chunks : c \in Nat
    BY <1>1, PlacementAssumption DEF LoopInv, TypeOK, Chunks
  <2>2. off \in Nat \ {0} /\ N * off >= length
    BY <2>1, OffsetCovers
  <2>3. \A c \in Chunks : copied[c] > 0 <=> c * off < length
    BY <1>1, FilledBegin
  <2>4. (N - 1) * off >= length <=> (length \div N) + (length % N) < N
    BY <2>1, LastBegins
  <2> HIDE DEF off
  <2>5. q \in Nat /\ q * off <= length - 1 /\ length - 1 < q * off + off
    BY <2>1, <2>2, SMTT(30)
  <2> HIDE DEF q
  <2>6. \A c \in Nat : c * off < length <=> c <= q
    <3> TAKE c \in Nat
    <3>1. CASE c <= q
      <4>1. c * off <= q * off
        BY <2>2, <2>5, <3>1
      <4> QED  BY <2>1, <2>2, <2>5, <3>1, <4>1
    <3>2. CASE c > q
      <4>1. PICK d \in Nat : c = q + 1 + d
        <5>1. c - q - 1 \in Nat /\ c = q + 1 + (c - q - 1)
          BY <2>5, <3>2
        <5> QED  BY <5>1
      <4>2. c * off = q * off + off + d * off /\ d * off >= 0
        BY <2>2, <2>5, <4>1
      <4> QED  BY <2>1, <2>2, <2>5, <3>2, <4>2
    <3> QED  BY <2>5, <3>1, <3>2
  <2>7. q < N
    BY <2>1, <2>2, <2>5, <2>6
  <2>8. \A c \in Chunks : copied[c] > 0 <=> c < q + 1
    BY <2>1, <2>3, <2>5, <2>6
  <2>9. q + 1 < N <=> (N - 1) * off >= length
    <3>1. (N - 1) * off < length <=> N - 1 <= q
      BY <2>1, <2>6
    <3>2. (N - 1) * off \in Nat
      BY <2>1, <2>2
    <3> QED  BY <2>1, <2>5, <3>1, <3>2
  <2>10. q + 1 \in 1..N
    BY <2>1, <2>5, <2>7
  <2> QED  BY <2>4, <2>8, <2>9, <2>10 DEF EmptyChunksLast
<1>2. LoopInv => EmptyChunksLast
  BY <1>1 DEF EmptyChunksLast
<1> QED  BY <1>2, PartitionLoopInv, PTL

-----------------------------------------------------------------------------
(* How many steps the loop can take.                                       *)

\* Refusing or opening, then a byte at least per turn of copy_bytes_to_file, then
\* the ends of the chunks.
LoopLeft ==
  IF state = "open" THEN N + length + 1
  ELSE IF state = "copy" THEN (N - i) + (length - pos)
  ELSE 0

\* What PartitionEnds rests on: put_file's loop takes at most as many steps as
\* the file has bytes and servers, and one; each of them, an empty chunk's at the
\* end of the file too, brings the end nearer.
THEOREM PartitionStepsRunOut ==
  /\ Spec => [](LoopLeft \in 0..(N + length + 1))
  /\ Spec => [][LoopLeft' < LoopLeft]_vars
<1>1. ASSUME LoopInv
      PROVE  /\ i \in 0..(N - 1) /\ N \in Nat \ {0}
             /\ length \in Nat /\ pos \in 0..length
             /\ state \in {"open", "copy", "refused", "done"}
  BY <1>1, PlacementAssumption DEF LoopInv, TypeOK, Chunks
<1>2. LoopInv => LoopLeft \in 0..(N + length + 1)
  BY <1>1 DEF LoopLeft
<1>3. LoopInv /\ [Next]_vars => [LoopLeft' < LoopLeft]_vars
  <2> SUFFICES ASSUME LoopInv, Next PROVE LoopLeft' < LoopLeft
    OBVIOUS
  <2>1. CASE Refuse
    BY <1>1, <2>1 DEF Refuse, LoopLeft
  <2>2. CASE Open
    <3>1. i = 0
      BY <2>2 DEF LoopInv, Open
    <3> QED  BY <1>1, <2>2, <3>1 DEF Open, LoopLeft
  <2>3. CASE CopyBatch
    <3>1. copied[i] \in Nat
      BY <1>1 DEF LoopInv, TypeOK
    <3>2. ChunkOffset(length) \in Nat
      BY <1>1, OffsetCovers
    <3>3. PICK n \in 1..ToCopy : pos + n <= length /\ pos' = pos + n
      BY <2>3 DEF CopyBatch
    <3> QED  BY <1>1, <2>3, <3>1, <3>2, <3>3 DEF CopyBatch, LoopLeft, ToCopy
  <2>4. CASE NextChunk
    BY <1>1, <2>4 DEF NextChunk, LoopLeft
  <2> QED  BY <2>1, <2>2, <2>3, <2>4 DEF Next
<1> QED  BY <1>2, <1>3, PartitionLoopInv, PTL DEF Spec

=============================================================================
