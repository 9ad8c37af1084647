------------------------ MODULE ChunkTransfer_proofs ------------------------
(***************************************************************************)
(* Proofs about ChunkTransfer, for chunks, buffers and wires of any size.  *)
(*                                                                         *)
(* A position on the stream of all messages is given by what is still to   *)
(* come (ToCome) and by how much of the first of that has gone by.         *)
(* TypeInv: the types, and how a sender's buffers divide its message.      *)
(* StreamInv: the wire has the units in a row from the receiver's position *)
(*   to the sender's; what is being received is a chunk's beginning.       *)
(* FilesInv: what has been stored or written are the chunks gone by.       *)
(* SenderNearer, ReceiverNearer: the order in which every step goes down.  *)
(***************************************************************************)
EXTENDS ChunkTransfer, SequenceTheorems, TLAPS

-----------------------------------------------------------------------------
(* Units and slices of a message                                           *)
Size(m) == HeaderSize + lengths[m]

\* The x-th unit of message m, and those after the a-th up to the b-th.
Unit(m, x) == IF x <= HeaderSize THEN <<m, "header", x>> ELSE <<m, "data", x - HeaderSize>>
Slice(m, a, b) == [j \in 1..(b - a) |-> Unit(m, a + j)]

\* Where one is on the stream after x units of message m: what messages are still to
\* come to their end, and how much of the first of them has been.
ToCome(m) == {n \in NotEmpty : n >= m}
After(m, x) == IF x < Size(m) THEN <<ToCome(m), x>> ELSE <<ToCome(m + 1), 0>>
Start(m) == <<ToCome(m), 0>>

\* The units follow each other as they do on the stream, through a message and up to
\* the first of the next one.
InRow(w) ==
  \A a, b \in 1..Len(w) : \A m \in NotEmpty : \A x \in 1..Size(m) : \A y \in Nat :
    a < b /\ w[a] = Unit(m, x) /\ y = x + (b - a) =>
      /\ y <= Size(m) => w[b] = Unit(m, y)
      /\ y = Size(m) + 1 => \E n \in NotEmpty : w[b] = Unit(n, 1) /\ Start(n) = Start(m + 1)

\* The first of the units comes at position p, position q is behind the last.
Begins(w, p) ==
  w # <<>> => \E m \in NotEmpty : \E x \in 1..Size(m) : w[1] = Unit(m, x) /\ After(m, x - 1) = p
Ends(w, p, q) ==
  IF w = <<>> THEN p = q
  ELSE \E m \in NotEmpty : \E x \in 1..Size(m) : w[Len(w)] = Unit(m, x) /\ After(m, x) = q

\* What a unit consists of.
LEMMA UnitFields ==
  ASSUME NEW m, NEW x \in Nat
  PROVE  /\ Unit(m, x)[1] = m
         /\ Unit(m, x)[2] = IF x <= 3 THEN "header" ELSE "data"
         /\ Unit(m, x)[3] = IF x <= 3 THEN x ELSE x - 3
BY DEF Unit, HeaderSize

\* A unit tells its message and its place in it.
LEMMA UnitInjective ==
  ASSUME NEW m, NEW n, NEW x \in Nat, NEW y \in Nat, Unit(m, x) = Unit(n, y)
  PROVE  m = n /\ x = y
<1>1. x <= 3 <=> y <= 3
  BY UnitFields
<1> QED  BY <1>1, UnitFields

\* The units are those of the messages; messages with bytes are messages.
LEMMA UnitsAre ==
  ASSUME lengths \in Seq(Nat)
  PROVE  /\ \A m \in Messages : Size(m) \in Nat /\ Size(m) >= 3
         /\ \A m \in Messages : \A x \in 1..Size(m) : Unit(m, x) \in Units
         /\ \A u \in Units : \E m \in Messages : \E x \in 1..Size(m) : u = Unit(m, x)
         /\ Messages = 1..Len(lengths) /\ NotEmpty \subseteq Messages
<1>1. Messages = 1..Len(lengths) /\ NotEmpty \subseteq Messages /\ \A m \in Messages : lengths[m] \in Nat
  BY DEF Messages, NotEmpty
<1>2. \A m \in Messages : Size(m) \in Nat /\ Size(m) >= 3
  BY <1>1 DEF Size, HeaderSize
<1>3. ASSUME NEW m \in Messages, NEW x \in 1..Size(m) PROVE Unit(m, x) \in Units
  <2>1. CASE x <= 3
    <3>1. x \in 1..HeaderSize /\ Unit(m, x) = Header(m)[x]
      BY <2>1 DEF Unit, Header, HeaderSize
    <3> QED  BY <3>1 DEF Units
  <2>2. CASE ~(x <= 3)
    <3>1. x - 3 \in 1..lengths[m]
      BY <1>1, <1>2, <2>2 DEF Size, HeaderSize
    <3>2. Unit(m, x) = Data(m)[x - 3]
      BY <2>2, <3>1 DEF Unit, Data, HeaderSize
    <3> QED  BY <3>1, <3>2 DEF Units
  <2> QED  BY <2>1, <2>2
<1>4. ASSUME NEW u \in Units PROVE \E m \in Messages : \E x \in 1..Size(m) : u = Unit(m, x)
  <2>1. PICK m \in Messages : \/ \E j \in 1..HeaderSize : u = Header(m)[j]
                              \/ \E j \in 1..lengths[m] : u = Data(m)[j]
    BY <1>4 DEF Units
  <2>2. CASE \E j \in 1..HeaderSize : u = Header(m)[j]
    <3>1. PICK j \in 1..HeaderSize : u = Header(m)[j]
      BY <2>2
    <3>2. j \in 1..Size(m) /\ u = Unit(m, j)
      BY <1>1, <1>2, <3>1 DEF Header, Unit, HeaderSize, Size
    <3> QED  BY <3>2
  <2>3. CASE \E j \in 1..lengths[m] : u = Data(m)[j]
    <3>1. PICK j \in 1..lengths[m] : u = Data(m)[j]
      BY <2>3
    <3>2. j + 3 \in 1..Size(m)
      BY <1>1, <3>1 DEF HeaderSize, Size
    <3>3. u = Unit(m, j + 3)
      BY <1>1, <3>1 DEF Data, Unit, HeaderSize
    <3> QED  BY <3>2, <3>3
  <2> QED  BY <2>1, <2>2, <2>3
<1> QED  BY <1>1, <1>2, <1>3, <1>4

\* Any sequence, put together and cut.
LEMMA Joined ==
  ASSUME NEW S, NEW s \in Seq(S), NEW t \in Seq(S)
  PROVE  /\ s \o t \in Seq(S) /\ Len(s \o t) = Len(s) + Len(t)
         /\ \A j \in 1..Len(s) : (s \o t)[j] = s[j]
         /\ \A j \in (Len(s) + 1)..(Len(s) + Len(t)) : (s \o t)[j] = t[j - Len(s)]
<1>1. /\ s \o t \in Seq(S) /\ Len(s \o t) = Len(s) + Len(t)
      /\ \A j \in 1..(Len(s) + Len(t)) : (s \o t)[j] = IF j <= Len(s) THEN s[j] ELSE t[j - Len(s)]
  BY ConcatProperties
<1> QED  BY <1>1

\* What First and Rest give.
LEMMA Cut ==
  ASSUME NEW S, NEW s \in Seq(S), NEW n \in 0..Len(s)
  PROVE  /\ First(s, n) \in Seq(S) /\ Len(First(s, n)) = n
         /\ \A j \in 1..n : First(s, n)[j] = s[j]
         /\ Rest(s, n) \in Seq(S) /\ Len(Rest(s, n)) = Len(s) - n
         /\ \A j \in 1..(Len(s) - n) : Rest(s, n)[j] = s[j + n]
<1>1. /\ First(s, n) \in Seq(S) /\ Len(First(s, n)) = n
      /\ \A j \in 1..n : First(s, n)[j] = s[j]
  BY DEF First
<1>2. /\ Rest(s, n) \in Seq(S) /\ Len(Rest(s, n)) = Len(s) - n
      /\ \A j \in 1..(Len(s) - n) : Rest(s, n)[j] = s[j + n]
  BY DEF Rest
<1> QED  BY <1>1, <1>2

\* Two sequences of the same elements are the same.
LEMMA SameSeq ==
  ASSUME NEW S, NEW s \in Seq(S), NEW t \in Seq(S), Len(s) = Len(t),
         \A j \in 1..Len(s) : s[j] = t[j]
  PROVE  s = t
BY SeqEqual

\* Slices are cut and put together as their bounds are.
LEMMA SliceSeq ==
  ASSUME lengths \in Seq(Nat), NEW m \in Messages, NEW a \in Nat, NEW b \in Nat,
         a <= b, b <= Size(m)
  PROVE  /\ Slice(m, a, b) \in Seq(Units) /\ Len(Slice(m, a, b)) = b - a
         /\ \A j \in 1..(b - a) : Slice(m, a, b)[j] = Unit(m, a + j)
<1>1. b - a \in Nat /\ DOMAIN Slice(m, a, b) = 1..(b - a)
  BY DEF Slice
<1>2. \A j \in 1..(b - a) : a + j \in 1..Size(m) /\ Slice(m, a, b)[j] = Unit(m, a + j)
  BY UnitsAre DEF Slice
<1>3. \A j \in 1..(b - a) : Slice(m, a, b)[j] \in Units
  BY <1>2, UnitsAre
<1>4. Slice(m, a, b) \in Seq(Units)
  <2>1. Slice(m, a, b) \in [1..(b - a) -> Units]
    BY <1>1, <1>3 DEF Slice
  <2> QED  BY <1>1, <2>1, IsASeq
<1>5. Len(Slice(m, a, b)) = b - a
  <2>1. Len(Slice(m, a, b)) \in Nat /\ 1..Len(Slice(m, a, b)) = 1..(b - a)
    BY <1>1, <1>4, LenProperties
  <2> DEFINE l == Len(Slice(m, a, b))
  <2> HIDE DEF l
  <2>2. \A d \in Nat : 1..l = 1..d /\ l \in Nat => l = d
    OBVIOUS
  <2> QED  BY <1>1, <2>1, <2>2 DEF l
<1> QED  BY <1>2, <1>4, <1>5

\* Slices that meet are put together.
LEMMA SliceJoins ==
  ASSUME lengths \in Seq(Nat), NEW m \in Messages, NEW a \in Nat, NEW b \in Nat, NEW c \in Nat,
         a <= b, b <= c, c <= Size(m)
  PROVE  Slice(m, a, b) \o Slice(m, b, c) = Slice(m, a, c)
<1> DEFINE s == Slice(m, a, b)  t == Slice(m, b, c)  u == Slice(m, a, c)
<1>0. a <= c /\ b <= Size(m) /\ b - a \in Nat /\ c - b \in Nat /\ (b - a) + (c - b) = c - a
  BY UnitsAre
<1>1. /\ s \in Seq(Units) /\ t \in Seq(Units) /\ u \in Seq(Units)
      /\ Len(s) = b - a /\ Len(t) = c - b /\ Len(u) = c - a
      /\ \A j \in 1..(b - a) : s[j] = Unit(m, a + j)
      /\ \A j \in 1..(c - b) : t[j] = Unit(m, b + j)
      /\ \A j \in 1..(c - a) : u[j] = Unit(m, a + j)
  BY <1>0, SliceSeq
<1> HIDE DEF s, t, u
<1>2. s \o t \in Seq(Units) /\ Len(s \o t) = c - a
  BY <1>0, <1>1, Joined
<1>3. ASSUME NEW j \in 1..(c - a) PROVE (s \o t)[j] = u[j]
  <2>1. CASE j <= b - a
    BY <1>0, <1>1, <2>1, Joined
  <2>2. CASE ~(j <= b - a)
    <3>1. j - (b - a) \in 1..(c - b) /\ b + (j - (b - a)) = a + j
      BY <2>2
    <3>2. j \in (Len(s) + 1)..(Len(s) + Len(t)) /\ j - Len(s) = j - (b - a)
      BY <1>1, <3>1
    <3>3. (s \o t)[j] = t[j - Len(s)]
      BY <1>1, <3>2, Joined
    <3>4. t[j - Len(s)] = Unit(m, b + (j - (b - a))) /\ u[j] = Unit(m, a + j)
      BY <1>1, <3>1, <3>2
    <3> QED  BY <3>1, <3>3, <3>4
  <2> QED  BY <2>1, <2>2
<1> QED  BY <1>1, <1>2, <1>3, SameSeq DEF s, t, u

\* A slice is cut where its bounds say.
LEMMA SliceCut ==
  ASSUME lengths \in Seq(Nat), NEW m \in Messages, NEW a \in Nat, NEW b \in Nat,
         a <= b, b <= Size(m), NEW n \in 0..(b - a)
  PROVE  First(Slice(m, a, b), n) = Slice(m, a, a + n) /\ Rest(Slice(m, a, b), n) = Slice(m, a + n, b)
<1>0. PICK c \in Nat : c = a + n
  OBVIOUS
<1>1. a <= c /\ c <= b /\ c <= Size(m) /\ c - a = n /\ b - c = (b - a) - n /\ b - a \in Nat
  BY <1>0, UnitsAre
<1> DEFINE s == Slice(m, a, b)  t == Slice(m, a, c)  u == Slice(m, c, b)
<1>2. s \in Seq(Units) /\ Len(s) = b - a /\ \A j \in 1..(b - a) : s[j] = Unit(m, a + j)
  BY SliceSeq
<1>3. t \in Seq(Units) /\ Len(t) = n /\ \A j \in 1..n : t[j] = Unit(m, a + j)
  <2>1. t \in Seq(Units) /\ Len(t) = c - a /\ \A j \in 1..(c - a) : t[j] = Unit(m, a + j)
    BY <1>1, SliceSeq
  <2> QED  BY <1>1, <2>1
<1>4. u \in Seq(Units) /\ Len(u) = b - c /\ \A j \in 1..(b - c) : u[j] = Unit(m, c + j)
  BY <1>1, SliceSeq
<1> HIDE DEF s, t, u
<1>5. n \in 0..Len(s)
  BY <1>2
<1>6. First(s, n) = t
  <2>1. First(s, n) \in Seq(Units) /\ Len(First(s, n)) = n /\ \A j \in 1..n : First(s, n)[j] = s[j]
    BY <1>2, <1>5, Cut
  <2>2. \A j \in 1..n : First(s, n)[j] = t[j]
    BY <1>2, <1>3, <1>5, <2>1
  <2> QED  BY <1>3, <2>1, <2>2, SameSeq
<1>7. Rest(s, n) = u
  <2>1. /\ Rest(s, n) \in Seq(Units) /\ Len(Rest(s, n)) = Len(s) - n
        /\ \A j \in 1..(Len(s) - n) : Rest(s, n)[j] = s[j + n]
    BY <1>2, <1>5, Cut
  <2>2. \A j \in 1..(b - c) : s[j + n] = Unit(m, c + j)
    <3> TAKE j \in 1..(b - c)
    <3>1. j + n \in 1..(b - a) /\ a + (j + n) = c + j
      BY <1>0, <1>1
    <3> QED  BY <1>2, <3>1
  <2>3. Len(s) - n = b - c
    BY <1>1, <1>2
  <2> QED  BY <1>4, <2>1, <2>2, <2>3, SameSeq
<1> QED  BY <1>0, <1>6, <1>7 DEF s, t, u

\* A header and the data of a file are slices of their message.
LEMMA HeaderData ==
  ASSUME lengths \in Seq(Nat), NEW m \in Messages
  PROVE  /\ Header(m) = Slice(m, 0, 3) /\ Data(m) = Slice(m, 3, Size(m))
         /\ Size(m) = 3 + lengths[m] /\ Data(m) \in Seq(Units) /\ Len(Data(m)) = lengths[m]
<1>1. lengths[m] \in Nat /\ Size(m) = 3 + lengths[m]
  BY DEF Size, HeaderSize, Messages
<1>2. Header(m) = Slice(m, 0, 3)
  BY DEF Header, Slice, Unit, HeaderSize
<1>3. Data(m) = Slice(m, 3, Size(m))
  <2>1. Size(m) - 3 = lengths[m]
    BY <1>1
  <2>2. \A j \in 1..lengths[m] : Unit(m, 3 + j) = <<m, "data", j>>
    BY <1>1 DEF Unit, HeaderSize
  <2> QED  BY <2>1, <2>2 DEF Data, Slice
<1>4. Data(m) \in Seq(Units) /\ Len(Data(m)) = lengths[m]
  <2>1. 3 \in Nat /\ Size(m) \in Nat /\ 3 <= Size(m) /\ Size(m) <= Size(m) /\ Size(m) - 3 = lengths[m]
    BY <1>1
  <2>2. Slice(m, 3, Size(m)) \in Seq(Units) /\ Len(Slice(m, 3, Size(m))) = Size(m) - 3
    BY <2>1, SliceSeq
  <2> QED  BY <1>3, <2>1, <2>2
<1> QED  BY <1>1, <1>2, <1>3, <1>4

-----------------------------------------------------------------------------
(* The stream                                                              *)

\* Where one is before and after a message, and what tells positions apart.
LEMMA Positions ==
  ASSUME lengths \in Seq(Nat)
  PROVE  /\ \A m \in NotEmpty : m \in Messages /\ m \in Nat /\ Size(m) \in Nat /\ Size(m) > 3
         /\ \A m \in NotEmpty : After(m, 0) = Start(m) /\ After(m, Size(m)) = Start(m + 1)
         /\ \A m \in Nat \ NotEmpty : Start(m) = Start(m + 1)
         /\ \A m \in NotEmpty : \A a \in Nat : Start(m) = Start(a) =>
              m >= a /\ \A n \in NotEmpty : n >= a => n >= m
         /\ \A m, n \in NotEmpty : \A x \in 0..(Size(m) - 1) : \A y \in 0..(Size(n) - 1) :
              After(m, x) = After(n, y) => m = n /\ x = y
<1>1. ASSUME NEW m \in NotEmpty PROVE m \in Messages /\ m \in Nat /\ Size(m) \in Nat /\ Size(m) > 3
  BY DEF NotEmpty, Messages, Size, HeaderSize
<1>2. ASSUME NEW m \in NotEmpty PROVE After(m, 0) = Start(m) /\ After(m, Size(m)) = Start(m + 1)
  BY <1>1 DEF After, Start
<1>3. ASSUME NEW m \in Nat \ NotEmpty PROVE Start(m) = Start(m + 1)
  <2>1. \A n \in NotEmpty : n >= m <=> n >= m + 1
    BY <1>1
  <2> QED  BY <2>1 DEF Start, ToCome
<1>4. ASSUME NEW m \in NotEmpty, NEW a \in Nat, Start(m) = Start(a)
      PROVE  m >= a /\ \A n \in NotEmpty : n >= a => n >= m
  <2>1. ToCome(m) = ToCome(a)
    BY <1>4 DEF Start
  <2>2. m >= m
    BY <1>1
  <2> QED  BY <2>1, <2>2 DEF ToCome
<1>5. ASSUME NEW m \in NotEmpty, NEW n \in NotEmpty, NEW x \in 0..(Size(m) - 1),
             NEW y \in 0..(Size(n) - 1), After(m, x) = After(n, y)
      PROVE  m = n /\ x = y
  <2>1. ToCome(m) = ToCome(n) /\ x = y
    BY <1>1, <1>5 DEF After
  <2>2. m >= m /\ n >= n
    BY <1>1
  <2>3. m >= n /\ n >= m
    BY <2>1, <2>2 DEF ToCome
  <2> QED  BY <1>1, <2>1, <2>3
<1> QED  BY <1>1, <1>2, <1>3, <1>4, <1>5

\* A unit of the stream tells those behind it, up to the next message's first.
LEMMA RowAhead ==
  ASSUME NEW w, InRow(w), NEW a \in 1..Len(w), NEW b \in 1..Len(w), NEW m \in NotEmpty,
         NEW x \in 1..Size(m), NEW y \in Nat, a < b, w[a] = Unit(m, x), y = x + (b - a)
  PROVE  /\ y <= Size(m) => w[b] = Unit(m, y)
         /\ y = Size(m) + 1 => \E n \in NotEmpty : w[b] = Unit(n, 1) /\ Start(n) = Start(m + 1)
BY DEF InRow

\* What is sent next of a message goes on where the stream ends.
LEMMA StreamGrows ==
  ASSUME lengths \in Seq(Nat), NEW w \in Seq(Units), NEW p,
         NEW m \in NotEmpty, NEW a \in Nat, NEW b \in Nat, a <= b, b <= Size(m),
         InRow(w), Begins(w, p), Ends(w, p, After(m, a))
  PROVE  LET v == w \o Slice(m, a, b)
         IN InRow(v) /\ Begins(v, p) /\ Ends(v, p, After(m, b))
<1> DEFINE s == Slice(m, a, b)  v == w \o s  l == Len(w)
<1>1. m \in Messages /\ m \in Nat /\ Size(m) \in Nat /\ Size(m) > 3
  BY Positions
<1>2. /\ s \in Seq(Units) /\ Len(s) = b - a /\ b - a \in Nat
      /\ \A j \in 1..(b - a) : s[j] = Unit(m, a + j)
  BY <1>1, SliceSeq
<1> HIDE DEF s
<1>3. /\ v \in Seq(Units) /\ Len(v) = l + (b - a) /\ l \in Nat
      /\ \A j \in 1..l : v[j] = w[j]
      /\ \A j \in (l + 1)..(l + Len(s)) : v[j] = s[j - l]
  BY <1>2, Joined
<1> HIDE DEF v, l
<1>4. ASSUME NEW j \in 1..Len(v), l < j PROVE v[j] = Unit(m, a + (j - l)) /\ j - l \in 1..(b - a)
  <2>1. j \in (l + 1)..(l + Len(s)) /\ j - l \in 1..(b - a)
    BY <1>2, <1>3, <1>4
  <2> QED  BY <1>2, <1>3, <2>1
<1>5. ASSUME NEW i \in 1..Len(v), NEW j \in 1..Len(v), NEW n \in NotEmpty, NEW x \in 1..Size(n),
             NEW y \in Nat, i < j, v[i] = Unit(n, x), y = x + (j - i)
      PROVE  /\ y <= Size(n) => v[j] = Unit(n, y)
             /\ y = Size(n) + 1 => \E o \in NotEmpty : v[j] = Unit(o, 1) /\ Start(o) = Start(n + 1)
  <2>1. n \in Nat /\ Size(n) \in Nat /\ Size(n) > 3 /\ x \in Nat /\ i \in Nat /\ j \in Nat
    BY Positions
  <2>2. CASE j <= l
    <3>1. i \in 1..l /\ j \in 1..l /\ v[i] = w[i] /\ v[j] = w[j]
      <4>1. l \in Nat /\ i >= 1 /\ j >= 1 /\ i <= l
        BY <1>3, <1>5, <2>1, <2>2
      <4>2. i \in 1..l /\ j \in 1..l
        BY <2>1, <2>2, <4>1
      <4> QED  BY <1>3, <4>2
    <3>2. i < j /\ w[i] = Unit(n, x) /\ y = x + (j - i) /\ i \in 1..Len(w) /\ j \in 1..Len(w)
      BY <1>5, <3>1 DEF l
    <3>3. /\ y <= Size(n) => w[j] = Unit(n, y)
          /\ y = Size(n) + 1 => \E o \in NotEmpty : w[j] = Unit(o, 1) /\ Start(o) = Start(n + 1)
      BY <3>2, RowAhead
    <3> QED  BY <3>1, <3>3
  <2>3. CASE l < i
    <3>1. l < j
      BY <1>3, <1>5, <2>1, <2>3
    <3>2. v[i] = Unit(m, a + (i - l)) /\ i - l \in 1..(b - a) /\ v[j] = Unit(m, a + (j - l))
          /\ j - l \in 1..(b - a)
      BY <1>4, <2>3, <3>1
    <3>3. PICK z \in Nat : z = a + (i - l)
      BY <3>2
    <3>4. n = m /\ x = z
      <4>1. Unit(n, x) = Unit(m, z)
        BY <1>5, <3>2, <3>3
      <4>2. x \in Nat /\ z \in Nat
        BY <2>1
      <4> QED  BY <4>1, <4>2, UnitInjective
    <3>5. y = a + (j - l) /\ y <= Size(m)
      BY <1>1, <1>3, <1>5, <2>1, <3>2, <3>3, <3>4
    <3>6. ~(y = Size(n) + 1)
      BY <1>1, <3>4, <3>5
    <3> QED  BY <3>2, <3>4, <3>5, <3>6
  <2>4. CASE i <= l /\ l < j
    <3>1. i \in 1..l /\ l \in 1..l /\ v[i] = w[i] /\ w # <<>>
      <4>1. l \in Nat /\ i >= 1
        BY <1>3, <2>1
      <4>2. i \in 1..l /\ l \in 1..l /\ l > 0
        BY <2>1, <2>4, <4>1
      <4>3. w # <<>>
        BY <4>2 DEF l
      <4> QED  BY <1>3, <4>2, <4>3
    <3>2. PICK o \in NotEmpty : \E e \in 1..Size(o) : w[l] = Unit(o, e) /\ After(o, e) = After(m, a)
      BY <3>1 DEF Ends, l
    <3>3. PICK e \in 1..Size(o) : w[l] = Unit(o, e) /\ After(o, e) = After(m, a)
      BY <3>2
    <3>4. o \in Nat /\ Size(o) \in Nat /\ Size(o) > 3 /\ e \in Nat
      BY <3>3, Positions
    <3>5. v[j] = Unit(m, a + (j - l)) /\ j - l \in 1..(b - a)
      BY <1>4, <2>4
    <3>6. PICK z \in Nat : z = x + (l - i)
      BY <1>3, <2>1, <2>4
    <3>7. y = z + (j - l) /\ j - l >= 1 /\ j - l \in Nat
      BY <1>3, <1>5, <2>1, <3>5, <3>6
    <3>8. CASE z <= Size(n)
      <4>1. w[l] = Unit(n, z)
        <5>1. CASE i = l
          <6>1. z = x
            BY <1>3, <2>1, <3>6, <5>1
          <6> QED  BY <1>5, <3>1, <5>1, <6>1
        <5>2. CASE i < l
          <6>1. i \in 1..Len(w) /\ l \in 1..Len(w) /\ w[i] = Unit(n, x)
            BY <1>5, <3>1 DEF l
          <6> QED  BY <3>6, <3>8, <5>2, <6>1, RowAhead
        <5> QED  BY <1>3, <2>1, <2>4, <5>1, <5>2
      <4>2. o = n /\ e = z
        <5>1. Unit(o, e) = Unit(n, z)
          BY <3>3, <4>1
        <5> QED  BY <3>4, <5>1, UnitInjective
      <4>3. a < Size(m)
        BY <1>1, <3>5
      <4>4. CASE z < Size(n)
        <5>1. z \in 0..(Size(n) - 1) /\ a \in 0..(Size(m) - 1)
          BY <1>1, <2>1, <4>3, <4>4
        <5>2. n = m /\ z = a
          BY <3>3, <4>2, <5>1, Positions
        <5>3. y = a + (j - l) /\ y <= Size(m)
          BY <1>1, <3>5, <3>7, <5>2
        <5>4. ~(y = Size(n) + 1)
          BY <1>1, <5>2, <5>3
        <5> QED  BY <3>5, <5>2, <5>3, <5>4
      <4>5. CASE z = Size(n)
        <5>1. After(m, a) = Start(n + 1) /\ After(m, a) = <<ToCome(m), a>>
          BY <3>3, <4>2, <4>3, <4>5, Positions DEF After
        <5>2. a = 0 /\ Start(m) = Start(n + 1)
          BY <5>1 DEF Start
        <5>3. ~(y <= Size(n))
          BY <2>1, <3>7, <4>5
        <5>4. y = Size(n) + 1 => a + (j - l) = 1
          <6>1. PICK d \in Nat : d = j - l
            BY <3>7
          <6>2. y = z + d
            BY <3>7, <6>1
          <6>3. y = z + 1 => 0 + d = 1
            BY <6>1, <6>2
          <6> QED  BY <4>5, <5>2, <6>1, <6>3
        <5> QED  BY <3>5, <5>2, <5>3, <5>4
      <4> QED  BY <2>1, <3>8, <4>4, <4>5
    <3>9. CASE ~(z <= Size(n))
      <4>1. y > Size(n) + 1
        <5>1. PICK d \in Nat : d = j - l /\ d >= 1
          BY <3>7
        <5>2. PICK c \in Nat : c = Size(n)
          BY <2>1
        <5>3. y = z + d /\ z > c
          BY <3>7, <3>9, <5>1, <5>2
        <5>4. z + d > c + 1
          BY <5>1, <5>2, <5>3
        <5> QED  BY <5>2, <5>3, <5>4
      <4> QED  BY <2>1, <4>1
    <3> QED  BY <3>8, <3>9
  <2> QED  BY <1>3, <2>1, <2>2, <2>3, <2>4
<1>6. InRow(v)
  BY <1>5 DEF InRow
<1>7. Begins(v, p)
  <2> SUFFICES ASSUME v # <<>>
               PROVE  \E n \in NotEmpty : \E x \in 1..Size(n) : v[1] = Unit(n, x) /\ After(n, x - 1) = p
    BY DEF Begins
  <2>1. CASE w # <<>>
    <3>1. 1 \in 1..l /\ v[1] = w[1]
      BY <1>3, <2>1 DEF l
    <3> QED  BY <2>1, <3>1 DEF Begins
  <2>2. CASE w = <<>>
    <3>1. l = 0 /\ p = After(m, a) /\ 1 \in 1..Len(v)
      BY <1>3, <2>2 DEF l, Ends
    <3>2. v[1] = Unit(m, a + (1 - l)) /\ 1 - l \in 1..(b - a)
      BY <1>4, <3>1
    <3>3. a + (1 - l) = a + 1 /\ a + 1 \in 1..Size(m) /\ (a + 1) - 1 = a
      BY <1>1, <3>1, <3>2
    <3> QED  BY <3>1, <3>2, <3>3
  <2> QED  BY <2>1, <2>2
<1>8. Ends(v, p, After(m, b))
  <2>1. CASE a = b
    <3>1. Len(v) = Len(w) /\ \A j \in 1..Len(w) : v[j] = w[j]
      BY <1>3, <2>1 DEF l
    <3>2. v = w
      BY <1>3, <3>1, SameSeq
    <3> QED  BY <2>1, <3>2
  <2>2. CASE a < b
    <3>1. Len(v) \in 1..Len(v) /\ l < Len(v) /\ a + (Len(v) - l) = b /\ b \in 1..Size(m) /\ v # <<>>
      BY <1>1, <1>2, <1>3, <2>2
    <3>2. v[Len(v)] = Unit(m, b)
      BY <1>4, <3>1
    <3> QED  BY <3>1, <3>2 DEF Ends
  <2> QED  BY <2>1, <2>2
<1> QED  BY <1>6, <1>7, <1>8 DEF v, s

\* What is taken off the stream, up to the end of a message, is the next of it.
LEMMA StreamTaken ==
  ASSUME lengths \in Seq(Nat), NEW w \in Seq(Units),
         NEW m \in NotEmpty, NEW x \in Nat, NEW n \in 0..Len(w), x + n <= Size(m),
         InRow(w), Begins(w, After(m, x))
  PROVE  /\ First(w, n) = Slice(m, x, x + n)
         /\ InRow(Rest(w, n)) /\ Begins(Rest(w, n), After(m, x + n))
         /\ \A q : Ends(w, After(m, x), q) => Ends(Rest(w, n), After(m, x + n), q)
<1> DEFINE v == Rest(w, n)
<1>1. m \in Messages /\ m \in Nat /\ Size(m) \in Nat /\ Size(m) > 3
  BY Positions
<1>2. /\ First(w, n) \in Seq(Units) /\ Len(First(w, n)) = n
      /\ \A j \in 1..n : First(w, n)[j] = w[j]
      /\ v \in Seq(Units) /\ Len(v) = Len(w) - n
      /\ \A j \in 1..(Len(w) - n) : v[j] = w[j + n]
  BY Cut
<1> HIDE DEF v
<1>3. n \in Nat /\ x + n \in Nat /\ x <= x + n /\ Len(w) \in Nat
  OBVIOUS
<1>4. ASSUME n > 0 PROVE w[1] = Unit(m, x + 1) /\ x + 1 \in 1..Size(m)
  <2>1. w # <<>> /\ x \in 0..(Size(m) - 1) /\ x + 1 \in 1..Size(m)
    BY <1>1, <1>3, <1>4
  <2>2. PICK o \in NotEmpty : \E y \in 1..Size(o) : w[1] = Unit(o, y) /\ After(o, y - 1) = After(m, x)
    BY <2>1 DEF Begins
  <2>3. PICK y \in 1..Size(o) : w[1] = Unit(o, y) /\ After(o, y - 1) = After(m, x)
    BY <2>2
  <2>4. y - 1 \in 0..(Size(o) - 1)
    BY Positions
  <2>5. o = m /\ y - 1 = x
    BY <2>1, <2>3, <2>4, Positions
  <2>6. y = x + 1
    BY <2>5
  <2> QED  BY <2>1, <2>3, <2>5, <2>6
<1>5. ASSUME NEW j \in 1..n, NEW y \in Nat, y = x + j PROVE w[j] = Unit(m, y)
  <2>1. CASE j = 1
    <3>1. n > 0 /\ y = x + 1
      BY <1>5, <2>1
    <3> QED  BY <1>4, <2>1, <3>1
  <2>2. CASE 1 < j
    <3>1. 1 \in 1..Len(w) /\ j \in 1..Len(w) /\ y = (x + 1) + (j - 1) /\ y <= Size(m) /\ n > 0
      BY <1>1, <1>3, <1>5, <2>2
    <3>2. PICK e \in 1..Size(m) : e = x + 1 /\ w[1] = Unit(m, e)
      BY <1>4, <3>1
    <3>3. y = e + (j - 1)
      BY <3>1, <3>2
    <3> QED  BY <2>2, <3>1, <3>2, <3>3 DEF InRow
  <2> QED  BY <2>1, <2>2
<1>6. First(w, n) = Slice(m, x, x + n)
  <2>1. PICK b \in Nat : b = x + n
    BY <1>3
  <2>2. /\ Slice(m, x, b) \in Seq(Units) /\ Len(Slice(m, x, b)) = b - x
        /\ \A j \in 1..(b - x) : Slice(m, x, b)[j] = Unit(m, x + j)
    BY <1>1, <1>3, <2>1, SliceSeq
  <2>3. b - x = n
    BY <1>3, <2>1
  <2>4. \A j \in 1..n : First(w, n)[j] = Slice(m, x, b)[j]
    BY <1>2, <1>5, <2>2, <2>3
  <2> QED  BY <1>2, <2>1, <2>2, <2>3, <2>4, SameSeq
<1>7. InRow(v)
  <2>1. ASSUME NEW i \in 1..Len(v), NEW j \in 1..Len(v), NEW o \in NotEmpty, NEW y \in 1..Size(o),
               NEW z \in Nat, i < j, v[i] = Unit(o, y), z = y + (j - i)
        PROVE  /\ z <= Size(o) => v[j] = Unit(o, z)
               /\ z = Size(o) + 1 => \E r \in NotEmpty : v[j] = Unit(r, 1) /\ Start(r) = Start(o + 1)
    <3>1. PICK f, g \in 1..Len(w) : f = i + n /\ g = j + n
      BY <1>2, <1>3
    <3>2. v[i] = w[f] /\ v[j] = w[g]
      BY <1>2, <3>1
    <3>3. f < g /\ z = y + (g - f) /\ w[f] = Unit(o, y)
      BY <1>3, <2>1, <3>1, <3>2, Positions
    <3>4. /\ z <= Size(o) => w[g] = Unit(o, z)
          /\ z = Size(o) + 1 => \E r \in NotEmpty : w[g] = Unit(r, 1) /\ Start(r) = Start(o + 1)
      BY <3>3, RowAhead
    <3> QED  BY <3>2, <3>4
  <2> QED  BY <2>1 DEF InRow
<1>8. Begins(v, After(m, x + n))
  <2> SUFFICES ASSUME v # <<>>
               PROVE  \E o \in NotEmpty : \E y \in 1..Size(o) :
                        v[1] = Unit(o, y) /\ After(o, y - 1) = After(m, x + n)
    BY DEF Begins
  <2>1. PICK g \in 1..Len(w) : g = n + 1
    BY <1>2, <1>3
  <2>2. 1 \in 1..Len(v) /\ v[1] = w[g] /\ 1 \in 1..Len(w)
    BY <1>2, <1>3, <2>1
  <2>3. CASE n = 0
    <3>1. w # <<>> /\ v[1] = w[1] /\ x + n = x
      BY <2>1, <2>2, <2>3
    <3> QED  BY <3>1 DEF Begins
  <2>4. CASE n > 0
    <3>1. PICK z \in Nat : z = (x + 1) + (g - 1)
      BY <1>3, <2>1
    <3>2. 1 < g /\ z = (x + n) + 1
      BY <1>3, <2>1, <2>4, <3>1
    <3>3. /\ z <= Size(m) => w[g] = Unit(m, z)
          /\ z = Size(m) + 1 => \E o \in NotEmpty : w[g] = Unit(o, 1) /\ Start(o) = Start(m + 1)
      <4>1. w[1] = Unit(m, x + 1) /\ x + 1 \in 1..Size(m)
        BY <1>4, <2>4
      <4> QED  BY <2>2, <3>1, <3>2, <4>1, RowAhead
    <3>4. CASE z <= Size(m)
      <4>1. z \in 1..Size(m) /\ z - 1 = x + n
        BY <1>1, <1>3, <3>2, <3>4
      <4> QED  BY <2>2, <3>3, <3>4, <4>1
    <3>5. CASE z = Size(m) + 1
      <4>1. x + n = Size(m)
        <5>1. PICK t \in Nat : t = x + n
          BY <1>3
        <5>2. z = t + 1 /\ Size(m) \in Nat
          BY <1>1, <3>2, <5>1
        <5> QED  BY <3>5, <5>1, <5>2
      <4>2. PICK o \in NotEmpty : v[1] = Unit(o, 1) /\ Start(o) = Start(m + 1)
        BY <2>2, <3>3, <3>5
      <4>3. 1 \in 1..Size(o) /\ 1 - 1 = 0 /\ After(o, 0) = After(m, x + n)
        BY <4>1, <4>2, Positions
      <4> QED  BY <4>2, <4>3
    <3> QED  BY <1>1, <1>3, <3>2, <3>4, <3>5
  <2> QED  BY <1>3, <2>3, <2>4
<1>9. ASSUME NEW q, Ends(w, After(m, x), q) PROVE Ends(v, After(m, x + n), q)
  <2>1. CASE n = 0
    <3>1. v = w /\ x + n = x
      <4>1. Len(v) = Len(w) /\ \A j \in 1..Len(v) : v[j] = w[j]
        BY <1>2, <2>1
      <4> QED  BY <1>2, <2>1, <4>1, SameSeq
    <3> QED  BY <1>9, <3>1
  <2>2. CASE n > 0 /\ v = <<>>
    <3>1. n = Len(w) /\ w # <<>> /\ n \in 1..n
      BY <1>2, <1>3, <2>2
    <3>2. w[n] = Unit(m, x + n) /\ x + n \in Nat
      BY <1>3, <1>5, <3>1
    <3>3. PICK o \in NotEmpty : \E y \in 1..Size(o) : w[n] = Unit(o, y) /\ After(o, y) = q
      BY <1>9, <3>1 DEF Ends
    <3>4. PICK y \in 1..Size(o) : w[n] = Unit(o, y) /\ After(o, y) = q
      BY <3>3
    <3>5. y \in Nat
      BY Positions
    <3>6. o = m /\ y = x + n
      BY <3>2, <3>4, <3>5, UnitInjective
    <3> QED  BY <2>2, <3>4, <3>6 DEF Ends
  <2>3. CASE n > 0 /\ v # <<>>
    <3>1. Len(v) \in 1..Len(v) /\ Len(v) = Len(w) - n /\ Len(v) + n = Len(w)
      BY <1>2, <1>3, <2>3
    <3>2. w # <<>>
      BY <1>3, <2>3, <3>1
    <3>3. Len(v) \in 1..(Len(w) - n)
      BY <3>1
    <3>4. v[Len(v)] = w[Len(v) + n]
      BY <1>2, <3>3
    <3> QED  BY <1>9, <2>3, <3>1, <3>2, <3>4 DEF Ends
  <2> QED  BY <1>3, <2>1, <2>2, <2>3
<1> QED  BY <1>6, <1>7, <1>8, <1>9 DEF v
Busy == sstate \in {"read", "copy", "send_full", "send_rest"}

\* What send_file_data sends next, and how much of the message it has sent.
Front == IF Sending THEN toSend ELSE com
OnWire == HeaderSize + haveSent - Len(pending) - Len(Front)

\* What the two ends keep.  What is left of the current message is in two pieces, the
\* one at the front to be sent first.
SetupInv == upload \in BOOLEAN /\ lengths \in Seq(Nat) /\ lengths # <<>>

SenderInv ==
  /\ sstate \in {"idle", "read", "copy", "send_full", "send_rest", "dead"}
  /\ k \in 1..(Len(lengths) + 1) /\ haveSent \in Nat
  /\ pending \in Seq(Units) /\ com \in Seq(Units) /\ toSend \in Seq(Units)
  /\ Len(com) <= Buffer
  /\ sstate \in {"idle", "read", "send_rest"} => pending = <<>>
  /\ Busy => /\ k \in NotEmpty /\ haveSent <= lengths[k]
             /\ OnWire \in Nat
             /\ Front = Slice(k, OnWire, OnWire + Len(Front))
             /\ pending = Slice(k, OnWire + Len(Front), HeaderSize + haveSent)

WireInv == wire \in Seq(Units) /\ Len(wire) <= Wire

ReceiverInv ==
  /\ got \in Seq(Units)
  /\ rstate \in IF upload THEN {"header", "data", "invalid"}
                ELSE {"ask", "header", "data", "done", "failed", "undefined"}
  /\ asked \in 0..Len(lengths) /\ expected \in Nat
  /\ rstate = "ask" => asked < Len(lengths)
  /\ rstate = "data" \/ (rstate = "header" /\ ~upload) => asked > 0
  /\ files \in Seq([message : Messages, bytes : Seq(Units)])
  /\ refused \in BOOLEAN

TypeInv == SetupInv /\ SenderInv /\ WireInv /\ ReceiverInv

\* The position of the sender, and the one the receiver reads at.
SenderAt == IF Busy THEN After(k, OnWire) ELSE Start(k)
ReceiverAt ==
  CASE rstate = "data" -> After(asked, HeaderSize + Len(got))
    [] rstate = "header" /\ ~upload -> Start(asked)
    [] rstate = "header" /\ upload /\ refused -> <<ToCome(asked + 1), HeaderSize>>
    [] OTHER -> Start(asked + 1)

-----------------------------------------------------------------------------
(* The sender                                                              *)

\* Nothing lies between a place and itself.
LEMMA EmptySlice == \A m : \A a \in Nat : Slice(m, a, a) = <<>>
BY DEF Slice

\* A read of the file gives the next slice of the message.
LEMMA DataPart ==
  ASSUME lengths \in Seq(Nat), NEW m \in Messages, NEW h \in Nat, NEW n \in Nat, h + n <= lengths[m]
  PROVE  SubSeq(Data(m), h + 1, h + n) = Slice(m, 3 + h, 3 + h + n)
<1>1. /\ Data(m) \in Seq(Units) /\ Len(Data(m)) = lengths[m] /\ Size(m) = 3 + lengths[m]
      /\ lengths[m] \in Nat
  BY HeaderData DEF Messages
<1>2. PICK a, b \in Nat : a = 3 + h /\ b = 3 + h + n /\ a <= b /\ b <= Size(m) /\ b - a = n
  BY <1>1
<1>3. /\ Slice(m, a, b) \in Seq(Units) /\ Len(Slice(m, a, b)) = n
      /\ \A j \in 1..n : Slice(m, a, b)[j] = Unit(m, a + j)
  <2>1. /\ Slice(m, a, b) \in Seq(Units) /\ Len(Slice(m, a, b)) = b - a
        /\ \A j \in 1..(b - a) : Slice(m, a, b)[j] = Unit(m, a + j)
    <3>1. a <= b /\ b <= Size(m)
      BY <1>2
    <3> QED  BY <3>1, SliceSeq
  <2>2. b - a = n
    BY <1>2
  <2> QED  BY <2>1, <2>2
<1> DEFINE s == SubSeq(Data(m), h + 1, h + n)
<1>4. s \in Seq(Units) /\ Len(s) = n /\ \A j \in 1..n : s[j] = Data(m)[h + j]
  BY <1>1
<1> HIDE DEF s
<1>5. \A j \in 1..n : Data(m)[h + j] = Unit(m, a + j)
  <2> TAKE j \in 1..n
  <2>1. h + j \in 1..lengths[m] /\ ~(a + j <= 3) /\ (a + j) - 3 = h + j
    BY <1>1, <1>2
  <2> QED  BY <2>1 DEF Data, Unit, HeaderSize
<1>6. s = Slice(m, a, b)
  BY <1>3, <1>4, <1>5, SameSeq
<1> QED  BY <1>2, <1>6 DEF s

\* Where a sender in the middle of a message is.
LEMMA InMessage ==
  ASSUME TypeInv, Busy
  PROVE  /\ k \in NotEmpty /\ k \in Messages /\ k \in Nat /\ Size(k) = 3 + lengths[k] /\ lengths[k] \in Nat
         /\ OnWire \in Nat /\ Len(Front) \in Nat /\ Len(pending) \in Nat
         /\ Front \in Seq(Units)
         /\ OnWire + Len(Front) + Len(pending) = 3 + haveSent /\ haveSent <= lengths[k]
         /\ haveSent \in Nat
         /\ Front = Slice(k, OnWire, OnWire + Len(Front))
         /\ pending = Slice(k, OnWire + Len(Front), 3 + haveSent)
         /\ SenderAt = After(k, OnWire)
<1>1. k \in NotEmpty /\ k \in Messages /\ k \in Nat /\ Size(k) = 3 + lengths[k] /\ lengths[k] \in Nat
  BY Positions, HeaderData DEF TypeInv, SetupInv, SenderInv, Messages
<1>2. Front \in Seq(Units) /\ pending \in Seq(Units)
  BY DEF TypeInv, SenderInv, Front
<1>3. OnWire \in Nat /\ haveSent \in Nat /\ haveSent <= lengths[k] /\ OnWire = 3 + haveSent - Len(pending) - Len(Front)
  BY DEF TypeInv, SenderInv, OnWire, HeaderSize
<1>4. OnWire + Len(Front) + Len(pending) = 3 + haveSent
  BY <1>2, <1>3
<1> QED  BY <1>1, <1>2, <1>3, <1>4 DEF TypeInv, SenderInv, SenderAt, HeaderSize

\* The sender's part of a step that puts nothing on the wire.
LEMMA BeginSendStep ==
  ASSUME TypeInv, BeginSend, UNCHANGED setup
  PROVE  SenderInv' /\ SenderAt' = SenderAt /\ (Busy' => upload \/ k' <= asked)
<1>1. /\ sstate = "idle" /\ k \in Messages /\ pending = <<>> /\ pending' = <<>> /\ toSend' = toSend
      /\ haveSent' = 0 /\ lengths' = lengths /\ k \in Nat /\ Messages = 1..Len(lengths)
      /\ lengths \in Seq(Nat) /\ com \in Seq(Units) /\ toSend \in Seq(Units) /\ Len(com) <= Buffer
  BY UnitsAre DEF BeginSend, TypeInv, SetupInv, SenderInv, setup
<1>2. Units' = Units /\ NotEmpty' = NotEmpty /\ \A m : ToCome(m)' = ToCome(m) /\ Size(m)' = Size(m)
  BY <1>1 DEF Units, NotEmpty, ToCome, Size, Messages, Header, Data
<1>3. SenderAt = Start(k)
  BY <1>1 DEF SenderAt, Busy
<1>4. CASE lengths[k] = 0
  <2>1. k' = k + 1 /\ sstate' = "idle" /\ com' = com
    BY <1>1, <1>4 DEF BeginSend
  <2>2. k \in Nat \ NotEmpty
    BY <1>1, <1>4 DEF NotEmpty
  <2>3. SenderAt' = Start(k + 1)
    BY <1>2, <2>1 DEF SenderAt, Busy, Start
  <2>4. SenderInv'
    BY <1>1, <1>2, <2>1 DEF SenderInv, Busy
  <2> QED  BY <1>1, <1>3, <2>1, <2>2, <2>3, <2>4, Positions DEF Busy
<1>5. CASE lengths[k] # 0
  <2>1. k' = k /\ sstate' = "read" /\ com' = Header(k)
    BY <1>1, <1>5 DEF BeginSend
  <2>2. k \in NotEmpty /\ lengths[k] \in Nat
    BY <1>1, <1>5 DEF NotEmpty, Messages
  <2>3. /\ com' = Slice(k, 0, 3) /\ com' \in Seq(Units) /\ Len(com') = 3
    <3>1. Size(k) = 3 + lengths[k] /\ Header(k) = Slice(k, 0, 3) /\ 3 <= Size(k)
      BY <1>1, <2>2, HeaderData
    <3>2. Slice(k, 0, 3) \in Seq(Units) /\ Len(Slice(k, 0, 3)) = 3 - 0
      <4>1. 0 <= 3 /\ 3 <= Size(k) /\ 0 \in Nat /\ 3 \in Nat /\ k \in Messages /\ lengths \in Seq(Nat)
        BY <1>1, <3>1
      <4> QED  BY <4>1, SliceSeq
    <3> QED  BY <2>1, <3>1, <3>2
  <2>4. Front' = com' /\ OnWire' = 0 /\ Busy'
    BY <1>1, <2>1, <2>3 DEF Front, OnWire, Sending, HeaderSize, Busy
  <2>5. pending' = Slice(k, 3, 3)
    BY <1>1, EmptySlice
  <2>6. SenderInv'
    <3>1. /\ k' \in NotEmpty' /\ haveSent' \in Nat /\ haveSent' <= lengths'[k'] /\ k' \in 1..(Len(lengths') + 1)
          /\ Len(com') <= Buffer
      <4>1. k \in 1..(Len(lengths) + 1) /\ 0 <= lengths[k]
        BY <1>1, <2>2
      <4>2. Len(com') <= Buffer
        <5>1. Len(com') = 3
          BY <2>3
        <5>2. Buffer \in Nat /\ Buffer > 3
          BY TransferAssumption DEF HeaderSize
        <5> QED  BY <5>1, <5>2
      <4> QED  BY <1>1, <1>2, <2>1, <2>2, <4>1, <4>2
    <3>2. OnWire' \in Nat /\ OnWire' + Len(Front') = 3 /\ HeaderSize + haveSent' = 3 /\ OnWire' = 0
      BY <1>1, <2>3, <2>4 DEF HeaderSize
    <3>3. Front' = Slice(k', OnWire', OnWire' + Len(Front')) /\ pending' = Slice(k', OnWire' + Len(Front'), HeaderSize + haveSent')
      BY <2>1, <2>3, <2>4, <2>5, <3>2
    <3> QED  BY <1>1, <1>2, <2>1, <2>3, <2>4, <3>1, <3>2, <3>3 DEF SenderInv
  <2>7. SenderAt' = After(k, 0)
    BY <1>2, <2>1, <2>4 DEF SenderAt, After
  <2> QED  BY <1>1, <1>3, <2>1, <2>2, <2>4, <2>6, <2>7, Positions DEF BeginSend
<1> QED  BY <1>4, <1>5

\* A piece read from the file is the next slice of the message.
LEMMA ReadFileStep ==
  ASSUME TypeInv, ReadFile, UNCHANGED setup
  PROVE  SenderInv' /\ SenderAt' = SenderAt
<1>1. /\ sstate = "read" /\ sstate' = "copy" /\ Busy /\ Busy' /\ k' = k /\ com' = com /\ toSend' = toSend
      /\ lengths' = lengths /\ pending = <<>> /\ Front = com /\ Front' = com
  BY DEF ReadFile, TypeInv, SenderInv, Busy, Front, Sending, setup
<1>2. Units' = Units /\ NotEmpty' = NotEmpty /\ \A m : ToCome(m)' = ToCome(m) /\ Size(m)' = Size(m)
  BY <1>1 DEF Units, NotEmpty, ToCome, Size, Messages, Header, Data
<1>3. PICK n \in Nat : n <= lengths[k] - haveSent /\ haveSent' = haveSent + n
                       /\ pending' = SubSeq(Data(k), haveSent + 1, haveSent + n)
  <2>1. Smaller(Buffer, lengths[k] - haveSent) \in Nat
        /\ Smaller(Buffer, lengths[k] - haveSent) <= lengths[k] - haveSent
    BY <1>1, InMessage, TransferAssumption DEF Smaller
  <2> QED  BY <2>1 DEF ReadFile
<1>4. /\ haveSent \in Nat /\ haveSent + n <= lengths[k] /\ lengths[k] \in Nat /\ k \in NotEmpty
      /\ OnWire \in Nat /\ Len(com) \in Nat /\ OnWire + Len(com) = 3 + haveSent
      /\ com = Slice(k, OnWire, OnWire + Len(com)) /\ Size(k) = 3 + lengths[k] /\ k \in Messages
  BY <1>1, <1>3, InMessage
<1>5. pending' = Slice(k, 3 + haveSent, 3 + haveSent + n)
  BY <1>3, <1>4, DataPart DEF TypeInv, SetupInv
<1>6. pending' \in Seq(Units) /\ Len(pending') = n
  <2>1. PICK a, b \in Nat : a = 3 + haveSent /\ b = 3 + haveSent + n /\ a <= b /\ b <= Size(k) /\ b - a = n
    BY <1>4
  <2>2. Slice(k, a, b) \in Seq(Units) /\ Len(Slice(k, a, b)) = n
    BY <1>4, <2>1, SliceSeq DEF TypeInv, SetupInv
  <2> QED  BY <1>5, <2>1, <2>2
<1>7. OnWire' = OnWire
  BY <1>1, <1>3, <1>4, <1>6 DEF OnWire, HeaderSize
<1>8. pending' = Slice(k, OnWire + Len(com), 3 + haveSent')
  BY <1>3, <1>4, <1>5
<1>9. haveSent' \in Nat /\ haveSent' <= lengths[k]
  BY <1>3, <1>4
<1>10. SenderInv'
  BY <1>1, <1>2, <1>4, <1>6, <1>7, <1>8, <1>9 DEF SenderInv, HeaderSize, TypeInv
<1> QED  BY <1>1, <1>2, <1>7, <1>10 DEF SenderAt, After

\* What is copied goes from the front of one slice to the end of the other.
LEMMA CopyOrSendStep ==
  ASSUME TypeInv, CopyOrSend, UNCHANGED setup
  PROVE  SenderInv' /\ SenderAt' = SenderAt
<1>1. /\ sstate = "copy" /\ sstate' \in {"send_full", "send_rest"} /\ Busy /\ Busy' /\ k' = k
      /\ com' = toSend' /\ haveSent' = haveSent /\ lengths' = lengths /\ Front = com /\ Front' = toSend'
  BY DEF CopyOrSend, TypeInv, SenderInv, Busy, Front, Sending, setup
<1>2. Units' = Units /\ NotEmpty' = NotEmpty /\ \A m : ToCome(m)' = ToCome(m) /\ Size(m)' = Size(m)
  BY <1>1 DEF Units, NotEmpty, ToCome, Size, Messages, Header, Data
<1>3. PICK o, l, p \in Nat : o = OnWire /\ l = Len(com) /\ p = Len(pending) /\ o + l + p = 3 + haveSent
  BY <1>1, InMessage
<1>4. /\ com = Slice(k, o, o + l) /\ pending = Slice(k, o + l, o + l + p) /\ k \in Messages /\ k \in NotEmpty
      /\ 3 + haveSent <= Size(k) /\ Size(k) \in Nat /\ com \in Seq(Units) /\ pending \in Seq(Units)
      /\ l <= Buffer /\ haveSent \in Nat /\ haveSent <= lengths[k] /\ lengths \in Seq(Nat)
  BY <1>1, <1>3, InMessage DEF TypeInv, SenderInv, SetupInv
<1>5. PICK r \in 0..p :
        /\ toSend' = com \o First(pending, r) /\ pending' = Rest(pending, r) /\ l + r <= Buffer
        /\ sstate' = "send_rest" => r = p
  <2>1. Buffer \in Nat /\ Buffer - l \in Nat
    BY <1>4, TransferAssumption
  <2>2. CASE p > Buffer - l
    BY <1>3, <2>1, <2>2 DEF CopyOrSend
  <2>3. CASE ~(p > Buffer - l)
    <3>1. toSend' = com \o pending /\ pending' = <<>> /\ l + p <= Buffer
      BY <1>3, <2>1, <2>3 DEF CopyOrSend
    <3>2. First(pending, p) = pending
      BY <1>3, <1>4, <3>1 DEF First
    <3>3. Rest(pending, p) = <<>>
      BY <1>3, <1>4 DEF Rest
    <3>4. p \in 0..p
      OBVIOUS
    <3> WITNESS p \in 0..p
    <3> QED  BY <3>1, <3>2, <3>3
  <2> QED  BY <2>2, <2>3
<1>a. PICK a \in Nat : a = o + l
  OBVIOUS
<1>b. PICK b \in Nat : b = a + r
  OBVIOUS
<1>c. PICK c \in Nat : c = a + p
  OBVIOUS
<1>6. /\ a = o + l /\ b = a + r /\ c = a + p /\ o <= a /\ a <= b /\ b <= c
      /\ c <= Size(k) /\ b <= Size(k) /\ c - a = p /\ c = 3 + haveSent
      /\ b - o = l + r /\ c - b = p - r /\ o <= b /\ a <= c /\ r \in 0..(c - a)
  <2>1. o + l + p = 3 + haveSent /\ 3 + haveSent <= Size(k) /\ Size(k) \in Nat /\ haveSent \in Nat
    BY <1>3, <1>4
  <2>2. r \in Nat /\ r <= p
    OBVIOUS
  <2> QED  BY <2>1, <2>2, <1>a, <1>b, <1>c
<1>7. First(pending, r) = Slice(k, a, b) /\ Rest(pending, r) = Slice(k, b, c)
  <2>1. pending = Slice(k, a, c)
    BY <1>3, <1>4, <1>6
  <2>2. a <= c /\ c <= Size(k) /\ r \in 0..(c - a) /\ k \in Messages /\ lengths \in Seq(Nat) /\ b = a + r
    BY <1>4, <1>6
  <2> QED  BY <2>1, <2>2, SliceCut
<1>8. toSend' = Slice(k, o, b)
  <2>1. com = Slice(k, o, a)
    BY <1>4, <1>a
  <2>3. toSend' = Slice(k, o, a) \o Slice(k, a, b)
    BY <1>5, <1>7, <2>1
  <2>2. o <= a /\ a <= b /\ b <= Size(k) /\ k \in Messages /\ lengths \in Seq(Nat)
    BY <1>4, <1>6
  <2>4. Slice(k, o, a) \o Slice(k, a, b) = Slice(k, o, b)
    BY <2>2, SliceJoins
  <2> QED  BY <2>3, <2>4
<1>9. toSend' \in Seq(Units) /\ Len(toSend') = l + r /\ pending' \in Seq(Units) /\ Len(pending') = p - r
  <2>1. o <= b /\ b <= c /\ c <= Size(k) /\ b <= Size(k) /\ k \in Messages /\ lengths \in Seq(Nat)
    BY <1>4, <1>6
  <2>2. /\ Slice(k, o, b) \in Seq(Units) /\ Len(Slice(k, o, b)) = b - o
        /\ Slice(k, b, c) \in Seq(Units) /\ Len(Slice(k, b, c)) = c - b
    BY <2>1, SliceSeq
  <2> QED  BY <1>5, <1>6, <1>7, <1>8, <2>2
<1>10. OnWire' = o /\ o + Len(toSend') = b
  <2>1. OnWire' = 3 + haveSent' - Len(pending') - Len(Front')
    BY DEF OnWire, HeaderSize
  <2>2. Len(pending') = c - b /\ Len(toSend') = b - o /\ o <= b /\ b <= c
    BY <1>6, <1>9
  <2>3. /\ 3 + haveSent' = c /\ Front' = toSend' /\ haveSent' \in Nat
        /\ Len(pending') \in Nat /\ Len(toSend') \in Nat
    BY <1>1, <1>4, <1>6, <1>9
  <2>4. PICK h, q, f \in Nat : h = haveSent' /\ q = Len(pending') /\ f = Len(toSend')
    BY <2>3
  <2>5. 3 + h = c /\ q = c - b /\ f = b - o /\ o <= b /\ b <= c
    BY <2>2, <2>3, <2>4
  <2>6. 3 + h - q - f = o /\ o + f = b
    BY <2>5
  <2> QED  BY <2>1, <2>3, <2>4, <2>6
<1>11. sstate' = "send_rest" => pending' = <<>>
  BY <1>5, <1>6, <1>7, EmptySlice
<1>12. SenderInv'
  BY <1>1, <1>2, <1>4, <1>5, <1>6, <1>7, <1>8, <1>9, <1>10, <1>11 DEF SenderInv, HeaderSize, TypeInv
<1> QED  BY <1>1, <1>2, <1>3, <1>10, <1>12 DEF SenderAt, After

\* A send puts the next units of the message on the wire.
LEMMA SendSomeStep ==
  ASSUME TypeInv, SendSome, UNCHANGED setup
  PROVE  /\ SenderInv' /\ Busy /\ (Busy' => k' = k)
         /\ \E n \in 1..Len(toSend) :
              /\ wire' = wire \o Slice(k, OnWire, OnWire + n) /\ Len(wire) + n <= Wire
              /\ OnWire + n <= Size(k) /\ SenderAt' = After(k, OnWire + n)
              /\ upload \/ SplitHeaders \/ Head(toSend)[2] = "data" \/ n >= HeaderSize
<1>1. /\ sstate \in {"send_full", "send_rest"} /\ Busy /\ lengths' = lengths /\ Front = toSend
      /\ haveSent' = haveSent /\ pending' = pending
  BY DEF SendSome, Sending, Busy, Front, setup
<1>2. Units' = Units /\ NotEmpty' = NotEmpty /\ \A m : ToCome(m)' = ToCome(m) /\ Size(m)' = Size(m)
  BY <1>1 DEF Units, NotEmpty, ToCome, Size, Messages, Header, Data
<1>3. PICK n \in 1..Len(toSend) :
        /\ Len(wire) + n <= Wire
        /\ upload \/ SplitHeaders \/ Head(toSend)[2] = "data" \/ n >= HeaderSize
        /\ Sent(n)
        /\ wire' = wire \o First(toSend, n)
        /\ toSend' = Rest(toSend, n)
  BY DEF SendSome
<1>4. PICK o, l, p \in Nat : o = OnWire /\ l = Len(toSend) /\ p = Len(pending) /\ o + l + p = 3 + haveSent
  BY <1>1, InMessage
<1>5. /\ toSend = Slice(k, o, o + l) /\ pending = Slice(k, o + l, o + l + p)
      /\ k \in Messages /\ k \in NotEmpty /\ k \in Nat /\ lengths[k] \in Nat
      /\ Size(k) = 3 + lengths[k] /\ com \in Seq(Units) /\ pending \in Seq(Units)
      /\ Len(com) <= Buffer /\ haveSent \in Nat /\ haveSent <= lengths[k] /\ lengths \in Seq(Nat)
      /\ k \in 1..Len(lengths) /\ SenderAt = After(k, o)
  BY <1>1, <1>4, InMessage DEF TypeInv, SenderInv, SetupInv, Messages
<1>a. n \in Nat /\ n \in 1..l
  BY <1>3, <1>4
<1>b. PICK a \in Nat : a = o + n
  BY <1>a
<1>c. PICK b \in Nat : b = o + l
  OBVIOUS
<1>d. PICK c \in Nat : c = b + p
  OBVIOUS
<1>6. /\ a = o + n /\ b = o + l /\ c = b + p /\ o <= a /\ a <= b /\ b <= c
      /\ c <= Size(k) /\ b <= Size(k) /\ b - o = l /\ c = 3 + haveSent /\ o <= b
      /\ b - a = l - n /\ a <= Size(k) /\ n \in 0..l /\ n \in 0..(b - o) /\ n \in Nat
  <2>1. o + l + p = 3 + haveSent
    BY <1>4
  <2>2. haveSent \in Nat /\ haveSent <= lengths[k] /\ lengths[k] \in Nat /\ Size(k) = 3 + lengths[k]
    BY <1>5
  <2>3. 3 + haveSent <= Size(k) /\ Size(k) \in Nat
    BY <2>2
  <2> QED  BY <2>1, <2>2, <2>3, <1>a, <1>b, <1>c, <1>d
<1>7. First(toSend, n) = Slice(k, o, a) /\ toSend' = Slice(k, a, b)
  <2>1. toSend = Slice(k, o, b)
    BY <1>5, <1>6
  <2>2. o <= b /\ b <= Size(k) /\ n \in 0..(b - o) /\ k \in Messages /\ lengths \in Seq(Nat) /\ a = o + n
    BY <1>5, <1>6
  <2> QED  BY <1>3, <2>1, <2>2, SliceCut
<1>8. toSend' \in Seq(Units) /\ Len(toSend') = l - n
  <2>1. a <= b /\ b <= Size(k) /\ k \in Messages /\ lengths \in Seq(Nat)
    BY <1>5, <1>6
  <2>2. Slice(k, a, b) \in Seq(Units) /\ Len(Slice(k, a, b)) = b - a
    BY <2>1, SliceSeq
  <2> QED  BY <1>6, <1>7, <2>2
<1>9. SenderInv' /\ SenderAt' = After(k, a) /\ (Busy' => k' = k)
  <2>1. CASE l > n
    <3>1. UNCHANGED <<sstate, k, com>>
      BY <1>3, <1>4, <2>1 DEF Sent
    <3>2. Front' = toSend' /\ Busy'
      BY <1>1, <3>1 DEF Front, Sending, Busy
    <3>3. OnWire' = a /\ a + Len(toSend') = b
      <4>1. OnWire' = 3 + haveSent' - Len(pending') - Len(Front')
        BY DEF OnWire, HeaderSize
      <4>2. Len(pending') = c - b /\ Len(toSend') = b - a /\ a <= b /\ b <= c
        BY <1>1, <1>4, <1>6, <1>8
      <4>3. /\ 3 + haveSent' = c /\ Front' = toSend' /\ haveSent' \in Nat
            /\ Len(pending') \in Nat /\ Len(toSend') \in Nat
        BY <1>1, <1>5, <1>6, <1>8, <3>2
      <4>4. PICK h, q, f \in Nat : h = haveSent' /\ q = Len(pending') /\ f = Len(toSend')
        BY <4>3
      <4>5. 3 + h = c /\ q = c - b /\ f = b - a /\ a <= b /\ b <= c
        BY <4>2, <4>3, <4>4
      <4>6. 3 + h - q - f = a /\ a + f = b
        BY <4>5
      <4> QED  BY <4>1, <4>3, <4>4, <4>6
    <3>4. SenderInv'
      BY <1>1, <1>2, <1>5, <1>6, <1>7, <1>8, <3>1, <3>2, <3>3 DEF SenderInv, HeaderSize, TypeInv
    <3> QED  BY <1>2, <3>1, <3>2, <3>3, <3>4 DEF SenderAt, After
  <2>2. CASE ~(l > n)
    <3>1. n = l /\ a = b /\ com' = <<>> /\ toSend' = <<>> /\ ~(Len(toSend) > n)
      <4>1. n = l /\ a = b
        BY <1>3, <1>4, <1>6, <2>2
      <4> QED  BY <1>3, <1>4, <1>7, <2>2, <4>1, EmptySlice DEF Sent
    <3>2. Front' = <<>> /\ Len(Front') = 0
      BY <3>1 DEF Front
    <3>3. OnWire' = a /\ Slice(k, a, a) = <<>>
      <4>1. OnWire' = 3 + haveSent' - Len(pending') - Len(Front')
        BY DEF OnWire, HeaderSize
      <4>2. 3 + haveSent' = c /\ Len(pending') = c - a /\ Len(Front') = a - a /\ a <= c
        BY <1>1, <1>4, <1>6, <3>1, <3>2
      <4>4. haveSent' \in Nat /\ Len(pending') \in Nat /\ Len(Front') \in Nat
        BY <1>1, <1>5, <3>2
      <4>3. 3 + haveSent' - Len(pending') - Len(Front') = a
        <5>1. PICK h, q, f \in Nat : h = haveSent' /\ q = Len(pending') /\ f = Len(Front')
          BY <4>4
        <5>2. 3 + h = c /\ q = c - a /\ f = a - a /\ a <= c
          BY <4>2, <5>1
        <5>3. 3 + h - q - f = a
          BY <5>2
        <5> QED  BY <5>1, <5>3
      <4> QED  BY <4>1, <4>3, EmptySlice
    <3>4. /\ com' \in Seq(Units) /\ toSend' \in Seq(Units) /\ Len(com') <= Buffer
      BY <3>1, TransferAssumption
    <3>5. CASE sstate' \in {"copy", "read"} /\ k' = k /\ (sstate' = "read" => sstate = "send_rest")
      <4>1. Busy'
        BY <3>5 DEF Busy
      <4>2. SenderInv'
        <5>1. k' \in NotEmpty' /\ haveSent' \in Nat /\ haveSent' <= lengths'[k'] /\ k' \in 1..(Len(lengths') + 1)
          BY <1>1, <1>2, <1>5, <3>5
        <5>6. OnWire' \in Nat /\ OnWire' + Len(Front') = a /\ OnWire' = a
          BY <3>2, <3>3
        <5>2. Front' = Slice(k', OnWire', OnWire' + Len(Front'))
          BY <3>2, <3>3, <3>5, <5>6
        <5>3. pending' = Slice(k', OnWire' + Len(Front'), HeaderSize + haveSent')
          <6>1. pending' = Slice(k, a, c) /\ HeaderSize + haveSent' = c
            BY <1>1, <1>4, <1>5, <1>6, <3>1 DEF HeaderSize
          <6> QED  BY <3>5, <5>6, <6>1
        <5>4. sstate' \in {"idle", "read", "send_rest"} => pending' = <<>>
          BY <1>1, <3>5 DEF TypeInv, SenderInv
        <5> QED  BY <1>1, <1>2, <1>5, <3>4, <3>5, <4>1, <5>1, <5>2, <5>3, <5>4, <5>6 DEF SenderInv
      <4> QED  BY <1>2, <3>3, <3>5, <4>1, <4>2 DEF SenderAt, After
    <3>6. CASE sstate = "send_rest" /\ haveSent >= lengths[k] /\ sstate' = "idle" /\ k' = k + 1
      <4>1. ~Busy' /\ pending' = <<>> /\ p = 0
        BY <1>1, <1>4, <3>6 DEF Busy, TypeInv, SenderInv
      <4>2. a = Size(k)
        BY <1>5, <1>6, <3>1, <3>6, <4>1
      <4>3. SenderAt' = Start(k + 1)
        BY <1>2, <3>6, <4>1 DEF SenderAt, Start
      <4>4. SenderInv'
        BY <1>1, <1>2, <1>5, <3>4, <3>6, <4>1 DEF SenderInv, TypeInv
      <4> QED  BY <1>5, <4>1, <4>2, <4>3, <4>4, Positions
    <3> QED  BY <1>3, <3>1, <3>5, <3>6 DEF Sent
  <2> QED  BY <2>1, <2>2
<1> QED  BY <1>1, <1>3, <1>4, <1>6, <1>7, <1>9

\* A receiver that reads on reads messages.
Reads == rstate \in {"ask", "header", "data"} /\ (upload \/ ~SplitHeaders)

\* The wire carries the stream from where the receiver is to where the sender is.
InStream ==
  /\ InRow(wire) /\ Begins(wire, ReceiverAt)
  /\ sstate # "dead" => Ends(wire, ReceiverAt, SenderAt)

Receiving ==
  /\ rstate = "data" => /\ asked \in NotEmpty /\ expected = lengths[asked]
                        /\ got = Slice(asked, HeaderSize, HeaderSize + Len(got))
                        /\ Len(got) <= expected
  /\ rstate # "data" => got = <<>>
  /\ refused => upload /\ rstate = "header"

\* What a download has on its way was asked for, and headers come whole.
Downloading ==
  /\ \A j \in 1..Len(wire) : wire[j][1] <= asked
  /\ Busy => k <= asked
  /\ \A j \in 1..Len(wire), m \in NotEmpty : wire[j] = Unit(m, 1) => j + 2 <= Len(wire)

StreamInv ==
  /\ rstate = "invalid" => refused
  /\ Reads => InStream /\ Receiving /\ (~upload => Downloading)

Whole(m) == [message |-> m, bytes |-> Data(m)]

\* The part of the invariant about what a server has stored.  Once a chunk is broken
\* nothing comes any more.
Broken == \E j \in 1..Len(files) : files[j] # Whole(files[j].message)

UploadInv ==
  /\ StoredExact
  /\ rstate = "header" => Stored = {n \in NotEmpty : n <= asked}
  /\ rstate = "data" => Stored = {n \in NotEmpty : n < asked}
  /\ Broken => sstate = "dead" /\ wire = <<>> /\ rstate = "header"

\* What get has written.
DownloadInv ==
  /\ rstate \in {"ask", "done"} => files = [j \in 1..asked |-> Whole(j)]
  /\ rstate \in {"header", "data"} => files = [j \in 1..(asked - 1) |-> Whole(j)]
  /\ rstate = "done" => asked = Len(lengths)

FilesInv == (upload => UploadInv) /\ (~upload /\ ~SplitHeaders => DownloadInv)

-----------------------------------------------------------------------------
(* Types                                                                   *)

\* What is sent does not change, and neither do the operators that depend on it.
LEMMA SameSetup ==
  ASSUME UNCHANGED setup
  PROVE  /\ lengths' = lengths /\ upload' = upload /\ Units' = Units /\ NotEmpty' = NotEmpty
         /\ Messages' = Messages
         /\ \A m : ToCome(m)' = ToCome(m) /\ Size(m)' = Size(m) /\ Data(m)' = Data(m) /\ Start(m)' = Start(m)
         /\ \A m, x : After(m, x)' = After(m, x)
<1>1. lengths' = lengths /\ upload' = upload
  BY DEF setup
<1>2. Units' = Units /\ NotEmpty' = NotEmpty /\ Messages' = Messages
      /\ \A m : ToCome(m)' = ToCome(m) /\ Size(m)' = Size(m) /\ Data(m)' = Data(m)
  BY <1>1 DEF Units, NotEmpty, ToCome, Size, Messages, Header, Data
<1> QED  BY <1>1, <1>2 DEF Start, After

\* The sender while the other end moves, or when it is killed.
LEMMA SenderSame ==
  ASSUME SenderInv, UNCHANGED <<setup, senderVars>>
  PROVE  SenderInv' /\ SenderAt' = SenderAt /\ (Busy' <=> Busy)
<1>1. UNCHANGED <<sstate, k, haveSent, pending, com, toSend>> /\ UNCHANGED setup
  BY DEF senderVars
<1>2. (Busy' <=> Busy) /\ Front' = Front /\ OnWire' = OnWire
  BY <1>1 DEF Busy, Front, Sending, OnWire
<1>3. SenderAt' = SenderAt
  BY <1>1, <1>2, SameSetup DEF SenderAt
<1>4. SenderInv'
  BY <1>1, <1>2, SameSetup DEF SenderInv
<1> QED  BY <1>2, <1>3, <1>4

\* A killed sender has no position any more.
LEMMA SenderDiesStep ==
  ASSUME SenderInv, SenderDies, UNCHANGED setup
  PROVE  SenderInv'
BY SameSetup DEF SenderInv, SenderDies, Busy

\* What a read takes off the wire.
LEMMA WireRead ==
  ASSUME TypeInv, UNCHANGED setup, NEW n \in 0..Len(wire), wire' = Rest(wire, n)
  PROVE  WireInv'
<1>1. wire \in Seq(Units) /\ Len(wire) <= Wire /\ Wire \in Nat
  BY TransferAssumption DEF TypeInv, WireInv
<1>2. wire' \in Seq(Units) /\ Len(wire') = Len(wire) - n
  BY <1>1, Cut
<1>3. Len(wire') <= Wire
  BY <1>1, <1>2
<1> QED  BY <1>2, <1>3, SameSetup DEF WireInv

\* The first unit on the wire.
LEMMA FirstUnit ==
  ASSUME TypeInv, wire # <<>>
  PROVE  /\ Head(wire) = wire[1] /\ 1 \in 1..Len(wire) /\ wire[1][1] \in Messages
         /\ lengths[wire[1][1]] \in Nat /\ Messages = 1..Len(lengths)
<1>1. wire \in Seq(Units) /\ lengths \in Seq(Nat)
  BY DEF TypeInv, WireInv, SetupInv
<1>2. Head(wire) = wire[1] /\ 1 \in 1..Len(wire) /\ wire[1] \in Units
  BY <1>1
<1>3. PICK m \in Messages : \E x \in 1..Size(m) : wire[1] = Unit(m, x)
  BY <1>1, <1>2, UnitsAre
<1>4. wire[1][1] = m
  <2>1. PICK x \in 1..Size(m) : wire[1] = Unit(m, x)
    BY <1>3
  <2>2. x \in Nat
    BY <1>1, UnitsAre
  <2> QED  BY <2>1, <2>2, UnitFields
<1>5. Messages = 1..Len(lengths) /\ lengths[m] \in Nat
  BY <1>1, <1>3 DEF Messages
<1> QED  BY <1>2, <1>3, <1>4, <1>5

\* How much one recv takes of the header and of the data.
LEMMA Taken ==
  ASSUME TypeInv
  PROVE  /\ wire # <<>> => Smaller(HeaderSize, Len(wire)) \in 1..Len(wire)
         /\ ReceiveData => \E n \in 1..Len(wire) :
              n <= expected - Len(got) /\ got' = got \o First(wire, n) /\ wire' = Rest(wire, n)
<1>1. wire \in Seq(Units) /\ Len(wire) \in Nat /\ (wire # <<>> => Len(wire) > 0)
  BY DEF TypeInv, WireInv
<1>2. ASSUME wire # <<>> PROVE Smaller(HeaderSize, Len(wire)) \in 1..Len(wire)
  BY <1>1, <1>2 DEF Smaller, HeaderSize
<1>3. ASSUME ReceiveData
      PROVE  \E n \in 1..Len(wire) :
              n <= expected - Len(got) /\ got' = got \o First(wire, n) /\ wire' = Rest(wire, n)
  <2>4. expected \in Int /\ Len(got) \in Int
    BY DEF TypeInv, ReceiverInv
  <2>1. PICK e \in Int : e = expected - Len(got)
    BY <2>4
  <2>2. PICK n : /\ n = Smaller(Smaller(Buffer, e), Len(wire)) /\ n > 0
                 /\ got' = got \o First(wire, n) /\ wire' = Rest(wire, n)
    BY <1>3, <2>1 DEF ReceiveData
  <2>3. n \in 1..Len(wire) /\ n <= e
    BY <1>1, <2>2, TransferAssumption DEF Smaller
  <2> QED  BY <2>1, <2>2, <2>3
<1> QED  BY <1>2, <1>3

\* The receiver's steps keep its types and touch nothing of the sender's.
LEMMA ReceiverStepTypes ==
  ASSUME TypeInv, ReceiverStep \/ TimeOut, UNCHANGED setup
  PROVE  ReceiverInv' /\ WireInv' /\ UNCHANGED senderVars
<1> USE SameSetup
<1>1. /\ got \in Seq(Units) /\ asked \in 0..Len(lengths) /\ expected \in Nat
      /\ files \in Seq([message : Messages, bytes : Seq(Units)]) /\ refused \in BOOLEAN
      /\ wire \in Seq(Units) /\ upload \in BOOLEAN /\ Messages = 1..Len(lengths) /\ lengths \in Seq(Nat)
      /\ rstate = "ask" => asked < Len(lengths)
      /\ rstate = "data" \/ (rstate = "header" /\ ~upload) => asked > 0
      /\ rstate \in IF upload THEN {"header", "data", "invalid"}
                    ELSE {"ask", "header", "data", "done", "failed", "undefined"}
  BY UnitsAre DEF TypeInv, SetupInv, WireInv, ReceiverInv
<1>2. CASE UNCHANGED wire
  <2>1. WireInv'
    BY <1>2 DEF TypeInv, WireInv
  <2>2. CASE Ask
    <3>1. asked' = asked + 1 /\ asked < Len(lengths) /\ rstate' = "header" /\ ~upload
      BY <1>1, <2>2 DEF Ask
    <3>2. asked' \in 0..Len(lengths) /\ asked' > 0
      BY <1>1, <3>1
    <3> QED  BY <1>1, <2>1, <2>2, <3>1, <3>2 DEF Ask, ReceiverInv
  <2>3. CASE TimeOut
    BY <1>1, <2>1, <2>3 DEF TimeOut, ReceiverInv
  <2>4. ASSUME Finishes(asked, got), asked > 0, UNCHANGED <<asked, expected, refused>>
        PROVE  ReceiverInv'
    <3>1. [message |-> asked, bytes |-> got] \in [message : Messages, bytes : Seq(Units)]
      BY <1>1, <2>4
    <3>2. files' \in Seq([message : Messages, bytes : Seq(Units)]) /\ got' = <<>>
      BY <1>1, <2>4, <3>1 DEF Finishes
    <3>3. rstate' = IF upload THEN "header" ELSE IF asked < Len(lengths) THEN "ask" ELSE "done"
      BY <2>4 DEF Finishes
    <3> QED  BY <1>1, <2>4, <3>2, <3>3 DEF ReceiverInv
  <2>5. CASE DataComplete
    BY <1>1, <2>1, <2>4, <2>5 DEF DataComplete
  <2>6. CASE EndOfFile
    <3>1. CASE upload
      BY <1>1, <2>1, <2>4, <2>6, <3>1 DEF EndOfFile
    <3>2. CASE ~upload
      BY <1>1, <2>1, <2>6, <3>2 DEF EndOfFile, ReceiverInv
    <3> QED  BY <3>1, <3>2
  <2>7. CASE ServerHeader \/ ClientHeader \/ ReceiveData
    <3>1. PICK n \in 1..Len(wire) : wire' = Rest(wire, n)
      <4>1. CASE ServerHeader
        BY <1>1, <4>1 DEF ServerHeader, HeaderSize
      <4>2. CASE ClientHeader
        <5>1. wire # <<>>
          BY <4>2, <1>1 DEF ClientHeader, Smaller, HeaderSize
        <5> QED  BY <4>2, <5>1, Taken DEF ClientHeader
      <4>3. CASE ReceiveData
        BY <4>3, Taken
      <4> QED  BY <2>7, <4>1, <4>2, <4>3
    <3>2. n \in 0..Len(wire) /\ Len(wire') = Len(wire) - n /\ n \in Nat /\ n > 0
      <4>1. n \in 0..Len(wire) /\ n \in Nat /\ n > 0
        BY <1>1
      <4> QED  BY <1>1, <3>1, <4>1, Cut
    <3> QED  BY <1>1, <1>2, <3>2
  <2> QED  BY <2>2, <2>3, <2>5, <2>6, <2>7 DEF ReceiverStep, Ask, TimeOut, DataComplete, EndOfFile
<1>3. CASE ServerHeader
  <2>1. Len(wire) >= 3 /\ wire # <<>> /\ 3 \in 0..Len(wire) /\ wire' = Rest(wire, 3)
    BY <1>1, <1>3 DEF ServerHeader, HeaderSize
  <2>2. WireInv'
    BY <2>1, WireRead
  <2>3. Head(wire)[1] \in 1..Len(lengths) /\ lengths[Head(wire)[1]] \in Nat
    BY <2>1, FirstUnit
  <2>4. Head(wire)[1] \in 0..Len(lengths) /\ Head(wire)[1] > 0
    BY <1>1, <2>3
  <2> QED  BY <1>1, <1>3, <2>2, <2>3, <2>4 DEF ServerHeader, ReceiverInv
<1>4. CASE ClientHeader
  <2>1. wire # <<>>
    BY <1>1, <1>4 DEF ClientHeader, Smaller, HeaderSize
  <2>2. lengths[Head(wire)[1]] \in Nat
    BY <2>1, FirstUnit
  <2>3. WireInv'
    <3>1. PICK n \in 1..Len(wire) : wire' = Rest(wire, n)
      BY <1>4, <2>1, Taken DEF ClientHeader
    <3>2. n \in 0..Len(wire)
      BY <1>1
    <3> QED  BY <3>1, <3>2, WireRead
  <2>4. expected' \in Nat
    BY <1>1, <1>4, <2>2 DEF ClientHeader
  <2> QED  BY <1>1, <1>4, <2>3, <2>4 DEF ClientHeader, ReceiverInv
<1>5. CASE ReceiveData
  <2>1. PICK n \in 1..Len(wire) : got' = got \o First(wire, n) /\ wire' = Rest(wire, n)
    BY <1>5, Taken
  <2>2. n \in 0..Len(wire)
    BY <1>1
  <2>3. WireInv'
    BY <2>1, <2>2, WireRead
  <2>4. got' \in Seq(Units)
    BY <1>1, <2>1, <2>2, Cut, Joined
  <2> QED  BY <1>1, <1>5, <2>3, <2>4 DEF ReceiveData, ReceiverInv
<1> QED  BY <1>2, <1>3, <1>4, <1>5 DEF ReceiverStep, TimeOut, Ask, DataComplete, EndOfFile

\* The types, step by step.
LEMMA TypeInvStep ==
  ASSUME TypeInv, [Next]_vars
  PROVE  TypeInv'
<1>1. CASE UNCHANGED vars
  <2>1. UNCHANGED <<setup, senderVars>> /\ UNCHANGED setup /\ UNCHANGED <<wire, rstate, asked, expected, got, files, refused>>
    BY <1>1 DEF vars, receiverVars
  <2> QED  BY <2>1, SameSetup, SenderSame DEF TypeInv, SetupInv, WireInv, ReceiverInv
<1>2. ASSUME Next PROVE TypeInv'
  <2>1. UNCHANGED setup /\ SetupInv'
    BY <1>2, SameSetup DEF Next, TypeInv, SetupInv
  <2>2. ASSUME UNCHANGED receiverVars PROVE ReceiverInv'
    BY <2>1, <2>2, SameSetup DEF receiverVars, TypeInv, ReceiverInv
  <2>3. ASSUME UNCHANGED wire PROVE WireInv'
    BY <2>1, <2>3, SameSetup DEF TypeInv, WireInv
  <2>4. CASE BeginSend
    <3>1. SenderInv'
      BY <2>1, <2>4, BeginSendStep
    <3> QED  BY <2>1, <2>2, <2>3, <2>4, <3>1 DEF BeginSend, TypeInv
  <2>5. CASE ReadFile
    <3>1. SenderInv'
      BY <2>1, <2>5, ReadFileStep
    <3> QED  BY <2>1, <2>2, <2>3, <2>5, <3>1 DEF ReadFile, TypeInv
  <2>6. CASE CopyOrSend
    <3>1. SenderInv'
      BY <2>1, <2>6, CopyOrSendStep
    <3> QED  BY <2>1, <2>2, <2>3, <2>6, <3>1 DEF CopyOrSend, TypeInv
  <2>7. CASE SendSome
    <3>1. SenderInv'
      BY <2>1, <2>7, SendSomeStep
    <3>2. PICK n \in 1..Len(toSend) : Len(wire) + n <= Wire /\ wire' = wire \o First(toSend, n)
      BY <2>7 DEF SendSome
    <3>3. toSend \in Seq(Units) /\ n \in 0..Len(toSend) /\ wire \in Seq(Units)
      BY DEF TypeInv, SenderInv, WireInv
    <3>4. First(toSend, n) \in Seq(Units) /\ Len(First(toSend, n)) = n
      BY <3>3, Cut
    <3>5. wire' \in Seq(Units) /\ Len(wire') = Len(wire) + n
      BY <3>2, <3>3, <3>4, Joined
    <3>6. WireInv'
      BY <2>1, <3>2, <3>5, SameSetup DEF WireInv
    <3> QED  BY <2>1, <2>2, <2>7, <3>1, <3>6 DEF SendSome, TypeInv
  <2>8. CASE SenderDies
    BY <2>1, <2>2, <2>3, <2>8, SenderDiesStep DEF SenderDies, TypeInv
  <2>9. CASE ReceiverStep \/ TimeOut
    BY <2>1, <2>9, ReceiverStepTypes, SenderSame DEF TypeInv
  <2> QED  BY <1>2, <2>4, <2>5, <2>6, <2>7, <2>8, <2>9 DEF Next, SenderStep
<1> QED  BY <1>1, <1>2

\* Types and the division of the sender's buffers, in every state of both ends.
THEOREM TransferTypeInv == Spec => []TypeInv
<1>1. Init => TypeInv
  <2> SUFFICES ASSUME Init PROVE TypeInv
    OBVIOUS
  <2>1. SetupInv
    BY TransferAssumption DEF Init, SetupInv
  <2>2. SenderInv /\ WireInv
    <3>1. <<>> \in Seq(Units) /\ Len(<<>>) = 0
      OBVIOUS
    <3>2. k \in 1..(Len(lengths) + 1)
      BY <2>1 DEF Init, SetupInv
    <3> QED  BY <3>1, <3>2, TransferAssumption DEF Init, SenderInv, WireInv, Busy
  <2>3. ReceiverInv
    <3>1. Len(lengths) > 0 /\ Len(lengths) \in Nat
      BY <2>1 DEF SetupInv
    <3>2. <<>> \in Seq(Units) /\ <<>> \in Seq([message : Messages, bytes : Seq(Units)])
      OBVIOUS
    <3>3. /\ rstate = IF upload THEN "header" ELSE "ask"
          /\ asked = 0 /\ expected = 0 /\ got = <<>> /\ files = <<>> /\ refused = FALSE
      BY DEF Init
    <3>4. asked \in 0..Len(lengths) /\ asked < Len(lengths) /\ expected \in Nat
      BY <3>1, <3>3
    <3> QED  BY <3>2, <3>3, <3>4 DEF ReceiverInv
  <2> QED  BY <2>1, <2>2, <2>3 DEF TypeInv
<1>2. TypeInv /\ [Next]_vars => TypeInv'
  BY TypeInvStep
<1> QED  BY <1>1, <1>2, PTL DEF Spec

\* The values that the variables may have, in every state.
THEOREM TransferTypeOK == Spec => []TypeOK
<1>1. TypeInv => TypeOK
  <2> SUFFICES ASSUME TypeInv PROVE TypeOK
    OBVIOUS
  <2>1. /\ pending \in Seq(Units) /\ com \in Seq(Units) /\ toSend \in Seq(Units)
        /\ wire \in Seq(Units) /\ got \in Seq(Units)
    BY DEF TypeInv, SenderInv, WireInv, ReceiverInv
  <2>2. /\ rstate \in {"ask", "header", "data", "done", "failed", "invalid", "undefined"}
        /\ asked \in 0..Len(lengths) /\ expected \in Nat
        /\ files \in Seq([message : Messages, bytes : Seq(Units)])
    BY DEF TypeInv, ReceiverInv
  <2>3. /\ sstate \in {"idle", "read", "copy", "send_full", "send_rest", "dead"}
        /\ k \in 1..(Len(lengths) + 1) /\ haveSent \in Nat
        /\ sstate \in {"read", "copy", "send_full", "send_rest"} => haveSent <= lengths[k]
    BY DEF TypeInv, SenderInv, Busy
  <2> QED  BY <2>1, <2>2, <2>3 DEF TypeInv, WireInv, TypeOK
<1> QED  BY <1>1, TransferTypeInv, PTL

\* The communication buffer never overflows.
THEOREM TransferBufferFits == Spec => []BufferFits
<1>1. TypeInv => BufferFits
  BY DEF TypeInv, SenderInv, BufferFits
<1> QED  BY <1>1, TransferTypeInv, PTL

-----------------------------------------------------------------------------
(* The stream between sender and receiver                                  *)

\* With the same messages a stream is the same.
LEMMA SameStream ==
  ASSUME UNCHANGED setup
  PROVE  /\ InRow(wire)' <=> InRow(wire')
         /\ Begins(wire, ReceiverAt)' <=> Begins(wire', ReceiverAt')
         /\ Ends(wire, ReceiverAt, SenderAt)' <=> Ends(wire', ReceiverAt', SenderAt')
<1> USE SameSetup
<1>1. InRow(wire)' <=> InRow(wire')
  BY DEF InRow
<1>2. Begins(wire, ReceiverAt)' <=> Begins(wire', ReceiverAt')
  BY DEF Begins
<1>3. Ends(wire, ReceiverAt, SenderAt)' <=> Ends(wire', ReceiverAt', SenderAt')
  BY DEF Ends
<1> QED  BY <1>1, <1>2, <1>3

\* The first unit is the header's of the next message when the receiver stands before
\* one, and then the whole header can be taken.
LEMMA HeaderFirst ==
  ASSUME lengths \in Seq(Nat), NEW w \in Seq(Units), w # <<>>, NEW a \in Nat,
         InRow(w), Begins(w, Start(a))
  PROVE  \E m \in NotEmpty :
           /\ w[1] = Unit(m, 1) /\ Start(m) = Start(a) /\ m >= a
           /\ \A n \in NotEmpty : n >= a => n >= m
           /\ Begins(w, After(m, 0))
<1>1. PICK m \in NotEmpty : \E x \in 1..Size(m) : w[1] = Unit(m, x) /\ After(m, x - 1) = Start(a)
  BY DEF Begins
<1>2. PICK x \in 1..Size(m) : w[1] = Unit(m, x) /\ After(m, x - 1) = Start(a)
  BY <1>1
<1>3. m \in Nat /\ Size(m) \in Nat
  BY Positions
<1>4. PICK y \in Nat : y = x - 1 /\ y < Size(m)
  BY <1>3
<1>5. After(m, y) = Start(a) /\ After(m, y) = <<ToCome(m), y>>
  BY <1>2, <1>4 DEF After
<1>6. y = 0 /\ x = 1
  BY <1>4, <1>5 DEF Start
<1>7. After(m, 0) = Start(a) /\ After(m, 0) = Start(m)
  BY <1>5, <1>6, Positions
<1> QED  BY <1>2, <1>6, <1>7, Positions

\* A header at the front of the stream is read as what it is.
LEMMA HeaderTaken ==
  ASSUME lengths \in Seq(Nat), NEW w \in Seq(Units), NEW m \in NotEmpty, InRow(w),
         Begins(w, After(m, 0)), 3 \in 0..Len(w)
  PROVE  /\ First(w, 3) = Header(m) /\ InRow(Rest(w, 3)) /\ Begins(Rest(w, 3), After(m, 3))
         /\ \A q : Ends(w, After(m, 0), q) => Ends(Rest(w, 3), After(m, 3), q)
<1>1. m \in Messages /\ Size(m) \in Nat /\ Size(m) > 3
  BY Positions
<1>2. 0 + 3 <= Size(m) /\ 0 \in Nat /\ 0 + 3 = 3
  BY <1>1
<1>3. /\ First(w, 3) = Slice(m, 0, 3) /\ InRow(Rest(w, 3)) /\ Begins(Rest(w, 3), After(m, 3))
      /\ \A q : Ends(w, After(m, 0), q) => Ends(Rest(w, 3), After(m, 3), q)
  <2> DEFINE n == 3
  <2>1. n \in 0..Len(w) /\ 0 + n <= Size(m)
    BY <1>2
  <2>2. /\ First(w, n) = Slice(m, 0, 0 + n) /\ InRow(Rest(w, n)) /\ Begins(Rest(w, n), After(m, 0 + n))
        /\ \A q : Ends(w, After(m, 0), q) => Ends(Rest(w, n), After(m, 0 + n), q)
    <3> HIDE DEF n
    <3> QED  BY <1>2, <2>1, StreamTaken
  <2> QED  BY <2>2
<1> QED  BY <1>1, <1>3, HeaderData

\* The receiver's position while the other end moves.
LEMMA ReceiverStays ==
  ASSUME UNCHANGED setup, UNCHANGED receiverVars
  PROVE  ReceiverAt' = ReceiverAt /\ (Reads' <=> Reads)
BY SameSetup DEF receiverVars, ReceiverAt, Reads

\* The sender puts what it sends at the end of the stream.
LEMMA StreamSenderStep ==
  ASSUME TypeInv, StreamInv, SenderStep \/ SenderDies, UNCHANGED setup
  PROVE  StreamInv'
<1> USE SameSetup
<1>1. UNCHANGED receiverVars /\ UNCHANGED <<rstate, asked, expected, got, refused>>
  BY DEF SenderStep, BeginSend, ReadFile, CopyOrSend, SendSome, SenderDies, receiverVars
<1>2. ReceiverAt' = ReceiverAt /\ (Reads' <=> Reads)
  BY <1>1, ReceiverStays
<1>3. rstate' = "invalid" => refused'
  BY <1>1 DEF StreamInv
<1>4. ASSUME Reads PROVE InStream' /\ Receiving' /\ (~upload' => Downloading')
  <2>1. InStream /\ Receiving /\ (~upload => Downloading)
    BY <1>4 DEF StreamInv
  <2>2. Receiving'
    BY <1>1, <2>1 DEF Receiving
  <2>3. ASSUME UNCHANGED wire, sstate' # "dead" => sstate # "dead" /\ SenderAt' = SenderAt
        PROVE  InStream'
    <3>1. InRow(wire') /\ Begins(wire', ReceiverAt')
          /\ (sstate' # "dead" => Ends(wire', ReceiverAt', SenderAt'))
      BY <1>2, <2>1, <2>3 DEF InStream
    <3> QED  BY <3>1, SameStream DEF InStream
  <2>4. ASSUME UNCHANGED wire, ~upload /\ Busy' => k' <= asked
        PROVE  ~upload' => Downloading'
    BY <1>1, <2>1, <2>4 DEF Downloading
  <2>5. CASE BeginSend
    <3>1. SenderAt' = SenderAt /\ (Busy' => upload \/ k' <= asked)
      BY <2>5, BeginSendStep
    <3>2. UNCHANGED wire /\ sstate # "dead"
      BY <2>5 DEF BeginSend
    <3> QED  BY <2>2, <2>3, <2>4, <3>1, <3>2
  <2>6. CASE ReadFile
    <3>1. SenderAt' = SenderAt
      BY <2>6, ReadFileStep
    <3>2. UNCHANGED <<wire, k>> /\ sstate # "dead" /\ Busy
      BY <2>6 DEF ReadFile, Busy
    <3>3. ~upload => k' <= asked
      BY <2>1, <3>2 DEF Downloading
    <3> QED  BY <2>2, <2>3, <2>4, <3>1, <3>2, <3>3
  <2>7. CASE CopyOrSend
    <3>1. SenderAt' = SenderAt
      BY <2>7, CopyOrSendStep
    <3>2. UNCHANGED <<wire, k>> /\ sstate # "dead" /\ Busy
      BY <2>7 DEF CopyOrSend, Busy
    <3>3. ~upload => k' <= asked
      BY <2>1, <3>2 DEF Downloading
    <3> QED  BY <2>2, <2>3, <2>4, <3>1, <3>2, <3>3
  <2>8. CASE SenderDies
    <3>1. UNCHANGED <<wire, k>> /\ sstate' = "dead" /\ ~Busy'
      BY <2>8 DEF SenderDies, Busy
    <3> QED  BY <2>2, <2>3, <2>4, <3>1
  <2>9. CASE SendSome
    <3>1. Busy /\ (Busy' => k' = k) /\ sstate # "dead"
      BY <2>9, SendSomeStep DEF Busy
    <3>2. PICK n \in 1..Len(toSend) :
            /\ wire' = wire \o Slice(k, OnWire, OnWire + n)
            /\ OnWire + n <= Size(k) /\ SenderAt' = After(k, OnWire + n)
            /\ upload \/ SplitHeaders \/ Head(toSend)[2] = "data" \/ n >= HeaderSize
      BY <2>9, SendSomeStep
    <3>3. /\ k \in NotEmpty /\ k \in Messages /\ k \in Nat /\ OnWire \in Nat /\ SenderAt = After(k, OnWire)
          /\ Front = Slice(k, OnWire, OnWire + Len(Front)) /\ Size(k) = 3 + lengths[k] /\ lengths[k] \in Nat
      BY <3>1, InMessage
    <3>4. Front = toSend /\ toSend \in Seq(Units) /\ wire \in Seq(Units) /\ lengths \in Seq(Nat)
      BY <2>9 DEF SendSome, Front, TypeInv, SenderInv, WireInv, SetupInv
    <3>5. PICK o \in Nat : o = OnWire
      BY <3>3
    <3>6. n \in Nat /\ n > 0 /\ n <= Len(toSend)
      BY <3>4
    <3>7. PICK b \in Nat : b = o + n /\ o <= b
      BY <3>6
    <3>8. b <= Size(k) /\ wire' = wire \o Slice(k, o, b) /\ SenderAt' = After(k, b) /\ b - o = n
      BY <3>2, <3>5, <3>6, <3>7
    <3>9. InStream'
      <4>1. InRow(wire) /\ Begins(wire, ReceiverAt) /\ Ends(wire, ReceiverAt, After(k, o))
        BY <2>1, <3>1, <3>3, <3>5 DEF InStream
      <4>2. LET v == wire \o Slice(k, o, b)
            IN InRow(v) /\ Begins(v, ReceiverAt) /\ Ends(v, ReceiverAt, After(k, b))
        BY <3>3, <3>4, <3>7, <3>8, <4>1, StreamGrows
      <4>3. InRow(wire') /\ Begins(wire', ReceiverAt') /\ Ends(wire', ReceiverAt', SenderAt')
        BY <1>2, <3>8, <4>2
      <4> QED  BY <4>3, SameStream DEF InStream
    <3>10. ASSUME ~upload PROVE Downloading'
      <4>1. Downloading /\ ~SplitHeaders
        BY <1>4, <2>1, <3>10 DEF Reads
      <4>2. /\ Slice(k, o, b) \in Seq(Units) /\ Len(Slice(k, o, b)) = n
            /\ \A j \in 1..n : Slice(k, o, b)[j] = Unit(k, o + j)
        <5>1. /\ Slice(k, o, b) \in Seq(Units) /\ Len(Slice(k, o, b)) = b - o
              /\ \A j \in 1..(b - o) : Slice(k, o, b)[j] = Unit(k, o + j)
          BY <3>3, <3>4, <3>7, <3>8, SliceSeq
        <5> QED  BY <3>8, <5>1
      <4>3. PICK l \in Nat : l = Len(wire)
        BY <3>4
      <4>4. /\ Len(wire') = l + n /\ \A j \in 1..l : wire'[j] = wire[j]
            /\ \A j \in (l + 1)..(l + n) : wire'[j] = Slice(k, o, b)[j - l]
        <5>1. /\ Len(wire') = Len(wire) + Len(Slice(k, o, b))
              /\ \A j \in 1..Len(wire) : wire'[j] = wire[j]
              /\ \A j \in (Len(wire) + 1)..(Len(wire) + Len(Slice(k, o, b))) :
                   wire'[j] = Slice(k, o, b)[j - Len(wire)]
          BY <3>4, <3>8, <4>2, Joined
        <5> QED  BY <4>2, <4>3, <5>1
      <4>5. ASSUME NEW j \in (l + 1)..(l + n)
            PROVE  \E y \in Nat : y >= 1 /\ j = l + y /\ wire'[j] = Unit(k, o + y)
        <5>1. PICK y \in 1..n : y = j - l
          BY <3>6, <4>5
        <5>2. wire'[j] = Slice(k, o, b)[y] /\ y \in Nat /\ y >= 1 /\ j = l + y
          BY <3>6, <4>4, <4>5, <5>1
        <5> QED  BY <4>2, <5>2
      <4>6. \A j \in 1..Len(wire') : wire'[j][1] <= asked'
        <5>1. k <= asked
          BY <3>1, <4>1 DEF Downloading
        <5>2. ASSUME NEW j \in (l + 1)..(l + n) PROVE wire'[j][1] = k
          <6>1. PICK y \in Nat : y >= 1 /\ j = l + y /\ wire'[j] = Unit(k, o + y)
            BY <4>5
          <6>2. PICK z \in Nat : z = o + y
            OBVIOUS
          <6> QED  BY <6>1, <6>2, UnitFields
        <5>3. \A j \in 1..l : wire'[j][1] <= asked
          BY <4>1, <4>3, <4>4 DEF Downloading
        <5>4. \A j \in 1..Len(wire') : j \in 1..l \/ j \in (l + 1)..(l + n)
          BY <3>6, <4>4
        <5> QED  BY <1>1, <5>1, <5>2, <5>3, <5>4
      <4>7. ASSUME NEW j \in 1..Len(wire'), NEW m \in NotEmpty, wire'[j] = Unit(m, 1)
            PROVE  j + 2 <= Len(wire')
        <5>1. CASE j \in 1..l
          <6>1. j + 2 <= l
            BY <4>1, <4>3, <4>4, <4>7, <5>1 DEF Downloading
          <6> QED  BY <3>6, <4>4, <5>1, <6>1
        <5>2. CASE j \in (l + 1)..(l + n)
          <6>1. PICK y \in Nat : y >= 1 /\ j = l + y /\ wire'[j] = Unit(k, o + y)
            BY <4>5, <5>2
          <6>2. PICK z \in Nat : z = o + y
            OBVIOUS
          <6>3. z = 1
            BY <4>7, <6>1, <6>2, UnitInjective
          <6>4. o = 0 /\ y = 1 /\ j = l + 1
            BY <6>1, <6>2, <6>3
          <6>5. n >= 3
            <7>1. PICK t \in Nat : t = Len(toSend) /\ t >= 1
              BY <3>4, <3>6
            <7>2. toSend = Slice(k, 0, t)
              BY <3>3, <3>4, <3>5, <6>4, <7>1
            <7>3. toSend[1] = Unit(k, 1)
              BY <7>1, <7>2 DEF Slice
            <7>4. Head(toSend) = toSend[1] /\ Unit(k, 1)[2] = "header"
              BY <3>4, <7>1, UnitFields
            <7> QED  BY <3>2, <3>10, <4>1, <7>3, <7>4 DEF HeaderSize
          <6> QED  BY <3>6, <4>4, <6>4, <6>5
        <5> QED  BY <3>6, <4>4, <5>1, <5>2
      <4>8. Busy' => k' <= asked'
        BY <1>1, <3>1, <4>1 DEF Downloading
      <4> QED  BY <4>6, <4>7, <4>8 DEF Downloading
    <3> QED  BY <2>2, <3>9, <3>10
  <2> QED  BY <2>5, <2>6, <2>7, <2>8, <2>9 DEF SenderStep
<1> QED  BY <1>2, <1>3, <1>4 DEF StreamInv

\* The server at the front of the stream: it reads the header of the next message that
\* has bytes, or, when it has refused one, data that is no header.
LEMMA ServerReads ==
  ASSUME TypeInv, StreamInv, ServerHeader
  PROVE  /\ refused => rstate' = "invalid" /\ UNCHANGED <<asked, refused>>
         /\ ~refused => \E m \in NotEmpty :
              /\ m > asked /\ \A n \in NotEmpty : n > asked => n >= m
              /\ InRow(wire') /\ Begins(wire', After(m, 3))
              /\ sstate # "dead" => Ends(wire', After(m, 3), SenderAt)
              /\ After(m, 3) = <<ToCome(asked + 1), 3>>
              /\ \/ rstate' = "data" /\ asked' = m /\ expected' = lengths[m] /\ UNCHANGED refused
                 \/ rstate' = "header" /\ refused' /\ UNCHANGED <<asked, expected>>
<1>1. /\ upload /\ rstate = "header" /\ Len(wire) >= 3 /\ wire' = Rest(wire, 3)
      /\ wire \in Seq(Units) /\ lengths \in Seq(Nat) /\ wire # <<>> /\ 3 \in 0..Len(wire)
      /\ Head(wire) = wire[1] /\ asked \in Nat
  BY FirstUnit DEF ServerHeader, HeaderSize, TypeInv, WireInv, SetupInv, ReceiverInv
<1>2. InStream /\ Receiving
  BY <1>1 DEF StreamInv, Reads
<1>3. ASSUME refused PROVE rstate' = "invalid" /\ UNCHANGED <<asked, refused>>
  <2>1. ReceiverAt = <<ToCome(asked + 1), 3>>
    BY <1>1, <1>3 DEF ReceiverAt, HeaderSize
  <2>2. PICK m \in NotEmpty : \E x \in 1..Size(m) : wire[1] = Unit(m, x) /\ After(m, x - 1) = ReceiverAt
    BY <1>1, <1>2 DEF InStream, Begins
  <2>3. PICK x \in 1..Size(m) : wire[1] = Unit(m, x) /\ After(m, x - 1) = ReceiverAt
    BY <2>2
  <2>4. Size(m) \in Nat /\ m \in Messages
    BY <1>1, Positions
  <2>5. PICK y \in Nat : y = x - 1 /\ y < Size(m)
    BY <2>4
  <2>6. After(m, y) = <<ToCome(m), y>> /\ After(m, y) = ReceiverAt
    BY <2>3, <2>5 DEF After
  <2>7. y = 3 /\ x = 4
    BY <2>1, <2>5, <2>6
  <2>8. wire[1][2] = "data"
    BY <2>3, <2>7, UnitFields
  <2>9. First(wire, HeaderSize) # Header(Head(wire)[1])
    <3>1. First(wire, 3)[1] = wire[1]
      BY <1>1, Cut
    <3>2. \A a : Header(a)[1] = <<a, "header", 1>>
      BY DEF Header, HeaderSize
    <3>3. \A a : Header(a)[1][2] = "header"
      BY <3>2
    <3> QED  BY <2>8, <3>1, <3>3 DEF HeaderSize
  <2> QED  BY <2>9 DEF ServerHeader
<1>4. ASSUME ~refused
      PROVE  \E m \in NotEmpty :
              /\ m > asked /\ \A n \in NotEmpty : n > asked => n >= m
              /\ InRow(wire') /\ Begins(wire', After(m, 3))
              /\ sstate # "dead" => Ends(wire', After(m, 3), SenderAt)
              /\ After(m, 3) = <<ToCome(asked + 1), 3>>
              /\ \/ rstate' = "data" /\ asked' = m /\ expected' = lengths[m] /\ UNCHANGED refused
                 \/ rstate' = "header" /\ refused' /\ UNCHANGED <<asked, expected>>
  <2>1. PICK a \in Nat : a = asked + 1
    BY <1>1
  <2>2. ReceiverAt = Start(a)
    BY <1>1, <1>4, <2>1 DEF ReceiverAt
  <2>3. PICK m \in NotEmpty :
           /\ wire[1] = Unit(m, 1) /\ Start(m) = Start(a) /\ m >= a
           /\ \A n \in NotEmpty : n >= a => n >= m
           /\ Begins(wire, After(m, 0))
    BY <1>1, <1>2, <2>2, HeaderFirst DEF InStream
  <2>4. /\ First(wire, 3) = Header(m) /\ InRow(Rest(wire, 3)) /\ Begins(Rest(wire, 3), After(m, 3))
        /\ \A q : Ends(wire, After(m, 0), q) => Ends(Rest(wire, 3), After(m, 3), q)
    BY <1>1, <1>2, <2>3, HeaderTaken DEF InStream
  <2>5. m \in Nat /\ Size(m) \in Nat /\ Size(m) > 3 /\ After(m, 0) = Start(m) /\ \A n \in NotEmpty : n \in Nat
    BY <1>1, Positions
  <2>6. m > asked /\ \A n \in NotEmpty : n > asked => n >= m
    <3>1. \A n \in NotEmpty : n > asked => n >= a
      BY <1>1, <2>1, <2>5
    <3> QED  BY <1>1, <2>1, <2>3, <2>5, <3>1
  <2>7. After(m, 3) = <<ToCome(asked + 1), 3>>
    <3>1. After(m, 3) = <<ToCome(m), 3>> /\ ToCome(m) = ToCome(a)
      BY <2>3, <2>5 DEF After, Start
    <3> QED  BY <2>1, <3>1
  <2>8. sstate # "dead" => Ends(wire', After(m, 3), SenderAt)
    BY <1>1, <1>2, <2>2, <2>3, <2>4, <2>5 DEF InStream
  <2>9. wire[1][1] = m
    BY <2>3, UnitFields
  <2>10. \/ rstate' = "data" /\ asked' = m /\ expected' = lengths[m] /\ UNCHANGED refused
         \/ rstate' = "header" /\ refused' /\ UNCHANGED <<asked, expected>>
    <3>1. First(wire, HeaderSize) = Header(Head(wire)[1]) /\ Head(wire)[1] = m
      BY <1>1, <2>4, <2>9 DEF HeaderSize
    <3> QED  BY <1>1, <3>1 DEF ServerHeader
  <2> QED  BY <1>1, <2>4, <2>6, <2>7, <2>8, <2>10
<1> QED  BY <1>3, <1>4

\* The client finds the header of the chunk it has asked for, all of it.
LEMMA ClientReads ==
  ASSUME TypeInv, StreamInv, ClientHeader, ~SplitHeaders
  PROVE  /\ asked \in NotEmpty /\ wire' = Rest(wire, 3) /\ 3 \in 0..Len(wire)
         /\ InRow(wire') /\ Begins(wire', After(asked, 3))
         /\ sstate # "dead" => Ends(wire', After(asked, 3), SenderAt)
         /\ rstate' = "data" /\ expected' = lengths[asked] /\ ~refused
<1>1. wire # <<>>
  BY DEF ClientHeader, Smaller, HeaderSize, TypeInv, WireInv
<1>2. /\ ~upload /\ rstate = "header" /\ wire \in Seq(Units) /\ lengths \in Seq(Nat)
      /\ Head(wire) = wire[1] /\ asked \in Nat /\ 1 \in 1..Len(wire)
  BY <1>1, FirstUnit DEF ClientHeader, TypeInv, WireInv, SetupInv, ReceiverInv
<1>3. InStream /\ Receiving /\ Downloading
  BY <1>2 DEF StreamInv, Reads
<1>4. ReceiverAt = Start(asked) /\ ~refused
  BY <1>2, <1>3 DEF ReceiverAt, Receiving
<1>5. PICK m \in NotEmpty :
        /\ wire[1] = Unit(m, 1) /\ Start(m) = Start(asked) /\ m >= asked /\ Begins(wire, After(m, 0))
  BY <1>1, <1>2, <1>3, <1>4, HeaderFirst DEF InStream
<1>6. wire[1][1] = m /\ wire[1][2] = "header" /\ wire[1][3] = 1
  BY <1>5, UnitFields
<1>7. m = asked
  <2>1. m <= asked /\ m \in Nat
    BY <1>2, <1>3, <1>6, Positions DEF Downloading
  <2> QED  BY <1>2, <1>5, <2>1
<1>8. Len(wire) >= 3 /\ 3 \in 0..Len(wire)
  <2>1. 1 + 2 <= Len(wire)
    BY <1>2, <1>3, <1>5 DEF Downloading
  <2> QED  BY <1>2, <2>1
<1>9. Smaller(HeaderSize, Len(wire)) = 3
  <2>1. PICK l \in Nat : l = Len(wire) /\ l >= 3
    BY <1>2, <1>8
  <2> QED  BY <2>1 DEF Smaller, HeaderSize
<1>10. wire' = Rest(wire, 3) /\ rstate' = "data" /\ expected' = lengths[asked]
  <2>1. \A b \in {TRUE, ~SplitHeaders} : b
    BY Zenon
  <2>2. /\ wire' = Rest(wire, 3)
        /\ \E whole \in {TRUE, ~SplitHeaders} :
             IF whole /\ Head(wire)[2] = "header" /\ Head(wire)[3] = 1
             THEN expected' = (IF 3 >= 2 THEN lengths[Head(wire)[1]] ELSE 0) /\ rstate' = "data"
             ELSE rstate' = "failed" /\ UNCHANGED expected
    BY <1>9, Zenon DEF ClientHeader
  <2>3. Head(wire)[2] = "header" /\ Head(wire)[3] = 1 /\ Head(wire)[1] = asked
    BY <1>2, <1>6, <1>7
  <2>4. expected' = (IF 3 >= 2 THEN lengths[Head(wire)[1]] ELSE 0) /\ rstate' = "data"
    BY <2>1, <2>2, <2>3, Zenon
  <2> QED  BY <2>2, <2>3, <2>4
<1>11. /\ InRow(Rest(wire, 3)) /\ Begins(Rest(wire, 3), After(m, 3))
       /\ \A q : Ends(wire, After(m, 0), q) => Ends(Rest(wire, 3), After(m, 3), q)
  BY <1>2, <1>3, <1>5, <1>8, HeaderTaken DEF InStream
<1>12. After(m, 0) = ReceiverAt
  BY <1>2, <1>4, <1>5, Positions
<1> QED  BY <1>3, <1>4, <1>7, <1>8, <1>10, <1>11, <1>12 DEF InStream

\* The data that is read is the chunk's next.
LEMMA DataReads ==
  ASSUME TypeInv, StreamInv, ReceiveData, Reads
  PROVE  /\ asked \in NotEmpty /\ expected = lengths[asked] /\ ~refused
         /\ got' = Slice(asked, 3, 3 + Len(got')) /\ Len(got') <= expected
         /\ InRow(wire') /\ Begins(wire', After(asked, 3 + Len(got')))
         /\ sstate # "dead" => Ends(wire', After(asked, 3 + Len(got')), SenderAt)
<1>1. /\ rstate = "data" /\ wire \in Seq(Units) /\ lengths \in Seq(Nat) /\ got \in Seq(Units)
      /\ Len(got) \in Nat
  BY DEF ReceiveData, TypeInv, WireInv, SetupInv, ReceiverInv
<1>2. InStream /\ Receiving
  BY DEF StreamInv
<1>3. PICK g \in Nat : g = Len(got)
  BY <1>1
<1>4. /\ asked \in NotEmpty /\ expected = lengths[asked] /\ ~refused /\ g <= expected
      /\ got = Slice(asked, 3, 3 + g)
  BY <1>1, <1>2, <1>3 DEF Receiving, HeaderSize
<1>5. asked \in Messages /\ Size(asked) \in Nat /\ Size(asked) = 3 + expected /\ expected \in Nat
  BY <1>1, <1>4, Positions, HeaderData DEF Messages
<1>6. PICK n \in 1..Len(wire) :
        n <= expected - g /\ got' = got \o First(wire, n) /\ wire' = Rest(wire, n)
  BY <1>3, Taken DEF ReceiveData
<1>7. n \in Nat /\ n \in 0..Len(wire)
  BY <1>1
<1>8. PICK x \in Nat : x = 3 + g
  OBVIOUS
<1>9. PICK y \in Nat : y = x + n
  BY <1>7
<1>10. y <= Size(asked) /\ 3 <= x /\ x <= y /\ 3 <= y /\ x <= Size(asked) /\ y - 3 = g + n /\ g + n <= expected
  BY <1>5, <1>6, <1>7, <1>8, <1>9
<1>11. ReceiverAt = After(asked, x)
  BY <1>1, <1>3, <1>8 DEF ReceiverAt, HeaderSize
<1>12. /\ First(wire, n) = Slice(asked, x, y)
       /\ InRow(wire') /\ Begins(wire', After(asked, y))
       /\ \A q : Ends(wire, After(asked, x), q) => Ends(wire', After(asked, y), q)
  <2>1. InRow(wire) /\ Begins(wire, After(asked, x))
    BY <1>2, <1>11 DEF InStream
  <2>2. /\ First(wire, n) = Slice(asked, x, x + n)
        /\ InRow(Rest(wire, n)) /\ Begins(Rest(wire, n), After(asked, x + n))
        /\ \A q : Ends(wire, After(asked, x), q) => Ends(Rest(wire, n), After(asked, x + n), q)
    <3>1. x + n <= Size(asked)
      BY <1>9, <1>10
    <3> QED  BY <1>1, <1>4, <1>7, <2>1, <3>1, StreamTaken
  <2> QED  BY <1>6, <1>9, <2>2
<1>13. got' = Slice(asked, 3, y)
  <2>1. got = Slice(asked, 3, x)
    BY <1>4, <1>8
  <2>2. Slice(asked, 3, x) \o Slice(asked, x, y) = Slice(asked, 3, y)
    BY <1>1, <1>5, <1>10, SliceJoins
  <2> QED  BY <1>6, <1>12, <2>1, <2>2
<1>14. Len(got') = g + n
  <2>1. Len(Slice(asked, 3, y)) = y - 3
    BY <1>1, <1>5, <1>10, SliceSeq
  <2> QED  BY <1>10, <1>13, <2>1
<1>15. 3 + Len(got') = y
  BY <1>8, <1>9, <1>14, <1>7
<1> QED  BY <1>2, <1>4, <1>10, <1>11, <1>12, <1>13, <1>14, <1>15 DEF InStream

\* The receiver takes its units off the front of the stream.
LEMMA StreamReceiverStep ==
  ASSUME TypeInv, StreamInv, ReceiverStep \/ TimeOut, UNCHANGED setup
  PROVE  StreamInv'
<1> USE SameSetup
<1>1. UNCHANGED senderVars /\ SenderAt' = SenderAt /\ UNCHANGED <<sstate, k>> /\ (Busy' <=> Busy)
  BY ReceiverStepTypes, SenderSame DEF TypeInv, senderVars
<1>2. /\ got \in Seq(Units) /\ asked \in Nat /\ lengths \in Seq(Nat) /\ wire \in Seq(Units)
      /\ upload \in BOOLEAN
  BY DEF TypeInv, ReceiverInv, SetupInv, WireInv
<1>3. ASSUME ~Reads', rstate' = "invalid" => refused'
      PROVE  StreamInv'
  BY <1>3 DEF StreamInv
<1>4. ASSUME Reads', rstate' # "invalid",
             InRow(wire'), Begins(wire', ReceiverAt'), sstate # "dead" => Ends(wire', ReceiverAt', SenderAt),
             Receiving', ~upload => Downloading'
      PROVE  StreamInv'
  <2>1. InStream'
    BY <1>1, <1>4, SameStream DEF InStream
  <2> QED  BY <1>4, <2>1 DEF StreamInv
<1>5. ASSUME ~upload, Downloading, asked' >= asked, asked' \in Nat, NEW n \in 0..Len(wire), wire' = Rest(wire, n)
      PROVE  Downloading'
  <2>1. /\ Len(wire') = Len(wire) - n /\ \A j \in 1..(Len(wire) - n) : wire'[j] = wire[j + n]
        /\ Len(wire) \in Nat /\ n \in Nat
    <3>1. Len(wire) \in Nat /\ n \in Nat
      BY <1>2, <1>5
    <3>2. /\ Len(Rest(wire, n)) = Len(wire) - n
          /\ \A j \in 1..(Len(wire) - n) : Rest(wire, n)[j] = wire[j + n]
      BY <1>2, <1>5, Cut
    <3> QED  BY <1>5, <3>1, <3>2
  <2>2. ASSUME NEW j \in 1..Len(wire')
        PROVE  /\ wire'[j][1] <= asked'
               /\ \A m \in NotEmpty : wire'[j] = Unit(m, 1) => j + 2 <= Len(wire')
    <3>1. PICK z \in 1..Len(wire) : z = j + n /\ wire'[j] = wire[z]
      BY <2>1, <2>2
    <3>2. wire[z][1] <= asked /\ \A m \in NotEmpty : wire[z] = Unit(m, 1) => z + 2 <= Len(wire)
      BY <1>5 DEF Downloading
    <3>3. wire[z][1] \in Nat
      <4>1. PICK m \in Messages : \E x \in 1..Size(m) : wire[z] = Unit(m, x)
        BY <1>2, UnitsAre
      <4>2. PICK x \in 1..Size(m) : wire[z] = Unit(m, x)
        BY <4>1
      <4>3. x \in Nat /\ m \in Nat
        BY <1>2, UnitsAre
      <4> QED  BY <4>2, <4>3, UnitFields
    <3>4. wire'[j][1] <= asked'
      BY <1>2, <1>5, <3>1, <3>2, <3>3
    <3>5. z + 2 <= Len(wire) => j + 2 <= Len(wire')
      BY <2>1, <2>2, <3>1
    <3> QED  BY <3>1, <3>2, <3>4, <3>5
  <2>3. Busy' => k' <= asked'
    <3>1. k \in Nat
      BY DEF TypeInv, SenderInv
    <3> QED  BY <1>1, <1>2, <1>5, <3>1 DEF Downloading
  <2> QED  BY <1>5, <2>2, <2>3 DEF Downloading
<1>6. ASSUME ~upload, Downloading, asked' >= asked, asked' \in Nat, UNCHANGED wire
      PROVE  Downloading'
  <2>1. 0 \in 0..Len(wire) /\ Rest(wire, 0) = wire
    BY <1>2 DEF Rest
  <2> QED  BY <1>5, <1>6, <2>1
<1>7. CASE ServerHeader
  <2>1. upload /\ got' = got /\ rstate = "header" /\ Reads /\ got = <<>>
    BY <1>7 DEF ServerHeader, StreamInv, Reads, Receiving
  <2>2. CASE refused
    BY <1>3, <1>7, <2>1, <2>2, ServerReads DEF Reads
  <2>3. CASE ~refused
    <3>1. PICK m \in NotEmpty :
            /\ InRow(wire') /\ Begins(wire', After(m, 3))
            /\ sstate # "dead" => Ends(wire', After(m, 3), SenderAt)
            /\ After(m, 3) = <<ToCome(asked + 1), 3>>
            /\ \/ rstate' = "data" /\ asked' = m /\ expected' = lengths[m] /\ UNCHANGED refused
               \/ rstate' = "header" /\ refused' /\ UNCHANGED <<asked, expected>>
      BY <1>7, <2>3, ServerReads
    <3>2. Reads' /\ rstate' # "invalid"
      BY <2>1, <3>1 DEF Reads
    <3>3. CASE rstate' = "data" /\ asked' = m /\ expected' = lengths[m] /\ UNCHANGED refused
      <4>1. ReceiverAt' = After(m, 3)
        <5>1. ReceiverAt' = After(asked', 3 + Len(got'))
          BY <3>3 DEF ReceiverAt, HeaderSize
        <5> QED  BY <2>1, <3>3, <5>1
      <4>2. lengths[m] \in Nat
        BY <1>2 DEF NotEmpty, Messages
      <4>3. Receiving'
        <5>1. got' = <<>> /\ Slice(m, 3, 3) = <<>> /\ 3 + Len(got') = 3 /\ Len(got') = 0
          BY <2>1, EmptySlice
        <5>2. asked' \in NotEmpty' /\ expected' = lengths'[asked'] /\ Len(got') <= expected'
          BY <3>3, <4>2, <5>1
        <5>3. got' = Slice(asked', HeaderSize, HeaderSize + Len(got'))
          BY <3>3, <5>1 DEF HeaderSize
        <5> QED  BY <2>3, <3>3, <5>2, <5>3 DEF Receiving
      <4> QED  BY <1>4, <2>1, <3>1, <3>2, <4>1, <4>3
    <3>4. CASE rstate' = "header" /\ refused' /\ UNCHANGED <<asked, expected>>
      <4>1. ReceiverAt' = After(m, 3)
        BY <2>1, <3>1, <3>4 DEF ReceiverAt, HeaderSize
      <4>2. Receiving'
        BY <2>1, <3>4 DEF Receiving
      <4> QED  BY <1>4, <2>1, <3>1, <3>2, <4>1, <4>2
    <3> QED  BY <3>1, <3>3, <3>4
  <2> QED  BY <2>2, <2>3
<1>8. CASE Ask
  <2>1. /\ rstate = "ask" /\ rstate' = "header" /\ asked' = asked + 1
        /\ UNCHANGED <<wire, expected, got, refused>> /\ ~upload
    BY <1>8 DEF Ask, TypeInv, ReceiverInv
  <2>2. CASE SplitHeaders
    BY <1>3, <2>1, <2>2 DEF Reads
  <2>3. CASE ~SplitHeaders
    <3>1. InStream /\ Receiving /\ Downloading /\ Reads'
      BY <2>1, <2>3 DEF StreamInv, Reads
    <3>2. ReceiverAt = Start(asked + 1) /\ ReceiverAt' = Start(asked')
      <4>1. ReceiverAt = Start(asked + 1)
        BY <2>1 DEF ReceiverAt
      <4>2. ReceiverAt' = Start(asked')
        <5>1. rstate' = "header" /\ ~upload'
          BY <2>1
        <5> QED  BY <5>1 DEF ReceiverAt
      <4> QED  BY <4>1, <4>2
    <3>3. InRow(wire') /\ Begins(wire', ReceiverAt') /\ (sstate # "dead" => Ends(wire', ReceiverAt', SenderAt))
      BY <2>1, <3>1, <3>2 DEF InStream
    <3>4. Receiving'
      BY <2>1, <3>1 DEF Receiving
    <3>5. asked' >= asked /\ asked' \in Nat
      BY <1>2, <2>1
    <3> QED  BY <1>4, <1>6, <2>1, <3>1, <3>3, <3>4, <3>5
  <2> QED  BY <2>2, <2>3
<1>9. CASE ClientHeader
  <2>1. UNCHANGED <<asked, got, refused>> /\ ~upload /\ rstate = "header"
    BY <1>9 DEF ClientHeader
  <2>2. CASE SplitHeaders
    BY <1>3, <1>9, <2>1, <2>2 DEF Reads, ClientHeader
  <2>3. CASE ~SplitHeaders
    <3>1. /\ asked \in NotEmpty /\ wire' = Rest(wire, 3) /\ 3 \in 0..Len(wire)
          /\ InRow(wire') /\ Begins(wire', After(asked, 3))
          /\ sstate # "dead" => Ends(wire', After(asked, 3), SenderAt)
          /\ rstate' = "data" /\ expected' = lengths[asked] /\ ~refused
      BY <1>9, <2>3, ClientReads
    <3>2. Receiving /\ Downloading
      BY <2>1, <2>3 DEF StreamInv, Reads
    <3>3. got' = <<>> /\ Slice(asked, 3, 3) = <<>> /\ 3 + Len(got') = 3 /\ Len(got') = 0
      BY <2>1, <3>2, EmptySlice DEF Receiving
    <3>4. ReceiverAt' = After(asked, 3)
      <4>1. ReceiverAt' = After(asked', 3 + Len(got'))
        BY <3>1 DEF ReceiverAt, HeaderSize
      <4> QED  BY <2>1, <3>3, <4>1
    <3>5. Receiving'
      <4>1. asked' \in NotEmpty' /\ expected' = lengths'[asked'] /\ Len(got') <= expected'
        <5>1. lengths[asked] \in Nat
          BY <1>2, <3>1 DEF NotEmpty, Messages
        <5> QED  BY <2>1, <3>1, <3>3, <5>1
      <4>2. got' = Slice(asked', HeaderSize, HeaderSize + Len(got'))
        BY <2>1, <3>3 DEF HeaderSize
      <4> QED  BY <2>1, <3>1, <4>1, <4>2 DEF Receiving
    <3>6. Reads' /\ rstate' # "invalid" /\ asked' >= asked /\ asked' \in Nat
      BY <1>2, <2>1, <2>3, <3>1 DEF Reads
    <3> QED  BY <1>4, <1>5, <2>1, <3>1, <3>2, <3>4, <3>5, <3>6
  <2> QED  BY <2>2, <2>3
<1>10. CASE ReceiveData
  <2>1. UNCHANGED <<rstate, asked, expected, refused>> /\ rstate = "data" /\ (Reads' <=> Reads)
    BY <1>10 DEF ReceiveData, Reads
  <2>2. CASE ~Reads
    BY <1>3, <2>1, <2>2
  <2>3. CASE Reads
    <3>1. /\ asked \in NotEmpty /\ expected = lengths[asked] /\ ~refused
          /\ got' = Slice(asked, 3, 3 + Len(got')) /\ Len(got') <= expected
          /\ InRow(wire') /\ Begins(wire', After(asked, 3 + Len(got')))
          /\ sstate # "dead" => Ends(wire', After(asked, 3 + Len(got')), SenderAt)
      BY <1>10, <2>3, DataReads
    <3>2. ReceiverAt' = After(asked, 3 + Len(got'))
      <4>1. ReceiverAt' = After(asked', 3 + Len(got'))
        BY <2>1 DEF ReceiverAt, HeaderSize
      <4> QED  BY <2>1, <4>1
    <3>3. Receiving'
      BY <2>1, <3>1 DEF Receiving, HeaderSize
    <3>4. PICK n \in 0..Len(wire) : wire' = Rest(wire, n)
      <4>1. PICK n \in 1..Len(wire) : wire' = Rest(wire, n)
        BY <1>10, Taken
      <4> QED  BY <1>2, <4>1
    <3>5. ~upload => Downloading
      BY <2>3 DEF StreamInv
    <3>6. asked' >= asked /\ asked' \in Nat
      BY <1>2, <2>1
    <3> QED  BY <1>4, <1>5, <2>1, <2>3, <3>1, <3>2, <3>3, <3>4, <3>5, <3>6
  <2> QED  BY <2>2, <2>3
<1>11. CASE DataComplete
  <2>1. /\ rstate = "data" /\ Len(got) >= expected /\ got' = <<>> /\ UNCHANGED <<wire, asked, expected, refused>>
        /\ rstate' = IF upload THEN "header" ELSE IF asked < Len(lengths) THEN "ask" ELSE "done"
    BY <1>11 DEF DataComplete, Finishes
  <2>2. CASE ~Reads'
    BY <1>3, <2>1, <2>2
  <2>3. CASE Reads'
    <3>1. Reads
      BY <2>1, <2>3 DEF Reads
    <3>2. InStream /\ Receiving /\ (~upload => Downloading)
      BY <3>1 DEF StreamInv
    <3>3. /\ asked \in NotEmpty /\ expected = lengths[asked] /\ Len(got) = expected /\ ~refused
      BY <1>2, <2>1, <3>2 DEF Receiving, NotEmpty, Messages
    <3>4. ReceiverAt = Start(asked + 1)
      <4>1. ReceiverAt = After(asked, 3 + Len(got))
        BY <2>1 DEF ReceiverAt, HeaderSize
      <4>2. Size(asked) = 3 + lengths[asked]
        BY <1>2, <3>3, HeaderData DEF NotEmpty
      <4>3. After(asked, Size(asked)) = Start(asked + 1)
        BY <1>2, <3>3, Positions
      <4> QED  BY <3>3, <4>1, <4>2, <4>3
    <3>5. ReceiverAt' = Start(asked + 1)
      BY <2>1, <2>3, <3>3 DEF ReceiverAt, Reads
    <3>6. Receiving'
      BY <2>1, <3>3 DEF Receiving
    <3>7. InRow(wire') /\ Begins(wire', ReceiverAt') /\ (sstate # "dead" => Ends(wire', ReceiverAt', SenderAt))
      BY <2>1, <3>2, <3>4, <3>5 DEF InStream
    <3>8. asked' >= asked /\ asked' \in Nat
      BY <1>2, <2>1
    <3> QED  BY <1>4, <1>6, <2>1, <2>3, <3>2, <3>6, <3>7, <3>8
  <2> QED  BY <2>2, <2>3
<1>12. CASE EndOfFile
  <2>1. sstate = "dead" /\ wire = <<>> /\ UNCHANGED <<wire, asked, expected, refused>>
    BY <1>12 DEF EndOfFile
  <2>2. CASE upload /\ rstate = "data" /\ Len(got) < expected /\ Finishes(asked, got)
    <3>1. got' = <<>> /\ rstate' = "header" /\ Reads /\ Reads' /\ ~refused
      BY <2>2 DEF Finishes, Reads, StreamInv, Receiving
    <3>2. Receiving'
      BY <2>1, <3>1 DEF Receiving
    <3>3. InRow(wire') /\ Begins(wire', ReceiverAt')
      BY <2>1 DEF InRow, Begins
    <3> QED  BY <1>4, <2>1, <2>2, <3>1, <3>2, <3>3
  <2>3. CASE ~upload /\ rstate' = "failed"
    BY <1>3, <2>3 DEF Reads
  <2> QED  BY <1>12, <2>2, <2>3 DEF EndOfFile
<1>13. CASE TimeOut
  BY <1>3, <1>13 DEF TimeOut, Reads
<1> QED  BY <1>7, <1>8, <1>9, <1>10, <1>11, <1>12, <1>13 DEF ReceiverStep

\* The stream, step by step.
LEMMA StreamInvStep ==
  ASSUME TypeInv, StreamInv, [Next]_vars
  PROVE  StreamInv'
<1>1. CASE UNCHANGED vars
  <2>1. UNCHANGED setup /\ UNCHANGED receiverVars /\ UNCHANGED <<setup, senderVars>>
        /\ UNCHANGED <<sstate, k, wire, rstate, asked, expected, got, refused, upload>>
    BY <1>1 DEF vars, receiverVars, senderVars, setup
  <2>2. ReceiverAt' = ReceiverAt /\ (Reads' <=> Reads) /\ SenderAt' = SenderAt /\ (Busy' <=> Busy)
    BY <2>1, ReceiverStays, SenderSame DEF TypeInv
  <2>3. InStream => InStream'
    BY <2>1, <2>2, SameStream DEF InStream
  <2> QED  BY <2>1, <2>2, <2>3, SameSetup DEF StreamInv, Receiving, Downloading
<1>2. CASE Next
  BY <1>2, StreamSenderStep, StreamReceiverStep DEF Next
<1> QED  BY <1>1, <1>2

\* The bytes between send_file_data and its reader are a stretch of the stream.
THEOREM TransferStreamInv == Spec => []StreamInv
<1>1. Init => StreamInv
  <2> SUFFICES ASSUME Init PROVE StreamInv
    OBVIOUS
  <2>1. /\ sstate = "idle" /\ k = 1 /\ wire = <<>> /\ got = <<>> /\ ~refused /\ asked = 0
        /\ rstate = IF upload THEN "header" ELSE "ask"
    BY DEF Init
  <2>2. ReceiverAt = Start(asked + 1) /\ asked + 1 = 1
    BY <2>1 DEF ReceiverAt
  <2>3. SenderAt = Start(1) /\ ~Busy
    BY <2>1 DEF SenderAt, Busy
  <2>4. InStream
    BY <2>1, <2>2, <2>3 DEF InStream, InRow, Begins, Ends
  <2>5. Receiving /\ Downloading
    BY <2>1, <2>3 DEF Receiving, Downloading
  <2> QED  BY <2>1, <2>4, <2>5 DEF StreamInv
<1>2. TypeInv /\ StreamInv /\ [Next]_vars => StreamInv'
  BY StreamInvStep
<1> QED  BY <1>1, <1>2, TransferTypeInv, PTL DEF Spec

\* The server takes data for a header only behind an upload it has refused.
THEOREM TransferFramed == Spec => []Framed
<1>1. StreamInv => Framed
  BY DEF StreamInv, Framed
<1> QED  BY <1>1, TransferStreamInv, PTL

-----------------------------------------------------------------------------
(* What is stored                                                          *)

\* A chunk is received as far as its bytes have come.
LEMMA Received ==
  ASSUME TypeInv, StreamInv, Reads, rstate = "data"
  PROVE  /\ asked \in NotEmpty /\ asked \in Messages /\ asked \in Nat /\ asked > 0
         /\ got = First(Data(asked), Len(got))
         /\ Len(got) >= expected => got = Data(asked)
         /\ got # Data(asked) => Len(got) < expected
<1>1. /\ asked \in NotEmpty /\ expected = lengths[asked] /\ got = Slice(asked, 3, 3 + Len(got))
      /\ Len(got) <= expected /\ got \in Seq(Units) /\ lengths \in Seq(Nat)
  BY DEF StreamInv, Receiving, HeaderSize, TypeInv, ReceiverInv, SetupInv
<1>2. /\ asked \in Messages /\ asked \in Nat /\ Size(asked) = 3 + expected /\ expected \in Nat
      /\ Data(asked) = Slice(asked, 3, Size(asked)) /\ Data(asked) \in Seq(Units)
      /\ Len(Data(asked)) = expected
  BY <1>1, Positions, HeaderData DEF Messages
<1>3. asked > 0
  BY <1>1, <1>2, UnitsAre
<1>4. PICK g, s \in Nat : g = Len(got) /\ s = Size(asked) /\ g <= expected
  BY <1>1, <1>2
<1>5. 3 <= s /\ s <= Size(asked) /\ g \in 0..(s - 3)
  BY <1>2, <1>4
<1>6. First(Slice(asked, 3, s), g) = Slice(asked, 3, 3 + g)
  BY <1>1, <1>2, <1>4, <1>5, SliceCut
<1>7. got = First(Data(asked), Len(got))
  BY <1>1, <1>2, <1>4, <1>6
<1>8. ASSUME Len(got) >= expected PROVE got = Data(asked)
  <2>1. Len(got) = Len(Data(asked))
    BY <1>2, <1>4, <1>8
  <2>2. First(Data(asked), Len(Data(asked))) = Data(asked)
    BY <1>2 DEF First
  <2> QED  BY <1>7, <2>1, <2>2
<1>9. Len(got) \in Nat
  BY <1>1
<1> QED  BY <1>1, <1>2, <1>3, <1>7, <1>8, <1>9

\* What has been stored stays, and what is received now comes behind it.
LEMMA Added ==
  ASSUME TypeInv, asked \in Messages, Finishes(asked, got)
  PROVE  /\ Len(files) \in Nat /\ Len(files') = Len(files) + 1
         /\ \A j \in 1..Len(files) : files'[j] = files[j]
         /\ files'[Len(files) + 1] = [message |-> asked, bytes |-> got]
         /\ DOMAIN files = 1..Len(files) /\ DOMAIN files' = 1..(Len(files) + 1)
<1>1. files \in Seq([message : Messages, bytes : Seq(Units)]) /\ got \in Seq(Units)
  BY DEF TypeInv, ReceiverInv
<1>2. [message |-> asked, bytes |-> got] \in [message : Messages, bytes : Seq(Units)]
  BY <1>1
<1>3. files' = Append(files, [message |-> asked, bytes |-> got])
  BY DEF Finishes
<1> QED  BY <1>1, <1>2, <1>3

\* A step of an upload that stores nothing.
LEMMA UploadSame ==
  ASSUME lengths \in Seq(Nat), UploadInv, upload, UNCHANGED setup, UNCHANGED files,
         sstate = "dead" => sstate' = "dead",
         Broken => wire' = <<>> /\ rstate' = "header",
         rstate' = "header" => rstate = "header" /\ asked' = asked,
         rstate' = "data" => \/ rstate = "data" /\ asked' = asked
                             \/ rstate = "header" /\ asked' \in NotEmpty /\ asked' > asked /\ asked \in Nat
                                /\ \A n \in NotEmpty : n > asked => n >= asked'
  PROVE  UploadInv'
<1> USE SameSetup
<1>1. (Broken' <=> Broken) /\ Stored' = Stored
  BY DEF Broken, Whole, Stored
<1>2. StoredExact'
  BY DEF UploadInv, StoredExact
<1>3. ASSUME rstate' = "data" PROVE Stored' = {n \in NotEmpty' : n < asked'}
  <2>1. CASE rstate = "data" /\ asked' = asked
    BY <1>1, <2>1 DEF UploadInv
  <2>2. CASE rstate = "header" /\ asked' \in NotEmpty /\ asked' > asked /\ asked \in Nat
             /\ \A n \in NotEmpty : n > asked => n >= asked'
    <3>1. NotEmpty \subseteq Int
      BY UnitsAre
    <3>2. \A n \in NotEmpty : n <= asked <=> n < asked'
      BY <2>2, <3>1
    <3> QED  BY <1>1, <2>2, <3>2 DEF UploadInv
  <2> QED  BY <1>3, <2>1, <2>2
<1> QED  BY <1>1, <1>2, <1>3 DEF UploadInv

\* The server's step that stores a chunk.
LEMMA UploadStores ==
  ASSUME TypeInv, StreamInv, UploadInv, upload, UNCHANGED setup, rstate = "data",
         Finishes(asked, got), asked' = asked, UNCHANGED <<sstate, wire>>,
         got # Data(asked) => sstate = "dead" /\ wire = <<>>
  PROVE  UploadInv'
<1> USE SameSetup
<1>0. Reads
  BY DEF Reads
<1>1. /\ asked \in NotEmpty /\ asked \in Messages /\ asked \in Nat
      /\ got = First(Data(asked), Len(got))
  BY <1>0, Received
<1>2. PICK l \in Nat :
        /\ l = Len(files) /\ Len(files') = l + 1
        /\ \A j \in 1..l : files'[j] = files[j]
        /\ files'[l + 1] = [message |-> asked, bytes |-> got]
        /\ DOMAIN files = 1..l /\ DOMAIN files' = 1..(l + 1)
  BY <1>1, Added
<1>3. /\ files'[l + 1].message = asked /\ files'[l + 1].bytes = got
      /\ l + 1 \in 1..(l + 1) /\ 1..(l + 1) = 1..l \cup {l + 1}
  BY <1>2
<1>4. ~Broken /\ \A j \in 1..l : files[j] = Whole(files[j].message)
  BY <1>2 DEF UploadInv, Broken
<1>5. Stored = {n \in NotEmpty : n < asked} /\ Stored = {files[j].message : j \in 1..l}
  BY <1>2 DEF UploadInv, Stored
<1>6. Stored' = {n \in NotEmpty : n <= asked}
  <2>1. Stored' = {files'[j].message : j \in 1..(l + 1)}
    BY <1>2 DEF Stored
  <2>2. Stored' = Stored \cup {asked}
    BY <1>2, <1>3, <1>5, <2>1
  <2>3. \A n \in NotEmpty : n <= asked <=> n < asked \/ n = asked
    <3>1. \A n \in NotEmpty : n \in Int
      BY UnitsAre DEF TypeInv, SetupInv
    <3> QED  BY <1>1, <3>1
  <2> QED  BY <1>1, <1>5, <2>2, <2>3
<1>7. StoredExact'
  <2>1. ASSUME NEW j \in 1..(l + 1)
        PROVE  LET m == files'[j].message
               IN /\ files'[j].bytes = First(Data(m), Len(files'[j].bytes))
                  /\ files'[j].bytes # Data(m) => sstate' = "dead" /\ j = Len(files')
                  /\ {files'[n].message : n \in 1..(j - 1)} = {n \in NotEmpty : n < m}
    <3>1. CASE j \in 1..l
      <4>1. LET m == files[j].message
            IN /\ files[j].bytes = First(Data(m), Len(files[j].bytes))
               /\ {files[n].message : n \in 1..(j - 1)} = {n \in NotEmpty : n < m}
        BY <1>2, <3>1 DEF UploadInv, StoredExact
      <4>2. files[j].bytes = Data(files[j].message)
        <5>1. \A m : Whole(m).bytes = Data(m)
          BY DEF Whole
        <5>2. files[j] = Whole(files[j].message)
          BY <1>4, <3>1
        <5> QED  BY <5>1, <5>2
      <4>3. \A n \in 1..(j - 1) : files'[n] = files[n]
        BY <1>2, <3>1
      <4>4. {files'[n].message : n \in 1..(j - 1)} = {files[n].message : n \in 1..(j - 1)}
        BY <4>3
      <4> QED  BY <1>2, <3>1, <4>1, <4>2, <4>4
    <3>2. CASE j = l + 1
      <4>1. {files'[n].message : n \in 1..(j - 1)} = {n \in NotEmpty : n < asked}
        <5>1. j - 1 = l /\ \A n \in 1..l : files'[n].message = files[n].message
          BY <1>2, <3>2
        <5> QED  BY <1>5, <5>1
      <4> QED  BY <1>1, <1>2, <1>3, <3>2, <4>1
    <3> QED  BY <1>3, <2>1, <3>1, <3>2
  <2> QED  BY <1>2, <2>1 DEF StoredExact
<1>8. Broken' => sstate' = "dead" /\ wire' = <<>>
  <2>1. ASSUME Broken' PROVE got # Data(asked)
    <3>1. PICK j \in 1..(l + 1) : files'[j] # Whole(files'[j].message)
      BY <1>2, <2>1 DEF Broken, Whole
    <3>2. j = l + 1
      BY <1>2, <1>3, <1>4, <3>1
    <3> QED  BY <1>2, <1>3, <3>1, <3>2 DEF Whole
  <2> QED  BY <2>1
<1>9. rstate' = "header"
  BY DEF Finishes
<1> QED  BY <1>6, <1>7, <1>8, <1>9 DEF UploadInv

\* Any step of an upload.
LEMMA UploadInvStep ==
  ASSUME TypeInv, StreamInv, UploadInv, upload, [Next]_vars
  PROVE  UploadInv'
<1>1. /\ UNCHANGED setup /\ lengths \in Seq(Nat) /\ asked \in Nat
      /\ rstate \in {"header", "data", "invalid"}
  BY DEF Next, vars, TypeInv, SetupInv, ReceiverInv
<1>2. ASSUME UNCHANGED <<files, rstate, asked>>, sstate = "dead" => sstate' = "dead",
             sstate = "dead" /\ wire = <<>> => wire' = <<>>
      PROVE  UploadInv'
  <2>1. Broken => wire' = <<>> /\ rstate' = "header"
    BY <1>2 DEF UploadInv
  <2> QED  BY <1>1, <1>2, <2>1, UploadSame
<1>3. CASE UNCHANGED vars
  BY <1>2, <1>3 DEF vars, receiverVars, senderVars
<1>4. CASE SenderStep \/ SenderDies
  BY <1>2, <1>4 DEF SenderStep, BeginSend, ReadFile, CopyOrSend, SendSome, Sending, SenderDies, receiverVars
<1>5. CASE ServerHeader
  <2>1. rstate = "header" /\ UNCHANGED <<sstate, files>> /\ wire # <<>> /\ ~Broken
    BY <1>5 DEF ServerHeader, HeaderSize, senderVars, UploadInv, TypeInv, WireInv
  <2>2. CASE refused
    <3>1. rstate' = "invalid"
      BY <1>5, <2>2, ServerReads
    <3> QED  BY <1>1, <2>1, <3>1, UploadSame
  <2>3. CASE ~refused
    <3>1. PICK m \in NotEmpty :
            /\ m > asked /\ \A n \in NotEmpty : n > asked => n >= m
            /\ \/ rstate' = "data" /\ asked' = m
               \/ rstate' = "header" /\ asked' = asked
      BY <1>5, <2>3, ServerReads
    <3>2. CASE rstate' = "data" /\ asked' = m
      BY <1>1, <2>1, <3>1, <3>2, UploadSame
    <3>3. CASE rstate' = "header" /\ asked' = asked
      BY <1>1, <2>1, <3>3, UploadSame
    <3> QED  BY <3>1, <3>2, <3>3
  <2> QED  BY <2>2, <2>3
<1>6. CASE ReceiveData
  <2>1. UNCHANGED <<files, rstate, asked, sstate>> /\ wire # <<>>
    BY <1>6, Taken DEF ReceiveData, senderVars
  <2> QED  BY <1>2, <2>1
<1>7. CASE DataComplete
  <2>1. /\ rstate = "data" /\ Len(got) >= expected /\ Finishes(asked, got)
        /\ UNCHANGED <<sstate, wire, asked>>
    BY <1>7 DEF DataComplete, senderVars
  <2>2. got = Data(asked)
    BY <2>1, Received DEF Reads
  <2> QED  BY <1>1, <2>1, <2>2, UploadStores
<1>8. CASE EndOfFile
  <2>1. /\ rstate = "data" /\ Finishes(asked, got) /\ sstate = "dead" /\ wire = <<>>
        /\ UNCHANGED <<sstate, wire, asked>>
    BY <1>8 DEF EndOfFile, senderVars
  <2> QED  BY <1>1, <2>1, UploadStores
<1>9. CASE Ask \/ ClientHeader \/ TimeOut
  BY <1>1, <1>9 DEF Ask, ClientHeader, TimeOut
<1> QED  BY <1>3, <1>4, <1>5, <1>6, <1>7, <1>8, <1>9 DEF Next, ReceiverStep

\* Any step of a download whose headers are not split.
LEMMA DownloadInvStep ==
  ASSUME TypeInv, StreamInv, DownloadInv, ~upload, ~SplitHeaders, [Next]_vars
  PROVE  DownloadInv'
<1>1. /\ UNCHANGED setup /\ lengths \in Seq(Nat) /\ asked \in 0..Len(lengths) /\ asked \in Nat
      /\ rstate \in {"ask", "header", "data", "done", "failed", "undefined"}
  BY DEF Next, vars, TypeInv, SetupInv, ReceiverInv
<1> USE <1>1, SameSetup
<1>2. \A m : Whole(m)' = Whole(m)
  BY DEF Whole
<1>3. ASSUME UNCHANGED <<files, asked>>,
             \/ rstate' = rstate \/ (rstate = "header" /\ rstate' = "data")
             \/ rstate' \notin {"ask", "done", "header", "data"}
      PROVE  DownloadInv'
  BY <1>2, <1>3 DEF DownloadInv
<1>4. CASE UNCHANGED vars
  BY <1>3, <1>4 DEF vars, receiverVars
<1>5. CASE SenderStep \/ SenderDies
  BY <1>3, <1>5 DEF SenderStep, BeginSend, ReadFile, CopyOrSend, SendSome, SenderDies, receiverVars
<1>6. CASE Ask
  <2>1. rstate = "ask" /\ rstate' = "header" /\ asked' = asked + 1 /\ UNCHANGED files /\ asked' - 1 = asked
    BY <1>6 DEF Ask
  <2>2. files' = [j \in 1..(asked' - 1) |-> Whole(j)]
    BY <2>1 DEF DownloadInv
  <2> QED  BY <1>2, <2>1, <2>2 DEF DownloadInv
<1>7. CASE ClientHeader
  BY <1>3, <1>7 DEF ClientHeader
<1>8. CASE ReceiveData
  BY <1>3, <1>8 DEF ReceiveData
<1>9. CASE DataComplete
  <2>1. /\ rstate = "data" /\ Len(got) >= expected /\ Finishes(asked, got) /\ UNCHANGED asked
        /\ rstate' = IF asked < Len(lengths) THEN "ask" ELSE "done"
    BY <1>9 DEF DataComplete, Finishes
  <2>2. got = Data(asked) /\ asked > 0 /\ asked \in Messages
    BY <2>1, Received DEF Reads
  <2>3. PICK p \in Nat : p = asked - 1 /\ asked = p + 1
    BY <2>2
  <2>4. files = [j \in 1..p |-> Whole(j)]
    BY <2>1, <2>3 DEF DownloadInv
  <2>5. /\ Len(files) \in Nat /\ \A j \in 1..Len(files) : files'[j] = files[j]
        /\ files'[Len(files) + 1] = [message |-> asked, bytes |-> got]
        /\ DOMAIN files = 1..Len(files) /\ DOMAIN files' = 1..(Len(files) + 1)
    BY <2>1, <2>2, Added
  <2>6. Len(files) = p
    BY <2>4, <2>5
  <2>7. \A j \in 1..asked : files'[j] = Whole(j)
    <3> TAKE j \in 1..asked
    <3>1. CASE j \in 1..p
      BY <2>4, <2>5, <2>6, <3>1
    <3>2. CASE j = p + 1
      BY <2>2, <2>3, <2>5, <2>6, <3>2 DEF Whole
    <3> QED  BY <2>3, <3>1, <3>2
  <2>8. files' = [j \in 1..asked |-> Whole(j)]
    <3>1. files' = [j \in DOMAIN files' |-> files'[j]]
      <4>1. files' = Append(files, [message |-> asked, bytes |-> got])
        BY <2>1 DEF Finishes
      <4> QED  BY <2>4, <4>1
    <3> QED  BY <2>3, <2>5, <2>6, <2>7, <3>1
  <2>9. rstate' = "done" => asked = Len(lengths)
    BY <2>1
  <2> QED  BY <1>2, <2>1, <2>8, <2>9 DEF DownloadInv
<1>10. CASE EndOfFile
  BY <1>3, <1>10 DEF EndOfFile
<1>11. CASE TimeOut
  BY <1>3, <1>11 DEF TimeOut
<1>12. CASE ServerHeader
  BY <1>12 DEF ServerHeader
<1> QED  BY <1>4, <1>5, <1>6, <1>7, <1>8, <1>9, <1>10, <1>11, <1>12 DEF Next, ReceiverStep

\* What the receiver has stored or written are the chunks that have gone by.
THEOREM TransferFilesInv == Spec => []FilesInv
<1>1. Init => FilesInv
  <2> SUFFICES ASSUME Init PROVE FilesInv
    OBVIOUS
  <2>1. /\ files = <<>> /\ asked = 0 /\ rstate = IF upload THEN "header" ELSE "ask"
        /\ lengths \in Seq(Nat)
    BY TransferAssumption DEF Init
  <2>2. Stored = {} /\ {n \in NotEmpty : n <= asked} = {}
    <3>1. \A n \in NotEmpty : n >= 1 /\ n \in Nat
      BY <2>1, UnitsAre
    <3> QED  BY <2>1, <3>1 DEF Stored
  <2>3. upload => UploadInv
    BY <2>1, <2>2 DEF UploadInv, StoredExact, Broken
  <2>4. ~upload => DownloadInv
    <3>1. [j \in 1..asked |-> Whole(j)] = <<>>
      BY <2>1
    <3> QED  BY <2>1, <3>1 DEF DownloadInv
  <2> QED  BY <2>3, <2>4 DEF FilesInv
<1>2. TypeInv /\ StreamInv /\ FilesInv /\ [Next]_vars => FilesInv'
  <2> SUFFICES ASSUME TypeInv, StreamInv, FilesInv, [Next]_vars PROVE FilesInv'
    OBVIOUS
  <2>1. upload' = upload
    BY DEF Next, vars, setup
  <2> QED  BY <2>1, UploadInvStep, DownloadInvStep DEF FilesInv
<1> QED  BY <1>1, <1>2, TransferTypeInv, TransferStreamInv, PTL DEF Spec

\* What a server stores is what put sent, under its name.
THEOREM TransferStoredExact == Spec => []StoredExact
<1>1. FilesInv => StoredExact
  BY DEF FilesInv, UploadInv, StoredExact
<1> QED  BY <1>1, TransferFilesInv, PTL

\* A get that succeeds over a connection that delivers headers whole has the chunks;
\* transfer_split shows that it needs this.
THEOREM TransferGotExact == ~SplitHeaders => (Spec => []GotExact)
<1>1. TypeInv /\ FilesInv => (~SplitHeaders => GotExact)
  <2> SUFFICES ASSUME TypeInv, FilesInv, ~SplitHeaders, rstate = "done"
               PROVE  files = [j \in Messages |-> [message |-> j, bytes |-> Data(j)]]
    BY DEF GotExact
  <2>1. ~upload /\ DownloadInv /\ lengths \in Seq(Nat)
    BY DEF TypeInv, SetupInv, ReceiverInv, FilesInv
  <2>2. files = [j \in 1..Len(lengths) |-> Whole(j)] /\ Messages = 1..Len(lengths)
    BY <2>1, UnitsAre DEF DownloadInv
  <2> QED  BY <2>2 DEF Whole
<1>2. ASSUME ~SplitHeaders PROVE Spec => []GotExact
  <2>1. TypeInv /\ FilesInv => GotExact
    BY <1>1, <1>2
  <2> QED  BY <2>1, TransferTypeInv, TransferFilesInv, PTL
<1> QED  BY <1>2

\* With an empty wire both ends are at one place of the stream, so whatever was sent has
\* been read: nothing is lost between chunks, and no reader waits for nothing.
THEOREM TransferAllHandedOver == Spec => [](upload \/ ~SplitHeaders => AllHandedOver)
<1>1. TypeInv /\ StreamInv /\ FilesInv => (upload \/ ~SplitHeaders => AllHandedOver)
  <2> SUFFICES ASSUME TypeInv, StreamInv, FilesInv, upload \/ ~SplitHeaders,
                      sstate = "idle", wire = <<>>, ~refused
               PROVE  /\ rstate = "data" => got = Data(asked)
                      /\ upload => Stored \cup {m \in {asked} : rstate = "data"}
                                     = {m \in NotEmpty : m < k}
    BY DEF AllHandedOver
  <2>1. lengths \in Seq(Nat) /\ asked \in Nat /\ k \in Nat /\ got \in Seq(Units)
    BY DEF TypeInv, SetupInv, SenderInv, ReceiverInv
  <2>2. Reads => ReceiverAt = Start(k)
    <3>1. SenderAt = Start(k)
      BY DEF SenderAt, Busy
    <3>2. Reads => ReceiverAt = SenderAt
      BY DEF StreamInv, InStream, Ends
    <3> QED  BY <3>1, <3>2
  <2>3. ASSUME rstate = "data"
        PROVE  got = Data(asked) /\ Start(asked + 1) = Start(k) /\ asked \in NotEmpty
    <3>1. Reads
      BY <2>3 DEF Reads
    <3>2. /\ asked \in NotEmpty /\ expected = lengths[asked] /\ Len(got) <= expected
          /\ After(asked, 3 + Len(got)) = Start(k)
      BY <2>2, <2>3, <3>1 DEF StreamInv, Receiving, ReceiverAt, HeaderSize
    <3>3. Size(asked) = 3 + expected /\ expected \in Nat /\ Len(got) \in Nat
      BY <2>1, <3>2, Positions, HeaderData
    <3>4. CASE Len(got) < expected
      <4>1. After(asked, 3 + Len(got)) = <<ToCome(asked), 3 + Len(got)>>
        BY <3>3, <3>4 DEF After
      <4>2. 3 + Len(got) = 0
        BY <3>2, <4>1 DEF Start
      <4> QED  BY <3>3, <4>2
    <3>5. CASE Len(got) = expected
      <4>1. got = Data(asked)
        BY <2>3, <3>1, <3>3, <3>5, Received
      <4>2. After(asked, Size(asked)) = Start(k)
        BY <3>2, <3>3, <3>5
      <4> QED  BY <2>1, <3>2, <4>1, <4>2, Positions
    <3> QED  BY <3>2, <3>3, <3>4, <3>5
  <2>4. ASSUME upload
        PROVE  Stored \cup {m \in {asked} : rstate = "data"} = {m \in NotEmpty : m < k}
    <3>1. rstate \in {"header", "data"}
      BY <2>4 DEF TypeInv, ReceiverInv, StreamInv
    <3>2. Start(asked + 1) = Start(k)
      <4>1. CASE rstate = "header"
        BY <2>2, <2>4, <4>1 DEF Reads, ReceiverAt
      <4> QED  BY <2>3, <3>1, <4>1
    <3>3. \A n \in NotEmpty : n \in Nat /\ (n >= asked + 1 <=> n >= k)
      <4>1. ToCome(asked + 1) = ToCome(k)
        BY <3>2 DEF Start
      <4> QED  BY <2>1, <4>1, Positions DEF ToCome
    <3>4. \A n \in NotEmpty : n < k <=> n <= asked
      BY <2>1, <3>3
    <3>5. Stored \cup {m \in {asked} : rstate = "data"} = {n \in NotEmpty : n <= asked}
      <4>1. CASE rstate = "header"
        BY <2>4, <4>1 DEF FilesInv, UploadInv
      <4>2. CASE rstate = "data"
        <5>1. Stored = {n \in NotEmpty : n < asked} /\ asked \in NotEmpty
          BY <2>3, <2>4, <4>2 DEF FilesInv, UploadInv
        <5>2. \A n \in NotEmpty : n <= asked <=> n < asked \/ n = asked
          BY <2>1, <3>3
        <5> QED  BY <4>2, <5>1, <5>2
      <4> QED  BY <3>1, <4>1, <4>2
    <3> QED  BY <3>4, <3>5
  <2> QED  BY <2>3, <2>4
<1> QED  BY <1>1, TransferTypeInv, TransferStreamInv, TransferFilesInv, PTL

-----------------------------------------------------------------------------
(* How many steps a transfer can take                                      *)

\* What the sender has before it: messages, whether it has begun with this one, and the
\* bytes of it that are not sent, with its way round the loop of send_file_data.
SenderRank == CASE sstate = "idle" -> 2 [] sstate = "dead" -> 0 [] OTHER -> 1
BytesLeft == (lengths[k] - haveSent) + Len(pending) + Len(Front)
MessageLeft ==
  IF Busy
  THEN 3 * BytesLeft + (CASE sstate = "read" -> 2 [] sstate = "copy" -> 1 [] OTHER -> 0)
  ELSE 0

\* What the receiver has before it: the chunks a get has not asked for, and what is on
\* the wire, with the end of the chunk it is at.
ChunksToAsk == IF upload THEN 0 ELSE Len(lengths) - asked
ReadsLeft == 3 * Len(wire) + (CASE rstate = "data" -> 2 [] rstate = "header" -> 1 [] OTHER -> 0)

SenderNearer ==
  \/ k' > k
  \/ k' = k /\ SenderRank' < SenderRank
  \/ k' = k /\ SenderRank' = SenderRank /\ MessageLeft' < MessageLeft
ReceiverNearer ==
  /\ UNCHANGED senderVars
  /\ \/ ChunksToAsk' < ChunksToAsk
     \/ ChunksToAsk' = ChunksToAsk /\ ReadsLeft' < ReadsLeft

\* These can be counted.
LeftCounted ==
  /\ k \in 1..(Len(lengths) + 1)
  /\ SenderRank \in 0..2 /\ MessageLeft \in Nat /\ ChunksToAsk \in Nat /\ ReadsLeft \in Nat

\* The orders are well-founded: no count goes below zero.
LEMMA LeftTypes ==
  ASSUME TypeInv
  PROVE  LeftCounted
<1>1. k \in 1..(Len(lengths) + 1) /\ Len(wire) \in Nat /\ asked \in 0..Len(lengths)
  BY DEF TypeInv, SenderInv, WireInv, ReceiverInv
<1>2. MessageLeft \in Nat
  <2>1. CASE Busy
    <3>1. BytesLeft \in Nat
      BY <2>1, InMessage DEF BytesLeft
    <3> QED  BY <2>1, <3>1 DEF MessageLeft
  <2> QED  BY <2>1 DEF MessageLeft
<1>3. ReadsLeft \in Nat
  BY <1>1 DEF ReadsLeft
<1>4. ChunksToAsk \in Nat
  <2>1. Len(lengths) \in Nat
    BY DEF TypeInv, SetupInv
  <2> QED  BY <1>1, <2>1 DEF ChunksToAsk
<1> QED  BY <1>1, <1>2, <1>3, <1>4 DEF LeftCounted, SenderRank

\* Every step of send_file_data: the loop sends something each time round.
LEMMA SenderGoesOn ==
  ASSUME TypeInv, SenderStep \/ SenderDies, UNCHANGED setup
  PROVE  SenderNearer
<1>1. lengths' = lengths /\ k \in Nat
  BY DEF setup, TypeInv, SenderInv
<1>2. CASE BeginSend
  BY <1>1, <1>2 DEF BeginSend, SenderNearer, SenderRank
<1>3. CASE SenderDies
  BY <1>3 DEF SenderDies, SenderNearer, SenderRank, TypeInv, SenderInv
<1>4. CASE ReadFile
  <2>1. /\ sstate = "read" /\ sstate' = "copy" /\ Busy /\ Busy' /\ k' = k /\ com' = com
        /\ pending = <<>> /\ Front = com /\ Front' = com
    BY <1>4 DEF ReadFile, TypeInv, SenderInv, Busy, Front, Sending
  <2>2. PICK n \in Nat : n <= lengths[k] - haveSent /\ haveSent' = haveSent + n
                         /\ pending' = SubSeq(Data(k), haveSent + 1, haveSent + n)
    <3>1. Smaller(Buffer, lengths[k] - haveSent) \in Nat
          /\ Smaller(Buffer, lengths[k] - haveSent) <= lengths[k] - haveSent
      BY <2>1, InMessage, TransferAssumption DEF Smaller
    <3> QED  BY <1>4, <3>1 DEF ReadFile
  <2>3. lengths[k] \in Nat /\ haveSent \in Nat /\ Len(com) \in Nat /\ k \in Messages
    BY <2>1, InMessage
  <2>4. Len(pending') = n /\ Len(pending) = 0
    <3>1. Data(k) \in Seq(Units) /\ Len(Data(k)) = lengths[k]
      BY <2>3, HeaderData DEF TypeInv, SetupInv
    <3> QED  BY <2>1, <2>2, <2>3, <3>1
  <2>5. BytesLeft' = BytesLeft /\ BytesLeft \in Int
    BY <1>1, <2>1, <2>2, <2>3, <2>4 DEF BytesLeft
  <2>6. MessageLeft' < MessageLeft
    BY <2>1, <2>5 DEF MessageLeft
  <2> QED  BY <2>1, <2>6 DEF SenderNearer, SenderRank
<1>5. CASE CopyOrSend
  <2>1. /\ sstate = "copy" /\ sstate' \in {"send_full", "send_rest"} /\ Busy /\ Busy' /\ k' = k
        /\ haveSent' = haveSent /\ Front = com /\ Front' = toSend'
    BY <1>5 DEF CopyOrSend, TypeInv, SenderInv, Busy, Front, Sending
  <2>2. lengths[k] \in Nat /\ haveSent \in Nat /\ Len(com) \in Nat /\ Len(pending) \in Nat
        /\ com \in Seq(Units) /\ pending \in Seq(Units) /\ Len(com) <= Buffer
    BY <2>1, InMessage DEF TypeInv, SenderInv
  <2>3. Len(toSend') + Len(pending') = Len(com) + Len(pending)
    <3>1. PICK room \in Nat : room = Buffer - Len(com)
      BY <2>2, TransferAssumption
    <3>2. CASE Len(pending) > room
      <4>1. toSend' = com \o First(pending, room) /\ pending' = Rest(pending, room)
        BY <1>5, <3>1, <3>2 DEF CopyOrSend
      <4>2. room \in 0..Len(pending)
        BY <2>2, <3>2
      <4>3. /\ First(pending, room) \in Seq(Units) /\ Len(First(pending, room)) = room
            /\ Len(Rest(pending, room)) = Len(pending) - room
        BY <2>2, <4>2, Cut
      <4>4. Len(toSend') = Len(com) + room
        BY <2>2, <4>1, <4>3, Joined
      <4> QED  BY <2>2, <4>1, <4>3, <4>4
    <3>3. CASE ~(Len(pending) > room)
      <4>1. toSend' = com \o pending /\ pending' = <<>>
        BY <1>5, <3>1, <3>3 DEF CopyOrSend
      <4>2. Len(toSend') = Len(com) + Len(pending) /\ Len(<<>>) = 0
        BY <2>2, <4>1, Joined
      <4> QED  BY <2>2, <4>1, <4>2
    <3> QED  BY <3>2, <3>3
  <2>4. Len(toSend') \in Int /\ Len(pending') \in Int
    BY CopyOrSendStep, <1>5 DEF SenderInv
  <2>5. BytesLeft' = BytesLeft /\ BytesLeft \in Int
    <3>1. BytesLeft = (lengths[k] - haveSent) + Len(pending) + Len(com)
      BY <2>1 DEF BytesLeft
    <3>2. BytesLeft' = (lengths[k] - haveSent) + Len(pending') + Len(toSend')
      BY <1>1, <2>1 DEF BytesLeft
    <3>3. \A r, c, p, t, q \in Int : t + q = c + p => r + q + t = r + p + c /\ r + p + c \in Int
      OBVIOUS
    <3>4. lengths[k] - haveSent \in Int /\ Len(com) \in Int /\ Len(pending) \in Int
      BY <2>2
    <3> QED  BY <2>3, <2>4, <3>1, <3>2, <3>3, <3>4
  <2>6. MessageLeft' < MessageLeft
    BY <2>1, <2>5 DEF MessageLeft
  <2> QED  BY <2>1, <2>6 DEF SenderNearer, SenderRank
<1>6. CASE SendSome
  <2>1. /\ sstate \in {"send_full", "send_rest"} /\ Busy /\ Front = toSend
        /\ haveSent' = haveSent /\ pending' = pending
    BY <1>6 DEF SendSome, Sending, Busy, Front
  <2>2. lengths[k] \in Nat /\ haveSent \in Nat /\ Len(toSend) \in Nat /\ Len(pending) \in Nat
        /\ toSend \in Seq(Units)
    BY <2>1, InMessage DEF TypeInv, SenderInv
  <2>3. PICK n \in 1..Len(toSend) : Sent(n) /\ toSend' = Rest(toSend, n)
    BY <1>6 DEF SendSome
  <2>4. Len(toSend') = Len(toSend) - n
    BY <2>2, <2>3, Cut
  <2>5. PICK e \in Int : e = (lengths[k] - haveSent) + Len(pending)
    BY <2>2
  <2>6. BytesLeft = e + Len(toSend)
    BY <2>1, <2>5 DEF BytesLeft
  <2>7. MessageLeft = 3 * (e + Len(toSend))
    BY <2>1, <2>2, <2>6 DEF MessageLeft
  <2>8. CASE Len(toSend) > n
    <3>1. sstate' = sstate /\ k' = k
      BY <2>3, <2>8 DEF Sent
    <3>2. Busy' /\ Front' = toSend'
      BY <2>1, <3>1 DEF Busy, Front, Sending
    <3>3. BytesLeft' = e + Len(toSend')
      BY <1>1, <2>1, <2>5, <3>1, <3>2 DEF BytesLeft
    <3>4. MessageLeft' = 3 * (e + Len(toSend'))
      BY <2>1, <2>2, <2>4, <3>1, <3>2, <3>3 DEF MessageLeft
    <3>5. MessageLeft' < MessageLeft
      BY <2>2, <2>4, <2>7, <3>4
    <3> QED  BY <2>1, <3>1, <3>5 DEF SenderNearer, SenderRank
  <2>9. CASE ~(Len(toSend) > n)
    <3>1. com' = <<>> /\ n = Len(toSend) /\ Len(<<>>) = 0
      BY <2>2, <2>3, <2>9 DEF Sent
    <3>2. CASE sstate' = "idle" /\ k' = k + 1
      BY <1>1, <3>2 DEF SenderNearer
    <3>3. CASE sstate' \in {"copy", "read"} /\ k' = k
      <4>1. Busy' /\ Front' = com'
        BY <3>3 DEF Busy, Front, Sending
      <4>2. BytesLeft' = e
        BY <1>1, <2>1, <2>5, <3>1, <3>3, <4>1 DEF BytesLeft
      <4>3. MessageLeft' <= 3 * e + 2 /\ MessageLeft' \in Int
        BY <3>3, <4>1, <4>2 DEF MessageLeft
      <4>4. MessageLeft' < MessageLeft
        BY <2>2, <2>7, <3>1, <4>3
      <4> QED  BY <2>1, <3>3, <4>4 DEF SenderNearer, SenderRank
    <3> QED  BY <2>3, <2>9, <3>2, <3>3 DEF Sent
  <2> QED  BY <2>8, <2>9
<1> QED  BY <1>2, <1>3, <1>4, <1>5, <1>6 DEF SenderStep

\* Every step of the receiver takes something off the wire, or ends a chunk, a request
\* or the whole; a wait that timed out ends it too.
LEMMA ReceiverGoesOn ==
  ASSUME TypeInv, ReceiverStep \/ TimeOut, UNCHANGED setup
  PROVE  ReceiverNearer
<1>1. UNCHANGED senderVars
  BY ReceiverStepTypes
<1>2. /\ upload' = upload /\ lengths' = lengths /\ Len(lengths) \in Nat
      /\ asked \in 0..Len(lengths) /\ wire \in Seq(Units) /\ Len(wire) \in Nat
  BY DEF setup, TypeInv, SetupInv, ReceiverInv, WireInv
<1>3. ASSUME NEW n \in 1..Len(wire), wire' = Rest(wire, n), ChunksToAsk' = ChunksToAsk,
             rstate = "data" => rstate' = "data", rstate \in {"header", "data"}
      PROVE  ReceiverNearer
  <2>1. n \in 0..Len(wire)
    BY <1>2
  <2>2. Len(wire') = Len(wire) - n
    BY <1>2, <1>3, <2>1, Cut
  <2>3. ReadsLeft' < ReadsLeft
    BY <1>2, <1>3, <2>2 DEF ReadsLeft
  <2> QED  BY <1>1, <1>3, <2>3 DEF ReceiverNearer
<1>4. ASSUME UNCHANGED <<wire, asked>>, \/ rstate = "data" /\ rstate' # "data"
                                        \/ rstate = "header" /\ rstate' = "failed"
      PROVE  ReceiverNearer
  <2>1. ReadsLeft' < ReadsLeft
    BY <1>2, <1>4 DEF ReadsLeft
  <2> QED  BY <1>1, <1>2, <1>4, <2>1 DEF ReceiverNearer, ChunksToAsk
<1>5. CASE ServerHeader
  <2>1. HeaderSize \in 1..Len(wire)
    BY <1>2, <1>5 DEF ServerHeader, HeaderSize
  <2> QED  BY <1>2, <1>3, <1>5, <2>1 DEF ServerHeader, ChunksToAsk
<1>6. CASE Ask
  <2>1. ~upload /\ asked' = asked + 1
    BY <1>6 DEF Ask, TypeInv, ReceiverInv
  <2>2. ChunksToAsk' < ChunksToAsk
    BY <1>2, <2>1 DEF ChunksToAsk
  <2> QED  BY <1>1, <2>2 DEF ReceiverNearer
<1>7. CASE ClientHeader
  <2>1. PICK n \in 1..Len(wire) : wire' = Rest(wire, n)
    <3>1. wire # <<>>
      BY <1>2, <1>7 DEF ClientHeader, Smaller, HeaderSize
    <3> QED  BY <1>7, <3>1, Taken DEF ClientHeader
  <2>2. rstate = "header" /\ ChunksToAsk' = ChunksToAsk
    BY <1>2, <1>7 DEF ClientHeader, ChunksToAsk
  <2> QED  BY <1>3, <2>1, <2>2
<1>8. CASE ReceiveData
  <2>1. PICK n \in 1..Len(wire) : wire' = Rest(wire, n)
    BY <1>8, Taken
  <2>2. rstate = "data" /\ rstate' = "data" /\ ChunksToAsk' = ChunksToAsk
    BY <1>2, <1>8 DEF ReceiveData, ChunksToAsk
  <2> QED  BY <1>3, <2>1, <2>2
<1>9. CASE DataComplete
  BY <1>4, <1>9 DEF DataComplete, Finishes
<1>10. CASE EndOfFile
  BY <1>4, <1>10 DEF EndOfFile, Finishes
<1>11. CASE TimeOut
  BY <1>4, <1>11 DEF TimeOut
<1> QED  BY <1>5, <1>6, <1>7, <1>8, <1>9, <1>10, <1>11 DEF ReceiverStep

\* A transfer does not go round for ever: every step of the sender, and every step of
\* the receiver that leaves the sender where it is, brings it nearer to the end in a
\* well-founded order, however the bytes are cut up, and whatever dies, is refused or
\* times out.  OnlyEmptyLost and GetReturns rest on this and on fairness.
THEOREM TransferStepsRunOut ==
  /\ Spec => []LeftCounted
  /\ Spec => [][/\ (SenderStep \/ SenderDies) => SenderNearer
                /\ (ReceiverStep \/ TimeOut) => ReceiverNearer]_vars
<1>1. TypeInv => LeftCounted
  BY LeftTypes
<1>2. TypeInv /\ [Next]_vars => [/\ (SenderStep \/ SenderDies) => SenderNearer
                                 /\ (ReceiverStep \/ TimeOut) => ReceiverNearer]_vars
  BY SenderGoesOn, ReceiverGoesOn DEF Next
<1> QED  BY <1>1, <1>2, TransferTypeInv, PTL DEF Spec

=============================================================================
