---------------------------- MODULE SerializationProofs ----------------------------
(***************************************************************************)
(* Proofs about the two classes of serialize.h that read files.  CAutoFile *)
(* (Serialization): whatever a file holds, bytes and values agree, and     *)
(* what is read is what was written, in its order.  CBufferedFile          *)
(* (BufferedFile): the ring holds what may be asked for, and read delivers *)
(* the bytes of the file.                                                  *)
(***************************************************************************)
EXTENDS Serialization, BufferedFile, EncodingProofs, SequenceTheorems
LOCAL INSTANCE SequencesExt

-----------------------------------------------------------------------------
(***************************************************************************)
(* Vectors of pairs.                                                       *)
(***************************************************************************)
Lists == {v \in Seq(Pairs) : Len(v) <= MAX_SIZE}

\* A list of pairs that may be written.
LEMMA ListIs ==
  ASSUME NEW v \in Lists
  PROVE  v \in Seq(Pairs) /\ Len(v) \in 0 .. MAX_SIZE /\ Len(v) \in Nat /\ \A i \in 1 .. Len(v) : v[i] \in Pairs
<1>1. v \in Seq(Pairs) /\ Len(v) <= MAX_SIZE
  BY DEF Lists
<1>2. Len(v) \in Nat /\ MAX_SIZE \in Nat
  BY <1>1, LenProperties, EncodingAssumption
<1>3. \A i \in 1 .. Len(v) : v[i] \in Pairs
  BY <1>1, ElementOfSeq
<1> QED BY <1>1, <1>2, <1>3

\* The loop that writes pairs, as the table of its states.
LEMMA ListStepped ==
  ASSUME SizesFit, NEW v \in Lists
  PROVE  \E f : /\ f \in [0 .. Len(v) -> Seq(Byte)] /\ f[0] = WriteCompactSize(Len(v))
                /\ \A i \in 1 .. Len(v) : f[i] = f[i - 1] \o WritePair(v[i])
                /\ WriteElements(v) = f[Len(v)]
<1> DEFINE top == Len(v)
           S == Seq(Byte)
           c == WriteCompactSize(Len(v))
           F == [i \in 1 .. top |-> [x \in S |-> x \o WritePair(v[i])]]
<1>1. top \in Nat /\ c \in S
  BY ListIs, SizeIs
<1>2. ASSUME NEW i \in 1 .. top, NEW x \in S PROVE x \o WritePair(v[i]) \in S
  <2>1. v[i] \in Pairs
    BY ListIs
  <2>2. WritePair(v[i]) \in Seq(Byte)
    BY <2>1, PairWritten
  <2> QED BY <2>2, ConcatProperties
<1>3. F \in [1 .. top -> [S -> S]]
  <2> HIDE DEF top, S
  <2> QED BY <1>2
<1>4. PICK f : Steps(f, top, S, c, F)
  <2> HIDE DEF top, F, S, c
  <2> QED BY <1>1, <1>3, StepByStep
<1>5. f \in [0 .. top -> S] /\ f[0] = c /\ \A i \in 1 .. top : f[i - 1] \in S /\ f[i] = F[i][f[i - 1]]
  <2> HIDE DEF top, F, S, c
  <2> QED BY <1>1, <1>4 DEF Steps
<1>6. ASSUME NEW i \in 1 .. top PROVE f[i] = f[i - 1] \o WritePair(v[i])
  <2>1. f[i - 1] \in S /\ f[i] = F[i][f[i - 1]]
    <3> HIDE DEF top, F, S, c
    <3> QED BY <1>5
  <2> HIDE DEF top, S, c
  <2> QED BY <2>1
<1> DEFINE Def(g) == g = [i \in 0 .. top |-> IF i = 0 THEN c ELSE g[i - 1] \o WritePair(v[i])]
           g == CHOOSE h : Def(h)
<1>7. Def(f)
  <2>1. ASSUME NEW i \in 0 .. top PROVE f[i] = IF i = 0 THEN c ELSE f[i - 1] \o WritePair(v[i])
    <3>1. CASE i = 0
      <4> HIDE DEF top, F, S, c
      <4> QED BY <1>5, <3>1
    <3>2. CASE i # 0
      <4>1. i \in 1 .. top
        <5> HIDE DEF top, F, S, c
        <5> QED BY <1>1, <3>2
      <4> HIDE DEF top, F, S, c
      <4> QED BY <1>6, <3>2, <4>1, Zenon
    <3> QED BY <3>1, <3>2
  <2>2. f = [i \in 0 .. top |-> f[i]]
    <3> HIDE DEF top, F, S, c
    <3> QED BY <1>5
  <2> HIDE DEF top, F, S, c
  <2> QED BY <2>1, <2>2, Zenon
<1>8. Def(g)
  <2> HIDE DEF Def
  <2> QED BY <1>7, Zenon DEF g
<1>9. WriteElements(v) = g[top]
  BY Zenon DEF WriteElements
<1>10. g = f
  <2> HIDE DEF g, top, F, S, c
  <2> DEFINE T == {i \in 0 .. top : g[i] = f[i]}
  <2>1. \A i \in 0 .. top : g[i] = IF i = 0 THEN c ELSE g[i - 1] \o WritePair(v[i])
    BY <1>8, Zenon
  <2>2. g = [i \in 0 .. top |-> g[i]]
    BY <1>8, Zenon
  <2> HIDE DEF Def
  <2>3. 0 \in T
    BY <1>1, <1>5, <2>1
  <2>4. ASSUME NEW i \in 0 .. top - 1, i \in T PROVE i + 1 \in T
    <3>1. i + 1 \in 0 .. top /\ i + 1 \in 1 .. top /\ i + 1 # 0 /\ (i + 1) - 1 = i
      BY <1>1
    <3>2. g[i] = f[i]
      BY <2>4
    <3> DEFINE j == i + 1
    <3>3. j \in 0 .. top /\ j \in 1 .. top /\ j # 0 /\ g[j - 1] = f[j - 1]
      BY <3>1, <3>2
    <3> HIDE DEF j
    <3>4. g[j] = g[j - 1] \o WritePair(v[j]) /\ f[j] = f[j - 1] \o WritePair(v[j])
      BY <1>6, <2>1, <3>3, Zenon
    <3>5. g[j] = f[j]
      BY <3>3, <3>4, Zenon
    <3> QED BY <3>1, <3>5 DEF j
  <2>5. T = 0 .. top
    <3>1. T \in SUBSET (0 .. top)
      OBVIOUS
    <3> HIDE DEF T
    <3> QED BY <1>1, <2>3, <2>4, <3>1, InductTo
  <2>6. \A i \in 0 .. top : g[i] = f[i]
    BY <2>5
  <2>7. f = [i \in 0 .. top |-> f[i]]
    BY <1>5
  <2> HIDE DEF T
  <2> QED BY <2>2, <2>6, <2>7, Zenon
<1>11. f \in [0 .. top -> S] /\ f[0] = c /\ (\A i \in 1 .. top : f[i] = f[i - 1] \o WritePair(v[i])) /\ WriteElements(v) = f[top]
  <2> HIDE DEF g, Def, F
  <2> QED BY <1>5, <1>6, <1>9, <1>10
<1> HIDE DEF F, g, Def
<1> QED BY <1>11

\* The sum of the sizes of pairs, as the table of its values.
LEMMA ListSized ==
  ASSUME SizesFit, NEW v \in Lists
  PROVE  \E f : /\ f \in [0 .. Len(v) -> Nat] /\ f[0] = GetSizeOfCompactSize(Len(v))
                /\ \A i \in 1 .. Len(v) : f[i] = f[i - 1] + PairSize(v[i])
                /\ ElementsSize(v) = f[Len(v)]
<1> DEFINE top == Len(v)
           S == Nat
           c == GetSizeOfCompactSize(Len(v))
           F == [i \in 1 .. top |-> [x \in S |-> x + PairSize(v[i])]]
<1>1. top \in Nat /\ c \in S
  BY ListIs, SizeIs
<1>2. ASSUME NEW i \in 1 .. top, NEW x \in S PROVE x + PairSize(v[i]) \in S
  <2>1. v[i] \in Pairs
    BY ListIs
  <2>2. PairSize(v[i]) = Len(WritePair(v[i])) /\ Len(WritePair(v[i])) \in Nat
    BY <2>1, PairWritten DEF PairSize, BytesSize
  <2> QED BY <2>2
<1>3. F \in [1 .. top -> [S -> S]]
  <2> HIDE DEF top, S
  <2> QED BY <1>2
<1>4. PICK f : Steps(f, top, S, c, F)
  <2> HIDE DEF top, F, S, c
  <2> QED BY <1>1, <1>3, StepByStep
<1>5. f \in [0 .. top -> S] /\ f[0] = c /\ \A i \in 1 .. top : f[i - 1] \in S /\ f[i] = F[i][f[i - 1]]
  <2> HIDE DEF top, F, S, c
  <2> QED BY <1>1, <1>4 DEF Steps
<1>6. ASSUME NEW i \in 1 .. top PROVE f[i] = f[i - 1] + PairSize(v[i])
  <2>1. f[i - 1] \in S /\ f[i] = F[i][f[i - 1]]
    <3> HIDE DEF top, F, S, c
    <3> QED BY <1>5
  <2> HIDE DEF top, S, c
  <2> QED BY <2>1
<1> DEFINE Def(g) == g = [i \in 0 .. top |-> IF i = 0 THEN c ELSE g[i - 1] + PairSize(v[i])]
           g == CHOOSE h : Def(h)
<1>7. Def(f)
  <2>1. ASSUME NEW i \in 0 .. top PROVE f[i] = IF i = 0 THEN c ELSE f[i - 1] + PairSize(v[i])
    <3>1. CASE i = 0
      <4> HIDE DEF top, F, S, c
      <4> QED BY <1>5, <3>1
    <3>2. CASE i # 0
      <4>1. i \in 1 .. top
        <5> HIDE DEF top, F, S, c
        <5> QED BY <1>1, <3>2
      <4> HIDE DEF top, F, S, c
      <4> QED BY <1>6, <3>2, <4>1, Zenon
    <3> QED BY <3>1, <3>2
  <2>2. f = [i \in 0 .. top |-> f[i]]
    <3> HIDE DEF top, F, S, c
    <3> QED BY <1>5
  <2> HIDE DEF top, F, S, c
  <2> QED BY <2>1, <2>2, Zenon
<1>8. Def(g)
  <2> HIDE DEF Def
  <2> QED BY <1>7, Zenon DEF g
<1>9. ElementsSize(v) = g[top]
  BY Zenon DEF ElementsSize
<1>10. g = f
  <2> HIDE DEF g, top, F, S, c
  <2> DEFINE T == {i \in 0 .. top : g[i] = f[i]}
  <2>1. \A i \in 0 .. top : g[i] = IF i = 0 THEN c ELSE g[i - 1] + PairSize(v[i])
    BY <1>8, Zenon
  <2>2. g = [i \in 0 .. top |-> g[i]]
    BY <1>8, Zenon
  <2> HIDE DEF Def
  <2>3. 0 \in T
    BY <1>1, <1>5, <2>1
  <2>4. ASSUME NEW i \in 0 .. top - 1, i \in T PROVE i + 1 \in T
    <3>1. i + 1 \in 0 .. top /\ i + 1 \in 1 .. top /\ i + 1 # 0 /\ (i + 1) - 1 = i
      BY <1>1
    <3>2. g[i] = f[i]
      BY <2>4
    <3> DEFINE j == i + 1
    <3>3. j \in 0 .. top /\ j \in 1 .. top /\ j # 0 /\ g[j - 1] = f[j - 1]
      BY <3>1, <3>2
    <3> HIDE DEF j
    <3>4. g[j] = g[j - 1] + PairSize(v[j]) /\ f[j] = f[j - 1] + PairSize(v[j])
      BY <1>6, <2>1, <3>3, Zenon
    <3>5. g[j] = f[j]
      BY <3>3, <3>4, Zenon
    <3> QED BY <3>1, <3>5 DEF j
  <2>5. T = 0 .. top
    <3>1. T \in SUBSET (0 .. top)
      OBVIOUS
    <3> HIDE DEF T
    <3> QED BY <1>1, <2>3, <2>4, <3>1, InductTo
  <2>6. \A i \in 0 .. top : g[i] = f[i]
    BY <2>5
  <2>7. f = [i \in 0 .. top |-> f[i]]
    BY <1>5
  <2> HIDE DEF T
  <2> QED BY <2>2, <2>6, <2>7, Zenon
<1>11. f \in [0 .. top -> S] /\ f[0] = c /\ (\A i \in 1 .. top : f[i] = f[i - 1] + PairSize(v[i])) /\ ElementsSize(v) = f[top]
  <2> HIDE DEF g, Def, F
  <2> QED BY <1>5, <1>6, <1>9, <1>10
<1> HIDE DEF F, g, Def
<1> QED BY <1>11

\* Pairs have bytes, as many as are announced.
LEMMA ListWritten ==
  ASSUME SizesFit, NEW v \in Lists
  PROVE  WriteElements(v) \in Seq(Byte) /\ Len(WriteElements(v)) = ElementsSize(v) /\ Len(WriteElements(v)) \in Nat
<1> DEFINE n == Len(v)
<1>0. n \in Nat /\ (\A i \in 1 .. n : v[i] \in Pairs) /\ n \in 0 .. MAX_SIZE
  BY ListIs
<1>1. PICK f : /\ f \in [0 .. n -> Seq(Byte)] /\ f[0] = WriteCompactSize(n)
               /\ \A i \in 1 .. n : f[i] = f[i - 1] \o WritePair(v[i])
               /\ WriteElements(v) = f[n]
  BY ListStepped
<1>2. PICK k : /\ k \in [0 .. n -> Nat] /\ k[0] = GetSizeOfCompactSize(n)
               /\ \A i \in 1 .. n : k[i] = k[i - 1] + PairSize(v[i])
               /\ ElementsSize(v) = k[n]
  BY ListSized
<1> HIDE DEF n
<1> DEFINE T == {i \in 0 .. n : Len(f[i]) = k[i]}
<1>3. 0 \in T
  BY <1>0, <1>1, <1>2, SizeIs
<1>4. ASSUME NEW i \in 0 .. n - 1, i \in T PROVE i + 1 \in T
  <2> DEFINE j == i + 1
             w == WritePair(v[j])
             a == f[i]
  <2>1. j \in 1 .. n /\ j \in 0 .. n /\ i \in 0 .. n /\ j - 1 = i
    BY <1>0
  <2>2. w \in Seq(Byte) /\ Len(w) = PairSize(v[j]) /\ a \in Seq(Byte) /\ Len(a) = k[i]
    BY <1>0, <1>1, <1>4, <2>1, PairWritten DEF PairSize, BytesSize
  <2>3. f[j] = a \o w /\ k[j] = k[i] + PairSize(v[j])
    BY <1>1, <1>2, <2>1
  <2> HIDE DEF w, a, j
  <2>4. Len(a \o w) = Len(a) + Len(w)
    BY <2>2, Rejoined
  <2> QED BY <2>1, <2>2, <2>3, <2>4 DEF j
<1>5. T = 0 .. n
  <2>1. T \in SUBSET (0 .. n)
    OBVIOUS
  <2> HIDE DEF T
  <2> QED BY <1>0, <1>3, <1>4, <2>1, InductTo
<1>6. n \in 0 .. n
  BY <1>0
<1>7. Len(f[n]) = k[n] /\ f[n] \in Seq(Byte) /\ k[n] \in Nat
  BY <1>1, <1>2, <1>5, <1>6
<1> QED BY <1>1, <1>2, <1>7

\* Concatenation of bytes is associative.
LEMMA Regrouped ==
  ASSUME NEW x \in Seq(Byte), NEW y \in Seq(Byte), NEW z \in Seq(Byte)
  PROVE  (x \o y) \o z = x \o (y \o z)
  BY Rejoined

\* The bytes of pairs are those of their number and of each of them.
LEMMA ListJoined ==
  ASSUME SizesFit, NEW v \in Lists, NEW s \in Seq(Byte), NEW rest \in Seq(Byte), NEW g, Chain(g, v, s, rest)
  PROVE  WriteElements(v) \o rest = WriteCompactSize(Len(v)) \o s
<1> DEFINE n == Len(v)
<1>0. n \in Nat /\ (\A i \in 1 .. n : v[i] \in Pairs) /\ n \in 0 .. MAX_SIZE
  BY ListIs
<1>1. PICK f : /\ f \in [0 .. n -> Seq(Byte)] /\ f[0] = WriteCompactSize(n)
               /\ \A i \in 1 .. n : f[i] = f[i - 1] \o WritePair(v[i])
               /\ WriteElements(v) = f[n]
  BY ListStepped
<1>2. g \in [0 .. n -> Seq(Byte)] /\ g[0] = s /\ g[n] = rest /\ \A i \in 1 .. n : g[i - 1] = WritePair(v[i]) \o g[i]
  BY DEF Chain
<1> HIDE DEF n
<1> DEFINE T == {i \in 0 .. n : f[i] \o g[i] = WriteCompactSize(n) \o s}
<1>3. 0 \in T
  BY <1>0, <1>1, <1>2
<1>4. ASSUME NEW i \in 0 .. n - 1, i \in T PROVE i + 1 \in T
  <2> DEFINE j == i + 1
             w == WritePair(v[j])
             x == f[i]
             y == g[j]
  <2>1. j \in 1 .. n /\ j \in 0 .. n /\ i \in 0 .. n /\ j - 1 = i
    BY <1>0
  <2>2. w \in Seq(Byte) /\ x \in Seq(Byte) /\ y \in Seq(Byte)
    BY <1>0, <1>1, <1>2, <2>1, PairWritten
  <2>3. f[j] = x \o w /\ g[i] = w \o y
    BY <1>1, <1>2, <2>1
  <2>4. x \o g[i] = WriteCompactSize(n) \o s
    BY <1>4
  <2> HIDE DEF w, x, j, y, T
  <2>5. (x \o w) \o y = x \o (w \o y)
    BY <2>2, Regrouped
  <2>6. f[j] \o y = WriteCompactSize(n) \o s
    BY <2>3, <2>4, <2>5
  <2> QED BY <2>1, <2>6 DEF j, y, T
<1>5. T = 0 .. n
  <2>1. T \in SUBSET (0 .. n)
    OBVIOUS
  <2> HIDE DEF T
  <2> QED BY <1>0, <1>3, <1>4, <2>1, InductTo
<1>6. n \in 0 .. n
  BY <1>0
<1>7. f[n] \o g[n] = WriteCompactSize(n) \o s
  BY <1>5, <1>6
<1> QED BY <1>1, <1>2, <1>7 DEF n

\* Every pairs leave such bytes before any rest.
LEMMA ChainOf ==
  ASSUME SizesFit, NEW v \in Seq(Pairs), NEW rest \in Seq(Byte)
  PROVE  \E s \in Seq(Byte) : \E g : Chain(g, v, s, rest)
<1> DEFINE m == Len(v)
           Has(u, t) == \E s \in Seq(Byte) : \E g : Chain(g, u, s, t)
           T == {i \in 0 .. m : \A u \in Seq(Pairs), t \in Seq(Byte) : Len(u) = i => Has(u, t)}
<1>0. m \in Nat
  BY LenProperties
<1>1. 0 \in T
  <2>1. ASSUME NEW u \in Seq(Pairs), NEW t \in Seq(Byte), Len(u) = 0 PROVE Has(u, t)
    <3> DEFINE g == [i \in 0 .. 0 |-> t]
    <3>1. g \in [0 .. Len(u) -> Seq(Byte)] /\ g[0] = t /\ g[Len(u)] = t /\ ~\E i \in 1 .. Len(u) : TRUE
      BY <2>1
    <3> HIDE DEF g
    <3>2. Chain(g, u, t, t)
      BY <3>1 DEF Chain
    <3> QED BY <3>2
  <2> HIDE DEF Has
  <2> QED BY <1>0, <2>1
<1>2. ASSUME NEW i \in 0 .. m - 1, i \in T PROVE i + 1 \in T
  <2>1. ASSUME NEW u \in Seq(Pairs), NEW t \in Seq(Byte), Len(u) = i + 1 PROVE Has(u, t)
    <3> DEFINE a == SubSeq(u, 1, i)
               p == u[i + 1]
               w == WritePair(p)
               x == w \o t
    <3>1. i \in 0 .. Len(u) - 1 /\ i + 1 \in 1 .. Len(u) /\ i + 1 = Len(u)
      BY <1>0, <2>1
    <3>2. a \o <<p>> = SubSeq(u, 1, i + 1) /\ a \in Seq(Pairs) /\ Len(a) = i /\ SubSeq(u, 1, Len(u)) = u
      BY <3>1, FrontGrows
    <3>3. a \o <<p>> = u
      <4> HIDE DEF a, p
      <4> QED BY <3>1, <3>2
    <3>4. p \in Pairs
      BY <3>1, ElementOfSeq
    <3> HIDE DEF a, p
    <3>5. w \in Seq(Byte)
      BY <3>4, PairWritten
    <3> HIDE DEF w
    <3>6. x \in Seq(Byte)
      BY <3>5, Rejoined
    <3>7. x = WritePair(p) \o t
      BY DEF w
    <3> HIDE DEF x
    <3>8. Has(a, x)
      <4> HIDE DEF Has
      <4> QED BY <1>2, <3>2, <3>6
    <3>9. PICK s \in Seq(Byte) : \E g : Chain(g, a, s, x)
      BY <3>8
    <3>10. PICK g : Chain(g, a, s, x)
      BY <3>9
    <3>11. \E h : Chain(h, Append(a, p), s, t)
      BY <3>2, <3>4, <3>6, <3>7, <3>10, ChainLonger
    <3>12. Append(a, p) = u
      BY <3>2, <3>3, <3>4, AppendIsConcat
    <3>13. \E h : Chain(h, u, s, t)
      BY <3>11, <3>12
    <3> QED BY <3>13
  <2>2. i + 1 \in 0 .. m
    BY <1>0
  <2> HIDE DEF Has
  <2> QED BY <2>1, <2>2
<1>3. T = 0 .. m
  <2>1. T \in SUBSET (0 .. m)
    OBVIOUS
  <2> HIDE DEF T
  <2> QED BY <1>0, <1>1, <1>2, <2>1, InductTo
<1>4. m \in T
  <2> HIDE DEF T
  <2> QED BY <1>0, <1>3
<1>5. Has(v, rest)
  <2> HIDE DEF Has
  <2> QED BY <1>4
<1> QED BY <1>5

\* The elements of what was written are read back.
LEMMA ListReadBack ==
  ASSUME SizesFit, NEW v \in Lists, NEW rest \in Seq(Byte)
  PROVE  \E s \in Seq(Byte) : /\ ReadCompactSize(WriteElements(v) \o rest) = Got(Len(v), s)
                              /\ ReadElements(ReadPair, s, Len(v), NoPair) = Got(v, rest)
<1>1. v \in Seq(Pairs) /\ Len(v) \in 0 .. MAX_SIZE
  BY ListIs
<1>2. PICK s \in Seq(Byte) : \E g : Chain(g, v, s, rest)
  BY <1>1, ChainOf
<1>3. PICK g : Chain(g, v, s, rest)
  BY <1>2
<1>4. WriteElements(v) \o rest = WriteCompactSize(Len(v)) \o s
  BY <1>3, ListJoined
<1>5. ReadElements(ReadPair, s, Len(v), NoPair) = Got(v, rest)
  BY <1>1, <1>3, PairsReadBack
<1>6. ReadCompactSize(WriteCompactSize(Len(v)) \o s) = Got(Len(v), s)
  BY <1>1, SizeReadBack
<1> QED BY <1>4, <1>5, <1>6

\* A vector of pairs is read back.
LEMMA PairsBack ==
  ASSUME SizesFit, NEW v \in Lists, NEW rest \in Seq(Byte), NEW old
  PROVE  ReadPairs(WriteElements(v) \o rest, old) = Got(v, rest)
<1> DEFINE b == WriteElements(v) \o rest
           n == Len(v)
<1>1. PICK s \in Seq(Byte) : ReadCompactSize(b) = Got(n, s) /\ ReadElements(ReadPair, s, n, NoPair) = Got(v, rest)
  BY ListReadBack
<1> HIDE DEF b, n
<1>2. ReadPairs(b, old) = PairsOf(Got(n, s))
  BY <1>1, Zenon DEF ReadPairs
<1>3. PairsOf(Got(n, s)) = WithBlock(ReadElements(ReadPair, s, n, NoPair), n)
  <2> DEFINE r == Got(n, s)
  <2>1. r.ok /\ r.value = n /\ r.rest = s
    BY GotParts
  <2> HIDE DEF r
  <2>2. PairsOf(r) = WithBlock(ReadElements(ReadPair, r.rest, r.value, NoPair), r.value)
    BY <2>1, Zenon DEF PairsOf
  <2> QED BY <2>1, <2>2, Zenon DEF r
<1>4. WithBlock(Got(v, rest), n) = Got(v, rest)
  BY GotParts, Zenon DEF WithBlock
<1> QED BY <1>1, <1>2, <1>3, <1>4 DEF b

\* What was read of bytes s as the elements of a size.
ListRead(s, r) ==
  \/ Failed(r)
  \/ \E v \in Lists, rest \in Seq(Byte) : r = Got(v, rest) /\ s = WriteElements(v) \o rest /\ Len(v) <= Len(s)

\* Any bytes are n pairs in their only form, or the reading of one fails.
LEMMA ElementsAreRead ==
  ASSUME SizesFit, NEW s \in Seq(Byte), NEW n \in 0 .. MAX_SIZE, NEW t \in Seq(Byte), s = WriteCompactSize(n) \o t
  PROVE  LET r == ReadElements(ReadPair, t, n, NoPair)
         IN /\ ListRead(s, r) /\ (~r.ok => Failed(r) /\ Len(r.value) \in 1 .. Len(s))
            /\ (r.ok => WithBlock(r, n) = r)
<1> DEFINE r == ReadElements(ReadPair, t, n, NoPair)
           c == WriteCompactSize(n)
<1>0. n \in Nat /\ Len(t) \in Nat /\ MAX_SIZE \in Nat /\ n <= MAX_SIZE
  BY LenProperties, EncodingAssumption
<1>1. PairsRead(t, n, r)
  BY <1>0, PairsAreRead
<1>2. c \in Seq(Byte) /\ Len(c) \in Nat \ {0}
  BY SizeIs
<1>3. s = c \o t
  OBVIOUS
<1> HIDE DEF r, c
<1>4. Len(s) = Len(c) + Len(t)
  BY <1>2, <1>3, Rejoined
<1>5. CASE Failed(r) /\ Len(r.value) \in 1 .. Len(t) + 1
  <2>1. ~r.ok
    BY <1>5, FailedIs
  <2>2. Len(r.value) \in 1 .. Len(s)
    BY <1>0, <1>2, <1>4, <1>5
  <2> QED BY <1>5, <2>1, <2>2 DEF r, ListRead
<1>6. CASE \E v \in Seq(Pairs), rest \in Seq(Byte) : Len(v) = n /\ r = Got(v, rest) /\ \E g : Chain(g, v, t, rest)
  <2>1. PICK v \in Seq(Pairs), rest \in Seq(Byte) : Len(v) = n /\ r = Got(v, rest) /\ \E g : Chain(g, v, t, rest)
    BY <1>6
  <2>2. PICK g : Chain(g, v, t, rest)
    BY <2>1
  <2>3. v \in Lists
    BY <1>0, <2>1 DEF Lists
  <2>4. WriteElements(v) \o rest = s
    BY <1>3, <2>1, <2>2, <2>3, ListJoined DEF c
  <2>5. r.ok /\ r.value = v
    BY <2>1, GotParts
  <2>6. n <= Len(s)
    <3>1. n \in 0 .. Len(v)
      BY <1>0, <2>1
    <3>2. Len(g[n]) + n <= Len(t) /\ Len(g[n]) \in Nat
      BY <2>2, <3>1, ChainShortens
    <3> QED BY <1>0, <1>2, <1>4, <3>2
  <2>7. WithBlock(r, n) = r
    BY <2>5, Zenon DEF WithBlock
  <2>8. ListRead(s, r)
    BY <2>1, <2>3, <2>4, <2>6 DEF ListRead
  <2> QED BY <2>5, <2>7, <2>8 DEF r
<1> QED BY <1>1, <1>5, <1>6 DEF PairsRead

\* Any bytes are a vector of pairs in its only form, or its reading fails; a
\* size that is not believed costs a block.
LEMMA PairsAccepted ==
  ASSUME SizesFit, NEW s \in Seq(Byte), NEW old
  PROVE  /\ ListRead(s, ReadPairs(s, old))
         /\ Len(ReadPairs(s, old).value) <= Len(s) + Block
<1> DEFINE z == ReadCompactSize(s)
           r == ReadPairs(s, old)
<1>0. Len(s) \in Nat /\ Block \in Nat /\ MAX_SIZE \in Nat
  BY LenProperties, EncodingAssumption
<1>1. r = PairsOf(z)
  BY Zenon DEF ReadPairs
<1>2. CASE ~z.ok
  <2>1. r = Leaving(z, <<>>)
    BY <1>1, <1>2, Zenon DEF PairsOf
  <2>2. Failed(Leaving(z, <<>>)) /\ Leaving(z, <<>>).value = <<>>
    BY <1>2, SizeFails
  <2>3. Len(<<>>) = 0
    OBVIOUS
  <2> HIDE DEF z, r
  <2>4. Len(r.value) = 0 /\ Failed(r)
    BY <2>1, <2>2, <2>3
  <2> QED BY <1>0, <2>4 DEF r, ListRead
<1>3. CASE z.ok
  <2> DEFINE n == z.value
             t == z.rest
             e == ReadElements(ReadPair, t, n, NoPair)
  <2>1. n \in 0 .. MAX_SIZE /\ t \in Seq(Byte) /\ s = WriteCompactSize(n) \o t
    BY <1>3, SizeAccepted
  <2>2. r = WithBlock(e, n)
    BY <1>1, <1>3, Zenon DEF PairsOf
  <2>3. ListRead(s, e) /\ (~e.ok => Failed(e) /\ Len(e.value) \in 1 .. Len(s)) /\ (e.ok => WithBlock(e, n) = e)
    BY <2>1, ElementsAreRead
  <2> HIDE DEF z, r, n, t, e
  <2>4. CASE e.ok
    <3>1. r = e
      BY <2>2, <2>3, <2>4
    <3>2. ~Failed(e)
      BY <2>4, FailedIs
    <3>3. PICK v \in Lists, rest \in Seq(Byte) : e = Got(v, rest) /\ Len(v) <= Len(s)
      BY <2>3, <3>2 DEF ListRead
    <3>4. Len(e.value) <= Len(s) /\ Len(e.value) \in Nat
      BY <3>3, GotParts, ListIs
    <3>5. Len(r.value) <= Len(s) + Block
      BY <1>0, <3>1, <3>4
    <3> QED BY <2>3, <3>1, <3>5 DEF r
  <2>5. CASE ~e.ok
    <3> DEFINE k == Len(e.value)
               m == Lesser(n, Blocks(k - 1))
               w == [i \in 1 .. m |-> IF i <= k THEN e.value[i] ELSE NoPair]
    <3>1. Failed(e) /\ k \in 1 .. Len(s)
      BY <2>3, <2>5
    <3>2. r = Leaving(e, w)
      BY <2>2, <2>5, Zenon DEF WithBlock
    <3>3. m \in Nat /\ m <= Len(s) + Block
      <4> HIDE DEF k
      <4>1. k - 1 \in Nat
        BY <1>0, <3>1
      <4>2. Blocks(k - 1) \in Nat /\ Blocks(k - 1) <= (k - 1) + Block
        BY <4>1, BlocksReach
      <4>3. m \in Nat /\ m <= Blocks(k - 1)
        BY <1>0, <2>1, <4>2 DEF Lesser
      <4> QED BY <1>0, <3>1, <4>2, <4>3
    <3>4. Len(w) = m
      <4> DEFINE S == {IF i <= k THEN e.value[i] ELSE NoPair : i \in 1 .. m}
      <4>1. w \in [1 .. m -> S]
        <5> HIDE DEF m, k
        <5> QED OBVIOUS
      <4> HIDE DEF S, w, m
      <4> QED BY <3>3, <4>1, RowIsSeq
    <3> HIDE DEF k, m, w
    <3>5. Failed(r) /\ r.value = w
      BY <3>1, <3>2, FailedIs
    <3>6. Len(r.value) <= Len(s) + Block
      BY <3>3, <3>4, <3>5
    <3> QED BY <3>5, <3>6 DEF r, ListRead
  <2> QED BY <2>4, <2>5
<1> QED BY <1>2, <1>3

-----------------------------------------------------------------------------
(***************************************************************************)
(* Sets and maps: the elements in their order.                             *)
(***************************************************************************)
\* The loop that puts elements in order, as the table of its states.
LEMMA OrderStepped ==
  ASSUME NEW K \in SUBSET Byte
  PROVE  \E f : /\ f \in [0 .. Radix -> Seq(Byte)] /\ f[0] = <<>>
                /\ \A i \in 1 .. Radix : f[i] = f[i - 1] \o (IF i - 1 \in K THEN <<i - 1>> ELSE <<>>)
                /\ InOrder(K) = f[Radix]
<1> DEFINE top == Radix
           S == Seq(Byte)
           c == <<>>
           F == [i \in 1 .. top |-> [x \in S |-> x \o (IF i - 1 \in K THEN <<i - 1>> ELSE <<>>)]]
<1>1. top \in Nat /\ c \in S
  BY RadixBase
<1>2. ASSUME NEW i \in 1 .. top, NEW x \in S PROVE x \o (IF i - 1 \in K THEN <<i - 1>> ELSE <<>>) \in S
  <2> DEFINE w == IF i - 1 \in K THEN <<i - 1>> ELSE <<>>
  <2>1. w \in Seq(Byte)
    <3>1. CASE i - 1 \in K
      <4>1. i - 1 \in Byte
        BY <3>1
      <4>2. w = <<i - 1>>
        BY <3>1
      <4> QED BY <4>1, <4>2
    <3>2. CASE i - 1 \notin K
      <4>1. w = <<>>
        BY <3>2
      <4> QED BY <4>1
    <3> QED BY <3>1, <3>2
  <2> HIDE DEF w
  <2>2. x \o w \in Seq(Byte)
    BY <2>1, ConcatProperties
  <2> QED BY <2>2 DEF w
<1>3. F \in [1 .. top -> [S -> S]]
  <2> HIDE DEF top, S
  <2> QED BY <1>2
<1>4. PICK f : Steps(f, top, S, c, F)
  <2> HIDE DEF top, F, S, c
  <2> QED BY <1>1, <1>3, StepByStep
<1>5. f \in [0 .. top -> S] /\ f[0] = c /\ \A i \in 1 .. top : f[i - 1] \in S /\ f[i] = F[i][f[i - 1]]
  <2> HIDE DEF top, F, S, c
  <2> QED BY <1>1, <1>4 DEF Steps
<1>6. ASSUME NEW i \in 1 .. top PROVE f[i] = f[i - 1] \o (IF i - 1 \in K THEN <<i - 1>> ELSE <<>>)
  <2>1. f[i - 1] \in S /\ f[i] = F[i][f[i - 1]]
    <3> HIDE DEF top, F, S, c
    <3> QED BY <1>5
  <2> HIDE DEF top, S, c
  <2> QED BY <2>1
<1> DEFINE Def(g) == g = [i \in 0 .. top |-> IF i = 0 THEN c ELSE g[i - 1] \o (IF i - 1 \in K THEN <<i - 1>> ELSE <<>>)]
           g == CHOOSE h : Def(h)
<1>7. Def(f)
  <2>1. ASSUME NEW i \in 0 .. top PROVE f[i] = IF i = 0 THEN c ELSE f[i - 1] \o (IF i - 1 \in K THEN <<i - 1>> ELSE <<>>)
    <3>1. CASE i = 0
      <4> HIDE DEF top, F, S, c
      <4> QED BY <1>5, <3>1
    <3>2. CASE i # 0
      <4>1. i \in 1 .. top
        <5> HIDE DEF top, F, S, c
        <5> QED BY <1>1, <3>2
      <4> HIDE DEF top, F, S, c
      <4> QED BY <1>6, <3>2, <4>1, Zenon
    <3> QED BY <3>1, <3>2
  <2>2. f = [i \in 0 .. top |-> f[i]]
    <3> HIDE DEF top, F, S, c
    <3> QED BY <1>5
  <2> HIDE DEF top, F, S, c
  <2> QED BY <2>1, <2>2, Zenon
<1>8. Def(g)
  <2> HIDE DEF Def
  <2> QED BY <1>7, Zenon DEF g
<1>9. InOrder(K) = g[top]
  BY Zenon DEF InOrder
<1>10. g = f
  <2> HIDE DEF g, top, F, S, c
  <2> DEFINE T == {i \in 0 .. top : g[i] = f[i]}
  <2>1. \A i \in 0 .. top : g[i] = IF i = 0 THEN c ELSE g[i - 1] \o (IF i - 1 \in K THEN <<i - 1>> ELSE <<>>)
    BY <1>8, Zenon
  <2>2. g = [i \in 0 .. top |-> g[i]]
    BY <1>8, Zenon
  <2> HIDE DEF Def
  <2>3. 0 \in T
    <3>1. 0 \in 0 .. top
      BY <1>1
    <3>2. g[0] = c
      BY <2>1, <3>1, Zenon
    <3>3. f[0] = c
      BY <1>5
    <3> QED BY <3>1, <3>2, <3>3
  <2>4. ASSUME NEW i \in 0 .. top - 1, i \in T PROVE i + 1 \in T
    <3>1. i + 1 \in 0 .. top /\ i + 1 \in 1 .. top /\ i + 1 # 0 /\ (i + 1) - 1 = i
      BY <1>1
    <3>2. g[i] = f[i]
      BY <2>4
    <3> DEFINE j == i + 1
    <3>3. j \in 0 .. top /\ j \in 1 .. top /\ j # 0 /\ g[j - 1] = f[j - 1]
      BY <3>1, <3>2
    <3> HIDE DEF j
    <3>4. g[j] = g[j - 1] \o (IF j - 1 \in K THEN <<j - 1>> ELSE <<>>) /\ f[j] = f[j - 1] \o (IF j - 1 \in K THEN <<j - 1>> ELSE <<>>)
      BY <1>6, <2>1, <3>3, Zenon
    <3>5. g[j] = f[j]
      BY <3>3, <3>4, Zenon
    <3> QED BY <3>1, <3>5 DEF j
  <2>5. T = 0 .. top
    <3>1. T \in SUBSET (0 .. top)
      OBVIOUS
    <3> HIDE DEF T
    <3> QED BY <1>1, <2>3, <2>4, <3>1, InductTo
  <2>6. \A i \in 0 .. top : g[i] = f[i]
    BY <2>5
  <2>7. f = [i \in 0 .. top |-> f[i]]
    BY <1>5
  <2> HIDE DEF T
  <2> QED BY <2>2, <2>6, <2>7, Zenon
<1>11. f \in [0 .. top -> S] /\ f[0] = c /\ (\A i \in 1 .. top : f[i] = f[i - 1] \o (IF i - 1 \in K THEN <<i - 1>> ELSE <<>>)) /\ InOrder(K) = f[top]
  <2> HIDE DEF g, Def, F
  <2> QED BY <1>5, <1>6, <1>9, <1>10
<1> HIDE DEF F, g, Def
<1> QED BY <1>11

\* The elements of S below n, each once, the smallest first.
ListedBelow(v, S, n) ==
  /\ v \in Seq(Byte) /\ Len(v) <= n
  /\ \A i \in 1 .. Len(v) : v[i] \in S /\ v[i] < n
  /\ \A i, j \in 1 .. Len(v) : i < j => v[i] < v[j]
  /\ \A x \in S : x < n => \E i \in 1 .. Len(v) : v[i] = x

\* The next element, if it is one of S.
LEMMA OneMoreListed ==
  ASSUME NEW S \in SUBSET Byte, NEW n \in Nat, NEW v, ListedBelow(v, S, n)
  PROVE  ListedBelow(v \o (IF n \in S THEN <<n>> ELSE <<>>), S, n + 1)
<1>0. v \in Seq(Byte) /\ Len(v) \in Nat /\ Len(v) <= n /\ S \subseteq Nat /\ \A x \in S : x \in Byte
  BY LenProperties, RadixBase DEF ListedBelow
<1>1. CASE n \notin S
  <2>1. v \o (IF n \in S THEN <<n>> ELSE <<>>) = v
    BY <1>0, <1>1
  <2>2. \A x \in S : x < n + 1 => x < n
    BY <1>0, <1>1
  <2>3. \A i \in 1 .. Len(v) : v[i] < n + 1
    <3> TAKE i \in 1 .. Len(v)
    <3>1. v[i] \in S /\ v[i] < n
      BY DEF ListedBelow
    <3>2. v[i] \in Nat
      BY <1>0, <3>1
    <3> QED BY <3>1, <3>2
  <2>4. ListedBelow(v, S, n + 1)
    BY <1>0, <2>2, <2>3 DEF ListedBelow
  <2> QED BY <2>1, <2>4
<1>2. CASE n \in S
  <2> DEFINE w == <<n>>
             m == Len(v)
             u == v \o w
  <2>1. w \in Seq(Byte) /\ Len(w) = 1 /\ w[1] = n
    BY <1>0, <1>2
  <2> HIDE DEF w
  <2>2. u \in Seq(Byte) /\ Len(u) = m + 1 /\ \A i \in 1 .. m + 1 : u[i] = IF i <= m THEN v[i] ELSE w[i - m]
    <3>1. u \in Seq(Byte) /\ Len(u) = Len(v) + Len(w)
          /\ \A i \in 1 .. Len(v) + Len(w) : u[i] = IF i <= Len(v) THEN v[i] ELSE w[i - Len(v)]
      BY <1>0, <2>1, ConcatProperties
    <3> HIDE DEF u
    <3> QED BY <2>1, <3>1
  <2> HIDE DEF u
  <2>3. u[m + 1] = n
    <3>1. m + 1 \in 1 .. m + 1 /\ ~(m + 1 <= m) /\ (m + 1) - m = 1
      BY <1>0
    <3> HIDE DEF m
    <3> QED BY <2>1, <2>2, <3>1
  <2>4. \A i \in 1 .. m : u[i] = v[i]
    BY <1>0, <2>2
  <2>5. ASSUME NEW i \in 1 .. m + 1 PROVE u[i] \in S /\ u[i] < n + 1 /\ (i <= m => u[i] < n)
    <3>1. CASE i <= m
      <4>1. i \in 1 .. m
        BY <3>1, <1>0
      <4>2. u[i] = v[i] /\ v[i] \in S /\ v[i] < n
        BY <2>4, <4>1 DEF ListedBelow
      <4>3. v[i] \in Nat
        BY <1>0, <4>2
      <4> QED BY <4>2, <4>3
    <3>2. CASE ~(i <= m)
      <4>1. i = m + 1
        BY <1>0, <3>2
      <4> QED BY <1>2, <2>3, <3>2, <4>1
    <3> QED BY <3>1, <3>2
  <2>6. ASSUME NEW i \in 1 .. m + 1, NEW j \in 1 .. m + 1, i < j PROVE u[i] < u[j]
    <3>0. i \in 1 .. m /\ i <= m
      BY <1>0, <2>6
    <3>1. CASE j <= m
      <4>1. j \in 1 .. m
        BY <1>0, <3>1
      <4>2. v[i] < v[j]
        BY <2>6, <3>0, <4>1 DEF ListedBelow
      <4> QED BY <2>4, <3>0, <4>1, <4>2
    <3>2. CASE ~(j <= m)
      <4>1. j = m + 1
        BY <1>0, <3>2
      <4> QED BY <2>3, <2>5, <3>0, <4>1
    <3> QED BY <3>1, <3>2
  <2>7. ASSUME NEW x \in S, x < n + 1 PROVE \E i \in 1 .. m + 1 : u[i] = x
    <3>0. x \in Nat
      BY <1>0
    <3>1. CASE x = n
      <4>1. m + 1 \in 1 .. m + 1
        BY <1>0
      <4> QED BY <2>3, <3>1, <4>1
    <3>2. CASE x # n
      <4>1. x < n
        BY <2>7, <3>0, <3>2
      <4>2. PICK i \in 1 .. m : v[i] = x
        BY <4>1 DEF ListedBelow
      <4>3. i \in 1 .. m + 1 /\ u[i] = x
        BY <1>0, <2>4, <4>2
      <4> QED BY <4>3
    <3> QED BY <3>1, <3>2
  <2>8. m + 1 <= n + 1
    BY <1>0
  <2>9. ListedBelow(u, S, n + 1)
    <3> HIDE DEF m
    <3> QED BY <2>2, <2>5, <2>6, <2>7, <2>8 DEF ListedBelow
  <2>10. v \o (IF n \in S THEN <<n>> ELSE <<>>) = u
    BY <1>2 DEF u, w
  <2> QED BY <2>9, <2>10
<1> QED BY <1>1, <1>2

\* The elements of a set are listed in their order.
LEMMA OrderIs ==
  ASSUME NEW S \in SUBSET Byte
  PROVE  ListedBelow(InOrder(S), S, Radix)
<1>0. Radix \in Nat
  BY RadixBase
<1>1. PICK f : /\ f \in [0 .. Radix -> Seq(Byte)] /\ f[0] = <<>>
               /\ \A i \in 1 .. Radix : f[i] = f[i - 1] \o (IF i - 1 \in S THEN <<i - 1>> ELSE <<>>)
               /\ InOrder(S) = f[Radix]
  BY OrderStepped
<1> DEFINE T == {n \in 0 .. Radix : ListedBelow(f[n], S, n)}
<1>2. 0 \in T
  <2>1. <<>> \in Seq(Byte) /\ Len(<<>>) = 0
    OBVIOUS
  <2>2. ~\E x \in S : x < 0
    BY RadixBase
  <2>3. ListedBelow(<<>>, S, 0)
    BY <2>1, <2>2 DEF ListedBelow
  <2> QED BY <1>0, <1>1, <2>3
<1>3. ASSUME NEW n \in 0 .. Radix - 1, n \in T PROVE n + 1 \in T
  <2>1. n \in Nat /\ n + 1 \in 1 .. Radix /\ n + 1 \in 0 .. Radix /\ (n + 1) - 1 = n
    BY <1>0
  <2> DEFINE j == n + 1
  <2>2. f[j] = f[n] \o (IF n \in S THEN <<n>> ELSE <<>>)
    <3>1. j \in 1 .. Radix /\ j - 1 = n
      BY <2>1
    <3> HIDE DEF j
    <3>2. f[j] = f[j - 1] \o (IF j - 1 \in S THEN <<j - 1>> ELSE <<>>)
      BY <1>1, <3>1
    <3> QED BY <3>1, <3>2, Zenon
  <2>3. ListedBelow(f[n], S, n)
    BY <1>3
  <2>4. ListedBelow(f[j], S, j)
    BY <2>1, <2>2, <2>3, OneMoreListed
  <2> QED BY <2>1, <2>4
<1>4. T = 0 .. Radix
  <2>1. T \in SUBSET (0 .. Radix)
    OBVIOUS
  <2> HIDE DEF T
  <2> QED BY <1>0, <1>2, <1>3, <2>1, InductTo
<1>5. ListedBelow(f[Radix], S, Radix)
  <2>1. Radix \in T
    <3> HIDE DEF T
    <3> QED BY <1>0, <1>4
  <2> QED BY <2>1
<1> QED BY <1>1, <1>5

\* The elements of a set in their order: each of them once.
LEMMA InOrderIs ==
  ASSUME SizesFit, NEW S \in SUBSET Byte
  PROVE  /\ InOrder(S) \in Seq(Byte) /\ Len(InOrder(S)) \in Nat /\ Len(InOrder(S)) <= MAX_SIZE /\ InOrder(S) \in Strings
         /\ \A i \in 1 .. Len(InOrder(S)) : InOrder(S)[i] \in S
         /\ \A i, j \in 1 .. Len(InOrder(S)) : i # j => InOrder(S)[i] # InOrder(S)[j]
         /\ \A x \in S : \E i \in 1 .. Len(InOrder(S)) : InOrder(S)[i] = x
         /\ ToSet(InOrder(S)) = S
<1> DEFINE v == InOrder(S)
           n == Len(v)
<1>1. ListedBelow(v, S, Radix)
  BY OrderIs
<1> HIDE DEF v
<1>2. v \in Seq(Byte) /\ n \in Nat /\ DOMAIN v = 1 .. n
  BY <1>1, LenProperties DEF ListedBelow
<1>3. n <= MAX_SIZE
  BY <1>1, <1>2, RadixBase, EncodingAssumption DEF SizesFit, ListedBelow
<1>4. \A i \in 1 .. n : v[i] \in S /\ v[i] \in Nat
  <2>1. \A i \in 1 .. n : v[i] \in S
    BY <1>1 DEF ListedBelow
  <2>2. S \subseteq Nat
    BY RadixBase
  <2> HIDE DEF n
  <2> QED BY <2>1, <2>2
<1>5. \A i, j \in 1 .. n : i # j => v[i] # v[j]
  <2> TAKE i, j \in 1 .. n
  <2>1. (i < j => v[i] < v[j]) /\ (j < i => v[j] < v[i])
    BY <1>1 DEF ListedBelow
  <2> HIDE DEF n
  <2>2. i # j => i < j \/ j < i
    BY <1>2
  <2> QED BY <1>4, <2>1, <2>2
<1>6. \A x \in S : \E i \in 1 .. n : v[i] = x
  <2> TAKE x \in S
  <2>1. x < Radix /\ x \in Nat
    BY RadixBase
  <2> QED BY <1>1, <2>1 DEF ListedBelow
<1>7. ToSet(v) = S
  <2> HIDE DEF n
  <2> QED BY <1>2, <1>4, <1>6 DEF ToSet
<1>8. v \in Strings
  BY <1>2, <1>3 DEF Strings
<1> QED BY <1>2, <1>3, <1>4, <1>5, <1>6, <1>7, <1>8 DEF v

\* The size of a size grows with it.
LEMMA SizesGrow ==
  ASSUME NEW n \in Nat, NEW m \in 0 .. n
  PROVE  GetSizeOfCompactSize(m) <= GetSizeOfCompactSize(n)
<1>1. Short \in Int
  BY RadixBase DEF Byte
<1>2. Power(Radix, 2) \in Nat /\ Power(Radix, 4) \in Nat
  BY PowersGrow
<1> DEFINE p == Power(Radix, 2)
           q == Power(Radix, 4)
<1>3. p \in Nat /\ q \in Nat
  BY <1>2
<1>4. \A a \in Nat : Marker(a) = IF a < p THEN Short ELSE IF a < q THEN Short + 1 ELSE Short + 2
  BY Zenon DEF Marker
<1> HIDE DEF p, q
<1>5. \A a \in Nat : Width(Marker(a)) = IF a < p THEN 2 ELSE IF a < q THEN 4 ELSE 8
  BY <1>1, <1>4 DEF Width
<1>6. \A a \in Nat : GetSizeOfCompactSize(a) = IF a < Short THEN 1 ELSE 1 + (IF a < p THEN 2 ELSE IF a < q THEN 4 ELSE 8)
  BY <1>5, Zenon DEF GetSizeOfCompactSize
<1> HIDE DEF Short
<1>7. m \in Nat /\ m <= n
  OBVIOUS
<1> QED BY <1>1, <1>3, <1>6, <1>7

-----------------------------------------------------------------------------
(***************************************************************************)
(* Fewer elements take fewer bytes.                                        *)
(***************************************************************************)
\* s are the sums of numbers w, from c on.
Sums(s, w, n, c) ==
  s \in [0 .. n -> Nat] /\ s[0] = c /\ \A i \in 1 .. n : s[i] = s[i - 1] + w[i]

\* Numbers have sums.
LEMMA SumsExist ==
  ASSUME NEW n \in Nat, NEW c \in Nat, NEW w \in [1 .. n -> Nat]
  PROVE  \E s : Sums(s, w, n, c)
<1> DEFINE F == [i \in 1 .. n |-> [x \in Nat |-> x + w[i]]]
<1>1. F \in [1 .. n -> [Nat -> Nat]]
  OBVIOUS
<1>2. PICK s : Steps(s, n, Nat, c, F)
  <2> HIDE DEF F
  <2> QED BY <1>1, StepByStep
<1>3. s \in [0 .. n -> Nat] /\ s[0] = c /\ \A i \in 1 .. n : s[i] = F[i][s[i - 1]]
  <2> HIDE DEF F
  <2> QED BY <1>2 DEF Steps
<1>4. ASSUME NEW i \in 1 .. n PROVE s[i] = s[i - 1] + w[i]
  <2>1. s[i - 1] \in Nat
    <3>1. i - 1 \in 0 .. n
      OBVIOUS
    <3> HIDE DEF F
    <3> QED BY <1>3, <3>1
  <2>2. s[i] = F[i][s[i - 1]]
    <3> HIDE DEF F
    <3> QED BY <1>3
  <2> QED BY <2>1, <2>2
<1> HIDE DEF F
<1>5. Sums(s, w, n, c)
  BY <1>3, <1>4 DEF Sums
<1> QED BY <1>5

\* A sum is no less than what it begins with.
LEMMA SumsRiseFrom ==
  ASSUME NEW n \in Nat, NEW c \in Nat, NEW w \in [1 .. n -> Nat], NEW s, Sums(s, w, n, c)
  PROVE  s[n] \in Nat /\ c <= s[n]
<1> DEFINE T == {i \in 0 .. n : c <= s[i]}
<1>0. s \in [0 .. n -> Nat] /\ s[0] = c /\ \A i \in 1 .. n : s[i] = s[i - 1] + w[i]
  BY DEF Sums
<1>1. 0 \in T
  BY <1>0
<1>2. ASSUME NEW i \in 0 .. n - 1, i \in T PROVE i + 1 \in T
  <2>1. i + 1 \in 1 .. n /\ i + 1 \in 0 .. n /\ (i + 1) - 1 = i /\ i \in 0 .. n
    OBVIOUS
  <2> DEFINE j == i + 1
  <2>2. s[j] = s[i] + w[j] /\ w[j] \in Nat /\ s[i] \in Nat /\ c <= s[i]
    BY <1>0, <1>2, <2>1
  <2>3. c <= s[j]
    <3> HIDE DEF j
    <3> QED BY <2>2
  <2> QED BY <2>1, <2>3
<1>3. T = 0 .. n
  <2>1. T \in SUBSET (0 .. n)
    OBVIOUS
  <2> HIDE DEF T
  <2> QED BY <1>1, <1>2, <2>1, InductTo
<1>4. n \in 0 .. n
  OBVIOUS
<1> QED BY <1>0, <1>3, <1>4

Zeroed(u, w, n, x) == u[x] = 0 /\ \A j \in 1 .. n : j # x => u[j] = w[j]

Exceeds(s, t, w, n, x) == s[n] = t[n] + w[x]

\* Without one of the numbers the sum is less by it.
LEMMA OneLess ==
  ASSUME NEW n \in Nat, NEW c \in Nat, NEW w \in [1 .. n -> Nat], NEW u \in [1 .. n -> Nat], NEW x \in 1 .. n,
         Zeroed(u, w, n, x),
         NEW s, Sums(s, w, n, c), NEW t, Sums(t, u, n, c)
  PROVE  Exceeds(s, t, w, n, x)
<1> DEFINE T == {i \in 0 .. n : s[i] = t[i] + (IF x <= i THEN w[x] ELSE 0)}
<1>0. /\ s \in [0 .. n -> Nat] /\ s[0] = c /\ \A i \in 1 .. n : s[i] = s[i - 1] + w[i]
      /\ t \in [0 .. n -> Nat] /\ t[0] = c /\ \A i \in 1 .. n : t[i] = t[i - 1] + u[i]
      /\ u[x] = 0 /\ \A j \in 1 .. n : j # x => u[j] = w[j]
  BY DEF Sums, Zeroed
<1>1. 0 \in T
  BY <1>0
<1>2. ASSUME NEW i \in 0 .. n - 1, i \in T PROVE i + 1 \in T
  <2> DEFINE j == i + 1
  <2>1. j \in 1 .. n /\ j \in 0 .. n /\ j - 1 = i /\ i \in 0 .. n /\ x \in Nat /\ i \in Nat /\ j = i + 1
    OBVIOUS
  <2>2. s[j] = s[i] + w[j] /\ t[j] = t[i] + u[j] /\ w[j] \in Nat /\ u[j] \in Nat /\ s[i] \in Nat /\ t[i] \in Nat /\ w[x] \in Nat
    BY <1>0, <2>1
  <2>3. s[i] = t[i] + (IF x <= i THEN w[x] ELSE 0)
    BY <1>2
  <2> HIDE DEF j
  <2>4. CASE j = x
    <3>1. ~(x <= i) /\ x <= j
      BY <2>1, <2>4
    <3> QED BY <1>0, <2>1, <2>2, <2>3, <2>4, <3>1
  <2>5. CASE j # x
    <3>1. u[j] = w[j]
      BY <1>0, <2>1, <2>5
    <3>2. x <= i <=> x <= j
      BY <2>1, <2>5
    <3>3. s[j] = t[j] + (IF x <= j THEN w[x] ELSE 0)
      <4> HIDE DEF T
      <4>1. CASE x <= j
        BY <2>2, <2>3, <3>1, <3>2, <4>1
      <4>2. CASE ~(x <= j)
        BY <2>2, <2>3, <3>1, <3>2, <4>2
      <4> QED BY <4>1, <4>2
    <3> QED BY <2>1, <3>3
  <2> QED BY <2>4, <2>5 DEF j
<1>3. T = 0 .. n
  <2>1. T \in SUBSET (0 .. n)
    OBVIOUS
  <2> HIDE DEF T
  <2> QED BY <1>1, <1>2, <2>1, InductTo
<1>4. n \in 0 .. n /\ x <= n
  OBVIOUS
<1>5. s[n] = t[n] + (IF x <= n THEN w[x] ELSE 0)
  BY <1>3, <1>4
<1> QED BY <1>4, <1>5 DEF Exceeds

\* Numbers p are some of the numbers w, each of them once.
Chosen(at, k, n) == at \in [1 .. k -> 1 .. n] /\ \A i, j \in 1 .. k : i # j => at[i] # at[j]
Picked(p, w, at, k) == \A i \in 1 .. k : p[i] = w[at[i]]

\* The sum of some of the numbers, each of them once, is not more than that of all.
LEMMA SomeOfThem ==
  ASSUME NEW n \in Nat, NEW c \in Nat, NEW w \in [1 .. n -> Nat], NEW s, Sums(s, w, n, c),
         NEW k \in Nat, NEW d \in Nat, NEW at, Chosen(at, k, n),
         NEW p, Picked(p, w, at, k), NEW a, Sums(a, p, k, d)
  PROVE  a[k] \in Nat /\ a[k] + c <= s[n] + d
<1> DEFINE Without(i, t, u) ==
             /\ u \in [1 .. n -> Nat] /\ Sums(t, u, n, c) /\ a[i] + t[n] = s[n] + d
             /\ \A j \in 1 .. n : (\A h \in 1 .. i : at[h] # j) => u[j] = w[j]
           T == {i \in 0 .. k : \E t, u : Without(i, t, u)}
<1>0. a \in [0 .. k -> Nat] /\ a[0] = d /\ \A i \in 1 .. k : a[i] = a[i - 1] + w[at[i]]
  BY DEF Sums, Picked
<1>9. at \in [1 .. k -> 1 .. n] /\ \A i, j \in 1 .. k : i # j => at[i] # at[j]
  BY DEF Chosen
<1>1. s[n] \in Nat
  BY SumsRiseFrom
<1>2. 0 \in T
  <2>1. a[0] + s[n] = s[n] + d
    BY <1>0, <1>1
  <2>2. Without(0, s, w)
    BY <2>1
  <2> HIDE DEF Without
  <2>3. 0 \in 0 .. k
    OBVIOUS
  <2> QED BY <2>2, <2>3
<1>3. ASSUME NEW i \in 0 .. k - 1, i \in T PROVE i + 1 \in T
  <2> DEFINE m == i + 1
             x == at[m]
  <2>1. m \in 1 .. k /\ m \in 0 .. k /\ m - 1 = i /\ i \in 0 .. k /\ i \in Nat
    OBVIOUS
  <2>2. PICK t, u : Without(i, t, u)
    BY <1>3
  <2>3. x \in 1 .. n /\ \A h \in 1 .. i : at[h] # x
    <3>1. x \in 1 .. n
      BY <1>9, <2>1
    <3>2. ASSUME NEW h \in 1 .. i PROVE at[h] # x
      <4>1. h \in 1 .. k /\ h # m
        BY <2>1
      <4> QED BY <1>9, <2>1, <4>1
    <3> QED BY <3>1, <3>2
  <2>4. u[x] = w[x] /\ w[x] \in Nat
    BY <2>2, <2>3
  <2>5. a[m] = a[i] + w[x] /\ a[i] \in Nat
    BY <1>0, <2>1
  <2> HIDE DEF x, m
  <2> DEFINE z == [j \in 1 .. n |-> IF j = x THEN 0 ELSE u[j]]
  <2>6. z \in [1 .. n -> Nat] /\ z[x] = 0 /\ \A j \in 1 .. n : j # x => z[j] = u[j]
    BY <2>2, <2>3
  <2> HIDE DEF z
  <2>7. PICK y : Sums(y, z, n, c)
    BY <2>6, SumsExist
  <2>8. t[n] = y[n] + u[x]
    <3>1. u \in [1 .. n -> Nat]
      BY <2>2
    <3>2. Sums(t, u, n, c)
      BY <2>2
    <3>3. Zeroed(z, u, n, x)
      BY <2>6 DEF Zeroed
    <3>4. x \in 1 .. n /\ z \in [1 .. n -> Nat] /\ Sums(y, z, n, c)
      BY <2>3, <2>6, <2>7
    <3> HIDE DEF Without, T
    <3>5. Exceeds(t, y, u, n, x)
      BY <3>1, <3>2, <3>3, <3>4, OneLess
    <3> QED BY <3>5 DEF Exceeds
  <2>9. y[n] \in Nat /\ t[n] \in Nat
    BY <2>2, <2>6, <2>7, SumsRiseFrom
  <2>10. a[i] + t[n] = s[n] + d
    BY <2>2
  <2>11. a[m] + y[n] = s[n] + d
    BY <1>1, <2>4, <2>5, <2>8, <2>9, <2>10
  <2>12. ASSUME NEW j \in 1 .. n, \A h \in 1 .. m : at[h] # j PROVE z[j] = w[j]
    <3>1. j # x
      BY <2>1, <2>12 DEF x
    <3>2. \A h \in 1 .. i : at[h] # j
      <4> TAKE h \in 1 .. i
      <4>1. h \in 1 .. m
        BY <2>1 DEF m
      <4> QED BY <2>12, <4>1
    <3>3. u[j] = w[j]
      BY <2>2, <3>2
    <3> QED BY <2>6, <3>1, <3>3
  <2>13. Without(m, y, z)
    BY <2>6, <2>7, <2>11, <2>12
  <2> HIDE DEF Without
  <2>14. m \in T
    BY <2>1, <2>13
  <2> QED BY <2>14 DEF m
<1>4. T = 0 .. k
  <2>1. T \in SUBSET (0 .. k)
    OBVIOUS
  <2> HIDE DEF T
  <2> QED BY <1>2, <1>3, <2>1, InductTo
<1>5. k \in 0 .. k
  OBVIOUS
<1>6. PICK t, u : Without(k, t, u)
  <2> HIDE DEF Without
  <2>1. k \in T
    <3> HIDE DEF T
    <3> QED BY <1>4, <1>5
  <2> QED BY <2>1
<1>7. t[n] \in Nat /\ c <= t[n]
  BY <1>6, SumsRiseFrom
<1>8. a[k] \in Nat /\ a[k] + t[n] = s[n] + d
  BY <1>0, <1>5, <1>6
<1> QED BY <1>1, <1>7, <1>8

\* Pairs of which each is one of v, and none twice, take no more bytes than v.
LEMMA FewerPairsAreShorter ==
  ASSUME SizesFit, NEW v \in Lists, NEW a \in Lists, NEW at, Chosen(at, Len(a), Len(v)), Picked(a, v, at, Len(a))
  PROVE  ElementsSize(a) <= ElementsSize(v)
<1> DEFINE n == Len(v)
           k == Len(a)
           w == [i \in 1 .. n |-> PairSize(v[i])]
           c == GetSizeOfCompactSize(n)
           d == GetSizeOfCompactSize(k)
<1>0. n \in Nat /\ k \in Nat /\ n \in 0 .. MAX_SIZE /\ k \in 0 .. MAX_SIZE
  BY ListIs
<1>1. c \in Nat /\ d \in Nat
  BY <1>0, SizeIs
<1>2. PICK s : /\ s \in [0 .. n -> Nat] /\ s[0] = c
               /\ \A i \in 1 .. n : s[i] = s[i - 1] + PairSize(v[i])
               /\ ElementsSize(v) = s[n]
  BY ListSized
<1>3. PICK b : /\ b \in [0 .. k -> Nat] /\ b[0] = d
               /\ \A i \in 1 .. k : b[i] = b[i - 1] + PairSize(a[i])
               /\ ElementsSize(a) = b[k]
  BY ListSized
<1>4. \A i \in 1 .. n : PairSize(v[i]) \in Nat
  <2> TAKE i \in 1 .. n
  <2>1. v[i] \in Pairs
    BY ListIs
  <2>2. PairSize(v[i]) = Len(WritePair(v[i])) /\ Len(WritePair(v[i])) \in Nat
    BY <2>1, PairWritten DEF PairSize, BytesSize
  <2> QED BY <2>2
<1> HIDE DEF n, k, c, d
<1>5. w \in [1 .. n -> Nat] /\ \A i \in 1 .. n : w[i] = PairSize(v[i])
  BY <1>4
<1>6. at \in [1 .. k -> 1 .. n] /\ (\A i, j \in 1 .. k : i # j => at[i] # at[j]) /\ \A i \in 1 .. k : a[i] = v[at[i]]
  BY DEF n, k, Chosen, Picked
<1>15. Chosen(at, k, n)
  BY DEF n, k
<1> HIDE DEF w
<1>7. Sums(s, w, n, c)
  BY <1>2, <1>5 DEF Sums
<1> DEFINE p == [i \in 1 .. k |-> w[at[i]]]
<1>14. \A i \in 1 .. k : p[i] = w[at[i]]
  OBVIOUS
<1>8. \A i \in 1 .. k : p[i] = PairSize(a[i])
  <2> TAKE i \in 1 .. k
  <2>1. p[i] = w[at[i]] /\ at[i] \in 1 .. n /\ a[i] = v[at[i]]
    BY <1>6
  <2> HIDE DEF p
  <2> QED BY <1>5, <2>1
<1>9. Sums(b, p, k, d)
  <2> HIDE DEF p
  <2> QED BY <1>3, <1>8 DEF Sums
<1> HIDE DEF p
<1>10. b[k] \in Nat /\ b[k] + c <= s[n] + d
  <2>1. Picked(p, w, at, k)
    BY <1>14 DEF Picked
  <2>2. n \in Nat /\ k \in Nat /\ c \in Nat /\ d \in Nat /\ w \in [1 .. n -> Nat]
    BY <1>0, <1>1, <1>5
  <2> QED BY <1>7, <1>9, <1>15, <2>1, <2>2, SomeOfThem
<1>11. k <= n
  BY <1>0, <1>6, NoMoreThan
<1>12. d <= c
  BY <1>0, <1>11, SizesGrow DEF c, d
<1>13. s[n] \in Nat
  BY <1>0, <1>1, <1>5, <1>7, SumsRiseFrom
<1> QED BY <1>1, <1>2, <1>3, <1>10, <1>12, <1>13

-----------------------------------------------------------------------------
(***************************************************************************)
(* Sets.                                                                   *)
(***************************************************************************)
\* A set has bytes, as many as are announced.
LEMMA SetWritten ==
  ASSUME SizesFit, NEW S \in SUBSET Byte
  PROVE  /\ WriteSet(S) \in Seq(Byte) /\ Len(WriteSet(S)) = BytesSize(InOrder(S)) /\ Len(WriteSet(S)) \in Nat
         /\ WriteSet(S) = WriteBytes(InOrder(S)) /\ InOrder(S) \in Strings
<1>1. InOrder(S) \in Strings
  BY InOrderIs
<1> QED BY <1>1, TextWritten DEF WriteSet, BytesSize

\* A set is read back.
LEMMA SetReadBack ==
  ASSUME SizesFit, NEW S \in SUBSET Byte, NEW rest \in Seq(Byte), NEW old
  PROVE  ReadSet(WriteSet(S) \o rest, old) = Got(S, rest)
<1> DEFINE v == InOrder(S)
           n == Len(v)
           c == WriteCompactSize(n)
           b == WriteSet(S) \o rest
           s == v \o rest
<1>1. v \in Seq(Byte) /\ n \in Nat /\ n <= MAX_SIZE /\ ToSet(v) = S
  BY InOrderIs
<1>2. WriteSet(S) = c \o v
  BY DEF WriteSet, WriteBytes
<1> HIDE DEF v
<1>3. n \in 0 .. MAX_SIZE
  <2>1. MAX_SIZE \in Nat
    BY EncodingAssumption
  <2> HIDE DEF n
  <2> QED BY <1>1, <2>1
<1>4. c \in Seq(Byte)
  <2> HIDE DEF n
  <2> QED BY <1>3, SizeIs
<1>5. b = c \o s /\ s \in Seq(Byte)
  <2> HIDE DEF c
  <2>1. (c \o v) \o rest = c \o (v \o rest) /\ v \o rest \in Seq(Byte)
    BY <1>1, <1>4, Rejoined
  <2> QED BY <1>2, <2>1
<1>6. ReadElements(ReadByte, s, n, 0) = Got(v, rest)
  BY <1>1, BytesReadBack
<1> HIDE DEF n, s
<1>7. ReadCompactSize(c \o s) = Got(n, s)
  BY <1>3, <1>5, SizeReadBack
<1> HIDE DEF b, c
<1> DEFINE z == ReadCompactSize(b)
<1>8. z = Got(n, s)
  BY <1>5, <1>7
<1>9. ReadSet(b, old) = SetOf(z)
  BY Zenon DEF ReadSet
<1> HIDE DEF z
<1>10. z.ok /\ z.value = n /\ z.rest = s
  BY <1>8, GotParts
<1> DEFINE e == ReadElements(ReadByte, z.rest, z.value, 0)
<1>11. SetOf(z) = Leaving(e, ToSet(Complete(e)))
  BY <1>10, Zenon DEF SetOf
<1>12. e = Got(v, rest)
  BY <1>6, <1>10
<1> HIDE DEF e
<1>13. Complete(e) = v
  <2>1. e.ok /\ e.value = v
    BY <1>12, GotParts
  <2> QED BY <2>1, Zenon DEF Complete
<1>14. Leaving(e, S) = Got(S, rest)
  BY <1>12, GotLeft
<1>15. ReadSet(b, old) = Got(S, rest)
  BY <1>1, <1>9, <1>11, <1>13, <1>14
<1> QED BY <1>15 DEF b

SetRead(s, r) ==
  \/ Failed(r)
  \/ \E v \in Strings, rest \in Seq(Byte) : r = Got(ToSet(v), rest) /\ s = WriteBytes(v) \o rest

\* Any bytes are a size and that many elements, or their reading fails.
LEMMA SetIsRead ==
  ASSUME SizesFit, NEW s \in Seq(Byte), NEW old
  PROVE  SetRead(s, ReadSet(s, old))
<1> DEFINE z == ReadCompactSize(s)
           r == ReadSet(s, old)
<1>1. r = SetOf(z)
  BY Zenon DEF ReadSet
<1>2. CASE ~z.ok
  <2>1. r = Leaving(z, {})
    BY <1>1, <1>2, Zenon DEF SetOf
  <2>2. Failed(Leaving(z, {}))
    BY <1>2, SizeFails
  <2> HIDE DEF z, r
  <2>3. Failed(r)
    BY <2>1, <2>2
  <2> QED BY <2>3 DEF r, SetRead
<1>3. CASE z.ok
  <2> DEFINE n == z.value
             t == z.rest
             e == ReadElements(ReadByte, t, n, 0)
             c == WriteCompactSize(n)
  <2>1. n \in 0 .. MAX_SIZE /\ t \in Seq(Byte) /\ s = c \o t
    BY <1>3, SizeAccepted
  <2>2. r = Leaving(e, ToSet(Complete(e)))
    BY <1>1, <1>3, Zenon DEF SetOf
  <2> HIDE DEF z, r
  <2>3. MAX_SIZE \in Nat /\ Len(t) \in Nat
    BY <2>1, LenProperties, EncodingAssumption
  <2>4. n \in Nat /\ n <= MAX_SIZE
    <3> HIDE DEF n
    <3> QED BY <2>1, <2>3
  <2>5. CASE n > Len(t)
    <3>1. Failed(e)
      BY <2>1, <2>4, <2>5, BytesRunOut
    <3> HIDE DEF e
    <3>2. Failed(r)
      BY <2>2, <3>1, FailedIs
    <3> QED BY <3>2 DEF r, SetRead
  <2>6. CASE ~(n > Len(t))
    <3> HIDE DEF n, t
    <3>1. n \in 0 .. Len(t)
      BY <2>3, <2>4, <2>6
    <3> DEFINE v == SubSeq(t, 1, n)
               rest == SubSeq(t, n + 1, Len(t))
    <3>2. v \in Seq(Byte) /\ Len(v) = n /\ rest \in Seq(Byte) /\ t = v \o rest
      BY <2>1, <3>1, Halves
    <3> HIDE DEF v, rest
    <3>3. ReadElements(ReadByte, v \o rest, Len(v), 0) = Got(v, rest)
      BY <3>2, BytesReadBack
    <3>4. e = Got(v, rest)
      BY <3>2, <3>3
    <3> HIDE DEF e
    <3>5. Complete(e) = v
      <4>1. e.ok /\ e.value = v
        BY <3>4, GotParts
      <4> QED BY <4>1, Zenon DEF Complete
    <3>6. r = Got(ToSet(v), rest)
      <4>1. Leaving(e, ToSet(v)) = Got(ToSet(v), rest)
        BY <3>4, GotLeft
      <4> QED BY <2>2, <3>5, <4>1
    <3>7. v \in Strings
      BY <2>4, <3>2 DEF Strings
    <3>8. c \in Seq(Byte)
      BY <2>1, SizeIs
    <3>9. WriteBytes(v) = c \o v
      BY <3>2 DEF WriteBytes
    <3> HIDE DEF c
    <3>10. s = WriteBytes(v) \o rest
      <4>1. (c \o v) \o rest = c \o (v \o rest)
        BY <3>2, <3>8, Rejoined
      <4> QED BY <2>1, <3>2, <3>9, <4>1
    <3>11. SetRead(s, r)
      BY <3>2, <3>6, <3>7, <3>10 DEF SetRead
    <3> QED BY <3>11 DEF r
  <2> QED BY <2>5, <2>6
<1> QED BY <1>2, <1>3

\* A set is not written as more than the bytes it was read from.
LEMMA SetIsShort ==
  ASSUME SizesFit, NEW v \in Strings
  PROVE  ToSet(v) \in SUBSET Byte /\ Len(WriteSet(ToSet(v))) <= Len(WriteBytes(v))
<1> DEFINE S == ToSet(v)
           u == InOrder(S)
           n == Len(v)
           k == Len(u)
<1>1. v \in Seq(Byte) /\ n \in Nat /\ n <= MAX_SIZE /\ DOMAIN v = 1 .. n
  BY LenProperties DEF Strings
<1>2. S = {v[i] : i \in 1 .. n}
  <2> HIDE DEF n
  <2> QED BY <1>1 DEF ToSet
<1>3. S \in SUBSET Byte
  <2>1. \A i \in 1 .. n : v[i] \in Byte
    BY <1>1, ElementOfSeq
  <2> HIDE DEF S, n
  <2> QED BY <1>2, <2>1
<1> HIDE DEF S
<1>4. /\ u \in Seq(Byte) /\ k \in Nat /\ k <= MAX_SIZE /\ u \in Strings
      /\ \A i \in 1 .. k : u[i] \in S
      /\ \A i, j \in 1 .. k : i # j => u[i] # u[j]
  BY <1>3, InOrderIs
<1> HIDE DEF u, n, k
<1> DEFINE P(i, j) == j \in 1 .. n /\ v[j] = u[i]
           at == [i \in 1 .. k |-> CHOOSE j : P(i, j)]
<1>5. ASSUME NEW i \in 1 .. k PROVE at[i] \in 1 .. n /\ v[at[i]] = u[i]
  <2>1. \E j : P(i, j)
    BY <1>2, <1>4
  <2>2. P(i, CHOOSE j : P(i, j))
    <3> HIDE DEF P
    <3> QED BY <2>1, Zenon
  <2> QED BY <2>2
<1> HIDE DEF P
<1>6. at \in [1 .. k -> 1 .. n]
  <2>1. at = [i \in 1 .. k |-> at[i]]
    OBVIOUS
  <2> HIDE DEF at
  <2> QED BY <1>5, <2>1
<1> HIDE DEF at
<1>7. \A i, j \in 1 .. k : i # j => at[i] # at[j]
  BY <1>4, <1>5
<1>8. k <= n
  BY <1>1, <1>4, <1>6, <1>7, NoMoreThan
<1>9. GetSizeOfCompactSize(k) <= GetSizeOfCompactSize(n)
  <2>1. k \in 0 .. n
    BY <1>1, <1>4, <1>8
  <2> QED BY <1>1, <2>1, SizesGrow
<1>10. Len(WriteSet(S)) = GetSizeOfCompactSize(k) + k
  BY <1>3, SetWritten DEF BytesSize, u, k
<1>11. Len(WriteBytes(v)) = GetSizeOfCompactSize(n) + n
  BY TextWritten DEF n
<1>12. GetSizeOfCompactSize(k) \in Nat /\ GetSizeOfCompactSize(n) \in Nat
  <2>1. k \in 0 .. MAX_SIZE /\ n \in 0 .. MAX_SIZE
    BY <1>1, <1>4, EncodingAssumption
  <2> QED BY <2>1, SizeIs
<1> QED BY <1>1, <1>3, <1>4, <1>8, <1>9, <1>10, <1>11, <1>12 DEF S

-----------------------------------------------------------------------------
(***************************************************************************)
(* Maps.                                                                   *)
(***************************************************************************)
\* The maps from bytes to strings.
Maps == UNION {[D -> Strings] : D \in SUBSET Byte}

\* A map by its keys.
LEMMA MapIs ==
  ASSUME NEW m \in Maps
  PROVE  DOMAIN m \in SUBSET Byte /\ m = [k \in DOMAIN m |-> m[k]] /\ \A k \in DOMAIN m : m[k] \in Strings
<1>1. PICK D \in SUBSET Byte : m \in [D -> Strings]
  BY DEF Maps
<1> QED BY <1>1

\* A function from bytes to strings is a map.
LEMMA MapOfStrings ==
  ASSUME NEW D \in SUBSET Byte, NEW m \in [D -> Strings]
  PROVE  m \in Maps /\ DOMAIN m = D
  BY DEF Maps

\* A map is written as its pairs, those of the lesser keys first.
LEMMA InOrderOfMap ==
  ASSUME SizesFit, NEW m \in Maps
  PROVE  LET a == PairsInOrder(m)
             keys == InOrder(DOMAIN m)
         IN /\ a \in Lists /\ Len(a) = Len(keys) /\ Len(a) \in Nat
            /\ \A i \in 1 .. Len(a) : a[i][1] = keys[i] /\ a[i][2] = m[keys[i]] /\ keys[i] \in DOMAIN m
                                      /\ a[i] = <<keys[i], m[keys[i]]>>
            /\ \A i, j \in 1 .. Len(a) : i # j => a[i][1] # a[j][1]
            /\ \A k \in DOMAIN m : \E i \in 1 .. Len(a) : a[i][1] = k
<1> DEFINE a == PairsInOrder(m)
           keys == InOrder(DOMAIN m)
           n == Len(keys)
<1>1. DOMAIN m \in SUBSET Byte /\ \A k \in DOMAIN m : m[k] \in Strings
  BY MapIs
<1>2. /\ keys \in Seq(Byte) /\ n \in Nat /\ n <= MAX_SIZE
      /\ \A i \in 1 .. n : keys[i] \in DOMAIN m
      /\ \A i, j \in 1 .. n : i # j => keys[i] # keys[j]
      /\ \A x \in DOMAIN m : \E i \in 1 .. n : keys[i] = x
  BY <1>1, InOrderIs
<1>3. a = [i \in 1 .. n |-> <<keys[i], m[keys[i]]>>]
  BY Zenon DEF PairsInOrder
<1> HIDE DEF a, keys, n
<1>4. \A i \in 1 .. n : <<keys[i], m[keys[i]]>> \in Pairs
  <2> TAKE i \in 1 .. n
  <2>1. keys[i] \in Byte /\ m[keys[i]] \in Strings
    BY <1>1, <1>2
  <2> QED BY <2>1 DEF Pairs
<1>5. a \in [1 .. n -> Pairs]
  BY <1>3, <1>4
<1>6. a \in Seq(Pairs) /\ Len(a) = n
  BY <1>2, <1>5, RowIsSeq
<1>7. \A i \in 1 .. n : a[i] = <<keys[i], m[keys[i]]>>
  BY <1>3
<1>8. \A i \in 1 .. n : a[i][1] = keys[i] /\ a[i][2] = m[keys[i]]
  BY <1>7
<1>9. a \in Lists
  BY <1>2, <1>6 DEF Lists
<1>10. \A i \in 1 .. n : keys[i] \in DOMAIN m
  BY <1>2
<1>11. \A i, j \in 1 .. n : i # j => a[i][1] # a[j][1]
  BY <1>2, <1>8
<1>12. \A k \in DOMAIN m : \E i \in 1 .. n : a[i][1] = k
  <2> TAKE k \in DOMAIN m
  <2>1. PICK i \in 1 .. n : keys[i] = k
    BY <1>2
  <2> QED BY <1>8, <2>1
<1>13. n = Len(keys)
  BY DEF n
<1> QED BY <1>2, <1>6, <1>7, <1>8, <1>9, <1>10, <1>11, <1>12, <1>13 DEF a, keys

\* The first of pairs that has a key.
IsFirst(v, k, i) == i \in DOMAIN v /\ v[i][1] = k /\ \A j \in 1 .. i - 1 : v[j][1] # k
First(v, k) == CHOOSE i : IsFirst(v, k, i)

\* A key that is there has a first place.
LEMMA FirstIs ==
  ASSUME NEW v \in Seq(Pairs), NEW k, \E i \in 1 .. Len(v) : v[i][1] = k
  PROVE  IsFirst(v, k, First(v, k)) /\ First(v, k) \in 1 .. Len(v)
<1> DEFINE n == Len(v)
           T == {i \in 1 .. n : v[i][1] = k}
<1>1. n \in Nat /\ DOMAIN v = 1 .. n
  BY LenProperties
<1>2. T \in SUBSET Nat /\ T # {}
  OBVIOUS
<1>3. PICK i \in T : \A j \in T : i <= j
  <2> HIDE DEF T
  <2> QED BY <1>2, LeastOf
<1>4. IsFirst(v, k, i)
  <2>1. i \in 1 .. n /\ v[i][1] = k
    BY <1>3
  <2>2. \A j \in 1 .. i - 1 : v[j][1] # k
    <3> TAKE j \in 1 .. i - 1
    <3>1. j \in 1 .. n /\ ~(i <= j)
      BY <1>1, <2>1
    <3> QED BY <1>3, <3>1
  <2> QED BY <1>1, <2>1, <2>2 DEF IsFirst
<1> HIDE DEF T
<1>5. IsFirst(v, k, First(v, k))
  BY <1>4, Zenon DEF First
<1> QED BY <1>1, <1>5 DEF IsFirst

\* What is inserted is a map, in which the first of the pairs with a key
\* counts.
LEMMA InsertedIs ==
  ASSUME NEW v \in Seq(Pairs)
  PROVE  LET m == Inserted(v)
             D == {v[i][1] : i \in 1 .. Len(v)}
         IN /\ D \in SUBSET Byte /\ m \in [D -> Strings] /\ m \in Maps /\ DOMAIN m = D
            /\ \A k \in D : m[k] = v[First(v, k)][2] /\ First(v, k) \in 1 .. Len(v) /\ v[First(v, k)][1] = k
<1> DEFINE n == Len(v)
           m == Inserted(v)
           D == {v[i][1] : i \in 1 .. n}
           E == {v[i][1] : i \in DOMAIN v}
<1>1. n \in Nat /\ DOMAIN v = 1 .. n
  BY LenProperties
<1>2. E = D
  <2> HIDE DEF n
  <2> QED BY <1>1
<1>3. \A k : First(v, k) = CHOOSE i \in DOMAIN v : v[i][1] = k /\ \A j \in 1 .. i - 1 : v[j][1] # k
  BY Zenon DEF First, IsFirst
<1>4. m = [k \in E |-> v[CHOOSE i \in DOMAIN v : v[i][1] = k /\ \A j \in 1 .. i - 1 : v[j][1] # k][2]]
  BY Zenon DEF Inserted
<1>5. m = [k \in E |-> v[First(v, k)][2]]
  BY <1>3, <1>4, Zenon
<1>6. \A i \in 1 .. n : v[i][1] \in Byte /\ v[i][2] \in Strings
  <2> TAKE i \in 1 .. n
  <2>1. v[i] \in Pairs
    BY ElementOfSeq
  <2> QED BY <2>1, PairIs
<1>7. D \in SUBSET Byte
  BY <1>6
<1>8. ASSUME NEW k \in D PROVE First(v, k) \in 1 .. n /\ v[First(v, k)][1] = k /\ v[First(v, k)][2] \in Strings
  <2>1. \E i \in 1 .. n : v[i][1] = k
    OBVIOUS
  <2>2. IsFirst(v, k, First(v, k)) /\ First(v, k) \in 1 .. n
    BY <2>1, FirstIs
  <2> HIDE DEF n
  <2>3. v[First(v, k)][1] = k
    BY <2>2 DEF IsFirst
  <2> QED BY <1>6, <2>2, <2>3
<1> HIDE DEF m, D, E
<1>9. m \in [D -> Strings] /\ \A k \in D : m[k] = v[First(v, k)][2]
  BY <1>2, <1>5, <1>8
<1>10. m \in Maps /\ DOMAIN m = D
  BY <1>7, <1>9, MapOfStrings
<1> QED BY <1>7, <1>8, <1>9, <1>10 DEF m, D

\* The pairs of a map make the map.
LEMMA InsertedInOrder ==
  ASSUME SizesFit, NEW m \in Maps
  PROVE  Inserted(PairsInOrder(m)) = m
<1> DEFINE a == PairsInOrder(m)
           keys == InOrder(DOMAIN m)
           n == Len(a)
           b == Inserted(a)
           D == {a[i][1] : i \in 1 .. n}
<1>1. /\ a \in Lists /\ n \in Nat
      /\ \A i \in 1 .. n : a[i][1] = keys[i] /\ a[i][2] = m[keys[i]] /\ keys[i] \in DOMAIN m
      /\ \A i, j \in 1 .. n : i # j => a[i][1] # a[j][1]
      /\ \A k \in DOMAIN m : \E i \in 1 .. n : a[i][1] = k
  BY InOrderOfMap
<1>2. a \in Seq(Pairs)
  BY <1>1, ListIs
<1>3. m = [k \in DOMAIN m |-> m[k]]
  BY MapIs
<1> HIDE DEF a, keys
<1>4. /\ b \in [D -> Strings]
      /\ \A k \in D : b[k] = a[First(a, k)][2] /\ First(a, k) \in 1 .. n /\ a[First(a, k)][1] = k
  BY <1>2, InsertedIs
<1> HIDE DEF b, n
<1>5. D = DOMAIN m
  BY <1>1
<1> HIDE DEF D
<1>6. ASSUME NEW k \in D PROVE b[k] = m[k]
  <2> DEFINE i == First(a, k)
  <2>1. i \in 1 .. n /\ a[i][1] = k /\ b[k] = a[i][2]
    BY <1>4
  <2> HIDE DEF i
  <2> QED BY <1>1, <2>1
<1>7. b = [k \in D |-> b[k]]
  BY <1>4
<1> QED BY <1>3, <1>5, <1>6, <1>7 DEF a, b

\* The pairs of a map that was made of pairs are among these.
LEMMA InsertedAreOfThem ==
  ASSUME SizesFit, NEW v \in Lists
  PROVE  /\ Inserted(v) \in Maps /\ PairsInOrder(Inserted(v)) \in Lists
         /\ ElementsSize(PairsInOrder(Inserted(v))) <= ElementsSize(v)
<1> DEFINE m == Inserted(v)
           a == PairsInOrder(m)
           keys == InOrder(DOMAIN m)
           n == Len(v)
           k == Len(a)
           D == {v[i][1] : i \in 1 .. n}
           at == [i \in 1 .. k |-> First(v, keys[i])]
<1>1. v \in Seq(Pairs) /\ n \in Nat /\ \A i \in 1 .. n : v[i] \in Pairs
  BY ListIs
<1>2. /\ m \in Maps /\ DOMAIN m = D
      /\ \A x \in D : m[x] = v[First(v, x)][2] /\ First(v, x) \in 1 .. n /\ v[First(v, x)][1] = x
  BY <1>1, InsertedIs
<1> HIDE DEF m, D
<1>3. /\ a \in Lists /\ k \in Nat
      /\ \A i \in 1 .. k : a[i][1] = keys[i] /\ a[i] = <<keys[i], m[keys[i]]>> /\ keys[i] \in DOMAIN m
      /\ \A i, j \in 1 .. k : i # j => a[i][1] # a[j][1]
  BY <1>2, InOrderOfMap
<1> HIDE DEF a, k, keys, n
<1>4. ASSUME NEW i \in 1 .. k PROVE at[i] \in 1 .. n /\ v[at[i]][1] = keys[i] /\ a[i] = v[at[i]]
  <2> DEFINE x == keys[i]
             j == at[i]
  <2>1. x \in D /\ a[i] = <<x, m[x]>> /\ j = First(v, x)
    BY <1>2, <1>3
  <2> HIDE DEF x, j, at
  <2>2. m[x] = v[j][2] /\ j \in 1 .. n /\ v[j][1] = x
    BY <1>2, <2>1
  <2>3. v[j] = <<v[j][1], v[j][2]>>
    BY <1>1, <2>2, PairIs
  <2>4. a[i] = v[j]
    BY <2>1, <2>2, <2>3, Zenon
  <2> QED BY <2>2, <2>4 DEF x, j
<1>5. at = [i \in 1 .. k |-> at[i]]
  OBVIOUS
<1> HIDE DEF at
<1>6. at \in [1 .. k -> 1 .. n]
  BY <1>4, <1>5
<1>7. \A i, j \in 1 .. k : i # j => at[i] # at[j]
  BY <1>3, <1>4
<1>8. Chosen(at, k, n)
  BY <1>6, <1>7 DEF Chosen
<1>9. Picked(a, v, at, k)
  BY <1>4 DEF Picked
<1>10. ElementsSize(a) <= ElementsSize(v)
  BY <1>3, <1>8, <1>9, FewerPairsAreShorter DEF k, n
<1> QED BY <1>2, <1>3, <1>10 DEF a, m

\* A map has bytes, as many as are announced.
LEMMA MapWritten ==
  ASSUME SizesFit, NEW m \in Maps
  PROVE  WriteMap(m) \in Seq(Byte) /\ Len(WriteMap(m)) = ElementsSize(PairsInOrder(m))
<1>1. PairsInOrder(m) \in Lists
  BY InOrderOfMap
<1> QED BY <1>1, ListWritten DEF WriteMap

\* A map is read back.
LEMMA MapReadBack ==
  ASSUME SizesFit, NEW m \in Maps, NEW rest \in Seq(Byte), NEW old
  PROVE  ReadMap(WriteMap(m) \o rest, old) = Got(m, rest)
<1> DEFINE v == PairsInOrder(m)
           n == Len(v)
           b == WriteMap(m) \o rest
<1>1. v \in Lists /\ Inserted(v) = m
  BY InOrderOfMap, InsertedInOrder
<1>2. b = WriteElements(v) \o rest
  BY DEF WriteMap
<1> HIDE DEF v, b
<1>3. PICK s \in Seq(Byte) : ReadCompactSize(b) = Got(n, s) /\ ReadElements(ReadPair, s, n, NoPair) = Got(v, rest)
  BY <1>1, <1>2, ListReadBack
<1> HIDE DEF n
<1> DEFINE z == ReadCompactSize(b)
           e == ReadElements(ReadPair, z.rest, z.value, NoPair)
<1>4. ReadMap(b, old) = MapOf(z)
  BY Zenon DEF ReadMap
<1>5. z.ok /\ z.value = n /\ z.rest = s
  BY <1>3, GotParts
<1> HIDE DEF z
<1>6. MapOf(z) = Leaving(e, Inserted(Complete(e)))
  BY <1>5, Zenon DEF MapOf
<1>7. e = Got(v, rest)
  BY <1>3, <1>5
<1> HIDE DEF e
<1>8. Complete(e) = v
  <2>1. e.ok /\ e.value = v
    BY <1>7, GotParts
  <2> QED BY <2>1, Zenon DEF Complete
<1>9. Leaving(e, m) = Got(m, rest)
  BY <1>7, GotLeft
<1>10. ReadMap(b, old) = Got(m, rest)
  BY <1>1, <1>4, <1>6, <1>8, <1>9
<1> QED BY <1>10 DEF b

MapRead(s, r) ==
  \/ Failed(r)
  \/ \E v \in Lists, rest \in Seq(Byte) : r = Got(Inserted(v), rest) /\ s = WriteElements(v) \o rest

\* Any bytes are a size and that many pairs, or their reading fails.
LEMMA MapIsRead ==
  ASSUME SizesFit, NEW s \in Seq(Byte), NEW old
  PROVE  MapRead(s, ReadMap(s, old))
<1> DEFINE z == ReadCompactSize(s)
           r == ReadMap(s, old)
<1>1. r = MapOf(z)
  BY Zenon DEF ReadMap
<1>2. CASE ~z.ok
  <2> DEFINE none == Inserted(<<>>)
  <2>1. r = Leaving(z, none)
    BY <1>1, <1>2, Zenon DEF MapOf
  <2> HIDE DEF none
  <2>2. Failed(Leaving(z, none))
    BY <1>2, SizeFails
  <2> HIDE DEF z, r
  <2>3. Failed(r)
    BY <2>1, <2>2
  <2> QED BY <2>3 DEF r, MapRead
<1>3. CASE z.ok
  <2> DEFINE n == z.value
             t == z.rest
             e == ReadElements(ReadPair, t, n, NoPair)
  <2>1. n \in 0 .. MAX_SIZE /\ t \in Seq(Byte) /\ s = WriteCompactSize(n) \o t
    BY <1>3, SizeAccepted
  <2>2. r = Leaving(e, Inserted(Complete(e)))
    BY <1>1, <1>3, Zenon DEF MapOf
  <2>3. ListRead(s, e)
    BY <2>1, ElementsAreRead
  <2> HIDE DEF z, r, n, t, e
  <2>4. CASE Failed(e)
    <3>1. Failed(r)
      BY <2>2, <2>4, FailedIs
    <3> QED BY <3>1 DEF r, MapRead
  <2>5. CASE \E v \in Lists, rest \in Seq(Byte) : e = Got(v, rest) /\ s = WriteElements(v) \o rest /\ Len(v) <= Len(s)
    <3>1. PICK v \in Lists, rest \in Seq(Byte) : e = Got(v, rest) /\ s = WriteElements(v) \o rest
      BY <2>5
    <3>2. Complete(e) = v
      <4>1. e.ok /\ e.value = v
        BY <3>1, GotParts
      <4> QED BY <4>1, Zenon DEF Complete
    <3>3. r = Got(Inserted(v), rest)
      <4>1. Leaving(e, Inserted(v)) = Got(Inserted(v), rest)
        BY <3>1, GotLeft
      <4> QED BY <2>2, <3>2, <4>1
    <3>4. MapRead(s, r)
      BY <3>1, <3>3 DEF MapRead
    <3> QED BY <3>4 DEF r
  <2> QED BY <2>3, <2>4, <2>5 DEF ListRead
<1> QED BY <1>2, <1>3

-----------------------------------------------------------------------------
(***************************************************************************)
(* Every kind: what is written is read back, and any bytes mean what they  *)
(* are read as.                                                            *)
(***************************************************************************)
Kinds == {"compact", "varint", "string", "vector", "pair", "pairs", "map", "set"}

\* What is written and read as each kind.
LEMMA ByKind ==
  \A v, s, old :
    /\ Serialize("compact", v) = WriteCompactSize(v) /\ Serialize("varint", v) = WriteVarInt(v)
    /\ Serialize("string", v) = WriteBytes(v) /\ Serialize("vector", v) = WriteBytes(v)
    /\ Serialize("pair", v) = WritePair(v) /\ Serialize("pairs", v) = WriteElements(v)
    /\ Serialize("map", v) = WriteMap(v) /\ Serialize("set", v) = WriteSet(v)
    /\ GetSerializeSize("compact", v) = GetSizeOfCompactSize(v) /\ GetSerializeSize("varint", v) = GetSizeOfVarInt(v)
    /\ GetSerializeSize("string", v) = BytesSize(v) /\ GetSerializeSize("vector", v) = BytesSize(v)
    /\ GetSerializeSize("pair", v) = PairSize(v) /\ GetSerializeSize("pairs", v) = ElementsSize(v)
    /\ GetSerializeSize("map", v) = ElementsSize(PairsInOrder(v)) /\ GetSerializeSize("set", v) = BytesSize(InOrder(v))
    /\ Unserialize("varint", s, old) = ReadVarInt(s, old)
    /\ Unserialize("string", s, old) = ReadString(s, old) /\ Unserialize("vector", s, old) = ReadVector(s, old)
    /\ Unserialize("pair", s, old) = ReadPair(s, old) /\ Unserialize("pairs", s, old) = ReadPairs(s, old)
    /\ Unserialize("map", s, old) = ReadMap(s, old) /\ Unserialize("set", s, old) = ReadSet(s, old)
  BY DEF Serialize, GetSerializeSize, Unserialize

\* A size that is refused leaves what was in the variable.
LEMMA CompactByKind ==
  \A s, old : Unserialize("compact", s, old) =
                IF ReadCompactSize(s).ok THEN ReadCompactSize(s) ELSE Leaving(ReadCompactSize(s), old)
  BY DEF Unserialize

\* What may be written of each kind.
LEMMA ValuesAre ==
  \A v : /\ IsValue("compact", v) <=> v \in 0 .. MAX_SIZE
         /\ IsValue("varint", v) <=> v \in 0 .. VarIntModulus - 1
         /\ IsValue("string", v) <=> v \in Strings
         /\ IsValue("vector", v) <=> v \in Strings
         /\ IsValue("pair", v) <=> v \in Pairs
         /\ IsValue("set", v) <=> v \in SUBSET Byte
<1> TAKE v
<1>1. IsString(v) <=> v \in Strings
  BY DEF IsString, Strings
<1>2. IsPair(v) <=> v \in Pairs
  <2>1. ASSUME IsPair(v) PROVE v \in Pairs
    <3>1. PICK b \in Byte, t \in Seq(Byte) : v = <<b, t>>
      BY <2>1 DEF IsPair
    <3>2. t \in Strings
      BY <2>1, <3>1 DEF IsPair, IsString, Strings
    <3> QED BY <3>1, <3>2 DEF Pairs
  <2>2. ASSUME v \in Pairs PROVE IsPair(v)
    <3>1. PICK b \in Byte, t \in Strings : v = <<b, t>>
      BY <2>2 DEF Pairs
    <3> QED BY <3>1 DEF IsPair, IsString, Strings
  <2> QED BY <2>1, <2>2
<1>3. IsValue("compact", v) <=> v \in 0 .. MAX_SIZE
  BY DEF IsValue
<1>4. IsValue("varint", v) <=> v \in 0 .. VarIntModulus - 1
  BY DEF IsValue
<1>5. (IsValue("string", v) <=> IsString(v)) /\ (IsValue("vector", v) <=> IsString(v))
  BY DEF IsValue
<1>6. IsValue("pair", v) <=> IsPair(v)
  BY DEF IsValue
<1>7. IsValue("set", v) <=> v \subseteq Byte
  BY DEF IsValue
<1> QED BY <1>1, <1>2, <1>3, <1>4, <1>5, <1>6, <1>7

\* A pair that may be written.
LEMMA PairIsValue == \A p : IsPair(p) => p \in Pairs
<1> TAKE p
<1> HAVE IsPair(p)
<1>1. PICK b \in Byte, t \in Seq(Byte) : p = <<b, t>>
  BY DEF IsPair
<1>2. t \in Strings
  BY <1>1 DEF IsPair, IsString, Strings
<1> QED BY <1>1, <1>2 DEF Pairs

\* Vectors of pairs and maps that may be written.
LEMMA ListsAndMaps ==
  \A v : (IsValue("pairs", v) => v \in Lists) /\ (IsValue("map", v) => v \in Maps)
<1> TAKE v
<1>1. ASSUME IsValue("pairs", v) PROVE v \in Lists
  <2>1. v \in Seq(Byte \X Seq(Byte)) /\ Len(v) <= MAX_SIZE /\ \A i \in DOMAIN v : IsPair(v[i])
    BY <1>1 DEF IsValue
  <2>2. Len(v) \in Nat /\ DOMAIN v = 1 .. Len(v) /\ v \in [1 .. Len(v) -> Byte \X Seq(Byte)]
    BY <2>1, LenProperties
  <2>3. \A i \in 1 .. Len(v) : v[i] \in Pairs
    BY <2>1, <2>2, PairIsValue
  <2> DEFINE n == Len(v)
  <2>4. v \in [1 .. n -> Pairs] /\ n \in Nat
    BY <2>2, <2>3
  <2> HIDE DEF n
  <2>5. v \in Seq(Pairs)
    BY <2>4, RowIsSeq
  <2> QED BY <2>1, <2>5 DEF Lists
<1>2. ASSUME IsValue("map", v) PROVE v \in Maps
  <2> DEFINE D == DOMAIN v
  <2>1. D \in SUBSET Byte /\ v \in [D -> Seq(Byte)] /\ \A k \in D : IsString(v[k])
    BY <1>2 DEF IsValue
  <2> HIDE DEF D
  <2>2. \A k \in D : v[k] \in Strings
    BY <2>1 DEF IsString, Strings
  <2>3. v \in [D -> Strings]
    BY <2>1, <2>2
  <2> QED BY <2>1, <2>3, MapOfStrings
<1> QED BY <1>1, <1>2

\* A VARINT is read back, whatever was in the variable.
LEMMA VarIntBack ==
  ASSUME NEW n \in 0 .. VarIntModulus - 1, NEW rest \in Seq(Byte), NEW old
  PROVE  ReadVarInt(WriteVarInt(n) \o rest, old) = Got(n, rest)
<1>1. rest \in Seq(Nat)
  BY ByteSeqs
<1> QED BY <1>1, VarIntReadBack

\* Every value is written, as many bytes as are announced.
Written(kind, v) ==
  /\ Serialize(kind, v) \in Seq(Byte) /\ Len(Serialize(kind, v)) = GetSerializeSize(kind, v)

LEMMA ValueWritten ==
  ASSUME SizesFit, NEW kind \in Kinds, NEW v, IsValue(kind, v)
  PROVE  Written(kind, v)
<1>1. CASE kind = "compact"
  <2>1. v \in 0 .. MAX_SIZE
    BY <1>1, ValuesAre
  <2> QED BY <1>1, <2>1, ByKind, SizeIs DEF Written
<1>2. CASE kind = "varint"
  <2>1. v \in Nat
    <3>1. v \in 0 .. VarIntModulus - 1
      BY <1>2, ValuesAre
    <3> QED BY <3>1, EncodingAssumption
  <2>2. WriteVarInt(v) \in Seq(Byte)
    BY <2>1, VarIntBytes
  <2>3. Len(WriteVarInt(v)) = GetSizeOfVarInt(v)
    BY <2>1, VarIntSize
  <2> QED BY <1>2, <2>2, <2>3, ByKind DEF Written
<1>3. CASE kind \in {"string", "vector"}
  <2>1. v \in Strings
    BY <1>3, ValuesAre
  <2>2. WriteBytes(v) \in Seq(Byte) /\ Len(WriteBytes(v)) = BytesSize(v)
    BY <2>1, TextWritten DEF BytesSize
  <2> QED BY <1>3, <2>2, ByKind DEF Written
<1>4. CASE kind = "pair"
  <2>1. v \in Pairs
    BY <1>4, ValuesAre
  <2>2. WritePair(v) \in Seq(Byte) /\ Len(WritePair(v)) = PairSize(v)
    BY <2>1, PairWritten DEF PairSize, BytesSize
  <2> QED BY <1>4, <2>2, ByKind DEF Written
<1>5. CASE kind = "pairs"
  <2>1. v \in Lists
    BY <1>5, ListsAndMaps
  <2>2. WriteElements(v) \in Seq(Byte) /\ Len(WriteElements(v)) = ElementsSize(v)
    BY <2>1, ListWritten
  <2> QED BY <1>5, <2>2, ByKind DEF Written
<1>6. CASE kind = "map"
  <2>1. v \in Maps
    BY <1>6, ListsAndMaps
  <2>2. WriteMap(v) \in Seq(Byte) /\ Len(WriteMap(v)) = ElementsSize(PairsInOrder(v))
    BY <2>1, MapWritten
  <2> QED BY <1>6, <2>2, ByKind DEF Written
<1>7. CASE kind = "set"
  <2>1. v \in SUBSET Byte
    BY <1>7, ValuesAre
  <2>2. WriteSet(v) \in Seq(Byte) /\ Len(WriteSet(v)) = BytesSize(InOrder(v))
    BY <2>1, SetWritten
  <2> QED BY <1>7, <2>2, ByKind DEF Written
<1> QED BY <1>1, <1>2, <1>3, <1>4, <1>5, <1>6, <1>7 DEF Kinds

\* Every value that is there is read, whatever follows.
LEMMA ValueReadBack ==
  ASSUME SizesFit, NEW kind \in Kinds, NEW v, IsValue(kind, v), NEW rest \in Seq(Byte), NEW old
  PROVE  Unserialize(kind, Serialize(kind, v) \o rest, old) = Got(v, rest)
<1>1. CASE kind = "compact"
  <2> DEFINE b == Serialize(kind, v) \o rest
             r == ReadCompactSize(b)
  <2>1. v \in 0 .. MAX_SIZE
    BY <1>1, ValuesAre
  <2>2. b = WriteCompactSize(v) \o rest
    BY <1>1, ByKind
  <2> HIDE DEF b
  <2>3. r = Got(v, rest)
    BY <2>1, <2>2, SizeReadBack
  <2>4. r.ok
    BY <2>3, GotParts
  <2>5. Unserialize(kind, b, old) = r
    <3>1. Unserialize("compact", b, old) = IF r.ok THEN r ELSE Leaving(r, old)
      BY CompactByKind
    <3> HIDE DEF r
    <3> QED BY <1>1, <2>4, <3>1
  <2> QED BY <2>3, <2>5 DEF b
<1>2. CASE kind = "varint"
  <2>1. v \in 0 .. VarIntModulus - 1
    BY <1>2, ValuesAre
  <2> QED BY <1>2, <2>1, ByKind, VarIntBack
<1>3. CASE kind \in {"string", "vector"}
  <2>1. v \in Strings
    BY <1>3, ValuesAre
  <2> QED BY <1>3, <2>1, ByKind, TextReadBack
<1>4. CASE kind = "pair"
  <2>1. v \in Pairs
    BY <1>4, ValuesAre
  <2> QED BY <1>4, <2>1, ByKind, PairReadBack
<1>5. CASE kind = "pairs"
  <2>1. v \in Lists
    BY <1>5, ListsAndMaps
  <2> QED BY <1>5, <2>1, ByKind, PairsBack
<1>6. CASE kind = "map"
  <2>1. v \in Maps
    BY <1>6, ListsAndMaps
  <2> QED BY <1>6, <2>1, ByKind, MapReadBack
<1>7. CASE kind = "set"
  <2>1. v \in SUBSET Byte
    BY <1>7, ValuesAre
  <2> QED BY <1>7, <2>1, ByKind, SetReadBack
<1> QED BY <1>1, <1>2, <1>3, <1>4, <1>5, <1>6, <1>7 DEF Kinds

\* A reading that succeeds leaves the bytes that follow; of these formats no
\* other bytes than those written would have given the value.
Found(kind, s, r) ==
  \/ Failed(r)
  \/ \E v, rest : /\ r = Got(v, rest) /\ rest \in Seq(Byte)
                  /\ Serialize(kind, v) \in Seq(Byte) /\ Len(Serialize(kind, v)) = GetSerializeSize(kind, v)
                  /\ Accepted(kind, s, r, Serialize(kind, v))

\* What is read as it is written is accepted.
LEMMA SameBytesAccepted ==
  ASSUME NEW kind \in Kinds \ {"varint", "map", "set"}, NEW s, NEW v, NEW rest \in Seq(Byte),
         Written(kind, v), s = Serialize(kind, v) \o rest, NEW r, r = Got(v, rest)
  PROVE  Found(kind, s, r)
<1> DEFINE again == Serialize(kind, v)
<1>1. r.value = v /\ r.rest = rest
  BY GotParts
<1>2. OneFormOnly(kind, s, r, again)
  BY <1>1, Zenon DEF OneFormOnly
<1>3. Normalised(kind, s, r, again) /\ IntegersHaveOneEncoding(kind, s, r, again)
      /\ IntegersAreTheirDigits(kind, s, r)
  BY DEF Normalised, IntegersHaveOneEncoding, IntegersAreTheirDigits
<1>4. SizesAgree(kind, r, again)
  BY <1>1, Zenon DEF SizesAgree, Written
<1>5. Accepted(kind, s, r, again)
  BY <1>2, <1>3, <1>4, Zenon DEF Accepted
<1> QED BY <1>5 DEF Found, Written

\* Any bytes, read as a size.
LEMMA CompactFound ==
  ASSUME SizesFit, NEW s \in Seq(Byte), NEW old
  PROVE  Found("compact", s, Unserialize("compact", s, old))
<1> DEFINE r == ReadCompactSize(s)
           u == Unserialize("compact", s, old)
<1>1. u = IF r.ok THEN r ELSE Leaving(r, old)
  BY CompactByKind
<1>2. CASE ~r.ok
  <2>1. Failed(Leaving(r, old))
    BY <1>2, SizeFails
  <2> HIDE DEF r, u
  <2>2. Failed(u)
    BY <1>1, <1>2, <2>1
  <2> QED BY <2>2 DEF u, Found
<1>3. CASE r.ok
  <2> DEFINE n == r.value
             rest == r.rest
  <2>1. n \in 0 .. MAX_SIZE /\ rest \in Seq(Byte) /\ s = WriteCompactSize(n) \o rest /\ r = Got(n, rest)
    BY <1>3, SizeAccepted
  <2> HIDE DEF u, r, n, rest
  <2>2. u = Got(n, rest)
    BY <1>1, <1>3, <2>1
  <2>3. IsValue("compact", n)
    BY <2>1, ValuesAre
  <2>4. "compact" \in Kinds /\ "compact" \in Kinds \ {"varint", "map", "set"}
    BY DEF Kinds
  <2>5. Written("compact", n)
    BY <2>3, <2>4, ValueWritten
  <2>6. s = Serialize("compact", n) \o rest
    BY <2>1, ByKind
  <2>7. Found("compact", s, u)
    BY <2>1, <2>2, <2>4, <2>5, <2>6, SameBytesAccepted
  <2> QED BY <2>7 DEF u
<1> QED BY <1>2, <1>3

\* Any bytes, read as a string or as a vector of bytes.
LEMMA TextFound ==
  ASSUME SizesFit, NEW s \in Seq(Byte), NEW old, NEW kind \in {"string", "vector"}
  PROVE  Found(kind, s, Unserialize(kind, s, old))
<1> DEFINE r == Unserialize(kind, s, old)
<1>1. TextRead(s, r)
  BY TextIsRead, ByKind
<1> HIDE DEF r
<1>2. CASE Failed(r)
  BY <1>2 DEF Found, r
<1>3. CASE \E v \in Strings, rest \in Seq(Byte) : r = Got(v, rest) /\ s = WriteBytes(v) \o rest
  <2>1. PICK v \in Strings, rest \in Seq(Byte) : r = Got(v, rest) /\ s = WriteBytes(v) \o rest
    BY <1>3
  <2>2. kind \in Kinds /\ kind \in Kinds \ {"varint", "map", "set"}
    BY DEF Kinds
  <2>3. IsValue(kind, v)
    BY ValuesAre
  <2>4. Written(kind, v)
    BY <2>2, <2>3, ValueWritten
  <2>5. s = Serialize(kind, v) \o rest
    BY <2>1, ByKind
  <2>6. Found(kind, s, r)
    BY <2>1, <2>2, <2>4, <2>5, SameBytesAccepted
  <2> QED BY <2>6 DEF r
<1> QED BY <1>1, <1>2, <1>3 DEF TextRead

\* Any bytes, read as a pair.
LEMMA PairFound ==
  ASSUME SizesFit, NEW s \in Seq(Byte), NEW old
  PROVE  Found("pair", s, Unserialize("pair", s, old))
<1> DEFINE r == Unserialize("pair", s, old)
<1>1. PairRead(s, r)
  BY PairIsRead, ByKind
<1> HIDE DEF r
<1>2. CASE Failed(r)
  BY <1>2 DEF Found, r
<1>3. CASE \E p \in Pairs, rest \in Seq(Byte) : r = Got(p, rest) /\ s = WritePair(p) \o rest
  <2>1. PICK v \in Pairs, rest \in Seq(Byte) : r = Got(v, rest) /\ s = WritePair(v) \o rest
    BY <1>3
  <2>2. "pair" \in Kinds /\ "pair" \in Kinds \ {"varint", "map", "set"}
    BY DEF Kinds
  <2>3. IsValue("pair", v)
    BY ValuesAre
  <2>4. Written("pair", v)
    BY <2>2, <2>3, ValueWritten
  <2>5. s = Serialize("pair", v) \o rest
    BY <2>1, ByKind
  <2>6. Found("pair", s, r)
    BY <2>1, <2>2, <2>4, <2>5, SameBytesAccepted
  <2> QED BY <2>6 DEF r
<1> QED BY <1>1, <1>2, <1>3 DEF PairRead

\* Any bytes, read as a vector of pairs.
LEMMA PairsFound ==
  ASSUME SizesFit, NEW s \in Seq(Byte), NEW old
  PROVE  Found("pairs", s, Unserialize("pairs", s, old))
<1> DEFINE r == Unserialize("pairs", s, old)
<1>1. ListRead(s, r)
  BY PairsAccepted, ByKind
<1> HIDE DEF r
<1>2. CASE Failed(r)
  BY <1>2 DEF Found, r
<1>3. CASE \E v \in Lists, rest \in Seq(Byte) : r = Got(v, rest) /\ s = WriteElements(v) \o rest /\ Len(v) <= Len(s)
  <2>1. PICK v \in Lists, rest \in Seq(Byte) : r = Got(v, rest) /\ s = WriteElements(v) \o rest
    BY <1>3
  <2>2. "pairs" \in Kinds /\ "pairs" \in Kinds \ {"varint", "map", "set"}
    BY DEF Kinds
  <2>4. Written("pairs", v)
    BY ListWritten, ByKind DEF Written
  <2>5. s = Serialize("pairs", v) \o rest
    BY <2>1, ByKind
  <2>6. Found("pairs", s, r)
    BY <2>1, <2>2, <2>4, <2>5, SameBytesAccepted
  <2> QED BY <2>6 DEF r
<1> QED BY <1>1, <1>2, <1>3 DEF ListRead

\* What is left of bytes after a reading, and how many were read.
LEMMA HowManyRead ==
  ASSUME NEW w \in Seq(Byte), NEW rest \in Seq(Byte), NEW s, s = w \o rest
  PROVE  Len(s) - Len(rest) = Len(w) /\ Len(w) \in Nat
<1>1. Len(w \o rest) = Len(w) + Len(rest) /\ Len(w) \in Nat /\ Len(rest) \in Nat
  BY Rejoined, LenProperties
<1> QED BY <1>1

\* Any bytes, read as a VARINT: digits fewer than the type can need are its
\* only form.
LEMMA VarIntFoundAs ==
  ASSUME NEW s \in Seq(Byte), NEW old
  PROVE  Found("varint", s, Unserialize("varint", s, old))
<1> DEFINE r == Unserialize("varint", s, old)
<1>1. VarIntRead(s, old, r)
  BY VarIntIsRead, ByKind
<1> HIDE DEF r
<1>2. CASE r = Ended(old)
  <2>1. Failed(r)
    BY <1>2, EndedParts
  <2> QED BY <2>1 DEF r, Found
<1>3. CASE \E w, rest \in Seq(Byte) : IsVarInt(w) /\ s = w \o rest /\ r = Got(VarIntOf(w), rest)
  <2>1. PICK w, rest \in Seq(Byte) : IsVarInt(w) /\ s = w \o rest /\ r = Got(VarIntOf(w), rest)
    BY <1>3
  <2> DEFINE n == VarIntOf(w)
             again == Serialize("varint", n)
  <2>2. n \in Nat
    <3>1. n \in 0 .. VarIntModulus - 1
      BY <2>1, VarIntBelow
    <3> HIDE DEF n
    <3> QED BY <3>1
  <2>3. w \in Seq(Byte)
    BY <2>1 DEF IsVarInt
  <2>4. r.value = n /\ r.rest = rest
    BY <2>1, GotParts
  <2>5. Len(s) - Len(rest) = Len(w)
    BY <2>1, <2>3, HowManyRead
  <2>6. Len(w) < GetSizeOfVarInt(VarIntModulus - 1) => WriteVarInt(n) = w
    BY <2>1, OneVarInt
  <2> HIDE DEF n
  <2>7. again = WriteVarInt(n)
    BY ByKind
  <2>8. again \in Seq(Byte) /\ Len(again) = GetSerializeSize("varint", n)
    <3>1. WriteVarInt(n) \in Seq(Byte)
      BY <2>2, VarIntBytes
    <3>2. Len(WriteVarInt(n)) = GetSizeOfVarInt(n)
      BY <2>2, VarIntSize
    <3> QED BY <2>7, <3>1, <3>2, ByKind
  <2> HIDE DEF again
  <2>9. IntegersHaveOneEncoding("varint", s, r, again)
    BY <2>1, <2>4, <2>5, <2>6, <2>7 DEF IntegersHaveOneEncoding
  <2>10. OneFormOnly("varint", s, r, again) /\ Normalised("varint", s, r, again)
    BY DEF OneFormOnly, Normalised
  <2>11. SizesAgree("varint", r, again)
    BY <2>4, <2>8 DEF SizesAgree
  <2>12. IntegersAreTheirDigits("varint", s, r)
    <3>1. SubSeq(s, 1, Len(w)) = w
      BY <2>1, <2>3, SameHalves
    <3>2. n = DigitsMean(w) % VarIntModulus
      BY <2>1, VarIntIsSum, Zenon DEF DigitsMean, n
    <3> QED BY <2>4, <2>5, <3>1, <3>2, Zenon DEF IntegersAreTheirDigits
  <2>13. Accepted("varint", s, r, again)
    BY <2>9, <2>10, <2>11, <2>12, Zenon DEF Accepted
  <2>14. r = Got(n, rest)
    BY <2>1 DEF n
  <2>15. Found("varint", s, r)
    BY <2>8, <2>13, <2>14 DEF Found, again
  <2> QED BY <2>15 DEF r
<1> QED BY <1>1, <1>2, <1>3 DEF VarIntRead

\* Maps and sets: what they are written as is not longer and is read as the same.
LEMMA NormalisedFound ==
  ASSUME SizesFit, NEW kind \in {"map", "set"}, NEW s, NEW w \in Seq(Byte), NEW rest \in Seq(Byte), s = w \o rest,
         NEW v, Written(kind, v), NEW r, r = Got(v, rest), Len(Serialize(kind, v)) <= Len(w),
         Unserialize(kind, Serialize(kind, v) \o <<>>, Old(kind)) = Got(v, <<>>)
  PROVE  Found(kind, s, r)
<1> DEFINE again == Serialize(kind, v)
<1>1. r.value = v /\ r.rest = rest
  BY GotParts
<1>2. again \in Seq(Byte) /\ Len(again) = GetSerializeSize(kind, v) /\ Len(again) <= Len(w)
      /\ Unserialize(kind, again \o <<>>, Old(kind)) = Got(v, <<>>)
  BY Zenon DEF Written
<1> HIDE DEF again
<1>3. again \o <<>> = again
  BY <1>2
<1>4. Len(s) - Len(rest) = Len(w)
  BY HowManyRead
<1>5. Unserialize(kind, again, Old(kind)) = Got(r.value, <<>>)
  BY <1>1, <1>2, <1>3
<1>6. Len(again) <= Len(s) - Len(r.rest)
  BY <1>1, <1>2, <1>4
<1>7. Normalised(kind, s, r, again)
  BY <1>5, <1>6, Zenon DEF Normalised
<1>8. OneFormOnly(kind, s, r, again) /\ IntegersHaveOneEncoding(kind, s, r, again)
      /\ IntegersAreTheirDigits(kind, s, r)
  BY DEF OneFormOnly, IntegersHaveOneEncoding, IntegersAreTheirDigits
<1>9. SizesAgree(kind, r, again)
  BY <1>1, <1>2, Zenon DEF SizesAgree
<1>10. Accepted(kind, s, r, again)
  BY <1>7, <1>8, <1>9, Zenon DEF Accepted
<1> QED BY <1>2, <1>10 DEF Found, again

\* Any bytes, read as a set.
LEMMA SetFound ==
  ASSUME SizesFit, NEW s \in Seq(Byte), NEW old
  PROVE  Found("set", s, Unserialize("set", s, old))
<1> DEFINE r == Unserialize("set", s, old)
<1>1. SetRead(s, r)
  BY SetIsRead, ByKind
<1> HIDE DEF r
<1>2. CASE Failed(r)
  BY <1>2 DEF Found, r
<1>3. CASE \E v \in Strings, rest \in Seq(Byte) : r = Got(ToSet(v), rest) /\ s = WriteBytes(v) \o rest
  <2>1. PICK v \in Strings, rest \in Seq(Byte) : r = Got(ToSet(v), rest) /\ s = WriteBytes(v) \o rest
    BY <1>3
  <2> DEFINE S == ToSet(v)
             w == WriteBytes(v)
             o == Old("set")
  <2>2. S \in SUBSET Byte /\ Len(WriteSet(S)) <= Len(w)
    BY SetIsShort
  <2>3. w \in Seq(Byte)
    BY TextWritten
  <2>4. r = Got(S, rest) /\ s = w \o rest
    BY <2>1
  <2> HIDE DEF S, w, o
  <2>5. Serialize("set", S) = WriteSet(S)
    BY ByKind
  <2>6. IsValue("set", S) /\ "set" \in Kinds
    BY <2>2, ValuesAre DEF Kinds
  <2>7. Written("set", S)
    BY <2>6, ValueWritten
  <2>8. <<>> \in Seq(Byte)
    OBVIOUS
  <2>9. Unserialize("set", Serialize("set", S) \o <<>>, o) = Got(S, <<>>)
    BY <2>6, <2>8, ValueReadBack
  <2>10. Len(Serialize("set", S)) <= Len(w)
    BY <2>2, <2>5
  <2>11. Found("set", s, r)
    BY <2>3, <2>4, <2>7, <2>9, <2>10, NormalisedFound DEF o
  <2> QED BY <2>11 DEF r
<1> QED BY <1>1, <1>2, <1>3 DEF SetRead

\* Any bytes, read as a map.
LEMMA MapFound ==
  ASSUME SizesFit, NEW s \in Seq(Byte), NEW old
  PROVE  Found("map", s, Unserialize("map", s, old))
<1> DEFINE r == Unserialize("map", s, old)
<1>1. MapRead(s, r)
  BY MapIsRead, ByKind
<1> HIDE DEF r
<1>2. CASE Failed(r)
  BY <1>2 DEF Found, r
<1>3. CASE \E v \in Lists, rest \in Seq(Byte) : r = Got(Inserted(v), rest) /\ s = WriteElements(v) \o rest
  <2>1. PICK v \in Lists, rest \in Seq(Byte) : r = Got(Inserted(v), rest) /\ s = WriteElements(v) \o rest
    BY <1>3
  <2> DEFINE m == Inserted(v)
             w == WriteElements(v)
             o == Old("map")
  <2>2. m \in Maps /\ ElementsSize(PairsInOrder(m)) <= ElementsSize(v)
    BY InsertedAreOfThem
  <2>3. w \in Seq(Byte) /\ Len(w) = ElementsSize(v)
    BY ListWritten
  <2>4. r = Got(m, rest) /\ s = w \o rest
    BY <2>1
  <2> HIDE DEF m, w, o
  <2>5. Serialize("map", m) = WriteMap(m) /\ GetSerializeSize("map", m) = ElementsSize(PairsInOrder(m))
    BY ByKind
  <2>6. WriteMap(m) \in Seq(Byte) /\ Len(WriteMap(m)) = ElementsSize(PairsInOrder(m))
    BY <2>2, MapWritten
  <2>7. Written("map", m)
    BY <2>5, <2>6 DEF Written
  <2>8. <<>> \in Seq(Byte)
    OBVIOUS
  <2>9. Unserialize("map", Serialize("map", m) \o <<>>, o) = Got(m, <<>>)
    <3>1. ReadMap(WriteMap(m) \o <<>>, o) = Got(m, <<>>)
      BY <2>2, <2>8, MapReadBack
    <3> QED BY <2>5, <3>1, ByKind
  <2>10. Len(Serialize("map", m)) <= Len(w)
    BY <2>2, <2>3, <2>5, <2>6
  <2>11. Found("map", s, r)
    BY <2>3, <2>4, <2>7, <2>9, <2>10, NormalisedFound DEF o
  <2> QED BY <2>11 DEF r
<1> QED BY <1>1, <1>2, <1>3 DEF MapRead

\* Any bytes, read as any kind.
LEMMA ValueFound ==
  ASSUME SizesFit, NEW kind \in Kinds, NEW s \in Seq(Byte), NEW old
  PROVE  Found(kind, s, Unserialize(kind, s, old))
<1>1. CASE kind \in {"string", "vector"}
  BY <1>1, TextFound
<1>2. CASE kind \in {"compact", "varint", "pair", "pairs"}
  BY <1>2, CompactFound, VarIntFoundAs, PairFound, PairsFound
<1>3. CASE kind \in {"map", "set"}
  BY <1>3, MapFound, SetFound
<1> QED BY <1>1, <1>2, <1>3 DEF Kinds

\* What that says of the outcome.
LEMMA FoundParts ==
  ASSUME NEW kind, NEW s, NEW r, Found(kind, s, r)
  PROVE  r.rest \in Seq(Byte) /\ (r.ok => Accepted(kind, s, r, Serialize(kind, r.value)))
<1>1. CASE Failed(r)
  BY <1>1, FailedIs
<1>2. CASE ~Failed(r)
  <2>1. PICK v, rest : r = Got(v, rest) /\ rest \in Seq(Byte) /\ Accepted(kind, s, r, Serialize(kind, v))
    BY <1>2 DEF Found
  <2>2. r.value = v /\ r.rest = rest
    BY <2>1, GotParts
  <2> QED BY <2>1, <2>2
<1> QED BY <1>1, <1>2

\* Any bytes mean what they are read as.
LEMMA BytesMean ==
  ASSUME SizesFit, NEW kind \in Kinds, NEW s \in Seq(Byte), NEW old
  PROVE  Means(kind, s, Unserialize(kind, s, old)) /\ Unserialize(kind, s, old).rest \in Seq(Byte)
<1> DEFINE r == Unserialize(kind, s, old)
<1>1. r.rest \in Seq(Byte) /\ (r.ok => Accepted(kind, s, r, Serialize(kind, r.value)))
  BY ValueFound, FoundParts
<1>2. BogusSizeBounded(kind, s, r)
  <2>1. CASE kind = "vector"
    BY <2>1, TextBounded, ByKind DEF BogusSizeBounded
  <2>2. CASE kind = "pairs"
    BY <2>2, PairsAccepted, ByKind DEF BogusSizeBounded
  <2> QED BY <2>1, <2>2 DEF BogusSizeBounded
<1> HIDE DEF r
<1>3. Means(kind, s, r)
  BY <1>1, <1>2, Zenon DEF Means
<1> QED BY <1>1, <1>3 DEF r

-----------------------------------------------------------------------------
(***************************************************************************)
(* The bytes of a file are those of the values put on it.                  *)
(***************************************************************************)
\* What the constants are.
LEMMA Fits == SizesFit /\ Kind \subseteq Kinds /\ \A kind \in Kind : \A v \in Values[kind] : IsValue(kind, v)
  BY SerializationAssumption DEF SizesFit, Kinds

\* The values put on a file, and the bytes before and after each of them.
Items == UNION {{[kind |-> k, value |-> v] : v \in Values[k]} : k \in Kind}
BytesOf(x) == Serialize(x.kind, x.value)
Links(g, s, p) ==
  /\ g \in [0 .. Len(p) -> Seq(Byte)] /\ g[0] = s /\ g[Len(p)] = <<>>
  /\ \A i \in 1 .. Len(p) : g[i - 1] = BytesOf(p[i]) \o g[i]
Pends(s, p) == s \in Seq(Byte) /\ p \in Seq(Items) /\ \E g : Links(g, s, p)

\* A value put on a file has its kind and its bytes.
LEMMA ItemIs ==
  ASSUME NEW x \in Items
  PROVE  /\ x.kind \in Kind /\ x.kind \in Kinds /\ IsValue(x.kind, x.value) /\ BytesOf(x) \in Seq(Byte)
<1>1. PICK k \in Kind : x \in {[kind |-> k, value |-> v] : v \in Values[k]}
  BY DEF Items
<1>2. PICK v \in Values[k] : x = [kind |-> k, value |-> v]
  BY <1>1
<1>3. x.kind = k /\ x.value = v
  BY <1>2
<1>4. k \in Kinds /\ IsValue(k, v)
  BY <1>1, <1>2, Fits
<1>5. Serialize(k, v) \in Seq(Byte)
  BY <1>4, Fits, ValueWritten DEF Written
<1> QED BY <1>1, <1>3, <1>4, <1>5 DEF BytesOf

\* A value of a kind that is written.
LEMMA ItemOf ==
  ASSUME NEW k \in Kind, NEW v \in Values[k]
  PROVE  LET x == [kind |-> k, value |-> v]
         IN x \in Items /\ BytesOf(x) = Serialize(k, v) /\ Serialize(k, v) \in Seq(Byte)
            /\ Len(Serialize(k, v)) = GetSerializeSize(k, v)
<1> DEFINE x == [kind |-> k, value |-> v]
<1>1. x \in Items
  BY DEF Items
<1>2. x.kind = k /\ x.value = v
  OBVIOUS
<1>3. k \in Kinds /\ IsValue(k, v)
  BY Fits
<1>4. Serialize(k, v) \in Seq(Byte) /\ Len(Serialize(k, v)) = GetSerializeSize(k, v)
  BY <1>3, Fits, ValueWritten DEF Written
<1> HIDE DEF x
<1> QED BY <1>1, <1>2, <1>4 DEF BytesOf, x

\* Nothing pends in an empty file.
LEMMA NothingPends == Pends(<<>>, <<>>)
<1> DEFINE g == [i \in 0 .. 0 |-> <<>>]
           p == <<>>
<1>1. p \in Seq(Items) /\ Len(p) = 0 /\ p \in Seq(Byte)
  OBVIOUS
<1>2. g \in [0 .. 0 -> Seq(Byte)] /\ g[0] = <<>>
  OBVIOUS
<1> HIDE DEF g, p
<1>3. ~\E i \in 1 .. Len(p) : TRUE
  BY <1>1
<1>4. Links(g, <<>>, p)
  BY <1>1, <1>2, <1>3 DEF Links
<1> QED BY <1>1, <1>4 DEF Pends, p

\* A value put on the file pends after the others.
LEMMA OneMorePends ==
  ASSUME NEW s, NEW p, Pends(s, p), NEW x \in Items
  PROVE  Pends(s \o BytesOf(x), Append(p, x))
<1> DEFINE n == Len(p)
           w == BytesOf(x)
           u == Append(p, x)
<1>1. s \in Seq(Byte) /\ p \in Seq(Items) /\ n \in Nat /\ w \in Seq(Byte)
  BY LenProperties, ItemIs DEF Pends
<1>2. PICK g : Links(g, s, p)
  BY DEF Pends
<1>3. u \in Seq(Items) /\ Len(u) = n + 1 /\ (\A i \in 1 .. n : u[i] = p[i]) /\ u[n + 1] = x
  BY <1>1, AppendProperties
<1>4. g \in [0 .. n -> Seq(Byte)] /\ g[0] = s /\ g[n] = <<>> /\ \A i \in 1 .. n : g[i - 1] = BytesOf(p[i]) \o g[i]
  BY <1>2 DEF Links
<1> HIDE DEF u, n
<1> DEFINE h == [i \in 0 .. n + 1 |-> IF i <= n THEN g[i] \o w ELSE <<>>]
<1>5. \A i \in 0 .. n : g[i] \o w \in Seq(Byte)
  <2> HIDE DEF w
  <2> TAKE i \in 0 .. n
  <2>1. g[i] \in Seq(Byte)
    BY <1>4
  <2> QED BY <1>1, <2>1, ConcatProperties
<1>6. h \in [0 .. n + 1 -> Seq(Byte)]
  <2> HIDE DEF w
  <2>1. <<>> \in Seq(Byte)
    OBVIOUS
  <2>2. \A i \in 0 .. n + 1 : i <= n => i \in 0 .. n
    BY <1>1
  <2> QED BY <1>5, <2>1, <2>2
<1>7. h[0] = s \o w /\ h[n + 1] = <<>>
  <2> HIDE DEF w
  <2>1. 0 \in 0 .. n + 1 /\ 0 <= n /\ n + 1 \in 0 .. n + 1 /\ ~(n + 1 <= n)
    BY <1>1
  <2> QED BY <1>4, <2>1
<1>8. ASSUME NEW i \in 1 .. n + 1 PROVE h[i - 1] = BytesOf(u[i]) \o h[i]
  <2>1. CASE i <= n
    <3> DEFINE y == BytesOf(p[i])
               z == g[i]
    <3>1. i \in 1 .. n /\ i - 1 <= n /\ i \in 0 .. n + 1 /\ i - 1 \in 0 .. n + 1 /\ i \in 0 .. n
      BY <1>1, <2>1
    <3>2. h[i - 1] = g[i - 1] \o w /\ h[i] = z \o w
      <4> HIDE DEF w
      <4> QED BY <2>1, <3>1
    <3>3. g[i - 1] = y \o z /\ y \in Seq(Byte) /\ z \in Seq(Byte)
      <4>1. p[i] \in Items
        BY <1>1, <3>1, ElementOfSeq DEF n
      <4> QED BY <1>4, <3>1, <4>1, ItemIs
    <3>4. BytesOf(u[i]) = y
      BY <1>3, <3>1
    <3> HIDE DEF y, z, w, h
    <3>5. (y \o z) \o w = y \o (z \o w)
      BY <1>1, <3>3, Regrouped
    <3> QED BY <3>2, <3>3, <3>4, <3>5
  <2>2. CASE ~(i <= n)
    <3>1. i = n + 1 /\ i - 1 = n /\ n \in 0 .. n + 1 /\ n <= n
      BY <1>1, <2>2
    <3> HIDE DEF w
    <3>2. h[n] = g[n] \o w
      BY <3>1
    <3>3. BytesOf(u[i]) = w
      BY <1>3, <3>1 DEF w
    <3> HIDE DEF h
    <3>4. h[n] = <<>> \o w
      BY <1>4, <3>2
    <3>5. <<>> \o w = w /\ w \o <<>> = w
      BY <1>1
    <3> QED BY <1>7, <3>1, <3>3, <3>4, <3>5
  <2> QED BY <2>1, <2>2
<1> HIDE DEF h
<1>9. s \o w \in Seq(Byte)
  <2> HIDE DEF w
  <2> QED BY <1>1, ConcatProperties
<1> HIDE DEF w
<1>10. Links(h, s \o w, u)
  BY <1>3, <1>6, <1>7, <1>8 DEF Links
<1>11. Pends(s \o w, u)
  BY <1>3, <1>9, <1>10 DEF Pends
<1> QED BY <1>11 DEF u, w

\* What pends first is what the bytes begin with.
FirstPends(s, p, t) ==
  t \in Seq(Byte) /\ s = BytesOf(p[1]) \o t /\ p[1] \in Items /\ Pends(t, Tail(p))

\* A value that pends first has its bytes first.
LEMMA OneIsRead ==
  ASSUME NEW s, NEW p, Pends(s, p), p # <<>>
  PROVE  \E t : FirstPends(s, p, t)
<1> DEFINE n == Len(p)
           u == Tail(p)
<1>1. s \in Seq(Byte) /\ p \in Seq(Items) /\ n \in Nat \ {0}
  <2>1. p \in Seq(Items) /\ s \in Seq(Byte)
    BY DEF Pends
  <2>2. Len(p) \in Nat /\ Len(p) # 0
    BY <2>1, LenProperties, EmptySeq
  <2> QED BY <2>1, <2>2
<1>2. PICK g : Links(g, s, p)
  BY DEF Pends
<1>3. u \in Seq(Items) /\ Len(u) = n - 1 /\ \A i \in 1 .. n - 1 : u[i] = p[i + 1]
  BY <1>1, HeadTailProperties
<1>4. g \in [0 .. n -> Seq(Byte)] /\ g[0] = s /\ g[n] = <<>> /\ \A i \in 1 .. n : g[i - 1] = BytesOf(p[i]) \o g[i]
  BY <1>2 DEF Links
<1> HIDE DEF u
<1>5. 1 \in 1 .. n /\ 1 - 1 = 0 /\ 1 \in 0 .. n
  BY <1>1
<1>6. p[1] \in Items
  BY <1>1, <1>5, ElementOfSeq
<1>7. g[1] \in Seq(Byte) /\ s = BytesOf(p[1]) \o g[1]
  <2> HIDE DEF n
  <2>1. g[1 - 1] = BytesOf(p[1]) \o g[1]
    BY <1>4, <1>5
  <2> QED BY <1>4, <1>5, <2>1
<1> HIDE DEF n
<1> DEFINE m == n - 1
           h == [i \in 0 .. m |-> g[i + 1]]
<1>8. m \in Nat /\ m + 1 = n
  BY <1>1
<1> HIDE DEF m
<1>9. h \in [0 .. m -> Seq(Byte)] /\ h[0] = g[1] /\ h[m] = <<>>
  <2>1. \A i \in 0 .. m : i + 1 \in 0 .. n
    BY <1>8
  <2>2. 0 \in 0 .. m /\ m \in 0 .. m /\ 0 + 1 = 1
    BY <1>8
  <2> QED BY <1>4, <1>8, <2>1, <2>2
<1>10. ASSUME NEW i \in 1 .. m PROVE h[i - 1] = BytesOf(u[i]) \o h[i]
  <2> DEFINE j == i + 1
  <2>1. j \in 1 .. n /\ j - 1 = i /\ i \in 0 .. m /\ i - 1 \in 0 .. m /\ (i - 1) + 1 = i /\ i \in 1 .. n - 1
    BY <1>1, <1>8
  <2>2. h[i] = g[j] /\ h[i - 1] = g[i]
    BY <2>1
  <2>3. u[i] = p[j]
    BY <1>3, <2>1
  <2> HIDE DEF j, h
  <2>4. g[j - 1] = BytesOf(p[j]) \o g[j]
    BY <1>4, <2>1
  <2> QED BY <2>1, <2>2, <2>3, <2>4
<1> HIDE DEF h
<1>11. Len(u) = m
  BY <1>3 DEF m
<1>12. Links(h, g[1], u)
  BY <1>9, <1>10, <1>11 DEF Links
<1>13. Pends(g[1], u)
  BY <1>3, <1>7, <1>12 DEF Pends
<1>14. FirstPends(s, p, g[1])
  BY <1>6, <1>7, <1>13 DEF FirstPends, u
<1> QED BY <1>14

\* What pends are the bytes of the values, one after the other.
LEMMA BytesPend ==
  ASSUME NEW s, NEW p, Pends(s, p)
  PROVE  s = FlattenSeq([i \in DOMAIN p |-> Serialize(p[i].kind, p[i].value)])
<1> DEFINE n == Len(p)
           q == [i \in DOMAIN p |-> Serialize(p[i].kind, p[i].value)]
<1>1. s \in Seq(Byte) /\ p \in Seq(Items) /\ n \in Nat /\ DOMAIN p = 1 .. n
  BY LenProperties DEF Pends
<1>2. PICK g : Links(g, s, p)
  BY DEF Pends
<1>3. g \in [0 .. n -> Seq(Byte)] /\ g[0] = s /\ g[n] = <<>> /\ \A i \in 1 .. n : g[i - 1] = BytesOf(p[i]) \o g[i]
  BY <1>2 DEF Links
<1>4. \A i \in 1 .. n : BytesOf(p[i]) \in Seq(Byte)
  <2> TAKE i \in 1 .. n
  <2>1. p[i] \in Items
    BY <1>1, ElementOfSeq
  <2> QED BY <2>1, ItemIs
<1> HIDE DEF n
<1>5. q = [i \in 1 .. n |-> BytesOf(p[i])]
  BY <1>1 DEF BytesOf
<1>6. q \in [1 .. n -> Seq(Byte)]
  BY <1>4, <1>5
<1>7. \A i \in 1 .. n : q[i] = BytesOf(p[i]) /\ q[i] \in Seq(Byte)
  BY <1>4, <1>5
<1> HIDE DEF q
<1>8. q \in Seq(Seq(Byte)) /\ Len(q) = n
  <2> DEFINE S == Seq(Byte)
  <2> HIDE DEF S
  <2>1. q \in [1 .. n -> S]
    BY <1>6 DEF S
  <2>2. q \in Seq(S) /\ Len(q) = n
    BY <1>1, <2>1, RowIsSeq
  <2> QED BY <2>2 DEF S
<1>9. CASE n = 0
  <2>1. FlattenSeq(q) = q
    BY <1>8, <1>9, Zenon DEF FlattenSeq
  <2>2. q = <<>>
    BY <1>8, <1>9, EmptySeq
  <2>3. s = <<>>
    BY <1>3, <1>9
  <2> QED BY <2>1, <2>2, <2>3 DEF q
<1>10. CASE n # 0
  <2> DEFINE Def(f) == f = [i \in 1 .. n |-> IF i = 1 THEN q[i] ELSE f[i - 1] \o q[i]]
             F == [i \in 1 .. n |-> [x \in Seq(Byte) |-> x \o q[i]]]
             f == CHOOSE f : Def(f)
  <2>1. FlattenSeq(q) = f[n]
    BY <1>8, <1>10, Zenon DEF FlattenSeq
  <2>2. F \in [1 .. n -> [Seq(Byte) -> Seq(Byte)]] /\ <<>> \in Seq(Byte)
    <3>1. ASSUME NEW i \in 1 .. n, NEW x \in Seq(Byte) PROVE x \o q[i] \in Seq(Byte)
      BY <1>7, ConcatProperties
    <3> QED BY <3>1
  <2>3. PICK k : Steps(k, n, Seq(Byte), <<>>, F)
    <3> DEFINE S == Seq(Byte)
    <3> HIDE DEF F, S
    <3>1. \E k : Steps(k, n, S, <<>>, F)
      BY <1>1, <2>2, StepByStep DEF S
    <3> QED BY <3>1 DEF S
  <2>4. k \in [0 .. n -> Seq(Byte)] /\ k[0] = <<>> /\ \A i \in 1 .. n : k[i] = F[i][k[i - 1]]
    <3> HIDE DEF F
    <3> QED BY <2>3 DEF Steps
  <2>5. ASSUME NEW i \in 1 .. n PROVE k[i] = k[i - 1] \o q[i] /\ k[i - 1] \in Seq(Byte)
    <3>1. i - 1 \in 0 .. n
      BY <1>1
    <3>2. k[i - 1] \in Seq(Byte) /\ k[i] = F[i][k[i - 1]]
      <4> HIDE DEF F
      <4> QED BY <2>4, <3>1
    <3> QED BY <3>2
  <2> HIDE DEF F
  <2> DEFINE h == [i \in 1 .. n |-> k[i]]
  <2>6. Def(h)
    <3>1. ASSUME NEW i \in 1 .. n PROVE h[i] = IF i = 1 THEN q[i] ELSE h[i - 1] \o q[i]
      <4>1. CASE i = 1
        <5>0. i - 1 = 0
          BY <4>1
        <5>1. i - 1 = 0 /\ k[i] = k[i - 1] \o q[i]
          <6> HIDE DEF h
          <6>1. k[i] = k[i - 1] \o q[i]
            BY <2>5, Zenon
          <6> QED BY <5>0, <6>1
        <5>2. k[i] = <<>> \o q[i]
          BY <2>4, <5>1
        <5>3. <<>> \o q[i] = q[i]
          BY <1>7
        <5>4. h[i] = k[i]
          OBVIOUS
        <5> HIDE DEF h
        <5> QED BY <4>1, <5>2, <5>3, <5>4
      <4>2. CASE i # 1
        <5>1. i - 1 \in 1 .. n
          BY <1>1, <4>2
        <5>2. h[i] = k[i] /\ h[i - 1] = k[i - 1]
          BY <5>1
        <5> HIDE DEF h
        <5> QED BY <2>5, <4>2, <5>2
      <4> QED BY <4>1, <4>2
    <3>2. h = [i \in 1 .. n |-> h[i]]
      OBVIOUS
    <3> HIDE DEF h
    <3> QED BY <3>1, <3>2, Zenon
  <2>7. Def(f)
    <3> HIDE DEF Def, h
    <3> QED BY <2>6, Zenon
  <2> HIDE DEF f
  <2>8. \A i \in 1 .. n : f[i] = IF i = 1 THEN q[i] ELSE f[i - 1] \o q[i]
    BY <2>7, Zenon
  <2> HIDE DEF Def, h
  <2> DEFINE T == {i \in 0 .. n : i = 0 \/ (f[i] \in Seq(Byte) /\ f[i] \o g[i] = s)}
  <2>9. 0 \in T
    BY <1>1
  <2>10. ASSUME NEW i \in 0 .. n - 1, i \in T PROVE i + 1 \in T
    <3> DEFINE j == i + 1
               y == BytesOf(p[j])
               z == g[j]
               x == f[i]
    <3>1. j \in 1 .. n /\ j \in 0 .. n /\ j - 1 = i
      BY <1>1
    <3>2. g[i] = y \o z /\ y \in Seq(Byte) /\ z \in Seq(Byte) /\ q[j] = y
      BY <1>3, <1>4, <1>7, <3>1
    <3> HIDE DEF y, z
    <3>3. CASE i = 0
      <4>1. j = 1 /\ f[j] = y
        BY <2>8, <3>1, <3>2, <3>3
      <4>2. y \o z = s
        BY <1>3, <3>2, <3>3
      <4> QED BY <3>1, <3>2, <4>1, <4>2 DEF z
    <3>4. CASE i # 0
      <4>1. x \in Seq(Byte) /\ x \o g[i] = s
        BY <2>10, <3>4
      <4>2. f[j] = x \o y
        <5>1. j # 1
          BY <3>1, <3>4
        <5> HIDE DEF j
        <5>2. f[j] = f[j - 1] \o q[j]
          BY <2>8, <3>1, <5>1
        <5> QED BY <3>1, <3>2, <5>2
      <4> HIDE DEF x, T, j
      <4>3. (x \o y) \o z = x \o (y \o z)
        BY <3>2, <4>1, Regrouped
      <4>4. x \o y \in Seq(Byte)
        BY <3>2, <4>1, ConcatProperties
      <4>5. f[j] \in Seq(Byte) /\ f[j] \o z = s
        BY <3>2, <4>1, <4>2, <4>3, <4>4
      <4> QED BY <3>1, <4>5 DEF T, j, z
    <3> QED BY <3>3, <3>4
  <2>11. T = 0 .. n
    <3>1. T \in SUBSET (0 .. n)
      OBVIOUS
    <3> HIDE DEF T
    <3> QED BY <1>1, <2>9, <2>10, <3>1, InductTo
  <2>12. n \in T
    <3> HIDE DEF T
    <3> QED BY <1>1, <2>11
  <2>13. f[n] \in Seq(Byte) /\ f[n] \o g[n] = s
    BY <1>10, <2>12
  <2>14. f[n] \o <<>> = f[n]
    BY <2>13
  <2>15. f[n] = s
    BY <1>3, <2>13, <2>14
  <2> QED BY <2>1, <2>15 DEF q
<1> QED BY <1>9, <1>10

-----------------------------------------------------------------------------
(***************************************************************************)
(* The operations of CAutoFile, with the invariant that what is due of a   *)
(* file are its bytes.                                                     *)
(***************************************************************************)
\* What is due of a file are the values whose bytes it holds.
PendingIs == \A h \in Handle : pending[h] # Unknown => Pends(content[h], pending[h])
\* Files hold bytes.
FilesHold == content \in [Handle -> Seq(Byte)] /\ DOMAIN pending = Handle /\ PendingIs
\* The object: what it holds is open.
ObjectIs == file \in Handle \cup {NULL} /\ state \in BOOLEAN /\ open \subseteq Handle /\ HeldIsOpen
\* The inductive invariant of CAutoFile.
FilesInv == ObjectIs /\ FilesHold /\ DOMAIN target = Kind

\* The inductive invariant holds the type invariant.
LEMMA PendingTyped ==
  ASSUME FilesInv
  PROVE  TypeOK
<1>1. ASSUME NEW h \in Handle, pending[h] # Unknown, NEW i \in DOMAIN pending[h]
      PROVE  pending[h][i].kind \in Kind
  <2> DEFINE p == pending[h]
  <2>1. p \in Seq(Items)
    BY <1>1 DEF FilesInv, FilesHold, PendingIs, Pends
  <2> HIDE DEF p
  <2>2. i \in 1 .. Len(p)
    BY <1>1, <2>1, LenProperties DEF p
  <2>3. p[i] \in Items
    BY <2>1, <2>2, ElementOfSeq
  <2> QED BY <2>3, ItemIs DEF p
<1>2. \A h \in Handle : pending[h] = Unknown \/ \A i \in DOMAIN pending[h] : pending[h][i].kind \in Kind
  BY <1>1
<1> QED BY <1>2 DEF FilesInv, ObjectIs, FilesHold, TypeOK

\* One file changes.
LEMMA FileChanges ==
  ASSUME FilesHold, NEW h \in Handle, NEW c \in Seq(Byte), NEW p, p # Unknown => Pends(c, p),
         content' = [content EXCEPT ![h] = c], pending' = [pending EXCEPT ![h] = p]
  PROVE  FilesHold'
<1> DEFINE S == Seq(Byte)
<1>1. content \in [Handle -> S] /\ DOMAIN pending = Handle /\ PendingIs
  BY DEF FilesHold
<1>2. c \in S
  OBVIOUS
<1> HIDE DEF S
<1>3. content' \in [Handle -> S] /\ DOMAIN pending' = Handle
  BY <1>1, <1>2
<1>4. ASSUME NEW f \in Handle, pending'[f] # Unknown PROVE Pends(content'[f], pending'[f])
  <2>1. CASE f = h
    <3>1. content'[f] = c /\ pending'[f] = p
      BY <1>1, <2>1
    <3> QED BY <1>4, <3>1
  <2>2. CASE f # h
    <3>1. content'[f] = content[f] /\ pending'[f] = pending[f]
      BY <1>1, <2>2
    <3>2. pending[f] # Unknown
      BY <1>4, <3>1
    <3>3. Pends(content[f], pending[f])
      BY <1>1, <3>2 DEF PendingIs
    <3> QED BY <3>1, <3>3
  <2> QED BY <2>1, <2>2
<1>5. PendingIs'
  BY <1>4 DEF PendingIs
<1> QED BY <1>3, <1>5 DEF FilesHold, S

\* No file changes.
LEMMA FilesStay ==
  ASSUME FilesHold, UNCHANGED <<content, pending>>
  PROVE  FilesHold'
  BY DEF FilesHold, PendingIs

\* What is due of a file is what its reading gives.
LEMMA DueIsRead ==
  ASSUME NEW s, NEW due, Pends(s, due), due # <<>>, NEW kind \in Kind, due[1].kind = kind, NEW old
  PROVE  \E t : /\ Unserialize(kind, s, old) = Got(due[1].value, t)
                /\ t \in Seq(Byte) /\ Pends(t, Tail(due))
<1>1. PICK t : FirstPends(s, due, t)
  BY OneIsRead
<1>2. t \in Seq(Byte) /\ s = BytesOf(due[1]) \o t /\ due[1] \in Items /\ Pends(t, Tail(due))
  BY <1>1 DEF FirstPends
<1> DEFINE v == due[1].value
<1>3. kind \in Kinds /\ IsValue(kind, v)
  BY <1>2, ItemIs
<1>4. BytesOf(due[1]) = Serialize(kind, v)
  BY DEF BytesOf
<1> HIDE DEF v
<1>5. Unserialize(kind, Serialize(kind, v) \o t, old) = Got(v, t)
  BY <1>2, <1>3, Fits, ValueReadBack
<1>6. Unserialize(kind, s, old) = Got(v, t)
  BY <1>2, <1>4, <1>5
<1> QED BY <1>2, <1>6 DEF v

\* After any reading, what is left are the bytes of what is still due.
LEMMA StillDueIs ==
  ASSUME NEW s \in Seq(Byte), NEW due, due # Unknown => Pends(s, due), NEW kind \in Kind, NEW old,
         NEW r, r = Unserialize(kind, s, old)
  PROVE  r.rest \in Seq(Byte) /\ (StillDue(due, kind, r) # Unknown => Pends(r.rest, StillDue(due, kind, r)))
<1>1. kind \in Kinds
  BY Fits
<1>2. r.rest \in Seq(Byte)
  BY <1>1, Fits, BytesMean
<1>3. CASE due # Unknown /\ due # <<>> /\ due[1].kind = kind /\ r.ok
  <2>1. StillDue(due, kind, r) = Tail(due)
    BY <1>3 DEF StillDue
  <2>2. PICK t : Unserialize(kind, s, old) = Got(due[1].value, t) /\ t \in Seq(Byte) /\ Pends(t, Tail(due))
    BY <1>3, DueIsRead
  <2>3. r.rest = t
    BY <2>2, GotParts
  <2> QED BY <1>2, <2>1, <2>2, <2>3
<1>4. CASE ~(due # Unknown /\ due # <<>> /\ due[1].kind = kind /\ r.ok) /\ r.rest = <<>>
  <2>1. StillDue(due, kind, r) = <<>>
    BY <1>4 DEF StillDue
  <2> QED BY <1>2, <1>4, <2>1, NothingPends
<1>5. CASE ~(due # Unknown /\ due # <<>> /\ due[1].kind = kind /\ r.ok) /\ r.rest # <<>>
  <2>1. StillDue(due, kind, r) = Unknown
    BY <1>5 DEF StillDue
  <2> QED BY <1>2, <2>1
<1> QED BY <1>3, <1>4, <1>5

-----------------------------------------------------------------------------
\* Files are empty in the beginning, and all of them open.
LEMMA InitHolds == Init => FilesInv
<1> SUFFICES ASSUME Init PROVE FilesInv
  OBVIOUS
<1>1. ObjectIs
  BY SerializationAssumption DEF Init, ObjectIs, HeldIsOpen
<1>2. DOMAIN target = Kind /\ DOMAIN pending = Handle /\ <<>> \in Seq(Byte)
  BY DEF Init
<1>3. content \in [Handle -> Seq(Byte)]
  BY <1>2 DEF Init
<1>4. PendingIs
  <2> SUFFICES ASSUME NEW h \in Handle PROVE Pends(content[h], pending[h])
    BY DEF PendingIs
  <2>1. content[h] = <<>> /\ pending[h] = <<>>
    BY DEF Init
  <2> QED BY <2>1, NothingPends
<1> QED BY <1>1, <1>2, <1>3, <1>4 DEF FilesInv, FilesHold

\* The bytes of the file held.
LEMMA FileBytes ==
  ASSUME FilesInv, file # NULL
  PROVE  file \in Handle /\ content[file] \in Seq(Byte) /\ (pending[file] # Unknown => Pends(content[file], pending[file]))
<1>1. file \in Handle
  BY DEF FilesInv, ObjectIs
<1> QED BY <1>1 DEF FilesInv, FilesHold, PendingIs

\* operator<< keeps the invariant: the value pends after the others.
LEMMA WriteHolds ==
  ASSUME FilesInv, NEW kind \in Kind, NEW v \in Values[kind], Write(kind, v)
  PROVE  FilesInv'
<1> DEFINE x == [kind |-> kind, value |-> v]
           s == content[file]
           p == pending[file]
           w == Serialize(kind, v)
           q == IF p = Unknown THEN Unknown ELSE Append(p, x)
<1>1. file # NULL /\ content' = [content EXCEPT ![file] = s \o w] /\ pending' = [pending EXCEPT ![file] = q]
      /\ UNCHANGED <<file, state, open, target>>
  BY DEF Write
<1>2. file \in Handle /\ s \in Seq(Byte) /\ (p # Unknown => Pends(s, p))
  BY <1>1, FileBytes
<1>3. x \in Items /\ BytesOf(x) = w /\ w \in Seq(Byte)
  BY ItemOf
<1> HIDE DEF s, p, w, x
<1>4. s \o w \in Seq(Byte)
  BY <1>2, <1>3, ConcatProperties
<1>5. q # Unknown => Pends(s \o w, q)
  <2> SUFFICES ASSUME q # Unknown PROVE Pends(s \o w, q)
    OBVIOUS
  <2>1. p # Unknown /\ q = Append(p, x)
    OBVIOUS
  <2>2. Pends(s \o BytesOf(x), Append(p, x))
    BY <1>2, <1>3, <2>1, OneMorePends
  <2> QED BY <1>3, <2>1, <2>2
<1> HIDE DEF q
<1>6. FilesHold'
  BY <1>1, <1>2, <1>4, <1>5, FileChanges DEF FilesInv
<1> QED BY <1>1, <1>6 DEF FilesInv, ObjectIs, HeldIsOpen

\* So does one that the full file ends: what its bytes are is not known any
\* more.
LEMMA WriteFailsHolds ==
  ASSUME FilesInv, NEW kind \in Kind, NEW v \in Values[kind], WriteFails(kind, v)
  PROVE  FilesInv'
<1> DEFINE s == content[file]
           w == Serialize(kind, v)
<1>1. file # NULL /\ pending' = [pending EXCEPT ![file] = Unknown] /\ state' = TRUE /\ UNCHANGED <<file, open, target>>
  BY DEF WriteFails
<1>2. PICK n \in 0 .. GetSerializeSize(kind, v) - 1 : content' = [content EXCEPT ![file] = s \o SubSeq(w, 1, n)]
  BY DEF WriteFails
<1>3. file \in Handle /\ s \in Seq(Byte)
  BY <1>1, FileBytes
<1>4. w \in Seq(Byte) /\ Len(w) = GetSerializeSize(kind, v)
  BY ItemOf
<1> DEFINE t == SubSeq(w, 1, n)
<1> HIDE DEF s, w
<1>5. n \in Nat /\ n <= Len(w)
  <2>1. Len(w) \in Nat
    BY <1>4, LenProperties
  <2> QED BY <1>2, <1>4, <2>1
<1>6. t \in Seq(Byte)
  <2>1. \A i \in 1 .. n : w[i] \in Byte
    BY <1>4, <1>5, ElementOfSeq
  <2> QED BY <1>5, <2>1, SubSeqProperties
<1> HIDE DEF t
<1>7. s \o t \in Seq(Byte)
  BY <1>3, <1>6, ConcatProperties
<1>8. content' = [content EXCEPT ![file] = s \o t]
  BY <1>2 DEF t
<1>9. FilesHold'
  BY <1>1, <1>3, <1>7, <1>8, FileChanges DEF FilesInv
<1> QED BY <1>1, <1>9 DEF FilesInv, ObjectIs, HeldIsOpen

\* operator>> keeps it, with any bytes in the file.
LEMMA ReadHolds ==
  ASSUME FilesInv, NEW kind \in Kind, Read(kind)
  PROVE  FilesInv'
<1> DEFINE s == content[file]
           due == pending[file]
           r == Unserialize(kind, s, target[kind])
           d == StillDue(due, kind, r)
<1>1. file # NULL /\ content' = [content EXCEPT ![file] = r.rest] /\ pending' = [pending EXCEPT ![file] = d]
      /\ target' = [target EXCEPT ![kind] = r.value] /\ state' = (state \/ r.short) /\ UNCHANGED <<file, open>>
  BY DEF Read, Reading
<1>2. file \in Handle /\ s \in Seq(Byte) /\ (due # Unknown => Pends(s, due))
  BY <1>1, FileBytes
<1> HIDE DEF s, due
<1>3. r.rest \in Seq(Byte) /\ (d # Unknown => Pends(r.rest, d))
  BY <1>2, StillDueIs
<1> HIDE DEF r, d
<1>4. FilesHold'
  BY <1>1, <1>2, <1>3, FileChanges DEF FilesInv
<1>5. DOMAIN target' = Kind
  BY <1>1 DEF FilesInv
<1>6. state' \in BOOLEAN
  BY <1>1
<1> QED BY <1>1, <1>4, <1>5, <1>6 DEF FilesInv, ObjectIs, HeldIsOpen

\* Another program's byte keeps it.
LEMMA ArriveHolds ==
  ASSUME FilesInv, NEW h \in open, NEW b \in Byte, Arrive(h, b)
  PROVE  FilesInv'
<1> DEFINE s == content[h]
<1>1. content' = [content EXCEPT ![h] = Append(s, b)] /\ pending' = [pending EXCEPT ![h] = Unknown]
      /\ UNCHANGED <<file, state, open, target>>
  BY DEF Arrive
<1>2. h \in Handle /\ s \in Seq(Byte)
  BY DEF FilesInv, ObjectIs, FilesHold
<1> HIDE DEF s
<1>3. Append(s, b) \in Seq(Byte)
  BY <1>2, AppendProperties
<1>4. FilesHold'
  BY <1>1, <1>2, <1>3, FileChanges DEF FilesInv
<1> QED BY <1>1, <1>4 DEF FilesInv, ObjectIs, HeldIsOpen

\* Every step keeps the invariant.
LEMMA StepHolds == FilesInv /\ [Next]_vars => FilesInv'
<1> SUFFICES ASSUME FilesInv, [Next]_vars PROVE FilesInv'
  OBVIOUS
<1>1. ASSUME NEW kind \in Kind, Read(kind) PROVE FilesInv'
  BY <1>1, ReadHolds
<1>2. ASSUME NEW kind \in Kind, NEW v \in Values[kind], Write(kind, v) PROVE FilesInv'
  BY <1>2, WriteHolds
<1>3. ASSUME NEW kind \in Kind, NEW v \in Values[kind], WriteFails(kind, v) PROVE FilesInv'
  BY <1>3, WriteFailsHolds
<1>4. ASSUME NEW h \in open, NEW b \in Byte, Arrive(h, b) PROVE FilesInv'
  BY <1>4, ArriveHolds
<1>5. ASSUME NEW h \in open, Assign(h) PROVE FilesInv'
  BY <1>5, FilesStay DEF Assign, FilesInv, ObjectIs, HeldIsOpen
<1>6. CASE UseNull
  BY <1>6, FilesStay DEF UseNull, FilesInv, ObjectIs, HeldIsOpen
<1>7. CASE Release
  BY <1>7, FilesStay DEF Release, FilesInv, ObjectIs, HeldIsOpen
<1>8. CASE Fclose
  BY <1>8, FilesStay DEF Fclose, FilesInv, ObjectIs, HeldIsOpen
<1>9. CASE Clear
  BY <1>9, FilesStay DEF Clear, FilesInv, ObjectIs, HeldIsOpen
<1>10. CASE UNCHANGED vars
  BY <1>10, FilesStay DEF vars, FilesInv, ObjectIs, HeldIsOpen
<1> QED BY <1>1, <1>2, <1>3, <1>4, <1>5, <1>6, <1>7, <1>8, <1>9, <1>10 DEF Next

\* The invariant of files.
LEMMA Inductive == Spec => []FilesInv
  BY InitHolds, StepHolds, PTL DEF Spec

\* The invariant holds what is claimed of the object.
LEMMA HeldOf == FilesInv => FileIsHeld
  BY PendingTyped DEF FileIsHeld, FilesInv, ObjectIs

\* A CAutoFile holds a file that is open, or none, through every exchange,
\* release, close and failure; the standard streams stay open, and of every
\* file it is bytes that are read.
THEOREM SerializationHolds == Spec => []FileIsHeld
  BY Inductive, HeldOf, PTL

\* The invariant holds what is claimed of bytes and values.
LEMMA MeaningOf == FilesInv => BytesMeanValues
<1> SUFFICES ASSUME FilesInv PROVE BytesMeanValues
  OBVIOUS
<1>1. ASSUME NEW h \in Handle, pending[h] # Unknown, pending[h] # <<>>
      PROVE  Unserialize(pending[h][1].kind, content[h], Old(pending[h][1].kind)).ok
  <2> DEFINE p == pending[h]
             kind == p[1].kind
             s == content[h]
  <2>1. Pends(s, p)
    BY <1>1 DEF FilesInv, FilesHold, PendingIs
  <2>2. p # <<>>
    BY <1>1
  <2> HIDE DEF s, p
  <2>3. PICK u : FirstPends(s, p, u)
    BY <2>1, <2>2, OneIsRead
  <2>4. kind \in Kind
    BY <2>3, ItemIs DEF FirstPends
  <2>5. PICK t : Unserialize(kind, s, Old(kind)) = Got(p[1].value, t)
    <3> HIDE DEF kind
    <3>1. p[1].kind = kind
      BY DEF kind
    <3> QED BY <2>1, <2>2, <2>4, <3>1, DueIsRead
  <2>6. Unserialize(kind, s, Old(kind)).ok
    BY <2>5, GotParts
  <2> QED BY <2>6 DEF s, p
<1>2. WrittenIsReadable
  BY <1>1 DEF WrittenIsReadable
<1>3. ASSUME NEW h \in Handle, NEW kind \in Kind
      PROVE  Means(kind, content[h], Unserialize(kind, content[h], Old(kind)))
  <2>1. content[h] \in Seq(Byte) /\ kind \in Kinds
    BY Fits DEF FilesInv, FilesHold
  <2> QED BY <2>1, Fits, BytesMean
<1> QED BY <1>2, <1>3 DEF BytesMeanValues

\* Whatever the files hold, whoever wrote it: what was written is never refused
\* when it is read as what it is, and bytes that are accepted have one meaning,
\* one size and, where the format has no freedom, one form.
THEOREM MeaningHolds == Spec => []BytesMeanValues
  BY Inductive, MeaningOf, PTL

\* The step ReadsWhatWasWritten is about.
ReadAsWritten ==
  last'.op = "read" /\ pending[file] # Unknown /\ pending[file] # <<>>
  /\ pending[file][1].kind = last'.kind
    => /\ target'[last'.kind] = pending[file][1].value
       /\ content'[file] = FlattenSeq([i \in DOMAIN pending'[file] |->
                             Serialize(pending'[file][i].kind, pending'[file][i].value)])

\* Nothing but a reading that succeeds is called one.
LEMMA OnlyReadReads ==
  ASSUME [Next]_vars, last'.op = "read", vars' # vars
  PROVE  \E kind \in Kind : Read(kind) /\ last' = [op |-> "read", kind |-> kind]
<1>1. ASSUME NEW kind \in Kind, Read(kind) PROVE last' = [op |-> "read", kind |-> kind]
  BY <1>1 DEF Read, Reading
<1>2. ASSUME NEW kind \in Kind, NEW v \in Values[kind], Write(kind, v) \/ WriteFails(kind, v) PROVE FALSE
  <2>1. CASE Write(kind, v)
    <3>1. last' = [op |-> "write"]
      BY <2>1 DEF Write
    <3> QED BY <3>1
  <2>2. CASE WriteFails(kind, v)
    <3>1. last' = [op |-> "throw"]
      BY <2>2 DEF WriteFails
    <3> QED BY <3>1
  <2> QED BY <1>2, <2>1, <2>2
<1>3. ASSUME NEW h \in open, (\E b \in Byte : Arrive(h, b)) \/ Assign(h) PROVE FALSE
  BY <1>3 DEF Arrive, Assign
<1>4. ~(UseNull \/ Release \/ Fclose \/ Clear)
  BY DEF UseNull, Release, Fclose, Clear
<1>5. PICK kind \in Kind : Read(kind)
  BY <1>2, <1>3, <1>4 DEF Next
<1> QED BY <1>1, <1>5

\* A reading of what is due gives it.
LEMMA StepReads == FilesInv /\ [Next]_vars => [ReadAsWritten]_vars
<1> SUFFICES ASSUME FilesInv, [Next]_vars, vars' # vars, last'.op = "read", pending[file] # Unknown, pending[file] # <<>>,
                    pending[file][1].kind = last'.kind
             PROVE  /\ target'[last'.kind] = pending[file][1].value
                    /\ content'[file] = FlattenSeq([i \in DOMAIN pending'[file] |->
                                          Serialize(pending'[file][i].kind, pending'[file][i].value)])
  BY DEF ReadAsWritten
<1>1. PICK kind \in Kind : Read(kind) /\ last' = [op |-> "read", kind |-> kind]
  BY OnlyReadReads
<1>2. last'.kind = kind
  BY <1>1
<1> DEFINE s == content[file]
           due == pending[file]
           r == Unserialize(kind, s, target[kind])
           d == StillDue(due, kind, r)
<1>3. file # NULL /\ content' = [content EXCEPT ![file] = r.rest] /\ pending' = [pending EXCEPT ![file] = d]
      /\ target' = [target EXCEPT ![kind] = r.value]
  BY <1>1 DEF Read, Reading
<1>4. file \in Handle /\ s \in Seq(Byte) /\ Pends(s, due)
  BY <1>3, FileBytes
<1>5. due # Unknown /\ due # <<>> /\ due[1].kind = kind
  BY <1>2
<1>6. DOMAIN target = Kind /\ DOMAIN content = Handle /\ DOMAIN pending = Handle
  BY DEF FilesInv, FilesHold
<1> HIDE DEF s, due
<1>7. PICK t : r = Got(due[1].value, t) /\ t \in Seq(Byte) /\ Pends(t, Tail(due))
  BY <1>4, <1>5, DueIsRead
<1> HIDE DEF r
<1>8. r.value = due[1].value /\ r.rest = t /\ r.ok
  BY <1>7, GotParts
<1>9. d = Tail(due)
  BY <1>5, <1>8 DEF StillDue
<1> HIDE DEF d
<1>10. target'[kind] = due[1].value /\ content'[file] = t /\ pending'[file] = Tail(due)
  BY <1>3, <1>4, <1>6, <1>8, <1>9
<1>11. Pends(content'[file], pending'[file])
  BY <1>7, <1>10
<1>12. content'[file] = FlattenSeq([i \in DOMAIN pending'[file] |->
                          Serialize(pending'[file][i].kind, pending'[file][i].value)])
  BY <1>11, BytesPend
<1> QED BY <1>2, <1>10, <1>12 DEF due

\* Values follow one another without separators: what is read as its own kind is
\* what was written, and the bytes left are those of the values after it.
THEOREM ReadsHold == Spec => ReadsWhatWasWritten
<1>1. [][ReadAsWritten]_vars => ReadsWhatWasWritten
  BY PTL DEF ReadsWhatWasWritten, ReadAsWritten
<1> QED BY <1>1, Inductive, StepReads, PTL DEF Spec

-----------------------------------------------------------------------------
(***************************************************************************)
(* CBufferedFile: the ring holds the window, and read delivers the bytes   *)
(* of the file.  BufferInv is the inductive invariant.                     *)
(***************************************************************************)
\* Whatever has been read since the last Seek is in the file.
WithinFile ==
  /\ base <= nSrcPos
  /\ base < nSrcPos => nSrcPos <= Len(File)

\* The reader is within nRewind bytes of the furthest point it has been at.
NearReached ==
  /\ nReadPos <= reached /\ reached <= nSrcPos
  /\ reached <= nReadPos + nRewind

BufferInv == BufferTypeOK /\ WithinFile /\ NearReached /\ RingHoldsWindow

-----------------------------------------------------------------------------
\* Two positions less than N apart fall into different cells of a ring of N.
LEMMA ModDistinct ==
  ASSUME NEW N \in Nat, N > 0, NEW i \in Nat, NEW j \in Nat,
         i < j, j - i < N
  PROVE  i % N # j % N
<1> SUFFICES ASSUME i % N = j % N PROVE FALSE
  OBVIOUS
<1>1. PICK a \in Int : i = N * a + (i % N)
  <2>1. i \div N \in Int /\ i = N * (i \div N) + (i % N)
    OBVIOUS
  <2> QED
    BY <2>1
<1>2. PICK b \in Int : j = N * b + (j % N)
  <2>1. j \div N \in Int /\ j = N * (j \div N) + (j % N)
    OBVIOUS
  <2> QED
    BY <2>1
<1>3. j - i = N * (b - a)
  BY <1>1, <1>2
<1>4. b - a \in Int /\ N * (b - a) > 0 /\ N * (b - a) < N
  BY <1>3
<1>5. CASE b - a <= 0
  BY <1>4, <1>5
<1>6. CASE b - a >= 1
  BY <1>4, <1>6
<1> QED
  BY <1>5, <1>6

\* As long as the ring does not wrap, the next position is the next cell.
LEMMA ModNext ==
  ASSUME NEW N \in Nat, N > 0, NEW i \in Nat, NEW k \in Nat, (i % N) + k < N
  PROVE  (i + k) % N = (i % N) + k
<1>1. PICK a \in Int : i = N * a + (i % N)
  <2>1. i \div N \in Int /\ i = N * (i \div N) + (i % N)
    OBVIOUS
  <2> QED
    BY <2>1
<1>2. i % N \in 0 .. N - 1
  OBVIOUS
<1>3. i + k = N * a + ((i % N) + k) /\ (i % N) + k \in 0 .. N - 1
  BY <1>1, <1>2
<1> QED
  BY <1>3

\* What fread returns: no more than the room Fill asked for, which leaves the
\* last nRewind bytes alone, and no more than the file has.
LEMMA FreadBounds ==
  ASSUME BufferTypeOK, nReadPos = nSrcPos, NEW n \in FreadResults
  PROVE  /\ n \in Nat
         /\ n # 0 => /\ n <= BufSize - (nSrcPos % BufSize)
                     /\ n <= BufSize - nRewind
                     /\ nSrcPos + n <= Len(File)
<1>1. /\ BufSize \in Nat /\ BufSize > 0 /\ nRewind \in Nat /\ nSrcPos \in Nat
      /\ Len(File) \in Nat
  BY FileAssumption DEF BufferTypeOK
<1>2. nSrcPos % BufSize \in 0 .. BufSize - 1
  BY <1>1
<1> DEFINE available == MaxOf(0, MinOf(readNow, Len(File) - nSrcPos))
<1>3. /\ available \in Nat
      /\ available # 0 => /\ available <= BufSize - (nSrcPos % BufSize)
                          /\ available <= BufSize - nRewind
                          /\ nSrcPos + available <= Len(File)
  <2>1. /\ readNow \in Int
        /\ readNow <= BufSize - (nSrcPos % BufSize)
        /\ readNow <= BufSize - nRewind
    BY <1>1, <1>2 DEF readNow, MinOf
  <2>2. /\ MinOf(readNow, Len(File) - nSrcPos) \in Int
        /\ MinOf(readNow, Len(File) - nSrcPos) <= readNow
        /\ MinOf(readNow, Len(File) - nSrcPos) <= Len(File) - nSrcPos
    BY <1>1, <2>1 DEF MinOf
  <2> QED
    BY <1>1, <1>2, <2>1, <2>2 DEF MaxOf
<1>4. n \in 0 .. available
  BY <1>3 DEF FreadResults
<1> QED
  BY <1>1, <1>2, <1>3, <1>4

\* Bytes of the file are natural numbers.
LEMMA ByteType ==
  ASSUME NEW p \in Nat, p < Len(File)
  PROVE  ByteAt(p) \in Nat
<1>1. Len(File) \in Nat /\ p + 1 \in 1 .. Len(File)
  BY FileAssumption
<1> QED
  BY <1>1, FileAssumption, ElementOfSeq DEF ByteAt

\* After Fill every position of the window is in its cell: the new ones because
\* they were written, the old ones because they are less than a ring away from
\* everything written.
LEMMA FillStep ==
  ASSUME BufferInv, Fill
  PROVE  BufferInv'
<1>1. PICK n \in FreadResults :
        IF n = 0
          THEN /\ failed' = TRUE
               /\ Return("thrown")
               /\ UNCHANGED <<vchBuf, nSrcPos>>
          ELSE FillBytes(n) /\ UNCHANGED <<failed, pc, result>>
  BY DEF Fill
<1>2. /\ BufSize \in Nat /\ BufSize > 0 /\ nRewind \in Nat /\ nSrcPos \in Nat
      /\ nReadPos = nSrcPos /\ Len(File) \in Nat /\ base \in Nat
      /\ reached = nSrcPos
      /\ vchBuf \in [0 .. BufSize - 1 -> Nat]
  BY FileAssumption DEF BufferInv, BufferTypeOK, NearReached, Fill
<1>3. UNCHANGED <<BufSize, nRewind, nReadPos, base, reached>>
  BY DEF Fill
<1>4. CASE n = 0
  <2>1. BufferTypeOK'
    BY <1>1, <1>4 DEF BufferInv, BufferTypeOK, Fill, Return
  <2>2. UNCHANGED <<vchBuf, nSrcPos>>
    BY <1>1, <1>4
  <2> QED
    BY <2>1, <2>2, <1>3 DEF BufferInv, WithinFile, NearReached, RingHoldsWindow, Window,
       Cell
<1>5. CASE n # 0
  <2>1. /\ n \in Nat /\ n > 0 /\ n <= BufSize - (nSrcPos % BufSize)
        /\ n <= BufSize - nRewind /\ nSrcPos + n <= Len(File)
    BY <1>2, <1>5, FreadBounds DEF BufferInv
  <2> DEFINE at == nSrcPos % BufSize
  <2>2. at \in 0 .. BufSize - 1
    BY <1>2
  <2>3. /\ nSrcPos' = nSrcPos + n
        /\ vchBuf' = [i \in 0 .. BufSize - 1 |->
             IF i - at \in 0 .. n - 1 THEN ByteAt(nSrcPos + (i - at)) ELSE vchBuf[i]]
    BY <1>1, <1>5 DEF FillBytes
  <2>4. vchBuf' \in [0 .. BufSize - 1 -> Nat]
    <3>1. ASSUME NEW i \in 0 .. BufSize - 1, i - at \in 0 .. n - 1
          PROVE  ByteAt(nSrcPos + (i - at)) \in Nat
      BY <1>2, <2>1, <3>1, ByteType
    <3> QED
      BY <1>2, <2>3, <3>1
  <2>5. BufferTypeOK'
    <3>1. BufferTypeOK /\ UNCHANGED <<nReadLimit, failed, pc, left, wanted, start, got, result>>
      BY <1>1, <1>5 DEF Fill, BufferInv
    <3>2. nSrcPos' \in Nat /\ nReadPos' \in 0 .. nSrcPos'
      BY <1>2, <1>3, <2>1, <2>3
    <3> QED
      BY <1>3, <2>4, <3>1, <3>2 DEF BufferTypeOK
  <2>6. WithinFile' /\ NearReached'
    BY <1>2, <1>3, <2>1, <2>3 DEF BufferInv, WithinFile, NearReached
  <2>7. ASSUME NEW p \in Window'
        PROVE  Cell(p)' = ByteAt(p)
    <3>1. /\ p \in base .. nSrcPos + n - 1
          /\ p + nRewind >= nSrcPos
          /\ p \in Nat
      <4>1. p \in base' .. nSrcPos' - 1 /\ p + nRewind' >= reached'
        BY DEF Window
      <4> QED
        BY <1>2, <1>3, <2>1, <2>3, <4>1
    <3>2. Cell(p)' = vchBuf'[p % BufSize]
      BY <1>3 DEF Cell
    <3>3. p % BufSize \in 0 .. BufSize - 1
      BY <1>2, <3>1
    <3>4. CASE p >= nSrcPos
      <4>1. PICK k \in 0 .. n - 1 : p = nSrcPos + k
        <5>1. p - nSrcPos \in 0 .. n - 1 /\ p = nSrcPos + (p - nSrcPos)
          BY <1>2, <2>1, <3>1, <3>4
        <5> QED
          BY <5>1
      <4>2. p % BufSize = at + k
        <5>1. k \in Nat /\ at + k < BufSize
          BY <1>2, <2>1, <2>2
        <5> QED
          BY <1>2, <4>1, <5>1, ModNext
      <4> QED
        BY <2>1, <2>2, <2>3, <3>2, <3>3, <4>1, <4>2
    <3>5. CASE p < nSrcPos
      <4>1. p \in Window
        BY <1>2, <2>1, <3>1, <3>5 DEF Window
      <4>2. (p % BufSize) - at \notin 0 .. n - 1
        <5> SUFFICES ASSUME NEW k \in 0 .. n - 1, p % BufSize = at + k
                     PROVE  FALSE
          BY <2>2, <3>3
        <5>1. (nSrcPos + k) % BufSize = at + k
          <6>1. k \in Nat /\ at + k < BufSize
            BY <1>2, <2>1, <2>2
          <6> QED
            BY <1>2, <6>1, ModNext
        <5>2. nSrcPos + k \in Nat /\ p < nSrcPos + k /\ nSrcPos + k - p < BufSize
          BY <1>2, <2>1, <3>1, <3>5
        <5> QED
          <6>1. PICK j \in Nat : j = nSrcPos + k
            BY <5>2
          <6>2. p < j /\ j - p < BufSize
            BY <1>2, <3>1, <5>2, <6>1
          <6>3. p % BufSize # j % BufSize
            BY <1>2, <3>1, <6>2, ModDistinct
          <6> QED
            BY <5>1, <6>1, <6>3
      <4>3. vchBuf'[p % BufSize] = Cell(p)
        BY <2>3, <3>3, <4>2 DEF Cell
      <4> QED
        BY <3>2, <4>1, <4>3 DEF BufferInv, RingHoldsWindow
    <3> QED
      BY <1>2, <3>1, <3>4, <3>5
  <2>8. RingHoldsWindow'
    BY <2>7 DEF RingHoldsWindow, ByteAt
  <2> QED
    BY <2>5, <2>6, <2>8 DEF BufferInv
<1> QED
  BY <1>4, <1>5

\* A step that leaves the ring and the source position alone and moves the
\* reader no further back than nRewind bytes before the source position.
LEMMA WindowKept ==
  ASSUME BufferInv, UNCHANGED <<vchBuf, BufSize, nRewind, nSrcPos, base>>,
         NEW r \in 0 .. nSrcPos, nReadPos' = r, reached' = MaxOf(reached, r),
         r >= nReadPos \/ r + nRewind >= nSrcPos
  PROVE  WithinFile' /\ NearReached' /\ RingHoldsWindow'
<1>1. WithinFile'
  BY DEF BufferInv, WithinFile
<1>2. /\ nSrcPos \in Nat /\ nReadPos \in Nat /\ nRewind \in Nat /\ base \in Nat
      /\ reached \in Nat /\ r \in Nat /\ r <= nSrcPos
  BY DEF BufferInv, BufferTypeOK
<1>3. PICK h \in Nat : reached' = h /\ h >= reached /\ h >= r
                      /\ h <= nSrcPos /\ h <= r + nRewind
  <2>1. nReadPos <= reached /\ reached <= nSrcPos /\ reached <= nReadPos + nRewind
    BY DEF BufferInv, NearReached
  <2>2. /\ MaxOf(reached, r) \in Nat /\ MaxOf(reached, r) >= reached
        /\ MaxOf(reached, r) >= r /\ MaxOf(reached, r) <= nSrcPos
        /\ MaxOf(reached, r) <= r + nRewind
    BY <1>2, <2>1 DEF MaxOf
  <2> QED
    BY <2>2
<1>4. NearReached'
  BY <1>2, <1>3 DEF NearReached
<1>5. Window' \subseteq Window
  <2>1. Window' = {p \in base .. nSrcPos - 1 : p + nRewind >= h}
    BY <1>3 DEF Window
  <2> QED
    BY <1>2, <1>3, <2>1 DEF Window
<1>6. ASSUME NEW p \in Window' PROVE Cell(p)' = ByteAt(p)
  <2>1. Cell(p) = ByteAt(p)
    BY <1>5, <1>6 DEF BufferInv, RingHoldsWindow
  <2> QED
    BY <2>1 DEF Cell
<1> QED
  BY <1>1, <1>4, <1>6 DEF RingHoldsWindow, ByteAt

\* An empty ring.
LEMMA InitIInv == BufferInit => BufferInv
<1> SUFFICES ASSUME BufferInit PROVE BufferInv
  OBVIOUS
<1>1. PICK c \in Configs : BufSize = c[1] /\ nRewind = c[2]
  BY DEF BufferInit
<1>2. BufSize \in Nat /\ nRewind \in Nat /\ nRewind < BufSize
  BY <1>1, ConfigAssumption
<1>3. BufferTypeOK
  <2>1. vchBuf \in [0 .. BufSize - 1 -> Nat]
    BY DEF BufferInit
  <2>2. got \in Seq(Nat)
    BY EmptySeq DEF BufferInit
  <2>3. nReadLimit \in Nat
    BY NoLimitAssumption DEF BufferInit
  <2>4. /\ nSrcPos \in Nat /\ nReadPos \in 0 .. nSrcPos
        /\ left \in Nat /\ wanted \in Nat /\ start \in Nat /\ base \in Nat
        /\ reached \in Nat /\ pc = "idle" /\ result = "none"
    <3>1. /\ nSrcPos = 0 /\ nReadPos = 0 /\ left = 0 /\ wanted = 0
          /\ start = 0 /\ base = 0 /\ reached = 0 /\ pc = "idle" /\ result = "none"
      BY DEF BufferInit
    <3> QED
      BY <3>1
  <2>5. failed \in BOOLEAN
    BY DEF BufferInit
  <2> QED
    BY <1>2, <2>1, <2>2, <2>3, <2>4, <2>5 DEF BufferTypeOK
<1>4. WithinFile /\ NearReached /\ RingHoldsWindow
  BY <1>2 DEF BufferInit, WithinFile, NearReached, RingHoldsWindow, Window
<1> QED
  BY <1>3, <1>4 DEF BufferInv

\* What Copy hands over in one piece.
Chunk(n) == [i \in 1 .. n |-> vchBuf[(nReadPos % BufSize) + i - 1]]

\* One iteration of read copies the cells of the next positions.
LEMMA CopyCopies ==
  ASSUME BufferTypeOK, Copy
  PROVE  \E nNow \in Nat :
           /\ nNow <= left /\ nNow <= nSrcPos - nReadPos
           /\ \A i \in 1 .. nNow : Chunk(nNow)[i] = Cell(nReadPos + i - 1)
           /\ Chunk(nNow) \in Seq(Nat) /\ Len(Chunk(nNow)) = nNow
           /\ got' = got \o Chunk(nNow)
           /\ nReadPos' = nReadPos + nNow
           /\ reached' = MaxOf(reached, nReadPos + nNow)
           /\ left' = left - nNow
<1>1. /\ BufSize \in Nat /\ BufSize > 0 /\ nReadPos \in Nat /\ nSrcPos \in Nat
      /\ left \in Nat /\ nReadPos <= nSrcPos
      /\ vchBuf \in [0 .. BufSize - 1 -> Nat]
  BY DEF BufferTypeOK
<1>2. nReadPos % BufSize \in 0 .. BufSize - 1
  BY <1>1
<1> DEFINE room == BufSize - (nReadPos % BufSize)
           most == MinOf(MinOf(left, room), nSrcPos - nReadPos)
<1>3. PICK nNow \in Nat :
        /\ nNow = most
        /\ nNow <= left /\ nNow <= nSrcPos - nReadPos
        /\ nNow <= BufSize - (nReadPos % BufSize)
  <2>1. room \in Nat /\ nSrcPos - nReadPos \in Nat
    BY <1>1, <1>2
  <2>2. MinOf(left, room) \in Nat /\ MinOf(left, room) <= left
        /\ MinOf(left, room) <= room
    BY <1>1, <2>1 DEF MinOf
  <2>3. most \in Nat /\ most <= MinOf(left, room) /\ most <= nSrcPos - nReadPos
    BY <2>1, <2>2 DEF MinOf
  <2>4. most <= left /\ most <= room
    BY <1>1, <2>1, <2>2, <2>3
  <2> HIDE DEF most
  <2>5. most <= BufSize - (nReadPos % BufSize)
    BY <2>4
  <2> QED
    BY <2>3, <2>4, <2>5
<1>4. ASSUME NEW i \in 1 .. nNow
      PROVE  /\ Chunk(nNow)[i] = Cell(nReadPos + i - 1)
             /\ vchBuf[(nReadPos % BufSize) + i - 1] \in Nat
  <2>1. PICK k \in Nat : k = i - 1 /\ (nReadPos % BufSize) + k < BufSize
    <3>1. i \in Nat /\ 1 <= i /\ i <= nNow
      BY <1>3
    <3>2. i - 1 \in Nat /\ (nReadPos % BufSize) + (i - 1) < BufSize
      BY <1>1, <1>2, <1>3, <3>1
    <3> QED
      BY <3>2
  <2>2. (nReadPos + k) % BufSize = (nReadPos % BufSize) + k
    BY <1>1, <2>1, ModNext
  <2>3. (nReadPos % BufSize) + i - 1 = (nReadPos % BufSize) + k
        /\ nReadPos + i - 1 = nReadPos + k
        /\ (nReadPos % BufSize) + k \in 0 .. BufSize - 1
    BY <1>1, <1>2, <2>1
  <2> QED
    BY <1>1, <2>2, <2>3 DEF Chunk, Cell
<1>5. Chunk(nNow) \in [1 .. nNow -> Nat]
  BY <1>4 DEF Chunk
<1>6. Chunk(nNow) \in Seq(Nat) /\ Len(Chunk(nNow)) = nNow
  <2>1. Chunk(nNow) \in Seq(Nat)
    BY <1>5, SeqDef
  <2>2. DOMAIN Chunk(nNow) = 1 .. Len(Chunk(nNow)) /\ Len(Chunk(nNow)) \in Nat
    BY <2>1, LenProperties
  <2> QED
    BY <1>3, <1>5, <2>1, <2>2
<1>7. /\ got' = got \o Chunk(nNow)
      /\ nReadPos' = nReadPos + nNow
      /\ reached' = MaxOf(reached, nReadPos + nNow)
      /\ left' = left - nNow
  BY <1>3 DEF Copy, Chunk, MoveTo
<1> QED
  BY <1>3, <1>4, <1>6, <1>7

\* Copying keeps the invariant.
LEMMA CopyStep ==
  ASSUME BufferInv, Copy
  PROVE  BufferInv'
<1>1. PICK nNow \in Nat :
        /\ nNow <= left /\ nNow <= nSrcPos - nReadPos
        /\ \A i \in 1 .. nNow : Chunk(nNow)[i] = Cell(nReadPos + i - 1)
        /\ Chunk(nNow) \in Seq(Nat) /\ Len(Chunk(nNow)) = nNow
        /\ got' = got \o Chunk(nNow)
        /\ nReadPos' = nReadPos + nNow
        /\ reached' = MaxOf(reached, nReadPos + nNow)
        /\ left' = left - nNow
  BY CopyCopies DEF BufferInv
<1>3. got' \in Seq(Nat)
  BY <1>1, ConcatProperties DEF BufferInv, BufferTypeOK
<1>4. BufferTypeOK'
  <2>1. nReadPos' \in 0 .. nSrcPos' /\ left' \in Nat
    BY <1>1 DEF BufferInv, BufferTypeOK, Copy
  <2>3. reached' \in Nat
    BY <1>1 DEF BufferInv, BufferTypeOK, MaxOf
  <2>2. BufferTypeOK /\ UNCHANGED <<vchBuf, BufSize, nRewind, nSrcPos, nReadLimit,
                             failed, pc, wanted, start, result, base>>
    BY DEF BufferInv, Copy
  <2> QED
    BY <1>3, <2>1, <2>2, <2>3 DEF BufferTypeOK
<1>5. nReadPos + nNow \in 0 .. nSrcPos /\ nReadPos + nNow >= nReadPos
  BY <1>1 DEF BufferInv, BufferTypeOK
<1>6. WithinFile' /\ NearReached' /\ RingHoldsWindow'
  BY <1>1, <1>5, WindowKept DEF Copy
<1> QED
  BY <1>4, <1>6 DEF BufferInv

\* The calls that only look at the ring, and those that begin or end.
LEMMA CallSteps ==
  ASSUME BufferInv,
         \/ ReadReturns \/ FindLook
         \/ \E n \in Sizes : ReadBytes(n)
         \/ \E ch \in Chars : FindByte(ch)
         \/ \E p \in Limits \cup {NoLimit} : SetLimit(p)
  PROVE  BufferTypeOK' => BufferInv'
<1>1. /\ nReadPos \in Nat /\ nSrcPos \in Nat /\ reached \in Nat
      /\ nReadPos <= nSrcPos /\ nReadPos <= reached
  BY DEF BufferInv, BufferTypeOK, NearReached
<1>2. /\ UNCHANGED <<vchBuf, BufSize, nRewind, nSrcPos, base>>
      /\ \/ nReadPos' = nReadPos /\ reached' = reached
         \/ /\ nReadPos # nSrcPos
            /\ nReadPos' = nReadPos + 1
            /\ reached' = MaxOf(reached, nReadPos + 1)
  <2>1. CASE ReadReturns
    BY <2>1 DEF ReadReturns, pos
  <2>2. CASE FindLook
    BY <2>2 DEF FindLook, MoveTo
  <2>3. CASE \E n \in Sizes : ReadBytes(n)
    BY <2>3 DEF ReadBytes, pos
  <2>4. CASE \E ch \in Chars : FindByte(ch)
    BY <2>4 DEF FindByte, pos
  <2>5. CASE \E p \in Limits \cup {NoLimit} : SetLimit(p)
    BY <2>5 DEF SetLimit, Call
  <2> QED
    BY <2>1, <2>2, <2>3, <2>4, <2>5
<1>3. PICK r \in 0 .. nSrcPos :
        nReadPos' = r /\ reached' = MaxOf(reached, r) /\ r >= nReadPos
  <2>1. MaxOf(reached, nReadPos) = reached
    BY <1>1 DEF MaxOf
  <2>2. nReadPos \in 0 .. nSrcPos /\ (nReadPos # nSrcPos => nReadPos + 1 \in 0 .. nSrcPos)
    BY <1>1
  <2>3. nReadPos >= nReadPos /\ nReadPos + 1 >= nReadPos
    BY <1>1
  <2> QED
    BY <1>2, <2>1, <2>2, <2>3
<1> QED
  BY <1>2, <1>3, WindowKept DEF BufferInv

\* So do the types of those calls.
LEMMA CallTypes ==
  ASSUME BufferTypeOK,
         \/ ReadReturns \/ FindLook
         \/ \E n \in Sizes : ReadBytes(n)
         \/ \E ch \in Chars : FindByte(ch)
         \/ \E p \in Limits \cup {NoLimit} : SetLimit(p)
  PROVE  BufferTypeOK'
<1>1. <<>> \in Seq(Nat)
  BY EmptySeq
<1>2. CASE ReadReturns
  BY <1>2 DEF BufferTypeOK, ReadReturns, Return, pos
<1>3. CASE FindLook
  <2>1. reached' \in Nat
    BY <1>3 DEF BufferTypeOK, FindLook, MoveTo, MaxOf
  <2>2. nReadPos' \in 0 .. nSrcPos
    BY <1>3 DEF BufferTypeOK, FindLook, MoveTo
  <2> QED
    BY <1>3, <2>1, <2>2 DEF BufferTypeOK, FindLook, Return
<1>4. CASE \E n \in Sizes : ReadBytes(n)
  BY <1>1, <1>4, ArgumentAssumption DEF BufferTypeOK, ReadBytes, Return, pos
<1>5. CASE \E ch \in Chars : FindByte(ch)
  BY <1>1, <1>5, ArgumentAssumption DEF BufferTypeOK, FindByte, pos
<1>6. CASE \E p \in Limits \cup {NoLimit} : SetLimit(p)
  <2>1. PICK p \in Limits \cup {NoLimit} : SetLimit(p)
    BY <1>6
  <2>2. p \in Nat
    BY ArgumentAssumption, NoLimitAssumption
  <2>3. nReadLimit' \in Nat /\ result' \in {"true", "false"} /\ pc' = "idle"
    BY <2>1, <2>2 DEF BufferTypeOK, SetLimit, Call
  <2>4. /\ start' = nReadPos /\ got' = <<>>
        /\ UNCHANGED <<vchBuf, BufSize, nRewind, left, wanted, nSrcPos, nReadPos,
                      failed, base, reached>>
    BY <2>1 DEF SetLimit, Call
  <2> QED
    BY <1>1, <2>3, <2>4 DEF BufferTypeOK
<1> QED
  BY <1>2, <1>3, <1>4, <1>5, <1>6

\* SetPos goes back no further than nRewind bytes behind the source position,
\* which the window always covers.
LEMMA SetPosStep ==
  ASSUME BufferInv, NEW p \in Targets, SetPos(p)
  PROVE  BufferInv'
<1>1. p \in Nat
  BY ArgumentAssumption
<1>2. PICK r \in 0 .. nSrcPos :
        nReadPos' = r /\ reached' = MaxOf(reached, r) /\ r + nRewind >= nSrcPos
  BY <1>1 DEF BufferInv, BufferTypeOK, SetPos, MoveTo
<1>3. UNCHANGED <<vchBuf, BufSize, nRewind, nSrcPos, nReadLimit, failed, left,
                  wanted, base>>
  BY DEF SetPos, Call
<1>4. BufferTypeOK'
  <2>1. /\ pc' = "idle" /\ result' \in {"true", "false"}
        /\ start' = nReadPos /\ got' = <<>>
    BY DEF SetPos, Call
  <2>2. <<>> \in Seq(Nat)
    BY EmptySeq
  <2>3. reached' \in Nat
    BY <1>2 DEF BufferInv, BufferTypeOK, MaxOf
  <2> QED
    BY <1>2, <1>3, <2>1, <2>2, <2>3 DEF BufferInv, BufferTypeOK
<1>5. WithinFile' /\ NearReached' /\ RingHoldsWindow'
  BY <1>2, <1>3, WindowKept
<1> QED
  BY <1>4, <1>5 DEF BufferInv

\* Seek leaves nothing in the window.
LEMMA SeekStep ==
  ASSUME BufferInv, NEW p \in SeekTargets, Seek(p)
  PROVE  BufferInv'
<1>1. p \in Nat
  BY ArgumentAssumption
<1>2. BufferTypeOK'
  <2>1. <<>> \in Seq(Nat)
    BY EmptySeq
  <2>2. /\ nSrcPos' = p /\ nReadPos' = p /\ base' = p /\ reached' = p
        /\ failed' = FALSE /\ result' = "true" /\ pc' = "idle"
        /\ start' = nReadPos /\ got' = <<>>
        /\ UNCHANGED <<vchBuf, BufSize, nRewind, left, wanted, nReadLimit>>
    BY DEF Seek, Call
  <2>3. nSrcPos' \in Nat /\ nReadPos' \in 0 .. nSrcPos'
    BY <1>1, <2>2
  <2> QED
    BY <1>1, <2>1, <2>2, <2>3 DEF BufferInv, BufferTypeOK
<1>3. WithinFile' /\ NearReached' /\ RingHoldsWindow'
  BY <1>1 DEF BufferInv, BufferTypeOK, Seek, WithinFile, NearReached, RingHoldsWindow, Window
<1> QED
  BY <1>2, <1>3 DEF BufferInv

\* Every step keeps it.
LEMMA NextIInv == BufferInv /\ [BufferNext]_bufferVars => BufferInv'
<1> SUFFICES ASSUME BufferInv, [BufferNext]_bufferVars PROVE BufferInv'
  OBVIOUS
<1>1. CASE UNCHANGED bufferVars
  BY <1>1 DEF bufferVars, pos, call, BufferInv, BufferTypeOK, WithinFile, NearReached,
     RingHoldsWindow, Window, Cell, ByteAt
<1>2. CASE BufferNext
  <2>1. BufferTypeOK
    BY DEF BufferInv
  <2> QED
    BY <1>2, <2>1, FillStep, CopyStep, CallSteps, CallTypes, SetPosStep,
       SeekStep DEF BufferNext, LoopStep
<1> QED
  BY <1>1, <1>2

\* CBufferedFile, whatever the file, the ring and the calls: the ring holds
\* every position the reader may go back to.
THEOREM InductiveInvariant == BufferSpec => []BufferInv
<1> QED
  BY InitIInv, NextIInv, PTL DEF BufferSpec

\* Every variable keeps its type; the reader never overtakes the source.
THEOREM TypeCorrect == BufferSpec => []BufferTypeOK
<1>1. BufferInv => BufferTypeOK
  BY DEF BufferInv
<1> QED
  BY <1>1, InductiveInvariant, PTL

\* For every file, ring size, rewind size and sequence of calls, the ring holds
\* the right byte for every position since the last Seek that is still ahead of
\* the reader or within nRewind of the source position: Fill never overwrites
\* what SetPos may go back to.
THEOREM RingAlwaysHoldsWindow == BufferSpec => []RingHoldsWindow
<1>1. BufferInv => RingHoldsWindow
  BY DEF BufferInv
<1> QED
  BY <1>1, InductiveInvariant, PTL

-----------------------------------------------------------------------------
(***************************************************************************)
(* What read delivers, from the target of the last Seek on: what the ring  *)
(* has of the positions before it is of another part of the file (README,  *)
(* findings).                                                              *)
(***************************************************************************)
FindHasNoBytes == pc = "find" => got = <<>>

RInv == BufferInv /\ ReadsTheFile /\ FindHasNoBytes

\* Nothing is read yet.
LEMMA InitRInv == BufferInit => RInv
<1>1. Len(<<>>) = 0
  BY EmptySeq
<1> QED
  BY <1>1, InitIInv DEF BufferInit, RInv, ReadsTheFile, FindHasNoBytes

\* What is copied are the next bytes of the file.
LEMMA CopyReads ==
  ASSUME RInv, Copy
  PROVE  ReadsTheFile'
<1>1. PICK nNow \in Nat :
        /\ nNow <= left /\ nNow <= nSrcPos - nReadPos
        /\ \A i \in 1 .. nNow : Chunk(nNow)[i] = Cell(nReadPos + i - 1)
        /\ Chunk(nNow) \in Seq(Nat) /\ Len(Chunk(nNow)) = nNow
        /\ got' = got \o Chunk(nNow)
        /\ nReadPos' = nReadPos + nNow
        /\ reached' = MaxOf(reached, nReadPos + nNow)
        /\ left' = left - nNow
  BY CopyCopies DEF RInv, BufferInv
<1>2. /\ nReadPos \in Nat /\ nSrcPos \in Nat /\ start \in Nat /\ base \in Nat
      /\ got \in Seq(Nat) /\ Len(got) \in Nat
      /\ pc = "read" /\ start' = start /\ base' = base
  BY LenProperties DEF RInv, BufferInv, BufferTypeOK, Copy
<1>3. /\ Len(got) = nReadPos - start
      /\ \A i \in 1 .. Len(got) : start + i - 1 >= base => got[i] = ByteAt(start + i - 1)
  BY <1>2 DEF RInv, ReadsTheFile
<1>near. nRewind \in Nat /\ reached \in Nat /\ reached <= nReadPos + nRewind
  BY DEF RInv, BufferInv, BufferTypeOK, NearReached
<1>4. ASSUME NEW i \in 1 .. nNow, nReadPos + i - 1 >= base
      PROVE  Chunk(nNow)[i] = ByteAt(nReadPos + i - 1)
  <2>1. nReadPos + i - 1 \in Window
    BY <1>1, <1>2, <1>4, <1>near DEF Window
  <2> QED
    BY <1>1, <2>1 DEF RInv, BufferInv, RingHoldsWindow
<1>5. Len(got') = Len(got) + nNow
  BY <1>1, <1>2, ConcatProperties
<1>6. Len(got') = nReadPos' - start'
  BY <1>1, <1>2, <1>3, <1>5
<1>7. ASSUME NEW i \in 1 .. Len(got) + nNow, start + i - 1 >= base
      PROVE  got'[i] = ByteAt(start + i - 1)
  <2>1. got'[i] = IF i <= Len(got) THEN got[i] ELSE Chunk(nNow)[i - Len(got)]
    BY <1>1, <1>2, ConcatProperties
  <2>2. CASE i <= Len(got)
    BY <1>2, <1>3, <1>7, <2>1, <2>2
  <2>3. CASE i > Len(got)
    <3>1. PICK j \in 1 .. nNow :
            j = i - Len(got) /\ nReadPos + j - 1 = start + i - 1
      BY <1>1, <1>2, <1>3, <2>3
    <3>2. got'[i] = Chunk(nNow)[j]
      BY <1>2, <2>1, <2>3, <3>1
    <3>3. Chunk(nNow)[j] = ByteAt(nReadPos + j - 1)
      BY <1>4, <1>7, <3>1
    <3> QED
      BY <3>1, <3>2, <3>3
  <2> QED
    BY <1>2, <2>2, <2>3
<1> QED
  BY <1>2, <1>5, <1>6, <1>7 DEF ReadsTheFile, ByteAt

\* Every step keeps it.
LEMMA NextRInv == RInv /\ [BufferNext]_bufferVars => RInv'
<1> SUFFICES ASSUME RInv, [BufferNext]_bufferVars PROVE RInv'
  OBVIOUS
<1>1. BufferInv'
  BY NextIInv DEF RInv
<1>2. Len(<<>>) = 0
  BY EmptySeq
<1>3. CASE UNCHANGED bufferVars
  BY <1>1, <1>3 DEF bufferVars, pos, call, RInv, ReadsTheFile, FindHasNoBytes, ByteAt
<1>4. CASE Copy
  <2>1. FindHasNoBytes'
    BY <1>4 DEF RInv, FindHasNoBytes, Copy
  <2> QED
    BY <1>1, <1>4, <2>1, CopyReads DEF RInv
<1>5. CASE Fill \/ ReadReturns
  BY <1>1, <1>5 DEF RInv, ReadsTheFile, FindHasNoBytes, ByteAt, Fill, FillBytes,
     ReadReturns, Return, pos
<1>6. CASE FindLook
  BY <1>1, <1>2, <1>6 DEF RInv, ReadsTheFile, FindHasNoBytes, FindLook, Return
<1>7. ASSUME NEW n \in Sizes, ReadBytes(n) PROVE RInv'
  <2>1. /\ start' = nReadPos /\ got' = <<>> /\ nReadPos' = nReadPos /\ base' = base
        /\ pc' \in {"idle", "read"}
    BY <1>7 DEF ReadBytes, Return, pos
  <2>2. nReadPos - nReadPos = 0
    BY DEF RInv, BufferInv, BufferTypeOK
  <2> QED
    BY <1>1, <1>2, <2>1, <2>2 DEF RInv, ReadsTheFile, FindHasNoBytes
<1>8. ASSUME NEW ch \in Chars, FindByte(ch) PROVE RInv'
  BY <1>1, <1>8 DEF RInv, ReadsTheFile, FindHasNoBytes, FindByte
<1>9. ASSUME NEW p \in Targets, SetPos(p) PROVE RInv'
  <2>1. pc' = "idle" /\ got' = <<>>
    BY <1>9 DEF SetPos, Call
  <2> QED
    BY <1>1, <2>1 DEF RInv, ReadsTheFile, FindHasNoBytes
<1>10. ASSUME NEW p \in Limits \cup {NoLimit}, SetLimit(p) PROVE RInv'
  <2>1. pc' = "idle" /\ got' = <<>>
    BY <1>10 DEF SetLimit, Call
  <2> QED
    BY <1>1, <2>1 DEF RInv, ReadsTheFile, FindHasNoBytes
<1>11. ASSUME NEW p \in SeekTargets, Seek(p) PROVE RInv'
  <2>1. pc' = "idle" /\ got' = <<>>
    BY <1>11 DEF Seek, Call
  <2> QED
    BY <1>1, <2>1 DEF RInv, ReadsTheFile, FindHasNoBytes
<1> QED
  BY <1>3, <1>4, <1>5, <1>6, <1>7, <1>8, <1>9, <1>10, <1>11 DEF BufferNext, LoopStep

\* From the target of the last Seek on, read delivers the bytes of the file in
\* order and without a gap from the position where it began, across refills, wraps
\* of the ring and rewinds, and also what it copied before an exception.
THEOREM ReadsAlwaysTheFile == BufferSpec => []ReadsTheFile
<1>1. RInv => ReadsTheFile
  BY DEF RInv
<1> QED
  BY <1>1, InitRInv, NextRInv, PTL DEF BufferSpec
=============================================================================
