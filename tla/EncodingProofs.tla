---------------------------- MODULE EncodingProofs ----------------------------
(***************************************************************************)
(* Proofs about the formats of Encoding, for every radix, MAX_SIZE and     *)
(* width of the type: a value is read back whatever follows it, the size   *)
(* announced is the size written, and any bytes whatever are a value in    *)
(* the form in which it would be written, or their reading fails.          *)
(***************************************************************************)
EXTENDS Encoding, Induction
LOCAL INSTANCE SequencesExt

-----------------------------------------------------------------------------
(***************************************************************************)
(* Numbers in bytes of a fixed width.                                      *)
(***************************************************************************)
\* The recursion of Power, as the table of its values.
LEMMA PowersAre ==
  ASSUME NEW base \in Nat \ {0}, NEW k \in Nat
  PROVE  \E f : /\ f \in [0 .. k -> (Nat \ {0})] /\ f[0] = 1
                /\ \A i \in 1 .. k : f[i] = base * f[i - 1]
                /\ Power(base, k) = f[k]
<1> DEFINE top == k
           S == (Nat \ {0})
           c == 1
           F == [i \in 1 .. top |-> [x \in S |-> base * x]]
<1>1. top \in Nat /\ c \in S
  OBVIOUS
<1>2. ASSUME NEW i \in 1 .. top, NEW x \in S PROVE base * x \in S
  BY <1>2
<1>3. F \in [1 .. top -> [S -> S]]
  <2> HIDE DEF top, S
  <2> QED BY <1>2
<1>4. PICK f : Steps(f, top, S, c, F)
  <2> HIDE DEF top, F, S, c
  <2> QED BY <1>1, <1>3, StepByStep
<1>5. f \in [0 .. top -> S] /\ f[0] = c /\ \A i \in 1 .. top : f[i - 1] \in S /\ f[i] = F[i][f[i - 1]]
  <2> HIDE DEF top, F, S, c
  <2> QED BY <1>1, <1>4 DEF Steps
<1>6. ASSUME NEW i \in 1 .. top PROVE f[i] = base * f[i - 1]
  <2>1. f[i - 1] \in S /\ f[i] = F[i][f[i - 1]]
    <3> HIDE DEF top, F, S, c
    <3> QED BY <1>5
  <2> HIDE DEF top, S, c
  <2> QED BY <2>1
<1> DEFINE Def(g) == g = [i \in 0 .. top |-> IF i = 0 THEN c ELSE base * g[i - 1]]
           g == CHOOSE h : Def(h)
<1>7. Def(f)
  <2>1. ASSUME NEW i \in 0 .. top PROVE f[i] = IF i = 0 THEN c ELSE base * f[i - 1]
    <3>1. CASE i = 0
      <4> HIDE DEF top, F, S, c
      <4> QED BY <1>5, <3>1
    <3>2. CASE i # 0
      <4>1. i \in 1 .. top
        <5> HIDE DEF top, F, S, c
        <5> QED BY <1>1, <3>2
      <4> HIDE DEF top, F, S, c
      <4> QED BY <1>6, <3>2, <4>1, Zenon
    <3> QED BY <3>1, <3>2
  <2>2. f = [i \in 0 .. top |-> f[i]]
    <3> HIDE DEF top, F, S, c
    <3> QED BY <1>5
  <2> HIDE DEF top, F, S, c
  <2> QED BY <2>1, <2>2, Zenon
<1>8. Def(g)
  <2> HIDE DEF Def
  <2> QED BY <1>7, Zenon DEF g
<1>9. Power(base, k) = g[top]
  BY DEF Power
<1>10. g = f
  <2> HIDE DEF g, top, F, S, c
  <2> DEFINE T == {i \in 0 .. top : g[i] = f[i]}
  <2>1. \A i \in 0 .. top : g[i] = IF i = 0 THEN c ELSE base * g[i - 1]
    BY <1>8, Zenon
  <2>2. g = [i \in 0 .. top |-> g[i]]
    BY <1>8, Zenon
  <2> HIDE DEF Def
  <2>3. 0 \in T
    BY <1>1, <1>5, <2>1
  <2>4. ASSUME NEW i \in 0 .. top - 1, i \in T PROVE i + 1 \in T
    <3>1. i + 1 \in 0 .. top /\ i + 1 \in 1 .. top /\ i + 1 # 0 /\ (i + 1) - 1 = i
      BY <1>1
    <3>2. g[i] = f[i]
      BY <2>4
    <3> DEFINE j == i + 1
    <3>3. j \in 0 .. top /\ j \in 1 .. top /\ j # 0 /\ g[j - 1] = f[j - 1]
      BY <3>1, <3>2
    <3> HIDE DEF j
    <3>4. g[j] = base * g[j - 1] /\ f[j] = base * f[j - 1]
      BY <1>6, <2>1, <3>3, Zenon
    <3>5. g[j] = f[j]
      BY <3>3, <3>4, Zenon
    <3> QED BY <3>1, <3>5 DEF j
  <2>5. T = 0 .. top
    <3>1. T \in SUBSET (0 .. top)
      OBVIOUS
    <3> HIDE DEF T
    <3> QED BY <1>1, <2>3, <2>4, <3>1, InductTo
  <2>6. \A i \in 0 .. top : g[i] = f[i]
    BY <2>5
  <2>7. f = [i \in 0 .. top |-> f[i]]
    BY <1>5
  <2> HIDE DEF T
  <2> QED BY <2>2, <2>6, <2>7, Zenon
<1>11. f \in [0 .. top -> S] /\ f[0] = c /\ (\A i \in 1 .. top : f[i] = base * f[i - 1]) /\ Power(base, k) = f[top]
  <2> HIDE DEF g, Def, F
  <2> QED BY <1>5, <1>6, <1>9, <1>10
<1> HIDE DEF F, g, Def
<1> QED BY <1>11

\* Powers, by recursion.
LEMMA PowerNext ==
  ASSUME NEW base \in Nat \ {0}, NEW k \in Nat
  PROVE  Power(base, 0) = 1 /\ Power(base, k) \in Nat \ {0} /\ Power(base, k + 1) = base * Power(base, k)
<1>1. PICK f : /\ f \in [0 .. k -> Nat \ {0}] /\ f[0] = 1 /\ \A i \in 1 .. k : f[i] = base * f[i - 1]
               /\ Power(base, k) = f[k]
  BY PowersAre
<1>2. k + 1 \in Nat
  OBVIOUS
<1>3. PICK g : /\ g \in [0 .. k + 1 -> Nat \ {0}] /\ g[0] = 1 /\ \A i \in 1 .. k + 1 : g[i] = base * g[i - 1]
               /\ Power(base, k + 1) = g[k + 1]
  BY <1>2, PowersAre
<1>4. PICK z : z[0] = 1 /\ Power(base, 0) = z[0]
  <2>1. 0 \in Nat
    OBVIOUS
  <2>2. \E z : /\ z \in [0 .. 0 -> Nat \ {0}] /\ z[0] = 1 /\ \A i \in 1 .. 0 : z[i] = base * z[i - 1]
               /\ Power(base, 0) = z[0]
    BY <2>1, PowersAre
  <2> QED BY <2>2
<1> DEFINE T == {i \in 0 .. k : f[i] = g[i]}
<1>5. 0 \in T
  BY <1>1, <1>3
<1>6. ASSUME NEW i \in 0 .. k - 1, i \in T PROVE i + 1 \in T
  <2>1. i + 1 \in 1 .. k /\ i + 1 \in 1 .. k + 1 /\ i + 1 \in 0 .. k /\ (i + 1) - 1 = i
    OBVIOUS
  <2>2. f[i + 1] = base * f[i] /\ g[i + 1] = base * g[i]
    BY <1>1, <1>3, <2>1
  <2> QED BY <1>6, <2>1, <2>2
<1>7. T = 0 .. k
  <2>1. T \in SUBSET (0 .. k)
    OBVIOUS
  <2> HIDE DEF T
  <2> QED BY <1>5, <1>6, <2>1, InductTo
<1>8. f[k] = g[k] /\ f[k] \in Nat \ {0}
  BY <1>1, <1>7
<1>9. g[k + 1] = base * g[k]
  <2>1. k + 1 \in 1 .. k + 1 /\ (k + 1) - 1 = k
    OBVIOUS
  <2> QED BY <1>3, <2>1
<1> QED BY <1>1, <1>3, <1>4, <1>8, <1>9

\* A byte is a digit of the radix.
LEMMA RadixBase == Radix \in Nat /\ Radix >= 4 /\ Radix \in Nat \ {0} /\ Byte = 0 .. Radix - 1 /\ Short \in Byte /\ Short > 0
<1>1. Digit \in Nat /\ Digit >= 2
  BY BigNumAssumption
<1>2. Digit * Digit >= 2 * Digit /\ Digit * Digit \in Nat
  BY <1>1
<1>3. Radix \in Nat /\ Radix >= 4
  BY <1>1, <1>2 DEF Radix
<1> QED BY <1>3 DEF Byte, Short

\* What FixedBytes has left of the number after each byte.
LEMMA LeftAre ==
  ASSUME NEW n \in Nat, NEW w \in Nat
  PROVE  \E f : /\ f \in [0 .. w -> Nat] /\ f[0] = n
                /\ \A i \in 1 .. w : f[i] = f[i - 1] \div Radix
                /\ FixedBytes(n, w) = [i \in 1 .. w |-> f[i - 1] % Radix]
<1> DEFINE top == w
           S == Nat
           c == n
           F == [i \in 1 .. top |-> [x \in S |-> x \div Radix]]
<1>1. top \in Nat /\ c \in S
  OBVIOUS
<1>2. ASSUME NEW i \in 1 .. top, NEW x \in S PROVE x \div Radix \in S
  BY <1>2, RadixBase
<1>3. F \in [1 .. top -> [S -> S]]
  <2> HIDE DEF top, S
  <2> QED BY <1>2
<1>4. PICK f : Steps(f, top, S, c, F)
  <2> HIDE DEF top, F, S, c
  <2> QED BY <1>1, <1>3, StepByStep
<1>5. f \in [0 .. top -> S] /\ f[0] = c /\ \A i \in 1 .. top : f[i - 1] \in S /\ f[i] = F[i][f[i - 1]]
  <2> HIDE DEF top, F, S, c
  <2> QED BY <1>1, <1>4 DEF Steps
<1>6. ASSUME NEW i \in 1 .. top PROVE f[i] = f[i - 1] \div Radix
  <2>1. f[i - 1] \in S /\ f[i] = F[i][f[i - 1]]
    <3> HIDE DEF top, F, S, c
    <3> QED BY <1>5
  <2> HIDE DEF top, S, c
  <2> QED BY <2>1
<1> DEFINE Def(g) == g = [i \in 0 .. top |-> IF i = 0 THEN c ELSE g[i - 1] \div Radix]
           g == CHOOSE h : Def(h)
<1>7. Def(f)
  <2>1. ASSUME NEW i \in 0 .. top PROVE f[i] = IF i = 0 THEN c ELSE f[i - 1] \div Radix
    <3>1. CASE i = 0
      <4> HIDE DEF top, F, S, c
      <4> QED BY <1>5, <3>1
    <3>2. CASE i # 0
      <4>1. i \in 1 .. top
        <5> HIDE DEF top, F, S, c
        <5> QED BY <1>1, <3>2
      <4> HIDE DEF top, F, S, c
      <4> QED BY <1>6, <3>2, <4>1, Zenon
    <3> QED BY <3>1, <3>2
  <2>2. f = [i \in 0 .. top |-> f[i]]
    <3> HIDE DEF top, F, S, c
    <3> QED BY <1>5
  <2> HIDE DEF top, F, S, c
  <2> QED BY <2>1, <2>2, Zenon
<1>8. Def(g)
  <2> HIDE DEF Def
  <2> QED BY <1>7, Zenon DEF g
<1>9. FixedBytes(n, w) = [i \in 1 .. w |-> g[i - 1] % Radix]
  BY DEF FixedBytes
<1>10. g = f
  <2> HIDE DEF g, top, F, S, c
  <2> DEFINE T == {i \in 0 .. top : g[i] = f[i]}
  <2>1. \A i \in 0 .. top : g[i] = IF i = 0 THEN c ELSE g[i - 1] \div Radix
    BY <1>8, Zenon
  <2>2. g = [i \in 0 .. top |-> g[i]]
    BY <1>8, Zenon
  <2> HIDE DEF Def
  <2>3. 0 \in T
    BY <1>1, <1>5, <2>1
  <2>4. ASSUME NEW i \in 0 .. top - 1, i \in T PROVE i + 1 \in T
    <3>1. i + 1 \in 0 .. top /\ i + 1 \in 1 .. top /\ i + 1 # 0 /\ (i + 1) - 1 = i
      BY <1>1
    <3>2. g[i] = f[i]
      BY <2>4
    <3> DEFINE j == i + 1
    <3>3. j \in 0 .. top /\ j \in 1 .. top /\ j # 0 /\ g[j - 1] = f[j - 1]
      BY <3>1, <3>2
    <3> HIDE DEF j
    <3>4. g[j] = g[j - 1] \div Radix /\ f[j] = f[j - 1] \div Radix
      BY <1>6, <2>1, <3>3, Zenon
    <3>5. g[j] = f[j]
      BY <3>3, <3>4, Zenon
    <3> QED BY <3>1, <3>5 DEF j
  <2>5. T = 0 .. top
    <3>1. T \in SUBSET (0 .. top)
      OBVIOUS
    <3> HIDE DEF T
    <3> QED BY <1>1, <2>3, <2>4, <3>1, InductTo
  <2>6. \A i \in 0 .. top : g[i] = f[i]
    BY <2>5
  <2>7. f = [i \in 0 .. top |-> f[i]]
    BY <1>5
  <2> HIDE DEF T
  <2> QED BY <2>2, <2>6, <2>7, Zenon
<1>11. f \in [0 .. top -> S] /\ f[0] = c /\ (\A i \in 1 .. top : f[i] = f[i - 1] \div Radix) /\ FixedBytes(n, w) = [i \in 1 .. w |-> f[i - 1] % Radix]
  <2> HIDE DEF g, Def, F
  <2> QED BY <1>5, <1>6, <1>9, <1>10
<1> HIDE DEF F, g, Def
<1> QED BY <1>11

\* A sequence turned round.
LEMMA Reversed ==
  ASSUME NEW S, NEW s \in Seq(S)
  PROVE  /\ Reverse(s) \in Seq(S) /\ Len(Reverse(s)) = Len(s)
         /\ \A i \in 1 .. Len(s) : Reverse(s)[i] = s[Len(s) - i + 1]
<1> DEFINE n == Len(s)
           r == Reverse(s)
<1>1. n \in Nat
  BY LenProperties
<1>2. r = [i \in 1 .. n |-> s[n - i + 1]]
  BY DEF Reverse
<1>3. \A i \in 1 .. n : s[n - i + 1] \in S
  <2> TAKE i \in 1 .. n
  <2>1. n - i + 1 \in 1 .. n
    BY <1>1
  <2> QED BY <2>1, ElementOfSeq
<1> HIDE DEF n, r
<1>4. r \in [1 .. n -> S] /\ IsRow(r, n)
  BY <1>2, <1>3 DEF IsRow
<1>5. r \in Seq(S) /\ Len(r) = n
  BY <1>1, <1>4, RowLength
<1> QED BY <1>2, <1>5 DEF n, r

\* A function on 1 .. n is a sequence of n elements.
LEMMA RowIsSeq ==
  ASSUME NEW S, NEW n \in Nat, NEW s, s \in [1 .. n -> S]
  PROVE  s \in Seq(S) /\ Len(s) = n
<1>1. IsRow(s, n)
  BY DEF IsRow
<1> QED BY <1>1, RowLength

\* The bytes of a number that has no more: what is left of it when the last of
\* them are taken away is the number of the first digits.
LEMMA FixedWritten ==
  ASSUME NEW n \in Nat, NEW w \in Nat, n < Power(Radix, w)
  PROVE  FixedBytes(n, w) \in Seq(Byte) /\ Len(FixedBytes(n, w)) = w /\ ValueOf(FixedBytes(n, w)) = n
<1> DEFINE v == FixedBytes(n, w)
<1>0. Radix \in Nat \ {0} /\ Byte = 0 .. Radix - 1 /\ Radix \in Nat
  BY RadixBase
<1>1. PICK l : /\ l \in [0 .. w -> Nat] /\ l[0] = n
               /\ \A i \in 1 .. w : l[i] = l[i - 1] \div Radix
               /\ FixedBytes(n, w) = [i \in 1 .. w |-> l[i - 1] % Radix]
  <2> DEFINE P(l, a, b) == /\ l \in [0 .. b -> Nat] /\ l[0] = a
                           /\ \A i \in 1 .. b : l[i] = l[i - 1] \div Radix
                           /\ FixedBytes(a, b) = [i \in 1 .. b |-> l[i - 1] % Radix]
  <2>1. ASSUME NEW a \in Nat, NEW b \in Nat PROVE \E l : P(l, a, b)
    BY LeftAre
  <2> HIDE DEF P
  <2>2. \E l : P(l, n, w)
    BY <2>1
  <2> QED BY <2>2 DEF P
<1>100. v = [i \in 1 .. w |-> l[i - 1] % Radix]
  BY <1>1
<1> HIDE DEF v
<1>2. ASSUME NEW i \in 1 .. w
      PROVE  v[i] = l[i - 1] % Radix /\ v[i] \in Byte /\ l[i - 1] = Radix * l[i] + v[i] /\ l[i - 1] \in Nat
  <2>1. l[i - 1] \in Nat
    BY <1>1
  <2>2. l[i - 1] = Radix * (l[i - 1] \div Radix) + (l[i - 1] % Radix) /\ l[i - 1] % Radix \in 0 .. Radix - 1
    BY <1>0, <2>1, Division
  <2> QED BY <1>0, <1>1, <1>100, <2>1, <2>2
<1>3. v \in [1 .. w -> Byte]
  BY <1>100, <1>2
<1>4. v \in Seq(Byte) /\ Len(v) = w
  BY <1>3, RowIsSeq
<1> DEFINE T == {i \in 0 .. w : l[i] < Power(Radix, w - i)}
<1>5. 0 \in T
  <2>1. w - 0 = w
    OBVIOUS
  <2> QED BY <1>1, <2>1
<1>6. ASSUME NEW i \in 0 .. w - 1, i \in T PROVE i + 1 \in T
  <2> DEFINE j == i + 1
             k == w - j
             p == Power(Radix, k)
  <2>1. j \in 1 .. w /\ j \in 0 .. w /\ j - 1 = i /\ k \in Nat /\ k + 1 = w - i
    OBVIOUS
  <2>2. l[i] < Power(Radix, k + 1)
    BY <1>6, <2>1
  <2>3. p \in Nat /\ Power(Radix, k + 1) = Radix * p
    BY <1>0, <2>1, PowerNext
  <2>4. l[i] = Radix * l[j] + v[j] /\ v[j] \in Byte
    BY <1>2, <2>1
  <2>5. l[j] \in Nat
    BY <1>1, <2>1
  <2> HIDE DEF p, k, j
  <2>6. l[j] < p
    <3>1. CASE l[j] >= p
      <4>1. Radix * l[j] >= Radix * p
        <5>1. \A a, b \in Nat : a >= b => Radix * a >= Radix * b
          BY <1>0
        <5> QED BY <2>3, <2>5, <3>1, <5>1
      <4>2. Radix * l[j] \in Nat /\ Radix * p \in Nat /\ v[j] \in Nat
        BY <1>0, <2>3, <2>4, <2>5
      <4> QED BY <2>2, <2>3, <2>4, <4>1, <4>2
    <3> QED BY <2>3, <2>5, <3>1
  <2> QED BY <2>1, <2>6 DEF p, k, j
<1>7. T = 0 .. w
  <2>1. T \in SUBSET (0 .. w)
    OBVIOUS
  <2> HIDE DEF T
  <2> QED BY <1>5, <1>6, <2>1, InductTo
<1>8. l[w] = 0
  <2>0. w \in T /\ w - w = 0 /\ w \in 0 .. w
    BY <1>7
  <2>1. l[w] < Power(Radix, 0) /\ l[w] \in Nat
    BY <1>1, <2>0
  <2>2. Power(Radix, 0) = 1
    BY <1>0, PowerNext
  <2> QED BY <2>1, <2>2
<1> DEFINE u == Reverse(v)
           f == [k \in 0 .. w |-> l[w - k]]
<1>9. u \in DigitSeq(Radix) /\ Len(u) = w /\ \A i \in 1 .. w : u[i] = v[w - i + 1]
  BY <1>0, <1>4, Reversed DEF DigitSeq
<1> HIDE DEF u
<1>10. Evaluates(f, u, Radix)
  <2>1. f \in [0 .. w -> Nat]
    BY <1>1
  <2>2. f[0] = 0
    BY <1>8
  <2>3. ASSUME NEW i \in 1 .. w PROVE f[i] = Radix * f[i - 1] + u[i]
    <3>1. w - i + 1 \in 1 .. w /\ (w - i + 1) - 1 = w - i /\ i - 1 \in 0 .. w /\ w - (i - 1) = w - i + 1
      OBVIOUS
    <3>2. l[w - i] = Radix * l[w - i + 1] + v[w - i + 1]
      BY <1>2, <3>1
    <3>3. f[i] = l[w - i] /\ f[i - 1] = l[w - i + 1]
      BY <3>1
    <3> QED BY <1>9, <3>2, <3>3
  <2> HIDE DEF f
  <2> QED BY <1>9, <2>1, <2>2, <2>3 DEF Evaluates
<1>11. f[w] = n
  <2>1. w \in 0 .. w /\ w - w = 0
    OBVIOUS
  <2> QED BY <1>1, <2>1
<1>12. ValueOf(v) = n
  <2> HIDE DEF f
  <2>1. DigitsValue(u, Radix) = f[Len(u)]
    BY <1>0, <1>9, <1>10, ValueIsPrefix
  <2> QED BY <1>9, <1>11, <2>1 DEF ValueOf, u
<1> QED BY <1>4, <1>12 DEF v

\* Any bytes are the bytes of their number in their width.
LEMMA FixedRead ==
  ASSUME NEW v \in Seq(Byte)
  PROVE  /\ ValueOf(v) \in Nat /\ ValueOf(v) < Power(Radix, Len(v))
         /\ FixedBytes(ValueOf(v), Len(v)) = v
<1> DEFINE w == Len(v)
           u == Reverse(v)
           n == ValueOf(v)
<1>0. Radix \in Nat \ {0} /\ Byte = 0 .. Radix - 1 /\ Radix \in Nat
  BY RadixBase
<1>1. w \in Nat /\ \A i \in 1 .. w : v[i] \in Byte
  BY LenProperties, ElementOfSeq
<1>2. u \in DigitSeq(Radix) /\ Len(u) = w /\ \A i \in 1 .. w : u[i] = v[w - i + 1]
  BY <1>0, Reversed DEF DigitSeq
<1>3. n = DigitsValue(u, Radix)
  BY DEF ValueOf
<1> HIDE DEF u, n, w
<1>4. PICK f : Evaluates(f, u, Radix) /\ DigitsValue(u, Radix) = f[Len(u)]
  BY <1>0, <1>2, PrefixesAre
<1>5. f \in [0 .. w -> Nat] /\ f[0] = 0 /\ (\A i \in 1 .. w : f[i] = Radix * f[i - 1] + u[i]) /\ n = f[w]
  BY <1>2, <1>3, <1>4 DEF Evaluates
<1>6. n \in Nat
  BY <1>1, <1>5
<1>7. PICK l : /\ l \in [0 .. w -> Nat] /\ l[0] = n /\ \A i \in 1 .. w : l[i] = l[i - 1] \div Radix
               /\ FixedBytes(n, w) = [i \in 1 .. w |-> l[i - 1] % Radix]
  BY <1>1, <1>6, LeftAre
<1> DEFINE T == {i \in 0 .. w : l[i] = f[w - i]}
<1>8. 0 \in T
  BY <1>1, <1>5, <1>7
<1>9. ASSUME NEW i \in 0 .. w - 1, i \in T
      PROVE  l[i] \div Radix = f[w - (i + 1)] /\ l[i] % Radix = v[i + 1]
  <2> DEFINE k == w - i
  <2>1. k \in 1 .. w /\ k - 1 = w - (i + 1) /\ k - 1 \in 0 .. w /\ w - k + 1 = i + 1 /\ i + 1 \in 1 .. w
    BY <1>1
  <2>2. l[i] = f[k]
    BY <1>9
  <2> HIDE DEF k
  <2>3. f[k] = Radix * f[k - 1] + u[k] /\ u[k] = v[i + 1] /\ f[k - 1] \in Nat /\ v[i + 1] \in 0 .. Radix - 1
    BY <1>0, <1>1, <1>2, <1>5, <2>1
  <2> DEFINE h == f[k]
             q == f[k - 1]
             b == v[i + 1]
  <2>5. h = Radix * q + b /\ q \in Nat /\ b \in 0 .. Radix - 1
    BY <2>3
  <2> HIDE DEF h, q, b
  <2>6. h \div Radix = q /\ h % Radix = b
    BY <1>0, <2>5, DivisionIs
  <2>4. f[k] \div Radix = f[k - 1] /\ f[k] % Radix = v[i + 1]
    BY <2>6 DEF h, q, b
  <2> QED BY <2>1, <2>2, <2>4
<1>10. ASSUME NEW i \in 0 .. w - 1, i \in T PROVE i + 1 \in T
  <2>1. i + 1 \in 1 .. w /\ (i + 1) - 1 = i /\ i + 1 \in 0 .. w
    BY <1>1
  <2> QED BY <1>7, <1>9, <1>10, <2>1
<1>11. T = 0 .. w
  <2>1. T \in SUBSET (0 .. w)
    OBVIOUS
  <2> HIDE DEF T
  <2> QED BY <1>1, <1>8, <1>10, <2>1, InductTo
<1>12. \A i \in 1 .. w : l[i - 1] % Radix = v[i]
  <2> TAKE i \in 1 .. w
  <2>1. i - 1 \in 0 .. w - 1 /\ (i - 1) + 1 = i /\ i - 1 \in T
    BY <1>1, <1>11
  <2> QED BY <1>9, <2>1
<1>13. FixedBytes(n, w) = v
  <2>1. v = [i \in 1 .. w |-> v[i]]
    BY LenProperties DEF w
  <2> QED BY <1>7, <1>12, <2>1
<1> DEFINE U == {i \in 0 .. w : f[i] < Power(Radix, i)}
<1>14. 0 \in U
  <2>1. Power(Radix, 0) = 1
    BY <1>0, PowerNext
  <2> QED BY <1>1, <1>5, <2>1
<1>15. ASSUME NEW i \in 0 .. w - 1, i \in U PROVE i + 1 \in U
  <2> DEFINE p == Power(Radix, i)
             x == f[i]
             j == i + 1
  <2>1. j \in 1 .. w /\ j - 1 = i /\ i \in Nat /\ i \in 0 .. w /\ j \in 0 .. w /\ w - j + 1 \in 1 .. w
    BY <1>1
  <2>2. f[j] = Radix * x + u[j] /\ x \in Nat /\ u[j] \in 0 .. Radix - 1
    BY <1>0, <1>1, <1>2, <1>5, <2>1
  <2>3. p \in Nat /\ Power(Radix, i + 1) = Radix * p
    BY <1>0, <2>1, PowerNext
  <2>4. x < p
    BY <1>15
  <2> HIDE DEF p, x
  <2>5. Radix * p >= Radix * x + Radix
    <3>1. p >= x + 1
      BY <2>2, <2>3, <2>4
    <3> QED BY <1>0, <2>2, <2>3, <3>1, Monotone
  <2>6. Radix * x \in Nat /\ Radix * p \in Nat
    BY <1>0, <2>2, <2>3
  <2>7. \A a, b, r, d \in Nat : b >= a + r /\ d <= r - 1 => a + d < b
    OBVIOUS
  <2>8. f[j] < Radix * p
    BY <1>0, <2>2, <2>5, <2>6, <2>7
  <2>9. f[j] < Power(Radix, j)
    BY <2>3, <2>8
  <2> QED BY <2>1, <2>9
<1>16. U = 0 .. w
  <2>1. U \in SUBSET (0 .. w)
    OBVIOUS
  <2> HIDE DEF U
  <2> QED BY <1>1, <1>14, <1>15, <2>1, InductTo
<1>17. n < Power(Radix, w)
  BY <1>1, <1>5, <1>16
<1> QED BY <1>6, <1>13, <1>17 DEF n, w

-----------------------------------------------------------------------------
(***************************************************************************)
(* Parts of sequences, and the outcomes of taking bytes.                   *)
(***************************************************************************)
\* The fields of the three outcomes of a reading, and what leaving a value in
\* the variable makes of them.
LEMMA Fields ==
  ASSUME NEW v, NEW rest, NEW w
  PROVE  /\ Got(v, rest).ok /\ ~Got(v, rest).short /\ Got(v, rest).value = v /\ Got(v, rest).rest = rest
         /\ ~Ended(v).ok /\ Ended(v).short /\ Ended(v).value = v /\ Ended(v).rest = <<>>
         /\ ~Refused(rest).ok /\ ~Refused(rest).short /\ Refused(rest).value = 0 /\ Refused(rest).rest = rest
         /\ Leaving(Got(v, rest), w) = Got(w, rest) /\ Leaving(Ended(v), w) = Ended(w)
         /\ ~Leaving(Refused(rest), w).ok /\ Leaving(Refused(rest), w).value = w /\ Leaving(Refused(rest), w).rest = rest
<1>1. /\ Got(v, rest).ok /\ ~Got(v, rest).short /\ Got(v, rest).value = v /\ Got(v, rest).rest = rest
  BY DEF Got
<1>2. /\ ~Ended(v).ok /\ Ended(v).short /\ Ended(v).value = v /\ Ended(v).rest = <<>>
  BY DEF Ended
<1>3. /\ ~Refused(rest).ok /\ ~Refused(rest).short /\ Refused(rest).value = 0 /\ Refused(rest).rest = rest
  BY DEF Refused
<1>4. \A a, b, x, y : [[ok |-> a, short |-> b, value |-> x, rest |-> y] EXCEPT !.value = w]
                        = [ok |-> a, short |-> b, value |-> w, rest |-> y]
  OBVIOUS
<1>5. Leaving(Got(v, rest), w) = Got(w, rest)
  <2>1. [[ok |-> TRUE, short |-> FALSE, value |-> v, rest |-> rest] EXCEPT !.value = w]
          = [ok |-> TRUE, short |-> FALSE, value |-> w, rest |-> rest]
    BY <1>4, Zenon
  <2> QED BY <2>1, Zenon DEF Leaving, Got
<1>6. Leaving(Ended(v), w) = Ended(w)
  <2>1. [[ok |-> FALSE, short |-> TRUE, value |-> v, rest |-> <<>>] EXCEPT !.value = w]
          = [ok |-> FALSE, short |-> TRUE, value |-> w, rest |-> <<>>]
    BY <1>4, Zenon
  <2> QED BY <2>1, Zenon DEF Leaving, Ended
<1>7. ~Leaving(Refused(rest), w).ok /\ Leaving(Refused(rest), w).value = w /\ Leaving(Refused(rest), w).rest = rest
  <2>1. [[ok |-> FALSE, short |-> FALSE, value |-> 0, rest |-> rest] EXCEPT !.value = w]
          = [ok |-> FALSE, short |-> FALSE, value |-> w, rest |-> rest]
    BY <1>4, Zenon
  <2>2. Leaving(Refused(rest), w) = [ok |-> FALSE, short |-> FALSE, value |-> w, rest |-> rest]
    BY <2>1, Zenon DEF Leaving, Refused
  <2> QED BY <2>2
<1> QED BY <1>1, <1>2, <1>3, <1>5, <1>6, <1>7

\* A part of a sequence, element by element.
LEMMA PartOf ==
  ASSUME NEW S, NEW s \in Seq(S), NEW a \in 0 .. Len(s), NEW b \in a .. Len(s)
  PROVE  /\ SubSeq(s, a + 1, b) \in Seq(S) /\ Len(SubSeq(s, a + 1, b)) = b - a
         /\ \A i \in 1 .. b - a : SubSeq(s, a + 1, b)[i] = s[a + i]
<1> DEFINE u == SubSeq(s, a + 1, b)
           n == Len(s)
<1>1. n \in Nat
  BY LenProperties
<1>2. \A i \in a + 1 .. b : s[i] \in S
  BY <1>1, ElementOfSeq
<1> HIDE DEF n
<1>3. a + 1 \in Int /\ b \in Int /\ a \in Nat /\ b \in Nat /\ a <= b
  BY <1>1 DEF n
<1>4. u \in Seq(S) /\ Len(u) = (IF a + 1 <= b THEN b - (a + 1) + 1 ELSE 0)
      /\ \A i \in 1 .. b - (a + 1) + 1 : u[i] = s[a + 1 + i - 1]
  BY <1>2, <1>3, SubSeqProperties
<1> HIDE DEF u
<1>5. Len(u) = b - a
  BY <1>3, <1>4
<1>6. ASSUME NEW i \in 1 .. b - a PROVE u[i] = s[a + i]
  <2>1. i \in 1 .. b - (a + 1) + 1 /\ a + 1 + i - 1 = a + i
    BY <1>3
  <2> QED BY <1>4, <2>1
<1> QED BY <1>4, <1>5, <1>6 DEF u

\* The front and the back of a sequence.
LEMMA Halves ==
  ASSUME NEW S, NEW s \in Seq(S), NEW n \in 0 .. Len(s)
  PROVE  LET v == SubSeq(s, 1, n)
             t == SubSeq(s, n + 1, Len(s))
         IN v \in Seq(S) /\ Len(v) = n /\ t \in Seq(S) /\ Len(t) = Len(s) - n /\ s = v \o t
<1> DEFINE v == SubSeq(s, 1, n)
           t == SubSeq(s, n + 1, Len(s))
           m == Len(s)
<1>1. m \in Nat
  BY LenProperties
<1>2. v \in Seq(S) /\ Len(v) = n /\ \A i \in 1 .. n : v[i] = s[i]
  <2>1. 0 \in 0 .. Len(s) /\ n \in 0 .. Len(s) /\ 0 + 1 = 1 /\ n - 0 = n /\ \A i \in 1 .. n : 0 + i = i
    BY <1>1
  <2>2. /\ SubSeq(s, 0 + 1, n) \in Seq(S) /\ Len(SubSeq(s, 0 + 1, n)) = n - 0
        /\ \A i \in 1 .. n - 0 : SubSeq(s, 0 + 1, n)[i] = s[0 + i]
    BY <2>1, PartOf
  <2> QED BY <2>1, <2>2
<1>3. t \in Seq(S) /\ Len(t) = m - n /\ \A i \in 1 .. m - n : t[i] = s[n + i]
  <2>1. m \in n .. Len(s)
    BY <1>1
  <2> QED BY <2>1, PartOf
<1> HIDE DEF v, t
<1>4. v \o t \in Seq(S) /\ Len(v \o t) = Len(v) + Len(t)
      /\ \A i \in 1 .. Len(v) + Len(t) : (v \o t)[i] = IF i <= Len(v) THEN v[i] ELSE t[i - Len(v)]
  BY <1>2, <1>3, ConcatProperties
<1> HIDE DEF m
<1>5. n \in Nat /\ n <= m
  BY <1>1 DEF m
<1>6. Len(v \o t) = m
  BY <1>1, <1>2, <1>3, <1>4, <1>5
<1>7. ASSUME NEW i \in 1 .. m PROVE (v \o t)[i] = s[i]
  <2>1. CASE i <= n
    BY <1>1, <1>2, <1>3, <1>4, <1>5, <2>1
  <2>2. CASE ~(i <= n)
    <3>1. i - n \in 1 .. m - n /\ n + (i - n) = i
      BY <1>1, <1>5, <2>2
    <3>2. t[i - n] = s[i]
      BY <1>3, <3>1
    <3>3. i \in 1 .. Len(v) + Len(t) /\ ~(i <= Len(v)) /\ i - Len(v) = i - n
      BY <1>1, <1>2, <1>3, <1>5, <2>2
    <3> QED BY <1>4, <3>2, <3>3
  <2> QED BY <2>1, <2>2
<1>8. v \o t = s
  BY <1>4, <1>6, <1>7, SeqEqual DEF m
<1> QED BY <1>2, <1>3, <1>8 DEF v, t, m

\* Two ways to cut a sequence at one place are one.
LEMMA SameHalves ==
  ASSUME NEW S, NEW v \in Seq(S), NEW t \in Seq(S)
  PROVE  /\ SubSeq(v \o t, 1, Len(v)) = v /\ SubSeq(v \o t, Len(v) + 1, Len(v \o t)) = t
         /\ v \o t \in Seq(S) /\ Len(v \o t) = Len(v) + Len(t) /\ Len(v) \in Nat /\ Len(t) \in Nat
<1> DEFINE s == v \o t
           n == Len(v)
           k == Len(t)
           a == SubSeq(s, 1, n)
           b == SubSeq(s, n + 1, Len(s))
<1>1. n \in Nat /\ k \in Nat
  BY LenProperties
<1>2. s \in Seq(S) /\ Len(s) = n + k /\ \A i \in 1 .. n + k : s[i] = IF i <= n THEN v[i] ELSE t[i - n]
  BY ConcatProperties
<1> HIDE DEF s, k
<1>3. a \in Seq(S) /\ Len(a) = n /\ \A i \in 1 .. n : a[i] = v[i]
  <2> HIDE DEF n
  <2>1. 0 \in 0 .. Len(s) /\ n \in 0 .. Len(s) /\ 0 + 1 = 1 /\ n - 0 = n /\ \A i \in 1 .. n : 0 + i = i
    BY <1>1, <1>2
  <2>2. /\ SubSeq(s, 0 + 1, n) \in Seq(S) /\ Len(SubSeq(s, 0 + 1, n)) = n - 0
        /\ \A i \in 1 .. n - 0 : SubSeq(s, 0 + 1, n)[i] = s[0 + i]
    BY <1>2, <2>1, PartOf
  <2>3. \A i \in 1 .. n : s[i] = v[i]
    BY <1>1, <1>2
  <2> QED BY <2>1, <2>2, <2>3
<1>4. b \in Seq(S) /\ Len(b) = k /\ \A i \in 1 .. k : b[i] = t[i]
  <2> HIDE DEF n
  <2> DEFINE m == Len(s)
  <2>1. n \in 0 .. Len(s) /\ m \in n .. Len(s) /\ m - n = k /\ m = n + k
    BY <1>1, <1>2
  <2>2. /\ SubSeq(s, n + 1, m) \in Seq(S) /\ Len(SubSeq(s, n + 1, m)) = m - n
        /\ \A i \in 1 .. m - n : SubSeq(s, n + 1, m)[i] = s[n + i]
    <3> HIDE DEF m
    <3> QED BY <1>2, <2>1, PartOf
  <2>3. ASSUME NEW i \in 1 .. k PROVE s[n + i] = t[i]
    <3>1. n + i \in 1 .. n + k /\ ~(n + i <= n) /\ (n + i) - n = i
      BY <1>1
    <3> QED BY <1>2, <3>1
  <2> QED BY <2>1, <2>2, <2>3
<1> HIDE DEF a, b
<1>5. a = v
  BY <1>3, SeqEqual
<1>6. b = t
  BY <1>4, SeqEqual DEF k
<1> QED BY <1>1, <1>2, <1>5, <1>6 DEF a, b, s, k

\* Taking what is there, whatever follows.
LEMMA TakeOf ==
  ASSUME NEW S, NEW v \in Seq(S), NEW t \in Seq(S)
  PROVE  Take(v \o t, Len(v)) = Got(v, t)
<1>1. /\ SubSeq(v \o t, 1, Len(v)) = v /\ SubSeq(v \o t, Len(v) + 1, Len(v \o t)) = t
      /\ Len(v \o t) = Len(v) + Len(t) /\ Len(v) \in Nat /\ Len(t) \in Nat
  BY SameHalves
<1>2. Len(v) <= Len(v \o t)
  BY <1>1
<1> QED BY <1>1, <1>2, Zenon DEF Take

\* What Take gives of any bytes.
TakenFrom(S, s, n) ==
  \/ ~(n <= Len(s)) /\ Take(s, n) = Ended(s)
  \/ \E v, t \in Seq(S) : s = v \o t /\ Len(v) = n /\ Take(s, n) = Got(v, t)

\* Bytes are taken, or the file ends.
LEMMA TakeFrom ==
  ASSUME NEW S, NEW s \in Seq(S), NEW n \in Nat
  PROVE  TakenFrom(S, s, n)
<1>1. Len(s) \in Nat
  BY LenProperties
<1>2. CASE n <= Len(s)
  <2> DEFINE v == SubSeq(s, 1, n)
             t == SubSeq(s, n + 1, Len(s))
  <2>1. n \in 0 .. Len(s)
    BY <1>1, <1>2
  <2>2. v \in Seq(S) /\ Len(v) = n /\ t \in Seq(S) /\ s = v \o t
    BY <2>1, Halves
  <2>3. Take(s, n) = Got(v, t)
    BY <1>2, Zenon DEF Take
  <2> HIDE DEF v, t
  <2> QED BY <2>2, <2>3 DEF TakenFrom
<1>3. CASE ~(n <= Len(s))
  BY <1>3, Zenon DEF Take, TakenFrom
<1> QED BY <1>2, <1>3

\* The same of a single byte.
LEMMA OneTaken ==
  ASSUME NEW S, NEW s \in Seq(S)
  PROVE  \/ s = <<>> /\ Take(s, 1) = Ended(s)
         \/ \E b \in S, t \in Seq(S) : s = <<b>> \o t /\ Take(s, 1) = Got(<<b>>, t)
<1>1. CASE \E v, t \in Seq(S) : s = v \o t /\ Len(v) = 1 /\ Take(s, 1) = Got(v, t)
  <2>1. PICK v \in Seq(S), t \in Seq(S) : s = v \o t /\ Len(v) = 1 /\ Take(s, 1) = Got(v, t)
    BY <1>1
  <2>2. v = <<v[1]>> /\ v[1] \in S
    <3>0. 1 \in 1 .. Len(v)
      BY <2>1
    <3>1. v[1] \in S
      BY <3>0, ElementOfSeq
    <3>2. <<v[1]>> \in Seq(S) /\ Len(<<v[1]>>) = 1 /\ <<v[1]>>[1] = v[1]
      BY <3>1
    <3> DEFINE u == <<v[1]>>
    <3> HIDE DEF u
    <3>3. u \in Seq(S) /\ Len(u) = Len(v) /\ \A i \in 1 .. Len(u) : u[i] = v[i]
      BY <2>1, <3>2 DEF u
    <3>4. u = v
      BY <3>3, SeqEqual
    <3> QED BY <3>1, <3>4 DEF u
  <2>3. s = <<v[1]>> \o t /\ Take(s, 1) = Got(<<v[1]>>, t)
    BY <2>1, <2>2
  <2> QED BY <2>2, <2>3
<1>2. CASE ~(1 <= Len(s)) /\ Take(s, 1) = Ended(s)
  <2>1. Len(s) \in Nat
    BY LenProperties
  <2>2. Len(s) = 0
    BY <1>2, <2>1
  <2>3. s = <<>>
    BY <2>2, EmptySeq
  <2> QED BY <1>2, <2>3
<1>3. TakenFrom(S, s, 1)
  <2>1. 1 \in Nat
    OBVIOUS
  <2> QED BY <2>1, TakeFrom
<1> QED BY <1>1, <1>2, <1>3, Zenon DEF TakenFrom

\* A byte that is there is taken.
LEMMA OneGiven ==
  ASSUME NEW S, NEW b \in S, NEW t \in Seq(S)
  PROVE  /\ Take(<<b>> \o t, 1) = Got(<<b>>, t) /\ <<b>> \o t \in Seq(S) /\ <<b>>[1] = b
         /\ Len(<<b>> \o t) = 1 + Len(t)
<1> DEFINE v == <<b>>
<1>1. v \in Seq(S) /\ Len(v) = 1 /\ v[1] = b
  OBVIOUS
<1> HIDE DEF v
<1>2. Take(v \o t, Len(v)) = Got(v, t)
  BY <1>1, TakeOf
<1>3. v \o t \in Seq(S) /\ Len(v \o t) = Len(v) + Len(t)
  BY <1>1, ConcatProperties
<1> QED BY <1>1, <1>2, <1>3 DEF v

-----------------------------------------------------------------------------
(***************************************************************************)
(* Sizes: the form of a size is the shortest that can hold it.             *)
(***************************************************************************)
\* The sizes that are accepted have a form: those up to MAX_SIZE.
SizesFit == Radix <= MAX_SIZE /\ MAX_SIZE < Power(Radix, 8)

\* Concatenation is associative.
LEMMA Rejoined ==
  ASSUME NEW S, NEW a \in Seq(S), NEW b \in Seq(S), NEW c \in Seq(S)
  PROVE  /\ (a \o b) \o c = a \o (b \o c) /\ a \o b \in Seq(S) /\ b \o c \in Seq(S)
         /\ Len(a \o b) = Len(a) + Len(b) /\ Len(a) \in Nat /\ Len(b) \in Nat
<1>1. (a \o b) \o c = a \o (b \o c)
  BY ConcatAssociative
<1>2. a \o b \in Seq(S) /\ b \o c \in Seq(S) /\ Len(a \o b) = Len(a) + Len(b)
  BY ConcatProperties
<1>3. Len(a) \in Nat /\ Len(b) \in Nat
  BY LenProperties
<1> QED BY <1>1, <1>2, <1>3

\* A higher power is the greater.
LEMMA PowersGrow ==
  /\ Power(Radix, 2) \in Nat /\ Power(Radix, 4) \in Nat /\ Power(Radix, 8) \in Nat
  /\ Power(Radix, 2) >= Radix /\ Power(Radix, 4) >= Power(Radix, 2) /\ Power(Radix, 8) >= Power(Radix, 4)
<1>0. Radix \in Nat /\ Radix \in Nat \ {0} /\ Radix >= 4
  BY RadixBase
<1>1. Power(Radix, 0) = 1
  BY <1>0, PowerNext
<1>2. ASSUME NEW k \in Nat PROVE Power(Radix, k) \in Nat /\ Power(Radix, k + 1) >= Power(Radix, k)
                                 /\ Power(Radix, k + 1) = Radix * Power(Radix, k)
  <2>1. Power(Radix, k) \in Nat \ {0} /\ Power(Radix, k + 1) = Radix * Power(Radix, k)
    BY <1>0, PowerNext
  <2> DEFINE p == Power(Radix, k)
             q == Power(Radix, k + 1)
  <2>2. p \in Nat /\ q = Radix * p
    BY <2>1
  <2> HIDE DEF p, q
  <2>3. q >= p
    BY <1>0, <2>2
  <2> QED BY <2>2, <2>3 DEF p, q
<1> DEFINE p == [k \in 0 .. 8 |-> Power(Radix, k)]
<1>3. \A k \in 0 .. 7 : p[k] \in Nat /\ p[k + 1] >= p[k] /\ p[k + 1] \in Nat
  <2> TAKE k \in 0 .. 7
  <2>1. k \in Nat /\ k + 1 \in Nat /\ k \in 0 .. 8 /\ k + 1 \in 0 .. 8
    OBVIOUS
  <2> QED BY <1>2, <2>1
<1>4. Power(Radix, 1) = Radix
  <2>1. 0 \in Nat /\ 0 + 1 = 1
    OBVIOUS
  <2>2. Power(Radix, 0 + 1) = Radix * Power(Radix, 0)
    BY <1>2, <2>1
  <2>3. Power(Radix, 1) = Radix * 1
    BY <1>1, <2>1, <2>2
  <2> QED BY <1>0, <2>3
<1>5. p[1] = Radix /\ p[2] = Power(Radix, 2) /\ p[4] = Power(Radix, 4) /\ p[8] = Power(Radix, 8)
  BY <1>4
<1> HIDE DEF p
<1>6. p[1 + 1] >= p[1] /\ p[2 + 1] >= p[2] /\ p[3 + 1] >= p[3] /\ p[4 + 1] >= p[4] /\ p[5 + 1] >= p[5]
      /\ p[6 + 1] >= p[6] /\ p[7 + 1] >= p[7]
  BY <1>3
<1>7. \A k \in 0 .. 8 : p[k] \in Nat
  <2> TAKE k \in 0 .. 8
  <2>1. k \in 0 .. 7 \/ (k = 7 + 1 /\ 7 \in 0 .. 7)
    OBVIOUS
  <2> QED BY <1>3, <2>1
<1>8. p[1] \in Nat /\ p[2] \in Nat /\ p[3] \in Nat /\ p[4] \in Nat /\ p[5] \in Nat /\ p[6] \in Nat /\ p[7] \in Nat /\ p[8] \in Nat
  BY <1>7
<1>9. p[2] >= p[1] /\ p[4] >= p[2] /\ p[8] >= p[4]
  BY <1>6, <1>8
<1> QED BY <1>5, <1>8, <1>9

\* The form of a size is the shortest that can hold it.
LEMMA MarkerIs ==
  ASSUME NEW n \in Nat, ~(n < Short), n < Power(Radix, 8)
  PROVE  /\ Marker(n) \in Byte /\ ~(Marker(n) < Short) /\ Width(Marker(n)) \in Nat \ {0}
         /\ n < Power(Radix, Width(Marker(n))) /\ n >= Least(Marker(n))
<1>0. Short \in Nat /\ Radix \in Nat /\ Byte = 0 .. Radix - 1 /\ Short = Radix - 3
  BY RadixBase DEF Short
<1>1. CASE n < Power(Radix, 2)
  <2>1. Marker(n) = Short /\ Width(Short) = 2 /\ Least(Short) = Short
    BY <1>1 DEF Marker, Width, Least
  <2> QED BY <1>0, <1>1, <2>1
<1>2. CASE ~(n < Power(Radix, 2)) /\ n < Power(Radix, 4)
  <2>1. Marker(n) = Short + 1
    BY <1>2, Zenon DEF Marker
  <2>2. Short + 1 # Short
    BY <1>0
  <2>3. Width(Short + 1) = 4
    BY <2>2, Zenon DEF Width
  <2>4. 4 \div 2 = 2
    OBVIOUS
  <2>5. Least(Short + 1) = Power(Radix, 2)
    BY <2>2, <2>3, <2>4, Zenon DEF Least
  <2> QED BY <1>0, <1>2, <2>1, <2>3, <2>5, PowersGrow
<1>3. CASE ~(n < Power(Radix, 2)) /\ ~(n < Power(Radix, 4))
  <2>1. Marker(n) = Short + 2
    BY <1>3, Zenon DEF Marker
  <2>2. Short + 2 # Short /\ Short + 2 # Short + 1
    BY <1>0
  <2>3. Width(Short + 2) = 8
    BY <2>2, Zenon DEF Width
  <2>4. 8 \div 2 = 4
    OBVIOUS
  <2>5. Least(Short + 2) = Power(Radix, 4)
    BY <2>2, <2>3, <2>4, Zenon DEF Least
  <2> QED BY <1>0, <1>3, <2>1, <2>3, <2>5, PowersGrow
<1> QED BY <1>1, <1>2, <1>3

\* What a marker announces, for each of the three.
LEMMA MarkerOf ==
  ASSUME NEW b \in Byte, ~(b < Short), NEW n \in Nat, n >= Least(b), n < Power(Radix, Width(b))
  PROVE  Marker(n) = b /\ ~(n < Short) /\ n < Power(Radix, 8)
<1>0. Short \in Nat /\ Radix \in Nat /\ Byte = 0 .. Radix - 1 /\ Short = Radix - 3
  BY RadixBase DEF Short
<1>1. b = Short \/ b = Short + 1 \/ b = Short + 2
  BY <1>0
<1>2. CASE b = Short
  <2>1. Width(b) = 2 /\ Least(b) = Short
    BY <1>2 DEF Width, Least
  <2>2. n < Power(Radix, 2)
    BY <2>1
  <2>3. Marker(n) = Short
    BY <2>2, Zenon DEF Marker
  <2> QED BY <1>0, <1>2, <2>1, <2>2, <2>3, PowersGrow
<1>3. CASE b = Short + 1
  <2>1. b # Short
    BY <1>0, <1>3
  <2>2. Width(b) = 4
    BY <1>3, <2>1, Zenon DEF Width
  <2>3. 4 \div 2 = 2
    OBVIOUS
  <2>4. Least(b) = Power(Radix, 2)
    BY <2>1, <2>2, <2>3, Zenon DEF Least
  <2>5. ~(n < Power(Radix, 2)) /\ n < Power(Radix, 4)
    BY <2>2, <2>4, PowersGrow
  <2>6. Marker(n) = Short + 1
    BY <2>5, Zenon DEF Marker
  <2> QED BY <1>0, <1>3, <2>5, <2>6, PowersGrow
<1>4. CASE b = Short + 2
  <2>1. b # Short /\ b # Short + 1
    BY <1>0, <1>4
  <2>2. Width(b) = 8
    BY <1>4, <2>1, Zenon DEF Width
  <2>3. 8 \div 2 = 4
    OBVIOUS
  <2>4. Least(b) = Power(Radix, 4)
    BY <2>1, <2>2, <2>3, Zenon DEF Least
  <2>5. ~(n < Power(Radix, 2)) /\ ~(n < Power(Radix, 4)) /\ n < Power(Radix, 8)
    BY <2>2, <2>4, PowersGrow
  <2>6. Marker(n) = Short + 2
    BY <2>5, Zenon DEF Marker
  <2> QED BY <1>0, <1>4, <2>5, <2>6, PowersGrow
<1> QED BY <1>1, <1>2, <1>3, <1>4

\* A size is written in one to nine bytes.
LEMMA SizeWritten ==
  ASSUME NEW n \in Nat, n < Power(Radix, 8)
  PROVE  /\ WriteCompactSize(n) \in Seq(Byte) /\ Len(WriteCompactSize(n)) = GetSizeOfCompactSize(n)
         /\ GetSizeOfCompactSize(n) \in Nat \ {0}
<1>0. Byte = 0 .. Radix - 1 /\ Short = Radix - 3 /\ Radix \in Nat
  BY RadixBase DEF Short
<1>1. CASE n < Short
  <2>1. n \in Byte
    BY <1>0, <1>1
  <2>2. WriteCompactSize(n) = <<n>> /\ GetSizeOfCompactSize(n) = 1
    BY <1>1, Zenon DEF WriteCompactSize, GetSizeOfCompactSize
  <2> QED BY <2>1, <2>2
<1>2. CASE ~(n < Short)
  <2> DEFINE m == Marker(n)
             w == Width(m)
             b == FixedBytes(n, w)
  <2>1. m \in Byte /\ w \in Nat \ {0} /\ n < Power(Radix, w)
    BY <1>2, MarkerIs
  <2>2. WriteCompactSize(n) = <<m>> \o b /\ GetSizeOfCompactSize(n) = 1 + w
    BY <1>2, Zenon DEF WriteCompactSize, GetSizeOfCompactSize
  <2>3. b \in Seq(Byte) /\ Len(b) = w
    <3> HIDE DEF w
    <3> QED BY <2>1, FixedWritten
  <2> HIDE DEF b, w, m
  <2>4. <<m>> \o b \in Seq(Byte) /\ Len(<<m>> \o b) = 1 + Len(b)
    BY <2>1, <2>3, OneGiven
  <2> QED BY <2>1, <2>2, <2>3, <2>4
<1> QED BY <1>1, <1>2

\* What is written is read, whatever follows it.
LEMMA SizeReadBack ==
  ASSUME SizesFit, NEW n \in 0 .. MAX_SIZE, NEW rest \in Seq(Byte)
  PROVE  ReadCompactSize(WriteCompactSize(n) \o rest) = Got(n, rest)
<1>0. Byte = 0 .. Radix - 1 /\ Short = Radix - 3 /\ Radix \in Nat
  BY RadixBase DEF Short
<1>1. n \in Nat /\ n < Power(Radix, 8) /\ n <= MAX_SIZE
  BY EncodingAssumption, PowersGrow DEF SizesFit
<1>2. ASSUME NEW b \in Byte, NEW t \in Seq(Byte)
      PROVE  ReadCompactSize(<<b>> \o t) = AfterMarker(b, t)
  <2>1. Take(<<b>> \o t, 1) = Got(<<b>>, t) /\ <<b>>[1] = b
    BY OneGiven
  <2>2. Got(<<b>>, t).ok /\ Got(<<b>>, t).value = <<b>> /\ Got(<<b>>, t).rest = t
    BY Fields
  <2> QED BY <2>1, <2>2, Zenon DEF ReadCompactSize
<1>3. CASE n < Short
  <2>1. n \in Byte
    BY <1>0, <1>1, <1>3
  <2>2. WriteCompactSize(n) = <<n>>
    BY <1>3, Zenon DEF WriteCompactSize
  <2>3. AfterMarker(n, rest) = Got(n, rest)
    BY <1>3, Zenon DEF AfterMarker
  <2>4. ReadCompactSize(<<n>> \o rest) = AfterMarker(n, rest)
    BY <1>2, <2>1
  <2> QED BY <2>2, <2>3, <2>4
<1>4. CASE ~(n < Short)
  <2> DEFINE m == Marker(n)
             w == Width(m)
             b == FixedBytes(n, w)
  <2>1. m \in Byte /\ w \in Nat \ {0} /\ n < Power(Radix, w) /\ n >= Least(m) /\ ~(m < Short)
    BY <1>1, <1>4, MarkerIs
  <2>2. WriteCompactSize(n) = <<m>> \o b
    BY <1>4, Zenon DEF WriteCompactSize
  <2>3. b \in Seq(Byte) /\ Len(b) = w /\ ValueOf(b) = n
    <3> HIDE DEF w
    <3> QED BY <1>1, <2>1, FixedWritten
  <2>4. Take(b \o rest, Width(m)) = Got(b, rest)
    <3> HIDE DEF b, m
    <3>1. Take(b \o rest, Len(b)) = Got(b, rest)
      BY <2>3, TakeOf
    <3> QED BY <2>3, <3>1
  <2> HIDE DEF b, w, m
  <2>5. <<m>> \in Seq(Byte)
    BY <2>1
  <2>6. (<<m>> \o b) \o rest = <<m>> \o (b \o rest) /\ b \o rest \in Seq(Byte)
    BY <2>3, <2>5, Rejoined
  <2>7. Got(b, rest).ok /\ Got(b, rest).value = b /\ Got(b, rest).rest = rest
    BY Fields
  <2>8. AfterMarker(m, b \o rest) = LongSize(m, n, rest)
    BY <2>1, <2>3, <2>4, <2>7, Zenon DEF AfterMarker
  <2>9. LongSize(m, n, rest) = Got(n, rest)
    BY <1>1, <2>1, Zenon DEF LongSize
  <2>10. ReadCompactSize(<<m>> \o (b \o rest)) = AfterMarker(m, b \o rest)
    BY <1>2, <2>1, <2>6
  <2> QED BY <2>2, <2>6, <2>8, <2>9, <2>10
<1> QED BY <1>3, <1>4

\* What is read as a size is what the size is written as.
SizeRead(s, r) ==
  \/ r = Ended(0)
  \/ \E rest \in Seq(Byte) : r = Refused(rest)
  \/ \E n \in 0 .. MAX_SIZE, rest \in Seq(Byte) : r = Got(n, rest) /\ s = WriteCompactSize(n) \o rest

\* Any bytes are a size that is accepted, in its only form, or they are
\* refused.
LEMMA SizeIsRead ==
  ASSUME SizesFit, NEW s \in Seq(Byte)
  PROVE  SizeRead(s, ReadCompactSize(s))
<1>0. Byte = 0 .. Radix - 1 /\ Short = Radix - 3 /\ Radix \in Nat /\ Short \in Nat
  BY RadixBase DEF Short
<1>1. CASE s = <<>> /\ Take(s, 1) = Ended(s)
  <2>1. ~Ended(s).ok
    BY Fields
  <2>2. ReadCompactSize(s) = Ended(0)
    BY <1>1, <2>1, Zenon DEF ReadCompactSize
  <2> QED BY <2>2 DEF SizeRead
<1>2. CASE \E b \in Byte, t \in Seq(Byte) : s = <<b>> \o t /\ Take(s, 1) = Got(<<b>>, t)
  <2>1. PICK b \in Byte, t \in Seq(Byte) : s = <<b>> \o t /\ Take(s, 1) = Got(<<b>>, t)
    BY <1>2
  <2>2. Got(<<b>>, t).ok /\ Got(<<b>>, t).value = <<b>> /\ Got(<<b>>, t).rest = t
    BY Fields
  <2>3. <<b>>[1] = b /\ <<b>> \in Seq(Byte)
    OBVIOUS
  <2>4. ReadCompactSize(s) = AfterMarker(b, t)
    BY <2>1, <2>2, <2>3, Zenon DEF ReadCompactSize
  <2>5. CASE b < Short
    <3>1. AfterMarker(b, t) = Got(b, t)
      BY <2>5, Zenon DEF AfterMarker
    <3>2. WriteCompactSize(b) = <<b>>
      BY <2>5, Zenon DEF WriteCompactSize
    <3>3. b \in 0 .. MAX_SIZE
      BY <1>0, EncodingAssumption DEF SizesFit
    <3> QED BY <2>1, <2>4, <3>1, <3>2, <3>3 DEF SizeRead
  <2>6. CASE ~(b < Short)
    <3> DEFINE w == Width(b)
    <3>1. w \in Nat
      BY DEF Width
    <3>2. TakenFrom(Byte, t, w)
      <4> HIDE DEF w
      <4> QED BY <3>1, TakeFrom
    <3>3. CASE Take(t, w) = Ended(t)
      <4>1. ~Ended(t).ok
        BY Fields
      <4>2. AfterMarker(b, t) = Ended(0)
        BY <2>6, <3>3, <4>1, Zenon DEF AfterMarker
      <4> QED BY <2>4, <4>2 DEF SizeRead
    <3>4. CASE \E v, u \in Seq(Byte) : t = v \o u /\ Len(v) = w /\ Take(t, w) = Got(v, u)
      <4>1. PICK v \in Seq(Byte), u \in Seq(Byte) : t = v \o u /\ Len(v) = w /\ Take(t, w) = Got(v, u)
        BY <3>4, Zenon
      <4>2. Got(v, u).ok /\ Got(v, u).value = v /\ Got(v, u).rest = u
        BY DEF Got
      <4> DEFINE n == ValueOf(v)
      <4>3. AfterMarker(b, t) = LongSize(b, n, u)
        BY <2>6, <4>1, <4>2, Zenon DEF AfterMarker
      <4>4. n \in Nat /\ n < Power(Radix, Len(v)) /\ FixedBytes(n, Len(v)) = v
        BY <4>1, FixedRead
      <4> HIDE DEF n
      <4>5. CASE n >= Least(b) /\ n <= MAX_SIZE
        <5>1. LongSize(b, n, u) = Got(n, u)
          BY <4>5, Zenon DEF LongSize
        <5>2. n < Power(Radix, Width(b)) /\ FixedBytes(n, Width(b)) = v
          BY <4>1, <4>4
        <5>3. Marker(n) = b /\ ~(n < Short)
          BY <2>6, <4>4, <4>5, <5>2, MarkerOf
        <5>4. WriteCompactSize(n) = <<b>> \o v
          BY <5>2, <5>3, Zenon DEF WriteCompactSize
        <5>5. (<<b>> \o v) \o u = <<b>> \o (v \o u)
          BY <2>3, <4>1, Rejoined
        <5>6. n \in 0 .. MAX_SIZE
          BY <4>4, <4>5, EncodingAssumption
        <5>7. s = WriteCompactSize(n) \o u
          BY <2>1, <4>1, <5>4, <5>5
        <5>8. ReadCompactSize(s) = Got(n, u)
          BY <2>4, <4>3, <5>1
        <5> QED BY <4>1, <5>6, <5>7, <5>8 DEF SizeRead
      <4>6. CASE ~(n >= Least(b) /\ n <= MAX_SIZE)
        <5>1. LongSize(b, n, u) = Refused(u)
          BY <4>6, Zenon DEF LongSize
        <5> QED BY <2>4, <4>1, <4>3, <5>1 DEF SizeRead
      <4> QED BY <4>5, <4>6
    <3> QED BY <3>2, <3>3, <3>4, Zenon DEF TakenFrom
  <2> QED BY <2>5, <2>6
<1> QED BY <1>1, <1>2, OneTaken, Zenon

(***************************************************************************)
(* A VARINT is read back: its digits, from the last one on, are those of the*)
(* number, and the size announced is the size written.                     *)
(***************************************************************************)
LEMMA TopBitIs == Radix \in Nat /\ TopBit \in Nat /\ TopBit >= 2 /\ Radix = 2 * TopBit
<1>1. Digit \in Nat /\ Digit >= 2 /\ Digit % 2 = 0
  BY BigNumAssumption
<1>2. PICK h \in Nat : Digit = 2 * h
  BY <1>1
<1>3. Radix = 2 * (h * Digit) /\ h * Digit \in Nat
  BY <1>1, <1>2 DEF Radix
<1>4. h * Digit >= 2
  <2>1. h >= 1 /\ (h - 1) * Digit >= 0
    BY <1>1, <1>2
  <2>2. (h - 1) * Digit = h * Digit - Digit
    BY <1>1, <1>2
  <2> QED BY <1>1, <2>1, <2>2
<1> DEFINE x == h * Digit
<1>5. (2 * x) \div 2 = x
  <2> HIDE DEF x
  <2> QED BY <1>3 DEF x
<1> QED BY <1>3, <1>4, <1>5 DEF TopBit

\* The digits of a VARINT before the last, as WriteVarInt makes them.
Before(n) ==
  LET before[m \in 0 .. n] ==
        IF m < TopBit THEN <<>> ELSE before[Higher(m)] \o <<TopBit + (Higher(m) % TopBit)>>
  IN before

\* What is above the last digit is less.
LEMMA HigherIs ==
  ASSUME NEW m \in Nat, m >= TopBit
  PROVE  /\ Higher(m) \in Nat /\ Higher(m) < m /\ Higher(m) + 1 = m \div TopBit
         /\ Higher(m) % TopBit \in 0 .. TopBit - 1
<1>1. TopBit \in Nat \ {0} /\ TopBit >= 2
  BY TopBitIs
<1> DEFINE d == m \div TopBit
           r == m % TopBit
<1>2. m = TopBit * d + r /\ r \in 0 .. TopBit - 1 /\ d \in Nat
  BY <1>1, Division
<1> HIDE DEF d, r
<1>3. d >= 1
  <2>1. d = 0 => TopBit * d = 0
    BY <1>1
  <2> QED BY <1>1, <1>2, <2>1
<1>4. d - 1 < m
  <2>1. (TopBit - 1) * d >= 0 /\ (TopBit - 1) * d = TopBit * d - d
    BY <1>1, <1>2
  <2>2. TopBit * d \in Nat
    BY <1>1, <1>2
  <2> QED BY <1>2, <2>1, <2>2
<1>5. Higher(m) = d - 1 /\ d - 1 \in Nat
  BY <1>2, <1>3 DEF Higher, d
<1>6. (d - 1) % TopBit \in 0 .. TopBit - 1
  BY <1>1, <1>2, <1>3
<1>7. (d - 1) + 1 = d
  BY <1>2
<1>8. Higher(m) + 1 = m \div TopBit
  BY <1>5, <1>7 DEF d
<1> QED BY <1>4, <1>5, <1>6, <1>8

\* The recursion of Before.
LEMMA BeforeIs ==
  ASSUME NEW n \in Nat
  PROVE  /\ Before(n) \in [0 .. n -> Seq(Nat)]
         /\ \A m \in 0 .. n :
              Before(n)[m] = IF m < TopBit THEN <<>>
                             ELSE Before(n)[Higher(m)] \o <<TopBit + (Higher(m) % TopBit)>>
<1> DEFINE Step(g, m) == IF m < TopBit THEN <<>> ELSE g[Higher(m)] \o <<TopBit + (Higher(m) % TopBit)>>
           Def(g) == g = [m \in 0 .. n |-> Step(g, m)]
           g == CHOOSE g : Def(g)
           S == Seq(Nat)
           P == {m \in 0 .. n : m >= TopBit}
           base == [m \in 0 .. n |-> <<>>]
           prev == [m \in 0 .. n |-> IF m >= TopBit THEN Higher(m) ELSE 0]
           F == [m \in 0 .. n |-> [v \in S |-> IF m >= TopBit THEN v \o <<TopBit + (Higher(m) % TopBit)>> ELSE v]]
<1>0. TopBit \in Nat
  BY TopBitIs
<1>1. base \in [0 .. n -> S] /\ prev \in [0 .. n -> Nat] /\ \A m \in 0 .. n : m \in P => prev[m] < m
  BY <1>0, HigherIs
<1>2. F \in [0 .. n -> [S -> S]]
  <2>1. ASSUME NEW m \in 0 .. n, NEW v \in S
        PROVE  (IF m >= TopBit THEN v \o <<TopBit + (Higher(m) % TopBit)>> ELSE v) \in S
    <3>1. CASE m >= TopBit
      <4>1. TopBit + (Higher(m) % TopBit) \in Nat
        BY <1>0, <3>1, HigherIs
      <4> QED BY <3>1, <4>1
    <3>2. CASE ~(m >= TopBit)
      BY <3>2
    <3> QED BY <3>1, <3>2
  <2> QED BY <2>1
<1>3. PICK f : Jumps(f, n, S, P, base, prev, F)
  <2> HIDE DEF S, P, base, prev, F
  <2> QED BY <1>1, <1>2, JumpByJump
<1>4. f \in [0 .. n -> S] /\ \A m \in 0 .. n : f[m] = Step(f, m)
  <2>1. f \in [0 .. n -> S] /\ \A m \in 0 .. n : f[m] = IF m \in P THEN F[m][f[prev[m]]] ELSE base[m]
    BY <1>3 DEF Jumps
  <2>2. ASSUME NEW m \in 0 .. n PROVE f[m] = Step(f, m)
    <3>1. CASE m >= TopBit
      <4>1. prev[m] = Higher(m) /\ prev[m] \in 0 .. n /\ m \in P
        BY <1>0, <1>1, <3>1, HigherIs
      <4>2. f[prev[m]] \in S
        <5> HIDE DEF prev, S, P, F, base
        <5> QED BY <2>1, <4>1
      <4>3. \A v \in S : F[m][v] = v \o <<TopBit + (Higher(m) % TopBit)>>
        BY <3>1
      <4>4. f[m] = F[m][f[prev[m]]]
        <5> HIDE DEF prev, S, P, F, base
        <5> QED BY <2>1, <4>1
      <4>5. ~(m < TopBit)
        BY <1>0, <3>1
      <4> HIDE DEF prev, S, P, F, base
      <4> QED BY <4>1, <4>2, <4>3, <4>4, <4>5
    <3>2. CASE m < TopBit
      <4>1. m \notin P /\ base[m] = <<>>
        BY <1>0, <3>2
      <4> HIDE DEF prev, S, P, F, base
      <4> QED BY <2>1, <3>2, <4>1
    <3> QED BY <1>0, <3>1, <3>2
  <2> QED BY <2>1, <2>2
<1>5. Def(f)
  <2> HIDE DEF Step, S
  <2> QED BY <1>4
<1>6. Def(g)
  <2> HIDE DEF Def
  <2> QED BY <1>5, Zenon DEF g
<1>7. Before(n) = g
  BY Zenon DEF Before
<1> HIDE DEF g
<1>8. \A m \in 0 .. n : g[m] = Step(g, m)
  <2> HIDE DEF Step
  <2> QED BY <1>6
<1> DEFINE T == {m \in 0 .. n : g[m] \in S}
<1>9. ASSUME NEW k \in 0 .. n, \A j \in 0 .. k - 1 : j \in T PROVE k \in T
  <2>0. g[k] = Step(g, k)
    <3> HIDE DEF Step
    <3> QED BY <1>8
  <2>1. CASE k < TopBit
    <3>1. g[k] = <<>> /\ <<>> \in Seq(Nat)
      BY <2>0, <2>1
    <3> QED BY <3>1
  <2>2. CASE k >= TopBit
    <3>1. Higher(k) \in 0 .. k - 1 /\ TopBit + (Higher(k) % TopBit) \in Nat
      BY <1>0, <2>2, HigherIs
    <3>2. g[Higher(k)] \in S
      BY <1>9, <3>1
    <3>3. g[k] = g[Higher(k)] \o <<TopBit + (Higher(k) % TopBit)>>
      BY <1>0, <2>0, <2>2
    <3>4. g[k] \in S
      <4> DEFINE u == g[Higher(k)]
                 b == TopBit + (Higher(k) % TopBit)
      <4>1. u \in Seq(Nat) /\ b \in Nat
        BY <3>1, <3>2
      <4> HIDE DEF u, b
      <4>2. u \o <<b>> \in Seq(Nat)
        BY <4>1
      <4> QED BY <3>3, <4>2 DEF u, b
    <3> QED BY <3>4
  <2> QED BY <1>0, <2>1, <2>2
<1>10. T = 0 .. n
  <2>1. T \in SUBSET (0 .. n)
    OBVIOUS
  <2> HIDE DEF T
  <2> QED BY <1>9, <2>1, StrongInductTo
<1>11. g \in [0 .. n -> S]
  <2> HIDE DEF Step, S
  <2> QED BY <1>6, <1>10
<1> QED BY <1>7, <1>8, <1>11

\* The numbers the first digits of s stand for.
Digits(s) ==
  LET n[i \in 0 .. Len(s)] == IF i = 0 THEN 0 ELSE WithDigit(n[i - 1], s[i]) IN n

\* A digit more makes a number of a number.
LEMMA WithDigitType ==
  ASSUME NEW n \in Nat, NEW b \in Nat
  PROVE  WithDigit(n, b) \in Nat
<1>1. TopBit \in Nat \ {0} /\ VarIntModulus \in Nat \ {0}
  BY TopBitIs, EncodingAssumption
<1> DEFINE x == n * TopBit + (b % TopBit) + (IF b < TopBit THEN 0 ELSE 1)
<1>2. x \in Nat
  <2>1. n * TopBit \in Nat /\ b % TopBit \in Nat
    BY <1>1
  <2> QED BY <2>1
<1>3. x % VarIntModulus \in Nat
  <2> HIDE DEF x
  <2> QED BY <1>1, <1>2
<1> QED BY <1>3 DEF WithDigit

\* The recursion of VarIntOf.
LEMMA DigitsAre ==
  ASSUME NEW s \in Seq(Nat)
  PROVE  /\ Digits(s) \in [0 .. Len(s) -> Nat]
         /\ Digits(s)[0] = 0
         /\ \A i \in 1 .. Len(s) : Digits(s)[i] = WithDigit(Digits(s)[i - 1], s[i])
<1> DEFINE n == Len(s)
           Step(g, i) == IF i = 0 THEN 0 ELSE WithDigit(g[i - 1], s[i])
           Def(g) == g = [i \in 0 .. n |-> Step(g, i)]
           g == CHOOSE g : Def(g)
           F == [i \in 1 .. n |-> [v \in Nat |-> WithDigit(v, s[i])]]
<1>1. n \in Nat /\ F \in [1 .. n -> [Nat -> Nat]]
  <2>1. ASSUME NEW i \in 1 .. n, NEW v \in Nat PROVE WithDigit(v, s[i]) \in Nat
    <3> DEFINE b == s[i]
    <3>1. b \in Nat
      OBVIOUS
    <3> HIDE DEF b
    <3>2. WithDigit(v, b) \in Nat
      BY <3>1, WithDigitType
    <3> QED BY <3>2 DEF b
  <2>2. n \in Nat
    OBVIOUS
  <2> HIDE DEF n
  <2>3. F \in [1 .. n -> [Nat -> Nat]]
    BY <2>1
  <2> QED BY <2>2, <2>3
<1>2. PICK f : Steps(f, n, Nat, 0, F)
  <2> HIDE DEF F, n
  <2> QED BY <1>1, StepByStep
<1>3. f \in [0 .. n -> Nat] /\ f[0] = 0 /\ \A i \in 1 .. n : f[i] = F[i][f[i - 1]]
  BY <1>2 DEF Steps
<1>4. \A i \in 1 .. n, v \in Nat : F[i][v] = WithDigit(v, s[i])
  OBVIOUS
<1>5. ASSUME NEW i \in 0 .. n PROVE f[i] = Step(f, i)
  <2>1. CASE i = 0
    BY <1>3, <2>1
  <2>2. CASE i # 0
    <3>1. i \in 1 .. n /\ i - 1 \in 0 .. n
      BY <1>1, <2>2
    <3> HIDE DEF F, n
    <3> QED BY <1>3, <1>4, <2>2, <3>1
  <2> QED BY <2>1, <2>2
<1>6. Def(f)
  <2> HIDE DEF Step, n
  <2> QED BY <1>3, <1>5
<1>7. Def(g)
  <2> HIDE DEF Def
  <2> QED BY <1>6, Zenon DEF g
<1>8. Digits(s) = g
  BY Zenon DEF Digits
<1> HIDE DEF g
<1>9. \A i \in 0 .. n : g[i] = Step(g, i)
  <2> HIDE DEF Step, n
  <2> QED BY <1>7
<1>10. g[0] = 0 /\ \A i \in 1 .. n : g[i] = WithDigit(g[i - 1], s[i])
  <2> HIDE DEF n
  <2> QED BY <1>1, <1>9
<1> DEFINE T == {i \in 0 .. n : g[i] \in Nat}
<1>11. T = 0 .. n
  <2>1. 0 \in T
    BY <1>1, <1>10
  <2>2. ASSUME NEW i \in 0 .. n - 1, i \in T PROVE i + 1 \in T
    <3>1. i + 1 \in 1 .. n /\ g[i] \in Nat /\ (i + 1) - 1 = i /\ s[i + 1] \in Nat
      BY <2>2
    <3>2. g[i + 1] = WithDigit(g[i], s[i + 1])
      BY <1>10, <3>1
    <3>3. WithDigit(g[i], s[i + 1]) \in Nat
      <4> HIDE DEF n
      <4> QED BY <3>1, WithDigitType
    <3>4. g[i + 1] \in Nat /\ i + 1 \in 0 .. n
      BY <2>2, <3>2, <3>3
    <3> QED BY <3>4
  <2>3. T \in SUBSET (0 .. n)
    OBVIOUS
  <2> HIDE DEF T, n
  <2> QED BY <1>1, <2>1, <2>2, <2>3, InductTo
<1>12. g \in [0 .. n -> Nat]
  <2> HIDE DEF Step, n
  <2> QED BY <1>7, <1>11
<1> QED BY <1>8, <1>10, <1>12

\* A number of the type.
LEMMA VarIntIs ==
  ASSUME NEW s \in Seq(Nat)
  PROVE  VarIntOf(s) = Digits(s)[Len(s)] /\ VarIntOf(s) \in Nat
<1>1. VarIntOf(s) = Digits(s)[Len(s)]
  BY Zenon DEF VarIntOf, Digits
<1> QED BY <1>1, DigitsAre

\* One digit more.
LEMMA VarIntNext ==
  ASSUME NEW s \in Seq(Nat), NEW b \in Nat
  PROVE  VarIntOf(s \o <<b>>) = WithDigit(VarIntOf(s), b)
<1> DEFINE t == s \o <<b>>
           f == Digits(s)
           g == Digits(t)
           n == Len(s)
           T == {i \in 0 .. n : f[i] = g[i]}
<1>1. n \in Nat /\ t \in Seq(Nat) /\ Len(t) = n + 1 /\ t[n + 1] = b /\ \A i \in 1 .. n : t[i] = s[i]
  OBVIOUS
<1> HIDE DEF t
<1>2. /\ f[0] = 0 /\ \A i \in 1 .. n : f[i] = WithDigit(f[i - 1], s[i])
      /\ g[0] = 0 /\ \A i \in 1 .. n + 1 : g[i] = WithDigit(g[i - 1], t[i])
  BY <1>1, DigitsAre
<1> HIDE DEF f, g
<1>3. T = 0 .. n
  <2>1. 0 \in T
    BY <1>1, <1>2
  <2>2. ASSUME NEW i \in 0 .. n - 1, i \in T PROVE i + 1 \in T
    <3>1. i + 1 \in 1 .. n /\ i + 1 \in 1 .. n + 1 /\ (i + 1) - 1 = i /\ f[i] = g[i]
      BY <1>1, <2>2
    <3>2. f[i + 1] = WithDigit(f[i], s[i + 1]) /\ g[i + 1] = WithDigit(g[i], s[i + 1])
      <4> HIDE DEF n
      <4> QED BY <1>1, <1>2, <3>1
    <3> QED BY <3>1, <3>2
  <2>3. T \in SUBSET (0 .. n)
    OBVIOUS
  <2> HIDE DEF T, n
  <2> QED BY <1>1, <2>1, <2>2, <2>3, InductTo
<1>4. g[n + 1] = WithDigit(g[n], b) /\ f[n] = g[n]
  <2>1. n \in T
    <3> HIDE DEF T, n
    <3> QED BY <1>1, <1>3
  <2>2. n + 1 \in 1 .. n + 1 /\ (n + 1) - 1 = n
    BY <1>1
  <2> HIDE DEF n
  <2> QED BY <1>1, <1>2, <2>1, <2>2
<1>5. VarIntOf(t) = g[n + 1] /\ VarIntOf(s) = f[n]
  BY <1>1, VarIntIs DEF f, g
<1> QED BY <1>4, <1>5 DEF t

\* No digits are nothing.
LEMMA VarIntEmpty == VarIntOf(<<>>) = 0
<1>1. <<>> \in Seq(Nat) /\ Len(<<>>) = 0
  OBVIOUS
<1> QED BY <1>1, VarIntIs, DigitsAre

\* Only the remainder of what is above a digit matters.
LEMMA Reduced ==
  ASSUME NEW i \in Nat \ {0}, NEW n \in 0 .. i - 1
  PROVE  n % i = n /\ n \div i = 0
<1>1. n = i * 0 + n
  OBVIOUS
<1> QED BY <1>1, DivisionIs

\* What two digits more than those of a number give.
LEMMA DigitBack ==
  ASSUME NEW m \in 0 .. VarIntModulus - 1
  PROVE  WithDigit(m \div TopBit, m % TopBit) = m
<1>1. TopBit \in Nat \ {0} /\ VarIntModulus \in Nat /\ m \in Nat
  BY TopBitIs, EncodingAssumption
<1> DEFINE d == m \div TopBit
           r == m % TopBit
<1>2. m = TopBit * d + r /\ r \in 0 .. TopBit - 1 /\ d \in Nat
  BY <1>1, Division
<1> HIDE DEF d, r
<1>3. r % TopBit = r /\ r < TopBit
  BY <1>1, <1>2, Reduced
<1>4. d * TopBit + r = m
  BY <1>1, <1>2
<1>5. m % VarIntModulus = m
  BY <1>1, Reduced
<1>6. WithDigit(d, r) = (d * TopBit + (r % TopBit) + 0) % VarIntModulus
  BY <1>3 DEF WithDigit
<1>7. d * TopBit + (r % TopBit) + 0 = m
  <2>1. d * TopBit \in Nat /\ r \in Nat
    BY <1>1, <1>2
  <2> QED BY <1>3, <1>4, <2>1
<1>8. WithDigit(d, r) = m
  BY <1>5, <1>6, <1>7
<1> QED BY <1>8 DEF d, r

\* What is above the last digit, and the digit, make the number.
LEMMA HigherBack ==
  ASSUME NEW m \in 0 .. VarIntModulus - 1, m >= TopBit
  PROVE  WithDigit(Higher(m) \div TopBit, TopBit + (Higher(m) % TopBit)) = m \div TopBit
<1>1. TopBit \in Nat \ {0} /\ VarIntModulus \in Nat /\ m \in Nat
  BY TopBitIs, EncodingAssumption
<1> DEFINE h == Higher(m)
           d == h \div TopBit
           r == h % TopBit
<1>2. h \in Nat /\ h < m /\ h + 1 = m \div TopBit
  BY <1>1, HigherIs
<1>3. h = TopBit * d + r /\ r \in 0 .. TopBit - 1 /\ d \in Nat
  <2> HIDE DEF h
  <2> QED BY <1>1, <1>2, Division
<1> HIDE DEF d, r, h
<1>4. (TopBit + r) % TopBit = r /\ ~(TopBit + r < TopBit)
  <2>1. TopBit + r = TopBit * 1 + r
    BY <1>1, <1>3
  <2>2. (TopBit * 1 + r) % TopBit = r
    BY <1>1, <1>3, DivisionIs
  <2>3. ~(TopBit + r < TopBit)
    BY <1>1, <1>3
  <2> QED BY <2>1, <2>2, <2>3
<1>5. d * TopBit + r + 1 = h + 1
  BY <1>1, <1>3
<1>6. (h + 1) % VarIntModulus = h + 1
  BY <1>1, <1>2, Reduced
<1>7. WithDigit(d, TopBit + r) = (d * TopBit + ((TopBit + r) % TopBit) + 1) % VarIntModulus
  BY <1>4 DEF WithDigit
<1>8. WithDigit(d, TopBit + r) = h + 1
  BY <1>4, <1>5, <1>6, <1>7
<1> QED BY <1>2, <1>8 DEF d, r, h

\* The digits before the last say that another follows, and stand for what is
\* above the last.
IsBefore(d, m) == (\A i \in 1 .. Len(d) : d[i] >= TopBit) /\ VarIntOf(d) = m \div TopBit

\* Every digit before the last says so, and together they stand for what is
\* above it.
LEMMA BeforeStands ==
  ASSUME NEW n \in 0 .. VarIntModulus - 1
  PROVE  \A m \in 0 .. n : IsBefore(Before(n)[m], m)
<1> DEFINE g == Before(n)
           T == {m \in 0 .. n : IsBefore(g[m], m)}
<1>0. TopBit \in Nat \ {0} /\ VarIntModulus \in Nat /\ n \in Nat
  BY TopBitIs, EncodingAssumption
<1>1. /\ g \in [0 .. n -> Seq(Nat)]
      /\ \A m \in 0 .. n : g[m] = IF m < TopBit THEN <<>> ELSE g[Higher(m)] \o <<TopBit + (Higher(m) % TopBit)>>
  BY <1>0, BeforeIs
<1> HIDE DEF g
<1>2. ASSUME NEW k \in 0 .. n, \A j \in 0 .. k - 1 : j \in T PROVE k \in T
  <2>0. k \in Nat /\ k \in 0 .. VarIntModulus - 1
    BY <1>0
  <2>1. CASE k < TopBit
    <3>1. g[k] = <<>> /\ Len(<<>>) = 0
      BY <1>1, <2>1
    <3>2. k \div TopBit = 0
      BY <1>0, <2>1, Reduced
    <3>3. IsBefore(<<>>, k)
      BY <3>1, <3>2, VarIntEmpty DEF IsBefore
    <3> QED BY <3>1, <3>3
  <2>2. CASE k >= TopBit
    <3> DEFINE h == Higher(k)
               b == TopBit + (h % TopBit)
               d == g[h]
    <3>1. h \in 0 .. k - 1 /\ h \in 0 .. n /\ b \in Nat /\ b >= TopBit
      BY <1>0, <2>0, <2>2, HigherIs
    <3>2. d \in Seq(Nat) /\ IsBefore(d, h)
      BY <1>1, <1>2, <3>1
    <3>3. g[k] = d \o <<b>>
      BY <1>0, <1>1, <2>2
    <3>4. WithDigit(h \div TopBit, b) = k \div TopBit
      BY <2>0, <2>2, HigherBack
    <3> HIDE DEF h, b, d
    <3>5. VarIntOf(d \o <<b>>) = k \div TopBit
      <4>1. VarIntOf(d \o <<b>>) = WithDigit(VarIntOf(d), b)
        BY <3>1, <3>2, VarIntNext
      <4> QED BY <3>2, <3>4, <4>1 DEF IsBefore
    <3>6. \A i \in 1 .. Len(d \o <<b>>) : (d \o <<b>>)[i] >= TopBit
      <4>1. \A i \in 1 .. Len(d) : d[i] >= TopBit
        BY <3>2 DEF IsBefore
      <4>2. Len(d \o <<b>>) = Len(d) + 1 /\ Len(d) \in Nat /\ (d \o <<b>>)[Len(d) + 1] = b
        BY <3>1, <3>2
      <4>3. \A i \in 1 .. Len(d) : (d \o <<b>>)[i] = d[i]
        BY <3>1, <3>2
      <4> QED BY <3>1, <4>1, <4>2, <4>3
    <3>7. IsBefore(d \o <<b>>, k)
      BY <3>5, <3>6 DEF IsBefore
    <3> QED BY <3>3, <3>7
  <2> QED BY <1>0, <2>0, <2>1, <2>2
<1>3. T = 0 .. n
  <2>1. T \in SUBSET (0 .. n)
    OBVIOUS
  <2> HIDE DEF T
  <2> QED BY <1>0, <1>2, <2>1, StrongInductTo
<1> QED BY <1>3 DEF g

\* What WriteVarInt writes: digits with the top bit, one without, that stand for n.
LEMMA VarIntWritten ==
  ASSUME NEW n \in 0 .. VarIntModulus - 1
  PROVE  /\ WriteVarInt(n) \in Seq(Nat) /\ Len(WriteVarInt(n)) >= 1
         /\ \A i \in 1 .. Len(WriteVarInt(n)) - 1 : WriteVarInt(n)[i] >= TopBit
         /\ WriteVarInt(n)[Len(WriteVarInt(n))] < TopBit
         /\ VarIntOf(WriteVarInt(n)) = n
<1> DEFINE d == Before(n)[n]
           b == n % TopBit
           w == d \o <<b>>
<1>0. TopBit \in Nat \ {0} /\ VarIntModulus \in Nat /\ n \in Nat /\ n \in 0 .. n
  BY TopBitIs, EncodingAssumption
<1>1. d \in Seq(Nat) /\ IsBefore(d, n)
  BY <1>0, BeforeIs, BeforeStands
<1>2. WriteVarInt(n) = w
  <2>1. WriteVarInt(n) = Append(d, b)
    BY Zenon DEF WriteVarInt, Before
  <2>2. b \in Nat
    BY <1>0
  <2> HIDE DEF d, b
  <2> QED BY <1>1, <2>1, <2>2
<1>3. b \in Nat /\ b < TopBit
  BY <1>0
<1>4. WithDigit(n \div TopBit, b) = n
  BY DigitBack
<1> HIDE DEF d, b
<1>5. w \in Seq(Nat) /\ Len(w) = Len(d) + 1 /\ Len(d) \in Nat /\ w[Len(d) + 1] = b
  BY <1>1, <1>3
<1>6. \A i \in 1 .. Len(d) : w[i] = d[i]
  BY <1>1, <1>3
<1>7. VarIntOf(w) = n
  <2>1. VarIntOf(w) = WithDigit(VarIntOf(d), b)
    BY <1>1, <1>3, VarIntNext
  <2> QED BY <1>1, <1>4, <2>1 DEF IsBefore
<1>8. \A i \in 1 .. Len(d) : d[i] >= TopBit
  BY <1>1 DEF IsBefore
<1> HIDE DEF w
<1>9. Len(w) - 1 = Len(d)
  BY <1>5
<1> QED BY <1>2, <1>3, <1>5, <1>6, <1>7, <1>8, <1>9

\* Reading finds the last digit, and no byte after it matters.
LEMMA VarIntFound ==
  ASSUME NEW w \in Seq(Nat), Len(w) >= 1, \A i \in 1 .. Len(w) - 1 : w[i] >= TopBit, w[Len(w)] < TopBit,
         NEW rest \in Seq(Nat), NEW old
  PROVE  ReadVarInt(w \o rest, old) = Got(VarIntOf(w), rest)
<1> DEFINE s == w \o rest
           k == CHOOSE i \in LastDigits(s) : \A j \in LastDigits(s) : i <= j
           n == Len(w)
<1>1. s \in Seq(Nat) /\ Len(s) = n + Len(rest) /\ n \in Nat /\ Len(rest) \in Nat /\ n \in 1 .. n /\ DOMAIN s = 1 .. Len(s)
  OBVIOUS
<1>2. (\A i \in 1 .. n : s[i] = w[i]) /\ \A i \in 1 .. Len(rest) : s[n + i] = rest[i]
  OBVIOUS
<1> HIDE DEF s
<1>3. TopBit \in Nat
  BY TopBitIs
<1>4. n \in LastDigits(s) /\ \A j \in LastDigits(s) : n <= j
  <2>1. n \in DOMAIN s /\ s[n] < TopBit
    <3>1. s[n] = w[n] /\ w[n] < TopBit
      BY <1>1, <1>2
    <3> HIDE DEF n
    <3> QED BY <1>1, <3>1
  <2>2. ASSUME NEW j \in LastDigits(s), j < n PROVE FALSE
    <3>1. j \in 1 .. n - 1 /\ j \in 1 .. n /\ s[j] < TopBit
      BY <1>1, <2>2 DEF LastDigits
    <3>2. w[j] >= TopBit /\ w[j] \in Nat
      BY <3>1
    <3>3. w[j] < TopBit
      BY <1>2, <3>1
    <3> HIDE DEF n
    <3> QED BY <1>3, <3>2, <3>3
  <2>3. \A j \in LastDigits(s) : j \in Nat
    BY <1>1 DEF LastDigits
  <2> HIDE DEF n
  <2> QED BY <1>1, <2>1, <2>2, <2>3 DEF LastDigits
<1>5. k = n
  <2>1. k \in LastDigits(s) /\ \A j \in LastDigits(s) : k <= j
    <3> HIDE DEF n
    <3> QED BY <1>4
  <2>2. k <= n /\ n <= k /\ k \in Nat
    <3>1. k \in Nat
      <4> HIDE DEF k
      <4> QED BY <1>1, <2>1 DEF LastDigits
    <3> HIDE DEF k, n
    <3> QED BY <1>4, <2>1, <3>1
  <2> HIDE DEF k
  <2> QED BY <1>1, <2>2
<1>6. SubSeq(s, 1, n) = w /\ SubSeq(s, n + 1, Len(s)) = rest
  BY DEF s
<1>7. ReadVarInt(s, old) = Got(VarIntOf(SubSeq(s, 1, k)), SubSeq(s, k + 1, Len(s)))
  <2>1. LastDigits(s) # {}
    BY <1>4
  <2> QED BY <2>1 DEF ReadVarInt
<1> HIDE DEF k
<1> QED BY <1>5, <1>6, <1>7 DEF s

\* A VARINT is read back as what was written, and no more than that is taken.
LEMMA VarIntReadBack ==
  ASSUME NEW n \in 0 .. VarIntModulus - 1, NEW rest \in Seq(Nat), NEW old
  PROVE  ReadVarInt(WriteVarInt(n) \o rest, old) = Got(n, rest)
<1> DEFINE w == WriteVarInt(n)
<1>1. /\ w \in Seq(Nat) /\ Len(w) >= 1 /\ w[Len(w)] < TopBit /\ VarIntOf(w) = n
      /\ \A i \in 1 .. Len(w) - 1 : w[i] >= TopBit
  BY VarIntWritten
<1> HIDE DEF w
<1>2. ReadVarInt(w \o rest, old) = Got(VarIntOf(w), rest)
  BY <1>1, VarIntFound
<1> QED BY <1>1, <1>2 DEF w

\* The size announced is the number of digits.
LEMMA VarIntSize ==
  ASSUME NEW n \in Nat
  PROVE  GetSizeOfVarInt(n) = Len(WriteVarInt(n))
<1> DEFINE Step(g, m) == IF m < TopBit THEN 1 ELSE 1 + g[Higher(m)]
           Def(g) == g = [m \in 0 .. n |-> Step(g, m)]
           g == CHOOSE g : Def(g)
           w == Before(n)
           f == [m \in 0 .. n |-> Len(w[m]) + 1]
<1>0. TopBit \in Nat /\ n \in 0 .. n
  BY TopBitIs
<1>1. /\ w \in [0 .. n -> Seq(Nat)]
      /\ \A m \in 0 .. n : w[m] = IF m < TopBit THEN <<>> ELSE w[Higher(m)] \o <<TopBit + (Higher(m) % TopBit)>>
  BY BeforeIs
<1> HIDE DEF w
<1>2. ASSUME NEW m \in 0 .. n PROVE f[m] = Step(f, m)
  <2>1. CASE m < TopBit
    <3>1. w[m] = <<>> /\ Len(<<>>) = 0
      BY <1>1, <2>1
    <3> QED BY <2>1, <3>1
  <2>2. CASE m >= TopBit
    <3> DEFINE h == Higher(m)
               b == TopBit + (h % TopBit)
    <3>1. h \in 0 .. n /\ b \in Nat
      BY <1>0, <2>2, HigherIs
    <3>2. w[m] = w[h] \o <<b>>
      BY <1>0, <1>1, <2>2
    <3> HIDE DEF h, b
    <3>3. w[h] \in Seq(Nat) /\ Len(w[h]) \in Nat /\ Len(w[h] \o <<b>>) = Len(w[h]) + 1
      BY <1>1, <3>1
    <3>4. f[m] = Len(w[h]) + 1 + 1 /\ f[h] = Len(w[h]) + 1
      BY <3>1, <3>2, <3>3
    <3>5. Step(f, m) = 1 + f[h]
      BY <1>0, <2>2 DEF h
    <3> HIDE DEF f, Step
    <3> QED BY <3>3, <3>4, <3>5
  <2> QED BY <1>0, <2>1, <2>2
<1>3. Def(f)
  <2> HIDE DEF Step
  <2>1. f = [m \in 0 .. n |-> f[m]]
    OBVIOUS
  <2> HIDE DEF f
  <2> QED BY <1>2, <2>1
<1>4. Def(g)
  <2> HIDE DEF Def
  <2> QED BY <1>3, Zenon DEF g
<1>5. GetSizeOfVarInt(n) = g[n]
  BY Zenon DEF GetSizeOfVarInt
<1> HIDE DEF g
<1>6. \A m \in 0 .. n : g[m] = Step(g, m)
  <2> HIDE DEF Step
  <2> QED BY <1>4
<1> DEFINE T == {m \in 0 .. n : g[m] = f[m]}
<1>7. ASSUME NEW k \in 0 .. n, \A j \in 0 .. k - 1 : j \in T PROVE k \in T
  <2>0. g[k] = Step(g, k) /\ f[k] = Step(f, k)
    <3> HIDE DEF Step, f
    <3> QED BY <1>2, <1>6
  <2> HIDE DEF f
  <2>1. CASE k < TopBit
    BY <2>0, <2>1
  <2>2. CASE k >= TopBit
    <3>1. Higher(k) \in 0 .. k - 1
      BY <1>0, <2>2, HigherIs
    <3>2. g[Higher(k)] = f[Higher(k)]
      BY <1>7, <3>1
    <3>3. Step(g, k) = Step(f, k)
      BY <3>2
    <3> QED BY <2>0, <3>3
  <2> QED BY <1>0, <2>1, <2>2
<1>8. T = 0 .. n
  <2>1. T \in SUBSET (0 .. n)
    OBVIOUS
  <2> HIDE DEF T
  <2> QED BY <1>7, <2>1, StrongInductTo
<1>9. g[n] = Len(w[n]) + 1
  <2>1. g[n] = f[n]
    <3>1. n \in T
      <4> HIDE DEF T
      <4> QED BY <1>0, <1>8
    <3> QED BY <3>1
  <2> QED BY <1>0, <2>1
<1>10. WriteVarInt(n) = Append(w[n], n % TopBit)
  BY Zenon DEF WriteVarInt, Before, w
<1>11. w[n] \in Seq(Nat) /\ n % TopBit \in Nat
  BY <1>0, <1>1, TopBitIs
<1> DEFINE d == w[n]
           b == n % TopBit
<1> HIDE DEF d, b
<1>12. Len(Append(d, b)) = Len(d) + 1
  BY <1>11 DEF d
<1> QED BY <1>5, <1>9, <1>10, <1>12 DEF d, b

-----------------------------------------------------------------------------
(***************************************************************************)
(* Every integer has one VARINT, as long as no more digits are read than   *)
(* the type can need.                                                      *)
(***************************************************************************)
\* The digits before the last do not depend on how far they are made.
LEMMA BeforeSame ==
  ASSUME NEW n \in Nat, NEW m \in 0 .. n
  PROVE  Before(n)[m] = Before(m)[m]
<1> DEFINE f == Before(n)
           g == Before(m)
           T == {i \in 0 .. m : f[i] = g[i]}
<1>0. TopBit \in Nat /\ m \in Nat
  BY TopBitIs
<1>1. \A i \in 0 .. n : f[i] = IF i < TopBit THEN <<>> ELSE f[Higher(i)] \o <<TopBit + (Higher(i) % TopBit)>>
  BY BeforeIs
<1>2. \A i \in 0 .. m : g[i] = IF i < TopBit THEN <<>> ELSE g[Higher(i)] \o <<TopBit + (Higher(i) % TopBit)>>
  BY <1>0, BeforeIs
<1> HIDE DEF f, g
<1>3. ASSUME NEW i \in 0 .. m, \A j \in 0 .. i - 1 : j \in T PROVE i \in T
  <2>1. i \in 0 .. n
    OBVIOUS
  <2>2. CASE i < TopBit
    BY <1>1, <1>2, <2>1, <2>2
  <2>3. CASE ~(i < TopBit)
    <3> DEFINE h == Higher(i)
    <3>1. h \in Nat /\ h < i
      BY <1>0, <2>3, HigherIs
    <3> HIDE DEF h
    <3>2. h \in 0 .. i - 1
      BY <3>1
    <3>3. f[h] = g[h]
      BY <1>3, <3>2
    <3>4. f[i] = f[h] \o <<TopBit + (h % TopBit)>> /\ g[i] = g[h] \o <<TopBit + (h % TopBit)>>
      BY <1>1, <1>2, <2>1, <2>3, Zenon DEF h
    <3> QED BY <3>3, <3>4
  <2> QED BY <2>2, <2>3
<1>4. T = 0 .. m
  <2>1. T \in SUBSET (0 .. m)
    OBVIOUS
  <2> HIDE DEF T
  <2> QED BY <1>0, <1>3, <2>1, StrongInductTo
<1>5. m \in T
  <2> HIDE DEF T
  <2> QED BY <1>0, <1>4
<1> QED BY <1>5 DEF f, g

\* The digits before the last of a number.
Leading(m) == Before(m)[m]

\* The recursion of Leading.
LEMMA LeadingIs ==
  ASSUME NEW m \in Nat
  PROVE  /\ Leading(m) = IF m < TopBit THEN <<>> ELSE Leading(Higher(m)) \o <<TopBit + (Higher(m) % TopBit)>>
         /\ WriteVarInt(m) = Append(Leading(m), m % TopBit)
<1>0. TopBit \in Nat
  BY TopBitIs
<1>1. m \in 0 .. m
  OBVIOUS
<1>2. Before(m)[m] = IF m < TopBit THEN <<>> ELSE Before(m)[Higher(m)] \o <<TopBit + (Higher(m) % TopBit)>>
  BY <1>1, BeforeIs
<1>3. ASSUME ~(m < TopBit) PROVE Before(m)[Higher(m)] = Leading(Higher(m))
  <2> DEFINE h == Higher(m)
  <2>1. h \in Nat /\ h < m
    BY <1>0, <1>3, HigherIs
  <2> HIDE DEF h
  <2>2. h \in 0 .. m
    BY <2>1
  <2>3. Before(m)[h] = Before(h)[h]
    BY <2>2, BeforeSame
  <2> QED BY <2>3 DEF h, Leading
<1>4. Leading(m) = IF m < TopBit THEN <<>> ELSE Leading(Higher(m)) \o <<TopBit + (Higher(m) % TopBit)>>
  BY <1>2, <1>3, Zenon DEF Leading
<1>5. WriteVarInt(m) = Append(Leading(m), m % TopBit)
  BY Zenon DEF WriteVarInt, Leading, Before
<1> QED BY <1>4, <1>5

\* Leading digits are bytes.
LEMMA LeadingBytes ==
  ASSUME NEW n \in Nat
  PROVE  /\ Leading(n) \in Seq(Byte)
         /\ \A a \in 0 .. n : Len(Leading(a)) <= Len(Leading(n))
<1>0. TopBit \in Nat /\ TopBit >= 2 /\ Radix = 2 * TopBit /\ Byte = 0 .. Radix - 1 /\ TopBit \in Nat \ {0}
  BY TopBitIs, RadixBase
<1> DEFINE Good(m) == Leading(m) \in Seq(Byte) /\ \A a \in 0 .. m : Len(Leading(a)) <= Len(Leading(m))
           T == {m \in 0 .. n : Good(m)}
<1>1. ASSUME NEW m \in 0 .. n, \A j \in 0 .. m - 1 : j \in T PROVE m \in T
  <2>0. m \in Nat
    OBVIOUS
  <2>1. CASE m < TopBit
    <3>1. Leading(m) = <<>>
      BY <2>0, <2>1, LeadingIs
    <3>2. \A a \in 0 .. m : Leading(a) = <<>>
      <4> TAKE a \in 0 .. m
      <4>1. a \in Nat /\ a < TopBit
        BY <1>0, <2>1
      <4> QED BY <4>1, LeadingIs
    <3> QED BY <3>1, <3>2
  <2>2. CASE ~(m < TopBit)
    <3> DEFINE h == Higher(m)
               b == TopBit + (h % TopBit)
    <3>1. h \in Nat /\ h < m /\ h + 1 = m \div TopBit /\ h % TopBit \in 0 .. TopBit - 1
      <4>1. m >= TopBit
        BY <1>0, <2>0, <2>2
      <4> QED BY <2>0, <4>1, HigherIs
    <3>2. Leading(m) = Leading(h) \o <<b>>
      BY <2>0, <2>2, LeadingIs, Zenon
    <3>3. b \in Byte
      BY <1>0, <3>1
    <3> HIDE DEF h, b
    <3>4. h \in 0 .. m - 1
      BY <3>1
    <3>5. Good(h)
      BY <1>1, <3>4
    <3>6. <<b>> \in Seq(Byte) /\ Len(<<b>>) = 1
      BY <3>3
    <3>7. Leading(m) \in Seq(Byte) /\ Len(Leading(m)) = Len(Leading(h)) + 1 /\ Len(Leading(h)) \in Nat
      BY <3>2, <3>5, <3>6, Rejoined
    <3>8. ASSUME NEW a \in 0 .. m PROVE Len(Leading(a)) <= Len(Leading(m))
      <4>0. a \in Nat
        OBVIOUS
      <4>1. CASE a < TopBit
        <5>1. Leading(a) = <<>>
          BY <4>0, <4>1, LeadingIs
        <5> QED BY <3>7, <5>1
      <4>2. CASE ~(a < TopBit)
        <5> DEFINE k == Higher(a)
                   c == TopBit + (k % TopBit)
        <5>1. k \in Nat /\ k < a /\ k + 1 = a \div TopBit /\ k % TopBit \in 0 .. TopBit - 1
          <6>1. a >= TopBit
            BY <1>0, <4>0, <4>2
          <6> QED BY <4>0, <6>1, HigherIs
        <5>2. Leading(a) = Leading(k) \o <<c>>
          BY <4>0, <4>2, LeadingIs, Zenon
        <5>3. c \in Byte
          BY <1>0, <5>1
        <5>4. k <= h
          <6> DEFINE p == a \div TopBit
                     q == m \div TopBit
          <6>1. a = TopBit * p + (a % TopBit) /\ a % TopBit \in 0 .. TopBit - 1 /\ p \in Nat
            BY <1>0, <4>0, Division
          <6>2. m = TopBit * q + (m % TopBit) /\ m % TopBit \in 0 .. TopBit - 1 /\ q \in Nat
            BY <1>0, <2>0, Division
          <6>3. k + 1 = p /\ h + 1 = q
            BY <3>1, <5>1
          <6> HIDE DEF p, q, k
          <6>4. ~(p > q)
            <7> SUFFICES ASSUME p > q PROVE FALSE
              OBVIOUS
            <7>1. TopBit * p >= TopBit * q + TopBit
              BY <1>0, <6>1, <6>2, Monotone
            <7>2. TopBit * p \in Nat /\ TopBit * q \in Nat
              BY <1>0, <6>1, <6>2
            <7> QED BY <1>0, <6>1, <6>2, <7>1, <7>2
          <6> QED BY <3>1, <5>1, <6>1, <6>2, <6>3, <6>4 DEF k
        <5> HIDE DEF k, c
        <5>5. k \in 0 .. h /\ k \in 0 .. m - 1
          BY <3>1, <5>1, <5>4
        <5>6. Len(Leading(k)) <= Len(Leading(h))
          BY <3>5, <5>5
        <5>7. Leading(k) \in Seq(Byte)
          BY <1>1, <5>5
        <5>8. <<c>> \in Seq(Byte) /\ Len(<<c>>) = 1
          BY <5>3
        <5>9. Len(Leading(a)) = Len(Leading(k)) + 1 /\ Len(Leading(k)) \in Nat
          BY <5>2, <5>7, <5>8, Rejoined
        <5> QED BY <3>7, <5>6, <5>9
      <4> QED BY <4>1, <4>2
    <3>9. Good(m)
      BY <3>7, <3>8
    <3> QED BY <3>9
  <2> QED BY <2>1, <2>2
<1>2. T = 0 .. n
  <2>1. T \in SUBSET (0 .. n)
    OBVIOUS
  <2> HIDE DEF T
  <2> QED BY <1>1, <2>1, StrongInductTo
<1>3. n \in T
  <2> HIDE DEF T
  <2> QED BY <1>2
<1> QED BY <1>3

\* A VARINT is written in bytes, as many as are announced.
LEMMA VarIntBytes ==
  ASSUME NEW n \in Nat
  PROVE  /\ WriteVarInt(n) \in Seq(Byte) /\ Len(WriteVarInt(n)) = Len(Leading(n)) + 1
         /\ Len(Leading(n)) \in Nat /\ WriteVarInt(n) = Leading(n) \o <<n % TopBit>>
         /\ \A a \in 0 .. n : GetSizeOfVarInt(a) <= GetSizeOfVarInt(n)
<1>0. TopBit \in Nat \ {0} /\ Radix = 2 * TopBit /\ Byte = 0 .. Radix - 1
  BY TopBitIs, RadixBase
<1> DEFINE d == n % TopBit
<1>1. d \in Byte
  <2>1. d \in 0 .. TopBit - 1
    BY <1>0, Division
  <2> HIDE DEF d
  <2> QED BY <1>0, <2>1
<1>2. Leading(n) \in Seq(Byte)
  BY LeadingBytes
<1>3. WriteVarInt(n) = Append(Leading(n), d)
  BY LeadingIs
<1> HIDE DEF d
<1>4. Append(Leading(n), d) = Leading(n) \o <<d>> /\ <<d>> \in Seq(Byte) /\ Len(<<d>>) = 1
  BY <1>1, <1>2, AppendIsConcat
<1>5. Leading(n) \o <<d>> \in Seq(Byte) /\ Len(Leading(n) \o <<d>>) = Len(Leading(n)) + 1 /\ Len(Leading(n)) \in Nat
  BY <1>2, <1>4, Rejoined
<1>6. ASSUME NEW a \in 0 .. n PROVE GetSizeOfVarInt(a) <= GetSizeOfVarInt(n)
  <2>1. a \in Nat
    OBVIOUS
  <2>2. GetSizeOfVarInt(a) = Len(Leading(a)) + 1
    <3> DEFINE e == a % TopBit
    <3>1. e \in Byte
      <4>1. e \in 0 .. TopBit - 1
        BY <1>0, <2>1, Division
      <4> HIDE DEF e
      <4> QED BY <1>0, <4>1
    <3>2. Leading(a) \in Seq(Byte)
      BY <2>1, LeadingBytes
    <3>3. WriteVarInt(a) = Append(Leading(a), e)
      BY <2>1, LeadingIs
    <3> HIDE DEF e
    <3>4. Len(Append(Leading(a), e)) = Len(Leading(a)) + 1
      BY <3>1, <3>2
    <3> QED BY <2>1, <3>3, <3>4, VarIntSize
  <2>3. GetSizeOfVarInt(n) = Len(Leading(n)) + 1
    BY <1>3, <1>4, <1>5, VarIntSize
  <2>4. Len(Leading(a)) <= Len(Leading(n)) /\ Len(Leading(a)) \in Nat
    BY <2>1, LeadingBytes, LenProperties
  <2> QED BY <1>5, <2>2, <2>3, <2>4
<1> QED BY <1>3, <1>4, <1>5, <1>6 DEF d

\* A part at the front, and one element more.
LEMMA FrontGrows ==
  ASSUME NEW S, NEW s \in Seq(S), NEW i \in 0 .. Len(s) - 1
  PROVE  /\ SubSeq(s, 1, i) \o <<s[i + 1]>> = SubSeq(s, 1, i + 1)
         /\ SubSeq(s, 1, i) \in Seq(S) /\ Len(SubSeq(s, 1, i)) = i /\ SubSeq(s, 1, 0) = <<>> /\ SubSeq(s, 1, Len(s)) = s
<1> DEFINE n == Len(s)
           a == SubSeq(s, 1, i)
           b == SubSeq(s, 1, i + 1)
           x == s[i + 1]
<1>1. n \in Nat
  BY LenProperties
<1>2. ASSUME NEW k \in 0 .. n
      PROVE  SubSeq(s, 1, k) \in Seq(S) /\ Len(SubSeq(s, 1, k)) = k /\ \A j \in 1 .. k : SubSeq(s, 1, k)[j] = s[j]
  <2>1. 0 \in 0 .. Len(s) /\ k \in 0 .. Len(s) /\ 0 + 1 = 1 /\ k - 0 = k /\ \A j \in 1 .. k : 0 + j = j
    BY <1>1
  <2>2. /\ SubSeq(s, 0 + 1, k) \in Seq(S) /\ Len(SubSeq(s, 0 + 1, k)) = k - 0
        /\ \A j \in 1 .. k - 0 : SubSeq(s, 0 + 1, k)[j] = s[0 + j]
    BY <2>1, PartOf
  <2> QED BY <2>1, <2>2
<1>3. i \in 0 .. n /\ i + 1 \in 0 .. n /\ i + 1 \in 1 .. n /\ i \in Nat /\ 0 \in 0 .. n /\ n \in 0 .. n
  BY <1>1
<1>4. a \in Seq(S) /\ Len(a) = i /\ \A j \in 1 .. i : a[j] = s[j]
  BY <1>2, <1>3
<1>5. b \in Seq(S) /\ Len(b) = i + 1 /\ \A j \in 1 .. i + 1 : b[j] = s[j]
  BY <1>2, <1>3
<1>6. x \in S
  BY <1>3, ElementOfSeq
<1>7. SubSeq(s, 1, 0) = <<>>
  <2>1. SubSeq(s, 1, 0) \in Seq(S) /\ Len(SubSeq(s, 1, 0)) = 0
    BY <1>2, <1>3
  <2> QED BY <2>1, EmptySeq
<1>8. SubSeq(s, 1, n) = s
  <2> DEFINE c == SubSeq(s, 1, n)
  <2>1. c \in Seq(S) /\ Len(c) = Len(s) /\ \A j \in 1 .. Len(s) : c[j] = s[j]
    BY <1>2, <1>3
  <2> HIDE DEF c
  <2>2. c = s
    BY <2>1, SeqEqual
  <2> QED BY <2>2 DEF c
<1> HIDE DEF a, b, n
<1>9. x = s[i + 1]
  OBVIOUS
<1> HIDE DEF x
<1>10. <<x>> \in Seq(S) /\ Len(<<x>>) = 1 /\ <<x>>[1] = x
  BY <1>6
<1>11. a \o <<x>> \in Seq(S) /\ Len(a \o <<x>>) = i + 1
       /\ \A j \in 1 .. i + 1 : (a \o <<x>>)[j] = IF j <= i THEN a[j] ELSE <<x>>[j - i]
  BY <1>4, <1>10, ConcatProperties
<1>12. ASSUME NEW j \in 1 .. i + 1 PROVE (a \o <<x>>)[j] = b[j]
  <2>1. CASE j <= i
    <3>1. j \in 1 .. i
      BY <1>3, <2>1
    <3>2. a[j] = s[j] /\ b[j] = s[j]
      BY <1>4, <1>5, <3>1
    <3>3. (a \o <<x>>)[j] = a[j]
      BY <1>11, <2>1
    <3> QED BY <3>2, <3>3
  <2>2. CASE ~(j <= i)
    <3>1. j = i + 1 /\ j - i = 1
      BY <1>3, <2>2
    <3>2. b[j] = x
      BY <1>5, <1>9, <3>1
    <3>3. (a \o <<x>>)[j] = <<x>>[j - i]
      BY <1>11, <2>2
    <3> QED BY <1>10, <3>1, <3>2, <3>3
  <2> QED BY <2>1, <2>2
<1>13. a \o <<x>> = b
  BY <1>5, <1>11, <1>12, SeqEqual
<1> QED BY <1>4, <1>7, <1>8, <1>13 DEF a, b, n, x

\* A number and a digit below it, taken apart again.
LEMMA UpAndDigit ==
  ASSUME NEW i \in Nat \ {0}, NEW x \in Nat, NEW d \in 0 .. i - 1, NEW z, z = i * x + d
  PROVE  z \in Nat /\ z \div i = x /\ z % i = d
<1>1. z \in Nat
  OBVIOUS
<1>2. z \div i = x /\ z % i = d
  BY DivisionIs
<1> QED BY <1>1, <1>2

\* What stands for a number: digits that say that others follow, and one that does not.
IsVarInt(w) ==
  w \in Seq(Byte) /\ Len(w) >= 1 /\ (\A i \in 1 .. Len(w) - 1 : w[i] >= TopBit) /\ w[Len(w)] < TopBit

VarIntRead(s, old, r) ==
  \/ r = Ended(old)
  \/ \E w, rest \in Seq(Byte) : IsVarInt(w) /\ s = w \o rest /\ r = Got(VarIntOf(w), rest)

\* Bytes are numbers.
LEMMA ByteSeqs == \A s \in Seq(Byte) : s \in Seq(Nat)
<1>1. \A b \in Byte : b \in Nat
  BY RadixBase
<1> TAKE s \in Seq(Byte)
<1>2. Len(s) \in Nat /\ s \in [1 .. Len(s) -> Byte]
  BY LenProperties
<1>3. s \in [1 .. Len(s) -> Nat]
  BY <1>1, <1>2
<1> QED BY <1>2, <1>3, RowIsSeq

\* Any bytes begin with a VARINT, or the file ends before its last digit.
LEMMA VarIntIsRead ==
  ASSUME NEW s \in Seq(Byte), NEW old
  PROVE  VarIntRead(s, old, ReadVarInt(s, old))
<1>0. Len(s) \in Nat /\ DOMAIN s = 1 .. Len(s) /\ (\A i \in 1 .. Len(s) : s[i] \in Byte) /\ Byte = 0 .. Radix - 1
      /\ TopBit \in Nat /\ Radix \in Nat
  BY LenProperties, ElementOfSeq, RadixBase, TopBitIs
<1>1. CASE LastDigits(s) = {}
  <2>1. ReadVarInt(s, old) = Ended(old)
    BY <1>1, Zenon DEF ReadVarInt
  <2> QED BY <2>1 DEF VarIntRead
<1>2. CASE LastDigits(s) # {}
  <2>1. LastDigits(s) \in SUBSET Nat /\ \A i \in LastDigits(s) : i \in 1 .. Len(s) /\ s[i] < TopBit
    BY <1>0 DEF LastDigits
  <2>2. PICK k \in LastDigits(s) : \A j \in LastDigits(s) : k <= j
    BY <1>2, <2>1, LeastOf
  <2>3. k \in 1 .. Len(s) /\ s[k] < TopBit /\ k \in 0 .. Len(s)
    BY <1>0, <2>1
  <2>4. ASSUME NEW i \in 1 .. k - 1 PROVE s[i] >= TopBit
    <3>1. i \in DOMAIN s /\ ~(k <= i) /\ s[i] \in Byte
      BY <1>0, <2>3
    <3>2. i \notin LastDigits(s)
      BY <2>2, <3>1
    <3>3. ~(s[i] < TopBit)
      BY <3>1, <3>2 DEF LastDigits
    <3> QED BY <1>0, <3>1, <3>3
  <2> DEFINE w == SubSeq(s, 1, k)
             t == SubSeq(s, k + 1, Len(s))
  <2>5. w \in Seq(Byte) /\ Len(w) = k /\ t \in Seq(Byte) /\ s = w \o t
    BY <2>3, Halves
  <2>6. \A j \in 1 .. k : w[j] = s[j]
    <3>1. 0 \in 0 .. Len(s) /\ k \in 0 .. Len(s) /\ 0 + 1 = 1 /\ k - 0 = k /\ \A j \in 1 .. k : 0 + j = j
      BY <1>0, <2>3
    <3>2. \A j \in 1 .. k - 0 : SubSeq(s, 0 + 1, k)[j] = s[0 + j]
      BY <3>1, PartOf
    <3> QED BY <3>1, <3>2
  <2> HIDE DEF w, t
  <2>7. IsVarInt(w)
    <3>1. \A i \in 1 .. Len(w) - 1 : w[i] >= TopBit
      BY <1>0, <2>3, <2>4, <2>5, <2>6
    <3>2. w[Len(w)] < TopBit
      BY <2>3, <2>5, <2>6
    <3> QED BY <2>3, <2>5, <3>1, <3>2 DEF IsVarInt
  <2>8. w \in Seq(Nat) /\ t \in Seq(Nat)
    BY <2>5, ByteSeqs
  <2>9. ReadVarInt(w \o t, old) = Got(VarIntOf(w), t)
    BY <2>7, <2>8, VarIntFound DEF IsVarInt
  <2> QED BY <2>5, <2>7, <2>9 DEF VarIntRead
<1> QED BY <1>1, <1>2

\* Digits stand for a number of the type.
LEMMA VarIntBelow ==
  ASSUME NEW w, IsVarInt(w)
  PROVE  VarIntOf(w) \in 0 .. VarIntModulus - 1
<1> DEFINE n == Len(w)
           x == Digits(w)[n - 1]
           b == w[n]
<1>1. w \in Seq(Nat) /\ w \in Seq(Byte) /\ n \in Nat /\ n >= 1
  BY ByteSeqs, LenProperties DEF IsVarInt
<1>2. n \in 1 .. n /\ n - 1 \in 0 .. n
  BY <1>1
<1>3. x \in Nat /\ Digits(w)[n] = WithDigit(x, b)
  BY <1>1, <1>2, DigitsAre
<1>4. b \in Nat
  BY <1>1, <1>2, ElementOfSeq
<1>5. VarIntOf(w) = WithDigit(x, b)
  BY <1>1, <1>3, VarIntIs
<1> HIDE DEF x, b
<1>6. TopBit \in Nat \ {0} /\ VarIntModulus \in Nat \ {0}
  BY TopBitIs, EncodingAssumption
<1> DEFINE z == x * TopBit + (b % TopBit) + (IF b < TopBit THEN 0 ELSE 1)
<1>7. z \in Nat
  <2>1. b % TopBit \in Nat /\ x * TopBit \in Nat
    BY <1>3, <1>4, <1>6
  <2> QED BY <2>1
<1>8. WithDigit(x, b) = z % VarIntModulus
  BY DEF WithDigit
<1> HIDE DEF z
<1>9. z % VarIntModulus \in 0 .. VarIntModulus - 1
  BY <1>6, <1>7, Division
<1> QED BY <1>5, <1>8, <1>9

\* Multiples of the modulus make no difference to a remainder.
LEMMA ModShift ==
  ASSUME NEW i \in Nat \ {0}, NEW q \in Nat, NEW x \in Nat
  PROVE  (i * q + x) % i = x % i
<1> DEFINE a == x \div i
           d == x % i
           h == i * q + x
<1>1. x = i * a + d /\ d \in 0 .. i - 1 /\ a \in Nat
  BY Division
<1> HIDE DEF a, d
<1>2. q + a \in Nat /\ h = i * (q + a) + d
  BY <1>1
<1> HIDE DEF h
<1>3. h % i = d
  BY <1>1, <1>2, DivisionIs
<1> QED BY <1>3 DEF h, d

\* serialize.h:248: any number of digits stand for what the base makes of them,
\* all but the last one more, as far as the type holds it.
LEMMA VarIntIsSum ==
  ASSUME NEW w, IsVarInt(w)
  PROVE  VarIntOf(w) =
           DigitsValue([i \in DOMAIN w |-> (w[i] % TopBit) + IF i < Len(w) THEN 1 ELSE 0], TopBit) % VarIntModulus
<1> DEFINE n == Len(w)
           M == VarIntModulus
           u == [i \in DOMAIN w |-> (w[i] % TopBit) + IF i < Len(w) THEN 1 ELSE 0]
           f == Digits(w)
<1>1. w \in Seq(Nat) /\ n \in Nat /\ n >= 1 /\ DOMAIN w = 1 .. n
      /\ (\A i \in 1 .. n - 1 : w[i] >= TopBit) /\ w[n] < TopBit
  BY ByteSeqs, LenProperties DEF IsVarInt
<1>2. TopBit \in Nat \ {0} /\ M \in Nat \ {0}
  BY TopBitIs, EncodingAssumption
<1>3. ASSUME NEW i \in 1 .. n PROVE w[i] \in Nat /\ (i < n => w[i] >= TopBit) /\ (~(i < n) => w[i] < TopBit)
  <2>1. w[i] \in Nat
    BY <1>1, ElementOfSeq
  <2> HIDE DEF n
  <2>2. i < n => i \in 1 .. n - 1
    BY <1>1
  <2>3. ~(i < n) => i = n
    BY <1>1
  <2> QED BY <1>1, <2>1, <2>2, <2>3
<1>4. ASSUME NEW i \in 1 .. n
      PROVE  u[i] = (w[i] % TopBit) + (IF w[i] < TopBit THEN 0 ELSE 1) /\ u[i] \in Nat
  <2>1. u[i] = (w[i] % TopBit) + IF i < n THEN 1 ELSE 0
    BY <1>1
  <2>2. w[i] % TopBit \in Nat
    BY <1>2, <1>3
  <2> HIDE DEF u, n
  <2> QED BY <1>1, <1>2, <1>3, <2>1, <2>2
<1>5. u \in Seq(Nat) /\ Len(u) = n
  <2>1. u \in [1 .. n -> Nat]
    <3>1. DOMAIN u = 1 .. n /\ u = [i \in 1 .. n |-> u[i]]
      BY <1>1
    <3> HIDE DEF u, n
    <3> QED BY <1>4, <3>1
  <2> HIDE DEF u, n
  <2> QED BY <1>1, <2>1, RowIsSeq, LenProperties
<1>6. f \in [0 .. n -> Nat] /\ f[0] = 0 /\ \A i \in 1 .. n : f[i] = WithDigit(f[i - 1], w[i])
  BY <1>1, DigitsAre
<1> HIDE DEF u, f, n, M
<1>7. PICK g : Evaluates(g, u, TopBit) /\ DigitsValue(u, TopBit) = g[Len(u)]
  BY <1>2, <1>5, PrefixesOf
<1>8. g \in [0 .. n -> Nat] /\ g[0] = 0 /\ \A i \in 1 .. n : g[i] = TopBit * g[i - 1] + u[i]
  BY <1>5, <1>7 DEF Evaluates
<1> DEFINE T == {i \in 0 .. n : g[i] % M = f[i]}
<1>9. 0 \in T
  BY <1>1, <1>2, <1>6, <1>8
<1>10. ASSUME NEW i \in 0 .. n - 1, i \in T PROVE i + 1 \in T
  <2> DEFINE j == i + 1
             a == g[i]
             q == a \div M
             b == a % M
             d == u[j]
             x == b * TopBit + d
  <2>1. j \in 1 .. n /\ j \in 0 .. n /\ j - 1 = i /\ i \in 0 .. n
    BY <1>1
  <2>2. a \in Nat /\ b = f[i] /\ d \in Nat
    BY <1>4, <1>8, <1>10, <2>1
  <2>3. w[j] \in Nat /\ d = (w[j] % TopBit) + (IF w[j] < TopBit THEN 0 ELSE 1) /\ w[j] % TopBit \in Nat
    BY <1>2, <1>3, <1>4, <2>1
  <2>4. g[j] = TopBit * a + d /\ f[j] = WithDigit(b, w[j])
    BY <1>6, <1>8, <2>1, <2>2
  <2> HIDE DEF j, d
  <2>5. f[j] = x % M
    <3> DEFINE y == b * TopBit + (w[j] % TopBit) + (IF w[j] < TopBit THEN 0 ELSE 1)
    <3>1. f[j] = y % M
      BY <2>4, Zenon DEF WithDigit, M
    <3>2. b \in Nat
      BY <1>2, <2>2
    <3> HIDE DEF b
    <3>3. b * TopBit \in Nat
      BY <1>2, <3>2
    <3>4. y = x
      BY <2>3, <3>3
    <3> HIDE DEF y, x
    <3> QED BY <3>1, <3>4
  <2>6. a = M * q + b /\ b \in Nat /\ q \in Nat
    <3> HIDE DEF a
    <3>1. a = M * q + b /\ b \in 0 .. M - 1 /\ q \in Nat
      BY <1>2, <2>2, Division
    <3> HIDE DEF q, b
    <3> QED BY <1>2, <3>1
  <2> HIDE DEF a, q, b
  <2>7. x \in Nat /\ \E k \in Nat : g[j] = M * k + x
    <3> DEFINE p == M * (TopBit * q)
               e == b * TopBit
    <3>1. TopBit * (M * q + b) = TopBit * (M * q) + TopBit * b
      BY <1>2, <2>6
    <3>2. TopBit * (M * q) = p /\ TopBit * b = e
      BY <1>2, <2>6
    <3>3. TopBit * q \in Nat /\ e \in Nat /\ p \in Nat
      BY <1>2, <2>6
    <3>4. x = e + d
      OBVIOUS
    <3> HIDE DEF p, e, x
    <3>5. g[j] = p + x /\ x \in Nat
      BY <2>2, <2>4, <2>6, <3>1, <3>2, <3>3, <3>4
    <3> QED BY <3>3, <3>5 DEF p
  <2> HIDE DEF x
  <2>8. g[j] % M = x % M
    <3>1. PICK k \in Nat : g[j] = M * k + x
      BY <2>7
    <3>2. (M * k + x) % M = x % M
      BY <1>2, <2>7, ModShift
    <3> QED BY <3>1, <3>2, Zenon
  <2> QED BY <2>1, <2>5, <2>8 DEF j
<1>11. T = 0 .. n
  <2>1. T \in SUBSET (0 .. n)
    OBVIOUS
  <2> HIDE DEF T
  <2> QED BY <1>1, <1>9, <1>10, <2>1, InductTo
<1>12. g[n] % M = f[n]
  <2>1. n \in T
    <3> HIDE DEF T
    <3> QED BY <1>1, <1>11
  <2> QED BY <2>1
<1>13. VarIntOf(w) = f[n]
  BY <1>1, VarIntIs DEF f, n
<1> QED BY <1>5, <1>7, <1>12, <1>13 DEF u, M

\* serialize.h:252, "Every integer has exactly one encoding": digits fewer than
\* the type can need are those the number is written as.
LEMMA OneVarInt ==
  ASSUME NEW w, IsVarInt(w), Len(w) < GetSizeOfVarInt(VarIntModulus - 1)
  PROVE  WriteVarInt(VarIntOf(w)) = w
<1> DEFINE n == Len(w)
           f == Digits(w)
           M == VarIntModulus - 1
           Ok(i) == \A d \in 0 .. TopBit - 1 : Leading(f[i] * TopBit + d) = SubSeq(w, 1, i) /\ f[i] * TopBit + d < M
           T == {i \in 0 .. n - 1 : Ok(i)}
<1>1. w \in Seq(Nat) /\ w \in Seq(Byte) /\ n \in Nat /\ n >= 1 /\ Len(w) = n
      /\ (\A i \in 1 .. n - 1 : w[i] >= TopBit) /\ w[n] < TopBit
  BY ByteSeqs, LenProperties DEF IsVarInt
<1>2. /\ f \in [0 .. n -> Nat] /\ f[0] = 0
      /\ \A i \in 1 .. n : f[i] = WithDigit(f[i - 1], w[i])
  BY <1>1, DigitsAre
<1>3. \A i \in 1 .. n : w[i] \in Byte /\ w[i] \in Nat
  BY <1>1, ElementOfSeq, RadixBase
<1>4. /\ TopBit \in Nat \ {0} /\ TopBit \in Nat /\ Byte = 0 .. Radix - 1 /\ Radix = 2 * TopBit /\ M \in Nat
      /\ VarIntModulus \in Nat \ {0}
  BY TopBitIs, RadixBase, EncodingAssumption
<1> HIDE DEF n, f, M
<1>5. ASSUME NEW i \in 0 .. n - 1, NEW d \in 0 .. TopBit - 1, Leading(f[i] * TopBit + d) = SubSeq(w, 1, i)
      PROVE  f[i] * TopBit + d < M
  <2> DEFINE z == f[i] * TopBit + d
  <2>1. f[i] \in Nat
    BY <1>1, <1>2
  <2>2. z \in Nat
    <3> DEFINE x == f[i]
    <3>1. x \in Nat /\ z = TopBit * x + d
      BY <1>4, <2>1
    <3> HIDE DEF x, z
    <3> QED BY <1>4, <3>1, UpAndDigit
  <2>3. Leading(z) = SubSeq(w, 1, i)
    BY <1>5
  <2> HIDE DEF z
  <2>4. GetSizeOfVarInt(z) = i + 1
    <3>1. Len(SubSeq(w, 1, i)) = i
      BY <1>1, FrontGrows
    <3>2. Len(WriteVarInt(z)) = Len(Leading(z)) + 1 /\ GetSizeOfVarInt(z) = Len(WriteVarInt(z))
      BY <2>2, VarIntBytes, VarIntSize
    <3> QED BY <2>3, <3>1, <3>2
  <2>5. ASSUME z >= M PROVE FALSE
    <3>1. M \in 0 .. z
      BY <1>4, <2>2, <2>5
    <3>2. GetSizeOfVarInt(M) <= GetSizeOfVarInt(z)
      BY <2>2, <3>1, VarIntBytes
    <3>3. GetSizeOfVarInt(M) = Len(WriteVarInt(M)) /\ Len(WriteVarInt(M)) \in Nat
      <4>1. GetSizeOfVarInt(M) = Len(WriteVarInt(M)) /\ WriteVarInt(M) \in Seq(Byte)
        BY <1>4, VarIntSize, VarIntBytes
      <4> QED BY <4>1, LenProperties
    <3>4. n < GetSizeOfVarInt(M)
      BY DEF M, n
    <3> QED BY <1>1, <2>4, <3>2, <3>3, <3>4
  <2> QED BY <1>4, <2>2, <2>5 DEF z
<1>6. 0 \in T
  <2>1. ASSUME NEW d \in 0 .. TopBit - 1 PROVE Leading(f[0] * TopBit + d) = SubSeq(w, 1, 0)
    <3>1. f[0] * TopBit + d = d /\ d \in Nat /\ d < TopBit
      BY <1>2, <1>4
    <3>2. Leading(d) = <<>>
      BY <3>1, LeadingIs
    <3>3. SubSeq(w, 1, 0) = <<>>
      <4>1. 0 \in 0 .. Len(w) - 1
        BY <1>1
      <4> QED BY <1>1, <4>1, FrontGrows
    <3> QED BY <3>1, <3>2, <3>3
  <2>2. 0 \in 0 .. n - 1
    BY <1>1
  <2> QED BY <1>5, <2>1, <2>2
<1>7. ASSUME NEW i \in 0 .. (n - 1) - 1, i \in T PROVE i + 1 \in T
  <2> DEFINE j == i + 1
             b == w[j]
             e == b % TopBit
             x == f[i]
             y == x * TopBit + e
  <2>1. j \in 1 .. n - 1 /\ j \in 1 .. n /\ j \in 0 .. n - 1 /\ j - 1 = i /\ i \in 0 .. n /\ i \in 0 .. n - 1
    BY <1>1
  <2>2. b \in Byte /\ b \in Nat /\ b >= TopBit
    BY <1>1, <1>3, <2>1
  <2>3. b = TopBit + e /\ e \in 0 .. TopBit - 1
    <3>1. b - TopBit \in 0 .. TopBit - 1 /\ b = TopBit * 1 + (b - TopBit) /\ 1 \in Nat
      BY <1>4, <2>2
    <3> DEFINE r == b - TopBit
    <3>2. r \in 0 .. TopBit - 1 /\ b = TopBit * 1 + r /\ b = TopBit + r
      BY <1>4, <2>2, <3>1
    <3> DEFINE c == w[j]
               one == 1
    <3>4. c = TopBit * one + r /\ one \in Nat
      BY <3>1, <3>2
    <3> HIDE DEF r, c, one
    <3>3. c % TopBit = r
      BY <1>4, <3>2, <3>4, DivisionIs
    <3> QED BY <3>2, <3>3 DEF c
  <2>4. x \in Nat
    BY <1>2, <2>1
  <2>5. Leading(y) = SubSeq(w, 1, i) /\ y < M
    BY <1>7, <2>3
  <2>6. y \in Nat /\ y \div TopBit = x /\ y % TopBit = e
    <3>1. y = TopBit * x + e
      <4> HIDE DEF x, e
      <4> QED BY <1>4, <2>3, <2>4
    <3> HIDE DEF y, x, e, b
    <3> QED BY <1>4, <2>3, <2>4, <3>1, UpAndDigit
  <2>7. f[j] = (y + 1) % VarIntModulus
    <3>1. f[j] = WithDigit(x, b)
      BY <1>2, <2>1
    <3>2. ~(b < TopBit)
      BY <1>4, <2>2
    <3> QED BY <3>1, <3>2 DEF WithDigit
  <2> HIDE DEF y, x, e, b
  <2>8. f[j] = y + 1
    <3>1. y + 1 \in 0 .. VarIntModulus - 1
      BY <1>4, <2>5, <2>6 DEF M
    <3>2. (y + 1) % VarIntModulus = y + 1
      BY <1>4, <3>1, Reduced
    <3> QED BY <2>7, <3>2
  <2>9. ASSUME NEW d \in 0 .. TopBit - 1 PROVE Leading(f[j] * TopBit + d) = SubSeq(w, 1, j)
    <3> DEFINE z == f[j] * TopBit + d
               g == y + 1
    <3>0. g \in Nat /\ z = g * TopBit + d
      BY <2>6, <2>8
    <3> HIDE DEF g
    <3>1. z \in Nat /\ z \div TopBit = g
      <4>1. z = TopBit * g + d
        BY <1>4, <3>0
      <4> HIDE DEF z
      <4> QED BY <1>4, <3>0, <4>1, UpAndDigit
    <3>2. z >= TopBit
      <4>1. g >= 1
        BY <2>6 DEF g
      <4>2. g * TopBit >= TopBit
        BY <1>4, <3>0, <4>1
      <4>3. g * TopBit \in Nat
        BY <1>4, <3>0
      <4> HIDE DEF z
      <4> QED BY <1>4, <3>0, <4>2, <4>3
    <3> HIDE DEF z
    <3>3. Higher(z) = y
      BY <2>6, <3>1 DEF Higher, g
    <3>4. ~(z < TopBit)
      BY <1>4, <3>1, <3>2
    <3>5. Leading(z) = Leading(Higher(z)) \o <<TopBit + (Higher(z) % TopBit)>>
      BY <3>1, <3>4, LeadingIs
    <3>6. Leading(z) = SubSeq(w, 1, i) \o <<b>>
      BY <2>3, <2>5, <2>6, <3>3, <3>5
    <3>7. SubSeq(w, 1, i) \o <<w[i + 1]>> = SubSeq(w, 1, i + 1)
      BY <1>1, <2>1, FrontGrows
    <3> QED BY <3>6, <3>7 DEF z, b
  <2> QED BY <1>5, <2>1, <2>9
<1>8. T = 0 .. n - 1
  <2>1. T \in SUBSET (0 .. n - 1) /\ n - 1 \in Nat
    BY <1>1
  <2> HIDE DEF T
  <2> QED BY <1>6, <1>7, <2>1, InductTo
<1> DEFINE k == n - 1
           b == w[n]
           x == f[k]
           z == x * TopBit + b
<1>9. k \in 0 .. n /\ k \in T /\ n \in 1 .. n /\ k + 1 = n /\ k \in 0 .. n - 1
  <2> HIDE DEF T
  <2> QED BY <1>1, <1>8
<1>10. b \in 0 .. TopBit - 1 /\ x \in Nat
  BY <1>1, <1>2, <1>3, <1>4, <1>9
<1>11. Leading(z) = SubSeq(w, 1, k) /\ z < M
  BY <1>9, <1>10
<1>12. f[n] = (x * TopBit + b) % VarIntModulus
  <2>1. f[n] = WithDigit(x, b)
    BY <1>2, <1>9
  <2>2. b % TopBit = b
    <3> HIDE DEF b
    <3> QED BY <1>4, <1>10, Reduced
  <2>3. b < TopBit
    BY <1>4, <1>10
  <2>4. x * TopBit + b + 0 = x * TopBit + b
    BY <1>4, <1>10
  <2> QED BY <2>1, <2>2, <2>3, <2>4 DEF WithDigit
<1>13. z \in Nat /\ z % TopBit = b
  <2>1. z = TopBit * x + b
    <3> HIDE DEF x, b
    <3> QED BY <1>4, <1>10
  <2> HIDE DEF b, x, z
  <2> QED BY <1>4, <1>10, <2>1, UpAndDigit
<1> HIDE DEF T, x
<1>14. z \in 0 .. VarIntModulus - 1
  <2> HIDE DEF z
  <2> QED BY <1>4, <1>11, <1>13 DEF M
<1>15. f[n] = z
  <2>1. f[n] = z % VarIntModulus
    BY <1>12
  <2> HIDE DEF z
  <2> QED BY <1>4, <1>14, <2>1, Reduced
<1>16. VarIntOf(w) = z
  BY <1>1, <1>15, VarIntIs DEF f, n
<1> HIDE DEF z
<1>17. WriteVarInt(z) = Leading(z) \o <<z % TopBit>>
  BY <1>13, VarIntBytes
<1>18. SubSeq(w, 1, k) \o <<w[k + 1]>> = SubSeq(w, 1, k + 1) /\ SubSeq(w, 1, Len(w)) = w
  <2> HIDE DEF k
  <2> QED BY <1>1, <1>9, FrontGrows
<1> QED BY <1>1, <1>9, <1>11, <1>13, <1>16, <1>17, <1>18

-----------------------------------------------------------------------------
(***************************************************************************)
(* Strings, vectors of bytes and pairs, read back and read from any bytes. *)
(***************************************************************************)
Strings == {v \in Seq(Byte) : Len(v) <= MAX_SIZE}
Pairs == Byte \X Strings

\* A reading that throws: the file ended, or what was read is refused.
Failed(r) == (\E x : r = Ended(x)) \/ (\E t, x : t \in Seq(Byte) /\ r = Leaving(Refused(t), x))

\* The fields of a reading that succeeds.
LEMMA GotParts ==
  \A v, t : Got(v, t).ok /\ Got(v, t).value = v /\ Got(v, t).rest = t
BY DEF Got

\* Leaving another value in the variable of one that succeeded.
LEMMA GotLeft ==
  \A v, t, w : Leaving(Got(v, t), w) = Got(w, t)
<1> TAKE v, t, w
<1> QED BY Fields

\* The fields of a reading that found the end of the file.
LEMMA EndedParts ==
  \A v : ~Ended(v).ok /\ Ended(v).value = v /\ Ended(v).rest = <<>> /\ Failed(Ended(v))
<1>1. \A v : ~Ended(v).ok /\ Ended(v).value = v /\ Ended(v).rest = <<>>
  BY DEF Ended
<1>2. \A v : Failed(Ended(v))
  BY Zenon DEF Failed
<1> QED BY <1>1, <1>2

\* It is one when a value is left in the variable.
LEMMA EndedLeft ==
  \A v, w : Leaving(Ended(v), w) = Ended(w)
<1> TAKE v, w
<1> QED BY Fields

\* Of two values left in the variable the second stays.
LEMMA LeavingTwice ==
  ASSUME NEW r, NEW v, NEW w
  PROVE  Leaving(Leaving(r, v), w) = Leaving(r, w)
<1>1. [[r EXCEPT !.value = v] EXCEPT !.value = w] = [r EXCEPT !.value = w]
  OBVIOUS
<1> QED BY <1>1 DEF Leaving

\* The fields of a reading that was refused.
LEMMA RefusedParts ==
  \A t \in Seq(Byte) : Failed(Refused(t)) /\ \A w : Failed(Leaving(Refused(t), w))
<1> TAKE t \in Seq(Byte)
<1>1. \A w : Failed(Leaving(Refused(t), w))
  BY Zenon DEF Failed
<1>2. Refused(t) = Leaving(Refused(t), 0)
  <2>1. Refused(t) = [ok |-> FALSE, short |-> FALSE, value |-> 0, rest |-> t]
    BY DEF Refused
  <2>2. \A a, b, x, y, w : [[ok |-> a, short |-> b, value |-> x, rest |-> y] EXCEPT !.value = w]
                           = [ok |-> a, short |-> b, value |-> w, rest |-> y]
    OBVIOUS
  <2>3. [[ok |-> FALSE, short |-> FALSE, value |-> 0, rest |-> t] EXCEPT !.value = 0]
          = [ok |-> FALSE, short |-> FALSE, value |-> 0, rest |-> t]
    BY <2>2, Zenon
  <2> QED BY <2>1, <2>3, Zenon DEF Leaving
<1> QED BY <1>1, <1>2, Zenon

\* It is still one when a value is left in the variable.
LEMMA FailedIs ==
  ASSUME NEW r, Failed(r), NEW w
  PROVE  ~r.ok /\ r.rest \in Seq(Byte) /\ Failed(Leaving(r, w)) /\ Leaving(r, w).value = w
<1>1. CASE \E x : r = Ended(x)
  <2>1. PICK x : r = Ended(x)
    BY <1>1
  <2>2. ~r.ok /\ r.rest = <<>> /\ Leaving(r, w) = Ended(w)
    BY <2>1, EndedParts, EndedLeft
  <2>3. Ended(w).value = w /\ Failed(Ended(w)) /\ <<>> \in Seq(Byte)
    BY EndedParts
  <2> QED BY <2>2, <2>3
<1>2. CASE \E t, x : t \in Seq(Byte) /\ r = Leaving(Refused(t), x)
  <2>1. PICK t, x : t \in Seq(Byte) /\ r = Leaving(Refused(t), x)
    BY <1>2
  <2> DEFINE o == Refused(t)
  <2>2. ~Leaving(o, x).ok /\ Leaving(o, x).rest = t /\ Leaving(o, w).value = w
    <3>1. ASSUME NEW z PROVE ~Leaving(o, z).ok /\ Leaving(o, z).rest = t /\ Leaving(o, z).value = z
      BY Fields
    <3> HIDE DEF o
    <3> QED BY <3>1
  <2>3. Leaving(Leaving(o, x), w) = Leaving(o, w)
    <3> HIDE DEF o
    <3> QED BY LeavingTwice
  <2>4. Failed(Leaving(o, w))
    BY <2>1, RefusedParts
  <2> HIDE DEF o
  <2>5. r = Leaving(o, x)
    BY <2>1 DEF o
  <2>6. t \in Seq(Byte)
    BY <2>1
  <2> QED BY <2>2, <2>3, <2>4, <2>5, <2>6
<1>3. (\E x : r = Ended(x)) \/ \E t, x : t \in Seq(Byte) /\ r = Leaving(Refused(t), x)
  BY DEF Failed
<1> QED BY <1>1, <1>2, <1>3

\* A size that is not accepted.
LEMMA SizeFails ==
  ASSUME SizesFit, NEW s \in Seq(Byte), NEW r, r = ReadCompactSize(s), ~r.ok, NEW w
  PROVE  Failed(r) /\ Failed(Leaving(r, w)) /\ Leaving(r, w).value = w
<1>1. SizeRead(s, r)
  BY SizeIsRead
<1>2. r = Ended(0) => Failed(r)
  BY EndedParts
<1>3. (\E rest \in Seq(Byte) : r = Refused(rest)) => Failed(r)
  BY RefusedParts
<1>4. ~\E n \in 0 .. MAX_SIZE, rest \in Seq(Byte) : r = Got(n, rest) /\ s = WriteCompactSize(n) \o rest
  BY GotParts
<1>5. Failed(r)
  BY <1>1, <1>2, <1>3, <1>4 DEF SizeRead
<1> QED BY <1>5, FailedIs

\* A size that is accepted.
LEMMA SizeAccepted ==
  ASSUME SizesFit, NEW s \in Seq(Byte), NEW r, r = ReadCompactSize(s), r.ok
  PROVE  /\ r.value \in 0 .. MAX_SIZE /\ r.rest \in Seq(Byte) /\ s = WriteCompactSize(r.value) \o r.rest
         /\ r = Got(r.value, r.rest)
<1>1. SizeRead(s, r)
  BY SizeIsRead
<1>2. CASE r = Ended(0)
  BY <1>2, EndedParts
<1>3. CASE \E rest \in Seq(Byte) : r = Refused(rest)
  <2>1. Failed(r)
    BY <1>3, RefusedParts
  <2> QED BY <2>1, FailedIs
<1>4. CASE \E n \in 0 .. MAX_SIZE, rest \in Seq(Byte) : r = Got(n, rest) /\ s = WriteCompactSize(n) \o rest
  <2>1. PICK n \in 0 .. MAX_SIZE, rest \in Seq(Byte) : r = Got(n, rest) /\ s = WriteCompactSize(n) \o rest
    BY <1>4
  <2>2. r.value = n /\ r.rest = rest
    BY <2>1, GotParts
  <2> QED BY <2>1, <2>2
<1> QED BY <1>1, <1>2, <1>3, <1>4 DEF SizeRead

\* A size has bytes, as many as are announced.
LEMMA SizeIs ==
  ASSUME SizesFit, NEW n \in 0 .. MAX_SIZE
  PROVE  /\ WriteCompactSize(n) \in Seq(Byte) /\ Len(WriteCompactSize(n)) = GetSizeOfCompactSize(n)
         /\ GetSizeOfCompactSize(n) \in Nat \ {0}
<1>1. n \in Nat /\ n < Power(Radix, 8)
  BY EncodingAssumption, PowersGrow DEF SizesFit
<1> QED BY <1>1, SizeWritten

\* A string has bytes, as many as are announced.
LEMMA TextWritten ==
  ASSUME SizesFit, NEW v \in Strings
  PROVE  /\ Len(v) \in 0 .. MAX_SIZE /\ v \in Seq(Byte)
         /\ WriteBytes(v) \in Seq(Byte) /\ Len(WriteBytes(v)) = GetSizeOfCompactSize(Len(v)) + Len(v)
         /\ Len(WriteBytes(v)) \in Nat \ {0}
<1>1. v \in Seq(Byte) /\ Len(v) \in Nat /\ Len(v) <= MAX_SIZE /\ MAX_SIZE \in Nat
  BY LenProperties, EncodingAssumption DEF Strings
<1> DEFINE c == WriteCompactSize(Len(v))
<1>2. Len(v) \in 0 .. MAX_SIZE
  BY <1>1
<1>3. c \in Seq(Byte) /\ Len(c) = GetSizeOfCompactSize(Len(v)) /\ GetSizeOfCompactSize(Len(v)) \in Nat \ {0}
  BY <1>2, SizeIs
<1>4. WriteBytes(v) = c \o v
  BY DEF WriteBytes
<1> HIDE DEF c
<1>5. c \o v \in Seq(Byte) /\ Len(c \o v) = Len(c) + Len(v)
  BY <1>1, <1>3, Rejoined
<1> QED BY <1>1, <1>2, <1>3, <1>4, <1>5

\* A string, or a vector of bytes, is read back whatever follows.
LEMMA TextReadBack ==
  ASSUME SizesFit, NEW v \in Strings, NEW rest \in Seq(Byte), NEW old
  PROVE  ReadString(WriteBytes(v) \o rest, old) = Got(v, rest) /\ ReadVector(WriteBytes(v) \o rest, old) = Got(v, rest)
<1> DEFINE c == WriteCompactSize(Len(v))
           s == WriteBytes(v) \o rest
           size == ReadCompactSize(s)
<1>1. Len(v) \in 0 .. MAX_SIZE /\ v \in Seq(Byte)
  BY TextWritten
<1>2. s = c \o (v \o rest) /\ v \o rest \in Seq(Byte)
  <2>1. c \in Seq(Byte)
    BY <1>1, SizeIs
  <2> HIDE DEF c
  <2>2. (c \o v) \o rest = c \o (v \o rest) /\ v \o rest \in Seq(Byte)
    BY <1>1, <2>1, Rejoined
  <2> QED BY <2>2 DEF WriteBytes, c
<1>3. size = Got(Len(v), v \o rest)
  <2> HIDE DEF s
  <2>1. ReadCompactSize(WriteCompactSize(Len(v)) \o (v \o rest)) = Got(Len(v), v \o rest)
    BY <1>1, <1>2, SizeReadBack
  <2> QED BY <1>2, <2>1
<1> HIDE DEF s, size
<1>4. size.ok /\ size.value = Len(v) /\ size.rest = v \o rest
  BY <1>3, GotParts
<1>5. Take(v \o rest, Len(v)) = Got(v, rest)
  BY <1>1, TakeOf
<1> DEFINE d == Take(v \o rest, Len(v))
<1>6. d.ok /\ d = Got(v, rest)
  BY <1>5, GotParts
<1> HIDE DEF d
<1>7. \A o, n : Filled(d, o, n) = Got(v, rest)
  BY <1>6, Zenon DEF Filled
<1>8. StringOf(size, old) = Got(v, rest)
  BY <1>4, <1>7, Zenon DEF StringOf, d
<1>9. VectorOf(size) = Got(v, rest)
  BY <1>4, <1>7, Zenon DEF VectorOf, d
<1> QED BY <1>8, <1>9, Zenon DEF ReadString, ReadVector, s, size

\* What a reading of bytes gives: they were written, or it fails.
TextRead(s, r) ==
  \/ Failed(r)
  \/ \E v \in Strings, rest \in Seq(Byte) : r = Got(v, rest) /\ s = WriteBytes(v) \o rest

\* Any bytes are a string in its only form, or its reading fails.
LEMMA TextIsRead ==
  ASSUME SizesFit, NEW s \in Seq(Byte), NEW old
  PROVE  TextRead(s, ReadString(s, old)) /\ TextRead(s, ReadVector(s, old))
<1> DEFINE size == ReadCompactSize(s)
           n == size.value
           t == size.rest
           block == Lesser(n, Blocks(Len(t)))
<1>1. ReadString(s, old) = StringOf(size, old) /\ ReadVector(s, old) = VectorOf(size)
  BY Zenon DEF ReadString, ReadVector
<1>2. CASE ~size.ok
  <2>1. Failed(Leaving(size, old)) /\ Failed(Leaving(size, <<>>))
    BY <1>2, SizeFails
  <2>2. StringOf(size, old) = Leaving(size, old) /\ VectorOf(size) = Leaving(size, <<>>)
    BY <1>2, Zenon DEF StringOf, VectorOf
  <2> QED BY <1>1, <2>1, <2>2 DEF TextRead
<1>3. CASE size.ok
  <2>1. n \in 0 .. MAX_SIZE /\ t \in Seq(Byte) /\ s = WriteCompactSize(n) \o t
    BY <1>3, SizeAccepted
  <2>2. StringOf(size, old) = Filled(Take(t, n), old, n) /\ VectorOf(size) = Filled(Take(t, n), <<>>, block)
    BY <1>3, Zenon DEF StringOf, VectorOf
  <2> HIDE DEF size, n, t, block
  <2>3. n \in Nat /\ n <= MAX_SIZE
    BY <2>1, EncodingAssumption
  <2>4. TakenFrom(Byte, t, n)
    BY <2>1, <2>3, TakeFrom
  <2>5. CASE Take(t, n) = Ended(t)
    <3>1. \A o, k : Filled(Take(t, n), o, k) = Ended(Over(t, o, k))
      BY <2>5, EndedParts, Zenon DEF Filled
    <3>2. \A o, k : Failed(Filled(Take(t, n), o, k))
      BY <3>1, EndedParts, Zenon
    <3>3. Failed(StringOf(size, old)) /\ Failed(VectorOf(size))
      BY <2>2, <3>2 DEF t, n, block
    <3> QED BY <1>1, <3>3, Zenon DEF TextRead
  <2>6. CASE \E v, u \in Seq(Byte) : t = v \o u /\ Len(v) = n /\ Take(t, n) = Got(v, u)
    <3>1. PICK v \in Seq(Byte), u \in Seq(Byte) : t = v \o u /\ Len(v) = n /\ Take(t, n) = Got(v, u)
      BY <2>6, Zenon
    <3>2. \A o, k : Filled(Take(t, n), o, k) = Got(v, u)
      <4>1. Take(t, n).ok
        BY <3>1, GotParts
      <4> QED BY <3>1, <4>1, Zenon DEF Filled
    <3>3. v \in Strings
      BY <2>3, <3>1 DEF Strings
    <3>4. s = WriteBytes(v) \o u
      <4> DEFINE c == WriteCompactSize(n)
      <4>1. c \in Seq(Byte)
        BY <2>1, SizeIs
      <4>2. WriteBytes(v) = c \o v /\ s = c \o (v \o u)
        BY <2>1, <3>1 DEF WriteBytes
      <4> HIDE DEF c
      <4>3. (c \o v) \o u = c \o (v \o u)
        BY <3>1, <4>1, Rejoined
      <4> QED BY <4>2, <4>3
    <3>5. TextRead(s, Got(v, u))
      BY <3>1, <3>3, <3>4, Zenon DEF TextRead
    <3> QED BY <1>1, <2>2, <3>2, <3>5, Zenon
  <2> QED BY <2>4, <2>5, <2>6, Zenon DEF TakenFrom
<1> QED BY <1>2, <1>3

\* Blocks of a vector reach a block further than what there was at most.
LEMMA BlocksReach ==
  ASSUME NEW n \in Nat
  PROVE  Blocks(n) \in Nat /\ Blocks(n) <= n + Block
<1>1. Block \in Nat \ {0}
  BY EncodingAssumption
<1> DEFINE q == n \div Block
           r == n % Block
<1>2. n = Block * q + r /\ r \in 0 .. Block - 1 /\ q \in Nat
  BY <1>1, Division
<1>3. Blocks(n) = (q + 1) * Block
  BY DEF Blocks
<1> HIDE DEF q, r
<1>4. (q + 1) * Block = Block * q + Block /\ Block * q \in Nat
  BY <1>1, <1>2
<1> QED BY <1>1, <1>2, <1>3, <1>4

\* serialize.h:531, a vector is never more than a block larger than what there
\* was.
LEMMA TextBounded ==
  ASSUME SizesFit, NEW s \in Seq(Byte), NEW old
  PROVE  Len(ReadVector(s, old).value) <= Len(s) + Block
<1> DEFINE size == ReadCompactSize(s)
           n == size.value
           t == size.rest
           block == Lesser(n, Blocks(Len(t)))
           r == ReadVector(s, old)
<1>0. Len(s) \in Nat /\ Block \in Nat
  BY LenProperties, EncodingAssumption
<1>1. r = VectorOf(size)
  BY Zenon DEF ReadVector
<1>2. CASE ~size.ok
  <2>1. Leaving(size, <<>>).value = <<>>
    BY <1>2, SizeFails
  <2>2. r.value = <<>>
    BY <1>1, <1>2, <2>1, Zenon DEF VectorOf
  <2>3. Len(<<>>) = 0
    OBVIOUS
  <2> QED BY <1>0, <2>2, <2>3
<1>3. CASE size.ok
  <2>1. n \in 0 .. MAX_SIZE /\ t \in Seq(Byte) /\ s = WriteCompactSize(n) \o t
    BY <1>3, SizeAccepted
  <2>2. r = Filled(Take(t, n), <<>>, block)
    BY <1>1, <1>3, Zenon DEF VectorOf
  <2> HIDE DEF size, n, t, r
  <2>3. n \in Nat
    BY <2>1
  <2>4. TakenFrom(Byte, t, n)
    BY <2>1, <2>3, TakeFrom
  <2>5. Len(t) <= Len(s) /\ Len(t) \in Nat
    <3> DEFINE c == WriteCompactSize(n)
    <3>1. c \in Seq(Byte)
      BY <2>1, SizeIs
    <3>2. Len(c \o t) = Len(c) + Len(t) /\ Len(c) \in Nat /\ Len(t) \in Nat
      <4> HIDE DEF c
      <4> QED BY <2>1, <3>1, Rejoined
    <3>3. Len(s) = Len(c \o t)
      BY <2>1
    <3> HIDE DEF c
    <3> QED BY <3>2, <3>3
  <2>6. block \in Nat /\ block <= Len(t) + Block
    <3>1. Blocks(Len(t)) \in Nat /\ Blocks(Len(t)) <= Len(t) + Block
      BY <2>5, BlocksReach
    <3> QED BY <1>0, <2>3, <2>5, <3>1 DEF Lesser
  <2> HIDE DEF block
  <2>7. CASE Take(t, n) = Ended(t)
    <3>1. r = Ended(Over(t, <<>>, block))
      BY <2>2, <2>7, EndedParts, Zenon DEF Filled
    <3>2. r.value = Over(t, <<>>, block)
      BY <3>1, EndedParts, Zenon
    <3>3. IsRow(Over(t, <<>>, block), block)
      BY DEF Over, IsRow
    <3>4. Len(Over(t, <<>>, block)) = block
      BY <2>6, <3>3, RowLength
    <3> QED BY <1>0, <2>5, <2>6, <3>2, <3>4 DEF r
  <2>8. CASE \E v, u \in Seq(Byte) : t = v \o u /\ Len(v) = n /\ Take(t, n) = Got(v, u)
    <3>1. PICK v \in Seq(Byte), u \in Seq(Byte) : t = v \o u /\ Len(v) = n /\ Take(t, n) = Got(v, u)
      BY <2>8, Zenon
    <3>2. r = Got(v, u)
      <4>1. Take(t, n).ok
        BY <3>1, GotParts
      <4> QED BY <2>2, <3>1, <4>1, Zenon DEF Filled
    <3>3. r.value = v
      BY <3>2, GotParts, Zenon
    <3>4. Len(t) = Len(v) + Len(u) /\ Len(v) \in Nat /\ Len(u) \in Nat
      BY <3>1, ConcatProperties, LenProperties
    <3> QED BY <1>0, <2>5, <3>3, <3>4 DEF r
  <2> QED BY <2>4, <2>7, <2>8 DEF TakenFrom
<1> QED BY <1>2, <1>3 DEF r

-----------------------------------------------------------------------------
\* A byte is read back.
LEMMA ByteReadBack ==
  ASSUME NEW b \in Byte, NEW t \in Seq(Byte), NEW old
  PROVE  ReadByte(<<b>> \o t, old) = Got(b, t)
<1>1. Take(<<b>> \o t, 1) = Got(<<b>>, t) /\ <<b>>[1] = b
  BY OneGiven
<1> DEFINE r == Take(<<b>> \o t, 1)
<1>2. r.ok /\ r.value = <<b>> /\ r.rest = t
  BY <1>1, GotParts
<1> HIDE DEF r
<1>3. ReadByte(<<b>> \o t, old) = IF r.ok THEN Got(r.value[1], r.rest) ELSE Ended(old)
  BY DEF ReadByte, r
<1> QED BY <1>1, <1>2, <1>3, Zenon

ByteRead(s, old, r) ==
  \/ s = <<>> /\ r = Ended(old)
  \/ \E b \in Byte, t \in Seq(Byte) : s = <<b>> \o t /\ r = Got(b, t)

\* Any bytes begin with a byte, or there are none.
LEMMA ByteIsRead ==
  ASSUME NEW s \in Seq(Byte), NEW old
  PROVE  ByteRead(s, old, ReadByte(s, old))
<1>1. CASE s = <<>> /\ Take(s, 1) = Ended(s)
  <2> DEFINE r == Take(s, 1)
  <2>1. ~r.ok
    BY <1>1, EndedParts
  <2> HIDE DEF r
  <2>2. ReadByte(s, old) = IF r.ok THEN Got(r.value[1], r.rest) ELSE Ended(old)
    BY DEF ReadByte, r
  <2> QED BY <1>1, <2>1, <2>2, Zenon DEF ByteRead
<1>2. CASE \E b \in Byte, t \in Seq(Byte) : s = <<b>> \o t /\ Take(s, 1) = Got(<<b>>, t)
  <2>1. PICK b \in Byte, t \in Seq(Byte) : s = <<b>> \o t
    BY <1>2
  <2>2. ReadByte(s, old) = Got(b, t)
    BY <2>1, ByteReadBack
  <2> QED BY <2>1, <2>2 DEF ByteRead
<1> QED BY <1>1, <1>2, OneTaken, Zenon

\* A pair is a byte and a string.
LEMMA PairIs ==
  ASSUME NEW p \in Pairs
  PROVE  p[1] \in Byte /\ p[2] \in Strings /\ p = <<p[1], p[2]>>
BY DEF Pairs

\* A pair has bytes, as many as are announced.
LEMMA PairWritten ==
  ASSUME SizesFit, NEW p \in Pairs
  PROVE  /\ WritePair(p) \in Seq(Byte)
         /\ Len(WritePair(p)) = 1 + (GetSizeOfCompactSize(Len(p[2])) + Len(p[2]))
         /\ Len(WritePair(p)) \in Nat \ {0}
<1> DEFINE b == p[1]
           w == WriteBytes(p[2])
<1>1. b \in Byte /\ w \in Seq(Byte) /\ Len(w) \in Nat \ {0}
      /\ Len(w) = GetSizeOfCompactSize(Len(p[2])) + Len(p[2])
  BY PairIs, TextWritten
<1>2. WritePair(p) = <<b>> \o w
  BY DEF WritePair
<1> HIDE DEF b, w
<1>3. <<b>> \o w \in Seq(Byte) /\ Len(<<b>> \o w) = 1 + Len(w)
  BY <1>1, OneGiven
<1> QED BY <1>1, <1>2, <1>3

\* A pair is read back.
LEMMA PairReadBack ==
  ASSUME SizesFit, NEW p \in Pairs, NEW rest \in Seq(Byte), NEW old
  PROVE  ReadPair(WritePair(p) \o rest, old) = Got(p, rest)
<1> DEFINE b == p[1]
           v == p[2]
           w == WriteBytes(v)
           s == WritePair(p) \o rest
           first == ReadByte(s, old[1])
           second == ReadString(first.rest, old[2])
<1>1. b \in Byte /\ v \in Strings /\ w \in Seq(Byte) /\ p = <<b, v>>
  BY PairIs, TextWritten
<1>2. s = <<b>> \o (w \o rest) /\ w \o rest \in Seq(Byte)
  <2>0. WritePair(p) = <<b>> \o w
    BY DEF WritePair
  <2> HIDE DEF w, b
  <2>1. <<b>> \in Seq(Byte)
    BY <1>1
  <2>2. (<<b>> \o w) \o rest = <<b>> \o (w \o rest) /\ w \o rest \in Seq(Byte)
    BY <1>1, <2>1, Rejoined
  <2> QED BY <2>0, <2>2
<1>3. first = Got(b, w \o rest)
  <2> HIDE DEF s, b, w
  <2> QED BY <1>1, <1>2, ByteReadBack
<1>4. first.ok /\ first.value = b /\ first.rest = w \o rest
  <2> HIDE DEF first
  <2> QED BY <1>3, GotParts
<1>5. second = Got(v, rest)
  <2>1. ReadString(w \o rest, old[2]) = Got(v, rest)
    <3> HIDE DEF v
    <3> QED BY <1>1, TextReadBack
  <2> HIDE DEF first, w
  <2> QED BY <1>4, <2>1
<1>6. ReadPair(s, old) = IF first.ok THEN [second EXCEPT !.value = <<first.value, second.value>>]
                         ELSE Ended(<<first.value, old[2]>>)
  BY Zenon DEF ReadPair
<1>7. [second EXCEPT !.value = <<first.value, second.value>>] = Leaving(second, <<first.value, second.value>>)
  BY Zenon DEF Leaving
<1> HIDE DEF first, second, s
<1>8. second.value = v /\ \A x : Leaving(second, x) = Got(x, rest)
  BY <1>5, GotParts, GotLeft
<1> QED BY <1>1, <1>4, <1>6, <1>7, <1>8, Zenon DEF s

PairRead(s, r) ==
  \/ Failed(r)
  \/ \E p \in Pairs, rest \in Seq(Byte) : r = Got(p, rest) /\ s = WritePair(p) \o rest

\* Any bytes are a pair in its only form, or its reading fails.
LEMMA PairIsRead ==
  ASSUME SizesFit, NEW s \in Seq(Byte), NEW old
  PROVE  PairRead(s, ReadPair(s, old))
<1> DEFINE first == ReadByte(s, old[1])
           second == ReadString(first.rest, old[2])
           r == ReadPair(s, old)
<1>1. r = IF first.ok THEN [second EXCEPT !.value = <<first.value, second.value>>]
          ELSE Ended(<<first.value, old[2]>>)
  BY Zenon DEF ReadPair
<1>2. [second EXCEPT !.value = <<first.value, second.value>>] = Leaving(second, <<first.value, second.value>>)
  BY Zenon DEF Leaving
<1>3. ByteRead(s, old[1], first)
  BY ByteIsRead
<1>4. ASSUME NEW t \in Seq(Byte), first.rest = t
      PROVE  TextRead(t, second)
  BY <1>4, TextIsRead
<1> HIDE DEF first, second, r
<1>5. CASE first = Ended(old[1])
  <2>1. ~first.ok
    BY <1>5, EndedParts, Zenon
  <2>2. r = Ended(<<first.value, old[2]>>)
    BY <1>1, <2>1, Zenon
  <2> QED BY <2>2, EndedParts, Zenon DEF PairRead, r
<1>6. CASE \E b \in Byte, t \in Seq(Byte) : s = <<b>> \o t /\ first = Got(b, t)
  <2>1. PICK b \in Byte, t \in Seq(Byte) : s = <<b>> \o t /\ first = Got(b, t)
    BY <1>6
  <2>2. first.ok /\ first.value = b /\ first.rest = t
    BY <2>1, GotParts
  <2>3. r = Leaving(second, <<b, second.value>>)
    BY <1>1, <1>2, <2>2, Zenon
  <2>4. TextRead(t, second)
    BY <1>4, <2>2
  <2>5. CASE Failed(second)
    <3>1. \A x : Failed(Leaving(second, x))
      BY <2>5, FailedIs
    <3> QED BY <2>3, <3>1, Zenon DEF PairRead, r
  <2>6. CASE \E v \in Strings, rest \in Seq(Byte) : second = Got(v, rest) /\ t = WriteBytes(v) \o rest
    <3>1. PICK v \in Strings, rest \in Seq(Byte) : second = Got(v, rest) /\ t = WriteBytes(v) \o rest
      BY <2>6
    <3>2. second.value = v /\ \A x : Leaving(second, x) = Got(x, rest)
      BY <3>1, GotParts, GotLeft
    <3> DEFINE p == <<b, v>>
               w == WriteBytes(v)
    <3>3. p \in Pairs /\ p[1] = b /\ p[2] = v
      BY DEF Pairs
    <3>4. WritePair(p) = <<b>> \o w
      BY DEF WritePair
    <3>5. w \in Seq(Byte) /\ <<b>> \in Seq(Byte)
      BY TextWritten
    <3>6. r = Got(p, rest)
      BY <2>3, <3>2, Zenon
    <3>7. s = WritePair(p) \o rest
      <4> HIDE DEF p, w
      <4>1. (<<b>> \o w) \o rest = <<b>> \o (w \o rest)
        BY <3>5, Rejoined
      <4>2. t = w \o rest
        BY <3>1 DEF w
      <4> QED BY <2>1, <3>4, <4>1, <4>2
    <3> HIDE DEF p
    <3> QED BY <3>3, <3>6, <3>7 DEF PairRead, r
  <2> QED BY <2>4, <2>5, <2>6, Zenon DEF TextRead
<1> QED BY <1>3, <1>5, <1>6, Zenon DEF ByteRead

-----------------------------------------------------------------------------
(***************************************************************************)
(* Loops over the elements of a size, which end with the first that fails. *)
(***************************************************************************)
\* Elements are read one after the other, until one fails.
NextPair(r) == IF ~r.ok THEN r ELSE Leaving(ReadPair(r.rest, NoPair), Append(r.value, ReadPair(r.rest, NoPair).value))
NextByte(r) == IF ~r.ok THEN r ELSE Leaving(ReadByte(r.rest, 0), Append(r.value, ReadByte(r.rest, 0).value))

Most(s, n) == Lesser(n, Len(s) + 1)

\* No more elements are read than there are bytes, and the one that fails.
LEMMA MostIs ==
  ASSUME NEW s \in Seq(Byte), NEW n \in Nat
  PROVE  Most(s, n) \in 0 .. n /\ Most(s, n) \in Nat /\ Most(s, n) <= Len(s) + 1 /\ (Most(s, n) # n => Most(s, n) = Len(s) + 1)
<1>1. Len(s) \in Nat
  BY LenProperties
<1> QED BY <1>1 DEF Most, Lesser

\* The loop that reads pairs, as the table of its states.
LEMMA PairsStepped ==
  ASSUME NEW s \in Seq(Byte), NEW n \in Nat
  PROVE  \E f : f[0] = Got(<<>>, s) /\ (\A i \in 1 .. Most(s, n) : f[i] = NextPair(f[i - 1])) /\ ReadElements(ReadPair, s, n, NoPair) = f[Most(s, n)]
<1> DEFINE top == Most(s, n)
           c == Got(<<>>, s)
           B(x, i) == NextPair(x)
           Def(k, f) == f = [i \in 0 .. k |-> IF i = 0 THEN c ELSE B(f[i - 1], i)]
           T == {k \in 0 .. top : \E f : Def(k, f)}
           g == CHOOSE g : Def(top, g)
<1>1. top \in Nat
  BY MostIs
<1>2. ReadElements(ReadPair, s, n, NoPair) = g[top]
  BY Zenon DEF ReadElements, NextPair, Leaving, Most
<1> HIDE DEF top, c, B
<1>3. 0 \in T
  <2> DEFINE z == [i \in 0 .. 0 |-> c]
  <2>1. z = [i \in 0 .. 0 |-> IF i = 0 THEN c ELSE B(z[i - 1], i)]
    <3>1. \A i \in 0 .. 0 : i = 0
      OBVIOUS
    <3>2. \A i \in 0 .. 0 : c = IF i = 0 THEN c ELSE B(z[i - 1], i)
      BY <3>1, Zenon
    <3> HIDE DEF z
    <3>3. z = [i \in 0 .. 0 |-> c]
      BY DEF z
    <3> QED BY <3>2, <3>3, Zenon
  <2> HIDE DEF z
  <2>2. 0 \in 0 .. top
    BY <1>1
  <2> QED BY <2>1, <2>2
<1>4. ASSUME NEW k \in 0 .. top - 1, k \in T PROVE k + 1 \in T
  <2>1. PICK f : Def(k, f)
    BY <1>4
  <2> DEFINE j == k + 1
             h == [i \in 0 .. j |-> IF i <= k THEN f[i] ELSE B(f[k], j)]
  <2>2. j \in 0 .. top /\ k \in 0 .. k
    BY <1>1
  <2>3. \A i \in 0 .. k : f[i] = IF i = 0 THEN c ELSE B(f[i - 1], i)
    BY <2>1, Zenon
  <2>4. ASSUME NEW i \in 0 .. j PROVE h[i] = IF i = 0 THEN c ELSE B(h[i - 1], i)
    <3>1. CASE i <= k
      <4>1. i \in 0 .. k /\ (i # 0 => i - 1 \in 0 .. j /\ i - 1 <= k)
        BY <3>1
      <4>2. h[i] = f[i] /\ (i # 0 => h[i - 1] = f[i - 1])
        BY <3>1, <4>1
      <4> HIDE DEF h
      <4> QED BY <2>3, <4>1, <4>2, Zenon
    <3>2. CASE ~(i <= k)
      <4>1. i = j /\ i # 0 /\ i - 1 = k /\ k \in 0 .. j /\ k <= k
        BY <3>2
      <4>2. h[i] = B(f[k], j) /\ h[k] = f[k]
        <5> HIDE DEF j
        <5> QED BY <3>2, <4>1
      <4> HIDE DEF h, j
      <4> QED BY <4>1, <4>2, Zenon
    <3> QED BY <3>1, <3>2
  <2>5. h = [i \in 0 .. j |-> h[i]]
    OBVIOUS
  <2> HIDE DEF h, j
  <2>6. Def(j, h)
    BY <2>4, <2>5, Zenon
  <2>7. j \in T
    <3> HIDE DEF Def
    <3> QED BY <2>2, <2>6
  <2> QED BY <2>7 DEF j
<1>5. T = 0 .. top
  <2>1. T \in SUBSET (0 .. top)
    OBVIOUS
  <2> HIDE DEF T
  <2> QED BY <1>1, <1>3, <1>4, <2>1, InductTo
<1>6. top \in T
  <2> HIDE DEF T
  <2> QED BY <1>1, <1>5
<1> HIDE DEF g
<1>7. Def(top, g)
  <2> HIDE DEF Def
  <2> QED BY <1>6, Zenon DEF g
<1>8. \A i \in 0 .. top : g[i] = IF i = 0 THEN c ELSE B(g[i - 1], i)
  BY <1>7, Zenon
<1>9. g[0] = c
  <2>1. 0 \in 0 .. top
    BY <1>1
  <2> QED BY <1>8, <2>1, Zenon
<1>10. \A i \in 1 .. top : g[i] = B(g[i - 1], i)
  <2> TAKE i \in 1 .. top
  <2>1. i \in 0 .. top /\ i # 0
    BY <1>1
  <2> QED BY <1>8, <2>1, Zenon
<1> HIDE DEF T, Def
<1> QED BY <1>2, <1>9, <1>10 DEF top, c, B

\* The loop that reads bytes, as the table of its states.
LEMMA BytesStepped ==
  ASSUME NEW s \in Seq(Byte), NEW n \in Nat
  PROVE  \E f : f[0] = Got(<<>>, s) /\ (\A i \in 1 .. Most(s, n) : f[i] = NextByte(f[i - 1])) /\ ReadElements(ReadByte, s, n, 0) = f[Most(s, n)]
<1> DEFINE top == Most(s, n)
           c == Got(<<>>, s)
           B(x, i) == NextByte(x)
           Def(k, f) == f = [i \in 0 .. k |-> IF i = 0 THEN c ELSE B(f[i - 1], i)]
           T == {k \in 0 .. top : \E f : Def(k, f)}
           g == CHOOSE g : Def(top, g)
<1>1. top \in Nat
  BY MostIs
<1>2. ReadElements(ReadByte, s, n, 0) = g[top]
  BY Zenon DEF ReadElements, NextByte, Leaving, Most
<1> HIDE DEF top, c, B
<1>3. 0 \in T
  <2> DEFINE z == [i \in 0 .. 0 |-> c]
  <2>1. z = [i \in 0 .. 0 |-> IF i = 0 THEN c ELSE B(z[i - 1], i)]
    <3>1. \A i \in 0 .. 0 : i = 0
      OBVIOUS
    <3>2. \A i \in 0 .. 0 : c = IF i = 0 THEN c ELSE B(z[i - 1], i)
      BY <3>1, Zenon
    <3> HIDE DEF z
    <3>3. z = [i \in 0 .. 0 |-> c]
      BY DEF z
    <3> QED BY <3>2, <3>3, Zenon
  <2> HIDE DEF z
  <2>2. 0 \in 0 .. top
    BY <1>1
  <2> QED BY <2>1, <2>2
<1>4. ASSUME NEW k \in 0 .. top - 1, k \in T PROVE k + 1 \in T
  <2>1. PICK f : Def(k, f)
    BY <1>4
  <2> DEFINE j == k + 1
             h == [i \in 0 .. j |-> IF i <= k THEN f[i] ELSE B(f[k], j)]
  <2>2. j \in 0 .. top /\ k \in 0 .. k
    BY <1>1
  <2>3. \A i \in 0 .. k : f[i] = IF i = 0 THEN c ELSE B(f[i - 1], i)
    BY <2>1, Zenon
  <2>4. ASSUME NEW i \in 0 .. j PROVE h[i] = IF i = 0 THEN c ELSE B(h[i - 1], i)
    <3>1. CASE i <= k
      <4>1. i \in 0 .. k /\ (i # 0 => i - 1 \in 0 .. j /\ i - 1 <= k)
        BY <3>1
      <4>2. h[i] = f[i] /\ (i # 0 => h[i - 1] = f[i - 1])
        BY <3>1, <4>1
      <4> HIDE DEF h
      <4> QED BY <2>3, <4>1, <4>2, Zenon
    <3>2. CASE ~(i <= k)
      <4>1. i = j /\ i # 0 /\ i - 1 = k /\ k \in 0 .. j /\ k <= k
        BY <3>2
      <4>2. h[i] = B(f[k], j) /\ h[k] = f[k]
        <5> HIDE DEF j
        <5> QED BY <3>2, <4>1
      <4> HIDE DEF h, j
      <4> QED BY <4>1, <4>2, Zenon
    <3> QED BY <3>1, <3>2
  <2>5. h = [i \in 0 .. j |-> h[i]]
    OBVIOUS
  <2> HIDE DEF h, j
  <2>6. Def(j, h)
    BY <2>4, <2>5, Zenon
  <2>7. j \in T
    <3> HIDE DEF Def
    <3> QED BY <2>2, <2>6
  <2> QED BY <2>7 DEF j
<1>5. T = 0 .. top
  <2>1. T \in SUBSET (0 .. top)
    OBVIOUS
  <2> HIDE DEF T
  <2> QED BY <1>1, <1>3, <1>4, <2>1, InductTo
<1>6. top \in T
  <2> HIDE DEF T
  <2> QED BY <1>1, <1>5
<1> HIDE DEF g
<1>7. Def(top, g)
  <2> HIDE DEF Def
  <2> QED BY <1>6, Zenon DEF g
<1>8. \A i \in 0 .. top : g[i] = IF i = 0 THEN c ELSE B(g[i - 1], i)
  BY <1>7, Zenon
<1>9. g[0] = c
  <2>1. 0 \in 0 .. top
    BY <1>1
  <2> QED BY <1>8, <2>1, Zenon
<1>10. \A i \in 1 .. top : g[i] = B(g[i - 1], i)
  <2> TAKE i \in 1 .. top
  <2>1. i \in 0 .. top /\ i # 0
    BY <1>1
  <2> QED BY <1>8, <2>1, Zenon
<1> HIDE DEF T, Def
<1> QED BY <1>2, <1>9, <1>10 DEF top, c, B

\* One iteration of either: nothing after a failure.
LEMMA NextOf ==
  /\ \A r : ~r.ok => NextPair(r) = r /\ NextByte(r) = r
  /\ \A v, t : /\ NextPair(Got(v, t)) = Leaving(ReadPair(t, NoPair), Append(v, ReadPair(t, NoPair).value))
               /\ NextByte(Got(v, t)) = Leaving(ReadByte(t, 0), Append(v, ReadByte(t, 0).value))
<1>1. ASSUME NEW r, ~r.ok PROVE NextPair(r) = r /\ NextByte(r) = r
  BY <1>1, Zenon DEF NextPair, NextByte
<1>2. ASSUME NEW v, NEW t
      PROVE  /\ NextPair(Got(v, t)) = Leaving(ReadPair(t, NoPair), Append(v, ReadPair(t, NoPair).value))
             /\ NextByte(Got(v, t)) = Leaving(ReadByte(t, 0), Append(v, ReadByte(t, 0).value))
  <2> DEFINE r == Got(v, t)
  <2>1. r.ok /\ r.value = v /\ r.rest = t
    BY GotParts
  <2> HIDE DEF r
  <2>2. NextPair(r) = Leaving(ReadPair(r.rest, NoPair), Append(r.value, ReadPair(r.rest, NoPair).value))
    BY <2>1, Zenon DEF NextPair
  <2>3. NextByte(r) = Leaving(ReadByte(r.rest, 0), Append(r.value, ReadByte(r.rest, 0).value))
    BY <2>1, Zenon DEF NextByte
  <2> QED BY <2>1, <2>2, <2>3 DEF r
<1> QED BY <1>1, <1>2

\* g are the bytes left after each of the pairs v: those of s before the first
\* and rest after the last.
Chain(g, v, s, rest) ==
  /\ g \in [0 .. Len(v) -> Seq(Byte)] /\ g[0] = s /\ g[Len(v)] = rest
  /\ \A i \in 1 .. Len(v) : g[i - 1] = WritePair(v[i]) \o g[i]

\* Every pair takes a byte at least.
LEMMA ChainShortens ==
  ASSUME SizesFit, NEW v \in Seq(Pairs), NEW s \in Seq(Byte), NEW rest, NEW g, Chain(g, v, s, rest)
  PROVE  \A i \in 0 .. Len(v) : Len(g[i]) + i <= Len(s) /\ Len(g[i]) \in Nat
<1>0. Len(v) \in Nat /\ Len(s) \in Nat /\ \A i \in 0 .. Len(v) : Len(g[i]) \in Nat
  BY LenProperties DEF Chain
<1> DEFINE T == {i \in 0 .. Len(v) : Len(g[i]) + i <= Len(s)}
<1>1. 0 \in T
  BY <1>0 DEF Chain
<1>2. ASSUME NEW i \in 0 .. Len(v) - 1, i \in T PROVE i + 1 \in T
  <2> DEFINE j == i + 1
             w == WritePair(v[j])
             t == g[j]
  <2>1. j \in 1 .. Len(v) /\ j \in 0 .. Len(v) /\ j - 1 = i /\ i \in 0 .. Len(v)
    BY <1>0
  <2>2. g[i] = w \o t /\ t \in Seq(Byte)
    BY <2>1 DEF Chain
  <2>3. w \in Seq(Byte) /\ Len(w) \in Nat \ {0}
    BY <2>1, ElementOfSeq, PairWritten
  <2> HIDE DEF w, t, j
  <2>4. Len(w \o t) = Len(w) + Len(t)
    BY <2>2, <2>3, Rejoined
  <2>5. Len(t) \in Nat /\ Len(g[i]) \in Nat
    BY <1>0, <2>1 DEF t
  <2>6. Len(t) + j <= Len(s)
    BY <1>0, <1>2, <2>2, <2>3, <2>4, <2>5 DEF j
  <2> QED BY <2>1, <2>6 DEF t, j
<1>3. T = 0 .. Len(v)
  <2>1. T \in SUBSET (0 .. Len(v))
    OBVIOUS
  <2> HIDE DEF T
  <2> QED BY <1>0, <1>1, <1>2, <2>1, InductTo
<1> QED BY <1>0, <1>3

\* Pairs that are there are read.
LEMMA PairsReadBack ==
  ASSUME SizesFit, NEW v \in Seq(Pairs), NEW s \in Seq(Byte), NEW rest, NEW g, Chain(g, v, s, rest)
  PROVE  ReadElements(ReadPair, s, Len(v), NoPair) = Got(v, rest) /\ rest \in Seq(Byte)
<1> DEFINE n == Len(v)
           most == Most(s, n)
<1>0. n \in Nat /\ Len(s) \in Nat
  BY LenProperties
<1>1. most = n
  <2>1. n \in 0 .. n
    BY <1>0
  <2>2. Len(g[n]) + n <= Len(s) /\ Len(g[n]) \in Nat
    BY <2>1, ChainShortens
  <2>3. n <= Len(s) + 1
    <3> HIDE DEF n
    <3> QED BY <1>0, <2>2
  <2> QED BY <2>3 DEF Most, Lesser
<1>2. PICK f : f[0] = Got(<<>>, s) /\ (\A i \in 1 .. most : f[i] = NextPair(f[i - 1]))
               /\ ReadElements(ReadPair, s, n, NoPair) = f[most]
  <2> HIDE DEF n
  <2> QED BY <1>0, PairsStepped DEF most
<1> DEFINE T == {i \in 0 .. n : f[i] = Got(SubSeq(v, 1, i), g[i])}
<1>3. 0 \in T
  <2>1. SubSeq(v, 1, 0) = <<>>
    OBVIOUS
  <2>2. f[0] = Got(SubSeq(v, 1, 0), g[0])
    BY <1>2, <2>1 DEF Chain
  <2> HIDE DEF n
  <2> QED BY <1>0, <2>2
<1>4. ASSUME NEW i \in 0 .. n - 1, i \in T PROVE i + 1 \in T
  <2> DEFINE j == i + 1
             p == v[j]
             t == g[j]
             u == SubSeq(v, 1, i)
  <2>1. j \in 1 .. n /\ j \in 0 .. n /\ j - 1 = i /\ j \in 1 .. most /\ i \in 0 .. Len(v) - 1
    BY <1>0, <1>1
  <2>2. g[i] = WritePair(p) \o t /\ t \in Seq(Byte)
    BY <2>1 DEF Chain
  <2>3. p \in Pairs
    BY <2>1, ElementOfSeq
  <2>4. u \o <<p>> = SubSeq(v, 1, j) /\ u \in Seq(Pairs)
    BY <2>1, FrontGrows
  <2>5. f[i] = Got(u, g[i])
    BY <1>4
  <2>6. f[j] = NextPair(f[i])
    BY <1>2, <2>1
  <2> HIDE DEF p, t, u, j
  <2>7. NextPair(f[i]) = Leaving(ReadPair(g[i], NoPair), Append(u, ReadPair(g[i], NoPair).value))
    BY <2>5, NextOf
  <2>8. ReadPair(g[i], NoPair) = Got(p, t)
    BY <2>2, <2>3, PairReadBack
  <2>9. f[j] = Got(Append(u, p), t)
    BY <2>6, <2>7, <2>8, GotParts, GotLeft
  <2>10. Append(u, p) = u \o <<p>>
    BY <2>3, <2>4, AppendIsConcat
  <2> QED BY <2>1, <2>4, <2>9, <2>10 DEF t, j
<1>5. T = 0 .. n
  <2>1. T \in SUBSET (0 .. n)
    OBVIOUS
  <2> HIDE DEF T
  <2> QED BY <1>0, <1>3, <1>4, <2>1, InductTo
<1>6. f[n] = Got(SubSeq(v, 1, n), g[n])
  <2>1. n \in T
    <3> HIDE DEF T, n
    <3> QED BY <1>0, <1>5
  <2> QED BY <2>1
<1>7. SubSeq(v, 1, n) = v
  OBVIOUS
<1>8. g[n] = rest /\ rest \in Seq(Byte)
  <2>1. n \in 0 .. Len(v)
    BY <1>0
  <2> QED BY <2>1 DEF Chain
<1> QED BY <1>1, <1>2, <1>6, <1>7, <1>8

\* What is read as n pairs is n pairs, or fails after no more than there are bytes.
PairsRead(s, n, r) ==
  \/ Failed(r) /\ Len(r.value) \in 1 .. Len(s) + 1
  \/ \E v \in Seq(Pairs), rest \in Seq(Byte) : Len(v) = n /\ r = Got(v, rest) /\ \E g : Chain(g, v, s, rest)

\* One pair more.
LEMMA ChainLonger ==
  ASSUME SizesFit, NEW v \in Seq(Pairs), NEW s \in Seq(Byte), NEW t \in Seq(Byte), NEW g, Chain(g, v, s, t),
         NEW p \in Pairs, NEW rest \in Seq(Byte), t = WritePair(p) \o rest
  PROVE  \E h : Chain(h, Append(v, p), s, rest)
<1> DEFINE n == Len(v)
           u == Append(v, p)
           h == [i \in 0 .. n + 1 |-> IF i <= n THEN g[i] ELSE rest]
<1>0. n \in Nat
  BY LenProperties
<1>1. u \in Seq(Pairs) /\ Len(u) = n + 1 /\ (\A i \in 1 .. n : u[i] = v[i]) /\ u[n + 1] = p
  BY AppendProperties
<1> HIDE DEF u
<1>2. g \in [0 .. n -> Seq(Byte)] /\ g[0] = s /\ g[n] = t /\ \A i \in 1 .. n : g[i - 1] = WritePair(v[i]) \o g[i]
  BY DEF Chain
<1> HIDE DEF n
<1>3. h \in [0 .. n + 1 -> Seq(Byte)]
  BY <1>0, <1>2
<1>4. h[0] = s /\ h[n + 1] = rest
  BY <1>0, <1>2
<1>5. ASSUME NEW i \in 1 .. n + 1 PROVE h[i - 1] = WritePair(u[i]) \o h[i]
  <2>1. CASE i <= n
    <3>1. i \in 1 .. n /\ i - 1 <= n /\ i \in 0 .. n + 1 /\ i - 1 \in 0 .. n + 1
      BY <1>0, <2>1
    <3>2. h[i - 1] = g[i - 1] /\ h[i] = g[i]
      BY <2>1, <3>1
    <3> HIDE DEF h
    <3> QED BY <1>1, <1>2, <3>1, <3>2
  <2>2. CASE ~(i <= n)
    <3>1. i = n + 1 /\ i - 1 = n /\ n \in 0 .. n + 1 /\ n <= n
      BY <1>0, <2>2
    <3>2. h[n] = g[n]
      BY <3>1
    <3> HIDE DEF h
    <3> QED BY <1>1, <1>2, <1>4, <3>1, <3>2
  <2> QED BY <2>1, <2>2
<1> HIDE DEF h
<1>6. Chain(h, u, s, rest)
  BY <1>1, <1>3, <1>4, <1>5 DEF Chain
<1> QED BY <1>6 DEF u

\* Any bytes are n pairs, or the reading of one fails.
LEMMA PairsAreRead ==
  ASSUME SizesFit, NEW s \in Seq(Byte), NEW n \in Nat
  PROVE  PairsRead(s, n, ReadElements(ReadPair, s, n, NoPair))
<1> DEFINE most == Most(s, n)
<1>0. Len(s) \in Nat /\ most \in 0 .. n /\ most \in Nat /\ most <= Len(s) + 1 /\ (most # n => most = Len(s) + 1)
  BY LenProperties, MostIs
<1>1. PICK f : f[0] = Got(<<>>, s) /\ (\A i \in 1 .. most : f[i] = NextPair(f[i - 1]))
               /\ ReadElements(ReadPair, s, n, NoPair) = f[most]
  BY PairsStepped
<1> HIDE DEF most
<1> DEFINE T == {i \in 0 .. most : PairsRead(s, i, f[i])}
<1>2. 0 \in T
  <2> DEFINE v == <<>>
             g == [i \in 0 .. 0 |-> s]
  <2>1. v \in Seq(Pairs) /\ Len(v) = 0
    OBVIOUS
  <2>2. Chain(g, v, s, s)
    BY DEF Chain
  <2>3. f[0] = Got(v, s)
    BY <1>1
  <2> HIDE DEF v, g
  <2>4. PairsRead(s, 0, f[0])
    BY <2>1, <2>2, <2>3 DEF PairsRead
  <2> QED BY <1>0, <2>4
<1>3. ASSUME NEW i \in 0 .. most - 1, i \in T PROVE i + 1 \in T
  <2> DEFINE j == i + 1
             r == f[i]
  <2>1. j \in 1 .. most /\ j \in 0 .. most /\ j - 1 = i
    BY <1>0
  <2>2. f[j] = NextPair(r)
    BY <1>1, <2>1
  <2>3. PairsRead(s, i, r)
    BY <1>3
  <2> HIDE DEF j, r
  <2>4. CASE Failed(r) /\ Len(r.value) \in 1 .. Len(s) + 1
    <3>1. ~r.ok
      BY <2>4, FailedIs
    <3>2. f[j] = r
      BY <2>2, <3>1, NextOf
    <3>3. PairsRead(s, j, f[j])
      BY <2>4, <3>2 DEF PairsRead
    <3> QED BY <2>1, <3>3 DEF j
  <2>5. CASE \E v \in Seq(Pairs), t \in Seq(Byte) : Len(v) = i /\ r = Got(v, t) /\ \E g : Chain(g, v, s, t)
    <3>1. PICK v \in Seq(Pairs), t \in Seq(Byte) : Len(v) = i /\ r = Got(v, t) /\ \E g : Chain(g, v, s, t)
      BY <2>5
    <3>2. PICK g : Chain(g, v, s, t)
      BY <3>1
    <3> DEFINE e == ReadPair(t, NoPair)
               u == Append(v, e.value)
    <3>3. f[j] = Leaving(e, u)
      BY <2>2, <3>1, NextOf
    <3>4. PairRead(t, e)
      BY PairIsRead
    <3> HIDE DEF e
    <3>5. CASE Failed(e)
      <4>1. Failed(f[j]) /\ f[j].value = u
        BY <3>3, <3>5, FailedIs
      <4>2. Len(u) = i + 1
        <5> DEFINE S == Pairs \cup {e.value}
        <5>1. v \in Seq(S) /\ e.value \in S
          <6>1. Pairs \subseteq S /\ e.value \in S
            OBVIOUS
          <6> HIDE DEF S
          <6>2. v \in [1 .. Len(v) -> S] /\ Len(v) \in Nat
            <7>1. v \in [1 .. Len(v) -> Pairs] /\ Len(v) \in Nat
              BY LenProperties
            <7> QED BY <6>1, <7>1
          <6> QED BY <6>1, <6>2, RowIsSeq
        <5> HIDE DEF S
        <5>2. Len(Append(v, e.value)) = Len(v) + 1
          BY <5>1, AppendProperties
        <5> QED BY <3>1, <5>2
      <4>3. i + 1 \in 1 .. Len(s) + 1
        BY <1>0
      <4>4. PairsRead(s, j, f[j])
        BY <4>1, <4>2, <4>3 DEF PairsRead
      <4> QED BY <2>1, <4>4 DEF j
    <3>6. CASE \E p \in Pairs, rest \in Seq(Byte) : e = Got(p, rest) /\ t = WritePair(p) \o rest
      <4>1. PICK p \in Pairs, rest \in Seq(Byte) : e = Got(p, rest) /\ t = WritePair(p) \o rest
        BY <3>6
      <4>2. e.value = p
        BY <4>1, GotParts
      <4>3. f[j] = Got(Append(v, p), rest)
        BY <3>3, <4>1, <4>2, GotLeft
      <4>4. \E h : Chain(h, Append(v, p), s, rest)
        BY <3>2, <4>1, ChainLonger
      <4>5. Append(v, p) \in Seq(Pairs) /\ Len(Append(v, p)) = j
        BY <3>1, AppendProperties DEF j
      <4>6. PairsRead(s, j, f[j])
        BY <4>3, <4>4, <4>5 DEF PairsRead
      <4> QED BY <2>1, <4>6 DEF j
    <3> QED BY <3>4, <3>5, <3>6 DEF PairRead
  <2> QED BY <2>3, <2>4, <2>5 DEF PairsRead
<1>4. T = 0 .. most
  <2>1. T \in SUBSET (0 .. most)
    OBVIOUS
  <2> HIDE DEF T
  <2> QED BY <1>0, <1>2, <1>3, <2>1, InductTo
<1>5. PairsRead(s, most, f[most])
  <2>1. most \in T
    <3> HIDE DEF T
    <3> QED BY <1>0, <1>4
  <2> QED BY <2>1
<1>6. CASE Failed(f[most]) /\ Len(f[most].value) \in 1 .. Len(s) + 1
  BY <1>1, <1>6 DEF PairsRead
<1>7. CASE \E v \in Seq(Pairs), rest \in Seq(Byte) : Len(v) = most /\ f[most] = Got(v, rest) /\ \E g : Chain(g, v, s, rest)
  <2>1. PICK v \in Seq(Pairs), rest \in Seq(Byte) : Len(v) = most /\ f[most] = Got(v, rest) /\ \E g : Chain(g, v, s, rest)
    BY <1>7
  <2>2. PICK g : Chain(g, v, s, rest)
    BY <2>1
  <2>3. most <= Len(s)
    <3>1. most \in 0 .. Len(v)
      BY <1>0, <2>1
    <3>2. Len(g[most]) + most <= Len(s) /\ Len(g[most]) \in Nat
      BY <2>2, <3>1, ChainShortens
    <3> QED BY <1>0, <3>2
  <2>4. most = n
    BY <1>0, <2>3
  <2> QED BY <1>1, <1>5, <2>4
<1> QED BY <1>5, <1>6, <1>7 DEF PairsRead

-----------------------------------------------------------------------------
\* Bytes one after the other are read as they are.
LEMMA BytesReadBack ==
  ASSUME NEW v \in Seq(Byte), NEW rest \in Seq(Byte)
  PROVE  ReadElements(ReadByte, v \o rest, Len(v), 0) = Got(v, rest)
<1> DEFINE s == v \o rest
           n == Len(v)
           most == Most(s, n)
           g == [i \in 0 .. n |-> SubSeq(s, i + 1, Len(s))]
<1>0. n \in Nat /\ Len(rest) \in Nat /\ s \in Seq(Byte) /\ Len(s) = n + Len(rest) /\ Len(s) \in Nat
  BY LenProperties, ConcatProperties
<1>1. most = n
  BY <1>0 DEF Most, Lesser
<1> HIDE DEF s
<1>2. PICK f : f[0] = Got(<<>>, s) /\ (\A i \in 1 .. most : f[i] = NextByte(f[i - 1]))
               /\ ReadElements(ReadByte, s, n, 0) = f[most]
  <2> HIDE DEF n
  <2> QED BY <1>0, BytesStepped DEF most
<1>3. g[0] = s /\ g[n] = rest
  <2>1. SubSeq(s, n + 1, Len(s)) = rest /\ n \in 0 .. n /\ 0 \in 0 .. n
    BY <1>0, SameHalves DEF s
  <2>2. SubSeq(s, 0 + 1, Len(s)) = s
    <3>1. 0 + 1 = 1 /\ SubSeq(s, 1, Len(s)) = s
      BY <1>0
    <3> QED BY <3>1, Zenon
  <2> HIDE DEF n
  <2> QED BY <2>1, <2>2
<1>4. ASSUME NEW i \in 0 .. n - 1
      PROVE  g[i + 1] \in Seq(Byte) /\ v[i + 1] \in Byte /\ g[i] = <<v[i + 1]>> \o g[i + 1]
  <2> DEFINE j == i + 1
             t == SubSeq(s, i + 1, Len(s))
             u == SubSeq(s, j + 1, Len(s))
             m == Len(s)
  <2>1. j \in 1 .. n /\ j \in 0 .. n /\ i \in 0 .. n /\ j \in 0 .. Len(s) /\ m \in j .. Len(s) /\ m \in i .. Len(s) /\ i \in 0 .. Len(s)
        /\ i \in Nat /\ j = i + 1
    BY <1>0
  <2>2. v[j] \in Byte /\ s[j] = v[j]
    <3>1. s[j] = v[j]
      BY <1>0, <2>1, ConcatProperties DEF s
    <3> QED BY <2>1, <3>1, ElementOfSeq
  <2>3. t \in Seq(Byte) /\ Len(t) = m - i /\ \A k \in 1 .. m - i : t[k] = s[i + k]
    <3> HIDE DEF t, m, n, j
    <3> QED BY <1>0, <2>1, PartOf DEF t, m
  <2>4. u \in Seq(Byte) /\ Len(u) = m - j /\ \A k \in 1 .. m - j : u[k] = s[j + k]
    <3> HIDE DEF u, m, n, j
    <3> QED BY <1>0, <2>1, PartOf DEF u, m
  <2>5. g[i] = t /\ g[j] = u
    BY <2>1
  <2> HIDE DEF t, u, g
  <2> DEFINE b == v[j]
             w == <<b>> \o u
  <2>6. w \in Seq(Byte) /\ Len(w) = 1 + (m - j) /\ \A k \in 1 .. 1 + (m - j) : w[k] = IF k <= 1 THEN b ELSE u[k - 1]
    <3> HIDE DEF b, m, j
    <3>1. b \in Byte
      BY <2>2 DEF b
    <3>2. <<b>> \in Seq(Byte) /\ Len(<<b>>) = 1 /\ <<b>>[1] = b
      BY <3>1
    <3>3. w \in Seq(Byte) /\ Len(w) = 1 + Len(u) /\ \A k \in 1 .. 1 + Len(u) : w[k] = IF k <= 1 THEN <<b>>[k] ELSE u[k - 1]
      BY <2>4, <3>2, ConcatProperties
    <3>4. ASSUME NEW k \in 1 .. 1 + (m - j) PROVE w[k] = IF k <= 1 THEN b ELSE u[k - 1]
      <4>1. w[k] = IF k <= 1 THEN <<b>>[k] ELSE u[k - 1]
        BY <2>4, <3>3
      <4>2. k <= 1 => k = 1
        OBVIOUS
      <4> QED BY <3>2, <4>1, <4>2
    <3> QED BY <2>4, <3>3, <3>4
  <2> HIDE DEF w
  <2>7. Len(w) = Len(t)
    BY <1>0, <2>1, <2>3, <2>6
  <2>8. ASSUME NEW k \in 1 .. Len(t) PROVE w[k] = t[k]
    <3>1. k \in 1 .. m - i /\ k \in 1 .. 1 + (m - j)
      BY <1>0, <2>1, <2>3
    <3>2. t[k] = s[i + k]
      BY <2>3, <3>1
    <3>3. CASE k <= 1
      <4>1. k = 1 /\ i + k = j
        BY <2>1, <3>1, <3>3
      <4> QED BY <2>2, <2>6, <3>1, <3>2, <3>3, <4>1
    <3>4. CASE ~(k <= 1)
      <4>1. k - 1 \in 1 .. m - j /\ j + (k - 1) = i + k
        BY <1>0, <2>1, <3>1, <3>4
      <4>2. u[k - 1] = s[i + k]
        <5>1. u[k - 1] = s[j + (k - 1)]
          <6> HIDE DEF j, m
          <6> QED BY <2>4, <4>1
        <5> QED BY <4>1, <5>1, Zenon
      <4> QED BY <2>6, <3>1, <3>2, <3>4, <4>2
    <3> QED BY <3>3, <3>4
  <2>9. w = t
    BY <2>3, <2>6, <2>7, <2>8, SeqEqual
  <2> QED BY <2>2, <2>4, <2>5, <2>9 DEF w, j
<1> DEFINE T == {i \in 0 .. n : f[i] = Got(SubSeq(v, 1, i), g[i])}
<1>5. 0 \in T
  <2>1. SubSeq(v, 1, 0) = <<>>
    OBVIOUS
  <2>2. f[0] = Got(SubSeq(v, 1, 0), g[0])
    <3> HIDE DEF g
    <3> QED BY <1>2, <1>3, <2>1
  <2> HIDE DEF n, g
  <2> QED BY <1>0, <2>2
<1>6. ASSUME NEW i \in 0 .. n - 1, i \in T PROVE i + 1 \in T
  <2> DEFINE j == i + 1
             b == v[j]
             t == g[j]
             u == SubSeq(v, 1, i)
  <2>1. j \in 1 .. n /\ j \in 0 .. n /\ j - 1 = i /\ j \in 1 .. most /\ i \in 0 .. Len(v) - 1
    BY <1>0, <1>1
  <2>2. g[i] = <<b>> \o t /\ t \in Seq(Byte) /\ b \in Byte
    <3> HIDE DEF g
    <3> QED BY <1>4, <2>1
  <2>4. u \o <<b>> = SubSeq(v, 1, j) /\ u \in Seq(Byte)
    BY <2>1, FrontGrows
  <2>5. f[i] = Got(u, g[i])
    BY <1>6
  <2>6. f[j] = NextByte(f[i])
    BY <1>2, <2>1
  <2> HIDE DEF b, t, u, j, g
  <2>7. NextByte(f[i]) = Leaving(ReadByte(g[i], 0), Append(u, ReadByte(g[i], 0).value))
    BY <2>5, NextOf
  <2>8. ReadByte(g[i], 0) = Got(b, t)
    BY <2>2, ByteReadBack
  <2>9. f[j] = Got(Append(u, b), t)
    BY <2>6, <2>7, <2>8, GotParts, GotLeft
  <2>10. Append(u, b) = u \o <<b>>
    BY <2>2, <2>4, AppendIsConcat
  <2> QED BY <2>1, <2>4, <2>9, <2>10 DEF t, j
<1>7. T = 0 .. n
  <2>1. T \in SUBSET (0 .. n)
    OBVIOUS
  <2> HIDE DEF T
  <2> QED BY <1>0, <1>5, <1>6, <2>1, InductTo
<1>8. f[n] = Got(SubSeq(v, 1, n), g[n])
  <2>1. n \in T
    <3> HIDE DEF T, n
    <3> QED BY <1>0, <1>7
  <2> QED BY <2>1
<1>9. SubSeq(v, 1, n) = v
  OBVIOUS
<1> HIDE DEF g
<1> QED BY <1>1, <1>2, <1>3, <1>8, <1>9 DEF s

\* And more than there are cannot be read.
LEMMA BytesRunOut ==
  ASSUME NEW s \in Seq(Byte), NEW n \in Nat, n > Len(s)
  PROVE  Failed(ReadElements(ReadByte, s, n, 0))
<1> DEFINE m == Len(s)
           most == Most(s, n)
<1>0. m \in Nat /\ most = m + 1
  BY LenProperties DEF Most, Lesser
<1>1. PICK f : f[0] = Got(<<>>, s) /\ (\A i \in 1 .. most : f[i] = NextByte(f[i - 1]))
               /\ ReadElements(ReadByte, s, n, 0) = f[most]
  BY BytesStepped
<1>2. Most(s, m) = m
  BY <1>0 DEF Most, Lesser
<1>3. PICK h : h[0] = Got(<<>>, s) /\ (\A i \in 1 .. m : h[i] = NextByte(h[i - 1]))
               /\ ReadElements(ReadByte, s, m, 0) = h[m]
  <2>1. \E h : h[0] = Got(<<>>, s) /\ (\A i \in 1 .. Most(s, m) : h[i] = NextByte(h[i - 1]))
               /\ ReadElements(ReadByte, s, m, 0) = h[Most(s, m)]
    <3> HIDE DEF m
    <3> QED BY <1>0, BytesStepped
  <2> QED BY <1>2, <2>1
<1> HIDE DEF most, m
<1> DEFINE T == {i \in 0 .. m : f[i] = h[i]}
<1>4. 0 \in T
  BY <1>0, <1>1, <1>3
<1>5. ASSUME NEW i \in 0 .. m - 1, i \in T PROVE i + 1 \in T
  <2>1. i + 1 \in 1 .. m /\ i + 1 \in 1 .. most /\ i + 1 \in 0 .. m /\ (i + 1) - 1 = i
    BY <1>0
  <2>2. f[i + 1] = NextByte(f[i]) /\ h[i + 1] = NextByte(h[i])
    BY <1>1, <1>3, <2>1
  <2> QED BY <1>5, <2>1, <2>2
<1>6. T = 0 .. m
  <2>1. T \in SUBSET (0 .. m)
    OBVIOUS
  <2> HIDE DEF T
  <2> QED BY <1>0, <1>4, <1>5, <2>1, InductTo
<1>7. f[m] = Got(s, <<>>)
  <2>1. m \in T
    <3> HIDE DEF T
    <3> QED BY <1>0, <1>6
  <2>2. f[m] = h[m]
    BY <2>1
  <2>3. ReadElements(ReadByte, s \o <<>>, Len(s), 0) = Got(s, <<>>)
    <3>1. <<>> \in Seq(Byte)
      OBVIOUS
    <3> QED BY <3>1, BytesReadBack
  <2>4. s \o <<>> = s
    OBVIOUS
  <2> QED BY <1>3, <2>2, <2>3, <2>4 DEF m
<1>8. f[most] = NextByte(f[m])
  <2>1. most \in 1 .. most /\ most - 1 = m
    BY <1>0
  <2> QED BY <1>1, <2>1
<1>9. ReadByte(<<>>, 0) = Ended(0)
  <2>1. <<>> \in Seq(Byte) /\ ~\E b \in Byte, t \in Seq(Byte) : <<>> = <<b>> \o t
    <3>1. \A b \in Byte, t \in Seq(Byte) : <<>> # <<b>> \o t
      <4> TAKE b \in Byte, t \in Seq(Byte)
      <4> DEFINE w == <<b>> \o t
      <4>1. Len(w) = 1 + Len(t) /\ Len(t) \in Nat
        BY OneGiven, LenProperties
      <4>2. Len(<<>>) = 0
        OBVIOUS
      <4> HIDE DEF w
      <4>3. <<>> # w
        BY <4>1, <4>2
      <4> QED BY <4>3, Zenon DEF w
    <3>2. <<>> \in Seq(Byte)
      OBVIOUS
    <3> QED BY <3>1, <3>2, Zenon
  <2>2. ByteRead(<<>>, 0, ReadByte(<<>>, 0))
    BY <2>1, ByteIsRead
  <2> QED BY <2>1, <2>2 DEF ByteRead
<1>10. NextByte(f[m]) = Leaving(Ended(0), Append(s, Ended(0).value))
  BY <1>7, <1>9, NextOf
<1>11. Failed(f[most])
  BY <1>8, <1>10, EndedParts, EndedLeft
<1> QED BY <1>1, <1>11
=============================================================================
