-------------------------- MODULE TransactionsProofs --------------------------
(***************************************************************************)
(* Proofs about Transactions, for transactions of any length, any amounts  *)
(* of money and any hash type.                                             *)
(***************************************************************************)
EXTENDS Transactions, EncodingProofs, SequenceTheorems
LOCAL INSTANCE SequencesExt

-----------------------------------------------------------------------------
(***************************************************************************)
(* Powers and digits.                                                      *)
(***************************************************************************)
LEMMA TenIs ==
  /\ Ten \in Nat /\ Ten >= 2 /\ MaxExp \in Nat /\ Ten = MaxExp + 1 /\ MaxExp >= 1
  /\ MAX_MONEY \in Nat /\ VarIntModulus \in Nat /\ MAX_MONEY * Ten < VarIntModulus
<1>1. Ten \in Nat \ {0, 1} /\ MAX_MONEY \in Nat /\ MAX_MONEY * Ten < VarIntModulus
  BY TransactionAssumption
<1>2. VarIntModulus \in Nat
  BY EncodingAssumption
<1> QED BY <1>1, <1>2 DEF MaxExp

LEMMA PowerIs ==
  /\ TenTo[0] = 1
  /\ \A e \in 0 .. MaxExp - 1 : TenTo[e + 1] = Ten * TenTo[e]
  /\ \A e \in 0 .. MaxExp : TenTo[e] \in Nat \ {0}
<1> DEFINE Def(g, m) == g = [e \in 0 .. m |-> IF e = 0 THEN 1 ELSE Ten * g[e - 1]]
           op(m) == CHOOSE g : Def(g, m)
           T == {m \in Nat : \E g : Def(g, m)}
<1>1. MaxExp \in Nat /\ Ten \in Nat /\ Ten >= 2
  BY TenIs
<1>2. 0 \in T
  <2>1. Def([e \in 0 .. 0 |-> 1], 0)
    OBVIOUS
  <2> QED BY <2>1
<1>3. ASSUME NEW m \in T PROVE m + 1 \in T
  <2>1. m \in Nat
    OBVIOUS
  <2>2. PICK g : Def(g, m)
    OBVIOUS
  <2> DEFINE f == [e \in 0 .. m + 1 |-> IF e <= m THEN g[e] ELSE Ten * g[m]]
  <2>3. Def(f, m + 1)
    <3>1. \A e \in 0 .. m + 1 : f[e] = IF e = 0 THEN 1 ELSE Ten * f[e - 1]
      <4> TAKE e \in 0 .. m + 1
      <4>1. CASE e <= m
        <5>1. g[e] = IF e = 0 THEN 1 ELSE Ten * g[e - 1]
          BY <2>1, <2>2, <4>1
        <5>2. e # 0 => f[e - 1] = g[e - 1]
          BY <2>1, <4>1
        <5> QED BY <2>1, <4>1, <5>1, <5>2
      <4>2. CASE e = m + 1
        BY <2>1, <4>2
      <4> QED BY <2>1, <4>1, <4>2
    <3> QED BY <3>1, <2>1
  <2> HIDE DEF Def
  <2> QED BY <2>1, <2>3
<1>4. Def(op(MaxExp), MaxExp)
  <2> HIDE DEF Def
  <2>1. T \in SUBSET Nat
    OBVIOUS
  <2>2. T = Nat
    <3> HIDE DEF T
    <3> QED BY <1>2, <1>3, <2>1, Induct
  <2>3. \E g : Def(g, MaxExp)
    BY <1>1, <2>2
  <2> QED BY <2>3, Zenon DEF op
<1> DEFINE p == TenTo
<1>5. p = [e \in 0 .. MaxExp |-> IF e = 0 THEN 1 ELSE Ten * p[e - 1]]
  BY <1>4, Zenon DEF TenTo
<1> HIDE DEF p
<1>6. \A e \in 0 .. MaxExp : p[e] = IF e = 0 THEN 1 ELSE Ten * p[e - 1]
  BY <1>5
<1>7. p[0] = 1
  BY <1>1, <1>6
<1>8. ASSUME NEW e \in 0 .. MaxExp - 1 PROVE p[e + 1] = Ten * p[e]
  <2>1. e + 1 \in 0 .. MaxExp /\ e + 1 # 0 /\ e + 1 - 1 = e
    BY <1>1
  <2>2. p[e + 1] = Ten * p[e + 1 - 1]
    BY <1>6, <2>1
  <2> QED BY <2>1, <2>2
<1> DEFINE U == {e \in 0 .. MaxExp : p[e] \in Nat \ {0}}
<1>9. U = 0 .. MaxExp
  <2>1. U \in SUBSET (0 .. MaxExp) /\ 0 \in U
    BY <1>1, <1>7
  <2>2. ASSUME NEW e \in 0 .. MaxExp - 1, e \in U PROVE e + 1 \in U
    <3>1. p[e] \in Nat \ {0} /\ e + 1 \in 0 .. MaxExp
      BY <1>1, <2>2
    <3>2. Ten * p[e] \in Nat \ {0}
      BY <1>1, <3>1
    <3> QED BY <1>8, <3>1, <3>2
  <2> HIDE DEF U
  <2> QED BY <1>1, <2>1, <2>2, InductTo
<1> QED BY <1>7, <1>8, <1>9 DEF p

-----------------------------------------------------------------------------
(***************************************************************************)
(* Compressed amounts.                                                     *)
(***************************************************************************)
LEMMA EndsInZero == \A n \in Nat : EndsIn(n, 0)
BY PowerIs DEF EndsIn

\* The exponent is the greatest there is.
LEMMA ExponentIs ==
  ASSUME NEW n \in Nat
  PROVE  /\ Exponent(n) \in 0 .. MaxExp /\ EndsIn(n, Exponent(n))
         /\ \A f \in Exponent(n) + 1 .. MaxExp : ~EndsIn(n, f)
<1> DEFINE Good(e) == EndsIn(n, e) /\ \A f \in e + 1 .. MaxExp : ~EndsIn(n, f)
           T == {k \in 0 .. MaxExp : EndsIn(n, MaxExp - k)}
<1>1. MaxExp \in Nat
  BY TenIs
<1>2. MaxExp \in T /\ T \in SUBSET Nat
  BY <1>1, EndsInZero
<1>3. PICK k \in T : \A j \in T : k <= j
  <2>1. T # {}
    BY <1>2
  <2> HIDE DEF T
  <2> QED BY <1>2, <2>1, LeastOf
<1>4. MaxExp - k \in 0 .. MaxExp /\ EndsIn(n, MaxExp - k)
  BY <1>1
<1>5. ASSUME NEW f \in (MaxExp - k) + 1 .. MaxExp PROVE ~EndsIn(n, f)
  <2>1. MaxExp - f \in 0 .. MaxExp /\ MaxExp - (MaxExp - f) = f /\ MaxExp - f < k
    BY <1>1
  <2>2. MaxExp - f \notin T
    BY <1>3, <2>1
  <2> QED BY <2>1, <2>2
<1>6. \E e \in 0 .. MaxExp : Good(e)
  BY <1>4, <1>5
<1> HIDE DEF Good
<1>7. Exponent(n) \in 0 .. MaxExp /\ Good(Exponent(n))
  <2>1. Exponent(n) = CHOOSE e \in 0 .. MaxExp : Good(e)
    BY DEF Exponent, Good
  <2> QED BY <1>6, <2>1
<1> QED BY <1>7 DEF Good

LEMMA Cancel ==
  ASSUME NEW t \in Nat \ {0}, NEW a \in Nat, NEW b \in Nat, t * a = t * b
  PROVE  a = b
<1>1. a >= b + 1 => t * a >= t * b + t
  BY Monotone
<1>2. b >= a + 1 => t * b >= t * a + t
  BY Monotone
<1>3. t * a \in Nat /\ t * b \in Nat
  OBVIOUS
<1> QED BY <1>1, <1>2, <1>3

\* Of a multiple the quotient is the factor.
LEMMA Multiple ==
  ASSUME NEW t \in Nat \ {0}, NEW m \in Nat, NEW n, n = t * m
  PROVE  n % t = 0 /\ n \div t = m
<1>1. n = t * m + 0 /\ 0 \in 0 .. t - 1
  OBVIOUS
<1> QED BY <1>1, DivisionIs

LEMMA PowersDivide ==
  ASSUME NEW e \in 0 .. MaxExp, NEW f \in e .. MaxExp
  PROVE  \E k \in Nat : TenTo[f] = TenTo[e] * k
<1> DEFINE T == {j \in 0 .. MaxExp - e : \E k \in Nat : TenTo[e + j] = TenTo[e] * k}
<1>1. MaxExp \in Nat /\ Ten \in Nat /\ TenTo[e] \in Nat
  BY TenIs, PowerIs
<1>2. 0 \in T
  <2>1. TenTo[e + 0] = TenTo[e] * 1
    BY <1>1
  <2> QED BY <1>1, <2>1
<1>3. ASSUME NEW j \in 0 .. MaxExp - e - 1, j \in T PROVE j + 1 \in T
  <2>1. PICK k \in Nat : TenTo[e + j] = TenTo[e] * k
    BY <1>3
  <2>2. e + j \in 0 .. MaxExp - 1 /\ e + (j + 1) = (e + j) + 1
    BY <1>1
  <2>3. TenTo[e + (j + 1)] = Ten * TenTo[e + j]
    BY <2>2, PowerIs
  <2>4. TenTo[e + (j + 1)] = TenTo[e] * (Ten * k) /\ Ten * k \in Nat
    BY <1>1, <2>1, <2>3
  <2> QED BY <1>1, <2>4
<1>4. T = 0 .. MaxExp - e
  <2>1. T \in SUBSET (0 .. MaxExp - e) /\ MaxExp - e \in Nat
    BY <1>1
  <2> HIDE DEF T
  <2> QED BY <1>2, <1>3, <2>1, InductTo
<1>5. f - e \in T /\ e + (f - e) = f
  <2> HIDE DEF T
  <2> QED BY <1>1, <1>4
<1> QED BY <1>5

\* The exponent of m times a power is the one of the power, if m has no zero.
LEMMA ExponentOf ==
  ASSUME NEW e \in 0 .. MaxExp, NEW m \in Nat \ {0}, e < MaxExp => m % Ten # 0,
         NEW n, n = TenTo[e] * m
  PROVE  Exponent(n) = e
<1> DEFINE t == TenTo[e]
           x == Exponent(n)
<1>1. t \in Nat \ {0} /\ n \in Nat /\ MaxExp \in Nat /\ Ten \in Nat \ {0}
  BY TenIs, PowerIs
<1>2. EndsIn(n, e)
  BY <1>1, Multiple DEF EndsIn
<1>3. x \in 0 .. MaxExp /\ EndsIn(n, x) /\ \A f \in x + 1 .. MaxExp : ~EndsIn(n, f)
  BY <1>1, ExponentIs
<1> HIDE DEF x
<1>4. x >= e
  BY <1>1, <1>2, <1>3
<1>5. ~(x > e)
  <2> SUFFICES ASSUME x > e PROVE FALSE
    OBVIOUS
  <2>1. e + 1 \in 0 .. MaxExp /\ x \in e + 1 .. MaxExp /\ e \in 0 .. MaxExp - 1 /\ e < MaxExp
    BY <1>1, <1>3
  <2>2. PICK k \in Nat : TenTo[x] = TenTo[e + 1] * k
    BY <2>1, PowersDivide
  <2>3. TenTo[e + 1] = Ten * t /\ TenTo[x] \in Nat \ {0}
    BY <1>3, <2>1, PowerIs
  <2> DEFINE d == TenTo[x]
             j == n \div d
  <2>4. n = d * j /\ j \in Nat
    <3>1. d \in Nat \ {0} /\ n % d = 0
      BY <1>3, <2>3 DEF EndsIn
    <3>2. n = d * j + (n % d) /\ j \in Nat
      <4> HIDE DEF d
      <4> QED BY <1>1, <3>1, Division
    <3>3. d * j \in Nat
      BY <3>1, <3>2
    <3> HIDE DEF d, j
    <3> QED BY <3>1, <3>2, <3>3
  <2> HIDE DEF d, j
  <2>5. d = (Ten * t) * k
    BY <2>2, <2>3 DEF d
  <2>6. t * m = t * (Ten * (k * j))
    <3>1. t * m = ((Ten * t) * k) * j
      BY <2>4, <2>5
    <3>2. ((Ten * t) * k) * j = t * (Ten * (k * j))
      BY <1>1, <2>4
    <3> QED BY <3>1, <3>2
  <2>7. Ten * (k * j) \in Nat /\ k * j \in Nat
    BY <1>1, <2>4
  <2>8. m = Ten * (k * j)
    <3> DEFINE b == Ten * (k * j)
    <3> HIDE DEF t, b
    <3> QED BY <1>1, <2>6, <2>7, Cancel DEF b
  <2>9. m % Ten = 0
    <3> DEFINE b == k * j
    <3> HIDE DEF b
    <3> QED BY <1>1, <2>7, <2>8, Multiple DEF b
  <2> QED BY <2>1, <2>9
<1> QED BY <1>1, <1>3, <1>4, <1>5 DEF x

\* Where the last digit that is not zero loses one, and comes back.
LEMMA FormIs ==
  ASSUME NEW e \in 0 .. MaxExp, NEW y \in Nat, NEW x, x = 1 + y * Ten + e
  PROVE  (x - 1) % Ten = e /\ (x - 1) \div Ten = y /\ x \in Nat \ {0}
<1>1. Ten \in Nat \ {0} /\ Ten = MaxExp + 1 /\ MaxExp \in Nat
  BY TenIs
<1>2. x - 1 = Ten * y + e /\ e \in 0 .. Ten - 1 /\ y * Ten \in Nat
  BY <1>1
<1> DEFINE h == x - 1
<1>3. h = Ten * y + e
  BY <1>2
<1>4. h % Ten = e /\ h \div Ten = y
  <2> HIDE DEF h
  <2> QED BY <1>1, <1>2, <1>3, DivisionIs
<1> QED BY <1>1, <1>2, <1>4

LEMMA DigitIs ==
  ASSUME NEW q \in Nat, NEW d \in 1 .. Ten - 1
  PROVE  LET y == q * (Ten - 1) + d - 1
         IN y \in Nat /\ y \div (Ten - 1) = q /\ y % (Ten - 1) = d - 1
<1> DEFINE y == q * (Ten - 1) + d - 1
           i == Ten - 1
           r == d - 1
<1>1. i \in Nat \ {0} /\ r \in 0 .. i - 1
  BY TenIs
<1>2. y = i * q + r
  BY <1>1
<1>3. i * q \in Nat
  BY <1>1
<1>4. y \div i = q /\ y % i = r /\ y \in Nat
  <2> HIDE DEF y, i, r
  <2>1. y \in Nat
    BY <1>1, <1>2, <1>3
  <2> QED BY <1>1, <1>2, <2>1, DivisionIs
<1> QED BY <1>4

\* The digits of m without its last one's zero, and m of its digits.
DigitsIn(e, m) == IF e < MaxExp THEN (m \div Ten) * (Ten - 1) + (m % Ten) - 1 ELSE m - 1
NumberOf(e, y) == IF e < MaxExp THEN (y \div (Ten - 1)) * Ten + (y % (Ten - 1)) + 1 ELSE y + 1

LEMMA DigitsBack ==
  ASSUME NEW e \in 0 .. MaxExp, NEW m \in Nat \ {0}, e < MaxExp => m % Ten # 0
  PROVE  /\ DigitsIn(e, m) \in Nat /\ DigitsIn(e, m) <= m - 1
         /\ NumberOf(e, DigitsIn(e, m)) = m
<1>1. CASE e < MaxExp
  <2> DEFINE q == m \div Ten
             d == m % Ten
             y == q * (Ten - 1) + d - 1
  <2>1. m = Ten * q + d /\ d \in 0 .. Ten - 1 /\ q \in Nat
    <3>1. Ten \in Nat \ {0} /\ m \in Nat
      BY TenIs
    <3> QED BY <3>1, Division
  <2>2. d \in 1 .. Ten - 1
    BY <1>1, <2>1
  <2>3. y \in Nat /\ y \div (Ten - 1) = q /\ y % (Ten - 1) = d - 1
    <3> HIDE DEF q, d
    <3> QED BY <2>1, <2>2, DigitIs
  <2>4. DigitsIn(e, m) = y
    BY <1>1 DEF DigitsIn
  <2>5. NumberOf(e, y) = q * Ten + (d - 1) + 1
    BY <1>1, <2>3 DEF NumberOf
  <2>6. y <= m - 1 /\ q * Ten + (d - 1) + 1 = m
    <3>1. q * (Ten - 1) = Ten * q - q /\ Ten * q \in Nat /\ q * Ten = Ten * q
      BY <2>1, TenIs
    <3> HIDE DEF q, d
    <3> QED BY <2>1, <3>1, TenIs
  <2> QED BY <2>3, <2>4, <2>5, <2>6
<1>2. CASE ~(e < MaxExp)
  BY <1>2 DEF DigitsIn, NumberOf
<1> QED BY <1>1, <1>2

LEMMA NumberBack ==
  ASSUME NEW e \in 0 .. MaxExp, NEW y \in Nat
  PROVE  /\ NumberOf(e, y) \in Nat \ {0} /\ (e < MaxExp => NumberOf(e, y) % Ten # 0)
         /\ DigitsIn(e, NumberOf(e, y)) = y
<1>1. CASE e < MaxExp
  <2> DEFINE q == y \div (Ten - 1)
             d == y % (Ten - 1)
             m == q * Ten + d + 1
  <2>1. y = (Ten - 1) * q + d /\ d \in 0 .. (Ten - 1) - 1 /\ q \in Nat
    <3>1. Ten - 1 \in Nat \ {0}
      BY TenIs
    <3> QED BY <3>1, Division
  <2>2. m = Ten * q + (d + 1) /\ d + 1 \in 0 .. Ten - 1 /\ m \in Nat \ {0} /\ d + 1 # 0
    <3>1. q * Ten = Ten * q /\ Ten * q \in Nat
      BY <2>1, TenIs
    <3> HIDE DEF q, d
    <3> QED BY <2>1, <3>1, TenIs
  <2>3. m \div Ten = q /\ m % Ten = d + 1
    <3> DEFINE r == d + 1
    <3>1. m = Ten * q + r /\ r \in 0 .. Ten - 1 /\ q \in Nat /\ Ten \in Nat \ {0}
      BY <2>1, <2>2, TenIs
    <3>2. m \div Ten = q /\ m % Ten = r
      <4> HIDE DEF m, q, r
      <4> QED BY <3>1, DivisionIs
    <3> QED BY <3>2
  <2>4. NumberOf(e, y) = m
    BY <1>1 DEF NumberOf
  <2>5. DigitsIn(e, m) = q * (Ten - 1) + (d + 1) - 1
    <3> HIDE DEF m, q, d
    <3> QED BY <1>1, <2>3 DEF DigitsIn
  <2>6. q * (Ten - 1) + (d + 1) - 1 = y
    <3>1. q * (Ten - 1) = (Ten - 1) * q /\ (Ten - 1) * q \in Nat
      BY <2>1, TenIs
    <3> HIDE DEF q, d
    <3> QED BY <2>1, <3>1, TenIs
  <2> HIDE DEF m, q, d
  <2> QED BY <2>2, <2>3, <2>4, <2>5, <2>6
<1>2. CASE ~(e < MaxExp)
  BY <1>2 DEF DigitsIn, NumberOf
<1> QED BY <1>1, <1>2

\* An amount taken apart.
LEMMA AmountParts ==
  ASSUME NEW n \in Nat \ {0}
  PROVE  LET e == Exponent(n)
             m == n \div TenTo[e]
         IN /\ e \in 0 .. MaxExp /\ m \in Nat \ {0} /\ m <= n /\ n = m * TenTo[e]
            /\ e < MaxExp => m % Ten # 0
<1> DEFINE e == Exponent(n)
           t == TenTo[e]
           m == n \div t
<1>1. e \in 0 .. MaxExp /\ EndsIn(n, e) /\ \A f \in e + 1 .. MaxExp : ~EndsIn(n, f)
  BY ExponentIs
<1>2. t \in Nat \ {0}
  BY <1>1, PowerIs
<1>3. n = t * m + (n % t) /\ m \in Nat
  <2> HIDE DEF t
  <2> QED BY <1>2, Division
<1>4. n % t = 0
  BY <1>1 DEF EndsIn
<1>5. n = t * m /\ n = m * t
  <2> HIDE DEF t, m
  <2> QED BY <1>2, <1>3, <1>4
<1>6. m # 0 /\ m <= n
  <2>1. m # 0
    <3> HIDE DEF t, m
    <3> QED BY <1>2, <1>3, <1>5
  <2>2. t >= 0 + 1 => m * t >= m * 0 + m
    <3> HIDE DEF t, m
    <3> QED BY <1>2, <1>3, Monotone
  <2> HIDE DEF t, m
  <2> QED BY <1>2, <1>3, <1>5, <2>1, <2>2
<1>7. ASSUME e < MaxExp, m % Ten = 0 PROVE FALSE
  <2>1. e \in 0 .. MaxExp - 1 /\ e + 1 \in e + 1 .. MaxExp /\ MaxExp \in Nat /\ Ten \in Nat \ {0}
    <3> HIDE DEF e
    <3> QED BY <1>1, <1>7, TenIs
  <2> DEFINE k == m \div Ten
  <2>2. m = Ten * k + (m % Ten) /\ k \in Nat
    <3> HIDE DEF m
    <3> QED BY <1>3, <2>1, Division
  <2>3. TenTo[e + 1] = Ten * t /\ Ten * t \in Nat \ {0}
    <3>1. TenTo[e + 1] = Ten * t
      BY <2>1, PowerIs
    <3>2. e + 1 \in 0 .. MaxExp
      <4> HIDE DEF e
      <4> QED BY <1>1, <2>1
    <3> QED BY <3>1, <3>2, PowerIs
  <2>4. n = (Ten * t) * k
    <3>1. m = Ten * k
      <4> HIDE DEF m, k
      <4> QED BY <1>7, <2>1, <2>2
    <3> HIDE DEF m, k, t
    <3> QED BY <1>2, <1>5, <2>1, <2>2, <3>1
  <2>5. EndsIn(n, e + 1)
    <3> DEFINE i == Ten * t
    <3>1. n % i = 0
      <4> HIDE DEF i, k
      <4> QED BY <2>2, <2>3, <2>4, Multiple DEF i
    <3> QED BY <2>3, <3>1 DEF EndsIn
  <2> QED BY <1>1, <2>1, <2>5
<1> QED BY <1>1, <1>3, <1>5, <1>6, <1>7

\* A form that fits into 64 bits, and the amount it stands for.
LEMMA FormStands ==
  ASSUME NEW e \in 0 .. MaxExp, NEW y \in Nat
  PROVE  Amount(1 + y * Ten + e) = NumberOf(e, y) * TenTo[e]
<1> DEFINE x == 1 + y * Ten + e
<1>1. (x - 1) % Ten = e /\ (x - 1) \div Ten = y /\ x \in Nat \ {0}
  <2>1. x = 1 + y * Ten + e
    OBVIOUS
  <2> HIDE DEF x
  <2> QED BY <2>1, FormIs
<1> HIDE DEF x
<1>2. Amount(x) = NumberOf(e, y) * TenTo[e]
  BY <1>1 DEF Amount, NumberOf
<1> QED BY <1>2 DEF x

LEMMA FormFits ==
  ASSUME NEW e \in 0 .. MaxExp, NEW m \in 1 .. MAX_MONEY, NEW y \in Nat, y <= m - 1
  PROVE  1 + y * Ten + e \in 0 .. VarIntModulus - 1
<1>1. Ten * m >= Ten * y + Ten
  BY TenIs, Monotone
<1>2. Ten * MAX_MONEY >= Ten * m
  <2>1. MAX_MONEY >= m + 1 => Ten * MAX_MONEY >= Ten * m + Ten
    BY TenIs, Monotone
  <2>2. Ten * MAX_MONEY \in Nat /\ Ten * m \in Nat
    BY TenIs
  <2> QED BY <2>1, <2>2, TenIs
<1>3. y * Ten = Ten * y /\ y * Ten \in Nat /\ Ten * m \in Nat /\ MAX_MONEY * Ten = Ten * MAX_MONEY
      /\ Ten * MAX_MONEY \in Nat
  BY TenIs
<1> DEFINE a == y * Ten
           b == Ten * m
           c == Ten * MAX_MONEY
<1>4. b >= a + Ten /\ c >= b /\ c < VarIntModulus /\ a \in Nat /\ b \in Nat /\ c \in Nat
  BY <1>1, <1>2, <1>3, TenIs
<1> HIDE DEF a, b, c
<1>5. 1 + a + e \in 0 .. VarIntModulus - 1
  BY <1>4, TenIs
<1> QED BY <1>5 DEF a

LEMMA FormOfAmount ==
  ASSUME NEW n \in Nat \ {0}
  PROVE  LET e == Exponent(n)
         IN CompressAmount(n) = Unsigned(1 + DigitsIn(e, n \div TenTo[e]) * Ten + e)
<1> DEFINE e == Exponent(n)
<1>1. CASE e < MaxExp
  BY <1>1 DEF CompressAmount, DigitsIn
<1>2. CASE ~(e < MaxExp)
  <2>1. e = MaxExp
    BY <1>2, ExponentIs, TenIs
  <2> QED BY <1>2, <2>1 DEF CompressAmount, DigitsIn
<1> QED BY <1>1, <1>2

LEMMA FitsUnsigned == \A n \in 0 .. VarIntModulus - 1 : Unsigned(n) = n
<1> TAKE n \in 0 .. VarIntModulus - 1
<1> QED BY TenIs DEF Unsigned

LEMMA AmountReadBack ==
  ASSUME NEW n \in 0 .. MAX_MONEY
  PROVE  DecompressAmount(CompressAmount(n)) = n
<1>0. MAX_MONEY \in Nat /\ VarIntModulus \in Nat /\ n \in 0 .. VarIntModulus - 1
  <2>1. Ten * MAX_MONEY >= MAX_MONEY
    <3>1. Ten >= 0 + 1 => MAX_MONEY * Ten >= MAX_MONEY * 0 + MAX_MONEY
      BY TenIs, Monotone
    <3> QED BY <3>1, TenIs
  <2>2. MAX_MONEY * Ten = Ten * MAX_MONEY
    BY TenIs
  <2> QED BY <2>1, <2>2, TenIs
<1>1. CASE n = 0
  BY <1>0, <1>1, FitsUnsigned DEF CompressAmount, DecompressAmount, Amount
<1>2. CASE n # 0
  <2> DEFINE e == Exponent(n)
             m == n \div TenTo[e]
             y == DigitsIn(e, m)
             x == 1 + y * Ten + e
  <2>1. /\ e \in 0 .. MaxExp /\ m \in Nat \ {0} /\ m <= n /\ n = m * TenTo[e]
        /\ e < MaxExp => m % Ten # 0
    BY <1>0, <1>2, AmountParts
  <2>2. CompressAmount(n) = Unsigned(x)
    BY <1>0, <1>2, FormOfAmount
  <2> HIDE DEF e, m
  <2>3. y \in Nat /\ y <= m - 1 /\ NumberOf(e, y) = m
    BY <2>1, DigitsBack
  <2> HIDE DEF y
  <2>4. m \in 1 .. MAX_MONEY
    BY <1>0, <2>1
  <2>5. x \in 0 .. VarIntModulus - 1
    BY <2>1, <2>3, <2>4, FormFits
  <2>6. Amount(x) = n
    BY <2>1, <2>3, FormStands
  <2> HIDE DEF x
  <2>7. Unsigned(x) = x /\ Unsigned(n) = n
    BY <1>0, <2>5, FitsUnsigned
  <2> QED BY <2>2, <2>6, <2>7 DEF DecompressAmount
<1> QED BY <1>1, <1>2

LEMMA FormReadBack ==
  ASSUME NEW x \in 0 .. MAX_MONEY, Amount(x) <= MAX_MONEY
  PROVE  CompressAmount(DecompressAmount(x)) = x
<1>0. MAX_MONEY \in Nat /\ VarIntModulus \in Nat /\ \A n \in 0 .. MAX_MONEY : n \in 0 .. VarIntModulus - 1
  <2>1. Ten * MAX_MONEY >= MAX_MONEY
    <3>1. Ten >= 0 + 1 => MAX_MONEY * Ten >= MAX_MONEY * 0 + MAX_MONEY
      BY TenIs, Monotone
    <3> QED BY <3>1, TenIs
  <2>2. MAX_MONEY * Ten = Ten * MAX_MONEY
    BY TenIs
  <2> QED BY <2>1, <2>2, TenIs
<1>1. CASE x = 0
  <2>1. 0 \in 0 .. MAX_MONEY
    BY <1>0
  <2> QED BY <1>0, <1>1, <2>1, FitsUnsigned DEF CompressAmount, DecompressAmount, Amount
<1>2. CASE x # 0
  <2> DEFINE h == x - 1
             e == h % Ten
             y == h \div Ten
             m == NumberOf(e, y)
             t == TenTo[e]
             n == Amount(x)
  <2>1. h \in Nat /\ x = 1 + h
    BY <1>0, <1>2
  <2>2. h = Ten * y + e /\ e \in 0 .. Ten - 1 /\ y \in Nat
    <3>1. Ten \in Nat \ {0}
      BY TenIs
    <3> HIDE DEF h
    <3> QED BY <2>1, <3>1, Division
  <2>3. e \in 0 .. MaxExp
    BY <2>2, TenIs
  <2>4. x = 1 + y * Ten + e
    <3>1. y * Ten = Ten * y /\ Ten * y \in Nat
      <4> HIDE DEF y
      <4> QED BY <2>2, TenIs
    <3> HIDE DEF h, y, e
    <3> QED BY <2>1, <2>2, <3>1, TenIs
  <2> HIDE DEF h, e, y
  <2>5. m \in Nat \ {0} /\ (e < MaxExp => m % Ten # 0) /\ DigitsIn(e, m) = y
    BY <2>2, <2>3, NumberBack
  <2>6. n = m * t
    BY <2>2, <2>3, <2>4, FormStands
  <2>7. t \in Nat \ {0}
    BY <2>3, PowerIs
  <2> HIDE DEF m, n
  <2>8. n = t * m /\ n \in Nat \ {0}
    <3> HIDE DEF t
    <3> QED BY <2>5, <2>6, <2>7
  <2>9. Exponent(n) = e
    BY <2>3, <2>5, <2>8, ExponentOf
  <2>10. n \div t = m
    <3> HIDE DEF t
    <3> QED BY <2>5, <2>7, <2>8, Multiple
  <2>11. CompressAmount(n) = Unsigned(x)
    <3>1. CompressAmount(n) = Unsigned(1 + DigitsIn(e, n \div t) * Ten + e)
      BY <2>8, <2>9, FormOfAmount
    <3> QED BY <2>4, <2>5, <2>10, <3>1
  <2>12. Unsigned(x) = x /\ Unsigned(n) = n
    <3>1. n <= MAX_MONEY
      BY DEF n
    <3>2. n \in 0 .. MAX_MONEY
      BY <1>0, <2>8, <3>1
    <3> QED BY <1>0, <3>2, FitsUnsigned
  <2>13. DecompressAmount(x) = n
    BY <2>12 DEF DecompressAmount, n
  <2> QED BY <2>11, <2>12, <2>13
<1> QED BY <1>1, <1>2

LEMMA AmountsRead == AmountsReadBack
BY AmountReadBack, FormReadBack DEF AmountsReadBack

-----------------------------------------------------------------------------
(***************************************************************************)
(* Sums.                                                                   *)
(***************************************************************************)
\* A total has a sum up to every place.
SumsTo(sum, s) ==
  /\ sum \in [0 .. Len(s) -> Int] /\ sum[0] = 0
  /\ \A i \in 1 .. Len(s) : sum[i] = sum[i - 1] + s[i]

LEMMA TotalIs ==
  ASSUME NEW s \in Seq(Int)
  PROVE  \E sum : SumsTo(sum, s) /\ Total(s) = sum[Len(s)]
<1> DEFINE n == Len(s)
           F == [i \in 1 .. n |-> [x \in Int |-> x + s[i]]]
           Def(f) == f = [i \in 0 .. n |-> IF i = 0 THEN 0 ELSE f[i - 1] + s[i]]
           op == CHOOSE f : Def(f)
<1>1. n \in Nat /\ \A i \in 1 .. n : s[i] \in Int
  OBVIOUS
<1> HIDE DEF n
<1>2. PICK f : Steps(f, n, Int, 0, F)
  <2>1. F \in [1 .. n -> [Int -> Int]]
    BY <1>1
  <2>2. 0 \in Int
    OBVIOUS
  <2> HIDE DEF F
  <2> QED BY <1>1, <2>1, <2>2, StepByStep
<1>3. ASSUME NEW i \in 1 .. n PROVE f[i] = f[i - 1] + s[i]
  <2>1. F[i] = [x \in Int |-> x + s[i]] /\ f[i - 1] \in Int
    BY <1>1, <1>2 DEF Steps
  <2> HIDE DEF F
  <2> QED BY <1>2, <2>1 DEF Steps
<1>4. Def(f)
  BY <1>1, <1>2, <1>3 DEF Steps
<1>5. Def(op)
  <2> HIDE DEF Def
  <2> QED BY <1>4, Zenon DEF op
<1>6. Total(s) = op[n]
  BY Zenon DEF Total, n
<1> HIDE DEF op
<1>7. op[0] = 0 /\ \A i \in 1 .. n : op[i] = op[i - 1] + s[i]
  BY <1>1, <1>5
<1>8. \A i \in 0 .. n : op[i] \in Int
  <2> DEFINE T == {i \in 0 .. n : op[i] \in Int}
  <2>1. 0 \in T /\ T \in SUBSET (0 .. n)
    BY <1>1, <1>7
  <2>2. ASSUME NEW i \in 0 .. n - 1, i \in T PROVE i + 1 \in T
    <3>1. i + 1 \in 1 .. n /\ (i + 1) - 1 = i
      BY <1>1
    <3>2. op[i + 1] = op[i] + s[i + 1]
      BY <1>7, <3>1
    <3> QED BY <1>1, <2>2, <3>1, <3>2
  <2>3. T = 0 .. n
    <3> HIDE DEF T
    <3> QED BY <1>1, <2>1, <2>2, InductTo
  <2> QED BY <2>3
<1>9. op \in [0 .. n -> Int]
  <2>1. op = [i \in 0 .. n |-> op[i]]
    BY <1>5
  <2> QED BY <1>8, <2>1
<1> QED BY <1>6, <1>7, <1>9 DEF SumsTo, n

\* The fields of a transaction.
LEMMA TxIs ==
  ASSUME NEW t \in Txs
  PROVE  /\ t.vin \in Seq(TxIns) /\ t.vout \in Seq(TxOuts)
         /\ Len(t.vin) \in Nat /\ DOMAIN t.vin = 1 .. Len(t.vin)
         /\ Len(t.vout) \in Nat /\ DOMAIN t.vout = 1 .. Len(t.vout)
         /\ \A i \in 1 .. Len(t.vin) : t.vin[i] \in TxIns
         /\ \A i \in 1 .. Len(t.vout) : t.vout[i] \in TxOuts
<1>1. t.vin \in Seq(TxIns) /\ t.vout \in Seq(TxOuts)
  BY DEF Txs
<1> QED BY <1>1

\* A sum that stays in range does not leave 64 bits.
LEMMA SummedIs ==
  ASSUME NEW sum \in 0 .. MAX_MONEY, NEW v \in Int
  PROVE  Summed(sum, v) = IF v >= 0 /\ sum + v <= MAX_MONEY THEN sum + v ELSE OutOfRange
<1>0. MAX_MONEY \in Nat /\ VarIntModulus \in Nat /\ MAX_MONEY + MAX_MONEY < VarIntModulus
  <2>1. MAX_MONEY * Ten = Ten * MAX_MONEY /\ Ten * MAX_MONEY \in Nat
    BY TenIs
  <2>2. Ten >= 1 + 1 => MAX_MONEY * Ten >= MAX_MONEY * 1 + MAX_MONEY
    BY TenIs, Monotone
  <2> QED BY <2>1, <2>2, TenIs
<1>1. CASE MoneyRange(v)
  <2>1. sum + v \in 0 .. VarIntModulus - 1
    BY <1>0, <1>1 DEF MoneyRange
  <2>2. (sum + v) % VarIntModulus = sum + v
    BY <1>0, <2>1
  <2>3. sum # OutOfRange
    BY <1>0 DEF OutOfRange
  <2> QED BY <1>0, <1>1, <2>1, <2>2, <2>3 DEF Summed, MoneyRange
<1>2. CASE ~MoneyRange(v)
  BY <1>0, <1>2 DEF Summed, MoneyRange
<1> QED BY <1>1, <1>2

LEMMA ValueOutIs ==
  ASSUME NEW t \in Txs, HasValues(t)
  PROVE  LET sum == Total([i \in 1 .. Len(t.vout) |-> t.vout[i].nValue])
             good == (\A i \in DOMAIN t.vout : t.vout[i].nValue >= 0) /\ sum <= MAX_MONEY
         IN GetValueOut(t) = IF good THEN sum ELSE OutOfRange
<1> DEFINE n == Len(t.vout)
           v == [i \in 1 .. n |-> t.vout[i].nValue]
           F == [i \in 1 .. n |-> [x \in Int |-> Summed(x, v[i])]]
           Def(f) == f = [i \in 0 .. n |-> IF i = 0 THEN 0 ELSE Summed(f[i - 1], t.vout[i].nValue)]
           g == CHOOSE f : Def(f)
<1>1. n \in Nat /\ DOMAIN t.vout = 1 .. n /\ MAX_MONEY \in Nat /\ VarIntModulus \in Nat \ {0}
  BY TxIs, TransactionAssumption, EncodingAssumption
<1>2. \A i \in 1 .. n : t.vout[i].nValue \in Int
  <2> TAKE i \in 1 .. n
  <2>1. t.vout[i] \in TxOuts
    BY TxIs
  <2>2. t.vout[i].nValue # Torn
    BY <1>1 DEF HasValues
  <2> QED BY <2>1, <2>2 DEF TxOuts, OrTorn
<1>3. v \in Seq(Int) /\ Len(v) = n /\ \A i \in 1 .. n : v[i] = t.vout[i].nValue /\ v[i] \in Int
  <2>1. v \in [1 .. n -> Int]
    BY <1>2
  <2> QED BY <1>1, <1>2, <2>1
<1> HIDE DEF v, n
<1>4. PICK sum : SumsTo(sum, v) /\ Total(v) = sum[n]
  BY <1>3, TotalIs
<1>5. PICK f : Steps(f, n, Int, 0, F)
  <2>1. \A x \in Int, i \in 1 .. n : Summed(x, v[i]) \in Int
    BY <1>1, <1>3 DEF Summed, OutOfRange, MoneyRange
  <2>2. F \in [1 .. n -> [Int -> Int]]
    BY <2>1
  <2>3. 0 \in Int
    OBVIOUS
  <2> HIDE DEF F
  <2> QED BY <1>1, <2>2, <2>3, StepByStep
<1>6. ASSUME NEW i \in 1 .. n PROVE f[i] = Summed(f[i - 1], t.vout[i].nValue)
  <2>1. F[i] = [x \in Int |-> Summed(x, v[i])] /\ f[i - 1] \in Int
    BY <1>1, <1>5 DEF Steps
  <2> HIDE DEF F
  <2> QED BY <1>3, <1>5, <2>1 DEF Steps
<1>7. Def(f)
  BY <1>1, <1>5, <1>6 DEF Steps
<1>8. Def(g)
  <2> HIDE DEF Def
  <2> QED BY <1>7, Zenon DEF g
<1>9. GetValueOut(t) = g[n]
  BY Zenon DEF GetValueOut, n
<1> HIDE DEF g
<1>10. g[0] = 0 /\ \A i \in 1 .. n : g[i] = Summed(g[i - 1], v[i])
  <2>1. \A i \in 0 .. n : g[i] = IF i = 0 THEN 0 ELSE Summed(g[i - 1], t.vout[i].nValue)
    BY <1>8
  <2>2. 0 \in 0 .. n /\ \A i \in 1 .. n : i \in 0 .. n /\ i # 0
    BY <1>1
  <2> QED BY <1>3, <2>1, <2>2
<1>11. sum \in [0 .. n -> Int] /\ sum[0] = 0 /\ \A i \in 1 .. n : sum[i] = sum[i - 1] + v[i]
  BY <1>3, <1>4 DEF SumsTo
<1> DEFINE Good(i) == (\A j \in 1 .. i : v[j] >= 0) /\ sum[i] <= MAX_MONEY
           T == {i \in 0 .. n : /\ g[i] = IF Good(i) THEN sum[i] ELSE OutOfRange
                                /\ (\A j \in 1 .. i : v[j] >= 0) => sum[i] >= 0}
<1>12. 0 \in T
  BY <1>1, <1>10, <1>11
<1>13. ASSUME NEW i \in 0 .. n - 1, i \in T PROVE i + 1 \in T
  <2>1. i + 1 \in 1 .. n /\ (i + 1) - 1 = i /\ i \in Nat /\ i \in 0 .. n
    BY <1>1
  <2>2. g[i + 1] = Summed(g[i], v[i + 1]) /\ sum[i + 1] = sum[i] + v[i + 1] /\ v[i + 1] \in Int
    BY <1>3, <1>10, <1>11, <2>1
  <2>3. (\A j \in 1 .. i + 1 : v[j] >= 0) <=> (\A j \in 1 .. i : v[j] >= 0) /\ v[i + 1] >= 0
    BY <2>1
  <2>4. /\ g[i] = IF Good(i) THEN sum[i] ELSE OutOfRange
        /\ (\A j \in 1 .. i : v[j] >= 0) => sum[i] >= 0
    BY <1>13
  <2>5. sum[i] \in Int
    BY <1>11, <2>1
  <2> DEFINE p == \A j \in 1 .. i : v[j] >= 0
             q == \A j \in 1 .. i + 1 : v[j] >= 0
             s == sum[i]
             w == v[i + 1]
  <2>6. s \in Int /\ w \in Int /\ (q <=> p /\ w >= 0) /\ (p => s >= 0) /\ sum[i + 1] = s + w
    BY <2>2, <2>3, <2>4, <2>5
  <2>7. g[i] = IF p /\ s <= MAX_MONEY THEN s ELSE OutOfRange
    BY <2>4
  <2> HIDE DEF p, q, s, w
  <2>8. g[i + 1] = IF q /\ s + w <= MAX_MONEY THEN s + w ELSE OutOfRange
    <3>1. CASE p /\ s <= MAX_MONEY
      <4>1. s \in 0 .. MAX_MONEY /\ g[i] = s
        BY <1>1, <2>6, <2>7, <3>1
      <4>2. g[i + 1] = IF w >= 0 /\ s + w <= MAX_MONEY THEN s + w ELSE OutOfRange
        BY <2>2, <2>6, <4>1, SummedIs DEF w
      <4> QED BY <2>6, <3>1, <4>2
    <3>2. CASE ~(p /\ s <= MAX_MONEY)
      <4>1. g[i + 1] = OutOfRange
        BY <2>2, <2>7, <3>2 DEF Summed
      <4>2. ~(q /\ s + w <= MAX_MONEY)
        BY <1>1, <2>6, <3>2
      <4> QED BY <4>1, <4>2
    <3> QED BY <3>1, <3>2
  <2>9. q => s + w >= 0
    BY <2>6
  <2> QED BY <2>1, <2>6, <2>8, <2>9 DEF q
<1>14. n \in T
  <2>1. T \in SUBSET (0 .. n)
    OBVIOUS
  <2>2. T = 0 .. n
    <3> HIDE DEF T
    <3> QED BY <1>1, <1>12, <1>13, <2>1, InductTo
  <2> HIDE DEF T
  <2> QED BY <1>1, <2>2
<1>15. g[n] = IF Good(n) THEN sum[n] ELSE OutOfRange
  BY <1>14
<1>16. (\A i \in DOMAIN t.vout : t.vout[i].nValue >= 0) <=> \A j \in 1 .. n : v[j] >= 0
  BY <1>1, <1>3
<1> QED BY <1>4, <1>9, <1>15, <1>16 DEF v, n

-----------------------------------------------------------------------------
(***************************************************************************)
(* Replacing a transaction.                                                *)
(***************************************************************************)
Compareds == [newer : BOOLEAN, lowest : 0 .. MaxSequence]

LEMMA ComparedType ==
  ASSUME NEW r \in Compareds, NEW x \in 0 .. MaxSequence, NEW y \in 0 .. MaxSequence
  PROVE  Compared(r, x, y) \in Compareds
BY DEF Compared, Compareds

\* What is known when the first i sequences x were compared with y: whether the
\* lowest one, of those that differ, is in y only.
Knows(r, x, y, i) ==
  LET D == {j \in 1 .. i : x[j] # y[j]}
  IN /\ r \in Compareds
     /\ \A j \in D : r.lowest <= x[j] /\ r.lowest <= y[j]
     /\ r.newer => (\E j \in D : y[j] = r.lowest) /\ \A j \in D : r.lowest < x[j]
     /\ ~r.newer => (D = {} /\ r.lowest = MaxSequence) \/ \E j \in D : x[j] = r.lowest

LEMMA KnowsNext ==
  ASSUME NEW i \in Nat, NEW r, NEW x, NEW y,
         \A j \in 1 .. i + 1 : x[j] \in 0 .. MaxSequence /\ y[j] \in 0 .. MaxSequence, Knows(r, x, y, i)
  PROVE  Knows(Compared(r, x[i + 1], y[i + 1]), x, y, i + 1)
<1> DEFINE D == {j \in 1 .. i : x[j] # y[j]}
           E == {j \in 1 .. i + 1 : x[j] # y[j]}
           a == x[i + 1]
           b == y[i + 1]
           s == Compared(r, a, b)
<1>1. /\ r \in Compareds
      /\ \A j \in D : r.lowest <= x[j] /\ r.lowest <= y[j]
      /\ r.newer => (\E j \in D : y[j] = r.lowest) /\ \A j \in D : r.lowest < x[j]
      /\ ~r.newer => (D = {} /\ r.lowest = MaxSequence) \/ \E j \in D : x[j] = r.lowest
  BY DEF Knows
<1>2. MaxSequence \in Nat /\ r.newer \in BOOLEAN /\ r.lowest \in 0 .. MaxSequence
  BY <1>1, GivenAssumption DEF Compareds
<1>3. i + 1 \in 1 .. i + 1 /\ a \in 0 .. MaxSequence /\ b \in 0 .. MaxSequence
  OBVIOUS
<1>4. E = IF a = b THEN D ELSE D \cup {i + 1}
  <2>1. \A j : j \in 1 .. i + 1 <=> j \in 1 .. i \/ j = i + 1
    OBVIOUS
  <2> QED BY <2>1
<1>5. \A j \in D : x[j] \in 0 .. MaxSequence /\ y[j] \in 0 .. MaxSequence
  OBVIOUS
<1>6. s \in Compareds
  BY <1>1, <1>3, ComparedType
<1> SUFFICES /\ \A j \in E : s.lowest <= x[j] /\ s.lowest <= y[j]
             /\ s.newer => (\E j \in E : y[j] = s.lowest) /\ \A j \in E : s.lowest < x[j]
             /\ ~s.newer => (E = {} /\ s.lowest = MaxSequence) \/ \E j \in E : x[j] = s.lowest
  BY <1>6 DEF Knows
<1> HIDE DEF D, E, s
<1>7. CASE a = b
  <2>1. s = r /\ E = D
    BY <1>4, <1>7 DEF s, Compared
  <2> QED BY <1>1, <2>1
<1>8. CASE a # b /\ b < a /\ b < r.lowest
  <2>1. s = [newer |-> TRUE, lowest |-> b] /\ E = D \cup {i + 1}
    BY <1>2, <1>3, <1>4, <1>8 DEF s, Compared
  <2>2. \A j \in D : b < x[j] /\ b <= y[j]
    BY <1>1, <1>2, <1>3, <1>5, <1>8
  <2>3. \A j \in E : b < x[j] /\ b <= y[j]
    BY <1>3, <1>8, <2>1, <2>2
  <2>4. i + 1 \in E /\ y[i + 1] = s.lowest /\ s.lowest = b /\ s.newer = TRUE
    BY <2>1
  <2>5. \A j \in E : x[j] \in Int
    BY <1>3, <1>5, <2>1
  <2> QED BY <1>3, <2>3, <2>4, <2>5
<1>9. CASE a # b /\ a <= r.lowest /\ ~(b < a)
  <2>1. s = [newer |-> FALSE, lowest |-> a] /\ E = D \cup {i + 1}
    BY <1>2, <1>3, <1>4, <1>9 DEF s, Compared
  <2>2. \A j \in D : a <= x[j] /\ a <= y[j]
    BY <1>1, <1>2, <1>3, <1>5, <1>9
  <2> QED BY <1>3, <1>9, <2>1, <2>2
<1>10. CASE a # b /\ r.lowest < a /\ ~(b < r.lowest)
  <2>1. s = r /\ E = D \cup {i + 1}
    BY <1>2, <1>3, <1>4, <1>10 DEF s, Compared
  <2>2. r.lowest <= a /\ r.lowest <= b /\ r.lowest < a
    BY <1>2, <1>3, <1>10
  <2>3. ~(D = {} /\ r.lowest = MaxSequence)
    BY <1>2, <1>3, <1>10
  <2> QED BY <1>1, <1>2, <2>1, <2>2, <2>3
<1>11. a = b \/ (a # b /\ b < a /\ b < r.lowest) \/ (a # b /\ a <= r.lowest /\ ~(b < a))
       \/ (a # b /\ r.lowest < a /\ ~(b < r.lowest))
  BY <1>2, <1>3
<1> QED BY <1>7, <1>8, <1>9, <1>10, <1>11

\* Sequences of transactions that have them.
LEMMA SequencesAre ==
  ASSUME NEW t \in Txs, HasSequences(t), NEW i \in 1 .. Len(t.vin)
  PROVE  t.vin[i].nSequence \in 0 .. MaxSequence
<1>1. t.vin[i] \in TxIns /\ i \in DOMAIN t.vin
  BY TxIs
<1>2. t.vin[i].nSequence # Torn
  BY <1>1 DEF HasSequences
<1> QED BY <1>1, <1>2 DEF TxIns, OrTorn

LEMMA NewerIs ==
  ASSUME NEW t \in Txs, NEW old \in Txs, HasSequences(t), HasSequences(old)
  PROVE  IsNewerThan(t, old) <=> SpendsSame(t, old) /\ LowestIsOld(t, old)
<1> DEFINE n == Len(t.vin)
           x == [i \in 1 .. n |-> t.vin[i].nSequence]
           y == [i \in 1 .. n |-> old.vin[i].nSequence]
           none == [newer |-> FALSE, lowest |-> MaxSequence]
           F == [i \in 1 .. n |-> [r \in Compareds |-> Compared(r, x[i], y[i])]]
           Def(f) == f = [i \in 0 .. n |-> IF i = 0 THEN [newer |-> FALSE, lowest |-> MaxSequence]
                                           ELSE Compared(f[i - 1], t.vin[i].nSequence, old.vin[i].nSequence)]
           g == CHOOSE f : Def(f)
<1>1. IsNewerThan(t, old) <=> SpendsSame(t, old) /\ g[n].newer
  BY Zenon DEF IsNewerThan, SpendsSame
<1> SUFFICES ASSUME SpendsSame(t, old) PROVE g[n].newer <=> LowestIsOld(t, old)
  BY <1>1
<1>2. n \in Nat /\ DOMAIN t.vin = 1 .. n /\ DOMAIN old.vin = 1 .. n /\ MaxSequence \in Nat
  BY TxIs, GivenAssumption DEF SpendsSame
<1>3. \A i \in 1 .. n : x[i] \in 0 .. MaxSequence /\ y[i] \in 0 .. MaxSequence
  <2>1. n = Len(old.vin)
    BY DEF SpendsSame
  <2> QED BY <1>2, <2>1, SequencesAre
<1>4. \A i \in 1 .. n : x[i] = t.vin[i].nSequence /\ y[i] = old.vin[i].nSequence
  OBVIOUS
<1> HIDE DEF n, x, y
<1>5. PICK f : Steps(f, n, Compareds, none, F)
  <2>1. \A r \in Compareds, i \in 1 .. n : Compared(r, x[i], y[i]) \in Compareds
    BY <1>3, ComparedType
  <2>2. F \in [1 .. n -> [Compareds -> Compareds]]
    BY <2>1
  <2>3. none \in Compareds
    BY <1>2 DEF Compareds
  <2> HIDE DEF F, none
  <2> QED BY <1>2, <2>2, <2>3, StepByStep
<1>6. ASSUME NEW i \in 1 .. n PROVE f[i] = Compared(f[i - 1], t.vin[i].nSequence, old.vin[i].nSequence)
  <2>1. F[i] = [r \in Compareds |-> Compared(r, x[i], y[i])] /\ f[i - 1] \in Compareds
    BY <1>2, <1>5 DEF Steps
  <2> HIDE DEF F
  <2> QED BY <1>4, <1>5, <2>1 DEF Steps
<1>7. Def(f)
  BY <1>2, <1>5, <1>6 DEF Steps
<1>8. Def(g)
  <2> HIDE DEF Def
  <2> QED BY <1>7, Zenon DEF g
<1> HIDE DEF g
<1>9. g[0] = none /\ \A i \in 1 .. n : g[i] = Compared(g[i - 1], x[i], y[i])
  <2>1. \A i \in 0 .. n : g[i] = IF i = 0 THEN none
                                 ELSE Compared(g[i - 1], t.vin[i].nSequence, old.vin[i].nSequence)
    BY <1>8
  <2>2. 0 \in 0 .. n /\ \A i \in 1 .. n : i \in 0 .. n /\ i # 0
    BY <1>2
  <2> HIDE DEF none
  <2> QED BY <1>4, <2>1, <2>2
<1> DEFINE T == {i \in 0 .. n : Knows(g[i], x, y, i)}
<1>10. 0 \in T
  <2>1. none \in Compareds /\ none.newer = FALSE /\ none.lowest = MaxSequence
    BY <1>2 DEF Compareds
  <2>2. 1 .. 0 = {}
    OBVIOUS
  <2> HIDE DEF none
  <2>3. Knows(none, x, y, 0)
    BY <2>1, <2>2 DEF Knows
  <2> QED BY <1>2, <1>9, <2>3
<1>11. ASSUME NEW i \in 0 .. n - 1, i \in T PROVE i + 1 \in T
  <2>1. i + 1 \in 1 .. n /\ (i + 1) - 1 = i /\ i \in Nat /\ \A j \in 1 .. i + 1 : j \in 1 .. n
    BY <1>2
  <2>2. g[i + 1] = Compared(g[i], x[i + 1], y[i + 1])
    BY <1>9, <2>1
  <2>3. Knows(g[i + 1], x, y, i + 1)
    BY <1>3, <1>11, <2>1, <2>2, KnowsNext
  <2> QED BY <2>1, <2>3
<1>12. Knows(g[n], x, y, n)
  <2>1. T \in SUBSET (0 .. n)
    OBVIOUS
  <2>2. T = 0 .. n
    <3> HIDE DEF T
    <3> QED BY <1>2, <1>10, <1>11, <2>1, InductTo
  <2>3. n \in T
    <3> HIDE DEF T
    <3> QED BY <1>2, <2>2
  <2> QED BY <2>3
<1> DEFINE D == {i \in 1 .. n : x[i] # y[i]}
           r == g[n]
<1>13. LowestIsOld(t, old) <=> \E i \in D : \A j \in D : y[i] < x[j] /\ y[i] <= y[j]
  <2>1. Differ(t, old) = D
    BY <1>2, <1>4 DEF Differ
  <2>2. \A i \in D : x[i] = t.vin[i].nSequence /\ y[i] = old.vin[i].nSequence
    BY <1>4
  <2> HIDE DEF D
  <2> QED BY <2>1, <2>2 DEF LowestIsOld
<1>14. /\ r \in Compareds
       /\ \A j \in D : r.lowest <= x[j] /\ r.lowest <= y[j]
       /\ r.newer => (\E j \in D : y[j] = r.lowest) /\ \A j \in D : r.lowest < x[j]
       /\ ~r.newer => (D = {} /\ r.lowest = MaxSequence) \/ \E j \in D : x[j] = r.lowest
  BY <1>12 DEF Knows
<1>15. r.newer \in BOOLEAN /\ r.lowest \in Int /\ \A j \in D : x[j] \in Int /\ y[j] \in Int
  BY <1>3, <1>14 DEF Compareds
<1> HIDE DEF D, r
<1>16. ASSUME r.newer PROVE \E i \in D : \A j \in D : y[i] < x[j] /\ y[i] <= y[j]
  BY <1>14, <1>16
<1>17. ASSUME NEW i \in D, \A j \in D : y[i] < x[j] /\ y[i] <= y[j], ~r.newer PROVE FALSE
  <2>1. PICK j \in D : x[j] = r.lowest
    BY <1>14, <1>17
  <2>2. y[i] < x[j] /\ r.lowest <= y[i]
    BY <1>14, <1>17
  <2> QED BY <1>15, <2>1, <2>2
<1> QED BY <1>13, <1>15, <1>16, <1>17 DEF r

LEMMA NotBothNewer ==
  ASSUME NEW t \in Txs, NEW old \in Txs, HasSequences(t), HasSequences(old),
         SpendsSame(t, old), LowestIsOld(t, old), LowestIsOld(old, t)
  PROVE  FALSE
<1>1. DOMAIN t.vin = 1 .. Len(t.vin) /\ DOMAIN old.vin = 1 .. Len(t.vin) /\ Len(old.vin) = Len(t.vin)
  BY TxIs DEF SpendsSame
<1>2. Differ(t, old) = Differ(old, t)
  BY <1>1 DEF Differ
<1>3. PICK i \in Differ(t, old) : \A j \in Differ(t, old) : old.vin[i].nSequence < t.vin[j].nSequence
  BY DEF LowestIsOld
<1>4. PICK k \in Differ(t, old) : \A j \in Differ(t, old) : t.vin[k].nSequence < old.vin[j].nSequence
  BY <1>2 DEF LowestIsOld
<1>5. i \in 1 .. Len(t.vin) /\ k \in 1 .. Len(t.vin)
  BY <1>1 DEF Differ
<1>6. old.vin[i].nSequence \in 0 .. MaxSequence /\ t.vin[k].nSequence \in 0 .. MaxSequence
  BY <1>1, <1>5, SequencesAre
<1>7. old.vin[i].nSequence < t.vin[k].nSequence /\ t.vin[k].nSequence < old.vin[i].nSequence
  BY <1>3, <1>4
<1> QED BY <1>6, <1>7

-----------------------------------------------------------------------------
(***************************************************************************)
(* Dust.                                                                   *)
(***************************************************************************)
LEMMA DustIs ==
  ASSUME NEW t \in Txs
  PROVE  \A i \in DOMAIN t.vout :
           TxOutSize(t.vout[i]) = 34 /\ t.vout[i].nValue # Torn =>
             (IsDust(t.vout[i], 1000) <=> t.vout[i].nValue < 546)
<1> SUFFICES ASSUME NEW i \in DOMAIN t.vout, TxOutSize(t.vout[i]) = 34, t.vout[i].nValue # Torn
             PROVE  IsDust(t.vout[i], 1000) <=> t.vout[i].nValue < 546
  OBVIOUS
<1> DEFINE v == t.vout[i].nValue
<1>1. v \in Int
  <2>1. t.vout[i] \in TxOuts
    BY TxIs
  <2> QED BY <2>1 DEF TxOuts, OrTorn
<1>2. IsDust(t.vout[i], 1000) <=> (v * 1000) \div 546 < 1000
  <2>1. 3 * (34 + 148) = 546
    OBVIOUS
  <2> HIDE DEF v
  <2> QED BY <2>1 DEF IsDust, v
<1>3. (v * 1000) \div 546 < 1000 <=> v < 546
  <2> HIDE DEF v
  <2> QED BY <1>1
<1> QED BY <1>2, <1>3

-----------------------------------------------------------------------------
(***************************************************************************)
(* The size a priority is divided by.                                      *)
(***************************************************************************)
LEMMA DroppedIs ==
  ASSUME NEW S, NEW s \in Seq(S), NEW i \in 1 .. Len(s)
  PROVE  /\ Dropped(s, i) \in Seq(S) /\ Len(Dropped(s, i)) = Len(s) - 1
         /\ \A j \in 1 .. Len(s) - 1 : Dropped(s, i)[j] = IF j < i THEN s[j] ELSE s[j + 1]
<1> DEFINE n == Len(s) - 1
           d == [j \in 1 .. n |-> IF j < i THEN s[j] ELSE s[j + 1]]
<1>1. n \in Nat /\ \A j \in 1 .. n : j \in 1 .. Len(s) /\ j + 1 \in 1 .. Len(s)
  OBVIOUS
<1>2. \A j \in 1 .. n : s[j] \in S /\ s[j + 1] \in S
  BY <1>1
<1>3. d \in [1 .. n -> S]
  BY <1>2
<1>4. d \in Seq(S) /\ Len(d) = n
  <2> HIDE DEF d, n
  <2> QED BY <1>1, <1>3
<1> QED BY <1>4 DEF Dropped

\* What is zero does not count.
LEMMA TotalDropped ==
  ASSUME NEW s \in Seq(Int), NEW i \in 1 .. Len(s), s[i] = 0
  PROVE  Total(Dropped(s, i)) = Total(s)
<1> DEFINE n == Len(s)
           d == Dropped(s, i)
<1>1. /\ d \in Seq(Int) /\ Len(d) = n - 1 /\ n \in Nat
      /\ \A j \in 1 .. n - 1 : d[j] = IF j < i THEN s[j] ELSE s[j + 1]
  BY DroppedIs
<1>2. PICK a : SumsTo(a, s) /\ Total(s) = a[n]
  BY TotalIs
<1> HIDE DEF d
<1>3. PICK b : SumsTo(b, d) /\ Total(d) = b[n - 1]
  BY <1>1, TotalIs
<1> HIDE DEF n
<1>4. /\ a[0] = 0 /\ \A j \in 1 .. n : a[j] = a[j - 1] + s[j]
      /\ \A j \in 0 .. n : a[j] \in Int
  BY <1>2 DEF SumsTo, n
<1>5. /\ b[0] = 0 /\ \A j \in 1 .. n - 1 : b[j] = b[j - 1] + d[j]
      /\ \A j \in 0 .. n - 1 : b[j] \in Int
  BY <1>1, <1>3 DEF SumsTo
<1>6. i \in 1 .. n /\ n - 1 \in Nat /\ n \in Nat
  BY <1>1 DEF n
<1> DEFINE T == {j \in 0 .. n - 1 : b[j] = IF j < i THEN a[j] ELSE a[j + 1]}
<1>7. 0 \in T
  BY <1>4, <1>5, <1>6
<1>8. ASSUME NEW j \in 0 .. (n - 1) - 1, j \in T PROVE j + 1 \in T
  <2>1. /\ j + 1 \in 1 .. n - 1 /\ (j + 1) - 1 = j /\ j + 1 \in 1 .. n /\ j + 2 \in 1 .. n
        /\ (j + 2) - 1 = j + 1 /\ (j + 1) + 1 = j + 2 /\ j + 1 \in 0 .. n - 1
    BY <1>6
  <2>2. b[j + 1] = b[j] + (IF j + 1 < i THEN s[j + 1] ELSE s[j + 2])
    BY <1>1, <1>5, <2>1
  <2>3. a[j + 1] = a[j] + s[j + 1] /\ a[j + 2] = a[j + 1] + s[j + 2]
    BY <1>4, <2>1
  <2>4. b[j] = IF j < i THEN a[j] ELSE a[j + 1]
    BY <1>8
  <2>5. b[j + 1] = IF j + 1 < i THEN a[j + 1] ELSE a[j + 2]
    <3>1. CASE j + 1 < i
      BY <1>6, <2>2, <2>3, <2>4, <3>1
    <3>2. CASE j + 1 = i
      <4>1. a[j + 1] = a[j] + 0 /\ a[j] \in Int
        BY <1>4, <1>6, <2>1, <2>3, <3>2
      <4> QED BY <1>6, <2>2, <2>3, <2>4, <3>2, <4>1
    <3>3. CASE j + 1 > i
      BY <1>6, <2>2, <2>3, <2>4, <3>3
    <3> QED BY <1>6, <3>1, <3>2, <3>3
  <2> QED BY <2>1, <2>5
<1>9. n - 1 \in T
  <2>1. T \in SUBSET (0 .. n - 1)
    OBVIOUS
  <2>2. T = 0 .. n - 1
    <3> HIDE DEF T
    <3> QED BY <1>6, <1>7, <1>8, <2>1, InductTo
  <2> HIDE DEF T
  <2> QED BY <1>6, <2>2
<1>10. b[n - 1] = IF n - 1 < i THEN a[n - 1] ELSE a[n]
  BY <1>6, <1>9
<1>11. n - 1 < i => a[n] = a[n - 1]
  <2> HAVE n - 1 < i
  <2>1. i = n /\ a[n] = a[n - 1] + s[n] /\ a[n - 1] \in Int
    BY <1>4, <1>6
  <2> QED BY <2>1
<1> QED BY <1>2, <1>3, <1>10, <1>11 DEF d, n

LEMMA CountSizes ==
  ASSUME NEW n \in Nat
  PROVE  GetSizeOfCompactSize(n) \in Nat \ {0} /\ (n <= 110 => GetSizeOfCompactSize(n) = 1)
<1>1. Short = 253
  BY GivenAssumption DEF Short
<1>2. Width(Marker(n)) \in {2, 4, 8}
  BY DEF Width
<1> QED BY <1>1, <1>2 DEF GetSizeOfCompactSize

LEMMA InputSizes ==
  ASSUME NEW t \in Txs, Readable(t), NEW i \in 1 .. Len(t.vin)
  PROVE  /\ TxInSize(t.vin[i]) \in Nat /\ Overhead(t.vin[i]) \in Nat
         /\ TxInSize(t.vin[i]) >= Overhead(t.vin[i])
         /\ Len(t.vin[i].scriptSig) <= 110 => TxInSize(t.vin[i]) = Overhead(t.vin[i])
<1> DEFINE in == t.vin[i]
           n == Len(in.scriptSig)
           c == GetSizeOfCompactSize(n)
<1>1. n \in Nat
  <2>1. in \in TxIns /\ i \in DOMAIN t.vin
    BY TxIs
  <2>2. in.scriptSig \in Seq(Nat)
    BY <2>1 DEF TxIns, OrTorn, Readable
  <2> QED BY <2>2
<1>2. c \in Nat \ {0} /\ (n <= 110 => c = 1)
  BY <1>1, CountSizes
<1>3. TxInSize(in) = 36 + (c + n) + 4 /\ Overhead(in) = 41 + (IF 110 < n THEN 110 ELSE n)
  BY DEF TxInSize, ScriptBytes, Overhead, Lesser
<1> HIDE DEF in, n, c
<1>4. /\ TxInSize(in) \in Nat /\ Overhead(in) \in Nat /\ TxInSize(in) >= Overhead(in)
      /\ n <= 110 => TxInSize(in) = Overhead(in)
  BY <1>1, <1>2, <1>3
<1> QED BY <1>4 DEF in, n

LEMMA OutputSizes ==
  ASSUME NEW t \in Txs, Readable(t), NEW i \in 1 .. Len(t.vout)
  PROVE  TxOutSize(t.vout[i]) \in Nat
<1> DEFINE n == Len(t.vout[i].scriptPubKey)
<1>1. n \in Nat
  <2>1. t.vout[i] \in TxOuts /\ i \in DOMAIN t.vout
    BY TxIs
  <2>2. t.vout[i].scriptPubKey \in Seq(Nat)
    BY <2>1 DEF TxOuts, OrTorn, Readable
  <2> QED BY <2>2
<1>2. GetSizeOfCompactSize(n) \in Nat
  BY <1>1, CountSizes
<1> QED BY <1>1, <1>2 DEF TxOutSize, ScriptBytes

LEMMA SumsRise ==
  ASSUME NEW s \in Seq(Nat), NEW a, SumsTo(a, s)
  PROVE  \A i \in 0 .. Len(s) : a[i] \in Nat /\ a[i] <= a[Len(s)]
<1> DEFINE n == Len(s)
           T == {k \in 0 .. n : a[k] \in Nat}
           U == {k \in 0 .. n : a[n - k] <= a[n]}
<1>1. /\ n \in Nat /\ a[0] = 0 /\ \A j \in 1 .. n : a[j] = a[j - 1] + s[j] /\ s[j] \in Nat
      /\ \A j \in 0 .. n : a[j] \in Int
  <2>1. n \in Nat /\ \A j \in 1 .. n : s[j] \in Nat
    OBVIOUS
  <2>2. /\ a \in [0 .. n -> Int] /\ a[0] = 0 /\ \A j \in 1 .. n : a[j] = a[j - 1] + s[j]
    BY DEF SumsTo
  <2> HIDE DEF n
  <2> QED BY <2>1, <2>2
<1> HIDE DEF n
<1>2. T = 0 .. n
  <2>1. 0 \in T /\ T \in SUBSET (0 .. n)
    BY <1>1
  <2>2. ASSUME NEW k \in 0 .. n - 1, k \in T PROVE k + 1 \in T
    <3>1. k + 1 \in 1 .. n /\ (k + 1) - 1 = k
      BY <1>1
    <3>2. a[k + 1] = a[k] + s[k + 1] /\ s[k + 1] \in Nat
      BY <1>1, <3>1
    <3> QED BY <1>1, <2>2, <3>1, <3>2
  <2> HIDE DEF T
  <2> QED BY <1>1, <2>1, <2>2, InductTo
<1>3. U = 0 .. n
  <2>1. 0 \in U /\ U \in SUBSET (0 .. n)
    <3>1. n - 0 = n /\ a[n] \in Int
      BY <1>1
    <3> QED BY <1>1, <3>1
  <2>2. ASSUME NEW k \in 0 .. n - 1, k \in U PROVE k + 1 \in U
    <3>1. n - k \in 1 .. n /\ (n - k) - 1 = n - (k + 1) /\ n \in 0 .. n /\ n - (k + 1) \in 0 .. n
      BY <1>1
    <3>2. a[n - k] = a[n - (k + 1)] + s[n - k] /\ s[n - k] \in Nat /\ a[n] \in Int /\ a[n - (k + 1)] \in Int
      BY <1>1, <3>1
    <3>3. a[n - k] <= a[n]
      BY <2>2
    <3> QED BY <1>1, <3>1, <3>2, <3>3
  <2> HIDE DEF U
  <2> QED BY <1>1, <2>1, <2>2, InductTo
<1>4. ASSUME NEW i \in 0 .. n PROVE a[i] \in Nat /\ a[i] <= a[n]
  <2>1. i \in T /\ n - i \in U /\ n - (n - i) = i
    <3> HIDE DEF T, U
    <3> QED BY <1>1, <1>2, <1>3
  <2> QED BY <2>1
<1> QED BY <1>4 DEF n

\* What an input adds to the size: what it has more than the overhead.
NetSizes(t) == [i \in 1 .. Len(t.vin) |-> TxInSize(t.vin[i]) - Overhead(t.vin[i])]

LEMMA PriorityIs ==
  ASSUME NEW t \in Txs, Readable(t)
  PROVE  /\ PrioritySize(t, 0) = 8 + GetSizeOfCompactSize(Len(t.vin)) + GetSizeOfCompactSize(Len(t.vout))
                                   + Total(OutSizes(t)) + Total(NetSizes(t))
         /\ NetSizes(t) \in Seq(Nat) /\ Total(OutSizes(t)) \in Nat /\ Total(NetSizes(t)) \in Nat
<1> DEFINE n == Len(t.vin)
           z == InSizes(t)
           w == NetSizes(t)
           o == OutSizes(t)
           c == GetSizeOfCompactSize(n)
           d == GetSizeOfCompactSize(Len(t.vout))
           v == [i \in 1 .. n |-> Overhead(t.vin[i])]
           F == [i \in 1 .. n |-> [x \in Int |-> Without(t.vin[i], x)]]
           first == IF 0 = 0 THEN TxSize(t) ELSE 0
           Def(f) == f = [i \in 0 .. n |-> IF i = 0 THEN IF 0 = 0 THEN TxSize(t) ELSE 0
                                           ELSE Without(t.vin[i], f[i - 1])]
           g == CHOOSE f : Def(f)
<1>1. n \in Nat /\ c \in Nat \ {0} /\ d \in Nat \ {0}
  BY TxIs, CountSizes
<1>2. /\ z \in Seq(Nat) /\ Len(z) = n /\ w \in Seq(Nat) /\ Len(w) = n
      /\ \A i \in 1 .. n : /\ v[i] \in Nat /\ z[i] \in Nat /\ w[i] = z[i] - v[i] /\ z[i] >= v[i]
                           /\ v[i] = Overhead(t.vin[i])
  <2>1. \A i \in 1 .. n : /\ TxInSize(t.vin[i]) \in Nat /\ Overhead(t.vin[i]) \in Nat
                          /\ TxInSize(t.vin[i]) - Overhead(t.vin[i]) \in Nat
                          /\ TxInSize(t.vin[i]) >= Overhead(t.vin[i])
    <3> TAKE i \in 1 .. n
    <3>1. /\ TxInSize(t.vin[i]) \in Nat /\ Overhead(t.vin[i]) \in Nat
          /\ TxInSize(t.vin[i]) >= Overhead(t.vin[i])
      BY InputSizes
    <3> QED BY <3>1
  <2>2. z \in [1 .. n -> Nat] /\ w \in [1 .. n -> Nat]
    BY <2>1 DEF InSizes, NetSizes
  <2>3. \A i \in 1 .. n : z[i] = TxInSize(t.vin[i]) /\ w[i] = TxInSize(t.vin[i]) - Overhead(t.vin[i])
    BY DEF InSizes, NetSizes
  <2>4. z \in Seq(Nat) /\ Len(z) = n /\ w \in Seq(Nat) /\ Len(w) = n
    <3> HIDE DEF z, w, n
    <3> QED BY <1>1, <2>2
  <2> QED BY <2>1, <2>3, <2>4
<1>3. o \in Seq(Nat)
  <2>1. o \in [1 .. Len(t.vout) -> Nat]
    BY OutputSizes DEF OutSizes
  <2>2. Len(t.vout) \in Nat
    BY TxIs
  <2> HIDE DEF o
  <2> QED BY <2>1, <2>2
<1> HIDE DEF z, w, o, c, d, n, v
<1>4. PICK a : SumsTo(a, z) /\ Total(z) = a[n]
  <2>1. z \in Seq(Int)
    BY <1>2
  <2> QED BY <1>2, <2>1, TotalIs
<1>5. PICK b : SumsTo(b, w) /\ Total(w) = b[n]
  <2>1. w \in Seq(Int)
    BY <1>2
  <2> QED BY <1>2, <2>1, TotalIs
<1>6. Total(o) \in Nat
  <2>1. o \in Seq(Int)
    BY <1>3
  <2>2. PICK e : SumsTo(e, o) /\ Total(o) = e[Len(o)]
    BY <2>1, TotalIs
  <2>3. Len(o) \in 0 .. Len(o)
    BY <1>3
  <2> QED BY <1>3, <2>2, <2>3, SumsRise
<1>7. /\ a[0] = 0 /\ \A i \in 1 .. n : a[i] = a[i - 1] + z[i]
      /\ \A i \in 0 .. n : a[i] \in Nat /\ a[i] <= a[n]
  BY <1>2, <1>4, SumsRise DEF SumsTo
<1>8. b[0] = 0 /\ (\A i \in 1 .. n : b[i] = b[i - 1] + w[i]) /\ \A i \in 0 .. n : b[i] \in Nat
  BY <1>2, <1>5, SumsRise DEF SumsTo
<1> DEFINE base == 8 + c + d + Total(o)
<1>9. base \in Nat /\ base >= 10
  BY <1>1, <1>6
<1>10. TxSize(t) = base + a[n] /\ a[n] \in Nat
  <2>1. n \in 0 .. n
    BY <1>1
  <2>2. TxSize(t) = 4 + c + Total(z) + d + Total(o) + 4
    BY DEF TxSize, z, o, c, d, n
  <2> QED BY <1>1, <1>4, <1>6, <1>7, <2>1, <2>2
<1> HIDE DEF base
<1>11. PICK f : Steps(f, n, Int, first, F)
  <2>1. \A i \in 1 .. n, x \in Int : Without(t.vin[i], x) \in Int
    BY <1>2 DEF Without
  <2>2. F \in [1 .. n -> [Int -> Int]]
    BY <2>1
  <2>3. first \in Int
    BY <1>9, <1>10
  <2> HIDE DEF F, first
  <2> QED BY <1>1, <2>2, <2>3, StepByStep
<1>12. ASSUME NEW i \in 1 .. n PROVE f[i] = Without(t.vin[i], f[i - 1])
  <2>1. F[i] = [x \in Int |-> Without(t.vin[i], x)] /\ f[i - 1] \in Int
    BY <1>1, <1>11 DEF Steps
  <2> HIDE DEF F
  <2> QED BY <1>11, <2>1 DEF Steps
<1>13. Def(f)
  BY <1>1, <1>11, <1>12 DEF Steps
<1>14. Def(g)
  <2> HIDE DEF Def
  <2> QED BY <1>13, Zenon DEF g
<1>15. PrioritySize(t, 0) = g[n]
  BY Zenon DEF PrioritySize, n
<1> HIDE DEF g
<1>16. g[0] = TxSize(t) /\ \A i \in 1 .. n : g[i] = Without(t.vin[i], g[i - 1])
  <2>1. \A i \in 0 .. n : g[i] = IF i = 0 THEN TxSize(t) ELSE Without(t.vin[i], g[i - 1])
    BY <1>14
  <2>2. 0 \in 0 .. n /\ \A i \in 1 .. n : i \in 0 .. n /\ i # 0
    BY <1>1
  <2> QED BY <2>1, <2>2
<1> DEFINE T == {i \in 0 .. n : g[i] = base + a[n] - a[i] + b[i]}
<1>17. 0 \in T
  BY <1>1, <1>7, <1>8, <1>9, <1>10, <1>16
<1>18. ASSUME NEW i \in 0 .. n - 1, i \in T PROVE i + 1 \in T
  <2>1. i + 1 \in 1 .. n /\ (i + 1) - 1 = i /\ i \in 0 .. n /\ i + 1 \in 0 .. n
    BY <1>1
  <2> DEFINE zi == z[i + 1]
             vi == v[i + 1]
  <2>2. /\ a[i + 1] = a[i] + zi /\ b[i + 1] = b[i] + (zi - vi) /\ zi \in Nat /\ vi \in Nat /\ zi >= vi
        /\ a[i] \in Nat /\ b[i] \in Nat /\ a[i + 1] <= a[n] /\ a[n] \in Nat
    BY <1>2, <1>7, <1>8, <1>10, <2>1
  <2>3. g[i] = base + a[n] - a[i] + b[i]
    BY <1>18
  <2>4. g[i + 1] = IF g[i] > vi THEN g[i] - vi ELSE g[i]
    BY <1>2, <1>16, <2>1 DEF Without
  <2> HIDE DEF zi, vi
  <2>5. g[i] > vi
    BY <1>9, <2>2, <2>3
  <2>6. g[i + 1] = base + a[n] - a[i + 1] + b[i + 1]
    BY <1>9, <2>2, <2>3, <2>4, <2>5
  <2> QED BY <2>1, <2>6
<1>19. n \in T
  <2>1. T \in SUBSET (0 .. n)
    OBVIOUS
  <2>2. T = 0 .. n
    <3> HIDE DEF T
    <3> QED BY <1>1, <1>17, <1>18, <2>1, InductTo
  <2> HIDE DEF T
  <2> QED BY <1>1, <2>2
<1>20. g[n] = base + b[n] /\ b[n] \in Nat
  <2>1. n \in 0 .. n /\ g[n] = base + a[n] - a[n] + b[n]
    BY <1>1, <1>19
  <2>2. b[n] \in Nat
    BY <1>8, <2>1
  <2> QED BY <1>9, <1>10, <2>1, <2>2
<1> QED BY <1>2, <1>5, <1>6, <1>15, <1>20 DEF base, z, w, o, c, d, n

\* A transaction without one of its inputs.
Less(t, i) == [t EXCEPT !.vin = Dropped(@, i)]

LEMMA LessIs ==
  ASSUME NEW t \in Txs, NEW i \in 1 .. Len(t.vin)
  PROVE  /\ Less(t, i) \in Txs /\ Less(t, i).vout = t.vout
         /\ Less(t, i).vin = Dropped(t.vin, i)
BY TxIs, DroppedIs DEF Less, Txs

LEMMA CleaningIs ==
  ASSUME NEW t \in Txs, Readable(t)
  PROVE  /\ PrioritySize(t, 0) >= 10
         /\ \A i \in DOMAIN t.vin :
              Len(t.vin[i].scriptSig) <= 110 =>
                SizeWithoutCount(t) = SizeWithoutCount([t EXCEPT !.vin = Dropped(@, i)])
<1> DEFINE n == Len(t.vin)
<1>0. n \in Nat /\ DOMAIN t.vin = 1 .. n /\ Len(t.vout) \in Nat
  BY TxIs
<1>1. PrioritySize(t, 0) >= 10
  <2> DEFINE c == GetSizeOfCompactSize(Len(t.vin))
             d == GetSizeOfCompactSize(Len(t.vout))
             out == Total(OutSizes(t))
             net == Total(NetSizes(t))
  <2>1. c \in Nat \ {0} /\ d \in Nat \ {0}
    BY <1>0, CountSizes
  <2>2. PrioritySize(t, 0) = 8 + c + d + out + net /\ out \in Nat /\ net \in Nat
    BY PriorityIs
  <2> HIDE DEF c, d, out, net
  <2> QED BY <2>1, <2>2
<1>2. ASSUME NEW i \in 1 .. n, Len(t.vin[i].scriptSig) <= 110
      PROVE  SizeWithoutCount(t) = SizeWithoutCount(Less(t, i))
  <2> DEFINE u == Less(t, i)
             m == Len(u.vin)
  <2>1. u \in Txs /\ u.vout = t.vout /\ u.vin = Dropped(t.vin, i)
    BY LessIs
  <2>2. /\ m = n - 1 /\ m \in Nat /\ DOMAIN u.vin = 1 .. m
        /\ \A j \in 1 .. m : u.vin[j] = IF j < i THEN t.vin[j] ELSE t.vin[j + 1]
    BY <1>0, <2>1, TxIs, DroppedIs
  <2> HIDE DEF u, m, n
  <2>3. Readable(u)
    <3>1. \A j \in 1 .. m : j \in 1 .. n /\ j + 1 \in 1 .. n
      BY <1>0, <2>2
    <3>2. \A j \in 1 .. n : t.vin[j].scriptSig # Torn
      BY <1>0 DEF Readable
    <3>3. \A j \in 1 .. m : u.vin[j].scriptSig # Torn
      BY <2>2, <3>1, <3>2
    <3> QED BY <2>1, <2>2, <3>3 DEF Readable
  <2>4. NetSizes(u) = Dropped(NetSizes(t), i)
    <3>1. Len(NetSizes(t)) = n
      <4>1. NetSizes(t) \in Seq(Nat)
        BY PriorityIs
      <4> DEFINE k == Len(NetSizes(t))
      <4>2. DOMAIN NetSizes(t) = 1 .. k /\ k \in Nat /\ DOMAIN NetSizes(t) = 1 .. n
        BY <4>1 DEF NetSizes, n
      <4> HIDE DEF k
      <4>3. k = n
        <5>1. (k = 0 \/ k \in 1 .. n) /\ (n = 0 \/ n \in 1 .. k)
          BY <1>0, <4>2
        <5> QED BY <1>0, <4>2, <5>1
      <4> QED BY <4>3 DEF k
    <3>2. ASSUME NEW j \in 1 .. m
          PROVE TxInSize(u.vin[j]) - Overhead(u.vin[j]) = IF j < i THEN NetSizes(t)[j] ELSE NetSizes(t)[j + 1]
      <4>1. j \in 1 .. n /\ j + 1 \in 1 .. n
        BY <1>0, <2>2
      <4>2. \A k \in 1 .. n : NetSizes(t)[k] = TxInSize(t.vin[k]) - Overhead(t.vin[k])
        BY DEF NetSizes, n
      <4> QED BY <2>2, <4>1, <4>2
    <3> QED BY <2>2, <3>1, <3>2 DEF NetSizes, Dropped, m
  <2>5. Total(NetSizes(u)) = Total(NetSizes(t))
    <3>1. NetSizes(t) \in Seq(Nat) /\ NetSizes(t)[i] = TxInSize(t.vin[i]) - Overhead(t.vin[i])
      BY PriorityIs DEF NetSizes, n
    <3>2. NetSizes(t)[i] = 0
      <4>1. TxInSize(t.vin[i]) \in Nat /\ TxInSize(t.vin[i]) = Overhead(t.vin[i])
        BY <1>2, InputSizes DEF n
      <4> QED BY <3>1, <4>1
    <3>3. NetSizes(t) \in Seq(Int)
      BY <3>1
    <3>4. i \in 1 .. Len(NetSizes(t))
      <4>1. i \in DOMAIN NetSizes(t)
        BY DEF NetSizes, n
      <4> QED BY <3>1, <4>1
    <3> QED BY <2>4, <3>2, <3>3, <3>4, TotalDropped
  <2>6. OutSizes(u) = OutSizes(t)
    BY <2>1 DEF OutSizes
  <2> DEFINE ct == GetSizeOfCompactSize(Len(t.vin))
             cu == GetSizeOfCompactSize(Len(u.vin))
             d == GetSizeOfCompactSize(Len(t.vout))
             o == Total(OutSizes(t))
             w == Total(NetSizes(t))
  <2>7. ct \in Nat /\ cu \in Nat /\ d \in Nat /\ o \in Nat /\ w \in Nat
    <3>1. Len(u.vin) \in Nat /\ Len(t.vin) \in Nat
      BY <2>2, <1>0 DEF m, n
    <3> QED BY <1>0, <3>1, CountSizes, PriorityIs
  <2>8. PrioritySize(t, 0) = 8 + ct + d + o + w
    BY PriorityIs
  <2>9. PrioritySize(u, 0) = 8 + cu + d + o + w
    BY <2>1, <2>3, <2>5, <2>6, PriorityIs
  <2>10. SizeWithoutCount(t) = PrioritySize(t, 0) - ct /\ SizeWithoutCount(u) = PrioritySize(u, 0) - cu
    BY DEF SizeWithoutCount
  <2> HIDE DEF ct, cu, d, o, w
  <2>11. SizeWithoutCount(t) = SizeWithoutCount(u)
    BY <2>7, <2>8, <2>9, <2>10
  <2> QED BY <2>11 DEF u
<1> QED BY <1>0, <1>1, <1>2 DEF Less

-----------------------------------------------------------------------------
(***************************************************************************)
(* Transactions read from the items they are written as.                   *)
(***************************************************************************)
LEMMA TenIsThree ==
  ASSUME NEW i \in Nat
  PROVE  /\ (3 * i) \div 3 = i /\ (3 * i) % 3 = 0
         /\ (3 * i + 1) \div 3 = i /\ (3 * i + 1) % 3 = 1
         /\ (3 * i + 2) \div 3 = i /\ (3 * i + 2) % 3 = 2
         /\ (2 * i) \div 2 = i /\ (2 * i) % 2 = 0
         /\ (2 * i + 1) \div 2 = i /\ (2 * i + 1) % 2 = 1
OBVIOUS

OutAt(t) == 3 + 3 * Len(t.vin)
EndAt(t) == OutAt(t) + 2 * Len(t.vout) + 1

\* u begins with the items of t, as many as k.
Begins(u, t, k) ==
  /\ 1 <= k => u[1] = t.nVersion
  /\ 2 <= k => u[2] = Len(t.vin)
  /\ \A i \in 1 .. Len(t.vin) :
       /\ 3 * i <= k => u[3 * i] = t.vin[i].prevout
       /\ 3 * i + 1 <= k => u[3 * i + 1] = t.vin[i].scriptSig
       /\ 3 * i + 2 <= k => u[3 * i + 2] = t.vin[i].nSequence
  /\ OutAt(t) <= k => u[OutAt(t)] = Len(t.vout)
  /\ \A i \in 1 .. Len(t.vout) :
       /\ OutAt(t) + 2 * i - 1 <= k => u[OutAt(t) + 2 * i - 1] = t.vout[i].nValue
       /\ OutAt(t) + 2 * i <= k => u[OutAt(t) + 2 * i] = t.vout[i].scriptPubKey
  /\ EndAt(t) <= k => u[EndAt(t)] = t.nLockTime

LEMMA ItemsAre ==
  ASSUME NEW t \in Txs
  PROVE  /\ EndAt(t) \in Nat /\ IsRow(TxItems(t), EndAt(t)) /\ Begins(TxItems(t), t, EndAt(t))
<1> DEFINE n == Len(t.vin)
           m == Len(t.vout)
           out == OutAt(t)
           end == EndAt(t)
           u == TxItems(t)
           Item(j) == IF j = 1 THEN t.nVersion
                      ELSE IF j = 2 THEN n
                      ELSE IF j < out THEN TxInItems(t.vin[j \div 3])[1 + (j % 3)]
                      ELSE IF j = out THEN m
                      ELSE IF j < end THEN TxOutItems(t.vout[(j - out + 1) \div 2])[1 + ((j - out + 1) % 2)]
                      ELSE t.nLockTime
<1>1. n \in Nat /\ m \in Nat
  BY TxIs
<1>2. out = 3 + 3 * n /\ end = out + 2 * m + 1
  BY DEF OutAt, EndAt
<1>3. u = [j \in 1 .. end |-> Item(j)]
  BY DEF TxItems, OutAt, EndAt
<1>4. IsRow(u, end)
  <2> HIDE DEF u, end, Item
  <2> QED BY <1>3 DEF IsRow
<1> HIDE DEF n, m, out, end, u
<1>5. \A j \in 1 .. end : u[j] = Item(j)
  BY <1>3
<1>6. u[1] = t.nVersion /\ u[2] = n /\ u[out] = m /\ u[end] = t.nLockTime
  <2>1. 1 \in 1 .. end /\ 2 \in 1 .. end /\ out \in 1 .. end /\ end \in 1 .. end
    BY <1>1, <1>2
  <2>2. Item(1) = t.nVersion /\ Item(2) = n /\ Item(out) = m /\ Item(end) = t.nLockTime
    BY <1>1, <1>2
  <2> HIDE DEF Item
  <2> QED BY <1>5, <2>1, <2>2
<1>7. ASSUME NEW i \in 1 .. n
      PROVE  u[3 * i] = t.vin[i].prevout /\ u[3 * i + 1] = t.vin[i].scriptSig /\ u[3 * i + 2] = t.vin[i].nSequence
  <2>1. /\ 3 * i \in 1 .. end /\ 3 * i + 1 \in 1 .. end /\ 3 * i + 2 \in 1 .. end
        /\ 3 * i < out /\ 3 * i + 1 < out /\ 3 * i + 2 < out /\ 3 * i > 2
    BY <1>1, <1>2
  <2>2. TxInItems(t.vin[i])[1] = t.vin[i].prevout /\ TxInItems(t.vin[i])[2] = t.vin[i].scriptSig
        /\ TxInItems(t.vin[i])[3] = t.vin[i].nSequence
    BY DEF TxInItems
  <2>3. /\ Item(3 * i) = TxInItems(t.vin[i])[1]
        /\ Item(3 * i + 1) = TxInItems(t.vin[i])[2]
        /\ Item(3 * i + 2) = TxInItems(t.vin[i])[3]
    <3>1. /\ (3 * i) \div 3 = i /\ 1 + ((3 * i) % 3) = 1
          /\ (3 * i + 1) \div 3 = i /\ 1 + ((3 * i + 1) % 3) = 2
          /\ (3 * i + 2) \div 3 = i /\ 1 + ((3 * i + 2) % 3) = 3
      OBVIOUS
    <3>2. Item(3 * i) = TxInItems(t.vin[(3 * i) \div 3])[1 + ((3 * i) % 3)]
      BY <2>1
    <3>3. Item(3 * i + 1) = TxInItems(t.vin[(3 * i + 1) \div 3])[1 + ((3 * i + 1) % 3)]
      BY <2>1
    <3>4. Item(3 * i + 2) = TxInItems(t.vin[(3 * i + 2) \div 3])[1 + ((3 * i + 2) % 3)]
      BY <2>1
    <3> HIDE DEF Item
    <3> QED BY <3>1, <3>2, <3>3, <3>4
  <2> HIDE DEF Item
  <2> QED BY <1>5, <2>1, <2>2, <2>3
<1>8. \A j \in out + 1 .. end - 1 : u[j] = TxOutItems(t.vout[(j - out + 1) \div 2])[1 + ((j - out + 1) % 2)]
  <2> TAKE j \in out + 1 .. end - 1
  <2>1. j # 1 /\ j # 2 /\ ~(j < out) /\ j # out /\ j < end /\ j \in 1 .. end
    <3>1. out \in Nat /\ end \in Nat /\ out >= 3
      BY <1>1, <1>2
    <3> QED BY <3>1
  <2>2. Item(j) = TxOutItems(t.vout[(j - out + 1) \div 2])[1 + ((j - out + 1) % 2)]
    BY <2>1
  <2> HIDE DEF Item
  <2> QED BY <1>5, <2>1, <2>2
<1>9. ASSUME NEW i \in 1 .. m
      PROVE  u[out + 2 * i - 1] = t.vout[i].nValue /\ u[out + 2 * i] = t.vout[i].scriptPubKey
  <2> DEFINE j == out + 2 * i - 1
             l == out + 2 * i
  <2>1. j \in out + 1 .. end - 1 /\ l \in out + 1 .. end - 1
    BY <1>1, <1>2
  <2>2. (j - out + 1) \div 2 = i /\ 1 + ((j - out + 1) % 2) = 1 /\ (l - out + 1) \div 2 = i /\ 1 + ((l - out + 1) % 2) = 2
    <3>1. j - out + 1 = 2 * i /\ l - out + 1 = 2 * i + 1
      BY <1>1, <1>2
    <3>2. (2 * i) \div 2 = i /\ 1 + ((2 * i) % 2) = 1 /\ (2 * i + 1) \div 2 = i /\ 1 + ((2 * i + 1) % 2) = 2
      OBVIOUS
    <3> HIDE DEF j, l
    <3> QED BY <3>1, <3>2
  <2> HIDE DEF j, l, Item
  <2>3. u[j] = TxOutItems(t.vout[i])[1] /\ u[l] = TxOutItems(t.vout[i])[2]
    BY <1>8, <2>1, <2>2
  <2>4. TxOutItems(t.vout[i])[1] = t.vout[i].nValue /\ TxOutItems(t.vout[i])[2] = t.vout[i].scriptPubKey
    BY DEF TxOutItems
  <2> QED BY <2>3, <2>4 DEF j, l
<1>10. end \in Nat
  BY <1>1, <1>2
<1> QED BY <1>4, <1>6, <1>7, <1>9, <1>10 DEF Begins, n, m, out, end, u

\* Reading what begins with the items of a transaction.
LEMMA ReadsInto ==
  ASSUME NEW t \in Txs, NEW old \in Txs, NEW k \in 0 .. EndAt(t), NEW u, Len(u) = k, Begins(u, t, k)
  PROVE  ReadTx(u, old) \in Txs /\ (k = EndAt(t) => ReadTx(u, old) = t)
<1> DEFINE At(j, before) == IF j <= k THEN u[j] ELSE IF j = k + 1 THEN Torn ELSE before
           In(i) == TxIn(At(3 * i, NullOutPoint), At(3 * i + 1, <<>>), At(3 * i + 2, MaxSequence))
           n == Len(t.vin)
           m == Len(t.vout)
           out == OutAt(t)
           end == EndAt(t)
           Out(i) == TxOut(At(out + 2 * i - 1, -1), At(out + 2 * i, <<>>))
           vin == IF k = 0 THEN old.vin ELSE IF k = 1 THEN <<>> ELSE [i \in 1 .. n |-> In(i)]
           vout == IF k < 2 \/ k < out - 1 THEN old.vout ELSE IF k = out - 1 THEN <<>>
                   ELSE [i \in 1 .. m |-> Out(i)]
           nLockTime == IF k < 2 \/ k < out THEN old.nLockTime ELSE At(end, old.nLockTime)
           nVersion == At(1, old.nVersion)
<1>1. n \in Nat /\ m \in Nat /\ out = 3 + 3 * n /\ end = out + 2 * m + 1 /\ k \in Nat /\ k <= end
  <2>1. n \in Nat /\ m \in Nat
    BY TxIs
  <2>2. out = 3 + 3 * n /\ end = out + 2 * m + 1
    BY DEF OutAt, EndAt
  <2> HIDE DEF n, m, out
  <2> QED BY <2>1, <2>2
<1>2. ReadTx(u, old) = Tx(nVersion, vin, vout, nLockTime)
  <2> DEFINE o == 3 + 3 * u[2]
             O(i) == TxOut(At(o + 2 * i - 1, -1), At(o + 2 * i, <<>>))
             vi == IF k = 0 THEN old.vin ELSE IF k = 1 THEN <<>> ELSE [i \in 1 .. u[2] |-> In(i)]
             vo == IF k < 2 \/ k < o - 1 THEN old.vout ELSE IF k = o - 1 THEN <<>>
                   ELSE [i \in 1 .. u[o] |-> O(i)]
             lt == IF k < 2 \/ k < o THEN old.nLockTime ELSE At(o + 2 * u[o] + 1, old.nLockTime)
  <2>1. ReadTx(u, old) = Tx(nVersion, vi, vo, lt)
    BY DEF ReadTx
  <2>2. k >= 2 => u[2] = n /\ o = out
    BY <1>1 DEF Begins
  <2>3. k >= out => u[out] = m
    BY <1>1 DEF Begins
  <2> HIDE DEF In, n, m, out, end, At
  <2>4. vi = vin
    <3>1. CASE k < 2
      BY <1>1, <3>1
    <3>2. CASE k >= 2
      BY <1>1, <2>2, <3>2
    <3> QED BY <1>1, <3>1, <3>2
  <2>5. vo = vout
    <3>1. CASE k < 2
      BY <3>1
    <3>2. CASE k >= 2 /\ k < out
      BY <1>1, <2>2, <3>2
    <3>3. CASE k >= 2 /\ k >= out
      BY <1>1, <2>2, <2>3, <3>3
    <3> QED BY <1>1, <3>1, <3>2, <3>3
  <2>6. lt = nLockTime
    <3>1. CASE k < 2
      BY <3>1
    <3>2. CASE k >= 2 /\ k < out
      BY <1>1, <2>2, <3>2
    <3>3. CASE k >= 2 /\ k >= out
      BY <1>1, <2>2, <2>3, <3>3
    <3> QED BY <1>1, <3>1, <3>2, <3>3
  <2> HIDE DEF vi, vo, lt, vin, vout, nLockTime, nVersion
  <2> QED BY <2>1, <2>4, <2>5, <2>6
<1>3. /\ t.nVersion \in OrTorn(Int) /\ t.nLockTime \in OrTorn(Int)
      /\ old.nVersion \in OrTorn(Int) /\ old.nLockTime \in OrTorn(Int)
      /\ old.vin \in Seq(TxIns) /\ old.vout \in Seq(TxOuts)
      /\ t = [nVersion |-> t.nVersion, vin |-> t.vin, vout |-> t.vout, nLockTime |-> t.nLockTime]
  BY DEF Txs
<1>4. ASSUME NEW i \in 1 .. n
      PROVE  In(i) \in TxIns /\ (3 * i + 2 <= k => In(i) = t.vin[i])
  <2> DEFINE a == At(3 * i, NullOutPoint)
             b == At(3 * i + 1, <<>>)
             c == At(3 * i + 2, MaxSequence)
  <2>1. t.vin[i] \in TxIns /\ MaxSequence \in Nat
    BY TxIs, GivenAssumption
  <2>2. /\ 3 * i <= k => u[3 * i] = t.vin[i].prevout
        /\ 3 * i + 1 <= k => u[3 * i + 1] = t.vin[i].scriptSig
        /\ 3 * i + 2 <= k => u[3 * i + 2] = t.vin[i].nSequence
    BY DEF Begins
  <2>3. a \in OrTorn(OutPoints \cup {NullOutPoint}) /\ (3 * i <= k => a = t.vin[i].prevout)
    BY <2>1, <2>2 DEF TxIns, OrTorn
  <2>4. b \in OrTorn(Seq(Nat)) /\ (3 * i + 1 <= k => b = t.vin[i].scriptSig)
    <3>1. <<>> \in Seq(Nat)
      OBVIOUS
    <3> QED BY <2>1, <2>2, <3>1 DEF TxIns, OrTorn
  <2>5. c \in OrTorn(0 .. MaxSequence) /\ (3 * i + 2 <= k => c = t.vin[i].nSequence)
    BY <2>1, <2>2 DEF TxIns, OrTorn
  <2> HIDE DEF a, b, c
  <2>6. TxIn(a, b, c) \in TxIns
    BY <2>3, <2>4, <2>5 DEF TxIn, TxIns
  <2>7. ASSUME 3 * i + 2 <= k PROVE TxIn(a, b, c) = t.vin[i]
    <3>1. 3 * i <= k /\ 3 * i + 1 <= k
      BY <1>1, <2>7
    <3> QED BY <2>1, <2>3, <2>4, <2>5, <2>7, <3>1 DEF TxIn, TxIns
  <2> QED BY <2>6, <2>7 DEF a, b, c
<1>5. ASSUME NEW i \in 1 .. m
      PROVE  Out(i) \in TxOuts /\ (out + 2 * i <= k => Out(i) = t.vout[i])
  <2> DEFINE a == At(out + 2 * i - 1, -1)
             b == At(out + 2 * i, <<>>)
  <2>1. t.vout[i] \in TxOuts
    BY TxIs
  <2>2. /\ out + 2 * i - 1 <= k => u[out + 2 * i - 1] = t.vout[i].nValue
        /\ out + 2 * i <= k => u[out + 2 * i] = t.vout[i].scriptPubKey
    BY DEF Begins
  <2>3. a \in OrTorn(Int) /\ (out + 2 * i - 1 <= k => a = t.vout[i].nValue)
    BY <2>1, <2>2 DEF TxOuts, OrTorn
  <2>4. b \in OrTorn(Seq(Nat)) /\ (out + 2 * i <= k => b = t.vout[i].scriptPubKey)
    <3>1. <<>> \in Seq(Nat)
      OBVIOUS
    <3> QED BY <2>1, <2>2, <3>1 DEF TxOuts, OrTorn
  <2> HIDE DEF a, b
  <2>5. TxOut(a, b) \in TxOuts
    BY <2>3, <2>4 DEF TxOut, TxOuts
  <2>6. ASSUME out + 2 * i <= k PROVE TxOut(a, b) = t.vout[i]
    <3>1. out + 2 * i - 1 <= k
      <4> HIDE DEF out, m, n, end
      <4> QED BY <1>1, <2>6
    <3>2. a = t.vout[i].nValue /\ b = t.vout[i].scriptPubKey
      BY <2>3, <2>4, <2>6, <3>1
    <3> QED BY <2>1, <3>2 DEF TxOut, TxOuts
  <2> QED BY <2>5, <2>6 DEF a, b
<1>6. nVersion \in OrTorn(Int) /\ nLockTime \in OrTorn(Int)
      /\ (k = end => nVersion = t.nVersion /\ nLockTime = t.nLockTime)
  <2>1. (1 <= k => u[1] = t.nVersion) /\ (end <= k => u[end] = t.nLockTime)
    BY DEF Begins
  <2> HIDE DEF end, out
  <2> QED BY <1>1, <1>3, <2>1 DEF OrTorn
<1> HIDE DEF In, Out, nVersion, nLockTime, n, m, out, end
<1>7. vin \in Seq(TxIns) /\ (k = end => vin = t.vin)
  <2> DEFINE v == [i \in 1 .. n |-> In(i)]
  <2>1. v \in [1 .. n -> TxIns]
    BY <1>4
  <2>2. v \in Seq(TxIns)
    <3> HIDE DEF v
    <3> QED BY <1>1, <2>1
  <2>3. <<>> \in Seq(TxIns)
    OBVIOUS
  <2>4. ASSUME k = end PROVE v = t.vin
    <3>1. \A i \in 1 .. n : 3 * i + 2 <= k
      BY <1>1, <2>4
    <3>2. \A i \in 1 .. n : v[i] = t.vin[i]
      BY <1>4, <3>1
    <3>3. t.vin = [i \in 1 .. n |-> t.vin[i]]
      <4>1. t.vin \in Seq(TxIns)
        BY TxIs
      <4> QED BY <4>1 DEF n
    <3> QED BY <3>2, <3>3
  <2> HIDE DEF v
  <2> QED BY <1>1, <1>3, <2>2, <2>3, <2>4 DEF v
<1>8. vout \in Seq(TxOuts) /\ (k = end => vout = t.vout)
  <2> DEFINE v == [i \in 1 .. m |-> Out(i)]
  <2>1. v \in [1 .. m -> TxOuts]
    BY <1>5
  <2>2. v \in Seq(TxOuts)
    <3> HIDE DEF v
    <3> QED BY <1>1, <2>1
  <2>3. <<>> \in Seq(TxOuts)
    OBVIOUS
  <2>4. ASSUME k = end PROVE v = t.vout
    <3>1. \A i \in 1 .. m : out + 2 * i <= k
      BY <1>1, <2>4
    <3>2. \A i \in 1 .. m : v[i] = t.vout[i]
      BY <1>5, <3>1
    <3>3. t.vout = [i \in 1 .. m |-> t.vout[i]]
      <4>1. t.vout \in Seq(TxOuts)
        BY TxIs
      <4> QED BY <4>1 DEF m
    <3> QED BY <3>2, <3>3
  <2> HIDE DEF v
  <2> QED BY <1>1, <1>3, <2>2, <2>3, <2>4 DEF v
<1> HIDE DEF vin, vout
<1>9. ReadTx(u, old) \in Txs
  BY <1>2, <1>6, <1>7, <1>8 DEF Tx, Txs
<1>10. k = end => ReadTx(u, old) = t
  BY <1>2, <1>3, <1>6, <1>7, <1>8 DEF Tx
<1> QED BY <1>9, <1>10 DEF end

-----------------------------------------------------------------------------
(***************************************************************************)
(* Whatever is done, what there is are transactions.                       *)
(***************************************************************************)
TxInv ==
  /\ tx \in Txs
  /\ signed # NotSigned => signed.tx \in Txs /\ signed.nIn \in 1 .. MaxInputs + 1 /\ signed.nHashType \in HashTypes

LEMMA ReadKept ==
  ASSUME NEW t \in Txs, NEW old \in Txs, NEW k \in 0 .. Len(TxItems(t))
  PROVE  ReadTx(SubSeq(TxItems(t), 1, k), old) \in Txs
<1> DEFINE u == TxItems(t)
           end == EndAt(t)
           S == {u[i] : i \in 1 .. end}
           w == SubSeq(u, 1, k)
<1>1. end \in Nat /\ IsRow(u, end) /\ Begins(u, t, end)
  BY ItemsAre
<1>2. Len(u) = end
  <2> HIDE DEF u, end
  <2> QED BY <1>1, RowLength
<1>3. u \in Seq(S)
  <2> HIDE DEF u, end
  <2>1. u \in [1 .. end -> S]
    BY <1>1 DEF IsRow
  <2> HIDE DEF S
  <2> QED BY <1>1, <2>1
<1>4. Len(w) = k /\ \A i \in 1 .. k : w[i] = u[i]
  <2> HIDE DEF S, end
  <2>1. 1 \in 1 .. Len(u) + 1 /\ k \in 1 - 1 .. Len(u)
    BY <1>1, <1>2 DEF u
  <2> HIDE DEF u
  <2> QED BY <1>1, <1>2, <1>3, <2>1, SubSeqProperties
<1>5. Begins(w, t, k)
  <2> DEFINE n == Len(t.vin)
             m == Len(t.vout)
             out == OutAt(t)
  <2>1. n \in Nat /\ m \in Nat
    BY TxIs
  <2>2. out = 3 + 3 * n /\ end = out + 2 * m + 1
    BY DEF OutAt, EndAt
  <2>3. k \in Nat /\ k <= end
    BY <1>1, <1>2 DEF u
  <2> HIDE DEF n, m, out, end, u, w
  <2>4. \A j \in Nat : 1 <= j /\ j <= k => w[j] = u[j]
    BY <1>4, <2>3
  <2>5. /\ 1 <= end /\ 2 <= end /\ out <= end /\ out \in Nat /\ 1 <= out /\ end \in Nat
    BY <2>1, <2>2
  <2>6. \A i \in 1 .. n : /\ 3 * i \in Nat /\ 3 * i + 1 \in Nat /\ 3 * i + 2 \in Nat
                          /\ 1 <= 3 * i /\ 1 <= 3 * i + 1 /\ 1 <= 3 * i + 2
                          /\ 3 * i <= end /\ 3 * i + 1 <= end /\ 3 * i + 2 <= end
    BY <2>1, <2>2
  <2>7. \A i \in 1 .. m : /\ out + 2 * i - 1 \in Nat /\ out + 2 * i \in Nat
                          /\ 1 <= out + 2 * i - 1 /\ 1 <= out + 2 * i
                          /\ out + 2 * i - 1 <= end /\ out + 2 * i <= end
    BY <2>1, <2>2
  <2>8. /\ u[1] = t.nVersion /\ u[2] = n /\ u[out] = m /\ u[end] = t.nLockTime
        /\ \A i \in 1 .. n :
             /\ u[3 * i] = t.vin[i].prevout
             /\ u[3 * i + 1] = t.vin[i].scriptSig
             /\ u[3 * i + 2] = t.vin[i].nSequence
        /\ \A i \in 1 .. m :
             /\ u[out + 2 * i - 1] = t.vout[i].nValue
             /\ u[out + 2 * i] = t.vout[i].scriptPubKey
    BY <1>1, <2>5, <2>6, <2>7 DEF Begins, n, m, out, end
  <2>9. \A i \in 1 .. n :
             /\ 3 * i <= k => w[3 * i] = t.vin[i].prevout
             /\ 3 * i + 1 <= k => w[3 * i + 1] = t.vin[i].scriptSig
             /\ 3 * i + 2 <= k => w[3 * i + 2] = t.vin[i].nSequence
    BY <2>4, <2>6, <2>8
  <2>10. \A i \in 1 .. m :
             /\ out + 2 * i - 1 <= k => w[out + 2 * i - 1] = t.vout[i].nValue
             /\ out + 2 * i <= k => w[out + 2 * i] = t.vout[i].scriptPubKey
    BY <2>4, <2>7, <2>8
  <2>11. /\ 1 <= k => w[1] = t.nVersion
         /\ 2 <= k => w[2] = n
         /\ out <= k => w[out] = m
         /\ end <= k => w[end] = t.nLockTime
    BY <2>4, <2>5, <2>8
  <2> QED BY <2>9, <2>10, <2>11 DEF Begins, n, m, out, end
<1>6. k \in 0 .. end
  BY <1>2
<1> HIDE DEF w
<1> QED BY <1>4, <1>5, <1>6, ReadsInto DEF w

LEMMA EditKept ==
  ASSUME tx \in Txs, Editing
  PROVE  tx' \in Txs /\ UNCHANGED signed
<1>1. /\ tx.vin \in Seq(TxIns) /\ tx.vout \in Seq(TxOuts)
      /\ DOMAIN tx.vin = 1 .. Len(tx.vin) /\ DOMAIN tx.vout = 1 .. Len(tx.vout)
  BY TxIs
<1>2. <<>> \in Seq(Nat) /\ <<>> \in Seq(TxIns) /\ <<>> \in Seq(TxOuts) /\ MaxSequence \in Nat
  BY GivenAssumption
<1>3. \A v \in Seq(TxIns) : [tx EXCEPT !.vin = v] \in Txs
  BY DEF Txs
<1>4. \A v \in Seq(TxOuts) : [tx EXCEPT !.vout = v] \in Txs
  BY DEF Txs
<1>5. ASSUME NEW new \in Txs, Change(new) PROVE tx' \in Txs /\ UNCHANGED signed
  BY <1>5 DEF Change
<1>6. ASSUME SetVersion(2) \/ SetLockTime(1) \/ SetNull PROVE tx' \in Txs /\ UNCHANGED signed
  <2>1. [tx EXCEPT !.nVersion = 2] \in Txs /\ [tx EXCEPT !.nLockTime = 1] \in Txs
    BY DEF Txs, OrTorn
  <2>2. NullTx \in Txs
    BY <1>2 DEF NullTx, Tx, Txs, OrTorn
  <2> QED BY <1>5, <1>6, <2>1, <2>2 DEF SetVersion, SetLockTime, SetNull
<1>7. ASSUME NEW i \in DOMAIN tx.vin,
             \/ DropInput(i)
             \/ \E n \in Sequences : SetSequence(i, n)
             \/ \E s \in Scripts : SetScriptSig(i, s)
      PROVE  tx' \in Txs /\ UNCHANGED signed
  <2>1. i \in 1 .. Len(tx.vin) /\ tx.vin[i] \in TxIns
    BY <1>1
  <2>2. CASE DropInput(i)
    <3>1. Dropped(tx.vin, i) \in Seq(TxIns)
      BY <1>1, <2>1, DroppedIs
    <3>2. [tx EXCEPT !.vin = Dropped(@, i)] \in Txs
      BY <1>3, <3>1
    <3> QED BY <1>5, <2>2, <3>2 DEF DropInput
  <2>3. ASSUME NEW in \in TxIns PROVE [tx EXCEPT !.vin[i] = in] \in Txs
    <3>1. [tx.vin EXCEPT ![i] = in] \in Seq(TxIns)
      BY <1>1
    <3> QED BY <1>3, <3>1
  <2>4. ASSUME NEW n \in Sequences, SetSequence(i, n) PROVE tx' \in Txs /\ UNCHANGED signed
    <3>1. [tx.vin[i] EXCEPT !.nSequence = n] \in TxIns
      BY <2>1, GivenAssumption DEF TxIns, OrTorn
    <3>2. [tx EXCEPT !.vin[i].nSequence = n] \in Txs
      BY <2>3, <3>1
    <3> QED BY <1>5, <2>4, <3>2 DEF SetSequence
  <2>5. ASSUME NEW s \in Scripts, SetScriptSig(i, s) PROVE tx' \in Txs /\ UNCHANGED signed
    <3>1. [tx.vin[i] EXCEPT !.scriptSig = s] \in TxIns
      BY <2>1, GivenAssumption DEF TxIns, OrTorn
    <3>2. [tx EXCEPT !.vin[i].scriptSig = s] \in Txs
      BY <2>3, <3>1
    <3> QED BY <1>5, <2>5, <3>2 DEF SetScriptSig
  <2> QED BY <1>7, <2>2, <2>4, <2>5
<1>8. ASSUME NEW i \in DOMAIN tx.vout,
             \/ DropOutput(i)
             \/ \E n \in Values : SetValue(i, n)
             \/ \E s \in Scripts : SetScriptPubKey(i, s)
      PROVE  tx' \in Txs /\ UNCHANGED signed
  <2>1. i \in 1 .. Len(tx.vout) /\ tx.vout[i] \in TxOuts
    BY <1>1
  <2>2. CASE DropOutput(i)
    <3>1. Dropped(tx.vout, i) \in Seq(TxOuts)
      BY <1>1, <2>1, DroppedIs
    <3>2. [tx EXCEPT !.vout = Dropped(@, i)] \in Txs
      BY <1>4, <3>1
    <3> QED BY <1>5, <2>2, <3>2 DEF DropOutput
  <2>3. ASSUME NEW out \in TxOuts PROVE [tx EXCEPT !.vout[i] = out] \in Txs
    <3>1. [tx.vout EXCEPT ![i] = out] \in Seq(TxOuts)
      BY <1>1
    <3> QED BY <1>4, <3>1
  <2>4. ASSUME NEW n \in Values, SetValue(i, n) PROVE tx' \in Txs /\ UNCHANGED signed
    <3>1. [tx.vout[i] EXCEPT !.nValue = n] \in TxOuts
      BY <2>1, GivenAssumption DEF TxOuts, OrTorn
    <3>2. [tx EXCEPT !.vout[i].nValue = n] \in Txs
      BY <2>3, <3>1
    <3> QED BY <1>5, <2>4, <3>2 DEF SetValue
  <2>5. ASSUME NEW s \in Scripts, SetScriptPubKey(i, s) PROVE tx' \in Txs /\ UNCHANGED signed
    <3>1. [tx.vout[i] EXCEPT !.scriptPubKey = s] \in TxOuts
      BY <2>1, GivenAssumption DEF TxOuts, OrTorn
    <3>2. [tx EXCEPT !.vout[i].scriptPubKey = s] \in Txs
      BY <2>3, <3>1
    <3> QED BY <1>5, <2>5, <3>2 DEF SetScriptPubKey
  <2> QED BY <1>8, <2>2, <2>4, <2>5
<1>9. ASSUME NEW p \in OutPoints, AddInput(TxIn(p, <<>>, MaxSequence)) PROVE tx' \in Txs /\ UNCHANGED signed
  <2>1. TxIn(p, <<>>, MaxSequence) \in TxIns
    BY <1>2 DEF TxIn, TxIns, OrTorn
  <2>2. Append(tx.vin, TxIn(p, <<>>, MaxSequence)) \in Seq(TxIns)
    BY <1>1, <2>1
  <2>3. [tx EXCEPT !.vin = Append(@, TxIn(p, <<>>, MaxSequence))] \in Txs
    BY <1>3, <2>2
  <2> QED BY <1>5, <1>9, <2>3 DEF AddInput
<1>10. ASSUME NEW n \in Values, AddOutput(TxOut(n, <<>>)) PROVE tx' \in Txs /\ UNCHANGED signed
  <2>1. TxOut(n, <<>>) \in TxOuts
    BY <1>2, GivenAssumption DEF TxOut, TxOuts, OrTorn
  <2>2. Append(tx.vout, TxOut(n, <<>>)) \in Seq(TxOuts)
    BY <1>1, <2>1
  <2>3. [tx EXCEPT !.vout = Append(@, TxOut(n, <<>>))] \in Txs
    BY <1>4, <2>2
  <2> QED BY <1>5, <1>10, <2>3 DEF AddOutput
<1> QED BY <1>6, <1>7, <1>8, <1>9, <1>10 DEF Editing

LEMMA TxInvInductive == Spec => []TxInv
<1>1. Init => TxInv
  BY GivenAssumption DEF Init, TxInv
<1>2. TxInv /\ [Next]_vars => TxInv'
  <2> SUFFICES ASSUME TxInv, [Next]_vars PROVE TxInv'
    OBVIOUS
  <2>1. CASE Signing
    <3>1. PICK code \in Codes, nHashType \in HashTypes, nIn \in 1 .. MaxInputs + 1 : Sign(code, nIn, nHashType)
      BY <2>1 DEF Signing
    <3>2. signed' = [nIn |-> nIn, code |-> code, nHashType |-> nHashType, tx |-> tx] /\ tx' = tx
      BY <3>1 DEF Sign
    <3>3. signed'.tx = tx /\ signed'.nIn = nIn /\ signed'.nHashType = nHashType
      BY <3>2
    <3> QED BY <3>2, <3>3 DEF TxInv
  <2>2. CASE Editing
    BY <2>2, EditKept DEF TxInv
  <2>3. CASE Reading
    <3>0. PICK t \in Bases : \E k \in 0 .. Len(TxItems(t)) : Read(t, k)
      BY <2>3 DEF Reading
    <3>1. PICK k \in 0 .. Len(TxItems(t)) : Read(t, k)
      BY <3>0
    <3>2. tx' = ReadTx(SubSeq(TxItems(t), 1, k), tx) /\ UNCHANGED signed
      BY <3>1 DEF Read, Change
    <3>3. tx' \in Txs
      BY <3>2, ReadKept, GivenAssumption DEF TxInv
    <3> QED BY <3>2, <3>3 DEF TxInv
  <2>4. CASE Undoing
    BY <2>4 DEF Undoing, ReadUndoRecord, TxInv
  <2>5. CASE UNCHANGED vars
    BY <2>5 DEF vars, TxInv
  <2> QED BY <2>1, <2>2, <2>3, <2>4, <2>5 DEF Next
<1> QED BY <1>1, <1>2, PTL DEF Spec

\* Whatever a transaction goes through, it has the shape of one, and reading
\* another one whole leaves nothing of it.
THEOREM TransactionsStayWhole == Spec => [](AreTxs /\ NothingLeftBehind)
<1>1. TxInv => AreTxs
  BY DEF TxInv, AreTxs
<1>2. TxInv => NothingLeftBehind
  <2> SUFFICES ASSUME TxInv, NEW t \in Bases PROVE ReadTx(TxItems(t), tx) = t
    BY DEF NothingLeftBehind
  <2>1. t \in Txs /\ tx \in Txs
    BY GivenAssumption DEF TxInv
  <2>2. EndAt(t) \in Nat /\ IsRow(TxItems(t), EndAt(t)) /\ Begins(TxItems(t), t, EndAt(t))
    BY <2>1, ItemsAre
  <2>3. Len(TxItems(t)) = EndAt(t)
    BY <2>2, RowLength
  <2>4. EndAt(t) \in 0 .. EndAt(t)
    BY <2>2
  <2> QED BY <2>1, <2>2, <2>3, <2>4, ReadsInto
<1> QED BY <1>1, <1>2, TxInvInductive, PTL

\* Amounts are exact: every one is read back from its compressed form, a sum of
\* outputs is the sum or refused, dust is below 546, an input that is cleaned up
\* is free, and of two transactions only one replaces the other.
THEOREM ValuesStayExact == Spec => []ValuesAreExact
<1>1. TxInv => ValuesAreExact
  <2> SUFFICES ASSUME TxInv PROVE ValuesAreExact
    OBVIOUS
  <2>0. tx \in Txs /\ (signed # NotSigned => signed.tx \in Txs)
    BY DEF TxInv
  <2>1. AmountsReadBack
    BY AmountsRead
  <2>2. ValueOutExact
    BY <2>0, ValueOutIs DEF ValueOutExact
  <2>3. DustIsBelow546
    BY <2>0, DustIs DEF DustIsBelow546
  <2>4. CleaningUpIsFree
    BY <2>0, CleaningIs DEF CleaningUpIsFree
  <2>5. NewerHasHigherSequence
    <3> SUFFICES ASSUME signed # NotSigned, HasSequences(tx), HasSequences(signed.tx)
                 PROVE  /\ IsNewerThan(tx, signed.tx) <=> SpendsSame(tx, signed.tx) /\ LowestIsOld(tx, signed.tx)
                        /\ ~(IsNewerThan(tx, signed.tx) /\ IsNewerThan(signed.tx, tx))
      BY DEF NewerHasHigherSequence
    <3>1. IsNewerThan(tx, signed.tx) <=> SpendsSame(tx, signed.tx) /\ LowestIsOld(tx, signed.tx)
      BY <2>0, NewerIs
    <3>2. IsNewerThan(signed.tx, tx) <=> SpendsSame(signed.tx, tx) /\ LowestIsOld(signed.tx, tx)
      BY <2>0, NewerIs
    <3> QED BY <2>0, <3>1, <3>2, NotBothNewer
  <2> QED BY <2>1, <2>2, <2>3, <2>4, <2>5 DEF ValuesAreExact
<1> QED BY <1>1, TxInvInductive, PTL

-----------------------------------------------------------------------------
(***************************************************************************)
(* What a signature commits to.                                            *)
(***************************************************************************)
OthersOf(t, i, a) == Whose(a, DOMAIN t.vin \ {i})
PaidOf(t, i, a) ==
  IF a % 32 = SIGHASH_NONE THEN {} ELSE IF a % 32 = SIGHASH_SINGLE THEN {i} ELSE DOMAIN t.vout
Prevouts(t, i, a) == [x \in OthersOf(t, i, a) |-> t.vin[x].prevout]
Finals(t, i, a) ==
  IF a % 32 \in {SIGHASH_NONE, SIGHASH_SINGLE} THEN <<>> ELSE [x \in OthersOf(t, i, a) |-> t.vin[x].nSequence]
PaidOuts(t, i, a) == [x \in PaidOf(t, i, a) |-> t.vout[x]]
Own(t, i) == <<t.vin[i].prevout, t.vin[i].nSequence>>

LEMMA FlagIs == \A a \in 0 .. 255 : fAnyoneCanPay(a) <=> a >= SIGHASH_ANYONECANPAY
BY DEF fAnyoneCanPay, SIGHASH_ANYONECANPAY

LEMMA OneIsNoHash == \A a, b, c, d, e : One # <<a, b, c, d, e>>
<1> SUFFICES ASSUME NEW a, NEW b, NEW c, NEW d, NEW e, One = <<a, b, c, d, e>> PROVE FALSE
  OBVIOUS
<1>1. Len(One) = 1
  BY DEF One
<1>2. Len(<<a, b, c, d, e>>) = 5
  OBVIOUS
<1> QED BY <1>1, <1>2

LEMMA SignableIs ==
  ASSUME NEW t \in Txs, NEW i \in Nat \ {0}, NEW a
  PROVE  Signable(t, i, a) <=> ~(i > Len(t.vin) \/ (fHashSingle(a) /\ i > Len(t.vout)))
<1>1. /\ DOMAIN t.vin = 1 .. Len(t.vin) /\ Len(t.vin) \in Nat
      /\ DOMAIN t.vout = 1 .. Len(t.vout) /\ Len(t.vout) \in Nat
  BY TxIs
<1> DEFINE n == Len(t.vin)
           m == Len(t.vout)
<1>2. (i \in 1 .. n <=> ~(i > n)) /\ (i \in 1 .. m <=> ~(i > m))
  <2> HIDE DEF n, m
  <2> QED BY <1>1 DEF n, m
<1> QED BY <1>1, <1>2 DEF Signable, fHashSingle

InputsAgree(code, t, i, s, j, a) ==
  SignedInputs(t, code, i, a) = SignedInputs(s, code, j, a) <=>
    /\ Own(t, i) = Own(s, j)
    /\ Prevouts(t, i, a) = Prevouts(s, j, a)
    /\ Finals(t, i, a) = Finals(s, j, a)
    /\ a < SIGHASH_ANYONECANPAY => i = j
OutputsAgree(t, i, s, j, a) ==
  SignedOutputs(t, i, a) = SignedOutputs(s, j, a) <=>
    PaidOuts(t, i, a) = PaidOuts(s, j, a) /\ (fHashSingle(a) => i = j)
HashesAgree(code, t, i, a, s, j, b) ==
  SignatureHash(code, t, i, a) = SignatureHash(code, s, j, b) <=> Committed(t, i, a) = Committed(s, j, b)

\* Of the inputs, those parts are hashed that are committed to.
LEMMA InputsSigned ==
  ASSUME NEW code, ScriptCode(code) # ScriptCode(<<>>), NEW a \in 0 .. 255,
         NEW t \in Txs, NEW i \in DOMAIN t.vin, NEW s \in Txs, NEW j \in DOMAIN s.vin
  PROVE  InputsAgree(code, t, i, s, j, a)
<1> DEFINE C == ScriptCode(code)
           N == ScriptCode(<<>>)
           hides == a % 32 \in {SIGHASH_NONE, SIGHASH_SINGLE}
           In(u, x, k) == SignedInput(u, code, x, k, a)
<1>1. \A u, x, k : /\ In(u, x, k).prevout = u.vin[x].prevout
                   /\ In(u, x, k).script = IF x # k THEN N ELSE C
                   /\ In(u, x, k).nSequence = IF x # k /\ hides THEN 0 ELSE u.vin[x].nSequence
  <2> TAKE u, x, k
  <2>1. C = ScriptCode(code) /\ N = ScriptCode(<<>>)
    OBVIOUS
  <2> HIDE DEF C, N
  <2> QED BY <2>1 DEF SignedInput, fHashSingle, fHashNone
<1>2. \A u, v, x, y, k, l :
        In(u, x, k) = In(v, y, l) <=>
          /\ In(u, x, k).prevout = In(v, y, l).prevout
          /\ In(u, x, k).script = In(v, y, l).script
          /\ In(u, x, k).nSequence = In(v, y, l).nSequence
  BY DEF SignedInput
<1>3. C # N
  OBVIOUS
<1> HIDE DEF C, N, In
<1>4. a >= SIGHASH_ANYONECANPAY <=> fAnyoneCanPay(a)
  BY FlagIs
<1>5. a \in Int /\ (a < SIGHASH_ANYONECANPAY <=> ~fAnyoneCanPay(a))
  BY <1>4 DEF SIGHASH_ANYONECANPAY
<1>6. CASE fAnyoneCanPay(a)
  <2>1. SignedInputs(t, code, i, a) = <<In(t, i, i)>> /\ SignedInputs(s, code, j, a) = <<In(s, j, j)>>
    BY <1>6 DEF SignedInputs, In
  <2>2. SignedInputs(t, code, i, a) = SignedInputs(s, code, j, a) <=> In(t, i, i) = In(s, j, j)
    BY <2>1
  <2>3. In(t, i, i) = In(s, j, j) <=> Own(t, i) = Own(s, j)
    BY <1>1, <1>2 DEF Own
  <2>4. OthersOf(t, i, a) = {} /\ OthersOf(s, j, a) = {}
    BY <1>4, <1>6 DEF OthersOf, Whose
  <2>5. Prevouts(t, i, a) = Prevouts(s, j, a) /\ Finals(t, i, a) = Finals(s, j, a)
    BY <2>4 DEF Prevouts, Finals
  <2> QED BY <1>5, <1>6, <2>2, <2>3, <2>5 DEF InputsAgree
<1>7. CASE ~fAnyoneCanPay(a)
  <2> DEFINE F == SignedInputs(t, code, i, a)
             G == SignedInputs(s, code, j, a)
             D == DOMAIN t.vin
             E == DOMAIN s.vin
  <2>1. F = [x \in D |-> In(t, x, i)] /\ G = [x \in E |-> In(s, x, j)]
    BY <1>7 DEF SignedInputs, In
  <2>2. OthersOf(t, i, a) = D \ {i} /\ OthersOf(s, j, a) = E \ {j}
    BY <1>4, <1>7 DEF OthersOf, Whose
  <2>3. i \in D /\ j \in E
    OBVIOUS
  <2> HIDE DEF F, G, D, E
  <2>4. DOMAIN F = D /\ DOMAIN G = E /\ (\A x \in D : F[x] = In(t, x, i)) /\ \A x \in E : G[x] = In(s, x, j)
    BY <2>1
  <2> DEFINE P == Prevouts(t, i, a)
             Q == Prevouts(s, j, a)
             R == Finals(t, i, a)
             S == Finals(s, j, a)
  <2>5. /\ P = [x \in D \ {i} |-> t.vin[x].prevout] /\ Q = [x \in E \ {j} |-> s.vin[x].prevout]
        /\ hides => R = <<>> /\ S = <<>>
        /\ ~hides => R = [x \in D \ {i} |-> t.vin[x].nSequence] /\ S = [x \in E \ {j} |-> s.vin[x].nSequence]
    BY <2>2 DEF Prevouts, Finals
  <2>6. Own(t, i) = Own(s, j) <=> t.vin[i].prevout = s.vin[j].prevout /\ t.vin[i].nSequence = s.vin[j].nSequence
    BY DEF Own
  <2> HIDE DEF P, Q, R, S, hides
  <2>7. ASSUME F = G PROVE Own(t, i) = Own(s, j) /\ P = Q /\ R = S /\ i = j
    <3>1. D = E /\ \A x \in D : In(t, x, i) = In(s, x, j)
      BY <2>4, <2>7
    <3>2. i = j
      <4>1. In(t, i, i).script = C
        BY <1>1
      <4>2. In(s, i, j).script = C
        BY <2>3, <3>1, <4>1
      <4> QED BY <1>1, <1>3, <4>2
    <3>3. \A x \in D : t.vin[x].prevout = s.vin[x].prevout
      BY <1>1, <3>1
    <3>4. ASSUME NEW x \in D, x = i \/ ~hides PROVE t.vin[x].nSequence = s.vin[x].nSequence
      <4>1. In(t, x, i).nSequence = In(s, x, j).nSequence
        BY <3>1
      <4> QED BY <1>1, <3>2, <3>4, <4>1
    <3>5. P = Q
      BY <2>5, <3>1, <3>2, <3>3
    <3>6. R = S
      BY <2>5, <3>1, <3>2, <3>4
    <3>7. Own(t, i) = Own(s, j)
      BY <2>3, <2>6, <3>2, <3>3, <3>4
    <3> QED BY <3>2, <3>5, <3>6, <3>7
  <2>8. ASSUME Own(t, i) = Own(s, j), P = Q, R = S, i = j PROVE F = G
    <3>1. D \ {i} = E \ {j} /\ \A x \in D \ {i} : t.vin[x].prevout = s.vin[x].prevout
      <4>1. DOMAIN P = D \ {i} /\ DOMAIN Q = E \ {j}
        BY <2>5
      <4>2. (\A x \in D \ {i} : P[x] = t.vin[x].prevout) /\ \A x \in E \ {j} : Q[x] = s.vin[x].prevout
        BY <2>5
      <4> QED BY <2>8, <4>1, <4>2
    <3>2. D = E
      <4>1. \A x : x # i => (x \in D <=> x \in D \ {i}) /\ (x \in E <=> x \in E \ {j})
        BY <2>8
      <4>2. \A x : x \in D <=> x \in E
        BY <2>3, <2>8, <3>1, <4>1
      <4> QED BY <4>2
    <3>3. ~hides => \A x \in D \ {i} : t.vin[x].nSequence = s.vin[x].nSequence
      <4> SUFFICES ASSUME ~hides PROVE \A x \in D \ {i} : t.vin[x].nSequence = s.vin[x].nSequence
        OBVIOUS
      <4>1. (\A x \in D \ {i} : R[x] = t.vin[x].nSequence) /\ \A x \in E \ {j} : S[x] = s.vin[x].nSequence
        BY <2>5
      <4> QED BY <2>8, <3>1, <4>1
    <3>4. ASSUME NEW x \in D PROVE In(t, x, i) = In(s, x, j)
      <4>1. CASE x = i
        BY <1>1, <1>2, <2>6, <2>8, <4>1
      <4>2. CASE x # i
        BY <1>1, <1>2, <2>8, <3>1, <3>3, <4>2
      <4> QED BY <4>1, <4>2
    <3> QED BY <2>1, <3>2, <3>4
  <2> QED BY <1>5, <1>7, <2>7, <2>8 DEF InputsAgree, F, G, P, Q, R, S
<1> QED BY <1>6, <1>7

\* And so of the outputs.
LEMMA OutputsSigned ==
  ASSUME NEW a \in 0 .. 255, NEW t \in Txs, NEW i \in Nat \ {0}, NEW s \in Txs, NEW j \in Nat \ {0},
         fHashSingle(a) => i \in DOMAIN t.vout /\ j \in DOMAIN s.vout
  PROVE  OutputsAgree(t, i, s, j, a)
<1>1. CASE fHashNone(a)
  <2>1. SignedOutputs(t, i, a) = <<>> /\ SignedOutputs(s, j, a) = <<>>
    BY <1>1 DEF SignedOutputs
  <2>2. PaidOf(t, i, a) = {} /\ PaidOf(s, j, a) = {}
    BY <1>1 DEF PaidOf, fHashNone
  <2>3. PaidOuts(t, i, a) = PaidOuts(s, j, a)
    BY <2>2 DEF PaidOuts
  <2>4. ~fHashSingle(a)
    BY <1>1 DEF fHashSingle, fHashNone, SIGHASH_SINGLE, SIGHASH_NONE
  <2> QED BY <2>1, <2>3, <2>4 DEF OutputsAgree
<1>2. CASE fHashSingle(a)
  <2> DEFINE F == [x \in 1 .. i |-> IF x = i THEN t.vout[x] ELSE NullTxOut]
             G == [x \in 1 .. j |-> IF x = j THEN s.vout[x] ELSE NullTxOut]
             P == [x \in {i} |-> t.vout[x]]
             Q == [x \in {j} |-> s.vout[x]]
  <2>0. ~fHashNone(a) /\ a % 32 # SIGHASH_NONE /\ a % 32 = SIGHASH_SINGLE
    BY <1>2 DEF fHashSingle, fHashNone, SIGHASH_SINGLE, SIGHASH_NONE
  <2>1. SignedOutputs(t, i, a) = F /\ SignedOutputs(s, j, a) = G
    BY <1>2, <2>0 DEF SignedOutputs
  <2>2. PaidOuts(t, i, a) = P /\ PaidOuts(s, j, a) = Q
    BY <2>0 DEF PaidOuts, PaidOf
  <2>3. DOMAIN F = 1 .. i /\ DOMAIN G = 1 .. j /\ DOMAIN P = {i} /\ DOMAIN Q = {j}
    OBVIOUS
  <2>4. F[i] = t.vout[i] /\ G[j] = s.vout[j] /\ P[i] = t.vout[i] /\ Q[j] = s.vout[j]
    OBVIOUS
  <2>5. ASSUME F = G PROVE P = Q /\ i = j
    <3>1. i \in 1 .. j /\ j \in 1 .. i
      <4>1. i \in 1 .. i /\ j \in 1 .. j
        OBVIOUS
      <4>2. 1 .. i = 1 .. j
        BY <2>3, <2>5
      <4> QED BY <4>1, <4>2
    <3>2. i = j
      BY <3>1
    <3>3. t.vout[i] = s.vout[i]
      BY <2>4, <2>5, <3>2
    <3> QED BY <3>2, <3>3
  <2>6. ASSUME P = Q, i = j PROVE F = G
    <3>1. t.vout[i] = s.vout[i]
      BY <2>4, <2>6
    <3> QED BY <2>6, <3>1
  <2> HIDE DEF F, G, P, Q
  <2> QED BY <1>2, <2>1, <2>2, <2>5, <2>6 DEF OutputsAgree
<1>3. CASE ~fHashNone(a) /\ ~fHashSingle(a)
  <2>1. SignedOutputs(t, i, a) = t.vout /\ SignedOutputs(s, j, a) = s.vout
    BY <1>3 DEF SignedOutputs
  <2>2. PaidOuts(t, i, a) = [x \in DOMAIN t.vout |-> t.vout[x]] /\ PaidOuts(s, j, a) = [x \in DOMAIN s.vout |-> s.vout[x]]
    BY <1>3 DEF PaidOuts, PaidOf, fHashNone, fHashSingle
  <2>3. t.vout = [x \in DOMAIN t.vout |-> t.vout[x]] /\ s.vout = [x \in DOMAIN s.vout |-> s.vout[x]]
    <3>1. t.vout \in Seq(TxOuts) /\ s.vout \in Seq(TxOuts)
      BY TxIs
    <3>2. \A u \in Seq(TxOuts) : u = [x \in DOMAIN u |-> u[x]]
      OBVIOUS
    <3> QED BY <3>1, <3>2
  <2> QED BY <1>3, <2>1, <2>2, <2>3 DEF OutputsAgree
<1> QED BY <1>1, <1>2, <1>3

LEMMA CommittedIs ==
  ASSUME NEW t, NEW i, NEW a
  PROVE  Committed(t, i, a) =
           [tx |-> <<t.nVersion, t.nLockTime, a>>, own |-> Own(t, i),
            place |-> IF a < SIGHASH_ANYONECANPAY \/ a % 32 = SIGHASH_SINGLE THEN i ELSE 0,
            others |-> Prevouts(t, i, a), final |-> Finals(t, i, a), paid |-> PaidOuts(t, i, a)]
BY DEF Committed, Own, Prevouts, Finals, PaidOuts, OthersOf, PaidOf

\* The hashes are the same exactly if what they commit to is.
LEMMA HashIs ==
  ASSUME NEW code, ScriptCode(code) # ScriptCode(<<>>),
         NEW t \in Txs, NEW i \in Nat \ {0}, NEW a \in 0 .. 255, Signable(t, i, a),
         NEW s \in Txs, NEW j \in Nat \ {0}, NEW b \in 0 .. 255, Signable(s, j, b)
  PROVE  HashesAgree(code, t, i, a, s, j, b)
<1>1. SignatureHash(code, t, i, a) =
        <<t.nVersion, SignedInputs(t, code, i, a), SignedOutputs(t, i, a), t.nLockTime, a>>
  BY SignableIs DEF SignatureHash
<1>2. SignatureHash(code, s, j, b) =
        <<s.nVersion, SignedInputs(s, code, j, b), SignedOutputs(s, j, b), s.nLockTime, b>>
  BY SignableIs DEF SignatureHash
<1>3. SignatureHash(code, t, i, a) = SignatureHash(code, s, j, b) <=>
        /\ t.nVersion = s.nVersion /\ t.nLockTime = s.nLockTime /\ a = b
        /\ SignedInputs(t, code, i, a) = SignedInputs(s, code, j, b)
        /\ SignedOutputs(t, i, a) = SignedOutputs(s, j, b)
  BY <1>1, <1>2
<1> DEFINE p == IF a < SIGHASH_ANYONECANPAY \/ a % 32 = SIGHASH_SINGLE THEN i ELSE 0
           q == IF b < SIGHASH_ANYONECANPAY \/ b % 32 = SIGHASH_SINGLE THEN j ELSE 0
<1>4. Committed(t, i, a) = Committed(s, j, b) <=>
        /\ t.nVersion = s.nVersion /\ t.nLockTime = s.nLockTime /\ a = b
        /\ Own(t, i) = Own(s, j) /\ p = q /\ Prevouts(t, i, a) = Prevouts(s, j, b)
        /\ Finals(t, i, a) = Finals(s, j, b) /\ PaidOuts(t, i, a) = PaidOuts(s, j, b)
  <2>1. /\ Committed(t, i, a) =
             [tx |-> <<t.nVersion, t.nLockTime, a>>, own |-> Own(t, i), place |-> p,
              others |-> Prevouts(t, i, a), final |-> Finals(t, i, a), paid |-> PaidOuts(t, i, a)]
        /\ Committed(s, j, b) =
             [tx |-> <<s.nVersion, s.nLockTime, b>>, own |-> Own(s, j), place |-> q,
              others |-> Prevouts(s, j, b), final |-> Finals(s, j, b), paid |-> PaidOuts(s, j, b)]
    BY CommittedIs
  <2> HIDE DEF p, q
  <2> QED BY <2>1
<1>5. ASSUME a = b
      PROVE  SignedInputs(t, code, i, a) = SignedInputs(s, code, j, b) /\ SignedOutputs(t, i, a) = SignedOutputs(s, j, b)
             <=> /\ Own(t, i) = Own(s, j) /\ p = q /\ Prevouts(t, i, a) = Prevouts(s, j, b)
                 /\ Finals(t, i, a) = Finals(s, j, b) /\ PaidOuts(t, i, a) = PaidOuts(s, j, b)
  <2>1. i \in DOMAIN t.vin /\ j \in DOMAIN s.vin
    BY DEF Signable
  <2>2. fHashSingle(a) => i \in DOMAIN t.vout /\ j \in DOMAIN s.vout
    BY <1>5 DEF Signable, fHashSingle
  <2>3. p = q <=> (a < SIGHASH_ANYONECANPAY => i = j) /\ (fHashSingle(a) => i = j)
    BY <1>5 DEF fHashSingle
  <2> HIDE DEF p, q
  <2>4. SignedInputs(t, code, i, a) = SignedInputs(s, code, j, a) <=>
           /\ Own(t, i) = Own(s, j)
           /\ Prevouts(t, i, a) = Prevouts(s, j, a)
           /\ Finals(t, i, a) = Finals(s, j, a)
           /\ a < SIGHASH_ANYONECANPAY => i = j
    <3>1. InputsAgree(code, t, i, s, j, a)
      BY <2>1, InputsSigned
    <3> QED BY <3>1 DEF InputsAgree
  <2>5. SignedOutputs(t, i, a) = SignedOutputs(s, j, a) <=>
           PaidOuts(t, i, a) = PaidOuts(s, j, a) /\ (fHashSingle(a) => i = j)
    <3>1. OutputsAgree(t, i, s, j, a)
      BY <2>2, OutputsSigned
    <3> QED BY <3>1 DEF OutputsAgree
  <2> QED BY <1>5, <2>3, <2>4, <2>5
<1> HIDE DEF p, q
<1> QED BY <1>3, <1>4, <1>5 DEF HashesAgree

\* A signature holds for a transaction exactly while what its hash type says it
\* commits to is the same, whatever is changed, for inputs and outputs of any
\* number.
THEOREM SignaturesStayBound == Spec => []SignatureCommits
<1>1. TxInv => SignatureCommits
  <2> SUFFICES ASSUME TxInv, signed # NotSigned, ScriptCode(signed.code) # ScriptCode(<<>>),
                      NEW i \in 1 .. MaxInputs + 1, NEW a \in HashTypes
               PROVE  SignatureHash(signed.code, tx, i, a)
                        = SignatureHash(signed.code, signed.tx, signed.nIn, signed.nHashType) <=>
                      IF Signable(signed.tx, signed.nIn, signed.nHashType)
                        THEN /\ Signable(tx, i, a)
                             /\ Committed(tx, i, a) = Committed(signed.tx, signed.nIn, signed.nHashType)
                        ELSE ~Signable(tx, i, a)
    BY DEF SignatureCommits, CommitsExactly, HoldsFor
  <2> DEFINE t == tx
             s == signed.tx
             j == signed.nIn
             b == signed.nHashType
             c == signed.code
  <2>1. t \in Txs /\ s \in Txs /\ i \in Nat \ {0} /\ j \in Nat \ {0} /\ a \in 0 .. 255 /\ b \in 0 .. 255
    <3>1. HashTypes \subseteq 0 .. 255 /\ MaxInputs \in Nat
      BY GivenAssumption DEF Byte
    <3>2. /\ tx \in Txs /\ signed.tx \in Txs
          /\ signed.nIn \in 1 .. MaxInputs + 1 /\ signed.nHashType \in HashTypes
      BY Zenon DEF TxInv
    <3>3. \A k \in 1 .. MaxInputs + 1 : k \in Nat \ {0}
      BY <3>1
    <3> QED BY <3>1, <3>2, <3>3, Zenon
  <2>2. ScriptCode(c) # ScriptCode(<<>>)
    OBVIOUS
  <2> HIDE DEF t, s, j, b, c
  <2>3. ~Signable(t, i, a) <=> SignatureHash(c, t, i, a) = One
    BY <2>1, SignableIs, OneIsNoHash DEF SignatureHash
  <2>4. ~Signable(s, j, b) <=> SignatureHash(c, s, j, b) = One
    BY <2>1, SignableIs, OneIsNoHash DEF SignatureHash
  <2>5. Signable(t, i, a) /\ Signable(s, j, b) =>
          (SignatureHash(c, t, i, a) = SignatureHash(c, s, j, b) <=> Committed(t, i, a) = Committed(s, j, b))
    <3>1. Signable(t, i, a) /\ Signable(s, j, b) => HashesAgree(c, t, i, a, s, j, b)
      BY <2>1, <2>2, HashIs, Zenon
    <3> QED BY <3>1 DEF HashesAgree
  <2>6. SignatureHash(c, t, i, a) = SignatureHash(c, s, j, b) <=>
          IF Signable(s, j, b) THEN Signable(t, i, a) /\ Committed(t, i, a) = Committed(s, j, b)
          ELSE ~Signable(t, i, a)
    BY <2>3, <2>4, <2>5
  <2> QED BY <2>6 DEF t, s, j, b, c
<1> QED BY <1>1, TxInvInductive, PTL

-----------------------------------------------------------------------------
(***************************************************************************)
(* A script is read back, in the short forms of the standard ones too.     *)
(***************************************************************************)
\* A part of a sequence, element by element.
LEMMA PartIs ==
  ASSUME NEW s \in Seq(Nat), NEW m \in 1 .. Len(s) + 1, NEW n \in m - 1 .. Len(s)
  PROVE  /\ SubSeq(s, m, n) \in Seq(Nat) /\ Len(SubSeq(s, m, n)) = n - m + 1
         /\ \A i \in 1 .. n - m + 1 : SubSeq(s, m, n)[i] = s[m + i - 1]
<1>1. m \in Int /\ n \in Int /\ (m <= n => n - m + 1 = n - m + 1) /\ (~(m <= n) => n - m + 1 = 0)
  OBVIOUS
<1>2. \A i \in m .. n : s[i] \in Nat
  OBVIOUS
<1>3. /\ SubSeq(s, m, n) \in Seq(Nat) /\ Len(SubSeq(s, m, n)) = IF m <= n THEN n - m + 1 ELSE 0
      /\ \A i \in 1 .. n - m + 1 : SubSeq(s, m, n)[i] = s[m + i - 1]
  BY <1>1, <1>2, SubSeqProperties
<1> QED BY <1>1, <1>3

LEMMA TuplesAre ==
  ASSUME NEW t \in Seq(Nat)
  PROVE  /\ Len(t) = 1 => t = <<t[1]>>
         /\ Len(t) = 2 => t = <<t[1], t[2]>>
         /\ Len(t) = 3 => t = <<t[1], t[2], t[3]>>
<1>1. ASSUME Len(t) = 1 PROVE t = <<t[1]>>
  BY <1>1
<1>2. ASSUME Len(t) = 2 PROVE t = <<t[1], t[2]>>
  BY <1>2
<1>3. ASSUME Len(t) = 3 PROVE t = <<t[1], t[2], t[3]>>
  BY <1>3
<1> QED BY <1>1, <1>2, <1>3

\* The middle of a script, and what is before and after it.
IsParted(s, a, b) ==
  /\ s = SubSeq(s, 1, a) \o SubSeq(s, a + 1, b) \o SubSeq(s, b + 1, Len(s))
  /\ SubSeq(s, a + 1, b) \in Seq(Nat) /\ Len(SubSeq(s, a + 1, b)) = b - a
HasEnds(s, a, b) ==
  /\ SubSeq(s, 1, a) \in Seq(Nat) /\ Len(SubSeq(s, 1, a)) = a
  /\ \A i \in 1 .. a : SubSeq(s, 1, a)[i] = s[i]
  /\ SubSeq(s, b + 1, Len(s)) \in Seq(Nat) /\ Len(SubSeq(s, b + 1, Len(s))) = Len(s) - b
  /\ \A i \in 1 .. Len(s) - b : SubSeq(s, b + 1, Len(s))[i] = s[b + i]

LEMMA Parted ==
  ASSUME NEW s \in Seq(Nat), NEW a \in Nat, NEW b \in Nat, a <= b, b <= Len(s)
  PROVE  IsParted(s, a, b) /\ HasEnds(s, a, b)
<1>0. Len(s) \in Nat
  OBVIOUS
<1> DEFINE n == Len(s)
<1>1. SubSeq(s, 1, a) \o SubSeq(s, a + 1, b) = SubSeq(s, 1, b)
  <2>1. 1 \in 1 .. Len(s) + 1 /\ a \in 1 - 1 .. Len(s) /\ b \in a .. Len(s)
    BY <1>0
  <2> QED BY <2>1, ConcatAdjacentSubSeq
<1>2. SubSeq(s, 1, b) \o SubSeq(s, b + 1, n) = SubSeq(s, 1, n)
  <2>1. 1 \in 1 .. Len(s) + 1 /\ b \in 1 - 1 .. Len(s) /\ Len(s) \in b .. Len(s)
    BY <1>0
  <2> QED BY <2>1, ConcatAdjacentSubSeq
<1>3. SubSeq(s, 1, n) = s
  BY SubSeqFull
<1>4. SubSeq(s, a + 1, b) \in Seq(Nat) /\ Len(SubSeq(s, a + 1, b)) = b - a
  <2>1. a + 1 \in 1 .. Len(s) + 1 /\ b \in (a + 1) - 1 .. Len(s) /\ b - (a + 1) + 1 = b - a
    BY <1>0
  <2> QED BY <2>1, PartIs
<1>5. /\ SubSeq(s, 1, a) \in Seq(Nat) /\ Len(SubSeq(s, 1, a)) = a
      /\ \A i \in 1 .. a : SubSeq(s, 1, a)[i] = s[i]
  <2>1. 1 \in 1 .. Len(s) + 1 /\ a \in 1 - 1 .. Len(s) /\ a - 1 + 1 = a
    BY <1>0
  <2>2. \A i \in 1 .. a : 1 + i - 1 = i
    OBVIOUS
  <2>3. /\ SubSeq(s, 1, a) \in Seq(Nat) /\ Len(SubSeq(s, 1, a)) = a - 1 + 1
        /\ \A i \in 1 .. a - 1 + 1 : SubSeq(s, 1, a)[i] = s[1 + i - 1]
    BY <2>1, PartIs
  <2> QED BY <2>1, <2>2, <2>3
<1>6. /\ SubSeq(s, b + 1, n) \in Seq(Nat) /\ Len(SubSeq(s, b + 1, n)) = n - b
      /\ \A i \in 1 .. n - b : SubSeq(s, b + 1, n)[i] = s[b + i]
  <2>1. b + 1 \in 1 .. Len(s) + 1 /\ Len(s) \in (b + 1) - 1 .. Len(s) /\ n - (b + 1) + 1 = n - b
    BY <1>0
  <2>2. \A i \in 1 .. n - b : (b + 1) + i - 1 = b + i
    BY <1>0
  <2>3. /\ SubSeq(s, b + 1, n) \in Seq(Nat) /\ Len(SubSeq(s, b + 1, n)) = n - (b + 1) + 1
        /\ \A i \in 1 .. n - (b + 1) + 1 : SubSeq(s, b + 1, n)[i] = s[(b + 1) + i - 1]
    BY <2>1, PartIs, Zenon
  <2> QED BY <2>1, <2>2, <2>3, Zenon
<1>7. IsParted(s, a, b)
  BY <1>1, <1>2, <1>3, <1>4, Zenon DEF IsParted
<1>8. HasEnds(s, a, b)
  BY <1>5, <1>6 DEF HasEnds
<1> QED BY <1>7, <1>8

\* A compressed script: what it was, from one byte and those of a hash or key.
Restored(s, c, h, old) ==
  /\ c \in 0 .. nSpecialScripts - 1 /\ h \in Seq(Nat) /\ Len(h) = GetSpecialSize(c)
  /\ Compress(s) = <<c>> \o h /\ Decompress(c, h, old) = s

LEMMA KeyIDRestored ==
  ASSUME NEW s \in Seq(Nat), IsToKeyID(s), NEW old
  PROVE  Restored(s, 0, SubSeq(s, 4, 23), old)
<1> DEFINE h == SubSeq(s, 3 + 1, 23)
           x == SubSeq(s, 1, 3)
           z == SubSeq(s, 23 + 1, Len(s))
<1>1. Len(s) = 25 /\ s[1] = OP_DUP /\ s[2] = OP_HASH160 /\ s[3] = HashBytes /\ s[24] = OP_EQUALVERIFY /\ s[25] = OP_CHECKSIG
  BY DEF IsToKeyID
<1>2. IsParted(s, 3, 23) /\ HasEnds(s, 3, 23)
  <2>1. 3 \in Nat /\ 23 \in Nat /\ 3 <= 23 /\ 23 <= Len(s)
    BY <1>1
  <2> QED BY <2>1, Parted
<1>20. s = x \o h \o z /\ h \in Seq(Nat) /\ Len(h) = 20
  <2>1. 23 - 3 = 20
    OBVIOUS
  <2> QED BY <1>2, <2>1 DEF IsParted
<1>21. /\ x \in Seq(Nat) /\ Len(x) = 3 /\ \A i \in 1 .. 3 : x[i] = s[i]
       /\ z \in Seq(Nat) /\ Len(z) = 2 /\ \A i \in 1 .. 2 : z[i] = s[23 + i]
  <2>1. Len(s) - 23 = 2
    BY <1>1
  <2> QED BY <1>2, <2>1 DEF HasEnds
<1>3. Compress(s) = <<0>> \o h /\ h = SubSeq(s, 4, 23)
  BY DEF Compress
<1> HIDE DEF h, x, z
<1>4. x = <<OP_DUP, OP_HASH160, HashBytes>> /\ z = <<OP_EQUALVERIFY, OP_CHECKSIG>>
  <2>1. x = <<x[1], x[2], x[3]>> /\ z = <<z[1], z[2]>>
    BY <1>21, TuplesAre
  <2>2. x[1] = s[1] /\ x[2] = s[2] /\ x[3] = s[3] /\ z[1] = s[24] /\ z[2] = s[25]
    BY <1>21
  <2> QED BY <1>1, <2>1, <2>2
<1>5. Decompress(0, h, old) = x \o h \o z
  BY <1>4 DEF Decompress
<1>6. GetSpecialSize(0) = 20 /\ 0 \in 0 .. nSpecialScripts - 1
  BY DEF GetSpecialSize, nSpecialScripts
<1>7. Restored(s, 0, h, old)
  BY <1>20, <1>3, <1>5, <1>6, Zenon DEF Restored
<1> QED BY <1>3, <1>7

LEMMA ScriptIDRestored ==
  ASSUME NEW s \in Seq(Nat), IsToScriptID(s), NEW old
  PROVE  Restored(s, 1, SubSeq(s, 3, 22), old)
<1> DEFINE h == SubSeq(s, 2 + 1, 22)
           x == SubSeq(s, 1, 2)
           z == SubSeq(s, 22 + 1, Len(s))
<1>1. Len(s) = 23 /\ s[1] = OP_HASH160 /\ s[2] = HashBytes /\ s[23] = OP_EQUAL
  BY DEF IsToScriptID
<1>2. IsParted(s, 2, 22) /\ HasEnds(s, 2, 22)
  <2>1. 2 \in Nat /\ 22 \in Nat /\ 2 <= 22 /\ 22 <= Len(s)
    BY <1>1
  <2> QED BY <2>1, Parted
<1>20. s = x \o h \o z /\ h \in Seq(Nat) /\ Len(h) = 20
  <2>1. 22 - 2 = 20
    OBVIOUS
  <2> QED BY <1>2, <2>1 DEF IsParted
<1>21. /\ x \in Seq(Nat) /\ Len(x) = 2 /\ \A i \in 1 .. 2 : x[i] = s[i]
       /\ z \in Seq(Nat) /\ Len(z) = 1 /\ \A i \in 1 .. 1 : z[i] = s[22 + i]
  <2>1. Len(s) - 22 = 1
    BY <1>1
  <2> QED BY <1>2, <2>1 DEF HasEnds
<1>3. Compress(s) = <<1>> \o h /\ h = SubSeq(s, 3, 22)
  <2>1. ~IsToKeyID(s)
    BY <1>1 DEF IsToKeyID
  <2> QED BY <2>1 DEF Compress
<1> HIDE DEF h, x, z
<1>4. x = <<OP_HASH160, HashBytes>> /\ z = <<OP_EQUAL>>
  <2>1. x = <<x[1], x[2]>> /\ z = <<z[1]>>
    BY <1>21, TuplesAre
  <2>2. x[1] = s[1] /\ x[2] = s[2] /\ z[1] = s[23]
    BY <1>21
  <2> QED BY <1>1, <2>1, <2>2
<1>5. Decompress(1, h, old) = x \o h \o z
  BY <1>4 DEF Decompress
<1>6. GetSpecialSize(1) = 20 /\ 1 \in 0 .. nSpecialScripts - 1
  BY DEF GetSpecialSize, nSpecialScripts
<1>7. Restored(s, 1, h, old)
  BY <1>20, <1>3, <1>5, <1>6, Zenon DEF Restored
<1> QED BY <1>3, <1>7

LEMMA ShortKeyRestored ==
  ASSUME NEW s \in Seq(Nat), Len(s) = 35, s[1] = 33, s[35] = OP_CHECKSIG, s[2] \in {2, 3}, NEW old
  PROVE  Restored(s, s[2], SubSeq(s, 3, 34), old)
<1> DEFINE h == SubSeq(s, 2 + 1, 34)
           x == SubSeq(s, 1, 2)
           z == SubSeq(s, 34 + 1, Len(s))
           c == s[2]
<1>1. IsParted(s, 2, 34) /\ HasEnds(s, 2, 34)
  <2>1. 2 \in Nat /\ 34 \in Nat /\ 2 <= 34 /\ 34 <= Len(s)
    OBVIOUS
  <2> QED BY <2>1, Parted
<1>20. s = x \o h \o z /\ h \in Seq(Nat) /\ Len(h) = 32
  <2>1. 34 - 2 = 32
    OBVIOUS
  <2> QED BY <1>1, <2>1 DEF IsParted
<1>21. /\ x \in Seq(Nat) /\ Len(x) = 2 /\ \A i \in 1 .. 2 : x[i] = s[i]
       /\ z \in Seq(Nat) /\ Len(z) = 1 /\ \A i \in 1 .. 1 : z[i] = s[34 + i]
  <2>1. Len(s) - 34 = 1
    OBVIOUS
  <2> QED BY <1>1, <2>1 DEF HasEnds
<1>2. Compress(s) = <<c>> \o h /\ h = SubSeq(s, 3, 34)
  <2>1. ~IsToKeyID(s) /\ ~IsToScriptID(s) /\ s[2] # 4
    BY DEF IsToKeyID, IsToScriptID
  <2> QED BY <2>1 DEF Compress
<1>3. c \in {2, 3}
  OBVIOUS
<1> HIDE DEF h, x, z
<1>4. x = <<33, c>> /\ z = <<OP_CHECKSIG>>
  <2>1. x = <<x[1], x[2]>> /\ z = <<z[1]>>
    BY <1>21, TuplesAre
  <2>2. x[1] = s[1] /\ x[2] = s[2] /\ z[1] = s[35]
    BY <1>21
  <2> QED BY <2>1, <2>2
<1> HIDE DEF c
<1>5. Decompress(c, h, old) = x \o h \o z
  BY <1>3, <1>4 DEF Decompress
<1>6. GetSpecialSize(c) = 32 /\ c \in 0 .. nSpecialScripts - 1
  BY <1>3 DEF GetSpecialSize, nSpecialScripts
<1>7. Restored(s, c, h, old)
  BY <1>20, <1>2, <1>5, <1>6, Zenon DEF Restored
<1> QED BY <1>2, <1>7 DEF c

LEMMA LongKeyRestored ==
  ASSUME NEW s \in Seq(Nat), Len(s) = 67, s[1] = 65, s[67] = OP_CHECKSIG, s[2] = 4,
         IsFullyValid(SubSeq(s, 2, 66)), NEW old
  PROVE  Restored(s, 4 + (s[66] % 2), SubSeq(s, 3, 34), old)
<1> DEFINE h == SubSeq(s, 3, 34)
           x == SubSeq(s, 1, 1)
           key == SubSeq(s, 1 + 1, 66)
           z == SubSeq(s, 66 + 1, Len(s))
           c == 4 + (s[66] % 2)
<1>1. IsParted(s, 1, 66) /\ HasEnds(s, 1, 66)
  <2>1. 1 \in Nat /\ 66 \in Nat /\ 1 <= 66 /\ 66 <= Len(s)
    OBVIOUS
  <2> QED BY <2>1, Parted
<1>20. s = x \o key \o z /\ key \in Seq(Nat) /\ Len(key) = 65
  <2>1. 66 - 1 = 65
    OBVIOUS
  <2> QED BY <1>1, <2>1 DEF IsParted
<1>21. /\ x \in Seq(Nat) /\ Len(x) = 1 /\ \A i \in 1 .. 1 : x[i] = s[i]
       /\ z \in Seq(Nat) /\ Len(z) = 1 /\ \A i \in 1 .. 1 : z[i] = s[66 + i]
  <2>1. Len(s) - 66 = 1
    OBVIOUS
  <2> QED BY <1>1, <2>1 DEF HasEnds
<1>2. h \in Seq(Nat) /\ Len(h) = 32
  <2>1. 3 \in 1 .. Len(s) + 1 /\ 34 \in 3 - 1 .. Len(s) /\ 34 - 3 + 1 = 32
    OBVIOUS
  <2> QED BY <2>1, PartIs
<1>3. \A i \in 1 .. 65 : key[i] = s[i + 1]
  <2>1. 2 \in 1 .. Len(s) + 1 /\ 66 \in 2 - 1 .. Len(s) /\ 66 - 2 + 1 = 65 /\ key = SubSeq(s, 2, 66)
    OBVIOUS
  <2>2. \A i \in 1 .. 65 : key[i] = s[2 + i - 1]
    BY <2>1, PartIs
  <2>3. \A i \in 1 .. 65 : 2 + i - 1 = i + 1
    OBVIOUS
  <2> QED BY <2>2, <2>3
<1>4. SubSeq(key, 2, 33) = h
  <2>1. /\ 2 \in 1 .. Len(s) /\ 66 \in 1 .. Len(s) /\ 2 \in 1 .. 66 - 2 + 1 /\ 33 \in 1 .. 66 - 2 + 1
        /\ 2 + 2 - 1 = 3 /\ 2 + 33 - 1 = 34 /\ key = SubSeq(s, 2, 66)
    OBVIOUS
  <2> QED BY <2>1, SubSeqOfSubSeq
<1>5. IsFullyValid(key)
  OBVIOUS
<1>6. Compress(s) = <<c>> \o h
  <2>1. ~IsToKeyID(s) /\ ~IsToScriptID(s)
    BY DEF IsToKeyID, IsToScriptID
  <2> QED BY <2>1 DEF Compress
<1>7. c \in {4, 5} /\ c - 2 = 2 + (s[66] % 2)
  <2>1. s[66] \in Nat
    <3>1. 66 \in 1 .. Len(s)
      OBVIOUS
    <3> QED BY <3>1, ElementOfSeq
  <2>2. \A n \in Nat : n % 2 \in {0, 1}
    OBVIOUS
  <2>3. s[66] % 2 \in {0, 1}
    BY <2>1, <2>2
  <2> QED BY <2>3
<1> HIDE DEF h, key, c, x, z
<1>8. key[1] = 4 /\ key[65] = s[66]
  BY <1>3
<1>9. Expand(<<c - 2>> \o h) = key
  BY <1>4, <1>5, <1>7, <1>8 DEF IsFullyValid
<1>10. key # <<>>
  <2>1. Len(<<>>) = 0
    OBVIOUS
  <2>2. Len(key) = 65 /\ 65 # 0
    BY <1>20
  <2> QED BY <2>1, <2>2, Zenon
<1>11. x = <<65>> /\ z = <<OP_CHECKSIG>>
  <2>1. x = <<x[1]>> /\ z = <<z[1]>>
    BY <1>21, TuplesAre
  <2>2. x[1] = s[1] /\ z[1] = s[67]
    BY <1>21
  <2> QED BY <2>1, <2>2
<1>12. Decompress(c, h, old) = x \o key \o z
  <2>1. Decompress(c, h, old) = LET k == Expand(<<c - 2>> \o h) IN IF k = <<>> THEN old ELSE <<65>> \o k \o <<OP_CHECKSIG>>
    BY <1>7 DEF Decompress
  <2> QED BY <1>9, <1>10, <1>11, <2>1
<1>13. GetSpecialSize(c) = 32 /\ c \in 0 .. nSpecialScripts - 1
  BY <1>7 DEF GetSpecialSize, nSpecialScripts
<1>14. Restored(s, c, h, old)
  BY <1>20, <1>2, <1>6, <1>12, <1>13 DEF Restored
<1> QED BY <1>14 DEF c, h

LEMMA CompressibleRestored ==
  ASSUME NEW s \in Seq(Nat), Compressible(s), NEW old
  PROVE  \E c, h : Restored(s, c, h, old)
<1>1. CASE IsToKeyID(s)
  BY <1>1, KeyIDRestored
<1>2. CASE IsToScriptID(s)
  BY <1>2, ScriptIDRestored
<1>3. CASE IsToPubKey(s)
  <2>1. CASE Len(s) = 35 /\ s[1] = 33 /\ s[35] = OP_CHECKSIG /\ s[2] \in {2, 3}
    BY <2>1, ShortKeyRestored
  <2>2. CASE Len(s) = 67 /\ s[1] = 65 /\ s[67] = OP_CHECKSIG /\ s[2] = 4 /\ IsFullyValid(SubSeq(s, 2, 66))
    BY <2>2, LongKeyRestored
  <2> QED BY <1>3, <2>1, <2>2 DEF IsToPubKey
<1> QED BY <1>1, <1>2, <1>3 DEF Compressible

LEMMA FitIs == nSpecialScripts = 6 /\ TopBit = 128 /\ VarIntModulus \in Nat
<1>1. Radix = 256 /\ VarIntModulus \in Nat
  BY GivenAssumption, EncodingAssumption
<1> QED BY <1>1 DEF nSpecialScripts, TopBit

LEMMA LeavingIs ==
  ASSUME NEW v, NEW value, NEW rest
  PROVE  Leaving(Got(v, rest), value) = Got(value, rest)
<1>1. \A a, b : [[ok |-> a, short |-> b, value |-> v, rest |-> rest] EXCEPT !.value = value]
                  = [ok |-> a, short |-> b, value |-> value, rest |-> rest]
  OBVIOUS
<1>2. [[ok |-> TRUE, short |-> FALSE, value |-> v, rest |-> rest] EXCEPT !.value = value]
        = [ok |-> TRUE, short |-> FALSE, value |-> value, rest |-> rest]
  BY <1>1, Zenon
<1> QED BY <1>2, Zenon DEF Leaving, Got

\* A byte below the top bit is a number by itself.
LEMMA ByteIsNumber ==
  ASSUME NEW c \in 0 .. TopBit - 1, c < VarIntModulus, NEW rest \in Seq(Nat), NEW old
  PROVE  ReadVarInt(<<c>> \o rest, old) = Got(c, rest)
<1>0. TopBit \in Nat \ {0} /\ VarIntModulus \in Nat
  BY TopBitIs, EncodingAssumption
<1>1. VarIntOf(<<c>>) = c
  <2>1. <<>> \in Seq(Nat) /\ <<>> \o <<c>> = <<c>> /\ c \in Nat
    BY <1>0
  <2>2. VarIntOf(<<>> \o <<c>>) = WithDigit(VarIntOf(<<>>), c)
    BY <2>1, VarIntNext
  <2>3. c % TopBit = c /\ c % VarIntModulus = c
    BY <1>0, Reduced
  <2>4. 0 * TopBit + c + 0 = c
    BY <1>0
  <2>5. WithDigit(0, c) = c
    BY <1>0, <2>3, <2>4 DEF WithDigit
  <2> QED BY <2>1, <2>2, <2>5, VarIntEmpty
<1> DEFINE w == <<c>>
<1>2. w \in Seq(Nat) /\ Len(w) = 1 /\ w[1] = c
  BY <1>0
<1> HIDE DEF w
<1>3. Len(w) >= 1 /\ w[Len(w)] < TopBit /\ \A i \in 1 .. Len(w) - 1 : w[i] >= TopBit
  BY <1>0, <1>2
<1>4. ReadVarInt(w \o rest, old) = Got(VarIntOf(w), rest)
  BY <1>2, <1>3, VarIntFound
<1> QED BY <1>1, <1>4 DEF w

LEMMA TakeAll ==
  ASSUME NEW s \in Seq(Nat)
  PROVE  Take(s, Len(s)) = Got(s, <<>>)
<1>1. Len(s) \in Nat /\ SubSeq(s, 1, Len(s)) = s
  BY SubSeqFull
<1>2. SubSeq(s, Len(s) + 1, Len(s)) = <<>>
  <2>1. Len(s) + 1 \in Int /\ Len(s) \in Int /\ Len(s) < Len(s) + 1
    BY <1>1
  <2> QED BY <2>1, SubSeqEmpty
<1>3. Len(s) <= Len(s)
  BY <1>1
<1> QED BY <1>1, <1>2, <1>3, Zenon DEF Take

ScriptBack(s, old) ==
  /\ WriteScript(s) \in Seq(Nat)
  /\ ScriptSize(s) = Len(WriteScript(s))
  /\ ReadScript(WriteScript(s), old) = Got(s, <<>>)

LEMMA ScriptReadBack ==
  ASSUME NEW s \in Seq(Nat), Len(s) + nSpecialScripts < VarIntModulus, NEW old
  PROVE  ScriptBack(s, old)
<1>1. CASE Compressible(s)
  <2>0. PICK c : \E h : Restored(s, c, h, old)
    BY <1>1, CompressibleRestored
  <2>1. PICK h : Restored(s, c, h, old)
    BY <2>0
  <2>2. /\ c \in 0 .. nSpecialScripts - 1 /\ h \in Seq(Nat) /\ Len(h) = GetSpecialSize(c)
        /\ Compress(s) = <<c>> \o h /\ Decompress(c, h, old) = s
    BY <2>1 DEF Restored
  <2>3. WriteScript(s) = <<c>> \o h /\ ScriptSize(s) = Len(<<c>> \o h)
    BY <1>1, <2>2 DEF WriteScript, ScriptSize
  <2>4. ReadVarInt(<<c>> \o h, 0) = Got(c, h)
    <3>1. c \in 0 .. TopBit - 1 /\ c < VarIntModulus
      <4>1. Len(s) \in Nat
        OBVIOUS
      <4> QED BY <2>2, <4>1, FitIs
    <3> QED BY <2>2, <3>1, ByteIsNumber
  <2>5. Take(h, GetSpecialSize(c)) = Got(h, <<>>)
    BY <2>2, TakeAll
  <2>6. Got(c, h).ok /\ Got(c, h).value = c /\ Got(c, h).rest = h /\ Got(h, <<>>).ok /\ Got(h, <<>>).value = h
    BY DEF Got
  <2>7. c < nSpecialScripts
    BY <2>2, FitIs
  <2>8. ReadScript(<<c>> \o h, old) = SpecialScript(c, Got(h, <<>>), old)
    BY <2>4, <2>5, <2>6, <2>7, Zenon DEF ReadScript, ScriptOf
  <2>9. SpecialScript(c, Got(h, <<>>), old) = Leaving(Got(h, <<>>), s)
    BY <2>2, <2>6 DEF SpecialScript
  <2>10. Leaving(Got(h, <<>>), s) = Got(s, <<>>)
    BY LeavingIs
  <2>11. <<c>> \o h \in Seq(Nat)
    <3>1. <<c>> \in Seq(Nat)
      BY <2>2, FitIs
    <3> QED BY <2>2, <3>1, ConcatProperties
  <2> QED BY <2>3, <2>8, <2>9, <2>10, <2>11 DEF ScriptBack
<1>2. CASE ~Compressible(s)
  <2> DEFINE n == Len(s) + nSpecialScripts
             w == WriteVarInt(n)
  <2>1. n \in 0 .. VarIntModulus - 1 /\ n \in Nat /\ n - nSpecialScripts = Len(s) /\ ~(n < nSpecialScripts) /\ Len(s) \in Nat
    BY FitIs
  <2> HIDE DEF n
  <2>2. w \in Seq(Nat) /\ GetSizeOfVarInt(n) = Len(w)
    BY <2>1, VarIntWritten, VarIntSize
  <2>3. ReadVarInt(w \o s, 0) = Got(n, s)
    BY <2>1, VarIntReadBack
  <2> HIDE DEF w
  <2>4. WriteScript(s) = w \o s /\ ScriptSize(s) = GetSizeOfVarInt(n) + Len(s)
    BY <1>2 DEF WriteScript, ScriptSize, n, w
  <2>5. w \o s \in Seq(Nat) /\ Len(w \o s) = Len(w) + Len(s)
    BY <2>2, ConcatProperties
  <2>6. Take(s, Len(s)) = Got(s, <<>>)
    BY TakeAll
  <2>7. Got(n, s).ok /\ Got(n, s).value = n /\ Got(n, s).rest = s /\ Got(s, <<>>).ok
    BY DEF Got
  <2>8. ReadScript(w \o s, old) = Filled(Take(s, n - nSpecialScripts), old, n - nSpecialScripts)
    BY <2>1, <2>3, <2>7, Zenon DEF ReadScript, ScriptOf
  <2>9. Filled(Got(s, <<>>), old, Len(s)) = Got(s, <<>>)
    BY <2>7 DEF Filled
  <2>10. ReadScript(w \o s, old) = Got(s, <<>>)
    BY <2>1, <2>6, <2>8, <2>9
  <2> QED BY <2>2, <2>4, <2>5, <2>10 DEF ScriptBack
<1> QED BY <1>1, <1>2

-----------------------------------------------------------------------------
(***************************************************************************)
(* An output is read back, of an amount of money, and a version that is not*)
(* below zero.                                                             *)
(***************************************************************************)
CompressedValue(out) == CompressAmount(Unsigned(out.nValue))

LEMMA CompressedFits ==
  ASSUME NEW n \in Nat
  PROVE  CompressAmount(n) \in 0 .. VarIntModulus - 1
<1>0. VarIntModulus \in Nat \ {0} /\ Ten \in Nat /\ MaxExp \in Nat
  BY EncodingAssumption, TenIs
<1>1. \A x \in Nat : Unsigned(x) \in 0 .. VarIntModulus - 1
  BY <1>0 DEF Unsigned
<1>2. CASE n = 0
  BY <1>0, <1>2 DEF CompressAmount
<1>3. CASE n # 0
  <2> DEFINE e == Exponent(n)
             m == n \div TenTo[e]
             y == DigitsIn(e, m)
             x == 1 + y * Ten + e
  <2>1. e \in 0 .. MaxExp /\ m \in Nat \ {0} /\ (e < MaxExp => m % Ten # 0)
    BY <1>3, AmountParts
  <2>2. CompressAmount(n) = Unsigned(x)
    BY <1>3, FormOfAmount
  <2> HIDE DEF e, m
  <2>3. y \in Nat
    BY <2>1, DigitsBack
  <2> HIDE DEF y
  <2>4. x \in Nat
    <3>1. y * Ten \in Nat
      BY <1>0, <2>3
    <3> QED BY <1>0, <2>1, <3>1
  <2> HIDE DEF x
  <2> QED BY <1>1, <2>2, <2>4
<1> QED BY <1>2, <1>3

LEMMA HalfIs ==
  ASSUME NEW n \in Nat, n % 2 = 0
  PROVE  n \div 2 \in Nat /\ n = 2 * (n \div 2)
OBVIOUS

LEMMA MoneyIsSigned ==
  ASSUME NEW n \in 0 .. MAX_MONEY
  PROVE  Unsigned(n) = n /\ SignedValue(n) = n
<1>0. VarIntModulus \in Nat /\ VarIntModulus % 2 = 0 /\ MAX_MONEY \in Nat
  BY EncodingAssumption, TenIs
<1> DEFINE h == VarIntModulus \div 2
<1>1. h \in Nat /\ VarIntModulus = 2 * h
  BY <1>0, HalfIs
<1> HIDE DEF h
<1>2. Ten >= 1 + 1 => MAX_MONEY * Ten >= MAX_MONEY * 1 + MAX_MONEY
  BY TenIs, Monotone
<1>3. MAX_MONEY + MAX_MONEY < VarIntModulus
  <2>1. MAX_MONEY * Ten >= MAX_MONEY * 1 + MAX_MONEY /\ MAX_MONEY * 1 = MAX_MONEY
    BY <1>2, TenIs
  <2>2. MAX_MONEY * Ten \in Nat /\ MAX_MONEY * Ten < VarIntModulus
    BY TenIs
  <2> DEFINE x == MAX_MONEY * Ten
  <2> HIDE DEF x
  <2> QED BY <1>0, <2>1, <2>2 DEF x
<1>4. n < h /\ n \in 0 .. VarIntModulus - 1
  BY <1>0, <1>1, <1>3
<1> QED BY <1>4, FitsUnsigned DEF SignedValue, h

OutBack(out, v, old) ==
  /\ ReadTxOut(WriteTxOut(out), old) = Got(TxOut(v, out.scriptPubKey), <<>>)
  /\ MoneyRange(out.nValue) => v = out.nValue

LEMMA TxOutWritten ==
  ASSUME NEW out, out.nValue \in Int, out.scriptPubKey \in Seq(Nat),
         Len(out.scriptPubKey) + nSpecialScripts < VarIntModulus
  PROVE  /\ WriteTxOut(out) \in Seq(Nat)
         /\ Len(WriteTxOut(out)) = GetSizeOfVarInt(CompressedValue(out)) + ScriptSize(out.scriptPubKey)
<1> DEFINE x == CompressedValue(out)
           w == WriteVarInt(x)
           s == out.scriptPubKey
           t == WriteScript(s)
<1>1. x \in 0 .. VarIntModulus - 1 /\ x \in Nat
  <2>1. Unsigned(out.nValue) \in Nat
    BY EncodingAssumption DEF Unsigned
  <2>2. x \in 0 .. VarIntModulus - 1
    BY <2>1, CompressedFits DEF CompressedValue
  <2> QED BY <2>2, EncodingAssumption
<1>2. WriteTxOut(out) = w \o t
  BY DEF WriteTxOut, CompressedValue
<1>3. ScriptBack(s, 0)
  <2> HIDE DEF s
  <2> QED BY ScriptReadBack DEF s
<1> HIDE DEF x, s
<1>4. w \in Seq(Nat) /\ GetSizeOfVarInt(x) = Len(w)
  BY <1>1, VarIntWritten, VarIntSize
<1>5. t \in Seq(Nat) /\ ScriptSize(s) = Len(t)
  BY <1>3 DEF ScriptBack
<1> HIDE DEF w, t
<1>6. w \o t \in Seq(Nat) /\ Len(w \o t) = Len(w) + Len(t)
  BY <1>4, <1>5, ConcatProperties
<1> QED BY <1>2, <1>4, <1>5, <1>6 DEF x, s

LEMMA TxOutReadBack ==
  ASSUME NEW out, out.nValue \in Int, out.scriptPubKey \in Seq(Nat),
         Len(out.scriptPubKey) + nSpecialScripts < VarIntModulus, NEW old
  PROVE  \E v : OutBack(out, v, old)
<1> DEFINE x == CompressedValue(out)
           w == WriteVarInt(x)
           s == out.scriptPubKey
           t == WriteScript(s)
           was == old.scriptPubKey
           v == SignedValue(DecompressAmount(x))
<1>1. x \in 0 .. VarIntModulus - 1
  <2>1. Unsigned(out.nValue) \in Nat
    BY EncodingAssumption DEF Unsigned
  <2> QED BY <2>1, CompressedFits DEF CompressedValue
<1>2. WriteTxOut(out) = w \o t
  BY DEF WriteTxOut, CompressedValue
<1>3. ScriptBack(s, was)
  <2> HIDE DEF s, was
  <2> QED BY ScriptReadBack DEF s
<1>4. MoneyRange(out.nValue) => v = out.nValue
  <2> SUFFICES ASSUME MoneyRange(out.nValue) PROVE v = out.nValue
    OBVIOUS
  <2>1. out.nValue \in 0 .. MAX_MONEY
    BY TenIs DEF MoneyRange
  <2> DEFINE n == out.nValue
  <2> HIDE DEF n
  <2>2. Unsigned(n) = n /\ SignedValue(n) = n /\ DecompressAmount(CompressAmount(n)) = n
    BY <2>1, MoneyIsSigned, AmountReadBack DEF n
  <2>3. x = CompressAmount(n)
    BY <2>2 DEF CompressedValue, n
  <2> QED BY <2>2, <2>3 DEF n
<1> HIDE DEF x, s, was
<1>5. t \in Seq(Nat) /\ ReadScript(t, was) = Got(s, <<>>)
  BY <1>3 DEF ScriptBack
<1> HIDE DEF t
<1>6. ReadVarInt(w \o t, 0) = Got(x, t)
  BY <1>1, <1>5, VarIntReadBack
<1> HIDE DEF w
<1>7. Got(x, t).ok /\ Got(x, t).value = x /\ Got(x, t).rest = t /\ Got(s, <<>>).value = s
  BY DEF Got
<1>8. ReadTxOut(w \o t, old) = WithScript(v, Got(s, <<>>))
  BY <1>5, <1>6, <1>7, Zenon DEF ReadTxOut, TxOutOf, was
<1> HIDE DEF v
<1>9. WithScript(v, Got(s, <<>>)) = Got(TxOut(v, s), <<>>)
  BY <1>7, LeavingIs DEF WithScript
<1>10. OutBack(out, v, old)
  BY <1>2, <1>4, <1>8, <1>9 DEF OutBack, s
<1> QED BY <1>10

VersionBack(n, v, rest, old) == ReadVarInt(WriteVersion(n) \o rest, old) = Got(v, rest) /\ (n >= 0 => v = n)

LEMMA VersionReadBack ==
  ASSUME NEW n \in Int, n < VarIntModulus, NEW rest \in Seq(Nat), NEW old
  PROVE  WriteVersion(n) \in Seq(Nat) /\ \E v : VersionBack(n, v, rest, old)
<1>0. TopBit \in Nat \ {0} /\ VarIntModulus \in Nat
  BY TopBitIs, EncodingAssumption
<1>1. CASE n < 0
  <2> DEFINE w == <<n % TopBit>>
  <2>1. n % TopBit \in 0 .. TopBit - 1
    BY <1>0
  <2>2. w \in Seq(Nat) /\ Len(w) = 1 /\ w[1] < TopBit
    BY <1>0, <2>1
  <2>3. WriteVersion(n) = w /\ ~(n >= 0)
    BY <1>1 DEF WriteVersion
  <2> HIDE DEF w
  <2>4. ReadVarInt(w \o rest, old) = Got(VarIntOf(w), rest)
    <3>1. Len(w) >= 1 /\ w[Len(w)] < TopBit /\ \A i \in 1 .. Len(w) - 1 : w[i] >= TopBit
      BY <2>2
    <3> QED BY <2>2, <3>1, VarIntFound
  <2>5. VersionBack(n, VarIntOf(w), rest, old)
    BY <2>3, <2>4 DEF VersionBack
  <2> QED BY <2>2, <2>3, <2>5
<1>2. CASE n >= 0
  <2>1. n \in 0 .. VarIntModulus - 1 /\ WriteVersion(n) = WriteVarInt(n)
    BY <1>0, <1>2 DEF WriteVersion
  <2>2. WriteVarInt(n) \in Seq(Nat) /\ ReadVarInt(WriteVarInt(n) \o rest, old) = Got(n, rest)
    BY <2>1, VarIntWritten, VarIntReadBack
  <2>3. VersionBack(n, n, rest, old)
    BY <2>1, <2>2 DEF VersionBack
  <2> QED BY <2>1, <2>2, <2>3
<1> QED BY <1>1, <1>2

LEMMA UintIs == UintModulus \in Nat \ {0} /\ UintModulus % 2 = 0 /\ UintModulus <= VarIntModulus
<1> DEFINE n == IntBytes
           S == Nat \ {0}
           Step(g, i) == IF i = 0 THEN 1 ELSE Radix * g[i - 1]
           Def(g) == g = [i \in 0 .. n |-> Step(g, i)]
           g == CHOOSE g : Def(g)
           F == [i \in 1 .. n |-> [v \in S |-> Radix * v]]
<1>0. n \in Nat \ {0} /\ Radix \in Nat \ {0} /\ TopBit \in Nat \ {0} /\ Radix = 2 * TopBit
  BY BigNumAssumption, TopBitIs
<1>1. \A v \in S : Radix * v \in S
  BY <1>0
<1>2. F \in [1 .. n -> [S -> S]] /\ 1 \in S
  BY <1>1
<1>3. PICK f : Steps(f, n, S, 1, F)
  <2> HIDE DEF F, S, n
  <2> QED BY <1>0, <1>2, StepByStep
<1>4. f \in [0 .. n -> S] /\ f[0] = 1 /\ \A i \in 1 .. n : f[i] = F[i][f[i - 1]]
  BY <1>3 DEF Steps
<1>5. \A i \in 1 .. n, v \in S : F[i][v] = Radix * v
  OBVIOUS
<1>6. ASSUME NEW i \in 0 .. n PROVE f[i] = Step(f, i)
  <2>1. CASE i = 0
    BY <1>4, <2>1
  <2>2. CASE i # 0
    <3>1. i \in 1 .. n /\ i - 1 \in 0 .. n
      BY <1>0, <2>2
    <3>2. f[i - 1] \in S /\ f[i] = F[i][f[i - 1]]
      <4> HIDE DEF F, S, n
      <4> QED BY <1>4, <3>1
    <3> HIDE DEF F, S, n
    <3> QED BY <1>5, <2>2, <3>1, <3>2
  <2> QED BY <2>1, <2>2
<1>7. Def(f)
  <2> HIDE DEF Step, S, n
  <2> QED BY <1>4, <1>6
<1>8. Def(g)
  <2> HIDE DEF Def
  <2> QED BY <1>7, Zenon DEF g
<1>9. UintModulus = g[n]
  BY Zenon DEF UintModulus
<1> HIDE DEF g
<1>10. \A i \in 0 .. n : g[i] = Step(g, i)
  <2> HIDE DEF Step, n
  <2> QED BY <1>8
<1> DEFINE T == {i \in 0 .. n : g[i] \in S}
<1>11. T = 0 .. n
  <2>1. 0 \in T
    BY <1>0, <1>10
  <2>2. ASSUME NEW i \in 0 .. n - 1, i \in T PROVE i + 1 \in T
    <3>1. i + 1 \in 0 .. n /\ (i + 1) - 1 = i /\ i + 1 # 0 /\ g[i] \in S
      BY <1>0, <2>2
    <3>2. g[i + 1] = Radix * g[i]
      BY <1>10, <3>1
    <3> HIDE DEF n, S
    <3> QED BY <1>1, <3>1, <3>2
  <2>3. T \in SUBSET (0 .. n)
    OBVIOUS
  <2> HIDE DEF T, n
  <2> QED BY <1>0, <2>1, <2>2, <2>3, InductTo
<1>12. g[n - 1] \in Nat \ {0} /\ g[n] = Radix * g[n - 1]
  <2>1. n \in 0 .. n /\ n - 1 \in 0 .. n /\ n # 0
    BY <1>0
  <2>2. g[n - 1] \in S
    <3> HIDE DEF n, S
    <3> QED BY <1>11, <2>1
  <2> HIDE DEF n
  <2> QED BY <1>10, <2>1, <2>2
<1> DEFINE v == g[n - 1]
<1> HIDE DEF v
<1>13. UintModulus = 2 * (TopBit * v) /\ TopBit * v \in Nat \ {0}
  BY <1>0, <1>9, <1>12 DEF v
<1> DEFINE k == TopBit * v
<1> HIDE DEF k
<1>14. (2 * k) % 2 = 0 /\ 2 * k \in Nat \ {0}
  BY <1>13 DEF k
<1> QED BY <1>13, <1>14, GivenAssumption DEF k

-----------------------------------------------------------------------------
(***************************************************************************)
(* An undo record is read back over any other, but for what its form leaves*)
(* out.                                                                    *)
(***************************************************************************)
LEMMA UndoCodeIs ==
  ASSUME NEW u \in UndoRecords
  PROVE  /\ UndoCode(u) \in 0 .. UintModulus - 1 /\ UndoCode(u) \in 0 .. VarIntModulus - 1
         /\ (UndoCode(u) % 2 = 1) = u.fCoinBase
<1> DEFINE b == IF u.fCoinBase THEN 1 ELSE 0
           x == 2 * u.nHeight + b
           q == x \div UintModulus
           c == x % UintModulus
           k == UintModulus \div 2
<1>1. u.nHeight \in Nat /\ u.fCoinBase \in BOOLEAN
  BY DEF UndoRecords
<1>2. b \in {0, 1} /\ x \in Nat /\ ((b = 1) = u.fCoinBase)
  BY <1>1
<1>3. UintModulus \in Nat \ {0} /\ k \in Nat /\ UintModulus = 2 * k /\ VarIntModulus \in Nat /\ UintModulus <= VarIntModulus
  <2>1. UintModulus \in Nat \ {0} /\ UintModulus % 2 = 0 /\ UintModulus <= VarIntModulus
    BY UintIs
  <2> QED BY <2>1, HalfIs, EncodingAssumption
<1>4. x = 2 * u.nHeight + b
  OBVIOUS
<1>5. UndoCode(u) = c
  BY DEF UndoCode
<1> HIDE DEF b, x, k
<1>6. x = UintModulus * q + c /\ c \in 0 .. UintModulus - 1 /\ q \in Nat
  BY <1>2, <1>3, Division
<1> HIDE DEF q, c
<1> DEFINE h == u.nHeight
           d == h - k * q
<1> HIDE DEF h
<1>7. h \in Nat
  BY <1>1 DEF h
<1>8. k * q \in Nat /\ UintModulus * q = 2 * (k * q)
  BY <1>3, <1>6
<1>9. c = 2 * d + b /\ d \in Nat
  <2> DEFINE y == k * q
  <2> HIDE DEF y
  <2> QED BY <1>2, <1>4, <1>6, <1>7, <1>8 DEF h, y
<1>10. c % 2 = b
  <2> HIDE DEF d
  <2> QED BY <1>2, <1>9, DivisionIs
<1>11. c \in 0 .. VarIntModulus - 1
  BY <1>3, <1>6
<1> QED BY <1>2, <1>5, <1>6, <1>10, <1>11

-----------------------------------------------------------------------------
\* Every reading gives whether it succeeded, a value and what is left.
IsRead(r) == \E a, b, v, rest : r = [ok |-> a, short |-> b, value |-> v, rest |-> rest]

LEMMA ReadsAre ==
  /\ \A v, rest : IsRead(Got(v, rest)) /\ Got(v, rest).value = v
  /\ \A v : IsRead(Ended(v)) /\ Ended(v).value = v
  /\ \A r, v : IsRead(r) => IsRead(Leaving(r, v)) /\ Leaving(r, v).value = v
<1>1. \A v, rest : IsRead(Got(v, rest)) /\ Got(v, rest).value = v
  BY DEF IsRead, Got
<1>2. \A v : IsRead(Ended(v)) /\ Ended(v).value = v
  BY DEF IsRead, Ended
<1>3. ASSUME NEW r, NEW v, IsRead(r) PROVE IsRead(Leaving(r, v)) /\ Leaving(r, v).value = v
  <2>1. PICK a : \E b, w, rest : r = [ok |-> a, short |-> b, value |-> w, rest |-> rest]
    BY <1>3 DEF IsRead
  <2>2. PICK b : \E w, rest : r = [ok |-> a, short |-> b, value |-> w, rest |-> rest]
    BY <2>1
  <2>3. PICK w : \E rest : r = [ok |-> a, short |-> b, value |-> w, rest |-> rest]
    BY <2>2
  <2>4. PICK rest : r = [ok |-> a, short |-> b, value |-> w, rest |-> rest]
    BY <2>3
  <2>5. Leaving(r, v) = [ok |-> a, short |-> b, value |-> v, rest |-> rest]
    BY <2>4 DEF Leaving
  <2>6. Leaving(r, v).value = v
    BY <2>5
  <2> QED BY <2>5, <2>6 DEF IsRead
<1> QED BY <1>1, <1>2, <1>3

LEMMA ScriptIsRead == \A bytes, old : IsRead(ReadScript(bytes, old))
<1> TAKE bytes, old
<1> DEFINE code == ReadVarInt(bytes, 0)
<1> HIDE DEF code
<1>1. \A s, n : IsRead(Take(s, n))
  BY ReadsAre DEF Take
<1>2. \A r, was, n : IsRead(r) => IsRead(Filled(r, was, n))
  BY ReadsAre, Zenon DEF Filled
<1>3. \A c, r, was : IsRead(r) => IsRead(SpecialScript(c, r, was))
  BY ReadsAre, Zenon DEF SpecialScript
<1>4. IsRead(ScriptOf(code, old))
  <2>1. CASE ~code.ok
    BY <2>1, ReadsAre, Zenon DEF ScriptOf
  <2>2. CASE code.ok /\ code.value < nSpecialScripts
    BY <1>1, <1>3, <2>2, Zenon DEF ScriptOf
  <2>3. CASE code.ok /\ ~(code.value < nSpecialScripts)
    BY <1>1, <1>2, <2>3, Zenon DEF ScriptOf
  <2> QED BY <2>1, <2>2, <2>3
<1> QED BY <1>4 DEF ReadScript, code

LEMMA TxOutIsRead == \A s, old : IsRead(ReadTxOut(s, old))
<1> TAKE s, old
<1>1. \A v, script : IsRead(script) => IsRead(WithScript(v, script))
  BY ReadsAre, Zenon DEF WithScript
<1> DEFINE amount == ReadVarInt(s, 0)
<1> HIDE DEF amount
<1>2. IsRead(TxOutOf(amount, old))
  <2>1. CASE ~amount.ok
    BY <2>1, ReadsAre, Zenon DEF TxOutOf
  <2>2. CASE amount.ok
    BY <1>1, <2>2, ScriptIsRead, Zenon DEF TxOutOf
  <2> QED BY <2>1, <2>2
<1> QED BY <1>2 DEF ReadTxOut, amount

-----------------------------------------------------------------------------
\* What was read into is an undo record.
UndoHolds(r) ==
  /\ r = Undo(r.txout, r.fCoinBase, r.nHeight, r.nVersion)
  /\ r.nHeight \in 0 .. (UintModulus \div 2) - 1 /\ r.fCoinBase \in BOOLEAN

LEMMA UndoIs ==
  ASSUME NEW a, NEW b \in BOOLEAN, NEW h \in 0 .. (UintModulus \div 2) - 1, NEW n
  PROVE  UndoHolds(Undo(a, b, h, n))
BY DEF UndoHolds, Undo

LEMMA NullUndoHolds == UndoHolds(NullUndo)
<1>1. UintModulus \in Nat \ {0} /\ UintModulus % 2 = 0
  BY UintIs
<1>2. 0 \in 0 .. (UintModulus \div 2) - 1
  <2> DEFINE k == UintModulus \div 2
  <2>1. k \in Nat /\ UintModulus = 2 * k
    BY <1>1, HalfIs
  <2> HIDE DEF k
  <2>2. 0 \in 0 .. k - 1
    BY <1>1, <2>1
  <2> QED BY <2>2 DEF k
<1> QED BY <1>2, UndoIs DEF NullUndo

LEMMA CodeFits ==
  ASSUME NEW c \in 0 .. UintModulus - 1
  PROVE  c \div 2 \in 0 .. (UintModulus \div 2) - 1
<1> DEFINE k == UintModulus \div 2
<1>1. k \in Nat /\ UintModulus = 2 * k
  BY UintIs, HalfIs
<1> HIDE DEF k
<1>2. c \div 2 \in 0 .. k - 1
  BY <1>1
<1> QED BY <1>2 DEF k

\* Fields of a record, one after another.
LEMMA UndoFields ==
  ASSUME NEW a, NEW b, NEW h, NEW n
  PROVE  /\ \A c : WithCode(Undo(a, b, h, n), c) = Undo(a, c % 2 = 1, c \div 2, n)
         /\ \A v : [Undo(a, b, h, n) EXCEPT !.nVersion = v] = Undo(a, b, h, v)
         /\ \A v : [Undo(a, b, h, n) EXCEPT !.txout = v] = Undo(v, b, h, n)
         /\ Undo(a, b, h, n).txout = a /\ Undo(a, b, h, n).fCoinBase = b
         /\ Undo(a, b, h, n).nHeight = h /\ Undo(a, b, h, n).nVersion = n
<1>1. \A c : WithCode(Undo(a, b, h, n), c) = Undo(a, c % 2 = 1, c \div 2, n)
  <2>1. ASSUME NEW p, NEW q
        PROVE  [Undo(a, b, h, n) EXCEPT !.fCoinBase = p, !.nHeight = q] = Undo(a, p, q, n)
    <3>1. [Undo(a, b, h, n) EXCEPT !.fCoinBase = p] = Undo(a, p, h, n)
      BY DEF Undo
    <3>2. [Undo(a, p, h, n) EXCEPT !.nHeight = q] = Undo(a, p, q, n)
      BY DEF Undo
    <3>3. [Undo(a, b, h, n) EXCEPT !.fCoinBase = p, !.nHeight = q]
            = [[Undo(a, b, h, n) EXCEPT !.fCoinBase = p] EXCEPT !.nHeight = q]
      BY DEF Undo
    <3> QED BY <3>1, <3>2, <3>3
  <2>2. ASSUME NEW c PROVE WithCode(Undo(a, b, h, n), c) = Undo(a, c % 2 = 1, c \div 2, n)
    <3> DEFINE p == c % 2 = 1
               q == c \div 2
               r == Undo(a, b, h, n)
    <3>1. WithCode(r, c) = [r EXCEPT !.fCoinBase = p, !.nHeight = q]
      BY Zenon DEF WithCode
    <3> HIDE DEF p, q
    <3>2. [r EXCEPT !.fCoinBase = p, !.nHeight = q] = Undo(a, p, q, n)
      BY <2>1, Zenon
    <3>3. WithCode(r, c) = Undo(a, p, q, n)
      BY <3>1, <3>2
    <3> QED BY <3>3 DEF p, q
  <2> QED BY <2>2
<1>2. \A v : [Undo(a, b, h, n) EXCEPT !.nVersion = v] = Undo(a, b, h, v)
  BY DEF Undo
<1>3. \A v : [Undo(a, b, h, n) EXCEPT !.txout = v] = Undo(v, b, h, n)
  BY DEF Undo
<1>4. /\ Undo(a, b, h, n).txout = a /\ Undo(a, b, h, n).fCoinBase = b
      /\ Undo(a, b, h, n).nHeight = h /\ Undo(a, b, h, n).nVersion = n
  BY DEF Undo
<1> QED BY <1>1, <1>2, <1>3, <1>4

\* What a reading with the code c does to an undo record.
LEMMA UndoOfKeeps ==
  ASSUME NEW old, UndoHolds(old), NEW c \in 0 .. UintModulus - 1, NEW rest
  PROVE  UndoHolds(UndoOf(Got(c, rest), old).value)
<1> DEFINE code == Got(c, rest)
           b == c % 2 = 1
           h == c \div 2
           a == old.txout
           version == IF code.value \div 2 > 0 THEN ReadVarInt(code.rest, old.nVersion)
                      ELSE Got(old.nVersion, code.rest)
<1>1. WithCode(old, c) = Undo(a, b, h, old.nVersion)
  <2>1. old = Undo(old.txout, old.fCoinBase, old.nHeight, old.nVersion)
    BY DEF UndoHolds
  <2>2. WithCode(Undo(old.txout, old.fCoinBase, old.nHeight, old.nVersion), c) = Undo(a, b, h, old.nVersion)
    BY UndoFields
  <2> QED BY <2>1, <2>2
<1>2. b \in BOOLEAN /\ h \in 0 .. (UintModulus \div 2) - 1
  BY CodeFits
<1>3. code.ok /\ code.value = c
  BY DEF Got
<1>4. UndoOf(code, old).value = WithVersion(Undo(a, b, h, old.nVersion), version).value
  BY <1>1, <1>3, Zenon DEF UndoOf
<1> HIDE DEF code, version, a, b, h
<1> DEFINE was == Undo(a, b, h, old.nVersion)
<1>5. CASE ~version.ok
  <2>1. WithVersion(was, version).value = was
    BY <1>5, ReadsAre, Zenon DEF WithVersion
  <2>2. UndoHolds(was)
    BY <1>2, UndoIs
  <2> QED BY <1>4, <2>1, <2>2 DEF code
<1>6. CASE version.ok
  <2> DEFINE with == [was EXCEPT !.nVersion = version.value]
             out == ReadTxOut(version.rest, was.txout)
  <2>1. with = Undo(a, b, h, version.value)
    BY UndoFields
  <2>2. IsRead(out)
    BY TxOutIsRead
  <2> HIDE DEF out
  <2>3. WithVersion(was, version) = WithTxOut(with, out)
    BY <1>6, Zenon DEF WithVersion, out
  <2>4. WithTxOut(with, out).value = [with EXCEPT !.txout = out.value]
    BY <2>2, ReadsAre, Zenon DEF WithTxOut
  <2>5. [Undo(a, b, h, version.value) EXCEPT !.txout = out.value] = Undo(out.value, b, h, version.value)
    BY UndoFields
  <2>6. UndoHolds(Undo(out.value, b, h, version.value))
    BY <1>2, UndoIs
  <2> HIDE DEF with
  <2>7. UndoOf(code, old).value = Undo(out.value, b, h, version.value)
    BY <1>4, <2>1, <2>3, <2>4, <2>5
  <2> QED BY <2>6, <2>7 DEF code
<1> QED BY <1>5, <1>6

\* The parts an undo record is written in.
LEMMA UndoParts ==
  ASSUME NEW u \in Undos
  PROVE  /\ u \in UndoRecords /\ u.nVersion \in Int /\ u.nVersion < VarIntModulus /\ u.nHeight \in Nat
         /\ u.txout.nValue \in Int /\ u.txout.scriptPubKey \in Seq(Nat)
         /\ Len(u.txout.scriptPubKey) + nSpecialScripts < VarIntModulus
         /\ u.txout = TxOut(u.txout.nValue, u.txout.scriptPubKey)
<1>1. u \in UndoRecords /\ u.nVersion < VarIntModulus /\ Len(u.txout.scriptPubKey) + nSpecialScripts < VarIntModulus
  BY GivenAssumption
<1>2. u.nVersion \in Int /\ u.nHeight \in Nat /\ u.txout \in [nValue : Int, scriptPubKey : Seq(Nat)]
  BY <1>1 DEF UndoRecords
<1> DEFINE out == u.txout
<1> HIDE DEF out
<1>3. out \in [nValue : Int, scriptPubKey : Seq(Nat)]
  BY <1>2 DEF out
<1>4. out.nValue \in Int /\ out.scriptPubKey \in Seq(Nat) /\ out = TxOut(out.nValue, out.scriptPubKey)
  BY <1>3 DEF TxOut
<1> QED BY <1>1, <1>2, <1>4 DEF out

LEMMA ThreeParts ==
  ASSUME NEW x \in Seq(Nat), NEW y \in Seq(Nat), NEW z \in Seq(Nat)
  PROVE  /\ (x \o y) \o z = x \o (y \o z) /\ y \o z \in Seq(Nat)
         /\ Len((x \o y) \o z) = Len(x) + Len(y) + Len(z)
<1>1. (x \o y) \o z = x \o (y \o z)
  OBVIOUS
<1>2. y \o z \in Seq(Nat)
  BY ConcatProperties, Zenon
<1> DEFINE v == x \o y
<1>3. v \in Seq(Nat) /\ Len(v) = Len(x) + Len(y)
  BY ConcatProperties, Zenon
<1> HIDE DEF v
<1>4. Len(v \o z) = Len(v) + Len(z)
  BY <1>3, ConcatProperties, Zenon
<1>5. Len((x \o y) \o z) = Len(x) + Len(y) + Len(z)
  BY <1>3, <1>4, Zenon DEF v
<1> QED BY <1>1, <1>2, <1>5, Zenon

VersionPart(u) == IF u.nHeight > 0 THEN WriteVersion(u.nVersion) ELSE <<>>

LEMMA UndoWritten ==
  ASSUME NEW u \in Undos
  PROVE  /\ WriteVarInt(UndoCode(u)) \in Seq(Nat) /\ VersionPart(u) \in Seq(Nat) /\ WriteTxOut(u.txout) \in Seq(Nat)
         /\ WriteUndo(u) = WriteVarInt(UndoCode(u)) \o (VersionPart(u) \o WriteTxOut(u.txout))
         /\ VersionPart(u) \o WriteTxOut(u.txout) \in Seq(Nat)
         /\ UndoSize(u) = Len(WriteUndo(u))
         /\ UndoCode(u) \in 0 .. UintModulus - 1 /\ UndoCode(u) \in 0 .. VarIntModulus - 1
<1> DEFINE c == UndoCode(u)
           x == WriteVarInt(c)
           y == VersionPart(u)
           z == WriteTxOut(u.txout)
           out == u.txout
<1>0. c \in 0 .. UintModulus - 1 /\ c \in 0 .. VarIntModulus - 1
  BY UndoParts, UndoCodeIs
<1>1. x \in Seq(Nat) /\ GetSizeOfVarInt(c) = Len(x)
  <2>1. c \in Nat
    BY <1>0, EncodingAssumption
  <2> HIDE DEF c
  <2> QED BY <1>0, <2>1, VarIntWritten, VarIntSize
<1>2. y \in Seq(Nat) /\ Len(y) = IF u.nHeight > 0 THEN Len(WriteVersion(u.nVersion)) ELSE 0
  <2>1. CASE u.nHeight > 0
    <3>1. <<>> \in Seq(Nat)
      OBVIOUS
    <3>2. WriteVersion(u.nVersion) \in Seq(Nat)
      BY <3>1, UndoParts, VersionReadBack
    <3> QED BY <2>1, <3>2 DEF VersionPart
  <2>2. CASE ~(u.nHeight > 0)
    <3>1. <<>> \in Seq(Nat) /\ Len(<<>>) = 0
      OBVIOUS
    <3> QED BY <2>2, <3>1 DEF VersionPart
  <2> QED BY <2>1, <2>2
<1>3. z \in Seq(Nat) /\ Len(z) = GetSizeOfVarInt(CompressedValue(out)) + ScriptSize(out.scriptPubKey)
  BY UndoParts, TxOutWritten
<1>4. WriteUndo(u) = (x \o y) \o z
  BY DEF WriteUndo, VersionPart
<1>5. UndoSize(u) = GetSizeOfVarInt(c) + (IF u.nHeight > 0 THEN Len(WriteVersion(u.nVersion)) ELSE 0)
                    + GetSizeOfVarInt(CompressedValue(out)) + ScriptSize(out.scriptPubKey)
  BY DEF UndoSize, CompressedValue
<1> DEFINE p == GetSizeOfVarInt(CompressedValue(out))
           q == ScriptSize(out.scriptPubKey)
<1>6. p \in Int /\ q \in Int
  <2>1. p \in Nat
    <3> DEFINE n == CompressedValue(out)
    <3>1. n \in Nat
      <4>1. Unsigned(out.nValue) \in Nat
        BY UndoParts, EncodingAssumption DEF Unsigned
      <4>2. n \in 0 .. VarIntModulus - 1
        BY <4>1, CompressedFits DEF CompressedValue
      <4> QED BY <4>2, EncodingAssumption
    <3>2. n \in 0 .. VarIntModulus - 1
      <4>1. Unsigned(out.nValue) \in Nat
        BY UndoParts, EncodingAssumption DEF Unsigned
      <4> QED BY <4>1, CompressedFits DEF CompressedValue
    <3> HIDE DEF n
    <3>3. WriteVarInt(n) \in Seq(Nat) /\ GetSizeOfVarInt(n) = Len(WriteVarInt(n))
      BY <3>1, <3>2, VarIntWritten, VarIntSize
    <3> QED BY <3>3, LenProperties DEF n
  <2>2. q \in Nat
    <3> DEFINE s == out.scriptPubKey
    <3>1. s \in Seq(Nat) /\ Len(s) + nSpecialScripts < VarIntModulus
      BY UndoParts
    <3> HIDE DEF s
    <3>2. ScriptBack(s, 0)
      BY <3>1, ScriptReadBack
    <3> QED BY <3>2, LenProperties DEF ScriptBack, s
  <2> QED BY <2>1, <2>2
<1> HIDE DEF c, x, y, z, p, q
<1>7. (x \o y) \o z = x \o (y \o z) /\ y \o z \in Seq(Nat)
  BY <1>1, <1>2, <1>3, ThreeParts, Zenon
<1>8. Len((x \o y) \o z) = Len(x) + Len(y) + Len(z)
  BY <1>1, <1>2, <1>3, ThreeParts
<1>9. UndoSize(u) = Len(x) + Len(y) + p + q /\ Len(z) = p + q
  BY <1>1, <1>2, <1>3, <1>5 DEF p, q, c
<1>10. Len(x) \in Nat /\ Len(y) \in Nat
  BY <1>1, <1>2, LenProperties
<1>11. UndoSize(u) = Len((x \o y) \o z)
  BY <1>6, <1>8, <1>9, <1>10
<1> QED BY <1>0, <1>1, <1>2, <1>3, <1>4, <1>7, <1>11 DEF c, x, y, z

ReadUndoIs(u, old) == ReadUndo(WriteUndo(u), old) = UndoOf(Got(UndoCode(u), VersionPart(u) \o WriteTxOut(u.txout)), old)

LEMMA UndoRead ==
  ASSUME NEW u \in Undos, NEW old
  PROVE  ReadUndoIs(u, old)
<1> DEFINE c == UndoCode(u)
           rest == VersionPart(u) \o WriteTxOut(u.txout)
<1>1. c \in 0 .. VarIntModulus - 1 /\ rest \in Seq(Nat) /\ WriteUndo(u) = WriteVarInt(c) \o rest
  BY UndoWritten
<1> HIDE DEF c, rest
<1>2. ReadVarInt(WriteVarInt(c) \o rest, 0) = Got(c, rest)
  BY <1>1, VarIntReadBack
<1>3. ReadUndo(WriteUndo(u), old) = UndoOf(Got(c, rest), old)
  BY <1>1, <1>2, Zenon DEF ReadUndo
<1> QED BY <1>3 DEF ReadUndoIs, c, rest

LEMMA UndoReadHolds ==
  ASSUME NEW u \in Undos, NEW old, UndoHolds(old)
  PROVE  UndoHolds(ReadUndo(WriteUndo(u), old).value)
<1>1. UndoCode(u) \in 0 .. UintModulus - 1
  BY UndoWritten
<1>2. UndoHolds(UndoOf(Got(UndoCode(u), VersionPart(u) \o WriteTxOut(u.txout)), old).value)
  BY <1>1, UndoOfKeeps
<1> QED BY <1>2, UndoRead DEF ReadUndoIs

\* An undo record that is read back.
Restores(u, was, r) ==
  /\ r.ok /\ r.rest = <<>>
  /\ r.value.nHeight = u.nHeight /\ r.value.fCoinBase = u.fCoinBase
  /\ LET version == IF u.nHeight = 0 THEN was ELSE u.nVersion IN version >= 0 => r.value.nVersion = version
  /\ MoneyRange(u.txout.nValue) => r.value.txout = u.txout

\* What is left of the reading when the version is known.
LEMMA VersionRestores ==
  ASSUME NEW u \in Undos, NEW old, UndoHolds(old), UndoCode(u) \div 2 = u.nHeight, NEW v,
         LET version == IF u.nHeight = 0 THEN old.nVersion ELSE u.nVersion IN version >= 0 => v = version
  PROVE  Restores(u, old.nVersion, WithVersion(WithCode(old, UndoCode(u)), Got(v, WriteTxOut(u.txout))))
<1> DEFINE c == UndoCode(u)
           out == u.txout
           with == [WithCode(old, c) EXCEPT !.nVersion = v]
           got == Got(v, WriteTxOut(out))
<1>1. (c % 2 = 1) = u.fCoinBase /\ u.fCoinBase \in BOOLEAN
  <2>1. u \in UndoRecords
    BY UndoParts
  <2> QED BY <2>1, UndoCodeIs DEF UndoRecords
<1>2. WithCode(old, c) = Undo(old.txout, c % 2 = 1, c \div 2, old.nVersion)
  <2>1. old = Undo(old.txout, old.fCoinBase, old.nHeight, old.nVersion)
    BY DEF UndoHolds
  <2>2. WithCode(Undo(old.txout, old.fCoinBase, old.nHeight, old.nVersion), c) = Undo(old.txout, c % 2 = 1, c \div 2, old.nVersion)
    BY UndoFields
  <2> QED BY <2>1, <2>2
<1>3. Undo(old.txout, c % 2 = 1, c \div 2, old.nVersion) = Undo(old.txout, u.fCoinBase, u.nHeight, old.nVersion)
  BY <1>1
<1>4. with = Undo(old.txout, u.fCoinBase, u.nHeight, v)
  BY <1>2, <1>3, UndoFields
<1> DEFINE was == WithCode(old, c).txout
<1>5. PICK w : OutBack(out, w, was)
  BY UndoParts, TxOutReadBack
<1> DEFINE back == TxOut(w, out.scriptPubKey)
<1>6. ReadTxOut(WriteTxOut(out), was) = Got(back, <<>>)
  BY <1>5 DEF OutBack
<1>7. MoneyRange(out.nValue) => back = out
  BY <1>5, UndoParts DEF OutBack
<1>8. got.ok /\ got.value = v /\ got.rest = WriteTxOut(out)
  BY DEF Got
<1> HIDE DEF with, was, back, got, c
<1>9. WithVersion(WithCode(old, c), got) = WithTxOut(with, Got(back, <<>>))
  BY <1>6, <1>8, Zenon DEF WithVersion, with, was
<1>10. WithTxOut(with, Got(back, <<>>)) = Leaving(Got(back, <<>>), [with EXCEPT !.txout = back])
  BY ReadsAre, Zenon DEF WithTxOut
<1> DEFINE r == Undo(back, u.fCoinBase, u.nHeight, v)
<1>11. [with EXCEPT !.txout = back] = r
  BY <1>4, UndoFields
<1>12. r.txout = back /\ r.fCoinBase = u.fCoinBase /\ r.nHeight = u.nHeight /\ r.nVersion = v
  BY UndoFields
<1> HIDE DEF r
<1>13. WithVersion(WithCode(old, c), got) = Got(r, <<>>)
  BY <1>9, <1>10, <1>11, LeavingIs
<1>14. Got(r, <<>>).ok /\ Got(r, <<>>).value = r /\ Got(r, <<>>).rest = <<>>
  BY DEF Got
<1>15. Restores(u, old.nVersion, Got(r, <<>>))
  BY <1>7, <1>12, <1>14 DEF Restores
<1> QED BY <1>13, <1>15 DEF c, got

LEMMA UndoBack ==
  ASSUME NEW u \in Undos, NEW old, UndoHolds(old), UndoCode(u) \div 2 = u.nHeight
  PROVE  Restores(u, old.nVersion, ReadUndo(WriteUndo(u), old))
<1> DEFINE c == UndoCode(u)
           z == WriteTxOut(u.txout)
           rest == VersionPart(u) \o z
           code == Got(c, rest)
<1>1. code.ok /\ code.value = c /\ code.rest = rest
  BY DEF Got
<1>2. ReadUndo(WriteUndo(u), old) = UndoOf(code, old)
  BY UndoRead DEF ReadUndoIs
<1>3. z \in Seq(Nat) /\ u.nHeight \in Nat
  BY UndoWritten, UndoParts
<1>4. CASE u.nHeight > 0
  <2>1. VersionPart(u) = WriteVersion(u.nVersion)
    BY <1>4 DEF VersionPart
  <2>2. PICK v : VersionBack(u.nVersion, v, z, old.nVersion)
    BY <1>3, UndoParts, VersionReadBack
  <2>3. ReadVarInt(rest, old.nVersion) = Got(v, z) /\ (u.nVersion >= 0 => v = u.nVersion)
    BY <2>1, <2>2 DEF VersionBack
  <2>4. c \div 2 > 0
    BY <1>4
  <2>5. Restores(u, old.nVersion, WithVersion(WithCode(old, c), Got(v, z)))
    <3>1. LET version == IF u.nHeight = 0 THEN old.nVersion ELSE u.nVersion IN version >= 0 => v = version
      BY <1>3, <1>4, <2>3
    <3> QED BY <3>1, VersionRestores
  <2> HIDE DEF code, rest, c, z
  <2>6. UndoOf(code, old) = WithVersion(WithCode(old, c), Got(v, z))
    BY <1>1, <2>3, <2>4, Zenon DEF UndoOf
  <2> QED BY <1>2, <2>5, <2>6
<1>5. CASE ~(u.nHeight > 0)
  <2>1. VersionPart(u) = <<>> /\ u.nHeight = 0
    BY <1>3, <1>5 DEF VersionPart
  <2>2. rest = z
    BY <1>3, <2>1, ConcatEmptySeq
  <2>3. ~(c \div 2 > 0)
    BY <1>5
  <2>4. Restores(u, old.nVersion, WithVersion(WithCode(old, c), Got(old.nVersion, z)))
    <3>1. LET version == IF u.nHeight = 0 THEN old.nVersion ELSE u.nVersion IN version >= 0 => old.nVersion = version
      BY <2>1
    <3> QED BY <3>1, VersionRestores
  <2> HIDE DEF code, rest, c, z
  <2>5. UndoOf(code, old) = WithVersion(WithCode(old, c), Got(old.nVersion, z))
    BY <1>1, <2>2, <2>3, Zenon DEF UndoOf
  <2> QED BY <1>2, <2>4, <2>5
<1> QED BY <1>4, <1>5

-----------------------------------------------------------------------------
(***************************************************************************)
(* Where the instructions of a script end.                                 *)
(***************************************************************************)
LEMMA NatDigits ==
  ASSUME NEW t \in Seq(Nat), NEW base \in Nat
  PROVE  \E f : /\ f \in [0 .. Len(t) -> Nat] /\ f[0] = 0
                /\ \A i \in 1 .. Len(t) : f[i] = base * f[i - 1] + t[i]
                /\ DigitsValue(t, base) = f[Len(t)]
<1> DEFINE top == Len(t)
           S == Nat
           c == 0
           F == [i \in 1 .. top |-> [x \in S |-> base * x + t[i]]]
<1>1. top \in Nat /\ c \in S
  BY LenProperties
<1>2. ASSUME NEW i \in 1 .. top, NEW x \in S PROVE base * x + t[i] \in S
  <2>1. t[i] \in Nat
    BY <1>2, ElementOfSeq
  <2>2. base * x \in Nat
    BY <1>2
  <2> HIDE DEF top
  <2> QED BY <2>1, <2>2
<1>3. F \in [1 .. top -> [S -> S]]
  <2> HIDE DEF top, S
  <2> QED BY <1>2
<1>4. PICK f : Steps(f, top, S, c, F)
  <2> HIDE DEF top, F, S, c
  <2> QED BY <1>1, <1>3, StepByStep
<1>5. f \in [0 .. top -> S] /\ f[0] = c /\ \A i \in 1 .. top : f[i - 1] \in S /\ f[i] = F[i][f[i - 1]]
  <2> HIDE DEF top, F, S, c
  <2> QED BY <1>1, <1>4 DEF Steps
<1>6. ASSUME NEW i \in 1 .. top PROVE f[i] = base * f[i - 1] + t[i]
  <2>1. f[i - 1] \in S /\ f[i] = F[i][f[i - 1]]
    <3> HIDE DEF top, F, S, c
    <3> QED BY <1>5
  <2> HIDE DEF top, S, c
  <2> QED BY <2>1
<1> DEFINE Def(g) == g = [i \in 0 .. top |-> IF i = 0 THEN c ELSE base * g[i - 1] + t[i]]
           g == CHOOSE h : Def(h)
<1>7. Def(f)
  <2>1. ASSUME NEW i \in 0 .. top PROVE f[i] = IF i = 0 THEN c ELSE base * f[i - 1] + t[i]
    <3>1. CASE i = 0
      <4> HIDE DEF top, F, S, c
      <4> QED BY <1>5, <3>1
    <3>2. CASE i # 0
      <4>1. i \in 1 .. top
        <5> HIDE DEF top, F, S, c
        <5> QED BY <1>1, <3>2
      <4> HIDE DEF top, F, S, c
      <4> QED BY <1>6, <3>2, <4>1, Zenon
    <3> QED BY <3>1, <3>2
  <2>2. f = [i \in 0 .. top |-> f[i]]
    <3> HIDE DEF top, F, S, c
    <3> QED BY <1>5
  <2> HIDE DEF top, F, S, c
  <2> QED BY <2>1, <2>2, Zenon
<1>8. Def(g)
  <2> HIDE DEF Def
  <2> QED BY <1>7, Zenon DEF g
<1>9. DigitsValue(t, base) = g[top]
  BY Zenon DEF DigitsValue
<1>10. g = f
  <2> HIDE DEF g, top, F, S, c
  <2> DEFINE T == {i \in 0 .. top : g[i] = f[i]}
  <2>1. \A i \in 0 .. top : g[i] = IF i = 0 THEN c ELSE base * g[i - 1] + t[i]
    BY <1>8, Zenon
  <2>2. g = [i \in 0 .. top |-> g[i]]
    BY <1>8, Zenon
  <2> HIDE DEF Def
  <2>3. 0 \in T
    BY <1>1, <1>5, <2>1
  <2>4. ASSUME NEW k \in 0 .. top - 1, k \in T PROVE k + 1 \in T
    <3>1. k + 1 \in 0 .. top /\ k + 1 \in 1 .. top /\ k + 1 # 0 /\ (k + 1) - 1 = k
      BY <1>1
    <3>2. g[k] = f[k]
      BY <2>4
    <3> DEFINE j == k + 1
    <3>3. j \in 0 .. top /\ j \in 1 .. top /\ j # 0 /\ g[j - 1] = f[j - 1]
      BY <3>1, <3>2
    <3> HIDE DEF j
    <3>4. g[j] = base * g[j - 1] + t[j] /\ f[j] = base * f[j - 1] + t[j]
      BY <1>6, <2>1, <3>3, Zenon
    <3>5. g[j] = f[j]
      BY <3>3, <3>4, Zenon
    <3> QED BY <3>1, <3>5 DEF j
  <2>5. T = 0 .. top
    <3>1. T \in SUBSET (0 .. top)
      OBVIOUS
    <3> HIDE DEF T
    <3> QED BY <1>1, <2>3, <2>4, <3>1, InductTo
  <2>6. \A i \in 0 .. top : g[i] = f[i]
    BY <2>5
  <2>7. f = [i \in 0 .. top |-> f[i]]
    BY <1>5
  <2> HIDE DEF T
  <2> QED BY <2>2, <2>6, <2>7, Zenon
<1>11. f \in [0 .. top -> S] /\ f[0] = c /\ (\A i \in 1 .. top : f[i] = base * f[i - 1] + t[i]) /\ DigitsValue(t, base) = f[top]
  <2> HIDE DEF g, Def, F
  <2> QED BY <1>5, <1>6, <1>9, <1>10
<1> HIDE DEF F, g, Def
<1> QED BY <1>11

LEMMA ValueIs ==
  ASSUME NEW v \in Seq(Nat)
  PROVE  ValueOf(v) \in Nat
<1> DEFINE n == Len(v)
           t == Reverse(v)
<1>1. n \in Nat /\ Radix \in Nat
  BY TopBitIs, LenProperties
<1>2. t = [i \in 1 .. n |-> v[n - i + 1]]
  BY DEF Reverse
<1>3. ASSUME NEW i \in 1 .. n PROVE v[n - i + 1] \in Nat
  <2>1. n - i + 1 \in 1 .. n
    BY <1>1
  <2> QED BY <2>1, ElementOfSeq
<1> HIDE DEF n, t
<1>4. t \in [1 .. n -> Nat]
  BY <1>2, <1>3
<1>5. t \in Seq(Nat)
  BY <1>1, <1>4
<1>6. PICK f : f \in [0 .. Len(t) -> Nat] /\ DigitsValue(t, Radix) = f[Len(t)]
  BY <1>1, <1>5, NatDigits
<1>7. DigitsValue(t, Radix) \in Nat
  BY <1>5, <1>6, LenProperties
<1> QED BY <1>7, Zenon DEF ValueOf, t

LEMMA InstructionIs ==
  ASSUME NEW o, NEW d, NEW x, NEW r, r = Instruction(o, d, x)
  PROVE  r.pc = x /\ r.ok /\ r.opcode = o
<1>1. r.pc = x /\ r.opcode = o
  BY DEF Instruction
<1>2. r.ok
  BY Zenon DEF Instruction
<1> QED BY <1>1, <1>2

LEMMA BrokenIs ==
  ASSUME NEW x, NEW r, r = Broken(x)
  PROVE  r.pc = x /\ ~r.ok
<1>1. r.pc = x
  BY DEF Broken
<1>2. ~r.ok
  BY Zenon DEF Broken
<1> QED BY <1>1, <1>2

\* Where an instruction ends.
LEMMA OpIs ==
  ASSUME NEW s \in Seq(Nat), NEW pc \in 0 .. Len(s)
  PROVE  /\ GetOp2(s, pc).pc \in pc .. Len(s) 
         /\ GetOp2(s, pc).ok => /\ pc < Len(s) /\ GetOp2(s, pc).pc > pc /\ GetOp2(s, pc).opcode = s[pc + 1]
                                /\ s[pc + 1] > OP_PUSHDATA4 => GetOp2(s, pc).pc = pc + 1
         /\ pc < Len(s) /\ s[pc + 1] > OP_PUSHDATA4 => GetOp2(s, pc).ok
         /\ pc = Len(s) => GetOp2(s, pc).pc = pc /\ ~GetOp2(s, pc).ok
<1> DEFINE r == GetOp2(s, pc)
           op == s[pc + 1]
           from == pc + 1 + LengthBytes(op)
           Good(x) == /\ x.pc \in pc .. Len(s) 
                      /\ x.ok => /\ pc < Len(s) /\ x.pc > pc /\ x.opcode = s[pc + 1]
                                 /\ s[pc + 1] > OP_PUSHDATA4 => x.pc = pc + 1
                      /\ pc < Len(s) /\ s[pc + 1] > OP_PUSHDATA4 => x.ok
                      /\ pc = Len(s) => x.pc = pc /\ ~x.ok
<1>0. pc \in Nat /\ Len(s) \in Nat
  OBVIOUS
<1>3. CASE pc >= Len(s)
  <2>1. r = Broken(pc) /\ pc = Len(s)
    BY <1>0, <1>3 DEF GetOp2
  <2> HIDE DEF r
  <2>3. r.pc = pc /\ ~r.ok
    BY <2>1, BrokenIs
  <2>4. pc = Len(s)
    BY <2>1
  <2>2. Good(r)
    BY <1>0, <2>3, <2>4
  <2> QED BY <2>2 DEF r
<1>4. CASE pc < Len(s)
  <2>1. op \in Nat
    <3>1. pc + 1 \in 1 .. Len(s)
      BY <1>0, <1>4
    <3> QED BY <3>1, ElementOfSeq
  <2>2. r = AfterOpcode(s, pc, op, from)
    <3>1. ~(pc >= Len(s))
      BY <1>0, <1>4
    <3> QED BY <3>1, Zenon DEF GetOp2
  <2>3. LengthBytes(op) \in Nat
    BY DEF LengthBytes
  <2>4. from \in Nat /\ from > pc
    BY <1>0, <2>3
  <2> HIDE DEF r, op, from
  <2>5. CASE op > OP_PUSHDATA4
    <3>1. r = Instruction(op, <<>>, pc + 1)
      BY <2>2, <2>5, Zenon DEF AfterOpcode
    <3>3. r.pc = pc + 1 /\ r.ok /\ r.opcode = op
      BY <3>1, InstructionIs
    <3>2. Good(r)
      BY <1>0, <1>4, <3>3 DEF op
    <3> QED BY <3>2 DEF r
  <2>6. CASE ~(op > OP_PUSHDATA4) /\ from > Len(s)
    <3>1. r = Broken(pc + 1)
      BY <2>2, <2>6, Zenon DEF AfterOpcode
    <3>3. r.pc = pc + 1 /\ ~r.ok
      BY <3>1, BrokenIs
    <3>2. Good(r)
      BY <1>0, <1>4, <2>6, <3>3 DEF op
    <3> QED BY <3>2 DEF r
  <2>7. CASE ~(op > OP_PUSHDATA4) /\ ~(from > Len(s))
    <3> DEFINE size == DataLength(s, pc, op)
    <3>1. r = Pushing(s, op, from, size)
      BY <2>2, <2>7, Zenon DEF AfterOpcode
    <3>2. size \in Nat
      <4> DEFINE bytes == SubSeq(s, pc + 2, pc + 1 + LengthBytes(op))
      <4>1. bytes \in Seq(Nat)
        <5>1. pc + 2 \in 1 .. Len(s) + 1 /\ from \in (pc + 2) - 1 .. Len(s)
          BY <1>0, <1>4, <2>3, <2>4, <2>7 DEF from
        <5>2. bytes = SubSeq(s, pc + 2, from)
          BY DEF from
        <5> QED BY <5>1, <5>2, PartIs
      <4> HIDE DEF bytes
      <4>2. ValueOf(bytes) \in Nat
        BY <4>1, ValueIs
      <4> QED BY <1>0, <2>1, <4>2 DEF DataLength, bytes
    <3> HIDE DEF size
    <3>3. CASE Len(s) - from < size
      <4>1. r = Broken(from)
        BY <3>1, <3>3, Zenon DEF Pushing
      <4>3. r.pc = from /\ ~r.ok
        BY <4>1, BrokenIs
      <4>2. Good(r)
        BY <1>0, <1>4, <2>4, <2>7, <4>3 DEF op
      <4> QED BY <4>2 DEF r
    <3>4. CASE ~(Len(s) - from < size)
      <4> DEFINE data == SubSeq(s, from + 1, from + size)
      <4>1. r = Instruction(op, data, from + size)
        BY <3>1, <3>4, Zenon DEF Pushing
      <4> HIDE DEF data
      <4>3. r.pc = from + size /\ r.ok /\ r.opcode = op
        BY <4>1, InstructionIs
      <4>2. Good(r)
        BY <1>0, <1>4, <2>4, <2>7, <3>2, <3>4, <4>3 DEF op
      <4> QED BY <4>2 DEF r
    <3> QED BY <3>3, <3>4
  <2> QED BY <2>5, <2>6, <2>7
<1> QED BY <1>0, <1>3, <1>4

-----------------------------------------------------------------------------
(***************************************************************************)
(* What each loop over a script does at a place of it: the functions are those*)
(* that the loops define.                                                  *)
(***************************************************************************)
\* The instructions from each place of a script on.
From(s) ==
  LET from[pc \in 0 .. Len(s)] == IF pc = Len(s) THEN <<>> ELSE Followed(GetOp2(s, pc), from) IN from

LEMMA FromIs ==
  ASSUME NEW s \in Seq(Nat)
  PROVE  \A m \in 0 .. Len(s) : From(s)[m] = IF m = Len(s) THEN <<>> ELSE Followed(GetOp2(s, m), From(s))
<1> DEFINE n == Len(s)
           O(m) == GetOp2(s, m)
           Step(g, m) == IF m = n THEN <<>> ELSE Followed(O(m), g)
           Def(g) == g = [m \in 0 .. n |-> Step(g, m)]
           g == CHOOSE g : Def(g)
           S == Seq({O(m) : m \in 0 .. n})
           P == {m \in 0 .. n : O(m).ok}
           base == [m \in 0 .. n |-> (IF m = n THEN <<>> ELSE <<O(m)>>)]
           next == [m \in 0 .. n |-> IF m \in P THEN O(m).pc ELSE 0]
           F == [m \in 0 .. n |-> [v \in S |-> <<O(m)>> \o v]]
<1>0. n \in Nat
  OBVIOUS
<1>1. /\ base \in [0 .. n -> S] /\ F \in [0 .. n -> [S -> S]] /\ next \in [0 .. n -> Nat]
      /\ \A m \in 0 .. n : m \in P => next[m] \in m + 1 .. n
  <2>1. ASSUME NEW m \in 0 .. n PROVE (IF m = n THEN <<>> ELSE <<O(m)>>) \in S
    <3> DEFINE Ins == {O(k) : k \in 0 .. n}
    <3>1. O(m) \in Ins
      OBVIOUS
    <3> HIDE DEF Ins, O
    <3>2. <<>> \in Seq(Ins) /\ <<O(m)>> \in Seq(Ins)
      BY <3>1
    <3> QED BY <3>2 DEF Ins
  <2>2. ASSUME NEW m \in 0 .. n, NEW v \in S PROVE <<O(m)>> \o v \in S
    <3> DEFINE Ins == {O(k) : k \in 0 .. n}
               w == <<O(m)>>
    <3>1. O(m) \in Ins /\ v \in Seq(Ins)
      OBVIOUS
    <3> HIDE DEF Ins, O
    <3>2. w \in Seq(Ins)
      BY <3>1
    <3> HIDE DEF w
    <3>3. w \o v \in Seq(Ins)
      BY <3>1, <3>2, ConcatProperties
    <3> QED BY <3>3 DEF w, Ins
  <2>3. ASSUME NEW m \in 0 .. n, m \in P PROVE O(m).pc \in m + 1 .. n
    BY <2>3, OpIs
  <2>4. base \in [0 .. n -> S] /\ F \in [0 .. n -> [S -> S]]
    <3> HIDE DEF S, n
    <3> QED BY <2>1, <2>2
  <2>5. ASSUME NEW m \in 0 .. n PROVE next[m] \in Nat /\ (m \in P => next[m] \in m + 1 .. n)
    <3>1. CASE m \in P
      <4>1. next[m] = O(m).pc
        BY <3>1
      <4> HIDE DEF P, next, n
      <4> QED BY <1>0, <2>3, <3>1, <4>1
    <3>2. CASE m \notin P
      BY <3>2
    <3> QED BY <3>1, <3>2
  <2>6. next = [m \in 0 .. n |-> next[m]]
    OBVIOUS
  <2> HIDE DEF P, S, base, next, F, n
  <2> QED BY <2>4, <2>5, <2>6
<1>2. PICK f : Jumps(f, n, S, P, base, next, F)
  <2> HIDE DEF S, P, base, next, F, n
  <2> QED BY <1>0, <1>1, JumpDown
<1>3. f \in [0 .. n -> S] /\ \A m \in 0 .. n : f[m] = IF m \in P THEN F[m][f[next[m]]] ELSE base[m]
  BY <1>2 DEF Jumps
<1>4. ASSUME NEW m \in 0 .. n PROVE f[m] = Step(f, m)
  <2>0. f[m] = IF m \in P THEN F[m][f[next[m]]] ELSE base[m]
    <3> HIDE DEF S, P, base, next, F, n
    <3> QED BY <1>3
  <2>1. CASE m \in P
    <3>1. next[m] \in 0 .. n /\ next[m] = O(m).pc
      <4>1. next[m] \in m + 1 .. n
        <5> HIDE DEF S, P, base, next, F, n
        <5> QED BY <1>1, <2>1
      <4> QED BY <1>0, <2>1, <4>1
    <3> DEFINE v == f[next[m]]
    <3>2. v \in S
      <4> HIDE DEF S, P, base, next, F, n
      <4> QED BY <1>3, <3>1
    <3> HIDE DEF v
    <3>3. F[m][v] = <<O(m)>> \o v
      BY <3>2
    <3>4. f[m] = <<O(m)>> \o v
      <4> HIDE DEF S, P, base, next, F, n, Step
      <4> QED BY <2>0, <2>1, <3>3 DEF v
    <3>5. v = f[O(m).pc]
      BY <3>1 DEF v
    <3>6. O(m).ok
      BY <2>1
    <3>7. m # n
      BY <2>1, OpIs
    <3> QED BY <3>4, <3>5, <3>6, <3>7, Zenon DEF Followed
  <2>2. CASE m \notin P
    <3>1. f[m] = base[m]
      <4> HIDE DEF S, P, base, next, F, n, Step
      <4> QED BY <2>0, <2>2
    <3>2. base[m] = (IF m = n THEN <<>> ELSE <<O(m)>>)
      OBVIOUS
    <3>6. ~O(m).ok
      BY <2>2
    <3> QED BY <3>1, <3>2, <3>6, Zenon DEF Followed
  <2> QED BY <2>1, <2>2
<1>5. Def(f)
  <2> HIDE DEF Step, S, n
  <2> QED BY <1>3, <1>4
<1>6. Def(g)
  <2> HIDE DEF Def
  <2> QED BY <1>5, Zenon DEF g
<1>7. From(s) = g
  BY Zenon DEF From
<1> HIDE DEF g
<1>8. \A m \in 0 .. n : g[m] = Step(g, m)
  <2> HIDE DEF Step, n
  <2> QED BY <1>6
<1> QED BY <1>7, <1>8

\* The separators from each place of a script on.
FoundIn(s) ==
  LET found[pc \in 0 .. Len(s)] == Counted(GetOp2(s, pc), OP_CODESEPARATOR, found) IN found

LEMMA FoundInIs ==
  ASSUME NEW s \in Seq(Nat)
  PROVE  \A m \in 0 .. Len(s) : FoundIn(s)[m] = Counted(GetOp2(s, m), OP_CODESEPARATOR, FoundIn(s))
<1> DEFINE n == Len(s)
           O(m) == GetOp2(s, m)
           Step(g, m) == Counted(O(m), OP_CODESEPARATOR, g)
           Def(g) == g = [m \in 0 .. n |-> Step(g, m)]
           g == CHOOSE g : Def(g)
           S == Nat
           P == {m \in 0 .. n : O(m).ok}
           base == [m \in 0 .. n |-> 0]
           next == [m \in 0 .. n |-> IF m \in P THEN O(m).pc ELSE 0]
           F == [m \in 0 .. n |-> [v \in S |-> v + (IF O(m).opcode = OP_CODESEPARATOR THEN 1 ELSE 0)]]
<1>0. n \in Nat
  OBVIOUS
<1>1. /\ base \in [0 .. n -> S] /\ F \in [0 .. n -> [S -> S]] /\ next \in [0 .. n -> Nat]
      /\ \A m \in 0 .. n : m \in P => next[m] \in m + 1 .. n
  <2>1. ASSUME NEW m \in 0 .. n PROVE 0 \in S
    OBVIOUS
  <2>2. ASSUME NEW m \in 0 .. n, NEW v \in S PROVE v + (IF O(m).opcode = OP_CODESEPARATOR THEN 1 ELSE 0) \in S
    OBVIOUS
  <2>3. ASSUME NEW m \in 0 .. n, m \in P PROVE O(m).pc \in m + 1 .. n
    BY <2>3, OpIs
  <2>4. base \in [0 .. n -> S] /\ F \in [0 .. n -> [S -> S]]
    <3> HIDE DEF S, n
    <3> QED BY <2>1, <2>2
  <2>5. ASSUME NEW m \in 0 .. n PROVE next[m] \in Nat /\ (m \in P => next[m] \in m + 1 .. n)
    <3>1. CASE m \in P
      <4>1. next[m] = O(m).pc
        BY <3>1
      <4> HIDE DEF P, next, n
      <4> QED BY <1>0, <2>3, <3>1, <4>1
    <3>2. CASE m \notin P
      BY <3>2
    <3> QED BY <3>1, <3>2
  <2>6. next = [m \in 0 .. n |-> next[m]]
    OBVIOUS
  <2> HIDE DEF P, S, base, next, F, n
  <2> QED BY <2>4, <2>5, <2>6
<1>2. PICK f : Jumps(f, n, S, P, base, next, F)
  <2> HIDE DEF S, P, base, next, F, n
  <2> QED BY <1>0, <1>1, JumpDown
<1>3. f \in [0 .. n -> S] /\ \A m \in 0 .. n : f[m] = IF m \in P THEN F[m][f[next[m]]] ELSE base[m]
  BY <1>2 DEF Jumps
<1>4. ASSUME NEW m \in 0 .. n PROVE f[m] = Step(f, m)
  <2>0. f[m] = IF m \in P THEN F[m][f[next[m]]] ELSE base[m]
    <3> HIDE DEF S, P, base, next, F, n
    <3> QED BY <1>3
  <2>1. CASE m \in P
    <3>1. next[m] \in 0 .. n /\ next[m] = O(m).pc
      <4>1. next[m] \in m + 1 .. n
        <5> HIDE DEF S, P, base, next, F, n
        <5> QED BY <1>1, <2>1
      <4> QED BY <1>0, <2>1, <4>1
    <3> DEFINE v == f[next[m]]
    <3>2. v \in S
      <4> HIDE DEF S, P, base, next, F, n
      <4> QED BY <1>3, <3>1
    <3> HIDE DEF v
    <3>3. F[m][v] = v + (IF O(m).opcode = OP_CODESEPARATOR THEN 1 ELSE 0)
      BY <3>2
    <3>4. f[m] = v + (IF O(m).opcode = OP_CODESEPARATOR THEN 1 ELSE 0)
      <4> HIDE DEF S, P, base, next, F, n, Step
      <4> QED BY <2>0, <2>1, <3>3 DEF v
    <3>5. v = f[O(m).pc]
      BY <3>1 DEF v
    <3>6. O(m).ok
      BY <2>1
    <3> QED BY <3>4, <3>5, <3>6, Zenon DEF Counted
  <2>2. CASE m \notin P
    <3>1. f[m] = base[m]
      <4> HIDE DEF S, P, base, next, F, n, Step
      <4> QED BY <2>0, <2>2
    <3>2. base[m] = 0
      OBVIOUS
    <3>6. ~O(m).ok
      BY <2>2
    <3> QED BY <3>1, <3>2, <3>6, Zenon DEF Counted
  <2> QED BY <2>1, <2>2
<1>5. Def(f)
  <2> HIDE DEF Step, S, n
  <2> QED BY <1>3, <1>4
<1>6. Def(g)
  <2> HIDE DEF Def
  <2> QED BY <1>5, Zenon DEF g
<1>7. FoundIn(s) = g
  BY Zenon DEF FoundIn
<1> HIDE DEF g
<1>8. \A m \in 0 .. n : g[m] = Step(g, m)
  <2> HIDE DEF Step, n
  <2> QED BY <1>6
<1> QED BY <1>7, <1>8

\* What is written of a script from each place on.
KeptOf(code) ==
  LET kept[pc \in 0 .. Len(code)] == Kept(code, pc, GetOp2(code, pc), kept) IN kept

LEMMA KeptOfIs ==
  ASSUME NEW code \in Seq(Nat)
  PROVE  \A m \in 0 .. Len(code) : KeptOf(code)[m] = Kept(code, m, GetOp2(code, m), KeptOf(code))
<1> DEFINE n == Len(code)
           O(m) == GetOp2(code, m)
           Step(g, m) == Kept(code, m, O(m), g)
           Def(g) == g = [m \in 0 .. n |-> Step(g, m)]
           g == CHOOSE g : Def(g)
           S == Seq(Nat)
           P == {m \in 0 .. n : O(m).ok}
           base == [m \in 0 .. n |-> (IF O(m).ok /\ O(m).opcode = OP_CODESEPARATOR THEN <<>> ELSE SubSeq(code, m + 1, O(m).pc)) \o <<>>]
           next == [m \in 0 .. n |-> IF m \in P THEN O(m).pc ELSE 0]
           F == [m \in 0 .. n |-> [v \in S |-> (IF O(m).ok /\ O(m).opcode = OP_CODESEPARATOR THEN <<>> ELSE SubSeq(code, m + 1, O(m).pc)) \o v]]
<1>0. n \in Nat
  OBVIOUS
<1>1. /\ base \in [0 .. n -> S] /\ F \in [0 .. n -> [S -> S]] /\ next \in [0 .. n -> Nat]
      /\ \A m \in 0 .. n : m \in P => next[m] \in m + 1 .. n
  <2>1. ASSUME NEW m \in 0 .. n PROVE (IF O(m).ok /\ O(m).opcode = OP_CODESEPARATOR THEN <<>> ELSE SubSeq(code, m + 1, O(m).pc)) \o <<>> \in S
    <3> DEFINE w == (IF O(m).ok /\ O(m).opcode = OP_CODESEPARATOR THEN <<>> ELSE SubSeq(code, m + 1, O(m).pc))
    <3>1. w \in Seq(Nat)
      <4>1. O(m).pc \in m .. n /\ m + 1 \in 1 .. n + 1
        BY <1>0, OpIs
      <4>2. SubSeq(code, m + 1, O(m).pc) \in Seq(Nat)
        <5>1. O(m).pc \in (m + 1) - 1 .. n
          BY <1>0, <4>1
        <5> QED BY <4>1, <5>1, PartIs
      <4>3. <<>> \in Seq(Nat)
        OBVIOUS
      <4> QED BY <4>2, <4>3
    <3>2. <<>> \in Seq(Nat)
      OBVIOUS
    <3> HIDE DEF w
    <3>3. w \o <<>> \in Seq(Nat)
      BY <3>1, <3>2, ConcatProperties
    <3> QED BY <3>3 DEF w
  <2>2. ASSUME NEW m \in 0 .. n, NEW v \in S PROVE (IF O(m).ok /\ O(m).opcode = OP_CODESEPARATOR THEN <<>> ELSE SubSeq(code, m + 1, O(m).pc)) \o v \in S
    <3> DEFINE w == (IF O(m).ok /\ O(m).opcode = OP_CODESEPARATOR THEN <<>> ELSE SubSeq(code, m + 1, O(m).pc))
    <3>1. w \in Seq(Nat)
      <4>1. O(m).pc \in m .. n /\ m + 1 \in 1 .. n + 1
        BY <1>0, OpIs
      <4>2. SubSeq(code, m + 1, O(m).pc) \in Seq(Nat)
        <5>1. O(m).pc \in (m + 1) - 1 .. n
          BY <1>0, <4>1
        <5> QED BY <4>1, <5>1, PartIs
      <4>3. <<>> \in Seq(Nat)
        OBVIOUS
      <4> QED BY <4>2, <4>3
    <3> HIDE DEF w
    <3>2. w \o v \in Seq(Nat)
      BY <3>1, ConcatProperties
    <3> QED BY <3>2 DEF w
  <2>3. ASSUME NEW m \in 0 .. n, m \in P PROVE O(m).pc \in m + 1 .. n
    BY <2>3, OpIs
  <2>4. base \in [0 .. n -> S] /\ F \in [0 .. n -> [S -> S]]
    <3> HIDE DEF S, n
    <3> QED BY <2>1, <2>2
  <2>5. ASSUME NEW m \in 0 .. n PROVE next[m] \in Nat /\ (m \in P => next[m] \in m + 1 .. n)
    <3>1. CASE m \in P
      <4>1. next[m] = O(m).pc
        BY <3>1
      <4> HIDE DEF P, next, n
      <4> QED BY <1>0, <2>3, <3>1, <4>1
    <3>2. CASE m \notin P
      BY <3>2
    <3> QED BY <3>1, <3>2
  <2>6. next = [m \in 0 .. n |-> next[m]]
    OBVIOUS
  <2> HIDE DEF P, S, base, next, F, n
  <2> QED BY <2>4, <2>5, <2>6
<1>2. PICK f : Jumps(f, n, S, P, base, next, F)
  <2> HIDE DEF S, P, base, next, F, n
  <2> QED BY <1>0, <1>1, JumpDown
<1>3. f \in [0 .. n -> S] /\ \A m \in 0 .. n : f[m] = IF m \in P THEN F[m][f[next[m]]] ELSE base[m]
  BY <1>2 DEF Jumps
<1>4. ASSUME NEW m \in 0 .. n PROVE f[m] = Step(f, m)
  <2>0. f[m] = IF m \in P THEN F[m][f[next[m]]] ELSE base[m]
    <3> HIDE DEF S, P, base, next, F, n
    <3> QED BY <1>3
  <2>1. CASE m \in P
    <3>1. next[m] \in 0 .. n /\ next[m] = O(m).pc
      <4>1. next[m] \in m + 1 .. n
        <5> HIDE DEF S, P, base, next, F, n
        <5> QED BY <1>1, <2>1
      <4> QED BY <1>0, <2>1, <4>1
    <3> DEFINE v == f[next[m]]
    <3>2. v \in S
      <4> HIDE DEF S, P, base, next, F, n
      <4> QED BY <1>3, <3>1
    <3> HIDE DEF v
    <3>3. F[m][v] = (IF O(m).ok /\ O(m).opcode = OP_CODESEPARATOR THEN <<>> ELSE SubSeq(code, m + 1, O(m).pc)) \o v
      BY <3>2
    <3>4. f[m] = (IF O(m).ok /\ O(m).opcode = OP_CODESEPARATOR THEN <<>> ELSE SubSeq(code, m + 1, O(m).pc)) \o v
      <4> HIDE DEF S, P, base, next, F, n, Step
      <4> QED BY <2>0, <2>1, <3>3 DEF v
    <3>5. v = f[O(m).pc]
      BY <3>1 DEF v
    <3>6. O(m).ok
      BY <2>1
    <3> QED BY <3>4, <3>5, <3>6, Zenon DEF Kept
  <2>2. CASE m \notin P
    <3>1. f[m] = base[m]
      <4> HIDE DEF S, P, base, next, F, n, Step
      <4> QED BY <2>0, <2>2
    <3>2. base[m] = (IF O(m).ok /\ O(m).opcode = OP_CODESEPARATOR THEN <<>> ELSE SubSeq(code, m + 1, O(m).pc)) \o <<>>
      OBVIOUS
    <3>6. ~O(m).ok
      BY <2>2
    <3> QED BY <3>1, <3>2, <3>6, Zenon DEF Kept
  <2> QED BY <2>1, <2>2
<1>5. Def(f)
  <2> HIDE DEF Step, S, n
  <2> QED BY <1>3, <1>4
<1>6. Def(g)
  <2> HIDE DEF Def
  <2> QED BY <1>5, Zenon DEF g
<1>7. KeptOf(code) = g
  BY Zenon DEF KeptOf
<1> HIDE DEF g
<1>8. \A m \in 0 .. n : g[m] = Step(g, m)
  <2> HIDE DEF Step, n
  <2> QED BY <1>6
<1> QED BY <1>7, <1>8

Separator == <<OP_CODESEPARATOR>>

LEMMA StandsIs ==
  ASSUME NEW s \in Seq(Nat), NEW m \in 0 .. Len(s)
  PROVE  /\ Len(Separator) = 1 /\ Separator # <<>>
         /\ StandsAt(s, Separator, m) <=> m < Len(s) /\ s[m + 1] = OP_CODESEPARATOR
<1>1. Len(Separator) = 1 /\ Separator # <<>> /\ Separator[1] = OP_CODESEPARATOR
  BY DEF Separator
<1>2. m \in Nat /\ Len(s) \in Nat
  OBVIOUS
<1>3. CASE m = Len(s)
  <2>1. Lesser(Len(s), m + Len(Separator)) = Len(s)
    BY <1>1, <1>2, <1>3 DEF Lesser
  <2>2. SubSeq(s, m + 1, Len(s)) = <<>>
    <3>1. m + 1 \in Int /\ Len(s) \in Int /\ Len(s) < m + 1
      BY <1>2, <1>3
    <3> QED BY <3>1, SubSeqEmpty
  <2>3. ~StandsAt(s, Separator, m)
    BY <1>1, <2>1, <2>2, Zenon DEF StandsAt
  <2> QED BY <1>1, <1>2, <1>3, <2>3
<1>4. CASE m < Len(s)
  <2>1. Lesser(Len(s), m + Len(Separator)) = m + 1
    BY <1>1, <1>2, <1>4 DEF Lesser
  <2> DEFINE t == SubSeq(s, m + 1, m + 1)
  <2>2. t \in Seq(Nat) /\ Len(t) = 1 /\ t[1] = s[m + 1]
    <3>1. m + 1 \in 1 .. Len(s) + 1 /\ m + 1 \in (m + 1) - 1 .. Len(s) /\ (m + 1) - (m + 1) + 1 = 1 /\ (m + 1) + 1 - 1 = m + 1
      BY <1>2, <1>4
    <3>2. /\ t \in Seq(Nat) /\ Len(t) = (m + 1) - (m + 1) + 1
          /\ \A i \in 1 .. (m + 1) - (m + 1) + 1 : t[i] = s[(m + 1) + i - 1]
      BY <3>1, PartIs
    <3> HIDE DEF t
    <3> QED BY <3>1, <3>2
  <2> HIDE DEF t
  <2>3. t = <<s[m + 1]>>
    BY <2>2, TuplesAre
  <2>4. StandsAt(s, Separator, m) <=> t = Separator
    BY <2>1, Zenon DEF StandsAt, t
  <2>5. t = Separator <=> s[m + 1] = OP_CODESEPARATOR
    <3>1. t = Separator => t[1] = OP_CODESEPARATOR
      BY <1>1
    <3>2. s[m + 1] = OP_CODESEPARATOR => t = Separator
      BY <2>3 DEF Separator
    <3> QED BY <2>2, <3>1, <3>2
  <2> QED BY <1>1, <1>4, <2>4, <2>5
<1> QED BY <1>2, <1>3, <1>4

\* What is left of a script from each place on when separators are deleted.
LeftOf(s) ==
  LET kept[pc \in 0 .. Len(s)] == 
        IF StandsAt(s, Separator, pc) THEN kept[pc + Len(Separator)] ELSE Keeping(s, pc, GetOp2(s, pc), kept)
  IN kept

LEMMA LeftOfIs ==
  ASSUME NEW s \in Seq(Nat)
  PROVE  \A m \in 0 .. Len(s) : LeftOf(s)[m] = IF StandsAt(s, Separator, m) THEN LeftOf(s)[m + Len(Separator)]
                                               ELSE Keeping(s, m, GetOp2(s, m), LeftOf(s))
<1> DEFINE n == Len(s)
           O(m) == GetOp2(s, m)
           Step(g, m) == IF StandsAt(s, Separator, m) THEN g[m + Len(Separator)] ELSE Keeping(s, m, O(m), g)
           Def(g) == g = [m \in 0 .. n |-> Step(g, m)]
           g == CHOOSE g : Def(g)
           S == Seq(Nat)
           P == {m \in 0 .. n : StandsAt(s, Separator, m) \/ O(m).ok}
           base == [m \in 0 .. n |-> SubSeq(s, m + 1, n)]
           next == [m \in 0 .. n |-> IF m \in P THEN (IF StandsAt(s, Separator, m) THEN m + Len(Separator) ELSE O(m).pc) ELSE 0]
           F == [m \in 0 .. n |-> [v \in S |-> (IF StandsAt(s, Separator, m) THEN v ELSE SubSeq(s, m + 1, O(m).pc) \o v)]]
<1>0. n \in Nat
  OBVIOUS
<1>1. /\ base \in [0 .. n -> S] /\ F \in [0 .. n -> [S -> S]] /\ next \in [0 .. n -> Nat]
      /\ \A m \in 0 .. n : m \in P => next[m] \in m + 1 .. n
  <2>1. ASSUME NEW m \in 0 .. n PROVE SubSeq(s, m + 1, n) \in S
    <3>1. m + 1 \in 1 .. n + 1 /\ n \in (m + 1) - 1 .. n
      BY <1>0
    <3> QED BY <3>1, PartIs
  <2>2. ASSUME NEW m \in 0 .. n, NEW v \in S PROVE (IF StandsAt(s, Separator, m) THEN v ELSE SubSeq(s, m + 1, O(m).pc) \o v) \in S
    <3> DEFINE w == SubSeq(s, m + 1, O(m).pc)
    <3>1. w \in Seq(Nat)
      <4>1. O(m).pc \in m .. n /\ m + 1 \in 1 .. n + 1
        BY <1>0, OpIs
      <4>2. O(m).pc \in (m + 1) - 1 .. n
        BY <1>0, <4>1
      <4> QED BY <4>1, <4>2, PartIs
    <3> HIDE DEF w
    <3>2. w \o v \in Seq(Nat)
      BY <3>1, ConcatProperties
    <3> QED BY <3>2 DEF w
  <2>3. ASSUME NEW m \in 0 .. n, m \in P PROVE (IF StandsAt(s, Separator, m) THEN m + Len(Separator) ELSE O(m).pc) \in m + 1 .. n
    <3>1. CASE StandsAt(s, Separator, m)
      <4>1. Len(Separator) = 1 /\ m < n
        BY <3>1, StandsIs
      <4>2. m + Len(Separator) \in m + 1 .. n
        BY <1>0, <4>1
      <4> QED BY <3>1, <4>2
    <3>2. CASE ~StandsAt(s, Separator, m)
      <4>1. O(m).ok
        BY <2>3, <3>2
      <4>2. O(m).pc \in m + 1 .. n
        BY <4>1, OpIs
      <4> QED BY <3>2, <4>2
    <3> QED BY <3>1, <3>2
  <2>4. base \in [0 .. n -> S] /\ F \in [0 .. n -> [S -> S]]
    <3> HIDE DEF S, n
    <3> QED BY <2>1, <2>2
  <2>5. ASSUME NEW m \in 0 .. n PROVE next[m] \in Nat /\ (m \in P => next[m] \in m + 1 .. n)
    <3>1. CASE m \in P
      <4>1. next[m] = (IF StandsAt(s, Separator, m) THEN m + Len(Separator) ELSE O(m).pc)
        BY <3>1
      <4> HIDE DEF P, next, n
      <4> QED BY <1>0, <2>3, <3>1, <4>1
    <3>2. CASE m \notin P
      BY <3>2
    <3> QED BY <3>1, <3>2
  <2>6. next = [m \in 0 .. n |-> next[m]]
    OBVIOUS
  <2> HIDE DEF P, S, base, next, F, n
  <2> QED BY <2>4, <2>5, <2>6
<1>2. PICK f : Jumps(f, n, S, P, base, next, F)
  <2> HIDE DEF S, P, base, next, F, n
  <2> QED BY <1>0, <1>1, JumpDown
<1>3. f \in [0 .. n -> S] /\ \A m \in 0 .. n : f[m] = IF m \in P THEN F[m][f[next[m]]] ELSE base[m]
  BY <1>2 DEF Jumps
<1>4. ASSUME NEW m \in 0 .. n PROVE f[m] = Step(f, m)
  <2>0. f[m] = IF m \in P THEN F[m][f[next[m]]] ELSE base[m]
    <3> HIDE DEF S, P, base, next, F, n
    <3> QED BY <1>3
  <2>1. CASE m \in P
    <3>1. next[m] \in 0 .. n /\ next[m] = (IF StandsAt(s, Separator, m) THEN m + Len(Separator) ELSE O(m).pc)
      <4>1. next[m] \in m + 1 .. n
        <5> HIDE DEF S, P, base, next, F, n
        <5> QED BY <1>1, <2>1
      <4> QED BY <1>0, <2>1, <4>1
    <3> DEFINE v == f[next[m]]
    <3>2. v \in S
      <4> HIDE DEF S, P, base, next, F, n
      <4> QED BY <1>3, <3>1
    <3> HIDE DEF v
    <3>3. F[m][v] = (IF StandsAt(s, Separator, m) THEN v ELSE SubSeq(s, m + 1, O(m).pc) \o v)
      BY <3>2
    <3>4. f[m] = (IF StandsAt(s, Separator, m) THEN v ELSE SubSeq(s, m + 1, O(m).pc) \o v)
      <4> HIDE DEF S, P, base, next, F, n, Step
      <4> QED BY <2>0, <2>1, <3>3 DEF v
    <3>5. v = f[(IF StandsAt(s, Separator, m) THEN m + Len(Separator) ELSE O(m).pc)]
      BY <3>1 DEF v
    <3>6. ~StandsAt(s, Separator, m) => O(m).ok
      BY <2>1
    <3> QED BY <3>4, <3>5, <3>6, Zenon DEF Keeping
  <2>2. CASE m \notin P
    <3>1. f[m] = base[m]
      <4> HIDE DEF S, P, base, next, F, n, Step
      <4> QED BY <2>0, <2>2
    <3>2. base[m] = SubSeq(s, m + 1, n)
      OBVIOUS
    <3>6. ~StandsAt(s, Separator, m) /\ ~O(m).ok
      BY <2>2
    <3> QED BY <3>1, <3>2, <3>6, Zenon DEF Keeping
  <2> QED BY <2>1, <2>2
<1>5. Def(f)
  <2> HIDE DEF Step, S, n
  <2> QED BY <1>3, <1>4
<1>6. Def(g)
  <2> HIDE DEF Def
  <2> QED BY <1>5, Zenon DEF g
<1>7. LeftOf(s) = g
  BY Zenon DEF LeftOf
<1> HIDE DEF g
<1>8. \A m \in 0 .. n : g[m] = Step(g, m)
  <2> HIDE DEF Step, n
  <2> QED BY <1>6
<1> QED BY <1>7, <1>8

-----------------------------------------------------------------------------
(***************************************************************************)
(* The code that is hashed is the code without its separators.             *)
(***************************************************************************)
LEMMA AllEndIs ==
  ASSUME NEW I, NEW t \in Seq(I), NEW r \in I, NEW u, u = <<r>> \o t
  PROVE  u \in Seq(I) /\ (AllEnd(u) => r.ok /\ AllEnd(t))
<1> DEFINE one == <<r>>
<1>1. one \in Seq(I) /\ Len(one) = 1 /\ one[1] = r
  OBVIOUS
<1>2. u = one \o t
  OBVIOUS
<1> HIDE DEF one
<1>3. /\ u \in Seq(I) /\ Len(u) = 1 + Len(t)
      /\ \A i \in 1 .. 1 + Len(t) : u[i] = IF i <= 1 THEN one[i] ELSE t[i - 1]
  BY <1>1, <1>2, ConcatProperties
<1>4. 1 \in DOMAIN u /\ u[1] = r
  BY <1>1, <1>3
<1>5. ASSUME NEW i \in DOMAIN t PROVE i + 1 \in DOMAIN u /\ u[i + 1] = t[i]
  <2>1. i \in 1 .. Len(t) /\ i + 1 \in 1 .. 1 + Len(t) /\ ~(i + 1 <= 1) /\ (i + 1) - 1 = i
    OBVIOUS
  <2> QED BY <1>3, <2>1
<1>6. ASSUME AllEnd(u) PROVE r.ok /\ AllEnd(t)
  <2>1. r.ok
    BY <1>4, <1>6, Zenon DEF AllEnd
  <2>2. ASSUME NEW i \in DOMAIN t PROVE t[i].ok
    BY <1>5, <1>6, Zenon DEF AllEnd
  <2> QED BY <2>1, <2>2 DEF AllEnd
<1> QED BY <1>3, <1>6

\* From a place of a script on: what is written and what is counted never take
\* more than is there; and where every instruction ends they take all of it, and
\* what is written is what is left when separators are deleted.
Delimited(s, m) ==
  /\ KeptOf(s)[m] \in Seq(Nat) /\ FoundIn(s)[m] \in Nat
  /\ Len(KeptOf(s)[m]) + FoundIn(s)[m] <= Len(s) - m
  /\ From(s)[m] \in Seq({GetOp2(s, k) : k \in 0 .. Len(s)})
  /\ AllEnd(From(s)[m]) => /\ Len(KeptOf(s)[m]) + FoundIn(s)[m] = Len(s) - m
                           /\ LeftOf(s)[m] = KeptOf(s)[m]

LEMMA DelimitedEnd ==
  ASSUME NEW s \in Seq(Nat), NEW m \in 0 .. Len(s), m = Len(s)
  PROVE  Delimited(s, m)
<1> DEFINE r == GetOp2(s, m)
<1>1. r.pc = m /\ ~r.ok
  BY OpIs
<1>2. SubSeq(s, m + 1, m) = <<>>
  <2>1. m + 1 \in Int /\ m \in Int /\ m < m + 1
    OBVIOUS
  <2> QED BY <2>1, SubSeqEmpty
<1>3. KeptOf(s)[m] = Kept(s, m, r, KeptOf(s)) /\ FoundIn(s)[m] = Counted(r, OP_CODESEPARATOR, FoundIn(s))
  BY KeptOfIs, FoundInIs
<1>4. From(s)[m] = <<>> /\ LeftOf(s)[m] = Keeping(s, m, r, LeftOf(s))
  <2>1. ~StandsAt(s, Separator, m)
    BY StandsIs
  <2>2. LeftOf(s)[m] = IF StandsAt(s, Separator, m) THEN LeftOf(s)[m + Len(Separator)] ELSE Keeping(s, m, r, LeftOf(s))
    BY LeftOfIs
  <2>3. From(s)[m] = IF m = Len(s) THEN <<>> ELSE Followed(r, From(s))
    BY FromIs
  <2> QED BY <2>1, <2>2, <2>3
<1> HIDE DEF r
<1>5. KeptOf(s)[m] = <<>>
  <2>1. Kept(s, m, r, KeptOf(s)) = SubSeq(s, m + 1, r.pc) \o <<>>
    BY <1>1, Zenon DEF Kept
  <2>2. SubSeq(s, m + 1, r.pc) = <<>>
    BY <1>1, <1>2
  <2>3. <<>> \o <<>> = <<>>
    OBVIOUS
  <2> QED BY <1>3, <2>1, <2>2, <2>3
<1>6. FoundIn(s)[m] = 0
  BY <1>1, <1>3, Zenon DEF Counted
<1>7. LeftOf(s)[m] = <<>>
  <2>1. Keeping(s, m, r, LeftOf(s)) = SubSeq(s, m + 1, Len(s))
    BY <1>1, Zenon DEF Keeping
  <2>2. SubSeq(s, m + 1, Len(s)) = <<>>
    BY <1>2
  <2> QED BY <1>4, <2>1, <2>2
<1> QED BY <1>4, <1>5, <1>6, <1>7 DEF Delimited

LEMMA DelimitedBroken ==
  ASSUME NEW s \in Seq(Nat), NEW m \in 0 .. Len(s), m < Len(s), ~GetOp2(s, m).ok
  PROVE  Delimited(s, m)
<1> DEFINE r == GetOp2(s, m)
           I == {GetOp2(s, k) : k \in 0 .. Len(s)}
           w == SubSeq(s, m + 1, r.pc)
<1>1. r.pc \in m .. Len(s) /\ ~r.ok /\ r \in I
  BY OpIs
<1>2. KeptOf(s)[m] = Kept(s, m, r, KeptOf(s)) /\ FoundIn(s)[m] = Counted(r, OP_CODESEPARATOR, FoundIn(s))
  BY KeptOfIs, FoundInIs
<1>3. From(s)[m] = <<r>>
  <2>1. From(s)[m] = IF m = Len(s) THEN <<>> ELSE Followed(r, From(s))
    BY FromIs
  <2>2. m # Len(s)
    OBVIOUS
  <2>3. Followed(r, From(s)) = <<r>>
    BY <1>1, Zenon DEF Followed
  <2> QED BY <2>1, <2>2, <2>3
<1>4. w \in Seq(Nat) /\ Len(w) = r.pc - m
  <2>1. m + 1 \in 1 .. Len(s) + 1 /\ r.pc \in (m + 1) - 1 .. Len(s)
    BY <1>1
  <2>2. w \in Seq(Nat) /\ Len(w) = r.pc - (m + 1) + 1
    BY <2>1, PartIs
  <2> HIDE DEF r, w
  <2> QED BY <1>1, <2>2
<1> HIDE DEF r, w, I
<1>5. KeptOf(s)[m] = w
  <2>1. Kept(s, m, r, KeptOf(s)) = w \o <<>>
    BY <1>1, Zenon DEF Kept, w
  <2>2. w \o <<>> = w
    BY <1>4, ConcatEmptySeq
  <2> QED BY <1>2, <2>1, <2>2
<1>6. FoundIn(s)[m] = 0
  BY <1>1, <1>2, Zenon DEF Counted
<1>7. ~AllEnd(<<r>>)
  <2>1. 1 \in DOMAIN <<r>> /\ <<r>>[1] = r
    OBVIOUS
  <2> QED BY <1>1, <2>1, Zenon DEF AllEnd
<1>8. <<r>> \in Seq(I)
  BY <1>1
<1>9. /\ KeptOf(s)[m] \in Seq(Nat) /\ FoundIn(s)[m] \in Nat
      /\ Len(KeptOf(s)[m]) + FoundIn(s)[m] <= Len(s) - m
  BY <1>1, <1>4, <1>5, <1>6
<1>10. From(s)[m] \in Seq(I) /\ ~AllEnd(From(s)[m])
  BY <1>3, <1>7, <1>8
<1> QED BY <1>9, <1>10, Zenon DEF Delimited, I

LEMMA DelimitedNext ==
  ASSUME NEW s \in Seq(Nat), NEW m \in 0 .. Len(s), GetOp2(s, m).ok, Delimited(s, GetOp2(s, m).pc)
  PROVE  Delimited(s, m)
<1> DEFINE r == GetOp2(s, m)
           p == r.pc
           I == {GetOp2(s, k) : k \in 0 .. Len(s)}
           w == SubSeq(s, m + 1, p)
           k == KeptOf(s)[p]
           f == FoundIn(s)[p]
           i == From(s)[p]
           l == LeftOf(s)[p]
<1>0. m \in Nat /\ Len(s) \in Nat
  OBVIOUS
<1>1. /\ r.ok /\ r \in I
      /\ m < Len(s) /\ p \in m + 1 .. Len(s) /\ r.opcode = s[m + 1]
      /\ s[m + 1] > OP_PUSHDATA4 => p = m + 1
  BY OpIs
<1>2. KeptOf(s)[m] = Kept(s, m, r, KeptOf(s)) /\ FoundIn(s)[m] = Counted(r, OP_CODESEPARATOR, FoundIn(s))
  BY KeptOfIs, FoundInIs
<1>3. From(s)[m] = <<r>> \o i
  <2>1. From(s)[m] = IF m = Len(s) THEN <<>> ELSE Followed(r, From(s))
    BY FromIs
  <2>2. m # Len(s)
    BY <1>1
  <2>3. Followed(r, From(s)) = <<r>> \o i
    BY <1>1, Zenon DEF Followed
  <2> QED BY <2>1, <2>2, <2>3
<1>4. LeftOf(s)[m] = IF StandsAt(s, Separator, m) THEN LeftOf(s)[m + Len(Separator)] ELSE Keeping(s, m, r, LeftOf(s))
  BY LeftOfIs
<1>5. w \in Seq(Nat) /\ Len(w) = p - m
  <2>1. m + 1 \in 1 .. Len(s) + 1 /\ p \in (m + 1) - 1 .. Len(s)
    BY <1>1
  <2> HIDE DEF p
  <2>2. w \in Seq(Nat) /\ Len(w) = p - (m + 1) + 1
    BY <2>1, PartIs
  <2> HIDE DEF w
  <2> QED BY <1>1, <2>2
<1>6. /\ k \in Seq(Nat) /\ f \in Nat /\ Len(k) + f <= Len(s) - p /\ i \in Seq(I)
      /\ AllEnd(i) => Len(k) + f = Len(s) - p /\ l = k
  BY Zenon DEF Delimited
<1>7. StandsAt(s, Separator, m) <=> r.opcode = OP_CODESEPARATOR
  BY <1>1, StandsIs
<1>8. Len(Separator) = 1
  BY StandsIs
<1>9. From(s)[m] \in Seq(I) /\ (AllEnd(From(s)[m]) => AllEnd(i))
  <2> HIDE DEF r, I, i
  <2> QED BY <1>1, <1>3, <1>6, AllEndIs
<1>10. CASE r.opcode = OP_CODESEPARATOR
  <2>1. p = m + 1
    <3>1. OP_CODESEPARATOR > OP_PUSHDATA4
      BY DEF OP_CODESEPARATOR, OP_PUSHDATA4
    <3> QED BY <1>1, <1>10, <3>1
  <2>2. KeptOf(s)[m] = k
    <3>1. Kept(s, m, r, KeptOf(s)) = <<>> \o k
      BY <1>1, <1>10, Zenon DEF Kept
    <3> HIDE DEF k
    <3>2. <<>> \o k = k
      BY <1>6, ConcatEmptySeq
    <3> QED BY <1>2, <3>1, <3>2
  <2>3. FoundIn(s)[m] = f + 1
    BY <1>1, <1>2, <1>10, Zenon DEF Counted
  <2>4. LeftOf(s)[m] = l
    BY <1>4, <1>7, <1>8, <1>10, <2>1
  <2> HIDE DEF r, p, k, f, i, l
  <2>5. Len(k) \in Nat
    BY <1>6
  <2>6. /\ KeptOf(s)[m] \in Seq(Nat) /\ FoundIn(s)[m] \in Nat
        /\ Len(KeptOf(s)[m]) + FoundIn(s)[m] <= Len(s) - m
        /\ AllEnd(i) => /\ Len(KeptOf(s)[m]) + FoundIn(s)[m] = Len(s) - m
                        /\ LeftOf(s)[m] = KeptOf(s)[m]
    BY <1>0, <1>6, <2>1, <2>2, <2>3, <2>4, <2>5
  <2> QED BY <1>9, <2>6, Zenon DEF Delimited, I
<1>11. CASE r.opcode # OP_CODESEPARATOR
  <2>2. KeptOf(s)[m] = w \o k
    <3>1. Kept(s, m, r, KeptOf(s)) = w \o k
      BY <1>1, <1>11, Zenon DEF Kept
    <3> QED BY <1>2, <3>1
  <2>3. FoundIn(s)[m] = f
    <3>1. Counted(r, OP_CODESEPARATOR, FoundIn(s)) = f + 0
      BY <1>1, <1>11, Zenon DEF Counted
    <3> HIDE DEF f
    <3> QED BY <1>2, <1>6, <3>1
  <2>4. LeftOf(s)[m] = w \o l
    <3>1. Keeping(s, m, r, LeftOf(s)) = w \o l
      BY <1>1, Zenon DEF Keeping
    <3> QED BY <1>4, <1>7, <1>11, <3>1
  <2> HIDE DEF r, p, w, k, f, i, l
  <2>5. w \o k \in Seq(Nat) /\ Len(w \o k) = Len(w) + Len(k)
    BY <1>5, <1>6, ConcatProperties
  <2>6. Len(k) \in Nat /\ p \in Nat
    BY <1>0, <1>1, <1>6
  <2>7. /\ KeptOf(s)[m] \in Seq(Nat) /\ FoundIn(s)[m] \in Nat
    BY <1>6, <2>2, <2>3, <2>5
  <2>8. Len(KeptOf(s)[m]) = (p - m) + Len(k)
    BY <1>5, <2>2, <2>5
  <2>9. Len(KeptOf(s)[m]) + FoundIn(s)[m] <= Len(s) - m
    BY <1>0, <1>6, <2>3, <2>6, <2>8
  <2>10. AllEnd(i) => /\ Len(KeptOf(s)[m]) + FoundIn(s)[m] = Len(s) - m
                      /\ LeftOf(s)[m] = KeptOf(s)[m]
    <3>1. AllEnd(i) => Len(KeptOf(s)[m]) + FoundIn(s)[m] = Len(s) - m
      BY <1>0, <1>6, <2>3, <2>6, <2>8
    <3>2. AllEnd(i) => LeftOf(s)[m] = KeptOf(s)[m]
      BY <1>6, <2>2, <2>4, Zenon
    <3> QED BY <3>1, <3>2
  <2> QED BY <1>9, <2>7, <2>9, <2>10, Zenon DEF Delimited, I
<1> QED BY <1>10, <1>11

LEMMA CodeDelimited ==
  ASSUME NEW s \in Seq(Nat)
  PROVE  Delimits(ScriptCode(s), s)
<1> DEFINE n == Len(s)
           T == {m \in 0 .. n : Delimited(s, m)}
<1>0. n \in Nat
  OBVIOUS
<1>1. ASSUME NEW m \in 0 .. n, \A j \in m + 1 .. n : j \in T PROVE m \in T
  <2>1. CASE m = n
    BY <2>1, DelimitedEnd
  <2>2. CASE m # n /\ ~GetOp2(s, m).ok
    BY <2>2, DelimitedBroken
  <2>3. CASE m # n /\ GetOp2(s, m).ok
    <3>1. GetOp2(s, m).pc \in m + 1 .. n
      BY <2>3, OpIs
    <3>2. Delimited(s, GetOp2(s, m).pc)
      BY <1>1, <3>1
    <3> QED BY <2>3, <3>2, DelimitedNext
  <2> QED BY <2>1, <2>2, <2>3
<1>2. T = 0 .. n
  <2>1. T \in SUBSET (0 .. n)
    OBVIOUS
  <2> HIDE DEF T, n
  <2> QED BY <1>0, <1>1, <2>1, StrongDownTo
<1>3. Delimited(s, 0)
  <2>1. 0 \in 0 .. n
    BY <1>0
  <2> QED BY <1>2, <2>1
<1> DEFINE r == ScriptCode(s)
           k == KeptOf(s)[0]
           f == FoundIn(s)[0]
<1>4. r = [size |-> Len(s) - f, bytes |-> k]
  BY Zenon DEF ScriptCode, Find, KeptOf, FoundIn
<1>5. Whole(s) <=> AllEnd(From(s)[0])
  BY Zenon DEF Whole, Reads, From
<1>6. FindAndDelete(s, <<OP_CODESEPARATOR>>) = LeftOf(s)[0]
  <2>1. Separator # <<>>
    BY DEF Separator
  <2>2. FindAndDelete(s, Separator) = LeftOf(s)[0]
    BY <2>1, Zenon DEF FindAndDelete, LeftOf
  <2> QED BY <2>2 DEF Separator
<1>7. /\ k \in Seq(Nat) /\ f \in Nat /\ Len(k) + f <= Len(s) - 0
      /\ AllEnd(From(s)[0]) => Len(k) + f = Len(s) - 0 /\ LeftOf(s)[0] = k
  BY <1>3, Zenon DEF Delimited
<1> HIDE DEF r, k, f
<1>8. r.size = Len(s) - f /\ r.bytes = k
  BY <1>4
<1>9. Len(k) \in Nat
  BY <1>7
<1>10. Len(r.bytes) <= r.size
  BY <1>0, <1>7, <1>8, <1>9
<1>11. Whole(s) => r.size = Len(r.bytes) /\ r.bytes = FindAndDelete(s, <<OP_CODESEPARATOR>>)
  BY <1>0, <1>5, <1>6, <1>7, <1>8, <1>9
<1> QED BY <1>10, <1>11, Zenon DEF Delimits, r

-----------------------------------------------------------------------------
(***************************************************************************)
(* Whatever is read into, what is read replaces it.                        *)
(***************************************************************************)
\* What readings go into: an undo record, as long as there is one, and code.
ReadingInv == UndoHolds(undo) /\ (signed # NotSigned => signed.code \in Codes)

LEMMA OthersKeepUndo ==
  ASSUME Editing \/ Reading
  PROVE  UNCHANGED <<signed, undo>>
<1>1. \A new : Change(new) => UNCHANGED <<signed, undo>>
  BY DEF Change
<1>2. CASE Reading
  BY <1>1, <1>2 DEF Reading, Read
<1>3. CASE Editing
  BY <1>1, <1>3 DEF Editing, SetVersion, SetLockTime, SetNull, DropInput, SetSequence, SetScriptSig,
                    DropOutput, SetValue, SetScriptPubKey, AddInput, AddOutput
<1> QED BY <1>2, <1>3

LEMMA ReadingInvInductive == Spec => []ReadingInv
<1>1. Init => ReadingInv
  BY NullUndoHolds DEF Init, ReadingInv
<1>2. ReadingInv /\ [Next]_vars => ReadingInv'
  <2> SUFFICES ASSUME ReadingInv, [Next]_vars PROVE ReadingInv'
    OBVIOUS
  <2>1. CASE Signing
    <3>1. PICK code \in Codes, nHashType \in HashTypes, nIn \in 1 .. MaxInputs + 1 : Sign(code, nIn, nHashType)
      BY <2>1 DEF Signing
    <3>2. signed'.code = code /\ undo' = undo
      BY <3>1 DEF Sign
    <3>3. UndoHolds(undo)'
      BY <3>2 DEF ReadingInv, UndoHolds
    <3> QED BY <3>2, <3>3 DEF ReadingInv
  <2>2. CASE Editing \/ Reading \/ UNCHANGED vars
    <3>1. signed' = signed /\ undo' = undo
      BY <2>2, OthersKeepUndo DEF vars
    <3>2. UndoHolds(undo)'
      BY <3>1 DEF ReadingInv, UndoHolds
    <3> QED BY <3>1, <3>2 DEF ReadingInv
  <2>3. CASE Undoing
    <3>1. PICK u \in Undos : ReadUndoRecord(u)
      BY <2>3 DEF Undoing
    <3> DEFINE read == ReadUndo(WriteUndo(u), undo).value
    <3>2. undo' = read /\ signed' = signed
      BY <3>1 DEF ReadUndoRecord
    <3>3. UndoHolds(read)
      BY UndoReadHolds DEF ReadingInv
    <3> HIDE DEF read
    <3>4. UndoHolds(undo)'
      BY <3>2, <3>3 DEF UndoHolds
    <3> QED BY <3>2, <3>4 DEF ReadingInv
  <2> QED BY <2>1, <2>2, <2>3 DEF Next
<1> QED BY <1>1, <1>2, PTL DEF Spec

LEMMA UndoComesBack ==
  ASSUME UndoHolds(undo), NEW u \in Undos
  PROVE  ComesBack(u, ReadUndo(WriteUndo(u), undo))
<1> DEFINE r == ReadUndo(WriteUndo(u), undo)
           Back == /\ r.ok /\ r.rest = <<>>
                   /\ r.value.nHeight = u.nHeight /\ r.value.fCoinBase = u.fCoinBase
                   /\ (IF u.nHeight = 0 THEN undo.nVersion ELSE u.nVersion) >= 0 =>
                        r.value.nVersion = (IF u.nHeight = 0 THEN undo.nVersion ELSE u.nVersion)
                   /\ MoneyRange(u.txout.nValue) => r.value.txout = u.txout
<1>1. UndoSize(u) = Len(WriteUndo(u))
  BY UndoWritten
<1>2. ASSUME u.nHeight = UndoCode(u) \div 2 PROVE Back
  <2>1. Restores(u, undo.nVersion, r)
    BY <1>2, UndoBack
  <2> QED BY <2>1, Zenon DEF Restores
<1> HIDE DEF r
<1> QED BY <1>1, <1>2, Zenon DEF ComesBack, r

\* What is written says where it ends and reading it gives what was written,
\* whatever was in the variable: a transaction, an undo record (but for what its
\* form leaves out), and the code that is hashed, which is the code without its
\* separators.
THEOREM ReadingAlwaysReplaces == Spec => []ReadingReplaces
<1>1. TxInv /\ ReadingInv /\ AreTxs /\ NothingLeftBehind => ReadingReplaces
  <2> SUFFICES ASSUME TxInv, ReadingInv, AreTxs, NothingLeftBehind PROVE ReadingReplaces
    OBVIOUS
  <2>1. TypeOK
    <3>1. undo.nHeight \in 0 .. (UintModulus \div 2) - 1 /\ undo.fCoinBase \in BOOLEAN
      BY Zenon DEF ReadingInv, UndoHolds
    <3> QED BY <3>1 DEF TypeOK
  <2>2. UndoReadBack
    BY UndoComesBack DEF UndoReadBack, ReadingInv
  <2>3. CodeIsDelimited
    <3> SUFFICES ASSUME signed # NotSigned PROVE Delimits(ScriptCode(signed.code), signed.code)
      BY DEF CodeIsDelimited
    <3>1. signed.code \in Seq(Byte)
      BY GivenAssumption DEF ReadingInv
    <3>2. \A b \in Byte : b \in Nat
      BY GivenAssumption DEF Byte
    <3> DEFINE code == signed.code
    <3> HIDE DEF code
    <3>3. code \in Seq(Nat)
      BY <3>1, <3>2 DEF code
    <3>4. Delimits(ScriptCode(code), code)
      BY <3>3, CodeDelimited
    <3> QED BY <3>4 DEF code
  <2> QED BY <2>1, <2>2, <2>3 DEF ReadingReplaces
<1> QED BY <1>1, TxInvInductive, ReadingInvInductive, TransactionsStayWhole, PTL
=============================================================================
