---------------------------- MODULE KeysProofs ----------------------------
(***************************************************************************)
(* Proofs about Keys, for every curve of prime order: that a key which     *)
(* calls itself valid is one, that what is signed verifies and gives its   *)
(* key back, and that a point is one public key.  The first part is the    *)
(* arithmetic of ECDSA modulo the order, the second follows the calls.     *)
(* The third is about LockedPages, which keeps the memory of secret keys   *)
(* from being swapped out: for any blocks on any pages, used from any      *)
(* number of threads.                                                      *)
(***************************************************************************)
EXTENDS Keys, LockedPages, FiniteSetTheorems, TLAPS

-----------------------------------------------------------------------------
\* Arithmetic modulo the order.

\* Two numbers that differ by a multiple of the order.
Congruent(a, b) == \E z \in Int : a = b + Order * z

LEMMA OrderIsNat == Order \in Nat \ {0}
BY CurveAssumption

\* A remainder is congruent, and in range.
LEMMA ModCongruent ==
  ASSUME NEW a \in Int
  PROVE  a % Order \in 0 .. Order - 1 /\ Congruent(a % Order, a) /\ Congruent(a, a % Order)
<1>1. a % Order \in 0 .. Order - 1
  BY OrderIsNat
<1>2. a = (a % Order) + Order * (a \div Order) /\ a \div Order \in Int
  BY OrderIsNat
<1>3. Congruent(a, a % Order)
  BY <1>2 DEF Congruent
<1>4. a % Order = a + Order * (-(a \div Order)) /\ -(a \div Order) \in Int
  BY <1>2, OrderIsNat
<1>5. Congruent(a % Order, a)
  BY <1>4 DEF Congruent
<1> QED
  BY <1>1, <1>3, <1>5

LEMMA CongruentSymmetric ==
  ASSUME NEW a \in Int, NEW b \in Int, Congruent(a, b)
  PROVE  Congruent(b, a)
<1>1. PICK z \in Int : a = b + Order * z
  BY DEF Congruent
<1>2. b = a + Order * (-z) /\ -z \in Int
  BY <1>1, OrderIsNat
<1> QED
  BY <1>2 DEF Congruent

LEMMA CongruentTransitive ==
  ASSUME NEW a \in Int, NEW b \in Int, NEW c \in Int, Congruent(a, b), Congruent(b, c)
  PROVE  Congruent(a, c)
<1>1. PICK y \in Int : a = b + Order * y
  BY DEF Congruent
<1>2. PICK z \in Int : b = c + Order * z
  BY DEF Congruent
<1>3. a = c + Order * (y + z) /\ y + z \in Int
  BY <1>1, <1>2, OrderIsNat
<1> QED
  BY <1>3 DEF Congruent

LEMMA CongruentSum ==
  ASSUME NEW a \in Int, NEW b \in Int, NEW c \in Int, NEW d \in Int, Congruent(a, b), Congruent(c, d)
  PROVE  Congruent(a + c, b + d)
<1>1. PICK y \in Int : a = b + Order * y
  BY DEF Congruent
<1>2. PICK z \in Int : c = d + Order * z
  BY DEF Congruent
<1>3. a + c = (b + d) + Order * (y + z) /\ y + z \in Int
  BY <1>1, <1>2, OrderIsNat
<1> QED
  BY <1>3 DEF Congruent

LEMMA CongruentTimes ==
  ASSUME NEW a \in Int, NEW b \in Int, NEW c \in Int, Congruent(a, b)
  PROVE  Congruent(a * c, b * c) /\ Congruent(c * a, c * b)
<1>1. PICK y \in Int : a = b + Order * y
  BY DEF Congruent
<1>2. a * c = b * c + Order * (y * c) /\ c * a = c * b + Order * (y * c) /\ y * c \in Int
  BY <1>1, OrderIsNat
<1> QED
  BY <1>2 DEF Congruent

\* Among the remainders only equals are congruent.
LEMMA CongruentEqual ==
  ASSUME NEW a \in 0 .. Order - 1, NEW b \in 0 .. Order - 1, Congruent(a, b)
  PROVE  a = b
<1>1. PICK y \in Int : a = b + Order * y
  BY DEF Congruent
<1>2. CASE y >= 1
  <2>1. Order * y >= Order
    BY <1>2, OrderIsNat
  <2> QED
    BY <1>1, <2>1, OrderIsNat
<1>3. CASE y <= -1
  <2>1. Order * y <= -Order
    BY <1>3, OrderIsNat
  <2> QED
    BY <1>1, <2>1, OrderIsNat
<1>4. CASE y = 0
  BY <1>1, <1>4, OrderIsNat
<1> QED
  BY <1>2, <1>3, <1>4

LEMMA CongruentMod ==
  ASSUME NEW a \in Int, NEW b \in Int, Congruent(a, b)
  PROVE  a % Order = b % Order
<1>1. /\ a % Order \in 0 .. Order - 1 /\ Congruent(a % Order, a)
      /\ b % Order \in 0 .. Order - 1 /\ Congruent(b, b % Order)
  BY ModCongruent
<1>2. Congruent(a % Order, b) /\ Congruent(a % Order, b % Order)
  BY <1>1, CongruentTransitive, OrderIsNat
<1> QED
  BY <1>1, <1>2, CongruentEqual

LEMMA ModOfRange == \A a \in 0 .. Order - 1 : a % Order = a
BY OrderIsNat

LEMMA CongruentInt ==
  ASSUME NEW a \in Int
  PROVE  Congruent(a, a)
<1>1. a = a + Order * 0
  BY OrderIsNat
<1> QED
  BY <1>1 DEF Congruent

LEMMA CongruentTimesOne ==
  ASSUME NEW a \in Int, NEW b \in Int, Congruent(b, 1)
  PROVE  Congruent(a * b, a)
<1>1. PICK y \in Int : b = 1 + Order * y
  BY DEF Congruent
<1>2. a * b = a + Order * (y * a) /\ y * a \in Int
  BY <1>1, OrderIsNat
<1> QED
  BY <1>2 DEF Congruent

\* What is no multiple of the order has an inverse.
LEMMA InverseIs ==
  ASSUME NEW a \in Int, a % Order # 0
  PROVE  InverseOf(a) \in Scalar /\ Congruent(a * InverseOf(a), 1) /\ Congruent(InverseOf(a) * a, 1)
<1>1. a % Order \in Scalar /\ Congruent(a, a % Order)
  BY ModCongruent, OrderIsNat DEF Scalar
<1>2. PICK b \in Scalar : ((a % Order) * b) % Order = 1
  BY <1>1, CurveAssumption
<1>3. b \in Int /\ a % Order \in Int /\ a * b \in Int /\ (a % Order) * b \in Int
  BY <1>1, <1>2 DEF Scalar
<1>4. (a * b) % Order = 1
  <2>1. Congruent(a * b, (a % Order) * b)
    BY <1>1, <1>3, CongruentTimes
  <2> QED
    BY <2>1, <1>2, <1>3, CongruentMod
<1>5. InverseOf(a) \in Scalar /\ (a * InverseOf(a)) % Order = 1
  BY <1>4 DEF InverseOf
<1>6. InverseOf(a) \in Int /\ a * InverseOf(a) \in Int /\ a * InverseOf(a) = InverseOf(a) * a
  BY <1>5 DEF Scalar
<1>7. Congruent(a * InverseOf(a), 1)
  BY <1>5, <1>6, ModCongruent
<1> QED
  BY <1>5, <1>6, <1>7

LEMMA InverseOfScalar ==
  ASSUME NEW a \in Scalar
  PROVE  /\ a \in Int /\ InverseOf(a) \in Int
         /\ Congruent(a * InverseOf(a), 1) /\ Congruent(InverseOf(a) * a, 1)
<1>1. a \in Int /\ a % Order # 0
  BY OrderIsNat DEF Scalar
<1> QED
  BY <1>1, InverseIs DEF Scalar

LEMMA OverIs ==
  ASSUME NEW a \in Int, NEW b \in Int, InverseOf(b) \in Int
  PROVE  /\ Over(a, b) \in 0 .. Order - 1 /\ Over(a, b) \in Int
         /\ Congruent(Over(a, b), a * InverseOf(b))
<1>1. a * InverseOf(b) \in Int
  OBVIOUS
<1> QED
  BY <1>1, ModCongruent DEF Over

-----------------------------------------------------------------------------
\* ECDSA.

\* What verification computes is the nonce k, if k * s is what was signed.
LEMMA VerifyFinds ==
  ASSUME NEW k \in Scalar, NEW s \in Scalar, NEW e \in Int, NEW r \in Int, NEW d \in Int,
         Congruent(k * s, e + r * d)
  PROVE  (Over(e, s) + Over(r, s) * d) % Order = k
<1> DEFINE w == InverseOf(s)
           a == Over(e, s)
           b == Over(r, s)
<1>1. k \in Int /\ s \in Int /\ w \in Int /\ Congruent(s * w, 1)
  BY InverseOfScalar
<1>2. a \in Int /\ b \in Int /\ Congruent(a, e * w) /\ Congruent(b, r * w)
  BY <1>1, OverIs
<1> HIDE DEF a, b, w
<1>3. e * w \in Int /\ r * w \in Int /\ b * d \in Int /\ (r * w) * d \in Int /\ k * s \in Int /\ e + r * d \in Int
      /\ s * w \in Int /\ (e + r * d) * w \in Int /\ (k * s) * w \in Int /\ a + b * d \in Int
  BY <1>1, <1>2
<1>4. Congruent(a + b * d, e * w + (r * w) * d)
  BY <1>1, <1>2, <1>3, CongruentTimes, CongruentSum
<1>5. e * w + (r * w) * d = (e + r * d) * w
  BY <1>1
<1>6. Congruent((e + r * d) * w, (k * s) * w)
  BY <1>1, <1>3, CongruentSymmetric, CongruentTimes
<1>7. (k * s) * w = k * (s * w)
  BY <1>1
<1>8. Congruent(k * (s * w), k)
  BY <1>1, <1>3, CongruentTimesOne
<1>9. Congruent((k * s) * w, k)
  BY <1>7, <1>8
<1>10. Congruent(a + b * d, k)
  BY <1>1, <1>3, <1>4, <1>5, <1>6, <1>9, CongruentTransitive
<1>11. (a + b * d) % Order = k % Order
  BY <1>1, <1>3, <1>10, CongruentMod
<1>12. k % Order = k
  BY ModOfRange DEF Scalar
<1> QED
  BY <1>11, <1>12 DEF a, b

LEMMA VerifyAccepts ==
  ASSUME NEW k \in Scalar, NEW e \in Int, NEW q \in Int, NEW t, t.r \in Scalar, t.s \in Scalar,
         Congruent(k * t.s, e + t.r * q), Coordinates[k].x % Order = t.r
  PROVE  DoVerify(q, e, t)
<1>1. t.r \in Int /\ k # Infinity
  BY DEF Scalar, Infinity
<1>2. (Over(e, t.s) + Over(t.r, t.s) * q) % Order = k
  BY <1>1, VerifyFinds
<1> QED
  BY <1>1, <1>2 DEF DoVerify

\* The signature of a nonce, and the one with the other s, of the opposite nonce.
LEMMA Opposite ==
  ASSUME NEW k \in Scalar, NEW s \in Scalar, NEW n \in Int, Congruent(k * s, n)
  PROVE  /\ Order - k \in Scalar /\ Order - s \in Scalar
         /\ Congruent((Order - k) * (Order - s), n)
         /\ Coordinates[Order - k].x = Coordinates[k].x
<1>1. /\ k \in Int /\ s \in Int /\ Order \in Int /\ Order - k \in Scalar /\ Order - s \in Scalar
      /\ k * s \in Int /\ (Order - k) * (Order - s) \in Int
  BY OrderIsNat DEF Scalar
<1>2. (Order - k) * (Order - s) = k * s + Order * (Order - k - s) /\ Order - k - s \in Int
  BY <1>1
<1>3. Congruent((Order - k) * (Order - s), k * s)
  BY <1>2 DEF Congruent
<1>4. Coordinates[Order - k].x = Coordinates[k].x
  <2>1. Coordinates[Order - k] = [Coordinates[k] EXCEPT !.y = Field - @] /\ Coordinates[k] \in [x : 0 .. Field - 1, y : 0 .. Field - 1]
    BY CurveAssumption
  <2> QED
    BY <2>1
<1> QED
  BY <1>1, <1>3, <1>4, CongruentTransitive

\* What signing makes.
LEMMA SignMakes ==
  ASSUME NEW d \in 0 .. Order - 1, NEW e \in Int, NEW t \in DoSign(d, e)
  PROVE  \E k \in Scalar :
           /\ t = [r |-> t.r, s |-> t.s] /\ t.r \in Scalar /\ t.s \in Scalar
           /\ t.r = Coordinates[k].x % Order
           /\ Congruent(k * t.s, e + t.r * d)
<1>1. PICK k \in Scalar : /\ t = [r |-> Coordinates[k].x % Order,
                                s |-> Over(e + (Coordinates[k].x % Order) * d, k)]
                         /\ t.r # 0 /\ t.s # 0
  BY DEF DoSign
<1> DEFINE v == InverseOf(k)
           n == e + t.r * d
<1>2. Coordinates[k].x \in Int
  BY CurveAssumption
<1>3. t.r = Coordinates[k].x % Order /\ t.r \in 0 .. Order - 1 /\ t.s = Over(n, k)
  BY <1>1, <1>2, ModCongruent
<1>4. k \in Int /\ v \in Int /\ Congruent(v * k, 1) /\ n \in Int
  BY <1>3, InverseOfScalar
<1>5. t.s \in 0 .. Order - 1 /\ t.s \in Int /\ Congruent(t.s, n * v)
  BY <1>3, <1>4, OverIs
<1>6. t.r \in Scalar /\ t.s \in Scalar
  BY <1>1, <1>3, <1>5, OrderIsNat DEF Scalar
<1> HIDE DEF n, v
<1>7. n * v \in Int /\ k * t.s \in Int /\ k * (n * v) \in Int /\ v * k \in Int /\ n * (v * k) \in Int
  BY <1>4, <1>5
<1>8. Congruent(k * t.s, k * (n * v)) /\ Congruent(n * (v * k), n)
  <2>1. Congruent(k * t.s, k * (n * v))
    BY <1>4, <1>5, <1>7, CongruentTimes
  <2>2. Congruent(n * (v * k), n)
    BY <1>4, <1>7, CongruentTimesOne
  <2> QED
    BY <2>1, <2>2
<1>9. k * (n * v) = n * (v * k)
  BY <1>4
<1>10. Congruent(k * t.s, n)
  BY <1>4, <1>7, <1>8, <1>9, CongruentTransitive
<1> QED
  BY <1>1, <1>3, <1>6, <1>10 DEF n

\* The public key that a signature has if R is the point of its nonce.
KeyFrom(e, t, R) == (Over(t.s, t.r) * R + Over(Multiple(0 - e), t.r)) % Order

LEMMA CandidateIs ==
  ASSUME NEW e \in Int, NEW t, t.r \in Scalar, t.s \in Int, NEW R \in Scalar
  PROVE  /\ KeyFrom(e, t, R) \in 0 .. Order - 1
         /\ Congruent(R * t.s, e + t.r * KeyFrom(e, t, R))
<1> DEFINE r == t.r
           s == t.s
           v == InverseOf(t.r)
           a == Over(t.s, t.r)
           m == Multiple(0 - e)
           b == Over(Multiple(0 - e), t.r)
           q == KeyFrom(e, t, R)
<1>1. /\ r \in Int /\ s \in Int /\ R \in Int /\ v \in Int /\ Congruent(v * r, 1)
  BY InverseOfScalar
<1>2. m \in Int /\ Congruent(m, 0 - e)
  <2>1. 0 - e \in Int
    OBVIOUS
  <2> QED
    BY <2>1, ModCongruent DEF Multiple
<1>3. a \in Int /\ b \in Int /\ Congruent(a, s * v) /\ Congruent(b, m * v)
  BY <1>1, <1>2, OverIs
<1>4. a * R + b \in Int
  BY <1>1, <1>3
<1>5. q \in 0 .. Order - 1 /\ q \in Int /\ Congruent(q, a * R + b)
  BY <1>4, ModCongruent DEF KeyFrom
<1> HIDE DEF r, s, v, a, m, b, q
<1>6. /\ r * q \in Int /\ r * (a * R + b) \in Int /\ a * R \in Int /\ (s * v) * R \in Int /\ s * v \in Int /\ m * v \in Int
      /\ (0 - e) * v \in Int /\ (s * v) * R + (0 - e) * v \in Int /\ r * ((s * v) * R + (0 - e) * v) \in Int
      /\ R * s + (0 - e) \in Int /\ (R * s + (0 - e)) * (v * r) \in Int /\ e + r * q \in Int /\ R * s \in Int /\ v * r \in Int
      /\ 0 - e \in Int
  BY <1>1, <1>2, <1>3, <1>4, <1>5
<1>7. Congruent(a * R, (s * v) * R)
  BY <1>1, <1>3, <1>6, CongruentTimes
<1>8. Congruent(m * v, (0 - e) * v)
  BY <1>1, <1>2, <1>6, CongruentTimes
<1>9. Congruent(b, (0 - e) * v)
  BY <1>3, <1>6, <1>8, CongruentTransitive
<1>10. Congruent(a * R + b, (s * v) * R + (0 - e) * v)
  BY <1>3, <1>6, <1>7, <1>9, CongruentSum
<1>11. Congruent(q, (s * v) * R + (0 - e) * v)
  BY <1>4, <1>5, <1>6, <1>10, CongruentTransitive
<1>12. Congruent(r * q, r * ((s * v) * R + (0 - e) * v))
  BY <1>1, <1>5, <1>6, <1>11, CongruentTimes
<1>13. r * ((s * v) * R + (0 - e) * v) = (R * s + (0 - e)) * (v * r)
  BY <1>1
<1>14. Congruent((R * s + (0 - e)) * (v * r), R * s + (0 - e))
  BY <1>1, <1>6, CongruentTimesOne
<1>15. Congruent(r * q, R * s + (0 - e))
  BY <1>6, <1>12, <1>13, <1>14, CongruentTransitive
<1>16. PICK z \in Int : r * q = (R * s + (0 - e)) + Order * z
  BY <1>15 DEF Congruent
<1>17. R * s = (e + r * q) + Order * (-z) /\ -z \in Int
  BY <1>16, <1>6, OrderIsNat
<1>18. Congruent(R * s, e + r * q)
  BY <1>17 DEF Congruent
<1> QED
  BY <1>5, <1>18 DEF q, r, s

\* There is one such key.
LEMMA CandidateUnique ==
  ASSUME NEW e \in Int, NEW r \in Scalar, NEW n \in Int, NEW p \in 0 .. Order - 1, NEW q \in 0 .. Order - 1,
         Congruent(n, e + r * p), Congruent(n, e + r * q)
  PROVE  p = q
<1> DEFINE v == InverseOf(r)
<1>1. r \in Int /\ v \in Int /\ Congruent(v * r, 1) /\ p \in Int /\ q \in Int /\ Order \in Int
  BY InverseOfScalar, OrderIsNat
<1> HIDE DEF v
<1>2. PICK y \in Int : n = (e + r * p) + Order * y
  BY DEF Congruent
<1>3. PICK z \in Int : n = (e + r * q) + Order * z
  BY DEF Congruent
<1>4. p * (v * r) = q * (v * r) + Order * (v * (z - y)) /\ v * (z - y) \in Int
  <2>1. r * p = r * q + Order * (z - y)
    BY <1>1, <1>2, <1>3
  <2>2. v * (r * p) = v * (r * q + Order * (z - y))
    BY <2>1
  <2>3. v * (r * p) = p * (v * r)
    BY <1>1
  <2>4. v * (r * q + Order * (z - y)) = q * (v * r) + Order * (v * (z - y))
    BY <1>1
  <2> QED
    BY <1>1, <2>2, <2>3, <2>4
<1>5. p * (v * r) \in Int /\ q * (v * r) \in Int /\ v * r \in Int
  BY <1>1
<1>6. Congruent(p * (v * r), q * (v * r))
  BY <1>4 DEF Congruent
<1>7. Congruent(p * (v * r), p) /\ Congruent(q * (v * r), q)
  BY <1>1, <1>5, CongruentTimesOne
<1>8. Congruent(p, q)
  BY <1>1, <1>5, <1>6, <1>7, CongruentSymmetric, CongruentTransitive
<1> QED
  BY <1>8, CongruentEqual

-----------------------------------------------------------------------------
\* Points and their bytes.

LEMMA PointIs ==
  ASSUME NEW q \in Scalar
  PROVE  /\ Coordinates[q] = [x |-> Coordinates[q].x, y |-> Coordinates[q].y]
         /\ Coordinates[q].x \in 0 .. Field - 1 /\ Coordinates[q].y \in 0 .. Field - 1
         /\ Coordinates[q].x \in Bytes32 /\ Coordinates[q].y \in Bytes32
         /\ Coordinates[q].y % 2 \in {0, 1}
<1>1. Coordinates[q] \in [x : 0 .. Field - 1, y : 0 .. Field - 1]
  BY CurveAssumption
<1>2. 0 .. Field - 1 \subseteq Bytes32
  BY CurveAssumption DEF Bytes32
<1> QED
  BY <1>1, <1>2

\* Of the two points of an abscissa one ordinate is even.
LEMMA PointOf ==
  ASSUME NEW p \in Scalar, NEW q \in Scalar, Coordinates[p].x = Coordinates[q].x,
         Coordinates[p].y % 2 = Coordinates[q].y % 2
  PROVE  p = q
<1> SUFFICES ASSUME p # q PROVE FALSE
  OBVIOUS
<1>1. p = Order - q
  BY CurveAssumption
<1>2. Coordinates[p] = [Coordinates[q] EXCEPT !.y = Field - @]
  BY <1>1, CurveAssumption
<1>3. Coordinates[p].y = Field - Coordinates[q].y
  BY <1>2, PointIs
<1>4. Coordinates[q].y \in Int /\ Field \in Int /\ Field % 2 = 1
  BY PointIs, CurveAssumption
<1>5. \A y \in Int, f \in Int : f % 2 = 1 => (f - y) % 2 # y % 2
  OBVIOUS
<1> QED
  BY <1>3, <1>4, <1>5

LEMMA AtAbscissaIs ==
  ASSUME NEW q \in Scalar, NEW x, NEW odd, q \in AtAbscissa(x, odd)
  PROVE  AtAbscissa(x, odd) = {q}
BY PointOf DEF AtAbscissa

-----------------------------------------------------------------------------
\* Recovery.

\* A candidate gives one key, of a point that has the abscissa of the signature.
LEMMA RecoveredIs ==
  ASSUME NEW e \in Int, NEW t, t.r \in Scalar, NEW i \in 0 .. 3, NEW q \in Recovered(e, t, i)
  PROVE  /\ Recovered(e, t, i) = {q}
         /\ \E R \in Scalar : Coordinates[R].x % Order = t.r /\ q = KeyFrom(e, t, R)
<1> DEFINE x == t.r + Order * (i \div 2)
           points == AtAbscissa(x, i % 2)
<1>1. t.r \in Int /\ t.r % Order = t.r /\ t.r # 0
  BY ModOfRange, OrderIsNat DEF Scalar
<1>2. /\ x < Field
      /\ Recovered(e, t, i) = {KeyFrom(e, t, p) : p \in points}
  <2>1. i \div 2 \in Int /\ x \in Int /\ Field \in Int
    BY <1>1, CurveAssumption
  <2>2. Recovered(e, t, i) = {KeyFrom(e, t, p) : p \in IF x >= Field THEN {} ELSE points}
    BY <1>1, Zenon DEF Recovered, KeyFrom
  <2> HIDE DEF x, points
  <2>3. ~(x >= Field)
    BY <2>2
  <2> QED
    BY <2>1, <2>2, <2>3
<1>3. PICK R \in points : q = KeyFrom(e, t, R)
  BY <1>2
<1>4. R \in Scalar /\ Coordinates[R].x = x
  BY DEF AtAbscissa
<1>5. points = {R}
  BY <1>4, AtAbscissaIs
<1>6. x % Order = t.r
  <2>1. i \div 2 \in Int
    OBVIOUS
  <2>2. x \in Int
    BY <1>1, <2>1, OrderIsNat
  <2>3. Congruent(x, t.r)
    BY <2>1 DEF Congruent
  <2> QED
    BY <1>1, <2>2, <2>3, CongruentMod
<1> QED
  BY <1>2, <1>3, <1>4, <1>5, <1>6

\* Each point of a signature is one of the four candidates.
LEMMA RecoveredHas ==
  ASSUME NEW e \in Int, NEW t, t.r \in Scalar, NEW R \in Scalar, Coordinates[R].x % Order = t.r
  PROVE  \E i \in 0 .. 3 : KeyFrom(e, t, R) \in Recovered(e, t, i)
<1> DEFINE x == Coordinates[R].x
           odd == Coordinates[R].y % 2
           high == IF x < Order THEN 0 ELSE 1
           i == 2 * high + odd
<1>1. t.r \in Int /\ t.r % Order = t.r /\ t.r # 0
  BY ModOfRange, OrderIsNat DEF Scalar
<1>2. x \in 0 .. Field - 1 /\ odd \in {0, 1}
  BY PointIs
<1>3. x = t.r + Order * high
  <2>1. CASE x < Order
    BY <1>2, <2>1, ModOfRange, OrderIsNat
  <2>2. CASE x >= Order
    <3>1. x - Order \in 0 .. Order - 1
      BY <1>2, <2>2, CurveAssumption
    <3>2. x = (x - Order) + Order * 1 /\ x \in Int /\ x - Order \in Int
      BY <1>2, OrderIsNat
    <3>3. Congruent(x, x - Order)
      BY <3>2 DEF Congruent
    <3>4. x % Order = (x - Order) % Order
      BY <3>2, <3>3, CongruentMod
    <3>5. x % Order = x - Order
      BY <3>1, <3>4, ModOfRange
    <3> QED
      BY <1>2, <2>2, <3>5, OrderIsNat
  <2> QED
    BY <1>2, <2>1, <2>2, OrderIsNat
<1>4. i \in 0 .. 3 /\ i \div 2 = high /\ i % 2 = odd
  BY <1>2
<1> HIDE DEF x, odd, high, i
<1>5. R \in AtAbscissa(t.r + Order * (i \div 2), i % 2)
  BY <1>3, <1>4 DEF AtAbscissa, x, odd
<1>6. t.r + Order * (i \div 2) < Field
  BY <1>2, <1>3, <1>4, CurveAssumption
<1>7. KeyFrom(e, t, R) \in Recovered(e, t, i)
  <2> DEFINE y == t.r + Order * (i \div 2)
             points == IF y >= Field THEN {} ELSE AtAbscissa(y, i % 2)
  <2>1. Recovered(e, t, i) = {KeyFrom(e, t, p) : p \in points}
    BY <1>1, Zenon DEF Recovered, KeyFrom
  <2>2. y \in Int /\ Field \in Int
    BY <1>1, <1>4, OrderIsNat, CurveAssumption
  <2>3. R \in points
    <3> HIDE DEF y
    <3> QED
      BY <1>5, <1>6, <2>2 DEF y
  <2> QED
    BY <2>1, <2>3
<1> QED
  BY <1>4, <1>7

\* What signing writes in the header: the first candidate that gives the key.
LEMMA RecIdIs ==
  ASSUME NEW vch \in Scalar, NEW e \in Int, NEW t \in DoSign(SetSecretBytes(vch), e)
  PROVE  /\ RecId(vch, e, t) \in 0 .. 3
         /\ Recovered(e, t, RecId(vch, e, t)) = {vch}
<1> DEFINE Gives(i) == vch \in Recovered(e, t, i)
<1>1. SetSecretBytes(vch) = vch /\ vch \in 0 .. Order - 1
  BY ModOfRange DEF Scalar, SetSecretBytes, Multiple
<1>2. PICK k \in Scalar : /\ t.r \in Scalar /\ t.s \in Scalar
                         /\ t.r = Coordinates[k].x % Order
                         /\ Congruent(k * t.s, e + t.r * vch)
  BY <1>1, SignMakes
<1>3. vch = KeyFrom(e, t, k)
  <2>1. t.s \in Int /\ k * t.s \in Int
    BY <1>2 DEF Scalar
  <2>2. KeyFrom(e, t, k) \in 0 .. Order - 1 /\ Congruent(k * t.s, e + t.r * KeyFrom(e, t, k))
    BY <1>2, <2>1, CandidateIs
  <2> QED
    BY <1>1, <1>2, <2>1, <2>2, CandidateUnique
<1>4. PICK i \in 0 .. 3 : Gives(i)
  BY <1>2, <1>3, RecoveredHas
<1>5. \E n \in 0 .. 3 : Gives(n) /\ \A j \in 0 .. n - 1 : ~Gives(j)
  <2>1. CASE Gives(0)
    BY <2>1
  <2>2. CASE ~Gives(0) /\ Gives(1)
    BY <2>2
  <2>3. CASE ~Gives(0) /\ ~Gives(1) /\ Gives(2)
    BY <2>3
  <2>4. CASE ~Gives(0) /\ ~Gives(1) /\ ~Gives(2) /\ Gives(3)
    BY <2>4
  <2> QED
    BY <1>4, <2>1, <2>2, <2>3, <2>4
<1>6. RecId(vch, e, t) \in 0 .. 3 /\ Gives(RecId(vch, e, t))
  BY <1>1, <1>5 DEF RecId
<1> QED
  BY <1>2, <1>6, RecoveredIs

-----------------------------------------------------------------------------
\* The bytes of public keys.

PubType == [header : 0 .. 255, x : Defined(Bytes32), y : Defined(Bytes32)]
VectorType == [len : Nat, header : 0 .. 255, x : Bytes32, y : Bytes32]
\* What a public key in use always is: its abscissa was written.
SoundPub(pub) == pub \in PubType /\ (IsValid(pub) => pub.x \in Bytes32)

\* Headers and the predicates of public keys.
LEMMA HeaderSays ==
  ASSUME NEW pub
  PROVE  /\ IsValid(pub) <=> pub.header \in {2, 3, 4, 6, 7}
         /\ IsCompressed(pub) <=> pub.header \in {2, 3}
         /\ Size(pub) = 65 <=> pub.header \in {4, 6, 7}
         /\ IsValid(pub) \in BOOLEAN /\ IsCompressed(pub) \in BOOLEAN
<1>1. /\ IsValid(pub) <=> GetLen(pub.header) > 0
      /\ IsCompressed(pub) <=> GetLen(pub.header) = 33
      /\ Size(pub) = 65 <=> GetLen(pub.header) = 65
  BY DEF IsValid, IsCompressed, Size
<1>2. IsValid(pub) \in BOOLEAN /\ IsCompressed(pub) \in BOOLEAN
  BY DEF IsValid, IsCompressed
<1>3. /\ GetLen(pub.header) = 33 <=> pub.header \in {2, 3}
      /\ GetLen(pub.header) = 65 <=> pub.header \in {4, 6, 7}
      /\ GetLen(pub.header) > 0 <=> pub.header \in {2, 3, 4, 6, 7}
  BY DEF GetLen
<1> HIDE DEF IsValid, IsCompressed, Size
<1> QED
  BY <1>1, <1>2, <1>3

LEMMA InvalidateIs ==
  ASSUME NEW pub \in PubType
  PROVE  /\ Invalidate(pub) = [header |-> 255, x |-> pub.x, y |-> pub.y]
         /\ SoundPub(Invalidate(pub)) /\ ~IsValid(Invalidate(pub))
<1>1. Invalidate(pub) = [header |-> 255, x |-> pub.x, y |-> pub.y]
  BY DEF Invalidate, InvalidHeader, PubType
<1>2. ~IsValid(Invalidate(pub))
  BY <1>1, HeaderSays
<1>3. Invalidate(pub) \in PubType
  BY <1>1 DEF PubType
<1> QED
  BY <1>1, <1>2, <1>3 DEF SoundPub

LEMMA CopiedSound ==
  ASSUME NEW pub, SoundPub(pub), NEW v \in VectorType
  PROVE  SoundPub(Copied(pub, v))
<1>1. CASE v.len = 0
  BY <1>1 DEF Copied
<1>2. CASE v.len # 0
  <2> DEFINE new == [header |-> v.header, x |-> v.x, y |-> IF v.len <= 33 THEN pub.y ELSE v.y]
  <2>1. Copied(pub, v) = new
    BY <1>2 DEF Copied
  <2>2. new \in PubType /\ new.x \in Bytes32
    BY DEF VectorType, PubType, SoundPub, Defined
  <2> QED
    BY <2>1, <2>2 DEF SoundPub
<1> QED
  BY <1>1, <1>2

LEMMA SetSound ==
  ASSUME NEW pub, SoundPub(pub), NEW v \in VectorType
  PROVE  SoundPub(Set(pub, v)) /\ SoundPub(Unserialize(pub, v))
<1>1. SoundPub(Invalidate(pub))
  BY InvalidateIs DEF SoundPub
<1>2. SoundPub(Copied(pub, v))
  BY CopiedSound
<1> QED
  BY <1>1, <1>2 DEF Set, Unserialize

LEMMA NewPubSound == SoundPub(NewPub) /\ ~IsValid(NewPub)
<1>1. NewPub.header = 255
  BY DEF NewPub, InvalidHeader
<1>2. ~IsValid(NewPub)
  BY <1>1, HeaderSays
<1>3. NewPub \in PubType
  BY DEF NewPub, InvalidHeader, PubType, Defined
<1> QED
  BY <1>2, <1>3 DEF SoundPub

\* A point in either form.
LEMMA FormIs ==
  ASSUME NEW q \in Scalar, NEW pub
  PROVE  /\ GetPubKey(q, pub, TRUE) =
               [header |-> 2 + (Coordinates[q].y % 2), x |-> Coordinates[q].x, y |-> pub.y]
         /\ GetPubKey(q, pub, FALSE) =
               [header |-> 4, x |-> Coordinates[q].x, y |-> Coordinates[q].y]
<1>1. q # Infinity /\ Coordinates[q].y % 2 \in {0, 1}
  <2>1. q # Infinity
    BY DEF Scalar, Infinity
  <2> QED
    BY <2>1, PointIs
<1>2. Encoded(q, TRUE) = Vector(33, 2 + (Coordinates[q].y % 2), Coordinates[q].x, 0)
  BY <1>1 DEF Encoded
<1>3. Encoded(q, FALSE) = Vector(65, 4, Coordinates[q].x, Coordinates[q].y)
  BY <1>1 DEF Encoded
<1>4. 33 = GetLen(2 + (Coordinates[q].y % 2)) /\ 65 = GetLen(4)
  <2>1. 2 + (Coordinates[q].y % 2) \in {2, 3} /\ 4 \in {4, 6, 7}
    BY <1>1
  <2> QED
    BY <2>1 DEF GetLen
<1>5. \A h, x, y, len : len \in {33, 65} /\ len = GetLen(h) =>
        Set(pub, Vector(len, h, x, y)) = [header |-> h, x |-> x, y |-> IF len = 33 THEN pub.y ELSE y]
  BY DEF Set, Copied, Vector
<1>6. GetPubKey(q, pub, TRUE) = Set(pub, Vector(33, 2 + (Coordinates[q].y % 2), Coordinates[q].x, 0))
  BY <1>2 DEF GetPubKey
<1>7. GetPubKey(q, pub, FALSE) = Set(pub, Vector(65, 4, Coordinates[q].x, Coordinates[q].y))
  BY <1>3 DEF GetPubKey
<1>8. Set(pub, Vector(33, 2 + (Coordinates[q].y % 2), Coordinates[q].x, 0)) =
        [header |-> 2 + (Coordinates[q].y % 2), x |-> Coordinates[q].x, y |-> pub.y]
  BY <1>4, <1>5
<1>9. Set(pub, Vector(65, 4, Coordinates[q].x, Coordinates[q].y)) =
        [header |-> 4, x |-> Coordinates[q].x, y |-> Coordinates[q].y]
  BY <1>4, <1>5
<1> QED
  BY <1>6, <1>7, <1>8, <1>9

\* One point comes back from each.
LEMMA FormGivesBack ==
  ASSUME NEW q \in Scalar, NEW pub, NEW fCompressed \in BOOLEAN
  PROVE  /\ SetPubKey(GetPubKey(q, pub, fCompressed)) = {q}
         /\ IsValid(GetPubKey(q, pub, fCompressed))
         /\ IsCompressed(GetPubKey(q, pub, fCompressed)) = fCompressed
<1> DEFINE new == GetPubKey(q, pub, fCompressed)
<1>1. Coordinates[q].y % 2 \in {0, 1}
  BY PointIs
<1>2. CASE fCompressed
  <2>1. new = [header |-> 2 + (Coordinates[q].y % 2), x |-> Coordinates[q].x, y |-> pub.y]
    BY <1>2, FormIs
  <2>2. /\ new.x = Coordinates[q].x /\ new.header - 2 = Coordinates[q].y % 2
        /\ new.header \in {2, 3}
    BY <1>1, <2>1
  <2> HIDE DEF new
  <2>3. IsValid(new) /\ IsCompressed(new)
    BY <2>2, HeaderSays
  <2>4. q \in AtAbscissa(new.x, new.header - 2)
    BY <2>2 DEF AtAbscissa
  <2>5. SetPubKey(new) = {q}
    BY <2>3, <2>4, AtAbscissaIs DEF SetPubKey
  <2> QED
    BY <1>2, <2>3, <2>5 DEF new
<1>3. CASE ~fCompressed
  <2>1. new = [header |-> 4, x |-> Coordinates[q].x, y |-> Coordinates[q].y]
    BY <1>3, FormIs
  <2>2. new.x = Coordinates[q].x /\ new.y = Coordinates[q].y /\ new.header = 4
    BY <2>1
  <2> HIDE DEF new
  <2>3. IsValid(new) /\ ~IsCompressed(new) /\ Size(new) = 65
    BY <2>2, HeaderSays
  <2>4. SetPubKey(new) = {p \in Scalar : Coordinates[p] = [x |-> new.x, y |-> new.y]}
    BY <2>2, <2>3 DEF SetPubKey
  <2>5. \A p \in Scalar : Coordinates[p] = [x |-> new.x, y |-> new.y] => p = q
    <3> TAKE p \in Scalar
    <3> HAVE Coordinates[p] = [x |-> new.x, y |-> new.y]
    <3>1. Coordinates[p].x = Coordinates[q].x /\ Coordinates[p].y = Coordinates[q].y
      BY <2>2
    <3> QED
      BY <3>1, PointOf
  <2>6. Coordinates[q] = [x |-> new.x, y |-> new.y]
    BY <2>2, PointIs
  <2>7. SetPubKey(new) = {q}
    BY <2>4, <2>5, <2>6
  <2>8. IsCompressed(new) = fCompressed
    BY <1>3, <2>3, HeaderSays
  <2> QED
    BY <2>3, <2>7, <2>8 DEF new
<1> QED
  BY <1>2, <1>3

\* No public key stands for two points.
LEMMA SetPubKeyIs ==
  ASSUME NEW pub, NEW q \in SetPubKey(pub)
  PROVE  q \in Scalar /\ SetPubKey(pub) = {q}
<1>1. CASE IsCompressed(pub)
  <2>1. SetPubKey(pub) = AtAbscissa(pub.x, pub.header - 2)
    BY <1>1 DEF SetPubKey
  <2>2. q \in Scalar
    BY <2>1 DEF AtAbscissa
  <2> QED
    BY <2>1, <2>2, AtAbscissaIs
<1>2. CASE ~IsCompressed(pub)
  <2>1. \A p \in SetPubKey(pub) : p \in Scalar /\ Coordinates[p] = [x |-> pub.x, y |-> pub.y]
    BY <1>2 DEF SetPubKey
  <2>2. \A p \in SetPubKey(pub) : p = q
    <3> TAKE p \in SetPubKey(pub)
    <3>1. Coordinates[p].x = Coordinates[q].x /\ Coordinates[p].y = Coordinates[q].y
      BY <2>1
    <3> QED
      BY <2>1, <3>1, PointOf
  <2> QED
    BY <2>1, <2>2
<1> QED
  BY <1>1, <1>2

\* OpenSSL's bytes of a point, or of infinity, make a public key or none.
LEMMA GetPubKeySound ==
  ASSUME NEW q \in 0 .. Order - 1, NEW pub, SoundPub(pub), NEW fCompressed \in BOOLEAN
  PROVE  /\ SoundPub(GetPubKey(q, pub, fCompressed))
         /\ q = Infinity => ~IsValid(GetPubKey(q, pub, fCompressed))
<1>1. CASE q = Infinity
  <2>1. Encoded(q, fCompressed) = Vector(1, 0, 0, 0)
    BY <1>1 DEF Encoded
  <2>2. GetLen(0) = 0
    BY DEF GetLen
  <2>3. GetPubKey(q, pub, fCompressed) = Invalidate(pub)
    BY <2>1, <2>2 DEF GetPubKey, Set, Vector
  <2> QED
    BY <2>3, InvalidateIs DEF SoundPub
<1>2. CASE q # Infinity
  <2>1. q \in Scalar
    BY <1>2, OrderIsNat DEF Scalar, Infinity
  <2>2. /\ Coordinates[q].x \in Bytes32 /\ Coordinates[q].y \in Bytes32
        /\ Coordinates[q].y % 2 \in {0, 1}
    BY <2>1, PointIs
  <2>3. \A h \in 0 .. 255, x \in Bytes32, y \in Defined(Bytes32) :
          SoundPub([header |-> h, x |-> x, y |-> y])
    BY DEF SoundPub, PubType, Defined
  <2>4. 2 + (Coordinates[q].y % 2) \in 0 .. 255 /\ 4 \in 0 .. 255
    BY <2>2
  <2>5. pub.y \in Defined(Bytes32) /\ Coordinates[q].y \in Defined(Bytes32)
    BY <2>2 DEF SoundPub, PubType, Defined
  <2>6. SoundPub(GetPubKey(q, pub, TRUE)) /\ SoundPub(GetPubKey(q, pub, FALSE))
    <3>1. GetPubKey(q, pub, TRUE) = [header |-> 2 + (Coordinates[q].y % 2), x |-> Coordinates[q].x, y |-> pub.y]
      BY <2>1, FormIs
    <3>2. GetPubKey(q, pub, FALSE) = [header |-> 4, x |-> Coordinates[q].x, y |-> Coordinates[q].y]
      BY <2>1, FormIs
    <3> QED
      BY <3>1, <3>2, <2>2, <2>3, <2>4, <2>5
  <2> QED
    BY <1>2, <2>6
<1> QED
  BY <1>1, <1>2

-----------------------------------------------------------------------------
\* Child numbers and their bytes.

LEMMA DivUnique ==
  ASSUME NEW n \in Nat, NEW d \in Nat \ {0}, NEW q \in Nat, NEW r \in 0 .. d - 1, n = d * q + r
  PROVE  n \div d = q /\ n % d = r
<1> DEFINE p == n \div d
           m == n % d
<1>1. p \in Int /\ m \in 0 .. d - 1 /\ n = d * p + m
  OBVIOUS
<1> HIDE DEF p, m
<1>2. CASE p >= q + 1
  <2>1. d * p >= d * (q + 1)
    BY <1>1, <1>2
  <2>2. d * (q + 1) = d * q + d
    OBVIOUS
  <2> QED
    BY <1>1, <2>1, <2>2
<1>3. CASE p <= q - 1
  <2>1. d * p <= d * (q - 1)
    BY <1>1, <1>3
  <2>2. d * (q - 1) = d * q - d
    OBVIOUS
  <2> QED
    BY <1>1, <2>1, <2>2
<1>4. CASE p = q
  BY <1>1, <1>4 DEF p, m
<1> QED
  BY <1>1, <1>2, <1>3, <1>4

LEMMA DivIs ==
  ASSUME NEW n \in Nat, NEW d \in Nat \ {0}
  PROVE  n \div d \in Nat /\ n % d \in 0 .. d - 1 /\ n = d * (n \div d) + (n % d)
<1>1. /\ n \div d \in Int
      /\ n % d \in 0 .. d - 1
      /\ n = d * (n \div d) + (n % d)
  <2>1. n \div d \in Int
    OBVIOUS
  <2>2. n % d \in 0 .. d - 1
    OBVIOUS
  <2>3. n = d * (n \div d) + (n % d)
    OBVIOUS
  <2> QED
    BY ONLY <2>1, <2>2, <2>3, Zenon
<1>2. \A p \in Int, m \in 0 .. d - 1 : n = d * p + m => p \in Nat
  <2> TAKE p \in Int, m \in 0 .. d - 1
  <2> HAVE n = d * p + m
  <2>1. CASE p <= -1
    <3>1. d * p <= d * (-1)
      BY <2>1
    <3> QED
      BY <3>1
  <2> QED
    BY <2>1
<1>3. n \div d \in Nat
  BY <1>1, <1>2, Zenon
<1> QED
  BY ONLY <1>1, <1>3, Zenon

LEMMA DivDiv ==
  ASSUME NEW n \in Nat, NEW b \in Nat \ {0}, NEW c \in Nat \ {0}
  PROVE  n \div (b * c) = (n \div b) \div c
<1> DEFINE q == n \div b
           r == n % b
           p == q \div c
           m == q % c
<1>1. q \in Nat /\ r \in 0 .. b - 1 /\ n = b * q + r
  BY DivIs
<1>2. p \in Nat /\ m \in 0 .. c - 1 /\ q = c * p + m
  BY <1>1, DivIs
<1> HIDE DEF q, r, p, m
<1>3. n = (b * c) * p + (b * m + r)
  <2>1. b * q = b * (c * p + m)
    BY <1>2
  <2>2. b * (c * p + m) = (b * c) * p + b * m
    BY <1>2
  <2> QED
    BY <1>1, <1>2, <2>1, <2>2
<1>4. b * m + r \in 0 .. b * c - 1
  <2>1. b * m <= b * (c - 1) /\ b * m \in Nat
    BY <1>2
  <2>2. b * (c - 1) = b * c - b
    OBVIOUS
  <2> QED
    BY <1>1, <1>2, <2>1, <2>2
<1>5. b * c \in Nat \ {0}
  OBVIOUS
<1>6. n \div (b * c) = p
  BY <1>2, <1>3, <1>4, <1>5, DivUnique
<1> QED
  BY <1>6 DEF p, q

LEMMA DigitIsNat == Digit \in Nat \ {0}
BY HashAssumption

LEMMA WeightIs ==
  /\ Weight[1] = Digit * Digit * Digit /\ Weight[2] = Digit * Digit
  /\ Weight[3] = Digit /\ Weight[4] = 1
BY DEF Weight

\* Four bytes are a child number.
LEMMA BytesAreChild ==
  ASSUME NEW b \in [1 .. 4 -> 0 .. Digit - 1]
  PROVE  FromBigEndian(b) \in ChildNumbers
<1> DEFINE D == Digit
           E == D * D
           F == D * D * D
<1>1. D \in Nat \ {0} /\ E \in Nat /\ F \in Nat
  BY DigitIsNat
<1>2. b[1] \in 0 .. D - 1 /\ b[2] \in 0 .. D - 1 /\ b[3] \in 0 .. D - 1 /\ b[4] \in 0 .. D - 1
  OBVIOUS
<1>3. FromBigEndian(b) = b[1] * F + b[2] * E + b[3] * D + b[4]
  BY <1>1, <1>2, WeightIs DEF FromBigEndian
<1>4. ChildNumbers = 0 .. D * F - 1
  BY WeightIs DEF ChildNumbers
<1>5. D * E = F
  BY <1>1
<1>6. D * D = E
  OBVIOUS
<1> HIDE DEF D, E, F
<1>7. b[1] * F <= (D - 1) * F /\ b[2] * E <= (D - 1) * E /\ b[3] * D <= (D - 1) * D
  BY <1>1, <1>2
<1>8. (D - 1) * F = D * F - F /\ (D - 1) * E = F - E /\ (D - 1) * D = E - D
  BY <1>1, <1>5, <1>6
<1>9. b[1] * F \in Nat /\ b[2] * E \in Nat /\ b[3] * D \in Nat /\ D * F \in Nat
  BY <1>1, <1>2
<1>10. /\ FromBigEndian(b) \in Nat
       /\ FromBigEndian(b) <= (D * F - F) + (F - E) + (E - D) + (D - 1)
  <2> DEFINE t1 == b[1] * F
             t2 == b[2] * E
             t3 == b[3] * D
  <2>1. t1 \in Nat /\ t2 \in Nat /\ t3 \in Nat /\ t1 <= D * F - F /\ t2 <= F - E /\ t3 <= E - D
    BY <1>7, <1>8, <1>9
  <2>2. FromBigEndian(b) = t1 + t2 + t3 + b[4]
    BY <1>3
  <2> HIDE DEF t1, t2, t3
  <2> QED
    BY <1>1, <1>2, <1>9, <2>1, <2>2
<1>11. (D * F - F) + (F - E) + (E - D) + (D - 1) = D * F - 1
  BY <1>1, <1>9
<1> QED
  BY <1>4, <1>9, <1>10, <1>11

\* A child number comes back from its bytes.
LEMMA BytesGiveBack ==
  ASSUME NEW n \in ChildNumbers
  PROVE  FromBigEndian(BigEndian(n)) = n
<1> DEFINE D == Digit
           F == D * D * D
           n1 == n \div D
           n2 == n1 \div D
           n3 == n2 \div D
           c0 == n % D
           c1 == n1 % D
           c2 == n2 % D
<1>1. D \in Nat \ {0} /\ n \in Nat /\ n < D * F
  BY DigitIsNat, WeightIs DEF ChildNumbers
<1>2. n1 \in Nat /\ n2 \in Nat /\ n3 \in Nat
  BY <1>1, DivIs
<1>3. /\ c0 \in 0 .. D - 1 /\ c1 \in 0 .. D - 1 /\ c2 \in 0 .. D - 1
      /\ n = D * n1 + c0 /\ n1 = D * n2 + c1 /\ n2 = D * n3 + c2
  BY <1>1, <1>2, DivIs
<1>4. n \div (D * D) = n2 /\ n \div F = n3 /\ n \div 1 = n
  <2>1. n \div (D * D) = n2
    BY <1>1, DivDiv
  <2>2. D * D \in Nat \ {0}
    BY <1>1
  <2>3. n \div ((D * D) * D) = (n \div (D * D)) \div D
    BY <1>1, <2>2, DivDiv
  <2> QED
    BY <1>1, <2>1, <2>3
<1>5. BigEndian(n) = [i \in 1 .. 4 |-> (n \div Weight[i]) % D]
  BY DEF BigEndian
<1>6. /\ BigEndian(n)[1] = n3 % D /\ BigEndian(n)[2] = n2 % D
      /\ BigEndian(n)[3] = n1 % D /\ BigEndian(n)[4] = n % D
  BY <1>4, <1>5, WeightIs
<1>7. FromBigEndian(BigEndian(n)) = (n3 % D) * F + (n2 % D) * (D * D) + (n1 % D) * D + (n % D) * 1
  BY <1>6, WeightIs DEF FromBigEndian
<1> HIDE DEF n1, n2, n3, c0, c1, c2
<1>8. n = D * (D * (D * n3 + c2) + c1) + c0
  <2>1. n = D * n1 + c0 /\ n1 = D * n2 + c1 /\ n2 = D * n3 + c2
    BY <1>3
  <2> QED
    BY <2>1
<1>9. n3 < D
  <2> SUFFICES ASSUME n3 >= D PROVE FALSE
    BY <1>1, <1>2
  <2>1. n1 >= D * n2 /\ n >= D * n1 /\ n2 >= D * n3
    <3>1. \A a \in Nat, b \in Nat, c \in 0 .. D - 1 : a = D * b + c => a >= D * b
      BY <1>1
    <3> QED
      BY <1>1, <1>2, <1>3, <3>1
  <2>2. D * n3 >= D * D
    BY <1>1, <1>2
  <2>3. n2 >= D * D
    BY <1>1, <1>2, <2>1, <2>2
  <2>4. D * n2 >= D * (D * D)
    BY <1>1, <1>2, <2>3
  <2>5. n1 >= D * (D * D)
    BY <1>1, <1>2, <2>1, <2>4
  <2>6. D * n1 >= D * (D * (D * D))
    BY <1>1, <1>2, <2>5
  <2>7. D * (D * (D * D)) = D * F
    BY <1>1
  <2> QED
    BY <1>1, <1>2, <2>1, <2>6, <2>7
<1>10. n3 % D = n3
  BY <1>1, <1>2, <1>9
<1>11. c0 \in Int /\ c1 \in Int /\ c2 \in Int
  BY <1>1, <1>3
<1>12. D * (D * (D * n3 + c2) + c1) + c0 = n3 * F + c2 * (D * D) + c1 * D + c0 * 1
  BY <1>1, <1>2, <1>11
<1> QED
  BY <1>7, <1>8, <1>10, <1>12 DEF c0, c1, c2

-----------------------------------------------------------------------------
\* The members.

KeyType == [fValid : BOOLEAN, fCompressed : Defined(BOOLEAN), vch : Defined(Bytes32)]
SigType == [der : BOOLEAN, header : 0 .. 255, r : Bytes32, s : Bytes32]
PrivKeyType == [parses : BOOLEAN, secret : Bytes32, point : 0 .. Order - 1]
\* What a private key always is: valid, it knows its form and its secret, and
\* the secret is in range unless a check was skipped.
SoundKey(k, unchecked) ==
  /\ k \in KeyType
  /\ k.fValid => /\ k.fCompressed \in BOOLEAN /\ k.vch \in Bytes32
                 /\ unchecked \/ k.vch \in Scalar

Members ==
  /\ place \in PlaceType /\ pubPlace \in PlaceType
  /\ SoundKey(key, skipped) /\ SoundPub(pubkey)
  /\ sig \in SigType /\ hash \in Bytes32 /\ skipped \in BOOLEAN
  /\ op \in [name : {"none", "Load", "Sign", "SignCompact", "RecoverCompact"}, ret : BOOLEAN]

LEMMA ScalarsAreBytes == Scalar \subseteq Bytes32 /\ 0 .. Order - 1 \subseteq Bytes32
<1>1. Order \in Nat /\ MaxBytes \in Nat /\ Order <= MaxBytes
  BY CurveAssumption
<1> QED
  BY <1>1 DEF Scalar, Bytes32

LEMMA ScalarStays == \A v \in Scalar : v \in Int /\ SetSecretBytes(v) = v /\ Multiple(v) = v
BY ModOfRange DEF Scalar, SetSecretBytes, Multiple

LEMMA SecretIsPoint == \A v \in Bytes32 : SetSecretBytes(v) \in 0 .. Order - 1
BY ModCongruent DEF Bytes32, SetSecretBytes, Multiple

LEMMA MakeSound ==
  ASSUME NEW vch \in Bytes32, NEW fCompressed \in BOOLEAN, NEW unchecked, unchecked \/ vch \in Scalar
  PROVE  SoundKey(MakeKey(vch, fCompressed), unchecked)
BY DEF SoundKey, MakeKey, KeyType, Defined

LEMMA SetKeySound ==
  ASSUME NEW k \in KeyType, NEW fits, NEW vch \in Bytes32, NEW fCompressed \in BOOLEAN
  PROVE  SoundKey(SetKey(k, fits, vch, fCompressed), FALSE)
<1>1. CASE fits /\ Check(vch)
  <2>1. vch \in Scalar
    BY <1>1 DEF Check
  <2>2. SetKey(k, fits, vch, fCompressed) = MakeKey(vch, fCompressed)
    BY <1>1 DEF SetKey
  <2> QED
    BY <2>1, <2>2, MakeSound
<1>2. CASE ~(fits /\ Check(vch))
  <2>1. SetKey(k, fits, vch, fCompressed) = [k EXCEPT !.fValid = FALSE]
    BY <1>2 DEF SetKey
  <2> QED
    BY <2>1 DEF SoundKey, KeyType
<1> QED
  BY <1>1, <1>2

\* The public key of a valid private key.
LEMMA PublicOfIs ==
  ASSUME NEW k, NEW unchecked, SoundKey(k, unchecked), k.fValid
  PROVE  /\ SoundPub(PublicOf(k))
         /\ k.vch \in Scalar =>
              /\ SetPubKey(PublicOf(k)) = {k.vch} /\ IsValid(PublicOf(k))
              /\ IsCompressed(PublicOf(k)) = k.fCompressed
<1>1. k.fCompressed \in BOOLEAN /\ k.vch \in Bytes32
  BY DEF SoundKey
<1>2. SoundPub(PublicOf(k))
  BY <1>1, SecretIsPoint, NewPubSound, GetPubKeySound DEF PublicOf
<1>3. ASSUME k.vch \in Scalar
      PROVE  /\ SetPubKey(PublicOf(k)) = {k.vch} /\ IsValid(PublicOf(k))
             /\ IsCompressed(PublicOf(k)) = k.fCompressed
  <2>1. PublicOf(k) = GetPubKey(k.vch, NewPub, k.fCompressed)
    BY <1>3, ScalarStays DEF PublicOf
  <2> QED
    BY <1>1, <1>3, <2>1, FormGivesBack
<1> QED
  BY <1>2, <1>3

\* Where an extended key stands.
LEMMA PlaceIs ==
  ASSUME NEW d \in 0 .. Depths - 1, NEW f \in Int, NEW n \in ChildNumbers, NEW cc \in ChainCodes
  PROVE  Place(d, f, n, cc) \in PlaceType
BY DEF Place, PlaceType

LEMMA WrittenIs ==
  ASSUME NEW p \in PlaceType, Written(p)
  PROVE  /\ p.nDepth \in 0 .. Depths - 1 /\ p.vchFingerprint \in Int
         /\ p.nChild \in ChildNumbers /\ p.vchChainCode \in ChainCodes
         /\ p = Place(p.nDepth, p.vchFingerprint, p.nChild, p.vchChainCode)
BY DEF Written, PlaceType, Place

LEMMA BelowIs ==
  ASSUME NEW p \in PlaceType, Written(p), NEW pub, pub.header \in {2, 3}, pub.x \in Bytes32,
         NEW n \in ChildNumbers, NEW cc \in ChainCodes
  PROVE  Below(p, pub, n, cc) \in PlaceType
<1>1. Depths \in Nat \ {0} /\ p.nDepth \in 0 .. Depths - 1
  BY HashAssumption, WrittenIs
<1>2. (p.nDepth + 1) % Depths \in 0 .. Depths - 1
  BY <1>1
<1>3. IsCompressed(pub)
  BY HeaderSays
<1>4. GetID(pub) \in Int
  BY <1>3, HashAssumption DEF GetID
<1> QED
  BY <1>2, <1>4, PlaceIs DEF Below

LEMMA DecodePlaceIs ==
  ASSUME NEW code \in Codes
  PROVE  DecodePlace(code) \in PlaceType
<1>1. /\ code.nDepth \in 0 .. Depths - 1 /\ code.vchFingerprint \in Int
      /\ code.nChild \in [1 .. 4 -> 0 .. Digit - 1] /\ code.vchChainCode \in ChainCodes
  BY GivenAssumption
<1>2. FromBigEndian(code.nChild) \in ChildNumbers
  BY <1>1, BytesAreChild
<1> QED
  BY <1>1, <1>2, PlaceIs DEF DecodePlace

\* A hash, and what a tweak makes of a secret and of a point.
LEMMA HashIs ==
  ASSUME NEW cc \in ChainCodes, NEW n \in ChildNumbers, NEW header \in {0, 2, 3}, NEW data \in Bytes32
  PROVE  /\ BIP32Hash(cc, n, header, data).left \in Nat
         /\ BIP32Hash(cc, n, header, data).right \in ChainCodes
BY HashAssumption DEF BIP32Hash

LEMMA TweakIs ==
  ASSUME NEW q \in 0 .. Order - 1, NEW tweak \in Nat
  PROVE  /\ Multiple(q + tweak) \in 0 .. Order - 1
         /\ TweakSecret(q, tweak).vch = Multiple(q + tweak)
         /\ TweakSecret(q, tweak).ret \in BOOLEAN
         /\ TweakSecret(q, tweak).ret => Multiple(q + tweak) \in Scalar
         /\ TweakPublic(q, tweak).point = Multiple(q + tweak)
         /\ TweakPublic(q, tweak).ret = TweakSecret(q, tweak).ret
<1>1. q + tweak \in Int
  OBVIOUS
<1>2. Multiple(q + tweak) \in 0 .. Order - 1
  BY <1>1, ModCongruent DEF Multiple
<1>3. Multiple(q + tweak) # 0 => Multiple(q + tweak) \in Scalar
  BY <1>2, OrderIsNat DEF Scalar
<1> HIDE DEF Multiple
<1> QED
  BY <1>2, <1>3 DEF TweakSecret, TweakPublic, Infinity

\* A private child.
LEMMA DeriveKeyIs ==
  ASSUME NEW k, SoundKey(k, FALSE), k.fValid, k.fCompressed, NEW n \in ChildNumbers, NEW cc \in ChainCodes
  PROVE  /\ SoundKey(DeriveKey(k, n, cc).key, FALSE)
         /\ DeriveKey(k, n, cc).cc \in ChainCodes
         /\ PublicOf(k).header \in {2, 3} /\ PublicOf(k).x \in Bytes32
<1> DEFINE pub == PublicOf(k)
           out == IF Hardened(n) THEN BIP32Hash(cc, n, 0, k.vch) ELSE BIP32Hash(cc, n, pub.header, pub.x)
           child == TweakSecret(k.vch, out.left)
<1>1. k.vch \in Scalar /\ k.vch \in Bytes32 /\ k.vch \in 0 .. Order - 1
  BY DEF SoundKey, Scalar
<1>2. IsCompressed(pub) /\ SoundPub(pub) /\ IsValid(pub)
  BY <1>1, PublicOfIs
<1> HIDE DEF pub
<1>3. pub.header \in {2, 3} /\ pub.x \in Bytes32
  BY <1>2, HeaderSays DEF SoundPub
<1>4. out.left \in Nat /\ out.right \in ChainCodes
  BY <1>1, <1>3, HashIs
<1> HIDE DEF out
<1>5. child.vch \in 0 .. Order - 1 /\ child.ret \in BOOLEAN /\ (child.ret => child.vch \in Scalar)
  BY <1>1, <1>4, TweakIs
<1>6. child.vch \in Bytes32
  BY <1>5, ScalarsAreBytes
<1> HIDE DEF child
<1>7. SoundKey([fValid |-> child.ret, fCompressed |-> TRUE, vch |-> child.vch], FALSE)
  BY <1>5, <1>6 DEF SoundKey, KeyType, Defined
<1>8. DeriveKey(k, n, cc) = [ret |-> child.ret, cc |-> out.right,
                             key |-> [fValid |-> child.ret, fCompressed |-> TRUE, vch |-> child.vch]]
  BY DEF DeriveKey, child, out, pub
<1>9. /\ DeriveKey(k, n, cc).cc = out.right
      /\ DeriveKey(k, n, cc).key = [fValid |-> child.ret, fCompressed |-> TRUE, vch |-> child.vch]
  BY <1>8
<1>10. SoundKey(DeriveKey(k, n, cc).key, FALSE)
  BY <1>7, <1>9
<1> QED
  BY <1>3, <1>4, <1>9, <1>10 DEF pub

\* A public child.
LEMMA DerivePubIs ==
  ASSUME NEW pub, SoundPub(pub), IsCompressed(pub), NEW over, SoundPub(over),
         NEW n \in ChildNumbers, NEW cc \in ChainCodes
  PROVE  /\ SoundPub(DerivePub(pub, over, n, cc).pub)
         /\ DerivePub(pub, over, n, cc).cc \in ChainCodes
         /\ pub.header \in {2, 3} /\ pub.x \in Bytes32
<1> DEFINE out == BIP32Hash(cc, n, pub.header, pub.x)
           known == SetPubKey(pub) # {}
           at == IF known THEN CHOOSE q \in SetPubKey(pub) : TRUE ELSE Infinity
           child == TweakPublic(at, out.left)
<1>1. pub.header \in {2, 3} /\ pub.x \in Bytes32
  BY HeaderSays DEF SoundPub
<1>2. out.left \in Nat /\ out.right \in ChainCodes
  BY <1>1, HashIs
<1>3. at \in 0 .. Order - 1
  <2>1. CASE known
    <3>1. at \in SetPubKey(pub)
      BY <2>1
    <3>2. at \in Scalar
      BY <3>1, SetPubKeyIs
    <3> QED
      BY <3>2 DEF Scalar
  <2>2. CASE ~known
    BY <2>2, OrderIsNat DEF Infinity
  <2> QED
    BY <2>1, <2>2
<1> HIDE DEF out, at
<1>4. child.point \in 0 .. Order - 1
  BY <1>2, <1>3, TweakIs
<1> HIDE DEF child
<1>5. SoundPub(GetPubKey(child.point, over, TRUE))
  BY <1>4, GetPubKeySound
<1>6. DerivePub(pub, over, n, cc) =
        [ret |-> known /\ child.ret, cc |-> out.right, pub |-> GetPubKey(child.point, over, TRUE)]
  BY DEF DerivePub, child, at, out
<1>7. /\ DerivePub(pub, over, n, cc).cc = out.right
      /\ DerivePub(pub, over, n, cc).pub = GetPubKey(child.point, over, TRUE)
  BY <1>6
<1> QED
  BY <1>1, <1>2, <1>5, <1>7

-----------------------------------------------------------------------------
\* Each operation keeps the members what they are.

LEMMA InitMembers == Init => Members
<1> SUFFICES ASSUME Init PROVE Members
  OBVIOUS
<1>1. place \in PlaceType /\ pubPlace \in PlaceType
  BY DEF Init, PlaceType
<1>2. SoundKey(key, skipped) /\ SoundPub(pubkey)
  BY NewPubSound DEF Init, SoundKey, NewKey, KeyType, Defined
<1>3. 0 \in Bytes32
  BY CurveAssumption DEF Bytes32
<1>4. sig \in SigType /\ hash \in Bytes32
  BY <1>3 DEF Init, NoSignature, Der, SigType
<1> QED
  BY <1>1, <1>2, <1>4 DEF Init, Nothing, Members

LEMMA OfferedIs ==
  ASSUME Members
  PROVE  Offered \subseteq PrivKeyType
<1>1. ASSUME key.fValid, ~skipped
      PROVE  GetPrivKey(key) \in PrivKeyType
  <2>1. key.vch \in Bytes32
    BY <1>1 DEF Members, SoundKey
  <2> QED
    BY <2>1, SecretIsPoint DEF GetPrivKey, Private, PrivKeyType
<1>2. PrivKeys \subseteq PrivKeyType
  BY GivenAssumption DEF PrivKeyType
<1> QED
  BY <1>1, <1>2 DEF Offered

LEMMA SetBytesKeeps ==
  ASSUME Members, SetBytes
  PROVE  Members' /\ op' = Nothing
<1>1. PICK vch \in Secrets, fits \in BOOLEAN, fCompressed \in BOOLEAN :
        /\ key' = SetKey(key, fits, vch, fCompressed)
        /\ skipped' = FALSE /\ Unwatched /\ OnlyKey
  BY DEF SetBytes
<1>2. key \in KeyType /\ vch \in Bytes32
  BY GivenAssumption DEF Members, SoundKey
<1>3. SoundKey(key', skipped')
  BY <1>1, <1>2, SetKeySound
<1> QED
  BY <1>1, <1>3 DEF Members, Unwatched, Nothing, OnlyKey

LEMMA MakeNewKeyKeeps ==
  ASSUME Members, MakeNewKey
  PROVE  Members' /\ op' = Nothing
<1>1. PICK vch \in Secrets, fCompressed \in BOOLEAN :
        /\ Check(vch) /\ key' = MakeKey(vch, fCompressed)
        /\ skipped' = FALSE /\ Unwatched /\ OnlyKey
  BY DEF MakeNewKey
<1>2. vch \in Bytes32 /\ vch \in Scalar
  BY <1>1, GivenAssumption DEF Check
<1>3. SoundKey(key', skipped')
  BY <1>1, <1>2, MakeSound
<1> QED
  BY <1>1, <1>3 DEF Members, Unwatched, Nothing, OnlyKey

LEMMA SetPrivateKeeps ==
  ASSUME Members, SetPrivate
  PROVE  Members' /\ op' = Nothing
<1>1. PICK privkey \in Offered, fCompressed \in BOOLEAN :
        LET ret == SetPrivKey(privkey, FALSE)
        IN /\ key' = IF ret THEN MakeKey(privkey.secret, fCompressed) ELSE key
           /\ skipped' = (skipped /\ ~ret) /\ Unwatched /\ OnlyKey
  BY DEF SetPrivate
<1>2. privkey.secret \in Bytes32
  BY OfferedIs DEF PrivKeyType
<1>3. CASE SetPrivKey(privkey, FALSE)
  <2>1. privkey.secret \in Scalar
    BY <1>3 DEF SetPrivKey, Check
  <2>2. SoundKey(key', skipped') /\ skipped' \in BOOLEAN
    BY <1>1, <1>2, <1>3, <2>1, MakeSound
  <2> QED
    BY <1>1, <2>2 DEF Members, Unwatched, Nothing, OnlyKey
<1>4. CASE ~SetPrivKey(privkey, FALSE)
  <2>1. key' = key /\ skipped' = skipped
    BY <1>1, <1>4 DEF Members
  <2> QED
    BY <1>1, <2>1 DEF Members, Unwatched, Nothing, OnlyKey
<1> QED
  BY <1>3, <1>4

LEMMA SoundKeySkipped ==
  ASSUME NEW k, NEW a, SoundKey(k, a), NEW b, a => b
  PROVE  SoundKey(k, b)
BY DEF SoundKey

\* Load: also what it promises.
LEMMA LoadKeyKeeps ==
  ASSUME Members, LoadKey
  PROVE  Members' /\ LoadMatches' /\ op'.name \in {"none", "Load"}
<1>1. PICK privkey \in Offered, fSkipCheck \in BOOLEAN :
        /\ key' = Load(key, privkey, pubkey, fSkipCheck).key
        /\ skipped' = IF SetPrivKey(privkey, fSkipCheck) THEN fSkipCheck ELSE skipped
        /\ IF fSkipCheck THEN Unwatched ELSE Called("Load", Load(key, privkey, pubkey, fSkipCheck).ret)
        /\ OnlyKey
  BY DEF LoadKey
<1> DEFINE loaded == MakeKey(privkey.secret, IsCompressed(pubkey))
           load == Load(key, privkey, pubkey, fSkipCheck)
<1>2. privkey.secret \in Bytes32
  BY OfferedIs DEF PrivKeyType
<1>3. IsCompressed(pubkey) \in BOOLEAN
  BY HeaderSays
<1>4. CASE SetPrivKey(privkey, fSkipCheck)
  <2>1. load = [ret |-> fSkipCheck \/ Same(PublicOf(loaded), pubkey), key |-> loaded]
    BY <1>4 DEF Load
  <2>2. load.key = loaded /\ load.ret \in BOOLEAN /\ load.ret = (fSkipCheck \/ Same(PublicOf(loaded), pubkey))
    BY <2>1 DEF Same
  <2>3. fSkipCheck \/ privkey.secret \in Scalar
    BY <1>4 DEF SetPrivKey, Check
  <2>4. SoundKey(loaded, fSkipCheck)
    BY <1>2, <1>3, <2>3, MakeSound
  <2> HIDE DEF load
  <2>5. key' = loaded /\ skipped' = fSkipCheck
    BY <1>1, <1>4, <2>2 DEF load
  <2>6. op' = IF fSkipCheck THEN Nothing ELSE [name |-> "Load", ret |-> load.ret]
    BY <1>1 DEF Unwatched, Called, load
  <2>7. Members'
    BY <1>1, <2>2, <2>4, <2>5, <2>6 DEF Members, OnlyKey, Nothing
  <2>8. LoadMatches'
    <3> SUFFICES ASSUME op'.name = "Load"
                 PROVE  /\ op'.ret => key'.fValid /\ Same(PublicOf(key'), pubkey')
                        /\ ~op'.ret /\ key'.fValid /\ ~skipped' => IsFullyValid(PublicOf(key'))
      BY DEF LoadMatches
    <3>1. ~fSkipCheck /\ op'.ret = load.ret
      BY <2>6 DEF Nothing
    <3>2. key'.fValid /\ pubkey' = pubkey
      BY <1>1, <2>5 DEF MakeKey, OnlyKey
    <3>3. op'.ret => Same(PublicOf(key'), pubkey')
      BY <2>2, <2>5, <3>1, <3>2
    <3>4. IsFullyValid(PublicOf(key'))
      <4>1. key'.vch \in Scalar
        BY <2>3, <2>5, <3>1 DEF MakeKey
      <4>2. SoundKey(key', skipped')
        BY <2>4, <2>5
      <4> QED
        BY <3>2, <4>1, <4>2, PublicOfIs DEF IsFullyValid
    <3> QED
      BY <3>2, <3>3, <3>4
  <2> QED
    BY <2>6, <2>7, <2>8 DEF Nothing
<1>5. CASE ~SetPrivKey(privkey, fSkipCheck)
  <2>1. load = [ret |-> FALSE, key |-> key]
    BY <1>5 DEF Load
  <2>2. key' = key /\ skipped' = skipped
    BY <1>1, <1>5, <2>1
  <2>3. op' = IF fSkipCheck THEN Nothing ELSE [name |-> "Load", ret |-> FALSE]
    BY <1>1, <2>1 DEF Unwatched, Called
  <2>4. Members'
    BY <1>1, <2>2, <2>3 DEF Members, OnlyKey, Nothing
  <2>5. LoadMatches'
    <3> SUFFICES ASSUME op'.name = "Load"
                 PROVE  /\ ~op'.ret
                        /\ key'.fValid /\ ~skipped' => IsFullyValid(PublicOf(key'))
      BY DEF LoadMatches
    <3>1. ~op'.ret
      BY <2>3 DEF Nothing
    <3>2. ASSUME key.fValid, ~skipped
          PROVE  IsFullyValid(PublicOf(key))
      <4>1. SoundKey(key, skipped) /\ key.vch \in Scalar
        BY <3>2 DEF Members, SoundKey
      <4> QED
        BY <3>2, <4>1, PublicOfIs DEF IsFullyValid
    <3> QED
      BY <2>2, <3>1, <3>2
  <2> QED
    BY <2>3, <2>4, <2>5 DEF Nothing
<1> QED
  BY <1>4, <1>5

\* The low signature of a nonce verifies with the key in each form.
LEMMA LowVerifies ==
  ASSUME NEW vch \in Scalar, NEW e \in Int, NEW t \in DoSign(SetSecretBytes(vch), e)
  PROVE  /\ Low(t).r \in Scalar /\ Low(t).s \in Scalar /\ 2 * Low(t).s < Order
         /\ DoVerify(vch, e, Low(t)) /\ DoVerify(vch, e, t)
<1>1. SetSecretBytes(vch) = vch /\ vch \in 0 .. Order - 1 /\ vch \in Int
  BY ScalarStays DEF Scalar
<1>2. PICK k \in Scalar : /\ t = [r |-> t.r, s |-> t.s] /\ t.r \in Scalar /\ t.s \in Scalar
                         /\ t.r = Coordinates[k].x % Order
                         /\ Congruent(k * t.s, e + t.r * vch)
  BY <1>1, SignMakes
<1>3. /\ t.r \in Int /\ t.s \in Int /\ e + t.r * vch \in Int /\ k \in Int
      /\ Order \in Nat /\ Order % 2 = 1 /\ t.s \in 1 .. Order - 1
  <2>1. Order \in Nat /\ Order % 2 = 1
    BY CurveAssumption
  <2>2. t.r \in Int /\ t.s \in 1 .. Order - 1 /\ k \in Int
    BY <1>2 DEF Scalar
  <2> QED
    BY <1>1, <2>1, <2>2
<1>4. DoVerify(vch, e, t)
  BY <1>1, <1>2, VerifyAccepts
<1>5. CASE t.s > Order \div 2
  <2> DEFINE u == [r |-> t.r, s |-> Order - t.s]
  <2>1. Low(t) = u
    BY <1>2, <1>5 DEF Low
  <2>2. /\ Order - k \in Scalar /\ Order - t.s \in Scalar
        /\ Congruent((Order - k) * (Order - t.s), e + t.r * vch)
        /\ Coordinates[Order - k].x = Coordinates[k].x
    BY <1>2, <1>3, Opposite
  <2>3. u.r = t.r /\ u.s = Order - t.s
    OBVIOUS
  <2> HIDE DEF u
  <2>4. DoVerify(vch, e, u)
    BY <1>1, <1>2, <2>2, <2>3, VerifyAccepts
  <2>5. 2 * (Order - t.s) < Order
    BY <1>3, <1>5
  <2> QED
    BY <1>2, <1>4, <2>1, <2>2, <2>3, <2>4, <2>5
<1>6. CASE ~(t.s > Order \div 2)
  <2>1. Low(t) = t
    BY <1>6 DEF Low
  <2>2. 2 * t.s < Order
    BY <1>3, <1>6
  <2> QED
    BY <1>2, <1>4, <2>1, <2>2
<1> QED
  BY <1>5, <1>6

\* A public key in either form verifies what its point does.
LEMMA FormVerifies ==
  ASSUME NEW q \in Scalar, NEW pub, NEW e, NEW t, DoVerify(q, e, t), NEW fCompressed \in BOOLEAN
  PROVE  Verify(GetPubKey(q, pub, fCompressed), e, t)
BY FormGivesBack DEF Verify

LEMMA DoVerifyReads ==
  ASSUME NEW q, NEW e, NEW t, NEW u, t.r = u.r, t.s = u.s, DoVerify(q, e, t)
  PROVE  DoVerify(q, e, u)
BY DEF DoVerify

LEMMA SignHashKeeps ==
  ASSUME Members, SignHash
  PROVE  Members' /\ SignedLow' /\ op'.name = "Sign"
<1>1. PICK e \in Hashes :
        /\ key.fValid /\ ~skipped /\ hash' = e
        /\ sig' \in {Der(t) : t \in Sign(key.vch, e)}
        /\ Called("Sign", TRUE) /\ UNCHANGED <<place, key, pubPlace, pubkey, skipped>>
  BY DEF SignHash
<1>2. key.vch \in Scalar
  BY <1>1 DEF Members, SoundKey
<1>3. e \in Bytes32 /\ e \in Int
  BY GivenAssumption DEF Bytes32
<1>4. PICK u \in DoSign(SetSecretBytes(key.vch), e) : sig' = Der(Low(u))
  BY <1>1 DEF Sign
<1> DEFINE t == Low(u)
<1>5. t.r \in Scalar /\ t.s \in Scalar /\ 2 * t.s < Order /\ DoVerify(key.vch, e, t)
  BY <1>2, <1>3, <1>4, LowVerifies
<1>0. sig' = Der(t)
  BY <1>4
<1> HIDE DEF t
<1>6. sig'.r = t.r /\ sig'.s = t.s /\ sig' \in SigType
  <2>1. t.r \in Bytes32 /\ t.s \in Bytes32
    BY <1>5, ScalarsAreBytes
  <2> QED
    BY <1>0, <2>1 DEF Der, SigType
<1>7. op' = [name |-> "Sign", ret |-> TRUE]
  BY <1>1 DEF Called
<1>8. Members'
  BY <1>1, <1>3, <1>6, <1>7 DEF Members
<1>9. SignedLow'
  <2>1. DoVerify(key.vch, hash', sig')
    BY <1>1, <1>5, <1>6, DoVerifyReads
  <2>2. \A fCompressed \in BOOLEAN : Verify(GetPubKey(key.vch, NewPub, fCompressed), hash', sig')
    BY <1>2, <2>1, FormVerifies
  <2>3. Multiple(key.vch) = key.vch /\ key' = key
    BY <1>1, <1>2, ScalarStays
  <2> QED
    BY <1>5, <1>6, <2>2, <2>3 DEF SignedLow
<1> QED
  BY <1>7, <1>8, <1>9

\* What the header of a compact signature says.
LEMMA HeaderIs ==
  ASSUME NEW k, k.fCompressed \in BOOLEAN, NEW rec \in 0 .. 3
  PROVE  /\ CompactHeader(k, rec) \in 0 .. 255
         /\ Candidate(CompactHeader(k, rec)) = rec
         /\ AsksCompressed(CompactHeader(k, rec)) = k.fCompressed
<1>1. CASE k.fCompressed
  <2>1. CompactHeader(k, rec) = 31 + rec
    BY <1>1 DEF CompactHeader
  <2>2. ((31 + rec) - 27) \div 4 = 1 /\ 1 % 2 = 1
    OBVIOUS
  <2>3. AsksCompressed(31 + rec) = TRUE /\ k.fCompressed = TRUE
    BY <1>1, <2>2 DEF AsksCompressed
  <2>4. Candidate(31 + rec) = rec
    BY <2>2 DEF Candidate
  <2>5. 31 + rec \in 0 .. 255
    OBVIOUS
  <2> QED
    BY <2>1, <2>3, <2>4, <2>5, Zenon
<1>2. CASE ~k.fCompressed
  <2>1. CompactHeader(k, rec) = 27 + rec
    BY <1>2 DEF CompactHeader
  <2>2. ((27 + rec) - 27) \div 4 = 0
    OBVIOUS
  <2> QED
    BY <1>2, <2>1, <2>2 DEF Candidate, AsksCompressed
<1> QED
  BY <1>1, <1>2

LEMMA SameReflexive == \A pub : Same(pub, pub)
BY DEF Same

\* Recovery looks at the numbers of a signature only.
LEMMA RecoveredReads ==
  ASSUME NEW e, NEW t, NEW u, t.r = u.r, t.s = u.s, NEW i
  PROVE  Recovered(e, t, i) = Recovered(e, u, i)
BY DEF Recovered

LEMMA SignHashCompactKeeps ==
  ASSUME Members, SignHashCompact
  PROVE  Members' /\ CompactRecovers' /\ op'.name = "SignCompact"
<1>1. PICK e \in Hashes :
        /\ key.fValid /\ ~skipped /\ sig' \in SignCompact(key, e) /\ hash' = e
        /\ Called("SignCompact", TRUE) /\ UNCHANGED <<place, key, pubPlace, pubkey, skipped>>
  BY DEF SignHashCompact
<1>2. key.vch \in Scalar /\ key.fCompressed \in BOOLEAN
  BY <1>1 DEF Members, SoundKey
<1>3. e \in Bytes32 /\ e \in Int
  BY GivenAssumption DEF Bytes32
<1>4. PICK t \in DoSign(SetSecretBytes(key.vch), e) :
        sig' = Compact(CompactHeader(key, RecId(key.vch, e, t)), t)
  BY <1>1 DEF SignCompact
<1> DEFINE rec == RecId(key.vch, e, t)
<1>5. t.r \in Scalar /\ t.s \in Scalar
  <2>1. SetSecretBytes(key.vch) \in 0 .. Order - 1
    BY <1>2, ScalarsAreBytes, SecretIsPoint
  <2> QED
    BY <1>3, <2>1, SignMakes
<1>6. rec \in 0 .. 3 /\ Recovered(e, t, rec) = {key.vch}
  BY <1>2, <1>3, RecIdIs
<1> HIDE DEF rec
<1>7. /\ sig'.header \in 0 .. 255 /\ Candidate(sig'.header) = rec
      /\ AsksCompressed(sig'.header) = key.fCompressed
      /\ sig'.r = t.r /\ sig'.s = t.s /\ sig'.der = FALSE
      /\ sig' = [der |-> sig'.der, header |-> sig'.header, r |-> sig'.r, s |-> sig'.s]
  BY <1>2, <1>4, <1>6, HeaderIs DEF Compact, rec
<1>8. op' = [name |-> "SignCompact", ret |-> TRUE]
  BY <1>1 DEF Called
<1>9. sig' \in SigType
  <2>1. t.r \in Bytes32 /\ t.s \in Bytes32
    BY <1>5, ScalarsAreBytes
  <2> QED
    BY <1>7, <2>1 DEF SigType
<1>10. Members'
  BY <1>1, <1>3, <1>8, <1>9 DEF Members
<1>11. Recovered(hash', sig', rec) = {key.vch}
  BY <1>1, <1>6, <1>7, RecoveredReads
<1>12. rec # 3 => RecoverCompact(hash', sig') = {key.vch}
  BY <1>6, <1>7, <1>11 DEF RecoverCompact, Recover
<1>13. Multiple(key.vch) = key.vch /\ key' = key
  BY <1>1, <1>2, ScalarStays
<1>14. ASSUME rec # 3, NEW fCompressed \in BOOLEAN
       PROVE  VerifyCompact(GetPubKey(key.vch, NewPub, fCompressed), hash', sig')
  <2> DEFINE pub == GetPubKey(key.vch, NewPub, fCompressed)
  <2>1. IsValid(pub) /\ IsCompressed(pub) = fCompressed
    BY <1>2, FormGivesBack
  <2>2. key.vch \in RecoverCompact(hash', sig')
    BY <1>12, <1>14
  <2>3. Same(pub, GetPubKey(key.vch, NewPub, IsCompressed(pub)))
    BY <2>1, SameReflexive
  <2> HIDE DEF pub
  <2> QED
    BY <2>1, <2>2, <2>3 DEF VerifyCompact, pub
<1>15. CompactRecovers'
  BY <1>7, <1>12, <1>13, <1>14 DEF CompactRecovers
<1> QED
  BY <1>8, <1>10, <1>15

LEMMA ReceiveSignatureKeeps ==
  ASSUME Members, ReceiveSignature
  PROVE  Members' /\ op' = Nothing
<1>1. PICK e \in Hashes, s \in Signatures :
        /\ sig' = s /\ hash' = e
        /\ Unwatched /\ UNCHANGED <<place, key, pubPlace, pubkey, skipped>>
  BY DEF ReceiveSignature
<1>2. e \in Bytes32 /\ s \in SigType
  BY GivenAssumption DEF SigType
<1> QED
  BY <1>1, <1>2 DEF Members, Unwatched, Nothing

LEMMA TakePublicKeeps ==
  ASSUME Members, TakePublic
  PROVE  Members' /\ op' = Nothing
<1>1. SoundPub(PublicOf(key))
  BY PublicOfIs DEF Members, TakePublic
<1> QED
  BY <1>1 DEF Members, TakePublic, Unwatched, Nothing, OnlyPub

LEMMA VectorsAre == Vectors \subseteq VectorType
BY GivenAssumption DEF VectorType

LEMMA SetPubKeeps ==
  ASSUME Members, SetPub \/ ReadPub
  PROVE  Members' /\ op' = Nothing
<1>1. PICK v \in Vectors : /\ pubkey' = Set(pubkey, v) \/ pubkey' = Unserialize(pubkey, v)
                          /\ Unwatched /\ OnlyPub
  BY DEF SetPub, ReadPub
<1>2. SoundPub(pubkey')
  BY <1>1, VectorsAre, SetSound DEF Members
<1> QED
  BY <1>1, <1>2 DEF Members, Unwatched, Nothing, OnlyPub

LEMMA DecompressKeeps ==
  ASSUME Members, Decompress
  PROVE  Members' /\ op' = Nothing
<1>1. SoundPub(Decompressed(pubkey))
  <2>1. CASE IsFullyValid(pubkey)
    <3> DEFINE q == CHOOSE q \in SetPubKey(pubkey) : TRUE
    <3>1. q \in SetPubKey(pubkey)
      BY <2>1 DEF IsFullyValid
    <3>2. q \in 0 .. Order - 1
      BY <3>1, SetPubKeyIs DEF Scalar
    <3> HIDE DEF q
    <3>3. SoundPub(GetPubKey(q, pubkey, FALSE))
      BY <3>2, GetPubKeySound DEF Members
    <3> QED
      BY <2>1, <3>3 DEF Decompressed, q
  <2>2. CASE ~IsFullyValid(pubkey)
    BY <2>2 DEF Decompressed, Members
  <2> QED
    BY <2>1, <2>2
<1> QED
  BY <1>1 DEF Members, Decompress, Unwatched, Nothing, OnlyPub

\* Recovery finds no two keys, whatever the numbers are.
LEMMA RecoveredOne ==
  ASSUME NEW e, NEW t, NEW i, NEW q \in Recovered(e, t, i)
  PROVE  Recovered(e, t, i) = {q}
<1> DEFINE x == t.r + Order * (i \div 2)
           points == IF x >= Field THEN {} ELSE AtAbscissa(x, i % 2)
<1>1. Recovered(e, t, i) = {KeyFrom(e, t, p) : p \in points}
  <2>1. t.r % Order # 0
    BY DEF Recovered
  <2> QED
    BY <2>1, Zenon DEF Recovered, KeyFrom
<1>2. PICK R \in points : q = KeyFrom(e, t, R)
  BY <1>1
<1>3. points = AtAbscissa(x, i % 2)
  <2>1. points # {}
    BY <1>2
  <2> HIDE DEF x
  <2> QED
    BY <2>1
<1> HIDE DEF points
<1>4. points = {R}
  <2>1. R \in AtAbscissa(x, i % 2)
    BY <1>2, <1>3
  <2>2. R \in Scalar
    BY <2>1 DEF AtAbscissa
  <2> QED
    BY <1>3, <2>1, <2>2, AtAbscissaIs
<1> QED
  BY <1>1, <1>2, <1>4

\* Every key that recovery finds is a point or infinity.
LEMMA RecoveredRange ==
  ASSUME NEW e \in Int, NEW t, t.r \in Int, t.s \in Int, NEW i, NEW q \in Recovered(e, t, i)
  PROVE  q \in 0 .. Order - 1
<1> DEFINE a == Over(t.s, t.r)
           b == Over(Multiple(0 - e), t.r)
<1>1. t.r % Order # 0
  BY DEF Recovered
<1>2. InverseOf(t.r) \in Int
  BY <1>1, InverseIs DEF Scalar
<1>3. Multiple(0 - e) \in Int
  <2>1. 0 - e \in Int
    OBVIOUS
  <2> QED
    BY <2>1, ModCongruent DEF Multiple
<1>4. a \in Int /\ b \in Int
  BY <1>2, <1>3, OverIs
<1>5. PICK R \in Scalar : q = (a * R + b) % Order
  <2>1. \A x, odd : AtAbscissa(x, odd) \subseteq Scalar
    BY DEF AtAbscissa
  <2> HIDE DEF AtAbscissa, Scalar
  <2> QED
    BY <1>1, <2>1 DEF Recovered
<1> HIDE DEF a, b
<1>6. a * R + b \in Int
  BY <1>4 DEF Scalar
<1> QED
  BY <1>5, <1>6, ModCongruent

LEMMA RecoverPubKeeps ==
  ASSUME Members, RecoverPub
  PROVE  Members' /\ RecoveredVerifies' /\ op'.name = "RecoverCompact"
<1> DEFINE found == RecoverCompact(hash, sig)
           rec == Candidate(sig.header)
           q == CHOOSE q \in found : TRUE
           asks == AsksCompressed(sig.header)
<1>1. /\ pubkey' = IF found = {} THEN pubkey ELSE GetPubKey(q, pubkey, asks)
      /\ op' = [name |-> "RecoverCompact", ret |-> found # {}] /\ OnlyPub
  BY DEF RecoverPub, Called
<1>2. /\ sig \in SigType /\ sig.header \in 0 .. 255 /\ hash \in Int /\ sig.r \in Int /\ sig.s \in Int
      /\ SoundPub(pubkey)
  BY DEF Members, SigType, Bytes32
<1>3. asks \in BOOLEAN
  BY DEF AsksCompressed
<1>4. rec \in Int
  <2>1. \A h \in 0 .. 255 : Candidate(h) \in Int
    BY DEF Candidate
  <2> QED
    BY <1>2, <2>1
<1>5. ASSUME found # {}
      PROVE  /\ rec \in 0 .. 2 /\ found = Recovered(hash, sig, rec)
             /\ q \in 0 .. Order - 1 /\ found = {q}
  <2>1. q \in found
    BY <1>5
  <2>2. ~(rec < 0 \/ rec >= 3) /\ found = Recovered(hash, sig, rec)
    BY <1>5, Zenon DEF RecoverCompact, Recover
  <2> HIDE DEF found, q, rec
  <2>3. rec \in 0 .. 2
    BY <1>4, <2>2
  <2>4. q \in 0 .. Order - 1
    BY <1>2, <2>1, <2>2, RecoveredRange
  <2>5. found = {q}
    BY <2>1, <2>2, RecoveredOne
  <2> QED
    BY <2>2, <2>3, <2>4, <2>5
<1> HIDE DEF found, q, asks, rec
<1>6. SoundPub(pubkey')
  BY <1>1, <1>2, <1>3, <1>5, GetPubKeySound
<1>7. Members'
  BY <1>1, <1>6 DEF Members, OnlyPub
<1>8. RecoveredVerifies'
  <2> SUFFICES ASSUME found # {}
               PROVE  /\ IsValid(pubkey') <=> Infinity \notin found
                      /\ Verify(pubkey', hash, sig) <=>
                           IsValid(pubkey') /\ sig.r \in Scalar /\ sig.s \in Scalar
    <3>1. sig' = sig /\ hash' = hash /\ op'.ret = (found # {})
      BY <1>1 DEF OnlyPub
    <3>2. RecoverCompact(hash', sig') = found
      BY <3>1 DEF found
    <3> QED
      BY <3>1, <3>2 DEF RecoveredVerifies
  <2>1. pubkey' = GetPubKey(q, pubkey, asks)
    BY <1>1
  <2>2. q # Infinity => q \in Scalar
    BY <1>5, OrderIsNat DEF Scalar, Infinity
  <2>3. IsValid(pubkey') <=> q # Infinity
    <3>1. q = Infinity => ~IsValid(pubkey')
      BY <1>2, <1>3, <1>5, <2>1, GetPubKeySound
    <3>2. q # Infinity => IsValid(pubkey')
      BY <1>3, <2>1, <2>2, FormGivesBack
    <3> QED
      BY <3>1, <3>2
  <2>4. ASSUME IsValid(pubkey'), sig.r \in Scalar, sig.s \in Scalar
        PROVE  Verify(pubkey', hash, sig)
    <3>1. q \in Scalar
      BY <2>2, <2>3, <2>4
    <3>2. PICK R \in Scalar : Coordinates[R].x % Order = sig.r /\ q = KeyFrom(hash, sig, R)
      BY <1>2, <1>5, <2>4, RecoveredIs
    <3>3. Congruent(R * sig.s, hash + sig.r * q)
      BY <1>2, <2>4, <3>2, CandidateIs
    <3>4. DoVerify(q, hash, sig)
      BY <1>2, <2>4, <3>1, <3>2, <3>3, VerifyAccepts, ScalarStays
    <3> QED
      BY <1>3, <2>1, <3>1, <3>4, FormVerifies
  <2>5. Verify(pubkey', hash, sig) => IsValid(pubkey') /\ sig.r \in Scalar /\ sig.s \in Scalar
    BY Zenon DEF Verify, DoVerify
  <2> QED
    BY <1>5, <2>3, <2>4, <2>5
<1> QED
  BY <1>1, <1>7, <1>8

LEMMA CodesAre == \A code \in Codes : /\ code.vchChainCode \in ChainCodes /\ code.data \in Bytes32
                                     /\ code.pad \in 0 .. 255
BY GivenAssumption

LEMMA SetMasterKeeps ==
  ASSUME Members, SetMaster
  PROVE  Members' /\ op' = Nothing
<1>1. PICK vch \in Secrets, cc \in {c.vchChainCode : c \in Codes} :
        /\ key' = SetKey(key, TRUE, vch, TRUE) /\ place' = Master(cc)
        /\ skipped' = FALSE /\ Unwatched /\ UNCHANGED <<pubPlace, pubkey, sig, hash>>
  BY DEF SetMaster
<1>2. key \in KeyType /\ vch \in Bytes32 /\ cc \in ChainCodes
  BY GivenAssumption, CodesAre DEF Members, SoundKey
<1>3. SoundKey(key', skipped')
  BY <1>1, <1>2, SetKeySound
<1>4. 0 \in ChildNumbers /\ 0 \in 0 .. Depths - 1
  <2>1. Digit * (Digit * Digit * Digit) \in Nat \ {0}
    BY DigitIsNat
  <2> QED
    BY <2>1, WeightIs, HashAssumption DEF ChildNumbers
<1>5. place' \in PlaceType
  BY <1>1, <1>2, <1>4, PlaceIs DEF Master
<1> QED
  BY <1>1, <1>3, <1>5 DEF Members, Unwatched, Nothing

LEMMA DeriveChildKeeps ==
  ASSUME Members, DeriveChild
  PROVE  Members' /\ op' = Nothing
<1>1. PICK nChild \in Children :
        /\ key' = DeriveKey(key, nChild, place.vchChainCode).key
        /\ place' = Below(place, PublicOf(key), nChild, DeriveKey(key, nChild, place.vchChainCode).cc)
        /\ Unwatched
  BY DEF DeriveChild
<1>2. /\ key.fValid /\ key.fCompressed /\ Written(place) /\ ~skipped
      /\ UNCHANGED <<pubPlace, pubkey, sig, hash, skipped>>
  BY DEF DeriveChild, CanDerive
<1>3. place \in PlaceType /\ SoundKey(key, FALSE) /\ skipped = FALSE
  BY <1>2 DEF Members
<1>4. nChild \in ChildNumbers /\ place.vchChainCode \in ChainCodes
  BY <1>2, <1>3, GivenAssumption, WrittenIs
<1>5. /\ SoundKey(DeriveKey(key, nChild, place.vchChainCode).key, FALSE)
      /\ DeriveKey(key, nChild, place.vchChainCode).cc \in ChainCodes
      /\ PublicOf(key).header \in {2, 3} /\ PublicOf(key).x \in Bytes32
  BY <1>2, <1>3, <1>4, DeriveKeyIs
<1>6. place' \in PlaceType
  BY <1>1, <1>2, <1>3, <1>4, <1>5, BelowIs
<1>7. SoundKey(key', skipped')
  BY <1>1, <1>2, <1>3, <1>5
<1> QED
  BY <1>1, <1>2, <1>6, <1>7 DEF Members, Unwatched, Nothing

LEMMA DerivePublicChildKeeps ==
  ASSUME Members, DerivePublicChild
  PROVE  Members' /\ op' = Nothing
<1>1. PICK nChild \in Children :
        /\ pubkey' = DerivePub(pubkey, pubkey, nChild, pubPlace.vchChainCode).pub
        /\ pubPlace' = Below(pubPlace, pubkey, nChild, DerivePub(pubkey, pubkey, nChild, pubPlace.vchChainCode).cc)
        /\ Unwatched
  BY DEF DerivePublicChild
<1>2. /\ IsCompressed(pubkey) /\ Written(pubPlace)
      /\ UNCHANGED <<place, key, sig, hash, skipped>>
  BY DEF DerivePublicChild
<1>3. pubPlace \in PlaceType /\ SoundPub(pubkey)
  BY DEF Members
<1>4. nChild \in ChildNumbers /\ pubPlace.vchChainCode \in ChainCodes
  BY <1>2, <1>3, GivenAssumption, WrittenIs
<1>5. /\ SoundPub(DerivePub(pubkey, pubkey, nChild, pubPlace.vchChainCode).pub)
      /\ DerivePub(pubkey, pubkey, nChild, pubPlace.vchChainCode).cc \in ChainCodes
      /\ pubkey.header \in {2, 3} /\ pubkey.x \in Bytes32
  BY <1>2, <1>3, <1>4, DerivePubIs
<1>6. pubPlace' \in PlaceType
  BY <1>1, <1>2, <1>3, <1>4, <1>5, BelowIs
<1> QED
  BY <1>1, <1>2, <1>5, <1>6 DEF Members, Unwatched, Nothing

LEMMA NeuterKeeps ==
  ASSUME Members, Neuter
  PROVE  Members' /\ op' = Nothing
<1>1. SoundPub(PublicOf(key))
  BY PublicOfIs DEF Members, Neuter
<1> QED
  BY <1>1 DEF Members, Neuter, Unwatched, Nothing

LEMMA DecodeKeeps ==
  ASSUME Members, Decode
  PROVE  Members' /\ op' = Nothing
<1>1. PICK code \in Codes :
        /\ key' = DecodeKey(key, code) /\ place' = DecodePlace(code)
        /\ skipped' = FALSE /\ Unwatched /\ UNCHANGED <<pubPlace, pubkey, sig, hash>>
  BY DEF Decode
<1>2. place' \in PlaceType
  BY <1>1, DecodePlaceIs
<1>3. key \in KeyType /\ code.data \in Bytes32
  BY CodesAre DEF Members, SoundKey
<1>4. SoundKey(key', skipped')
  BY <1>1, <1>3, SetKeySound DEF DecodeKey
<1> QED
  BY <1>1, <1>2, <1>4 DEF Members, Unwatched, Nothing

LEMMA DecodePublicKeeps ==
  ASSUME Members, DecodePublic
  PROVE  Members' /\ op' = Nothing
<1>1. PICK code \in Codes :
        /\ pubkey' = DecodePub(pubkey, code) /\ pubPlace' = DecodePlace(code)
        /\ Unwatched /\ UNCHANGED <<place, key, sig, hash, skipped>>
  BY DEF DecodePublic
<1>2. pubPlace' \in PlaceType
  BY <1>1, DecodePlaceIs
<1>3. Vector(33, code.pad, code.data, 0) \in VectorType
  <2>1. 0 \in Bytes32
    BY CurveAssumption DEF Bytes32
  <2> QED
    BY <2>1, CodesAre DEF Vector, VectorType
<1>4. SoundPub(pubkey')
  BY <1>1, <1>3, SetSound DEF DecodePub, Members
<1> QED
  BY <1>1, <1>2, <1>4 DEF Members, Unwatched, Nothing

-----------------------------------------------------------------------------
\* What the members being sound gives.

LEMMA MembersSound == Members => TypeOK /\ ValidIsDefined
<1> SUFFICES ASSUME Members PROVE TypeOK /\ ValidIsDefined
  OBVIOUS
<1>1. TypeOK
  BY DEF Members, TypeOK, SoundKey, SoundPub, KeyType, PubType, SigType
<1>2. ASSUME key.fValid, key.vch \in Scalar
      PROVE  SetPrivKey(GetPrivKey(key), FALSE)
  BY <1>2 DEF SetPrivKey, GetPrivKey, Private, Check
<1>3. ValidIsDefined
  BY <1>2 DEF Members, SoundKey, ValidIsDefined
<1> QED
  BY <1>1, <1>3

LEMMA HybridForms ==
  ASSUME SoundPub(pubkey)
  PROVE  OneFormOfEach
<1> SUFFICES ASSUME NEW q \in SetPubKey(pubkey)
             PROVE  \E h \in {2, 3, 4, 6, 7} :
                      LET v == Encoded(q, h \in {2, 3})
                      IN /\ Same(pubkey, [header |-> h, x |-> v.x, y |-> v.y])
                         /\ h # 4 => h % 2 = Coordinates[q].y % 2
  BY DEF OneFormOfEach
<1>1. q \in Scalar /\ q # Infinity
  BY SetPubKeyIs DEF Scalar, Infinity
<1>2. /\ Coordinates[q].y % 2 \in {0, 1}
      /\ Coordinates[q] = [x |-> Coordinates[q].x, y |-> Coordinates[q].y]
  BY <1>1, PointIs
<1>3. pubkey.header \in 0 .. 255
  BY DEF SoundPub, PubType
<1> DEFINE h == pubkey.header
           v == Encoded(q, h \in {2, 3})
<1>4. CASE IsCompressed(pubkey)
  <2>1. h \in {2, 3} /\ Size(pubkey) # 65
    BY <1>4, HeaderSays DEF IsCompressed
  <2>2. pubkey.x = Coordinates[q].x /\ h - 2 = Coordinates[q].y % 2
    BY <1>4 DEF SetPubKey, AtAbscissa
  <2>3. v.x = Coordinates[q].x
    BY <1>1, <2>1 DEF Encoded, Vector
  <2>4. Same(pubkey, [header |-> h, x |-> v.x, y |-> v.y])
    BY <2>1, <2>2, <2>3 DEF Same
  <2>5. h % 2 = Coordinates[q].y % 2
    BY <2>1, <2>2, <1>2
  <2> QED
    BY <2>1, <2>4, <2>5
<1>5. CASE ~IsCompressed(pubkey)
  <2>1. /\ Size(pubkey) = 65 /\ Coordinates[q] = [x |-> pubkey.x, y |-> pubkey.y]
        /\ h # 4 => h - 6 = Coordinates[q].y % 2
    BY <1>5 DEF SetPubKey
  <2>2. h \in {4, 6, 7} /\ h \notin {2, 3}
    BY <2>1, HeaderSays
  <2>3. v.x = Coordinates[q].x /\ v.y = Coordinates[q].y
    BY <1>1, <2>2 DEF Encoded, Vector
  <2>4. pubkey.x = Coordinates[q].x /\ pubkey.y = Coordinates[q].y
    BY <2>1
  <2>5. Same(pubkey, [header |-> h, x |-> v.x, y |-> v.y])
    BY <2>3, <2>4 DEF Same
  <2>6. h # 4 => h % 2 = Coordinates[q].y % 2
    BY <1>2, <2>1, <2>2
  <2> QED
    BY <2>2, <2>5, <2>6
<1> QED
  BY <1>4, <1>5

\* The two derivations tweak the same point.
LEMMA DerivationsMeet ==
  ASSUME Members
  PROVE  DerivationsAgree
<1> SUFFICES ASSUME CanDerive, NEW nChild \in Children, ~Hardened(nChild)
             PROVE  LET child == DeriveKey(key, nChild, place.vchChainCode)
                        pubChild == DerivePub(PublicOf(key), NewPub, nChild, place.vchChainCode)
                    IN /\ child.ret = pubChild.ret /\ child.cc = pubChild.cc
                       /\ child.ret => Same(PublicOf(child.key), pubChild.pub)
  BY DEF DerivationsAgree
<1> DEFINE pub == PublicOf(key)
           cc == place.vchChainCode
           out == BIP32Hash(cc, nChild, pub.header, pub.x)
           secret == TweakSecret(key.vch, out.left)
           point == TweakPublic(key.vch, out.left)
           child == DeriveKey(key, nChild, cc)
           pubChild == DerivePub(pub, NewPub, nChild, cc)
           sum == Multiple(key.vch + out.left)
<1>1. /\ key.fValid /\ key.fCompressed = TRUE /\ Written(place) /\ SoundKey(key, FALSE)
      /\ key.vch \in Scalar /\ place \in PlaceType
  BY DEF CanDerive, Members, SoundKey
<1>2. cc \in ChainCodes /\ nChild \in ChildNumbers
  BY <1>1, WrittenIs, GivenAssumption
<1>3. SetPubKey(pub) = {key.vch} /\ pub.header \in {2, 3} /\ pub.x \in Bytes32
  BY <1>1, <1>2, PublicOfIs, DeriveKeyIs
<1>4. out.left \in Nat
  BY <1>2, <1>3, HashIs
<1>5. child = [ret |-> secret.ret, cc |-> out.right,
               key |-> [fValid |-> secret.ret, fCompressed |-> TRUE, vch |-> secret.vch]]
  BY Zenon DEF DeriveKey
<1>6. pubChild = [ret |-> TRUE /\ point.ret, cc |-> out.right, pub |-> GetPubKey(point.point, NewPub, TRUE)]
  <2>1. /\ SetPubKey(pub) # {}
        /\ (IF SetPubKey(pub) # {} THEN CHOOSE q \in SetPubKey(pub) : TRUE ELSE Infinity) = key.vch
    BY <1>3
  <2> QED
    BY <2>1 DEF DerivePub
<1>7. /\ secret.vch = sum /\ secret.ret \in BOOLEAN /\ (secret.ret => sum \in Scalar)
      /\ point.point = sum /\ point.ret = secret.ret
  <2>1. key.vch \in 0 .. Order - 1
    BY <1>1 DEF Scalar
  <2> HIDE DEF out
  <2> QED
    BY <1>4, <2>1, TweakIs
<1> HIDE DEF pub, out, secret, point, child, pubChild, sum
<1>8. child.ret = pubChild.ret /\ child.cc = pubChild.cc
  BY <1>5, <1>6, <1>7
<1>9. ASSUME child.ret
      PROVE  Same(PublicOf(child.key), pubChild.pub)
  <2>1. sum \in Scalar /\ child.key.vch = sum /\ child.key.fCompressed = TRUE
    BY <1>5, <1>7, <1>9
  <2>2. PublicOf(child.key) = GetPubKey(sum, NewPub, TRUE)
    BY <2>1, ScalarStays DEF PublicOf
  <2>3. pubChild.pub = GetPubKey(sum, NewPub, TRUE)
    BY <1>6, <1>7
  <2> QED
    BY <2>2, <2>3, SameReflexive
<1> QED
  BY <1>8, <1>9 DEF child, pubChild, pub, cc

\* An extended key reads back from its bytes.
LEMMA EncodingReads ==
  ASSUME Members
  PROVE  EncodingReadsBack
<1>1. ASSUME NEW p \in PlaceType, Written(p), NEW pad, NEW data
      PROVE  DecodePlace(Code(p, pad, data)) = p
  <2>1. p.nChild \in ChildNumbers /\ p = Place(p.nDepth, p.vchFingerprint, p.nChild, p.vchChainCode)
    BY <1>1, WrittenIs
  <2>2. FromBigEndian(BigEndian(p.nChild)) = p.nChild
    BY <2>1, BytesGiveBack
  <2> QED
    BY <2>1, <2>2 DEF DecodePlace, Code
<1>2. ASSUME CanDerive, NEW k
      PROVE  /\ DecodePlace(EncodeKey(place, key)) = place
             /\ SameKey(DecodeKey(k, EncodeKey(place, key)), key)
  <2>1. /\ key.fValid = TRUE /\ key.fCompressed = TRUE /\ Written(place)
        /\ key.vch \in Scalar /\ place \in PlaceType
    BY <1>2 DEF CanDerive, Members, SoundKey, KeyType
  <2>2. DecodePlace(EncodeKey(place, key)) = place
    BY <1>1, <2>1 DEF EncodeKey
  <2>3. DecodeKey(k, EncodeKey(place, key)) = MakeKey(key.vch, TRUE)
    BY <2>1 DEF DecodeKey, EncodeKey, Code, SetKey, Check
  <2>4. /\ MakeKey(key.vch, TRUE).fValid = TRUE /\ MakeKey(key.vch, TRUE).fCompressed = TRUE
        /\ MakeKey(key.vch, TRUE).vch = key.vch
    BY DEF MakeKey
  <2>5. SameKey(MakeKey(key.vch, TRUE), key)
    BY <2>1, <2>4 DEF SameKey
  <2> QED
    BY <2>2, <2>3, <2>5
<1>3. ASSUME IsCompressed(pubkey), Written(pubPlace)
      PROVE  /\ DecodePlace(EncodePub(pubPlace, pubkey)) = pubPlace
             /\ Same(DecodePub(NewPub, EncodePub(pubPlace, pubkey)), pubkey)
  <2>1. DecodePlace(EncodePub(pubPlace, pubkey)) = pubPlace
    BY <1>1, <1>3 DEF EncodePub, Members
  <2>2. GetLen(pubkey.header) = 33 /\ Size(pubkey) # 65
    BY <1>3 DEF IsCompressed, Size
  <2> DEFINE new == Set(NewPub, Vector(33, pubkey.header, pubkey.x, 0))
  <2>3. new = [header |-> pubkey.header, x |-> pubkey.x, y |-> NewPub.y]
    BY <2>2 DEF Set, Copied, Vector
  <2>4. DecodePub(NewPub, EncodePub(pubPlace, pubkey)) = new
    BY DEF DecodePub, EncodePub, Code
  <2>5. new.header = pubkey.header /\ new.x = pubkey.x /\ Size(new) # 65
    BY <2>2, <2>3 DEF Size
  <2> QED
    BY <2>1, <2>4, <2>5 DEF Same
<1> QED
  BY <1>2, <1>3 DEF EncodingReadsBack

LEMMA SerializedReads ==
  ASSUME SoundPub(pubkey)
  PROVE  SerializedReadsBack
<1>1. ASSUME NEW old, NEW v, v.len = GetLen(v.header), v.len > 0
      PROVE  /\ Unserialize(old, v).header = v.header /\ Unserialize(old, v).x = v.x
             /\ Size(Unserialize(old, v)) = 65 => Unserialize(old, v).y = v.y
  <2> DEFINE new == Unserialize(old, v)
  <2>1. v.len \in {33, 65}
    BY <1>1 DEF GetLen
  <2>2. new = [header |-> v.header, x |-> v.x, y |-> IF v.len <= 33 THEN old.y ELSE v.y]
    BY <2>1 DEF Unserialize, Copied
  <2>3. Size(new) = v.len
    BY <1>1, <2>2 DEF Size
  <2> HIDE DEF new
  <2> QED
    BY <2>1, <2>2, <2>3 DEF new
<1>2. ASSUME NEW old, IsValid(pubkey)
      PROVE  Same(Unserialize(old, Serialized(pubkey)), pubkey)
  <2> DEFINE v == Serialized(pubkey)
             new == Unserialize(old, v)
  <2>1. /\ v.len = GetLen(v.header) /\ v.len > 0
        /\ v.header = pubkey.header /\ v.x = pubkey.x /\ v.y = pubkey.y
    BY <1>2 DEF Serialized, Vector, Size, IsValid
  <2> HIDE DEF v
  <2>2. new.header = pubkey.header /\ new.x = pubkey.x /\ (Size(new) = 65 => new.y = pubkey.y)
    BY <1>1, <2>1
  <2> HIDE DEF new
  <2> QED
    BY <2>2 DEF Same, new, v
<1>3. ASSUME NEW v \in Vectors, v.len > 65 \/ (v.len > 0 /\ v.len = GetLen(v.header))
      PROVE  Same(Unserialize(pubkey, v), Unserialize(NewPub, v))
  <2>1. CASE v.len > 65
    <3>1. v.len \in Nat
      BY VectorsAre DEF VectorType
    <3>2. /\ Unserialize(pubkey, v) = Invalidate(pubkey)
          /\ Unserialize(NewPub, v) = Invalidate(NewPub)
      BY <2>1, <3>1 DEF Unserialize
    <3>3. pubkey \in PubType /\ NewPub \in PubType
      BY NewPubSound DEF SoundPub
    <3>4. /\ Invalidate(pubkey).header = Invalidate(NewPub).header
          /\ ~IsValid(Invalidate(pubkey))
      BY <3>3, InvalidateIs
    <3>5. Size(Invalidate(pubkey)) # 65
      BY <3>4 DEF IsValid
    <3> QED
      BY <3>2, <3>4, <3>5 DEF Same
  <2>2. CASE v.len > 0 /\ v.len = GetLen(v.header)
    <3> DEFINE a == Unserialize(pubkey, v)
               b == Unserialize(NewPub, v)
    <3>1. /\ a.header = v.header /\ a.x = v.x /\ (Size(a) = 65 => a.y = v.y)
          /\ b.header = v.header /\ b.x = v.x /\ (Size(b) = 65 => b.y = v.y)
      BY <1>1, <2>2
    <3>2. Size(a) = Size(b)
      BY <3>1 DEF Size
    <3> HIDE DEF a, b
    <3> QED
      BY <3>1, <3>2 DEF Same, a, b
  <2> QED
    BY <1>3, <2>1, <2>2
<1> QED
  BY <1>2, <1>3 DEF SerializedReadsBack

LEMMA FormsMeet ==
  ASSUME SoundPub(pubkey)
  PROVE  FormsAgree
<1> DEFINE other == Decompressed(pubkey)
<1>1. ASSUME IsFullyValid(pubkey)
      PROVE  SetPubKey(other) = SetPubKey(pubkey) /\ ~IsCompressed(other)
  <2> DEFINE q == CHOOSE q \in SetPubKey(pubkey) : TRUE
  <2>1. q \in SetPubKey(pubkey)
    BY <1>1 DEF IsFullyValid
  <2>2. other = GetPubKey(q, pubkey, FALSE)
    BY <1>1 DEF Decompressed
  <2> HIDE DEF q
  <2>3. q \in Scalar /\ SetPubKey(pubkey) = {q}
    BY <2>1, SetPubKeyIs
  <2> QED
    BY <2>2, <2>3, FormGivesBack
<1>2. ASSUME ~IsFullyValid(pubkey)
      PROVE  other = pubkey /\ ~\E e \in Hashes : Verify(pubkey, e, sig)
  <2>1. other = pubkey
    BY <1>2 DEF Decompressed
  <2> QED
    BY <1>2, <2>1 DEF Verify, IsFullyValid
<1> HIDE DEF other
<1>3. IsFullyValid(pubkey) \in BOOLEAN
  BY DEF IsFullyValid
<1> QED
  BY <1>1, <1>2, <1>3 DEF FormsAgree, other

-----------------------------------------------------------------------------
\* The theorems.

\* The invariant: the members are sound, and what was promised of the call of
\* before holds.
KInv == Members /\ LoadMatches /\ SignaturesVerify

LEMMA OtherCallsPromiseNothing ==
  /\ op'.name # "Load" => LoadMatches'
  /\ op'.name # "Sign" => SignedLow'
  /\ op'.name # "SignCompact" => CompactRecovers'
  /\ op'.name # "RecoverCompact" => RecoveredVerifies'
BY Zenon DEF LoadMatches, SignedLow, CompactRecovers, RecoveredVerifies

LEMMA InitHolds == Init => KInv
<1> SUFFICES ASSUME Init PROVE KInv
  OBVIOUS
<1>1. op.name = "none"
  BY DEF Init, Nothing
<1>2. LoadMatches /\ SignaturesVerify
  BY <1>1 DEF LoadMatches, SignaturesVerify, SignedLow, CompactRecovers, RecoveredVerifies
<1> QED
  BY <1>2, InitMembers DEF KInv

LEMMA NextKeeps == KInv /\ [Next]_vars => KInv'
<1> SUFFICES ASSUME KInv, [Next]_vars PROVE KInv'
  OBVIOUS
<1> USE DEF KInv, SignaturesVerify
<1>1. ASSUME Members', op' = Nothing
      PROVE  KInv'
  <2>1. op'.name = "none"
    BY <1>1 DEF Nothing
  <2> QED
    BY <1>1, <2>1, OtherCallsPromiseNothing
<1>2. CASE SetBytes
  BY <1>1, <1>2, SetBytesKeeps
<1>3. CASE MakeNewKey
  BY <1>1, <1>3, MakeNewKeyKeeps
<1>4. CASE SetPrivate
  BY <1>1, <1>4, SetPrivateKeeps
<1>5. CASE LoadKey
  BY <1>5, LoadKeyKeeps, OtherCallsPromiseNothing
<1>6. CASE TakePublic
  BY <1>1, <1>6, TakePublicKeeps
<1>7. CASE SetPub \/ ReadPub
  BY <1>1, <1>7, SetPubKeeps
<1>8. CASE Decompress
  BY <1>1, <1>8, DecompressKeeps
<1>9. CASE SignHash
  BY <1>9, SignHashKeeps, OtherCallsPromiseNothing
<1>10. CASE SignHashCompact
  BY <1>10, SignHashCompactKeeps, OtherCallsPromiseNothing
<1>11. CASE ReceiveSignature
  BY <1>1, <1>11, ReceiveSignatureKeeps
<1>12. CASE RecoverPub
  BY <1>12, RecoverPubKeeps, OtherCallsPromiseNothing
<1>13. CASE SetMaster
  BY <1>1, <1>13, SetMasterKeeps
<1>14. CASE DeriveChild
  BY <1>1, <1>14, DeriveChildKeeps
<1>15. CASE DerivePublicChild
  BY <1>1, <1>15, DerivePublicChildKeeps
<1>16. CASE Neuter
  BY <1>1, <1>16, NeuterKeeps
<1>17. CASE Decode
  BY <1>1, <1>17, DecodeKeeps
<1>18. CASE DecodePublic
  BY <1>1, <1>18, DecodePublicKeeps
<1>19. CASE UNCHANGED vars
  <2>1. Members'
    BY <1>19 DEF vars, Members
  <2>2. LoadMatches'
    BY <1>19 DEF vars, LoadMatches
  <2>3. SignedLow' /\ CompactRecovers'
    BY <1>19 DEF vars, SignedLow, CompactRecovers
  <2>4. RecoveredVerifies'
    BY <1>19 DEF vars, RecoveredVerifies
  <2> QED
    BY <2>1, <2>2, <2>3, <2>4
<1> QED
  BY <1>2, <1>3, <1>4, <1>5, <1>6, <1>7, <1>8, <1>9, <1>10, <1>11, <1>12, <1>13, <1>14, <1>15,
     <1>16, <1>17, <1>18, <1>19 DEF Next, Keeping, Publishing, Signing, Making, Deriving

LEMMA Invariant == Spec => []KInv
BY InitHolds, NextKeeps, PTL DEF Spec

\* The state of both keys keeps its types; a private key that says it is valid
\* is one, after any calls that fail or succeed, and Load answers for the public
\* key that it was given (CKey::Set, SetPrivKey, Load).
THEOREM KeysStaySound == Spec => []KeyIsSound
<1>1. KInv => KeyIsSound
  BY MembersSound DEF KInv, KeyIsSound
<1> QED
  BY <1>1, Invariant, PTL

\* For every curve of odd prime order, secret, hash and nonce: what Sign and
\* SignCompact make verifies in either form of the key and gives the key back
\* unless the candidate is the fourth; a key recovered from a signature of any
\* two numbers is valid unless it is infinity, and then verifies it unless one
\* of them is out of range.
THEOREM SignaturesAlwaysVerify == Spec => []SignaturesVerify
<1>1. KInv => SignaturesVerify
  BY DEF KInv
<1> QED
  BY <1>1, Invariant, PTL

\* For every curve and every hash: the private and the public derivation meet,
\* an extended key and a public key read back from their bytes, over any other
\* public key too, and the forms of a public key stand for one point.
THEOREM KeysAreAlwaysOne == Spec => []KeysAreOne
<1>1. KInv => KeysAreOne
  <2> SUFFICES ASSUME KInv PROVE KeysAreOne
    OBVIOUS
  <2>1. Members /\ SoundPub(pubkey)
    BY DEF KInv, Members
  <2> QED
    BY <2>1, HybridForms, DerivationsMeet, EncodingReads, SerializedReads, FormsMeet DEF KeysAreOne
<1> QED
  BY <1>1, Invariant, PTL

-----------------------------------------------------------------------------
(***************************************************************************)
(* LockedPages, for any number of blocks and pages.                        *)
(***************************************************************************)
\* The thread inside the critical section is the one that holds the mutex.
MutexHeld == \A b \in Blocks : pc[b] \in Critical <=> mutex = b

\* The loop variable stays inside the range of the block.
CursorInRange ==
  \A b \in Blocks :
    /\ pc[b] \in Critical => Length[b] # 0 /\ StartPage(b) <= page[b]
    /\ pc[b] \in {"mlock", "bump", "drop", "munlock"} => page[b] <= EndPage(b)

\* What histogram.find saw is still true when it is acted upon.
FoundIsFresh ==
  \A b \in Blocks :
    /\ pc[b] \in {"mlock", "munlock"} => histogram[page[b]] = 0
    /\ pc[b] \in {"bump", "drop"} => histogram[page[b]] > 0

PagesInv ==
  /\ PagesTypeOK
  /\ MutexHeld
  /\ CursorInRange
  /\ FoundIsFresh
  /\ HistogramExact
  /\ NoAssertFails
  /\ NoRemains

\* The pages of a block lie in the address space.
LEMMA PagesInRange ==
  ASSUME NEW b \in Blocks
  PROVE  /\ PagesOf(b) \subseteq Pages
         /\ StartPage(b) \in Nat
         /\ Length[b] # 0 => EndPage(b) \in Nat /\ EndPage(b) < NPages
<1>1. /\ Addr[b] \in Nat /\ Length[b] \in Nat /\ NPages \in Nat
      /\ PageSize \in Nat /\ PageSize > 0
      /\ Addr[b] + Length[b] <= NPages * PageSize
  BY RangeAssumption, PageAssumption
<1>2. StartPage(b) \in Nat
  BY <1>1 DEF StartPage
<1>3. Length[b] # 0 => EndPage(b) \in Nat /\ EndPage(b) < NPages
  <2> SUFFICES ASSUME Length[b] # 0
               PROVE  EndPage(b) \in Nat /\ EndPage(b) < NPages
    OBVIOUS
  <2> DEFINE x == Addr[b] + Length[b] - 1
  <2>1. x \in Nat /\ x < NPages * PageSize
    BY <1>1
  <2> HIDE DEF x
  <2>2. x \div PageSize \in Nat
    BY <1>1, <2>1
  <2>3. x \div PageSize < NPages
    BY <1>1, <2>1, <2>2
  <2> QED
    BY <2>2, <2>3 DEF EndPage, x
<1> QED
  BY <1>1, <1>2, <1>3 DEF PagesOf, Pages

\* CountedOn(p) is finite: its cardinality is a natural number, and zero only
\* when nobody is counted there.
LEMMA CountedFinite ==
  ASSUME NEW p
  PROVE  /\ IsFiniteSet(CountedOn(p))
         /\ Cardinality(CountedOn(p)) \in Nat
         /\ Cardinality(CountedOn(p)) = 0 <=> CountedOn(p) = {}
<1>1. IsFiniteSet(CountedOn(p))
  BY BlocksAssumption, FS_Subset DEF CountedOn
<1> QED
  BY <1>1, FS_CardinalityType, FS_EmptySet

\* A step after which the same blocks are counted everywhere, and which leaves
\* the histogram alone, keeps the counters exact.
LEMMA SameCounts ==
  ASSUME HistogramExact, histogram' = histogram,
         \A c \in Blocks : \A p \in Pages : Counted(c, p)' <=> Counted(c, p)
  PROVE  HistogramExact'
<1>1. \A p \in Pages : CountedOn(p)' = CountedOn(p)
  BY DEF CountedOn
<1> QED
  BY <1>1 DEF HistogramExact

\* A step that begins to count b on page q and adds one to its counter.
LEMMA OneMore ==
  ASSUME HistogramExact, NEW b \in Blocks, NEW q \in Pages,
         ~Counted(b, q), Counted(b, q)',
         histogram \in [Pages -> Nat],
         histogram' = [histogram EXCEPT ![q] = @ + 1],
         \A c \in Blocks : \A p \in Pages :
            c # b \/ p # q => (Counted(c, p)' <=> Counted(c, p))
  PROVE  HistogramExact'
<1> SUFFICES ASSUME NEW p \in Pages
             PROVE  histogram'[p] = Cardinality(CountedOn(p)')
  BY DEF HistogramExact
<1>1. CASE p # q
  <2>1. CountedOn(p)' = CountedOn(p)
    BY <1>1 DEF CountedOn
  <2> QED
    BY <1>1, <2>1 DEF HistogramExact
<1>2. CASE p = q
  <2>1. CountedOn(q)' = CountedOn(q) \cup {b} /\ b \notin CountedOn(q)
    BY DEF CountedOn
  <2>2. Cardinality(CountedOn(q) \cup {b}) = Cardinality(CountedOn(q)) + 1
    BY <2>1, CountedFinite, FS_AddElement
  <2> QED
    BY <1>2, <2>1, <2>2 DEF HistogramExact
<1> QED
  BY <1>1, <1>2

\* A step that ceases to count b on page q and takes one from its counter.
LEMMA OneLess ==
  ASSUME HistogramExact, NEW b \in Blocks, NEW q \in Pages,
         Counted(b, q), ~Counted(b, q)',
         histogram \in [Pages -> Nat],
         histogram' = [histogram EXCEPT ![q] = @ - 1],
         \A c \in Blocks : \A p \in Pages :
            c # b \/ p # q => (Counted(c, p)' <=> Counted(c, p))
  PROVE  HistogramExact'
<1> SUFFICES ASSUME NEW p \in Pages
             PROVE  histogram'[p] = Cardinality(CountedOn(p)')
  BY DEF HistogramExact
<1>1. CASE p # q
  <2>1. CountedOn(p)' = CountedOn(p)
    BY <1>1 DEF CountedOn
  <2> QED
    BY <1>1, <2>1 DEF HistogramExact
<1>2. CASE p = q
  <2>1. CountedOn(q)' = CountedOn(q) \ {b} /\ b \in CountedOn(q)
    BY DEF CountedOn
  <2>2. Cardinality(CountedOn(q) \ {b}) = Cardinality(CountedOn(q)) - 1
    BY <2>1, CountedFinite, FS_RemoveElement
  <2> QED
    BY <1>2, <2>1, <2>2 DEF HistogramExact
<1> QED
  BY <1>1, <1>2

\* A counted page has an entry, so the assert of UnlockRange cannot fire.
LEMMA CountedPositive ==
  ASSUME PagesTypeOK, HistogramExact,
         NEW b \in Blocks, NEW p \in Pages, Counted(b, p)
  PROVE  histogram[p] > 0
<1>1. b \in CountedOn(p)
  BY DEF CountedOn
<1>2. Cardinality(CountedOn(p)) \in Nat \ {0}
  BY <1>1, CountedFinite
<1> QED
  BY <1>2 DEF HistogramExact

-----------------------------------------------------------------------------
LEMMA InitIInv == PagesInit => PagesInv
<1> SUFFICES ASSUME PagesInit PROVE PagesInv
  OBVIOUS
<1>1. PagesTypeOK
  BY DEF PagesInit, PagesTypeOK, PCs
<1>2. MutexHeld /\ CursorInRange /\ FoundIsFresh /\ NoAssertFails /\ NoRemains
  BY BlocksAssumption DEF PagesInit, MutexHeld, CursorInRange, FoundIsFresh,
     NoAssertFails, NoRemains, Critical, LockPoints, UnlockPoints
<1>3. HistogramExact
  <2>1. \A p \in Pages : CountedOn(p) = {}
    BY DEF PagesInit, CountedOn, Counted, LockPoints
  <2> QED
    BY <2>1, CountedFinite DEF PagesInit, HistogramExact
<1> QED
  BY <1>1, <1>2, <1>3 DEF PagesInv

\* The page a thread adds to or takes from the histogram is one of its block's.
LEMMA CursorOnBlock ==
  ASSUME PagesInv, NEW b \in Blocks,
         \/ pc[b] \in {"mlock", "bump", "drop", "munlock"}
         \/ pc[b] \in {"lockPage", "unlockPage"} /\ page[b] <= EndPage(b)
  PROVE  \E q \in Pages : q = page[b] /\ q \in PagesOf(b) /\ q \in Nat
<1>1. /\ Length[b] # 0 /\ StartPage(b) <= page[b] /\ page[b] <= EndPage(b)
      /\ page[b] \in Nat
  BY DEF PagesInv, PagesTypeOK, CursorInRange, Critical, LockPoints, UnlockPoints
<1> QED
  BY <1>1, PagesInRange DEF PagesOf

\* Fresh storage is not counted yet.
LEMMA AllocateStep ==
  ASSUME PagesInv, NEW b \in Blocks, Allocate(b)
  PROVE  PagesInv'
<1> USE DEF PCs, Critical, LockPoints, UnlockPoints, Goto, NextPage
<1>1. PagesTypeOK'
  BY PagesInRange DEF PagesInv, PagesTypeOK, Allocate
<1>2. MutexHeld' /\ CursorInRange' /\ FoundIsFresh'
  BY PagesInRange, BlocksAssumption
     DEF PagesInv, PagesTypeOK, MutexHeld, CursorInRange, FoundIsFresh, Allocate
<1>3. NoAssertFails' /\ NoRemains'
  BY DEF PagesInv, PagesTypeOK, NoAssertFails, NoRemains, Allocate
<1>4. HistogramExact'
  <2>1. \A c \in Blocks : \A p \in Pages : Counted(c, p)' <=> Counted(c, p)
    BY PagesInRange
       DEF PagesInv, PagesTypeOK, CursorInRange, Counted, PagesOf, Pages, Allocate
  <2> QED
    BY <2>1, SameCounts DEF PagesInv, Allocate
<1> QED
  BY <1>1, <1>2, <1>3, <1>4 DEF PagesInv

\* LockRange starts before the first page of the block.
LEMMA EnterLockStep ==
  ASSUME PagesInv, NEW b \in Blocks, EnterLockRange(b)
  PROVE  PagesInv'
<1> USE DEF PCs, Critical, LockPoints, UnlockPoints, Goto, NextPage, Enter
<1>1. PagesTypeOK'
  BY PagesInRange DEF PagesInv, PagesTypeOK, EnterLockRange
<1>2. MutexHeld' /\ CursorInRange' /\ FoundIsFresh'
  BY PagesInRange, BlocksAssumption
     DEF PagesInv, PagesTypeOK, MutexHeld, CursorInRange, FoundIsFresh, EnterLockRange
<1>3. NoAssertFails' /\ NoRemains'
  BY DEF PagesInv, PagesTypeOK, NoAssertFails, NoRemains, EnterLockRange
<1>4. HistogramExact'
  <2>1. \A c \in Blocks : \A p \in Pages : Counted(c, p)' <=> Counted(c, p)
    BY PagesInRange
       DEF PagesInv, PagesTypeOK, CursorInRange, Counted, PagesOf, Pages, EnterLockRange
  <2> QED
    BY <2>1, SameCounts DEF PagesInv, EnterLockRange
<1> QED
  BY <1>1, <1>2, <1>3, <1>4 DEF PagesInv

\* The find of LockRange changes no counter.
LEMMA LockFindStep ==
  ASSUME PagesInv, NEW b \in Blocks, LockFind(b)
  PROVE  PagesInv'
<1>a. PICK q \in Pages : q = page[b] /\ q \in PagesOf(b) /\ q \in Nat
  <2>1. pc[b] = "lockPage" /\ page[b] <= EndPage(b)
    BY DEF LockFind
  <2> QED
    BY <2>1, CursorOnBlock
<1> USE DEF PCs, Critical, LockPoints, UnlockPoints, Goto, NextPage
<1>1. PagesTypeOK'
  BY <1>a DEF PagesInv, PagesTypeOK, LockFind
<1>2. MutexHeld' /\ CursorInRange' /\ FoundIsFresh'
  BY <1>a, PagesInRange, BlocksAssumption
     DEF PagesInv, PagesTypeOK, MutexHeld, CursorInRange, FoundIsFresh, LockFind
<1>3. NoAssertFails' /\ NoRemains'
  BY DEF PagesInv, PagesTypeOK, NoAssertFails, NoRemains, LockFind
<1>4. HistogramExact'
  <2>1. \A c \in Blocks : \A p \in Pages : Counted(c, p)' <=> Counted(c, p)
    BY PagesInRange
       DEF PagesInv, PagesTypeOK, CursorInRange, Counted, PagesOf, Pages, LockFind
  <2> QED
    BY <2>1, SameCounts DEF PagesInv, LockFind
<1> QED
  BY <1>1, <1>2, <1>3, <1>4 DEF PagesInv

\* When LockRange returns every page of the block has been counted.
LEMMA LockReturnStep ==
  ASSUME PagesInv, NEW b \in Blocks, LockReturn(b)
  PROVE  PagesInv'
<1> USE DEF PCs, Critical, LockPoints, UnlockPoints, Goto, NextPage, Return
<1>1. PagesTypeOK'
  BY PagesInRange DEF PagesInv, PagesTypeOK, LockReturn
<1>2. MutexHeld' /\ CursorInRange' /\ FoundIsFresh'
  BY PagesInRange, BlocksAssumption
     DEF PagesInv, PagesTypeOK, MutexHeld, CursorInRange, FoundIsFresh, LockReturn
<1>3. NoAssertFails' /\ NoRemains'
  BY DEF PagesInv, PagesTypeOK, NoAssertFails, NoRemains, LockReturn
<1>4. HistogramExact'
  <2>1. \A c \in Blocks : \A p \in Pages : Counted(c, p)' <=> Counted(c, p)
    BY PagesInRange
       DEF PagesInv, PagesTypeOK, CursorInRange, Counted, PagesOf, Pages, LockReturn
  <2> QED
    BY <2>1, SameCounts DEF PagesInv, LockReturn
<1> QED
  BY <1>1, <1>2, <1>3, <1>4 DEF PagesInv

\* Writing a secret moves no counter.
LEMMA WriteStep ==
  ASSUME PagesInv, NEW b \in Blocks, Write(b)
  PROVE  PagesInv'
<1> USE DEF PCs, Critical, LockPoints, UnlockPoints, Goto, NextPage
<1>1. PagesTypeOK'
  BY PagesInRange DEF PagesInv, PagesTypeOK, Write
<1>2. MutexHeld' /\ CursorInRange' /\ FoundIsFresh'
  BY PagesInRange, BlocksAssumption
     DEF PagesInv, PagesTypeOK, MutexHeld, CursorInRange, FoundIsFresh, Write
<1>3. NoAssertFails' /\ NoRemains'
  BY DEF PagesInv, PagesTypeOK, NoAssertFails, NoRemains, Write
<1>4. HistogramExact'
  <2>1. \A c \in Blocks : \A p \in Pages : Counted(c, p)' <=> Counted(c, p)
    BY PagesInRange
       DEF PagesInv, PagesTypeOK, CursorInRange, Counted, PagesOf, Pages, Write
  <2> QED
    BY <2>1, SameCounts DEF PagesInv, Write
<1> QED
  BY <1>1, <1>2, <1>3, <1>4 DEF PagesInv

\* A cleansed block is still counted on its pages.
LEMMA CleanseStep ==
  ASSUME PagesInv, NEW b \in Blocks, Cleanse(b)
  PROVE  PagesInv'
<1> USE DEF PCs, Critical, LockPoints, UnlockPoints, Goto, NextPage
<1>1. PagesTypeOK'
  BY PagesInRange DEF PagesInv, PagesTypeOK, Cleanse
<1>2. MutexHeld' /\ CursorInRange' /\ FoundIsFresh'
  BY PagesInRange, BlocksAssumption
     DEF PagesInv, PagesTypeOK, MutexHeld, CursorInRange, FoundIsFresh, Cleanse
<1>3. NoAssertFails' /\ NoRemains'
  BY DEF PagesInv, PagesTypeOK, NoAssertFails, NoRemains, Cleanse
<1>4. HistogramExact'
  <2>1. \A c \in Blocks : \A p \in Pages : Counted(c, p)' <=> Counted(c, p)
    BY PagesInRange
       DEF PagesInv, PagesTypeOK, CursorInRange, Counted, PagesOf, Pages, Cleanse
  <2> QED
    BY <2>1, SameCounts DEF PagesInv, Cleanse
<1> QED
  BY <1>1, <1>2, <1>3, <1>4 DEF PagesInv

\* UnlockRange starts with every page of the block still counted.
LEMMA EnterUnlockStep ==
  ASSUME PagesInv, NEW b \in Blocks, EnterUnlockRange(b)
  PROVE  PagesInv'
<1> USE DEF PCs, Critical, LockPoints, UnlockPoints, Goto, NextPage, Enter
<1>1. PagesTypeOK'
  BY PagesInRange DEF PagesInv, PagesTypeOK, EnterUnlockRange
<1>2. MutexHeld' /\ CursorInRange' /\ FoundIsFresh'
  BY PagesInRange, BlocksAssumption
     DEF PagesInv, PagesTypeOK, MutexHeld, CursorInRange, FoundIsFresh, EnterUnlockRange
<1>3. NoAssertFails' /\ NoRemains'
  BY DEF PagesInv, PagesTypeOK, NoAssertFails, NoRemains, EnterUnlockRange
<1>4. HistogramExact'
  <2>1. \A c \in Blocks : \A p \in Pages : Counted(c, p)' <=> Counted(c, p)
    BY PagesInRange
       DEF PagesInv, PagesTypeOK, CursorInRange, Counted, PagesOf, Pages, EnterUnlockRange
  <2> QED
    BY <2>1, SameCounts DEF PagesInv, EnterUnlockRange
<1> QED
  BY <1>1, <1>2, <1>3, <1>4 DEF PagesInv

\* When UnlockRange returns no page of the block is counted.
LEMMA UnlockReturnStep ==
  ASSUME PagesInv, NEW b \in Blocks, UnlockReturn(b)
  PROVE  PagesInv'
<1> USE DEF PCs, Critical, LockPoints, UnlockPoints, Goto, NextPage, Return
<1>1. PagesTypeOK'
  BY PagesInRange DEF PagesInv, PagesTypeOK, UnlockReturn
<1>2. MutexHeld' /\ CursorInRange' /\ FoundIsFresh'
  BY PagesInRange, BlocksAssumption
     DEF PagesInv, PagesTypeOK, MutexHeld, CursorInRange, FoundIsFresh, UnlockReturn
<1>3. NoAssertFails' /\ NoRemains'
  BY DEF PagesInv, PagesTypeOK, NoAssertFails, NoRemains, UnlockReturn
<1>4. HistogramExact'
  <2>1. \A c \in Blocks : \A p \in Pages : Counted(c, p)' <=> Counted(c, p)
    BY PagesInRange
       DEF PagesInv, PagesTypeOK, CursorInRange, Counted, PagesOf, Pages, UnlockReturn
  <2> QED
    BY <2>1, SameCounts DEF PagesInv, UnlockReturn
<1> QED
  BY <1>1, <1>2, <1>3, <1>4 DEF PagesInv

\* Freeing unlocked storage changes no counter.
LEMMA FreeStep ==
  ASSUME PagesInv, NEW b \in Blocks, Free(b)
  PROVE  PagesInv'
<1> USE DEF PCs, Critical, LockPoints, UnlockPoints, Goto, NextPage
<1>1. PagesTypeOK'
  BY PagesInRange DEF PagesInv, PagesTypeOK, Free
<1>2. MutexHeld' /\ CursorInRange' /\ FoundIsFresh'
  BY PagesInRange, BlocksAssumption
     DEF PagesInv, PagesTypeOK, MutexHeld, CursorInRange, FoundIsFresh, Free
<1>3. NoAssertFails' /\ NoRemains'
  BY DEF PagesInv, PagesTypeOK, NoAssertFails, NoRemains, Free
<1>4. HistogramExact'
  <2>1. \A c \in Blocks : \A p \in Pages : Counted(c, p)' <=> Counted(c, p)
    BY PagesInRange
       DEF PagesInv, PagesTypeOK, CursorInRange, Counted, PagesOf, Pages, Free
  <2> QED
    BY <2>1, SameCounts DEF PagesInv, Free
<1> QED
  BY <1>1, <1>2, <1>3, <1>4 DEF PagesInv

\* A newly locked page gets its first count.
LEMMA MlockStep ==
  ASSUME PagesInv, NEW b \in Blocks, MlockPage(b)
  PROVE  PagesInv'
<1>a. PICK q \in Pages : q = page[b] /\ q \in PagesOf(b) /\ q \in Nat
  <2>1. pc[b] = "mlock"
    BY DEF MlockPage
  <2> QED
    BY <2>1, CursorOnBlock
<1> USE DEF PCs, Critical, LockPoints, UnlockPoints, Goto, NextPage
<1>1. PagesTypeOK'
  <2>1. PagesTypeOK
    BY DEF PagesInv
  <2>2. pc' \in [Blocks -> PCs] /\ page' \in [Blocks -> Nat]
    BY <2>1 DEF PagesTypeOK, MlockPage
  <2>3. histogram' \in [Pages -> Nat] /\ osLocked' \in SUBSET Pages
    BY <1>a, <2>1 DEF PagesTypeOK, MlockPage
  <2> QED
    BY <2>1, <2>2, <2>3 DEF PagesTypeOK, MlockPage
<1>2. MutexHeld' /\ CursorInRange' /\ FoundIsFresh'
  BY <1>a, PagesInRange, BlocksAssumption
     DEF PagesInv, PagesTypeOK, MutexHeld, CursorInRange, FoundIsFresh, MlockPage
<1>3. NoAssertFails' /\ NoRemains'
  BY DEF PagesInv, PagesTypeOK, NoAssertFails, NoRemains, MlockPage
<1>4. HistogramExact'
  <2>1. ~Counted(b, q) /\ Counted(b, q)'
    BY <1>a DEF PagesInv, PagesTypeOK, Counted, MlockPage
  <2>2. ASSUME NEW c \in Blocks, NEW p \in Pages, c # b \/ p # q
        PROVE  Counted(c, p)' <=> Counted(c, p)
    BY <1>a, <2>2
       DEF PagesInv, PagesTypeOK, Counted, Pages, MlockPage
  <2>3. histogram' = [histogram EXCEPT ![q] = @ + 1]
    <3>1. histogram[q] = 0
      BY <1>a DEF PagesInv, FoundIsFresh, MlockPage
    <3>2. histogram' = [histogram EXCEPT ![q] = IF @ = 0 THEN 1 ELSE @]
      BY <1>a DEF MlockPage
    <3> QED
      BY <3>1, <3>2
  <2> QED
    BY <2>1, <2>2, <2>3, <1>a, OneMore DEF PagesInv, PagesTypeOK, MlockPage
<1> QED
  BY <1>1, <1>2, <1>3, <1>4 DEF PagesInv

\* A page already locked gets one count more.
LEMMA BumpStep ==
  ASSUME PagesInv, NEW b \in Blocks, BumpPage(b)
  PROVE  PagesInv'
<1>a. PICK q \in Pages : q = page[b] /\ q \in PagesOf(b) /\ q \in Nat
  <2>1. pc[b] = "bump"
    BY DEF BumpPage
  <2> QED
    BY <2>1, CursorOnBlock
<1> USE DEF PCs, Critical, LockPoints, UnlockPoints, Goto, NextPage
<1>1. PagesTypeOK'
  BY <1>a DEF PagesInv, PagesTypeOK, BumpPage
<1>2. MutexHeld' /\ CursorInRange' /\ FoundIsFresh'
  BY <1>a, PagesInRange, BlocksAssumption
     DEF PagesInv, PagesTypeOK, MutexHeld, CursorInRange, FoundIsFresh, BumpPage
<1>3. NoAssertFails' /\ NoRemains'
  BY DEF PagesInv, PagesTypeOK, NoAssertFails, NoRemains, BumpPage
<1>4. HistogramExact'
  <2>1. ~Counted(b, q) /\ Counted(b, q)'
    BY <1>a DEF PagesInv, PagesTypeOK, Counted, BumpPage
  <2>2. ASSUME NEW c \in Blocks, NEW p \in Pages, c # b \/ p # q
        PROVE  Counted(c, p)' <=> Counted(c, p)
    BY <1>a, <2>2
       DEF PagesInv, PagesTypeOK, Counted, Pages, BumpPage
  <2>3. histogram' = [histogram EXCEPT ![q] = @ + 1]
    BY <1>a DEF PagesInv, PagesTypeOK, FoundIsFresh, BumpPage
  <2> QED
    BY <2>1, <2>2, <2>3, <1>a, OneMore DEF PagesInv, PagesTypeOK, BumpPage
<1> QED
  BY <1>1, <1>2, <1>3, <1>4 DEF PagesInv

\* The assert of UnlockRange holds: the page it looks up is counted.
LEMMA UnlockFindStep ==
  ASSUME PagesInv, NEW b \in Blocks, UnlockFind(b)
  PROVE  PagesInv'
<1>a. PICK q \in Pages : q = page[b] /\ q \in PagesOf(b) /\ q \in Nat
  <2>1. pc[b] = "unlockPage" /\ page[b] <= EndPage(b)
    BY DEF UnlockFind
  <2> QED
    BY <2>1, CursorOnBlock
<1> USE DEF PCs, Critical, LockPoints, UnlockPoints, Goto, NextPage
<1>0. histogram[q] > 0
  <2>1. Counted(b, q)
    BY <1>a DEF PagesInv, PagesTypeOK, Counted, UnlockFind
  <2> QED
    BY <2>1, <1>a, CountedPositive DEF PagesInv, UnlockFind
<1>1. PagesTypeOK'
  BY <1>a DEF PagesInv, PagesTypeOK, UnlockFind
<1>2. MutexHeld' /\ CursorInRange' /\ FoundIsFresh'
  BY <1>a, <1>0, PagesInRange, BlocksAssumption
     DEF PagesInv, PagesTypeOK, MutexHeld, CursorInRange, FoundIsFresh, UnlockFind
<1>3. NoAssertFails' /\ NoRemains'
  BY <1>0, <1>a DEF PagesInv, PagesTypeOK, NoAssertFails, NoRemains, UnlockFind
<1>4. HistogramExact'
  <2>1. \A c \in Blocks : \A p \in Pages : Counted(c, p)' <=> Counted(c, p)
    BY PagesInRange
       DEF PagesInv, PagesTypeOK, CursorInRange, Counted, PagesOf, Pages, UnlockFind
  <2> QED
    BY <2>1, SameCounts DEF PagesInv, UnlockFind
<1> QED
  BY <1>1, <1>2, <1>3, <1>4 DEF PagesInv

\* Dropping a page ends its count for this block.
LEMMA DropStep ==
  ASSUME PagesInv, NEW b \in Blocks, DropPage(b)
  PROVE  PagesInv'
<1>a. PICK q \in Pages : q = page[b] /\ q \in PagesOf(b) /\ q \in Nat
  <2>1. pc[b] = "drop"
    BY DEF DropPage
  <2> QED
    BY <2>1, CursorOnBlock
<1> USE DEF PCs, Critical, LockPoints, UnlockPoints, Goto, NextPage
<1>1. PagesTypeOK'
  BY <1>a DEF PagesInv, PagesTypeOK, FoundIsFresh, DropPage
<1>2. MutexHeld' /\ CursorInRange' /\ FoundIsFresh'
  BY <1>a, PagesInRange, BlocksAssumption
     DEF PagesInv, PagesTypeOK, MutexHeld, CursorInRange, FoundIsFresh, DropPage
<1>3. NoAssertFails' /\ NoRemains'
  BY DEF PagesInv, PagesTypeOK, NoAssertFails, NoRemains, DropPage
<1>4. HistogramExact'
  <2>1. Counted(b, q) /\ ~Counted(b, q)'
    BY <1>a DEF PagesInv, PagesTypeOK, Counted, DropPage
  <2>2. ASSUME NEW c \in Blocks, NEW p \in Pages, c # b \/ p # q
        PROVE  Counted(c, p)' <=> Counted(c, p)
    BY <1>a, <2>2
       DEF PagesInv, PagesTypeOK, Counted, Pages, DropPage
  <2> QED
    BY <2>1, <2>2, <1>a, OneLess DEF PagesInv, PagesTypeOK, DropPage
<1> QED
  BY <1>1, <1>2, <1>3, <1>4 DEF PagesInv

\* Erasing the entry of a page nobody is counted on changes no counter.
LEMMA MunlockStep ==
  ASSUME PagesInv, NEW b \in Blocks, MunlockPage(b)
  PROVE  PagesInv'
<1>a. PICK q \in Pages : q = page[b] /\ q \in PagesOf(b) /\ q \in Nat
  <2>1. pc[b] = "munlock"
    BY DEF MunlockPage
  <2> QED
    BY <2>1, CursorOnBlock
<1> USE DEF PCs, Critical, LockPoints, UnlockPoints, Goto, NextPage
<1>1. PagesTypeOK'
  <2>1. PagesTypeOK
    BY DEF PagesInv
  <2>2. pc' \in [Blocks -> PCs] /\ page' \in [Blocks -> Nat]
    BY <2>1 DEF PagesTypeOK, MunlockPage
  <2>3. histogram' \in [Pages -> Nat] /\ osLocked' \in SUBSET Pages
    BY <1>a, <2>1 DEF PagesTypeOK, MunlockPage
  <2> QED
    BY <2>1, <2>2, <2>3 DEF PagesTypeOK, MunlockPage
<1>2. MutexHeld' /\ CursorInRange' /\ FoundIsFresh'
  BY <1>a, PagesInRange, BlocksAssumption
     DEF PagesInv, PagesTypeOK, MutexHeld, CursorInRange, FoundIsFresh, MunlockPage
<1>3. NoAssertFails' /\ NoRemains'
  BY DEF PagesInv, PagesTypeOK, NoAssertFails, NoRemains, MunlockPage
<1>4. HistogramExact'
  <2>1. \A c \in Blocks : \A p \in Pages : Counted(c, p)' <=> Counted(c, p)
    BY <1>a
       DEF PagesInv, PagesTypeOK, CursorInRange, Counted, Pages, MunlockPage
  <2>2. histogram' = histogram
    BY <1>a DEF PagesInv, PagesTypeOK, FoundIsFresh, MunlockPage
  <2> QED
    BY <2>1, <2>2, SameCounts DEF PagesInv, MunlockPage
<1> QED
  BY <1>1, <1>2, <1>3, <1>4 DEF PagesInv

\* When no block is in use the counters are zero, so the destructor's assert
\* holds.
LEMMA DestroyStep ==
  ASSUME PagesInv, DestroyManager
  PROVE  PagesInv'
<1>1. LockedPageCount = 0
  <2>1. \A p \in Pages : CountedOn(p) = {}
    BY DEF DestroyManager, CountedOn, Counted, LockPoints
  <2>2. \A p \in Pages : histogram[p] = 0
    BY <2>1, CountedFinite DEF PagesInv, HistogramExact
  <2>3. {p \in Pages : histogram[p] > 0} = {}
    BY <2>2
  <2> QED
    BY <2>3, FS_EmptySet DEF LockedPageCount
<1>2. /\ PagesTypeOK' /\ MutexHeld' /\ CursorInRange' /\ FoundIsFresh'
      /\ NoAssertFails' /\ NoRemains'
  BY <1>1 DEF PagesInv, PagesTypeOK, MutexHeld, CursorInRange, FoundIsFresh,
     NoAssertFails, NoRemains, DestroyManager
<1>3. HistogramExact'
  <2>1. \A c \in Blocks : \A p \in Pages : Counted(c, p)' <=> Counted(c, p)
    BY DEF Counted, DestroyManager
  <2> QED
    BY <2>1, SameCounts DEF PagesInv, DestroyManager
<1> QED
  BY <1>2, <1>3 DEF PagesInv

\* PagesInv is inductive.
LEMMA NextIInv == PagesInv /\ [PagesNext]_pageVars => PagesInv'
<1> SUFFICES ASSUME PagesInv, [PagesNext]_pageVars PROVE PagesInv'
  OBVIOUS
<1>1. ASSUME NEW b \in Blocks, BlockStep(b) PROVE PagesInv'
  BY <1>1, AllocateStep, EnterLockStep, LockFindStep, MlockStep, BumpStep,
     LockReturnStep, WriteStep, CleanseStep, EnterUnlockStep, UnlockFindStep,
     DropStep, MunlockStep, UnlockReturnStep, FreeStep
     DEF BlockStep, CriticalStep
<1>2. CASE DestroyManager
  BY <1>2, DestroyStep
<1>3. CASE UNCHANGED pageVars
  <2>1. \A c \in Blocks : \A p \in Pages : Counted(c, p)' <=> Counted(c, p)
    BY <1>3 DEF pageVars, Counted
  <2>2. HistogramExact'
    BY <1>3, <2>1, SameCounts DEF PagesInv, pageVars
  <2> QED
    BY <1>3, <2>2 DEF PagesInv, pageVars, PagesTypeOK, MutexHeld, CursorInRange,
       FoundIsFresh, NoAssertFails, NoRemains
<1> QED
  BY <1>1, <1>2, <1>3 DEF PagesNext, Ended

THEOREM InductiveInvariant == PagesSpec => []PagesInv
<1> QED
  BY InitIInv, NextIInv, PTL DEF PagesSpec

-----------------------------------------------------------------------------
\* Every variable keeps its type; in particular no counter of the histogram
\* ever becomes negative.
THEOREM TypeCorrect == PagesSpec => []PagesTypeOK
<1>1. PagesInv => PagesTypeOK
  BY DEF PagesInv
<1> QED
  BY <1>1, InductiveInvariant, PTL

\* Whatever the blocks, their pages and the interleaving of their threads, the
\* counter of a page is the number of blocks that LockRange has counted on it
\* and UnlockRange has not dropped yet, even where mlock fails.
THEOREM HistogramAlwaysExact == PagesSpec => []HistogramExact
<1>1. PagesInv => HistogramExact
  BY DEF PagesInv
<1> QED
  BY <1>1, InductiveInvariant, PTL

\* No assert of allocators.h fires: neither the one on an unknown page in
\* UnlockRange nor the one on leftover pages in the destructor.
THEOREM AssertsHold == PagesSpec => []NoAssertFails
<1>1. PagesInv => NoAssertFails
  BY DEF PagesInv
<1> QED
  BY <1>1, InductiveInvariant, PTL

\* A block that is being unlocked or is free holds no key material.
THEOREM NothingRemains == PagesSpec => []NoRemains
<1>1. PagesInv => NoRemains
  BY DEF PagesInv
<1> QED
  BY <1>1, InductiveInvariant, PTL

-----------------------------------------------------------------------------
(***************************************************************************)
(* What the operating system does.  From here on mlock succeeds.           *)
(***************************************************************************)
Erasing(p) == \E b \in Blocks : pc[b] = "munlock" /\ page[b] = p

\* The system's locks follow the histogram; between the decrement to zero and
\* the munlock the page is locked without an entry.
OsFollows ==
  \A p \in Pages : p \in osLocked <=> histogram[p] > 0 \/ Erasing(p)

LEMMA InitOsFollows == PagesInit => OsFollows
  BY DEF PagesInit, OsFollows, Erasing

\* A step that touches neither the histogram nor mlock nor a block at munlock.
LEMMA OsUntouched ==
  ASSUME OsFollows, histogram' = histogram, osLocked' = osLocked,
         \A p \in Pages : Erasing(p)' <=> Erasing(p)
  PROVE  OsFollows'
  BY DEF OsFollows

LEMMA MlockOs ==
  ASSUME PagesInv, OsFollows, MlockOutcomes = {TRUE}, NEW b \in Blocks, MlockPage(b)
  PROVE  OsFollows'
<1>1. PICK q \in Pages : q = page[b] /\ q \in PagesOf(b) /\ q \in Nat
  <2>1. pc[b] = "mlock"
    BY DEF MlockPage
  <2> QED
    BY <2>1, CursorOnBlock
<1>2. /\ osLocked' = osLocked \cup {q}
      /\ histogram \in [Pages -> Nat]
      /\ histogram' = [histogram EXCEPT ![q] = IF @ = 0 THEN 1 ELSE @]
  BY <1>1 DEF MlockPage, PagesInv, PagesTypeOK
<1>3. \A p \in Pages : Erasing(p)' <=> Erasing(p)
  BY DEF PagesInv, PagesTypeOK, MlockPage, Erasing, Goto, NextPage
<1>4. histogram'[q] > 0 /\ \A p \in Pages : p # q => histogram'[p] = histogram[p]
  BY <1>2
<1> QED
  BY <1>2, <1>3, <1>4 DEF OsFollows

LEMMA BumpOs ==
  ASSUME PagesInv, OsFollows, NEW b \in Blocks, BumpPage(b)
  PROVE  OsFollows'
<1>1. PICK q \in Pages : q = page[b] /\ q \in PagesOf(b) /\ q \in Nat
  <2>1. pc[b] = "bump"
    BY DEF BumpPage
  <2> QED
    BY <2>1, CursorOnBlock
<1>2. /\ osLocked' = osLocked
      /\ histogram \in [Pages -> Nat]
      /\ histogram[q] > 0
      /\ histogram' = [histogram EXCEPT ![q] = @ + 1]
  BY <1>1 DEF BumpPage, PagesInv, PagesTypeOK, FoundIsFresh
<1>3. \A p \in Pages : Erasing(p)' <=> Erasing(p)
  BY DEF PagesInv, PagesTypeOK, BumpPage, Erasing, Goto, NextPage
<1>4. \A p \in Pages : histogram'[p] > 0 <=> histogram[p] > 0
  BY <1>2
<1> QED
  BY <1>2, <1>3, <1>4 DEF OsFollows

LEMMA DropOs ==
  ASSUME PagesInv, OsFollows, NEW b \in Blocks, DropPage(b)
  PROVE  OsFollows'
<1>1. PICK q \in Pages : q = page[b] /\ q \in PagesOf(b) /\ q \in Nat
  <2>1. pc[b] = "drop"
    BY DEF DropPage
  <2> QED
    BY <2>1, CursorOnBlock
<1>2. /\ osLocked' = osLocked
      /\ histogram \in [Pages -> Nat]
      /\ histogram[q] > 0
      /\ histogram' = [histogram EXCEPT ![q] = @ - 1]
  BY <1>1 DEF DropPage, PagesInv, PagesTypeOK, FoundIsFresh
<1>3. /\ \A p \in Pages : p # q => (Erasing(p)' <=> Erasing(p))
      /\ Erasing(q)' <=> Erasing(q) \/ histogram[q] = 1
  BY <1>1 DEF PagesInv, PagesTypeOK, DropPage, Erasing, Goto, NextPage
<1>4. /\ \A p \in Pages : p # q => histogram'[p] = histogram[p]
      /\ histogram'[q] > 0 <=> histogram[q] # 1
  BY <1>2
<1> QED
  BY <1>2, <1>3, <1>4 DEF OsFollows

LEMMA MunlockOs ==
  ASSUME PagesInv, OsFollows, NEW b \in Blocks, MunlockPage(b)
  PROVE  OsFollows'
<1>1. PICK q \in Pages : q = page[b] /\ q \in PagesOf(b) /\ q \in Nat
  <2>1. pc[b] = "munlock"
    BY DEF MunlockPage
  <2> QED
    BY <2>1, CursorOnBlock
<1>2. /\ osLocked' = osLocked \ {q}
      /\ histogram \in [Pages -> Nat]
      /\ histogram' = [histogram EXCEPT ![q] = 0]
  BY <1>1 DEF MunlockPage, PagesInv, PagesTypeOK
<1>3. \A c \in Blocks : pc[c] = "munlock" => c = b
  BY DEF PagesInv, MutexHeld, MunlockPage, Critical, UnlockPoints
<1>4. /\ \A p \in Pages : p # q => (Erasing(p)' <=> Erasing(p))
      /\ ~Erasing(q)'
  BY <1>1, <1>3 DEF PagesInv, PagesTypeOK, MunlockPage, Erasing, Goto, NextPage
<1>5. /\ \A p \in Pages : p # q => histogram'[p] = histogram[p]
      /\ histogram'[q] = 0
  BY <1>2
<1> QED
  BY <1>2, <1>4, <1>5 DEF OsFollows

LEMMA NextOsFollows ==
  ASSUME MlockOutcomes = {TRUE}
  PROVE  PagesInv /\ OsFollows /\ [PagesNext]_pageVars => OsFollows'
<1> SUFFICES ASSUME PagesInv, OsFollows, [PagesNext]_pageVars PROVE OsFollows'
  OBVIOUS
<1>1. ASSUME NEW b \in Blocks,
             \/ Allocate(b) \/ EnterLockRange(b) \/ Write(b) \/ Cleanse(b)
             \/ EnterUnlockRange(b) \/ Free(b) \/ LockFind(b) \/ UnlockFind(b)
             \/ LockReturn(b) \/ UnlockReturn(b)
      PROVE  OsFollows'
  <2>1. histogram' = histogram /\ osLocked' = osLocked
    BY <1>1 DEF Allocate, EnterLockRange, EnterUnlockRange, Enter, Write,
       Cleanse, Free, LockFind, UnlockFind, LockReturn, UnlockReturn, Return
  <2>2. \A p \in Pages : Erasing(p)' <=> Erasing(p)
    BY <1>1 DEF PagesInv, PagesTypeOK, Erasing, Goto, Allocate, EnterLockRange,
       EnterUnlockRange, Enter, Write, Cleanse, Free, LockFind, UnlockFind,
       LockReturn, UnlockReturn, Return
  <2> QED
    BY <2>1, <2>2, OsUntouched
<1>2. CASE DestroyManager \/ UNCHANGED pageVars
  BY <1>2, OsUntouched DEF DestroyManager, pageVars, Erasing
<1> QED
  BY <1>1, <1>2, MlockOs, BumpOs, DropOs, MunlockOs
     DEF PagesNext, Ended, BlockStep, CriticalStep

\* The locks of the system follow the histogram for ever.
THEOREM OsAlwaysFollows ==
  ASSUME MlockOutcomes = {TRUE}
  PROVE  PagesSpec => [](PagesInv /\ OsFollows)
<1> QED
  BY InductiveInvariant, InitOsFollows, NextOsFollows, PTL DEF PagesSpec

\* Every page of a block that is in use by its owner is locked.
LEMMA HeldIsPinned ==
  ASSUME PagesInv, OsFollows, NEW b \in Blocks, pc[b] \in {"held", "cleansed"}
  PROVE  PagesOf(b) \subseteq osLocked
<1> SUFFICES ASSUME NEW p \in PagesOf(b) PROVE p \in osLocked
  OBVIOUS
<1>1. p \in Pages
  BY PagesInRange
<1>2. Counted(b, p)
  BY DEF Counted
<1>3. histogram[p] > 0
  BY <1>1, <1>2, CountedPositive DEF PagesInv
<1> QED
  BY <1>1, <1>3 DEF OsFollows

\* Key material is on locked pages in every state, however many blocks share
\* its pages and whatever threads release: the stacking of locks that
\* allocators.h sets out to simulate.
THEOREM SecretsAlwaysPinned ==
  ASSUME MlockOutcomes = {TRUE}
  PROVE  PagesSpec => []SecretsPinned
<1>1. PagesInv /\ OsFollows => SecretsPinned
  <2> SUFFICES ASSUME PagesInv, OsFollows, NEW b \in dirty
               PROVE  PagesOf(b) \subseteq osLocked
    BY DEF SecretsPinned
  <2>1. b \in Blocks /\ pc[b] = "held"
    BY DEF PagesInv, PagesTypeOK, NoRemains
  <2> QED
    BY <2>1, HeldIsPinned
<1> QED
  BY <1>1, OsAlwaysFollows, PTL

\* Outside the critical section the system's locks are exactly those that
\* blocks need.
THEOREM LocksAlwaysNeeded ==
  ASSUME MlockOutcomes = {TRUE}
  PROVE  PagesSpec => []LocksNeeded
<1>1. PagesInv /\ OsFollows => LocksNeeded
  <2> SUFFICES ASSUME PagesInv, OsFollows, mutex = NoBlock, NEW p \in Pages
               PROVE  p \in osLocked <=> CountedOn(p) # {}
    BY DEF LocksNeeded, PagesInv, PagesTypeOK
  <2>1. ~Erasing(p)
    BY BlocksAssumption
       DEF PagesInv, MutexHeld, Erasing, Critical, UnlockPoints
  <2>2. histogram[p] > 0 <=> CountedOn(p) # {}
    BY CountedFinite DEF PagesInv, HistogramExact
  <2> QED
    BY <2>1, <2>2 DEF OsFollows
<1> QED
  BY <1>1, OsAlwaysFollows, PTL

-----------------------------------------------------------------------------
(***************************************************************************)
(* Refinement: LockedPages implements PinnedPages.                         *)
(***************************************************************************)
Held == {b \in Blocks : pc[b] = "held"}

LEMMA PromiseInit == PagesInit => Promise!AInit
  BY DEF PagesInit, Promise!AInit

\* A step that neither locks nor releases a block for its owner and leaves the
\* system's locks alone is a stutter.
LEMMA PromiseStutter ==
  ASSUME NEW b \in Blocks, PagesTypeOK,
         \/ Allocate(b) \/ Write(b) \/ EnterUnlockRange(b) \/ Free(b)
         \/ LockFind(b) \/ BumpPage(b) \/ UnlockFind(b) \/ DropPage(b)
         \/ UnlockReturn(b)
  PROVE  UNCHANGED Promise!avars
<1>1. Held' = Held
  BY DEF PagesTypeOK, Held, Goto, Allocate, Write, EnterUnlockRange, Enter, Free,
     LockFind, BumpPage, UnlockFind, DropPage, UnlockReturn, Return
<1>2. osLocked' = osLocked
  BY DEF Allocate, Write, EnterUnlockRange, Enter, Free,
     LockFind, BumpPage, UnlockFind, DropPage, UnlockReturn, Return
<1> QED
  BY <1>1, <1>2 DEF Held, Promise!avars

\* LockRange returns: the block becomes protected, and by then all of its pages
\* are locked.
LEMMA PromiseProtect ==
  ASSUME PagesInv, OsFollows, NEW b \in Blocks, PagesInv', OsFollows',
         EnterLockRange(b) \/ LockReturn(b)
  PROVE  Promise!Protect(b) \/ UNCHANGED Promise!avars
<1>1. osLocked' = osLocked
  BY DEF EnterLockRange, Enter, LockReturn, Return
<1>2. CASE pc'[b] = "held"
  <2>1. Held' = Held \cup {b} /\ b \notin Held
    BY <1>2 DEF PagesInv, PagesTypeOK, Held, EnterLockRange, Enter, LockReturn, Return, Goto
  <2>2. (PagesOf(b) \subseteq osLocked)'
    <3>1. (pc[b] \in {"held", "cleansed"})'
      BY <1>2
    <3>2. ASSUME NEW p \in PagesOf(b) PROVE p \in osLocked'
      <4>1. p \in Pages
        BY PagesInRange
      <4>2. Counted(b, p)'
        BY <3>1 DEF Counted, PagesOf, StartPage, EndPage
      <4>3. b \in CountedOn(p)'
        BY <4>2 DEF CountedOn
      <4>4. IsFiniteSet(CountedOn(p)')
        BY BlocksAssumption, FS_Subset DEF CountedOn
      <4>5. Cardinality(CountedOn(p)') \in Nat \ {0}
        BY <4>3, <4>4, FS_CardinalityType, FS_EmptySet
      <4>6. histogram'[p] > 0
        BY <4>1, <4>5 DEF PagesInv, HistogramExact
      <4> QED
        BY <4>1, <4>6 DEF OsFollows
    <3> QED
      BY <3>2 DEF PagesOf, StartPage, EndPage
  <2>3. PageMap[b] \subseteq osLocked
    BY <1>1, <2>2 DEF PageMap, PagesOf, StartPage, EndPage
  <2> QED
    BY <1>1, <2>1, <2>3 DEF Held, Promise!Protect
<1>3. CASE pc'[b] # "held"
  <2>1. Held' = Held
    BY <1>3 DEF PagesInv, PagesTypeOK, Held, EnterLockRange, Enter, LockReturn, Return, Goto
  <2> QED
    BY <1>1, <2>1 DEF Held, Promise!avars
<1> QED
  BY <1>2, <1>3

LEMMA PromiseRelease ==
  ASSUME PagesInv, NEW b \in Blocks, Cleanse(b)
  PROVE  Promise!Release(b)
<1>1. Held' = Held \ {b} /\ b \in Held /\ osLocked' = osLocked
  BY DEF PagesInv, PagesTypeOK, Held, Cleanse, Goto
<1> QED
  BY <1>1 DEF Held, Promise!Release

\* The first block on a page has the system lock it.
LEMMA PromisePin ==
  ASSUME PagesInv, OsFollows, MlockOutcomes = {TRUE}, NEW b \in Blocks, MlockPage(b)
  PROVE  \E p \in Pages : Promise!Pin(p)
<1>1. PICK q \in Pages : q = page[b] /\ q \in PagesOf(b) /\ q \in Nat
  <2>1. pc[b] = "mlock"
    BY DEF MlockPage
  <2> QED
    BY <2>1, CursorOnBlock
<1>2. osLocked' = osLocked \cup {q}
  BY <1>1 DEF MlockPage
<1>3. q \notin osLocked
  <2>1. histogram[q] = 0
    BY <1>1 DEF PagesInv, FoundIsFresh, MlockPage
  <2>2. ~Erasing(q)
    BY DEF PagesInv, MutexHeld, MlockPage, Erasing, Critical, LockPoints, UnlockPoints
  <2> QED
    BY <2>1, <2>2 DEF OsFollows
<1>4. Held' = Held
  BY DEF PagesInv, PagesTypeOK, Held, MlockPage, Goto
<1> QED
  BY <1>2, <1>3, <1>4 DEF Held, Promise!Pin

\* The system unlocks a page only when no protected block is on it.
LEMMA PromiseUnpin ==
  ASSUME PagesInv, OsFollows, NEW b \in Blocks, MunlockPage(b)
  PROVE  \E p \in Pages : Promise!Unpin(p)
<1>1. PICK q \in Pages : q = page[b] /\ q \in PagesOf(b) /\ q \in Nat
  <2>1. pc[b] = "munlock"
    BY DEF MunlockPage
  <2> QED
    BY <2>1, CursorOnBlock
<1>2. osLocked' = osLocked \ {q} /\ q \in osLocked
  BY <1>1 DEF MunlockPage, OsFollows, Erasing
<1>3. ASSUME NEW c \in Held PROVE q \notin PageMap[c]
  <2>1. c \in Blocks /\ pc[c] = "held"
    BY DEF Held
  <2>2. histogram[q] = 0
    BY <1>1 DEF PagesInv, FoundIsFresh, MunlockPage
  <2>3. ~Counted(c, q)
    BY <2>1, <2>2, CountedPositive DEF PagesInv
  <2> QED
    BY <2>1, <2>3 DEF Counted, PageMap
<1>4. Held' = Held
  BY DEF PagesInv, PagesTypeOK, Held, MunlockPage, Goto
<1> QED
  BY <1>2, <1>3, <1>4 DEF Held, Promise!Unpin

LEMMA PromiseStep ==
  ASSUME MlockOutcomes = {TRUE}
  PROVE  PagesInv /\ OsFollows /\ PagesInv' /\ OsFollows' /\ [PagesNext]_pageVars
           => [Promise!ANext]_(Promise!avars)
<1> SUFFICES ASSUME PagesInv, OsFollows, PagesInv', OsFollows', [PagesNext]_pageVars
             PROVE  Promise!ANext \/ UNCHANGED Promise!avars
  OBVIOUS
<1>1. ASSUME NEW b \in Blocks, BlockStep(b)
      PROVE  Promise!ANext \/ UNCHANGED Promise!avars
  <2>1. PagesTypeOK
    BY DEF PagesInv
  <2> QED
    BY <1>1, <2>1, PromiseStutter, PromiseProtect, PromiseRelease, PromisePin,
       PromiseUnpin DEF BlockStep, CriticalStep, Promise!ANext
<1>2. CASE DestroyManager \/ UNCHANGED pageVars
  BY <1>2 DEF DestroyManager, pageVars, Promise!avars
<1> QED
  BY <1>1, <1>2 DEF PagesNext, Ended

\* LockedPages implements PinnedPages: LockRange protects a block only once all
\* its pages are locked, and UnlockRange lets the system unlock a page only
\* when no protected block is left on it.
THEOREM Refinement ==
  ASSUME MlockOutcomes = {TRUE}
  PROVE  PagesSpec => KeepsPromise
<1> QED
  BY PromiseInit, PromiseStep, InductiveInvariant, OsAlwaysFollows, PTL
     DEF PagesSpec, KeepsPromise, Promise!ASpec
=============================================================================
