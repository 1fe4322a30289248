----------------------------- MODULE Induction -----------------------------
(***************************************************************************)
(* Lemmas that the proofs about loops, sequences and numbers share.  An    *)
(* induction is over a set of naturals, T = {n \in Nat : ...}, where a      *)
(* predicate would be a parameter that no prover can instantiate; that     *)
(* such a set has a least member comes from the wellfounded order of       *)
(* finite sets.  The digits of numbers follow the inductions they rest on. *)
(***************************************************************************)
EXTENDS Numerals, SequenceTheorems, FiniteSetTheorems, TLAPS

\* Of natural numbers there is a least.
LEMMA LeastOf ==
  ASSUME NEW T \in SUBSET Nat, T # {}
  PROVE  \E x \in T : \A y \in T : x <= y
<1> DEFINE U == {0 .. k : k \in T}
           R == StrictSubsetOrdering(Nat)
           F == FiniteSubsetsOf(Nat)
<1>1. IsWellFoundedOn(R, F)
  BY FS_StrictSubsetOrderingWellFounded
<1>2. U \subseteq F /\ U # {}
  <2>1. \A k \in Nat : IsFiniteSet(0 .. k)
    BY FS_Interval
  <2>2. \A k \in Nat : 0 .. k \in SUBSET Nat
    OBVIOUS
  <2>3. \A k \in Nat : 0 .. k \in FiniteSubsetsOf(Nat)
    BY <2>1, <2>2 DEF FiniteSubsetsOf
  <2>4. T \subseteq Nat
    OBVIOUS
  <2> QED BY <2>3, <2>4
<1>3. \A k, m \in Nat : k < m => <<0 .. k, 0 .. m>> \in R
  <2> TAKE k, m \in Nat
  <2> HAVE k < m
  <2>1. 0 .. k \subseteq 0 .. m /\ 0 .. k \in SUBSET Nat /\ 0 .. m \in SUBSET Nat
    OBVIOUS
  <2>2. m \in 0 .. m /\ m \notin 0 .. k
    OBVIOUS
  <2> QED BY <2>1, <2>2 DEF StrictSubsetOrdering
<1> HIDE DEF R, F
<1>4. \E u \in U : \A v \in U : <<v, u>> \notin R
  <2> HIDE DEF U
  <2> QED BY <1>1, <1>2, WFMin
<1>5. PICK x \in T : \A y \in T : <<0 .. y, 0 .. x>> \notin R
  BY <1>4
<1>6. ASSUME NEW y \in T PROVE x <= y
  <2>1. ~(y < x)
    BY <1>3, <1>5
  <2> QED BY <2>1
<1> QED BY <1>6

\* A set with 0 and of each member the next has all natural numbers.
LEMMA Induct ==
  ASSUME NEW T \in SUBSET Nat, 0 \in T, \A n \in T : n + 1 \in T
  PROVE  T = Nat
<1> SUFFICES ASSUME Nat \ T # {} PROVE FALSE
  OBVIOUS
<1>1. PICK x \in Nat \ T : \A y \in Nat \ T : x <= y
  <2> DEFINE U == Nat \ T
  <2>1. U \in SUBSET Nat /\ U # {}
    OBVIOUS
  <2> HIDE DEF U
  <2>2. \E z \in U : \A y \in U : z <= y
    BY <2>1, LeastOf
  <2> QED BY <2>2 DEF U
<1>2. x - 1 \in Nat \ T \/ x = 0
  <2>1. x = 0 \/ x - 1 \in Nat
    OBVIOUS
  <2>2. x - 1 + 1 = x
    OBVIOUS
  <2> QED BY <2>1, <2>2
<1> QED BY <1>1, <1>2

\* The same up to a bound.
LEMMA InductTo ==
  ASSUME NEW m \in Nat, NEW T \in SUBSET (0 .. m), 0 \in T, \A n \in 0 .. m - 1 : n \in T => n + 1 \in T
  PROVE  T = 0 .. m
<1> DEFINE U == {n \in Nat : n <= m => n \in T}
<1>1. 0 \in U /\ \A n \in U : n + 1 \in U
  OBVIOUS
<1>2. U = Nat
  <2> HIDE DEF U
  <2>1. U \in SUBSET Nat
    BY DEF U
  <2> QED BY <1>1, <2>1, Induct
<1>3. ASSUME NEW n \in 0 .. m PROVE n \in T
  <2>1. n \in U
    BY <1>2
  <2> QED BY <2>1
<1> QED BY <1>3

\* Names without repetition for numbers up to n are no more than n.
LEMMA NoMoreThan ==
  ASSUME NEW k \in Nat, NEW n \in Nat, NEW pos \in [1 .. k -> 1 .. n],
         \A i, j \in 1 .. k : i # j => pos[i] # pos[j]
  PROVE  k <= n
<1>1. IsFiniteSet(1 .. k) /\ IsFiniteSet(1 .. n) /\ Cardinality(1 .. k) = k /\ Cardinality(1 .. n) = n
  <2>1. ASSUME NEW m \in Nat PROVE IsFiniteSet(1 .. m) /\ Cardinality(1 .. m) = m
    <3> DEFINE a == 1
    <3>1. a \in Int /\ m \in Int
      OBVIOUS
    <3> HIDE DEF a
    <3>2. IsFiniteSet(a .. m) /\ Cardinality(a .. m) = IF a > m THEN 0 ELSE m - a + 1
      BY <3>1, FS_Interval
    <3>3. (IF 1 > m THEN 0 ELSE m - 1 + 1) = m
      OBVIOUS
    <3>4. IsFiniteSet(1 .. m) /\ Cardinality(1 .. m) = IF 1 > m THEN 0 ELSE m - 1 + 1
      BY <3>2, Zenon DEF a
    <3> QED BY <3>3, <3>4
  <2> QED BY <2>1
<1>2. ASSUME Cardinality(1 .. n) < Cardinality(1 .. k) PROVE FALSE
  <2> DEFINE A == 1 .. k
             B == 1 .. n
  <2> HIDE DEF A, B
  <2>1. pos \in [A -> B] /\ Cardinality(B) < Cardinality(A) /\ IsFiniteSet(A) /\ IsFiniteSet(B)
    BY <1>1, <1>2, Zenon DEF A, B
  <2>2. \E x, y \in A : x # y /\ pos[x] = pos[y]
    BY <2>1, FS_PigeonHole
  <2> QED BY <2>2 DEF A
<1> QED BY <1>1, <1>2

\* What is defined step by step: F[i] makes the i-th value of the one before it.
Steps(f, n, S, c, F) ==
  f \in [0 .. n -> S] /\ f[0] = c /\ \A i \in 1 .. n : f[i] = F[i][f[i - 1]]

LEMMA StepByStep ==
  ASSUME NEW n \in Nat, NEW S, NEW c \in S, NEW F \in [1 .. n -> [S -> S]]
  PROVE  \E f : Steps(f, n, S, c, F)
<1> DEFINE Good(k, f) == f[0] = c /\ \A i \in 1 .. k : f[i] = F[i][f[i - 1]]
           T == {k \in 0 .. n : \E f \in [0 .. k -> S] : Good(k, f)}
<1>1. 0 \in T
  <2> DEFINE z == [i \in 0 .. 0 |-> c]
  <2>1. z \in [0 .. 0 -> S] /\ Good(0, z) /\ 0 \in 0 .. n
    OBVIOUS
  <2> HIDE DEF z, Good
  <2> QED BY <2>1
<1>2. ASSUME NEW k \in 0 .. n - 1, k \in T PROVE k + 1 \in T
  <2>1. PICK f \in [0 .. k -> S] : Good(k, f)
    BY <1>2
  <2> DEFINE g == [i \in 0 .. k + 1 |-> IF i <= k THEN f[i] ELSE F[k + 1][f[k]]]
  <2>2. g \in [0 .. k + 1 -> S]
    <3>1. F[k + 1] \in [S -> S] /\ f[k] \in S
      OBVIOUS
    <3>2. F[k + 1][f[k]] \in S
      BY <3>1
    <3> QED BY <3>2
  <2>3. g[0] = c
    BY <2>1
  <2>4. ASSUME NEW i \in 1 .. k + 1 PROVE g[i] = F[i][g[i - 1]]
    <3>1. CASE i <= k
      <4>1. g[i] = f[i] /\ g[i - 1] = f[i - 1] /\ i \in 1 .. k
        BY <3>1
      <4> QED BY <2>1, <4>1
    <3>2. CASE i = k + 1
      BY <3>2
    <3> QED BY <3>1, <3>2
  <2> HIDE DEF g
  <2>5. Good(k + 1, g) /\ k + 1 \in 0 .. n
    BY <2>3, <2>4
  <2> QED BY <2>2, <2>5
<1>3. T = 0 .. n
  <2>1. T \in SUBSET (0 .. n)
    OBVIOUS
  <2> HIDE DEF T
  <2> QED BY <1>1, <1>2, <2>1, InductTo
<1>4. n \in T
  <2> HIDE DEF T
  <2> QED BY <1>3
<1> QED BY <1>4 DEF Steps

LEMMA StrongInductTo ==
  ASSUME NEW m \in Nat, NEW T \in SUBSET (0 .. m),
         \A k \in 0 .. m : (\A j \in 0 .. k - 1 : j \in T) => k \in T
  PROVE  T = 0 .. m
<1> DEFINE U == {k \in 0 .. m : \A j \in 0 .. k : j \in T}
<1>1. 0 \in U
  OBVIOUS
<1>2. ASSUME NEW k \in 0 .. m - 1, k \in U PROVE k + 1 \in U
  <2>1. k + 1 \in 0 .. m /\ \A j \in 0 .. (k + 1) - 1 : j \in T
    BY <1>2
  <2>2. k + 1 \in T
    BY <2>1
  <2> QED BY <1>2, <2>1, <2>2
<1>3. U = 0 .. m
  <2>1. U \in SUBSET (0 .. m)
    OBVIOUS
  <2> HIDE DEF U
  <2> QED BY <1>1, <1>2, <2>1, InductTo
<1>4. \A k \in 0 .. m : k \in U => k \in T
  OBVIOUS
<1> HIDE DEF U
<1> QED BY <1>3, <1>4

\* What is defined by steps of any length: of the places in P each is made by
\* F from the one prev leads back to.
Jumps(f, n, S, P, base, prev, F) ==
  f \in [0 .. n -> S] /\ \A m \in 0 .. n : f[m] = IF m \in P THEN F[m][f[prev[m]]] ELSE base[m]

LEMMA JumpByJump ==
  ASSUME NEW n \in Nat, NEW S, NEW P, NEW base \in [0 .. n -> S], NEW prev \in [0 .. n -> Nat],
         NEW F \in [0 .. n -> [S -> S]], \A m \in 0 .. n : m \in P => prev[m] < m
  PROVE  \E f : Jumps(f, n, S, P, base, prev, F)
<1> DEFINE Good(k, f) == \A m \in 0 .. k : f[m] = IF m \in P THEN F[m][f[prev[m]]] ELSE base[m]
           T == {k \in 0 .. n : \E f \in [0 .. k -> S] : Good(k, f)}
<1>1. 0 \in T
  <2> DEFINE z == [i \in 0 .. 0 |-> base[0]]
  <2>1. z \in [0 .. 0 -> S] /\ 0 \in 0 .. n /\ 0 \notin P
    OBVIOUS
  <2>2. Good(0, z)
    BY <2>1
  <2> HIDE DEF z, Good
  <2> QED BY <2>1, <2>2
<1>2. ASSUME NEW k \in 0 .. n - 1, k \in T PROVE k + 1 \in T
  <2>1. PICK f \in [0 .. k -> S] : Good(k, f)
    BY <1>2
  <2> DEFINE v == IF k + 1 \in P THEN F[k + 1][f[prev[k + 1]]] ELSE base[k + 1]
             g == [i \in 0 .. k + 1 |-> IF i <= k THEN f[i] ELSE v]
  <2>2. k + 1 \in 0 .. n /\ (k + 1 \in P => prev[k + 1] \in 0 .. k)
    OBVIOUS
  <2>3. v \in S
    <3>1. CASE k + 1 \in P
      <4>1. F[k + 1] \in [S -> S] /\ f[prev[k + 1]] \in S
        BY <2>2, <3>1
      <4> QED BY <3>1, <4>1
    <3>2. CASE k + 1 \notin P
      BY <2>2, <3>2
    <3> QED BY <3>1, <3>2
  <2> HIDE DEF v
  <2>4. g \in [0 .. k + 1 -> S]
    BY <2>3
  <2>5. ASSUME NEW m \in 0 .. k + 1 PROVE g[m] = IF m \in P THEN F[m][g[prev[m]]] ELSE base[m]
    <3>1. CASE m <= k
      <4>1. m \in 0 .. k /\ m \in 0 .. n
        BY <3>1
      <4>2. g[m] = f[m] /\ (m \in P => g[prev[m]] = f[prev[m]])
        BY <4>1
      <4> QED BY <2>1, <4>1, <4>2
    <3>2. CASE m = k + 1
      <4>1. g[m] = v /\ (m \in P => g[prev[m]] = f[prev[m]])
        BY <2>2, <3>2
      <4> QED BY <3>2, <4>1 DEF v
    <3> QED BY <3>1, <3>2
  <2> HIDE DEF g
  <2>6. Good(k + 1, g)
    BY <2>5
  <2> HIDE DEF Good
  <2> QED BY <2>2, <2>4, <2>6
<1>3. T = 0 .. n
  <2>1. T \in SUBSET (0 .. n)
    OBVIOUS
  <2> HIDE DEF T
  <2> QED BY <1>1, <1>2, <2>1, InductTo
<1>4. n \in T
  <2> HIDE DEF T
  <2> QED BY <1>3
<1> QED BY <1>4 DEF Jumps

-----------------------------------------------------------------------------
\* s is a sequence of n elements, whatever these are.
IsRow(s, n) == s = [i \in 1 .. n |-> s[i]]

LEMMA RowLength ==
  ASSUME NEW n \in Nat, NEW s, IsRow(s, n)
  PROVE  Len(s) = n /\ DOMAIN s = 1 .. n
<1> DEFINE S == {s[i] : i \in 1 .. n}
<1>1. s \in [1 .. n -> S]
  BY DEF IsRow
<1>2. s \in Seq(S)
  <2> HIDE DEF S
  <2> QED BY <1>1
<1> HIDE DEF S
<1>3. Len(s) \in Nat /\ DOMAIN s = 1 .. Len(s)
  BY <1>2
<1>4. DOMAIN s = 1 .. n
  BY <1>1
<1>5. \A k \in Nat : 1 .. k = 1 .. n => k = n
  <2> TAKE k \in Nat
  <2> HAVE 1 .. k = 1 .. n
  <2>1. (k = 0 \/ k \in 1 .. k) /\ (n = 0 \/ n \in 1 .. n)
    OBVIOUS
  <2>2. (k = 0 \/ k \in 1 .. n) /\ (n = 0 \/ n \in 1 .. k)
    BY <2>1
  <2> QED BY <2>2
<1> QED BY <1>3, <1>4, <1>5

\* u is the m elements of s, and behind them the n of t.
JoinedRows(u, s, m, t, n) ==
  /\ IsRow(u, m + n)
  /\ \A i \in 1 .. m : u[i] = s[i]
  /\ \A i \in 1 .. n : u[m + i] = t[i]

LEMMA Concat ==
  ASSUME NEW m \in Nat, NEW n \in Nat, NEW s, NEW t, IsRow(s, m), IsRow(t, n)
  PROVE  JoinedRows(s \o t, s, m, t, n)
<1> DEFINE S == {s[i] : i \in 1 .. m} \cup {t[i] : i \in 1 .. n}
<1>1. s \in [1 .. m -> S] /\ t \in [1 .. n -> S]
  BY DEF IsRow
<1>2. Len(s) = m /\ Len(t) = n
  BY RowLength
<1> HIDE DEF S
<1>3. s \in Seq(S) /\ t \in Seq(S)
  BY <1>1
<1>4. s \o t \in Seq(S) /\ Len(s \o t) = m + n
  BY <1>2, <1>3
<1>5. \A u \in Seq(S) : u = [i \in 1 .. Len(u) |-> u[i]]
  OBVIOUS
<1>6. IsRow(s \o t, m + n)
  BY <1>4, <1>5 DEF IsRow
<1>7. \A i \in 1 .. m : (s \o t)[i] = s[i]
  BY <1>2, <1>3
<1>8. \A i \in 1 .. n : (s \o t)[m + i] = t[i]
  BY <1>2, <1>3
<1> QED BY <1>6, <1>7, <1>8 DEF JoinedRows

-----------------------------------------------------------------------------
\* Quotient and remainder, where the divisor is not a number the provers see.
LEMMA Monotone == \A i, a, b \in Nat : a >= b + 1 => i * a >= i * b + i
<1> TAKE i, a, b \in Nat
<1> HAVE a >= b + 1
<1>1. i * (a - b - 1) >= 0
  OBVIOUS
<1>2. i * (a - b - 1) = i * a - i * b - i
  OBVIOUS
<1> QED BY <1>1, <1>2

LEMMA Division ==
  ASSUME NEW i \in Nat \ {0}, NEW h \in Nat
  PROVE  h = i * (h \div i) + (h % i) /\ h % i \in 0 .. i - 1 /\ h \div i \in Nat
OBVIOUS

LEMMA DivisionIs ==
  ASSUME NEW i \in Nat \ {0}, NEW q \in Nat, NEW r \in 0 .. i - 1, NEW h, h = i * q + r
  PROVE  h \div i = q /\ h % i = r
<1> DEFINE d == h \div i
           m == h % i
<1>0. i * q \in Nat /\ h \in Nat
  OBVIOUS
<1>1. h = i * d + m /\ m \in 0 .. i - 1 /\ d \in Nat
  BY <1>0, Division
<1> HIDE DEF d, m
<1>2. ~(d > q)
  <2> SUFFICES ASSUME d > q PROVE FALSE
    OBVIOUS
  <2>1. i * d >= i * q + i
    BY <1>1, Monotone
  <2>2. i * d \in Nat
    BY <1>1
  <2> QED BY <1>0, <1>1, <2>1, <2>2
<1>3. ~(d < q)
  <2> SUFFICES ASSUME d < q PROVE FALSE
    OBVIOUS
  <2>1. i * q >= i * d + i
    BY <1>1, Monotone
  <2>2. i * d \in Nat
    BY <1>1
  <2> QED BY <1>0, <1>1, <2>1, <2>2
<1>4. d = q
  BY <1>1, <1>2, <1>3
<1>5. m = r
  <2>1. i * d = i * q
    BY <1>4
  <2> QED BY <1>0, <1>1, <2>1
<1> QED BY <1>4, <1>5 DEF d, m

\* Strong induction downward from m.
LEMMA StrongDownTo ==
  ASSUME NEW m \in Nat, NEW T \in SUBSET (0 .. m),
         \A k \in 0 .. m : (\A j \in k + 1 .. m : j \in T) => k \in T
  PROVE  T = 0 .. m
<1> DEFINE U == {k \in 0 .. m : m - k \in T}
<1>1. ASSUME NEW k \in 0 .. m, \A j \in 0 .. k - 1 : j \in U PROVE k \in U
  <2>1. m - k \in 0 .. m
    OBVIOUS
  <2>2. ASSUME NEW j \in (m - k) + 1 .. m PROVE j \in T
    <3>1. m - j \in 0 .. k - 1 /\ m - (m - j) = j
      OBVIOUS
    <3>2. m - j \in U
      BY <1>1, <3>1
    <3> QED BY <3>1, <3>2
  <2>3. m - k \in T
    BY <2>1, <2>2
  <2> QED BY <2>3
<1>2. U = 0 .. m
  <2>1. U \in SUBSET (0 .. m)
    OBVIOUS
  <2> HIDE DEF U
  <2> QED BY <1>1, <2>1, StrongInductTo
<1>3. ASSUME NEW k \in 0 .. m PROVE k \in T
  <2>1. m - k \in U /\ m - (m - k) = k
    <3> HIDE DEF U
    <3> QED BY <1>2
  <2> QED BY <2>1
<1> QED BY <1>3

\* A function whose values follow from later ones.
LEMMA JumpDown ==
  ASSUME NEW n \in Nat, NEW S, NEW P, NEW base \in [0 .. n -> S], NEW next \in [0 .. n -> Nat],
         NEW F \in [0 .. n -> [S -> S]], \A m \in 0 .. n : m \in P => next[m] \in m + 1 .. n
  PROVE  \E f : Jumps(f, n, S, P, base, next, F)
<1> DEFINE Q == {m \in 0 .. n : n - m \in P}
           low == [m \in 0 .. n |-> base[n - m]]
           prev == [m \in 0 .. n |-> IF m \in Q THEN n - next[n - m] ELSE 0]
           G == [m \in 0 .. n |-> F[n - m]]
<1>1. \A m \in 0 .. n : n - m \in 0 .. n /\ n - (n - m) = m
  OBVIOUS
<1>2. low \in [0 .. n -> S] /\ G \in [0 .. n -> [S -> S]]
  BY <1>1
<1>3. ASSUME NEW m \in 0 .. n, m \in Q PROVE prev[m] \in 0 .. m - 1 /\ next[n - m] \in 0 .. n
  <2>1. n - m \in 0 .. n /\ n - m \in P
    BY <1>3
  <2>2. next[n - m] \in (n - m) + 1 .. n
    BY <2>1
  <2>3. prev[m] = n - next[n - m]
    BY <1>3
  <2> HIDE DEF prev, Q
  <2> QED BY <2>2, <2>3
<1>4. prev \in [0 .. n -> Nat] /\ \A m \in 0 .. n : m \in Q => prev[m] < m
  <2>1. ASSUME NEW m \in 0 .. n PROVE prev[m] \in Nat
    <3>1. CASE m \in Q
      <4> HIDE DEF prev, Q
      <4> QED BY <1>3, <3>1
    <3>2. CASE m \notin Q
      BY <3>2
    <3> QED BY <3>1, <3>2
  <2>2. prev = [m \in 0 .. n |-> prev[m]]
    OBVIOUS
  <2> HIDE DEF prev, Q
  <2> QED BY <1>3, <2>1, <2>2
<1>5. PICK g : Jumps(g, n, S, Q, low, prev, G)
  <2> HIDE DEF Q, low, prev, G
  <2> QED BY <1>2, <1>4, JumpByJump
<1>6. g \in [0 .. n -> S] /\ \A m \in 0 .. n : g[m] = IF m \in Q THEN G[m][g[prev[m]]] ELSE low[m]
  BY <1>5 DEF Jumps
<1> DEFINE f == [m \in 0 .. n |-> g[n - m]]
<1>7. f \in [0 .. n -> S]
  BY <1>1, <1>6
<1>8. ASSUME NEW m \in 0 .. n PROVE f[m] = IF m \in P THEN F[m][f[next[m]]] ELSE base[m]
  <2> DEFINE k == n - m
  <2>1. k \in 0 .. n /\ n - k = m /\ f[m] = g[k]
    OBVIOUS
  <2>2. (k \in Q <=> m \in P) /\ G[k] = F[m] /\ low[k] = base[m]
    BY <2>1
  <2>3. g[k] = IF k \in Q THEN G[k][g[prev[k]]] ELSE low[k]
    <3> HIDE DEF k, Q, G, low, prev
    <3> QED BY <1>6, <2>1
  <2>4. ASSUME m \in P PROVE g[prev[k]] = f[next[m]]
    <3>1. prev[k] = n - next[m]
      BY <2>1, <2>2, <2>4
    <3>2. next[m] \in 0 .. n
      <4> HIDE DEF prev, Q, k
      <4> QED BY <1>3, <2>1, <2>2, <2>4
    <3> HIDE DEF prev, Q, k
    <3> QED BY <3>1, <3>2
  <2> HIDE DEF f, k, Q, G, low, prev
  <2> QED BY <2>1, <2>2, <2>3, <2>4
<1> HIDE DEF f
<1>9. Jumps(f, n, S, P, base, next, F)
  BY <1>7, <1>8 DEF Jumps
<1> QED BY <1>9

-----------------------------------------------------------------------------
(***************************************************************************)
(* Numbers and their digits in any base, the most significant one first.   *)
(***************************************************************************)
DigitSeq(base) == Seq(0 .. base - 1)

\* f[i] is the number that the first i digits of t are.
Evaluates(f, t, base) ==
  /\ f \in [0 .. Len(t) -> Nat] /\ f[0] = 0
  /\ \A i \in 1 .. Len(t) : f[i] = base * f[i - 1] + t[i]

LEMMA DigitAt ==
  ASSUME NEW base \in Nat \ {0}, NEW t \in DigitSeq(base), NEW i \in 1 .. Len(t)
  PROVE  t[i] \in 0 .. base - 1 /\ t[i] \in Nat
<1>1. t[i] \in 0 .. base - 1
  BY ElementOfSeq DEF DigitSeq
<1> QED BY <1>1

LEMMA DigitLength ==
  ASSUME NEW base \in Nat \ {0}, NEW t \in DigitSeq(base)
  PROVE  Len(t) \in Nat
BY LenProperties DEF DigitSeq

\* The recursion of DigitsValue, of digits of any size.
LEMMA PrefixesOf ==
  ASSUME NEW base \in Nat \ {0}, NEW t \in Seq(Nat)
  PROVE  \E f : Evaluates(f, t, base) /\ DigitsValue(t, base) = f[Len(t)]
<1> DEFINE n == Len(t)
           F == [i \in 1 .. n |-> [x \in Nat |-> base * x + t[i]]]
<1>1. n \in Nat
  BY LenProperties
<1>2. F \in [1 .. n -> [Nat -> Nat]]
  <2>1. ASSUME NEW i \in 1 .. n, NEW x \in Nat PROVE base * x + t[i] \in Nat
    <3>1. t[i] \in Nat
      BY ElementOfSeq
    <3>2. base * x \in Nat
      OBVIOUS
    <3> HIDE DEF n
    <3> QED BY <3>1, <3>2
  <2> HIDE DEF n
  <2> QED BY <2>1
<1>3. PICK f : Steps(f, n, Nat, 0, F)
  <2> HIDE DEF n, F
  <2> QED BY <1>1, <1>2, StepByStep
<1>4. ASSUME NEW i \in 1 .. n PROVE f[i] = base * f[i - 1] + t[i]
  <2>1. f[i - 1] \in Nat
    <3> HIDE DEF F, n
    <3> QED BY <1>1, <1>3 DEF Steps
  <2>2. f[i] = F[i][f[i - 1]]
    <3> HIDE DEF F, n
    <3> QED BY <1>1, <1>3 DEF Steps
  <2> HIDE DEF n
  <2> QED BY <2>1, <2>2
<1>5. f \in [0 .. n -> Nat] /\ f[0] = 0
  <2> HIDE DEF F, n
  <2> QED BY <1>3 DEF Steps
<1> DEFINE Def(g) == g = [i \in 0 .. n |-> IF i = 0 THEN 0 ELSE base * g[i - 1] + t[i]]
           g == CHOOSE h : Def(h)
<1>6. Def(f)
  <2>1. f = [i \in 0 .. n |-> f[i]]
    <3> HIDE DEF n
    <3> QED BY <1>5
  <2>2. ASSUME NEW i \in 0 .. n PROVE f[i] = IF i = 0 THEN 0 ELSE base * f[i - 1] + t[i]
    <3> HIDE DEF n
    <3>1. CASE i = 0
      BY <1>5, <3>1
    <3>2. CASE i # 0
      <4>1. i \in 1 .. n
        BY <1>1, <3>2
      <4> QED BY <1>4, <3>2, <4>1
    <3> QED BY <3>1, <3>2
  <2> HIDE DEF n
  <2> QED BY <2>1, <2>2, Zenon
<1>7. Def(g)
  <2> HIDE DEF Def
  <2> QED BY <1>6, Zenon DEF g
<1>8. DigitsValue(t, base) = g[n]
  BY DEF DigitsValue
<1>9. Evaluates(g, t, base)
  <2> HIDE DEF g, n, F
  <2> DEFINE T == {i \in 0 .. n : g[i] = f[i]}
  <2>1. \A i \in 0 .. n : g[i] = IF i = 0 THEN 0 ELSE base * g[i - 1] + t[i]
    BY <1>7
  <2>2. DOMAIN g = 0 .. n /\ g = [i \in 0 .. n |-> g[i]]
    BY <1>7
  <2> HIDE DEF Def
  <2>3. 0 \in T
    BY <1>1, <1>5, <2>1
  <2>4. ASSUME NEW i \in 0 .. n - 1, i \in T PROVE i + 1 \in T
    <3>1. i + 1 \in 0 .. n /\ i + 1 \in 1 .. n /\ i + 1 # 0 /\ (i + 1) - 1 = i
      BY <1>1
    <3>2. g[i + 1] = base * g[i] + t[i + 1] /\ f[i + 1] = base * f[i] + t[i + 1]
      BY <1>4, <2>1, <3>1
    <3> QED BY <2>4, <3>1, <3>2
  <2>5. T = 0 .. n
    <3>1. T \in SUBSET (0 .. n)
      OBVIOUS
    <3> HIDE DEF T
    <3> QED BY <1>1, <2>3, <2>4, <3>1, InductTo
  <2>6. g = f
    <3>1. \A i \in 0 .. n : g[i] = f[i]
      BY <2>5
    <3> HIDE DEF T
    <3> QED BY <1>5, <2>2, <3>1
  <2> QED BY <1>4, <1>5, <2>6 DEF Evaluates, n
<1> HIDE DEF g
<1> QED BY <1>8, <1>9

LEMMA PrefixesAre ==
  ASSUME NEW base \in Nat \ {0}, NEW t \in DigitSeq(base)
  PROVE  \E f : Evaluates(f, t, base) /\ DigitsValue(t, base) = f[Len(t)]
<1>1. 0 .. base - 1 \in SUBSET Nat /\ Len(t) \in Nat /\ t \in [1 .. Len(t) -> 0 .. base - 1]
  BY LenProperties DEF DigitSeq
<1>2. t \in Seq(Nat)
  <2> DEFINE D == 0 .. base - 1
  <2>1. \A d \in D : d \in Nat
    OBVIOUS
  <2>2. t \in [1 .. Len(t) -> D]
    BY <1>1
  <2> HIDE DEF D
  <2>3. t \in [1 .. Len(t) -> Nat]
    BY <2>1, <2>2
  <2> QED BY <1>1, <2>3, SeqDef
<1> QED BY <1>2, PrefixesOf

\* Sequences that agree on their first digits have the same prefixes so far.
LEMMA PrefixesAgree ==
  ASSUME NEW base \in Nat \ {0}, NEW t, NEW u, NEW f, NEW g, Evaluates(f, t, base), Evaluates(g, u, base),
         Len(t) \in Nat, Len(u) \in Nat,
         NEW k \in Nat, k <= Len(t), k <= Len(u), \A i \in 1 .. k : t[i] = u[i]
  PROVE  \A i \in 0 .. k : f[i] = g[i]
<1> DEFINE T == {i \in 0 .. k : f[i] = g[i]}
<1>1. 0 \in T
  BY DEF Evaluates
<1>2. ASSUME NEW i \in 0 .. k - 1, i \in T PROVE i + 1 \in T
  <2>1. i + 1 \in 1 .. Len(t) /\ i + 1 \in 1 .. Len(u) /\ i + 1 \in 1 .. k /\ i + 1 \in 0 .. k /\ (i + 1) - 1 = i
    OBVIOUS
  <2>2. f[i + 1] = base * f[i] + t[i + 1] /\ g[i + 1] = base * g[i] + u[i + 1]
    BY <2>1 DEF Evaluates
  <2> QED BY <1>2, <2>1, <2>2
<1>3. T = 0 .. k
  <2>1. T \in SUBSET (0 .. k)
    OBVIOUS
  <2> HIDE DEF T
  <2> QED BY <1>1, <1>2, <2>1, InductTo
<1> QED BY <1>3

LEMMA ValueIsPrefix ==
  ASSUME NEW base \in Nat \ {0}, NEW t \in DigitSeq(base), NEW f, Evaluates(f, t, base)
  PROVE  DigitsValue(t, base) = f[Len(t)]
<1>1. PICK g : Evaluates(g, t, base) /\ DigitsValue(t, base) = g[Len(t)]
  BY PrefixesAre
<1>2. Len(t) \in Nat
  BY DigitLength
<1>3. \A i \in 0 .. Len(t) : f[i] = g[i]
  BY <1>1, <1>2, PrefixesAgree
<1> QED BY <1>1, <1>2, <1>3

LEMMA ValueIsNat ==
  ASSUME NEW base \in Nat \ {0}, NEW t \in DigitSeq(base)
  PROVE  DigitsValue(t, base) \in Nat
<1>1. PICK g : Evaluates(g, t, base) /\ DigitsValue(t, base) = g[Len(t)]
  BY PrefixesAre
<1>2. Len(t) \in Nat
  BY DigitLength
<1> QED BY <1>1, <1>2 DEF Evaluates

\* One more digit.
LEMMA ValueOfMore ==
  ASSUME NEW base \in Nat \ {0}, NEW t \in DigitSeq(base), NEW d \in 0 .. base - 1
  PROVE  /\ t \o <<d>> \in DigitSeq(base)
         /\ DigitsValue(t \o <<d>>, base) = base * DigitsValue(t, base) + d
<1> DEFINE u == t \o <<d>>
           n == Len(t)
           S == 0 .. base - 1
<1>1. <<d>> \in Seq(S) /\ Len(<<d>>) = 1 /\ <<d>>[1] = d
  OBVIOUS
<1>2. n \in Nat /\ t \in Seq(S)
  BY DigitLength DEF DigitSeq
<1>3. u \in Seq(S) /\ Len(u) = n + 1 /\ (\A i \in 1 .. n : u[i] = t[i]) /\ u[n + 1] = d
  <2> HIDE DEF S
  <2> DEFINE e == <<d>>
  <2>1. e \in Seq(S) /\ Len(e) = 1 /\ e[1] = d
    BY <1>1
  <2> HIDE DEF e
  <2>2. /\ t \o e \in Seq(S) /\ Len(t \o e) = Len(t) + Len(e)
        /\ \A i \in 1 .. Len(t) + Len(e) : (t \o e)[i] = IF i <= Len(t) THEN t[i] ELSE e[i - Len(t)]
    BY <1>2, <2>1, ConcatProperties
  <2>3. (\A i \in 1 .. n : i \in 1 .. n + 1 /\ i <= n) /\ n + 1 \in 1 .. n + 1 /\ ~(n + 1 <= n) /\ (n + 1) - n = 1
    BY <1>2
  <2>4. u = t \o e
    BY DEF e
  <2> HIDE DEF u
  <2> QED BY <2>1, <2>2, <2>3, <2>4
<1>4. u \in DigitSeq(base)
  BY <1>3 DEF DigitSeq
<1> HIDE DEF u, S
<1>5. PICK f : Evaluates(f, u, base)
  BY <1>4, PrefixesAre
<1>6. PICK g : Evaluates(g, t, base)
  BY PrefixesAre
<1>7. \A i \in 0 .. n : f[i] = g[i]
  <2>1. n <= Len(t) /\ n <= Len(u) /\ Len(u) \in Nat
    BY <1>2, <1>3
  <2> QED BY <1>2, <1>3, <1>5, <1>6, <2>1, PrefixesAgree
<1>8. f[n + 1] = base * f[n] + d
  <2>1. n + 1 \in 1 .. Len(u) /\ (n + 1) - 1 = n
    BY <1>2, <1>3
  <2> QED BY <1>3, <1>5, <2>1 DEF Evaluates
<1>9. DigitsValue(u, base) = f[n + 1] /\ DigitsValue(t, base) = g[n]
  BY <1>3, <1>4, <1>5, <1>6, ValueIsPrefix
<1> QED BY <1>2, <1>4, <1>7, <1>8, <1>9 DEF u

LEMMA NoDigits == ASSUME NEW base \in Nat \ {0} PROVE <<>> \in DigitSeq(base) /\ DigitsValue(<<>>, base) = 0
<1>1. <<>> \in DigitSeq(base) /\ Len(<<>>) = 0
  BY DEF DigitSeq
<1>2. PICK f : Evaluates(f, <<>>, base) /\ DigitsValue(<<>>, base) = f[Len(<<>>)]
  BY <1>1, PrefixesAre
<1> QED BY <1>1, <1>2 DEF Evaluates

NoZeroInFront(t) == t = <<>> \/ t[1] # 0

LEMMA PrefixesPositive ==
  ASSUME NEW base \in Nat \ {0}, NEW t \in DigitSeq(base), NEW f, Evaluates(f, t, base), NoZeroInFront(t)
  PROVE  \A i \in 0 .. Len(t) : f[i] \in Nat /\ (i > 0 => f[i] >= 1)
<1> DEFINE T == {i \in 0 .. Len(t) : f[i] \in Nat /\ (i > 0 => f[i] >= 1)}
<1>1. Len(t) \in Nat
  BY DigitLength
<1>2. 0 \in T
  BY <1>1 DEF Evaluates
<1>3. ASSUME NEW i \in 0 .. Len(t) - 1, i \in T PROVE i + 1 \in T
  <2>1. i + 1 \in 1 .. Len(t) /\ i + 1 \in 0 .. Len(t) /\ (i + 1) - 1 = i
    BY <1>1
  <2>2. t[i + 1] \in Nat
    BY <2>1, DigitAt
  <2>3. f[i + 1] = base * f[i] + t[i + 1]
    BY <2>1 DEF Evaluates
  <2>4. f[i] \in Nat /\ base * f[i] \in Nat
    BY <1>3
  <2>5. CASE i = 0
    <3>1. t # <<>>
      BY <2>1, <2>5
    <3>2. t[1] # 0 /\ f[0] = 0 /\ base * 0 = 0
      BY <3>1 DEF NoZeroInFront, Evaluates
    <3>3. f[1] = t[1] /\ t[1] >= 1
      BY <2>2, <2>3, <2>5, <3>2
    <3> QED BY <2>1, <2>2, <2>5, <3>3
  <2>6. CASE i # 0
    <3>1. f[i] >= 1
      BY <1>3, <2>6
    <3>2. base * f[i] >= 1
      BY <2>4, <3>1
    <3> QED BY <2>1, <2>2, <2>3, <2>4, <3>2
  <2> QED BY <2>5, <2>6
<1>4. T = 0 .. Len(t)
  <2>1. T \in SUBSET (0 .. Len(t))
    OBVIOUS
  <2> HIDE DEF T
  <2> QED BY <1>1, <1>2, <1>3, <2>1, InductTo
<1> QED BY <1>4

\* From behind, sequences of digits of the same value have the same prefixes.
LEMMA SameFromBehind ==
  ASSUME NEW base \in Nat \ {0}, NEW t \in DigitSeq(base), NEW u \in DigitSeq(base), Len(t) <= Len(u),
         NEW f, NEW g, Evaluates(f, t, base), Evaluates(g, u, base), f[Len(t)] = g[Len(u)]
  PROVE  \A i \in 0 .. Len(t) : f[Len(t) - i] = g[Len(u) - i]
<1> DEFINE m == Len(t)
           n == Len(u)
           T == {i \in 0 .. m : f[m - i] = g[n - i]}
<1>1. m \in Nat /\ n \in Nat
  BY DigitLength
<1>2. 0 \in T
  <2> HIDE DEF m, n
  <2>1. m - 0 = m /\ n - 0 = n /\ 0 \in 0 .. m
    BY <1>1
  <2>2. f[m] = g[n]
    BY DEF m, n
  <2> QED BY <2>1, <2>2
<1>3. ASSUME NEW i \in 0 .. m - 1, i \in T PROVE i + 1 \in T
  <2> DEFINE a == m - i
             b == n - i
  <2>1. a \in 1 .. m /\ b \in 1 .. n /\ m - (i + 1) = a - 1 /\ n - (i + 1) = b - 1 /\ i + 1 \in 0 .. m
    BY <1>1
  <2>2. f[a] = g[b]
    BY <1>3
  <2> HIDE DEF a, b
  <2>3. t[a] \in 0 .. base - 1 /\ u[b] \in 0 .. base - 1
    BY <2>1, DigitAt
  <2>4. f[a] = base * f[a - 1] + t[a] /\ f[a - 1] \in Nat
    <3>1. a - 1 \in 0 .. m
      BY <1>1, <2>1
    <3> QED BY <2>1, <3>1 DEF Evaluates
  <2>5. g[b] = base * g[b - 1] + u[b] /\ g[b - 1] \in Nat
    <3>1. b - 1 \in 0 .. n
      BY <1>1, <2>1
    <3> QED BY <2>1, <3>1 DEF Evaluates
  <2>6. f[a] \div base = f[a - 1]
    <3> DEFINE h == f[a]
               q == f[a - 1]
               r == t[a]
    <3>1. q \in Nat /\ r \in 0 .. base - 1 /\ h = base * q + r
      BY <2>3, <2>4
    <3> HIDE DEF h, q, r
    <3>2. h \div base = q
      BY <3>1, DivisionIs
    <3> QED BY <3>2 DEF h, q
  <2>7. g[b] \div base = g[b - 1]
    <3> DEFINE h == g[b]
               q == g[b - 1]
               r == u[b]
    <3>1. q \in Nat /\ r \in 0 .. base - 1 /\ h = base * q + r
      BY <2>3, <2>5
    <3> HIDE DEF h, q, r
    <3>2. h \div base = q
      BY <3>1, DivisionIs
    <3> QED BY <3>2 DEF h, q
  <2> QED BY <2>1, <2>2, <2>6, <2>7
<1>4. T = 0 .. m
  <2>1. T \in SUBSET (0 .. m)
    OBVIOUS
  <2> HIDE DEF T
  <2> QED BY <1>1, <1>2, <1>3, <2>1, InductTo
<1> QED BY <1>4

LEMMA ShorterIsNot ==
  ASSUME NEW base \in Nat \ {0}, NEW t \in DigitSeq(base), NEW u \in DigitSeq(base), NoZeroInFront(u),
         DigitsValue(t, base) = DigitsValue(u, base), Len(t) <= Len(u)
  PROVE  Len(t) = Len(u)
<1>1. PICK f : Evaluates(f, t, base) /\ DigitsValue(t, base) = f[Len(t)]
  BY PrefixesAre
<1>2. PICK g : Evaluates(g, u, base) /\ DigitsValue(u, base) = g[Len(u)]
  BY PrefixesAre
<1>3. Len(t) \in Nat /\ Len(u) \in Nat
  BY DigitLength
<1>4. f[Len(t) - Len(t)] = g[Len(u) - Len(t)]
  <2>1. \A i \in 0 .. Len(t) : f[Len(t) - i] = g[Len(u) - i]
    <3>1. f[Len(t)] = g[Len(u)]
      BY <1>1, <1>2
    <3> QED BY <1>1, <1>2, <3>1, SameFromBehind
  <2> QED BY <1>3, <2>1
<1>5. Len(t) - Len(t) = 0 /\ f[0] = 0
  BY <1>1, <1>3 DEF Evaluates
<1>6. \A i \in 0 .. Len(u) : g[i] \in Nat /\ (i > 0 => g[i] >= 1)
  BY <1>2, PrefixesPositive
<1>7. Len(u) - Len(t) \in 0 .. Len(u)
  BY <1>3
<1>8. ~(Len(u) - Len(t) > 0)
  BY <1>4, <1>5, <1>6, <1>7
<1> QED BY <1>3, <1>8

\* A number is written in one way without zeroes in front.
LEMMA OneNumeral ==
  ASSUME NEW base \in Nat \ {0}, NEW t \in DigitSeq(base), NEW u \in DigitSeq(base),
         NoZeroInFront(t), NoZeroInFront(u), DigitsValue(t, base) = DigitsValue(u, base)
  PROVE  t = u
<1>1. Len(t) \in Nat /\ Len(u) \in Nat
  BY DigitLength
<1>2. Len(t) = Len(u)
  <2>1. CASE Len(t) <= Len(u)
    BY <2>1, ShorterIsNot
  <2>2. CASE Len(u) <= Len(t)
    BY <2>2, ShorterIsNot
  <2> QED BY <1>1, <2>1, <2>2
<1>3. PICK f : Evaluates(f, t, base) /\ DigitsValue(t, base) = f[Len(t)]
  BY PrefixesAre
<1>4. PICK g : Evaluates(g, u, base) /\ DigitsValue(u, base) = g[Len(u)]
  BY PrefixesAre
<1>5. \A i \in 0 .. Len(t) : f[i] = g[i]
  <2>1. \A i \in 0 .. Len(t) : f[Len(t) - i] = g[Len(u) - i]
    <3>1. Len(t) <= Len(u)
      BY <1>1, <1>2
    <3>2. f[Len(t)] = g[Len(u)]
      BY <1>3, <1>4
    <3> QED BY <1>3, <1>4, <3>1, <3>2, SameFromBehind
  <2>2. ASSUME NEW i \in 0 .. Len(t) PROVE f[i] = g[i]
    <3>1. Len(t) - i \in 0 .. Len(t) /\ Len(t) - (Len(t) - i) = i
      BY <1>1
    <3> QED BY <1>2, <2>1, <3>1
  <2> QED BY <2>2
<1>6. ASSUME NEW i \in 1 .. Len(t) PROVE t[i] = u[i]
  <2>1. i - 1 \in 0 .. Len(t) /\ i \in 0 .. Len(t)
    BY <1>1
  <2>2. f[i] = base * f[i - 1] + t[i] /\ f[i - 1] \in Nat
    BY <1>3, <2>1 DEF Evaluates
  <2>3. g[i] = base * g[i - 1] + u[i]
    BY <1>2, <1>4 DEF Evaluates
  <2>4. t[i] \in Nat /\ u[i] \in Nat
    BY <1>2, DigitAt
  <2>5. f[i] = g[i] /\ f[i - 1] = g[i - 1]
    BY <1>5, <2>1
  <2>6. base * f[i - 1] \in Nat
    BY <2>2
  <2> QED BY <2>2, <2>3, <2>4, <2>5, <2>6
<1>7. t \in Seq(0 .. base - 1) /\ u \in Seq(0 .. base - 1)
  BY DEF DigitSeq
<1> QED BY <1>2, <1>6, <1>7, SeqEqual

\* Zeroes in front are worth nothing.
LEMMA ZeroesInFront ==
  ASSUME NEW base \in Nat \ {0}, NEW t \in DigitSeq(base), NEW u \in DigitSeq(base), NEW k \in Nat,
         Len(t) = k + Len(u), \A i \in 1 .. k : t[i] = 0, \A i \in 1 .. Len(u) : t[k + i] = u[i]
  PROVE  DigitsValue(t, base) = DigitsValue(u, base)
<1>1. PICK f : Evaluates(f, t, base) /\ DigitsValue(t, base) = f[Len(t)]
  BY PrefixesAre
<1>2. PICK g : Evaluates(g, u, base) /\ DigitsValue(u, base) = g[Len(u)]
  BY PrefixesAre
<1>3. Len(t) \in Nat /\ Len(u) \in Nat
  BY DigitLength
<1> DEFINE T == {i \in 0 .. k : f[i] = 0}
           U == {i \in 0 .. Len(u) : f[k + i] = g[i]}
<1>4. T = 0 .. k
  <2>1. 0 \in T
    BY <1>1 DEF Evaluates
  <2>2. ASSUME NEW i \in 0 .. k - 1, i \in T PROVE i + 1 \in T
    <3>1. i + 1 \in 1 .. k /\ i + 1 \in 1 .. Len(t) /\ (i + 1) - 1 = i /\ i + 1 \in 0 .. k
      BY <1>3
    <3>2. f[i + 1] = base * f[i] + t[i + 1]
      BY <1>1, <3>1 DEF Evaluates
    <3>3. f[i] = 0 /\ t[i + 1] = 0
      BY <2>2, <3>1
    <3>4. f[i + 1] = base * 0 + 0
      BY <3>2, <3>3
    <3> QED BY <3>1, <3>4
  <2>3. T \in SUBSET (0 .. k)
    OBVIOUS
  <2> HIDE DEF T
  <2> QED BY <2>1, <2>2, <2>3, InductTo
<1>5. U = 0 .. Len(u)
  <2>1. 0 \in U
    <3>1. k \in T /\ k + 0 = k
      BY <1>4
    <3> QED BY <1>2, <1>3, <3>1 DEF Evaluates
  <2>2. ASSUME NEW i \in 0 .. Len(u) - 1, i \in U PROVE i + 1 \in U
    <3>1. i + 1 \in 1 .. Len(u) /\ k + i + 1 \in 1 .. Len(t) /\ (k + i + 1) - 1 = k + i /\ (i + 1) - 1 = i
          /\ i + 1 \in 0 .. Len(u) /\ k + (i + 1) = k + i + 1
      BY <1>3
    <3>2. f[k + i + 1] = base * f[k + i] + t[k + i + 1]
      BY <1>1, <3>1 DEF Evaluates
    <3>3. g[i + 1] = base * g[i] + u[i + 1]
      BY <1>2, <3>1 DEF Evaluates
    <3>4. t[k + i + 1] = u[i + 1]
      BY <3>1
    <3> QED BY <2>2, <3>1, <3>2, <3>3, <3>4
  <2>3. U \in SUBSET (0 .. Len(u))
    OBVIOUS
  <2> HIDE DEF U
  <2> QED BY <1>3, <2>1, <2>2, <2>3, InductTo
<1>6. f[k + Len(u)] = g[Len(u)]
  <2>1. Len(u) \in U
    BY <1>3, <1>5
  <2> QED BY <2>1
<1> QED BY <1>1, <1>2, <1>6

-----------------------------------------------------------------------------
(***************************************************************************)
(* The digits of a number: of its quotient by the base, and the remainder. *)
(***************************************************************************)
LEMMA Quotients ==
  ASSUME NEW base \in Nat, base >= 2, NEW m \in Nat \ {0}
  PROVE  m \div base \in Nat /\ m \div base < m /\ m % base \in 0 .. base - 1
         /\ m = base * (m \div base) + (m % base)
<1> DEFINE q == m \div base
           r == m % base
<1>1. m = base * q + r /\ r \in 0 .. base - 1 /\ q \in Nat
  <2>1. base \in Nat \ {0} /\ m \in Nat
    OBVIOUS
  <2> QED BY <2>1, Division
<1> HIDE DEF q, r
<1>2. base * q >= 2 * q
  BY <1>1
<1>3. q < m
  <2>1. base * q \in Nat
    BY <1>1
  <2> QED BY <1>1, <1>2, <2>1
<1> QED BY <1>1, <1>3 DEF q, r

\* The digits are made of those of the quotient and the remainder.
MadeOf(g, n, base) ==
  /\ g \in [0 .. n -> DigitSeq(base)] /\ g[0] = <<>>
  /\ \A m \in 1 .. n : g[m] = g[m \div base] \o <<m % base>>

LEMMA NumeralMade ==
  ASSUME NEW base \in Nat, base >= 2, NEW n \in Nat
  PROVE  \E g : MadeOf(g, n, base) /\ Numeral(n, base) = g[n]
<1> DEFINE S == DigitSeq(base)
           P == 1 .. n
           empty == [m \in 0 .. n |-> <<>>]
           prev == [m \in 0 .. n |-> m \div base]
           F == [m \in 0 .. n |-> [s \in S |-> s \o <<m % base>>]]
<1>1. empty \in [0 .. n -> S]
  <2>1. <<>> \in S
    BY NoDigits
  <2> HIDE DEF S
  <2> QED BY <2>1
<1>2. ASSUME NEW m \in 0 .. n PROVE m \in Nat /\ m \div base \in Nat /\ m % base \in 0 .. base - 1
  <2>1. base \in Nat \ {0} /\ m \in Nat
    OBVIOUS
  <2> QED BY <2>1, Division
<1>3. prev \in [0 .. n -> Nat]
  BY <1>2
<1>4. F \in [0 .. n -> [S -> S]]
  <2>1. ASSUME NEW m \in 0 .. n, NEW s \in S PROVE s \o <<m % base>> \in S
    <3> DEFINE d == m % base
    <3>1. d \in 0 .. base - 1
      BY <1>2
    <3> HIDE DEF d
    <3>2. s \o <<d>> \in S
      BY <3>1, ValueOfMore
    <3> QED BY <3>2 DEF d
  <2> HIDE DEF S
  <2> QED BY <2>1
<1>5. \A m \in 0 .. n : m \in P => prev[m] < m
  BY Quotients
<1>6. PICK f : Jumps(f, n, S, P, empty, prev, F)
  <2> HIDE DEF S, P, empty, prev, F
  <2> QED BY <1>1, <1>3, <1>4, <1>5, JumpByJump
<1>7. f \in [0 .. n -> S] /\ \A m \in 0 .. n : f[m] = IF m \in P THEN F[m][f[prev[m]]] ELSE empty[m]
  BY <1>6 DEF Jumps
<1>8. ASSUME NEW m \in 1 .. n PROVE f[m] = f[m \div base] \o <<m % base>>
  <2>1. m \in 0 .. n /\ m \in P
    OBVIOUS
  <2>2. prev[m] = m \div base /\ m \div base \in 0 .. n
    BY <2>1, Quotients
  <2>3. f[m \div base] \in S
    <3> HIDE DEF S, P, empty, prev, F
    <3> QED BY <1>7, <2>2
  <2>4. f[m] = F[m][f[m \div base]]
    <3> HIDE DEF S, P, empty, prev, F
    <3> QED BY <1>7, <2>1, <2>2
  <2> HIDE DEF S
  <2> QED BY <2>1, <2>3, <2>4
<1>9. f[0] = <<>>
  <2>1. 0 \in 0 .. n /\ 0 \notin P /\ empty[0] = <<>>
    OBVIOUS
  <2> HIDE DEF S, P, empty, prev, F
  <2> QED BY <1>7, <2>1
<1> DEFINE Def(g) == g = [m \in 0 .. n |-> IF m = 0 THEN <<>> ELSE g[m \div base] \o <<m % base>>]
           g == CHOOSE h : Def(h)
<1>10. Def(f)
  <2>1. f = [m \in 0 .. n |-> f[m]]
    <3> HIDE DEF S, P, empty, prev, F
    <3> QED BY <1>7
  <2>2. ASSUME NEW m \in 0 .. n PROVE f[m] = IF m = 0 THEN <<>> ELSE f[m \div base] \o <<m % base>>
    <3> HIDE DEF S, P, empty, prev, F
    <3>1. CASE m = 0
      BY <1>9, <3>1
    <3>2. CASE m # 0
      <4>1. m \in 1 .. n
        BY <3>2
      <4> QED BY <1>8, <3>2, <4>1
    <3> QED BY <3>1, <3>2
  <2> QED BY <2>1, <2>2, Zenon
<1>11. Def(g)
  <2> HIDE DEF Def
  <2> QED BY <1>10, Zenon DEF g
<1>12. Numeral(n, base) = g[n]
  BY DEF Numeral
<1>13. g = f
  <2> HIDE DEF S, P, empty, prev, F, g
  <2> DEFINE T == {m \in 0 .. n : g[m] = f[m]}
  <2>1. \A m \in 0 .. n : g[m] = IF m = 0 THEN <<>> ELSE g[m \div base] \o <<m % base>>
    BY <1>11
  <2>2. g = [m \in 0 .. n |-> g[m]]
    BY <1>11
  <2>3. \A m \in 0 .. n : f[m] = IF m = 0 THEN <<>> ELSE f[m \div base] \o <<m % base>>
    BY <1>10
  <2>4. f = [m \in 0 .. n |-> f[m]]
    BY <1>10
  <2> HIDE DEF Def
  <2>5. ASSUME NEW m \in 0 .. n, \A j \in 0 .. m - 1 : j \in T PROVE m \in T
    <3>1. CASE m = 0
      BY <2>1, <2>3, <3>1
    <3>2. CASE m # 0
      <4>1. m \div base \in 0 .. m - 1
        <5> DEFINE q == m \div base
        <5>1. m \in Nat \ {0}
          BY <3>2
        <5>2. q \in Nat /\ q < m
          BY <5>1, Quotients
        <5> HIDE DEF q
        <5>3. q \in 0 .. m - 1
          BY <5>1, <5>2
        <5> QED BY <5>3 DEF q
      <4>2. g[m \div base] = f[m \div base]
        BY <2>5, <4>1
      <4>3. g[m] = g[m \div base] \o <<m % base>> /\ f[m] = f[m \div base] \o <<m % base>>
        BY <2>1, <2>3, <3>2
      <4> QED BY <4>2, <4>3
    <3> QED BY <3>1, <3>2
  <2>6. T = 0 .. n
    <3>1. T \in SUBSET (0 .. n)
      OBVIOUS
    <3> HIDE DEF T
    <3> QED BY <2>5, <3>1, StrongInductTo
  <2>7. \A m \in 0 .. n : g[m] = f[m]
    BY <2>6
  <2> HIDE DEF T
  <2> QED BY <2>2, <2>4, <2>7, Zenon
<1>14. MadeOf(f, n, base)
  BY <1>7, <1>8, <1>9 DEF MadeOf
<1> HIDE DEF g
<1> QED BY <1>12, <1>13, <1>14

\* What Numeral writes has no zero in front and is the number.
IsNumeral(t, n, base) == t \in DigitSeq(base) /\ NoZeroInFront(t) /\ DigitsValue(t, base) = n

LEMMA NumeralIs ==
  ASSUME NEW base \in Nat, base >= 2, NEW n \in Nat
  PROVE  IsNumeral(Numeral(n, base), n, base)
<1>1. PICK g : MadeOf(g, n, base) /\ Numeral(n, base) = g[n]
  BY NumeralMade
<1> DEFINE T == {m \in 0 .. n : IsNumeral(g[m], m, base)}
<1>2. ASSUME NEW m \in 0 .. n, \A j \in 0 .. m - 1 : j \in T PROVE m \in T
  <2>1. CASE m = 0
    BY <1>1, <2>1, NoDigits DEF MadeOf, IsNumeral, NoZeroInFront
  <2>2. CASE m # 0
    <3> DEFINE q == m \div base
               d == m % base
               s == g[q]
    <3>1. q \in 0 .. m - 1 /\ d \in 0 .. base - 1 /\ m = base * q + d
      <4>1. m \in Nat \ {0}
        BY <2>2
      <4>2. q \in Nat /\ q < m /\ d \in 0 .. base - 1 /\ m = base * q + d
        BY <4>1, Quotients
      <4> HIDE DEF q, d
      <4>3. q \in 0 .. m - 1
        BY <4>1, <4>2
      <4> QED BY <4>2, <4>3
    <3>2. IsNumeral(s, q, base)
      BY <1>2, <3>1
    <3>3. g[m] = s \o <<d>>
      BY <1>1, <2>2 DEF MadeOf
    <3> HIDE DEF q, d, s
    <3>4. s \in DigitSeq(base)
      BY <3>2 DEF IsNumeral
    <3>5. s \o <<d>> \in DigitSeq(base) /\ DigitsValue(s \o <<d>>, base) = base * DigitsValue(s, base) + d
      BY <3>1, <3>4, ValueOfMore
    <3>6. DigitsValue(s \o <<d>>, base) = m
      BY <3>1, <3>2, <3>5 DEF IsNumeral
    <3>7. NoZeroInFront(s \o <<d>>)
      <4>1. CASE s = <<>>
        <5>1. q = 0
          BY <3>2, <4>1, NoDigits DEF IsNumeral
        <5>2. d # 0
          BY <2>2, <3>1, <5>1
        <5>3. <<>> \o <<d>> = <<d>>
          BY <3>1, ConcatEmptySeq
        <5>4. (s \o <<d>>)[1] = d
          BY <4>1, <5>3
        <5> QED BY <5>2, <5>4 DEF NoZeroInFront
      <4>2. CASE s # <<>>
        <5>1. s \in Seq(0 .. base - 1) /\ <<d>> \in Seq(0 .. base - 1) /\ Len(<<d>>) = 1
          BY <3>1, <3>4 DEF DigitSeq
        <5>2. Len(s) \in Nat \ {0}
          BY <4>2, <5>1, EmptySeq
        <5>3. (s \o <<d>>)[1] = s[1]
          <6>1. 1 \in 1 .. Len(s) + Len(<<d>>) /\ 1 <= Len(s)
            BY <5>1, <5>2
          <6> QED BY <5>1, <6>1, ConcatProperties
        <5> QED BY <3>2, <4>2, <5>3 DEF IsNumeral, NoZeroInFront
      <4> QED BY <4>1, <4>2
    <3> QED BY <3>3, <3>5, <3>6, <3>7 DEF IsNumeral
  <2> QED BY <2>1, <2>2
<1>3. T = 0 .. n
  <2>1. T \in SUBSET (0 .. n)
    OBVIOUS
  <2> HIDE DEF T
  <2> QED BY <1>2, <2>1, StrongInductTo
<1>4. n \in T
  <2> HIDE DEF T
  <2> QED BY <1>3
<1> QED BY <1>1, <1>4
=============================================================================
