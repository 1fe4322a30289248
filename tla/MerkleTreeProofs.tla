-------------------------- MODULE MerkleTreeProofs --------------------------
(***************************************************************************)
(* Blocks of any number of transactions and any hash: the tree of module   *)
(* MerkleTree gives the root and the branches, and a stale one is harmless *)
(* unless vtx has grown; and if hashes do not collide, the root commits to *)
(* the padded transactions.                                                *)
(*                                                                         *)
(* The loops of the code are recursive functions, and what they compute is *)
(* shown by induction over the rows.                                       *)
(***************************************************************************)
EXTENDS MerkleTree, Induction

-----------------------------------------------------------------------------
\* What the loops over the rows compute.  Each of these first shows, by
\* induction over their number, that the function the recursion defines exists.
LEMMA SizeIs ==
  ASSUME NEW n \in Nat
  PROVE  /\ nSize(n) \in [0 .. n -> Nat]
         /\ nSize(n)[0] = n
         /\ \A h \in 1 .. n : nSize(n)[h] = (nSize(n)[h - 1] + 1) \div 2
<1> DEFINE Def(g, m) == g = [h \in 0 .. m |-> IF h = 0 THEN n ELSE (g[h - 1] + 1) \div 2]
           T == {m \in Nat : \E g : Def(g, m)}
<1>1. 0 \in T
  <2>1. Def([h \in 0 .. 0 |-> n], 0)
    OBVIOUS
  <2> QED BY <2>1
<1>2. ASSUME NEW m \in T PROVE m + 1 \in T
  <2>1. PICK g : Def(g, m)
    OBVIOUS
  <2> DEFINE f == [h \in 0 .. m + 1 |-> IF h <= m THEN g[h] ELSE (g[m] + 1) \div 2]
  <2>2. Def(f, m + 1)
    BY <2>1
  <2> HIDE DEF f
  <2> QED BY <2>2
<1>3. T = Nat
  <2> HIDE DEF T
  <2>1. T \in SUBSET Nat
    BY DEF T
  <2> QED BY <1>1, <1>2, <2>1, Induct
<1>4. \E g : Def(g, n)
  BY <1>3
<1>5. Def(nSize(n), n)
  BY <1>4, Zenon DEF nSize
<1> HIDE DEF T
<1>6. nSize(n)[0] = n /\ \A h \in 1 .. n : nSize(n)[h] = (nSize(n)[h - 1] + 1) \div 2
  BY <1>5
<1> DEFINE S == {h \in 0 .. n : nSize(n)[h] \in Nat}
<1>7. 0 \in S /\ \A h \in 0 .. n - 1 : h \in S => h + 1 \in S
  BY <1>6
<1>8. S = 0 .. n
  <2> HIDE DEF S
  <2>1. S \in SUBSET (0 .. n)
    BY DEF S
  <2> QED BY <1>7, <2>1, InductTo
<1>9. ASSUME NEW h \in 0 .. n PROVE nSize(n)[h] \in Nat
  BY <1>8
<1> QED BY <1>5, <1>6, <1>9

LEMMA SizePositive ==
  ASSUME NEW n \in Nat \ {0}
  PROVE  \A h \in 0 .. n : nSize(n)[h] >= 1
<1> DEFINE S == {h \in 0 .. n : nSize(n)[h] >= 1}
<1>0. n \in Nat /\ n >= 1 /\ nSize(n)[0] = n
  BY SizeIs
<1>1. 0 \in S
  BY <1>0
<1>2. ASSUME NEW h \in 0 .. n - 1, h \in S PROVE h + 1 \in S
  <2>1. h + 1 \in 1 .. n /\ h \in 0 .. n /\ (h + 1) - 1 = h /\ nSize(n)[h] \in Nat
    BY SizeIs
  <2>2. nSize(n)[h + 1] = (nSize(n)[h] + 1) \div 2
    BY <2>1, SizeIs
  <2> QED BY <1>2, <2>1, <2>2
<1>3. S = 0 .. n
  <2> HIDE DEF S
  <2>1. S \in SUBSET (0 .. n)
    BY DEF S
  <2> QED BY <1>1, <1>2, <2>1, InductTo
<1> QED BY <1>3

\* Every row is shorter than the one below, until there is one node.
LEMMA SizeFalls ==
  ASSUME NEW n \in Nat
  PROVE  \A h \in 0 .. n : nSize(n)[h] <= 1 \/ nSize(n)[h] <= n - h
<1> DEFINE S == {h \in 0 .. n : nSize(n)[h] <= 1 \/ nSize(n)[h] <= n - h}
<1>1. 0 \in S
  BY SizeIs
<1>2. ASSUME NEW h \in 0 .. n - 1, h \in S PROVE h + 1 \in S
  <2>1. /\ h + 1 \in 1 .. n /\ h \in 0 .. n /\ (h + 1) - 1 = h
        /\ nSize(n)[h] \in Nat
    BY SizeIs
  <2>2. nSize(n)[h + 1] = (nSize(n)[h] + 1) \div 2
    BY <2>1, SizeIs
  <2> QED BY <1>2, <2>1, <2>2
<1>3. S = 0 .. n
  <2> HIDE DEF S
  <2>1. S \in SUBSET (0 .. n)
    BY DEF S
  <2> QED BY <1>1, <1>2, <2>1, InductTo
<1> QED BY <1>3

LEMMA TopIs ==
  ASSUME NEW n \in Nat
  PROVE  /\ Top(n) \in 0 .. n
         /\ nSize(n)[Top(n)] <= 1
         /\ \A l \in 0 .. Top(n) - 1 : nSize(n)[l] > 1
         /\ n > 0 => nSize(n)[Top(n)] = 1
<1> DEFINE T == {h \in 0 .. n : nSize(n)[h] <= 1}
<1>1. n \in T
  BY SizeFalls, SizeIs
<1>2. PICK h \in T : \A l \in T : h <= l
  <2>1. T \in SUBSET Nat /\ T # {}
    BY <1>1
  <2> HIDE DEF T
  <2> QED BY <2>1, LeastOf
<1>3. \A l \in 0 .. h - 1 : nSize(n)[l] > 1
  <2> TAKE l \in 0 .. h - 1
  <2>1. l \in 0 .. n /\ l < h
    BY <1>2
  <2>2. l \notin T
    BY <1>2, <2>1
  <2>3. nSize(n)[l] \in Nat
    BY <2>1, SizeIs
  <2> QED BY <2>1, <2>2, <2>3
<1>4. /\ Top(n) \in 0 .. n /\ nSize(n)[Top(n)] <= 1
      /\ \A l \in 0 .. Top(n) - 1 : nSize(n)[l] > 1
  BY <1>2, <1>3 DEF Top
<1>5. n > 0 => nSize(n)[Top(n)] = 1
  <2> HAVE n > 0
  <2>0. nSize(n) \in [0 .. n -> Nat]
    BY SizeIs
  <2>1. n \in Nat \ {0} /\ nSize(n)[Top(n)] \in Nat
    BY <1>4, <2>0
  <2>2. nSize(n)[Top(n)] >= 1
    BY <1>4, <2>1, SizePositive
  <2> QED BY <1>4, <2>1, <2>2
<1> QED BY <1>4, <1>5

LEMMA StartIs ==
  ASSUME NEW n \in Nat
  PROVE  /\ RowStart(n) \in [0 .. n -> Nat]
         /\ RowStart(n)[0] = 0
         /\ \A h \in 1 .. n : RowStart(n)[h] = RowStart(n)[h - 1] + nSize(n)[h - 1]
<1> DEFINE Def(g, m) == g = [h \in 0 .. m |-> IF h = 0 THEN 0 ELSE g[h - 1] + nSize(n)[h - 1]]
           T == {m \in Nat : \E g : Def(g, m)}
<1>1. 0 \in T
  <2>1. Def([h \in 0 .. 0 |-> 0], 0)
    OBVIOUS
  <2> QED BY <2>1
<1>2. ASSUME NEW m \in T PROVE m + 1 \in T
  <2>1. PICK g : Def(g, m)
    OBVIOUS
  <2> DEFINE f == [h \in 0 .. m + 1 |-> IF h <= m THEN g[h] ELSE g[m] + nSize(n)[m]]
  <2>2. Def(f, m + 1)
    BY <2>1
  <2> HIDE DEF f
  <2> QED BY <2>2
<1>3. T = Nat
  <2> HIDE DEF T
  <2>1. T \in SUBSET Nat
    BY DEF T
  <2> QED BY <1>1, <1>2, <2>1, Induct
<1>4. \E g : Def(g, n)
  BY <1>3
<1>5. Def(RowStart(n), n)
  BY <1>4, Zenon DEF RowStart
<1> HIDE DEF T
<1>6. /\ RowStart(n)[0] = 0
      /\ \A h \in 1 .. n : RowStart(n)[h] = RowStart(n)[h - 1] + nSize(n)[h - 1]
  BY <1>5
<1> DEFINE S == {h \in 0 .. n : RowStart(n)[h] \in Nat}
<1>7. 0 \in S /\ \A h \in 0 .. n - 1 : h \in S => h + 1 \in S
  <2>1. 0 \in S
    BY <1>6
  <2>2. ASSUME NEW h \in 0 .. n - 1, h \in S PROVE h + 1 \in S
    <3>1. h + 1 \in 1 .. n /\ h \in 0 .. n /\ (h + 1) - 1 = h /\ nSize(n)[h] \in Nat
      BY SizeIs
    <3>2. RowStart(n)[h + 1] = RowStart(n)[h] + nSize(n)[h]
      BY <1>6, <3>1
    <3> QED BY <2>2, <3>1, <3>2
  <2> QED BY <2>1, <2>2
<1>8. S = 0 .. n
  <2> HIDE DEF S
  <2>1. S \in SUBSET (0 .. n)
    BY DEF S
  <2> QED BY <1>7, <2>1, InductTo
<1>9. ASSUME NEW h \in 0 .. n PROVE RowStart(n)[h] \in Nat
  BY <1>8
<1> QED BY <1>5, <1>6, <1>9

LEMMA ShiftedIs ==
  ASSUME NEW nIndex \in Nat, NEW n \in Nat
  PROVE  /\ Shifted(nIndex, n) \in [0 .. n -> Nat]
         /\ Shifted(nIndex, n)[0] = nIndex
         /\ \A h \in 1 .. n : Shifted(nIndex, n)[h] = Shifted(nIndex, n)[h - 1] \div 2
<1> DEFINE Def(g, m) == g = [h \in 0 .. m |-> IF h = 0 THEN nIndex ELSE g[h - 1] \div 2]
           T == {m \in Nat : \E g : Def(g, m)}
<1>1. 0 \in T
  <2>1. Def([h \in 0 .. 0 |-> nIndex], 0)
    OBVIOUS
  <2> QED BY <2>1
<1>2. ASSUME NEW m \in T PROVE m + 1 \in T
  <2>1. PICK g : Def(g, m)
    OBVIOUS
  <2> DEFINE f == [h \in 0 .. m + 1 |-> IF h <= m THEN g[h] ELSE g[m] \div 2]
  <2>2. Def(f, m + 1)
    BY <2>1
  <2> HIDE DEF f
  <2> QED BY <2>2
<1>3. T = Nat
  <2> HIDE DEF T
  <2>1. T \in SUBSET Nat
    BY DEF T
  <2> QED BY <1>1, <1>2, <2>1, Induct
<1>4. \E g : Def(g, n)
  BY <1>3
<1>5. Def(Shifted(nIndex, n), n)
  BY <1>4, Zenon DEF Shifted
<1> HIDE DEF T
<1>6. /\ Shifted(nIndex, n)[0] = nIndex
      /\ \A h \in 1 .. n : Shifted(nIndex, n)[h] = Shifted(nIndex, n)[h - 1] \div 2
  BY <1>5
<1> DEFINE S == {h \in 0 .. n : Shifted(nIndex, n)[h] \in Nat}
<1>7. 0 \in S /\ \A h \in 0 .. n - 1 : h \in S => h + 1 \in S
  BY <1>6
<1>8. S = 0 .. n
  <2> HIDE DEF S
  <2>1. S \in SUBSET (0 .. n)
    BY DEF S
  <2> QED BY <1>7, <2>1, InductTo
<1>9. ASSUME NEW h \in 0 .. n PROVE Shifted(nIndex, n)[h] \in Nat
  BY <1>8
<1> QED BY <1>5, <1>6, <1>9

-----------------------------------------------------------------------------
LEMMA AboveIs ==
  ASSUME NEW n \in Nat, NEW s, IsRow(s, n)
  PROVE  /\ IsRow(RowAbove(s), (n + 1) \div 2)
         /\ \A i \in 1 .. (n + 1) \div 2 : RowAbove(s)[i] = Hash(s[2 * i - 1], s[Smaller(2 * i, n)])
<1>1. Len(s) = n
  BY RowLength
<1>2. RowAbove(s) = [i \in 1 .. (n + 1) \div 2 |-> Hash(s[2 * i - 1], s[Smaller(2 * i, n)])]
  BY <1>1 DEF RowAbove
<1> HIDE DEF RowAbove
<1> QED BY <1>2 DEF IsRow

LEMMA RowsAre ==
  ASSUME NEW n \in Nat, NEW txs, IsRow(txs, n)
  PROVE  /\ Rows(txs)[0] = txs
         /\ \A h \in 1 .. Top(n) : Rows(txs)[h] = RowAbove(Rows(txs)[h - 1])
<1> DEFINE Def(g, m) == g = [h \in 0 .. m |-> IF h = 0 THEN txs ELSE RowAbove(g[h - 1])]
           T == {m \in Nat : \E g : Def(g, m)}
<1>1. 0 \in T
  <2>1. Def([h \in 0 .. 0 |-> txs], 0)
    OBVIOUS
  <2> QED BY <2>1
<1>2. ASSUME NEW m \in T PROVE m + 1 \in T
  <2>1. PICK g : Def(g, m)
    OBVIOUS
  <2> DEFINE f == [h \in 0 .. m + 1 |-> IF h <= m THEN g[h] ELSE RowAbove(g[m])]
  <2>2. Def(f, m + 1)
    BY <2>1
  <2> HIDE DEF f
  <2> QED BY <2>2
<1>3. T = Nat
  <2> HIDE DEF T
  <2>1. T \in SUBSET Nat
    BY DEF T
  <2> QED BY <1>1, <1>2, <2>1, Induct
<1>4. \E g : Def(g, Top(n))
  BY <1>3, TopIs
<1>5. Len(txs) = n
  BY RowLength
<1>6. Def(Rows(txs), Top(n))
  BY <1>4, <1>5, Zenon DEF Rows
<1> HIDE DEF T
<1> QED BY <1>6, TopIs

LEMMA RowOf ==
  ASSUME NEW n \in Nat, NEW txs, IsRow(txs, n)
  PROVE  \A h \in 0 .. Top(n) : IsRow(Rows(txs)[h], nSize(n)[h])
<1> DEFINE S == {h \in 0 .. Top(n) : IsRow(Rows(txs)[h], nSize(n)[h])}
<1>1. 0 \in S
  <2>1. Rows(txs)[0] = txs /\ nSize(n)[0] = n /\ 0 \in 0 .. Top(n)
    BY RowsAre, SizeIs, TopIs
  <2> QED BY <2>1
<1>2. ASSUME NEW h \in 0 .. Top(n) - 1, h \in S PROVE h + 1 \in S
  <2>1. h + 1 \in 1 .. Top(n) /\ h + 1 \in 1 .. n /\ h \in 0 .. n /\ (h + 1) - 1 = h
    BY TopIs
  <2>2. nSize(n)[h + 1] = (nSize(n)[h] + 1) \div 2 /\ nSize(n)[h] \in Nat
    BY <2>1, SizeIs
  <2>3. Rows(txs)[h + 1] = RowAbove(Rows(txs)[h])
    BY <2>1, RowsAre
  <2>4. IsRow(RowAbove(Rows(txs)[h]), (nSize(n)[h] + 1) \div 2)
    BY <1>2, <2>2, AboveIs
  <2> QED BY <2>1, <2>2, <2>3, <2>4, TopIs
<1>3. S = 0 .. Top(n)
  <2> HIDE DEF S
  <2>1. S \in SUBSET (0 .. Top(n)) /\ Top(n) \in Nat
    BY TopIs DEF S
  <2> QED BY <1>1, <1>2, <2>1, InductTo
<1> QED BY <1>3

\* A row ends no later than a row above it does.
LEMMA RowsFollow ==
  ASSUME NEW n \in Nat, NEW l \in 0 .. n
  PROVE  \A h \in l .. n : RowStart(n)[l] + nSize(n)[l] <= RowStart(n)[h] + nSize(n)[h]
<1> DEFINE S == {k \in 0 .. n - l : RowStart(n)[l] + nSize(n)[l] <= RowStart(n)[l + k] + nSize(n)[l + k]}
<1>0. nSize(n) \in [0 .. n -> Nat] /\ RowStart(n) \in [0 .. n -> Nat]
  BY SizeIs, StartIs
<1>1. 0 \in S
  BY <1>0
<1>2. ASSUME NEW k \in 0 .. (n - l) - 1, k \in S PROVE k + 1 \in S
  <2> DEFINE h == l + k
  <2>1. h + 1 \in 1 .. n /\ h \in 0 .. n /\ (h + 1) - 1 = h /\ l + (k + 1) = h + 1 /\ h + 1 \in 0 .. n
    OBVIOUS
  <2>2. RowStart(n)[h + 1] = RowStart(n)[h] + nSize(n)[h]
    BY <2>1, StartIs
  <2>3. /\ RowStart(n)[h] \in Nat /\ nSize(n)[h] \in Nat /\ nSize(n)[h + 1] \in Nat
        /\ RowStart(n)[l] \in Nat /\ nSize(n)[l] \in Nat
    BY <1>0, <2>1
  <2>4. RowStart(n)[l] + nSize(n)[l] <= RowStart(n)[h] + nSize(n)[h]
    BY <1>2
  <2> HIDE DEF h
  <2>5. RowStart(n)[l] + nSize(n)[l] <= RowStart(n)[h + 1] + nSize(n)[h + 1]
    BY <2>2, <2>3, <2>4
  <2> QED BY <2>1, <2>5
<1>3. S = 0 .. n - l
  <2> HIDE DEF S
  <2>1. S \in SUBSET (0 .. n - l) /\ n - l \in Nat
    BY DEF S
  <2> QED BY <1>1, <1>2, <2>1, InductTo
<1>4. ASSUME NEW h \in l .. n
      PROVE  RowStart(n)[l] + nSize(n)[l] <= RowStart(n)[h] + nSize(n)[h]
  <2>1. h - l \in 0 .. n - l /\ l + (h - l) = h
    OBVIOUS
  <2>2. h - l \in S
    BY <1>3, <2>1
  <2> QED BY <2>1, <2>2
<1> QED BY <1>4

\* The tree is its rows, one after the other.
LEMMA TreeIs ==
  ASSUME NEW n \in Nat, NEW txs, IsRow(txs, n)
  PROVE  /\ IsRow(Tree(txs), RowStart(n)[Top(n)] + nSize(n)[Top(n)])
         /\ \A l \in 0 .. Top(n) : \A i \in 1 .. nSize(n)[l] :
              Tree(txs)[RowStart(n)[l] + i] = Rows(txs)[l][i]
<1> DEFINE Def(g, m) == g = [h \in 0 .. m |-> IF h = 0 THEN txs ELSE g[h - 1] \o Rows(txs)[h]]
           T == {m \in Nat : \E g : Def(g, m)}
<1>1. 0 \in T
  <2>1. Def([h \in 0 .. 0 |-> txs], 0)
    OBVIOUS
  <2> QED BY <2>1
<1>2. ASSUME NEW m \in T PROVE m + 1 \in T
  <2>1. PICK g : Def(g, m)
    OBVIOUS
  <2> DEFINE f == [h \in 0 .. m + 1 |-> IF h <= m THEN g[h] ELSE g[m] \o Rows(txs)[m + 1]]
  <2>2. Def(f, m + 1)
    BY <2>1
  <2> HIDE DEF f
  <2> QED BY <2>2
<1>3. T = Nat
  <2> HIDE DEF T
  <2>1. T \in SUBSET Nat
    BY DEF T
  <2> QED BY <1>1, <1>2, <2>1, Induct
<1>t. Top(n) \in 0 .. n /\ Top(n) \in Nat /\ Len(txs) = n
  BY TopIs, RowLength
<1>4. \E g : Def(g, Top(n))
  BY <1>3, <1>t
<1>5. \E g : Def(g, Top(n)) /\ Tree(txs) = g[Top(n)]
  <2> DEFINE c == CHOOSE g : Def(g, Top(n))
  <2>1. Def(c, Top(n))
    BY <1>4, Zenon
  <2>2. Tree(txs) = c[Top(n)]
    BY <1>t DEF Tree
  <2> QED BY <2>1, <2>2
<1>6. PICK g : Def(g, Top(n)) /\ Tree(txs) = g[Top(n)]
  BY <1>5
<1> HIDE DEF T
<1>7. g[0] = txs /\ \A h \in 1 .. Top(n) : g[h] = g[h - 1] \o Rows(txs)[h]
  BY <1>6, <1>t
<1> DEFINE Good(h) ==
             /\ IsRow(g[h], RowStart(n)[h] + nSize(n)[h])
             /\ \A l \in 0 .. h : \A i \in 1 .. nSize(n)[l] : g[h][RowStart(n)[l] + i] = Rows(txs)[l][i]
           S == {h \in 0 .. Top(n) : Good(h)}
<1>0. nSize(n) \in [0 .. n -> Nat] /\ RowStart(n) \in [0 .. n -> Nat]
  BY SizeIs, StartIs
<1>8. 0 \in S
  <2>1. RowStart(n)[0] = 0 /\ nSize(n)[0] = n /\ Rows(txs)[0] = txs /\ g[0] = txs
    BY <1>7, SizeIs, StartIs, RowsAre
  <2> QED BY <2>1, <1>t
<1>9. ASSUME NEW h \in 0 .. Top(n) - 1, h \in S PROVE h + 1 \in S
  <2>1. /\ h + 1 \in 1 .. n /\ h + 1 \in 1 .. Top(n) /\ h \in 0 .. n /\ (h + 1) - 1 = h /\ h + 1 \in 0 .. n
        /\ h + 1 \in 0 .. Top(n)
    BY <1>t
  <2> DEFINE m == RowStart(n)[h] + nSize(n)[h]
             k == nSize(n)[h + 1]
  <2>2. RowStart(n)[h + 1] = m /\ m \in Nat /\ k \in Nat
    <3>1. \A e \in 1 .. n : RowStart(n)[e] = RowStart(n)[e - 1] + nSize(n)[e - 1]
      BY StartIs
    <3>2. RowStart(n)[h + 1] = m
      BY <2>1, <3>1
    <3>3. RowStart(n)[h] \in Nat /\ nSize(n)[h] \in Nat /\ nSize(n)[h + 1] \in Nat
      BY <2>1, <1>0
    <3> QED BY <3>2, <3>3
  <2>3. g[h + 1] = g[h] \o Rows(txs)[h + 1]
    BY <1>7, <2>1
  <2>4. IsRow(g[h], m) /\ IsRow(Rows(txs)[h + 1], k)
    BY <1>9, <2>1, RowOf
  <2>5. /\ IsRow(g[h + 1], m + k)
        /\ \A i \in 1 .. m : g[h + 1][i] = g[h][i]
        /\ \A i \in 1 .. k : g[h + 1][m + i] = Rows(txs)[h + 1][i]
    <3> HIDE DEF m, k
    <3> DEFINE s == g[h]
               t == Rows(txs)[h + 1]
    <3>1. IsRow(s, m) /\ IsRow(t, k) /\ g[h + 1] = s \o t
      BY <2>3, <2>4
    <3> HIDE DEF s, t
    <3>2. JoinedRows(g[h + 1], s, m, t, k)
      BY <2>2, <3>1, Concat
    <3> QED BY <3>2 DEF JoinedRows, s, t
  <2>6. ASSUME NEW l \in 0 .. h, NEW i \in 1 .. nSize(n)[l]
        PROVE  g[h + 1][RowStart(n)[l] + i] = Rows(txs)[l][i]
    <3>1. g[h][RowStart(n)[l] + i] = Rows(txs)[l][i]
      BY <1>9
    <3>2. l \in 0 .. n /\ h \in l .. n
      BY <2>1
    <3>3. RowStart(n)[l] + nSize(n)[l] <= m
      BY <3>2, RowsFollow
    <3>4. RowStart(n)[l] \in Nat /\ nSize(n)[l] \in Nat
      BY <1>0, <3>2
    <3>5. RowStart(n)[l] + i \in 1 .. m
      <4> HIDE DEF m
      <4> QED BY <3>3, <3>4, <2>2
    <3> QED BY <2>5, <3>1, <3>5
  <2>7. ASSUME NEW l \in 0 .. h + 1, NEW i \in 1 .. nSize(n)[l]
        PROVE  g[h + 1][RowStart(n)[l] + i] = Rows(txs)[l][i]
    <3>1. CASE l \in 0 .. h
      BY <2>6, <3>1
    <3>2. CASE l = h + 1
      BY <2>2, <2>5, <3>2
    <3> QED BY <3>1, <3>2
  <2>8. IsRow(g[h + 1], RowStart(n)[h + 1] + nSize(n)[h + 1])
    BY <2>2, <2>5
  <2> QED BY <2>1, <2>7, <2>8
<1>10. S = 0 .. Top(n)
  <2> HIDE DEF S
  <2>1. S \in SUBSET (0 .. Top(n))
    BY DEF S
  <2> QED BY <1>t, <1>8, <1>9, <2>1, InductTo
<1>11. Good(Top(n))
  BY <1>10, <1>t
<1> QED BY <1>6, <1>11

-----------------------------------------------------------------------------
\* The branch.  Its nodes and their siblings stay within the rows.
LEMMA SiblingInRow ==
  ASSUME NEW k \in Nat, NEW size \in Nat \ {0}
  PROVE  Sibling(k, size) \in 0 .. size - 1
<1>1. k % 2 \in 0 .. 1 /\ (k % 2 # 0 => k >= 1)
  OBVIOUS
<1> QED BY <1>1 DEF Sibling, Smaller

LEMMA ShiftInRow ==
  ASSUME NEW n \in Nat \ {0}, NEW nIndex \in 0 .. n - 1
  PROVE  \A h \in 0 .. Top(n) : Shifted(nIndex, Top(n))[h] \in 0 .. nSize(n)[h] - 1
<1> DEFINE bits == Shifted(nIndex, Top(n))
           S == {h \in 0 .. Top(n) : bits[h] \in 0 .. nSize(n)[h] - 1}
<1>0. /\ Top(n) \in 0 .. n /\ Top(n) \in Nat /\ nIndex \in Nat /\ n \in Nat
      /\ nSize(n)[0] = n /\ nSize(n) \in [0 .. n -> Nat]
  BY TopIs, SizeIs
<1>1. /\ bits \in [0 .. Top(n) -> Nat] /\ bits[0] = nIndex
      /\ \A h \in 1 .. Top(n) : bits[h] = bits[h - 1] \div 2
  BY <1>0, ShiftedIs
<1> HIDE DEF bits
<1>2. 0 \in S
  BY <1>0, <1>1
<1>3. ASSUME NEW h \in 0 .. Top(n) - 1, h \in S PROVE h + 1 \in S
  <2>1. /\ h + 1 \in 1 .. Top(n) /\ h + 1 \in 1 .. n /\ h \in 0 .. n /\ (h + 1) - 1 = h
        /\ h + 1 \in 0 .. Top(n)
    BY <1>0
  <2>2. bits[h + 1] = bits[h] \div 2
    BY <1>1, <2>1
  <2>3. nSize(n)[h + 1] = (nSize(n)[h] + 1) \div 2
    <3>1. \A e \in 1 .. n : nSize(n)[e] = (nSize(n)[e - 1] + 1) \div 2
      BY <1>0, SizeIs
    <3> QED BY <2>1, <3>1
  <2>4. bits[h] \in 0 .. nSize(n)[h] - 1 /\ nSize(n)[h] \in Nat
    BY <1>0, <1>3, <2>1
  <2>5. \A k, s \in Nat : k <= s - 1 => k \div 2 \in 0 .. ((s + 1) \div 2) - 1
    OBVIOUS
  <2> QED BY <2>1, <2>2, <2>3, <2>4, <2>5
<1>4. S = 0 .. Top(n)
  <2> HIDE DEF S
  <2>1. S \in SUBSET (0 .. Top(n))
    BY DEF S
  <2> QED BY <1>0, <1>2, <1>3, <2>1, InductTo
<1> QED BY <1>4 DEF bits

\* A tree over more leaves is at least as wide and as high everywhere.
LEMMA Wider ==
  ASSUME NEW n \in Nat, NEW m \in Nat, n <= m
  PROVE  \A h \in 0 .. n : nSize(n)[h] <= nSize(m)[h] /\ RowStart(n)[h] <= RowStart(m)[h]
<1> DEFINE S == {h \in 0 .. n : nSize(n)[h] <= nSize(m)[h] /\ RowStart(n)[h] <= RowStart(m)[h]}
<1>n. /\ nSize(n) \in [0 .. n -> Nat] /\ nSize(n)[0] = n
      /\ \A h \in 1 .. n : nSize(n)[h] = (nSize(n)[h - 1] + 1) \div 2
      /\ RowStart(n) \in [0 .. n -> Nat] /\ RowStart(n)[0] = 0
      /\ \A h \in 1 .. n : RowStart(n)[h] = RowStart(n)[h - 1] + nSize(n)[h - 1]
  BY SizeIs, StartIs
<1>m. /\ nSize(m) \in [0 .. m -> Nat] /\ nSize(m)[0] = m
      /\ \A h \in 1 .. m : nSize(m)[h] = (nSize(m)[h - 1] + 1) \div 2
      /\ RowStart(m) \in [0 .. m -> Nat] /\ RowStart(m)[0] = 0
      /\ \A h \in 1 .. m : RowStart(m)[h] = RowStart(m)[h - 1] + nSize(m)[h - 1]
  BY SizeIs, StartIs
<1>1. 0 \in S
  BY <1>n, <1>m
<1>2. ASSUME NEW h \in 0 .. n - 1, h \in S PROVE h + 1 \in S
  <2>1. /\ h + 1 \in 1 .. n /\ h + 1 \in 1 .. m /\ h \in 0 .. n /\ h \in 0 .. m /\ (h + 1) - 1 = h
        /\ h + 1 \in 0 .. n
    OBVIOUS
  <2>2. /\ nSize(n)[h + 1] = (nSize(n)[h] + 1) \div 2 /\ nSize(m)[h + 1] = (nSize(m)[h] + 1) \div 2
        /\ RowStart(n)[h + 1] = RowStart(n)[h] + nSize(n)[h]
        /\ RowStart(m)[h + 1] = RowStart(m)[h] + nSize(m)[h]
    BY <1>n, <1>m, <2>1
  <2>3. /\ nSize(n)[h] \in Nat /\ nSize(m)[h] \in Nat
        /\ RowStart(n)[h] \in Nat /\ RowStart(m)[h] \in Nat
    BY <1>n, <1>m, <2>1
  <2>4. nSize(n)[h] <= nSize(m)[h] /\ RowStart(n)[h] <= RowStart(m)[h]
    BY <1>2
  <2>5. nSize(n)[h + 1] <= nSize(m)[h + 1]
    BY <2>2, <2>3, <2>4
  <2>6. RowStart(n)[h + 1] <= RowStart(m)[h + 1]
    BY <2>2, <2>3, <2>4
  <2> QED BY <2>1, <2>5, <2>6
<1>3. S = 0 .. n
  <2> HIDE DEF S
  <2>1. S \in SUBSET (0 .. n)
    BY DEF S
  <2> QED BY <1>1, <1>2, <2>1, InductTo
<1> QED BY <1>3

LEMMA Higher ==
  ASSUME NEW n \in Nat, NEW m \in Nat, n <= m
  PROVE  Top(n) <= Top(m)
<1> SUFFICES ASSUME Top(m) < Top(n) PROVE FALSE
  BY TopIs
<1>1. Top(m) \in 0 .. m /\ Top(n) \in 0 .. n
  BY TopIs
<1>2. Top(m) \in 0 .. Top(n) - 1 /\ Top(m) \in 0 .. n
  BY <1>1
<1>3. nSize(n)[Top(m)] > 1 /\ nSize(m)[Top(m)] <= 1
  BY <1>2, TopIs
<1>4. nSize(n)[Top(m)] <= nSize(m)[Top(m)]
  BY <1>2, Wider
<1>5. nSize(n)[Top(m)] \in Nat /\ nSize(m)[Top(m)] \in Nat
  BY <1>1, <1>2, SizeIs
<1> QED BY <1>3, <1>4, <1>5

TreeLength(n) == RowStart(n)[Top(n)] + nSize(n)[Top(n)]

LEMMA TreeLengthIs ==
  ASSUME NEW n \in Nat
  PROVE  /\ TreeLength(n) = RowStart(n)[Top(n)] + Smaller(1, n)
         /\ TreeLength(n) \in Nat /\ n <= TreeLength(n)
         /\ TreeLength(n) = 0 <=> n = 0
<1>1. /\ Top(n) \in 0 .. n /\ nSize(n)[Top(n)] <= 1 /\ (n > 0 => nSize(n)[Top(n)] = 1)
      /\ nSize(n)[0] = n /\ RowStart(n)[0] = 0
  BY TopIs, SizeIs, StartIs
<1>2. nSize(n)[Top(n)] \in Nat /\ RowStart(n)[Top(n)] \in Nat
  BY <1>1, SizeIs, StartIs
<1>3. n = 0 => Top(n) = 0
  BY <1>1
<1>4. nSize(n)[Top(n)] = Smaller(1, n)
  BY <1>1, <1>2, <1>3 DEF Smaller
<1>5. n <= TreeLength(n)
  <2>1. 0 \in 0 .. n /\ Top(n) \in 0 .. n
    BY <1>1
  <2>2. RowStart(n)[0] + nSize(n)[0] <= RowStart(n)[Top(n)] + nSize(n)[Top(n)]
    BY <2>1, RowsFollow
  <2> QED BY <1>1, <1>2, <2>2 DEF TreeLength
<1>6. n = 0 => TreeLength(n) = 0
  BY <1>1, <1>3 DEF TreeLength
<1> QED BY <1>2, <1>4, <1>5, <1>6 DEF TreeLength

\* The places of a branch are inside every tree over as many leaves or more.
LEMMA PlacesInside ==
  ASSUME NEW n \in Nat, NEW m \in Nat, n <= m, NEW nIndex \in Nat
  PROVE  /\ DOMAIN BranchPlaces(n, nIndex) = 1 .. Top(n)
         /\ \A h \in 1 .. Top(n) : BranchPlaces(n, nIndex)[h] \in 1 .. TreeLength(m)
<1>1. DOMAIN BranchPlaces(n, nIndex) = 1 .. Top(n)
  BY DEF BranchPlaces
<1>2. ASSUME NEW h \in 1 .. Top(n) PROVE BranchPlaces(n, nIndex)[h] \in 1 .. TreeLength(m)
  <2> DEFINE l == h - 1
             s == Shifted(nIndex, Top(n))[l]
             place == RowStart(n)[l] + Sibling(s, nSize(n)[l]) + 1
  <2>0. Top(n) \in 0 .. n /\ Top(m) \in 0 .. m /\ Top(n) <= Top(m) /\ Top(n) \in Nat
    BY TopIs, Higher
  <2>1. l \in 0 .. Top(n) - 1 /\ l \in 0 .. n /\ l \in 0 .. m /\ Top(m) \in l .. m /\ l \in 0 .. Top(n)
    BY <2>0
  <2>2. BranchPlaces(n, nIndex)[h] = place
    BY DEF BranchPlaces
  <2>3. nSize(n)[l] \in Nat \ {0}
    <3>1. nSize(n)[l] > 1 /\ nSize(n)[l] \in Nat
      BY <2>1, TopIs, SizeIs
    <3> QED BY <3>1
  <2>4. s \in Nat
    <3>1. Shifted(nIndex, Top(n)) \in [0 .. Top(n) -> Nat]
      BY <2>0, ShiftedIs
    <3> QED BY <2>1, <3>1
  <2> HIDE DEF s
  <2>5. Sibling(s, nSize(n)[l]) \in 0 .. nSize(n)[l] - 1
    BY <2>3, <2>4, SiblingInRow
  <2>6. nSize(n)[l] <= nSize(m)[l] /\ RowStart(n)[l] <= RowStart(m)[l]
    BY <2>1, Wider
  <2>7. RowStart(m)[l] + nSize(m)[l] <= TreeLength(m)
    BY <2>1, RowsFollow DEF TreeLength
  <2>8. /\ nSize(m)[l] \in Nat /\ RowStart(n)[l] \in Nat /\ RowStart(m)[l] \in Nat
        /\ TreeLength(m) \in Nat
    BY <2>1, SizeIs, StartIs, TreeLengthIs
  <2> HIDE DEF l
  <2>9. place \in 1 .. TreeLength(m)
    BY <2>3, <2>5, <2>6, <2>7, <2>8
  <2> QED BY <2>2, <2>9
<1> QED BY <1>1, <1>2

\* One step up a branch: a node and its sibling make the node above.
LEMMA StepUp ==
  ASSUME NEW size \in Nat, NEW row, IsRow(row, size), NEW k \in 0 .. size - 1
  PROVE  RowAbove(row)[(k \div 2) + 1] =
           IF k % 2 = 1 THEN Hash(row[Sibling(k, size) + 1], row[k + 1])
           ELSE Hash(row[k + 1], row[Sibling(k, size) + 1])
<1> DEFINE i == (k \div 2) + 1
<1>1. i \in 1 .. (size + 1) \div 2 /\ k % 2 \in 0 .. 1
  OBVIOUS
<1>2. RowAbove(row)[i] = Hash(row[2 * i - 1], row[Smaller(2 * i, size)])
  BY <1>1, AboveIs
<1>3. CASE k % 2 = 1
  <2>1. 2 * i - 1 = k /\ 2 * i = k + 1
    BY <1>3
  <2>2. Smaller(2 * i, size) = k + 1 /\ Sibling(k, size) + 1 = 2 * i - 1
    BY <1>3, <2>1 DEF Smaller, Sibling
  <2> HIDE DEF i
  <2> QED BY <1>2, <1>3, <2>1, <2>2 DEF i
<1>4. CASE k % 2 = 0
  <2>1. 2 * i - 1 = k + 1 /\ 2 * i = k + 2
    BY <1>4
  <2>2. Smaller(2 * i, size) = Sibling(k, size) + 1
    BY <1>4, <2>1 DEF Smaller, Sibling
  <2> HIDE DEF i
  <2> QED BY <1>2, <1>4, <2>1, <2>2 DEF i
<1> QED BY <1>1, <1>3, <1>4

\* Whatever is hashed up the branch is the row, at each height.
LEMMA BranchLeads ==
  ASSUME NEW n \in Nat \ {0}, NEW txs, IsRow(txs, n), NEW nIndex \in 0 .. n - 1,
         NEW branch, IsRow(branch, Top(n)),
         \A h \in 1 .. Top(n) : branch[h] = Tree(txs)[BranchPlaces(n, nIndex)[h]]
  PROVE  CheckMerkleBranch(txs[nIndex + 1], branch, nIndex) = Rows(txs)[Top(n)][1]
<1> DEFINE top == Top(n)
           bits == Shifted(nIndex, top)
           Turn(h, b, below) == IF b % 2 = 1 THEN Hash(branch[h], below) ELSE Hash(below, branch[h])
           Def(g, m) == g = [h \in 0 .. m |-> IF h = 0 THEN txs[nIndex + 1]
                                              ELSE IF bits[h - 1] % 2 = 1 THEN Hash(branch[h], g[h - 1])
                                              ELSE Hash(g[h - 1], branch[h])]
           T == {m \in Nat : \E g : Def(g, m)}
<1>0. /\ top \in 0 .. n /\ top \in Nat /\ n \in Nat /\ nIndex \in Nat /\ nIndex # -1
      /\ Len(branch) = top
  BY TopIs, RowLength
<1>1. 0 \in T
  <2>1. Def([h \in 0 .. 0 |-> txs[nIndex + 1]], 0)
    OBVIOUS
  <2> QED BY <2>1
<1>2. ASSUME NEW m \in T PROVE m + 1 \in T
  <2>1. PICK g : Def(g, m)
    OBVIOUS
  <2> DEFINE f == [h \in 0 .. m + 1 |-> IF h <= m THEN g[h]
                                        ELSE IF bits[m] % 2 = 1 THEN Hash(branch[m + 1], g[m])
                                        ELSE Hash(g[m], branch[m + 1])]
  <2> HIDE DEF bits
  <2>2. Def(f, m + 1)
    BY <2>1
  <2> HIDE DEF f
  <2> QED BY <2>2
<1>3. T = Nat
  <2> HIDE DEF T
  <2>1. T \in SUBSET Nat
    BY DEF T
  <2> QED BY <1>1, <1>2, <2>1, Induct
<1>4. \E g : Def(g, top)
  BY <1>0, <1>3
<1>5. \E g : Def(g, top) /\ CheckMerkleBranch(txs[nIndex + 1], branch, nIndex) = g[top]
  <2> DEFINE c == CHOOSE g : Def(g, top)
  <2>1. Def(c, top)
    BY <1>4, Zenon
  <2>2. CheckMerkleBranch(txs[nIndex + 1], branch, nIndex) = c[top]
    BY <1>0 DEF CheckMerkleBranch
  <2> QED BY <2>1, <2>2
<1>6. PICK up : Def(up, top) /\ CheckMerkleBranch(txs[nIndex + 1], branch, nIndex) = up[top]
  BY <1>5
<1> HIDE DEF T, bits
<1>7. /\ up[0] = txs[nIndex + 1]
      /\ \A h \in 1 .. top : up[h] = IF bits[h - 1] % 2 = 1 THEN Hash(branch[h], up[h - 1])
                                     ELSE Hash(up[h - 1], branch[h])
  BY <1>0, <1>6
<1>8. /\ bits \in [0 .. top -> Nat] /\ bits[0] = nIndex
      /\ \A h \in 1 .. top : bits[h] = bits[h - 1] \div 2
      /\ \A h \in 0 .. top : bits[h] \in 0 .. nSize(n)[h] - 1
  BY <1>0, ShiftedIs, ShiftInRow DEF bits
<1>9. \A h \in 1 .. top : branch[h] = Rows(txs)[h - 1][Sibling(bits[h - 1], nSize(n)[h - 1]) + 1]
  <2> TAKE h \in 1 .. top
  <2>1. h - 1 \in 0 .. top /\ h - 1 \in 0 .. n
    BY <1>0
  <2>2. nSize(n)[h - 1] \in Nat /\ bits[h - 1] \in 0 .. nSize(n)[h - 1] - 1
    BY <1>0, <1>8, <2>1, SizeIs
  <2> DEFINE i == Sibling(bits[h - 1], nSize(n)[h - 1]) + 1
  <2>3. i \in 1 .. nSize(n)[h - 1]
    <3>1. bits[h - 1] \in Nat /\ nSize(n)[h - 1] \in Nat \ {0}
      BY <2>2
    <3>2. Sibling(bits[h - 1], nSize(n)[h - 1]) \in 0 .. nSize(n)[h - 1] - 1
      BY <3>1, SiblingInRow
    <3> QED BY <2>2, <3>2
  <2>4. BranchPlaces(n, nIndex)[h] = RowStart(n)[h - 1] + i
    <3>1. BranchPlaces(n, nIndex)[h] = RowStart(n)[h - 1] + Sibling(bits[h - 1], nSize(n)[h - 1]) + 1
      BY DEF BranchPlaces, bits
    <3>2. RowStart(n)[h - 1] \in Nat /\ i \in Nat /\ Sibling(bits[h - 1], nSize(n)[h - 1]) = i - 1
      <4>1. RowStart(n)[h - 1] \in Nat
        BY <1>0, <2>1, StartIs
      <4>2. Sibling(bits[h - 1], nSize(n)[h - 1]) \in Int
        <5>1. bits[h - 1] \in Nat /\ nSize(n)[h - 1] \in Nat \ {0}
          BY <2>2
        <5>2. Sibling(bits[h - 1], nSize(n)[h - 1]) \in 0 .. nSize(n)[h - 1] - 1
          BY <5>1, SiblingInRow
        <5> QED BY <2>2, <5>2
      <4> QED BY <2>2, <2>3, <4>1, <4>2
    <3> HIDE DEF i
    <3> QED BY <3>1, <3>2
  <2>5. branch[h] = Tree(txs)[BranchPlaces(n, nIndex)[h]]
    OBVIOUS
  <2> HIDE DEF i
  <2>6. Tree(txs)[RowStart(n)[h - 1] + i] = Rows(txs)[h - 1][i]
    BY <1>0, <2>1, <2>3, TreeIs
  <2> QED BY <2>4, <2>5, <2>6 DEF i
<1> DEFINE S == {h \in 0 .. top : up[h] = Rows(txs)[h][bits[h] + 1]}
<1>10. 0 \in S
  BY <1>0, <1>7, <1>8, RowsAre
<1>11. ASSUME NEW h \in 0 .. top - 1, h \in S PROVE h + 1 \in S
  <2>1. h + 1 \in 1 .. top /\ h \in 0 .. top /\ (h + 1) - 1 = h /\ h + 1 \in 0 .. top /\ h \in 0 .. n
    BY <1>0
  <2> DEFINE size == nSize(n)[h]
             row == Rows(txs)[h]
             k == bits[h]
  <2>2. size \in Nat /\ IsRow(row, size) /\ k \in 0 .. size - 1 /\ up[h] = row[k + 1]
    BY <1>0, <1>8, <1>11, <2>1, SizeIs, RowOf
  <2>3. branch[h + 1] = row[Sibling(k, size) + 1]
    BY <1>9, <2>1
  <2>4. up[h + 1] = IF k % 2 = 1 THEN Hash(branch[h + 1], up[h]) ELSE Hash(up[h], branch[h + 1])
    BY <1>7, <2>1
  <2>5. bits[h + 1] = k \div 2 /\ Rows(txs)[h + 1] = RowAbove(row)
    BY <1>0, <1>8, <2>1, RowsAre
  <2> HIDE DEF size, row, k
  <2>6. RowAbove(row)[(k \div 2) + 1] = IF k % 2 = 1 THEN Hash(row[Sibling(k, size) + 1], row[k + 1])
                                        ELSE Hash(row[k + 1], row[Sibling(k, size) + 1])
    BY <2>2, StepUp
  <2>7. up[h + 1] = Rows(txs)[h + 1][bits[h + 1] + 1]
    BY <2>2, <2>3, <2>4, <2>5, <2>6
  <2> QED BY <2>1, <2>7
<1>12. S = 0 .. top
  <2> HIDE DEF S
  <2>1. S \in SUBSET (0 .. top)
    BY DEF S
  <2> QED BY <1>0, <1>10, <1>11, <2>1, InductTo
<1>13. up[top] = Rows(txs)[top][bits[top] + 1]
  BY <1>0, <1>12
<1>14. bits[top] = 0
  <2>1. n \in Nat /\ n > 0
    OBVIOUS
  <2>2. nSize(n)[top] = 1
    BY <2>1, TopIs
  <2>3. bits[top] \in 0 .. nSize(n)[top] - 1
    BY <1>0, <1>8
  <2> QED BY <2>2, <2>3
<1> QED BY <1>6, <1>13, <1>14

-----------------------------------------------------------------------------
\* The perfect tree, from its top down.
LEMMA PlacesAre ==
  ASSUME NEW n \in Nat
  PROVE  /\ PaddedPlaces(n)[0] = <<0>>
         /\ \A k \in 1 .. Top(n) :
              PaddedPlaces(n)[k] =
                [i \in 1 .. 2 * Len(PaddedPlaces(n)[k - 1]) |->
                   Smaller(2 * PaddedPlaces(n)[k - 1][(i + 1) \div 2] + ((i + 1) % 2), nSize(n)[Top(n) - k] - 1)]
<1> DEFINE Below(k, place) == [i \in 1 .. 2 * Len(place) |->
                                 Smaller(2 * place[(i + 1) \div 2] + ((i + 1) % 2), nSize(n)[Top(n) - k] - 1)]
           Def(g, m) == g = [k \in 0 .. m |-> IF k = 0 THEN <<0>> ELSE Below(k, g[k - 1])]
           T == {m \in Nat : \E g : Def(g, m)}
<1>0. Top(n) \in Nat
  BY TopIs
<1>c. PaddedPlaces(n) = CHOOSE g : Def(g, Top(n))
  BY DEF PaddedPlaces
<1> HIDE DEF Below
<1>1. 0 \in T
  <2>1. Def([h \in 0 .. 0 |-> <<0>>], 0)
    OBVIOUS
  <2> QED BY <2>1
<1>2. ASSUME NEW m \in T PROVE m + 1 \in T
  <2>1. PICK g : Def(g, m)
    OBVIOUS
  <2> DEFINE f == [k \in 0 .. m + 1 |-> IF k <= m THEN g[k] ELSE Below(m + 1, g[m])]
  <2>2. Def(f, m + 1)
    BY <2>1
  <2> HIDE DEF f
  <2> QED BY <2>2
<1>3. T = Nat
  <2> HIDE DEF T
  <2>1. T \in SUBSET Nat
    BY DEF T
  <2> QED BY <1>1, <1>2, <2>1, Induct
<1>4. \E g : Def(g, Top(n))
  BY <1>0, <1>3
<1>5. Def(PaddedPlaces(n), Top(n))
  BY <1>4, <1>c, Zenon
<1> HIDE DEF T
<1>6. /\ PaddedPlaces(n)[0] = <<0>>
      /\ \A k \in 1 .. Top(n) : PaddedPlaces(n)[k] = Below(k, PaddedPlaces(n)[k - 1])
  BY <1>0, <1>5
<1> QED BY <1>6 DEF Below

\* The rows of the perfect tree, from the leaves up.
LEMMA PerfectIs ==
  ASSUME NEW leaves, NEW top \in Nat
  PROVE  /\ PerfectRows(leaves, top)[0] = leaves
         /\ \A h \in 1 .. top :
              PerfectRows(leaves, top)[h] = PerfectAbove(PerfectRows(leaves, top)[h - 1])
<1> DEFINE Def(g, m) == g = [h \in 0 .. m |-> IF h = 0 THEN leaves ELSE PerfectAbove(g[h - 1])]
           T == {m \in Nat : \E g : Def(g, m)}
<1>c. PerfectRows(leaves, top) = CHOOSE g : Def(g, top)
  BY DEF PerfectRows
<1>1. 0 \in T
  <2>1. Def([h \in 0 .. 0 |-> leaves], 0)
    OBVIOUS
  <2> QED BY <2>1
<1>2. ASSUME NEW m \in T PROVE m + 1 \in T
  <2>1. PICK g : Def(g, m)
    OBVIOUS
  <2> DEFINE f == [h \in 0 .. m + 1 |-> IF h <= m THEN g[h] ELSE PerfectAbove(g[m])]
  <2>2. Def(f, m + 1)
    BY <2>1
  <2> HIDE DEF f
  <2> QED BY <2>2
<1>3. T = Nat
  <2> HIDE DEF T
  <2>1. T \in SUBSET Nat
    BY DEF T
  <2> QED BY <1>1, <1>2, <2>1, Induct
<1>4. \E g : Def(g, top)
  BY <1>3
<1>5. Def(PerfectRows(leaves, top), top)
  BY <1>4, <1>c, Zenon
<1> HIDE DEF T
<1> QED BY <1>5

\* The nodes of the perfect tree are nodes of the flat rows, and each row has
\* twice the nodes of the one above it.
LEMMA PlacesInRows ==
  ASSUME NEW n \in Nat \ {0}
  PROVE  \A k \in 0 .. Top(n) :
           \E w \in Nat : /\ w >= 1 /\ IsRow(PaddedPlaces(n)[k], w)
                          /\ \A i \in 1 .. w : PaddedPlaces(n)[k][i] \in 0 .. nSize(n)[Top(n) - k] - 1
<1> DEFINE place == PaddedPlaces(n)
           Good(k) == \E w \in Nat : /\ w >= 1 /\ IsRow(place[k], w)
                                     /\ \A i \in 1 .. w : place[k][i] \in 0 .. nSize(n)[Top(n) - k] - 1
           S == {k \in 0 .. Top(n) : Good(k)}
<1>n. n \in Nat /\ n > 0
  OBVIOUS
<1>0. Top(n) \in 0 .. n /\ Top(n) \in Nat /\ nSize(n)[Top(n)] = 1 /\ nSize(n) \in [0 .. n -> Nat]
  BY <1>n, TopIs, SizeIs
<1>p. /\ place[0] = <<0>>
      /\ \A k \in 1 .. Top(n) :
           place[k] = [i \in 1 .. 2 * Len(place[k - 1]) |->
                         Smaller(2 * place[k - 1][(i + 1) \div 2] + ((i + 1) % 2), nSize(n)[Top(n) - k] - 1)]
  BY <1>n, PlacesAre
<1> HIDE DEF place
<1>1. 0 \in S
  <2>1. IsRow(<<0>>, 1) /\ <<0>>[1] = 0
    BY DEF IsRow
  <2>2. IsRow(place[0], 1) /\ \A i \in 1 .. 1 : place[0][i] \in 0 .. nSize(n)[Top(n) - 0] - 1
    BY <2>1, <1>p, <1>0
  <2> QED BY <2>2, <1>0
<1>2. ASSUME NEW k \in 0 .. Top(n) - 1, k \in S PROVE k + 1 \in S
  <2>1. PICK w \in Nat : /\ w >= 1 /\ IsRow(place[k], w)
                         /\ \A i \in 1 .. w : place[k][i] \in 0 .. nSize(n)[Top(n) - k] - 1
    BY <1>2
  <2>2. k + 1 \in 1 .. Top(n) /\ (k + 1) - 1 = k /\ Len(place[k]) = w /\ k + 1 \in 0 .. Top(n)
    BY <1>0, <2>1, RowLength
  <2> DEFINE size == nSize(n)[Top(n) - (k + 1)]
  <2>3. place[k + 1] = [i \in 1 .. 2 * w |-> Smaller(2 * place[k][(i + 1) \div 2] + ((i + 1) % 2), size - 1)]
    BY <1>p, <2>2
  <2>4. IsRow(place[k + 1], 2 * w)
    <3> HIDE DEF size
    <3> QED BY <2>3 DEF IsRow
  <2>5. size \in Nat /\ size > 1
    <3>1. Top(n) - (k + 1) \in 0 .. Top(n) - 1 /\ Top(n) - (k + 1) \in 0 .. n
      BY <1>0
    <3> QED BY <1>0, <1>n, <3>1, TopIs
  <2> HIDE DEF size
  <2>6. ASSUME NEW i \in 1 .. 2 * w PROVE place[k + 1][i] \in 0 .. size - 1
    <3>1. (i + 1) \div 2 \in 1 .. w /\ (i + 1) % 2 \in 0 .. 1
      OBVIOUS
    <3>2. place[k][(i + 1) \div 2] \in Nat
      BY <2>1, <3>1
    <3> DEFINE p == place[k][(i + 1) \div 2]
               b == (i + 1) % 2
    <3>3. place[k + 1][i] = Smaller(2 * p + b, size - 1)
      BY <2>3
    <3>4. p \in Nat /\ b \in 0 .. 1
      BY <3>1, <3>2
    <3> HIDE DEF p, b
    <3> QED BY <2>5, <3>3, <3>4 DEF Smaller
  <2>7. 2 * w \in Nat /\ 2 * w >= 1
    BY <2>1
  <2> QED BY <2>2, <2>4, <2>6, <2>7 DEF size
<1>3. S = 0 .. Top(n)
  <2> HIDE DEF S
  <2>1. S \in SUBSET (0 .. Top(n))
    BY DEF S
  <2> QED BY <1>0, <1>1, <1>2, <2>1, InductTo
<1> QED BY <1>3 DEF place

\* The perfect tree over the padded transactions has in each row nodes of the
\* flat row of that height, and at the top the same root.
LEMMA RowsArePerfect ==
  ASSUME NEW n \in Nat \ {0}, NEW txs, IsRow(txs, n)
  PROVE  Root(txs) = Rows(txs)[Top(n)][1]
<1> DEFINE top == Top(n)
           place == PaddedPlaces(n)
           leaves == Padded(txs)
           perfect == PerfectRows(leaves, top)
           row == Rows(txs)
<1>n. n \in Nat /\ n > 0
  OBVIOUS
<1>0. /\ top \in 0 .. n /\ top \in Nat /\ nSize(n)[top] = 1 /\ nSize(n) \in [0 .. n -> Nat]
      /\ Len(txs) = n
  <2>1. top \in 0 .. n /\ top \in Nat /\ nSize(n)[top] = 1
    BY <1>n, TopIs
  <2>2. nSize(n) \in [0 .. n -> Nat]
    BY <1>n, SizeIs
  <2>3. Len(txs) = n
    BY <1>n, RowLength
  <2> QED BY <2>1, <2>2, <2>3
<1>e. txs # <<>>
  BY <1>0, <1>n
<1>l. leaves = [i \in DOMAIN place[top] |-> txs[place[top][i] + 1]]
  BY <1>0, <1>e DEF Padded
<1>r. Root(txs) = perfect[top][1]
  BY <1>0, <1>e DEF Root, PerfectRoot
<1>p. \A k \in 1 .. top :
        place[k] = [i \in 1 .. 2 * Len(place[k - 1]) |->
                      Smaller(2 * place[k - 1][(i + 1) \div 2] + ((i + 1) % 2), nSize(n)[top - k] - 1)]
  BY <1>n, PlacesAre
<1>w. \A k \in 0 .. top :
        \E w \in Nat : /\ w >= 1 /\ IsRow(place[k], w)
                       /\ \A i \in 1 .. w : place[k][i] \in 0 .. nSize(n)[top - k] - 1
  BY PlacesInRows
<1>s. row[0] = txs /\ \A h \in 1 .. top : row[h] = RowAbove(row[h - 1])
  BY <1>n, RowsAre
<1>t. \A h \in 0 .. top : IsRow(row[h], nSize(n)[h])
  BY <1>n, RowOf
<1>z. place[0] = <<0>>
  BY <1>n, PlacesAre
<1> HIDE DEF top, place, leaves, perfect, row
<1>f. perfect[0] = leaves /\ \A h \in 1 .. top : perfect[h] = PerfectAbove(perfect[h - 1])
  BY <1>0, PerfectIs DEF perfect
<1> DEFINE Good(h) == \E w \in Nat : /\ w >= 1 /\ IsRow(perfect[h], w) /\ IsRow(place[top - h], w)
                                     /\ \A i \in 1 .. w : perfect[h][i] = row[h][place[top - h][i] + 1]
           S == {h \in 0 .. top : Good(h)}
<1>1. 0 \in S
  <2>1. PICK w \in Nat : w >= 1 /\ IsRow(place[top], w)
    BY <1>0, <1>w
  <2>2. DOMAIN place[top] = 1 .. w
    BY <2>1, RowLength
  <2>3. perfect[0] = [i \in 1 .. w |-> txs[place[top][i] + 1]]
    BY <1>f, <1>l, <2>2
  <2>4. IsRow(perfect[0], w) /\ top - 0 = top
    BY <2>3, <1>0 DEF IsRow
  <2>5. IsRow(place[top - 0], w) /\ \A i \in 1 .. w : perfect[0][i] = row[0][place[top - 0][i] + 1]
    BY <1>s, <2>1, <2>3, <2>4
  <2> QED BY <1>0, <2>1, <2>4, <2>5
<1>2. ASSUME NEW h \in 0 .. top - 1, h \in S PROVE h + 1 \in S
  <2>1. PICK w \in Nat : /\ w >= 1 /\ IsRow(perfect[h], w) /\ IsRow(place[top - h], w)
                         /\ \A i \in 1 .. w : perfect[h][i] = row[h][place[top - h][i] + 1]
    BY <1>2
  <2> DEFINE k == top - (h + 1)
             size == nSize(n)[h]
  <2>2. /\ k \in 0 .. top /\ k + 1 \in 1 .. top /\ (k + 1) - 1 = k /\ top - h = k + 1
        /\ top - (k + 1) = h /\ top - k = h + 1
        /\ h + 1 \in 1 .. top /\ (h + 1) - 1 = h /\ h + 1 \in 0 .. top
        /\ h \in 0 .. n /\ h \in 0 .. top /\ h + 1 \in 1 .. n /\ top - (h + 1) = k
    BY <1>0
  <2> HIDE DEF k
  <2>3. PICK v \in Nat : /\ v >= 1 /\ IsRow(place[k], v)
                         /\ \A i \in 1 .. v : place[k][i] \in 0 .. nSize(n)[h + 1] - 1
    <3>1. \E v \in Nat : /\ v >= 1 /\ IsRow(place[k], v)
                         /\ \A i \in 1 .. v : place[k][i] \in 0 .. nSize(n)[top - k] - 1
      BY <1>w, <2>2
    <3> QED BY <2>2, <3>1
  <2>4. nSize(n)[h + 1] = (size + 1) \div 2 /\ size \in Nat
    <3>1. \A e \in 1 .. n : nSize(n)[e] = (nSize(n)[e - 1] + 1) \div 2
      BY <1>n, SizeIs
    <3> QED BY <1>0, <2>2, <3>1
  <2> HIDE DEF size
  <2>5. place[k + 1] = [i \in 1 .. 2 * v |-> Smaller(2 * place[k][(i + 1) \div 2] + ((i + 1) % 2), size - 1)]
    <3>1. Len(place[k]) = v
      BY <2>3, RowLength
    <3>2. place[k + 1] = [i \in 1 .. 2 * Len(place[k]) |->
                            Smaller(2 * place[k][(i + 1) \div 2] + ((i + 1) % 2), nSize(n)[h] - 1)]
      <4>1. place[k + 1] = [i \in 1 .. 2 * Len(place[(k + 1) - 1]) |->
                              Smaller(2 * place[(k + 1) - 1][(i + 1) \div 2] + ((i + 1) % 2),
                                    nSize(n)[top - (k + 1)] - 1)]
        BY <1>p, <2>2
      <4> QED BY <2>2, <4>1
    <3> QED BY <3>1, <3>2 DEF size
  <2>6. w = 2 * v
    <3>1. IsRow(place[k + 1], 2 * v)
      BY <2>5 DEF IsRow
    <3>2. Len(place[k + 1]) = 2 * v
      <4>1. 2 * v \in Nat
        OBVIOUS
      <4> QED BY <3>1, <4>1, RowLength
    <3>3. Len(place[k + 1]) = w
      BY <2>1, <2>2, RowLength
    <3> QED BY <3>2, <3>3
  <2>7. perfect[h + 1] = [i \in 1 .. v |-> Hash(perfect[h][2 * i - 1], perfect[h][2 * i])]
    <3>1. Len(perfect[h]) = w /\ w \div 2 = v
      BY <2>1, <2>6, RowLength
    <3>2. perfect[h + 1] = PerfectAbove(perfect[h])
      BY <1>f, <2>2
    <3> QED BY <3>1, <3>2 DEF PerfectAbove
  <2>8. IsRow(perfect[h + 1], v)
    BY <2>7 DEF IsRow
  <2>9. ASSUME NEW i \in 1 .. v PROVE perfect[h + 1][i] = row[h + 1][place[k][i] + 1]
    <3> DEFINE c == place[k][i]
    <3>1. c \in 0 .. ((size + 1) \div 2) - 1
      BY <2>3, <2>4
    <3>2. /\ 2 * i - 1 \in 1 .. 2 * v /\ 2 * i \in 1 .. 2 * v
          /\ ((2 * i - 1) + 1) \div 2 = i /\ ((2 * i - 1) + 1) % 2 = 0
          /\ (2 * i + 1) \div 2 = i /\ (2 * i + 1) % 2 = 1
      OBVIOUS
    <3>3. /\ place[k + 1][2 * i - 1] = Smaller(2 * c + 0, size - 1)
          /\ place[k + 1][2 * i] = Smaller(2 * c + 1, size - 1)
      BY <2>5, <3>2
    <3> HIDE DEF c
    <3>4. place[k + 1][2 * i - 1] = 2 * c /\ place[k + 1][2 * i] + 1 = Smaller(2 * (c + 1), size)
      BY <2>4, <3>1, <3>3 DEF Smaller
    <3>5. perfect[h][2 * i - 1] = row[h][2 * c + 1] /\ perfect[h][2 * i] = row[h][Smaller(2 * (c + 1), size)]
      BY <2>1, <2>2, <2>6, <3>2, <3>4
    <3>6. row[h + 1] = RowAbove(row[h]) /\ IsRow(row[h], size)
      BY <1>s, <1>t, <2>2 DEF size
    <3>7. RowAbove(row[h])[c + 1] = Hash(row[h][2 * (c + 1) - 1], row[h][Smaller(2 * (c + 1), size)])
      <4>1. c + 1 \in 1 .. (size + 1) \div 2
        BY <3>1, <2>4
      <4> QED BY <2>4, <3>6, <4>1, AboveIs
    <3>8. 2 * (c + 1) - 1 = 2 * c + 1
      BY <3>1, <2>4
    <3>9. perfect[h + 1][i] = Hash(perfect[h][2 * i - 1], perfect[h][2 * i])
      BY <2>7
    <3> QED BY <3>5, <3>6, <3>7, <3>8, <3>9 DEF c
  <2> QED BY <2>2, <2>3, <2>8, <2>9
<1>3. S = 0 .. top
  <2> HIDE DEF S
  <2>1. S \in SUBSET (0 .. top)
    BY DEF S
  <2> QED BY <1>0, <1>1, <1>2, <2>1, InductTo
<1>4. PICK w \in Nat : /\ w >= 1 /\ IsRow(place[top - top], w)
                       /\ \A i \in 1 .. w : perfect[top][i] = row[top][place[top - top][i] + 1]
  <2>1. top \in S
    <3>1. top \in 0 .. top
      BY <1>0
    <3> HIDE DEF S
    <3> QED BY <1>3, <3>1
  <2>2. Good(top)
    <3> HIDE DEF Good
    <3> QED BY <2>1
  <2> QED BY <2>2
<1>5. perfect[top][1] = row[top][place[0][1] + 1]
  <2>1. top - top = 0 /\ 1 \in 1 .. w
    BY <1>0, <1>4
  <2> QED BY <1>4, <2>1
<1> QED BY <1>r, <1>z, <1>5 DEF row, top

-----------------------------------------------------------------------------
LEMMA BlockIs ==
  ASSUME NEW txs \in Blocks
  PROVE  Len(txs) \in Nat /\ Len(txs) <= MaxTxs /\ IsRow(txs, Len(txs))
<1>1. PICK n \in 0 .. MaxTxs : txs \in [1 .. n -> Txs]
  BY DEF Blocks
<1>2. IsRow(txs, n) /\ n \in Nat
  BY <1>1, BoundAssumption DEF IsRow
<1>3. Len(txs) = n
  BY <1>2, RowLength
<1> QED BY <1>2, <1>3, BoundAssumption

\* How long a tree is, that its first row is the transactions, and its root.
LEMMA TreeOfBlock ==
  ASSUME NEW txs \in Blocks
  PROVE  /\ Len(Tree(txs)) = TreeLength(Len(txs)) /\ DOMAIN Tree(txs) = 1 .. TreeLength(Len(txs))
         /\ Tree(txs) = <<>> <=> txs = <<>>
         /\ \A i \in 1 .. Len(txs) : Tree(txs)[i] = txs[i]
         /\ RootOf(Tree(txs)) = Root(txs)
<1> DEFINE n == Len(txs)
<1>0. n \in Nat /\ IsRow(txs, n)
  BY BlockIs
<1>1. IsRow(Tree(txs), TreeLength(n)) /\ TreeLength(n) \in Nat /\ (TreeLength(n) = 0 <=> n = 0)
  BY <1>0, TreeIs, TreeLengthIs DEF TreeLength
<1>2. Len(Tree(txs)) = TreeLength(n) /\ DOMAIN Tree(txs) = 1 .. TreeLength(n)
  BY <1>1, RowLength
<1>3. \A s : IsRow(s, 0) <=> s = <<>>
  BY DEF IsRow
<1>4. (n = 0 <=> txs = <<>>) /\ (TreeLength(n) = 0 <=> Tree(txs) = <<>>)
  <2>1. n = 0 => txs = <<>>
    BY <1>0, <1>3
  <2>2. txs = <<>> => n = 0
    OBVIOUS
  <2>3. TreeLength(n) = 0 => Tree(txs) = <<>>
    BY <1>1, <1>3
  <2>4. Tree(txs) = <<>> => TreeLength(n) = 0
    BY <1>2
  <2> QED BY <2>1, <2>2, <2>3, <2>4
<1>5. Tree(txs) = <<>> <=> txs = <<>>
  BY <1>1, <1>4
<1>6. ASSUME NEW i \in 1 .. n PROVE Tree(txs)[i] = txs[i]
  <2>1. RowStart(n)[0] = 0 /\ nSize(n)[0] = n /\ Rows(txs)[0] = txs /\ 0 \in 0 .. Top(n)
    <3>1. Rows(txs)[0] = txs
      BY <1>0, RowsAre
    <3> HIDE DEF n
    <3>2. RowStart(n)[0] = 0 /\ nSize(n)[0] = n
      BY <1>0, StartIs, SizeIs
    <3>3. Top(n) \in 0 .. n
      BY <1>0, TopIs
    <3> QED BY <1>0, <3>1, <3>2, <3>3
  <2> HIDE DEF n
  <2>2. Tree(txs)[RowStart(n)[0] + i] = Rows(txs)[0][i]
    BY <1>0, <2>1, TreeIs
  <2> QED BY <2>1, <2>2
<1>7. RootOf(Tree(txs)) = Root(txs)
  <2>1. CASE txs = <<>>
    BY <1>5, <2>1 DEF RootOf, Root
  <2>2. CASE txs # <<>>
    <3>1. n \in Nat \ {0} /\ n > 0
      BY <1>0, <1>4, <2>2
    <3>2. Root(txs) = Rows(txs)[Top(n)][1]
      BY <1>0, <3>1, RowsArePerfect
    <3> HIDE DEF n
    <3>3. nSize(n)[Top(n)] = 1 /\ Top(n) \in 0 .. Top(n)
      BY <1>0, <3>1, TopIs
    <3>4. Tree(txs)[RowStart(n)[Top(n)] + 1] = Rows(txs)[Top(n)][1]
      BY <1>0, <3>3, TreeIs
    <3>5. RootOf(Tree(txs)) = Tree(txs)[RowStart(n)[Top(n)] + 1]
      BY <1>2, <1>5, <2>2, <3>3 DEF RootOf, TreeLength
    <3> QED BY <3>2, <3>4, <3>5
  <2> QED BY <2>1, <2>2
<1> QED BY <1>2, <1>5, <1>6, <1>7

\* What GetMerkleBranch takes from a tree of as many leaves or more.
LEMMA BranchOfBlock ==
  ASSUME NEW txs \in Blocks, NEW n \in Nat, n <= Len(txs), NEW nIndex \in Nat
  PROVE  /\ Inside(n, nIndex, Tree(txs))
         /\ n = Len(txs) /\ nIndex < n =>
              CheckMerkleBranch(txs[nIndex + 1], BranchIn(n, nIndex, Tree(txs)), nIndex) = Root(txs)
<1>0. Len(txs) \in Nat /\ IsRow(txs, Len(txs)) /\ DOMAIN Tree(txs) = 1 .. TreeLength(Len(txs))
  BY BlockIs, TreeOfBlock
<1>1. /\ DOMAIN BranchPlaces(n, nIndex) = 1 .. Top(n)
      /\ \A h \in 1 .. Top(n) : BranchPlaces(n, nIndex)[h] \in 1 .. TreeLength(Len(txs))
  BY <1>0, PlacesInside
<1>2. Inside(n, nIndex, Tree(txs))
  BY <1>0, <1>1 DEF Inside
<1>3. ASSUME n = Len(txs), nIndex < n
      PROVE  CheckMerkleBranch(txs[nIndex + 1], BranchIn(n, nIndex, Tree(txs)), nIndex) = Root(txs)
  <2> DEFINE branch == BranchIn(n, nIndex, Tree(txs))
  <2>1. branch = [h \in 1 .. Top(n) |-> Tree(txs)[BranchPlaces(n, nIndex)[h]]]
    BY <1>1, <1>2 DEF BranchIn
  <2> HIDE DEF branch
  <2>2. /\ IsRow(branch, Top(n))
        /\ \A h \in 1 .. Top(n) : branch[h] = Tree(txs)[BranchPlaces(n, nIndex)[h]]
    BY <2>1 DEF IsRow
  <2>3. n \in Nat \ {0} /\ nIndex \in 0 .. n - 1 /\ IsRow(txs, n)
    BY <1>0, <1>3
  <2>4. CheckMerkleBranch(txs[nIndex + 1], branch, nIndex) = Rows(txs)[Top(n)][1]
    BY <2>2, <2>3, BranchLeads
  <2>5. Root(txs) = Rows(txs)[Top(n)][1]
    BY <2>3, RowsArePerfect
  <2> QED BY <2>4, <2>5 DEF branch
<1> QED BY <1>2, <1>3

-----------------------------------------------------------------------------
Calls == {"none", "root", "branch", "tx"}

\* The tree is always the one of the transactions it was made from, and each
\* reply is as it should be.
BInv ==
  /\ vtx \in Blocks /\ built \in Blocks /\ vMerkleTree = Tree(built) /\ reply.call \in Calls
  /\ BuildsTheRoot /\ BranchProves /\ StaleUnlessGrown

LEMMA NoTransactions == <<>> \in Blocks /\ Tree(<<>>) = <<>> /\ Len(<<>>) = 0
<1>1. <<>> \in [1 .. 0 -> Txs] /\ 0 \in 0 .. MaxTxs
  BY BoundAssumption
<1>2. <<>> \in Blocks
  BY <1>1 DEF Blocks
<1> QED BY <1>2, TreeOfBlock

LEMMA Initially == Init => BInv
<1> SUFFICES ASSUME Init PROVE BInv
  OBVIOUS
<1> QED BY NoTransactions DEF Init, BInv, Calls, Nothing, BuildsTheRoot, BranchProves, StaleUnlessGrown

\* A reply that says nothing promises nothing.
LEMMA Silent ==
  ASSUME reply' = Nothing
  PROVE  reply.call' \in Calls /\ BuildsTheRoot' /\ BranchProves' /\ StaleUnlessGrown'
<1>1. reply'.call = "none"
  BY DEF Nothing
<1> QED BY <1>1 DEF Calls, BuildsTheRoot, BranchProves, StaleUnlessGrown

LEMMA Appended ==
  ASSUME NEW txs \in Blocks, NEW tx \in Txs, Len(txs) < MaxTxs
  PROVE  Append(txs, tx) \in Blocks
<1>1. PICK n \in 0 .. MaxTxs : txs \in [1 .. n -> Txs]
  BY DEF Blocks
<1>2. txs \in Seq(Txs) /\ Len(txs) \in Nat
  BY <1>1, BoundAssumption
<1>3. Append(txs, tx) \in Seq(Txs) /\ Len(Append(txs, tx)) = Len(txs) + 1
  BY <1>2
<1>4. \A u \in Seq(Txs) : u \in [1 .. Len(u) -> Txs]
  OBVIOUS
<1>5. Append(txs, tx) \in [1 .. Len(txs) + 1 -> Txs]
  BY <1>3, <1>4
<1>6. Len(txs) + 1 \in 0 .. MaxTxs
  BY <1>2, BoundAssumption
<1> QED BY <1>5, <1>6 DEF Blocks

LEMMA Inductive == BInv /\ [Next]_vars => BInv'
<1> SUFFICES ASSUME BInv, [Next]_vars PROVE BInv'
  OBVIOUS
<1>0. vtx \in Blocks /\ built \in Blocks /\ vMerkleTree = Tree(built)
  BY DEF BInv
<1>1. ASSUME NEW tx \in Txs, PushTx(tx) PROVE BInv'
  BY <1>0, <1>1, Silent, Appended DEF PushTx, BInv
<1>2. ASSUME NEW txs \in Blocks, Unserialize(txs) PROVE BInv'
  BY <1>0, <1>2, Silent DEF Unserialize, BInv
<1>3. CASE SetNull
  BY <1>3, Silent, NoTransactions DEF SetNull, BInv
<1>4. CASE BuildMerkleTree
  <2>1. /\ vtx' \in Blocks /\ built' \in Blocks /\ vMerkleTree' = Tree(built') /\ vtx' = vtx
        /\ reply' = [call |-> "root", hash |-> RootOf(Tree(vtx))]
    BY <1>0, <1>4 DEF BuildMerkleTree, Make
  <2>2. RootOf(Tree(vtx)) = Root(vtx)
    BY <1>0, TreeOfBlock
  <2>3. BuildsTheRoot'
    BY <2>1, <2>2 DEF BuildsTheRoot
  <2> QED BY <2>1, <2>3 DEF BInv, Calls, BranchProves, StaleUnlessGrown
<1>5. ASSUME NEW nIndex \in Indices, GetMerkleBranch(nIndex) PROVE BInv'
  <2> DEFINE n == Len(vtx)
             tree == IF vMerkleTree = <<>> THEN Tree(vtx) ELSE vMerkleTree
  <2>1. /\ vtx' = vtx /\ vMerkleTree' = tree /\ built' \in Blocks /\ tree = Tree(built')
        /\ reply' = [call |-> "branch", nIndex |-> nIndex, inside |-> Inside(n, nIndex, tree),
                     branch |-> BranchIn(n, nIndex, tree)]
    BY <1>0, <1>5 DEF GetMerkleBranch, Make
  <2> DEFINE b == built'
  <2>2. nIndex \in Nat /\ n \in Nat /\ Len(b) \in Nat
    BY <1>0, <2>1, BlockIs DEF Indices
  <2>3. n <= Len(b) =>
          /\ Inside(n, nIndex, Tree(b))
          /\ n = Len(b) /\ nIndex < n =>
               CheckMerkleBranch(b[nIndex + 1], BranchIn(n, nIndex, Tree(b)), nIndex) = Root(b)
    <3> HIDE DEF b, n, tree
    <3>1. b \in Blocks
      BY <2>1 DEF b
    <3> QED BY <2>2, <3>1, BranchOfBlock
  <2>4. BranchProves'
    <3> SUFFICES ASSUME n = Len(b), nIndex < n
                 PROVE  /\ Inside(n, nIndex, tree)
                        /\ CheckMerkleBranch(b[nIndex + 1], BranchIn(n, nIndex, tree), nIndex) = Root(b)
      BY <2>1 DEF BranchProves
    <3> QED BY <2>1, <2>2, <2>3
  <2>5. StaleUnlessGrown'
    <3> SUFFICES ASSUME n <= Len(b) PROVE Inside(n, nIndex, tree)
      BY <2>1 DEF StaleUnlessGrown
    <3> QED BY <2>1, <2>3
  <2> QED BY <1>0, <2>1, <2>4, <2>5 DEF BInv, Calls, BuildsTheRoot
<1>6. ASSUME NEW nIndex \in Indices, GetTxHash(nIndex) PROVE BInv'
  <2> DEFINE inside == nIndex + 1 <= Len(vMerkleTree)
  <2>1. /\ UNCHANGED <<vtx, vMerkleTree, built>> /\ nIndex < Len(vtx)
        /\ reply' = [call |-> "tx", nIndex |-> nIndex, inside |-> inside,
                     hash |-> IF inside THEN vMerkleTree[nIndex + 1] ELSE NoHash]
    BY <1>6 DEF GetTxHash
  <2>2. StaleUnlessGrown'
    <3> SUFFICES ASSUME Len(vtx) <= Len(built)
                 PROVE  inside /\ vMerkleTree[nIndex + 1] = built[nIndex + 1]
      BY <2>1 DEF StaleUnlessGrown
    <3>1. nIndex + 1 \in 1 .. Len(built) /\ Len(built) <= TreeLength(Len(built)) /\ TreeLength(Len(built)) \in Nat
      BY <1>0, <2>1, BlockIs, TreeLengthIs DEF Indices
    <3>2. Len(vMerkleTree) = TreeLength(Len(built)) /\ vMerkleTree[nIndex + 1] = built[nIndex + 1]
      BY <1>0, <3>1, TreeOfBlock
    <3> QED BY <1>0, <3>1, <3>2, BlockIs
  <2> QED BY <1>0, <2>1, <2>2 DEF BInv, Calls, BuildsTheRoot, BranchProves
<1>7. CASE UNCHANGED vars
  BY <1>7 DEF BInv, vars, BuildsTheRoot, BranchProves, StaleUnlessGrown
<1> QED BY <1>1, <1>2, <1>3, <1>4, <1>5, <1>6, <1>7 DEF Next

LEMMA Implied == BInv => TreeProves
<1> SUFFICES ASSUME BInv PROVE TreeProves
  OBVIOUS
<1>1. Len(vMerkleTree) = TreeLength(Len(built))
  BY TreeOfBlock DEF BInv
<1>2. TreeLength(Len(built)) = RowStart(Len(built))[Top(Len(built))] + Smaller(1, Len(built))
  BY BlockIs, TreeLengthIs DEF BInv
<1>3. TypeOK
  BY <1>1, <1>2 DEF BInv, TypeOK, Calls
<1> QED BY <1>3 DEF BInv, TreeProves

\* The tree is that of the transactions it was made from, gives their root and,
\* of each, the branch that leads to it.
THEOREM TreeAlwaysProves == Spec => []TreeProves
<1> QED BY Initially, Inductive, Implied, PTL DEF Spec

\* A stale tree does harm only after vtx has grown.
THEOREM StaleIsSafe == Spec => []StaleUnlessGrown
<1>1. BInv => StaleUnlessGrown
  BY DEF BInv
<1> QED BY <1>1, Initially, Inductive, PTL DEF Spec

-----------------------------------------------------------------------------
(***************************************************************************)
(* What the root commits to depends on the hash.  Here no two pairs have   *)
(* the same hash, and none has that of a transaction or NoHash, as is so   *)
(* in the instance that is model-checked, where a hash is the pair.        *)
(***************************************************************************)
NoCollisions ==
  /\ \A a, b, c, d : Hash(a, b) = Hash(c, d) => a = c /\ b = d
  /\ \A a, b : Hash(a, b) \notin Txs /\ Hash(a, b) # NoHash
  /\ NoHash \notin Txs

Width(n, k) == Len(PaddedPlaces(n)[k])
Perfect(txs) == PerfectRows(Padded(txs), Top(Len(txs)))

LEMMA WidthIs ==
  ASSUME NEW n \in Nat \ {0}
  PROVE  /\ Width(n, 0) = 1
         /\ \A k \in 1 .. Top(n) : Width(n, k) = 2 * Width(n, k - 1)
         /\ \A k \in 0 .. Top(n) :
              /\ Width(n, k) \in Nat /\ Width(n, k) >= 1 /\ (k > 0 => Width(n, k) >= 2)
              /\ DOMAIN PaddedPlaces(n)[k] = 1 .. Width(n, k)
              /\ \A i \in 1 .. Width(n, k) : PaddedPlaces(n)[k][i] \in 0 .. nSize(n)[Top(n) - k] - 1
<1>n. n \in Nat /\ Top(n) \in Nat
  BY TopIs
<1>1. \A k \in 0 .. Top(n) :
              /\ Width(n, k) \in Nat /\ Width(n, k) >= 1
              /\ DOMAIN PaddedPlaces(n)[k] = 1 .. Width(n, k)
              /\ \A i \in 1 .. Width(n, k) : PaddedPlaces(n)[k][i] \in 0 .. nSize(n)[Top(n) - k] - 1
  <2> TAKE k \in 0 .. Top(n)
  <2>1. PICK w \in Nat : /\ w >= 1 /\ IsRow(PaddedPlaces(n)[k], w)
                         /\ \A i \in 1 .. w : PaddedPlaces(n)[k][i] \in 0 .. nSize(n)[Top(n) - k] - 1
    BY PlacesInRows
  <2>2. Width(n, k) = w /\ DOMAIN PaddedPlaces(n)[k] = 1 .. w
    BY <2>1, RowLength DEF Width
  <2> QED BY <2>1, <2>2
<1>2. Width(n, 0) = 1
  <2>1. PaddedPlaces(n)[0] = <<0>>
    BY <1>n, PlacesAre
  <2> QED BY <2>1 DEF Width
<1>3. ASSUME NEW k \in 1 .. Top(n) PROVE Width(n, k) = 2 * Width(n, k - 1)
  <2> DEFINE w == 2 * Len(PaddedPlaces(n)[k - 1])
  <2>1. PaddedPlaces(n)[k] = [i \in 1 .. w |->
             Smaller(2 * PaddedPlaces(n)[k - 1][(i + 1) \div 2] + ((i + 1) % 2), nSize(n)[Top(n) - k] - 1)]
    BY <1>n, PlacesAre
  <2>2. w \in Nat /\ w = 2 * Width(n, k - 1)
    <3>1. k - 1 \in 0 .. Top(n)
      BY <1>n
    <3>2. Width(n, k - 1) \in Nat
      BY <1>1, <3>1
    <3> QED BY <3>2 DEF Width
  <2> HIDE DEF w
  <2>3. IsRow(PaddedPlaces(n)[k], w)
    BY <2>1 DEF IsRow
  <2>4. Len(PaddedPlaces(n)[k]) = w
    BY <2>2, <2>3, RowLength
  <2> QED BY <2>2, <2>4 DEF Width
<1>4. ASSUME NEW k \in 0 .. Top(n), k > 0 PROVE Width(n, k) >= 2
  <2>1. k \in 1 .. Top(n) /\ k - 1 \in 0 .. Top(n)
    BY <1>4, <1>n
  <2>2. Width(n, k) = 2 * Width(n, k - 1) /\ Width(n, k - 1) \in Nat /\ Width(n, k - 1) >= 1
    BY <1>1, <1>3, <2>1
  <2> QED BY <2>2
<1> QED BY <1>1, <1>2, <1>3, <1>4

\* The rows of the perfect tree over the transactions.
LEMMA PerfectOf ==
  ASSUME NEW txs \in Blocks, txs # <<>>
  PROVE  LET n == Len(txs)
             top == Top(n)
         IN /\ n \in Nat \ {0} /\ top \in Nat
            /\ Perfect(txs)[0] = Padded(txs)
            /\ \A h \in 1 .. top : Perfect(txs)[h] = PerfectAbove(Perfect(txs)[h - 1])
            /\ \A h \in 0 .. top : IsRow(Perfect(txs)[h], Width(n, top - h))
            /\ \A i \in 1 .. Width(n, top) : Padded(txs)[i] \in Txs
            /\ Root(txs) = Perfect(txs)[top][1]
<1> DEFINE n == Len(txs)
           top == Top(n)
           perfect == Perfect(txs)
           place == PaddedPlaces(n)[top]
<1>1. n \in Nat /\ IsRow(txs, n)
  BY BlockIs
<1>2. n # 0
  <2> SUFFICES ASSUME n = 0 PROVE FALSE
    OBVIOUS
  <2>1. IsRow(txs, 0)
    BY <1>1
  <2> QED BY <2>1 DEF IsRow
<1>3. top \in 0 .. n /\ top \in Nat
  BY <1>1, TopIs
<1>4. n \in Nat \ {0}
  BY <1>1, <1>2
<1>5. perfect[0] = Padded(txs) /\ \A h \in 1 .. top : perfect[h] = PerfectAbove(perfect[h - 1])
  BY <1>3, PerfectIs DEF Perfect
<1>6. Padded(txs) = [i \in DOMAIN place |-> txs[place[i] + 1]]
  BY DEF Padded
<1>7. DOMAIN place = 1 .. Width(n, top) /\ \A i \in 1 .. Width(n, top) : place[i] \in 0 .. n - 1
  <2>1. /\ DOMAIN place = 1 .. Width(n, top)
        /\ \A i \in 1 .. Width(n, top) : place[i] \in 0 .. nSize(n)[top - top] - 1
    BY <1>3, <1>4, WidthIs
  <2>2. nSize(n)[top - top] = n
    <3>1. top - top = 0
      BY <1>3
    <3>2. nSize(n)[0] = n
      BY <1>1, SizeIs
    <3> QED BY <3>1, <3>2
  <2> QED BY <2>1, <2>2
<1>8. IsRow(Padded(txs), Width(n, top))
  BY <1>6, <1>7 DEF IsRow
<1>9. \A i \in 1 .. Width(n, top) : Padded(txs)[i] \in Txs
  <2> TAKE i \in 1 .. Width(n, top)
  <2>1. place[i] + 1 \in 1 .. n
    BY <1>1, <1>7
  <2>2. txs[place[i] + 1] \in Txs
    <3>1. PICK m \in 0 .. MaxTxs : txs \in [1 .. m -> Txs]
      BY DEF Blocks
    <3>2. DOMAIN txs = 1 .. n
      BY <1>1, RowLength
    <3>3. DOMAIN txs = 1 .. m
      BY <3>1
    <3> HIDE DEF n, place
    <3> QED BY <2>1, <3>1, <3>2, <3>3
  <2> QED BY <1>6, <1>7, <2>2
<1>10. Root(txs) = perfect[top][1]
  BY DEF Root, PerfectRoot, Perfect
<1> DEFINE S == {h \in 0 .. top : IsRow(perfect[h], Width(n, top - h))}
<1>11. 0 \in S
  BY <1>3, <1>5, <1>8
<1> HIDE DEF top, perfect, n
<1>12. ASSUME NEW h \in 0 .. top - 1, h \in S PROVE h + 1 \in S
  <2>1. /\ h + 1 \in 1 .. top /\ (h + 1) - 1 = h /\ h + 1 \in 0 .. top
        /\ top - h \in 1 .. top /\ (top - h) - 1 = top - (h + 1) /\ top - (h + 1) \in 0 .. top
    BY <1>3
  <2> DEFINE v == Width(n, top - (h + 1))
  <2>2. Width(n, top - h) = 2 * v /\ v \in Nat
    <3>1. Width(n, top - h) = 2 * Width(n, (top - h) - 1)
      BY <1>4, <2>1, WidthIs DEF top
    <3>2. v \in Nat
      BY <1>4, <2>1, WidthIs DEF top
    <3> QED BY <2>1, <3>1, <3>2
  <2> HIDE DEF v
  <2>3. Len(perfect[h]) = 2 * v
    <3>1. 2 * v \in Nat /\ IsRow(perfect[h], 2 * v)
      BY <1>12, <2>2
    <3> QED BY <3>1, RowLength
  <2>4. perfect[h + 1] = PerfectAbove(perfect[h])
    BY <1>5, <2>1
  <2>5. perfect[h + 1] = [i \in 1 .. v |-> Hash(perfect[h][2 * i - 1], perfect[h][2 * i])]
    <3>1. (2 * v) \div 2 = v
      BY <2>2
    <3> QED BY <2>3, <2>4, <3>1 DEF PerfectAbove
  <2>6. IsRow(perfect[h + 1], v)
    BY <2>5 DEF IsRow
  <2> QED BY <2>1, <2>6 DEF v
<1>13. S = 0 .. top
  <2> HIDE DEF S
  <2>1. S \in SUBSET (0 .. top)
    BY DEF S
  <2> QED BY <1>3, <1>11, <1>12, <2>1, InductTo
<1>14. \A h \in 0 .. top : IsRow(perfect[h], Width(n, top - h))
  BY <1>13
<1> QED BY <1>3, <1>4, <1>5, <1>9, <1>10, <1>14 DEF top, perfect, n

\* As far below their tops as both trees are, their widths are the same.
LEMMA SameWidth ==
  ASSUME NEW n \in Nat \ {0}, NEW m \in Nat \ {0}, Top(n) <= Top(m)
  PROVE  \A k \in 0 .. Top(n) : Width(n, k) = Width(m, k)
<1> DEFINE S == {k \in 0 .. Top(n) : Width(n, k) = Width(m, k)}
<1>0. n \in Nat /\ m \in Nat /\ Top(n) \in Nat /\ Top(m) \in Nat
  BY TopIs
<1>1. 0 \in S
  BY <1>0, WidthIs
<1>2. ASSUME NEW k \in 0 .. Top(n) - 1, k \in S PROVE k + 1 \in S
  <2>1. k + 1 \in 1 .. Top(n) /\ k + 1 \in 1 .. Top(m) /\ (k + 1) - 1 = k /\ k + 1 \in 0 .. Top(n)
    BY <1>0
  <2>2. Width(n, k + 1) = 2 * Width(n, k)
    <3>1. Width(n, k + 1) = 2 * Width(n, (k + 1) - 1)
      BY <2>1, WidthIs
    <3> QED BY <2>1, <3>1
  <2>3. Width(m, k + 1) = 2 * Width(m, k)
    <3>1. Width(m, k + 1) = 2 * Width(m, (k + 1) - 1)
      BY <2>1, WidthIs
    <3> QED BY <2>1, <3>1
  <2> QED BY <1>2, <2>1, <2>2, <2>3
<1>3. S = 0 .. Top(n)
  <2> HIDE DEF S
  <2>1. S \in SUBSET (0 .. Top(n))
    BY DEF S
  <2> QED BY <1>0, <1>1, <1>2, <2>1, InductTo
<1> QED BY <1>3

\* A row that hashes to another's row is that row.
LEMMA AboveIsOneToOne ==
  ASSUME NoCollisions, NEW v \in Nat, NEW s, NEW t, IsRow(s, 2 * v), IsRow(t, 2 * v),
         PerfectAbove(s) = PerfectAbove(t)
  PROVE  s = t
<1>1. 2 * v \in Nat /\ (2 * v) \div 2 = v
  OBVIOUS
<1>2. Len(s) = 2 * v /\ Len(t) = 2 * v
  BY <1>1, RowLength
<1>3. \A i \in 1 .. v : Hash(s[2 * i - 1], s[2 * i]) = Hash(t[2 * i - 1], t[2 * i])
  <2> TAKE i \in 1 .. v
  <2>1. PerfectAbove(s)[i] = Hash(s[2 * i - 1], s[2 * i])
    BY <1>1, <1>2 DEF PerfectAbove
  <2>2. PerfectAbove(t)[i] = Hash(t[2 * i - 1], t[2 * i])
    BY <1>1, <1>2 DEF PerfectAbove
  <2> QED BY <2>1, <2>2
<1>4. \A i \in 1 .. v : s[2 * i - 1] = t[2 * i - 1] /\ s[2 * i] = t[2 * i]
  BY <1>3 DEF NoCollisions
<1>5. \A i \in 1 .. 2 * v : s[i] = t[i]
  <2> TAKE i \in 1 .. 2 * v
  <2>1. \E j \in 1 .. v : i = 2 * j - 1 \/ i = 2 * j
    <3>1. (i + 1) \div 2 \in 1 .. v /\ (i = 2 * ((i + 1) \div 2) - 1 \/ i = 2 * ((i + 1) \div 2))
      OBVIOUS
    <3> QED BY <3>1
  <2> QED BY <1>4, <2>1
<1>6. s = [i \in 1 .. 2 * v |-> s[i]] /\ t = [i \in 1 .. 2 * v |-> t[i]]
  BY DEF IsRow
<1> QED BY <1>5, <1>6

\* From the same root the same rows follow downwards.
LEMMA RootsGoDown ==
  ASSUME NoCollisions, NEW b \in Blocks, NEW c \in Blocks, b # <<>>, c # <<>>,
         Top(Len(b)) <= Top(Len(c)), Root(b) = Root(c)
  PROVE  Padded(b) = Padded(c)
<1> DEFINE n == Len(b)
           m == Len(c)
           p == Perfect(b)
           q == Perfect(c)
           S == {k \in 0 .. Top(n) : p[Top(n) - k] = q[Top(m) - k]}
<1>b. /\ n \in Nat \ {0} /\ Top(n) \in Nat
      /\ p[0] = Padded(b)
      /\ \A h \in 1 .. Top(n) : p[h] = PerfectAbove(p[h - 1])
      /\ \A h \in 0 .. Top(n) : IsRow(p[h], Width(n, Top(n) - h))
      /\ \A i \in 1 .. Width(n, Top(n)) : Padded(b)[i] \in Txs
      /\ Root(b) = p[Top(n)][1]
  BY PerfectOf
<1>c. /\ m \in Nat \ {0} /\ Top(m) \in Nat
      /\ q[0] = Padded(c)
      /\ \A h \in 1 .. Top(m) : q[h] = PerfectAbove(q[h - 1])
      /\ \A h \in 0 .. Top(m) : IsRow(q[h], Width(m, Top(m) - h))
      /\ Root(c) = q[Top(m)][1]
  BY PerfectOf
<1>t. Top(n) <= Top(m) /\ Root(b) = Root(c)
  OBVIOUS
<1> HIDE DEF n, m, p, q
<1>w. \A k \in 0 .. Top(n) : Width(n, k) = Width(m, k) /\ Width(n, k) \in Nat /\ Width(n, k) >= 1
  BY <1>b, <1>c, <1>t, SameWidth, WidthIs
<1>1. 0 \in S
  <2>1. Top(n) - 0 = Top(n) /\ Top(m) - 0 = Top(m) /\ Top(n) - Top(n) = 0 /\ Top(m) - Top(m) = 0
    BY <1>b, <1>c
  <2>2. Width(n, 0) = 1 /\ Width(m, 0) = 1
    BY <1>b, <1>c, WidthIs
  <2>3. IsRow(p[Top(n)], 1)
    <3>1. IsRow(p[Top(n)], Width(n, Top(n) - Top(n)))
      BY <1>b
    <3> QED BY <2>1, <2>2, <3>1
  <2>4. IsRow(q[Top(m)], 1)
    <3>1. IsRow(q[Top(m)], Width(m, Top(m) - Top(m)))
      BY <1>c
    <3> QED BY <2>1, <2>2, <3>1
  <2>5. p[Top(n)][1] = q[Top(m)][1]
    BY <1>b, <1>c, <1>t
  <2>6. p[Top(n)] = [i \in 1 .. 1 |-> p[Top(n)][i]] /\ q[Top(m)] = [i \in 1 .. 1 |-> q[Top(m)][i]]
    BY <2>3, <2>4 DEF IsRow
  <2>7. p[Top(n)] = q[Top(m)]
    BY <2>5, <2>6
  <2> QED BY <1>b, <2>1, <2>7
<1>2. ASSUME NEW k \in 0 .. Top(n) - 1, k \in S PROVE k + 1 \in S
  <2> DEFINE x == Top(n) - (k + 1)
             y == Top(m) - (k + 1)
             v == Width(n, k)
  <2>1. /\ x \in 0 .. Top(n) /\ x + 1 \in 1 .. Top(n) /\ Top(n) - k = x + 1 /\ (x + 1) - 1 = x
        /\ y \in 0 .. Top(m) /\ y + 1 \in 1 .. Top(m) /\ Top(m) - k = y + 1 /\ (y + 1) - 1 = y
        /\ Top(n) - x = k + 1 /\ Top(m) - y = k + 1
        /\ k \in 0 .. Top(n) /\ k + 1 \in 0 .. Top(n) /\ k + 1 \in 1 .. Top(n) /\ (k + 1) - 1 = k
    <3>1. \A a, d \in Nat : k \in 0 .. a - 1 /\ a <= d =>
            /\ a - (k + 1) \in 0 .. a /\ (a - (k + 1)) + 1 \in 1 .. a
            /\ a - k = (a - (k + 1)) + 1 /\ ((a - (k + 1)) + 1) - 1 = a - (k + 1)
            /\ d - (k + 1) \in 0 .. d /\ (d - (k + 1)) + 1 \in 1 .. d
            /\ d - k = (d - (k + 1)) + 1 /\ ((d - (k + 1)) + 1) - 1 = d - (k + 1)
            /\ a - (a - (k + 1)) = k + 1 /\ d - (d - (k + 1)) = k + 1
            /\ k \in 0 .. a /\ k + 1 \in 0 .. a /\ k + 1 \in 1 .. a /\ (k + 1) - 1 = k
      OBVIOUS
    <3> QED BY <1>b, <1>c, <1>t, <3>1
  <2>2. Width(n, k + 1) = 2 * v /\ Width(m, k + 1) = 2 * v /\ v \in Nat
    <3>1. Width(n, k + 1) = 2 * Width(n, (k + 1) - 1)
      BY <1>b, <2>1, WidthIs
    <3> QED BY <1>w, <2>1, <3>1
  <2> HIDE DEF x, y, v
  <2>3. IsRow(p[x], 2 * v) /\ IsRow(q[y], 2 * v)
    <3>1. IsRow(p[x], Width(n, Top(n) - x)) /\ IsRow(q[y], Width(m, Top(m) - y))
      BY <1>b, <1>c, <2>1
    <3> QED BY <2>1, <2>2, <3>1
  <2>4. p[x + 1] = PerfectAbove(p[x]) /\ q[y + 1] = PerfectAbove(q[y])
    BY <1>b, <1>c, <2>1
  <2>5. p[x + 1] = q[y + 1]
    BY <1>2, <2>1
  <2>6. p[x] = q[y]
    BY <2>2, <2>3, <2>4, <2>5, AboveIsOneToOne
  <2> QED BY <2>1, <2>6 DEF x, y
<1>3. S = 0 .. Top(n)
  <2> HIDE DEF S
  <2>1. S \in SUBSET (0 .. Top(n))
    BY DEF S
  <2> QED BY <1>b, <1>1, <1>2, <2>1, InductTo
<1>4. p[0] = q[Top(m) - Top(n)]
  <2>1. Top(n) \in S /\ Top(n) - Top(n) = 0
    BY <1>b, <1>3
  <2> QED BY <2>1
<1>5. Top(m) = Top(n)
  <2> SUFFICES ASSUME Top(n) < Top(m) PROVE FALSE
    BY <1>b, <1>c, <1>t
  <2> DEFINE h == Top(m) - Top(n)
  <2>1. h \in 1 .. Top(m) /\ h - 1 \in 0 .. Top(m) /\ Top(m) - h = Top(n) /\ Top(m) - (h - 1) = Top(n) + 1
        /\ Top(n) + 1 \in 1 .. Top(m) /\ (Top(n) + 1) - 1 = Top(n) /\ Top(n) \in 0 .. Top(n)
        /\ Top(n) + 1 \in 0 .. Top(m)
    <3>1. \A a, d \in Nat : a < d =>
            /\ d - a \in 1 .. d /\ (d - a) - 1 \in 0 .. d /\ d - (d - a) = a /\ d - ((d - a) - 1) = a + 1
            /\ a + 1 \in 1 .. d /\ (a + 1) - 1 = a /\ a \in 0 .. a /\ a + 1 \in 0 .. d
      OBVIOUS
    <3> QED BY <1>b, <1>c, <3>1
  <2> HIDE DEF h
  <2>2. q[h] = PerfectAbove(q[h - 1])
    BY <1>c, <2>1
  <2>3. Len(q[h - 1]) = Width(m, Top(n) + 1)
    <3>1. IsRow(q[h - 1], Width(m, Top(m) - (h - 1)))
      BY <1>c, <2>1
    <3>2. Width(m, Top(n) + 1) \in Nat
      BY <1>c, <2>1, WidthIs
    <3> QED BY <2>1, <3>1, <3>2, RowLength
  <2>4. Width(m, Top(n) + 1) = 2 * Width(m, Top(n)) /\ Width(m, Top(n)) = Width(n, Top(n))
    <3>1. Width(m, Top(n) + 1) = 2 * Width(m, (Top(n) + 1) - 1)
      BY <1>c, <2>1, WidthIs
    <3> QED BY <1>w, <2>1, <3>1
  <2>5. 1 \in 1 .. Width(n, Top(n)) /\ 1 \in 1 .. Len(q[h - 1]) \div 2
    BY <1>w, <2>1, <2>3, <2>4
  <2>6. q[h][1] = Hash(q[h - 1][2 * 1 - 1], q[h - 1][2 * 1])
    BY <2>2, <2>5 DEF PerfectAbove
  <2>7. q[h][1] \in Txs
    BY <1>b, <1>4, <2>5 DEF h
  <2> QED BY <2>6, <2>7 DEF NoCollisions
<1> QED BY <1>b, <1>c, <1>4, <1>5

\* And from the same leaves upwards.
LEMMA LeavesGoUp ==
  ASSUME NEW b \in Blocks, NEW c \in Blocks, b # <<>>, c # <<>>,
         Top(Len(b)) <= Top(Len(c)), Padded(b) = Padded(c)
  PROVE  Root(b) = Root(c)
<1> DEFINE n == Len(b)
           m == Len(c)
           p == Perfect(b)
           q == Perfect(c)
           S == {h \in 0 .. Top(n) : p[h] = q[h]}
<1>b. /\ n \in Nat \ {0} /\ Top(n) \in Nat
      /\ p[0] = Padded(b)
      /\ \A h \in 1 .. Top(n) : p[h] = PerfectAbove(p[h - 1])
      /\ \A h \in 0 .. Top(n) : IsRow(p[h], Width(n, Top(n) - h))
      /\ Root(b) = p[Top(n)][1]
  BY PerfectOf
<1>c. /\ m \in Nat \ {0} /\ Top(m) \in Nat
      /\ q[0] = Padded(c)
      /\ \A h \in 1 .. Top(m) : q[h] = PerfectAbove(q[h - 1])
      /\ \A h \in 0 .. Top(m) : IsRow(q[h], Width(m, Top(m) - h))
      /\ Root(c) = q[Top(m)][1]
  BY PerfectOf
<1>t. Top(n) <= Top(m) /\ Padded(b) = Padded(c)
  OBVIOUS
<1> HIDE DEF n, m, p, q
<1>1. 0 \in S
  BY <1>b, <1>c, <1>t
<1>2. ASSUME NEW h \in 0 .. Top(n) - 1, h \in S PROVE h + 1 \in S
  <2>1. h + 1 \in 1 .. Top(n) /\ h + 1 \in 1 .. Top(m) /\ (h + 1) - 1 = h /\ h + 1 \in 0 .. Top(n)
    BY <1>b, <1>c, <1>t
  <2>2. p[h + 1] = PerfectAbove(p[h]) /\ q[h + 1] = PerfectAbove(q[h])
    BY <1>b, <1>c, <2>1
  <2> QED BY <1>2, <2>1, <2>2
<1>3. S = 0 .. Top(n)
  <2> HIDE DEF S
  <2>1. S \in SUBSET (0 .. Top(n))
    BY DEF S
  <2> QED BY <1>b, <1>1, <1>2, <2>1, InductTo
<1>4. p[Top(n)] = q[Top(n)]
  <2>1. Top(n) \in S
    BY <1>b, <1>3
  <2> QED BY <2>1
<1>5. Top(m) = Top(n)
  <2>1. Top(n) - Top(n) = 0 /\ Top(n) \in 0 .. Top(n) /\ Top(n) \in 0 .. Top(m) /\ Top(m) - Top(n) \in 0 .. Top(m)
    BY <1>b, <1>c, <1>t
  <2>2. Len(p[Top(n)]) = 1
    <3>1. IsRow(p[Top(n)], Width(n, Top(n) - Top(n)))
      BY <1>b, <2>1
    <3>2. Width(n, Top(n) - Top(n)) = 1
      BY <1>b, <2>1, WidthIs
    <3> QED BY <3>1, <3>2, RowLength
  <2>3. /\ Width(m, Top(m) - Top(n)) \in Nat
        /\ Top(m) - Top(n) > 0 => Width(m, Top(m) - Top(n)) >= 2
    BY <1>c, <2>1, WidthIs
  <2>4. Len(q[Top(n)]) = Width(m, Top(m) - Top(n))
    <3>1. IsRow(q[Top(n)], Width(m, Top(m) - Top(n)))
      BY <1>c, <2>1
    <3> QED BY <2>3, <3>1, RowLength
  <2>5. ~(Top(m) - Top(n) > 0)
    <3>1. Len(p[Top(n)]) = Len(q[Top(n)])
      BY <1>4
    <3>2. Width(m, Top(m) - Top(n)) = 1
      BY <2>2, <2>4, <3>1
    <3> QED BY <2>3, <3>2
  <2> QED BY <1>b, <1>c, <1>t, <2>5
<1> QED BY <1>b, <1>c, <1>4, <1>5

LEMMA NotEmpty ==
  ASSUME NEW txs \in Blocks, txs # <<>>, NoCollisions
  PROVE  Padded(txs) # <<>> /\ Root(txs) # NoHash
<1> DEFINE n == Len(txs)
           top == Top(n)
           p == Perfect(txs)
<1>0. /\ n \in Nat \ {0} /\ top \in Nat
      /\ p[0] = Padded(txs)
      /\ \A h \in 1 .. top : p[h] = PerfectAbove(p[h - 1])
      /\ \A h \in 0 .. top : IsRow(p[h], Width(n, top - h))
      /\ \A i \in 1 .. Width(n, top) : Padded(txs)[i] \in Txs
      /\ Root(txs) = p[top][1]
  BY PerfectOf
<1> HIDE DEF n, p
<1>1. \A h \in 0 .. top : Len(p[h]) = Width(n, top - h) /\ Width(n, top - h) >= 1 /\ Width(n, top - h) \in Nat
  <2> TAKE h \in 0 .. top
  <2>1. top - h \in 0 .. top
    BY <1>0
  <2>2. Width(n, top - h) \in Nat /\ Width(n, top - h) >= 1
    BY <1>0, <2>1, WidthIs
  <2> QED BY <1>0, <2>2, RowLength
<1>2. Padded(txs) # <<>>
  <2>1. Len(p[0]) >= 1
    BY <1>0, <1>1
  <2> QED BY <1>0, <2>1
<1>3. CASE top = 0
  <2>1. 1 \in 1 .. Width(n, top)
    BY <1>0, <1>1, <1>3
  <2>2. Root(txs) \in Txs
    BY <1>0, <1>3, <2>1
  <2> QED BY <1>2, <2>2 DEF NoCollisions
<1>4. CASE top # 0
  <2>1. top \in 1 .. top /\ top - 1 \in 0 .. top /\ top - (top - 1) = 1 /\ 1 \in 1 .. top /\ 1 - 1 = 0
    BY <1>0, <1>4
  <2>2. Width(n, 1) = 2
    <3>1. Width(n, 1) = 2 * Width(n, 1 - 1)
      BY <1>0, <2>1, WidthIs
    <3>2. Width(n, 0) = 1
      BY <1>0, WidthIs
    <3> QED BY <2>1, <3>1, <3>2
  <2>3. Len(p[top - 1]) = 2
    BY <1>1, <2>1, <2>2
  <2>4. p[top] = PerfectAbove(p[top - 1])
    BY <1>0, <2>1
  <2>5. 1 \in 1 .. Len(p[top - 1]) \div 2
    BY <2>3
  <2>6. p[top][1] = Hash(p[top - 1][2 * 1 - 1], p[top - 1][2 * 1])
    BY <2>4, <2>5 DEF PerfectAbove
  <2> QED BY <1>0, <1>2, <2>6 DEF NoCollisions
<1> QED BY <1>3, <1>4

LEMMA OneRootOneBlock ==
  ASSUME NEW b \in Blocks, NEW c \in Blocks, NoCollisions
  PROVE  Root(b) = Root(c) <=> Padded(b) = Padded(c)
<1>1. CASE b = <<>> \/ c = <<>>
  <2>1. Padded(<<>>) = <<>> /\ Root(<<>>) = NoHash
    BY DEF Padded, Root
  <2> QED BY <1>1, <2>1, NotEmpty
<1>2. CASE b # <<>> /\ c # <<>>
  <2>1. Top(Len(b)) \in Nat /\ Top(Len(c)) \in Nat
    BY BlockIs, TopIs
  <2>2. CASE Top(Len(b)) <= Top(Len(c))
    BY <1>2, <2>2, RootsGoDown, LeavesGoUp
  <2>3. CASE Top(Len(c)) <= Top(Len(b))
    BY <1>2, <2>3, RootsGoDown, LeavesGoUp
  <2> QED BY <2>1, <2>2, <2>3
<1> QED BY <1>1, <1>2

\* Where hashes do not collide, two blocks have the same root exactly if they
\* are the same once padded: nothing but a doubled end can be changed unseen.
THEOREM RootAlwaysCommits == ASSUME NoCollisions PROVE Spec => []RootCommits
<1>1. BInv => RootCommits
  <2> SUFFICES ASSUME BInv PROVE RootCommits
    OBVIOUS
  <2>1. RootOf(Tree(vtx)) = Root(vtx) /\ RootOf(Tree(built)) = Root(built)
    BY TreeOfBlock DEF BInv
  <2> QED BY <2>1, OneRootOneBlock DEF BInv, RootCommits
<1> QED BY <1>1, Initially, Inductive, PTL DEF Spec
=============================================================================
