-------------------------- MODULE DataStreamProofs --------------------------
(***************************************************************************)
(* Proofs about DataStream for every alphabet and every bound.             *)
(***************************************************************************)
EXTENDS DataStream, SequenceTheorems, TLAPS

-----------------------------------------------------------------------------
\* The first n elements, the others, and n equal ones.
LEMMA TakeProperties ==
  ASSUME NEW S, NEW s \in Seq(S), NEW n \in 0 .. Len(s)
  PROVE  /\ UpTo(s, n) \in Seq(S)
         /\ Len(UpTo(s, n)) = n
         /\ \A i \in 1 .. n : UpTo(s, n)[i] = s[i]
<1>1. n \in Int /\ 1 \in Int /\ Len(s) \in Nat /\ \A i \in 1 .. n : s[i] \in S
  BY ElementOfSeq
<1>2. /\ SubSeq(s, 1, n) \in Seq(S)
      /\ Len(SubSeq(s, 1, n)) = IF 1 <= n THEN n - 1 + 1 ELSE 0
      /\ \A i \in 1 .. n - 1 + 1 : SubSeq(s, 1, n)[i] = s[1 + i - 1]
  BY <1>1, SubSeqProperties
<1>3. \A i \in 1 .. n : i \in 1 .. n - 1 + 1 /\ 1 + i - 1 = i
  BY <1>1
<1> QED
  BY <1>1, <1>2, <1>3 DEF UpTo

LEMMA DropProperties ==
  ASSUME NEW S, NEW s \in Seq(S), NEW n \in 0 .. Len(s)
  PROVE  /\ Drop(s, n) \in Seq(S)
         /\ Len(Drop(s, n)) = Len(s) - n
         /\ \A i \in 1 .. Len(s) - n : Drop(s, n)[i] = s[n + i]
<1>1. n + 1 \in Int /\ n \in Nat /\ Len(s) \in Nat /\ \A i \in n + 1 .. Len(s) : s[i] \in S
  BY ElementOfSeq
<1>2. /\ SubSeq(s, n + 1, Len(s)) \in Seq(S)
      /\ Len(SubSeq(s, n + 1, Len(s))) = IF n + 1 <= Len(s) THEN Len(s) - (n + 1) + 1 ELSE 0
      /\ \A i \in 1 .. Len(s) - (n + 1) + 1 : SubSeq(s, n + 1, Len(s))[i] = s[n + 1 + i - 1]
  BY <1>1, SubSeqProperties
<1>3. \A i \in 1 .. Len(s) - n : i \in 1 .. Len(s) - (n + 1) + 1 /\ n + 1 + i - 1 = n + i
  BY <1>1
<1> QED
  BY <1>1, <1>2, <1>3 DEF Drop

LEMMA FillProperties ==
  ASSUME NEW S, NEW c \in S, NEW n \in Nat
  PROVE  Copies(n, c) \in Seq(S) /\ Len(Copies(n, c)) = n
<1>1. Copies(n, c) \in [1 .. n -> S]
  BY DEF Copies
<1> QED
  BY <1>1

\* A vector of at most MaxArg bytes.
LEMMA ChunkProperties ==
  ASSUME NEW s
  PROVE  s \in Chunks <=> s \in Seq(Bytes) /\ Len(s) <= MaxArg
<1>1. ASSUME s \in Chunks PROVE s \in Seq(Bytes) /\ Len(s) <= MaxArg
  <2>1. PICK n \in 0 .. MaxArg : s \in [1 .. n -> Bytes]
    BY <1>1 DEF Chunks
  <2>2. n \in Nat /\ n <= MaxArg
    BY SizeAssumption
  <2> QED
    BY <2>1, <2>2
<1>2. ASSUME s \in Seq(Bytes), Len(s) <= MaxArg PROVE s \in Chunks
  <2>1. s \in [1 .. Len(s) -> Bytes] /\ Len(s) \in Nat
    BY <1>2, LenProperties
  <2>2. Len(s) \in 0 .. MaxArg
    BY <1>2, <2>1, SizeAssumption
  <2> QED
    BY <2>1, <2>2 DEF Chunks
<1> QED
  BY <1>1, <1>2

-----------------------------------------------------------------------------
\* Dropping nothing, everything, and again.
LEMMA DropNothing ==
  ASSUME NEW S, NEW s \in Seq(S)
  PROVE  Drop(s, 0) = s /\ UpTo(s, Len(s)) = s
<1>1. Len(s) \in Nat
  BY LenProperties
<1> QED
  BY <1>1, SubSeqFull DEF Drop, UpTo

LEMMA DropEverything ==
  ASSUME NEW S, NEW s \in Seq(S)
  PROVE  Drop(s, Len(s)) = <<>> /\ UpTo(s, 0) = <<>>
<1>1. Len(s) \in Nat
  BY LenProperties
<1> QED
  BY <1>1, SubSeqEmpty DEF Drop, UpTo

LEMMA DropDrop ==
  ASSUME NEW S, NEW s \in Seq(S), NEW p \in 0 .. Len(s), NEW n \in 0 .. Len(s) - p
  PROVE  Drop(Drop(s, p), n) = Drop(s, p + n)
<1>1. Len(s) \in Nat /\ p + n \in 0 .. Len(s)
  BY LenProperties
<1> DEFINE u == Drop(s, p)
<1>2. u \in Seq(S) /\ Len(u) = Len(s) - p /\ \A i \in 1 .. Len(s) - p : u[i] = s[p + i]
  BY DropProperties
<1> HIDE DEF u
<1>3. /\ Drop(u, n) \in Seq(S) /\ Len(Drop(u, n)) = Len(s) - p - n
      /\ \A i \in 1 .. Len(s) - p - n : Drop(u, n)[i] = u[n + i]
  <2>1. n \in 0 .. Len(u) /\ Len(u) - n = Len(s) - p - n
    BY <1>1, <1>2
  <2> QED
    BY <2>1, <1>2, DropProperties
<1>4. /\ Drop(s, p + n) \in Seq(S) /\ Len(Drop(s, p + n)) = Len(s) - (p + n)
      /\ \A i \in 1 .. Len(s) - (p + n) : Drop(s, p + n)[i] = s[p + n + i]
  BY <1>1, DropProperties
<1>5. \A i \in 1 .. Len(s) - p - n : Drop(u, n)[i] = Drop(s, p + n)[i]
  <2> TAKE i \in 1 .. Len(s) - p - n
  <2>1. n + i \in 1 .. Len(s) - p /\ p + (n + i) = p + n + i /\ i \in 1 .. Len(s) - (p + n)
    BY <1>1
  <2> QED
    BY <2>1, <1>2, <1>3, <1>4
<1>6. Len(Drop(u, n)) = Len(Drop(s, p + n))
  <2>1. Len(s) - p - n = Len(s) - (p + n)
    BY <1>1
  <2> QED
    BY <2>1, <1>3, <1>4
<1>7. Drop(u, n) = Drop(s, p + n)
  BY <1>3, <1>4, <1>5, <1>6, SeqEqual
<1> QED
  BY <1>7 DEF u

\* Taking from a part is taking a part of what is taken.
LEMMA DropTake ==
  ASSUME NEW S, NEW s \in Seq(S), NEW p \in 0 .. Len(s), NEW n \in 0 .. Len(s) - p
  PROVE  Drop(UpTo(s, p + n), p) = UpTo(Drop(s, p), n)
<1>1. Len(s) \in Nat /\ p + n \in 0 .. Len(s)
  BY LenProperties
<1> DEFINE u == Drop(s, p)
           t == UpTo(s, p + n)
<1>2. u \in Seq(S) /\ Len(u) = Len(s) - p /\ \A i \in 1 .. Len(s) - p : u[i] = s[p + i]
  BY DropProperties
<1>3. t \in Seq(S) /\ Len(t) = p + n /\ \A i \in 1 .. p + n : t[i] = s[i]
  BY <1>1, TakeProperties
<1> HIDE DEF u, t
<1>4. /\ UpTo(u, n) \in Seq(S) /\ Len(UpTo(u, n)) = n
      /\ \A i \in 1 .. n : UpTo(u, n)[i] = u[i]
  BY <1>2, TakeProperties
<1>5. /\ Drop(t, p) \in Seq(S) /\ Len(Drop(t, p)) = n
      /\ \A i \in 1 .. n : Drop(t, p)[i] = t[p + i]
  <2>1. p \in 0 .. Len(t) /\ Len(t) - p = n
    BY <1>1, <1>3
  <2> QED
    BY <2>1, <1>3, DropProperties
<1>6. \A i \in 1 .. n : Drop(t, p)[i] = UpTo(u, n)[i]
  <2> TAKE i \in 1 .. n
  <2>1. p + i \in 1 .. p + n /\ i \in 1 .. Len(s) - p
    BY <1>1
  <2> QED
    BY <2>1, <1>2, <1>3, <1>4, <1>5
<1>7. Drop(t, p) = UpTo(u, n)
  BY <1>4, <1>5, <1>6, SeqEqual
<1> QED
  BY <1>7 DEF u, t

\* Dropping from the first of two sequences.
LEMMA DropConcat ==
  ASSUME NEW S, NEW a \in Seq(S), NEW b \in Seq(S), NEW p \in 0 .. Len(a)
  PROVE  Drop(a \o b, p) = Drop(a, p) \o b
<1> DEFINE c == a \o b
           d == Drop(a, p)
<1>1. Len(a) \in Nat /\ Len(b) \in Nat
  BY LenProperties
<1>2. /\ c \in Seq(S) /\ Len(c) = Len(a) + Len(b)
      /\ \A i \in 1 .. Len(a) + Len(b) : c[i] = IF i <= Len(a) THEN a[i] ELSE b[i - Len(a)]
  BY ConcatProperties
<1>3. d \in Seq(S) /\ Len(d) = Len(a) - p /\ \A i \in 1 .. Len(a) - p : d[i] = a[p + i]
  BY DropProperties
<1> HIDE DEF c, d
<1>4. /\ d \o b \in Seq(S) /\ Len(d \o b) = Len(d) + Len(b)
      /\ \A i \in 1 .. Len(d) + Len(b) : (d \o b)[i] = IF i <= Len(d) THEN d[i] ELSE b[i - Len(d)]
  BY <1>3, ConcatProperties
<1>5. /\ Drop(c, p) \in Seq(S) /\ Len(Drop(c, p)) = Len(a) + Len(b) - p
      /\ \A i \in 1 .. Len(a) + Len(b) - p : Drop(c, p)[i] = c[p + i]
  <2>1. p \in 0 .. Len(c) /\ Len(c) - p = Len(a) + Len(b) - p
    BY <1>1, <1>2
  <2> QED
    BY <2>1, <1>2, DropProperties
<1>6. Len(Drop(c, p)) = Len(d \o b)
  BY <1>1, <1>3, <1>4, <1>5
<1>7. \A i \in 1 .. Len(a) + Len(b) - p : Drop(c, p)[i] = (d \o b)[i]
  <2> TAKE i \in 1 .. Len(a) + Len(b) - p
  <2>1. /\ p + i \in 1 .. Len(a) + Len(b) /\ i \in 1 .. Len(d) + Len(b)
        /\ Drop(c, p)[i] = c[p + i]
    BY <1>1, <1>3, <1>5
  <2>2. CASE p + i <= Len(a)
    <3>1. i \in 1 .. Len(a) - p /\ i <= Len(d)
      BY <1>1, <1>3, <2>2
    <3> QED
      BY <2>1, <2>2, <3>1, <1>2, <1>3, <1>4
  <2>3. CASE ~(p + i <= Len(a))
    <3>1. ~(i <= Len(d)) /\ p + i - Len(a) = i - Len(d)
      BY <1>1, <1>3, <2>3
    <3> QED
      BY <2>1, <2>3, <3>1, <1>2, <1>4
  <2> QED
    BY <2>2, <2>3
<1>8. Drop(c, p) = d \o b
  BY <1>4, <1>5, <1>6, <1>7, SeqEqual
<1> QED
  BY <1>8 DEF c, d

\* What is taken from behind p, in one piece.
LEMMA TakeDrop ==
  ASSUME NEW S, NEW s \in Seq(S), NEW p \in 0 .. Len(s), NEW n \in 0 .. Len(s) - p
  PROVE  /\ UpTo(Drop(s, p), n) = SubSeq(s, p + 1, p + n)
         /\ UpTo(Drop(s, p), n) \in [1 .. n -> S]
<1> DEFINE u == Drop(s, p)
           t == SubSeq(s, p + 1, p + n)
<1>1. /\ Len(s) \in Nat /\ p + 1 \in Int /\ p + n \in Int
      /\ \A i \in p + 1 .. p + n : s[i] \in S
  BY ElementOfSeq
<1>2. /\ t \in Seq(S)
      /\ Len(t) = IF p + 1 <= p + n THEN p + n - (p + 1) + 1 ELSE 0
      /\ \A i \in 1 .. p + n - (p + 1) + 1 : t[i] = s[p + 1 + i - 1]
  BY <1>1, SubSeqProperties
<1>3. u \in Seq(S) /\ Len(u) = Len(s) - p /\ \A i \in 1 .. Len(s) - p : u[i] = s[p + i]
  BY DropProperties
<1> HIDE DEF u, t
<1>4. /\ UpTo(u, n) \in Seq(S) /\ Len(UpTo(u, n)) = n
      /\ \A i \in 1 .. n : UpTo(u, n)[i] = u[i]
  BY <1>3, TakeProperties
<1>5. \A i \in 1 .. n : UpTo(u, n)[i] = t[i]
  <2> TAKE i \in 1 .. n
  <2>1. i \in 1 .. Len(s) - p /\ i \in 1 .. p + n - (p + 1) + 1 /\ p + 1 + i - 1 = p + i
    BY <1>1
  <2> QED
    BY <2>1, <1>2, <1>3, <1>4
<1>6. Len(t) = n
  <2>1. (IF p + 1 <= p + n THEN p + n - (p + 1) + 1 ELSE 0) = n
    BY <1>1
  <2> QED
    BY <2>1, <1>2
<1>7. UpTo(u, n) = t
  BY <1>2, <1>4, <1>5, <1>6, SeqEqual
<1>8. UpTo(u, n) \in [1 .. n -> S]
  BY <1>4, LenProperties
<1> QED
  BY <1>7, <1>8 DEF u, t

\* Taking of what was taken, of the first of two, and on from what was taken.
LEMMA TakeTake ==
  ASSUME NEW S, NEW s \in Seq(S), NEW p \in 0 .. Len(s), NEW k \in 0 .. p
  PROVE  UpTo(UpTo(s, p), k) = UpTo(s, k)
<1> DEFINE t == UpTo(s, p)
<1>1. Len(s) \in Nat /\ k \in 0 .. Len(s)
  BY LenProperties
<1>2. t \in Seq(S) /\ Len(t) = p /\ \A i \in 1 .. p : t[i] = s[i]
  BY TakeProperties
<1> HIDE DEF t
<1>3. /\ UpTo(t, k) \in Seq(S) /\ Len(UpTo(t, k)) = k
      /\ \A i \in 1 .. k : UpTo(t, k)[i] = t[i]
  BY <1>2, TakeProperties
<1>4. /\ UpTo(s, k) \in Seq(S) /\ Len(UpTo(s, k)) = k
      /\ \A i \in 1 .. k : UpTo(s, k)[i] = s[i]
  BY <1>1, TakeProperties
<1>5. \A i \in 1 .. k : UpTo(t, k)[i] = UpTo(s, k)[i]
  <2> TAKE i \in 1 .. k
  <2>1. i \in 1 .. p
    BY <1>1
  <2> QED
    BY <2>1, <1>2, <1>3, <1>4
<1>6. UpTo(t, k) = UpTo(s, k)
  BY <1>3, <1>4, <1>5, SeqEqual
<1> QED
  BY <1>6 DEF t

LEMMA TakeConcat ==
  ASSUME NEW S, NEW a \in Seq(S), NEW b \in Seq(S), NEW p \in 0 .. Len(a)
  PROVE  UpTo(a \o b, p) = UpTo(a, p)
<1> DEFINE c == a \o b
<1>1. Len(a) \in Nat /\ Len(b) \in Nat
  BY LenProperties
<1>2. /\ c \in Seq(S) /\ Len(c) = Len(a) + Len(b)
      /\ \A i \in 1 .. Len(a) + Len(b) : c[i] = IF i <= Len(a) THEN a[i] ELSE b[i - Len(a)]
  BY ConcatProperties
<1> HIDE DEF c
<1>3. /\ UpTo(a, p) \in Seq(S) /\ Len(UpTo(a, p)) = p
      /\ \A i \in 1 .. p : UpTo(a, p)[i] = a[i]
  BY TakeProperties
<1>4. /\ UpTo(c, p) \in Seq(S) /\ Len(UpTo(c, p)) = p
      /\ \A i \in 1 .. p : UpTo(c, p)[i] = c[i]
  <2>1. p \in 0 .. Len(c)
    BY <1>1, <1>2
  <2> QED
    BY <2>1, <1>2, TakeProperties
<1>5. \A i \in 1 .. p : UpTo(c, p)[i] = UpTo(a, p)[i]
  <2> TAKE i \in 1 .. p
  <2>1. i \in 1 .. Len(a) + Len(b) /\ i <= Len(a)
    BY <1>1
  <2> QED
    BY <2>1, <1>2, <1>3, <1>4
<1>6. UpTo(c, p) = UpTo(a, p)
  BY <1>3, <1>4, <1>5, SeqEqual
<1> QED
  BY <1>6 DEF c

LEMMA TakeOn ==
  ASSUME NEW S, NEW s \in Seq(S), NEW p \in 0 .. Len(s), NEW n \in 0 .. Len(s) - p
  PROVE  UpTo(s, p + n) = UpTo(s, p) \o UpTo(Drop(s, p), n)
<1>1. /\ Len(s) \in Nat /\ 1 \in 1 .. Len(s) + 1 /\ p \in 1 - 1 .. Len(s)
      /\ p + n \in p .. Len(s)
  BY LenProperties
<1>2. SubSeq(s, 1, p) \o SubSeq(s, p + 1, p + n) = SubSeq(s, 1, p + n)
  BY <1>1, ConcatAdjacentSubSeq
<1>3. UpTo(Drop(s, p), n) = SubSeq(s, p + 1, p + n)
  BY TakeDrop
<1> QED
  BY <1>2, <1>3 DEF UpTo

-----------------------------------------------------------------------------
\* The unread bytes and the changes that an operation makes to them.
LEMMA UnreadType ==
  ASSUME StreamTypeOK
  PROVE  /\ Len(vch) \in Nat /\ nReadPos \in Nat /\ size \in Nat
         /\ nReadPos + size = Len(vch)
         /\ Unread \in Seq(Bytes) /\ Len(Unread) = size
         /\ Behind \in Seq(Bytes) /\ Len(Behind) = nReadPos
<1>1. vch \in Seq(Bytes) /\ Len(vch) \in Nat /\ nReadPos \in 0 .. Len(vch)
  BY LenProperties DEF StreamTypeOK
<1>0. Behind \in Seq(Bytes) /\ Len(Behind) = nReadPos
  BY <1>1, TakeProperties DEF Behind
<1>2. Unread \in Seq(Bytes) /\ Len(Unread) = Len(vch) - nReadPos
  BY <1>1, DropProperties DEF Unread
<1> QED
  BY <1>0, <1>1, <1>2 DEF size

\* Bytes i+1 .. j of what is unread are replaced by s, in the vector.
Replaced(i, j, s) == UpTo(vch, nReadPos + i) \o s \o Drop(vch, nReadPos + j)

LEMMA Spliced ==
  ASSUME StreamTypeOK, NEW s \in Seq(Bytes), NEW i \in 0 .. size, NEW j \in i .. size
  PROVE  /\ Replaced(i, j, s) \in Seq(Bytes)
         /\ Len(Replaced(i, j, s)) = Len(vch) - (j - i) + Len(s)
         /\ nReadPos \in 0 .. Len(Replaced(i, j, s))
         /\ Drop(Replaced(i, j, s), nReadPos) = UpTo(Unread, i) \o s \o Drop(Unread, j)
         /\ UpTo(Replaced(i, j, s), nReadPos) = Behind
<1> DEFINE front == UpTo(vch, nReadPos + i)
           back == Drop(vch, nReadPos + j)
<1>1. /\ vch \in Seq(Bytes) /\ Len(vch) \in Nat /\ nReadPos \in Nat /\ size \in Nat
      /\ nReadPos + size = Len(vch) /\ Len(s) \in Nat
  BY UnreadType, LenProperties DEF StreamTypeOK
<1>2. /\ i \in Nat /\ j \in Nat /\ i <= j /\ j <= size
      /\ nReadPos + i \in 0 .. Len(vch) /\ nReadPos + j \in 0 .. Len(vch)
      /\ nReadPos \in 0 .. Len(vch) /\ i \in 0 .. Len(vch) - nReadPos /\ j \in 0 .. Len(vch) - nReadPos
  BY <1>1
<1>3. front \in Seq(Bytes) /\ Len(front) = nReadPos + i
  BY <1>1, <1>2, TakeProperties
<1>4. back \in Seq(Bytes) /\ Len(back) = Len(vch) - (nReadPos + j)
  BY <1>1, <1>2, DropProperties
<1>5. Drop(front, nReadPos) = UpTo(Unread, i)
  BY <1>1, <1>2, DropTake DEF Unread
<1>6. back = Drop(Unread, j)
  BY <1>1, <1>2, DropDrop DEF Unread
<1>7. Replaced(i, j, s) = front \o s \o back
  BY DEF Replaced
<1> HIDE DEF front, back
<1>8. front \o s \in Seq(Bytes) /\ Len(front \o s) = nReadPos + i + Len(s)
  BY <1>3, ConcatProperties
<1>9. front \o s \o back \in Seq(Bytes) /\ Len(front \o s \o back) = Len(front \o s) + Len(back)
  BY <1>4, <1>8, ConcatProperties
<1>10. Len(front \o s \o back) = Len(vch) - (j - i) + Len(s)
  BY <1>1, <1>2, <1>4, <1>8, <1>9
<1>11. nReadPos \in 0 .. Len(front) /\ nReadPos \in 0 .. Len(front \o s)
  BY <1>1, <1>2, <1>3, <1>8
<1>12. Drop(front \o s, nReadPos) = Drop(front, nReadPos) \o s
  BY <1>3, <1>11, DropConcat
<1>13. Drop(front \o s \o back, nReadPos) = Drop(front \o s, nReadPos) \o back
  BY <1>4, <1>8, <1>11, DropConcat
<1>14. nReadPos \in 0 .. Len(front \o s \o back)
  BY <1>1, <1>2, <1>10
<1>15. UpTo(front \o s \o back, nReadPos) = Behind
  <2>1. UpTo(front \o s \o back, nReadPos) = UpTo(front \o s, nReadPos)
    BY <1>4, <1>8, <1>11, TakeConcat
  <2>2. UpTo(front \o s, nReadPos) = UpTo(front, nReadPos)
    BY <1>3, <1>11, TakeConcat
  <2>3. nReadPos \in 0 .. nReadPos + i
    BY <1>1, <1>2
  <2>4. UpTo(front, nReadPos) = Behind
    BY <1>1, <1>2, <2>3, TakeTake DEF Behind, front
  <2> QED
    BY <2>1, <2>2, <2>4
<1> QED
  BY <1>5, <1>6, <1>7, <1>9, <1>10, <1>12, <1>13, <1>14, <1>15

\* Bytes put over those read last.
LEMMA Fronted ==
  ASSUME StreamTypeOK, NEW s \in Seq(Bytes), Len(s) <= nReadPos
  PROVE  LET v == UpTo(vch, nReadPos - Len(s)) \o s \o Unread
         IN /\ v \in Seq(Bytes) /\ Len(v) = Len(vch)
            /\ nReadPos - Len(s) \in 0 .. Len(v)
            /\ Drop(v, nReadPos - Len(s)) = s \o Unread
            /\ UpTo(v, nReadPos - Len(s)) = UpTo(Behind, nReadPos - Len(s))
<1> DEFINE k == nReadPos - Len(s)
           front == UpTo(vch, k)
<1>1. /\ vch \in Seq(Bytes) /\ Len(vch) \in Nat /\ nReadPos \in Nat /\ size \in Nat
      /\ nReadPos + size = Len(vch) /\ Len(s) \in Nat
      /\ Unread \in Seq(Bytes) /\ Len(Unread) = size
  BY UnreadType, LenProperties DEF StreamTypeOK
<1>2. k \in Nat /\ k \in 0 .. Len(vch) /\ k + Len(s) + size = Len(vch)
  BY <1>1
<1>3. front \in Seq(Bytes) /\ Len(front) = k
  BY <1>1, <1>2, TakeProperties
<1> HIDE DEF front, k
<1>4. front \o s \in Seq(Bytes) /\ Len(front \o s) = k + Len(s)
  BY <1>3, ConcatProperties
<1>5. front \o s \o Unread \in Seq(Bytes) /\ Len(front \o s \o Unread) = Len(front \o s) + Len(Unread)
  BY <1>1, <1>4, ConcatProperties
<1>6. /\ Len(front \o s \o Unread) = Len(vch)
      /\ k \in 0 .. Len(front \o s) /\ k \in 0 .. Len(front)
  <2>1. Len(front \o s \o Unread) = k + Len(s) + size
    BY <1>1, <1>4, <1>5
  <2>2. k \in 0 .. k + Len(s) /\ k \in 0 .. k
    BY <1>1, <1>2
  <2> QED
    BY <1>2, <1>3, <1>4, <2>1, <2>2
<1>7. Drop(front \o s \o Unread, k) = Drop(front \o s, k) \o Unread
  BY <1>1, <1>4, <1>6, DropConcat
<1>8. Drop(front \o s, k) = Drop(front, k) \o s
  BY <1>3, <1>6, DropConcat
<1>9. Drop(front, k) = <<>>
  BY <1>3, DropEverything
<1>10. <<>> \o s = s
  BY ConcatEmptySeq
<1>11. UpTo(front \o s \o Unread, k) = UpTo(Behind, k)
  <2>1. UpTo(front \o s \o Unread, k) = UpTo(front \o s, k)
    BY <1>1, <1>4, <1>6, TakeConcat
  <2>2. UpTo(front \o s, k) = UpTo(front, k)
    BY <1>3, <1>6, TakeConcat
  <2>3. k \in 0 .. k /\ k \in 0 .. nReadPos /\ nReadPos \in 0 .. Len(vch)
    BY <1>1, <1>2 DEF k
  <2>4. UpTo(front, k) = UpTo(vch, k) /\ UpTo(Behind, k) = UpTo(vch, k)
    BY <1>1, <1>2, <2>3, TakeTake DEF front, Behind
  <2> QED
    BY <2>1, <2>2, <2>4
<1> QED
  BY <1>2, <1>5, <1>6, <1>7, <1>8, <1>9, <1>10, <1>11 DEF front, k

\* Bytes read earlier stand before those unread.
LEMMA Rewound ==
  ASSUME StreamTypeOK, NEW n \in 0 .. nReadPos
  PROVE  /\ nReadPos - n \in 0 .. Len(vch)
         /\ SubSeq(vch, nReadPos - n + 1, nReadPos) \in [1 .. n -> Bytes]
         /\ Drop(vch, nReadPos - n) = SubSeq(vch, nReadPos - n + 1, nReadPos) \o Unread
         /\ Drop(Behind, nReadPos - n) = SubSeq(vch, nReadPos - n + 1, nReadPos)
         /\ UpTo(Behind, nReadPos - n) = UpTo(vch, nReadPos - n)
<1>1. /\ vch \in Seq(Bytes) /\ Len(vch) \in Nat /\ nReadPos \in Nat /\ nReadPos <= Len(vch)
      /\ n \in Nat /\ n <= nReadPos
  BY UnreadType DEF StreamTypeOK
<1> DEFINE m == nReadPos - n + 1
<1>2. /\ m \in 1 .. Len(vch) + 1 /\ nReadPos \in m - 1 .. Len(vch) /\ Len(vch) \in nReadPos .. Len(vch)
      /\ m - 1 = nReadPos - n /\ m - 1 \in 0 .. Len(vch) /\ n \in 0 .. Len(vch) - (m - 1)
      /\ m - 1 + n = nReadPos
  BY <1>1
<1>3. SubSeq(vch, m, nReadPos) \o SubSeq(vch, nReadPos + 1, Len(vch)) = SubSeq(vch, m, Len(vch))
  <2> HIDE DEF m
  <2> QED
    BY <1>1, <1>2, ConcatAdjacentSubSeq
<1>4. /\ UpTo(Drop(vch, m - 1), n) = SubSeq(vch, m - 1 + 1, m - 1 + n)
      /\ UpTo(Drop(vch, m - 1), n) \in [1 .. n -> Bytes]
  <2> HIDE DEF m
  <2> QED
    BY <1>1, <1>2, TakeDrop
<1>5. m - 1 + 1 = m
  BY <1>1
<1>6. Drop(Behind, m - 1) = UpTo(Drop(vch, m - 1), n)
  <2> HIDE DEF m
  <2> QED
    BY <1>1, <1>2, DropTake DEF Behind
<1>7. nReadPos \in 0 .. Len(vch) /\ m - 1 \in 0 .. nReadPos
  BY <1>1
<1>8. UpTo(Behind, m - 1) = UpTo(vch, m - 1)
  <2> HIDE DEF m
  <2> QED
    BY <1>1, <1>7, TakeTake DEF Behind
<1>9. Drop(Behind, m - 1) = SubSeq(vch, m, nReadPos)
  BY <1>2, <1>4, <1>5, <1>6
<1> QED
  BY <1>2, <1>3, <1>4, <1>5, <1>8, <1>9 DEF Unread, Drop

-----------------------------------------------------------------------------
\* The operators of both modules, and the type of last.
LEMMA SameOperators ==
  /\ \A s, n : Queue!Take(s, n) = UpTo(s, n) /\ Queue!Drop(s, n) = Drop(s, n)
  /\ \A n, c : Queue!Fill(n, c) = Copies(n, c)
  /\ Queue!Chunks = Chunks
  /\ Queue!End = Len(Unread)
  /\ \A n : Queue!Passed(n) = IF n = Len(Unread) THEN <<>> ELSE Behind \o UpTo(Unread, n)
  /\ \A op, n, data, result : Queue!Did(op, n, data, result) <=> Did(op, n, data, result)
BY DEF Queue!Take, Queue!Drop, Queue!Fill, Queue!Chunks, Queue!End, Queue!Did, Queue!Passed,
       UpTo, Drop, Copies, Chunks, Did

LEMMA DidType ==
  ASSUME NEW op \in Operations, NEW n \in Nat, NEW data \in Seq(Bytes),
         NEW result \in {"ok", "refused", "thrown"}, Did(op, n, data, result)
  PROVE  last' \in LastType
BY DEF Did, LastType

\* An edit of the vector behind the position is the same edit of the queue.
LEMMA EditStep ==
  ASSUME StreamTypeOK, NEW s \in Seq(Bytes), NEW i \in 0 .. size, NEW j \in i .. size,
         vch' = Replaced(i, j, s), Len(vch') <= MaxLen, last' \in LastType,
         UNCHANGED <<nReadPos, state, exceptmask>>
  PROVE  StreamTypeOK' /\ Queue!Splice(i, j, s) /\ Behind' = Behind
<1>1. /\ vch' \in Seq(Bytes) /\ nReadPos' \in 0 .. Len(vch')
      /\ Drop(vch', nReadPos') = UpTo(Unread, i) \o s \o Drop(Unread, j)
      /\ UpTo(vch', nReadPos') = Behind
  BY Spliced
<1>2. StreamTypeOK'
  BY <1>1 DEF StreamTypeOK
<1>3. Unread' = UpTo(Unread, i) \o s \o Drop(Unread, j)
  BY <1>1 DEF Unread
<1>4. Behind' = Behind
  BY <1>1 DEF Behind
<1> QED
  BY <1>2, <1>3, <1>4, SameOperators DEF Queue!Splice

\* Moving the position forward takes bytes from the front of the queue.
LEMMA ForwardStep ==
  ASSUME StreamTypeOK, NEW n \in 0 .. size, nReadPos' = nReadPos + n, last' \in LastType,
         UNCHANGED vch, state' \in BOOLEAN, exceptmask' \in BOOLEAN
  PROVE  StreamTypeOK' /\ Unread' = Drop(Unread, n) /\ Behind' = Behind \o UpTo(Unread, n)
<1>1. /\ vch \in Seq(Bytes) /\ Len(vch) \in Nat /\ nReadPos \in 0 .. Len(vch)
      /\ n \in 0 .. Len(vch) - nReadPos /\ nReadPos + n \in 0 .. Len(vch)
  BY UnreadType DEF StreamTypeOK
<1>2. StreamTypeOK'
  BY <1>1 DEF StreamTypeOK
<1>3. Drop(Unread, n) = Drop(vch, nReadPos + n)
  BY <1>1, DropDrop DEF Unread
<1>4. UpTo(vch, nReadPos + n) = Behind \o UpTo(Unread, n)
  BY <1>1, TakeOn DEF Unread, Behind
<1>5. Behind' = UpTo(vch, nReadPos + n)
  BY DEF Behind
<1> QED
  BY <1>2, <1>3, <1>4, <1>5 DEF Unread

\* Clearing the vector empties the queue.
LEMMA EmptyStep ==
  ASSUME StreamTypeOK, vch' = <<>>, nReadPos' = 0, last' \in LastType,
         state' \in BOOLEAN, exceptmask' \in BOOLEAN
  PROVE  StreamTypeOK' /\ Unread' = <<>> /\ Behind' = <<>>
<1>1. <<>> \in Seq(Bytes) /\ Len(<<>>) = 0 /\ MaxLen \in Nat
  BY SizeAssumption, EmptySeq
<1>2. StreamTypeOK'
  BY <1>1 DEF StreamTypeOK
<1>3. Drop(<<>>, 0) = <<>>
  BY <1>1, DropNothing
<1>4. UpTo(<<>>, 0) = <<>>
  BY <1>1, DropEverything
<1> QED
  BY <1>2, <1>3, <1>4 DEF Unread, Behind

\* Splicing out all, or the first bytes, in terms of the queue.
LEMMA SpliceFront ==
  ASSUME StreamTypeOK, NEW j \in 0 .. size
  PROVE  UpTo(Unread, 0) \o <<>> \o Drop(Unread, j) = Drop(Unread, j)
<1>1. Unread \in Seq(Bytes) /\ j \in 0 .. Len(Unread)
  BY UnreadType
<1>2. Drop(Unread, j) \in Seq(Bytes)
  BY <1>1, DropProperties
<1>3. UpTo(Unread, 0) = <<>>
  BY <1>1, DropEverything
<1>4. <<>> \o <<>> = <<>>
  BY EmptySeq, ConcatEmptySeq
<1> QED
  BY <1>2, <1>3, <1>4, ConcatEmptySeq

-----------------------------------------------------------------------------
\* read and ignore: the bytes at the front are consumed, or too few are there.
LEMMA AdvanceStep ==
  ASSUME StreamTypeOK, NEW op \in Operations, NEW n \in 0 .. MaxArg, NEW data \in Seq(Bytes),
         Advance(op, n, data)
  PROVE  /\ StreamTypeOK'
         /\ \/ Queue!Consume(op, n, data)
            \/ Queue!ThrowShort(op, n)
            \/ Queue!DrainShort(op, n, data)
<1> DEFINE next == (nReadPos + n) % Wrap
<1>1. /\ Len(vch) \in Nat /\ nReadPos \in Nat /\ size \in Nat /\ nReadPos + size = Len(vch)
      /\ n \in Nat /\ Unread \in Seq(Bytes) /\ Len(Unread) = size /\ vch \in Seq(Bytes)
      /\ state \in BOOLEAN /\ exceptmask \in BOOLEAN /\ <<>> \in Seq(Bytes)
  BY UnreadType, SizeAssumption, EmptySeq DEF StreamTypeOK
<1>2. next = nReadPos + n
  <2>1. nReadPos + n \in 0 .. Wrap - 1 /\ Wrap \in Nat
    BY <1>1, SizeAssumption DEF StreamTypeOK
  <2> QED
    BY <2>1
<1> HIDE DEF next
<1>3. CASE next > Len(vch) /\ exceptmask
  <2>1. state' = TRUE /\ Did(op, n, <<>>, "thrown") /\ UNCHANGED <<vch, nReadPos, exceptmask>>
    <3>1. ~(next = Len(vch)) /\ ~(next < Len(vch))
      BY <1>1, <1>2, <1>3
    <3> QED
      BY <1>3, <3>1 DEF Advance, next
  <2>2. n > Len(Unread) /\ Unread' = Unread /\ Behind' = Behind
    BY <1>1, <1>2, <1>3, <2>1 DEF Unread, Behind
  <2>3. StreamTypeOK'
    <3>1. last' \in LastType
      BY <1>1, <2>1, DidType
    <3> QED
      BY <2>1, <3>1 DEF StreamTypeOK
  <2>4. Queue!ThrowShort(op, n)
    BY <1>3, <2>1, <2>2, SameOperators DEF Queue!ThrowShort
  <2> QED
    BY <2>3, <2>4
<1>4. CASE next > Len(vch) /\ ~exceptmask
  <2>1. state' = TRUE /\ vch' = <<>> /\ nReadPos' = 0 /\ Did(op, n, data, "ok") /\ UNCHANGED exceptmask
    BY <1>1, <1>2, <1>4 DEF Advance, next
  <2>2. StreamTypeOK' /\ Unread' = <<>> /\ Behind' = <<>>
    <3>1. last' \in LastType
      BY <1>1, <2>1, DidType
    <3> QED
      BY <1>1, <2>1, <3>1, EmptyStep
  <2>3. n > Len(Unread)
    BY <1>1, <1>2, <1>4
  <2>4. Queue!DrainShort(op, n, data)
    BY <1>4, <2>1, <2>2, <2>3, SameOperators DEF Queue!DrainShort
  <2> QED
    BY <2>2, <2>4
<1>5. CASE next = Len(vch)
  <2>1. vch' = <<>> /\ nReadPos' = 0 /\ Did(op, n, data, "ok") /\ UNCHANGED <<state, exceptmask>>
    BY <1>1, <1>2, <1>5 DEF Advance, next
  <2>2. StreamTypeOK' /\ Unread' = <<>> /\ Behind' = <<>>
    <3>1. last' \in LastType
      BY <1>1, <2>1, DidType
    <3> QED
      BY <1>1, <2>1, <3>1, EmptyStep
  <2>3. n = Len(Unread) /\ Drop(Unread, n) = <<>>
    <3>1. n = Len(Unread)
      BY <1>1, <1>2, <1>5
    <3> QED
      BY <1>1, <3>1, DropEverything
  <2>4. n <= Len(Unread)
    BY <1>1, <2>3
  <2>5. Queue!Consume(op, n, data)
    BY <2>1, <2>2, <2>3, <2>4, SameOperators DEF Queue!Consume
  <2> QED
    BY <2>2, <2>5
<1>6. CASE next < Len(vch)
  <2>1. nReadPos' = nReadPos + n /\ Did(op, n, data, "ok") /\ UNCHANGED <<vch, state, exceptmask>>
    BY <1>1, <1>2, <1>6 DEF Advance, next
  <2>2. n \in 0 .. size /\ n <= Len(Unread) /\ n # Len(Unread)
    BY <1>1, <1>2, <1>6
  <2>3. StreamTypeOK' /\ Unread' = Drop(Unread, n) /\ Behind' = Behind \o UpTo(Unread, n)
    <3>1. last' \in LastType
      BY <1>1, <2>1, DidType
    <3> QED
      BY <1>1, <2>1, <2>2, <3>1, ForwardStep
  <2>4. Queue!Consume(op, n, data)
    BY <2>1, <2>2, <2>3, SameOperators DEF Queue!Consume
  <2> QED
    BY <2>3, <2>4
<1>7. next > Len(vch) \/ next = Len(vch) \/ next < Len(vch)
  BY <1>1, <1>2
<1> QED
  BY <1>3, <1>4, <1>5, <1>6, <1>7

LEMMA ReadStep ==
  ASSUME StreamTypeOK, NEW n \in 0 .. MaxArg, read(n)
  PROVE  StreamTypeOK' /\ Queue!QRead(n)
<1> DEFINE m == IF n <= size THEN n ELSE size
           data == UpTo(Unread, m) \o Copies(n - m, 0)
<1>1. /\ n \in Nat /\ size \in Nat /\ Unread \in Seq(Bytes) /\ Len(Unread) = size
      /\ m \in 0 .. size /\ n - m \in Nat /\ 0 \in Bytes
  BY UnreadType, SizeAssumption, ByteAssumption
<1>2. UpTo(Unread, m) \in Seq(Bytes) /\ Copies(n - m, 0) \in Seq(Bytes)
  <2> HIDE DEF m
  <2> QED
    BY <1>1, TakeProperties, FillProperties
<1>3. data \in Seq(Bytes)
  <2> HIDE DEF m
  <2> QED
    BY <1>2, ConcatProperties
<1>4. Advance("read", n, data) /\ "read" \in Operations
  BY DEF read, Operations
<1>5. /\ StreamTypeOK'
      /\ \/ Queue!Consume("read", n, data)
         \/ Queue!ThrowShort("read", n)
         \/ Queue!DrainShort("read", n, data)
  <2> HIDE DEF data
  <2> QED
    BY <1>3, <1>4, AdvanceStep
<1>6. ASSUME n <= size PROVE data = UpTo(Unread, n)
  <2>1. m = n /\ n - m = 0
    BY <1>1, <1>6
  <2>2. Copies(0, 0) = <<>>
    <3>1. Copies(0, 0) \in Seq(Bytes) /\ Len(Copies(0, 0)) = 0
      BY <1>1, FillProperties
    <3> QED
      BY <3>1, EmptySeq
  <2>3. UpTo(Unread, n) \in Seq(Bytes)
    BY <1>2, <2>1
  <2> QED
    BY <2>1, <2>2, <2>3, ConcatEmptySeq
<1>7. ASSUME n > size PROVE data = Unread \o Copies(n - size, 0)
  <2>1. m = size
    BY <1>1, <1>7
  <2> QED
    BY <1>1, <2>1, DropNothing
<1> HIDE DEF data
<1> QED
  BY <1>1, <1>5, <1>6, <1>7, SameOperators
     DEF Queue!QRead, Queue!Consume, Queue!ThrowShort, Queue!DrainShort

LEMMA IgnoreStep ==
  ASSUME StreamTypeOK, NEW n \in 0 .. MaxArg, ignore(n)
  PROVE  StreamTypeOK' /\ Queue!QIgnore(n)
<1>1. <<>> \in Seq(Bytes) /\ "ignore" \in Operations
  BY EmptySeq DEF Operations
<1>2. Advance("ignore", n, <<>>)
  BY DEF ignore
<1> QED
  BY <1>1, <1>2, AdvanceStep DEF Queue!QIgnore

-----------------------------------------------------------------------------
\* write, += and << put bytes behind the last one.
LEMMA AtEndStep ==
  ASSUME StreamTypeOK, NEW op \in Operations, NEW s \in Seq(Bytes), NEW data \in Seq(Bytes),
         AtEnd(op, s, data)
  PROVE  StreamTypeOK' /\ Queue!Splice(Len(Unread), Len(Unread), s) /\ Behind' = Behind
<1>1. /\ vch \in Seq(Bytes) /\ Len(vch) \in Nat /\ Len(s) \in Nat
      /\ size \in Nat /\ nReadPos + size = Len(vch) /\ Len(Unread) = size
  BY UnreadType, LenProperties DEF StreamTypeOK
<1>2. vch' = vch \o s
  BY DEF AtEnd
<1>3. Replaced(size, size, s) = vch \o s
  <2>1. UpTo(vch, Len(vch)) = vch /\ Drop(vch, Len(vch)) = <<>>
    BY <1>1, DropNothing, DropEverything
  <2>2. vch \o s \in Seq(Bytes)
    BY <1>1, ConcatProperties
  <2> QED
    BY <1>1, <2>1, <2>2, ConcatEmptySeq DEF Replaced
<1>4. Len(vch') <= MaxLen
  <2>1. Len(vch \o s) = Len(vch) + Len(s)
    BY <1>1, ConcatProperties
  <2> QED
    BY <1>2, <2>1 DEF AtEnd
<1>5. last' \in LastType
  BY DidType DEF AtEnd
<1>6. size \in 0 .. size /\ size \in size .. size
  BY <1>1
<1>7. UNCHANGED <<nReadPos, state, exceptmask>>
  BY DEF AtEnd
<1> QED
  BY <1>1, <1>2, <1>3, <1>4, <1>5, <1>6, <1>7, EditStep

LEMMA WriteStep ==
  ASSUME StreamTypeOK, NEW s \in Chunks, write(s)
  PROVE  StreamTypeOK' /\ Queue!QWrite(s)
<1>1. s \in Seq(Bytes) /\ "write" \in Operations
  BY ChunkProperties DEF Operations
<1>2. AtEnd("write", s, s)
  BY DEF write
<1>3. StreamTypeOK' /\ Queue!Splice(Len(Unread), Len(Unread), s) /\ Behind' = Behind
  BY <1>1, <1>2, AtEndStep
<1>4. Did("write", 0, s, "ok")
  BY <1>2 DEF AtEnd
<1> QED
  BY <1>3, <1>4, SameOperators DEF Queue!QWrite

\* The unread part of another stream is a vector too.
LEMMA OtherUnread ==
  ASSUME NEW other \in Others
  PROVE  /\ other.vch \in Chunks /\ other.vch \in Seq(Bytes)
         /\ other.nReadPos \in 0 .. Len(other.vch)
         /\ Drop(other.vch, other.nReadPos) \in Chunks
         /\ Drop(other.vch, other.nReadPos) \in Seq(Bytes)
<1>1. /\ other.vch \in Chunks /\ other.nReadPos \in 0 .. MaxArg
      /\ other.nReadPos <= Len(other.vch)
  BY DEF Others, OtherStreams
<1>2. /\ other.vch \in Seq(Bytes) /\ Len(other.vch) <= MaxArg
      /\ Len(other.vch) \in Nat
  BY <1>1, ChunkProperties, LenProperties
<1>3. other.nReadPos \in 0 .. Len(other.vch)
  BY <1>1, <1>2
<1>4. /\ Drop(other.vch, other.nReadPos) \in Seq(Bytes)
      /\ Len(Drop(other.vch, other.nReadPos)) = Len(other.vch) - other.nReadPos
  BY <1>2, <1>3, DropProperties
<1>5. Len(Drop(other.vch, other.nReadPos)) <= MaxArg
  BY <1>2, <1>3, <1>4, SizeAssumption
<1> QED
  BY <1>1, <1>2, <1>3, <1>4, <1>5, ChunkProperties

LEMMA PlusAssignStep ==
  ASSUME StreamTypeOK, NEW other \in Others, PlusAssign(other)
  PROVE  StreamTypeOK' /\ \E s \in Chunks : Queue!QWrite(s)
<1> DEFINE s == Drop(other.vch, other.nReadPos)
<1>1. s \in Seq(Bytes) /\ s \in Chunks /\ "append" \in Operations
  BY OtherUnread DEF Operations
<1>2. AtEnd("append", s, s)
  BY DEF PlusAssign
<1> HIDE DEF s
<1>3. StreamTypeOK' /\ Queue!Splice(Len(Unread), Len(Unread), s) /\ Behind' = Behind
  BY <1>1, <1>2, AtEndStep
<1>4. Did("append", 0, s, "ok")
  BY <1>2 DEF AtEnd
<1>5. Queue!QWrite(s)
  BY <1>3, <1>4, SameOperators DEF Queue!QWrite
<1> QED
  BY <1>1, <1>3, <1>5

LEMMA ShiftStreamStep ==
  ASSUME StreamTypeOK, NEW other \in Others, ShiftStream(other)
  PROVE  StreamTypeOK' /\ (ShiftsReadBytes \/ \E s \in Chunks : Queue!QWrite(s))
<1> DEFINE s == other.vch
           i == other.nReadPos
<1>1. /\ s \in Seq(Bytes) /\ s \in Chunks /\ i \in 0 .. Len(s)
      /\ Drop(s, i) \in Seq(Bytes) /\ "shift" \in Operations
  BY OtherUnread DEF Operations
<1>2. AtEnd("shift", s, Drop(s, i))
  BY DEF ShiftStream
<1> HIDE DEF s, i
<1>3. StreamTypeOK' /\ Queue!Splice(Len(Unread), Len(Unread), s) /\ Behind' = Behind
  BY <1>1, <1>2, AtEndStep
<1>4. CASE i = 0
  <2>1. Drop(s, i) = s
    BY <1>1, <1>4, DropNothing
  <2>2. Did("shift", 0, s, "ok")
    BY <1>2, <2>1 DEF AtEnd
  <2>3. Queue!QWrite(s)
    BY <1>3, <2>2, SameOperators DEF Queue!QWrite
  <2> QED
    BY <1>1, <1>3, <2>3
<1>5. CASE i # 0
  <2>1. i > 0
    BY <1>1, <1>5, LenProperties
  <2>2. ShiftsReadBytes
    BY <2>1 DEF ShiftsReadBytes, i
  <2> QED
    BY <1>3, <2>2
<1> QED
  BY <1>4, <1>5

-----------------------------------------------------------------------------
\* insert, in place or over the bytes read last.
LEMMA InsertVectorStep ==
  ASSUME StreamTypeOK, NEW s \in Seq(Bytes), NEW i \in 0 .. size, InsertVector(i, s),
         Len(vch) + Len(s) <= MaxLen, last' \in LastType, UNCHANGED <<state, exceptmask>>
  PROVE  StreamTypeOK' /\ Queue!Splice(i, i, s) /\ Behind' = Behind
<1>1. vch' = Replaced(i, i, s) /\ UNCHANGED nReadPos
  BY DEF InsertVector, Replaced
<1>2. i \in i .. size /\ Len(vch) \in Nat /\ i - i = 0
  BY UnreadType
<1>3. Len(Replaced(i, i, s)) = Len(vch) + Len(s)
  <2>1. Len(Replaced(i, i, s)) = Len(vch) - (i - i) + Len(s)
    BY <1>2, Spliced
  <2> QED
    BY <1>2, <2>1
<1> QED
  BY <1>1, <1>2, <1>3, EditStep

LEMMA InsertFrontStep ==
  ASSUME StreamTypeOK, NEW s \in Seq(Bytes), Len(s) <= nReadPos,
         nReadPos' = nReadPos - Len(s),
         vch' = UpTo(vch, nReadPos - Len(s)) \o s \o Unread,
         last' \in LastType, UNCHANGED <<state, exceptmask>>
  PROVE  /\ StreamTypeOK' /\ Queue!Splice(0, 0, s)
         /\ Behind' = UpTo(Behind, Len(Behind) - Len(s))
<1>1. /\ vch' \in Seq(Bytes) /\ Len(vch') = Len(vch) /\ nReadPos' \in 0 .. Len(vch')
      /\ Drop(vch', nReadPos') = s \o Unread
      /\ UpTo(vch', nReadPos') = UpTo(Behind, nReadPos - Len(s))
  BY Fronted
<1>2. StreamTypeOK'
  BY <1>1 DEF StreamTypeOK
<1>3. UpTo(Unread, 0) = <<>> /\ Drop(Unread, 0) = Unread /\ <<>> \o s = s
  BY UnreadType, DropNothing, DropEverything, ConcatEmptySeq
<1>4. Unread' = s \o Unread
  BY <1>1 DEF Unread
<1>5. Unread' = Queue!Take(Unread, 0) \o s \o Queue!Drop(Unread, 0)
  BY <1>3, <1>4, SameOperators
<1>6. Behind' = UpTo(Behind, Len(Behind) - Len(s))
  BY <1>1, UnreadType DEF Behind
<1> QED
  BY <1>2, <1>5, <1>6 DEF Queue!Splice

LEMMA InsertStep ==
  ASSUME StreamTypeOK, NEW s \in Chunks, NEW i \in 0 .. size, insert(i, s)
  PROVE  StreamTypeOK' /\ Queue!QInsert(i, s)
<1>1. /\ s \in Seq(Bytes) /\ Did("insert", i, <<>>, "ok") /\ Len(vch) + Len(s) <= MaxLen
      /\ UNCHANGED <<state, exceptmask>>
      /\ InsertVector(i, s) \/ InsertRange(i, s)
  BY ChunkProperties DEF insert
<1>2. last' \in LastType
  <2>1. i \in Nat /\ <<>> \in Seq(Bytes) /\ "insert" \in Operations
    BY UnreadType, EmptySeq DEF Operations
  <2> QED
    BY <1>1, <2>1, DidType
<1>3. CASE InsertVector(i, s)
  BY <1>1, <1>2, <1>3, InsertVectorStep, SameOperators DEF Queue!QInsert
<1>4. CASE ~InsertVector(i, s)
  <2>1. /\ i = 0 /\ Len(s) <= nReadPos /\ nReadPos' = nReadPos - Len(s)
        /\ vch' = UpTo(vch, nReadPos - Len(s)) \o s \o Unread
    BY <1>1, <1>4 DEF InsertRange
  <2>2. /\ StreamTypeOK' /\ Queue!Splice(0, 0, s)
        /\ Behind' = UpTo(Behind, Len(Behind) - Len(s)) /\ Len(s) <= Len(Behind)
    BY <1>1, <1>2, <2>1, InsertFrontStep, UnreadType
  <2> QED
    BY <1>1, <2>1, <2>2, SameOperators DEF Queue!QInsert
<1> QED
  BY <1>3, <1>4

-----------------------------------------------------------------------------
\* erase: out of the middle, or by stepping over the front, or by clearing.
LEMMA EraseSplice ==
  ASSUME StreamTypeOK, NEW i \in 0 .. size, NEW j \in i .. size,
         \/ i = 0 /\ j = size /\ vch' = <<>> /\ nReadPos' = 0
         \/ i = 0 /\ j # size /\ nReadPos' = nReadPos + j /\ UNCHANGED vch
         \/ /\ i # 0 /\ vch' = UpTo(vch, nReadPos + i) \o Drop(vch, nReadPos + j)
            /\ UNCHANGED nReadPos,
         last' \in LastType, UNCHANGED <<state, exceptmask>>
  PROVE  /\ StreamTypeOK' /\ Queue!Splice(i, j, <<>>)
         /\ Behind' = IF i = 0 THEN Queue!Passed(j) ELSE Behind
<1>1. /\ vch \in Seq(Bytes) /\ Len(vch) \in Nat /\ nReadPos \in Nat /\ size \in Nat
      /\ nReadPos + size = Len(vch) /\ i \in Nat /\ j \in Nat /\ i <= j /\ j <= size
      /\ j \in 0 .. size /\ state \in BOOLEAN /\ exceptmask \in BOOLEAN
      /\ Unread \in Seq(Bytes) /\ Len(Unread) = size
  BY UnreadType DEF StreamTypeOK
<1>2. CASE i = 0 /\ j = size /\ vch' = <<>> /\ nReadPos' = 0
  <2>1. StreamTypeOK' /\ Unread' = <<>> /\ Behind' = <<>>
    BY <1>1, <1>2, EmptyStep
  <2>2. UpTo(Unread, i) \o <<>> \o Drop(Unread, j) = <<>>
    BY <1>1, <1>2, SpliceFront, DropEverything
  <2>3. Queue!Passed(j) = <<>>
    BY <1>1, <1>2, SameOperators
  <2> QED
    BY <1>2, <2>1, <2>2, <2>3, SameOperators DEF Queue!Splice
<1>3. CASE i = 0 /\ j # size /\ nReadPos' = nReadPos + j /\ UNCHANGED vch
  <2>1. StreamTypeOK' /\ Unread' = Drop(Unread, j) /\ Behind' = Behind \o UpTo(Unread, j)
    BY <1>1, <1>3, ForwardStep
  <2>2. UpTo(Unread, i) \o <<>> \o Drop(Unread, j) = Drop(Unread, j)
    BY <1>1, <1>3, SpliceFront
  <2>3. Queue!Passed(j) = Behind \o UpTo(Unread, j)
    BY <1>1, <1>3, SameOperators
  <2> QED
    BY <1>3, <2>1, <2>2, <2>3, SameOperators DEF Queue!Splice
<1>4. CASE /\ i # 0 /\ vch' = UpTo(vch, nReadPos + i) \o Drop(vch, nReadPos + j)
           /\ UNCHANGED nReadPos
  <2>1. UpTo(vch, nReadPos + i) \o <<>> = UpTo(vch, nReadPos + i)
    <3>1. nReadPos + i \in 0 .. Len(vch)
      BY <1>1
    <3>2. UpTo(vch, nReadPos + i) \in Seq(Bytes)
      BY <1>1, <3>1, TakeProperties
    <3> QED
      BY <3>2, ConcatEmptySeq
  <2>2. vch' = Replaced(i, j, <<>>) /\ <<>> \in Seq(Bytes) /\ Len(<<>>) = 0
    BY <1>4, <2>1, EmptySeq DEF Replaced
  <2>3. Len(vch') <= MaxLen
    <3>1. Len(Replaced(i, j, <<>>)) = Len(vch) - (j - i) + Len(<<>>)
      BY <2>2, Spliced
    <3> QED
      BY <1>1, <2>2, <3>1, SizeAssumption DEF StreamTypeOK
  <2> QED
    BY <1>4, <2>2, <2>3, EditStep
<1> QED
  BY <1>2, <1>3, <1>4

\* What is erased.
LEMMA Erased ==
  ASSUME StreamTypeOK, NEW i \in 0 .. size, NEW j \in i .. size
  PROVE  SubSeq(Unread, i + 1, j) \in Seq(Bytes) /\ "erase" \in Operations
<1>1. /\ Unread \in Seq(Bytes) /\ Len(Unread) = size /\ size \in Nat /\ i + 1 \in Int /\ j \in Int
      /\ i + 1 .. j \subseteq 1 .. Len(Unread)
  BY UnreadType
<1>2. \A k \in i + 1 .. j : Unread[k] \in Bytes
  BY <1>1, ElementOfSeq
<1> QED
  BY <1>1, <1>2, SubSeqProperties DEF Operations

LEMMA EraseRangeStep ==
  ASSUME StreamTypeOK, NEW i \in 0 .. size, NEW j \in 0 .. size, EraseRange(i, j)
  PROVE  StreamTypeOK' /\ Queue!QErase(i, j)
<1>1. j \in i .. size /\ i <= j /\ i \in Nat
  BY UnreadType DEF EraseRange
<1>2. Did("erase", i, SubSeq(Unread, i + 1, j), "ok") /\ UNCHANGED <<state, exceptmask>>
  BY DEF EraseRange
<1>3. last' \in LastType
  BY <1>1, <1>2, Erased, DidType
<1>4. \/ i = 0 /\ j = size /\ vch' = <<>> /\ nReadPos' = 0
      \/ i = 0 /\ j # size /\ nReadPos' = nReadPos + j /\ UNCHANGED vch
      \/ /\ i # 0 /\ vch' = UpTo(vch, nReadPos + i) \o Drop(vch, nReadPos + j)
         /\ UNCHANGED nReadPos
  BY DEF EraseRange
<1>5. /\ StreamTypeOK' /\ Queue!Splice(i, j, <<>>)
      /\ Behind' = IF i = 0 THEN Queue!Passed(j) ELSE Behind
  BY <1>1, <1>2, <1>3, <1>4, EraseSplice
<1> QED
  BY <1>1, <1>2, <1>5, SameOperators DEF Queue!QErase

LEMMA EraseOneStep ==
  ASSUME StreamTypeOK, NEW i \in 0 .. size, EraseOne(i)
  PROVE  StreamTypeOK' /\ \E j \in 0 .. size : Queue!QErase(i, j)
<1>1. /\ i \in Nat /\ size \in Nat /\ nReadPos \in Nat /\ Len(vch) \in Nat
      /\ nReadPos + size = Len(vch) /\ Unread \in Seq(Bytes) /\ Len(Unread) = size
  BY UnreadType
<1>2. i + 1 \in i .. size /\ i + 1 \in 0 .. size /\ i <= i + 1 /\ i + 1 \in 1 .. Len(Unread)
  BY <1>1 DEF EraseOne
<1>3. SubSeq(Unread, i + 1, i + 1) = <<Unread[i + 1]>>
  <2> DEFINE k == i + 1
  <2>1. k \in 1 .. Len(Unread) /\ k \in k .. Len(Unread) /\ k \in Int /\ k + 1 \in Int /\ k < k + 1
    BY <1>1, <1>2
  <2> HIDE DEF k
  <2>2. SubSeq(Unread, k, k) = <<Unread[k]>> \o SubSeq(Unread, k + 1, k)
    BY <1>1, <2>1, SubSeqRecursiveFirst
  <2>3. SubSeq(Unread, k + 1, k) = <<>>
    BY <2>1, SubSeqEmpty
  <2>4. <<Unread[k]>> \in Seq(Bytes)
    BY <1>1, <2>1, ElementOfSeq
  <2>5. SubSeq(Unread, k, k) = <<Unread[k]>>
    BY <2>2, <2>3, <2>4, ConcatEmptySeq
  <2> QED
    BY <2>5 DEF k
<1>4. Did("erase", i, SubSeq(Unread, i + 1, i + 1), "ok") /\ UNCHANGED <<state, exceptmask>>
  BY <1>3 DEF EraseOne
<1>5. last' \in LastType
  BY <1>1, <1>2, <1>4, Erased, DidType
<1>6. \/ i = 0 /\ i + 1 = size /\ vch' = <<>> /\ nReadPos' = 0
      \/ i = 0 /\ i + 1 # size /\ nReadPos' = nReadPos + (i + 1) /\ UNCHANGED vch
      \/ /\ i # 0 /\ vch' = UpTo(vch, nReadPos + i) \o Drop(vch, nReadPos + (i + 1))
         /\ UNCHANGED nReadPos
  <2>1. nReadPos + i + 1 = nReadPos + (i + 1)
    BY <1>1
  <2>2. CASE i = 0 /\ nReadPos + 1 >= Len(vch)
    <3>1. i + 1 = size
      BY <1>1, <1>2, <2>2
    <3> QED
      BY <2>2, <3>1 DEF EraseOne
  <2>3. CASE i = 0 /\ ~(nReadPos + 1 >= Len(vch))
    <3>1. i + 1 # size /\ i + 1 = 1
      BY <1>1, <2>3
    <3> QED
      BY <2>3, <3>1 DEF EraseOne
  <2>4. CASE i # 0
    BY <2>1, <2>4 DEF EraseOne
  <2> QED
    BY <2>2, <2>3, <2>4
<1>7. /\ StreamTypeOK' /\ Queue!Splice(i, i + 1, <<>>)
      /\ Behind' = IF i = 0 THEN Queue!Passed(i + 1) ELSE Behind
  BY <1>2, <1>4, <1>5, <1>6, EraseSplice
<1>8. Queue!QErase(i, i + 1)
  BY <1>2, <1>4, <1>7, SameOperators DEF Queue!QErase
<1> QED
  BY <1>2, <1>7, <1>8

-----------------------------------------------------------------------------
\* resize cuts the end off, or fills it up.
LEMMA ResizeStep ==
  ASSUME StreamTypeOK, NEW n \in 0 .. MaxArg, NEW c \in Bytes, resize(n, c)
  PROVE  StreamTypeOK' /\ Queue!QResize(n, c)
<1>1. /\ vch \in Seq(Bytes) /\ Len(vch) \in Nat /\ nReadPos \in Nat /\ size \in Nat
      /\ nReadPos + size = Len(vch) /\ n \in Nat /\ nReadPos + n <= MaxLen
      /\ Unread \in Seq(Bytes) /\ Len(Unread) = size /\ MaxLen \in Nat /\ Len(vch) <= MaxLen
      /\ <<>> \in Seq(Bytes) /\ Len(<<>>) = 0
  BY UnreadType, SizeAssumption, EmptySeq DEF StreamTypeOK, resize
<1>2. Did("resize", n, <<>>, "ok") /\ UNCHANGED <<nReadPos, state, exceptmask>>
  BY DEF resize
<1>3. last' \in LastType
  <2>1. "resize" \in Operations
    BY DEF Operations
  <2> QED
    BY <1>1, <1>2, <2>1, DidType
<1>4. Drop(vch, nReadPos + size) = <<>> /\ UpTo(vch, nReadPos + size) = vch
  BY <1>1, DropNothing, DropEverything
<1>5. CASE n <= size
  <2>1. n \in 0 .. size /\ size \in n .. size /\ nReadPos + n \in 0 .. Len(vch)
    BY <1>1, <1>5
  <2>2. UpTo(vch, nReadPos + n) \in Seq(Bytes) /\ Len(UpTo(vch, nReadPos + n)) = nReadPos + n
    BY <1>1, <2>1, TakeProperties
  <2>3. vch' = UpTo(vch, nReadPos + n)
    BY <1>5 DEF resize
  <2>4. vch' = Replaced(n, size, <<>>) /\ Len(vch') <= MaxLen
    BY <1>1, <1>4, <2>2, <2>3, ConcatEmptySeq DEF Replaced
  <2>5. StreamTypeOK' /\ Queue!Splice(n, size, <<>>) /\ Behind' = Behind
    BY <1>1, <1>2, <1>3, <2>1, <2>4, EditStep
  <2> QED
    BY <1>1, <1>2, <1>5, <2>5, SameOperators DEF Queue!QResize
<1>6. CASE ~(n <= size)
  <2> DEFINE s == Copies(n - size, c)
  <2>1. s \in Seq(Bytes) /\ Len(s) = n - size /\ size \in 0 .. size /\ size \in size .. size
    <3>1. n - size \in Nat /\ size \in 0 .. size
      BY <1>1, <1>6
    <3> QED
      BY <3>1, FillProperties
  <2>2. vch' = vch \o s
    BY <1>6 DEF resize
  <2> HIDE DEF s
  <2>3. vch \o s \in Seq(Bytes) /\ Len(vch \o s) = Len(vch) + Len(s)
    BY <1>1, <2>1, ConcatProperties
  <2>4. Len(vch') <= MaxLen
    BY <1>1, <2>1, <2>2, <2>3
  <2>5. vch' = Replaced(size, size, s)
    BY <1>4, <2>2, <2>3, ConcatEmptySeq DEF Replaced
  <2>6. StreamTypeOK' /\ Queue!Splice(size, size, s) /\ Behind' = Behind
    BY <1>2, <1>3, <2>1, <2>4, <2>5, EditStep
  <2> QED
    BY <1>1, <1>2, <1>6, <2>6, SameOperators DEF Queue!QResize, s
<1> QED
  BY <1>5, <1>6

-----------------------------------------------------------------------------
\* clear and GetAndClear.
LEMMA ClearStep ==
  ASSUME StreamTypeOK, clear \/ GetAndClear
  PROVE  StreamTypeOK' /\ (Queue!QClear \/ Queue!QGetAndClear)
<1>1. /\ vch' = <<>> /\ nReadPos' = 0 /\ UNCHANGED <<state, exceptmask>>
      /\ Did("clear", 0, <<>>, "ok") \/ Did("take", 0, Unread, "ok")
  BY DEF clear, GetAndClear
<1>2. /\ Unread \in Seq(Bytes) /\ Len(Unread) = size /\ size \in 0 .. size /\ 0 \in Nat
      /\ <<>> \in Seq(Bytes) /\ "clear" \in Operations /\ "take" \in Operations
      /\ state \in BOOLEAN /\ exceptmask \in BOOLEAN
  BY UnreadType, EmptySeq DEF Operations, StreamTypeOK
<1>3. last' \in LastType
  BY <1>1, <1>2, DidType
<1>4. StreamTypeOK' /\ Unread' = <<>> /\ Behind' = <<>>
  BY <1>1, <1>2, <1>3, EmptyStep
<1>5. UpTo(Unread, 0) \o <<>> \o Drop(Unread, size) = <<>>
  BY <1>2, SpliceFront, DropEverything
<1>6. Queue!Splice(0, Queue!End, <<>>)
  BY <1>1, <1>2, <1>4, <1>5, SameOperators DEF Queue!Splice
<1> QED
  BY <1>1, <1>4, <1>6, SameOperators DEF Queue!QClear, Queue!QGetAndClear

\* Compact throws away what has been read.
LEMMA CompactStep ==
  ASSUME StreamTypeOK, Compact
  PROVE  StreamTypeOK' /\ Queue!QCompact
<1>1. /\ vch' = Unread /\ nReadPos' = 0 /\ UNCHANGED <<state, exceptmask>>
      /\ Did("compact", 0, <<>>, "ok")
  BY DEF Compact
<1>2. /\ Unread \in Seq(Bytes) /\ Len(Unread) \in Nat /\ 0 \in Nat
      /\ <<>> \in Seq(Bytes) /\ "compact" \in Operations
  BY UnreadType, EmptySeq DEF Operations
<1>3. last' \in LastType
  BY <1>1, <1>2, DidType
<1>4. Len(Unread) <= MaxLen
  BY UnreadType, SizeAssumption DEF StreamTypeOK
<1>5. StreamTypeOK'
  BY <1>1, <1>2, <1>3, <1>4 DEF StreamTypeOK
<1>6. Drop(Unread, 0) = Unread
  BY <1>2, DropNothing
<1>7. Unread' = Unread
  BY <1>1, <1>6 DEF Unread
<1>8. Behind' = <<>>
  <2>1. UpTo(Unread, 0) = <<>>
    BY <1>2, DropEverything
  <2> QED
    BY <1>1, <2>1 DEF Behind
<1> QED
  BY <1>1, <1>5, <1>7, <1>8, SameOperators DEF Queue!QCompact

\* Rewind goes back over what was read, or not at all.
LEMMA RewindStep ==
  ASSUME StreamTypeOK, NEW n \in 0 .. MaxArg, Rewind(n)
  PROVE  StreamTypeOK' /\ Queue!QRewind(n)
<1>1. /\ UNCHANGED <<vch, state, exceptmask>> /\ nReadPos \in Nat /\ n \in Nat
      /\ <<>> \in Seq(Bytes) /\ "rewind" \in Operations
      /\ vch \in Seq(Bytes) /\ Len(vch) \in Nat /\ Len(Behind) = nReadPos
  BY UnreadType, SizeAssumption, EmptySeq DEF Rewind, StreamTypeOK, Operations
<1>2. CASE n > nReadPos
  <2>1. Did("rewind", n, <<>>, "refused") /\ UNCHANGED nReadPos
    BY <1>2 DEF Rewind
  <2>2. last' \in LastType
    BY <1>1, <2>1, DidType
  <2>3. StreamTypeOK' /\ Unread' = Unread /\ Behind' = Behind
    BY <1>1, <2>1, <2>2 DEF StreamTypeOK, Unread, Behind
  <2>4. Len(Behind) - n < 0
    BY <1>1, <1>2
  <2>5. Queue!QRewind(n)
    BY <1>1, <2>1, <2>3, <2>4, SameOperators DEF Queue!QRewind
  <2> QED
    BY <2>3, <2>5
<1>3. CASE ~(n > nReadPos)
  <2> DEFINE s == SubSeq(vch, nReadPos - n + 1, nReadPos)
             kept == Len(Behind) - n
  <2>1. Did("rewind", n, <<>>, "ok") /\ nReadPos' = nReadPos - n
    BY <1>3 DEF Rewind
  <2>2. last' \in LastType
    BY <1>1, <2>1, DidType
  <2>3. n \in 0 .. nReadPos
    BY <1>1, <1>3
  <2>4. /\ nReadPos - n \in 0 .. Len(vch) /\ s \in [1 .. n -> Bytes]
        /\ Drop(vch, nReadPos - n) = s \o Unread
        /\ Drop(Behind, nReadPos - n) = s
        /\ UpTo(Behind, nReadPos - n) = UpTo(vch, nReadPos - n)
    BY <2>3, Rewound
  <2>5. kept = nReadPos - n /\ kept >= 0
    BY <1>1, <2>3
  <2> HIDE DEF s, kept
  <2>6. StreamTypeOK' /\ Unread' = Drop(Behind, kept) \o Unread
    BY <1>1, <2>1, <2>2, <2>4, <2>5 DEF StreamTypeOK, Unread
  <2>7. Behind' = UpTo(Behind, kept)
    BY <1>1, <2>1, <2>4, <2>5 DEF Behind
  <2>8. Queue!QRewind(n)
    BY <1>1, <2>1, <2>5, <2>6, <2>7, SameOperators DEF Queue!QRewind, kept
  <2> QED
    BY <2>6, <2>8
<1> QED
  BY <1>2, <1>3

\* The failure state and the mask do not touch the bytes.
LEMMA StateStep ==
  ASSUME StreamTypeOK, NEW bit \in BOOLEAN, ClearState(bit) \/ exceptions(bit)
  PROVE  StreamTypeOK' /\ (Queue!QClearState(bit) \/ Queue!QExceptions(bit))
<1> DEFINE result == IF state /\ bit THEN "thrown" ELSE "ok"
<1>1. /\ <<>> \in Seq(Bytes) /\ "clearstate" \in Operations /\ "exceptions" \in Operations
      /\ 0 \in Nat /\ result \in {"ok", "refused", "thrown"} /\ UNCHANGED <<vch, nReadPos>>
  BY EmptySeq DEF Operations, ClearState, exceptions
<1>2. Unread' = Unread /\ Behind' = Behind
  BY <1>1 DEF Unread, Behind
<1>3. CASE ClearState(bit)
  <2>1. state' = bit /\ Did("clearstate", 0, <<>>, "ok") /\ UNCHANGED exceptmask
    BY <1>3 DEF ClearState
  <2>2. last' \in LastType
    BY <1>1, <2>1, DidType
  <2>3. StreamTypeOK'
    BY <1>1, <2>1, <2>2 DEF StreamTypeOK
  <2> QED
    BY <1>2, <2>1, <2>3, SameOperators DEF Queue!QClearState
<1>4. CASE exceptions(bit)
  <2>1. exceptmask' = bit /\ Did("exceptions", 0, <<>>, result) /\ UNCHANGED state
    BY <1>4 DEF exceptions
  <2>2. last' \in LastType
    <3> HIDE DEF result
    <3> QED
      BY <1>1, <2>1, DidType
  <2>3. StreamTypeOK'
    BY <1>1, <2>1, <2>2 DEF StreamTypeOK
  <2> QED
    BY <1>2, <2>1, <2>3, SameOperators DEF Queue!QExceptions
<1> QED
  BY <1>3, <1>4

-----------------------------------------------------------------------------
(***************************************************************************)
(* The refinement: a CDataStream is a queue, except where << brings bytes  *)
(* that were read from the other stream.                                   *)
(***************************************************************************)
LEMMA QueueInit == StreamInit => StreamTypeOK /\ Queue!QInit
<1> SUFFICES ASSUME StreamInit PROVE StreamTypeOK /\ Queue!QInit
  OBVIOUS
<1>1. /\ vch \in Chunks /\ vch \in Seq(Bytes) /\ Len(vch) \in Nat /\ Len(vch) <= MaxArg
      /\ <<>> \in Seq(Bytes) /\ nReadPos = 0
  BY ChunkProperties, LenProperties, EmptySeq DEF StreamInit
<1>2. StreamTypeOK
  <2>1. last \in LastType
    BY <1>1 DEF LastType, Operations, StreamInit
  <2>2. Len(vch) <= MaxLen /\ nReadPos \in 0 .. Len(vch)
    BY <1>1, SizeAssumption
  <2> QED
    BY <1>1, <2>1, <2>2 DEF StreamTypeOK, StreamInit
<1>3. Unread = vch /\ Behind = <<>>
  BY <1>1, DropNothing, DropEverything DEF Unread, Behind
<1> QED
  BY <1>1, <1>2, <1>3, SameOperators DEF StreamInit, Queue!QInit

LEMMA QueueStep ==
  StreamTypeOK /\ StreamNext => StreamTypeOK' /\ (Queue!QNext \/ ShiftsReadBytes)
<1> SUFFICES ASSUME StreamTypeOK, StreamNext
             PROVE  StreamTypeOK' /\ (Queue!QNext \/ ShiftsReadBytes)
  OBVIOUS
<1>0. Queue!Chunks = Chunks /\ Queue!End = size
  BY UnreadType, SameOperators
<1>1. ASSUME NEW n \in 0 .. MaxArg, read(n) \/ ignore(n)
      PROVE  StreamTypeOK' /\ Queue!QNext
  BY <1>1, ReadStep, IgnoreStep DEF Queue!QNext
<1>2. ASSUME NEW n \in 0 .. MaxArg, Rewind(n)
      PROVE  StreamTypeOK' /\ Queue!QNext
  BY <1>2, RewindStep DEF Queue!QNext
<1>3. ASSUME NEW s \in Chunks, write(s)
      PROVE  StreamTypeOK' /\ Queue!QNext
  BY <1>0, <1>3, WriteStep DEF Queue!QNext
<1>4. ASSUME NEW other \in Others, PlusAssign(other) \/ ShiftStream(other)
      PROVE  StreamTypeOK' /\ (Queue!QNext \/ ShiftsReadBytes)
  BY <1>0, <1>4, PlusAssignStep, ShiftStreamStep DEF Queue!QNext
<1>5. ASSUME NEW s \in Chunks, NEW i \in 0 .. size, insert(i, s)
      PROVE  StreamTypeOK' /\ Queue!QNext
  BY <1>0, <1>5, InsertStep DEF Queue!QNext
<1>6. ASSUME NEW i \in 0 .. size, EraseOne(i)
      PROVE  StreamTypeOK' /\ Queue!QNext
  BY <1>0, <1>6, EraseOneStep DEF Queue!QNext
<1>7. ASSUME NEW i \in 0 .. size, NEW j \in 0 .. size, EraseRange(i, j)
      PROVE  StreamTypeOK' /\ Queue!QNext
  BY <1>0, <1>7, EraseRangeStep DEF Queue!QNext
<1>8. ASSUME NEW n \in 0 .. MaxArg, NEW c \in Bytes, resize(n, c)
      PROVE  StreamTypeOK' /\ Queue!QNext
  BY <1>8, ResizeStep DEF Queue!QNext
<1>9. CASE clear \/ GetAndClear
  BY <1>9, ClearStep DEF Queue!QNext
<1>10. CASE Compact
  BY <1>10, CompactStep DEF Queue!QNext
<1>11. ASSUME NEW bit \in BOOLEAN, ClearState(bit) \/ exceptions(bit)
       PROVE  StreamTypeOK' /\ Queue!QNext
  BY <1>11, StateStep DEF Queue!QNext
<1> QED
  BY <1>1, <1>2, <1>3, <1>4, <1>5, <1>6, <1>7, <1>8, <1>9, <1>10, <1>11 DEF StreamNext

\* What every step keeps and maps to.
LEMMA QueueStepOrStutter ==
  StreamTypeOK /\ [StreamNext]_streamVars
    => StreamTypeOK' /\ [Queue!QNext \/ ShiftsReadBytes]_(Queue!qvars)
<1> SUFFICES ASSUME StreamTypeOK, [StreamNext]_streamVars
             PROVE  StreamTypeOK' /\ (Queue!QNext \/ ShiftsReadBytes \/ UNCHANGED Queue!qvars)
  OBVIOUS
<1>1. CASE StreamNext
  BY <1>1, QueueStep
<1>2. CASE UNCHANGED streamVars
  BY <1>2 DEF streamVars, StreamTypeOK, Queue!qvars, Unread, Behind
<1> QED
  BY <1>1, <1>2

\* The position of a CDataStream stays within its vector and every variable
\* keeps its type, for every alphabet and every size.
THEOREM TypeCorrect == StreamSpec => []StreamTypeOK
<1> QED
  BY QueueInit, QueueStepOrStutter, PTL DEF StreamSpec

\* A CDataStream is a queue of bytes, for every alphabet and every size below
\* 2 GB: reading to the end, inserting over the bytes already read and erasing at
\* the front show only in what a rewind may bring back, and << of a stream that
\* has been read from is the one operation that is not of the queue.
THEOREM Refinement == StreamSpec => IsQueue
<1> QED
  BY QueueInit, QueueStepOrStutter, TypeCorrect, PTL DEF StreamSpec, IsQueue

-----------------------------------------------------------------------------
(***************************************************************************)
(* Rewind and read.  As long as bytes are unread, those a read delivered   *)
(* are still in front of the position.                                     *)
(***************************************************************************)
ReadBefore ==
  last.op = "read" /\ last.result = "ok" /\ Unread # <<>>
    => /\ last.n \in 0 .. nReadPos
       /\ last.data = SubSeq(vch, nReadPos - last.n + 1, nReadPos)

LEMMA ReadLeavesBytes ==
  ASSUME StreamTypeOK, NEW n \in 0 .. MaxArg, read(n)
  PROVE  ReadBefore'
<1> DEFINE m == IF n <= size THEN n ELSE size
           data == UpTo(Unread, m) \o Copies(n - m, 0)
           next == (nReadPos + n) % Wrap
<1>1. /\ Len(vch) \in Nat /\ nReadPos \in Nat /\ size \in Nat /\ nReadPos + size = Len(vch)
      /\ n \in Nat /\ Unread \in Seq(Bytes) /\ Len(Unread) = size /\ vch \in Seq(Bytes)
      /\ nReadPos \in 0 .. Len(vch) /\ 0 \in Bytes
  BY UnreadType, SizeAssumption, ByteAssumption DEF StreamTypeOK
<1>2. next = nReadPos + n
  <2>1. nReadPos + n \in 0 .. Wrap - 1 /\ Wrap \in Nat
    BY <1>1, SizeAssumption DEF StreamTypeOK
  <2> QED
    BY <2>1
<1>3. Advance("read", n, data)
  BY DEF read
<1> HIDE DEF next, data
<1>4. CASE next > Len(vch) /\ exceptmask
  <2>1. ~(next = Len(vch)) /\ ~(next < Len(vch))
    BY <1>1, <1>2, <1>4
  <2>2. Did("read", n, <<>>, "thrown")
    BY <1>3, <1>4, <2>1 DEF Advance, next
  <2>3. last'.result = "thrown"
    BY <2>2 DEF Did
  <2> QED
    BY <2>3 DEF ReadBefore
<1>5. CASE next = Len(vch) \/ (next > Len(vch) /\ ~exceptmask)
  <2>1. vch' = <<>> /\ nReadPos' = 0
    BY <1>1, <1>2, <1>3, <1>5 DEF Advance, next
  <2>2. Drop(<<>>, 0) = <<>>
    BY EmptySeq, DropNothing
  <2>3. Unread' = <<>>
    BY <2>1, <2>2 DEF Unread
  <2> QED
    BY <2>3 DEF ReadBefore
<1>6. CASE next < Len(vch)
  <2>1. nReadPos' = nReadPos + n /\ vch' = vch /\ last'.n = n /\ last'.data = data
    BY <1>1, <1>2, <1>3, <1>6 DEF Advance, next, Did
  <2>2. n \in 0 .. Len(vch) - nReadPos /\ m = n /\ n - m = 0 /\ n \in 0 .. Len(Unread)
        /\ n \in 0 .. nReadPos + n /\ nReadPos + n - n + 1 = nReadPos + 1
    BY <1>1, <1>2, <1>6
  <2>3. UpTo(Unread, n) = SubSeq(vch, nReadPos + 1, nReadPos + n)
    BY <1>1, <2>2, TakeDrop DEF Unread
  <2>4. data = UpTo(Unread, n)
    <3>1. Copies(0, 0) = <<>>
      <4>1. Copies(0, 0) \in Seq(Bytes) /\ Len(Copies(0, 0)) = 0
        BY <1>1, FillProperties
      <4> QED
        BY <4>1, EmptySeq
    <3>2. UpTo(Unread, n) \in Seq(Bytes)
      BY <1>1, <2>2, TakeProperties
    <3>3. data = UpTo(Unread, n) \o Copies(0, 0)
      BY <2>2 DEF data
    <3> QED
      BY <3>1, <3>2, <3>3, ConcatEmptySeq
  <2>5. last'.n \in 0 .. nReadPos' /\ nReadPos' - last'.n + 1 = nReadPos + 1
    BY <1>1, <2>1, <2>2
  <2>6. last'.data = SubSeq(vch', nReadPos' - last'.n + 1, nReadPos')
    BY <2>1, <2>3, <2>4, <2>5
  <2> QED
    BY <2>5, <2>6 DEF ReadBefore
<1>7. next > Len(vch) \/ next = Len(vch) \/ next < Len(vch)
  BY <1>1, <1>2
<1> QED
  BY <1>4, <1>5, <1>6, <1>7

\* Only read is recorded as "read", and only Rewind as "rewind".
Recorded ==
  /\ last'.op = "read" => \E n \in 0 .. MaxArg : read(n)
  /\ last'.op = "rewind" => \E n \in 0 .. MaxArg : Rewind(n)

LEMMA RecordedAs == StreamNext => Recorded
<1> SUFFICES ASSUME StreamNext PROVE Recorded
  OBVIOUS
<1>1. ASSUME NEW n \in 0 .. MaxArg, read(n) PROVE Recorded
  <2>1. last'.op = "read"
    BY <1>1 DEF read, Advance, Did
  <2> QED
    BY <1>1, <2>1 DEF Recorded
<1>2. ASSUME NEW n \in 0 .. MaxArg, Rewind(n) PROVE Recorded
  <2>1. last'.op = "rewind"
    BY <1>2 DEF Rewind, Did
  <2> QED
    BY <1>2, <2>1 DEF Recorded
<1>3. ASSUME NEW n \in 0 .. MaxArg, ignore(n) PROVE Recorded
  BY <1>3 DEF ignore, Advance, Did, Recorded
<1>4. ASSUME NEW s \in Chunks, write(s) PROVE Recorded
  BY <1>4 DEF write, AtEnd, Did, Recorded
<1>5. ASSUME NEW other \in Others, PlusAssign(other) \/ ShiftStream(other) PROVE Recorded
  BY <1>5 DEF PlusAssign, ShiftStream, AtEnd, Did, Recorded
<1>6. ASSUME NEW s \in Chunks, NEW i \in 0 .. size, insert(i, s) PROVE Recorded
  BY <1>6 DEF insert, Did, Recorded
<1>7. ASSUME NEW i \in 0 .. size, EraseOne(i) PROVE Recorded
  BY <1>7 DEF EraseOne, Did, Recorded
<1>8. ASSUME NEW i \in 0 .. size, NEW j \in 0 .. size, EraseRange(i, j) PROVE Recorded
  BY <1>8 DEF EraseRange, Did, Recorded
<1>9. ASSUME NEW n \in 0 .. MaxArg, NEW c \in Bytes, resize(n, c) PROVE Recorded
  BY <1>9 DEF resize, Did, Recorded
<1>10. CASE clear \/ GetAndClear \/ Compact
  BY <1>10 DEF clear, GetAndClear, Compact, Did, Recorded
<1>11. ASSUME NEW bit \in BOOLEAN, ClearState(bit) \/ exceptions(bit) PROVE Recorded
  BY <1>11 DEF ClearState, exceptions, Did, Recorded
<1> QED
  BY <1>1, <1>2, <1>3, <1>4, <1>5, <1>6, <1>7, <1>8, <1>9, <1>10, <1>11 DEF StreamNext

LEMMA ReadBeforeInit == StreamInit => ReadBefore
BY DEF StreamInit, ReadBefore

LEMMA ReadBeforeStep == StreamTypeOK /\ ReadBefore /\ [StreamNext]_streamVars => ReadBefore'
<1> SUFFICES ASSUME StreamTypeOK, ReadBefore, [StreamNext]_streamVars PROVE ReadBefore'
  OBVIOUS
<1>1. CASE StreamNext
  <2>1. CASE last'.op = "read"
    BY <1>1, <2>1, RecordedAs, ReadLeavesBytes DEF Recorded
  <2>2. CASE last'.op # "read"
    BY <2>2 DEF ReadBefore
  <2> QED
    BY <2>1, <2>2
<1>2. CASE UNCHANGED streamVars
  BY <1>2 DEF streamVars, ReadBefore, Unread
<1> QED
  BY <1>1, <1>2

UndoneByRewind ==
  /\ last.op = "read" /\ last.result = "ok" /\ Unread # <<>>
  /\ last'.op = "rewind" /\ last'.n = last.n
  => last'.result = "ok" /\ Unread' = last.data \o Unread

LEMMA RewindGivesBack ==
  StreamTypeOK /\ ReadBefore /\ [StreamNext]_streamVars => [UndoneByRewind]_streamVars
<1> SUFFICES ASSUME StreamTypeOK, ReadBefore, StreamNext,
                    last.op = "read", last.result = "ok", Unread # <<>>,
                    last'.op = "rewind", last'.n = last.n
             PROVE  last'.result = "ok" /\ Unread' = last.data \o Unread
  BY DEF UndoneByRewind
<1>1. PICK n \in 0 .. MaxArg : Rewind(n)
  BY RecordedAs DEF Recorded
<1>2. last'.n = n
  BY <1>1 DEF Rewind, Did
<1>3. n \in 0 .. nReadPos /\ last.data = SubSeq(vch, nReadPos - n + 1, nReadPos)
  BY <1>2 DEF ReadBefore
<1>4. ~(n > nReadPos)
  BY <1>3, UnreadType
<1>5. last'.result = "ok" /\ nReadPos' = nReadPos - n /\ vch' = vch
  BY <1>1, <1>4 DEF Rewind, Did
<1>6. Drop(vch, nReadPos - n) = last.data \o Unread
  BY <1>3, Rewound
<1> QED
  BY <1>5, <1>6 DEF Unread

\* Rewind brings back exactly the bytes that the read before it delivered,
\* whatever the contents and the sizes, unless that read emptied the stream.
THEOREM RewindAlwaysUndoesRead == StreamSpec => RewindUndoesRead
<1>1. StreamSpec => []ReadBefore
  BY TypeCorrect, ReadBeforeInit, ReadBeforeStep, PTL DEF StreamSpec
<1>2. [][UndoneByRewind]_streamVars => RewindUndoesRead
  BY DEF UndoneByRewind, RewindUndoesRead
<1> QED
  BY <1>1, <1>2, TypeCorrect, RewindGivesBack, PTL DEF StreamSpec
=============================================================================
