----------------------------- MODULE ByteQueue -----------------------------
(***************************************************************************)
(* What a CDataStream (serialize.h) promises to its user: a queue of bytes *)
(* that are written at the end and read from the front, with the editing   *)
(* operations of a vector, and a failure flag.  There is no buffer and no  *)
(* read position.  The bytes that left the queue at the front since it was *)
(* last empty stay behind it, and a rewind brings the latest of them back. *)
(***************************************************************************)
EXTENDS Integers, Sequences

CONSTANTS Bytes,      \* the values of a char; zero is one of them
          MaxArg      \* bound on lengths and counts passed to an operation

Chunks == UNION {[1 .. n -> Bytes] : n \in 0 .. MaxArg}

VARIABLES unread,     \* bytes not read yet
          behind,     \* bytes that a rewind can bring back, the latest at the end
          failed,     \* state has the failbit
          throwing,   \* exceptmask has the failbit
          last        \* the operation just done and what it returned

qvars == <<unread, behind, failed, throwing, last>>

Take(s, n) == SubSeq(s, 1, n)
Drop(s, n) == SubSeq(s, n + 1, Len(s))
Fill(n, c) == [i \in 1 .. n |-> c]

Did(op, n, data, result) ==
  last' = [op |-> op, n |-> n, data |-> data, result |-> result]

QInit == /\ unread \in Chunks
         /\ behind = <<>>
         /\ failed = FALSE
         /\ throwing = TRUE
         /\ last = [op |-> "new", n |-> 0, data |-> <<>>, result |-> "ok"]

End == Len(unread)

\* What is behind the queue once its first n bytes have left it, however they
\* did: all of them can come back until the queue is empty.
Passed(n) == IF n = End THEN <<>> ELSE behind \o Take(unread, n)

\* Exactly the first n bytes are consumed.
Consume(op, n, data) ==
  /\ n <= End
  /\ Did(op, n, data, "ok")
  /\ unread' = Drop(unread, n)
  /\ behind' = Passed(n)
  /\ UNCHANGED <<failed, throwing>>

\* Asking for more than there is, with exceptions: nothing is consumed.
ThrowShort(op, n) ==
  /\ n > End
  /\ throwing
  /\ failed' = TRUE
  /\ Did(op, n, <<>>, "thrown")
  /\ UNCHANGED <<unread, behind, throwing>>

\* The same without exceptions: everything is consumed.
DrainShort(op, n, data) ==
  /\ n > End
  /\ ~throwing
  /\ failed' = TRUE
  /\ unread' = <<>> /\ behind' = <<>>
  /\ Did(op, n, data, "ok")
  /\ UNCHANGED throwing

QRead(n) ==
  \/ Consume("read", n, Take(unread, n))
  \/ ThrowShort("read", n)
  \/ DrainShort("read", n, unread \o Fill(n - End, 0))

QIgnore(n) ==
  \/ Consume("ignore", n, <<>>)
  \/ ThrowShort("ignore", n)
  \/ DrainShort("ignore", n, <<>>)

\* Bytes i+1 .. j of the queue are replaced by s.
Splice(i, j, s) ==
  /\ unread' = Take(unread, i) \o s \o Drop(unread, j)
  /\ UNCHANGED <<failed, throwing>>

\* A write, or the unread bytes of another stream, added with += or with <<.
QWrite(s) ==
  /\ \E op \in {"write", "append", "shift"} : Did(op, 0, s, "ok")
  /\ Splice(End, End, s)
  /\ UNCHANGED behind

\* An insertion at the front may take the place of the bytes that left last.
QInsert(i, s) ==
  /\ Did("insert", i, <<>>, "ok")
  /\ Splice(i, i, s)
  /\ \/ UNCHANGED behind
     \/ /\ i = 0 /\ Len(s) <= Len(behind)
        /\ behind' = Take(behind, Len(behind) - Len(s))

\* What was at place i is gone, and nothing else.  At the front it only leaves
\* the queue, and a rewind brings it back like what was read.
QErase(i, j) ==
  /\ i <= j
  /\ Did("erase", i, SubSeq(unread, i + 1, j), "ok")
  /\ Splice(i, j, <<>>)
  /\ behind' = IF i = 0 THEN Passed(j) ELSE behind

QResize(n, c) ==
  /\ Did("resize", n, <<>>, "ok")
  /\ IF n <= End THEN Splice(n, End, <<>>) ELSE Splice(End, End, Fill(n - End, c))
  /\ UNCHANGED behind

QClear == Splice(0, End, <<>>) /\ behind' = <<>> /\ Did("clear", 0, <<>>, "ok")
QGetAndClear == Splice(0, End, <<>>) /\ behind' = <<>> /\ Did("take", 0, unread, "ok")

\* The n bytes that left last come back; if there are fewer, none does.
QRewind(n) ==
  /\ LET kept == Len(behind) - n IN
     \/ /\ kept >= 0
        /\ Did("rewind", n, <<>>, "ok")
        /\ unread' = Drop(behind, kept) \o unread
        /\ behind' = Take(behind, kept)
     \/ /\ kept < 0
        /\ Did("rewind", n, <<>>, "refused")
        /\ UNCHANGED <<unread, behind>>
  /\ UNCHANGED <<failed, throwing>>

QCompact ==
  /\ Did("compact", 0, <<>>, "ok")
  /\ behind' = <<>>
  /\ UNCHANGED <<unread, failed, throwing>>

QClearState(bit) ==
  /\ failed' = bit
  /\ Did("clearstate", 0, <<>>, "ok")
  /\ UNCHANGED <<unread, behind, throwing>>

QExceptions(bit) ==
  /\ throwing' = bit
  /\ Did("exceptions", 0, <<>>, IF failed /\ bit THEN "thrown" ELSE "ok")
  /\ UNCHANGED <<unread, behind, failed>>

QNext ==
  \/ \E n \in 0 .. MaxArg : QRead(n) \/ QIgnore(n) \/ QRewind(n)
  \/ \E s \in Chunks : QWrite(s) \/ \E i \in 0 .. End : QInsert(i, s)
  \/ \E i, j \in 0 .. End : QErase(i, j)
  \/ \E n \in 0 .. MaxArg, c \in Bytes : QResize(n, c)
  \/ QClear \/ QGetAndClear \/ QCompact
  \/ \E bit \in BOOLEAN : QClearState(bit) \/ QExceptions(bit)

QSpec == QInit /\ [][QNext]_qvars
=============================================================================
