----------------------------- MODULE DataStream -----------------------------
(***************************************************************************)
(* CDataStream (src/src/bitcoin/serialize.h:806-1098): a vector whose      *)
(* first nReadPos bytes have been read already.  Reading to the end clears *)
(* the vector, inserting at the front may reuse the bytes already read,    *)
(* and Rewind brings them back.                                            *)
(*                                                                         *)
(* The program sets no state bit but failbit, so state and exceptmask are  *)
(* one boolean each.  Positions passed as iterators are offsets from       *)
(* begin().  A second stream, appended or serialized into this one, is a   *)
(* record of its own vch and nReadPos.                                     *)
(***************************************************************************)
EXTENDS Integers, Sequences

CONSTANTS Bytes,    \* the values of a char; zero is one of them
          MaxArg,   \* bound on lengths and counts passed to an operation
          MaxLen,   \* bound on the bytes in the vector
          Wrap      \* 2^32: unsigned int arithmetic is modulo Wrap

ASSUME ByteAssumption == 0 \in Bytes
ASSUME SizeAssumption ==
  /\ MaxArg \in Nat /\ MaxLen \in Nat /\ Wrap \in Nat
  /\ MaxArg <= MaxLen
  /\ MaxLen + MaxArg < Wrap   \* less than 2 GB, so nReadPos + nSize is exact

VARIABLES vch, nReadPos,
          state,        \* the failbit of state
          exceptmask,   \* the failbit of exceptmask
          last          \* the operation just done and what it returned

streamVars == <<vch, nReadPos, state, exceptmask, last>>

Chunks == UNION {[1 .. n -> Bytes] : n \in 0 .. MaxArg}

\* Any other stream: one that may have been read from.
OtherStreams == {[vch |-> s, nReadPos |-> p] : s \in Chunks, p \in 0 .. MaxArg}
Others == {o \in OtherStreams : o.nReadPos <= Len(o.vch)}

UpTo(s, n) == SubSeq(s, 1, n)
Drop(s, n) == SubSeq(s, n + 1, Len(s))
Copies(n, c) == [i \in 1 .. n |-> c]

Unread == Drop(vch, nReadPos)
Behind == UpTo(vch, nReadPos)
size == Len(vch) - nReadPos

Did(op, n, data, result) ==
  last' = [op |-> op, n |-> n, data |-> data, result |-> result]

StreamInit ==
  /\ vch \in Chunks
  /\ nReadPos = 0
  /\ state = FALSE
  /\ exceptmask = TRUE
  /\ last = [op |-> "new", n |-> 0, data |-> <<>>, result |-> "ok"]

-----------------------------------------------------------------------------
\* read and ignore move on by n bytes; data is what read copied to pch.  The
\* exception of setstate leaves before anything is consumed.
Advance(op, n, data) ==
  LET next == (nReadPos + n) % Wrap IN
  \/ /\ next > Len(vch)
     /\ exceptmask
     /\ state' = TRUE
     /\ Did(op, n, <<>>, "thrown")
     /\ UNCHANGED <<vch, nReadPos, exceptmask>>
  \/ /\ next > Len(vch)
     /\ ~exceptmask
     /\ state' = TRUE
     /\ vch' = <<>> /\ nReadPos' = 0
     /\ Did(op, n, data, "ok")
     /\ UNCHANGED exceptmask
  \/ /\ next = Len(vch)
     /\ vch' = <<>> /\ nReadPos' = 0
     /\ Did(op, n, data, "ok")
     /\ UNCHANGED <<state, exceptmask>>
  \/ /\ next < Len(vch)
     /\ nReadPos' = next
     /\ Did(op, n, data, "ok")
     /\ UNCHANGED <<vch, state, exceptmask>>

\* The buffer pch is zero-filled before a short copy.
read(n) ==
  LET nSize == IF n <= size THEN n ELSE size
  IN Advance("read", n, UpTo(Unread, nSize) \o Copies(n - nSize, 0))

ignore(n) == Advance("ignore", n, <<>>)

\* Bytes s go to the end of the vector; data is the argument as its user sees it.
AtEnd(op, s, data) ==
  /\ Len(vch) + Len(s) <= MaxLen
  /\ vch' = vch \o s
  /\ Did(op, 0, data, "ok")
  /\ UNCHANGED <<nReadPos, state, exceptmask>>

write(s) == AtEnd("write", s, s)

\* operator+=: the unread part of the other stream.
PlusAssign(other) ==
  LET unread == Drop(other.vch, other.nReadPos) IN AtEnd("append", unread, unread)

\* operator<< with a stream: CDataStream::Serialize writes &vch[0], vch.size().
ShiftStream(other) ==
  AtEnd("shift", other.vch, Drop(other.vch, other.nReadPos))

\* insert(it, x) and insert(it, n, x): the vector's own insert.
InsertVector(i, s) ==
  /\ vch' = UpTo(vch, nReadPos + i) \o s \o Drop(vch, nReadPos + i)
  /\ UNCHANGED nReadPos

\* Slip: there is room, but the insertion is not at the front.
InsertRangeAnywhere(i, s) ==
  IF Len(s) <= nReadPos
    THEN /\ nReadPos' = nReadPos - Len(s)
         /\ vch' = UpTo(vch, nReadPos - Len(s)) \o s \o Unread
    ELSE InsertVector(i, s)

\* insert(it, first, last) overwrites bytes already read when it inserts at
\* the front and they are enough.
InsertRange(i, s) ==
  IF i = 0 /\ Len(s) <= nReadPos
    THEN /\ nReadPos' = nReadPos - Len(s)
         /\ vch' = UpTo(vch, nReadPos - Len(s)) \o s \o Unread
    ELSE InsertVector(i, s)

insert(i, s) ==
  /\ i <= size
  /\ Len(vch) + Len(s) <= MaxLen
  /\ InsertVector(i, s) \/ InsertRange(i, s)
  /\ Did("insert", i, <<>>, "ok")
  /\ UNCHANGED <<state, exceptmask>>

\* erase(it): at the front it only steps over the byte, and clears at the end.
EraseOne(i) ==
  /\ i < size
  /\ IF i = 0
       THEN IF nReadPos + 1 >= Len(vch)
              THEN vch' = <<>> /\ nReadPos' = 0
              ELSE nReadPos' = nReadPos + 1 /\ UNCHANGED vch
       ELSE /\ vch' = UpTo(vch, nReadPos + i) \o Drop(vch, nReadPos + i + 1)
            /\ UNCHANGED nReadPos
  /\ Did("erase", i, <<Unread[i + 1]>>, "ok")
  /\ UNCHANGED <<state, exceptmask>>

\* erase(first, last)
EraseRange(i, j) ==
  /\ i <= j /\ j <= size
  /\ IF i = 0
       THEN IF j = size
              THEN vch' = <<>> /\ nReadPos' = 0
              ELSE nReadPos' = nReadPos + j /\ UNCHANGED vch
       ELSE /\ vch' = UpTo(vch, nReadPos + i) \o Drop(vch, nReadPos + j)
            /\ UNCHANGED nReadPos
  /\ Did("erase", i, SubSeq(Unread, i + 1, j), "ok")
  /\ UNCHANGED <<state, exceptmask>>

resize(n, c) ==
  /\ nReadPos + n <= MaxLen
  /\ vch' = IF n <= size THEN UpTo(vch, nReadPos + n)
                         ELSE vch \o Copies(n - size, c)
  /\ Did("resize", n, <<>>, "ok")
  /\ UNCHANGED <<nReadPos, state, exceptmask>>

\* Slip: the vector is cleared and the position stays.
ClearKeepsPosition ==
  /\ vch' = <<>>
  /\ Did("clear", 0, <<>>, "ok")
  /\ UNCHANGED <<nReadPos, state, exceptmask>>

clear ==
  /\ vch' = <<>> /\ nReadPos' = 0
  /\ Did("clear", 0, <<>>, "ok")
  /\ UNCHANGED <<state, exceptmask>>

\* The bytes move into the caller's CSerializeData.
GetAndClear ==
  /\ vch' = <<>> /\ nReadPos' = 0
  /\ Did("take", 0, Unread, "ok")
  /\ UNCHANGED <<state, exceptmask>>

Compact ==
  /\ vch' = Unread /\ nReadPos' = 0
  /\ Did("compact", 0, <<>>, "ok")
  /\ UNCHANGED <<state, exceptmask>>

\* Slip: ">=" refuses to go back to the first byte.
RewindTooStrict(n) ==
  /\ IF n >= nReadPos
       THEN Did("rewind", n, <<>>, "refused") /\ UNCHANGED nReadPos
       ELSE Did("rewind", n, <<>>, "ok") /\ nReadPos' = nReadPos - n
  /\ UNCHANGED <<vch, state, exceptmask>>

Rewind(n) ==
  /\ IF n > nReadPos
       THEN Did("rewind", n, <<>>, "refused") /\ UNCHANGED nReadPos
       ELSE Did("rewind", n, <<>>, "ok") /\ nReadPos' = nReadPos - n
  /\ UNCHANGED <<vch, state, exceptmask>>

\* clear(short n): sets the state without looking at the mask.
ClearState(bit) ==
  /\ state' = bit
  /\ Did("clearstate", 0, <<>>, "ok")
  /\ UNCHANGED <<vch, nReadPos, exceptmask>>

\* exceptions(short mask): throws at once if a masked bit is already set.
exceptions(bit) ==
  /\ exceptmask' = bit
  /\ Did("exceptions", 0, <<>>, IF state /\ bit THEN "thrown" ELSE "ok")
  /\ UNCHANGED <<vch, nReadPos, state>>

StreamNext ==
  \/ \E n \in 0 .. MaxArg : read(n) \/ ignore(n) \/ Rewind(n)
  \/ \E s \in Chunks : write(s)
  \/ \E other \in Others : PlusAssign(other) \/ ShiftStream(other)
  \/ \E s \in Chunks \ {<<>>}, i \in 0 .. size : insert(i, s)
  \/ \E i \in 0 .. size : EraseOne(i) \/ \E j \in 0 .. size : EraseRange(i, j)
  \/ \E n \in 0 .. MaxArg, c \in Bytes : resize(n, c)
  \/ clear \/ GetAndClear \/ Compact
  \/ \E bit \in BOOLEAN : ClearState(bit) \/ exceptions(bit)

StreamSpec == StreamInit /\ [][StreamNext]_streamVars

-----------------------------------------------------------------------------
\* What is remembered of the operation just done.
Operations ==
  {"new", "read", "ignore", "write", "append", "shift", "insert", "erase",
   "resize", "clear", "take", "compact", "rewind", "clearstate", "exceptions"}
LastType == [op : Operations, n : Nat, data : Seq(Bytes),
             result : {"ok", "refused", "thrown"}]

\* Every variable keeps its type, and the position stays within the vector.
StreamTypeOK ==
  /\ vch \in Seq(Bytes) /\ Len(vch) <= MaxLen
  /\ nReadPos \in 0 .. Len(vch)
  /\ state \in BOOLEAN
  /\ exceptmask \in BOOLEAN
  /\ last \in LastType

\* A stream is a queue: whatever mix of reads, rewinds, edits and clears has
\* moved nReadPos, an operation delivers and removes exactly the bytes it names,
\* a read that throws consumes nothing, and a rewind brings back exactly the
\* bytes that left the queue last, read or erased, or is refused.  The one step
\* that is not of the queue is << with a stream that has been read from.
Queue == INSTANCE ByteQueue
           WITH unread <- Unread, behind <- Behind,
                failed <- state, throwing <- exceptmask
ShiftsReadBytes == \E other \in Others : other.nReadPos > 0 /\ ShiftStream(other)
IsQueue == Queue!QInit /\ [][Queue!QNext \/ ShiftsReadBytes]_(Queue!qvars)

\* "stream << stream concatenates like stream += stream" (serialize.h:1066): what
\* << adds to this stream is what the other stream has left to read.
ShiftConcatenates ==
  [][last'.op = "shift" => Unread' = Unread \o last'.data]_streamVars

\* Rewind is the inverse of read as long as the read did not reach the end, at
\* which the buffer is cleared: the bytes that come back are those read.
RewindUndoesRead ==
  [][/\ last.op = "read" /\ last.result = "ok" /\ Unread # <<>>
     /\ last'.op = "rewind" /\ last'.n = last.n
     => last'.result = "ok" /\ Unread' = last.data \o Unread]_streamVars
=============================================================================
