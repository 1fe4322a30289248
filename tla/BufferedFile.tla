---------------------------- MODULE BufferedFile ----------------------------
(***************************************************************************)
(* CBufferedFile (src/src/bitcoin/serialize.h:1224-1366): a ring buffer    *)
(* between a FILE* and a deserializer, which may go back in what was read. *)
(* read and FindByte are loops that call Fill and end with an exception    *)
(* when the file does; every iteration is one step.                        *)
(***************************************************************************)
EXTENDS Integers, Sequences

CONSTANTS File,          \* the bytes of the source file
          Configs,       \* <<nBufSize, nRewindIn>> given to the constructor
          Sizes,         \* arguments of read
          Targets,       \* arguments of SetPos
          SeekTargets,   \* arguments of Seek
          Limits,        \* arguments of SetLimit; NoLimit is (uint64_t)(-1)
          Chars,         \* arguments of FindByte
          ShortReads,    \* may fread fail after some of the bytes?
          NoLimit

Positions == 0 .. Len(File)

ASSUME FileAssumption == File \in Seq(Nat)
ASSUME ConfigAssumption ==
  \A c \in Configs : c \in Nat \X Nat /\ c[2] < c[1]   \* nRewind < nBufSize
ASSUME ArgumentAssumption ==
  /\ Sizes \subseteq Nat
  /\ Targets \subseteq Nat
  /\ SeekTargets \subseteq Nat
  /\ Limits \subseteq Nat
  /\ Chars \subseteq Nat
  /\ ShortReads \in BOOLEAN
ASSUME NoLimitAssumption ==
  NoLimit \in Nat /\ \A p \in Limits \cup Positions : p < NoLimit

VARIABLES vchBuf,       \* the ring, indexed from 0
          BufSize,      \* vchBuf.size()
          nRewind,
          nSrcPos,      \* bytes read from the file, and where the FILE* is
          nReadPos, nReadLimit,
          failed,       \* the failbit
          pc,           \* "idle", or the loop under way
          left,         \* read: bytes still to copy (nSize)
          wanted,       \* FindByte: ch
          start,        \* nReadPos when the call began
          got,          \* read: bytes copied to pch so far
          result,       \* what the last call returned
          base,         \* where the last Seek went
          reached       \* the furthest nReadPos since then

pos == <<nSrcPos, nReadPos, nReadLimit>>
call == <<pc, left, wanted, start, got, result>>
bufferVars == <<vchBuf, BufSize, nRewind, pos, failed, call, base, reached>>

MinOf(i, j) == IF i < j THEN i ELSE j
MaxOf(i, j) == IF i > j THEN i ELSE j
Cell(p) == vchBuf[p % BufSize]
ByteAt(p) == File[p + 1]

BufferInit ==
  /\ \E c \in Configs : BufSize = c[1] /\ nRewind = c[2]
  /\ vchBuf = [i \in 0 .. BufSize - 1 |-> 0]
  /\ nSrcPos = 0 /\ nReadPos = 0 /\ nReadLimit = NoLimit
  /\ failed = FALSE
  /\ pc = "idle" /\ left = 0 /\ wanted = 0 /\ start = 0 /\ got = <<>>
  /\ result = "none"
  /\ base = 0 /\ reached = 0

-----------------------------------------------------------------------------
Return(r) == pc' = "idle" /\ result' = r
MoveTo(p) == nReadPos' = p /\ reached' = MaxOf(reached, p)

\* Slip: Fill leaves no bytes for a rewind.
FillsTheRing == MinOf(BufSize - (nSrcPos % BufSize), BufSize - (nSrcPos - nReadPos))

\* Fill: fread up to the end of the ring and to nRewind bytes before the byte
\* read next.  fread returns fewer bytes at the end of the file, or on an
\* error; with none, setstate throws.
readNow ==
  MinOf(BufSize - (nSrcPos % BufSize),
        BufSize - (nSrcPos - nReadPos) - nRewind)

FreadResults ==
  LET available == MaxOf(0, MinOf(readNow, Len(File) - nSrcPos))
  IN IF ShortReads THEN 0 .. available ELSE {available}

FillBytes(n) ==
  /\ vchBuf' = [i \in 0 .. BufSize - 1 |->
       LET k == i - (nSrcPos % BufSize)
       IN IF k \in 0 .. n - 1 THEN ByteAt(nSrcPos + k) ELSE vchBuf[i]]
  /\ nSrcPos' = nSrcPos + n

\* Slip: the end of the file is not turned into an exception.
FillSilently ==
  /\ pc \in {"read", "find"}
  /\ pc = "read" => left > 0
  /\ nReadPos = nSrcPos
  /\ \E n \in FreadResults :
       IF n = 0 THEN UNCHANGED <<vchBuf, nSrcPos>> ELSE FillBytes(n)
  /\ UNCHANGED <<BufSize, nRewind, nReadPos, nReadLimit, failed, call, base, reached>>

\* The loop, whichever it is, needs a byte that is not in the buffer.
Fill ==
  /\ pc \in {"read", "find"}
  /\ pc = "read" => left > 0
  /\ nReadPos = nSrcPos
  /\ \E n \in FreadResults :
       IF n = 0
         THEN /\ failed' = TRUE
              /\ Return("thrown")
              /\ UNCHANGED <<vchBuf, nSrcPos>>
         ELSE FillBytes(n) /\ UNCHANGED <<failed, pc, result>>
  /\ UNCHANGED <<BufSize, nRewind, nReadPos, nReadLimit, left, wanted, start, got, base, reached>>

\* read(pch, nSize): the two checks on entry.
ReadBytes(n) ==
  /\ pc = "idle"
  /\ start' = nReadPos /\ got' = <<>>
  /\ IF n + nReadPos > nReadLimit \/ n + nRewind > BufSize
       THEN Return("thrown") /\ UNCHANGED left
       ELSE pc' = "read" /\ left' = n /\ result' = "none"
  /\ UNCHANGED <<vchBuf, BufSize, nRewind, pos, failed, wanted, base, reached>>

\* Slip: the copy runs past the bytes Fill has read.
CopyPastSource ==
  /\ pc = "read" /\ left > 0 /\ nReadPos # nSrcPos
  /\ LET nNow == MinOf(left, BufSize - (nReadPos % BufSize))
     IN /\ got' = got \o [i \in 1 .. nNow |-> vchBuf[(nReadPos % BufSize) + i - 1]]
        /\ MoveTo(nReadPos + nNow)
        /\ left' = left - nNow
  /\ UNCHANGED <<vchBuf, BufSize, nRewind, nSrcPos, nReadLimit, failed, pc,
                 wanted, start, result, base>>

\* One iteration of read: copy what the ring holds in one piece.
Copy ==
  /\ pc = "read" /\ left > 0 /\ nReadPos # nSrcPos
  /\ LET nNow == MinOf(MinOf(left, BufSize - (nReadPos % BufSize)),
                       nSrcPos - nReadPos)
     IN /\ got' = got \o [i \in 1 .. nNow |-> vchBuf[(nReadPos % BufSize) + i - 1]]
        /\ MoveTo(nReadPos + nNow)
        /\ left' = left - nNow
  /\ UNCHANGED <<vchBuf, BufSize, nRewind, nSrcPos, nReadLimit, failed, pc,
                 wanted, start, result, base>>

ReadReturns ==
  /\ pc = "read" /\ left = 0
  /\ Return("ok")
  /\ UNCHANGED <<vchBuf, BufSize, nRewind, pos, failed, left, wanted, start,
                 got, base, reached>>

FindByte(ch) ==
  /\ pc = "idle"
  /\ pc' = "find" /\ wanted' = ch /\ start' = nReadPos /\ got' = <<>>
  /\ result' = "none"
  /\ UNCHANGED <<vchBuf, BufSize, nRewind, pos, failed, left, base, reached>>

\* Slip: the byte is compared before the buffer is filled.
FindLookUnfilled ==
  /\ pc = "find"
  /\ IF Cell(nReadPos) = wanted
       THEN Return("ok") /\ UNCHANGED <<nReadPos, reached>>
       ELSE /\ nReadPos # nSrcPos
            /\ MoveTo(nReadPos + 1)
            /\ UNCHANGED <<pc, result>>
  /\ UNCHANGED <<vchBuf, BufSize, nRewind, nSrcPos, nReadLimit, failed, left,
                 wanted, start, got, base>>

\* One iteration of FindByte: stay on the byte or step over it.
FindLook ==
  /\ pc = "find" /\ nReadPos # nSrcPos
  /\ IF Cell(nReadPos) = wanted
       THEN Return("ok") /\ UNCHANGED <<nReadPos, reached>>
       ELSE MoveTo(nReadPos + 1) /\ UNCHANGED <<pc, result>>
  /\ UNCHANGED <<vchBuf, BufSize, nRewind, nSrcPos, nReadLimit, failed, left,
                 wanted, start, got, base>>

\* Fields of a call that SetPos, Seek and SetLimit do not use.
Call(r) ==
  /\ pc = "idle" /\ pc' = "idle"
  /\ result' = r
  /\ start' = nReadPos /\ got' = <<>>
  /\ UNCHANGED <<vchBuf, BufSize, nRewind, left, wanted>>

\* Slip: a position the source has not reached is accepted.
SetPosAhead(nPos) ==
  /\ IF nPos + nRewind < nSrcPos
       THEN MoveTo(nSrcPos - nRewind) /\ Call("false")
       ELSE MoveTo(nPos) /\ Call("true")
  /\ UNCHANGED <<nSrcPos, nReadLimit, failed, base>>

SetPos(nPos) ==
  /\ IF nPos + nRewind < nSrcPos
       THEN MoveTo(nSrcPos - nRewind) /\ Call("false")
     ELSE IF nPos > nSrcPos
       THEN MoveTo(nSrcPos) /\ Call("false")
     ELSE MoveTo(nPos) /\ Call("true")
  /\ UNCHANGED <<nSrcPos, nReadLimit, failed, base>>

\* fseek and ftell on a regular file, which may go past its end.
Seek(nPos) ==
  /\ Call("true")
  /\ nSrcPos' = nPos
  /\ nReadPos' = nPos
  /\ failed' = FALSE
  /\ base' = nPos /\ reached' = nPos
  /\ UNCHANGED nReadLimit

SetLimit(nPos) ==
  /\ IF nPos < nReadPos
       THEN UNCHANGED nReadLimit /\ Call("false")
       ELSE nReadLimit' = nPos /\ Call("true")
  /\ UNCHANGED <<nSrcPos, nReadPos, failed, base, reached>>

LoopStep == Fill \/ Copy \/ ReadReturns \/ FindLook

BufferNext ==
  \/ \E n \in Sizes : ReadBytes(n)
  \/ \E ch \in Chars : FindByte(ch)
  \/ \E p \in Targets : SetPos(p)
  \/ \E p \in SeekTargets : Seek(p)
  \/ \E p \in Limits \cup {NoLimit} : SetLimit(p)
  \/ LoopStep

BufferSpec == BufferInit /\ [][BufferNext]_bufferVars

\* A call that has begun runs: nothing in it waits for anybody.
FairSpec == BufferSpec /\ WF_bufferVars(LoopStep)

-----------------------------------------------------------------------------
\* Every variable keeps its type, and the reader never overtakes the source.
BufferTypeOK ==
  /\ BufSize \in Nat /\ nRewind \in Nat /\ nRewind < BufSize
  /\ vchBuf \in [0 .. BufSize - 1 -> Nat]
  /\ nSrcPos \in Nat
  /\ nReadPos \in 0 .. nSrcPos
  /\ nReadLimit \in Nat
  /\ failed \in BOOLEAN
  /\ pc \in {"idle", "read", "find"}
  /\ left \in Nat /\ wanted \in Nat /\ start \in Nat
  /\ base \in Nat /\ reached \in Nat
  /\ got \in Seq(Nat)
  /\ result \in {"none", "ok", "thrown", "true", "false"}

\* The positions the ring must hold: everything from nRewind bytes before the
\* furthest point the reader has been at up to the source position.
Window == {p \in base .. nSrcPos - 1 : p + nRewind >= reached}

\* The ring never overwrites a byte it may still be asked for: Fill keeps what
\* the rewind guarantee needs of what was read since the last Seek.
RingHoldsWindow == \A p \in Window : Cell(p) = ByteAt(p)

\* From the target of the last Seek on, read delivers the bytes of the file from
\* where it began, in order and without a gap, across refills, wraps of the ring,
\* rewinds and exceptions.  Of the positions before that target, to which SetPos
\* goes back as well, it says nothing.
ReadsTheFile ==
  pc = "read" \/ got # <<>>
    => /\ Len(got) = nReadPos - start
       /\ \A i \in 1 .. Len(got) :
            start + i - 1 >= base => got[i] = ByteAt(start + i - 1)

\* From the target of the last Seek on, FindByte stops on the first occurrence of
\* the byte at or after its start.
FindsFirst ==
  [][pc = "find" /\ result' = "ok"
     => /\ nReadPos >= base => nReadPos < Len(File) /\ ByteAt(nReadPos) = wanted
        /\ \A p \in MaxOf(start, base) .. nReadPos - 1 : ByteAt(p) # wanted]_bufferVars

\* serialize.h:1313, "rewind to a given reading position": wherever SetPos has
\* gone, the bytes read next are those the file has there.
RewoundReadsTheFile ==
  \A i \in 1 .. Len(got) : got[i] = ByteAt(start + i - 1)

\* read and FindByte end, by success or by the exception at the end of the
\* file: every iteration of the loops makes progress.
CallEnds == pc # "idle" ~> pc = "idle"

\* serialize.h:1225, "guarantees the ability to rewind a given number of bytes"
\* (nRewind: "how many bytes we guarantee to rewind").
RewindGuaranteed ==
  [][\A p \in Targets :
       SetPos(p) /\ nReadPos - nRewind <= p /\ p <= nReadPos
       => result' = "true"]_bufferVars
=============================================================================
