--------------------------- MODULE Serialization ---------------------------
(***************************************************************************)
(* A CAutoFile (src/src/bitcoin/serialize.h) through which values of every *)
(* format of module Encoding are written to a file and read back into the  *)
(* variables of its user.  A file can be full, a file can hold any bytes,  *)
(* and the file the object owns can be exchanged, released or closed.      *)
(***************************************************************************)
EXTENDS Encoding
LOCAL INSTANCE SequencesExt

CONSTANTS Handle,      \* FILE handles
          Standard,    \* those of them that are stdin, stdout and stderr
          NULL,        \* no handle
          Kind,        \* the types of values
          Values       \* of each type, the values that are written

\* What is written: of strings, vectors and sizes those that may be read.
IsString(v) == v \in Seq(Byte) /\ Len(v) <= MAX_SIZE
IsPair(p) == p \in Byte \X Seq(Byte) /\ IsString(p[2])
IsValue(kind, v) ==
  CASE kind = "compact" -> v \in 0 .. MAX_SIZE
    [] kind = "varint"  -> v \in 0 .. VarIntModulus - 1
    [] kind \in {"string", "vector"} -> IsString(v)
    [] kind = "pair"    -> IsPair(v)
    [] kind = "pairs"   -> v \in Seq(Byte \X Seq(Byte)) /\ Len(v) <= MAX_SIZE /\ \A i \in DOMAIN v : IsPair(v[i])
    [] kind = "map"     -> DOMAIN v \subseteq Byte /\ v \in [DOMAIN v -> Seq(Byte)] /\ \A k \in DOMAIN v : IsString(v[k])
    [] kind = "set"     -> v \subseteq Byte

ASSUME SerializationAssumption ==
  /\ Standard \subseteq Handle /\ NULL \notin Handle
  /\ Kind \subseteq {"compact", "varint", "string", "vector", "pair", "pairs", "map", "set"}
  /\ \A kind \in Kind : \A v \in Values[kind] : IsValue(kind, v)
  /\ Radix <= MAX_SIZE /\ MAX_SIZE < Power(Radix, 8)

VARIABLES file,      \* the handle the CAutoFile holds
          state,     \* failbit
          open,      \* handles that nobody has closed
          content,   \* of each handle, the bytes between the position and the end
          pending,   \* of each handle, the values these bytes are, or Unknown
          target,    \* of each type, the variable read into
          last       \* what the last operation was

vars == <<file, state, open, content, pending, target, last>>

Unknown == "unknown"
Old(kind) == IF kind \in {"compact", "varint"} THEN 0
             ELSE IF kind = "pair" THEN NoPair
             ELSE IF kind = "set" THEN {} ELSE <<>>

Init ==
  /\ file \in Handle \cup {NULL} /\ state = FALSE
  /\ open = Handle
  /\ content = [h \in Handle |-> <<>>] /\ pending = [h \in Handle |-> <<>>]
  /\ target = [k \in Kind |-> Old(k)]
  /\ last = [op |-> "none"]

Serialize(kind, v) ==
  CASE kind = "compact" -> WriteCompactSize(v)
    [] kind = "varint"  -> WriteVarInt(v)
    [] kind \in {"string", "vector"} -> WriteBytes(v)
    [] kind = "pair"    -> WritePair(v)
    [] kind = "pairs"   -> WriteElements(v)
    [] kind = "map"     -> WriteMap(v)
    [] kind = "set"     -> WriteSet(v)

BytesSize(v) == GetSizeOfCompactSize(Len(v)) + Len(v)
PairSize(p) == 1 + BytesSize(p[2])
ElementsSize(v) ==
  LET size[i \in 0 .. Len(v)] ==
        IF i = 0 THEN GetSizeOfCompactSize(Len(v)) ELSE size[i - 1] + PairSize(v[i])
  IN size[Len(v)]
GetSerializeSize(kind, v) ==
  CASE kind = "compact" -> GetSizeOfCompactSize(v)
    [] kind = "varint"  -> GetSizeOfVarInt(v)
    [] kind \in {"string", "vector"} -> BytesSize(v)
    [] kind = "pair"    -> PairSize(v)
    [] kind = "pairs"   -> ElementsSize(v)
    [] kind = "map"     -> ElementsSize(PairsInOrder(v))
    [] kind = "set"     -> BytesSize(InOrder(v))

Unserialize(kind, s, old) ==
  CASE kind = "compact" -> LET r == ReadCompactSize(s) IN IF r.ok THEN r ELSE Leaving(r, old)
    [] kind = "varint"  -> ReadVarInt(s, old)
    [] kind = "string"  -> ReadString(s, old)
    [] kind = "vector"  -> ReadVector(s, old)
    [] kind = "pair"    -> ReadPair(s, old)
    [] kind = "pairs"   -> ReadPairs(s, old)
    [] kind = "map"     -> ReadMap(s, old)
    [] kind = "set"     -> ReadSet(s, old)

-----------------------------------------------------------------------------
\* operator<<.  Values put on a file follow one another; a file that is full
\* takes a part of one.
Write(kind, v) ==
  /\ file # NULL
  /\ content' = [content EXCEPT ![file] = @ \o Serialize(kind, v)]
  /\ pending' = [pending EXCEPT ![file] =
                   IF @ = Unknown THEN Unknown ELSE Append(@, [kind |-> kind, value |-> v])]
  /\ last' = [op |-> "write"]
  /\ UNCHANGED <<file, state, open, target>>
WriteFails(kind, v) ==
  /\ file # NULL
  /\ \E n \in 0 .. GetSerializeSize(kind, v) - 1 :
       content' = [content EXCEPT ![file] = @ \o SubSeq(Serialize(kind, v), 1, n)]
  /\ pending' = [pending EXCEPT ![file] = Unknown]
  /\ state' = TRUE
  /\ last' = [op |-> "throw"]
  /\ UNCHANGED <<file, open, target>>

\* operator>>.
StillDue(due, kind, r) ==
  IF due # Unknown /\ due # <<>> /\ due[1].kind = kind /\ r.ok THEN Tail(due)
  ELSE IF r.rest = <<>> THEN <<>> ELSE Unknown
Reading(kind, r) ==
  /\ content' = [content EXCEPT ![file] = r.rest]
  /\ target' = [target EXCEPT ![kind] = r.value]
  /\ pending' = [pending EXCEPT ![file] = StillDue(@, kind, r)]
  /\ state' = (state \/ r.short)
  /\ last' = IF r.ok THEN [op |-> "read", kind |-> kind] ELSE [op |-> "throw"]
  /\ UNCHANGED <<file, open>>
Read(kind) == file # NULL /\ Reading(kind, Unserialize(kind, content[file], target[kind]))

\* Every use of an object without a file throws.
UseNull ==
  /\ file = NULL
  /\ last' = [op |-> "throw"]
  /\ UNCHANGED <<file, state, open, content, pending, target>>

\* Another program writes to a file.
Arrive(h, b) ==
  /\ content' = [content EXCEPT ![h] = Append(@, b)]
  /\ pending' = [pending EXCEPT ![h] = Unknown]
  /\ last' = [op |-> "arrive"]
  /\ UNCHANGED <<file, state, open, target>>

-----------------------------------------------------------------------------
\* The file held.  An assignment forgets the one held before.
Assign(h) ==
  /\ h \in open
  /\ file' = h
  /\ last' = [op |-> "assign"]
  /\ UNCHANGED <<state, open, content, pending, target>>

Release ==
  /\ file' = NULL
  /\ last' = [op |-> "release"]
  /\ UNCHANGED <<state, open, content, pending, target>>

\* Slip: the handle is kept.
FcloseKeeps ==
  /\ open' = open \ ({file} \ Standard)
  /\ last' = [op |-> "fclose"]
  /\ UNCHANGED <<file, state, content, pending, target>>
\* fclose, and the destructor, after which the object is made anew.
Fclose ==
  /\ open' = open \ ({file} \ Standard)
  /\ file' = NULL
  /\ last' = [op |-> "fclose"]
  /\ UNCHANGED <<state, content, pending, target>>

Clear == state' = FALSE /\ last' = [op |-> "clear"] /\ UNCHANGED <<file, open, content, pending, target>>

Next ==
  \/ \E kind \in Kind : Read(kind) \/ \E v \in Values[kind] : Write(kind, v) \/ WriteFails(kind, v)
  \/ \E h \in open : (\E b \in Byte : Arrive(h, b)) \/ Assign(h)
  \/ UseNull \/ Release \/ Fclose \/ Clear

Spec == Init /\ [][Next]_vars

-----------------------------------------------------------------------------
\* Files hold bytes, and what is pending in one are values of the formats.
TypeOK ==
  /\ file \in Handle \cup {NULL} /\ state \in BOOLEAN /\ open \subseteq Handle
  /\ content \in [Handle -> Seq(Byte)]
  /\ \A h \in Handle : pending[h] = Unknown \/ \A i \in DOMAIN pending[h] : pending[h][i].kind \in Kind

\* Values follow one another without separators: the bytes of a file say where
\* each ends, and what is read are the values written, in their order.
ReadsWhatWasWritten ==
  [][last'.op = "read" /\ pending[file] # Unknown /\ pending[file] # <<>>
     /\ pending[file][1].kind = last'.kind
       => /\ target'[last'.kind] = pending[file][1].value
          /\ content'[file] = FlattenSeq([i \in DOMAIN pending'[file] |->
                                Serialize(pending'[file][i].kind, pending'[file][i].value)])]_vars

\* Bytes written as a kind are never refused by a reading of that kind.
WrittenIsReadable ==
  \A h \in Handle :
    pending[h] # Unknown /\ pending[h] # <<>>
      => Unserialize(pending[h][1].kind, content[h], Old(pending[h][1].kind)).ok

\* Of bytes s, what was read of them, r, and what that is written as, again:

\* serialize.h:216-238, sizes have one form only: whatever bytes are accepted
\* are the bytes that would be written.
OneFormOnly(kind, s, r, again) == kind \notin {"varint", "map", "set"} => again \o r.rest = s

\* Maps and sets that arrive unordered or with a key twice are normalised: what
\* they are written as is not longer, and is read as the same.
Normalised(kind, s, r, again) ==
  kind \in {"map", "set"} =>
    Len(again) <= Len(s) - Len(r.rest) /\ Unserialize(kind, again, Old(kind)) = Got(r.value, <<>>)

\* serialize.h:252, "Every integer has exactly one encoding", as long as no more
\* digits are read than the type can need; the code reads any number of them.
IntegersHaveOneEncoding(kind, s, r, again) ==
  kind = "varint" /\ Len(s) - Len(r.rest) < GetSizeOfVarInt(VarIntModulus - 1) => again \o r.rest = s

\* serialize.h:248, (a[len-1] & 0x7F) + sum(i=1..len-1, 128^i*((a[len-i-1] & 0x7F)+1)):
\* the digits of a number in the base 128, all but the last of them one more.
DigitsMean(a) ==
  DigitsValue([i \in DOMAIN a |-> (a[i] % TopBit) + IF i < Len(a) THEN 1 ELSE 0], TopBit)

\* A VARINT is its digits, of which the type keeps the low bits: with more of
\* them than the type can need the shifts lose the high bits and no others.
IntegersAreTheirDigits(kind, s, r) ==
  kind = "varint" => r.value = DigitsMean(SubSeq(s, 1, Len(s) - Len(r.rest))) % VarIntModulus

\* The size announced is the number of bytes written, for every value read.
SizesAgree(kind, r, again) == GetSerializeSize(kind, r.value) = Len(again)

\* serialize.h:531, "Limit size per read so bogus size value won't cause out of
\* memory": a vector is never more than a block larger than what there was.
BogusSizeBounded(kind, s, r) == kind \in {"vector", "pairs"} => Len(r.value) <= Len(s) + Block

\* Bytes and values agree: what is accepted has one meaning and one size, and in
\* the formats that have no freedom one form; what is announced is not believed.
Accepted(kind, s, r, again) ==
  /\ OneFormOnly(kind, s, r, again) /\ Normalised(kind, s, r, again)
  /\ IntegersHaveOneEncoding(kind, s, r, again) /\ IntegersAreTheirDigits(kind, s, r)
  /\ SizesAgree(kind, r, again)
Means(kind, s, r) ==
  BogusSizeBounded(kind, s, r) /\ (r.ok => Accepted(kind, s, r, Serialize(kind, r.value)))
BytesMeanValues ==
  /\ WrittenIsReadable
  /\ \A h \in Handle, kind \in Kind : Means(kind, content[h], Unserialize(kind, content[h], Old(kind)))

\* The CAutoFile holds a file it can use, or none; what it owns is closed once,
\* and a standard stream never.
HeldIsOpen == (file # NULL => file \in open) /\ Standard \subseteq open
FileIsHeld == TypeOK /\ HeldIsOpen
=============================================================================
