------------------------------ MODULE Encoding ------------------------------
(***************************************************************************)
(* How values become bytes and bytes values (src/src/bitcoin/serialize.h): *)
(* sizes, variable-length integers, strings, vectors, pairs, maps and      *)
(* sets.  A reading takes the bytes s that are left in a stream and gives  *)
(* what it made of them: whether it succeeded, the value, and the bytes    *)
(* left.  One that fails throws, and the value is then what the variable   *)
(* read into holds; old is what it held before.                            *)
(***************************************************************************)
EXTENDS BigNum, FiniteSets
LOCAL INSTANCE SequencesExt

CONSTANTS MAX_SIZE,        \* 0x02000000 in the code
          VarIntModulus,   \* 2 to the bits of the type of a VARINT
          Block            \* elements a vector grows by, 5000000 / sizeof(T)

ASSUME EncodingAssumption ==
  /\ MAX_SIZE \in Nat /\ Block \in Nat \ {0}
  /\ VarIntModulus \in Nat \ {0} /\ VarIntModulus % 2 = 0

Got(value, rest) == [ok |-> TRUE, short |-> FALSE, value |-> value, rest |-> rest]
\* The file ended too soon, or what was read is refused.
Ended(value) == [ok |-> FALSE, short |-> TRUE, value |-> value, rest |-> <<>>]
Refused(rest) == [ok |-> FALSE, short |-> FALSE, value |-> 0, rest |-> rest]
Leaving(r, value) == [r EXCEPT !.value = value]

Lesser(a, b) == IF a < b THEN a ELSE b

\* fread of n bytes: at the end of the file it takes what there is.
Take(s, n) ==
  IF n <= Len(s) THEN Got(SubSeq(s, 1, n), SubSeq(s, n + 1, Len(s))) ELSE Ended(s)
\* What n bytes of memory hold after such a reading.
Over(bytes, old, n) ==
  [i \in 1 .. n |-> IF i <= Len(bytes) THEN bytes[i] ELSE IF i <= Len(old) THEN old[i] ELSE 0]

ReadByte(s, old) ==
  LET r == Take(s, 1) IN IF r.ok THEN Got(r.value[1], r.rest) ELSE Ended(old)

-----------------------------------------------------------------------------
\* Compact size.  The three largest bytes say that 2, 4 or 8 bytes follow.
Short == Radix - 3
Width(marker) == IF marker = Short THEN 2 ELSE IF marker = Short + 1 THEN 4 ELSE 8
Marker(n) == IF n < Power(Radix, 2) THEN Short ELSE IF n < Power(Radix, 4) THEN Short + 1 ELSE Short + 2

GetSizeOfCompactSize(n) == IF n < Short THEN 1 ELSE 1 + Width(Marker(n))
WriteCompactSize(n) ==
  IF n < Short THEN <<n>> ELSE <<Marker(n)>> \o FixedBytes(n, Width(Marker(n)))

\* The smallest size that a shorter form cannot hold.
Least(marker) == IF marker = Short THEN Short ELSE Power(Radix, Width(marker) \div 2)
\* Slip: the long forms take what the form of 2 bytes can hold.
LongSizeLoose(marker, n, rest) ==
  IF (marker # Short \/ n >= Least(marker)) /\ n <= MAX_SIZE THEN Got(n, rest) ELSE Refused(rest)
LongSize(marker, n, rest) ==
  IF n >= Least(marker) /\ n <= MAX_SIZE THEN Got(n, rest) ELSE Refused(rest)
AfterMarker(marker, s) ==
  LET long == Take(s, Width(marker))
  IN IF marker < Short THEN Got(marker, s)
     ELSE IF ~long.ok THEN Ended(0) ELSE LongSize(marker, ValueOf(long.value), long.rest)
ReadCompactSize(s) ==
  LET first == Take(s, 1) IN IF ~first.ok THEN Ended(0) ELSE AfterMarker(first.value[1], first.rest)

-----------------------------------------------------------------------------
\* VARINT: digits of one bit less than a byte, the most significant first; the
\* top bit says that another digit follows, and all but the last lose one.
Higher(n) == n \div TopBit - 1
GetSizeOfVarInt(n) ==
  LET size[m \in 0 .. n] == IF m < TopBit THEN 1 ELSE 1 + size[Higher(m)] IN size[n]
\* Slip: the digits before the last do not lose one.
WriteVarIntPlain(n) ==
  LET before[m \in 0 .. n] ==
        IF m < TopBit THEN <<>>
        ELSE before[m \div TopBit] \o <<TopBit + ((m \div TopBit) % TopBit)>>
  IN Append(before[n], n % TopBit)
WriteVarInt(n) ==
  LET before[m \in 0 .. n] ==
        IF m < TopBit THEN <<>> ELSE before[Higher(m)] \o <<TopBit + (Higher(m) % TopBit)>>
  IN Append(before[n], n % TopBit)

WithDigit(n, b) == (n * TopBit + (b % TopBit) + (IF b < TopBit THEN 0 ELSE 1)) % VarIntModulus
VarIntOf(s) ==
  LET n[i \in 0 .. Len(s)] == IF i = 0 THEN 0 ELSE WithDigit(n[i - 1], s[i]) IN n[Len(s)]
LastDigits(s) == {i \in DOMAIN s : s[i] < TopBit}
ReadVarInt(s, old) ==
  LET k == CHOOSE i \in LastDigits(s) : \A j \in LastDigits(s) : i <= j
  IN IF LastDigits(s) = {} THEN Ended(old)
     ELSE Got(VarIntOf(SubSeq(s, 1, k)), SubSeq(s, k + 1, Len(s)))

-----------------------------------------------------------------------------
\* Strings, and vectors of a basic type: the size and the bytes.
WriteBytes(v) == WriteCompactSize(Len(v)) \o v

\* A string takes the size it is told at once.
Filled(data, old, n) == IF data.ok THEN data ELSE Ended(Over(data.value, old, n))
StringOf(size, old) ==
  IF ~size.ok THEN Leaving(size, old) ELSE Filled(Take(size.rest, size.value), old, size.value)
ReadString(s, old) == StringOf(ReadCompactSize(s), old)

\* A vector grows by a block and then reads the block.
Blocks(n) == (n \div Block + 1) * Block
VectorOf(size) ==
  IF ~size.ok THEN Leaving(size, <<>>)
  ELSE Filled(Take(size.rest, size.value), <<>>, Lesser(size.value, Blocks(Len(size.rest))))
ReadVector(s, old) == VectorOf(ReadCompactSize(s))

\* A pair is its fields one after the other; a field that throws leaves the
\* ones after it as they were.
NoPair == <<0, <<>>>>
WritePair(p) == <<p[1]>> \o WriteBytes(p[2])
ReadPair(s, old) ==
  LET first == ReadByte(s, old[1])
      second == ReadString(first.rest, old[2])
  IN IF first.ok THEN [second EXCEPT !.value = <<first.value, @>>]
     ELSE Ended(<<first.value, old[2]>>)

\* n elements one after the other, as far as they can be read: an element has
\* at least one byte.
ReadElements(Read(_, _), s, n, none) ==
  LET Further(r) ==
        IF ~r.ok THEN r
        ELSE LET e == Read(r.rest, none)
             IN [e EXCEPT !.value = Append(r.value, e.value)]
      most == Lesser(n, Len(s) + 1)
      read[i \in 0 .. most] == IF i = 0 THEN Got(<<>>, s) ELSE Further(read[i - 1])
  IN read[most]

\* A vector of a class: the elements of a block exist before they are read.
WriteElements(v) ==
  LET written[i \in 0 .. Len(v)] ==
        IF i = 0 THEN WriteCompactSize(Len(v)) ELSE written[i - 1] \o WritePair(v[i])
  IN written[Len(v)]
WithBlock(read, n) ==
  IF read.ok THEN read
  ELSE Leaving(read, [i \in 1 .. Lesser(n, Blocks(Len(read.value) - 1)) |->
                        IF i <= Len(read.value) THEN read.value[i] ELSE NoPair])
PairsOf(size) ==
  IF ~size.ok THEN Leaving(size, <<>>)
  ELSE WithBlock(ReadElements(ReadPair, size.rest, size.value, NoPair), size.value)
ReadPairs(s, old) == PairsOf(ReadCompactSize(s))

\* Maps and sets are written in the order of their keys.
InOrder(S) ==
  LET below[b \in 0 .. Radix] ==
        IF b = 0 THEN <<>> ELSE below[b - 1] \o (IF b - 1 \in S THEN <<b - 1>> ELSE <<>>)
  IN below[Radix]
PairsInOrder(m) ==
  LET keys == InOrder(DOMAIN m) IN [i \in 1 .. Len(keys) |-> <<keys[i], m[keys[i]]>>]
WriteMap(m) == WriteElements(PairsInOrder(m))
WriteSet(S) == WriteBytes(InOrder(S))

\* insert keeps the element that is there; one that throws is not inserted.
Inserted(pairs) ==
  [k \in {pairs[i][1] : i \in DOMAIN pairs} |->
     pairs[CHOOSE i \in DOMAIN pairs : pairs[i][1] = k /\ \A j \in 1 .. i - 1 : pairs[j][1] # k][2]]
Complete(read) == IF read.ok THEN read.value ELSE Front(read.value)
MapOf(size) ==
  IF ~size.ok THEN Leaving(size, Inserted(<<>>))
  ELSE LET read == ReadElements(ReadPair, size.rest, size.value, NoPair) IN Leaving(read, Inserted(Complete(read)))
ReadMap(s, old) == MapOf(ReadCompactSize(s))
SetOf(size) ==
  IF ~size.ok THEN Leaving(size, {})
  ELSE LET read == ReadElements(ReadByte, size.rest, size.value, 0) IN Leaving(read, ToSet(Complete(read)))
ReadSet(s, old) == SetOf(ReadCompactSize(s))
=============================================================================
