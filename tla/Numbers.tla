------------------------------ MODULE Numbers ------------------------------
(***************************************************************************)
(* A uint256 (or uint160) and a CBigNum under every operation of their     *)
(* classes (src/src/bitcoin/uint256.h, src/src/bitcoin/bignum.h).  The     *)
(* first is an array of words, operated on word by word; ModularInt is     *)
(* what it implements.                                                     *)
(***************************************************************************)
EXTENDS BigNum

CONSTANTS WIDTH,        \* words of the number; 8 (or 5) in the code
          WordBytes,    \* bytes of a word; 4 in the code
          WordBits,     \* bits of a word; 32 in the code
          Operands,     \* operands of the arithmetic, below 2^(WIDTH * WordBits)
          Integers64,   \* arguments of CBigNum's constructors
          Texts,        \* arguments of SetHex
          Vectors,      \* arguments of setvch and of the constructor from bytes
          Compacts,     \* arguments of SetCompact
          Divisors,     \* operands of CBigNum's arithmetic
          Shifts        \* arguments of the shifts

ASSUME NumbersAssumption ==
  /\ WIDTH \in Nat /\ WIDTH >= 2 /\ WordBytes \in Nat \ {0}
  /\ WordBits \in Nat /\ 2 ^ WordBits = Radix ^ WordBytes
  /\ Operands \subseteq 0 .. 2 ^ (WIDTH * WordBits) - 1
  /\ Integers64 \cup Divisors \subseteq Int
  /\ Shifts \subseteq Nat
  /\ Vectors \subseteq Seq(Byte)

VARIABLES pn,   \* uint256: words, the least significant first
          bn,   \* CBigNum
          op    \* the operation applied last

numberVars == <<pn, bn, op>>

Word == 2 ^ WordBits
Index == 0 .. WIDTH - 1
NumberBytes == WIDTH * WordBytes

BytesOf(words) ==
  [k \in 1 .. NumberBytes |-> FixedBytes(words[(k - 1) \div WordBytes], WordBytes)[((k - 1) % WordBytes) + 1]]
WordsOf(bytes) ==
  [i \in Index |-> ValueOf(SubSeq(bytes, i * WordBytes + 1, (i + 1) * WordBytes))]
Value(words) == ValueOf(BytesOf(words))
Words(n) == WordsOf(FixedBytes(n, NumberBytes))
Zero == [i \in Index |-> 0]

NumbersInit == pn = Zero /\ bn = 0 /\ op = [name |-> "none", arg |-> 0]

-----------------------------------------------------------------------------
\* Word by word.
Not(a) == [i \in Index |-> Word - 1 - a[i]]

Carried(a, b) ==
  LET carry[i \in 0 .. WIDTH] ==
        IF i = 0 THEN 0 ELSE (carry[i - 1] + a[i - 1] + b[i - 1]) \div Word
  IN carry
Plus(a, b) == [i \in Index |-> (Carried(a, b)[i] + a[i] + b[i]) % Word]

\* ++ goes on to the next word after a wrap to 0, -- after a wrap to Word - 1.
Incremented(a) ==
  [i \in Index |-> IF \A j \in 0 .. i - 1 : a[j] = Word - 1 THEN (a[i] + 1) % Word ELSE a[i]]
Decremented(a) ==
  [i \in Index |-> IF \A j \in 0 .. i - 1 : a[j] = 0 THEN (a[i] - 1) % Word ELSE a[i]]
Negated(a) == Incremented(Not(a))
Subtract(a, b) == Plus(a, Negated(b))

\* Slip: the bits that cross a word boundary are lost.
LeftWordwise(a, s) ==
  LET k == s \div WordBits
      r == s % WordBits
  IN [j \in Index |-> IF j - k \in Index THEN (a[j - k] * 2 ^ r) % Word ELSE 0]

\* Each word is put together from two words of a; their bits do not overlap.
Left(a, s) ==
  LET k == s \div WordBits
      r == s % WordBits
  IN [j \in Index |->
        (IF j - k \in Index THEN (a[j - k] * 2 ^ r) % Word ELSE 0)
        + (IF r # 0 /\ j - k - 1 \in Index THEN a[j - k - 1] \div 2 ^ (WordBits - r) ELSE 0)]
Right(a, s) ==
  LET k == s \div WordBits
      r == s % WordBits
  IN [j \in Index |->
        (IF j + k \in Index THEN a[j + k] \div 2 ^ r ELSE 0)
        + (IF r # 0 /\ j + k + 1 \in Index THEN (a[j + k + 1] * 2 ^ (WordBits - r)) % Word ELSE 0)]

Conjunction(a, b) == [i \in Index |-> BitByBit(LAMBDA p, q : p /\ q, a[i], b[i], WordBits)]
Disjunction(a, b) == [i \in Index |-> BitByBit(LAMBDA p, q : p \/ q, a[i], b[i], WordBits)]
Difference(a, b) == [i \in Index |-> BitByBit(LAMBDA p, q : p # q, a[i], b[i], WordBits)]

Less(a, b) == \E i \in Index : a[i] < b[i] /\ \A j \in i + 1 .. WIDTH - 1 : a[j] = b[j]
LessOrEqual(a, b) == Less(a, b) \/ \A i \in Index : a[i] = b[i]
Greater(a, b) == \E i \in Index : a[i] > b[i] /\ \A j \in i + 1 .. WIDTH - 1 : a[j] = b[j]
GreaterOrEqual(a, b) == Greater(a, b) \/ \A i \in Index : a[i] = b[i]
Equal(a, b) == \A i \in Index : a[i] = b[i]

\* The constructor from 64 bits sets two words.
FromUint64(b) == [i \in Index |-> IF i < 2 THEN (b \div Word ^ i) % Word ELSE 0]

\* From the last digit backwards, two digits to a byte, as long as there are
\* both digits and bytes.
SetHexWords(text) ==
  LET d == DigitsOf(Skip0x(SkipSpaces(text)))
      At(k) == IF k >= 1 THEN d[k] ELSE 0
  IN WordsOf([i \in 1 .. NumberBytes |->
                At(Len(d) - 2 * (i - 1)) + Digit * At(Len(d) - 2 * (i - 1) - 1)])
GetHex(words) ==
  [k \in 1 .. 2 * NumberBytes |->
     LET b == BytesOf(words)[NumberBytes - (k - 1) \div 2]
     IN IF k % 2 = 1 THEN b \div Digit ELSE b % Digit]

FromBytes(v) == IF Len(v) = NumberBytes THEN WordsOf(v) ELSE Zero

-----------------------------------------------------------------------------
\* One action per operator.
Did(name, arg) == op' = [name |-> name, arg |-> arg]
Uint(words) == pn' = words /\ UNCHANGED bn
Big(n) == bn' = n /\ UNCHANGED pn

Unary ==
  \/ Uint(Incremented(pn)) /\ Did("inc", 0)
  \/ Uint(Decremented(pn)) /\ Did("dec", 0)
  \/ Uint(Negated(pn)) /\ Did("neg", 0)
  \/ Uint(Not(pn)) /\ Did("not", 0)

Binary(b) ==
  \/ Uint(Plus(pn, Words(b))) /\ Did("add", b)
  \/ Uint(Subtract(pn, Words(b))) /\ Did("sub", b)
  \/ Uint(Conjunction(pn, Words(b))) /\ Did("and", b)
  \/ Uint(Disjunction(pn, Words(b))) /\ Did("or", b)
  \/ Uint(Difference(pn, Words(b))) /\ Did("xor", b)

Shift(s) ==
  \/ Uint(Left(pn, s)) /\ Did("shl", s)
  \/ Uint(Right(pn, s)) /\ Did("shr", s)

AssignUint ==
  \/ \E n \in Integers64 : n >= 0 /\ Uint(FromUint64(n)) /\ Did("set", n)
  \/ \E t \in Texts : Uint(SetHexWords(t)) /\ Did("hex", t)
  \/ \E v \in Vectors : Uint(FromBytes(v)) /\ Did("bytes", v)
  \/ Uint(WordsOf(getuint256(bn, NumberBytes))) /\ Did("from bignum", bn)

AssignBig ==
  \/ \E n \in Integers64 : Big(setint64(n)) /\ Did("integer", n)
  \/ \E n \in Integers64 : n >= 0 /\ Big(setuint64(n)) /\ Did("integer", n)
  \/ \E v \in Vectors : Big(setvch(v)) /\ Did("setvch", v)
  \/ \E c \in Compacts : Big(SetCompact(c)) /\ Did("bn", 0)
  \/ \E t \in Texts : Big(SetHex(t)) /\ Did("bn", 0)
  \/ Big(setuint256(BytesOf(pn))) /\ Did("integer", Value(pn))

\* A division by zero throws and changes nothing.
ArithmeticBig(d) ==
  \/ Big(bn + d) /\ Did("bn", 0)
  \/ Big(bn - d) /\ Did("bn", 0)
  \/ Big(bn * d) /\ Did("bn", 0)
  \/ d # 0 /\ Big(Quotient(bn, d)) /\ Did("bn", 0)
  \/ d # 0 /\ Big(Remainder(bn, d)) /\ Did("bn", 0)

ShiftBig(s) ==
  \/ Big(ShiftLeft(bn, s)) /\ Did("bn", 0)
  \/ Big(ShiftRight(bn, s)) /\ Did("bn", 0)

NumbersNext ==
  \/ Unary
  \/ \E b \in Operands : Binary(b)
  \/ \E s \in Shifts : Shift(s) \/ ShiftBig(s)
  \/ AssignUint
  \/ AssignBig
  \/ \E d \in Divisors : ArithmeticBig(d)

NumbersSpec == NumbersInit /\ [][NumbersNext]_numberVars

-----------------------------------------------------------------------------
\* Every word stays in its range: carries and masks leave nothing above it.
NumbersTypeOK ==
  /\ pn \in [Index -> 0 .. Word - 1]
  /\ bn \in Int

\* The words together are the number of the promise: carries, borrows, shifts
\* across words and texts too long for the number lose nothing they should keep.
Promise == INSTANCE ModularInt WITH val <- Value(pn), Bits <- WIDTH * WordBits, Bytes <- NumberBytes
ImplementsModularInt == Promise!Spec

\* uint256.h:219-273, the order of the words is the order of the numbers.
ComparesNumbers ==
  \A b \in Operands :
    /\ Less(pn, Words(b)) <=> Value(pn) < b
    /\ LessOrEqual(pn, Words(b)) <=> Value(pn) <= b
    /\ Greater(pn, Words(b)) <=> Value(pn) > b
    /\ GreaterOrEqual(pn, Words(b)) <=> Value(pn) >= b
    /\ Equal(pn, Words(b)) <=> Value(pn) = b

\* GetHex and SetHex are inverse, also through the text of a CBigNum, whose
\* digits have no fixed number.
HexReadsBack ==
  /\ SetHexWords(GetHex(pn)) = pn
  /\ SetHex(GetHex(pn)) = Value(pn)
  /\ SetHex(InBase(bn, Digit)) = bn
  /\ bn >= 0 /\ bn < 2 ^ (WIDTH * WordBits) => Value(SetHexWords(InBase(bn, Digit))) = bn

\* A CBigNum made of an integer of 64 bits, the least of them included, or of a
\* uint256, is that number; setvch never makes more bytes than it was given.
IntegersKept ==
  [][/\ op'.name = "integer" => bn' = op'.arg
     /\ op'.name = "setvch" => Len(getvch(bn')) <= Len(op'.arg)]_numberVars

\* getvch and setvch are inverse, and getvch gives the fewest bytes.
BytesReadBack ==
  /\ setvch(getvch(bn)) = bn
  /\ LET v == getvch(bn)
     IN v # <<>> => setvch(SubSeq(v, 1, Len(v) - 1)) # bn

\* bignum.h:272-284, the compact form keeps the leading bytes of the number and
\* its sign, and its mantissa leaves the bit of the sign alone.
CompactKeepsLeading ==
  LET c == GetCompact(bn)
      unit == Radix ^ (IF c.size > 3 THEN c.size - 3 ELSE 0)
  IN /\ c.word \in 0 .. TopBit * Radix ^ 2 - 1
     /\ SetCompact(c) = Quotient(bn, unit) * unit
     /\ GetCompact(SetCompact(c)) = c
     /\ bn # 0 => c.word >= TopBit * Radix

\* getint stays within an int whatever the number, and keeps its sign.
IntClamps ==
  /\ getint(bn) \in -IntMax - 1 .. IntMax
  /\ bn \in -IntMax .. IntMax => getint(bn) = bn
  /\ (getint(bn) < 0) = (bn < 0)

\* The words stay in their range and are ordered as their numbers, and numbers
\* of both classes keep their value through text, bytes, the compact form and int.
NumbersReadBack ==
  NumbersTypeOK /\ ComparesNumbers /\ HexReadsBack /\ BytesReadBack /\ CompactKeepsLeading /\ IntClamps

\* The words implement the promise, and CBigNum takes integers as they are.
NumbersImplement == ImplementsModularInt /\ IntegersKept
=============================================================================
