------------------------------- MODULE BigNum -------------------------------
(***************************************************************************)
(* CBigNum (src/src/bitcoin/bignum.h) and the text of numbers.  A CBigNum  *)
(* is an integer; what the class adds to OpenSSL are the conversions below *)
(* between integers, vectors of bytes (least significant byte first, the   *)
(* sign in the top bit), fixed widths, and text.  Bytes are 0..Radix-1, a  *)
(* byte has two hexadecimal digits; the code has Radix = 256, Digit = 16.  *)
(***************************************************************************)
EXTENDS Numerals
LOCAL INSTANCE SequencesExt

CONSTANTS Digit,        \* values of a hexadecimal digit
          IntBytes,     \* bytes of an int
          Int64Bytes    \* bytes of an int64_t

ASSUME BigNumAssumption ==
  /\ Digit \in Nat /\ Digit >= 2 /\ Digit % 2 = 0
  /\ IntBytes \in Nat \ {0}
  /\ Int64Bytes \in Nat \ {0}

Radix == Digit * Digit
Byte == 0 .. Radix - 1
TopBit == Radix \div 2

\* Characters that are not digits.  A character that is a digit is its value.
Space == -1
Minus == -2
LetterX == -3
OtherChar == -4

Abs(n) == IF n < 0 THEN -n ELSE n

\* A number of the least significant byte first, and back.
ValueOf(v) == DigitsValue(Reverse(v), Radix)
Magnitude(n) == Reverse(Numeral(n, Radix))

\* The bytes of an integer type that has w bytes.
FixedBytes(n, w) ==
  LET left[i \in 0 .. w] == IF i = 0 THEN n ELSE left[i - 1] \div Radix
  IN [i \in 1 .. w |-> left[i - 1] % Radix]
NoLeadingZeroes(v) ==
  LET used == {i \in DOMAIN v : v[i] # 0}
  IN IF used = {} THEN <<>> ELSE SubSeq(v, 1, CHOOSE i \in used : \A j \in used : j <= i)

\* The sign goes into the top bit, in a byte of its own if that bit is taken.
Signed(v, negative) ==
  IF v = <<>> THEN v
  ELSE IF v[Len(v)] >= TopBit THEN Append(v, IF negative THEN TopBit ELSE 0)
  ELSE IF negative THEN [v EXCEPT ![Len(v)] = @ + TopBit]
  ELSE v

\* BN_bn2mpi and BN_mpi2bn without the four bytes of the length: what OpenSSL
\* writes and reads.
Bn2Mpi(n) == Signed(Magnitude(Abs(n)), n < 0)
Mpi2Bn(v) ==
  IF v = <<>> THEN 0
  ELSE IF v[Len(v)] >= TopBit THEN -ValueOf([v EXCEPT ![Len(v)] = @ - TopBit])
  ELSE ValueOf(v)

getvch(n) == Bn2Mpi(n)
setvch(v) == Mpi2Bn(v)

\* The magnitude is taken without overflow: -(n + 1) + 1.
setint64(n) ==
  LET magnitude == IF n < 0 THEN (-(n + 1)) + 1 ELSE n
  IN Mpi2Bn(Signed(NoLeadingZeroes(FixedBytes(magnitude, Int64Bytes)), n < 0))
setuint64(n) == Mpi2Bn(Signed(NoLeadingZeroes(FixedBytes(n, Int64Bytes)), FALSE))

\* An operation on the bits of two numbers of the given width.
BitByBit(Op(_, _), x, y, width) ==
  LET Bit(n, i) == (n \div 2 ^ i) % 2 = 1
      low[i \in 0 .. width] ==
        IF i = 0 THEN 0
        ELSE low[i - 1] + (IF Op(Bit(x, i - 1), Bit(y, i - 1)) THEN 2 ^ (i - 1) ELSE 0)
  IN low[width]

\* Bytes of a fixed width, least significant first, to an integer and back.
setuint256(v) == Mpi2Bn(Signed(NoLeadingZeroes(v), FALSE))
getuint256(n, w) ==
  LET v == Bn2Mpi(n)
      unsigned == IF v = <<>> THEN v ELSE [v EXCEPT ![Len(v)] = @ % TopBit]
  IN [i \in 1 .. w |-> IF i <= Len(unsigned) THEN unsigned[i] ELSE 0]

IntMax == Radix ^ IntBytes \div 2 - 1
getint(n) ==
  IF Abs(n) <= IntMax THEN n ELSE IF n < 0 THEN -IntMax - 1 ELSE IntMax

\* The compact form: an exponent, a sign and three bytes of which the top bit
\* is the sign's.  nCompact packs them into one word; here they are a record.
Shifted(n, bytes) == IF bytes < 0 THEN n \div Radix ^ (-bytes) ELSE n * Radix ^ bytes
SetCompact(c) ==
  LET magnitude == Shifted(c.word, c.size - 3)
  IN IF c.negative THEN -magnitude ELSE magnitude
\* Slip: the mantissa keeps the bit that is the sign.
GetCompactUnnormalised(n) ==
  LET size == Len(Magnitude(Abs(n)))
  IN [size |-> size, negative |-> n < 0, word |-> Shifted(Abs(n), 3 - size)]
GetCompact(n) ==
  LET size == Len(Magnitude(Abs(n)))
      word == Shifted(Abs(n), 3 - size)
  IN IF word >= TopBit * Radix ^ 2
       THEN [size |-> size + 1, negative |-> n < 0, word |-> word \div Radix]
       ELSE [size |-> size, negative |-> n < 0, word |-> word]

-----------------------------------------------------------------------------
\* Text of numbers.
SkipSpaces(t) == LET other == {i \in DOMAIN t : t[i] # Space}
                 IN IF other = {} THEN <<>>
                    ELSE SubSeq(t, CHOOSE i \in other : \A j \in other : i <= j, Len(t))
Skip0x(t) == IF Len(t) >= 2 /\ t[1] = 0 /\ t[2] = LetterX THEN SubSeq(t, 3, Len(t)) ELSE t
DigitsOf(t) == LET others == {i \in DOMAIN t : t[i] < 0}
               IN IF others = {} THEN t
                  ELSE SubSeq(t, 1, (CHOOSE i \in others : \A j \in others : i <= j) - 1)

SetHex(text) ==
  LET t == SkipSpaces(text)
      negative == t # <<>> /\ t[1] = Minus
      number == SkipSpaces(Skip0x(IF negative THEN Tail(t) ELSE t))
      n == DigitsValue(DigitsOf(number), Digit)
  IN IF negative THEN -n ELSE n

InBase(n, base) == IF n = 0 THEN <<0>> ELSE (IF n < 0 THEN <<Minus>> ELSE <<>>) \o Numeral(Abs(n), base)

-----------------------------------------------------------------------------
\* Arithmetic.  BN_div truncates towards zero and refuses a zero divisor.
Quotient(a, b) == IF (a < 0) = (b < 0) THEN Abs(a) \div Abs(b) ELSE -(Abs(a) \div Abs(b))
Remainder(a, b) == IF a < 0 THEN -(Abs(a) % Abs(b)) ELSE Abs(a) % Abs(b)
ShiftLeft(n, s) == n * 2 ^ s
\* A number smaller than 2^s becomes 0: with its sign, every negative number.
ShiftRight(n, s) == IF 2 ^ s > n THEN 0 ELSE n \div 2 ^ s
=============================================================================
