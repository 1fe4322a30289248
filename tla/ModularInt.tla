----------------------------- MODULE ModularInt -----------------------------
(***************************************************************************)
(* What uint160 and uint256 promise: one number below 2^Bits, and every    *)
(* operation is the arithmetic one, modulo 2^Bits.  op is the operation    *)
(* applied last, with its operand.                                         *)
(***************************************************************************)
EXTENDS BigNum

CONSTANTS Bits,   \* width of the number
          Bytes   \* the same in bytes

VARIABLES val, op

Modulus == 2 ^ Bits

Init == val = 0 /\ op = [name |-> "none", arg |-> 0]

And(p, q) == p /\ q
Or(p, q) == p \/ q
Xor(p, q) == p # q

Apply(o, v) ==
  CASE o.name = "add"   -> (v + o.arg) % Modulus
    [] o.name = "sub"   -> (v - o.arg) % Modulus
    [] o.name = "inc"   -> (v + 1) % Modulus
    [] o.name = "dec"   -> (v - 1) % Modulus
    [] o.name = "neg"   -> -v % Modulus
    [] o.name = "not"   -> Modulus - 1 - v
    [] o.name = "and"   -> BitByBit(And, v, o.arg, Bits)
    [] o.name = "or"    -> BitByBit(Or, v, o.arg, Bits)
    [] o.name = "xor"   -> BitByBit(Xor, v, o.arg, Bits)
    [] o.name = "shl"   -> (v * 2 ^ o.arg) % Modulus
    [] o.name = "shr"   -> v \div 2 ^ o.arg
    [] o.name = "set"   -> o.arg
    [] o.name = "hex"   -> DigitsValue(DigitsOf(Skip0x(SkipSpaces(o.arg))), Digit) % Modulus
    [] o.name = "bytes" -> IF Len(o.arg) = Bytes THEN ValueOf(o.arg) ELSE 0
    [] o.name = "from bignum" -> Abs(o.arg) % Modulus
    [] OTHER -> v

Next == val' = Apply(op', val)

Spec == Init /\ [][Next]_<<val, op>>
=============================================================================
