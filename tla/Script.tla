------------------------------- MODULE Script -------------------------------
(***************************************************************************)
(* CScript (src/src/bitcoin/script.h, script.cpp): a sequence of bytes     *)
(* made of instructions.  What the class reads out of it, whatever the     *)
(* bytes are, and what it puts into it.  Positions count from 0.           *)
(***************************************************************************)
EXTENDS Encoding
LOCAL INSTANCE SequencesExt

CONSTANTS Hash160(_)        \* of a sequence of bytes: HashBytes bytes

HashBytes == 20
OP_0 == 0
OP_PUSHDATA1 == 76
OP_PUSHDATA2 == 77
OP_PUSHDATA4 == 78
OP_1NEGATE == 79
OP_1 == 81
OP_16 == 96
OP_RETURN == 106
OP_DUP == 118
OP_EQUAL == 135
OP_EQUALVERIFY == 136
OP_HASH160 == 169
OP_CODESEPARATOR == 171
OP_CHECKSIG == 172
OP_CHECKSIGVERIFY == 173
OP_CHECKMULTISIG == 174
OP_CHECKMULTISIGVERIFY == 175
OP_INVALIDOPCODE == 255

-----------------------------------------------------------------------------
\* The instruction at pc.  One that does not end within the script leaves the
\* iterator where the check failed.
Instruction(opcode, data, pc) == [ok |-> TRUE, opcode |-> opcode, data |-> data, pc |-> pc]
Broken(pc) == [ok |-> FALSE, opcode |-> OP_INVALIDOPCODE, data |-> <<>>, pc |-> pc]

LengthBytes(opcode) ==
  CASE opcode = OP_PUSHDATA1 -> 1 [] opcode = OP_PUSHDATA2 -> 2 [] opcode = OP_PUSHDATA4 -> 4 [] OTHER -> 0

\* The length of the data; with a fourth byte it is more than any script has
\* (2^24 bytes, a bound of the model).
DataLength(s, pc, opcode) ==
  IF opcode < OP_PUSHDATA1 THEN opcode
  ELSE IF opcode = OP_PUSHDATA4 /\ s[pc + 5] # 0 THEN Len(s) + 1
  ELSE ValueOf(SubSeq(s, pc + 2, pc + 1 + LengthBytes(opcode)))

Pushing(s, opcode, from, size) ==
  IF Len(s) - from < size THEN Broken(from)
  ELSE Instruction(opcode, SubSeq(s, from + 1, from + size), from + size)
AfterOpcode(s, pc, opcode, from) ==
  IF opcode > OP_PUSHDATA4 THEN Instruction(opcode, <<>>, pc + 1)
  ELSE IF from > Len(s) THEN Broken(pc + 1)
  ELSE Pushing(s, opcode, from, DataLength(s, pc, opcode))
GetOp2(s, pc) ==
  IF pc >= Len(s) THEN Broken(pc)
  ELSE AfterOpcode(s, pc, s[pc + 1], pc + 1 + LengthBytes(s[pc + 1]))

\* What a loop of GetOp over the script sees: its instructions, and last the
\* broken one if there is one.
Followed(r, from) == IF r.ok THEN <<r>> \o from[r.pc] ELSE <<r>>
Reads(s) ==
  LET from[pc \in 0 .. Len(s)] == IF pc = Len(s) THEN <<>> ELSE Followed(GetOp2(s, pc), from)
  IN from[0]
AllEnd(ins) == \A i \in DOMAIN ins : ins[i].ok
Whole(s) == AllEnd(Reads(s))
Instructions(s) == SelectSeq(Reads(s), LAMBDA r : r.ok)

-----------------------------------------------------------------------------
\* Putting together.
EncodeOP_N(n) == IF n = 0 THEN OP_0 ELSE OP_1 + n - 1
DecodeOP_N(opcode) == IF opcode = OP_0 THEN 0 ELSE opcode - (OP_1 - 1)
IsSmallInt(opcode) == opcode \in {OP_0} \cup OP_1 .. OP_16

PushOp(opcode) == <<opcode>>
\* Slip: a length of Radix is said in one byte.
PushDataOff(v) ==
  (CASE Len(v) < OP_PUSHDATA1 -> <<Len(v)>>
     [] Len(v) >= OP_PUSHDATA1 /\ Len(v) <= Radix -> <<OP_PUSHDATA1, Len(v) % Radix>>
     [] OTHER -> <<OP_PUSHDATA2>> \o FixedBytes(Len(v), 2)) \o v
PushData(v) ==
  (CASE Len(v) < OP_PUSHDATA1 -> <<Len(v)>>
     [] Len(v) >= OP_PUSHDATA1 /\ Len(v) < Radix -> <<OP_PUSHDATA1, Len(v)>>
     [] Len(v) >= Radix /\ Len(v) < Power(Radix, 2) -> <<OP_PUSHDATA2>> \o FixedBytes(Len(v), 2)
     [] OTHER -> <<OP_PUSHDATA4>> \o FixedBytes(Len(v), 4)) \o v
PushHash(h) == <<Len(h)>> \o h
PushKey(key) == <<Len(key)>> \o key

push_int64(n) ==
  IF n = -1 \/ n \in 1 .. 16 THEN <<n + OP_1 - 1>> ELSE PushData(getvch(setint64(n)))
push_uint64(n) ==
  IF n \in 1 .. 16 THEN <<n + OP_1 - 1>> ELSE PushData(getvch(setuint64(n)))

\* At every instruction, b is erased as often as it stands there.
StandsAt(s, b, pc) == SubSeq(s, pc + 1, Lesser(Len(s), pc + Len(b))) = b
Keeping(s, pc, r, kept) ==
  IF r.ok THEN SubSeq(s, pc + 1, r.pc) \o kept[r.pc] ELSE SubSeq(s, pc + 1, Len(s))
\* Slip: after an erasure the next instruction is not looked at.
DeleteOnce(s, b) ==
  LET kept[pc \in 0 .. Len(s)] ==
        LET at == IF StandsAt(s, b, pc) THEN pc + Len(b) ELSE pc IN Keeping(s, at, GetOp2(s, at), kept)
  IN IF b = <<>> THEN s ELSE kept[0]
FindAndDelete(s, b) ==
  LET kept[pc \in 0 .. Len(s)] ==
        IF StandsAt(s, b, pc) THEN kept[pc + Len(b)] ELSE Keeping(s, pc, GetOp2(s, pc), kept)
  IN IF b = <<>> THEN s ELSE kept[0]

-----------------------------------------------------------------------------
\* Values on the stack.
CastToBigNum(v) == setvch(getvch(setvch(v)))
CastToBool(v) == \E i \in DOMAIN v : v[i] # 0 /\ ~(i = Len(v) /\ v[i] = TopBit)

\* Public keys: the first byte says how long one is.  One that is not valid is <<>>.
KeyLength(header) == IF header \in {2, 3} THEN 33 ELSE IF header \in {4, 6, 7} THEN 65 ELSE 0
PubKey(v) == IF v # <<>> /\ Len(v) = KeyLength(v[1]) THEN v ELSE <<>>
GetID(key) == Hash160(key)

IsCanonicalPubKey(v) ==
  /\ Len(v) >= 33
  /\ \/ v[1] = 4 /\ Len(v) = 65
     \/ v[1] \in {2, 3} /\ Len(v) = 33

\* A number within a signature: n bytes from position p, of which the two before
\* say that it is one.
IsInteger(v, p, n) ==
  /\ v[p - 1] = 2 /\ n # 0
  /\ v[p + 1] < TopBit
  /\ n > 1 /\ v[p + 1] = 0 => v[p + 2] >= TopBit
IsCanonicalSignature(v, even) ==
  LET lenR == v[4]
      lenS == v[6 + lenR]
  IN /\ Len(v) \in 9 .. 73
     /\ v[Len(v)] % TopBit \in 1 .. 3
     /\ v[1] = 48
     /\ v[2] = Len(v) - 3
     /\ 5 + lenR < Len(v)
     /\ lenR + lenS + 7 = Len(v)
     /\ IsInteger(v, 4, lenR)
     /\ IsInteger(v, 6 + lenR, lenS)
     /\ even => v[6 + lenR + lenS] % 2 = 0

-----------------------------------------------------------------------------
\* Questions about a script.
IsUnspendable(s) == s # <<>> /\ s[1] = OP_RETURN
IsPayToScriptHash(s) ==
  Len(s) = 23 /\ s[1] = OP_HASH160 /\ s[2] = HashBytes /\ s[23] = OP_EQUAL
PushesOnly(ins) == \A i \in DOMAIN ins : ins[i].ok /\ ins[i].opcode <= OP_16
IsPushOnly(s) == PushesOnly(Reads(s))
Counted(r, opcode, from) == IF r.ok THEN from[r.pc] + (IF r.opcode = opcode THEN 1 ELSE 0) ELSE 0
Find(s, opcode) ==
  LET found[pc \in 0 .. Len(s)] == Counted(GetOp2(s, pc), opcode, found) IN found[0]

CanonicalPush(r) ==
  /\ ~(r.opcode \in 1 .. OP_PUSHDATA1 - 1 /\ Len(r.data) = 1 /\ r.data[1] <= 16)
  /\ r.opcode = OP_PUSHDATA1 => Len(r.data) >= OP_PUSHDATA1
  /\ r.opcode = OP_PUSHDATA2 => Len(r.data) >= Radix
  /\ r.opcode = OP_PUSHDATA4 => Len(r.data) >= Power(Radix, 2)
AllCanonical(ins) == \A i \in DOMAIN ins : ins[i].ok /\ CanonicalPush(ins[i])
HasCanonicalPushes(s) == AllCanonical(Reads(s))

\* The signatures an instruction checks; the instruction before it may say how
\* many keys there are.
SigOps(ins, i, accurate) ==
  IF ins[i].opcode \in {OP_CHECKSIG, OP_CHECKSIGVERIFY} THEN 1
  ELSE IF ins[i].opcode \notin {OP_CHECKMULTISIG, OP_CHECKMULTISIGVERIFY} THEN 0
  ELSE IF accurate /\ i > 1 /\ ins[i - 1].opcode \in OP_1 .. OP_16
         THEN DecodeOP_N(ins[i - 1].opcode) ELSE 20
SigOpsOf(ins, accurate) ==
  LET n[i \in 0 .. Len(ins)] == IF i = 0 THEN 0 ELSE n[i - 1] + SigOps(ins, i, accurate)
  IN n[Len(ins)]
GetSigOpCount(s, accurate) == SigOpsOf(Instructions(s), accurate)
RedeemSigOps(s, redeeming) ==
  IF ~IsPayToScriptHash(s) THEN GetSigOpCount(s, TRUE)
  ELSE IF redeeming = <<>> \/ ~IsPushOnly(redeeming) THEN 0
  ELSE GetSigOpCount(Last(Reads(redeeming)).data, TRUE)
=============================================================================
