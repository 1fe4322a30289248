---------------------------- MODULE Transaction ----------------------------
(***************************************************************************)
(* Transactions (src/src/bitcoin/core.h, core.cpp) as values: inputs,      *)
(* outputs, amounts, sizes, the items they are written as, and the undo    *)
(* information of an output that was spent.                                *)
(***************************************************************************)
EXTENDS Standard

CONSTANTS MAX_MONEY,
          Ten,          \* 10 in the code
          MaxSequence,  \* 0xffffffff
          NullHash,     \* uint256(0)
          Torn          \* what half a field reads as

ASSUME TransactionAssumption ==
  /\ Ten \in Nat \ {0, 1}
  /\ MAX_MONEY \in Nat /\ MAX_MONEY * Ten < VarIntModulus

MaxExp == Ten - 1
MoneyRange(n) == 0 <= n /\ n <= MAX_MONEY

OutPoint(hash, n) == [hash |-> hash, n |-> n]
NullOutPoint == OutPoint(NullHash, MaxSequence)
TxIn(prevout, scriptSig, nSequence) ==
  [prevout |-> prevout, scriptSig |-> scriptSig, nSequence |-> nSequence]
NullTxIn == TxIn(NullOutPoint, <<>>, MaxSequence)
TxOut(nValue, scriptPubKey) == [nValue |-> nValue, scriptPubKey |-> scriptPubKey]
NullTxOut == TxOut(-1, <<>>)
Tx(nVersion, vin, vout, nLockTime) ==
  [nVersion |-> nVersion, vin |-> vin, vout |-> vout, nLockTime |-> nLockTime]
NullTx == Tx(1, <<>>, <<>>, 0)

-----------------------------------------------------------------------------
\* The sum of the outputs, in 64 bits, or none: every output and every sum on
\* the way must be in range.
OutOfRange == -1
Summed(sum, nValue) ==
  LET next == (sum + nValue) % VarIntModulus
  IN IF sum = OutOfRange \/ ~MoneyRange(nValue) \/ ~MoneyRange(next) THEN OutOfRange ELSE next
GetValueOut(tx) ==
  LET sum[i \in 0 .. Len(tx.vout)] == IF i = 0 THEN 0 ELSE Summed(sum[i - 1], tx.vout[i].nValue)
  IN sum[Len(tx.vout)]

\* tx replaces old: of the inputs that differ in sequence, the lowest is old's.
Compared(r, new, was) ==
  LET a == IF new <= r.lowest THEN [newer |-> FALSE, lowest |-> new] ELSE r
  IN IF new = was THEN r ELSE IF was < a.lowest THEN [newer |-> TRUE, lowest |-> was] ELSE a
IsNewerThan(tx, old) ==
  LET compared[i \in 0 .. Len(tx.vin)] ==
        IF i = 0 THEN [newer |-> FALSE, lowest |-> MaxSequence]
        ELSE Compared(compared[i - 1], tx.vin[i].nSequence, old.vin[i].nSequence)
  IN /\ Len(tx.vin) = Len(old.vin)
     /\ \A i \in DOMAIN tx.vin : tx.vin[i].prevout = old.vin[i].prevout
     /\ compared[Len(tx.vin)].newer

\* Sizes in bytes.
Total(sizes) ==
  LET total[i \in 0 .. Len(sizes)] == IF i = 0 THEN 0 ELSE total[i - 1] + sizes[i] IN total[Len(sizes)]
ScriptBytes(s) == GetSizeOfCompactSize(Len(s)) + Len(s)
TxInSize(in) == 36 + ScriptBytes(in.scriptSig) + 4
TxOutSize(out) == 8 + ScriptBytes(out.scriptPubKey)
InSizes(tx) == [i \in 1 .. Len(tx.vin) |-> TxInSize(tx.vin[i])]
OutSizes(tx) == [i \in 1 .. Len(tx.vout) |-> TxOutSize(tx.vout[i])]
TxSize(tx) ==
  4 + GetSizeOfCompactSize(Len(tx.vin)) + Total(InSizes(tx))
    + GetSizeOfCompactSize(Len(tx.vout)) + Total(OutSizes(tx)) + 4

\* The size a priority is divided by.
Overhead(in) == 41 + Lesser(110, Len(in.scriptSig))
Without(in, n) == IF n > Overhead(in) THEN n - Overhead(in) ELSE n
PrioritySize(tx, nTxSize) ==
  LET left[i \in 0 .. Len(tx.vin)] ==
        IF i = 0 THEN IF nTxSize = 0 THEN TxSize(tx) ELSE nTxSize ELSE Without(tx.vin[i], left[i - 1])
  IN left[Len(tx.vin)]

IsDust(out, nMinRelayTxFee) ==
  (out.nValue * 1000) \div (3 * (TxOutSize(out) + 148)) < nMinRelayTxFee

-----------------------------------------------------------------------------
\* Amounts, in the 64 bits of a uint64_t.
Unsigned(n) == n % VarIntModulus
SignedValue(n) == IF n < VarIntModulus \div 2 THEN n ELSE n - VarIntModulus

TenTo ==
  LET power[e \in 0 .. MaxExp] == IF e = 0 THEN 1 ELSE Ten * power[e - 1] IN power

\* Zeroes at the end, at most MaxExp.
EndsIn(n, e) == n % TenTo[e] = 0
Exponent(n) == CHOOSE e \in 0 .. MaxExp : EndsIn(n, e) /\ \A f \in e + 1 .. MaxExp : ~EndsIn(n, f)
\* Slip: the last digit does not lose one.
CompressAmountNine(n) ==
  LET e == Exponent(n)
      m == n \div TenTo[e]
  IN IF n = 0 THEN 0
     ELSE IF e < MaxExp
       THEN Unsigned(1 + ((m \div Ten) * (Ten - 1) + (m % Ten)) * Ten + e)
     ELSE Unsigned(1 + (m - 1) * Ten + MaxExp)
CompressAmount(n) ==
  LET e == Exponent(n)
      m == n \div TenTo[e]
  IN IF n = 0 THEN 0
     ELSE IF e < MaxExp
       THEN Unsigned(1 + ((m \div Ten) * (Ten - 1) + (m % Ten) - 1) * Ten + e)
     ELSE Unsigned(1 + (m - 1) * Ten + MaxExp)

\* What a form stands for, and what 64 bits leave of it.
Amount(x) ==
  LET e == (x - 1) % Ten
      y == (x - 1) \div Ten
      n == IF e < MaxExp THEN (y \div (Ten - 1)) * Ten + (y % (Ten - 1)) + 1 ELSE y + 1
  IN IF x = 0 THEN 0 ELSE n * TenTo[e]
DecompressAmount(x) == Unsigned(Amount(x))

WriteTxOut(out) == WriteVarInt(CompressAmount(Unsigned(out.nValue))) \o WriteScript(out.scriptPubKey)
WithScript(nValue, script) == Leaving(script, TxOut(nValue, script.value))
TxOutOf(amount, old) ==
  IF ~amount.ok THEN Ended(old)
  ELSE WithScript(SignedValue(DecompressAmount(amount.value)), ReadScript(amount.rest, old.scriptPubKey))
ReadTxOut(s, old) == TxOutOf(ReadVarInt(s, 0), old)

-----------------------------------------------------------------------------
\* Undo information: height and version only if the output was the last of its
\* transaction.  A VARINT of a version below zero is its lowest digit.
Undo(out, fCoinBase, nHeight, nVersion) ==
  [txout |-> out, fCoinBase |-> fCoinBase, nHeight |-> nHeight, nVersion |-> nVersion]
NullUndo == Undo(NullTxOut, FALSE, 0, 0)

\* The values of an unsigned int.
UintModulus ==
  LET power[i \in 0 .. IntBytes] == IF i = 0 THEN 1 ELSE Radix * power[i - 1] IN power[IntBytes]
UndoCode(u) == (2 * u.nHeight + (IF u.fCoinBase THEN 1 ELSE 0)) % UintModulus
WriteVersion(n) == IF n < 0 THEN <<n % TopBit>> ELSE WriteVarInt(n)
WriteUndo(u) ==
  WriteVarInt(UndoCode(u)) \o (IF u.nHeight > 0 THEN WriteVersion(u.nVersion) ELSE <<>>)
  \o WriteTxOut(u.txout)
WithCode(undo, code) == [undo EXCEPT !.fCoinBase = code % 2 = 1, !.nHeight = code \div 2]
WithTxOut(undo, out) == Leaving(out, [undo EXCEPT !.txout = out.value])
WithVersion(undo, version) ==
  IF ~version.ok THEN Ended(undo)
  ELSE WithTxOut([undo EXCEPT !.nVersion = version.value], ReadTxOut(version.rest, undo.txout))
UndoOf(code, old) ==
  IF ~code.ok THEN Ended(old)
  ELSE WithVersion(WithCode(old, code.value),
                   IF code.value \div 2 > 0 THEN ReadVarInt(code.rest, old.nVersion)
                   ELSE Got(old.nVersion, code.rest))
ReadUndo(s, old) == UndoOf(ReadVarInt(s, 0), old)
UndoSize(u) ==
  GetSizeOfVarInt(UndoCode(u)) + (IF u.nHeight > 0 THEN Len(WriteVersion(u.nVersion)) ELSE 0)
  + GetSizeOfVarInt(CompressAmount(Unsigned(u.txout.nValue))) + ScriptSize(u.txout.scriptPubKey)

-----------------------------------------------------------------------------
\* A transaction as the items it is written as.
TxInItems(in) == <<in.prevout, in.scriptSig, in.nSequence>>
TxOutItems(out) == <<out.nValue, out.scriptPubKey>>
TxItems(tx) ==
  LET out == 3 + 3 * Len(tx.vin)
      end == out + 2 * Len(tx.vout) + 1
  IN [j \in 1 .. end |->
        IF j = 1 THEN tx.nVersion
        ELSE IF j = 2 THEN Len(tx.vin)
        ELSE IF j < out THEN TxInItems(tx.vin[j \div 3])[1 + (j % 3)]
        ELSE IF j = out THEN Len(tx.vout)
        ELSE IF j < end THEN TxOutItems(tx.vout[(j - out + 1) \div 2])[1 + ((j - out + 1) % 2)]
        ELSE tx.nLockTime]

\* Read over old.  The first item missing leaves half a field, those after it
\* are not read; a vector is cleared before its size is read, and then filled
\* with null elements (those of one block: a bound of the model).
\* Slip: the inputs there were are not cleared.
ReadTxOver(items, old) ==
  LET n == Len(items)
      At(j, before) == IF j <= n THEN items[j] ELSE IF j = n + 1 THEN Torn ELSE before
      In(i) == TxIn(At(3 * i, NullOutPoint), At(3 * i + 1, <<>>), At(3 * i + 2, MaxSequence))
      vin == IF n = 0 THEN old.vin ELSE IF n = 1 THEN <<>>
             ELSE [i \in 1 .. items[2] |-> In(i)] \o SubSeq(old.vin, items[2] + 1, Len(old.vin))
      out == 3 + 3 * items[2]
      Out(i) == TxOut(At(out + 2 * i - 1, -1), At(out + 2 * i, <<>>))
      vout == IF n < 2 \/ n < out - 1 THEN old.vout ELSE IF n = out - 1 THEN <<>>
              ELSE [i \in 1 .. items[out] |-> Out(i)]
      nLockTime == IF n < 2 \/ n < out THEN old.nLockTime
                   ELSE At(out + 2 * items[out] + 1, old.nLockTime)
  IN Tx(At(1, old.nVersion), vin, vout, nLockTime)
ReadTx(items, old) ==
  LET n == Len(items)
      At(j, before) == IF j <= n THEN items[j] ELSE IF j = n + 1 THEN Torn ELSE before
      In(i) == TxIn(At(3 * i, NullOutPoint), At(3 * i + 1, <<>>), At(3 * i + 2, MaxSequence))
      vin == IF n = 0 THEN old.vin ELSE IF n = 1 THEN <<>> ELSE [i \in 1 .. items[2] |-> In(i)]
      out == 3 + 3 * items[2]
      Out(i) == TxOut(At(out + 2 * i - 1, -1), At(out + 2 * i, <<>>))
      vout == IF n < 2 \/ n < out - 1 THEN old.vout ELSE IF n = out - 1 THEN <<>>
              ELSE [i \in 1 .. items[out] |-> Out(i)]
      nLockTime == IF n < 2 \/ n < out THEN old.nLockTime
                   ELSE At(out + 2 * items[out] + 1, old.nLockTime)
  IN Tx(At(1, old.nVersion), vin, vout, nLockTime)
=============================================================================
