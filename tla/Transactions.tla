---------------------------- MODULE Transactions ----------------------------
(***************************************************************************)
(* A transaction that is signed and then changed, or read from a stream    *)
(* that may end early, and an undo record that is read into again and      *)
(* again (src/src/bitcoin/core.h, core.cpp, script.cpp).                   *)
(***************************************************************************)
EXTENDS SignatureHash

CONSTANTS OutPoints, Scripts, Sequences, Values, Codes, HashTypes,
          Bases,        \* transactions to begin with
          Undos,        \* undo records to read
          MaxInputs, MaxOutputs

\* Transactions, of which some fields may have been torn.
OrTorn(S) == {Torn} \cup S
TxIns ==
  [prevout : OrTorn(OutPoints \cup {NullOutPoint}), scriptSig : OrTorn(Seq(Nat)), nSequence : OrTorn(0 .. MaxSequence)]
TxOuts == [nValue : OrTorn(Int), scriptPubKey : OrTorn(Seq(Nat))]
Txs == [nVersion : OrTorn(Int), vin : Seq(TxIns), vout : Seq(TxOuts), nLockTime : OrTorn(Int)]

UndoRecords ==
  [txout : [nValue : Int, scriptPubKey : Seq(Nat)], fCoinBase : BOOLEAN, nHeight : Nat, nVersion : Int]

\* Hash types are bytes, the last ones of signatures.  An int and the length of
\* a script are less than the widest VARINT.
ASSUME GivenAssumption ==
  /\ Radix = 256 /\ HashTypes \subseteq Byte
  /\ MaxInputs \in Nat /\ MaxOutputs \in Nat /\ MaxSequence \in Nat
  /\ Scripts \subseteq Seq(Nat) /\ Values \subseteq Int /\ Sequences \subseteq 0 .. MaxSequence
  /\ Bases \subseteq Txs /\ Codes \subseteq Seq(Byte) /\ Undos \subseteq UndoRecords
  /\ UintModulus <= VarIntModulus
  /\ \A u \in Undos :
       u.nVersion < VarIntModulus /\ Len(u.txout.scriptPubKey) + nSpecialScripts < VarIntModulus

VARIABLES tx,
          signed,     \* what was signed, if anything was
          undo

vars == <<tx, signed, undo>>

NotSigned == [nIn |-> 0]

Init == tx \in Bases /\ signed = NotSigned /\ undo = NullUndo

Sign(code, nIn, nHashType) ==
  /\ signed' = [nIn |-> nIn, code |-> code, nHashType |-> nHashType, tx |-> tx]
  /\ UNCHANGED <<tx, undo>>

Dropped(s, i) == [j \in 1 .. Len(s) - 1 |-> IF j < i THEN s[j] ELSE s[j + 1]]

Change(new) == tx' = new /\ UNCHANGED <<signed, undo>>

SetVersion(n) == Change([tx EXCEPT !.nVersion = n])
SetLockTime(n) == Change([tx EXCEPT !.nLockTime = n])
SetSequence(i, n) == Change([tx EXCEPT !.vin[i].nSequence = n])
SetScriptSig(i, s) == Change([tx EXCEPT !.vin[i].scriptSig = s])
SetValue(i, n) == Change([tx EXCEPT !.vout[i].nValue = n])
SetScriptPubKey(i, s) == Change([tx EXCEPT !.vout[i].scriptPubKey = s])
AddInput(in) == Change([tx EXCEPT !.vin = Append(@, in)])
AddOutput(out) == Change([tx EXCEPT !.vout = Append(@, out)])
DropInput(i) == Change([tx EXCEPT !.vin = Dropped(@, i)])
DropOutput(i) == Change([tx EXCEPT !.vout = Dropped(@, i)])
SetNull == Change(NullTx)
Read(t, k) == Change(ReadTx(SubSeq(TxItems(t), 1, k), tx))

ReadUndoRecord(u) == undo' = ReadUndo(WriteUndo(u), undo).value /\ UNCHANGED <<tx, signed>>

Signing ==
  \E code \in Codes, nHashType \in HashTypes, nIn \in 1 .. MaxInputs + 1 : Sign(code, nIn, nHashType)
Editing ==
  \/ SetVersion(2) \/ SetLockTime(1) \/ SetNull
  \/ \E i \in DOMAIN tx.vin :
       \/ DropInput(i)
       \/ \E n \in Sequences : SetSequence(i, n)
       \/ \E s \in Scripts : SetScriptSig(i, s)
  \/ \E i \in DOMAIN tx.vout :
       \/ DropOutput(i)
       \/ \E n \in Values : SetValue(i, n)
       \/ \E s \in Scripts : SetScriptPubKey(i, s)
  \/ \E p \in OutPoints : Len(tx.vin) < MaxInputs /\ AddInput(TxIn(p, <<>>, MaxSequence))
  \/ \E n \in Values : Len(tx.vout) < MaxOutputs /\ AddOutput(TxOut(n, <<>>))
Reading == \E t \in Bases : \E k \in 0 .. Len(TxItems(t)) : Read(t, k)
Undoing == \E u \in Undos : ReadUndoRecord(u)

Next == Signing \/ Editing \/ Reading \/ Undoing

Spec == Init /\ [][Next]_vars

-----------------------------------------------------------------------------
\* A height that was read has one bit less.
AreTxs == tx \in Txs /\ (signed # NotSigned => signed.tx \in Txs)
TypeOK ==
  /\ AreTxs
  /\ undo.nHeight \in 0 .. (UintModulus \div 2) - 1 /\ undo.fCoinBase \in BOOLEAN

\* What a signature commits to, by the comments of script.cpp:1020-1054:
\* "only the input being signed", "let the others update at will", "do not
\* lock-in the txout payee at other indices as txin".
Whose(nHashType, others) == IF nHashType >= SIGHASH_ANYONECANPAY THEN {} ELSE others
Committed(t, nIn, nHashType) ==
  LET base == nHashType % 32
      others == Whose(nHashType, DOMAIN t.vin \ {nIn})
      paid == IF base = SIGHASH_NONE THEN {} ELSE IF base = SIGHASH_SINGLE THEN {nIn} ELSE DOMAIN t.vout
  IN [tx |-> <<t.nVersion, t.nLockTime, nHashType>>,
      own |-> <<t.vin[nIn].prevout, t.vin[nIn].nSequence>>,
      place |-> IF nHashType < SIGHASH_ANYONECANPAY \/ base = SIGHASH_SINGLE THEN nIn ELSE 0,
      others |-> [i \in others |-> t.vin[i].prevout],
      final |-> IF base \in {SIGHASH_NONE, SIGHASH_SINGLE} THEN <<>>
                ELSE [i \in others |-> t.vin[i].nSequence],
      paid |-> [i \in paid |-> t.vout[i]]]
Signable(t, nIn, nHashType) ==
  nIn \in DOMAIN t.vin /\ (nHashType % 32 = SIGHASH_SINGLE => nIn \in DOMAIN t.vout)

HoldsFor(hash) ==
  \A nIn \in 1 .. MaxInputs + 1, type \in HashTypes :
    SignatureHash(signed.code, tx, nIn, type) = hash <=>
      IF Signable(signed.tx, signed.nIn, signed.nHashType)
        THEN /\ Signable(tx, nIn, type)
             /\ Committed(tx, nIn, type) = Committed(signed.tx, signed.nIn, signed.nHashType)
        ELSE ~Signable(tx, nIn, type)

\* Whatever is done to a transaction after it was signed, the signature holds for
\* an input, of any hash type, exactly while what it commits to is the same; one
\* for an input or output that is not there holds for all such.  (Of code that is
\* nothing but separators nothing is left to tell the input that is signed.)
CommitsExactly ==
  signed # NotSigned /\ ScriptCode(signed.code) # ScriptCode(<<>>) =>
    HoldsFor(SignatureHash(signed.code, signed.tx, signed.nIn, signed.nHashType))

Delimits(r, code) ==
  /\ Len(r.bytes) <= r.size
  /\ Whole(code) => r.size = Len(r.bytes) /\ r.bytes = FindAndDelete(code, <<OP_CODESEPARATOR>>)

\* script.cpp:998-1018, the code hashed is the code without its separators, and
\* the size before it says how long it is, for every code that can be read to
\* its end; of one that cannot, less is written than the size says, or as much.
CodeIsDelimited == signed # NotSigned => Delimits(ScriptCode(signed.code), signed.code)

\* A transaction replaces the one that was signed if it spends the same and, of
\* the inputs that differ in sequence, only the old one has the lowest.  Never
\* does each replace the other.
HasSequences(t) == \A i \in DOMAIN t.vin : t.vin[i].nSequence # Torn
SpendsSame(t, old) ==
  Len(t.vin) = Len(old.vin) /\ \A i \in DOMAIN t.vin : t.vin[i].prevout = old.vin[i].prevout
Differ(t, old) == {i \in DOMAIN t.vin : t.vin[i].nSequence # old.vin[i].nSequence}
LowestIsOld(t, old) ==
  \E i \in Differ(t, old) : \A j \in Differ(t, old) :
    old.vin[i].nSequence < t.vin[j].nSequence /\ old.vin[i].nSequence <= old.vin[j].nSequence
NewerHasHigherSequence ==
  signed # NotSigned /\ HasSequences(tx) /\ HasSequences(signed.tx) =>
    /\ IsNewerThan(tx, signed.tx) <=> SpendsSame(tx, signed.tx) /\ LowestIsOld(tx, signed.tx)
    /\ ~(IsNewerThan(tx, signed.tx) /\ IsNewerThan(signed.tx, tx))

\* core.h:18-19 and core.cpp:98-108, the value that goes out is the sum of the
\* outputs, or refused: no sum is ever out of range because 64 bits were left.
HasValues(t) == \A i \in DOMAIN t.vout : t.vout[i].nValue # Torn
ValueOutExact ==
  HasValues(tx) =>
    LET sum == Total([i \in 1 .. Len(tx.vout) |-> tx.vout[i].nValue])
        good == (\A i \in DOMAIN tx.vout : tx.vout[i].nValue >= 0) /\ sum <= MAX_MONEY
    IN GetValueOut(tx) = IF good THEN sum ELSE OutOfRange

Readable(t) ==
  (\A i \in DOMAIN t.vin : t.vin[i].scriptSig # Torn) /\ \A i \in DOMAIN t.vout : t.vout[i].scriptPubKey # Torn

\* core.cpp:112-115, "we don't count the constant overhead for each txin and up to
\* 110 bytes of scriptSig": an input as small as that does not lower a priority, but
\* for what it adds to the count before the inputs, and the size is never zero.
SizeWithoutCount(t) == PrioritySize(t, 0) - GetSizeOfCompactSize(Len(t.vin))
CleaningUpIsFree ==
  Readable(tx) =>
    /\ PrioritySize(tx, 0) >= 10
    /\ \A i \in DOMAIN tx.vin :
         Len(tx.vin[i].scriptSig) <= 110 =>
           SizeWithoutCount(tx) = SizeWithoutCount([tx EXCEPT !.vin = Dropped(@, i)])

\* core.h:155-160, a "typical txout is 34 bytes big" and dust below 546 at a fee of
\* 1000.
DustIsBelow546 ==
  Readable(tx) =>
    \A i \in DOMAIN tx.vout :
      TxOutSize(tx.vout[i]) = 34 /\ tx.vout[i].nValue # Torn =>
        (IsDust(tx.vout[i], 1000) <=> tx.vout[i].nValue < 546)

\* core.cpp:159-166, "this is decodable": every amount of money is read back, and
\* no two forms are the same amount, of those that 64 bits can hold.
AmountsReadBack ==
  tx = NullTx /\ signed = NotSigned /\ undo = NullUndo =>
    \A n \in 0 .. MAX_MONEY :
      /\ DecompressAmount(CompressAmount(n)) = n
      /\ Amount(n) <= MAX_MONEY => CompressAmount(DecompressAmount(n)) = n

ComesBack(u, r) ==
  LET nHeight == UndoCode(u) \div 2
      version == IF u.nHeight = 0 THEN undo.nVersion ELSE u.nVersion
  IN /\ UndoSize(u) = Len(WriteUndo(u))
     /\ u.nHeight = nHeight =>
          /\ r.ok /\ r.rest = <<>>
          /\ r.value.nHeight = u.nHeight /\ r.value.fCoinBase = u.fCoinBase
          /\ version >= 0 => r.value.nVersion = version
          /\ MoneyRange(u.txout.nValue) => r.value.txout = u.txout

\* An undo record is read back whatever was in the variable, but for what its
\* form leaves out: the version of an output that was not the last, and of that
\* only the lowest digit if it is below zero; heights that take the top bit; and
\* the value of a null output.
UndoReadBack ==
  tx = NullTx /\ signed = NotSigned => \A u \in Undos : ComesBack(u, ReadUndo(WriteUndo(u), undo))

\* A transaction read whole is what was written, whatever is in the variable: an
\* earlier reading that failed leaves nothing behind.
NothingLeftBehind == \A t \in Bases : ReadTx(TxItems(t), tx) = t

\* The hash that is signed is of what the hash type says and of all of it.
SignatureCommits == CommitsExactly

\* Amounts are exact, through sums and their compressed form, and the comments
\* about what is dust, free or newer are true.
ValuesAreExact ==
  AmountsReadBack /\ ValueOutExact /\ DustIsBelow546 /\ CleaningUpIsFree /\ NewerHasHigherSequence

\* What is written says where it ends, and reading it over what was there gives
\* what was written, and only that.
ReadingReplaces == TypeOK /\ NothingLeftBehind /\ UndoReadBack /\ CodeIsDelimited
=============================================================================
