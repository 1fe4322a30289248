--------------------------- MODULE SignatureHash ---------------------------
(***************************************************************************)
(* What a signature of a transaction signs (src/src/bitcoin/script.cpp,    *)
(* CTransactionSignatureSerializer and SignatureHash).  The hash is the    *)
(* sequence of the parts hashed: no two are taken to collide.              *)
(***************************************************************************)
EXTENDS Transaction

SIGHASH_ALL == 1
SIGHASH_NONE == 2
SIGHASH_SINGLE == 3
SIGHASH_ANYONECANPAY == 128

fAnyoneCanPay(nHashType) == (nHashType \div SIGHASH_ANYONECANPAY) % 2 = 1
fHashSingle(nHashType) == nHashType % 32 = SIGHASH_SINGLE
fHashNone(nHashType) == nHashType % 32 = SIGHASH_NONE

\* The code without its separators: the size announced, and what is written up
\* to where reading stopped.
Kept(code, pc, r, from) ==
  (IF r.ok /\ r.opcode = OP_CODESEPARATOR THEN <<>> ELSE SubSeq(code, pc + 1, r.pc))
  \o (IF r.ok THEN from[r.pc] ELSE <<>>)
ScriptCode(code) ==
  LET kept[pc \in 0 .. Len(code)] == Kept(code, pc, GetOp2(code, pc), kept)
  IN [size |-> Len(code) - Find(code, OP_CODESEPARATOR), bytes |-> kept[0]]

\* Slip: the sequences of the other inputs are always signed.
SignedInputStrict(tx, code, nInput, nIn, nHashType) ==
  LET in == tx.vin[nInput]
  IN [prevout |-> in.prevout,
      script |-> ScriptCode(IF nInput = nIn THEN code ELSE <<>>),
      nSequence |-> in.nSequence]
\* Positions count from 1 here.
SignedInput(tx, code, nInput, nIn, nHashType) ==
  LET in == tx.vin[nInput]
      others == nInput # nIn
  IN [prevout |-> in.prevout,
      script |-> ScriptCode(IF others THEN <<>> ELSE code),
      nSequence |-> IF others /\ (fHashSingle(nHashType) \/ fHashNone(nHashType)) THEN 0
                    ELSE in.nSequence]
SignedInputs(tx, code, nIn, nHashType) ==
  IF fAnyoneCanPay(nHashType) THEN <<SignedInput(tx, code, nIn, nIn, nHashType)>>
  ELSE [i \in DOMAIN tx.vin |-> SignedInput(tx, code, i, nIn, nHashType)]
SignedOutputs(tx, nIn, nHashType) ==
  IF fHashNone(nHashType) THEN <<>>
  ELSE IF fHashSingle(nHashType)
    THEN [i \in 1 .. nIn |-> IF i = nIn THEN tx.vout[i] ELSE NullTxOut]
  ELSE tx.vout

One == <<"one">>
SignatureHash(code, tx, nIn, nHashType) ==
  IF nIn > Len(tx.vin) \/ (fHashSingle(nHashType) /\ nIn > Len(tx.vout)) THEN One
  ELSE <<tx.nVersion, SignedInputs(tx, code, nIn, nHashType), SignedOutputs(tx, nIn, nHashType),
         tx.nLockTime, nHashType>>
=============================================================================
