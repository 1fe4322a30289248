--------------------------- MODULE MCTransactions ---------------------------
(***************************************************************************)
(* Transactions, and the stream in memory that they are written to and     *)
(* read from; they share no state.                                         *)
(* Bytes are the real ones; a uint64_t has 17 bits, money is below 20001,  *)
(* amounts are compressed by their zeroes in base 4, and an unsigned int   *)
(* has one byte in an undo record.                                         *)
(***************************************************************************)
EXTENDS Transactions, DataStream

Fill(n, b) == [i \in 1 .. n |-> b]
MCHash160(v) == Fill(HashBytes, Len(v) % 7)
MCExpand(key) == <<4>> \o SubSeq(key, 2, 33) \o Fill(31, 9) \o <<10 + (key[1] % 2)>>

P1 == OutPoint("a", 0)
P2 == OutPoint("a", 1)
ToKey == ForDestination(KeyID(Fill(20, 1)))
MCOutPoints == {P1, P2}
MCScripts == {ToKey}
MCSequences == {0, 2}
MCValues == {545, 546, 20000}
Code == <<OP_1, OP_CODESEPARATOR, OP_CHECKSIG>>
MCCodes ==
  {Code, <<>>, <<OP_CODESEPARATOR, OP_CODESEPARATOR>>, <<2, OP_CODESEPARATOR, 1, OP_CODESEPARATOR, OP_1>>,
   <<OP_CODESEPARATOR, OP_1, 5, OP_CODESEPARATOR>>, <<OP_1, OP_PUSHDATA2, OP_CODESEPARATOR>>}
MCHashTypes == {1, 2, 3, 129, 130, 131}

MCBases ==
  {NullTx,
   Tx(1, <<TxIn(P1, <<>>, 3)>>, <<TxOut(7, ToKey)>>, 0),
   Tx(1, <<TxIn(P1, Fill(111, 1), 3), TxIn(P2, <<>>, 1)>>, <<TxOut(20000, <<>>)>>, 0),
   Tx(2, <<TxIn(P2, <<>>, 0), TxIn(P1, <<>>, 2)>>, <<TxOut(7, <<>>), TxOut(1, <<>>)>>, 1)}

K == <<4>> \o Fill(63, 9) \o <<10>>
ToPubKey == <<65>> \o K \o <<OP_CHECKSIG>>
MCUndos ==
  {Undo(TxOut(500, ToKey), TRUE, h, n) : h \in {0, 1, 127, 128}, n \in {0, 300, -1}}
  \cup {Undo(TxOut(v, s), FALSE, 1, 1) : v \in {-1, 0, 20000}, s \in {<<>>, ToPubKey}}

\* Bounds: a transaction is signed as it is at the beginning, and of its four
\* parts one is changed then; the code matters only as it is signed.  Without a
\* signature transactions, or undo records, are read over each other.
MCNext ==
  \/ tx \in Bases /\ signed = NotSigned /\ undo = NullUndo /\ Signing
  \/ signed # NotSigned /\ Editing
  \/ signed = NotSigned /\ undo = NullUndo /\ Reading
  \/ signed = NotSigned /\ tx = NullTx /\ Undoing
Changed == {f \in DOMAIN tx : tx[f] # signed.tx[f]}
Near ==
  signed # NotSigned =>
    /\ Cardinality(Changed) <= 1
    /\ signed.code # Code => Changed = {} /\ signed.nIn = 1 /\ signed.nHashType = 1

\* Bound: of the two parts one is as it was at first, the stream beside one
\* transaction, and a transaction beside the empty stream.
Longest == CHOOSE t \in Bases : t.nLockTime = 1
StoredInit == Init /\ StreamInit /\ (vch = <<>> \/ tx = Longest)
StoredNext ==
  \/ StreamInit /\ vch = <<>> /\ MCNext /\ Near' /\ UNCHANGED streamVars
  \/ tx = Longest /\ signed = NotSigned /\ undo = NullUndo /\ StreamNext /\ UNCHANGED vars
StoredSpec == StoredInit /\ [][StoredNext]_<<vars, streamVars>>
=============================================================================
