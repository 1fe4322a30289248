----------------------------- MODULE MCScripts -----------------------------
(***************************************************************************)
(* Bytes and opcodes are the real ones.  Hashes and points of the curve    *)
(* are toys: half of the compressed keys are points.                       *)
(***************************************************************************)
EXTENDS Scripts

Fill(n, b) == [i \in 1 .. n |-> b]

MCHash160(v) ==
  [i \in 1 .. HashBytes |-> (i * 7 + Len(v) + (IF v = <<>> THEN 0 ELSE 3 * v[1] + v[Len(v)])) % Radix]
MCExpand(key) ==
  IF key[33] % 2 = 1 THEN <<>>
  ELSE <<4>> \o SubSeq(key, 2, 33) \o Fill(31, 9) \o <<10 + (key[1] % 2)>>

K1 == <<2>> \o Fill(31, 5) \o <<4>>
K2 == <<3>> \o Fill(31, 172) \o <<7>>
K3 == MCExpand(<<3>> \o Fill(31, 1) \o <<6>>)
NotAPoint == [K3 EXCEPT ![65] = 12]
MCKeys == {K1, K3, NotAPoint, Fill(33, 5)}
MCHashes == {Fill(20, 118)}
MCNumbers == {-1000, -1, 0, 16, 128}
MCBlobs == {<<>>, <<5>>, <<17>>, Fill(32, 172), Fill(75, 1), Fill(76, 76), Fill(255, 75), Fill(256, 60)}
MCOpcodes == {2, OP_PUSHDATA1, OP_1, OP_RETURN, OP_CHECKSIG, OP_CHECKMULTISIG}
MCMultisigs ==
  {<<1, <<K1>>>>, <<2, <<K1, K2>>>>, <<2, <<K1, K3, K2>>>>, <<3, <<K1, K2>>>>, <<0, <<K1>>>>,
   <<1, <<>>>>, <<4, <<K1, K1, K2, K2>>>>}

Paid == {<<>>, ForDestination(KeyID(Fill(20, 1))), ForDestination(ScriptID(Fill(20, 2))),
         PushKey(K1) \o <<OP_CHECKSIG>>, PushKey(K3) \o <<OP_CHECKSIG>>, PushKey(NotAPoint) \o <<OP_CHECKSIG>>,
         ForMultisig(2, <<K1, K2>>), Fill(22, OP_DUP) \o PushData(Fill(99, OP_DUP))}
MCWhence == Paid

\* Signatures, each with one byte changed.
Der(R, S) == <<48, Len(R) + Len(S) + 4, 2, Len(R)>> \o R \o <<2, Len(S)>> \o S \o <<1>>
Signatures == {Der(R, S) : R, S \in {<<1>>, <<0, 128>>, <<0, 1>>}}
Damaged == UNION {{[v EXCEPT ![i] = b] : i \in DOMAIN v, b \in {0, 2, 131}} : v \in Signatures}
\* Scripts cut short, or with a byte more.
Cut == {SubSeq(s, 1, Lesser(n, Len(s))) : s \in Paid, n \in {2, 22, 24, 66}} \cup {Append(s, OP_EQUAL) : s \in Paid}
Long == {<<OP_PUSHDATA4, 3, 0, 0, 0, 1, 2, 3>>, <<OP_PUSHDATA4, 3, 0, 0, 0, 1, 2>>, <<OP_PUSHDATA4, 3, 0>>,
         <<OP_PUSHDATA2, 0, 1>> \o Fill(256, 60), <<OP_PUSHDATA2, 255, 0>> \o Fill(255, 60), <<OP_PUSHDATA2, 7>>,
         <<OP_PUSHDATA1, 75>> \o Fill(75, 1), <<OP_RETURN>> \o PushData(Fill(41, 1)), <<OP_RETURN, OP_DUP>>,
         <<OP_CHECKSIG, OP_CHECKSIG, 1, OP_CHECKSIG, 1, OP_CHECKSIG, 3, OP_CHECKSIG>>}
AlmostKeys == {[K3 EXCEPT ![1] = 6], [K1 EXCEPT ![1] = 4], SubSeq(K3, 1, 33), Append(K3, 0)}
MCBytes == {PushData(v) : v \in AlmostKeys} \cup Signatures \cup Damaged \cup Cut \cup Long

\* Bounds: two items pushed; what was pushed last, or came from elsewhere, is
\* only deleted from.
View == <<script, items, made>>
Known == items # Unknown
Grown == (Known /\ Len(items) < 2) \/ last'.what = "delete"
=============================================================================
