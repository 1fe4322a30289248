------------------------------ MODULE Standard ------------------------------
(***************************************************************************)
(* The standard forms of an output script (src/src/bitcoin/script.cpp):    *)
(* recognising them, the destinations in them, the scripts for a           *)
(* destination, and the compressed form of a script.                       *)
(***************************************************************************)
EXTENDS Script
LOCAL INSTANCE SequencesExt

CONSTANT Expand(_)     \* of a compressed key: the whole key, <<>> if there is none

OP_SMALLDATA == 249
OP_SMALLINTEGER == 250
OP_PUBKEYS == 251
OP_PUBKEYHASH == 253
OP_PUBKEY == 254
MAX_OP_RETURN_RELAY == 40

KeySizes == 33 .. 65

\* In the order of the multimap.
Templates ==
  << <<"pubkey", <<OP_PUBKEY, OP_CHECKSIG>>>>,
     <<"pubkeyhash", <<OP_DUP, OP_HASH160, OP_PUBKEYHASH, OP_EQUALVERIFY, OP_CHECKSIG>>>>,
     <<"multisig", <<OP_SMALLINTEGER, OP_PUBKEYS, OP_SMALLINTEGER, OP_CHECKMULTISIG>>>>,
     <<"nulldata", <<OP_RETURN, OP_SMALLDATA>>>>,
     <<"nulldata", <<OP_RETURN>>>> >>

\* An instruction against an opcode of a template, and the solution it gives.
Accepts(t, r) ==
  CASE t = OP_PUBKEY -> Len(r.data) \in KeySizes
    [] t = OP_PUBKEYHASH -> Len(r.data) = HashBytes
    [] t = OP_SMALLINTEGER -> IsSmallInt(r.opcode)
    [] t = OP_SMALLDATA -> Len(r.data) <= MAX_OP_RETURN_RELAY
    [] OTHER -> r.opcode = t /\ r.data = <<>>
Solution(t, r) ==
  CASE t \in {OP_PUBKEY, OP_PUBKEYHASH} -> <<r.data>>
    [] t = OP_SMALLINTEGER -> <<<<DecodeOP_N(r.opcode)>>>>
    [] OTHER -> <<>>

\* What is read of a script, from the k-th instruction on, against a template
\* from its i-th opcode on.
\* OP_PUBKEYS takes the keys there are; what follows them, if only the end of
\* the script, is compared with the opcode after it.
NoMatch == [matched |-> FALSE, solutions |-> <<>>]
Matched(solutions) == [matched |-> TRUE, solutions |-> solutions]
NthRead(ins, k) == IF k <= Len(ins) THEN ins[k] ELSE Broken(Len(ins))
AfterKeys(ins, k) == Min({j \in k .. Len(ins) + 1 : Len(NthRead(ins, j).data) \notin KeySizes})
Joined(keys, t, r, rest) ==
  IF Accepts(t, r) /\ r.ok /\ rest.matched THEN Matched(keys \o Solution(t, r) \o rest.solutions)
  ELSE NoMatch
Match(template, ins) ==
  LET match[i \in 1 .. Len(template) + 1, k \in 1 .. Len(ins) + 1] ==
        LET k2 == AfterKeys(ins, k)
        IN IF k > Len(ins) /\ i > Len(template) THEN Matched(<<>>)
           ELSE IF k > Len(ins) \/ ~ins[k].ok \/ i > Len(template) THEN NoMatch
           ELSE IF template[i] = OP_PUBKEYS
             THEN Joined([j \in 1 .. k2 - k |-> ins[k + j - 1].data],
                         template[i + 1], NthRead(ins, k2), match[i + 2, k2 + 1])
           ELSE Joined(<<>>, template[i], ins[k], match[i + 1, k + 1])
  IN match[1, 1]

Solved(ok, type, solutions) == [ok |-> ok, type |-> type, solutions |-> solutions]

\* m of n keys.
MultisigHolds(solutions) ==
  LET m == solutions[1][1]
      n == Last(solutions)[1]
  IN m >= 1 /\ n >= 1 /\ m <= n /\ Len(solutions) - 2 = n

SolvedAs(type, solutions) == Solved(type = "multisig" => MultisigHolds(solutions), type, solutions)
\* The first template that matches decides.
FirstOf(which, matches) ==
  IF which = {} THEN Solved(FALSE, "nonstandard", <<>>)
  ELSE SolvedAs(Templates[Min(which)][1], matches[Min(which)].solutions)
SolvedBy(matches) == FirstOf({i \in DOMAIN matches : matches[i].matched}, matches)
AllMatches(ins) == [i \in DOMAIN Templates |-> Match(Templates[i][2], ins)]
Solver(s) ==
  IF IsPayToScriptHash(s) THEN Solved(TRUE, "scripthash", <<SubSeq(s, 3, 22)>>)
  ELSE SolvedBy(AllMatches(Reads(s)))

ScriptSigArgsExpected(type, solutions) ==
  CASE type \in {"pubkey", "scripthash"} -> 1
    [] type = "pubkeyhash" -> 2
    [] type = "multisig" /\ solutions # <<>> /\ solutions[1] # <<>> -> solutions[1][1] + 1
    [] OTHER -> -1

StandardAs(r) ==
  /\ r.ok
  /\ r.type = "multisig" =>
       LET n == Last(r.solutions)[1] IN n \in 1 .. 3 /\ r.solutions[1][1] \in 1 .. n
IsStandard(s) == StandardAs(Solver(s))

-----------------------------------------------------------------------------
\* Destinations.
KeyID(hash) == [type |-> "key", hash |-> hash]
ScriptID(hash) == [type |-> "script", hash |-> hash]
NoDestination == [type |-> "none"]

DestinationOf(r) ==
  CASE r.ok /\ r.type = "pubkey" -> KeyID(GetID(PubKey(r.solutions[1])))
    [] r.ok /\ r.type = "pubkeyhash" -> KeyID(r.solutions[1])
    [] r.ok /\ r.type = "scripthash" -> ScriptID(r.solutions[1])
    [] OTHER -> NoDestination
ExtractDestination(s) == DestinationOf(Solver(s))

DestinationsOf(r) ==
  LET keys == SubSeq(r.solutions, 2, Len(r.solutions) - 1)
  IN IF ~r.ok \/ r.type = "nulldata" THEN [ok |-> FALSE]
     ELSE IF r.type = "multisig"
       THEN [ok |-> TRUE, type |-> r.type, nRequired |-> r.solutions[1][1],
             addresses |-> [i \in DOMAIN keys |-> KeyID(GetID(PubKey(keys[i])))]]
     ELSE [ok |-> TRUE, type |-> r.type, nRequired |-> 1, addresses |-> <<DestinationOf(r)>>]
ExtractDestinations(s) == DestinationsOf(Solver(s))

ForDestination(d) ==
  CASE d.type = "none" -> <<>>
    [] d.type = "key" -> <<OP_DUP, OP_HASH160>> \o PushHash(d.hash) \o <<OP_EQUALVERIFY, OP_CHECKSIG>>
    [] d.type = "script" -> <<OP_HASH160>> \o PushHash(d.hash) \o <<OP_EQUAL>>
ForMultisig(nRequired, keys) ==
  <<EncodeOP_N(nRequired)>> \o FlattenSeq([i \in DOMAIN keys |-> PushKey(keys[i])])
  \o <<EncodeOP_N(Len(keys)), OP_CHECKMULTISIG>>

-----------------------------------------------------------------------------
\* The compressed form.
IsToKeyID(s) ==
  /\ Len(s) = 25 /\ s[1] = OP_DUP /\ s[2] = OP_HASH160 /\ s[3] = HashBytes
  /\ s[24] = OP_EQUALVERIFY /\ s[25] = OP_CHECKSIG
IsToScriptID(s) ==
  Len(s) = 23 /\ s[1] = OP_HASH160 /\ s[2] = HashBytes /\ s[23] = OP_EQUAL
\* Slip: a key that is no point of the curve is compressed too.
IsToPubKeyAny(s) ==
  \/ Len(s) = 35 /\ s[1] = 33 /\ s[35] = OP_CHECKSIG /\ s[2] \in {2, 3}
  \/ Len(s) = 67 /\ s[1] = 65 /\ s[67] = OP_CHECKSIG /\ s[2] = 4
IsFullyValid(key) == key[1] = 4 => Expand(<<2 + (key[65] % 2)>> \o SubSeq(key, 2, 33)) = key
IsToPubKey(s) ==
  \/ Len(s) = 35 /\ s[1] = 33 /\ s[35] = OP_CHECKSIG /\ s[2] \in {2, 3}
  \/ Len(s) = 67 /\ s[1] = 65 /\ s[67] = OP_CHECKSIG /\ s[2] = 4 /\ IsFullyValid(SubSeq(s, 2, 66))

Compressible(s) == IsToKeyID(s) \/ IsToScriptID(s) \/ IsToPubKey(s)
Compress(s) ==
  IF IsToKeyID(s) THEN <<0>> \o SubSeq(s, 4, 23)
  ELSE IF IsToScriptID(s) THEN <<1>> \o SubSeq(s, 3, 22)
  ELSE <<IF s[2] = 4 THEN 4 + (s[66] % 2) ELSE s[2]>> \o SubSeq(s, 3, 34)

nSpecialScripts == 6
GetSpecialSize(code) == IF code \in {0, 1} THEN 20 ELSE 32

\* A key that is no point of the curve leaves the script as it was.
Decompress(code, in, old) ==
  CASE code = 0 -> <<OP_DUP, OP_HASH160, HashBytes>> \o in \o <<OP_EQUALVERIFY, OP_CHECKSIG>>
    [] code = 1 -> <<OP_HASH160, HashBytes>> \o in \o <<OP_EQUAL>>
    [] code \in {2, 3} -> <<33, code>> \o in \o <<OP_CHECKSIG>>
    [] OTHER -> LET key == Expand(<<code - 2>> \o in)
                IN IF key = <<>> THEN old ELSE <<65>> \o key \o <<OP_CHECKSIG>>

WriteScript(s) ==
  IF Compressible(s) THEN Compress(s) ELSE WriteVarInt(Len(s) + nSpecialScripts) \o s
ScriptSize(s) ==
  IF Compressible(s) THEN Len(Compress(s)) ELSE GetSizeOfVarInt(Len(s) + nSpecialScripts) + Len(s)
SpecialScript(code, in, old) == IF in.ok THEN Leaving(in, Decompress(code, in.value, old)) ELSE Ended(old)
ScriptOf(code, old) ==
  IF ~code.ok THEN Ended(old)
  ELSE IF code.value < nSpecialScripts
    THEN SpecialScript(code.value, Take(code.rest, GetSpecialSize(code.value)), old)
  ELSE LET size == code.value - nSpecialScripts IN Filled(Take(code.rest, size), old, size)
ReadScript(bytes, old) == ScriptOf(ReadVarInt(bytes, 0), old)
=============================================================================
