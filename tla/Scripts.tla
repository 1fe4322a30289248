------------------------------ MODULE Scripts ------------------------------
(***************************************************************************)
(* A CScript under the calls that change it (src/src/bitcoin/script.h,     *)
(* script.cpp), and what every question about it answers meanwhile.        *)
(***************************************************************************)
EXTENDS Standard
LOCAL INSTANCE SequencesExt

CONSTANTS Numbers,        \* integers pushed
          Blobs,          \* vectors of bytes pushed
          Opcodes,        \* opcodes pushed
          Hashes,         \* hashes pushed, and paid to
          Keys,           \* public keys pushed
          Multisigs,      \* arguments of SetMultisig: <<nRequired, keys>>
          Bytes,          \* scripts made of bytes from elsewhere
          Whence          \* scripts to append and, compressed, to read

VARIABLES script,
          items,   \* what was put into it since it was empty, or Unknown
          made,    \* what SetDestination or SetMultisig made it for, if that is all
          last     \* the operation

vars == <<script, items, made, last>>

Unknown == "unknown"
Nothing == [what |-> "nothing"]
Item(kind, value) == <<kind, value>>

Init ==
  /\ \/ script = <<>> /\ items = <<>>
     \/ script \in Bytes /\ items = Unknown
  /\ made = Nothing /\ last = Nothing

Becomes(s, its, m) == script' = s /\ items' = its /\ made' = m
Push(bytes, item) ==
  /\ Becomes(script \o bytes, IF items = Unknown THEN Unknown ELSE Append(items, item), Nothing)
  /\ last' = Nothing

PushNumber(n) ==
  \/ Push(push_int64(n), Item("number", n))
  \/ n >= 0 /\ Push(push_uint64(n), Item("number", n))
\* An instruction that takes operands takes them from what comes after.
PushOpcode(o) ==
  IF o \in 1 .. OP_PUSHDATA4
    THEN Becomes(script \o PushOp(o), Unknown, Nothing) /\ last' = Nothing
    ELSE Push(PushOp(o), Item("opcode", o))
PushBlob(v) == Push(PushData(v), Item("blob", v))
PushPlain(v) == Push(PushHash(v), Item("blob", v)) /\ v \in Hashes
PushPubKey(k) == Push(PushKey(PubKey(k)), Item("blob", PubKey(k)))
Join(s) ==
  Becomes(script \o s, IF s = <<>> THEN items ELSE Unknown, Nothing) /\ last' = Nothing

Delete(b) ==
  Becomes(FindAndDelete(script, b), Unknown, Nothing) /\ last' = [what |-> "delete", of |-> b]

SetDestination(d) ==
  Becomes(ForDestination(d), Unknown, [what |-> "destination", of |-> d]) /\ last' = Nothing
SetMultisig(n, keys) ==
  Becomes(ForMultisig(n, keys), Unknown, [what |-> "multisig", of |-> <<n, keys>>]) /\ last' = Nothing

\* A script is read over this one.
Unserialize(s) ==
  /\ Becomes(ReadScript(s, script).value, Unknown, Nothing)
  /\ last' = [what |-> "read", of |-> s]

Destinations == {NoDestination} \cup {KeyID(h) : h \in Hashes} \cup {ScriptID(h) : h \in Hashes}
Next ==
  \/ \E n \in Numbers : PushNumber(n)
  \/ \E o \in Opcodes : PushOpcode(o) \/ Delete(PushOp(o))
  \/ \E v \in Blobs : PushBlob(v) \/ Delete(PushData(v))
  \/ \E v \in Hashes : PushPlain(v)
  \/ \E k \in Keys : PushPubKey(k)
  \/ \E s \in Whence : Join(s) \/ Unserialize(WriteScript(s))
  \/ \E d \in Destinations : SetDestination(d)
  \/ \E m \in Multisigs : SetMultisig(m[1], m[2])

Spec == Init /\ [][Next]_vars

-----------------------------------------------------------------------------
\* Bytes, the items known of, and what the script was made for.
TypeOK ==
  /\ script \in Seq(Byte)
  /\ items = Unknown \/ \A i \in DOMAIN items : items[i][1] \in {"number", "blob", "opcode"}
  /\ made.what \in {"nothing", "destination", "multisig"}

\* An instruction read back is the item pushed.
Is(r, item) ==
  CASE item[1] = "opcode" -> r.opcode = item[2]
    [] item[1] = "blob" -> r.opcode <= OP_PUSHDATA4 /\ r.data = item[2]
    [] item[1] = "number" ->
         IF r.opcode > OP_PUSHDATA4 THEN r.opcode - (OP_1 - 1) = item[2]
         ELSE /\ Len(r.data) <= 4 => CastToBigNum(r.data) = item[2]
              /\ CastToBool(r.data) = (item[2] # 0)

AreItems(read) ==
  Len(read) = Len(items) /\ \A i \in DOMAIN items : read[i].ok /\ Is(read[i], items[i])

\* script.h:256-397, whatever is pushed, of whatever length, is what GetOp reads:
\* no push is taken for more or fewer instructions, or swallows the next.
PushesReadBack == items # Unknown => AreItems(Reads(script))

\* HasCanonicalPushes objects to what operator<< makes only if a vector of one
\* small byte was pushed, for which there is an opcode.
CanonicalUnlessTiny ==
  items # Unknown =>
    (HasCanonicalPushes(script) <=>
       \A i \in DOMAIN items :
         items[i][1] = "blob" => ~(Len(items[i][2]) = 1 /\ items[i][2][1] <= 16))

Advances(pc, r) ==
  r.pc <= Len(script) /\ (r.ok => r.pc > pc /\ (r.data # <<>> => pc + 1 + Len(r.data) <= r.pc))

\* Reading from any position of any bytes stays within the script and moves on.
StaysInside == \A pc \in 0 .. Len(script) : Advances(pc, GetOp2(script, pc))

Erases(one, before, after) ==
  LET Plain(r) == <<r.ok, r.opcode, r.data>>
      left == SelectSeq(before, LAMBDA r : Plain(r) # Plain(one))
  IN one.ok => [i \in DOMAIN after |-> Plain(after[i])] = [i \in DOMAIN left |-> Plain(left[i])]

\* FindAndDelete of one instruction erases every one that has these bytes, and
\* nothing else of any script.
DeletesExactly ==
  [][last'.what = "delete" =>
       \A before \in {Reads(script)}, after \in {Reads(script')} :
         Erases(Reads(last'.of)[1], before, after)]_vars

\* The script for a destination is standard and gives the destination back.
DestinationReadBack ==
  made.what = "destination" /\ made.of # NoDestination =>
    IsStandard(script) /\ ExtractDestination(script) = made.of

SaysMultisig(nRequired, keys, solved, r) ==
  LET good == nRequired \in 1 .. Len(keys)
  IN /\ r.ok <=> good
     /\ good => /\ r.nRequired = nRequired
                /\ r.addresses = [i \in DOMAIN keys |-> KeyID(GetID(keys[i]))]
                /\ ScriptSigArgsExpected("multisig", solved.solutions) = nRequired + 1
     /\ IsStandard(script) <=> good /\ Len(keys) <= 3
     /\ GetSigOpCount(script, TRUE) = IF keys = <<>> THEN 20 ELSE Len(keys)

\* A script that needs m of n keys says so: its keys come back in order, it is
\* standard for up to three, and its signature checks are n.
MultisigReadBack ==
  made.what = "multisig" =>
    SaysMultisig(made.of[1], made.of[2], Solver(script), ExtractDestinations(script))

\* The signature checks behind a script hash are those of the last push, if it
\* is spent by pushes alone; the quick count is never smaller than the accurate.
RedeemCounted ==
  /\ GetSigOpCount(script, FALSE) >= GetSigOpCount(script, TRUE)
  /\ LET pushes == IsPushOnly(script)
     IN Whole(script) => \A h \in Hashes, s \in Whence :
          RedeemSigOps(ForDestination(ScriptID(h)), script \o PushData(s)) =
            IF pushes THEN GetSigOpCount(s, TRUE) ELSE 0

IsCompressed(bytes) ==
  /\ \A s \in Whence : ReadScript(bytes, s) = Got(script, <<>>)
  /\ Len(bytes) = ScriptSize(script)

\* The compressed form of any script is read as the script, over another one
\* too, and has the size announced.
CompressedReadBack == IsCompressed(WriteScript(script))

HasOneForm(matches, r) ==
  /\ IsPayToScriptHash(script) <=> IsToScriptID(script)
  /\ IsPayToScriptHash(script) => \A i \in DOMAIN matches : ~matches[i].matched
  /\ r.ok /\ r.type = "nulldata" => IsUnspendable(script)
  /\ r.ok /\ IsUnspendable(script) => r.type = "nulldata" /\ DestinationOf(r) = NoDestination

\* script.cpp:1301 and :1858-1865, a script is of one form only: what pays to a
\* hash matches no template and is what the compressor takes for it, and data that
\* is carried cannot be spent.
OneForm == HasOneForm(AllMatches(Reads(script)), Solver(script))

Shortest(v) ==
  LET n == ValueOf(Reverse(v))
  IN v = IF n = 0 THEN <<0>> ELSE Reverse(getvch(n))

\* script.cpp:256-260, "<30> <total len> <02> <len R> <R> <02> <len S> <S>
\* <hashtype>", R and S the shortest form of numbers that are not negative.
SignatureForm ==
  Len(script) <= 14 =>
    (IsCanonicalSignature(script, FALSE) <=>
       \E lenR, lenS \in 1 .. 4 :
         LET R == SubSeq(script, 5, 4 + lenR)
             S == SubSeq(script, 7 + lenR, 6 + lenR + lenS)
         IN /\ Len(script) = lenR + lenS + 7
            /\ script = <<48, lenR + lenS + 4, 2, lenR>> \o R \o <<2, lenS>> \o S \o <<script[Len(script)]>>
            /\ script[Len(script)] \in {1, 2, 3, 129, 130, 131}
            /\ Shortest(R) /\ Shortest(S))

\* What IsCanonicalPubKey accepts of the data pushed is what CPubKey takes for
\* a key, but for the two hybrid forms.
KeyForm ==
  \A v \in {r.data : r \in ToSet(Reads(script))} :
    Len(v) >= 33 => (IsCanonicalPubKey(v) <=> PubKey(v) # <<>> /\ v[1] \notin {6, 7})

\* The bytes of a script are the instructions pushed, read within its end.
PushesAreInstructions == TypeOK /\ PushesReadBack /\ CanonicalUnlessTiny /\ StaysInside

\* The forms that are recognised are those that are made: a script is taken for
\* what it was made for, compressed or not, and for nothing else.
FormsAreRecognised ==
  /\ DestinationReadBack /\ MultisigReadBack /\ RedeemCounted /\ CompressedReadBack
  /\ OneForm /\ SignatureForm /\ KeyForm
=============================================================================
