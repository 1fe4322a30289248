------------------------------- MODULE MCNode -------------------------------
EXTENDS Node
LOCAL INSTANCE SequencesExt

MCBases == {-1, 1, 2}

\* The test network and the regression test network have the same version
\* bytes; those of extended keys are longer.
MCNetPrefix(n, t) ==
  LET test == IF n = "main" THEN 0 ELSE 1
  IN CASE t = "PUBKEY_ADDRESS" -> <<0 + 7 * test>>
       [] t = "SCRIPT_ADDRESS" -> <<5 + 7 * test>>
       [] t = "SECRET_KEY" -> <<8 + 7 * test>>
       [] t = "EXT_PUBLIC_KEY" -> <<4, 3 + test>>
       [] t = "EXT_SECRET_KEY" -> <<4, 9 + test>>
MCChecksum(bytes) == <<FoldLeft(LAMBDA sum, b : ((3 * sum) + b + 1) % 16, 5, bytes)>>
MCSecretOf(bytes) == bytes # <<0, 0>>
MCIds == {<<0>>, <<7>>, <<15>>}
MCSecrets == {<<0, 0>>, <<0, 1>>, <<9, 1>>}
MCExtKeys == {<<0, 2, 1>>, <<14, 0, 0>>}

\* Texts: valid ones, what one wrong character makes of them, and all short ones.
Payloads ==
  {Base58Data(MCNetPrefix(n, t), id) : n \in Networks, t \in {"PUBKEY_ADDRESS", "SCRIPT_ADDRESS"}, id \in MCIds}
  \union {Base58Data(MCNetPrefix(n, "SECRET_KEY"), s \o mark) :
            n \in Networks, s \in MCSecrets, mark \in {<<>>, <<1>>, <<2>>}}
  \union {Base58Data(MCNetPrefix(n, t), k) : n \in Networks, t \in Extended, k \in MCExtKeys}
Characters == 0 .. Base - 1 \union {Space, OtherChar}
Damaged(t) ==
  {[t EXCEPT ![i] = c] : i \in DOMAIN t, c \in {0, 3, Space, OtherChar}}
    \union {SubSeq(t, 1, i) \o <<c>> \o SubSeq(t, i + 1, Len(t)) : i \in 0 .. Len(t), c \in {0, Space}}
    \union {RemoveAt(t, i) : i \in DOMAIN t}
MCTexts ==
  LET valid == {ToText(b) : b \in Payloads}
  IN valid \union UNION {Damaged(t) : t \in valid} \union UNION {[1 .. n -> Characters] : n \in 0 .. 3}
FewTexts == {<<>>, <<Space>>, <<1, 2, 3>>} \union {ToText(Base58Data(MCNetPrefix("main", "PUBKEY_ADDRESS"), <<7>>))}

\* What peers send: lengths that are right, wrong, doubled, negative, too large
\* or no number, and every way to say whether the connection stays.
Len_(n) == Header("content-length", n)
MCReplies ==
  { Reply(200, 1, <<Len_(2)>>, <<1, 2>>), Reply(500, 0, <<Len_(1), Header("connection", KeepAlive)>>, <<1>>),
    Reply(200, 1, <<Header("connection", Close)>>, <<>>), Reply(200, 0, <<>>, <<>>),
    Reply(200, 0, <<Header("connection", Other), Len_(1)>>, <<1, 2>>), Reply(200, 1, <<Len_(2)>>, <<1>>),
    Reply(200, 1, <<Len_(2), Len_(1)>>, <<1, 2>>), Reply(200, 1, <<Len_(-1)>>, <<>>),
    Reply(401, 1, <<Len_(4)>>, <<1, 1, 1, 1>>), Reply(200, 1, <<Len_(Other), Header("x", Other)>>, <<>>) }

\* Bounds.  Three options are of one base or two; the program sets plain ones.
Few(name) == argc = 2 => name.base \in {n.base : n \in Given}
Plain(name) == name.dashes = 1 /\ name.nos = 0
MCStart ==
  \/ UNCHANGED network /\ chosen' = "not called" /\
       \/ pc # "parse" /\ ParseParameters
       \/ pc # "ready" /\ (ParseEnds \/ ExpandEnds \/ \E n \in Names : Expand(n))
       \/ pc = "parse" /\ argc < MaxArgs /\ \E name \in Names, value \in Values : Few(name) /\ ParseOption(name, value)
       \/ pc = "ready" /\ \E name \in Names, value \in Values : Plain(name) /\ SoftSetArg(name, value)
  \/ soft = {} /\ SelectParamsFromCommandLine
\* Objects are told something once, or twice if the second is one of few texts.
MCAddr ==
  \/ class = "none" /\ \E c \in Classes : Create(c)
  \/ last.by = "nothing" /\ class = "address" /\ \E dest \in Destinations : SetDestination(dest)
  \/ class = "address" /\ SetDestination(CNoDestination)
  \/ last.by = "nothing" /\ class = "secret" /\ \E key \in Keys : SetSecretKey(key)
  \/ last.by = "nothing" /\ class \in Extended /\ \E bytes \in ExtKeys : SetExtKey(bytes)
  \/ last.by = "nothing" /\ class # "none" /\ \E text \in Texts : ReadText(text)
  \/ last.by = "value" /\ \E text \in FewTexts : ReadText(text)
  \/ last.by = "value" /\ \E spaces \in {<<>>, <<Space>>} : ReadBack(spaces)
  \/ \E n \in Networks : ChangeNetwork(n)
\* Of the three parts two are as they were at first.
Fresh == argc = 0 /\ pc = "parse" /\ chosen = "not called"
MCNext ==
  \/ class = "none" /\ replies = <<>> /\ MCStart /\ UNCHANGED <<class, data, last, httpVars>>
  \/ Fresh /\ replies = <<>> /\ MCAddr /\ UNCHANGED <<vars, chosen, httpVars>>
  \/ Fresh /\ class = "none" /\ network = "main" /\ HttpNext /\ UNCHANGED <<startVars, addrVars>>
MCSpec == NodeInit /\ [][MCNext]_nodeVars
            /\ WF_vars(ExpandEnds \/ \E n \in Names : Expand(n))
=============================================================================
