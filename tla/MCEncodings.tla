----------------------------- MODULE MCEncodings -----------------------------
(***************************************************************************)
(* The numbers, and the encodings of what is stored; they share no state.  *)
(* Bytes have two bits, so that a size has 1, 3, 5 or 9 bytes within       *)
(* reach, integers are of four bits, which four digits and more overflow,  *)
(* int64_t has four bytes, and a number three words of two bits.           *)
(***************************************************************************)
EXTENDS Numbers, Serialization

MCOperands == {0, 1, 5, 47, 63}
MCIntegers64 == {-128, -127, -32, -31, -8, -3, -1, 0, 1, 2, 7, 8, 15}
MCDivisors == {-3, -1, 0, 2, 5}
MCShifts == {0, 1, 2, 3, 5, 6}
MCVectors == {<<>>, <<2>>, <<0, 2>>, <<3, 1>>, <<1, 2, 3>>, <<3, 3, 1>>, <<3, 3, 0>>, <<1, 0, 0, 0>>}
MCCompacts ==
  {[size |-> s, negative |-> n, word |-> w] : s \in {0, 1, 2, 3, 4, 6}, n \in BOOLEAN, w \in {0, 1, 8, 17, 31}}
MCTexts ==
  {<<>>, <<1>>, <<1, 0>>, <<0, LetterX, 1, 1>>, <<Space, Space, 1, 1, 0, 1>>, <<Minus, 1, 0, 1>>,
   <<1, 1, OtherChar, 0>>, <<Minus, 0, LetterX, Space, 1>>, <<1, 1, 0, 1, 0, 1, 1, 1, 0>>}

CONSTANTS disk, stdin

MCKind == {"compact", "varint", "string", "vector", "pair", "pairs", "map", "set"}
MCValues ==
  [compact |-> {0, 1, 15, 16, 128}, varint |-> {1, 2, 6, 15}, string |-> {<<>>, <<2, 1, 0>>},
   vector |-> {<<1, 2>>}, pair |-> {<<2, <<3>>>>}, pairs |-> {<<<<1, <<>>>>, <<1, <<2, 3>>>>>>},
   map |-> {[k \in {0, 3} |-> <<k>>]}, set |-> {{}, {1, 3}}]

\* Bounds: one of the two numbers is worked on at a time, a conversion between
\* them ends the run, and a CBigNum stays within a width.
OneAtATime == pn = Zero \/ bn = 0
Conversion == op.name \in {"from bignum", "integer"}
BigBound == Abs(bn) <= 130

\* Bounds: what a file holds at a time, and which file is worked on.  Long
\* contents of any bytes are read, and nothing else is done about them.
Disk == content[disk]
Plain == file = disk /\ ~state /\ open = Handle /\ target["string"] = <<>>
Bound ==
  /\ IF pending[disk] = Unknown THEN Len(Disk) <= 2 \/ (Len(Disk) <= 6 /\ Plain)
     ELSE Len(Disk) <= 12 /\ Len(pending[disk]) <= 2 /\ (Len(Disk) >= 4 => Plain)
  /\ content[stdin] = <<>> \/ (Len(content[stdin]) <= 1 /\ Disk = <<>> /\ file = stdin)

MCExpanded == OneAtATime /\ BigBound
MCStep == OneAtATime' \/ Conversion'

\* What a step on a number does is compared with the promise on every step,
\* and the states it leads to are told apart by the numbers only.  What the
\* variables read into hold makes no difference to what comes next, but for a
\* string that could not be read whole.
MCView == <<pn, bn, file, state, open, content, pending, target["string"] = <<>>>>

\* Bound: of the two parts one is as it was at first.
EncodingsInit == NumbersInit /\ Init
EncodingsNext ==
  \/ file = disk /\ last.op = "none" /\ NumbersNext /\ UNCHANGED vars
  \/ NumbersInit /\ Next /\ Bound' /\ UNCHANGED numberVars
EncodingsSpec == EncodingsInit /\ [][EncodingsNext]_<<numberVars, vars>>
=============================================================================
