------------------------------ MODULE Settings ------------------------------
(***************************************************************************)
(* The options of the command line (src/src/bitcoin/util.cpp:236-334).     *)
(* ParseParameters fills mapArgs and then walks through it in the order of *)
(* the names, inserting -foo for --foo and for -nofoo into the very map it *)
(* walks through: what it inserts behind the iterator is never visited.    *)
(*                                                                         *)
(* A name is dashes, "no" nos times, and a base that does not begin with   *)
(* "no".  All that matters of a base is whether it sorts before "no" or    *)
(* after it, so bases are numbers: negative ones sort before.              *)
(***************************************************************************)
EXTENDS Integers, Sequences, FiniteSets

CONSTANTS Bases,     \* what names end with
          MaxDashes, MaxNos,
          Values,    \* what is written after "=", or "" if nothing is
          MaxArgs,   \* bound on the arguments of one command line
          MaxSoft    \* bound on the options set by SoftSetArg

ASSUME ValueAssumption == Values \subseteq {"", "0", "1"}
\* No base is 0, which is NoEntry's.
ASSUME NameAssumption ==
  Bases \subseteq Int \ {0} /\ MaxDashes \in Nat /\ MaxNos \in Nat /\ MaxArgs \in Nat

VARIABLES mapArgs, mapMultiArgs,
          pc,        \* "parse", "expand", or "ready": ParseParameters is back
          entry,     \* where the iterator of the second loop is, or NoEntry
          argc,      \* arguments parsed
          soft       \* options set by SoftSetArg

vars == <<mapArgs, mapMultiArgs, pc, entry, argc, soft>>

Names == [dashes : 1 .. MaxDashes, nos : 0 .. MaxNos, base : Bases]
NoEntry == [dashes |-> MaxDashes + 1, nos |-> 0, base |-> 0]
Empty == <<>>   \* the map without entries

Given == DOMAIN mapMultiArgs
SingleDash(name) == [name EXCEPT !.dashes = @ - 1]
Positive(name) == [name EXCEPT !.nos = @ - 1]
IsDouble(name) == name.dashes >= 2
IsNegative(name) == name.dashes = 1 /\ name.nos >= 1

\* The order of the keys of the map: "-" sorts before every letter.
Precedes(a, b) ==
  \/ a.dashes > b.dashes
  \/ a.dashes = b.dashes /\
     \/ a.base < 0 /\ b.base > 0
     \/ a.base < 0 /\ b.base < 0 /\ a.nos < b.nos
     \/ a.base > 0 /\ b.base > 0 /\ a.nos > b.nos
     \/ a.base < b.base /\ a.nos = b.nos

Ahead == {n \in DOMAIN mapArgs : Precedes(entry, n)}

\* GetBoolArg: an option without a value is on.
IsOn(value) == value # "0"
Negation(value) == IF IsOn(value) THEN "0" ELSE "1"

\* The map with map[name] = value.
With(map, name, value) ==
  [n \in DOMAIN map \union {name} |-> IF n = name THEN value ELSE map[n]]
SetIfAbsent(map, name, value) ==
  IF name \in DOMAIN map THEN map ELSE With(map, name, value)

-----------------------------------------------------------------------------
Init ==
  /\ mapArgs = Empty /\ mapMultiArgs = Empty
  /\ pc = "parse" /\ entry = NoEntry
  /\ argc = 0 /\ soft = {}

ParseParameters ==
  /\ pc = "ready"
  /\ mapArgs' = Empty /\ mapMultiArgs' = Empty
  /\ pc' = "parse" /\ entry' = NoEntry
  /\ argc' = 0 /\ soft' = {}

\* One turn of the first loop.
ParseOption(name, value) ==
  /\ pc = "parse" /\ argc < MaxArgs
  /\ mapArgs' = With(mapArgs, name, value)
  /\ mapMultiArgs' =
       With(mapMultiArgs, name,
            Append(IF name \in Given THEN mapMultiArgs[name] ELSE <<>>, value))
  /\ argc' = argc + 1
  /\ UNCHANGED <<pc, entry, soft>>

\* The arguments are at their end, or one does not begin with a dash.
ParseEnds ==
  /\ pc = "parse"
  /\ pc' = "expand"
  /\ UNCHANGED <<mapArgs, mapMultiArgs, entry, argc, soft>>

InterpretNegativeSetting(map, name) ==
  IF IsNegative(name) THEN SetIfAbsent(map, Positive(name), Negation(map[name])) ELSE map

\* Slip: the iterator goes on from the entry just inserted.
AdvanceFromInserted(n) == entry' = IF IsDouble(n) THEN SingleDash(n) ELSE n

\* Slip: the iterator is not advanced.
AdvanceForgotten(n) == entry' = entry

Advance(n) == entry' = n

\* One turn of the second loop.
Expand(n) ==
  /\ pc = "expand"
  /\ n \in Ahead /\ \A other \in Ahead \ {n} : Precedes(n, other)
  /\ Advance(n)
  /\ LET name == IF IsDouble(n) THEN SingleDash(n) ELSE n
         map == IF IsDouble(n) THEN SetIfAbsent(mapArgs, name, mapArgs[n]) ELSE mapArgs
     IN mapArgs' = InterpretNegativeSetting(map, name)
  /\ UNCHANGED <<mapMultiArgs, pc, argc, soft>>

ExpandEnds ==
  /\ pc = "expand" /\ Ahead = {}
  /\ pc' = "ready"
  /\ UNCHANGED <<mapArgs, mapMultiArgs, entry, argc, soft>>

SoftSetArg(name, value) ==
  /\ pc = "ready" /\ Cardinality(soft) < MaxSoft
  /\ mapArgs' = SetIfAbsent(mapArgs, name, value)
  /\ soft' = IF name \in DOMAIN mapArgs THEN soft ELSE soft \union {name}
  /\ UNCHANGED <<mapMultiArgs, pc, entry, argc>>

Next ==
  \/ ParseParameters \/ ParseEnds \/ ExpandEnds
  \/ \E name \in Names, value \in Values :
       ParseOption(name, value) \/ SoftSetArg(name, value)
  \/ \E n \in Names : Expand(n)

Spec == Init /\ [][Next]_vars
-----------------------------------------------------------------------------
LastOf(list) == list[Len(list)]

\* The names a given option stands for.
StandsFor(n) ==
  CASE IsDouble(n) -> {SingleDash(n)} \union
                        (IF IsNegative(SingleDash(n)) THEN {Positive(SingleDash(n))} ELSE {})
    [] IsNegative(n) -> {Positive(n)}
    [] OTHER -> {}

\* Every map has names and values, and what the user gave is in both.
TypeOK ==
  /\ DOMAIN mapArgs \subseteq Names /\ Given \subseteq DOMAIN mapArgs
  /\ \A n \in DOMAIN mapArgs : mapArgs[n] \in {"", "0", "1"}
  /\ \A n \in Given : mapMultiArgs[n] \in Seq(Values) \ {<<>>}
  /\ pc \in {"parse", "expand", "ready"}
  /\ entry \in Names \union {NoEntry}
  /\ argc \in 0 .. MaxArgs
  /\ soft \subseteq DOMAIN mapArgs \ Given

\* What the user wrote last for a name is what the name says, whatever other
\* spellings were expanded into mapArgs and whatever SoftSetArg set later.
GivenStays == \A n \in Given : mapArgs[n] = LastOf(mapMultiArgs[n])

\* No option the user gave is forgotten by the walk through the growing map:
\* in the end -foo is there for --foo, --nofoo and -nofoo.
GivenExpanded == pc = "ready" => \A n \in Given : StandsFor(n) \subseteq DOMAIN mapArgs

\* An option derived from its negative is the opposite of it, also if there are
\* several spellings of the negative that disagree among themselves.
NegationAgrees ==
  \A n \in DOMAIN mapArgs :
    /\ pc = "ready" /\ IsNegative(n)
    /\ {n, Positive(n)} \subseteq DOMAIN mapArgs \ soft
    /\ \A d \in 1 .. MaxDashes : [Positive(n) EXCEPT !.dashes = d] \notin Given
    => mapArgs[Positive(n)] = Negation(mapArgs[n])

\* The walk ends although it adds to what it walks through.
ExpansionEnds == pc = "expand" ~> pc = "ready"

\* util.cpp:282, "interpret --foo as -foo (as long as both are not set)".
DoubleDashIsSingle ==
  pc = "ready" =>
    \A n \in Given : IsDouble(n) /\ SingleDash(n) \notin Given
                       => mapArgs[SingleDash(n)] = LastOf(mapMultiArgs[n])

\* ParseParameters keeps, of what the user gave, every value under its name and
\* every name it stands for, and what it derives does not contradict them.
GivenKept == TypeOK /\ GivenStays /\ GivenExpanded /\ NegationAgrees
=============================================================================
