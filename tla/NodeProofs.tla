---------------------------- MODULE NodeProofs ----------------------------
(***************************************************************************)
(* Proofs for every set of names and every command line, for networks of   *)
(* any halving interval, for connections with any replies in any number,   *)
(* and for bytes of any number in digits of any base: the map of options   *)
(* (Settings), the network chosen with it (Startup), what blocks pay on it *)
(* (ChainParams), what is read of each reply (Http), numbers and the text  *)
(* of bytes (BigNum, Base58), what is set and read with the version bytes  *)
(* of the network (Addresses), and all of it at once (Node).               *)
(***************************************************************************)
EXTENDS Node, Induction, SequenceTheorems, TLAPS
LOCAL INSTANCE SequencesExt

-----------------------------------------------------------------------------
(***************************************************************************)
(* Names and their order.                                                  *)
(***************************************************************************)
Places == Names \union {NoEntry}

LEMMA NameFields ==
  ASSUME NEW n \in Names
  PROVE  /\ n.dashes \in 1 .. MaxDashes /\ n.nos \in 0 .. MaxNos /\ n.base \in Bases
         /\ n.dashes \in Int /\ n.nos \in Int /\ n.base \in Int /\ n.base # 0
         /\ n.dashes <= MaxDashes /\ n.nos >= 0 /\ n.dashes >= 1
<1>1. n.dashes \in 1 .. MaxDashes /\ n.nos \in 0 .. MaxNos /\ n.base \in Bases
  BY DEF Names
<1>2. n.base \in Int /\ n.base # 0
  BY <1>1, NameAssumption
<1>3. n.dashes \in Int /\ n.dashes <= MaxDashes /\ n.dashes >= 1
  BY <1>1, NameAssumption
<1>4. n.nos \in Int /\ n.nos >= 0
  BY <1>1, NameAssumption
<1> QED
  BY <1>1, <1>2, <1>3, <1>4

LEMMA SameFields ==
  ASSUME NEW a \in Names, NEW b \in Names,
         a.dashes = b.dashes, a.nos = b.nos, a.base = b.base
  PROVE  a = b
BY DEF Names

\* The keys of a map are in a linear order, and NoEntry comes before them.
LEMMA Antisymmetric ==
  ASSUME NEW a \in Names, NEW b \in Names, Precedes(a, b)
  PROVE  a # b /\ ~Precedes(b, a)
BY NameFields DEF Precedes

LEMMA Transitive ==
  ASSUME NEW a \in Names, NEW b \in Names, NEW c \in Names, Precedes(a, b), Precedes(b, c)
  PROVE  Precedes(a, c)
BY NameFields DEF Precedes

LEMMA Linear ==
  ASSUME NEW a \in Names, NEW b \in Names
  PROVE  Precedes(a, b) \/ a = b \/ Precedes(b, a)
BY NameFields, SameFields DEF Precedes

LEMMA NoEntryFirst ==
  ASSUME NEW n \in Names
  PROVE  Precedes(NoEntry, n) /\ ~Precedes(n, NoEntry) /\ n # NoEntry
BY NameFields, NameAssumption DEF Precedes, NoEntry

-----------------------------------------------------------------------------
(***************************************************************************)
(* What a turn of the walk derives.                                        *)
(***************************************************************************)
\* A map that has grown: no entry is lost and none is changed.
Grown(map, new) == DOMAIN map \subseteq DOMAIN new /\ \A n \in DOMAIN map : new[n] = map[n]

LEMMA AbsentSet ==
  ASSUME NEW map, NEW name, NEW value, NEW new, new = SetIfAbsent(map, name, value)
  PROVE  /\ DOMAIN new = DOMAIN map \union {name}
         /\ Grown(map, new)
         /\ name \notin DOMAIN map => new[name] = value
BY DEF SetIfAbsent, With, Grown

LEMMA GrownTwice ==
  ASSUME NEW a, NEW b, NEW c, Grown(a, b), Grown(b, c)
  PROVE  Grown(a, c)
BY DEF Grown

\* The names next to a name.
LEMMA NextNames ==
  ASSUME NEW n \in Names
  PROVE  /\ IsDouble(n) => SingleDash(n) \in Names
         /\ IsNegative(n) => Positive(n) \in Names
         /\ \A d \in 1 .. MaxDashes : [n EXCEPT !.dashes = d] \in Names
BY NameFields, NameAssumption DEF Names, IsDouble, IsNegative, SingleDash, Positive

Name(d, k, b) == [dashes |-> d, nos |-> k, base |-> b]

LEMMA NameForms ==
  ASSUME NEW n \in Names
  PROVE  /\ n = Name(n.dashes, n.nos, n.base)
         /\ SingleDash(n) = Name(n.dashes - 1, n.nos, n.base)
         /\ Positive(n) = Name(n.dashes, n.nos - 1, n.base)
         /\ \A d : [n EXCEPT !.dashes = d] = Name(d, n.nos, n.base)
         /\ \A k : [n EXCEPT !.nos = k] = Name(n.dashes, k, n.base)
BY DEF Names, Name, SingleDash, Positive

LEMMA NameFixpoints ==
  ASSUME NEW n \in Names
  PROVE  /\ [n EXCEPT !.dashes = n.dashes] = n
         /\ IsDouble(n) => \A d : [SingleDash(n) EXCEPT !.dashes = d] = [n EXCEPT !.dashes = d]
         /\ SingleDash(n).dashes = n.dashes - 1
         /\ Positive(n).dashes = n.dashes
         /\ IsNegative(n) => [Positive(n) EXCEPT !.nos = Positive(n).nos + 1] = n
<1>1. n.nos - 1 + 1 = n.nos
  BY NameFields
<1>2. /\ SingleDash(n) = Name(n.dashes - 1, n.nos, n.base)
      /\ Positive(n) = Name(n.dashes, n.nos - 1, n.base)
      /\ n = Name(n.dashes, n.nos, n.base)
  BY NameForms
<1>3. [n EXCEPT !.dashes = n.dashes] = n
  BY NameForms
<1>4. ASSUME IsDouble(n) PROVE \A d : [SingleDash(n) EXCEPT !.dashes = d] = [n EXCEPT !.dashes = d]
  <2>1. SingleDash(n) \in Names
    BY <1>4, NextNames
  <2>2. SingleDash(n).nos = n.nos /\ SingleDash(n).base = n.base
    BY <1>2 DEF Name
  <2> QED
    BY <2>1, <2>2, NameForms
<1>5. SingleDash(n).dashes = n.dashes - 1 /\ Positive(n).dashes = n.dashes
  BY <1>2 DEF Name
<1>6. ASSUME IsNegative(n) PROVE [Positive(n) EXCEPT !.nos = Positive(n).nos + 1] = n
  <2>1. Positive(n) \in Names
    BY <1>6, NextNames
  <2>2. Positive(n).nos = n.nos - 1 /\ Positive(n).base = n.base
    BY <1>2 DEF Name
  <2>3. [Positive(n) EXCEPT !.nos = n.nos] = Name(Positive(n).dashes, n.nos, Positive(n).base)
    BY <2>1, NameForms
  <2> QED
    BY <1>1, <1>2, <1>5, <2>2, <2>3
<1> QED
  BY <1>3, <1>4, <1>5, <1>6

-----------------------------------------------------------------------------
(***************************************************************************)
(* The inductive invariant.                                                *)
(***************************************************************************)
\* Before the walk the map has only what was given, and nothing is soft
\* before the walk is over.
BeforeWalk ==
  /\ pc = "parse" => entry = NoEntry /\ DOMAIN mapArgs = Given
  /\ pc # "ready" => soft = {}

Passed(n) == n = entry \/ Precedes(n, entry)

\* What the iterator has passed has been expanded, and in the end it has
\* passed all that was given, whatever was inserted on the way.
PassedExpanded ==
  /\ pc # "parse" => \A n \in Given : Passed(n) => StandsFor(n) \subseteq DOMAIN mapArgs
  /\ pc = "ready" => \A n \in Given : Passed(n)

GivenSpelling(p) == \E d \in 1 .. MaxDashes : [p EXCEPT !.dashes = d] \in Given
Negative(p) == [p EXCEPT !.nos = p.nos + 1]
Opposite(map, p) ==
  /\ p.dashes = 1 /\ Negative(p) \in DOMAIN map
  /\ map[p] = Negation(map[Negative(p)])

\* Every entry that the walk has made comes from a given spelling of the same
\* name with more dashes, or is the opposite of its negative.
Derived == \A p \in DOMAIN mapArgs \ soft : GivenSpelling(p) \/ Opposite(mapArgs, p)

IInv == TypeOK /\ GivenStays /\ BeforeWalk /\ PassedExpanded /\ Derived

LEMMA NegationAgreesByOrigin == IInv => NegationAgrees
<1> SUFFICES ASSUME IInv, NEW n \in DOMAIN mapArgs, IsNegative(n),
                    Positive(n) \in DOMAIN mapArgs \ soft,
                    \A d \in 1 .. MaxDashes : [Positive(n) EXCEPT !.dashes = d] \notin Given
             PROVE  mapArgs[Positive(n)] = Negation(mapArgs[n])
  BY DEF NegationAgrees
<1>1. n \in Names
  BY DEF IInv, TypeOK
<1>2. ~GivenSpelling(Positive(n))
  BY DEF GivenSpelling
<1>3. Opposite(mapArgs, Positive(n))
  BY <1>2 DEF IInv, Derived
<1>4. Negative(Positive(n)) = n
  BY <1>1, NameFixpoints DEF Negative
<1> QED
  BY <1>3, <1>4 DEF Opposite

LEMMA InvGivesKept == IInv => GivenKept
<1> SUFFICES ASSUME IInv PROVE GivenKept
  OBVIOUS
<1>1. GivenExpanded
  BY DEF IInv, PassedExpanded, GivenExpanded
<1> QED
  BY <1>1, NegationAgreesByOrigin DEF IInv, GivenKept

LEMMA InitIInv == Init => IInv
<1> SUFFICES ASSUME Init PROVE IInv
  OBVIOUS
<1>1. DOMAIN mapArgs = {} /\ DOMAIN mapMultiArgs = {} /\ Given = {}
  BY DEF Init, Empty, Given
<1> QED
  BY <1>1, NameAssumption DEF Init, IInv, TypeOK, GivenStays, BeforeWalk, PassedExpanded, Derived

LEMMA RestartKeeps == IInv /\ ParseParameters => IInv'
<1> SUFFICES ASSUME IInv, ParseParameters PROVE IInv'
  OBVIOUS
<1>1. (DOMAIN mapArgs)' = {} /\ (DOMAIN mapMultiArgs)' = {} /\ Given' = {}
  BY DEF ParseParameters, Empty, Given
<1>2. pc' = "parse" /\ entry' = NoEntry /\ argc' = 0 /\ soft' = {}
  BY DEF ParseParameters
<1>3. TypeOK'
  BY <1>1, <1>2, NameAssumption DEF TypeOK
<1>4. GivenStays' /\ BeforeWalk' /\ PassedExpanded' /\ Derived'
  BY <1>1, <1>2 DEF GivenStays, BeforeWalk, PassedExpanded, Derived
<1> QED
  BY <1>3, <1>4 DEF IInv

\* An argument: the value is the last of its list.
LEMMA ParseOptionKeeps ==
  ASSUME IInv, NEW name \in Names, NEW value \in Values, ParseOption(name, value)
  PROVE  IInv'
<1> DEFINE old == IF name \in Given THEN mapMultiArgs[name] ELSE <<>>
           list == Append(old, value)
<1>1. /\ pc = "parse" /\ argc < MaxArgs /\ mapArgs' = With(mapArgs, name, value)
      /\ mapMultiArgs' = With(mapMultiArgs, name, list) /\ argc' = argc + 1
      /\ UNCHANGED <<pc, entry, soft>>
  BY DEF ParseOption
<1>2. old \in Seq(Values) /\ value \in {"", "0", "1"}
  BY EmptySeq, ValueAssumption DEF IInv, TypeOK
<1> HIDE DEF old
<1>3. list \in Seq(Values) \ {<<>>} /\ LastOf(list) = value
  <2>1. /\ list \in Seq(Values) /\ Len(list) = Len(old) + 1 /\ list[Len(old) + 1] = value
    BY <1>2, AppendProperties
  <2>2. list # <<>>
    BY <2>1, EmptySeq
  <2> QED
    BY <2>1, <2>2 DEF LastOf
<1> HIDE DEF list
<1>4. /\ (DOMAIN mapArgs)' = DOMAIN mapArgs \union {name} /\ Given' = Given \union {name}
      /\ \A n \in DOMAIN mapArgs \ {name} : mapArgs'[n] = mapArgs[n]
      /\ \A n \in Given \ {name} : mapMultiArgs'[n] = mapMultiArgs[n]
      /\ mapArgs'[name] = value /\ mapMultiArgs'[name] = list
  BY <1>1 DEF With, Given
<1>5. DOMAIN mapArgs = Given /\ soft = {} /\ entry = NoEntry
  BY <1>1 DEF IInv, BeforeWalk
<1>6. TypeOK'
  <2>1. argc' \in 0 .. MaxArgs
    <3>1. argc \in 0 .. MaxArgs
      BY DEF IInv, TypeOK
    <3> QED
      BY <1>1, <3>1, NameAssumption
  <2> QED
    BY <1>1, <1>2, <1>3, <1>4, <1>5, <2>1 DEF IInv, TypeOK
<1>7. GivenStays'
  BY <1>3, <1>4, <1>5 DEF IInv, GivenStays
<1>8. BeforeWalk' /\ PassedExpanded'
  BY <1>1, <1>4, <1>5 DEF IInv, BeforeWalk, PassedExpanded
<1>9. Derived'
  <2> SUFFICES ASSUME NEW p \in (DOMAIN mapArgs)' PROVE GivenSpelling(p)'
    BY DEF Derived
  <2>1. p \in Names /\ p \in Given'
    BY <1>4, <1>5 DEF IInv, TypeOK
  <2>2. p.dashes \in 1 .. MaxDashes /\ [p EXCEPT !.dashes = p.dashes] = p
    BY <2>1, NameFields, NameFixpoints
  <2> QED
    BY <2>1, <2>2 DEF GivenSpelling
<1> QED
  BY <1>6, <1>7, <1>8, <1>9 DEF IInv

LEMMA ParseEndsKeeps == IInv /\ ParseEnds => IInv'
<1> SUFFICES ASSUME IInv, ParseEnds PROVE IInv'
  OBVIOUS
<1>1. pc = "parse" /\ pc' = "expand" /\ UNCHANGED <<mapArgs, mapMultiArgs, entry, argc, soft>>
  BY DEF ParseEnds
<1>2. Given' = Given /\ entry = NoEntry /\ soft = {}
  BY <1>1 DEF Given, IInv, BeforeWalk
<1>3. \A n \in Given : ~Passed(n)
  BY <1>2, NoEntryFirst DEF IInv, TypeOK, Passed
<1>4. TypeOK' /\ GivenStays'
  BY <1>1, <1>2 DEF IInv, TypeOK, GivenStays
<1>5. BeforeWalk' /\ PassedExpanded'
  BY <1>1, <1>2, <1>3 DEF BeforeWalk, PassedExpanded, Passed
<1>6. Derived'
  BY <1>1, <1>2 DEF IInv, Derived, GivenSpelling, Opposite
<1> QED
  BY <1>4, <1>5, <1>6 DEF IInv

LEMMA ExpandEndsKeeps == IInv /\ ExpandEnds => IInv'
<1> SUFFICES ASSUME IInv, ExpandEnds PROVE IInv'
  OBVIOUS
<1>1. /\ pc = "expand" /\ pc' = "ready" /\ Ahead = {}
      /\ UNCHANGED <<mapArgs, mapMultiArgs, entry, argc, soft>>
  BY DEF ExpandEnds
<1>2. Given' = Given
  BY <1>1 DEF Given
<1>3. \A n \in Given : Passed(n)
  <2> TAKE n \in Given
  <2>1. n \in Names /\ ~Precedes(entry, n)
    BY <1>1 DEF IInv, TypeOK, Ahead
  <2>2. entry \in Names
    BY <2>1, NoEntryFirst DEF IInv, TypeOK
  <2> QED
    BY <2>1, <2>2, Linear DEF Passed
<1>4. TypeOK' /\ GivenStays'
  BY <1>1, <1>2 DEF IInv, TypeOK, GivenStays
<1>5. BeforeWalk' /\ PassedExpanded'
  BY <1>1, <1>2, <1>3 DEF IInv, BeforeWalk, PassedExpanded, Passed
<1>6. Derived'
  BY <1>1, <1>2 DEF IInv, Derived, GivenSpelling, Opposite
<1> QED
  BY <1>4, <1>5, <1>6 DEF IInv

LEMMA OppositeStays ==
  ASSUME NEW map, NEW new, Grown(map, new), NEW p \in DOMAIN map, Opposite(map, p)
  PROVE  Opposite(new, p)
BY DEF Grown, Opposite

LEMMA SoftKeeps ==
  ASSUME IInv, NEW name \in Names, NEW value \in Values, SoftSetArg(name, value)
  PROVE  IInv'
<1>1. /\ pc = "ready" /\ mapArgs' = SetIfAbsent(mapArgs, name, value)
      /\ soft' = IF name \in DOMAIN mapArgs THEN soft ELSE soft \union {name}
      /\ UNCHANGED <<mapMultiArgs, pc, entry, argc>> /\ value \in {"", "0", "1"}
  BY ValueAssumption DEF SoftSetArg
<1>2. /\ (DOMAIN mapArgs)' = DOMAIN mapArgs \union {name} /\ Grown(mapArgs, mapArgs')
      /\ name \notin DOMAIN mapArgs => mapArgs'[name] = value
  BY <1>1, AbsentSet
<1>3. Given' = Given /\ Given \subseteq DOMAIN mapArgs
  BY <1>1 DEF Given, IInv, TypeOK
<1>4. TypeOK'
  BY <1>1, <1>2, <1>3 DEF IInv, TypeOK, Grown
<1>5. GivenStays' /\ BeforeWalk'
  BY <1>1, <1>2, <1>3 DEF IInv, GivenStays, BeforeWalk, Grown
<1>6. PassedExpanded'
  BY <1>1, <1>2, <1>3 DEF IInv, PassedExpanded, Passed
<1>7. Derived'
  <2> SUFFICES ASSUME NEW p \in (DOMAIN mapArgs)' \ soft'
               PROVE  GivenSpelling(p)' \/ Opposite(mapArgs', p)
    BY DEF Derived, Opposite
  <2>1. p \in DOMAIN mapArgs \ soft
    BY <1>1, <1>2
  <2>2. GivenSpelling(p) \/ Opposite(mapArgs, p)
    BY <2>1 DEF IInv, Derived
  <2> QED
    BY <1>2, <1>3, <2>1, <2>2, OppositeStays DEF GivenSpelling
<1> QED
  BY <1>4, <1>5, <1>6, <1>7 DEF IInv

\* The name that a turn of the walk looks at, and what is new after it.
Looked(n) == IF IsDouble(n) THEN SingleDash(n) ELSE n

LEMMA ExpandAdds ==
  ASSUME IInv, NEW n \in Names, Expand(n)
  PROVE  /\ Grown(mapArgs, mapArgs')
         /\ (DOMAIN mapArgs)' = DOMAIN mapArgs \union {Looked(n)} \union
              (IF IsNegative(Looked(n)) THEN {Positive(Looked(n))} ELSE {})
         /\ \A p \in (DOMAIN mapArgs)' \ DOMAIN mapArgs :
              \/ p = Looked(n) /\ IsDouble(n) /\ mapArgs'[p] = mapArgs[n]
              \/ /\ IsNegative(Looked(n)) /\ p = Positive(Looked(n))
                 /\ mapArgs'[p] = Negation(mapArgs'[Looked(n)])
<1> DEFINE name == Looked(n)
           map == IF IsDouble(n) THEN SetIfAbsent(mapArgs, name, mapArgs[n]) ELSE mapArgs
<1>1. n \in DOMAIN mapArgs /\ mapArgs' = InterpretNegativeSetting(map, name)
  BY DEF Expand, Ahead, Looked
<1>2. /\ DOMAIN map = DOMAIN mapArgs \union {name} /\ Grown(mapArgs, map)
      /\ name \notin DOMAIN mapArgs => IsDouble(n) /\ map[name] = mapArgs[n]
  <2>1. CASE IsDouble(n)
    <3>1. map = SetIfAbsent(mapArgs, name, mapArgs[n])
      BY <2>1
    <3> HIDE DEF map
    <3> QED
      BY <2>1, <3>1, AbsentSet
  <2>2. CASE ~IsDouble(n)
    BY <1>1, <2>2 DEF Grown, Looked
  <2> QED
    BY <2>1, <2>2
<1> HIDE DEF name, map
<1>3. CASE IsNegative(name)
  <2>1. mapArgs' = SetIfAbsent(map, Positive(name), Negation(map[name]))
    BY <1>1, <1>3 DEF InterpretNegativeSetting
  <2>2. /\ (DOMAIN mapArgs)' = DOMAIN map \union {Positive(name)} /\ Grown(map, mapArgs')
        /\ Positive(name) \notin DOMAIN map => mapArgs'[Positive(name)] = Negation(map[name])
    BY <2>1, AbsentSet
  <2>3. mapArgs'[name] = map[name] /\ Grown(mapArgs, mapArgs')
    BY <1>2, <2>2, GrownTwice DEF Grown
  <2>4. \A p \in (DOMAIN mapArgs)' \ DOMAIN mapArgs :
          \/ p = name /\ IsDouble(n) /\ mapArgs'[p] = mapArgs[n]
          \/ p = Positive(name) /\ mapArgs'[p] = Negation(mapArgs'[name])
    BY <1>2, <2>2, <2>3
  <2> QED
    BY <1>2, <1>3, <2>2, <2>3, <2>4 DEF name
<1>4. CASE ~IsNegative(name)
  <2>1. mapArgs' = map
    BY <1>1, <1>4 DEF InterpretNegativeSetting
  <2> QED
    BY <1>2, <1>4, <2>1 DEF name
<1> QED
  BY <1>3, <1>4

\* The iterator passes the entry n and no other one that was given.
LEMMA PassesNext ==
  ASSUME IInv, NEW n \in Names, Expand(n), NEW m \in Given, Passed(m)'
  PROVE  m = n \/ Passed(m)
<1>1. m \in Names /\ m \in DOMAIN mapArgs
  BY DEF IInv, TypeOK
<1>2. entry' = n /\ \A other \in Ahead \ {n} : Precedes(n, other)
  BY DEF Expand, Advance
<1> SUFFICES ASSUME m # n PROVE Passed(m)
  OBVIOUS
<1>3. Precedes(m, n)
  BY <1>2 DEF Passed
<1>4. m \notin Ahead
  BY <1>1, <1>2, <1>3, Antisymmetric
<1>5. ~Precedes(entry, m)
  BY <1>1, <1>4 DEF Ahead
<1>6. entry \in Names
  BY <1>1, <1>5, NoEntryFirst DEF IInv, TypeOK
<1> QED
  BY <1>1, <1>5, <1>6, Linear DEF Passed

LEMMA ExpandKeeps ==
  ASSUME IInv, NEW n \in Names, Expand(n)
  PROVE  IInv'
<1> DEFINE name == Looked(n)
<1>1. /\ pc = "expand" /\ n \in DOMAIN mapArgs /\ entry' = n
      /\ UNCHANGED <<mapMultiArgs, pc, argc, soft>>
  BY DEF Expand, Advance, Ahead
<1>2. Given' = Given /\ Given \subseteq DOMAIN mapArgs /\ soft = {} /\ soft' = {}
  BY <1>1 DEF Given, IInv, TypeOK, BeforeWalk
<1>3. name \in Names
  BY NextNames DEF Looked
<1>4. /\ Grown(mapArgs, mapArgs')
      /\ (DOMAIN mapArgs)' = DOMAIN mapArgs \union {name} \union
           (IF IsNegative(name) THEN {Positive(name)} ELSE {})
      /\ \A p \in (DOMAIN mapArgs)' \ DOMAIN mapArgs :
           \/ p = name /\ IsDouble(n) /\ mapArgs'[p] = mapArgs[n]
           \/ /\ IsNegative(name) /\ p = Positive(name)
              /\ mapArgs'[p] = Negation(mapArgs'[name])
  BY ExpandAdds
<1>5. TypeOK'
  <2>1. (DOMAIN mapArgs)' \subseteq Names
    BY <1>3, <1>4, NextNames DEF IInv, TypeOK
  <2>2. ASSUME NEW p \in (DOMAIN mapArgs)' PROVE mapArgs'[p] \in {"", "0", "1"}
    <3>1. mapArgs[n] \in {"", "0", "1"} /\ \A q \in DOMAIN mapArgs : mapArgs[q] \in {"", "0", "1"}
      BY <1>1 DEF IInv, TypeOK
    <3>2. \A value : Negation(value) \in {"", "0", "1"}
      BY DEF Negation
    <3> HIDE DEF name
    <3>3. CASE p \in DOMAIN mapArgs
      BY <1>4, <3>1, <3>3 DEF Grown
    <3>4. CASE p \notin DOMAIN mapArgs
      BY <1>4, <3>1, <3>2, <3>4
    <3> QED
      BY <3>3, <3>4
  <2>3. Given' \subseteq (DOMAIN mapArgs)'
    BY <1>2, <1>4
  <2> QED
    BY <1>1, <1>2, <2>1, <2>2, <2>3 DEF IInv, TypeOK
<1>6. GivenStays' /\ BeforeWalk'
  BY <1>1, <1>2, <1>4 DEF IInv, GivenStays, BeforeWalk, Grown
<1>7. PassedExpanded'
  <2>1. StandsFor(n) \subseteq (DOMAIN mapArgs)'
    BY <1>4 DEF StandsFor, Looked, IsNegative, IsDouble
  <2>2. ASSUME NEW m \in Given, Passed(m)' PROVE StandsFor(m) \subseteq (DOMAIN mapArgs)'
    <3>1. CASE m = n
      BY <2>1, <3>1
    <3>2. CASE Passed(m)
      BY <1>1, <1>4, <3>2 DEF IInv, PassedExpanded
    <3> QED
      BY <2>2, <3>1, <3>2, PassesNext
  <2> QED
    BY <1>1, <1>2, <2>2 DEF PassedExpanded
<1>8. Derived'
  <2> SUFFICES ASSUME NEW p \in (DOMAIN mapArgs)'
               PROVE  GivenSpelling(p)' \/ Opposite(mapArgs', p)
    BY DEF Derived, Opposite
  <2>1. CASE p \in DOMAIN mapArgs
    <3>1. GivenSpelling(p) \/ Opposite(mapArgs, p)
      BY <1>2, <2>1 DEF IInv, Derived
    <3> QED
      BY <1>2, <1>4, <2>1, <3>1, OppositeStays DEF GivenSpelling
  <2>2. CASE p = name /\ IsDouble(n)
    <3>1. GivenSpelling(n)
      <4>1. ~(n.dashes = 1)
        BY <2>2, NameFields DEF IsDouble
      <4> QED
        BY <1>1, <1>2, <4>1 DEF IInv, Derived, Opposite
    <3>2. \A d : [p EXCEPT !.dashes = d] = [n EXCEPT !.dashes = d]
      BY <2>2, NameFixpoints DEF Looked
    <3> QED
      BY <1>2, <3>1, <3>2 DEF GivenSpelling
  <2>3. CASE IsNegative(name) /\ p = Positive(name) /\ mapArgs'[p] = Negation(mapArgs'[name])
    <3>1. p.dashes = 1 /\ Negative(p) = name
      BY <1>3, <2>3, NameFixpoints DEF Negative, IsNegative
    <3> QED
      BY <1>4, <2>3, <3>1 DEF Opposite
  <2> QED
    BY <1>4, <2>1, <2>2, <2>3
<1> QED
  BY <1>5, <1>6, <1>7, <1>8 DEF IInv

LEMMA NextIInv == IInv /\ [Next]_vars => IInv'
<1> SUFFICES ASSUME IInv, [Next]_vars PROVE IInv'
  OBVIOUS
<1>1. CASE ParseParameters \/ ParseEnds \/ ExpandEnds
  BY <1>1, RestartKeeps, ParseEndsKeeps, ExpandEndsKeeps
<1>2. ASSUME NEW name \in Names, NEW value \in Values,
             ParseOption(name, value) \/ SoftSetArg(name, value)
      PROVE  IInv'
  BY <1>2, ParseOptionKeeps, SoftKeeps
<1>3. ASSUME NEW n \in Names, Expand(n) PROVE IInv'
  BY <1>3, ExpandKeeps
<1>4. CASE UNCHANGED vars
  BY <1>4 DEF vars, IInv, TypeOK, GivenStays, BeforeWalk, PassedExpanded, Passed, Derived,
              Given, GivenSpelling, Opposite
<1> QED
  BY <1>1, <1>2, <1>3, <1>4 DEF Next

\* ParseParameters and SoftSetArg keep what the user gave: its last value under
\* its name and an entry for every name it stands for, and an option derived
\* from its negative is the opposite of it, for any names, values and number of
\* dashes, "no"s and arguments.
THEOREM SettingsKept == Spec => []GivenKept
<1> QED
  BY InitIInv, NextIInv, InvGivesKept, PTL DEF Spec

-----------------------------------------------------------------------------
(***************************************************************************)
(* The network that the command line chooses.                              *)
(***************************************************************************)
\* What an entry of the map says of the option of its base.
EntrySays(n) == IsOn(mapArgs[n]) <=> n.nos % 2 = 0

\* Whatever was derived says what some spelling that was given says.
SaysAsGiven ==
  \A p \in DOMAIN mapArgs \ soft :
    \E g \in Given : g.base = p.base /\ (EntrySays(p) <=> Says(g))

\* Of a base behind "no" in the order of names the walk has derived the plain
\* option already, or a name that it still has to pass.
LeadsOn(base) ==
  \/ Option(base) \in DOMAIN mapArgs
  \/ pc # "ready" /\ \E m \in DOMAIN mapArgs : m.base = base /\ Precedes(entry, m)
PlainReached == \A g \in Given : g.base > 0 => LeadsOn(g.base)

IsOnNow(base) == GetBoolArg(base, FALSE)
NetworkOf(r, t) == IF r THEN "regtest" ELSE IF t THEN "test" ELSE "main"

\* What was chosen is what the map says, until the map changes.
ChosenFits ==
  /\ chosen \in {"not called", "true", "false"}
  /\ chosen # "not called" => pc = "ready"
  /\ chosen = "false" => IsOnNow(RegTest) /\ IsOnNow(TestNet)
  /\ chosen = "true" =>
       /\ ~(IsOnNow(RegTest) /\ IsOnNow(TestNet))
       /\ network = NetworkOf(IsOnNow(RegTest), IsOnNow(TestNet))

StartInv ==
  /\ IInv
  /\ SaysAsGiven /\ PlainReached
  /\ ChosenFits

\* One spelling at most, and no soft option: the map has what was asked for.
LEMMA PlainIsAsked ==
  ASSUME StartInv, NEW base \in Bases, base > 0, pc = "ready", Clear(base)
  PROVE  IsOnNow(base) <=> Wanted(base)
<1> DEFINE S == Spellings(base)
<1>1. \A g, h \in S : g = h
  BY DEF Clear
<1>2. Option(base) \in DOMAIN mapArgs => \E g \in S : IsOnNow(base) <=> Says(g)
  <2> SUFFICES ASSUME Option(base) \in DOMAIN mapArgs
               PROVE  \E g \in S : IsOnNow(base) <=> Says(g)
    OBVIOUS
  <2>1. Option(base).base = base /\ Option(base).nos = 0
    BY DEF Option
  <2>2. EntrySays(Option(base)) <=> IsOn(mapArgs[Option(base)])
    BY <2>1 DEF EntrySays
  <2>3. PICK g \in Given : g.base = Option(base).base /\ (EntrySays(Option(base)) <=> Says(g))
    BY DEF StartInv, SaysAsGiven, Clear
  <2> QED
    BY <2>1, <2>2, <2>3 DEF Spellings, IsOnNow, GetBoolArg
<1>3. S # {} => Option(base) \in DOMAIN mapArgs
  BY DEF Spellings, StartInv, PlainReached, LeadsOn
<1>4. CASE S = {}
  <2>1. Option(base) \notin DOMAIN mapArgs
    BY <1>2, <1>4
  <2> QED
    BY <1>4, <2>1 DEF IsOnNow, GetBoolArg, Wanted
<1>5. CASE S # {}
  <2>1. PICK g \in S : IsOnNow(base) <=> Says(g)
    BY <1>2, <1>3, <1>5
  <2> QED
    BY <1>1, <1>5, <2>1 DEF Wanted
<1> QED
  BY <1>4, <1>5

LEMMA ChosenIsAsked == StartInv => NetworkAsAsked
<1> SUFFICES ASSUME StartInv, Clear(RegTest), Clear(TestNet), chosen # "not called"
             PROVE  /\ chosen = "false" <=> Wanted(RegTest) /\ Wanted(TestNet)
                    /\ chosen = "true" => network = NetworkOf(Wanted(RegTest), Wanted(TestNet))
  BY DEF NetworkAsAsked, NetworkOf, StartInv, ChosenFits
<1>1. pc = "ready" /\ RegTest \in Bases /\ TestNet \in Bases /\ RegTest > 0 /\ TestNet > 0
  BY StartupAssumption DEF StartInv, ChosenFits
<1>2. /\ IsOnNow(RegTest) <=> Wanted(RegTest)
      /\ IsOnNow(TestNet) <=> Wanted(TestNet)
  BY <1>1, PlainIsAsked
<1>3. NetworkOf(IsOnNow(RegTest), IsOnNow(TestNet)) = NetworkOf(Wanted(RegTest), Wanted(TestNet))
  BY <1>2 DEF NetworkOf
<1> QED
  BY <1>2, <1>3 DEF StartInv, ChosenFits

-----------------------------------------------------------------------------
\* The steps of the command line.
LEMMA NegationTurns ==
  ASSUME NEW value
  PROVE  IsOn(Negation(value)) <=> ~IsOn(value)
BY DEF IsOn, Negation

LEMMA ParityTurns ==
  ASSUME NEW k \in Int
  PROVE  k - 1 # k /\ ((k - 1) % 2 = 0 <=> ~(k % 2 = 0))
OBVIOUS

\* What the walk derives has the base of its name and says what it says.
LEMMA LookedSays ==
  ASSUME NEW n \in Names
  PROVE  /\ IsDouble(n) => SingleDash(n).base = n.base /\ SingleDash(n).nos = n.nos
         /\ IsNegative(n) => Positive(n).base = n.base /\ Positive(n).nos = n.nos - 1
BY DEF Names, SingleDash, Positive

LEMMA WalkDescends ==
  ASSUME NEW n \in Names, n.base > 0
  PROVE  /\ IsDouble(n) => Precedes(n, SingleDash(n))
         /\ IsNegative(n) => Precedes(n, Positive(n))
         /\ ~IsDouble(n) /\ ~IsNegative(n) => n = Option(n.base)
<1>1. /\ n = Name(n.dashes, n.nos, n.base)
      /\ SingleDash(n) = Name(n.dashes - 1, n.nos, n.base)
      /\ Positive(n) = Name(n.dashes, n.nos - 1, n.base)
  BY NameForms
<1>2. /\ n.dashes \in Int /\ n.nos \in Int /\ n.base \in Int /\ n.dashes >= 1 /\ n.nos >= 0
  BY NameFields
<1>3. n.dashes > n.dashes - 1 /\ n.nos > n.nos - 1
  BY <1>2
<1>4. Precedes(n, SingleDash(n))
  BY <1>1, <1>3 DEF Precedes, Name
<1>5. Precedes(n, Positive(n))
  BY <1>1, <1>3 DEF Precedes, Name
<1>6. ~IsDouble(n) /\ ~IsNegative(n) => n.dashes = 1 /\ n.nos = 0
  BY <1>2 DEF IsDouble, IsNegative
<1> QED
  BY <1>1, <1>4, <1>5, <1>6 DEF Name, Option

LEMMA EmptyMap == DOMAIN Empty = {}
BY DEF Empty

LEMMA InitStarts == StartInit => StartInv
<1> SUFFICES ASSUME StartInit PROVE StartInv
  OBVIOUS
<1>1. IInv
  BY InitIInv DEF StartInit
<1>2. DOMAIN mapArgs = {} /\ Given = {}
  <2>1. mapArgs = Empty /\ mapMultiArgs = Empty
    BY DEF StartInit, Init
  <2> QED
    BY <2>1, EmptyMap DEF Given
<1>3. SaysAsGiven /\ PlainReached
  BY <1>2 DEF SaysAsGiven, PlainReached
<1> QED
  BY <1>1, <1>3 DEF StartInit, StartInv, ChosenFits

LEMMA RestartStarts == StartInv /\ ParseParameters /\ chosen' = "not called" => StartInv'
<1> SUFFICES ASSUME StartInv, ParseParameters, chosen' = "not called" PROVE StartInv'
  OBVIOUS
<1>1. IInv'
  BY RestartKeeps DEF StartInv
<1>2. (DOMAIN mapArgs)' = {} /\ Given' = {}
  <2>1. mapArgs' = Empty /\ mapMultiArgs' = Empty
    BY DEF ParseParameters
  <2> QED
    BY <2>1, EmptyMap DEF Given
<1>3. SaysAsGiven' /\ PlainReached'
  BY <1>2 DEF SaysAsGiven, PlainReached
<1> QED
  BY <1>1, <1>3 DEF StartInv, ChosenFits

\* While arguments are parsed the map has what was given and nothing else.
LEMMA ParsedSays == IInv /\ pc = "parse" => SaysAsGiven /\ PlainReached
<1> SUFFICES ASSUME IInv, pc = "parse" PROVE SaysAsGiven /\ PlainReached
  OBVIOUS
<1>1. DOMAIN mapArgs = Given /\ entry = NoEntry /\ \A g \in Given : g \in Names
  BY DEF IInv, BeforeWalk, TypeOK
<1>2. SaysAsGiven
  <2> SUFFICES ASSUME NEW p \in Given PROVE EntrySays(p) <=> Says(p)
    BY <1>1 DEF SaysAsGiven
  <2>1. mapArgs[p] = LastOf(mapMultiArgs[p])
    BY DEF IInv, GivenStays
  <2> QED
    BY <2>1 DEF EntrySays, Says, IsOn
<1>3. PlainReached
  BY <1>1, NoEntryFirst DEF PlainReached, LeadsOn
<1> QED
  BY <1>2, <1>3

LEMMA ParseOptionStarts ==
  ASSUME StartInv, NEW name \in Names, NEW value \in Values, ParseOption(name, value),
         chosen' = "not called"
  PROVE  StartInv'
<1>1. IInv'
  BY ParseOptionKeeps DEF StartInv
<1>2. pc' = "parse" /\ Given' = Given \union {name}
  BY DEF ParseOption, With, Given
<1>3. (IInv /\ pc = "parse")' => (SaysAsGiven /\ PlainReached)'
  BY ParsedSays, PTL
<1> QED
  BY <1>1, <1>2, <1>3 DEF StartInv, ChosenFits

LEMMA ParseEndsStarts == StartInv /\ ParseEnds /\ chosen' = "not called" => StartInv'
<1> SUFFICES ASSUME StartInv, ParseEnds, chosen' = "not called" PROVE StartInv'
  OBVIOUS
<1>1. IInv'
  BY ParseEndsKeeps DEF StartInv
<1>2. pc = "parse" /\ pc' = "expand" /\ UNCHANGED <<mapArgs, mapMultiArgs, entry, soft>>
  BY DEF ParseEnds
<1>3. SaysAsGiven'
  BY <1>2 DEF StartInv, SaysAsGiven, EntrySays, Says, Given
<1>4. PlainReached'
  BY <1>2 DEF StartInv, PlainReached, LeadsOn, Given
<1> QED
  BY <1>1, <1>3, <1>4 DEF StartInv, ChosenFits

\* The walk ends when nothing is ahead: what leads on is the plain option.
LEMMA ExpandEndsStarts == StartInv /\ ExpandEnds /\ chosen' = "not called" => StartInv'
<1> SUFFICES ASSUME StartInv, ExpandEnds, chosen' = "not called" PROVE StartInv'
  OBVIOUS
<1>1. IInv'
  BY ExpandEndsKeeps DEF StartInv
<1>2. Ahead = {} /\ UNCHANGED <<mapArgs, mapMultiArgs, entry, soft>>
  BY DEF ExpandEnds
<1>3. SaysAsGiven'
  BY <1>2 DEF StartInv, SaysAsGiven, EntrySays, Says, Given
<1>4. PlainReached'
  BY <1>2 DEF StartInv, PlainReached, LeadsOn, Given, Ahead
<1> QED
  BY <1>1, <1>3, <1>4 DEF StartInv, ChosenFits

LEMMA SoftStarts ==
  ASSUME StartInv, NEW name \in Names, NEW value \in Values, SoftSetArg(name, value),
         chosen' = "not called"
  PROVE  StartInv'
<1>1. IInv'
  BY SoftKeeps DEF StartInv
<1>2. /\ pc = "ready" /\ mapArgs' = SetIfAbsent(mapArgs, name, value)
      /\ soft' = IF name \in DOMAIN mapArgs THEN soft ELSE soft \union {name}
      /\ UNCHANGED <<mapMultiArgs, pc>>
  BY DEF SoftSetArg
<1>3. /\ (DOMAIN mapArgs)' = DOMAIN mapArgs \union {name}
      /\ \A p \in DOMAIN mapArgs : mapArgs'[p] = mapArgs[p]
  <2>1. (DOMAIN mapArgs)' = DOMAIN mapArgs \union {name} /\ Grown(mapArgs, mapArgs')
    BY <1>2, AbsentSet
  <2> QED
    BY <2>1 DEF Grown
<1>4. Given' = Given
  BY <1>2 DEF StartInv, Given
<1>5. SaysAsGiven'
  <2> SUFFICES ASSUME NEW p \in (DOMAIN mapArgs)' \ soft'
               PROVE  \E g \in Given : g.base = p.base /\ (EntrySays(p)' <=> Says(g)')
    BY <1>4 DEF SaysAsGiven
  <2>1. p \in DOMAIN mapArgs \ soft
    BY <1>2, <1>3
  <2>2. (EntrySays(p)' <=> EntrySays(p)) /\ \A g : Says(g)' = Says(g)
    BY <1>2, <1>3, <2>1 DEF EntrySays, Says
  <2> QED
    BY <2>1, <2>2 DEF StartInv, SaysAsGiven
<1>6. PlainReached'
  BY <1>2, <1>3, <1>4 DEF StartInv, PlainReached, LeadsOn
<1> QED
  BY <1>1, <1>4, <1>5, <1>6 DEF StartInv, ChosenFits

\* A turn of the walk leads every base on from the entry it looks at.
LEMMA ExpandStarts ==
  ASSUME StartInv, NEW n \in Names, Expand(n), chosen' = "not called"
  PROVE  StartInv'
<1>1. IInv' /\ IInv
  BY ExpandKeeps DEF StartInv
<1>2. /\ pc = "expand" /\ pc' = pc /\ n \in DOMAIN mapArgs /\ entry' = n
      /\ \A other \in Ahead \ {n} : Precedes(n, other)
      /\ UNCHANGED <<mapMultiArgs, soft>>
  BY DEF Expand, Advance, Ahead
<1>3. Given' = Given /\ soft = {} /\ soft' = {}
  BY <1>1, <1>2 DEF StartInv, Given, IInv, BeforeWalk
<1> DEFINE name == Looked(n)
<1>4. /\ \A p \in DOMAIN mapArgs : p \in (DOMAIN mapArgs)' /\ mapArgs'[p] = mapArgs[p]
      /\ (DOMAIN mapArgs)' = DOMAIN mapArgs \union {name} \union
           (IF IsNegative(name) THEN {Positive(name)} ELSE {})
      /\ \A p \in (DOMAIN mapArgs)' \ DOMAIN mapArgs :
           \/ p = name /\ IsDouble(n) /\ mapArgs'[p] = mapArgs[n]
           \/ /\ IsNegative(name) /\ p = Positive(name)
              /\ mapArgs'[p] = Negation(mapArgs'[name])
  BY <1>1, ExpandAdds DEF Grown
<1>5. name \in Names /\ name.base = n.base /\ name.nos = n.nos /\ name.nos \in Int
  BY NextNames, LookedSays, NameFields DEF Looked
<1>6. SaysAsGiven'
  <2> DEFINE Agrees(p) == \E g \in Given : g.base = p.base /\ (EntrySays(p)' <=> Says(g))
  <2>0. \A g : Says(g)' = Says(g)
    BY <1>2 DEF Says
  <2> SUFFICES ASSUME NEW p \in (DOMAIN mapArgs)' PROVE Agrees(p)
    BY <1>3, <2>0 DEF SaysAsGiven
  <2>1. ASSUME NEW q \in DOMAIN mapArgs PROVE Agrees(q)
    <3>1. EntrySays(q)' <=> EntrySays(q)
      BY <1>4 DEF EntrySays
    <3> QED
      BY <1>3, <3>1 DEF StartInv, SaysAsGiven
  <2>2. Agrees(name)
    <3>1. CASE name \in DOMAIN mapArgs
      BY <2>1, <3>1
    <3>2. CASE name \notin DOMAIN mapArgs
      <4>1. \/ IsDouble(n) /\ mapArgs'[name] = mapArgs[n]
            \/ IsNegative(name) /\ name = Positive(name)
        BY <1>4, <3>2
      <4>2. IsNegative(name) => name # Positive(name)
        <5> SUFFICES ASSUME IsNegative(name), name = Positive(name) PROVE FALSE
          OBVIOUS
        <5>1. name.nos = name.nos - 1
          BY <1>5, LookedSays
        <5> HIDE DEF name
        <5> QED
          BY ONLY <1>5, <5>1, ParityTurns
      <4>3. EntrySays(name)' <=> EntrySays(n)'
        BY <1>2, <1>4, <1>5, <4>1, <4>2 DEF EntrySays
      <4> QED
        BY <1>2, <1>5, <2>1, <4>3
    <3> QED
      BY <3>1, <3>2
  <2>3. CASE p \in DOMAIN mapArgs
    BY <2>1, <2>3
  <2>4. CASE p = name
    BY <2>2, <2>4
  <2>5. CASE IsNegative(name) /\ p = Positive(name) /\ mapArgs'[p] = Negation(mapArgs'[name])
    <3>1. p.base = name.base /\ p.nos = name.nos - 1
      BY <1>5, <2>5, LookedSays
    <3>2. EntrySays(p)' <=> EntrySays(name)'
      <4>1. (p.nos % 2 = 0) <=> ~(name.nos % 2 = 0)
        BY <1>5, <3>1, ParityTurns
      <4>2. IsOn(mapArgs'[p]) <=> ~IsOn(mapArgs'[name])
        BY <2>5, NegationTurns
      <4> QED
        BY <4>1, <4>2 DEF EntrySays
    <3> QED
      BY <2>2, <3>1, <3>2
  <2> QED
    BY <1>4, <2>3, <2>4, <2>5
<1>7. PlainReached'
  <2> SUFFICES ASSUME NEW g \in Given, g.base > 0 PROVE LeadsOn(g.base)'
    BY <1>3 DEF PlainReached
  <2>1. CASE Option(g.base) \in DOMAIN mapArgs
    BY <1>4, <2>1 DEF LeadsOn
  <2>2. CASE Option(g.base) \notin DOMAIN mapArgs
    <3>1. PICK m \in DOMAIN mapArgs : m.base = g.base /\ Precedes(entry, m)
      BY <2>2 DEF StartInv, PlainReached, LeadsOn
    <3>2. CASE m # n
      <4>1. Precedes(n, m)
        BY <1>2, <3>1, <3>2 DEF Ahead
      <4> QED
        BY <1>2, <1>4, <3>1, <4>1 DEF LeadsOn
    <3>3. CASE m = n
      <4>1. n # Option(n.base)
        BY <1>2, <2>2, <3>1, <3>3
      <4>2. CASE IsDouble(n)
        BY <1>2, <1>4, <1>5, <3>1, <3>3, <4>2, WalkDescends DEF LeadsOn, Looked
      <4>3. CASE ~IsDouble(n)
        <5>1. name = n /\ IsNegative(n)
          BY <3>1, <3>3, <4>1, <4>3, WalkDescends DEF Looked
        <5>2. Positive(n) \in (DOMAIN mapArgs)' /\ Positive(n).base = n.base /\ Precedes(n, Positive(n))
          BY <1>4, <3>1, <3>3, <5>1, LookedSays, WalkDescends
        <5> QED
          BY <1>2, <3>1, <3>3, <5>2 DEF LeadsOn
      <4> QED
        BY <4>2, <4>3
    <3> QED
      BY <3>2, <3>3
  <2> QED
    BY <2>1, <2>2
<1> QED
  BY <1>1, <1>3, <1>6, <1>7 DEF StartInv, ChosenFits

-----------------------------------------------------------------------------
\* The call itself takes the network of what the map says.
LEMMA SelectStarts == StartInv /\ SelectParamsFromCommandLine => StartInv'
<1> SUFFICES ASSUME StartInv, SelectParamsFromCommandLine PROVE StartInv'
  OBVIOUS
<1> DEFINE r == IsOnNow(RegTest)
           t == IsOnNow(TestNet)
<1>1. pc = "ready" /\ UNCHANGED <<mapArgs, mapMultiArgs, pc, entry, argc, soft>>
  BY DEF SelectParamsFromCommandLine, vars
<1>2. /\ IsOnNow(RegTest)' = r /\ IsOnNow(TestNet)' = t
      /\ r \in BOOLEAN /\ t \in BOOLEAN
  BY <1>1 DEF IsOnNow, GetBoolArg, IsOn
<1>3. IF FromCommandLine(r, t) = "none"
      THEN chosen' = "false" /\ UNCHANGED network
      ELSE chosen' = "true" /\ network' = SelectParams(FromCommandLine(r, t)).NetworkID
  BY DEF SelectParamsFromCommandLine, IsOnNow
<1> HIDE DEF r, t
<1>4. ChosenFits'
  <2>1. CASE r /\ t
    <3>1. chosen' = "false"
      BY <1>3, <2>1 DEF FromCommandLine
    <3> QED
      BY <1>1, <1>2, <2>1, <3>1 DEF ChosenFits
  <2>2. CASE ~(r /\ t)
    <3>1. FromCommandLine(r, t) = NetworkOf(r, t) /\ NetworkOf(r, t) \in {"main", "test", "regtest"}
      BY <2>2 DEF FromCommandLine, NetworkOf
    <3>2. \A net \in {"main", "test", "regtest"} : SelectParams(net).NetworkID = net
      BY DEF SelectParams, MainParams, TestNetParams, RegTestParams
    <3>3. chosen' = "true" /\ network' = NetworkOf(r, t)
      BY <1>3, <3>1, <3>2
    <3> QED
      BY <1>1, <1>2, <2>2, <3>3 DEF ChosenFits
  <2> QED
    BY <2>1, <2>2
<1>5. IInv' /\ SaysAsGiven' /\ PlainReached'
  <2>1. IInv'
    BY <1>1, NextIInv DEF StartInv, vars
  <2>2. SaysAsGiven' /\ PlainReached' /\ Given' = Given
    BY <1>1 DEF StartInv, SaysAsGiven, EntrySays, Says, PlainReached, LeadsOn, Given
  <2> QED
    BY <2>1, <2>2 DEF StartInv
<1> QED
  BY <1>4, <1>5 DEF StartInv

LEMMA NextStarts == StartInv /\ [StartNext]_startVars => StartInv'
<1> SUFFICES ASSUME StartInv, [StartNext]_startVars PROVE StartInv'
  OBVIOUS
<1>1. CASE Next /\ chosen' = "not called"
  <2>1. CASE ParseParameters \/ ParseEnds \/ ExpandEnds
    BY <1>1, <2>1, RestartStarts, ParseEndsStarts, ExpandEndsStarts
  <2>2. ASSUME NEW name \in Names, NEW value \in Values,
               ParseOption(name, value) \/ SoftSetArg(name, value)
        PROVE  StartInv'
    BY <1>1, <2>2, ParseOptionStarts, SoftStarts
  <2>3. ASSUME NEW n \in Names, Expand(n) PROVE StartInv'
    BY <1>1, <2>3, ExpandStarts
  <2> QED
    BY <1>1, <2>1, <2>2, <2>3 DEF Next
<1>2. CASE SelectParamsFromCommandLine
  BY <1>2, SelectStarts
<1>3. CASE UNCHANGED startVars
  <2>1. /\ UNCHANGED vars /\ UNCHANGED <<network, chosen>>
        /\ UNCHANGED <<mapArgs, mapMultiArgs, pc, entry, argc, soft>>
    BY <1>3 DEF startVars, vars
  <2>2. IInv'
    BY <2>1, NextIInv DEF StartInv
  <2>3. SaysAsGiven' /\ PlainReached' /\ Given' = Given
    BY <2>1 DEF StartInv, SaysAsGiven, EntrySays, Says, PlainReached, LeadsOn, Given
  <2>4. ChosenFits'
    BY <2>1 DEF StartInv, ChosenFits, IsOnNow, GetBoolArg
  <2> QED
    BY <2>2, <2>3, <2>4 DEF StartInv
<1> QED
  BY <1>1, <1>2, <1>3 DEF StartNext

\* However -regtest and -testnet are spelled, with any number of dashes and of
\* "no", once each at most and among any other options, the call of
\* SelectParamsFromCommandLine selects the network they ask for, or refuses both
\* together and leaves the network alone.
THEOREM NetworkIsAsAsked == StartSpec => []NetworkAsAsked
<1> QED
  BY InitStarts, NextStarts, ChosenIsAsked, PTL DEF StartSpec

-----------------------------------------------------------------------------
(***************************************************************************)
(* The replies of a server.  The places of the lines in what was sent come *)
(* from induction over the replies; the invariant says where in it the     *)
(* stream stands.                                                          *)
(***************************************************************************)
\* u is what s has from place p + 1 to a.
IsSlice(u, s, p, a) ==
  /\ IsRow(u, a - p)
  /\ \A i \in 1 .. a - p : u[i] = s[p + i]

LEMMA Slice ==
  ASSUME NEW n \in Nat, NEW s, IsRow(s, n), NEW p \in 0 .. n, NEW a \in p .. n
  PROVE  IsSlice(SubSeq(s, p + 1, a), s, p, a)
<1> DEFINE S == {s[i] : i \in 1 .. n}
           u == SubSeq(s, p + 1, a)
<1>1. s \in [1 .. n -> S]
  BY DEF IsRow
<1>2. Len(s) = n
  BY RowLength
<1> HIDE DEF S
<1>3. s \in Seq(S)
  BY <1>1
<1>4. u \in Seq(S) /\ Len(u) = a - p
  BY <1>2, <1>3
<1>5. \A v \in Seq(S) : v = [i \in 1 .. Len(v) |-> v[i]]
  OBVIOUS
<1>6. IsRow(u, a - p)
  <2> HIDE DEF u
  <2> QED BY <1>4, <1>5 DEF IsRow
<1>7. ASSUME NEW i \in 1 .. a - p PROVE u[i] = s[p + i]
  <2>1. (p + 1) + i - 1 = p + i
    OBVIOUS
  <2> QED BY <1>2, <1>3, <2>1
<1> QED BY <1>6, <1>7 DEF IsSlice

\* Behind the end of a sequence there is nothing.
LEMMA Behind ==
  ASSUME NEW n \in Nat, NEW s, IsRow(s, n), NEW p \in Nat, p >= n
  PROVE  After(s, p) = <<>>
<1> DEFINE S == {s[i] : i \in 1 .. n}
<1>1. s \in [1 .. n -> S]
  BY DEF IsRow
<1>2. Len(s) = n
  BY RowLength
<1> HIDE DEF S
<1>3. s \in Seq(S)
  BY <1>1
<1>4. SubSeq(s, p + 1, n) = <<>>
  BY <1>2, <1>3
<1> QED BY <1>2, <1>4 DEF After

LEMMA AfterIs ==
  ASSUME NEW n \in Nat, NEW s, IsRow(s, n), NEW p \in 0 .. n
  PROVE  IsSlice(After(s, p), s, p, n)
<1>1. Len(s) = n
  BY RowLength
<1>2. n \in p .. n
  OBVIOUS
<1> QED BY <1>1, <1>2, Slice DEF After

LEMMA EarliestIs ==
  ASSUME NEW T \in SUBSET Nat, NEW x \in T, \A y \in T : x <= y
  PROVE  Earliest(T) = x
<1>1. \A z \in T : (\A y \in T : z <= y) => z = x
  OBVIOUS
<1> QED BY <1>1 DEF Earliest

-----------------------------------------------------------------------------
\* What is sent.
Size(r) == Len(r.headers) + Len(r.body) + 2
Kinds == {"status", "header", "blank", "byte"}

LEMMA OnWireIs ==
  ASSUME NEW r \in Replies
  PROVE  /\ Len(r.headers) \in Nat /\ Len(r.body) \in Nat
         /\ DOMAIN r.headers = 1 .. Len(r.headers) /\ DOMAIN r.body = 1 .. Len(r.body)
         /\ IsRow(OnWire(r), Size(r)) /\ Size(r) \in Nat
         /\ OnWire(r)[1] = StatusLine(r.code, r.proto)
         /\ \A i \in 1 .. Len(r.headers) : OnWire(r)[1 + i] = r.headers[i]
         /\ \A i \in 1 .. Len(r.headers) : r.headers[i] = Header(r.headers[i].name, r.headers[i].value)
         /\ OnWire(r)[Len(r.headers) + 2] = Blank
         /\ \A i \in 1 .. Len(r.body) : OnWire(r)[Len(r.headers) + 2 + i] = [is |-> "byte", byte |-> r.body[i]]
<1> DEFINE H == Len(r.headers)
           B == Len(r.body)
           hs == r.headers
           sl == StatusLine(r.code, r.proto)
           u == <<sl>> \o hs
           v == u \o <<Blank>>
<1>1. /\ H \in Nat /\ B \in Nat
      /\ hs = [i \in 1 .. H |-> Header(hs[i].name, hs[i].value)]
      /\ r.body = [i \in 1 .. B |-> r.body[i]]
  BY HttpAssumption
<1>2. IsRow(hs, H) /\ DOMAIN hs = 1 .. H /\ \A i \in 1 .. H : hs[i] = Header(hs[i].name, hs[i].value)
  <2>1. DOMAIN hs = 1 .. H /\ \A i \in 1 .. H : hs[i] = Header(hs[i].name, hs[i].value)
    BY <1>1
  <2>2. hs = [i \in 1 .. H |-> hs[i]]
    BY <1>1, <2>1
  <2> QED BY <2>1, <2>2 DEF IsRow
<1>3. DOMAIN r.body = 1 .. B
  BY <1>1
<1>4. IsRow(Body(r.body), B) /\ \A i \in 1 .. B : Body(r.body)[i] = [is |-> "byte", byte |-> r.body[i]]
  BY <1>3 DEF Body, IsRow
<1>5. \A x : IsRow(<<x>>, 1) /\ <<x>>[1] = x
  BY DEF IsRow
<1> HIDE DEF H, B
<1>6. JoinedRows(u, <<sl>>, 1, hs, H)
  BY <1>1, <1>2, <1>5, Concat
<1>7. JoinedRows(v, u, 1 + H, <<Blank>>, 1)
  <2>1. 1 + H \in Nat /\ IsRow(u, 1 + H)
    BY <1>1, <1>6 DEF JoinedRows
  <2> HIDE DEF u
  <2> QED BY <1>5, <2>1, Concat
<1>8. JoinedRows(OnWire(r), v, H + 2, Body(r.body), B)
  <2>1. H + 2 \in Nat /\ IsRow(v, H + 2)
    <3>1. (1 + H) + 1 = H + 2
      BY <1>1
    <3> HIDE DEF v
    <3> QED BY <1>1, <1>7, <3>1 DEF JoinedRows
  <2>2. OnWire(r) = v \o Body(r.body)
    <3> QED BY DEF OnWire
  <2> HIDE DEF v
  <2> QED BY <1>1, <1>4, <2>1, <2>2, Concat
<1> HIDE DEF u, v
<1>9. IsRow(OnWire(r), Size(r)) /\ Size(r) \in Nat
  <2>1. H \in Nat /\ B \in Nat
    BY <1>1
  <2>2. Size(r) = H + B + 2
    BY DEF Size, H, B
  <2>3. Size(r) = (H + 2) + B /\ Size(r) \in Nat
    BY <2>1, <2>2
  <2> QED BY <1>8, <2>3 DEF JoinedRows
<1>10. ASSUME NEW i \in 1 .. H + 2 PROVE OnWire(r)[i] = v[i]
  BY <1>8 DEF JoinedRows
<1>11. ASSUME NEW i \in 1 .. H + 1 PROVE OnWire(r)[i] = u[i]
  <2>1. i \in 1 .. H + 2 /\ i \in 1 .. 1 + H
    BY <1>1
  <2> QED BY <1>7, <1>10, <2>1 DEF JoinedRows
<1>12. OnWire(r)[1] = sl
  <2>1. 1 \in 1 .. H + 1 /\ 1 \in 1 .. 1
    BY <1>1
  <2>2. u[1] = sl
    BY <1>5, <1>6, <2>1 DEF JoinedRows
  <2> QED BY <1>11, <2>1, <2>2
<1>13. ASSUME NEW i \in 1 .. H PROVE OnWire(r)[1 + i] = hs[i]
  <2>1. 1 + i \in 1 .. H + 1
    BY <1>1
  <2> QED BY <1>6, <1>11, <2>1 DEF JoinedRows
<1>14. OnWire(r)[H + 2] = Blank
  <2>1. H + 2 \in 1 .. H + 2 /\ 1 \in 1 .. 1 /\ (1 + H) + 1 = H + 2
    BY <1>1
  <2>2. v[(1 + H) + 1] = Blank
    BY <1>5, <1>7, <2>1 DEF JoinedRows
  <2> QED BY <1>10, <2>1, <2>2
<1>15. ASSUME NEW i \in 1 .. B PROVE OnWire(r)[H + 2 + i] = [is |-> "byte", byte |-> r.body[i]]
  BY <1>4, <1>8 DEF JoinedRows
<1> QED BY <1>1, <1>2, <1>3, <1>9, <1>12, <1>13, <1>14, <1>15 DEF H, B

\* What the peer sends is the replies, each behind the other.
IsReplies(rs) == IsRow(rs, Len(rs)) /\ Len(rs) \in Nat /\ \A k \in 1 .. Len(rs) : rs[k] \in Replies

LEMMA SentIs ==
  ASSUME NEW rs, IsReplies(rs)
  PROVE  /\ Sent(rs)[0] = <<>>
         /\ \A k \in 1 .. Len(rs) : Sent(rs)[k] = Sent(rs)[k - 1] \o OnWire(rs[k])
<1> DEFINE n == Len(rs)
           Longer(x, k) == x \o OnWire(rs[k])
           Def(g, m) == g = [k \in 0 .. m |-> IF k = 0 THEN <<>> ELSE Longer(g[k - 1], k)]
           T == {m \in Nat : \E g : Def(g, m)}
<1>0. n \in Nat
  BY DEF IsReplies
<1>1. 0 \in T
  <2>1. Def([k \in 0 .. 0 |-> <<>>], 0)
    OBVIOUS
  <2> QED BY <2>1
<1>2. ASSUME NEW m \in T PROVE m + 1 \in T
  <2>1. PICK g : Def(g, m)
    OBVIOUS
  <2> DEFINE f == [k \in 0 .. m + 1 |-> IF k <= m THEN g[k] ELSE Longer(g[m], m + 1)]
  <2>2. Def(f, m + 1)
    <3> HIDE DEF Longer
    <3> QED BY <2>1
  <2>3. \E h : Def(h, m + 1)
    <3> HIDE DEF Def, f
    <3> QED BY <2>2
  <2>4. m + 1 \in Nat
    OBVIOUS
  <2> HIDE DEF Def
  <2> QED BY <2>3, <2>4
<1>3. T = Nat
  <2> HIDE DEF T
  <2>1. T \in SUBSET Nat
    BY DEF T
  <2> QED BY <1>1, <1>2, <2>1, Induct
<1>4. \E g : Def(g, n)
  BY <1>0, <1>3
<1>5. Def(Sent(rs), n)
  BY <1>4, Zenon DEF Sent
<1> HIDE DEF T
<1> QED BY <1>0, <1>5

\* Each reply is in what is sent where the replies before it end, and it says
\* nothing but lines of replies and bytes.
Said(t, rs) ==
  /\ t.is \in Kinds
  /\ t.is = "header" => \E k \in 1 .. Len(rs) : \E j \in 1 .. Len(rs[k].headers) : t = rs[k].headers[j]

LEMMA WiresAre ==
  ASSUME NEW rs, IsReplies(rs), NEW k \in 1 .. Len(rs)
  PROVE  \A i \in 1 .. Size(rs[k]) : Said(OnWire(rs[k])[i], rs)
<1> DEFINE r == rs[k]
           H == Len(r.headers)
           B == Len(r.body)
<1>1. r \in Replies
  BY DEF IsReplies
<1> HIDE DEF r
<1>2. H \in Nat /\ B \in Nat /\ Size(r) = H + B + 2
  BY <1>1, OnWireIs DEF Size
<1> SUFFICES ASSUME NEW i \in 1 .. Size(r) PROVE Said(OnWire(r)[i], rs)
  BY DEF r
<1>3. CASE i = 1
  <2>1. OnWire(r)[i].is = "status"
    <3>1. OnWire(r)[1] = StatusLine(r.code, r.proto)
      BY <1>1, OnWireIs
    <3>2. \A x, y : StatusLine(x, y).is = "status"
      BY DEF StatusLine
    <3> QED BY <1>3, <3>1, <3>2
  <2> QED BY <2>1 DEF Said, Kinds
<1>4. ASSUME NEW j \in 1 .. H, i = 1 + j PROVE Said(OnWire(r)[i], rs)
  <2>1. OnWire(r)[i] = r.headers[j] /\ r.headers[j].is = "header"
    <3>1. OnWire(r)[1 + j] = r.headers[j]
      BY <1>1, OnWireIs
    <3>2. r.headers[j] = Header(r.headers[j].name, r.headers[j].value)
      BY <1>1, OnWireIs
    <3>3. \A x, y : Header(x, y).is = "header"
      BY DEF Header
    <3> QED BY <1>4, <3>1, <3>2, <3>3
  <2>2. \E l \in 1 .. Len(rs) : \E q \in 1 .. Len(rs[l].headers) : OnWire(r)[i] = rs[l].headers[q]
    BY <2>1 DEF r
  <2> QED BY <2>1, <2>2 DEF Said, Kinds
<1>5. CASE i = H + 2
  <2>1. OnWire(r)[i].is = "blank"
    BY <1>1, <1>5, OnWireIs DEF Blank
  <2> QED BY <2>1 DEF Said, Kinds
<1>6. ASSUME NEW j \in 1 .. B, i = H + 2 + j PROVE Said(OnWire(r)[i], rs)
  <2>1. OnWire(r)[i] = [is |-> "byte", byte |-> r.body[j]]
    BY <1>1, <1>6, OnWireIs
  <2>2. OnWire(r)[i].is = "byte"
    BY <2>1
  <2> QED BY <2>2 DEF Said, Kinds
<1> HIDE DEF H, B
<1>7. i = 1 \/ i - 1 \in 1 .. H \/ i = H + 2 \/ i - (H + 2) \in 1 .. B
  BY <1>2
<1>8. i = 1 + (i - 1) /\ i = H + 2 + (i - (H + 2))
  BY <1>2
<1> QED BY <1>3, <1>4, <1>5, <1>6, <1>7, <1>8

\* Where the first k replies end, and that what is sent has them first.
Ends(rs, k) == Len(Sent(rs)[k])
PlacedUpTo(rs, n) ==
  /\ IsRow(Sent(rs)[n], Ends(rs, n)) /\ Ends(rs, n) \in Nat
  /\ \A i \in 1 .. Ends(rs, n) : Said(Sent(rs)[n][i], rs)
  /\ \A k \in 1 .. n :
       /\ Ends(rs, k - 1) \in Nat /\ Ends(rs, k) = Ends(rs, k - 1) + Size(rs[k]) /\ Ends(rs, k) \in 0 .. Ends(rs, n)
       /\ \A i \in 1 .. Size(rs[k]) : Sent(rs)[n][Ends(rs, k - 1) + i] = OnWire(rs[k])[i]

LEMMA Placed ==
  ASSUME NEW rs, IsReplies(rs)
  PROVE  PlacedUpTo(rs, Len(rs)) /\ \A k \in 0 .. Len(rs) : Ends(rs, k) \in 0 .. Ends(rs, Len(rs))
<1> DEFINE n == Len(rs)
           T == {k \in 0 .. n : PlacedUpTo(rs, k)}
<1>0. n \in Nat
  BY DEF IsReplies
<1>1. 0 \in T
  <2>1. Sent(rs)[0] = <<>>
    BY SentIs
  <2>2. Ends(rs, 0) = 0
    BY <2>1 DEF Ends
  <2>3. IsRow(<<>>, 0)
    BY DEF IsRow
  <2> QED BY <1>0, <2>1, <2>2, <2>3 DEF PlacedUpTo
<1>2. ASSUME NEW k \in 0 .. n - 1, k \in T PROVE k + 1 \in T
  <2> DEFINE l == k + 1
             r == rs[l]
             s == Sent(rs)[k]
             u == Sent(rs)[l]
             E == Ends(rs, k)
  <2>1. l \in 1 .. n /\ l - 1 = k /\ k \in 0 .. n /\ l \in 0 .. n
    BY <1>0
  <2>2. r \in Replies
    BY <2>1 DEF IsReplies
  <2>3. u = s \o OnWire(r)
    BY <2>1, SentIs
  <2>4. IsRow(s, E) /\ E \in Nat /\ \A i \in 1 .. E : Said(s[i], rs)
    BY <1>2 DEF PlacedUpTo
  <2>5. IsRow(OnWire(r), Size(r)) /\ Size(r) \in Nat
    BY <2>2, OnWireIs
  <2>6. JoinedRows(u, s, E, OnWire(r), Size(r))
    <3> HIDE DEF u, s, E, r
    <3> QED BY <2>3, <2>4, <2>5, Concat
  <2>7. Ends(rs, l) = E + Size(r) /\ IsRow(u, E + Size(r)) /\ E + Size(r) \in Nat
    <3>1. IsRow(u, E + Size(r)) /\ E + Size(r) \in Nat
      BY <2>4, <2>5, <2>6 DEF JoinedRows
    <3>2. Len(u) = E + Size(r)
      <4> HIDE DEF u, E, r
      <4> QED BY <3>1, RowLength
    <3> QED BY <3>1, <3>2 DEF Ends
  <2>8. ASSUME NEW i \in 1 .. E + Size(r) PROVE Said(u[i], rs)
    <3>1. CASE i <= E
      <4>1. i \in 1 .. E
        BY <2>4, <2>5, <3>1
      <4> QED BY <2>4, <2>6, <4>1 DEF JoinedRows
    <3>2. CASE i > E
      <4>1. i - E \in 1 .. Size(r) /\ E + (i - E) = i
        BY <2>4, <2>5, <3>2
      <4>2. u[E + (i - E)] = OnWire(r)[i - E]
        BY <2>6, <4>1 DEF JoinedRows
      <4>3. Said(OnWire(r)[i - E], rs)
        BY <2>1, <4>1, WiresAre
      <4> QED BY <4>1, <4>2, <4>3
    <3> QED BY <2>4, <2>5, <3>1, <3>2
  <2>9. ASSUME NEW m \in 1 .. l
        PROVE  /\ Ends(rs, m - 1) \in Nat /\ Ends(rs, m) = Ends(rs, m - 1) + Size(rs[m])
               /\ Ends(rs, m) \in 0 .. Ends(rs, l)
               /\ \A i \in 1 .. Size(rs[m]) : u[Ends(rs, m - 1) + i] = OnWire(rs[m])[i]
    <3>1. CASE m = l
      <4>1. E \in Nat /\ Size(r) \in Nat /\ E + Size(r) \in 0 .. E + Size(r)
        BY <2>4, <2>5
      <4>2. \A i \in 1 .. Size(r) : u[E + i] = OnWire(r)[i]
        BY <2>6 DEF JoinedRows
      <4> QED BY <2>1, <2>7, <3>1, <4>1, <4>2
    <3>2. CASE m # l
      <4>1. m \in 1 .. k /\ m \in 1 .. n
        BY <2>1, <3>2
      <4>2. /\ Ends(rs, m - 1) \in Nat /\ Ends(rs, m) = Ends(rs, m - 1) + Size(rs[m])
            /\ Ends(rs, m) \in 0 .. E
            /\ \A i \in 1 .. Size(rs[m]) : s[Ends(rs, m - 1) + i] = OnWire(rs[m])[i]
        BY <1>2, <4>1 DEF PlacedUpTo
      <4>3. Size(rs[m]) \in Nat
        <5>1. rs[m] \in Replies
          BY <4>1 DEF IsReplies
        <5> QED BY <5>1, OnWireIs
      <4>4. Ends(rs, m) \in 0 .. Ends(rs, l)
        <5> HIDE DEF E, r, l
        <5> QED BY <2>4, <2>5, <2>7, <4>2
      <4>5. ASSUME NEW i \in 1 .. Size(rs[m]) PROVE u[Ends(rs, m - 1) + i] = OnWire(rs[m])[i]
        <5>1. Ends(rs, m - 1) + i \in 1 .. E
          <6> HIDE DEF E
          <6> QED BY <2>4, <4>2, <4>3
        <5>2. u[Ends(rs, m - 1) + i] = s[Ends(rs, m - 1) + i]
          BY <2>6, <5>1 DEF JoinedRows
        <5> QED BY <4>2, <5>2
      <4> QED BY <4>2, <4>4, <4>5
    <3> QED BY <3>1, <3>2
  <2>10. PlacedUpTo(rs, l)
    <3> HIDE DEF l, r, E
    <3>1. Ends(rs, l) = E + Size(r) /\ Ends(rs, l) \in Nat /\ IsRow(Sent(rs)[l], Ends(rs, l))
      BY <2>7
    <3>2. \A i \in 1 .. Ends(rs, l) : Said(Sent(rs)[l][i], rs)
      BY <2>8, <3>1
    <3> QED BY <2>9, <3>1, <3>2 DEF PlacedUpTo
  <2> QED BY <2>1, <2>10
<1>3. T = 0 .. n
  <2> HIDE DEF T
  <2>1. T \in SUBSET (0 .. n)
    BY DEF T
  <2> QED BY <1>0, <1>1, <1>2, <2>1, InductTo
<1>4. PlacedUpTo(rs, n)
  <2>1. n \in T
    BY <1>0, <1>3
  <2> QED BY <2>1
<1>5. ASSUME NEW k \in 0 .. n PROVE Ends(rs, k) \in 0 .. Ends(rs, n)
  <2>1. CASE k = 0
    <3>1. Sent(rs)[0] = <<>>
      BY SentIs
    <3>2. Ends(rs, 0) = 0
      BY <3>1 DEF Ends
    <3> QED BY <1>4, <2>1, <3>2 DEF PlacedUpTo
  <2>2. CASE k # 0
    <3>1. k \in 1 .. n
      BY <1>0, <2>2
    <3> QED BY <1>4, <3>1 DEF PlacedUpTo
  <2> QED BY <2>1, <2>2
<1> QED BY <1>4, <1>5

-----------------------------------------------------------------------------
\* What can be read: lines of replies and bytes, and so is what follows.
Readable(s, rs) == IsRow(s, Len(s)) /\ Len(s) \in Nat /\ \A i \in 1 .. Len(s) : Said(s[i], rs)

LEMMA RestIs ==
  ASSUME NEW rs, NEW s, Readable(s, rs), NEW e \in Nat
  PROVE  /\ Readable(After(s, e), rs)
         /\ e <= Len(s) => IsSlice(After(s, e), s, e, Len(s)) /\ Len(After(s, e)) = Len(s) - e
         /\ e >= Len(s) => After(s, e) = <<>>
<1> DEFINE n == Len(s)
           u == After(s, e)
<1>1. n \in Nat /\ IsRow(s, n)
  BY DEF Readable
<1>2. CASE e >= n
  <2>1. u = <<>>
    <3> HIDE DEF n, u
    <3>1. After(s, e) = <<>>
      BY <1>1, <1>2, Behind
    <3> QED BY <3>1 DEF u
  <2>2. IsRow(<<>>, 0) /\ Len(<<>>) = 0
    BY DEF IsRow
  <2>3. Readable(<<>>, rs)
    BY <2>2 DEF Readable
  <2>4. e <= n => IsSlice(<<>>, s, e, n) /\ Len(<<>>) = n - e
    <3> HIDE DEF n
    <3> HAVE e <= n
    <3>1. n - e = 0
      BY <1>1, <1>2
    <3> QED BY <2>2, <3>1 DEF IsSlice
  <2> HIDE DEF u
  <2>5. Readable(u, rs) /\ (e <= n => IsSlice(u, s, e, n) /\ Len(u) = n - e)
    BY <2>1, <2>3, <2>4
  <2> QED BY <2>1, <2>5 DEF u
<1>3. CASE e < n
  <2>1. e \in 0 .. n /\ n - e \in Nat
    BY <1>1, <1>3
  <2>2. IsSlice(u, s, e, n)
    <3> HIDE DEF n
    <3> QED BY <1>1, <2>1, AfterIs
  <2> HIDE DEF u
  <2>3. Len(u) = n - e
    <3> HIDE DEF n
    <3>1. IsRow(u, n - e)
      BY <2>2 DEF IsSlice
    <3> QED BY <2>1, <3>1, RowLength
  <2>4. ASSUME NEW i \in 1 .. Len(u) PROVE Said(u[i], rs)
    <3>1. e + i \in 1 .. n /\ u[i] = s[e + i]
      BY <1>1, <2>1, <2>2, <2>3 DEF IsSlice
    <3>2. Said(s[e + i], rs)
      BY <3>1 DEF Readable
    <3> QED BY <3>1, <3>2
  <2>5. Readable(u, rs)
    BY <2>1, <2>2, <2>3, <2>4 DEF Readable, IsSlice
  <2> QED BY <1>1, <1>3, <2>2, <2>3, <2>5 DEF u
<1> QED BY <1>1, <1>2, <1>3

\* The first line ends somewhere, and a status line that is the first is read.
LEMMA StatusIs ==
  ASSUME NEW rs, NEW s, Readable(s, rs), NEW proto
  PROVE  /\ LineEnd(s) \in 0 .. Len(s)
         /\ ReadHTTPStatus(s, proto).rest = After(s, LineEnd(s))
         /\ \A code, p : Len(s) > 0 /\ s[1] = StatusLine(code, p) =>
              LineEnd(s) = 1 /\ ReadHTTPStatus(s, proto).status = code /\ ReadHTTPStatus(s, proto).proto = p
<1> DEFINE n == Len(s)
<1>0. n \in Nat /\ IsRow(s, n) /\ DOMAIN s = 1 .. n /\ \A i \in 1 .. n : s[i].is \in Kinds
  <2>1. n \in Nat /\ IsRow(s, n) /\ \A i \in 1 .. n : s[i].is \in Kinds
    BY DEF Readable, Said
  <2> HIDE DEF n
  <2> QED BY <2>1, RowLength
<1> HIDE DEF n
<1>1. Lines(s) \in SUBSET (1 .. n) /\ \A i \in Lines(s) : s[i].is \in Kinds \ {"byte"}
  BY <1>0 DEF Lines, IsLine
<1>2. Lines(s) # {} => Earliest(Lines(s)) \in Lines(s)
  <2> HAVE Lines(s) # {}
  <2>1. Lines(s) \in SUBSET Nat
    BY <1>0, <1>1
  <2>2. PICK x \in Lines(s) : \A y \in Lines(s) : x <= y
    BY <2>1, LeastOf
  <2>3. Earliest(Lines(s)) = x
    BY <2>1, <2>2, EarliestIs
  <2> QED BY <2>2, <2>3
<1>3. LineEnd(s) \in 0 .. n
  BY <1>0, <1>1, <1>2 DEF LineEnd, n
<1> DEFINE line == IF Lines(s) = {} THEN Blank ELSE s[Earliest(Lines(s))]
           rest == After(s, LineEnd(s))
           Read(l, q) ==
             CASE l.is = "status" -> [status |-> l.code, proto |-> l.proto, rest |-> q]
               [] l.is = "header" -> [status |-> Number(l.value), proto |-> 0, rest |-> q]
               [] l.is = "blank" -> [status |-> HTTP_INTERNAL_SERVER_ERROR, proto |-> proto, rest |-> q]
<1>4. line.is \in Kinds \ {"byte"}
  BY <1>1, <1>2 DEF Blank, Kinds
<1>5. ReadHTTPStatus(s, proto) = Read(line, rest)
  BY DEF ReadHTTPStatus
<1>6. \A l, q : l.is \in Kinds \ {"byte"} => Read(l, q).rest = q
  BY DEF Kinds
<1>7. \A l, q : l.is = "status" => Read(l, q).status = l.code /\ Read(l, q).proto = l.proto
  OBVIOUS
<1>8. ReadHTTPStatus(s, proto).rest = rest
  <2> HIDE DEF line, rest, Read
  <2> QED BY <1>4, <1>5, <1>6
<1>9. ASSUME NEW code, NEW p, n > 0, s[1] = StatusLine(code, p)
      PROVE  LineEnd(s) = 1 /\ ReadHTTPStatus(s, proto).status = code /\ ReadHTTPStatus(s, proto).proto = p
  <2>1. s[1].is = "status" /\ s[1].code = code /\ s[1].proto = p
    BY <1>9 DEF StatusLine
  <2>2. 1 \in Lines(s) /\ \A y \in Lines(s) : 1 <= y
    <3>1. 1 \in 1 .. n
      BY <1>0, <1>9
    <3>2. 1 \in Lines(s)
      BY <1>0, <2>1, <3>1 DEF Lines, IsLine
    <3> QED BY <1>0, <1>1, <3>2
  <2>3. Earliest(Lines(s)) = 1
    <3>1. Lines(s) \in SUBSET Nat
      BY <1>0, <1>1
    <3> QED BY <2>2, <3>1, EarliestIs
  <2>4. line = s[1] /\ LineEnd(s) = 1
    BY <2>2, <2>3 DEF LineEnd
  <2> HIDE DEF line, rest, Read
  <2> QED BY <1>5, <1>7, <2>1, <2>4
<1> QED BY <1>3, <1>8, <1>9 DEF n

\* Of some places there is a last.
LEMMA Greatest ==
  ASSUME NEW n \in Nat, NEW T \in SUBSET (1 .. n), T # {}
  PROVE  \E x \in T : \A y \in T : y <= x
<1> DEFINE U == {n - x : x \in T}
<1>0. \A x \in T : n - x \in Nat
  OBVIOUS
<1>1. U \in SUBSET Nat /\ U # {}
  BY <1>0
<1>2. PICK u \in U : \A v \in U : u <= v
  <2> HIDE DEF U
  <2> QED BY <1>1, LeastOf
<1>3. PICK x \in T : u = n - x
  BY <1>2
<1>4. ASSUME NEW y \in T PROVE y <= x
  <2>1. n - x <= n - y
    BY <1>2, <1>3
  <2> QED BY <2>1
<1> QED BY <1>4

\* The headers end somewhere, the value of each is that of a line, and no later
\* line has the name.
LEMMA HeadersAre ==
  ASSUME NEW rs, NEW s, Readable(s, rs), NEW old
  PROVE  /\ EndOfHeaders(s) \in Nat
         /\ HeaderLines(s) \in SUBSET (1 .. Len(s))
         /\ DOMAIN Headers(s, old) = {s[i].name : i \in HeaderLines(s)}
         /\ \A nm \in DOMAIN Headers(s, old) :
              \E i \in HeaderLines(s) :
                /\ s[i].name = nm /\ Headers(s, old)[nm] = s[i].value /\ s[i].is = "header"
                /\ \A j \in HeaderLines(s) : s[j].name = nm => j <= i
<1> DEFINE n == Len(s)
<1>0. n \in Nat /\ IsRow(s, n)
  BY DEF Readable
<1> HIDE DEF n
<1>1. DOMAIN s = 1 .. n
  BY <1>0, RowLength
<1>2. EndOfHeaders(s) \in Nat /\ EndOfHeaders(s) - 1 \in 0 .. n
  <2>1. Blanks(s) \in SUBSET (1 .. n) /\ Blanks(s) \in SUBSET Nat
    BY <1>0, <1>1 DEF Blanks
  <2>2. CASE Blanks(s) = {}
    BY <1>0, <2>2 DEF EndOfHeaders, n
  <2>3. CASE Blanks(s) # {}
    <3>1. PICK x \in Blanks(s) : \A y \in Blanks(s) : x <= y
      BY <2>1, <2>3, LeastOf
    <3>2. Earliest(Blanks(s)) = x
      BY <2>1, <3>1, EarliestIs
    <3> QED BY <1>0, <2>1, <2>3, <3>1, <3>2 DEF EndOfHeaders
  <2> QED BY <2>2, <2>3
<1>3. HeaderLines(s) \in SUBSET (1 .. n)
  BY <1>0, <1>2 DEF HeaderLines
<1>4. DOMAIN Headers(s, old) = {s[i].name : i \in HeaderLines(s)}
  BY DEF Headers
<1>5. ASSUME NEW nm \in DOMAIN Headers(s, old)
      PROVE  \E i \in HeaderLines(s) :
               /\ s[i].name = nm /\ Headers(s, old)[nm] = s[i].value /\ s[i].is = "header"
               /\ \A j \in HeaderLines(s) : s[j].name = nm => j <= i
  <2> DEFINE at == {i \in HeaderLines(s) : s[i].name = nm}
  <2>1. at \in SUBSET (1 .. n) /\ at # {}
    BY <1>3, <1>4
  <2>2. PICK x \in at : \A y \in at : y <= x
    <3> HIDE DEF at
    <3> QED BY <1>0, <2>1, Greatest
  <2>3. \A z \in at : (\A y \in at : y <= z) => z = x
    <3> HIDE DEF at
    <3> QED BY <1>0, <2>1, <2>2
  <2>4. (CHOOSE i \in at : \A j \in at : j <= i) = x
    <3> HIDE DEF at
    <3> QED BY <2>2, <2>3
  <2>5. Headers(s, old)[nm] = LastOfName(s, nm)
    BY <1>4 DEF Headers
  <2>6. LastOfName(s, nm) = s[CHOOSE i \in at : \A j \in at : j <= i].value
    BY DEF LastOfName
  <2>7. x \in HeaderLines(s) /\ s[x].name = nm /\ \A j \in HeaderLines(s) : s[j].name = nm => j <= x
    BY <2>2
  <2>8. s[x].is = "header"
    BY <2>7 DEF HeaderLines
  <2> HIDE DEF at
  <2> QED BY <2>4, <2>5, <2>6, <2>7, <2>8
<1> QED BY <1>2, <1>3, <1>4, <1>5 DEF n

LEMMA HeaderFrom ==
  ASSUME NEW rs, NEW s, Readable(s, rs), NEW old, NEW nm \in DOMAIN Headers(s, old)
  PROVE  \E i \in HeaderLines(s) : s[i].name = nm /\ Headers(s, old)[nm] = s[i].value /\ s[i].is = "header"
<1>1. \A m \in DOMAIN Headers(s, old) :
        \E i \in HeaderLines(s) :
          /\ s[i].name = m /\ Headers(s, old)[m] = s[i].value /\ s[i].is = "header"
          /\ \A j \in HeaderLines(s) : s[j].name = m => j <= i
  BY HeadersAre, Zenon
<1> QED BY <1>1

\* A header is one of some reply, and what is read of it as a length a number.
LEMMA HeaderIn ==
  ASSUME NEW rs, IsReplies(rs), NEW s, Readable(s, rs), NEW old, NEW nm \in DOMAIN Headers(s, old)
  PROVE  \E k \in 1 .. Len(rs) : \E j \in 1 .. Len(rs[k].headers) :
           rs[k].headers[j] = Header(nm, Headers(s, old)[nm]) /\ Number(Headers(s, old)[nm]) \in Int
<1>1. PICK i \in HeaderLines(s) : s[i].name = nm /\ Headers(s, old)[nm] = s[i].value /\ s[i].is = "header"
  BY HeaderFrom
<1>2. Said(s[i], rs)
  <2>1. i \in 1 .. Len(s)
    BY HeadersAre
  <2> QED BY <2>1 DEF Readable
<1>3. PICK k \in 1 .. Len(rs) : \E j \in 1 .. Len(rs[k].headers) : s[i] = rs[k].headers[j]
  BY <1>1, <1>2 DEF Said
<1>4. PICK j \in 1 .. Len(rs[k].headers) : s[i] = rs[k].headers[j]
  BY <1>3
<1>5. rs[k] \in Replies
  BY DEF IsReplies
<1>6. rs[k].headers[j] = Header(rs[k].headers[j].name, rs[k].headers[j].value)
  BY <1>5, OnWireIs
<1>7. Number(rs[k].headers[j].value) \in Int
  BY <1>5, HttpAssumption
<1> QED BY <1>1, <1>4, <1>6, <1>7

LEMMA LengthIs ==
  ASSUME NEW rs, IsReplies(rs), NEW s, Readable(s, rs), NEW old
  PROVE  Length(Headers(s, old)) \in Int
<1>1. \A nm \in DOMAIN Headers(s, old) : Number(Headers(s, old)[nm]) \in Int
  BY HeaderIn
<1> QED BY <1>1 DEF Length

\* A reply that has arrived is read to its end.
LEMMA WholeIs ==
  ASSUME NEW rs, NEW s, Readable(s, rs), NEW r \in Replies, NEW old,
         Size(r) - 1 <= Len(s), \A i \in 1 .. Size(r) - 1 : s[i] = OnWire(r)[1 + i]
  PROVE  /\ EndOfHeaders(s) = Len(r.headers) + 1
         /\ DOMAIN Headers(s, old) = NameOf(r)
         /\ Sound(r) => Length(Headers(s, old)) = Len(r.body)
         /\ ReadBody(After(s, EndOfHeaders(s)), Len(r.body)) = Body(r.body)
<1> DEFINE n == Len(s)
           H == Len(r.headers)
           B == Len(r.body)
<1>0. n \in Nat /\ IsRow(s, n) /\ H \in Nat /\ B \in Nat
  BY OnWireIs DEF Readable
<1>1. Size(r) = H + B + 2 /\ DOMAIN r.headers = 1 .. H /\ DOMAIN r.body = 1 .. B
  BY OnWireIs DEF Size
<1> HIDE DEF n
<1>2. DOMAIN s = 1 .. n
  BY <1>0, RowLength
<1> HIDE DEF H, B
<1>3. H + B + 1 <= n /\ \A i \in 1 .. H + B + 1 : s[i] = OnWire(r)[1 + i]
  <2>1. Size(r) - 1 = H + B + 1
    BY <1>0, <1>1
  <2> QED BY <2>1 DEF n
<1>4. ASSUME NEW i \in 1 .. H PROVE s[i] = r.headers[i] /\ s[i].is = "header"
  <2>1. i \in 1 .. H + B + 1
    BY <1>0
  <2>2. OnWire(r)[1 + i] = r.headers[i] /\ r.headers[i] = Header(r.headers[i].name, r.headers[i].value)
    BY OnWireIs DEF H
  <2>3. \A x, y : Header(x, y).is = "header"
    BY DEF Header
  <2>4. s[i] = r.headers[i]
    BY <1>3, <2>1, <2>2
  <2> QED BY <2>2, <2>3, <2>4
<1>5. s[H + 1] = Blank /\ s[H + 1].is = "blank"
  <2>1. H + 1 \in 1 .. H + B + 1 /\ 1 + (H + 1) = H + 2
    BY <1>0
  <2>2. OnWire(r)[H + 2] = Blank
    BY OnWireIs DEF H
  <2> QED BY <1>3, <2>1, <2>2 DEF Blank
<1>6. ASSUME NEW i \in 1 .. B PROVE s[H + 1 + i] = [is |-> "byte", byte |-> r.body[i]]
  <2>1. H + 1 + i \in 1 .. H + B + 1 /\ 1 + (H + 1 + i) = H + 2 + i
    BY <1>0
  <2>2. OnWire(r)[H + 2 + i] = [is |-> "byte", byte |-> r.body[i]]
    BY OnWireIs DEF H, B
  <2> QED BY <1>3, <2>1, <2>2
<1>7. ASSUME NEW i \in 1 .. H + 1 PROVE IsClean(s, i) /\ i \in 1 .. n
  <2>1. \A j \in 1 .. H + 1 : j \in 1 .. H \/ j = H + 1
    BY <1>0
  <2>2. \A j \in 1 .. H + 1 : IsLine(s, j)
    BY <1>4, <1>5, <2>1 DEF IsLine
  <2>3. i = 1 \/ i - 1 \in 1 .. H + 1
    BY <1>0
  <2>4. i \in 1 .. n
    BY <1>0, <1>3
  <2> QED BY <2>2, <2>3, <2>4 DEF IsClean
<1>8. EndOfHeaders(s) = H + 1
  <2>1. H + 1 \in 1 .. H + 1
    BY <1>0
  <2>2. H + 1 \in Blanks(s)
    BY <1>2, <1>5, <1>7, <2>1 DEF Blanks
  <2>3. ASSUME NEW y \in Blanks(s) PROVE H + 1 <= y
    <3>1. y \in 1 .. n /\ s[y].is = "blank"
      BY <1>2 DEF Blanks
    <3>2. y \notin 1 .. H
      BY <1>4, <3>1
    <3> QED BY <1>0, <3>1, <3>2
  <2>4. Blanks(s) \in SUBSET Nat
    BY <1>0, <1>2 DEF Blanks
  <2>5. Earliest(Blanks(s)) = H + 1
    BY <2>2, <2>3, <2>4, EarliestIs
  <2> QED BY <2>2, <2>5 DEF EndOfHeaders
<1>9. HeaderLines(s) = 1 .. H
  <2>1. 1 .. EndOfHeaders(s) - 1 = 1 .. H
    BY <1>0, <1>8
  <2>2. \A i \in 1 .. H : i \in 1 .. H + 1
    BY <1>0
  <2>3. \A i \in 1 .. H : IsClean(s, i) /\ s[i].is = "header"
    BY <1>4, <1>7, <2>2
  <2> QED BY <2>1, <2>3 DEF HeaderLines
<1>10. DOMAIN Headers(s, old) = NameOf(r)
  <2>1. DOMAIN Headers(s, old) = {s[i].name : i \in 1 .. H}
    BY <1>9 DEF Headers
  <2>2. {s[i].name : i \in 1 .. H} = {r.headers[i].name : i \in 1 .. H}
    BY <1>4
  <2>3. NameOf(r) = {r.headers[i].name : i \in 1 .. H}
    BY <1>1 DEF NameOf
  <2> QED BY <2>1, <2>2, <2>3
<1>11. ASSUME Sound(r) PROVE Length(Headers(s, old)) = B
  <2> DEFINE announced == {i \in DOMAIN r.headers : r.headers[i].name = "content-length"}
  <2>1. IF announced = {} THEN B = 0
        ELSE \E i \in announced : announced = {i} /\ B = Number(r.headers[i].value)
    BY <1>11 DEF Sound, B
  <2>2. CASE announced = {}
    <3>1. "content-length" \notin DOMAIN Headers(s, old)
      BY <1>10, <2>2 DEF NameOf
    <3> HIDE DEF announced
    <3> QED BY <2>1, <2>2, <3>1 DEF Length
  <2>3. CASE announced # {}
    <3>1. PICK i \in announced : announced = {i} /\ B = Number(r.headers[i].value)
      <4> HIDE DEF announced
      <4> QED BY <2>1, <2>3
    <3>2. "content-length" \in DOMAIN Headers(s, old)
      BY <1>10, <3>1 DEF NameOf
    <3>4. PICK j \in HeaderLines(s) : s[j].name = "content-length" /\ Headers(s, old)["content-length"] = s[j].value
      <4> DEFINE m == "content-length"
      <4> HIDE DEF m
      <4>1. m \in DOMAIN Headers(s, old)
        BY <3>2 DEF m
      <4>2. \E j \in HeaderLines(s) : s[j].name = m /\ Headers(s, old)[m] = s[j].value
        BY <4>1, HeaderFrom
      <4> QED BY <4>2 DEF m
    <3>5. j \in 1 .. H /\ s[j] = r.headers[j]
      BY <1>4, <1>9
    <3>6. j \in announced
      BY <1>1, <3>4, <3>5
    <3>7. j = i
      <4> HIDE DEF announced
      <4> QED BY <3>1, <3>6
    <3>8. Headers(s, old)["content-length"] = r.headers[i].value
      BY <3>4, <3>5, <3>7
    <3> HIDE DEF announced
    <3> QED BY <3>1, <3>2, <3>8 DEF Length
  <2> QED BY <2>2, <2>3
<1>12. ReadBody(After(s, EndOfHeaders(s)), B) = Body(r.body)
  <2> DEFINE u == After(s, H + 1)
  <2>1. H + 1 \in Nat /\ H + 1 <= n
    BY <1>0, <1>3
  <2>2. IsSlice(u, s, H + 1, n) /\ Len(u) = n - (H + 1)
    <3>1. H + 1 <= Len(s)
      BY <2>1 DEF n
    <3> QED BY <2>1, <3>1, RestIs DEF n
  <2> HIDE DEF u
  <2>3. ASSUME NEW i \in 1 .. B PROVE i <= Len(u) /\ u[i] = [is |-> "byte", byte |-> r.body[i]]
    <3>1. i \in 1 .. n - (H + 1) /\ i <= Len(u)
      BY <1>0, <1>3, <2>2
    <3>2. u[i] = s[H + 1 + i]
      BY <2>2, <3>1 DEF IsSlice
    <3> QED BY <1>6, <3>1, <3>2
  <2>4. ReadBody(u, B) = [i \in 1 .. B |-> [is |-> "byte", byte |-> r.body[i]]]
    BY <2>3 DEF ReadBody
  <2> QED BY <1>1, <1>8, <2>4 DEF Body, u
<1> QED BY <1>8, <1>10, <1>11, <1>12 DEF H, B

\* What is missing of a body is zero, and nothing else is.
LEMMA BodyIs ==
  ASSUME NEW rs, NEW s, Readable(s, rs), NEW n \in Nat
  PROVE  /\ Len(ReadBody(s, n)) = n /\ DOMAIN ReadBody(s, n) = 1 .. n
         /\ \A i \in 1 .. n : ReadBody(s, n)[i].is = "zero" <=> i > Len(s)
<1>1. IsRow(ReadBody(s, n), n)
  BY DEF ReadBody, IsRow
<1>2. Len(ReadBody(s, n)) = n /\ DOMAIN ReadBody(s, n) = 1 .. n
  BY <1>1, RowLength
<1>3. ASSUME NEW i \in 1 .. n PROVE ReadBody(s, n)[i].is = "zero" <=> i > Len(s)
  <2>0. Len(s) \in Nat
    BY DEF Readable
  <2>1. CASE i <= Len(s)
    <3>1. i \in 1 .. Len(s) /\ ReadBody(s, n)[i] = s[i]
      BY <2>0, <2>1 DEF ReadBody
    <3>2. s[i].is \in Kinds
      BY <3>1 DEF Readable, Said
    <3> QED BY <2>0, <2>1, <3>1, <3>2 DEF Kinds
  <2>2. CASE i > Len(s)
    <3>1. ReadBody(s, n)[i] = [is |-> "zero"]
      BY <2>0, <2>2 DEF ReadBody
    <3> QED BY <2>2, <3>1
  <2> QED BY <2>0, <2>1, <2>2
<1> QED BY <1>2, <1>3

\* The decision about the connection changes no other header.
LEMMA ConnectionIs ==
  ASSUME NEW headers, NEW proto
  PROVE  /\ DOMAIN Connection(headers, proto) = DOMAIN headers \cup {"connection"}
         /\ Length(Connection(headers, proto)) = Length(headers)
         /\ Connection(headers, proto)["connection"] \in {Close, KeepAlive}
         /\ Connection(headers, proto)["connection"] = KeepAlive =>
              proto >= 1 \/ ("connection" \in DOMAIN headers /\ headers["connection"] = KeepAlive)
<1> DEFINE c == Connection(headers, proto)
<1>1. DOMAIN c = DOMAIN headers \cup {"connection"}
  BY DEF Connection
<1>2. \A m \in DOMAIN headers : m # "connection" => c[m] = headers[m]
  BY DEF Connection
<1>3. c["connection"] = IF "connection" \in DOMAIN headers /\ headers["connection"] \in {Close, KeepAlive}
                        THEN headers["connection"] ELSE IF proto >= 1 THEN KeepAlive ELSE Close
  BY DEF Connection
<1>4. Close # KeepAlive
  BY HttpAssumption
<1> HIDE DEF c
<1>5. Length(c) = Length(headers)
  BY <1>1, <1>2 DEF Length
<1>6. c["connection"] \in {Close, KeepAlive}
  BY <1>3
<1>7. c["connection"] = KeepAlive => proto >= 1 \/ ("connection" \in DOMAIN headers /\ headers["connection"] = KeepAlive)
  BY <1>3, <1>4
<1> QED BY <1>1, <1>5, <1>6, <1>7 DEF c

-----------------------------------------------------------------------------
\* What is left of the stream when a part of it has been read.
LEMMA SliceOfSlice ==
  ASSUME NEW a \in Nat, NEW p \in 0 .. a, NEW q \in 0 .. a - p, NEW s, NEW u, NEW v,
         IsSlice(u, s, p, a), IsSlice(v, u, q, a - p)
  PROVE  IsSlice(v, s, p + q, a)
<1>1. (a - p) - q = a - (p + q)
  OBVIOUS
<1>2. ASSUME NEW i \in 1 .. a - (p + q) PROVE v[i] = s[p + q + i]
  <2>1. q + i \in 1 .. a - p /\ p + (q + i) = p + q + i
    OBVIOUS
  <2> QED BY <1>1, <2>1 DEF IsSlice
<1> QED BY <1>1, <1>2 DEF IsSlice

LEMMA SameSlice ==
  ASSUME NEW p, NEW a, NEW s, NEW u, NEW v, IsSlice(u, s, p, a), IsSlice(v, s, p, a)
  PROVE  u = v
<1>1. u = [i \in 1 .. a - p |-> s[p + i]]
  BY DEF IsSlice, IsRow
<1>2. v = [i \in 1 .. a - p |-> s[p + i]]
  BY DEF IsSlice, IsRow
<1> QED BY <1>1, <1>2

\* The places in all that is sent.
LEMMA WiresIs ==
  ASSUME NEW rs, IsReplies(rs)
  PROVE  /\ IsRow(Wires(rs), Len(Wires(rs))) /\ Len(Wires(rs)) \in Nat /\ Readable(Wires(rs), rs)
         /\ \A k \in 0 .. Len(rs) : Ends(rs, k) \in 0 .. Len(Wires(rs))
         /\ \A k \in 0 .. Len(rs) - 1 :
              /\ rs[k + 1] \in Replies /\ Size(rs[k + 1]) \in Nat /\ Size(rs[k + 1]) >= 2
              /\ Ends(rs, k + 1) = Ends(rs, k) + Size(rs[k + 1])
              /\ \A i \in 1 .. Size(rs[k + 1]) : Wires(rs)[Ends(rs, k) + i] = OnWire(rs[k + 1])[i]
<1> DEFINE n == Len(rs)
<1>0. n \in Nat
  BY DEF IsReplies
<1>1. PlacedUpTo(rs, n) /\ \A k \in 0 .. n : Ends(rs, k) \in 0 .. Ends(rs, n)
  BY Placed
<1>2. Wires(rs) = Sent(rs)[n] /\ Len(Wires(rs)) = Ends(rs, n)
  BY DEF Wires, Ends
<1>3. IsRow(Wires(rs), Len(Wires(rs))) /\ Len(Wires(rs)) \in Nat /\ Readable(Wires(rs), rs)
  BY <1>1, <1>2 DEF PlacedUpTo, Readable
<1>4. ASSUME NEW k \in 0 .. n - 1
      PROVE  /\ rs[k + 1] \in Replies /\ Size(rs[k + 1]) \in Nat /\ Size(rs[k + 1]) >= 2
             /\ Ends(rs, k + 1) = Ends(rs, k) + Size(rs[k + 1])
             /\ \A i \in 1 .. Size(rs[k + 1]) : Wires(rs)[Ends(rs, k) + i] = OnWire(rs[k + 1])[i]
  <2>1. k + 1 \in 1 .. n /\ (k + 1) - 1 = k
    BY <1>0
  <2>2. rs[k + 1] \in Replies
    BY <2>1 DEF IsReplies
  <2>3. \A r \in Replies : Size(r) \in Nat /\ Size(r) >= 2
    <3> TAKE r \in Replies
    <3>1. Len(r.headers) \in Nat /\ Len(r.body) \in Nat
      BY OnWireIs
    <3>2. \A x, y \in Nat : x + y + 2 \in Nat /\ x + y + 2 >= 2
      OBVIOUS
    <3> QED BY <3>1, <3>2 DEF Size
  <2>4. \A m \in 1 .. n :
          /\ Ends(rs, m) = Ends(rs, m - 1) + Size(rs[m])
          /\ \A i \in 1 .. Size(rs[m]) : Sent(rs)[n][Ends(rs, m - 1) + i] = OnWire(rs[m])[i]
    BY <1>1 DEF PlacedUpTo
  <2> HIDE DEF n
  <2> QED BY <1>2, <2>1, <2>2, <2>3, <2>4
<1> QED BY <1>1, <1>2, <1>3, <1>4

\* The stream s stands at place p of what the replies rs are, of which all up to
\* a has arrived.
Stands(s, rs, p, a) ==
  /\ IsReplies(rs) /\ Readable(s, rs) /\ a \in 0 .. Len(Wires(rs)) /\ p \in 0 .. a
  /\ IsSlice(s, Wires(rs), p, a)

LEMMA StandsAt ==
  ASSUME NEW rs, NEW s, NEW a, NEW p, Stands(s, rs, p, a)
  PROVE  /\ Len(s) = a - p
         /\ \A q \in 0 .. a - p : Stands(After(s, q), rs, p + q, a)
<1>1. IsReplies(rs) /\ Readable(s, rs) /\ a \in Nat /\ p \in 0 .. a /\ IsSlice(s, Wires(rs), p, a)
  <2>1. IsReplies(rs) /\ a \in 0 .. Len(Wires(rs))
    BY DEF Stands
  <2>2. Len(Wires(rs)) \in Nat
    BY <2>1, WiresIs
  <2> QED BY <2>1, <2>2 DEF Stands
<1>2. Len(s) = a - p
  <2>1. a - p \in Nat /\ IsRow(s, a - p)
    BY <1>1 DEF IsSlice
  <2> QED BY <2>1, RowLength
<1>3. ASSUME NEW q \in 0 .. a - p PROVE Stands(After(s, q), rs, p + q, a)
  <2>1. q \in Nat /\ q <= Len(s) /\ p + q \in 0 .. a
    BY <1>1, <1>2
  <2>2. Readable(After(s, q), rs) /\ IsSlice(After(s, q), s, q, a - p)
    BY <1>1, <1>2, <2>1, RestIs
  <2>3. IsSlice(After(s, q), Wires(rs), p + q, a)
    BY <1>1, <2>2, SliceOfSlice
  <2> QED BY <2>1, <2>2, <2>3 DEF Stands
<1> QED BY <1>2, <1>3

\* In front of a reply its status line is read, if that has arrived.
LEMMA StatusRead ==
  ASSUME NEW rs, NEW s, NEW a, NEW k \in 0 .. Len(rs) - 1, NEW proto,
         Stands(s, rs, Ends(rs, k), a), Ends(rs, k) < a
  PROVE  /\ Stands(ReadHTTPStatus(s, proto).rest, rs, Ends(rs, k) + 1, a)
         /\ ReadHTTPStatus(s, proto).status = rs[k + 1].code
         /\ ReadHTTPStatus(s, proto).proto = rs[k + 1].proto
<1> DEFINE p == Ends(rs, k)
           r == rs[k + 1]
<1>1. /\ IsReplies(rs) /\ Readable(s, rs) /\ p \in Nat /\ a \in Nat /\ p < a
      /\ Len(s) = a - p /\ IsSlice(s, Wires(rs), p, a)
  <2>1. IsReplies(rs) /\ a \in 0 .. Len(Wires(rs)) /\ p \in 0 .. a
    BY DEF Stands
  <2>2. Len(Wires(rs)) \in Nat
    BY <2>1, WiresIs
  <2>3. Len(s) = a - p
    BY StandsAt
  <2> QED BY <2>1, <2>2, <2>3 DEF Stands
<1>2. /\ r \in Replies /\ Size(r) \in Nat /\ Size(r) >= 2
      /\ \A i \in 1 .. Size(r) : Wires(rs)[p + i] = OnWire(r)[i]
  BY <1>1, WiresIs
<1> HIDE DEF p, r
<1>3. s[1] = StatusLine(r.code, r.proto)
  <2>1. 1 \in 1 .. a - p /\ 1 \in 1 .. Size(r)
    BY <1>1, <1>2
  <2>2. s[1] = Wires(rs)[p + 1]
    BY <1>1, <2>1 DEF IsSlice
  <2>3. Wires(rs)[p + 1] = OnWire(r)[1]
    BY <1>2, <2>1
  <2>4. OnWire(r)[1] = StatusLine(r.code, r.proto)
    BY <1>2, OnWireIs
  <2> QED BY <2>2, <2>3, <2>4
<1>4. Len(s) > 0 /\ 1 \in 0 .. a - p
  BY <1>1
<1>5. /\ LineEnd(s) = 1 /\ ReadHTTPStatus(s, proto).status = r.code /\ ReadHTTPStatus(s, proto).proto = r.proto
      /\ ReadHTTPStatus(s, proto).rest = After(s, LineEnd(s))
  BY <1>1, <1>3, <1>4, StatusIs
<1>6. Stands(After(s, 1), rs, p + 1, a)
  <2>1. Stands(s, rs, p, a)
    BY DEF p
  <2> QED BY <1>4, <2>1, StandsAt
<1> QED BY <1>5, <1>6 DEF p, r

\* Behind the status line the rest of the reply is read, if all of it has arrived
\* and it announces its length.
LEMMA MessageRead ==
  ASSUME NEW rs, NEW s, NEW a, NEW k \in 0 .. Len(rs) - 1, NEW old, NEW proto,
         Stands(s, rs, Ends(rs, k) + 1, a), Ends(rs, k + 1) <= a, Sound(rs[k + 1])
  PROVE  LET m == ReadHTTPMessage(s, old, proto)
             r == rs[k + 1]
         IN /\ m.ret = HTTP_OK
            /\ m.message = Body(r.body)
            /\ Stands(m.rest, rs, Ends(rs, k + 1), a)
            /\ DOMAIN m.headers = NameOf(r) \cup {"connection"}
<1> DEFINE p == Ends(rs, k) + 1
           r == rs[k + 1]
           H == Len(r.headers)
           B == Len(r.body)
           headers == Headers(s, old)
           rest == After(s, EndOfHeaders(s))
<1>1. /\ IsReplies(rs) /\ Readable(s, rs) /\ p \in Nat /\ a \in Nat
      /\ Len(s) = a - p /\ IsSlice(s, Wires(rs), p, a) /\ Ends(rs, k) \in Nat
  <2>1. IsReplies(rs) /\ a \in 0 .. Len(Wires(rs)) /\ p \in 0 .. a
    BY DEF Stands
  <2>2. Len(Wires(rs)) \in Nat
    BY <2>1, WiresIs
  <2>3. Len(s) = a - p
    BY StandsAt
  <2>4. Ends(rs, k) \in Nat
    <3>1. k \in 0 .. Len(rs)
      OBVIOUS
    <3>2. Ends(rs, k) \in 0 .. Len(Wires(rs))
      BY <2>1, <3>1, WiresIs
    <3> QED BY <3>2
  <2> QED BY <2>1, <2>2, <2>3, <2>4 DEF Stands
<1>2. /\ r \in Replies /\ Ends(rs, k + 1) = Ends(rs, k) + Size(r)
      /\ \A i \in 1 .. Size(r) : Wires(rs)[Ends(rs, k) + i] = OnWire(r)[i]
  BY <1>1, WiresIs
<1> HIDE DEF r
<1>3. H \in Nat /\ B \in Nat /\ Size(r) = H + B + 2
  BY <1>2, OnWireIs DEF Size
<1> HIDE DEF H, B
<1>4. Size(r) - 1 <= Len(s)
  BY <1>1, <1>2, <1>3
<1>5. ASSUME NEW i \in 1 .. Size(r) - 1 PROVE s[i] = OnWire(r)[1 + i]
  <2>1. i \in 1 .. a - p /\ 1 + i \in 1 .. Size(r) /\ p + i = Ends(rs, k) + (1 + i)
    <3> DEFINE e == Ends(rs, k)
               y == Size(r)
    <3>1. p = e + 1 /\ e \in Nat /\ y \in Nat /\ y - 1 <= a - p /\ a \in Nat /\ i \in 1 .. y - 1
      BY <1>1, <1>3, <1>4
    <3> HIDE DEF p, e, y
    <3>2. i \in 1 .. a - p /\ 1 + i \in 1 .. y /\ p + i = e + (1 + i)
      BY <3>1
    <3> QED BY <3>2 DEF e, y
  <2>2. s[i] = Wires(rs)[p + i]
    <3> HIDE DEF p
    <3> QED BY <1>1, <2>1 DEF IsSlice
  <2> QED BY <1>2, <2>1, <2>2
<1>6. /\ EndOfHeaders(s) = H + 1 /\ DOMAIN headers = NameOf(r) /\ Length(headers) = B
      /\ ReadBody(rest, B) = Body(r.body)
  <2>1. Sound(r)
    BY DEF r
  <2> QED BY <1>1, <1>2, <1>4, <1>5, <2>1, WholeIs DEF H, B
<1>7. ~(B < 0 \/ B > MaxLength)
  <2>1. Len(r.body) <= MaxLength
    BY DEF Sound, r
  <2> QED BY <1>3, <2>1, HttpAssumption DEF B
<1>8. ReadHTTPMessage(s, old, proto) =
        [ret |-> HTTP_OK, headers |-> Connection(headers, proto), message |-> ReadBody(rest, B),
         rest |-> After(rest, B)]
  <2> HIDE DEF headers, rest
  <2>1. Length(headers) = B
    BY <1>6
  <2> QED BY <1>7, <2>1 DEF ReadHTTPMessage, headers, rest
<1>9. Stands(After(rest, B), rs, Ends(rs, k + 1), a)
  <2>1. Stands(s, rs, p, a)
    OBVIOUS
  <2>2. H + 1 \in 0 .. a - p /\ B \in 0 .. a - (p + (H + 1)) /\ (p + (H + 1)) + B = Ends(rs, k + 1)
    <3> DEFINE e == Ends(rs, k)
               f == Ends(rs, k + 1)
    <3>1. p = e + 1 /\ e \in Nat /\ f = e + (H + B + 2) /\ a \in Nat /\ H \in Nat /\ B \in Nat /\ f <= a
      BY <1>1, <1>2, <1>3
    <3> HIDE DEF p, e, f
    <3>2. H + 1 \in 0 .. a - p /\ B \in 0 .. a - (p + (H + 1)) /\ (p + (H + 1)) + B = f
      BY <3>1
    <3> QED BY <3>2 DEF e, f
  <2> HIDE DEF p, rest
  <2>3. Stands(rest, rs, p + (H + 1), a)
    BY <1>6, <2>1, <2>2, StandsAt DEF rest
  <2>4. Stands(After(rest, B), rs, (p + (H + 1)) + B, a)
    BY <2>2, <2>3, StandsAt
  <2> QED BY <2>2, <2>4
<1>10. DOMAIN Connection(headers, proto) = NameOf(r) \cup {"connection"}
  BY <1>6, ConnectionIs
<1> HIDE DEF headers, rest
<1> QED BY <1>6, <1>8, <1>9, <1>10 DEF r

\* Whatever can be read, a reply that is taken has the length it announces, is
\* padded only at the end of the stream, and settles the connection.
LEMMA AnyMessage ==
  ASSUME NEW rs, IsReplies(rs), NEW s, Readable(s, rs), NEW old, NEW proto
  PROVE  LET m == ReadHTTPMessage(s, old, proto)
         IN /\ Readable(m.rest, rs)
            /\ m.ret = HTTP_OK =>
                 /\ Len(m.message) = Length(m.headers)
                 /\ \A i \in DOMAIN m.message :
                      m.message[i].is = "zero" =>
                        m.rest = <<>> /\ \A j \in i .. Len(m.message) : m.message[j].is = "zero"
                 /\ m.headers["connection"] \in {Close, KeepAlive}
                 /\ m.headers["connection"] = KeepAlive =>
                      proto >= 1 \/ \E k \in 1 .. Len(rs) : \E j \in 1 .. Len(rs[k].headers) :
                                      rs[k].headers[j] = Header("connection", KeepAlive)
<1> DEFINE headers == Headers(s, old)
           nLen == Length(headers)
           rest == After(s, EndOfHeaders(s))
           m == ReadHTTPMessage(s, old, proto)
<1>1. Readable(rest, rs) /\ nLen \in Int
  <2>1. EndOfHeaders(s) \in Nat
    BY HeadersAre
  <2>2. nLen \in Int
    BY LengthIs
  <2> QED BY <2>1, <2>2, RestIs
<1> HIDE DEF headers, rest
<1>2. CASE nLen < 0 \/ nLen > MaxLength
  <2>1. m = [ret |-> HTTP_INTERNAL_SERVER_ERROR, headers |-> headers, message |-> <<>>, rest |-> rest]
    BY <1>2 DEF ReadHTTPMessage, headers, rest
  <2>2. m.ret # HTTP_OK /\ m.rest = rest
    BY <2>1 DEF HTTP_OK, HTTP_INTERNAL_SERVER_ERROR
  <2> HIDE DEF m
  <2>3. Readable(m.rest, rs)
    BY <1>1, <2>2
  <2> QED BY <2>2, <2>3 DEF m
<1>3. CASE ~(nLen < 0 \/ nLen > MaxLength)
  <2> DEFINE c == Connection(headers, proto)
             b == ReadBody(rest, nLen)
  <2>1. m = [ret |-> HTTP_OK, headers |-> c, message |-> b, rest |-> After(rest, nLen)]
    BY <1>3 DEF ReadHTTPMessage, headers, rest
  <2> HIDE DEF nLen
  <2>2. nLen \in Nat
    BY <1>1, <1>3, HttpAssumption
  <2>3. Readable(After(rest, nLen), rs) /\ (nLen >= Len(rest) => After(rest, nLen) = <<>>) /\ Len(rest) \in Nat
    <3>1. Len(rest) \in Nat
      BY <1>1 DEF Readable
    <3> QED BY <1>1, <2>2, <3>1, RestIs
  <2>4. Len(b) = nLen /\ DOMAIN b = 1 .. nLen /\ \A i \in 1 .. nLen : b[i].is = "zero" <=> i > Len(rest)
    BY <1>1, <2>2, BodyIs
  <2>5. Length(c) = nLen
    BY ConnectionIs DEF nLen
  <2>6. c["connection"] \in {Close, KeepAlive}
    BY ConnectionIs
  <2>7. c["connection"] = KeepAlive =>
          proto >= 1 \/ \E k \in 1 .. Len(rs) : \E j \in 1 .. Len(rs[k].headers) :
                          rs[k].headers[j] = Header("connection", KeepAlive)
    <3> HAVE c["connection"] = KeepAlive
    <3>1. proto >= 1 \/ ("connection" \in DOMAIN headers /\ headers["connection"] = KeepAlive)
      BY ConnectionIs
    <3> SUFFICES ASSUME "connection" \in DOMAIN headers, headers["connection"] = KeepAlive
                 PROVE  \E k \in 1 .. Len(rs) : \E j \in 1 .. Len(rs[k].headers) :
                          rs[k].headers[j] = Header("connection", KeepAlive)
      BY <3>1
    <3> DEFINE nm == "connection"
    <3> HIDE DEF nm
    <3>2. nm \in DOMAIN headers /\ headers[nm] = KeepAlive
      BY DEF nm
    <3>3. \E k \in 1 .. Len(rs) : \E j \in 1 .. Len(rs[k].headers) : rs[k].headers[j] = Header(nm, headers[nm])
      BY <3>2, HeaderIn DEF headers
    <3> QED BY <3>2, <3>3 DEF nm
  <2> HIDE DEF c, b
  <2>8. ASSUME NEW i \in DOMAIN b, b[i].is = "zero"
        PROVE  After(rest, nLen) = <<>> /\ \A j \in i .. Len(b) : b[j].is = "zero"
    <3>1. i \in 1 .. nLen /\ i > Len(rest)
      BY <2>4, <2>8
    <3>2. nLen >= Len(rest)
      BY <2>2, <2>3, <3>1
    <3>3. ASSUME NEW j \in i .. Len(b) PROVE b[j].is = "zero"
      <4>1. j \in 1 .. nLen /\ j > Len(rest)
        BY <2>2, <2>3, <2>4, <3>1
      <4> QED BY <2>4, <4>1
    <3> QED BY <2>3, <3>2, <3>3
  <2> HIDE DEF m
  <2>9. m.headers = c /\ m.message = b /\ m.rest = After(rest, nLen)
    BY <2>1
  <2>10. Readable(m.rest, rs) /\ Len(m.message) = Length(m.headers)
    BY <2>3, <2>4, <2>5, <2>9
  <2>11. \A i \in DOMAIN m.message :
           m.message[i].is = "zero" =>
             m.rest = <<>> /\ \A j \in i .. Len(m.message) : m.message[j].is = "zero"
    BY <2>8, <2>9
  <2> QED BY <2>6, <2>7, <2>9, <2>10, <2>11 DEF m
<1> QED BY <1>2, <1>3

-----------------------------------------------------------------------------
\* The invariant: what can be read is what replies say; and where the replies
\* so far announce their length and have arrived, the stream stands at the next
\* one, behind its status line if that has been read.
HttpTypeOK ==
  /\ IsReplies(replies)
  /\ cut \in 0 .. Len(Wires(replies))
  /\ turn = [read |-> turn.read, next |-> turn.next]
  /\ turn.read \in 0 .. Len(replies) /\ turn.next \in {"status", "message"}
  /\ turn.next = "message" => turn.read < Len(replies)
  /\ got = [status |-> got.status, proto |-> got.proto, ret |-> got.ret, headers |-> got.headers, message |-> got.message]
  /\ Readable(wire, replies)
AtReply ==
  turn.next = "status" /\ InStep => Stands(wire, replies, Ends(replies, turn.read), Arrived)
AtMessage ==
  turn.next = "message" /\ (\A i \in 1 .. turn.read : Sound(replies[i])) /\ Ends(replies, turn.read) < Arrived =>
    /\ Stands(wire, replies, Ends(replies, turn.read) + 1, Arrived)
    /\ got.status = replies[turn.read + 1].code /\ got.proto = replies[turn.read + 1].proto
HttpInv == HttpTypeOK /\ AtReply /\ AtMessage /\ RepliesAreTheirOwn

\* Nothing is claimed of a reply that is not read yet.
LEMMA NothingRead ==
  (turn.next = "message" \/ turn.read = 0) /\ turn.read \in Nat => RepliesAreTheirOwn
<1>1. (turn.next = "message" \/ turn.read = 0) /\ turn.read \in Nat => ~JustRead
  BY DEF JustRead
<1> QED BY <1>1 DEF RepliesAreTheirOwn, RepliesInStep, CutIsPadded, OwnHeaders, ConnectionSettled

LEMMA NoReplies ==
  replies = <<>> /\ wire = <<>> /\ cut = 0 /\ turn = [read |-> 0, next |-> "status"] /\ got = NotYet => HttpInv
<1> SUFFICES ASSUME replies = <<>>, wire = <<>>, cut = 0, turn = [read |-> 0, next |-> "status"], got = NotYet
             PROVE  HttpInv
  OBVIOUS
<1>1. IsRow(<<>>, 0) /\ Len(<<>>) = 0
  BY DEF IsRow
<1>2. IsReplies(<<>>) /\ Readable(<<>>, <<>>)
  BY <1>1 DEF IsReplies, Readable
<1>3. Sent(<<>>)[0] = <<>>
  BY <1>2, SentIs
<1>4. Wires(<<>>) = <<>> /\ Ends(<<>>, 0) = 0
  BY <1>1, <1>3 DEF Wires, Ends
<1>5. turn.read = 0 /\ turn.next = "status"
  OBVIOUS
<1>6. HttpTypeOK
  <2>1. got = [status |-> got.status, proto |-> got.proto, ret |-> got.ret, headers |-> got.headers, message |-> got.message]
    BY DEF NotYet
  <2> QED BY <1>1, <1>2, <1>4, <1>5, <2>1 DEF HttpTypeOK
<1>7. Stands(<<>>, <<>>, 0, 0)
  BY <1>1, <1>2, <1>4 DEF Stands, IsSlice
<1>8. AtReply
  BY <1>1, <1>4, <1>5, <1>7 DEF AtReply, Arrived
<1>9. AtMessage
  BY <1>5 DEF AtMessage
<1>10. RepliesAreTheirOwn
  BY <1>5, NothingRead
<1> QED BY <1>6, <1>8, <1>9, <1>10 DEF HttpInv

LEMMA HttpInitially == HttpInit => HttpInv
BY NoReplies DEF HttpInit

\* The peer answers: all that arrives is in front of the first reply.
LEMMA ConnectKeeps == HttpInv /\ Connect => HttpInv'
<1> SUFFICES ASSUME HttpInv, Connect PROVE HttpInv'
  OBVIOUS
<1>1. turn.read = 0 /\ turn.next = "status" /\ UNCHANGED <<turn, got>>
  <2>1. replies = <<>> /\ UNCHANGED <<turn, got>>
    BY DEF Connect
  <2>2. turn.read \in 0 .. Len(replies) /\ Len(replies) = 0
    BY <2>1 DEF HttpInv, HttpTypeOK
  <2> QED BY <2>1, <2>2 DEF HttpInv, HttpTypeOK
<1>2. PICK n \in 1 .. MaxReplies : replies' \in [1 .. n -> Replies]
  BY DEF Connect
<1>3. IsReplies(replies')
  <2>1. n \in Nat
    BY <1>2, HttpAssumption
  <2>2. IsRow(replies', n) /\ \A k \in 1 .. n : replies'[k] \in Replies
    BY <1>2 DEF IsRow
  <2>3. Len(replies') = n
    BY <2>1, <2>2, RowLength
  <2> QED BY <2>1, <2>2, <2>3 DEF IsReplies
<1> DEFINE W == Wires(replies')
           L == Len(W)
<1>4. PICK lost \in 0 .. L : cut' = lost /\ wire' = SubSeq(W, 1, L - lost)
  BY DEF Connect
<1>5. IsRow(W, L) /\ L \in Nat /\ Readable(W, replies')
  BY <1>3, WiresIs
<1>6. Arrived' = L - lost /\ L - lost \in 0 .. L
  BY <1>4, <1>5 DEF Arrived
<1>7. IsSlice(wire', W, 0, L - lost)
  <2> HIDE DEF W, L
  <2>1. 0 \in 0 .. L /\ L - lost \in 0 .. L /\ 0 + 1 = 1
    BY <1>5, <1>6
  <2> QED BY <1>4, <1>5, <2>1, Slice
<1>8. Readable(wire', replies')
  <2> HIDE DEF W, L
  <2>1. (L - lost) - 0 = L - lost /\ L - lost \in Nat
    BY <1>5, <1>6
  <2>2. IsRow(wire', L - lost)
    BY <1>7, <2>1 DEF IsSlice
  <2>3. Len(wire') = L - lost
    BY <2>1, <2>2, RowLength
  <2>4. ASSUME NEW i \in 1 .. L - lost PROVE Said(wire'[i], replies')
    <3>1. i \in 1 .. L /\ 0 + i = i
      BY <1>5, <1>6
    <3>2. wire'[i] = W[i]
      BY <1>7, <2>1, <3>1 DEF IsSlice
    <3>3. i \in 1 .. Len(W)
      BY <3>1 DEF L
    <3> QED BY <1>5, <3>2, <3>3 DEF Readable
  <2> QED BY <2>1, <2>2, <2>3, <2>4 DEF Readable
<1>9. Ends(replies', 0) = 0
  <2>1. Sent(replies')[0] = <<>>
    BY <1>3, SentIs
  <2> QED BY <2>1 DEF Ends
<1>10. HttpTypeOK'
  <2>1. Len(replies') \in Nat
    BY <1>3 DEF IsReplies
  <2>2. 0 \in 0 .. Len(replies')
    BY <2>1
  <2> QED BY <1>1, <1>3, <1>4, <1>8, <2>2 DEF HttpTypeOK, HttpInv
<1>11. AtReply'
  <2>1. Stands(wire', replies', 0, L - lost)
    <3>1. 0 \in 0 .. L - lost
      BY <1>5, <1>6
    <3> QED BY <1>3, <1>5, <1>6, <1>7, <1>8, <3>1 DEF Stands
  <2> HIDE DEF L
  <2> QED BY <1>1, <1>6, <1>9, <2>1 DEF AtReply
<1>12. AtMessage'
  BY <1>1 DEF AtMessage
<1>13. RepliesAreTheirOwn'
  <2>1. turn'.read = 0 /\ turn'.read \in Nat
    BY <1>1
  <2>2. ~JustRead'
    BY <2>1 DEF JustRead
  <2> QED BY <2>2 DEF RepliesAreTheirOwn, RepliesInStep, CutIsPadded, OwnHeaders, ConnectionSettled
<1> QED BY <1>10, <1>11, <1>12, <1>13 DEF HttpInv

LEMMA DisconnectKeeps == HttpInv /\ Disconnect => HttpInv'
<1>1. Disconnect => /\ replies' = <<>> /\ wire' = <<>> /\ cut' = 0
                    /\ turn' = [read |-> 0, next |-> "status"] /\ got' = NotYet
  BY DEF Disconnect
<1>2. (replies = <<>> /\ wire = <<>> /\ cut = 0 /\ turn = [read |-> 0, next |-> "status"] /\ got = NotYet)' => HttpInv'
  BY NoReplies, PTL
<1> QED BY <1>1, <1>2 DEF NotYet

\* The status line of the next reply is read, or the end of a cut stream.
LEMMA ReadStatusKeeps == HttpInv /\ ReadStatus => HttpInv'
<1> SUFFICES ASSUME HttpInv, ReadStatus PROVE HttpInv'
  OBVIOUS
<1> DEFINE r == ReadHTTPStatus(wire, got.proto)
           k == turn.read
<1>1. /\ turn.next = "status" /\ k \in 0 .. Len(replies) - 1 /\ k \in Nat
      /\ IsReplies(replies) /\ Len(replies) \in Nat /\ Readable(wire, replies)
  <2>1. turn.next = "status" /\ turn.read < Len(replies)
    BY DEF ReadStatus
  <2>2. IsReplies(replies) /\ Len(replies) \in Nat /\ k \in 0 .. Len(replies) /\ Readable(wire, replies)
    BY DEF HttpInv, HttpTypeOK, IsReplies
  <2> QED BY <2>1, <2>2
<1>2. /\ got' = [got EXCEPT !.status = r.status, !.proto = r.proto]
      /\ wire' = r.rest /\ turn' = [turn EXCEPT !.next = "message"]
      /\ replies' = replies /\ cut' = cut
  BY DEF ReadStatus
<1>3. turn' = [read |-> k, next |-> "message"] /\ turn'.read = k /\ turn'.next = "message"
  BY <1>2 DEF HttpInv, HttpTypeOK
<1>4. /\ got' = [status |-> r.status, proto |-> r.proto, ret |-> got.ret, headers |-> got.headers, message |-> got.message]
      /\ got'.status = r.status /\ got'.proto = r.proto
  <2> HIDE DEF r
  <2> QED BY <1>2 DEF HttpInv, HttpTypeOK
<1>5. Readable(wire', replies)
  <2>1. LineEnd(wire) \in Nat /\ r.rest = After(wire, LineEnd(wire))
    <3>1. Len(wire) \in Nat
      BY <1>1 DEF Readable
    <3> QED BY <1>1, <3>1, StatusIs
  <2> HIDE DEF r
  <2> QED BY <1>1, <1>2, <2>1, RestIs
<1> HIDE DEF r
<1>6. HttpTypeOK'
  <2>1. cut' \in 0 .. Len(Wires(replies')) /\ IsReplies(replies')
    BY <1>2 DEF HttpInv, HttpTypeOK
  <2>2. turn'.read \in 0 .. Len(replies') /\ turn'.read < Len(replies')
    BY <1>1, <1>2, <1>3
  <2>3. got' = [status |-> got'.status, proto |-> got'.proto, ret |-> got'.ret, headers |-> got'.headers, message |-> got'.message]
    BY <1>4
  <2>4. Readable(wire', replies')
    BY <1>2, <1>5
  <2> QED BY <1>3, <2>1, <2>2, <2>3, <2>4 DEF HttpTypeOK
<1>7. AtReply'
  BY <1>3 DEF AtReply
<1>8. AtMessage'
  <2>0. Arrived' = Arrived
    BY <1>2 DEF Arrived
  <2> SUFFICES ASSUME \A i \in 1 .. k : Sound(replies[i]), Ends(replies, k) < Arrived
               PROVE  /\ Stands(wire', replies, Ends(replies, k) + 1, Arrived)
                      /\ got'.status = replies[k + 1].code /\ got'.proto = replies[k + 1].proto
    BY <1>2, <1>3, <2>0 DEF AtMessage
  <2>1. Ends(replies, k) \in Nat /\ Len(Wires(replies)) \in Nat /\ Arrived \in Int
    <3>1. k \in 0 .. Len(replies)
      BY <1>1
    <3>2. Ends(replies, k) \in 0 .. Len(Wires(replies)) /\ Len(Wires(replies)) \in Nat
      BY <1>1, <3>1, WiresIs
    <3>3. cut \in 0 .. Len(Wires(replies))
      BY DEF HttpInv, HttpTypeOK
    <3> QED BY <3>2, <3>3 DEF Arrived
  <2>2. InStep
    <3>1. Sending(turn.read) = Ends(replies, k)
      BY DEF Sending, Ends
    <3> QED BY <2>1, <3>1 DEF InStep
  <2>3. Stands(wire, replies, Ends(replies, k), Arrived)
    BY <1>1, <2>2 DEF HttpInv, AtReply
  <2>4. /\ Stands(r.rest, replies, Ends(replies, k) + 1, Arrived)
        /\ r.status = replies[k + 1].code /\ r.proto = replies[k + 1].proto
    <3> HIDE DEF k
    <3> QED BY <1>1, <2>3, StatusRead DEF r
  <2> QED BY <1>2, <1>4, <2>4
<1>9. RepliesAreTheirOwn'
  <2>1. ~JustRead'
    BY <1>3 DEF JustRead
  <2> QED BY <2>1 DEF RepliesAreTheirOwn, RepliesInStep, CutIsPadded, OwnHeaders, ConnectionSettled
<1> QED BY <1>6, <1>7, <1>8, <1>9 DEF HttpInv

\* The rest of the reply is read, or what has arrived of it.
LEMMA ReadMessageKeeps == HttpInv /\ ReadMessage => HttpInv'
<1> SUFFICES ASSUME HttpInv, ReadMessage PROVE HttpInv'
  OBVIOUS
<1> DEFINE m == ReadHTTPMessage(wire, got.headers, got.proto)
           k == turn.read
<1>1. /\ turn.next = "message" /\ k \in 0 .. Len(replies) - 1 /\ k \in Nat
      /\ IsReplies(replies) /\ Len(replies) \in Nat /\ Readable(wire, replies)
  <2>1. turn.next = "message"
    BY DEF ReadMessage
  <2>2. /\ IsReplies(replies) /\ Len(replies) \in Nat /\ k \in 0 .. Len(replies) /\ Readable(wire, replies)
        /\ k < Len(replies)
    BY <2>1 DEF HttpInv, HttpTypeOK, IsReplies
  <2> QED BY <2>1, <2>2
<1>2. /\ got' = [got EXCEPT !.ret = m.ret, !.headers = m.headers, !.message = m.message]
      /\ wire' = m.rest /\ turn' = [read |-> k + 1, next |-> "status"]
      /\ replies' = replies /\ cut' = cut
  BY DEF ReadMessage
<1>3. turn'.read = k + 1 /\ turn'.next = "status"
  BY <1>2
<1>4. /\ got' = [status |-> got.status, proto |-> got.proto, ret |-> m.ret, headers |-> m.headers, message |-> m.message]
      /\ got'.status = got.status /\ got'.proto = got.proto
      /\ got'.ret = m.ret /\ got'.headers = m.headers /\ got'.message = m.message
  <2> HIDE DEF m
  <2> QED BY <1>2 DEF HttpInv, HttpTypeOK
<1>5. /\ Readable(m.rest, replies)
      /\ m.ret = HTTP_OK =>
           /\ Len(m.message) = Length(m.headers)
           /\ \A i \in DOMAIN m.message :
                m.message[i].is = "zero" =>
                  m.rest = <<>> /\ \A j \in i .. Len(m.message) : m.message[j].is = "zero"
           /\ m.headers["connection"] \in {Close, KeepAlive}
           /\ m.headers["connection"] = KeepAlive =>
                got.proto >= 1 \/ \E l \in 1 .. Len(replies) : \E j \in 1 .. Len(replies[l].headers) :
                                    replies[l].headers[j] = Header("connection", KeepAlive)
  BY <1>1, AnyMessage
<1>6. ASSUME InStep'
      PROVE  /\ m.ret = HTTP_OK /\ m.message = Body(replies[k + 1].body)
             /\ Stands(m.rest, replies, Ends(replies, k + 1), Arrived)
             /\ DOMAIN m.headers = NameOf(replies[k + 1]) \cup {"connection"}
             /\ got.status = replies[k + 1].code /\ got.proto = replies[k + 1].proto
  <2>1. (\A i \in 1 .. k + 1 : Sound(replies[i])) /\ Ends(replies, k + 1) <= Arrived
    BY <1>2, <1>3, <1>6 DEF InStep, Sending, Ends, Arrived
  <2>2. Sound(replies[k + 1]) /\ \A i \in 1 .. k : Sound(replies[i])
    <3>1. k + 1 \in 1 .. k + 1 /\ \A i \in 1 .. k : i \in 1 .. k + 1
      BY <1>1
    <3> QED BY <2>1, <3>1
  <2>3. Ends(replies, k) < Arrived
    <3> DEFINE e == Ends(replies, k)
               f == Ends(replies, k + 1)
               z == Size(replies[k + 1])
    <3>1. e \in Nat /\ f = e + z /\ z \in Nat /\ z >= 2 /\ f <= Arrived /\ Arrived \in Int
      <4>1. k \in 0 .. Len(replies)
        BY <1>1
      <4>2. e \in 0 .. Len(Wires(replies)) /\ Len(Wires(replies)) \in Nat
        BY <1>1, <4>1, WiresIs
      <4>3. f = e + z /\ z \in Nat /\ z >= 2
        BY <1>1, WiresIs
      <4>4. cut \in 0 .. Len(Wires(replies))
        BY DEF HttpInv, HttpTypeOK
      <4>5. Arrived \in Int
        BY <4>2, <4>4 DEF Arrived
      <4> QED BY <2>1, <4>2, <4>3, <4>5
    <3> HIDE DEF e, f, z
    <3>2. e < Arrived
      BY <3>1
    <3> QED BY <3>2 DEF e
  <2>4. /\ Stands(wire, replies, Ends(replies, k) + 1, Arrived)
        /\ got.status = replies[k + 1].code /\ got.proto = replies[k + 1].proto
    BY <1>1, <2>2, <2>3 DEF HttpInv, AtMessage
  <2>5. /\ m.ret = HTTP_OK /\ m.message = Body(replies[k + 1].body)
        /\ Stands(m.rest, replies, Ends(replies, k + 1), Arrived)
        /\ DOMAIN m.headers = NameOf(replies[k + 1]) \cup {"connection"}
    <3> HIDE DEF k
    <3> QED BY <1>1, <2>1, <2>2, <2>4, MessageRead
  <2> HIDE DEF m
  <2> QED BY <2>4, <2>5
<1> HIDE DEF m
<1>7. HttpTypeOK'
  <2>1. cut' \in 0 .. Len(Wires(replies')) /\ IsReplies(replies') /\ Readable(wire', replies')
    BY <1>2, <1>5 DEF HttpInv, HttpTypeOK
  <2>2. turn'.read \in 0 .. Len(replies')
    BY <1>1, <1>2, <1>3
  <2>3. got' = [status |-> got'.status, proto |-> got'.proto, ret |-> got'.ret, headers |-> got'.headers, message |-> got'.message]
    BY <1>4
  <2> QED BY <1>2, <1>3, <2>1, <2>2, <2>3 DEF HttpTypeOK
<1>8. AtReply'
  <2>1. Arrived' = Arrived
    BY <1>2 DEF Arrived
  <2> QED BY <1>2, <1>3, <1>6, <2>1 DEF AtReply
<1>9. AtMessage'
  BY <1>3 DEF AtMessage
<1>10. RepliesInStep'
  <2> SUFFICES ASSUME InStep'
               PROVE  /\ got'.status = replies[k + 1].code /\ got'.proto = replies[k + 1].proto
                      /\ got'.ret = HTTP_OK /\ got'.message = Body(replies[k + 1].body)
                      /\ wire' = SubSeq(Wires(replies), Ends(replies, k + 1) + 1, Arrived)
    BY <1>2, <1>3 DEF RepliesInStep, Sending, Ends, Arrived
  <2>1. IsSlice(wire', Wires(replies), Ends(replies, k + 1), Arrived)
    BY <1>2, <1>6 DEF Stands
  <2>2. wire' = SubSeq(Wires(replies), Ends(replies, k + 1) + 1, Arrived)
    <3> DEFINE W == Wires(replies)
               p == Ends(replies, k + 1)
               L == Len(W)
    <3>1. IsRow(W, L) /\ L \in Nat
      BY <1>1, WiresIs
    <3>2. p \in 0 .. Arrived /\ Arrived \in 0 .. L
      BY <1>6 DEF Stands
    <3>3. IsSlice(wire', W, p, Arrived)
      BY <2>1
    <3> HIDE DEF W, p, L
    <3>4. p \in 0 .. L /\ Arrived \in p .. L
      BY <3>1, <3>2
    <3>5. IsSlice(SubSeq(W, p + 1, Arrived), W, p, Arrived)
      BY <3>1, <3>4, Slice
    <3>6. wire' = SubSeq(W, p + 1, Arrived)
      BY <3>3, <3>5, SameSlice
    <3> QED BY <3>6 DEF W, p
  <2> QED BY <1>4, <1>6, <2>2
<1>11. CutIsPadded'
  BY <1>2, <1>4, <1>5 DEF CutIsPadded
<1>12. OwnHeaders'
  <2>1. InStep' => DOMAIN got'.headers = NameOf(replies'[turn'.read]) \cup {"connection"}
    BY <1>2, <1>3, <1>4, <1>6
  <2> QED BY <2>1 DEF OwnHeaders, NameOf
<1>13. ConnectionSettled'
  <2> SUFFICES ASSUME m.ret = HTTP_OK
               PROVE  /\ m.headers["connection"] \in {Close, KeepAlive}
                      /\ m.headers["connection"] = KeepAlive =>
                           got.proto >= 1 \/ \E r \in {replies[i] : i \in DOMAIN replies} :
                                               Header("connection", KeepAlive) \in {r.headers[i] : i \in DOMAIN r.headers}
    BY <1>2, <1>4 DEF ConnectionSettled
  <2>1. ASSUME NEW l \in 1 .. Len(replies), NEW j \in 1 .. Len(replies[l].headers),
               replies[l].headers[j] = Header("connection", KeepAlive)
        PROVE  \E r \in {replies[i] : i \in DOMAIN replies} :
                 Header("connection", KeepAlive) \in {r.headers[i] : i \in DOMAIN r.headers}
    <3>1. DOMAIN replies = 1 .. Len(replies)
      <4>1. IsRow(replies, Len(replies))
        BY <1>1 DEF IsReplies
      <4> QED BY <1>1, <4>1, RowLength
    <3>2. replies[l] \in Replies
      BY <1>1 DEF IsReplies
    <3>3. j \in DOMAIN replies[l].headers
      BY <3>2, OnWireIs
    <3> QED BY <2>1, <3>1, <3>3
  <2> QED BY <1>5, <2>1
<1>14. RepliesAreTheirOwn'
  BY <1>10, <1>11, <1>12, <1>13 DEF RepliesAreTheirOwn
<1> QED BY <1>7, <1>8, <1>9, <1>14 DEF HttpInv

LEMMA HttpKeeps == HttpInv /\ [HttpNext]_httpVars => HttpInv'
<1> SUFFICES ASSUME HttpInv, [HttpNext]_httpVars PROVE HttpInv'
  OBVIOUS
<1>1. CASE Connect
  BY <1>1, ConnectKeeps
<1>2. CASE ReadStatus
  BY <1>2, ReadStatusKeeps
<1>3. CASE ReadMessage
  BY <1>3, ReadMessageKeeps
<1>4. CASE Disconnect
  BY <1>4, DisconnectKeeps
<1>5. CASE UNCHANGED httpVars
  <2>1. wire' = wire /\ replies' = replies /\ cut' = cut /\ turn' = turn /\ got' = got
    BY <1>5 DEF httpVars
  <2>2. HttpTypeOK'
    BY <2>1 DEF HttpInv, HttpTypeOK
  <2>3. InStep' = InStep /\ Arrived' = Arrived /\ JustRead' = JustRead
    BY <2>1 DEF InStep, Sending, Arrived, JustRead
  <2>4. AtReply' /\ AtMessage'
    BY <2>1, <2>3 DEF HttpInv, AtReply, AtMessage
  <2>5. RepliesInStep' /\ OwnHeaders'
    BY <2>1, <2>3 DEF HttpInv, RepliesAreTheirOwn, RepliesInStep, OwnHeaders, Sending
  <2>6. CutIsPadded' /\ ConnectionSettled'
    BY <2>1, <2>3 DEF HttpInv, RepliesAreTheirOwn, CutIsPadded, ConnectionSettled
  <2> QED BY <2>2, <2>4, <2>5, <2>6 DEF HttpInv, RepliesAreTheirOwn
<1> QED BY <1>1, <1>2, <1>3, <1>4, <1>5 DEF HttpNext

\* Of any replies, cut anywhere, each is read as it was sent, with its own
\* headers and its own decision about the connection, or is padded to the length
\* it announces: ReadHTTPStatus and ReadHTTPMessage called in turn.
THEOREM RepliesStayTheirOwn == HttpSpec => []RepliesAreTheirOwn
<1>1. HttpInit => HttpInv
  BY HttpInitially
<1>2. HttpInv /\ [HttpNext]_httpVars => HttpInv'
  BY HttpKeeps
<1>3. HttpInv => RepliesAreTheirOwn
  BY DEF HttpInv
<1> QED BY <1>1, <1>2, <1>3, PTL DEF HttpSpec

-----------------------------------------------------------------------------
(***************************************************************************)
(* What blocks pay.  Where a halving interval has passed, at least half of *)
(* what was to come is still to come: with v paid for the next block and r *)
(* blocks of its interval I behind, (2 * I - r) * v is the most that can   *)
(* follow.                                                                 *)
(***************************************************************************)
LEMMA HalvedIs ==
  ASSUME NEW n \in Nat
  PROVE  /\ Halved(n)[0] = n
         /\ \A k \in 0 .. ShiftBits : Halved(n)[k] \in Nat
         /\ \A k \in 0 .. ShiftBits - 1 : Halved(n)[k + 1] = Halved(n)[k] \div 2
<1> DEFINE Def(g, m) == g = [k \in 0 .. m |-> IF k = 0 THEN n ELSE g[k - 1] \div 2]
           op(m) == CHOOSE g : Def(g, m)
           T == {m \in Nat : \E g : Def(g, m)}
<1>1. ShiftBits \in Nat
  BY ChainAssumption
<1>2. 0 \in T
  <2>1. Def([k \in 0 .. 0 |-> n], 0)
    OBVIOUS
  <2> QED BY <2>1
<1>3. ASSUME NEW m \in T PROVE m + 1 \in T
  <2>1. m \in Nat
    OBVIOUS
  <2>2. PICK g : Def(g, m)
    OBVIOUS
  <2> DEFINE f == [k \in 0 .. m + 1 |-> IF k <= m THEN g[k] ELSE g[m] \div 2]
  <2>3. Def(f, m + 1)
    <3>1. \A k \in 0 .. m + 1 : f[k] = IF k = 0 THEN n ELSE f[k - 1] \div 2
      <4> TAKE k \in 0 .. m + 1
      <4>1. CASE k <= m
        <5>1. g[k] = IF k = 0 THEN n ELSE g[k - 1] \div 2
          BY <2>1, <2>2, <4>1
        <5>2. k # 0 => f[k - 1] = g[k - 1]
          BY <2>1, <4>1
        <5> QED BY <2>1, <4>1, <5>1, <5>2
      <4>2. CASE k = m + 1
        BY <2>1, <4>2
      <4> QED BY <2>1, <4>1, <4>2
    <3> QED BY <3>1, <2>1
  <2> HIDE DEF Def
  <2> QED BY <2>1, <2>3
<1>4. \E g : Def(g, ShiftBits)
  <2> HIDE DEF Def
  <2>1. T \in SUBSET Nat
    OBVIOUS
  <2> HIDE DEF T
  <2>2. T = Nat
    BY <1>2, <1>3, <2>1, Induct
  <2> QED BY <1>1, <2>2 DEF T
<1>5. Def(op(ShiftBits), ShiftBits)
  <2> HIDE DEF Def
  <2> QED BY <1>4, Zenon DEF op
<1> DEFINE h == Halved(n)
<1>6. h = [k \in 0 .. ShiftBits |-> IF k = 0 THEN n ELSE h[k - 1] \div 2]
  BY <1>5, Zenon DEF Halved
<1> HIDE DEF h
<1> DEFINE U == {k \in 0 .. ShiftBits : h[k] \in Nat}
<1>7. h[0] = n
  BY <1>1, <1>6
<1>8. \A k \in 0 .. ShiftBits - 1 : h[k + 1] = h[k] \div 2
  <2> TAKE k \in 0 .. ShiftBits - 1
  <2>1. k + 1 \in 0 .. ShiftBits /\ k + 1 # 0 /\ k + 1 - 1 = k
    BY <1>1
  <2>2. \A j \in 0 .. ShiftBits : h[j] = IF j = 0 THEN n ELSE h[j - 1] \div 2
    BY <1>6
  <2>3. h[k + 1] = h[k + 1 - 1] \div 2
    BY <2>1, <2>2
  <2> QED BY <2>1, <2>3
<1>9. U = 0 .. ShiftBits
  <2>1. U \in SUBSET (0 .. ShiftBits) /\ 0 \in U
    BY <1>1, <1>7
  <2>2. \A k \in 0 .. ShiftBits - 1 : k \in U => k + 1 \in U
    <3> TAKE k \in 0 .. ShiftBits - 1
    <3> HAVE k \in U
    <3>1. h[k] \in Nat /\ k + 1 \in 0 .. ShiftBits
      BY <1>1
    <3> QED BY <1>8, <3>1
  <2> HIDE DEF U
  <2> QED BY <1>1, <2>1, <2>2, InductTo
<1> QED BY <1>7, <1>8, <1>9 DEF h

\* What a block pays without fees, after q halvings.
Subsidy(q) == IF q >= ShiftBits THEN 0 ELSE Halved(Coins50)[q]

LEMMA SubsidyHalves ==
  /\ Subsidy(0) = Coins50
  /\ \A q \in Nat : Subsidy(q) \in Nat /\ 2 * Subsidy(q + 1) <= Subsidy(q)
<1>1. ShiftBits \in Nat \ {0} /\ Coins50 \in Nat
  BY ChainAssumption
<1> DEFINE h == Halved(Coins50)
<1>2. /\ h[0] = Coins50
      /\ \A k \in 0 .. ShiftBits : h[k] \in Nat
      /\ \A k \in 0 .. ShiftBits - 1 : h[k + 1] = h[k] \div 2
  BY <1>1, HalvedIs
<1>3. \A q \in Nat : Subsidy(q) = IF q >= ShiftBits THEN 0 ELSE h[q]
  BY DEF Subsidy
<1> HIDE DEF h
<1>4. Subsidy(0) = Coins50
  BY <1>1, <1>2, <1>3
<1>5. ASSUME NEW q \in Nat PROVE Subsidy(q) \in Nat /\ 2 * Subsidy(q + 1) <= Subsidy(q)
  <2>1. CASE q >= ShiftBits
    <3>1. Subsidy(q) = 0 /\ Subsidy(q + 1) = 0
      BY <1>1, <1>3, <2>1
    <3> QED BY <3>1
  <2>2. CASE q < ShiftBits
    <3>1. q \in 0 .. ShiftBits - 1 /\ q \in 0 .. ShiftBits
      BY <1>1, <2>2
    <3>2. Subsidy(q) = h[q] /\ h[q] \in Nat /\ h[q + 1] = h[q] \div 2
      BY <1>1, <1>2, <1>3, <2>2, <3>1
    <3>3. Subsidy(q + 1) \in {0, h[q] \div 2}
      BY <1>3, <3>2
    <3>4. \A v \in Nat : 2 * (v \div 2) <= v
      OBVIOUS
    <3> QED BY <3>2, <3>3, <3>4
  <2> QED BY <1>1, <2>1, <2>2
<1> QED BY <1>4, <1>5

LEMMA ValueIs ==
  ASSUME NEW params, NEW i \in Nat \ {0}, params.nSubsidyHalvingInterval = i,
         NEW h \in Nat, NEW q \in Nat, NEW r \in 0 .. i - 1, h = i * q + r
  PROVE  GetBlockValue(params, h, 0) = Subsidy(q)
<1>1. h \div i = q
  BY DivisionIs
<1>2. ShiftBits \in Nat \ {0}
  BY ChainAssumption
<1>3. GetBlockValue(params, h, 0) = IF q >= ShiftBits THEN 0 ELSE Halved(Coins50)[q % ShiftBits] + 0
  BY <1>1 DEF GetBlockValue, ShiftedRight
<1>4. q < ShiftBits => q % ShiftBits = q
  BY <1>2
<1>5. Subsidy(q) \in Nat
  BY SubsidyHalves
<1> QED BY <1>2, <1>3, <1>4, <1>5 DEF Subsidy

\* What can follow, while the blocks are paid as they are.
LEMMA PaidStays ==
  ASSUME NEW params, NEW i \in Nat \ {0}, params.nSubsidyHalvingInterval = i, NEW n \in Nat
  PROVE  Paid(params, n)[n] < 2 * Coins50 * i
<1> DEFINE Def(g, m) == g = [h \in 0 .. m |-> IF h = 0 THEN 0 ELSE g[h - 1] + GetBlockValue(params, h - 1, 0)]
           op(m) == CHOOSE g : Def(g, m)
           T == {m \in Nat : \E g : Def(g, m)}
<1>1. 0 \in T
  <2>1. Def([h \in 0 .. 0 |-> 0], 0)
    OBVIOUS
  <2> QED BY <2>1
<1>2. ASSUME NEW m \in T PROVE m + 1 \in T
  <2>1. m \in Nat
    OBVIOUS
  <2>2. PICK g : Def(g, m)
    OBVIOUS
  <2> DEFINE Value(h) == GetBlockValue(params, h, 0)
             f == [h \in 0 .. m + 1 |-> IF h <= m THEN g[h] ELSE g[m] + Value(m)]
  <2>3. Def(f, m + 1)
    <3>1. g = [h \in 0 .. m |-> IF h = 0 THEN 0 ELSE g[h - 1] + Value(h - 1)]
      BY <2>2
    <3> HIDE DEF Value
    <3>2. \A h \in 0 .. m + 1 : f[h] = IF h = 0 THEN 0 ELSE f[h - 1] + Value(h - 1)
      <4> TAKE h \in 0 .. m + 1
      <4>1. CASE h <= m
        <5>1. g[h] = IF h = 0 THEN 0 ELSE g[h - 1] + Value(h - 1)
          BY <2>1, <3>1, <4>1
        <5>2. h # 0 => f[h - 1] = g[h - 1]
          BY <2>1, <4>1
        <5> QED BY <2>1, <4>1, <5>1, <5>2
      <4>2. CASE h = m + 1
        <5>1. h - 1 = m /\ h # 0 /\ ~(h <= m)
          BY <2>1, <4>2
        <5>2. f[h] = g[m] + Value(m) /\ f[m] = g[m]
          BY <2>1, <5>1
        <5> QED BY <5>1, <5>2
      <4> QED BY <2>1, <4>1, <4>2
    <3>3. f = [h \in 0 .. m + 1 |-> IF h = 0 THEN 0 ELSE f[h - 1] + Value(h - 1)]
      BY <2>1, <3>2
    <3> QED BY <3>3 DEF Value
  <2> HIDE DEF Def
  <2> QED BY <2>1, <2>3
<1>3. Def(op(n), n)
  <2> HIDE DEF Def
  <2>1. T \in SUBSET Nat
    OBVIOUS
  <2>2. T = Nat
    <3> HIDE DEF T
    <3> QED BY <1>1, <1>2, <2>1, Induct
  <2>3. \E g : Def(g, n)
    BY <2>2
  <2> QED BY <2>3, Zenon DEF op
<1> DEFINE paid == Paid(params, n)
           Value(h) == GetBlockValue(params, h, 0)
           most == 2 * Coins50 * i
<1>4. paid = [h \in 0 .. n |-> IF h = 0 THEN 0 ELSE paid[h - 1] + Value(h - 1)]
  BY <1>3, Zenon DEF Paid
<1>5. Coins50 \in Nat \ {0} /\ most \in Nat
  BY ChainAssumption
<1>6. \A h \in Nat : h = i * (h \div i) + (h % i) /\ h \div i \in Nat /\ h % i \in 0 .. i - 1
  BY Division
<1> DEFINE v(h) == Subsidy(h \div i)
           U == {h \in 0 .. n : paid[h] \in Nat /\ paid[h] < most /\ paid[h] + (2 * i - (h % i)) * v(h) <= most}
<1>7. ASSUME NEW h \in Nat PROVE Value(h) = v(h) /\ v(h) \in Nat
  <2>1. h \div i \in Nat /\ h % i \in 0 .. i - 1 /\ h = i * (h \div i) + (h % i)
    BY <1>6
  <2> DEFINE q == h \div i
             r == h % i
  <2>2. q \in Nat /\ r \in 0 .. i - 1 /\ h = i * q + r
    BY <2>1
  <2>3. GetBlockValue(params, h, 0) = Subsidy(q)
    <3> HIDE DEF q, r, v, U, T, Def, op, Value, paid, most
    <3> QED BY <2>2, ValueIs
  <2>4. Subsidy(q) \in Nat
    <3> HIDE DEF q, r
    <3> QED BY <2>2, SubsidyHalves
  <2> QED BY <2>3, <2>4
<1> HIDE DEF paid, Value
<1>8. paid[0] = 0 /\ \A h \in 0 .. n - 1 : paid[h + 1] = paid[h] + Value(h)
  <2>1. \A h \in 0 .. n : paid[h] = IF h = 0 THEN 0 ELSE paid[h - 1] + Value(h - 1)
    BY <1>4
  <2>2. ASSUME NEW h \in 0 .. n - 1 PROVE paid[h + 1] = paid[h] + Value(h)
    <3>1. h + 1 \in 0 .. n /\ h + 1 # 0 /\ h + 1 - 1 = h
      OBVIOUS
    <3>2. paid[h + 1] = paid[h + 1 - 1] + Value(h + 1 - 1)
      BY <2>1, <3>1
    <3> QED BY <3>1, <3>2
  <2>3. paid[0] = 0
    BY <2>1
  <2> QED BY <2>2, <2>3
<1>9. 0 \in U
  <2>1. 0 \div i = 0 /\ 0 % i = 0
    OBVIOUS
  <2>2. v(0) = Coins50 /\ (2 * i - (0 % i)) * v(0) = most
    BY <1>5, <2>1, SubsidyHalves
  <2>3. most > 0
    <3>1. Coins50 * i > 0
      BY <1>5
    <3> QED BY <1>5, <3>1
  <2> HIDE DEF most, v
  <2> QED BY <1>5, <1>8, <2>2, <2>3
<1>10. ASSUME NEW h \in 0 .. n - 1, h \in U PROVE h + 1 \in U
  <2> DEFINE q == h \div i
             r == h % i
             x == v(h)
             y == v(h + 1)
  <2>1. h = i * q + r /\ q \in Nat /\ r \in 0 .. i - 1 /\ h \in Nat
    BY <1>6
  <2>2. paid[h + 1] = paid[h] + x /\ x \in Nat /\ y \in Nat
    <3>1. h \in Nat /\ h + 1 \in Nat
      OBVIOUS
    <3>2. x \in Nat /\ Value(h) = x /\ y \in Nat
      <4> HIDE DEF v
      <4> QED BY <1>7, <3>1
    <3>3. paid[h + 1] = paid[h] + Value(h)
      BY <1>8
    <3> QED BY <3>2, <3>3
  <2>3. paid[h] \in Nat /\ paid[h] < most /\ paid[h] + (2 * i - r) * x <= most
    BY <1>10
  <2>4. \/ y = x /\ (h + 1) % i = r + 1
        \/ 2 * y <= x /\ (h + 1) % i = 0 /\ r + 1 = i
    <3>1. CASE r + 1 < i
      <4>1. h + 1 = i * q + (r + 1) /\ r + 1 \in 0 .. i - 1
        <5> HIDE DEF q, r
        <5> QED BY <2>1, <3>1
      <4> DEFINE j == h + 1
                 s == r + 1
      <4>2. j \div i = q /\ j % i = s
        <5>1. j = i * q + s /\ s \in 0 .. i - 1
          BY <4>1
        <5> HIDE DEF q, r, j, s
        <5> QED BY <2>1, <5>1, DivisionIs
      <4> QED BY <4>2
    <3>2. CASE r + 1 = i
      <4>1. h + 1 = i * (q + 1) + 0 /\ 0 \in 0 .. i - 1 /\ q + 1 \in Nat
        <5> HIDE DEF q, r
        <5>1. i * (q + 1) = i * q + i
          BY <2>1
        <5>2. i * q \in Nat
          BY <2>1
        <5> QED BY <2>1, <3>2, <5>1, <5>2
      <4> DEFINE j == h + 1
                 p == q + 1
      <4>2. j \div i = p /\ j % i = 0
        <5>1. j = i * p + 0 /\ 0 \in 0 .. i - 1 /\ p \in Nat
          BY <4>1
        <5> HIDE DEF q, r, j, p
        <5> QED BY <5>1, DivisionIs
      <4>3. 2 * Subsidy(q + 1) <= Subsidy(q)
        <5> HIDE DEF q, r
        <5> QED BY <2>1, SubsidyHalves
      <4> QED BY <3>2, <4>2, <4>3
    <3> HIDE DEF r
    <3> QED BY <2>1, <3>1, <3>2
  <2> DEFINE m == (h + 1) % i
  <2>5. r \in Nat /\ r < i
    BY <2>1
  <2>6. \/ y = x /\ m = r + 1
        \/ 2 * y <= x /\ m = 0 /\ r + 1 = i
    BY <2>4
  <2> HIDE DEF m, r, x, y, most
  <2>7. (2 * i - m) * y <= (2 * i - r) * x - x
    <3>1. (2 * i - r) * x - x = (2 * i - (r + 1)) * x
      BY <2>2, <2>5
    <3>2. CASE y = x /\ m = r + 1
      BY <3>1, <3>2, <2>2, <2>5
    <3>3. CASE 2 * y <= x /\ m = 0 /\ r + 1 = i
      <4>1. (2 * i - m) * y = i * (2 * y) /\ (2 * i - (r + 1)) * x = i * x
        BY <2>2, <2>5, <3>3
      <4>2. i * (x - 2 * y) >= 0 /\ i * (x - 2 * y) = i * x - i * (2 * y)
        BY <2>2, <3>3
      <4> QED BY <3>1, <4>1, <4>2, <2>2
    <3> QED BY <2>6, <3>2, <3>3
  <2>8. (2 * i - r) * x >= 2 * x
    <3>1. (2 * i - r - 2) * x >= 0
      BY <2>2, <2>5
    <3>2. (2 * i - r - 2) * x = (2 * i - r) * x - 2 * x
      BY <2>2, <2>5
    <3> QED BY <3>1, <3>2, <2>2, <2>5
  <2> DEFINE a == (2 * i - m) * y
             b == (2 * i - r) * x
  <2>9. a \in Int /\ b \in Int
    BY <2>2, <2>5, <2>6
  <2>10. paid[h + 1] \in Nat /\ paid[h + 1] < most /\ paid[h + 1] + a <= most
    <3>1. a <= b - x /\ b >= 2 * x /\ paid[h] + b <= most
      BY <2>3, <2>7, <2>8
    <3> HIDE DEF a, b
    <3> QED BY <1>5, <2>2, <2>3, <2>9, <3>1
  <2> QED BY <2>10 DEF m, y
<1>11. U = 0 .. n
  <2>1. U \in SUBSET (0 .. n)
    OBVIOUS
  <2> HIDE DEF U
  <2> QED BY <1>9, <1>10, <2>1, InductTo
<1>12. n \in U
  <2> HIDE DEF U
  <2> QED BY <1>11
<1> QED BY <1>12 DEF paid

LEMMA IntervalIs ==
  ASSUME network \in Networks
  PROVE  Params.nSubsidyHalvingInterval \in Nat \ {0}
<1>1. MainInterval \in Nat \ {0} /\ RegTestInterval \in Nat \ {0}
  BY ChainAssumption
<1>2. MainParams.nSubsidyHalvingInterval = MainInterval
  BY DEF MainParams
<1>3. TestNetParams.nSubsidyHalvingInterval = MainInterval
  BY <1>2 DEF TestNetParams, MainParams
<1>4. RegTestParams.nSubsidyHalvingInterval = RegTestInterval
  BY DEF RegTestParams, TestNetParams, MainParams
<1> QED
  BY <1>1, <1>2, <1>3, <1>4 DEF Networks, Params, SelectParams

LEMMA SupplyOfNetwork == network \in Networks => SupplyIsBounded
<1> SUFFICES ASSUME network \in Networks PROVE SupplyIsBounded
  OBVIOUS
<1> DEFINE i == Params.nSubsidyHalvingInterval
           n == Heights(Params)
<1>1. i \in Nat \ {0} /\ ShiftBits \in Nat
  BY IntervalIs, ChainAssumption
<1>2. n = 3 * ShiftBits * i
  BY DEF Heights
<1>3. n \in Nat
  <2> HIDE DEF i, n
  <2> QED BY <1>1, <1>2
<1>4. Supply[network] = Paid(Params, n)[n]
  BY DEF Supply, Params
<1> HIDE DEF n
<1>5. Paid(Params, n)[n] < 2 * Coins50 * i
  BY <1>1, <1>3, PaidStays
<1> QED BY <1>4, <1>5 DEF SupplyIsBounded

-----------------------------------------------------------------------------
(***************************************************************************)
(* Zeroes in front, which a conversion to another base keeps.              *)
(***************************************************************************)
\* The first m elements of s, and no more, are all in S.
LeadsFor(s, S, m) ==
  /\ m \in 0 .. Len(s) /\ \A i \in 1 .. m : s[i] \in S
  /\ m < Len(s) => s[m + 1] \notin S

LEMMA LeadingFor ==
  ASSUME NEW D, NEW s \in Seq(D), NEW S, NEW m, LeadsFor(s, S, m)
  PROVE  Leading(s, S) = SubSeq(s, 1, m)
<1> DEFINE others == {i \in DOMAIN s : s[i] \notin S}
<1>1. Len(s) \in Nat /\ DOMAIN s = 1 .. Len(s)
  BY LenProperties
<1>2. m \in 0 .. Len(s) /\ (\A i \in 1 .. m : s[i] \in S) /\ (m < Len(s) => s[m + 1] \notin S)
  BY DEF LeadsFor
<1>3. CASE m = Len(s)
  <2>1. others = {}
    BY <1>1, <1>2, <1>3
  <2>2. First(others, Len(s) + 1) = Len(s) + 1
    BY <2>1 DEF First
  <2>3. First(others, Len(s) + 1) - 1 = m
    <3> HIDE DEF others
    <3> QED BY <1>1, <1>3, <2>2
  <2> QED BY <2>3 DEF Leading
<1>4. CASE m # Len(s)
  <2>1. m + 1 \in others /\ \A i \in others : m + 1 <= i
    <3>1. m < Len(s) /\ m + 1 \in 1 .. Len(s) /\ m \in Nat
      <4> DEFINE n == Len(s)
      <4>1. n \in Nat /\ m \in 0 .. n /\ m # n
        BY <1>1, <1>2, <1>4, Zenon
      <4> HIDE DEF n
      <4>2. m < n /\ m + 1 \in 1 .. n /\ m \in Nat
        BY <4>1
      <4> QED BY <4>2 DEF n
    <3>2. m + 1 \in others
      BY <1>1, <1>2, <3>1
    <3>3. ASSUME NEW i \in others PROVE m + 1 <= i
      <4>1. i \in 1 .. Len(s) /\ s[i] \notin S
        BY <1>1
      <4>2. i \notin 1 .. m
        BY <1>2, <4>1
      <4> QED BY <1>1, <3>1, <4>1, <4>2
    <3> QED BY <3>2, <3>3
  <2>2. \A i \in others : i \in Nat
    BY <1>1
  <2>3. First(others, Len(s) + 1) = m + 1
    <3> HIDE DEF others
    <3>1. others # {}
      BY <2>1
    <3>2. \A x \in others : (\A j \in others : x <= j) => x = m + 1
      BY <2>1, <2>2
    <3> QED BY <2>1, <3>1, <3>2 DEF First
  <2>4. First(others, Len(s) + 1) - 1 = m
    <3> HIDE DEF others
    <3> QED BY <1>2, <2>3
  <2> QED BY <2>4 DEF Leading
<1> QED BY <1>3, <1>4

LEMMA LeadingIs ==
  ASSUME NEW D, NEW s \in Seq(D), NEW S
  PROVE  \E m \in 0 .. Len(s) : LeadsFor(s, S, m)
<1> DEFINE T == {i \in Nat : i >= 1 /\ i <= Len(s) /\ s[i] \notin S}
<1>1. Len(s) \in Nat
  BY LenProperties
<1>2. CASE T = {}
  <2>1. \A i \in 1 .. Len(s) : s[i] \in S
    BY <1>1, <1>2
  <2>2. Len(s) \in 0 .. Len(s) /\ ~(Len(s) < Len(s))
    BY <1>1
  <2> QED BY <2>1, <2>2 DEF LeadsFor
<1>3. CASE T # {}
  <2>1. T \in SUBSET Nat
    OBVIOUS
  <2>2. PICK x \in T : \A y \in T : x <= y
    <3> HIDE DEF T
    <3> QED BY <1>3, <2>1, LeastOf
  <2>3. x - 1 \in 0 .. Len(s) /\ (x - 1) + 1 = x /\ s[x] \notin S
    BY <1>1, <2>2
  <2>4. \A i \in 1 .. x - 1 : s[i] \in S
    BY <1>1, <2>2
  <2> QED BY <2>3, <2>4 DEF LeadsFor
<1> QED BY <1>2, <1>3

LEMMA ZeroesAre ==
  ASSUME NEW base \in Nat \ {0}, NEW k \in Nat
  PROVE  Zeroes(k) \in DigitSeq(base) /\ Len(Zeroes(k)) = k /\ \A i \in 1 .. k : Zeroes(k)[i] = 0
<1>1. Zeroes(k) \in [1 .. k -> 0 .. base - 1]
  BY DEF Zeroes
<1>2. Zeroes(k) \in Seq(0 .. base - 1)
  BY <1>1
<1>3. IsRow(Zeroes(k), k)
  BY DEF Zeroes, IsRow
<1>4. Len(Zeroes(k)) = k
  BY <1>3, RowLength
<1> QED BY <1>2, <1>4 DEF DigitSeq, Zeroes

\* s is k zeroes and behind them r, which has none in front.
HasZeroes(s, k, r, base) ==
  /\ r \in DigitSeq(base) /\ NoZeroInFront(r)
  /\ k \in Nat /\ s = Zeroes(k) \o r

LEMMA ZeroesBehind ==
  ASSUME NEW base \in Nat \ {0}, NEW s, NEW k, NEW r, HasZeroes(s, k, r, base)
  PROVE  /\ s \in DigitSeq(base) /\ Len(s) = k + Len(r)
         /\ \A i \in 1 .. k : s[i] = 0
         /\ \A i \in 1 .. Len(r) : s[k + i] = r[i]
         /\ Leading(s, {0}) = Zeroes(k)
         /\ DigitsValue(s, base) = DigitsValue(r, base)
<1> DEFINE S == 0 .. base - 1
           z == Zeroes(k)
<1>1. k \in Nat /\ r \in Seq(S) /\ z \in Seq(S) /\ Len(z) = k /\ (\A i \in 1 .. k : z[i] = 0) /\ s = z \o r
  BY ZeroesAre DEF HasZeroes, DigitSeq
<1>2. Len(r) \in Nat
  BY <1>1, LenProperties
<1> HIDE DEF S, z
<1>3. /\ s \in Seq(S) /\ Len(s) = k + Len(r)
      /\ \A i \in 1 .. k + Len(r) : s[i] = IF i <= k THEN z[i] ELSE r[i - k]
  BY <1>1, ConcatProperties
<1>4. \A i \in 1 .. k : s[i] = 0
  BY <1>1, <1>2, <1>3
<1>5. \A i \in 1 .. Len(r) : s[k + i] = r[i]
  <2> TAKE i \in 1 .. Len(r)
  <2>1. k + i \in 1 .. k + Len(r) /\ ~(k + i <= k) /\ (k + i) - k = i
    BY <1>1, <1>2
  <2> QED BY <1>3, <2>1
<1>6. LeadsFor(s, {0}, k)
  <2>1. ASSUME k < Len(s) PROVE s[k + 1] # 0
    <3>1. 1 \in 1 .. Len(r)
      BY <1>1, <1>2, <1>3, <2>1
    <3>2. r # <<>>
      BY <3>1
    <3>3. s[k + 1] = r[1]
      BY <1>5, <3>1
    <3> QED BY <3>2, <3>3 DEF HasZeroes, NoZeroInFront
  <2>2. k \in 0 .. Len(s)
    BY <1>1, <1>2, <1>3
  <2> QED BY <1>4, <2>1, <2>2 DEF LeadsFor
<1>7. Leading(s, {0}) = SubSeq(s, 1, k)
  BY <1>3, <1>6, LeadingFor
<1>8. SubSeq(s, 1, k) = z
  <2>1. \A i \in 1 .. k : s[i] \in S
    BY <1>2, <1>1, <1>3, ElementOfSeq
  <2> DEFINE u == SubSeq(s, 1, k)
  <2>2. 1 \in Int /\ k \in Int
    BY <1>1
  <2>3. u \in Seq(S) /\ Len(u) = (IF 1 <= k THEN k - 1 + 1 ELSE 0) /\ \A i \in 1 .. k - 1 + 1 : u[i] = s[1 + i - 1]
    BY <2>1, <2>2, SubSeqProperties
  <2> HIDE DEF u
  <2>4. Len(u) = Len(z)
    BY <1>1, <2>3
  <2>5. ASSUME NEW i \in 1 .. Len(u) PROVE u[i] = z[i]
    <3>1. i \in 1 .. k /\ i \in 1 .. k - 1 + 1 /\ 1 + i - 1 = i
      BY <1>1, <2>4, <2>5
    <3>2. u[i] = s[i] /\ s[i] = 0 /\ z[i] = 0
      BY <1>1, <1>4, <2>3, <3>1
    <3> QED BY <3>2
  <2>6. u = z
    BY <1>1, <2>3, <2>4, <2>5, SeqEqual
  <2> QED BY <2>6 DEF u
<1>9. s \in DigitSeq(base) /\ r \in DigitSeq(base)
  BY <1>1, <1>3 DEF DigitSeq, S
<1>10. DigitsValue(s, base) = DigitsValue(r, base)
  BY <1>1, <1>3, <1>4, <1>5, <1>9, ZeroesInFront
<1> QED BY <1>3, <1>4, <1>5, <1>7, <1>8, <1>9, <1>10 DEF z

LEMMA ZeroesCut ==
  ASSUME NEW base \in Nat \ {0}, NEW s \in DigitSeq(base)
  PROVE  \E k \in Nat, r \in DigitSeq(base) : HasZeroes(s, k, r, base)
<1> DEFINE S == 0 .. base - 1
           n == Len(s)
<1>1. s \in Seq(S) /\ n \in Nat
  BY DigitLength DEF DigitSeq
<1>2. PICK k \in 0 .. n : LeadsFor(s, {0}, k)
  BY <1>1, LeadingIs
<1> DEFINE z == Zeroes(k)
           r == SubSeq(s, k + 1, n)
<1>3. z \in Seq(S) /\ Len(z) = k /\ \A i \in 1 .. k : z[i] = 0
  BY ZeroesAre DEF DigitSeq
<1> HIDE DEF S, z
<1>4. r \in Seq(S) /\ Len(r) = n - k /\ \A i \in 1 .. n - k : r[i] = s[k + i]
  <2>1. \A i \in k + 1 .. n : s[i] \in S
    BY <1>1, ElementOfSeq
  <2>2. k + 1 \in Int /\ n \in Int
    BY <1>1
  <2> HIDE DEF n
  <2>3. r \in Seq(S) /\ Len(r) = (IF k + 1 <= n THEN n - (k + 1) + 1 ELSE 0)
        /\ \A i \in 1 .. n - (k + 1) + 1 : r[i] = s[k + 1 + i - 1]
    BY <2>1, <2>2, SubSeqProperties
  <2> HIDE DEF r
  <2>4. Len(r) = n - k
    BY <1>1, <2>3
  <2>5. ASSUME NEW i \in 1 .. n - k PROVE r[i] = s[k + i]
    <3>1. i \in 1 .. n - (k + 1) + 1 /\ k + 1 + i - 1 = k + i
      BY <1>1
    <3> QED BY <2>3, <3>1
  <2> QED BY <2>3, <2>4, <2>5
<1> HIDE DEF r
<1>5. s = z \o r
  <2> DEFINE u == z \o r
  <2>1. u \in Seq(S) /\ Len(u) = k + (n - k) /\ \A i \in 1 .. k + (n - k) : u[i] = IF i <= k THEN z[i] ELSE r[i - k]
    BY <1>3, <1>4, ConcatProperties
  <2> HIDE DEF u
  <2>2. Len(u) = Len(s)
    BY <1>1, <2>1
  <2>3. ASSUME NEW i \in 1 .. Len(s) PROVE s[i] = u[i]
    <3>1. i \in 1 .. k + (n - k)
      BY <1>1
    <3>2. CASE i <= k
      <4>1. i \in 1 .. k
        BY <1>1, <3>2
      <4>2. s[i] = 0
        BY <1>2, <4>1 DEF LeadsFor
      <4> QED BY <1>3, <2>1, <3>1, <3>2, <4>1, <4>2
    <3>3. CASE ~(i <= k)
      <4>1. i - k \in 1 .. n - k /\ k + (i - k) = i
        BY <1>1, <3>3
      <4> QED BY <1>4, <2>1, <3>1, <3>3, <4>1
    <3> QED BY <3>2, <3>3
  <2>4. s = u
    BY <1>1, <2>1, <2>2, <2>3, SeqEqual
  <2> QED BY <2>4 DEF u
<1>6. NoZeroInFront(r)
  <2>1. CASE k = n
    <3>1. Len(r) = 0
      BY <1>1, <1>4, <2>1
    <3>2. r = <<>>
      BY <1>4, <3>1, EmptySeq
    <3> QED BY <3>2 DEF NoZeroInFront
  <2>2. CASE k # n
    <3>1. k < Len(s) /\ 1 \in 1 .. n - k
      BY <1>1, <2>2
    <3>2. s[k + 1] # 0
      BY <1>2, <3>1 DEF LeadsFor
    <3>3. r[1] = s[k + 1]
      BY <1>4, <3>1
    <3> QED BY <3>2, <3>3 DEF NoZeroInFront
  <2> QED BY <2>1, <2>2
<1>7. r \in DigitSeq(base)
  BY <1>4 DEF DigitSeq, S
<1>8. HasZeroes(s, k, r, base) /\ k \in Nat
  BY <1>1, <1>5, <1>6, <1>7 DEF HasZeroes, z
<1> QED BY <1>7, <1>8

\* Digits of one base to those of another, a zero for each zero in front.
Converted(s, from, to) == Leading(s, {0}) \o Numeral(DigitsValue(s, from), to)

LEMMA ConvertedHas ==
  ASSUME NEW from \in Nat, from >= 2, NEW to \in Nat, to >= 2, NEW s, NEW k, NEW r, HasZeroes(s, k, r, from)
  PROVE  LET t == Numeral(DigitsValue(r, from), to)
         IN /\ HasZeroes(Converted(s, from, to), k, t, to)
            /\ DigitsValue(t, to) = DigitsValue(r, from)
<1> DEFINE v == DigitsValue(r, from)
           t == Numeral(v, to)
<1>1. from \in Nat \ {0} /\ r \in DigitSeq(from) /\ k \in Nat
  BY DEF HasZeroes
<1>2. v \in Nat
  BY <1>1, ValueIsNat
<1>3. IsNumeral(t, v, to)
  <2> HIDE DEF v
  <2> QED BY <1>2, NumeralIs
<1>4. Leading(s, {0}) = Zeroes(k) /\ DigitsValue(s, from) = v
  BY <1>1, ZeroesBehind
<1>5. Converted(s, from, to) = Zeroes(k) \o t
  BY <1>4 DEF Converted
<1> HIDE DEF t, v
<1> QED BY <1>1, <1>3, <1>5 DEF IsNumeral, HasZeroes, t, v

\* What is converted to another base and back is what it was.
LEMMA ConvertedBack ==
  ASSUME NEW from \in Nat, from >= 2, NEW to \in Nat, to >= 2, NEW s \in DigitSeq(from)
  PROVE  /\ Converted(s, from, to) \in DigitSeq(to)
         /\ Converted(Converted(s, from, to), to, from) = s
<1>1. from \in Nat \ {0} /\ to \in Nat \ {0}
  OBVIOUS
<1>2. PICK k \in Nat, r \in DigitSeq(from) : HasZeroes(s, k, r, from)
  BY <1>1, ZeroesCut
<1> DEFINE c == Converted(s, from, to)
           t == Numeral(DigitsValue(r, from), to)
           u == Numeral(DigitsValue(t, to), from)
           b == Converted(c, to, from)
<1>3. HasZeroes(c, k, t, to) /\ DigitsValue(t, to) = DigitsValue(r, from)
  BY <1>2, ConvertedHas
<1>4. c \in DigitSeq(to)
  <2> HIDE DEF c, t
  <2> QED BY <1>1, <1>3, ZeroesBehind
<1>5. HasZeroes(b, k, u, from) /\ DigitsValue(u, from) = DigitsValue(t, to)
  <2> HIDE DEF c, t
  <2> QED BY <1>3, ConvertedHas
<1> HIDE DEF c, t, u, b
<1>6. u = r
  <2>1. u \in DigitSeq(from) /\ r \in DigitSeq(from) /\ NoZeroInFront(u) /\ NoZeroInFront(r)
    BY <1>2, <1>5 DEF HasZeroes
  <2>2. DigitsValue(u, from) = DigitsValue(r, from)
    BY <1>3, <1>5
  <2> QED BY <1>1, <2>1, <2>2, OneNumeral
<1>7. b = s
  BY <1>2, <1>5, <1>6 DEF HasZeroes
<1> QED BY <1>4, <1>7 DEF c, b

-----------------------------------------------------------------------------
(***************************************************************************)
(* Bytes as a number, read from behind, and the text of bytes in base 58.  *)
(***************************************************************************)
LEMMA RadixIs ==
  /\ Digit \in Nat /\ Digit >= 2 /\ Radix \in Nat /\ Radix >= 2 /\ TopBit \in Nat \ {0} /\ Base \in Nat /\ Base >= 2
  /\ CheckBytes \in Nat \ {0} /\ Byte = 0 .. Radix - 1
<1>1. Digit \in Nat /\ Digit >= 2
  BY BigNumAssumption
<1>2. Radix \in Nat /\ Radix >= 2
  <2>1. Digit * Digit >= 2
    BY <1>1
  <2> QED BY <1>1, <2>1 DEF Radix
<1>3. TopBit \in Nat \ {0}
  BY <1>2 DEF TopBit
<1> QED BY <1>1, <1>2, <1>3, Base58Assumption DEF Byte

LEMMA Reversed ==
  ASSUME NEW S, NEW s \in Seq(S)
  PROVE  /\ Reverse(s) \in Seq(S) /\ Len(Reverse(s)) = Len(s)
         /\ \A i \in 1 .. Len(s) : Reverse(s)[i] = s[Len(s) - i + 1]
<1> DEFINE n == Len(s)
           r == Reverse(s)
<1>1. n \in Nat
  BY LenProperties
<1>2. r = [i \in 1 .. n |-> s[n - i + 1]]
  BY DEF Reverse
<1>3. \A i \in 1 .. n : s[n - i + 1] \in S
  <2> TAKE i \in 1 .. n
  <2>1. n - i + 1 \in 1 .. n
    BY <1>1
  <2> QED BY <2>1, ElementOfSeq
<1> HIDE DEF n, r
<1>4. r \in [1 .. n -> S] /\ IsRow(r, n)
  BY <1>2, <1>3 DEF IsRow
<1>5. r \in Seq(S) /\ Len(r) = n
  BY <1>1, <1>4, RowLength
<1> QED BY <1>2, <1>5 DEF n, r

LEMMA ReversedTwice ==
  ASSUME NEW S, NEW s \in Seq(S)
  PROVE  Reverse(Reverse(s)) = s
<1> DEFINE n == Len(s)
           r == Reverse(s)
           t == Reverse(r)
<1>1. n \in Nat
  BY LenProperties
<1>2. r \in Seq(S) /\ Len(r) = n /\ \A i \in 1 .. n : r[i] = s[n - i + 1]
  BY Reversed
<1> HIDE DEF r
<1>3. t \in Seq(S) /\ Len(t) = n /\ \A i \in 1 .. n : t[i] = r[n - i + 1]
  BY <1>2, Reversed
<1> HIDE DEF t
<1>4. ASSUME NEW i \in 1 .. n PROVE t[i] = s[i]
  <2>1. n - i + 1 \in 1 .. n /\ n - (n - i + 1) + 1 = i
    BY <1>1
  <2> QED BY <1>2, <1>3, <2>1
<1>5. t = s
  BY <1>3, <1>4, SeqEqual
<1> QED BY <1>5 DEF t, r

\* The bytes with a zero behind them are, read from behind, the number they are.
LEMMA SetBytes ==
  ASSUME NEW b \in Seq(Byte)
  PROVE  setvch(Append(Reverse(b), 0)) = DigitsValue(b, Radix)
<1> DEFINE r == Reverse(b)
           v == Append(r, 0)
           w == Reverse(v)
           n == Len(b)
<1>1. 0 \in Byte /\ Byte = 0 .. Radix - 1 /\ Radix \in Nat \ {0} /\ TopBit \in Nat \ {0}
  BY RadixIs
<1>2. n \in Nat
  BY LenProperties
<1>3. r \in Seq(Byte) /\ Len(r) = n /\ \A i \in 1 .. n : r[i] = b[n - i + 1]
  BY Reversed
<1> HIDE DEF r
<1>4. v \in Seq(Byte) /\ v # <<>> /\ Len(v) = n + 1 /\ (\A i \in 1 .. n : v[i] = r[i]) /\ v[n + 1] = 0
  <2>1. r \in Seq(Byte) /\ 0 \in Byte
    BY <1>1, <1>3
  <2>2. /\ v \in Seq(Byte) /\ v # <<>> /\ Len(v) = Len(r) + 1
        /\ (\A i \in 1 .. Len(r) : v[i] = r[i]) /\ v[Len(r) + 1] = 0
    BY <2>1, AppendProperties
  <2> HIDE DEF v, n
  <2> QED BY <1>3, <2>2
<1> HIDE DEF v
<1>5. setvch(v) = DigitsValue(w, Radix)
  <2>1. ~(v[Len(v)] >= TopBit)
    BY <1>1, <1>4
  <2> QED BY <1>4, <2>1 DEF setvch, Mpi2Bn, ValueOf
<1>6. w \in Seq(Byte) /\ Len(w) = n + 1 /\ \A i \in 1 .. n + 1 : w[i] = v[(n + 1) - i + 1]
  <2> HIDE DEF n
  <2> QED BY <1>4, Reversed
<1> HIDE DEF w
<1>7. \A i \in 1 .. 1 : w[i] = 0
  <2>1. 1 \in 1 .. n + 1 /\ (n + 1) - 1 + 1 = n + 1
    BY <1>2
  <2>2. w[1] = 0
    BY <1>4, <1>6, <2>1
  <2> QED BY <2>2
<1>8. ASSUME NEW i \in 1 .. n PROVE w[1 + i] = b[i]
  <2>1. 1 + i \in 1 .. n + 1 /\ (n + 1) - (1 + i) + 1 = n - i + 1 /\ n - i + 1 \in 1 .. n /\ n - (n - i + 1) + 1 = i
    BY <1>2
  <2> QED BY <1>3, <1>4, <1>6, <2>1
<1>9. DigitsValue(w, Radix) = DigitsValue(b, Radix)
  <2>1. w \in DigitSeq(Radix) /\ b \in DigitSeq(Radix)
    BY <1>1, <1>6 DEF DigitSeq
  <2>2. Len(w) = 1 + Len(b) /\ 1 \in Nat
    BY <1>2, <1>6
  <2> QED BY <1>1, <1>7, <1>8, <2>1, <2>2, ZeroesInFront
<1> QED BY <1>5, <1>9 DEF v, r

LEMMA EncodeIs ==
  ASSUME NEW b \in Seq(Byte)
  PROVE  EncodeBase58(b) = Converted(b, Radix, Base)
BY SetBytes DEF EncodeBase58, Converted

\* The bytes of a number are its digits, the sign's byte cut off.
LEMMA BytesOfNumber ==
  ASSUME NEW n \in Nat
  PROVE  Reverse(Unsigned(getvch(n))) = Numeral(n, Radix)
<1> DEFINE d == Numeral(n, Radix)
           v == Reverse(d)
           k == Len(d)
<1>1. Byte = 0 .. Radix - 1 /\ Radix \in Nat /\ Radix >= 2 /\ TopBit \in Nat \ {0} /\ 0 \in Byte
  BY RadixIs
<1>2. IsNumeral(d, n, Radix)
  BY <1>1, NumeralIs
<1>3. getvch(n) = Signed(v, FALSE)
  <2>1. Abs(n) = n /\ ~(n < 0)
    BY DEF Abs
  <2>2. getvch(n) = Signed(v, n < 0)
    BY <2>1 DEF getvch, Bn2Mpi, Magnitude
  <2>3. (n < 0) = FALSE
    BY <2>1
  <2> HIDE DEF v
  <2> QED BY <2>2, <2>3
<1> HIDE DEF d
<1>4. d \in Seq(Byte) /\ NoZeroInFront(d)
  BY <1>1, <1>2 DEF IsNumeral, DigitSeq
<1>5. v \in Seq(Byte) /\ Len(v) = k /\ \A i \in 1 .. k : v[i] = d[k - i + 1]
  BY <1>4, Reversed
<1>6. k \in Nat
  BY <1>4, LenProperties
<1>7. Reverse(v) = d
  BY <1>4, ReversedTwice
<1> HIDE DEF v
<1>8. Unsigned(Signed(v, FALSE)) = v
  <2>1. CASE v = <<>>
    <3>1. Signed(v, FALSE) = v
      BY <2>1 DEF Signed
    <3>2. ~(Len(v) >= 2)
      BY <2>1
    <3> QED BY <3>1, <3>2 DEF Unsigned
  <2>2. CASE v # <<>>
    <3>1. k \in 1 .. k /\ k - k + 1 = 1
      <4>1. k # 0
        BY <1>5, <2>2, EmptySeq
      <4> QED BY <1>6, <4>1
    <3>2. v[k] = d[1]
      BY <1>5, <3>1
    <3>3. d # <<>>
      <4>1. Len(<<>>) = 0
        BY EmptySeq
      <4> QED BY <1>6, <3>1, <4>1
    <3>4. v[k] # 0
      BY <1>4, <3>2, <3>3 DEF NoZeroInFront
    <3>5. CASE v[k] >= TopBit
      <4> DEFINE w == Append(v, 0)
      <4>1. Signed(v, FALSE) = w
        BY <1>5, <2>2, <3>5 DEF Signed
      <4>2. w \in Seq(Byte) /\ Len(w) = k + 1 /\ (\A i \in 1 .. k : w[i] = v[i]) /\ w[k + 1] = 0
        <5> HIDE DEF k
        <5> QED BY <1>1, <1>5, AppendProperties
      <4> HIDE DEF w
      <4>3. Len(w) >= 2 /\ w[Len(w)] = 0 /\ w[Len(w) - 1] >= TopBit
        <5>1. k + 1 >= 2 /\ (k + 1) - 1 = k
          BY <1>6, <3>1
        <5> QED BY <3>1, <3>5, <4>2, <5>1
      <4>4. Unsigned(w) = SubSeq(w, 1, (k + 1) - 1)
        BY <4>2, <4>3 DEF Unsigned, Front
      <4>5. (k + 1) - 1 = k
        BY <1>6
      <4>6. SubSeq(w, 1, k) = v
        <5> DEFINE u == SubSeq(w, 1, k)
        <5>1. \A i \in 1 .. k : w[i] \in Byte
          BY <1>5, <4>2, ElementOfSeq
        <5>2. 1 \in Int /\ k \in Int
          BY <1>6
        <5>3. u \in Seq(Byte) /\ Len(u) = (IF 1 <= k THEN k - 1 + 1 ELSE 0) /\ \A i \in 1 .. k - 1 + 1 : u[i] = w[1 + i - 1]
          <6> HIDE DEF k
          <6> QED BY <5>1, <5>2, SubSeqProperties
        <5> HIDE DEF u
        <5>4. Len(u) = Len(v)
          <6>1. 1 <= k /\ k - 1 + 1 = k
            BY <1>6, <3>1
          <6> QED BY <1>5, <5>3, <6>1
        <5>5. ASSUME NEW i \in 1 .. Len(u) PROVE u[i] = v[i]
          <6>1. i \in 1 .. k /\ i \in 1 .. k - 1 + 1 /\ 1 + i - 1 = i
            BY <1>5, <1>6, <5>4, <5>5
          <6> QED BY <4>2, <5>3, <6>1
        <5>6. u = v
          BY <1>5, <5>3, <5>4, <5>5, SeqEqual
        <5> QED BY <5>6 DEF u
      <4> QED BY <4>1, <4>4, <4>5, <4>6
    <3>6. CASE ~(v[k] >= TopBit)
      <4>1. Signed(v, FALSE) = v
        BY <1>5, <2>2, <3>6 DEF Signed
      <4>2. ~(v[Len(v)] = 0)
        BY <1>5, <3>4
      <4> QED BY <4>1, <4>2 DEF Unsigned
    <3> QED BY <3>5, <3>6
  <2> QED BY <2>1, <2>2
<1> QED BY <1>3, <1>7, <1>8 DEF d

-----------------------------------------------------------------------------
(***************************************************************************)
(* Reading the text: spaces around the digits are skipped.                 *)
(***************************************************************************)
LEMMA PartIs ==
  ASSUME NEW S, NEW s \in Seq(S), NEW a \in 0 .. Len(s), NEW b \in a .. Len(s)
  PROVE  /\ SubSeq(s, a + 1, b) \in Seq(S) /\ Len(SubSeq(s, a + 1, b)) = b - a
         /\ \A i \in 1 .. b - a : SubSeq(s, a + 1, b)[i] = s[a + i]
<1> DEFINE u == SubSeq(s, a + 1, b)
           n == Len(s)
<1>1. n \in Nat
  BY LenProperties
<1>2. \A i \in a + 1 .. b : s[i] \in S
  BY <1>1, ElementOfSeq
<1> HIDE DEF n
<1>3. a + 1 \in Int /\ b \in Int /\ a \in Nat /\ b \in Nat /\ a <= b
  BY <1>1 DEF n
<1>4. u \in Seq(S) /\ Len(u) = (IF a + 1 <= b THEN b - (a + 1) + 1 ELSE 0)
      /\ \A i \in 1 .. b - (a + 1) + 1 : u[i] = s[a + 1 + i - 1]
  BY <1>2, <1>3, SubSeqProperties
<1> HIDE DEF u
<1>5. Len(u) = b - a
  BY <1>3, <1>4
<1>6. ASSUME NEW i \in 1 .. b - a PROVE u[i] = s[a + i]
  <2>1. i \in 1 .. b - (a + 1) + 1 /\ a + 1 + i - 1 = a + i
    BY <1>3
  <2> QED BY <1>4, <2>1
<1> QED BY <1>4, <1>5, <1>6 DEF u

LEMMA SkipFor ==
  ASSUME NEW t \in Seq(Int), NEW k, LeadsFor(t, {Space}, k)
  PROVE  SkipSpaces(t) = SubSeq(t, k + 1, Len(t))
<1> DEFINE n == Len(t)
           other == {i \in DOMAIN t : t[i] # Space}
<1>1. n \in Nat /\ DOMAIN t = 1 .. n
  BY LenProperties
<1>2. k \in 0 .. n /\ (\A i \in 1 .. k : t[i] = Space) /\ (k < n => t[k + 1] # Space)
  BY DEF LeadsFor
<1> HIDE DEF n
<1>3. CASE k = n
  <2>1. other = {}
    BY <1>1, <1>2, <1>3
  <2>2. SkipSpaces(t) = <<>>
    BY <2>1 DEF SkipSpaces
  <2>3. SubSeq(t, k + 1, n) = <<>>
    <3>1. n < k + 1 /\ k + 1 \in Int /\ n \in Int
      BY <1>1, <1>3
    <3> QED BY <3>1, SubSeqEmpty
  <2> QED BY <2>2, <2>3 DEF n
<1>4. CASE k # n
  <2>1. k < n /\ k + 1 \in 1 .. n /\ k \in Nat
    BY <1>1, <1>2, <1>4
  <2>2. k + 1 \in other
    BY <1>1, <1>2, <2>1
  <2>3. ASSUME NEW i \in other PROVE k + 1 <= i /\ i \in Nat
    <3>1. i \in 1 .. n /\ t[i] # Space
      BY <1>1
    <3>2. i \notin 1 .. k
      BY <1>2, <3>1
    <3>3. i \in Nat /\ ~(i <= k)
      BY <1>1, <2>1, <3>1, <3>2
    <3> QED BY <2>1, <3>3
  <2>4. (CHOOSE i \in other : \A j \in other : i <= j) = k + 1
    <3> HIDE DEF other
    <3>1. \A x \in other : (\A j \in other : x <= j) => x = k + 1
      BY <2>1, <2>2, <2>3
    <3> QED BY <2>2, <2>3, <3>1
  <2>5. other # {}
    BY <2>2
  <2> QED BY <2>4, <2>5 DEF SkipSpaces, n
<1> QED BY <1>3, <1>4

\* The text is the digits d behind k spaces, and behind them only spaces.
Between(d, text, k) ==
  /\ k \in Nat /\ k + Len(d) <= Len(text)
  /\ \A i \in 1 .. Len(d) : text[k + i] = d[i]
  /\ \A i \in 1 .. Len(text) : i <= k \/ i > k + Len(d) => text[i] = Space

LEMMA SpaceIsNoDigit == Space \in Int /\ \A d \in 0 .. Base - 1 : d \in Int /\ d # Space
BY RadixIs DEF Space

\* Why a decoding is what it is: the spaces, the digits, and what is behind.
DecodeParts(text, k, d, rest) ==
  /\ k \in 0 .. Len(text) /\ LeadsFor(text, {Space}, k)
  /\ LET st == SubSeq(text, k + 1, Len(text))
     IN LeadsFor(st, 0 .. Base - 1, Len(d)) /\ d = SubSeq(st, 1, Len(d)) /\ rest = SubSeq(st, Len(d) + 1, Len(st))

LEMMA DecodeInParts ==
  ASSUME NEW text \in Seq(Int), NEW k, NEW d \in DigitSeq(Base), NEW rest, DecodeParts(text, k, d, rest)
  PROVE  DecodeBase58(text) = IF SkipSpaces(rest) # <<>> THEN Decoded(FALSE, <<>>)
                              ELSE Decoded(TRUE, Converted(d, Base, Radix))
<1> DEFINE st == SubSeq(text, k + 1, Len(text))
           D == 0 .. Base - 1
<1>1. SkipSpaces(text) = st
  BY SkipFor DEF DecodeParts
<1>2. st \in Seq(Int)
  <2>1. k \in 0 .. Len(text) /\ Len(text) \in Nat
    BY LenProperties DEF DecodeParts
  <2>2. Len(text) \in k .. Len(text)
    BY <2>1
  <2> QED BY <2>1, <2>2, PartIs
<1>3. LeadsFor(st, D, Len(d)) /\ d = SubSeq(st, 1, Len(d)) /\ rest = SubSeq(st, Len(d) + 1, Len(st))
  BY DEF DecodeParts
<1>4. Leading(st, D) = d
  <2> HIDE DEF st, D
  <2>1. Leading(st, D) = SubSeq(st, 1, Len(d))
    BY <1>2, <1>3, LeadingFor
  <2> QED BY <1>3, <2>1
<1> DEFINE N == DigitsValue(d, Base)
           z == Leading(d, {0})
<1>5. N \in Nat
  <2>1. Base \in Nat \ {0}
    BY RadixIs
  <2> QED BY <2>1, ValueIsNat
<1>6. Reverse(Unsigned(getvch(N))) = Numeral(N, Radix)
  <2> HIDE DEF N
  <2> QED BY <1>5, BytesOfNumber
<1>7. Zeroes(Len(z)) = z
  <2>1. Base \in Nat \ {0}
    BY RadixIs
  <2>2. PICK j \in Nat, r \in DigitSeq(Base) : HasZeroes(d, j, r, Base)
    BY <2>1, ZeroesCut
  <2>3. z = Zeroes(j)
    BY <2>1, <2>2, ZeroesBehind
  <2>4. Len(Zeroes(j)) = j
    BY <2>1, ZeroesAre
  <2> HIDE DEF z
  <2> QED BY <2>3, <2>4
<1>8. Zeroes(Len(z)) \o Reverse(Unsigned(getvch(N))) = Converted(d, Base, Radix)
  BY <1>6, <1>7 DEF Converted
<1>9. DecodeBase58(text) =
        IF SkipSpaces(SubSeq(st, Len(d) + 1, Len(st))) # <<>> THEN Decoded(FALSE, <<>>)
        ELSE Decoded(TRUE, Zeroes(Len(z)) \o Reverse(Unsigned(getvch(N))))
  <2> HIDE DEF st
  <2> QED BY <1>1, <1>4 DEF DecodeBase58
<1> HIDE DEF st, N, z
<1> QED BY <1>3, <1>8, <1>9

LEMMA EmptyOf ==
  ASSUME NEW S, NEW s \in Seq(S), Len(s) = 0
  PROVE  s = <<>>
BY EmptySeq

\* Only spaces are skipped to the end.
LEMMA SkipAll ==
  ASSUME NEW t \in Seq(Int)
  PROVE  SkipSpaces(t) = <<>> <=> \A i \in 1 .. Len(t) : t[i] = Space
<1> DEFINE n == Len(t)
<1>1. n \in Nat
  BY LenProperties
<1>2. PICK k \in 0 .. n : LeadsFor(t, {Space}, k)
  BY LeadingIs
<1> DEFINE u == SubSeq(t, k + 1, n)
<1>3. SkipSpaces(t) = u
  BY <1>2, SkipFor
<1>4. u \in Seq(Int) /\ Len(u) = n - k
  <2>1. n \in k .. n
    BY <1>1
  <2> QED BY <2>1, PartIs
<1> HIDE DEF u
<1>5. ASSUME u = <<>> PROVE \A i \in 1 .. n : t[i] = Space
  <2>1. Len(<<>>) = 0
    BY EmptySeq
  <2>2. n - k = 0
    BY <1>4, <1>5, <2>1
  <2>3. k = n
    BY <1>1, <2>2
  <2> QED BY <1>2, <2>3 DEF LeadsFor
<1>6. ASSUME \A i \in 1 .. n : t[i] = Space PROVE u = <<>>
  <2>1. ~(k < n)
    <3> SUFFICES ASSUME k < n PROVE FALSE
      OBVIOUS
    <3>1. k + 1 \in 1 .. n
      BY <1>1
    <3>2. t[k + 1] # Space
      BY <1>2 DEF LeadsFor
    <3> QED BY <1>6, <3>1, <3>2
  <2>2. Len(u) = 0
    <3>1. k = n
      BY <1>1, <2>1
    <3> QED BY <1>1, <1>4, <3>1
  <2> QED BY <1>4, <2>2, EmptyOf
<1> QED BY <1>3, <1>5, <1>6

\* Digits between spaces are decoded.
LEMMA DecodeOf ==
  ASSUME NEW text \in Seq(Int), NEW d \in DigitSeq(Base), NEW j, Between(d, text, j)
  PROVE  DecodeBase58(text) = Decoded(TRUE, Converted(d, Base, Radix))
<1> DEFINE n == Len(text)
           m == Len(d)
           D == 0 .. Base - 1
           k == IF m = 0 THEN n ELSE j
<1>1. n \in Nat /\ m \in Nat /\ d \in Seq(D)
  BY LenProperties DEF DigitSeq
<1>2. j \in Nat /\ j + m <= n /\ (\A i \in 1 .. m : text[j + i] = d[i])
      /\ \A i \in 1 .. n : i <= j \/ i > j + m => text[i] = Space
  BY DEF Between
<1>3. k \in 0 .. n /\ k + m <= n /\ (\A i \in 1 .. m : text[k + i] = d[i])
  <2> HIDE DEF n, m
  <2> QED BY <1>1, <1>2
<1>4. \A i \in 1 .. n : i <= k \/ i > k + m => text[i] = Space
  <2>1. CASE m = 0
    <3> SUFFICES ASSUME NEW i \in 1 .. n PROVE text[i] = Space
      OBVIOUS
    <3>1. i <= j \/ i > j + m
      <4> HIDE DEF n, m
      <4> QED BY <1>1, <1>2, <2>1
    <3> QED BY <1>2, <3>1
  <2>2. CASE m # 0
    BY <1>2, <2>2
  <2> QED BY <2>1, <2>2
<1>5. m = 0 => k = n
  OBVIOUS
<1>6. \A i \in 1 .. m : d[i] \in D /\ d[i] # Space
  <2> TAKE i \in 1 .. m
  <2>1. d[i] \in D
    BY <1>1, ElementOfSeq
  <2> HIDE DEF D
  <2> QED BY <2>1, SpaceIsNoDigit DEF D
<1>7. Space \notin D
  BY SpaceIsNoDigit
<1> HIDE DEF n, m, D, k
<1>8. LeadsFor(text, {Space}, k)
  <2>1. \A i \in 1 .. k : text[i] = Space
    BY <1>1, <1>3, <1>4
  <2>2. ASSUME k < n PROVE text[k + 1] # Space
    <3>1. m # 0
      BY <1>1, <1>3, <1>5, <2>2
    <3>2. 1 \in 1 .. m
      BY <1>1, <3>1
    <3> QED BY <1>3, <1>6, <3>2
  <2> QED BY <1>3, <2>1, <2>2 DEF LeadsFor, n
<1> DEFINE st == SubSeq(text, k + 1, n)
<1>9. st \in Seq(Int) /\ Len(st) = n - k /\ \A i \in 1 .. n - k : st[i] = text[k + i]
  <2>1. n \in k .. n
    BY <1>1, <1>3
  <2> QED BY <1>3, <2>1, PartIs DEF n
<1> HIDE DEF st
<1>10. \A i \in 1 .. m : i \in 1 .. n - k /\ st[i] = d[i]
  <2> TAKE i \in 1 .. m
  <2>1. i \in 1 .. n - k
    BY <1>1, <1>3
  <2> QED BY <1>3, <1>9, <2>1
<1>11. LeadsFor(st, D, m)
  <2>1. \A i \in 1 .. m : st[i] \in D
    BY <1>6, <1>10
  <2>2. ASSUME m < Len(st) PROVE st[m + 1] \notin D
    <3>1. m + 1 \in 1 .. n - k /\ k + (m + 1) \in 1 .. n /\ k + (m + 1) > k + m
      BY <1>1, <1>3, <1>9, <2>2
    <3>2. st[m + 1] = text[k + (m + 1)]
      BY <1>9, <3>1
    <3>3. text[k + (m + 1)] = Space
      BY <1>4, <3>1
    <3> QED BY <1>7, <3>2, <3>3
  <2>3. m \in 0 .. Len(st)
    BY <1>1, <1>3, <1>9
  <2> QED BY <2>1, <2>2, <2>3 DEF LeadsFor
<1> DEFINE e == SubSeq(st, 1, m)
           rest == SubSeq(st, m + 1, Len(st))
<1>12. m \in 0 .. Len(st) /\ Len(st) \in Nat /\ Len(st) \in m .. Len(st) /\ 0 \in 0 .. Len(st) /\ m \in 0 .. m
  BY <1>1, <1>3, <1>9
<1>13. e = d
  <2>1. SubSeq(st, 0 + 1, m) \in Seq(Int) /\ Len(SubSeq(st, 0 + 1, m)) = m - 0
        /\ \A i \in 1 .. m - 0 : SubSeq(st, 0 + 1, m)[i] = st[0 + i]
    BY <1>9, <1>12, PartIs
  <2>2. 0 + 1 = 1 /\ m - 0 = m
    BY <1>1
  <2>3. e \in Seq(Int) /\ Len(e) = m /\ \A i \in 1 .. m : e[i] = st[0 + i]
    BY <2>1, <2>2
  <2> HIDE DEF e
  <2>4. ASSUME NEW i \in 1 .. Len(e) PROVE e[i] = d[i]
    <3>1. 0 + i = i /\ i \in 1 .. m
      BY <1>1, <2>3, <2>4
    <3> QED BY <1>10, <2>3, <3>1
  <2>5. d \in Seq(Int)
    <3>1. D \subseteq Int
      BY DEF D
    <3> QED BY <1>1, <3>1, SeqMonotonic
  <2>6. Len(e) = Len(d)
    BY <2>3 DEF m
  <2> QED BY <2>3, <2>4, <2>5, <2>6, SeqEqual
<1>14. rest \in Seq(Int) /\ Len(rest) = Len(st) - m /\ \A i \in 1 .. Len(st) - m : rest[i] = st[m + i]
  BY <1>9, <1>12, PartIs
<1>15. SkipSpaces(rest) = <<>>
  <2> HIDE DEF rest, e
  <2>1. ASSUME NEW i \in 1 .. Len(rest) PROVE rest[i] = Space
    <3>1. i \in 1 .. Len(st) - m /\ m + i \in 1 .. n - k /\ k + (m + i) \in 1 .. n /\ k + (m + i) > k + m
      BY <1>1, <1>3, <1>9, <1>14, <2>1
    <3>2. rest[i] = st[m + i] /\ st[m + i] = text[k + (m + i)]
      BY <1>9, <1>14, <3>1
    <3>3. text[k + (m + i)] = Space
      BY <1>4, <3>1
    <3> QED BY <3>2, <3>3
  <2> QED BY <1>14, <2>1, SkipAll
<1>16. DecodeParts(text, k, d, rest)
  <2> HIDE DEF rest
  <2>1. SubSeq(text, k + 1, Len(text)) = st /\ Len(d) = m /\ k \in 0 .. Len(text)
    BY <1>3 DEF st, n, m
  <2>2. LeadsFor(st, 0 .. Base - 1, m)
    BY <1>11 DEF D
  <2>3. d = SubSeq(st, 1, m)
    BY <1>13
  <2>4. rest = SubSeq(st, m + 1, Len(st))
    BY DEF rest
  <2> QED BY <1>8, <2>1, <2>2, <2>3, <2>4 DEF DecodeParts
<1> HIDE DEF rest
<1> QED BY <1>15, <1>16, DecodeInParts

\* What is decoded are digits between spaces.
LEMMA DecodeFrom ==
  ASSUME NEW text \in Seq(Int)
  PROVE  \/ DecodeBase58(text) = Decoded(FALSE, <<>>)
         \/ \E d \in DigitSeq(Base), j \in Nat : Between(d, text, j)
<1> DEFINE n == Len(text)
           D == 0 .. Base - 1
<1>1. n \in Nat
  BY LenProperties
<1>2. PICK k \in 0 .. n : LeadsFor(text, {Space}, k)
  BY LeadingIs
<1> DEFINE st == SubSeq(text, k + 1, n)
<1>3. st \in Seq(Int) /\ Len(st) = n - k /\ \A i \in 1 .. n - k : st[i] = text[k + i]
  <2>1. n \in k .. n
    BY <1>1
  <2> QED BY <2>1, PartIs
<1> HIDE DEF st
<1>4. PICK m \in 0 .. Len(st) : LeadsFor(st, D, m)
  BY <1>3, LeadingIs
<1> DEFINE d == SubSeq(st, 1, m)
           rest == SubSeq(st, m + 1, Len(st))
<1>5. m \in 0 .. Len(st) /\ Len(st) \in Nat /\ Len(st) \in m .. Len(st) /\ m \in Nat /\ m <= n - k
  <2> HIDE DEF n
  <2> QED BY <1>1, <1>3
<1>6. d \in Seq(D) /\ Len(d) = m /\ \A i \in 1 .. m : d[i] = st[i]
  <2>1. \A i \in 1 .. m : st[i] \in D
    BY <1>4 DEF LeadsFor
  <2>2. 1 \in Int /\ m \in Int
    BY <1>5
  <2> HIDE DEF D
  <2>3. d \in Seq(D) /\ Len(d) = (IF 1 <= m THEN m - 1 + 1 ELSE 0) /\ \A i \in 1 .. m - 1 + 1 : d[i] = st[1 + i - 1]
    BY <2>1, <2>2, SubSeqProperties
  <2> HIDE DEF d
  <2>4. Len(d) = m
    BY <1>5, <2>3
  <2>5. ASSUME NEW i \in 1 .. m PROVE d[i] = st[i]
    <3>1. i \in 1 .. m - 1 + 1 /\ 1 + i - 1 = i
      BY <1>5
    <3> QED BY <2>3, <3>1
  <2> QED BY <2>3, <2>4, <2>5
<1>7. rest \in Seq(Int) /\ Len(rest) = Len(st) - m /\ \A i \in 1 .. Len(st) - m : rest[i] = st[m + i]
  BY <1>3, <1>5, PartIs
<1>8. d \in DigitSeq(Base)
  <2> HIDE DEF d
  <2> QED BY <1>6 DEF DigitSeq
<1>9. DecodeParts(text, k, d, rest)
  <2>1. SubSeq(text, k + 1, Len(text)) = st /\ k \in 0 .. Len(text)
    BY DEF st
  <2>2. LeadsFor(st, 0 .. Base - 1, m)
    BY <1>4
  <2>3. Len(d) = m
    BY <1>6
  <2> QED BY <1>2, <2>1, <2>2, <2>3 DEF DecodeParts
<1> HIDE DEF d, rest
<1>10. DecodeBase58(text) = IF SkipSpaces(rest) # <<>> THEN Decoded(FALSE, <<>>)
                            ELSE Decoded(TRUE, Converted(d, Base, Radix))
  BY <1>8, <1>9, DecodeInParts
<1>11. ASSUME SkipSpaces(rest) = <<>> PROVE Between(d, text, k)
  <2>1. \A i \in 1 .. Len(rest) : rest[i] = Space
    BY <1>7, <1>11, SkipAll
  <2> HIDE DEF n, D
  <2>2. ASSUME NEW i \in 1 .. m PROVE text[k + i] = d[i]
    <3>1. i \in 1 .. n - k
      BY <1>1, <1>5
    <3> QED BY <1>3, <1>6, <3>1
  <2>3. ASSUME NEW i \in 1 .. n, i <= k \/ i > k + m PROVE text[i] = Space
    <3>1. CASE i <= k
      <4>1. i \in 1 .. k
        BY <1>1, <3>1
      <4> QED BY <1>2, <4>1 DEF LeadsFor
    <3>2. CASE i > k + m
      <4> DEFINE x == i - k - m
      <4>1. x \in 1 .. Len(rest) /\ x \in 1 .. Len(st) - m /\ m + x \in 1 .. n - k /\ k + (m + x) = i
        BY <1>1, <1>3, <1>5, <1>7, <3>2
      <4> HIDE DEF x
      <4>2. rest[x] = st[m + x] /\ st[m + x] = text[k + (m + x)]
        BY <1>3, <1>7, <4>1
      <4> QED BY <2>1, <4>1, <4>2
    <3> QED BY <2>3, <3>1, <3>2
  <2>4. k \in Nat /\ k + m <= n
    BY <1>1, <1>5
  <2> QED BY <1>6, <2>2, <2>3, <2>4 DEF Between, n
<1>12. k \in Nat
  BY <1>1
<1> QED BY <1>8, <1>10, <1>11, <1>12

-----------------------------------------------------------------------------
(***************************************************************************)
(* The checksum, and the version in front of the data.                     *)
(***************************************************************************)
\* The checksum is as many bytes as it should be, whatever hash makes it.
ChecksumFits == \A bytes \in Seq(Byte) : Checksum(bytes) \in [1 .. CheckBytes -> Byte]

LEMMA DecodedFields ==
  ASSUME NEW b
  PROVE  /\ Decoded(TRUE, b).ret /\ ~Decoded(FALSE, b).ret
         /\ Decoded(TRUE, b).bytes = b /\ Decoded(FALSE, b).bytes = b
BY DEF Decoded

LEMMA Checked ==
  ASSUME ChecksumFits, NEW b \in Seq(Byte)
  PROVE  LET all == b \o Checksum(b)
         IN all \in Seq(Byte) /\ Len(all) = Len(b) + CheckBytes /\ SubSeq(all, 1, Len(all) - CheckBytes) = b
<1> DEFINE c == Checksum(b)
           all == b \o c
           n == Len(b)
<1>1. CheckBytes \in Nat /\ n \in Nat
  BY RadixIs, LenProperties
<1>2. c \in [1 .. CheckBytes -> Byte]
  BY DEF ChecksumFits
<1> HIDE DEF c
<1>3. c \in Seq(Byte)
  BY <1>1, <1>2
<1>4. Len(c) = CheckBytes
  <2>1. IsRow(c, CheckBytes)
    BY <1>2 DEF IsRow
  <2> QED BY <1>1, <2>1, RowLength
<1>5. all \in Seq(Byte) /\ Len(all) = n + Len(c)
      /\ \A i \in 1 .. n + Len(c) : all[i] = IF i <= n THEN b[i] ELSE c[i - n]
  BY <1>3, ConcatProperties
<1> HIDE DEF all
<1>6. Len(all) - CheckBytes = n
  BY <1>1, <1>4, <1>5
<1>7. SubSeq(all, 1, n) = b
  <2> DEFINE u == SubSeq(all, 1, n)
  <2>1. \A i \in 1 .. n : all[i] \in Byte
    BY <1>1, <1>4, <1>5, ElementOfSeq
  <2>2. 1 \in Int /\ n \in Int
    BY <1>1
  <2> HIDE DEF n
  <2>3. u \in Seq(Byte) /\ Len(u) = (IF 1 <= n THEN n - 1 + 1 ELSE 0) /\ \A i \in 1 .. n - 1 + 1 : u[i] = all[1 + i - 1]
    BY <2>1, <2>2, SubSeqProperties
  <2> HIDE DEF u
  <2>4. Len(u) = n
    BY <1>1, <2>3
  <2>5. ASSUME NEW i \in 1 .. n PROVE u[i] = b[i]
    <3>1. i \in 1 .. n - 1 + 1 /\ 1 + i - 1 = i /\ i \in 1 .. n + Len(c) /\ i <= n
      BY <1>1, <1>4
    <3>2. u[i] = all[i]
      BY <2>3, <3>1
    <3> QED BY <1>5, <3>1, <3>2
  <2>6. u = b
    BY <2>3, <2>4, <2>5, SeqEqual DEF n
  <2> QED BY <2>6 DEF u
<1> QED BY <1>4, <1>5, <1>6, <1>7 DEF all, c

LEMMA EncodeCheckIs ==
  ASSUME ChecksumFits, NEW b \in Seq(Byte)
  PROVE  /\ EncodeBase58Check(b) \in DigitSeq(Base)
         /\ Converted(EncodeBase58Check(b), Base, Radix) = b \o Checksum(b)
<1> DEFINE all == b \o Checksum(b)
<1>1. all \in Seq(Byte)
  BY Checked
<1> HIDE DEF all
<1>2. Radix \in Nat /\ Radix >= 2 /\ Base \in Nat /\ Base >= 2 /\ all \in DigitSeq(Radix)
  BY <1>1, RadixIs DEF DigitSeq
<1>3. Converted(all, Radix, Base) \in DigitSeq(Base) /\ Converted(Converted(all, Radix, Base), Base, Radix) = all
  BY <1>2, ConvertedBack
<1>4. EncodeBase58(all) = Converted(all, Radix, Base)
  BY <1>1, EncodeIs
<1> QED BY <1>3, <1>4 DEF EncodeBase58Check, all

\* What was encoded is read between any spaces.
LEMMA DecodeCheckOf ==
  ASSUME ChecksumFits, NEW text \in Seq(Int), NEW b \in Seq(Byte), NEW j, Between(EncodeBase58Check(b), text, j)
  PROVE  DecodeBase58Check(text) = Decoded(TRUE, b)
<1> DEFINE all == b \o Checksum(b)
           e == EncodeBase58Check(b)
<1>1. all \in Seq(Byte) /\ Len(all) = Len(b) + CheckBytes /\ SubSeq(all, 1, Len(all) - CheckBytes) = b
  BY Checked
<1>2. Converted(e, Base, Radix) = all /\ e \in DigitSeq(Base)
  BY EncodeCheckIs
<1>3. DecodeBase58(text) = Decoded(TRUE, all)
  <2> HIDE DEF e, all
  <2>1. Between(e, text, j)
    BY DEF e
  <2> QED BY <1>2, <2>1, DecodeOf
<1>4. all = b \o Checksum(b)
  OBVIOUS
<1> HIDE DEF all
<1>5. DecodeBase58(text).ret /\ DecodeBase58(text).bytes = all
  BY <1>3, DecodedFields
<1>6. ~(Len(all) < CheckBytes)
  <2>1. CheckBytes \in Nat /\ Len(b) \in Nat
    BY RadixIs, LenProperties
  <2> QED BY <1>1, <2>1
<1> QED BY <1>1, <1>4, <1>5, <1>6 DEF DecodeBase58Check

\* What is read is what was encoded, between spaces.
LEMMA DecodeCheckFrom ==
  ASSUME ChecksumFits, NEW text \in Seq(Int)
  PROVE  \/ DecodeBase58Check(text) = Decoded(FALSE, <<>>)
         \/ \E b \in Seq(Byte) :
              /\ DecodeBase58Check(text) = Decoded(TRUE, b)
              /\ EncodeBase58Check(b) \in DigitSeq(Base)
              /\ \E j \in Nat : Between(EncodeBase58Check(b), text, j)
<1>1. CASE DecodeBase58(text) = Decoded(FALSE, <<>>)
  BY <1>1, DecodedFields DEF DecodeBase58Check
<1>2. ASSUME NEW d \in DigitSeq(Base), NEW j \in Nat, Between(d, text, j)
      PROVE  \/ DecodeBase58Check(text) = Decoded(FALSE, <<>>)
             \/ \E b \in Seq(Byte) :
                  /\ DecodeBase58Check(text) = Decoded(TRUE, b)
                  /\ EncodeBase58Check(b) \in DigitSeq(Base)
                  /\ \E i \in Nat : Between(EncodeBase58Check(b), text, i)
  <2> DEFINE all == Converted(d, Base, Radix)
             b == SubSeq(all, 1, Len(all) - CheckBytes)
  <2>1. Radix \in Nat /\ Radix >= 2 /\ Base \in Nat /\ Base >= 2 /\ CheckBytes \in Nat
    BY RadixIs
  <2>2. all \in DigitSeq(Radix) /\ Converted(all, Radix, Base) = d
    BY <2>1, ConvertedBack
  <2>3. DecodeBase58(text) = Decoded(TRUE, all)
    BY <1>2, DecodeOf
  <2> HIDE DEF all
  <2>4. DecodeBase58(text).ret /\ DecodeBase58(text).bytes = all
    BY <2>3, DecodedFields
  <2>5. all \in Seq(Byte) /\ Len(all) \in Nat
    BY <2>2, RadixIs, LenProperties DEF DigitSeq
  <2>6. CASE Len(all) < CheckBytes \/ all # b \o Checksum(b)
    BY <2>4, <2>6 DEF DecodeBase58Check
  <2>7. CASE ~(Len(all) < CheckBytes) /\ all = b \o Checksum(b)
    <3>1. DecodeBase58Check(text) = Decoded(TRUE, b)
      BY <2>4, <2>7 DEF DecodeBase58Check
    <3>2. b \in Seq(Byte)
      <4> DEFINE m == Len(all) - CheckBytes
      <4>1. m \in Int /\ 1 \in Int /\ m <= Len(all)
        BY <2>1, <2>5
      <4>2. \A i \in 1 .. m : i \in 1 .. Len(all)
        BY <2>5, <4>1
      <4>3. \A i \in 1 .. m : all[i] \in Byte
        BY <2>5, <4>2, ElementOfSeq
      <4> HIDE DEF m
      <4>4. SubSeq(all, 1, m) \in Seq(Byte)
        BY <4>1, <4>3, SubSeqProperties
      <4> QED BY <4>4 DEF m
    <3> HIDE DEF b
    <3>3. EncodeBase58Check(b) = d
      <4>1. EncodeBase58(all) = Converted(all, Radix, Base)
        BY <2>5, EncodeIs
      <4> QED BY <2>2, <2>7, <4>1 DEF EncodeBase58Check
    <3> QED BY <1>2, <3>1, <3>2, <3>3
  <2> QED BY <2>6, <2>7
<1> QED BY <1>1, <1>2, DecodeFrom

LEMMA CutWhereJoined ==
  ASSUME NEW S, NEW v \in Seq(S), NEW w \in Seq(S)
  PROVE  LET b == v \o w
         IN /\ b \in Seq(S) /\ Len(b) = Len(v) + Len(w) /\ Len(v) \in Nat /\ Len(w) \in Nat
            /\ SubSeq(b, 1, Len(v)) = v /\ SubSeq(b, Len(v) + 1, Len(b)) = w
<1> DEFINE b == v \o w
           n == Len(v)
           m == Len(w)
<1>1. n \in Nat /\ m \in Nat
  BY LenProperties
<1>2. b \in Seq(S) /\ Len(b) = n + m /\ \A i \in 1 .. n + m : b[i] = IF i <= n THEN v[i] ELSE w[i - n]
  BY ConcatProperties
<1> HIDE DEF b
<1>3. SubSeq(b, 1, n) = v
  <2> DEFINE u == SubSeq(b, 0 + 1, n)
  <2>1. 0 \in 0 .. Len(b) /\ n \in 0 .. Len(b)
    BY <1>1, <1>2
  <2>2. u \in Seq(S) /\ Len(u) = n - 0 /\ \A i \in 1 .. n - 0 : u[i] = b[0 + i]
    <3> HIDE DEF n
    <3> QED BY <1>2, <2>1, PartIs
  <2>3. u = SubSeq(b, 1, n)
    OBVIOUS
  <2> HIDE DEF u
  <2>4. Len(u) = n
    BY <1>1, <2>2
  <2>5. ASSUME NEW i \in 1 .. n PROVE u[i] = v[i]
    <3>1. i \in 1 .. n - 0 /\ 0 + i = i /\ i \in 1 .. n + m /\ i <= n
      BY <1>1
    <3> QED BY <1>2, <2>2, <3>1
  <2>6. u = v
    BY <2>2, <2>4, <2>5, SeqEqual DEF n
  <2> QED BY <2>3, <2>6
<1>4. SubSeq(b, n + 1, Len(b)) = w
  <2> DEFINE u == SubSeq(b, n + 1, Len(b))
  <2>1. n \in 0 .. Len(b) /\ Len(b) \in n .. Len(b)
    BY <1>1, <1>2
  <2>2. u \in Seq(S) /\ Len(u) = Len(b) - n /\ \A i \in 1 .. Len(b) - n : u[i] = b[n + i]
    <3> HIDE DEF n
    <3> QED BY <1>2, <2>1, PartIs
  <2> HIDE DEF u
  <2>4. Len(u) = m
    BY <1>1, <1>2, <2>2
  <2>5. ASSUME NEW i \in 1 .. m PROVE u[i] = w[i]
    <3>1. i \in 1 .. Len(b) - n /\ n + i \in 1 .. n + m /\ ~(n + i <= n) /\ (n + i) - n = i
      BY <1>1, <1>2
    <3> QED BY <1>2, <2>2, <3>1
  <2>6. u = w
    BY <2>2, <2>4, <2>5, SeqEqual DEF m
  <2> QED BY <2>6 DEF u
<1> QED BY <1>1, <1>2, <1>3, <1>4 DEF b

LEMMA CutAndJoined ==
  ASSUME NEW S, NEW b \in Seq(S), NEW n \in 0 .. Len(b)
  PROVE  SubSeq(b, 1, n) \o SubSeq(b, n + 1, Len(b)) = b
<1>1. Len(b) \in Nat
  BY LenProperties
<1>2. 1 \in 1 .. Len(b) + 1 /\ n \in 1 - 1 .. Len(b) /\ Len(b) \in n .. Len(b)
  BY <1>1
<1>3. SubSeq(b, 1, n) \o SubSeq(b, n + 1, Len(b)) = SubSeq(b, 1, Len(b))
  BY <1>2, ConcatAdjacentSubSeq
<1> QED BY <1>3, SubSeqFull

LEMMA DataFields ==
  ASSUME NEW v, NEW w
  PROVE  Base58Data(v, w).vchVersion = v /\ Base58Data(v, w).vchData = w
BY DEF Base58Data

\* The text of an object between spaces is read as the object if the length of
\* its version is told, and not if any other is.
LEMMA ReadsItself ==
  ASSUME ChecksumFits, NEW v \in Seq(Byte), NEW w \in Seq(Byte), NEW old,
         NEW text \in Seq(Int), NEW j, Between(ToText(Base58Data(v, w)), text, j)
  PROVE  /\ SetString(old, text, Len(v)).data = Base58Data(v, w)
         /\ \A n \in Nat : v # <<>> /\ n # Len(v) => SetString(old, text, n).data # Base58Data(v, w)
<1> DEFINE b == v \o w
           m == Len(v)
<1>1. /\ b \in Seq(Byte) /\ Len(b) = m + Len(w) /\ m \in Nat /\ Len(w) \in Nat
      /\ SubSeq(b, 1, m) = v /\ SubSeq(b, m + 1, Len(b)) = w
  BY CutWhereJoined
<1>2. ToText(Base58Data(v, w)) = EncodeBase58Check(b)
  BY DataFields DEF ToText
<1> HIDE DEF b
<1>3. DecodeBase58Check(text) = Decoded(TRUE, b)
  BY <1>1, <1>2, DecodeCheckOf
<1>4. DecodeBase58Check(text).bytes = b
  BY <1>3, DecodedFields
<1>5. SetString(old, text, m).data = Base58Data(v, w)
  <2>1. ~(Len(b) < m)
    BY <1>1
  <2> HIDE DEF m
  <2> QED BY <1>1, <1>4, <2>1 DEF SetString
<1>6. ASSUME NEW n \in Nat, v # <<>>, n # m PROVE SetString(old, text, n).data # Base58Data(v, w)
  <2>1. m # 0
    BY <1>6, EmptyOf
  <2>2. CASE Len(b) < n
    <3>1. SetString(old, text, n).data = NoData
      BY <1>4, <2>2 DEF SetString
    <3>2. NoData.vchVersion = <<>>
      BY DEF NoData, Base58Data
    <3> QED BY <1>6, <3>1, <3>2, DataFields
  <2>3. CASE ~(Len(b) < n)
    <3> DEFINE u == SubSeq(b, 1, n)
    <3>1. SetString(old, text, n).data = Base58Data(u, SubSeq(b, n + 1, Len(b)))
      BY <1>4, <2>3 DEF SetString
    <3>2. Len(u) = n
      <4>1. Len(b) \in Nat
        BY <1>1
      <4>2. n \in 0 .. Len(b) /\ 0 \in 0 .. Len(b) /\ n \in 0 .. n
        BY <2>3, <4>1
      <4>3. \A i \in 1 .. n : b[i] \in Byte
        BY <1>1, <4>1, <4>2, ElementOfSeq
      <4>4. 1 \in Int /\ n \in Int
        OBVIOUS
      <4>5. Len(u) = IF 1 <= n THEN n - 1 + 1 ELSE 0
        BY <4>3, <4>4, SubSeqProperties
      <4> HIDE DEF u
      <4> QED BY <4>5
    <3> HIDE DEF u
    <3>3. u # v
      BY <1>6, <3>2
    <3> QED BY <3>1, <3>3, DataFields
  <2> QED BY <2>2, <2>3
<1> QED BY <1>5, <1>6

LEMMA BetweenIs ==
  ASSUME NEW t \in DigitSeq(Base), NEW text \in Seq(Int), NEW j \in Nat, Between(t, text, j)
  PROVE  BetweenSpaces(t, text)
<1> DEFINE n == Len(text)
           m == Len(t)
           D == 0 .. Base - 1
<1>1. n \in Nat /\ m \in Nat /\ DOMAIN text = 1 .. n /\ t \in Seq(D)
  BY LenProperties DEF DigitSeq
<1>2. j + m <= n /\ (\A i \in 1 .. m : text[j + i] = t[i])
      /\ \A i \in 1 .. n : i <= j \/ i > j + m => text[i] = Space
  BY DEF Between
<1>3. D \subseteq Int
  OBVIOUS
<1> HIDE DEF n, m, D
<1>4. t \in Seq(Int)
  BY <1>1, <1>3, SeqMonotonic
<1> DEFINE u == SubSeq(text, j + 1, j + m)
<1>5. u = t
  <2>1. j \in 0 .. Len(text) /\ j + m \in j .. Len(text)
    BY <1>1, <1>2 DEF n
  <2>2. u \in Seq(Int) /\ Len(u) = (j + m) - j /\ \A i \in 1 .. (j + m) - j : u[i] = text[j + i]
    BY <2>1, PartIs
  <2> HIDE DEF u
  <2>3. (j + m) - j = m
    BY <1>1
  <2>4. Len(u) = Len(t) /\ \A i \in 1 .. Len(u) : u[i] = t[i]
    BY <1>2, <2>2, <2>3 DEF m
  <2> QED BY <1>4, <2>2, <2>4, SeqEqual
<1>6. ASSUME NEW i \in 1 .. n \ (j + 1 .. j + m) PROVE text[i] = Space
  <2>1. i \in 1 .. n /\ (i <= j \/ i > j + m)
    BY <1>1
  <2> QED BY <1>2, <2>1
<1>7. j \in 0 .. n - m
  BY <1>1, <1>2
<1>8. /\ j \in 0 .. Len(text) - Len(t)
      /\ t = SubSeq(text, j + 1, j + Len(t))
      /\ \A i \in DOMAIN text \ (j + 1 .. j + Len(t)) : text[i] = Space
  BY <1>1, <1>5, <1>6, <1>7, Zenon DEF n, m
<1> QED BY <1>8, Zenon DEF BetweenSpaces

\* What is read of a text is what it is the text of.
LEMMA ReadIsWritten ==
  ASSUME ChecksumFits, NEW text \in Seq(Int), SetString(NoData, text, 1).data # NoData
  PROVE  BetweenSpaces(ToText(SetString(NoData, text, 1).data), text)
<1>1. CASE DecodeBase58Check(text) = Decoded(FALSE, <<>>)
  <2> DEFINE b == <<>>
  <2>1. DecodeBase58Check(text).bytes = b
    BY <1>1, DecodedFields
  <2>2. Len(b) < 1
    BY EmptySeq
  <2> HIDE DEF b
  <2>3. SetString(NoData, text, 1).data = NoData
    BY <2>1, <2>2 DEF SetString
  <2> QED BY <2>3
<1>2. ASSUME NEW b \in Seq(Byte), DecodeBase58Check(text) = Decoded(TRUE, b),
             EncodeBase58Check(b) \in DigitSeq(Base), NEW j \in Nat, Between(EncodeBase58Check(b), text, j)
      PROVE  BetweenSpaces(ToText(SetString(NoData, text, 1).data), text)
  <2>1. DecodeBase58Check(text).bytes = b
    BY <1>2, DecodedFields
  <2>2. CASE Len(b) < 1
    BY <2>1, <2>2 DEF SetString
  <2>3. CASE ~(Len(b) < 1)
    <3> DEFINE v == SubSeq(b, 1, 1)
               w == SubSeq(b, 1 + 1, Len(b))
    <3>1. SetString(NoData, text, 1).data = Base58Data(v, w)
      BY <2>1, <2>3 DEF SetString
    <3>2. v \o w = b
      <4>1. 1 \in 0 .. Len(b)
        BY <2>3, LenProperties
      <4> QED BY <4>1, CutAndJoined
    <3> HIDE DEF v, w
    <3>3. ToText(Base58Data(v, w)) = EncodeBase58Check(b)
      BY <3>2, DataFields DEF ToText
    <3>4. BetweenSpaces(EncodeBase58Check(b), text)
      BY <1>2, BetweenIs
    <3> QED BY <3>1, <3>3, <3>4
  <2> QED BY <2>2, <2>3
<1> QED BY <1>1, <1>2, DecodeCheckFrom

\* A text between spaces, or as it is.
LEMMA SpacesAround ==
  ASSUME NEW t \in DigitSeq(Base), NEW spaces \in {<<>>, <<Space>>}
  PROVE  LET text == spaces \o t \o spaces
         IN text \in Seq(Int) /\ Between(t, text, Len(spaces))
<1> DEFINE k == Len(spaces)
           m == Len(t)
           D == 0 .. Base - 1
           a == spaces \o t
           text == a \o spaces
<1>1. t \in Seq(Int) /\ m \in Nat
  <2>1. t \in Seq(D) /\ D \subseteq Int
    BY DEF DigitSeq
  <2> HIDE DEF D
  <2>2. t \in Seq(Int)
    BY <2>1, SeqMonotonic
  <2> QED BY <2>2, LenProperties
<1>2. spaces \in Seq(Int) /\ k \in Nat /\ \A i \in 1 .. k : spaces[i] = Space
  <2>1. Space \in Int
    BY SpaceIsNoDigit
  <2>2. CASE spaces = <<>>
    BY <2>2
  <2>3. CASE spaces = <<Space>>
    BY <2>1, <2>3
  <2> QED BY <2>2, <2>3
<1> HIDE DEF k
<1>3. a \in Seq(Int) /\ Len(a) = k + m /\ \A i \in 1 .. k + m : a[i] = IF i <= k THEN spaces[i] ELSE t[i - k]
  BY <1>1, <1>2, ConcatProperties DEF k
<1> HIDE DEF a
<1>4. text \in Seq(Int) /\ Len(text) = (k + m) + k
      /\ \A i \in 1 .. (k + m) + k : text[i] = IF i <= k + m THEN a[i] ELSE spaces[i - (k + m)]
  <2>1. text \in Seq(Int) /\ Len(text) = Len(a) + Len(spaces)
        /\ \A i \in 1 .. Len(a) + Len(spaces) : text[i] = IF i <= Len(a) THEN a[i] ELSE spaces[i - Len(a)]
    BY <1>2, <1>3, ConcatProperties
  <2>2. Len(a) = k + m /\ Len(spaces) = k
    BY <1>3 DEF k
  <2> HIDE DEF text, m
  <2> QED BY <2>1, <2>2
<1> HIDE DEF text, m
<1>5. ASSUME NEW i \in 1 .. m PROVE text[k + i] = t[i]
  <2>1. k + i \in 1 .. k + m /\ k + i \in 1 .. (k + m) + k /\ k + i <= k + m /\ ~(k + i <= k) /\ (k + i) - k = i
    BY <1>1, <1>2
  <2>2. text[k + i] = a[k + i] /\ a[k + i] = t[i]
    BY <1>3, <1>4, <2>1
  <2> QED BY <2>2
<1>6. ASSUME NEW i \in 1 .. (k + m) + k, i <= k \/ i > k + m PROVE text[i] = Space
  <2>1. CASE i <= k
    <3>1. i \in 1 .. k /\ i \in 1 .. k + m /\ i <= k + m
      BY <1>1, <1>2, <2>1
    <3> QED BY <1>2, <1>3, <1>4, <3>1
  <2>2. CASE i > k + m
    <3>1. ~(i <= k + m) /\ i - (k + m) \in 1 .. k
      BY <1>1, <1>2, <2>2
    <3> QED BY <1>2, <1>4, <3>1
  <2> QED BY <1>6, <2>1, <2>2
<1>7. k + m <= Len(text)
  BY <1>1, <1>2, <1>4
<1> QED BY <1>2, <1>4, <1>5, <1>6, <1>7 DEF Between, k, m, a, text

-----------------------------------------------------------------------------
(***************************************************************************)
(* Numbers of either sign and any size, as bytes and as text.              *)
(***************************************************************************)
LEMMA HalfOfRadix == TopBit \in Nat \ {0} /\ Radix = 2 * TopBit
<1> DEFINE h == Digit \div 2
           m == h * Digit
<1>1. Digit \in Nat /\ Digit >= 2 /\ Digit % 2 = 0
  BY BigNumAssumption
<1>2. h \in Nat /\ Digit = 2 * h
  BY <1>1
<1> HIDE DEF h
<1>3. m \in Nat /\ Digit * Digit = 2 * m
  <2>1. (2 * h) * Digit = 2 * (h * Digit)
    BY <1>1, <1>2
  <2> QED BY <1>1, <1>2, <2>1
<1> HIDE DEF m
<1>4. TopBit = m
  BY <1>3 DEF TopBit, Radix
<1> QED BY <1>3, <1>4, RadixIs DEF Radix

\* A zero behind the bytes changes nothing.
LEMMA ZeroBehind ==
  ASSUME NEW v \in Seq(Byte)
  PROVE  /\ Append(v, 0) \in Seq(Byte) /\ Len(Append(v, 0)) = Len(v) + 1
         /\ Append(v, 0)[Len(v) + 1] = 0 /\ \A i \in 1 .. Len(v) : Append(v, 0)[i] = v[i]
         /\ ValueOf(Append(v, 0)) = ValueOf(v)
<1> DEFINE b == Reverse(v)
           w == Append(v, 0)
<1>1. 0 \in Byte /\ TopBit \in Nat \ {0}
  BY RadixIs
<1>2. b \in Seq(Byte) /\ Reverse(b) = v
  BY Reversed, ReversedTwice
<1> HIDE DEF b
<1>3. setvch(w) = DigitsValue(b, Radix)
  BY <1>2, SetBytes
<1>4. w \in Seq(Byte) /\ w # <<>> /\ Len(w) = Len(v) + 1 /\ w[Len(v) + 1] = 0 /\ \A i \in 1 .. Len(v) : w[i] = v[i]
  BY <1>1, AppendProperties
<1> HIDE DEF w
<1>5. setvch(w) = ValueOf(w)
  <2>1. ~(w[Len(w)] >= TopBit)
    BY <1>1, <1>4
  <2> QED BY <1>4, <2>1 DEF setvch, Mpi2Bn
<1>6. DigitsValue(b, Radix) = ValueOf(v)
  BY DEF ValueOf, b
<1> QED BY <1>3, <1>4, <1>5, <1>6 DEF w

\* Bytes with another one in the last place.
LEMMA LastReplaced ==
  ASSUME NEW v \in Seq(Byte), v # <<>>, NEW b \in Byte
  PROVE  LET w == [v EXCEPT ![Len(v)] = b]
         IN /\ w \in Seq(Byte) /\ Len(w) = Len(v) /\ w # <<>> /\ Len(v) \in 1 .. Len(v) /\ w[Len(v)] = b
            /\ v[Len(v)] \in Byte
            /\ \A i \in 1 .. Len(v) - 1 : w[i] = v[i]
<1> DEFINE k == Len(v)
           w == [v EXCEPT ![k] = b]
<1>1. k \in Nat /\ DOMAIN v = 1 .. k /\ \A i \in 1 .. k : v[i] \in Byte
  BY LenProperties, ElementOfSeq
<1>2. k # 0
  BY EmptyOf
<1> HIDE DEF k
<1>3. k \in 1 .. k /\ k \in Nat
  BY <1>1, <1>2
<1>4. DOMAIN w = 1 .. k /\ w[k] = b /\ \A i \in 1 .. k : i # k => w[i] = v[i]
  BY <1>1, <1>3
<1>5. w \in [1 .. k -> Byte] /\ IsRow(w, k)
  <2>1. w = [i \in 1 .. k |-> w[i]]
    BY <1>1
  <2>2. \A i \in 1 .. k : w[i] \in Byte
    BY <1>1, <1>4
  <2> HIDE DEF w
  <2> QED BY <2>1, <2>2 DEF IsRow
<1>6. w \in Seq(Byte) /\ Len(w) = k
  <2> HIDE DEF w
  <2> QED BY <1>1, <1>5, RowLength
<1>7. w # <<>>
  <2>1. Len(<<>>) = 0
    BY EmptySeq
  <2> QED BY <1>2, <1>6, <2>1
<1>8. \A i \in 1 .. k - 1 : i \in 1 .. k /\ i # k
  BY <1>1
<1>9. v[k] \in Byte
  BY <1>1, <1>3
<1> HIDE DEF w
<1>10. \A i \in 1 .. k - 1 : w[i] = v[i]
  BY <1>4, <1>8
<1> QED BY <1>3, <1>4, <1>6, <1>7, <1>9, <1>10 DEF w, k

LEMMA SameBytes ==
  ASSUME NEW v \in Seq(Byte), NEW w \in Seq(Byte), Len(v) = Len(w), v[Len(v)] = w[Len(v)],
         \A i \in 1 .. Len(v) - 1 : v[i] = w[i]
  PROVE  v = w
<1>1. Len(v) \in Nat
  BY LenProperties
<1>2. ASSUME NEW i \in 1 .. Len(v) PROVE v[i] = w[i]
  <2>1. i = Len(v) \/ i \in 1 .. Len(v) - 1
    BY <1>1
  <2> QED BY <2>1
<1> QED BY <1>2, SeqEqual

\* What is put under a sign is read with it, whatever the bytes.
LEMMA SignedBytes ==
  ASSUME NEW v \in Seq(Byte), v # <<>>, NEW negative \in BOOLEAN
  PROVE  /\ Signed(v, negative) \in Seq(Byte)
         /\ setvch(Signed(v, negative)) = IF negative THEN -ValueOf(v) ELSE ValueOf(v)
         /\ Len(Signed(v, negative)) = IF v[Len(v)] >= TopBit THEN Len(v) + 1 ELSE Len(v)
<1> DEFINE k == Len(v)
           s == Signed(v, negative)
<1>1. TopBit \in Nat \ {0} /\ Radix = 2 * TopBit /\ Byte = 0 .. Radix - 1
  BY HalfOfRadix, RadixIs
<1>2. k \in 1 .. k /\ v[k] \in Byte /\ k \in Nat
  <2>1. 0 \in Byte
    BY RadixIs
  <2> QED BY <2>1, LastReplaced, LenProperties
<1>3. CASE v[k] >= TopBit
  <2> DEFINE a == Append(v, 0)
  <2>1. /\ a \in Seq(Byte) /\ Len(a) = k + 1 /\ a[k + 1] = 0 /\ (\A i \in 1 .. k : a[i] = v[i])
        /\ ValueOf(a) = ValueOf(v)
    BY ZeroBehind
  <2>2. CASE ~negative
    <3>1. s = a
      BY <1>3, <2>2 DEF Signed
    <3> HIDE DEF a, s
    <3>2. a # <<>> /\ ~(a[Len(a)] >= TopBit)
      <4>1. Len(<<>>) = 0 /\ k + 1 # 0
        BY <1>2, EmptySeq
      <4> QED BY <1>1, <2>1, <4>1
    <3>3. setvch(s) = ValueOf(a)
      BY <3>1, <3>2 DEF setvch, Mpi2Bn
    <3> QED BY <1>3, <2>1, <2>2, <3>1, <3>3 DEF s
  <2>3. CASE negative
    <3> DEFINE w == Append(v, TopBit)
    <3>1. s = w
      BY <1>3, <2>3 DEF Signed
    <3>2. TopBit \in Byte /\ 0 \in Byte
      BY <1>1
    <3>3. w \in Seq(Byte) /\ w # <<>> /\ Len(w) = k + 1 /\ w[k + 1] = TopBit /\ \A i \in 1 .. k : w[i] = v[i]
      BY <3>2, AppendProperties
    <3> HIDE DEF a, s, w
    <3> DEFINE u == [w EXCEPT ![Len(w)] = 0]
               x == [w EXCEPT ![Len(w)] = w[Len(w)] - TopBit]
    <3>4. u \in Seq(Byte) /\ Len(u) = k + 1 /\ u[k + 1] = 0 /\ \A i \in 1 .. (k + 1) - 1 : u[i] = w[i]
      BY <3>2, <3>3, LastReplaced
    <3>5. x = u
      <4>1. w[Len(w)] - TopBit = 0
        BY <1>1, <3>3
      <4> QED BY <4>1
    <3> HIDE DEF u
    <3>6. u = a
      <4>1. (k + 1) - 1 = k
        BY <1>2
      <4>2. \A i \in 1 .. k : u[i] = a[i]
        BY <2>1, <3>3, <3>4, <4>1
      <4>3. Len(u) = Len(a) /\ u[Len(u)] = a[Len(u)] /\ \A i \in 1 .. Len(u) - 1 : u[i] = a[i]
        BY <2>1, <3>4, <4>1, <4>2
      <4> QED BY <2>1, <3>4, <4>3, SameBytes
    <3>7. setvch(s) = -ValueOf(x)
      <4>1. w[Len(w)] >= TopBit
        BY <1>1, <3>3
      <4> QED BY <3>1, <3>3, <4>1 DEF setvch, Mpi2Bn
    <3> HIDE DEF x
    <3>8. setvch(s) = -ValueOf(v)
      BY <2>1, <3>5, <3>6, <3>7
    <3> QED BY <1>3, <2>3, <3>1, <3>3, <3>8 DEF s
  <2> QED BY <2>2, <2>3
<1>4. CASE ~(v[k] >= TopBit)
  <2>1. CASE ~negative
    <3>1. s = v
      BY <1>4, <2>1 DEF Signed
    <3>2. setvch(v) = ValueOf(v)
      BY <1>4 DEF setvch, Mpi2Bn
    <3> QED BY <1>4, <2>1, <3>1, <3>2
  <2>2. CASE negative
    <3> DEFINE c == v[k] + TopBit
               w == [v EXCEPT ![k] = c]
    <3>1. s = w
      BY <1>4, <2>2 DEF Signed
    <3>2. c \in Byte /\ c >= TopBit /\ c - TopBit = v[k]
      BY <1>1, <1>2, <1>4
    <3> HIDE DEF c
    <3>3. w \in Seq(Byte) /\ Len(w) = k /\ w # <<>> /\ w[k] = c /\ \A i \in 1 .. k - 1 : w[i] = v[i]
      BY <3>2, LastReplaced
    <3> HIDE DEF w, s
    <3> DEFINE u == [w EXCEPT ![Len(w)] = v[k]]
               x == [w EXCEPT ![Len(w)] = w[Len(w)] - TopBit]
    <3>4. u \in Seq(Byte) /\ Len(u) = k /\ u[k] = v[k] /\ \A i \in 1 .. k - 1 : u[i] = w[i]
      BY <1>2, <3>3, LastReplaced
    <3>5. x = u
      BY <3>2, <3>3
    <3> HIDE DEF u
    <3>6. u = v
      BY <3>3, <3>4, SameBytes
    <3>7. setvch(s) = -ValueOf(x)
      <4>1. w[Len(w)] >= TopBit
        BY <3>2, <3>3
      <4> QED BY <3>1, <3>3, <4>1 DEF setvch, Mpi2Bn
    <3> HIDE DEF x
    <3>8. setvch(s) = -ValueOf(v)
      BY <3>5, <3>6, <3>7
    <3> QED BY <1>4, <2>2, <3>1, <3>3, <3>8 DEF s
  <2> QED BY <2>1, <2>2
<1> QED BY <1>3, <1>4

LEMMA MagnitudeIs ==
  ASSUME NEW m \in Nat
  PROVE  /\ Magnitude(m) \in Seq(Byte) /\ ValueOf(Magnitude(m)) = m
         /\ Len(Magnitude(m)) = Len(Numeral(m, Radix)) /\ Reverse(Magnitude(m)) = Numeral(m, Radix)
         /\ Magnitude(m) = <<>> => m = 0
<1> DEFINE d == Numeral(m, Radix)
           v == Magnitude(m)
<1>1. Byte = 0 .. Radix - 1 /\ Radix \in Nat /\ Radix >= 2
  BY RadixIs
<1>2. IsNumeral(d, m, Radix)
  BY <1>1, NumeralIs
<1>3. v = Reverse(d)
  BY DEF Magnitude
<1> HIDE DEF d, v
<1>4. d \in Seq(Byte) /\ DigitsValue(d, Radix) = m
  BY <1>1, <1>2 DEF IsNumeral, DigitSeq
<1>5. v \in Seq(Byte) /\ Len(v) = Len(d) /\ Reverse(v) = d
  BY <1>3, <1>4, Reversed, ReversedTwice
<1>6. ValueOf(v) = m
  BY <1>4, <1>5 DEF ValueOf
<1>7. v = <<>> => m = 0
  <2> SUFFICES ASSUME v = <<>> PROVE m = 0
    OBVIOUS
  <2>1. Len(v) = 0
    BY EmptySeq
  <2>2. d = <<>>
    BY <1>4, <1>5, <2>1, EmptyOf
  <2>3. Radix \in Nat \ {0}
    BY <1>1
  <2> QED BY <1>4, <2>2, <2>3, NoDigits
<1> QED BY <1>5, <1>6, <1>7 DEF d, v

\* getvch gives what setvch reads back, for every number (bignum.h).
THEOREM BytesHoldNumber ==
  ASSUME NEW n \in Int
  PROVE  getvch(n) \in Seq(Byte) /\ setvch(getvch(n)) = n
<1> DEFINE m == Abs(n)
           v == Magnitude(m)
           negative == n < 0
<1>1. m \in Nat /\ (n = IF negative THEN -m ELSE m) /\ (m = 0 => n = 0)
  BY DEF Abs
<1>2. negative \in BOOLEAN
  OBVIOUS
<1>3. getvch(n) = Signed(v, negative)
  BY DEF getvch, Bn2Mpi
<1> HIDE DEF m, negative
<1>4. v \in Seq(Byte) /\ ValueOf(v) = m /\ (v = <<>> => m = 0)
  BY <1>1, MagnitudeIs
<1> HIDE DEF v
<1>5. CASE v = <<>>
  <2>1. Signed(v, negative) = <<>> /\ setvch(<<>>) = 0
    BY <1>5 DEF Signed, setvch, Mpi2Bn
  <2>2. n = 0
    BY <1>1, <1>4, <1>5
  <2>3. getvch(n) = <<>>
    BY <1>3, <2>1
  <2>4. setvch(getvch(n)) = n
    BY <2>1, <2>2, <2>3
  <2>5. getvch(n) = v
    BY <1>5, <2>3
  <2> QED BY <1>4, <2>4, <2>5
<1>6. CASE v # <<>>
  BY <1>1, <1>2, <1>3, <1>4, <1>6, SignedBytes
<1> QED BY <1>5, <1>6

\* Digits without the zeroes in front are not more.
LEMMA NumeralIsShortest ==
  ASSUME NEW base \in Nat, base >= 2, NEW s \in DigitSeq(base)
  PROVE  LET d == Numeral(DigitsValue(s, base), base)
         IN Len(d) <= Len(s) /\ (Len(d) = Len(s) => d = s)
<1> DEFINE n == DigitsValue(s, base)
           d == Numeral(n, base)
<1>1. base \in Nat \ {0}
  OBVIOUS
<1>2. PICK k \in Nat, r \in DigitSeq(base) : HasZeroes(s, k, r, base)
  BY <1>1, ZeroesCut
<1>3. Len(s) = k + Len(r) /\ DigitsValue(r, base) = n /\ \A i \in 1 .. Len(r) : s[k + i] = r[i]
  BY <1>1, <1>2, ZeroesBehind
<1>4. n \in Nat
  BY <1>1, ValueIsNat
<1> HIDE DEF n
<1>5. IsNumeral(d, n, base)
  BY <1>4, NumeralIs
<1> HIDE DEF d
<1>6. d = r
  <2>1. d \in DigitSeq(base) /\ NoZeroInFront(d) /\ DigitsValue(d, base) = n /\ NoZeroInFront(r)
    BY <1>2, <1>5 DEF IsNumeral, HasZeroes
  <2> QED BY <1>1, <1>3, <2>1, OneNumeral
<1>7. Len(r) \in Nat /\ Len(s) \in Nat
  BY <1>1, DigitLength
<1>8. ASSUME Len(d) = Len(s) PROVE d = s
  <2>1. k = 0
    BY <1>3, <1>6, <1>7, <1>8
  <2>2. \A i \in 1 .. Len(r) : k + i = i
    BY <1>7, <2>1
  <2>3. \A i \in 1 .. Len(r) : s[i] = r[i]
    BY <1>3, <2>2
  <2>4. r \in Seq(0 .. base - 1) /\ s \in Seq(0 .. base - 1)
    BY DEF DigitSeq
  <2> QED BY <1>6, <1>8, <2>3, <2>4, SeqEqual
<1> QED BY <1>3, <1>6, <1>7, <1>8 DEF d, n

\* The bytes and the sign that setvch finds in them.
LEMMA UnsignedBytes ==
  ASSUME NEW v \in Seq(Byte), v # <<>>
  PROVE  \E u \in Seq(Byte) :
           /\ Len(u) = Len(v) /\ u # <<>> /\ u[Len(u)] < TopBit
           /\ setvch(v) = ValueOf(u) \/ setvch(v) = -ValueOf(u)
<1> DEFINE k == Len(v)
<1>1. TopBit \in Nat \ {0} /\ Radix = 2 * TopBit /\ Byte = 0 .. Radix - 1
  BY HalfOfRadix, RadixIs
<1>2. k \in 1 .. k /\ v[k] \in Byte /\ k \in Nat
  <2>1. 0 \in Byte
    BY RadixIs
  <2> QED BY <2>1, LastReplaced, LenProperties
<1>3. CASE v[k] >= TopBit
  <2> DEFINE b == v[k] - TopBit
             u == [v EXCEPT ![k] = b]
  <2>1. b \in Byte /\ b < TopBit
    BY <1>1, <1>2, <1>3
  <2>2. setvch(v) = -ValueOf(u)
    BY <1>3 DEF setvch, Mpi2Bn
  <2> HIDE DEF b
  <2>3. u \in Seq(Byte) /\ Len(u) = k /\ u # <<>> /\ u[k] = b
    BY <2>1, LastReplaced
  <2> HIDE DEF u
  <2> QED BY <2>1, <2>2, <2>3
<1>4. CASE ~(v[k] >= TopBit)
  <2>1. setvch(v) = ValueOf(v)
    BY <1>4 DEF setvch, Mpi2Bn
  <2>2. v[k] < TopBit
    BY <1>1, <1>2, <1>4
  <2> QED BY <2>1, <2>2
<1> QED BY <1>3, <1>4

\* No bytes that setvch reads as the number are fewer than those of getvch.
THEOREM BytesAreFewest ==
  ASSUME NEW v \in Seq(Byte)
  PROVE  Len(getvch(setvch(v))) <= Len(v)
<1>1. CASE v = <<>>
  <2> DEFINE d == Numeral(0, Radix)
  <2>1. setvch(v) = 0
    BY <1>1 DEF setvch, Mpi2Bn
  <2>2. Radix \in Nat /\ Radix >= 2 /\ Radix \in Nat \ {0}
    BY RadixIs
  <2>3. <<>> \in DigitSeq(Radix) /\ DigitsValue(<<>>, Radix) = 0
    BY <2>2, NoDigits
  <2>4. Len(<<>>) = 0
    BY EmptySeq
  <2>5. d = <<>>
    <3>1. IsNumeral(d, 0, Radix)
      BY <2>2, NumeralIs
    <3>2. NoZeroInFront(<<>>)
      BY DEF NoZeroInFront
    <3> HIDE DEF d
    <3> QED BY <2>2, <2>3, <3>1, <3>2, OneNumeral DEF IsNumeral
  <2>6. Magnitude(0) \in Seq(Byte) /\ Len(Magnitude(0)) = Len(d)
    BY MagnitudeIs
  <2>7. Magnitude(0) = <<>>
    BY <2>4, <2>5, <2>6, EmptyOf
  <2>8. getvch(0) = <<>>
    <3>1. Abs(0) = 0
      BY DEF Abs
    <3> QED BY <2>7, <3>1 DEF getvch, Bn2Mpi, Signed
  <2> QED BY <1>1, <2>1, <2>4, <2>8
<1>2. CASE v # <<>>
  <2>1. PICK u \in Seq(Byte) : /\ Len(u) = Len(v) /\ u # <<>> /\ u[Len(u)] < TopBit
                               /\ setvch(v) = ValueOf(u) \/ setvch(v) = -ValueOf(u)
    BY <1>2, UnsignedBytes
  <2> DEFINE b == Reverse(u)
             m == ValueOf(u)
             n == setvch(v)
             d == Numeral(m, Radix)
             w == Magnitude(m)
             negative == n < 0
  <2>2. Radix \in Nat /\ Radix >= 2 /\ Radix \in Nat \ {0} /\ Byte = 0 .. Radix - 1
    BY RadixIs
  <2>3. b \in DigitSeq(Radix) /\ Len(b) = Len(u) /\ m = DigitsValue(b, Radix) /\ Reverse(b) = u
    BY <2>2, Reversed, ReversedTwice DEF ValueOf, DigitSeq
  <2>4. m \in Nat
    BY <2>2, <2>3, ValueIsNat
  <2>5. Len(d) <= Len(b) /\ (Len(d) = Len(b) => d = b)
    <3> HIDE DEF b, m
    <3> QED BY <2>2, <2>3, NumeralIsShortest
  <2>6. w \in Seq(Byte) /\ Len(w) = Len(d) /\ w = Reverse(d)
    <3> HIDE DEF m
    <3>1. w \in Seq(Byte) /\ Len(w) = Len(d)
      BY <2>4, MagnitudeIs
    <3> QED BY <3>1 DEF Magnitude
  <2>7. getvch(n) = Signed(w, negative) /\ negative \in BOOLEAN
    <3> HIDE DEF m
    <3>1. Abs(n) = m
      BY <2>1, <2>4 DEF Abs, m
    <3>2. getvch(n) = Signed(Magnitude(Abs(n)), n < 0)
      BY DEF getvch, Bn2Mpi
    <3> QED BY <3>1, <3>2
  <2> HIDE DEF b, m, n, d, w, negative
  <2>8. Len(v) \in Nat /\ Len(d) \in Nat
    <3>1. Len(w) \in Nat /\ Len(v) \in Nat
      BY <2>6, LenProperties
    <3> QED BY <2>6, <3>1
  <2>9. CASE w = <<>>
    <3>1. Signed(w, negative) = w
      BY <2>9 DEF Signed
    <3> QED BY <2>1, <2>3, <2>5, <2>6, <2>7, <3>1 DEF n
  <2>10. CASE w # <<>>
    <3>1. Len(getvch(n)) = IF w[Len(w)] >= TopBit THEN Len(w) + 1 ELSE Len(w)
      BY <2>6, <2>7, <2>10, SignedBytes
    <3>2. CASE Len(d) = Len(b)
      <4>1. w = u
        BY <2>3, <2>5, <2>6, <3>2
      <4>2. ~(w[Len(w)] >= TopBit)
        <5>1. TopBit \in Int /\ u[Len(u)] \in Int
          <6>1. 0 \in Byte /\ TopBit \in Int
            BY RadixIs
          <6>2. u[Len(u)] \in Byte
            BY <2>1, <6>1, LastReplaced
          <6> QED BY <2>2, <6>1, <6>2
        <5> QED BY <2>1, <4>1, <5>1
      <4> QED BY <2>1, <2>3, <2>6, <2>8, <3>1, <3>2, <4>2 DEF n
    <3>3. CASE Len(d) # Len(b)
      <4>1. Len(d) + 1 <= Len(v)
        BY <2>1, <2>3, <2>5, <2>8, <3>3
      <4> QED BY <2>6, <2>8, <3>1, <4>1 DEF n
    <3> QED BY <3>2, <3>3
  <2> QED BY <2>9, <2>10
<1> QED BY <1>1, <1>2

\* Bytes of any number, those that start with zeroes too, are read from their
\* text in base 58 between any spaces (EncodeBase58 and DecodeBase58, base58.h).
THEOREM TextHoldsBytes ==
  ASSUME NEW bytes \in Seq(Byte), NEW text \in Seq(Int), NEW j, Between(EncodeBase58(bytes), text, j)
  PROVE  DecodeBase58(text) = Decoded(TRUE, bytes)
<1> DEFINE d == Converted(bytes, Radix, Base)
<1>1. /\ Radix \in Nat /\ Radix >= 2 /\ Base \in Nat /\ Base >= 2 /\ bytes \in DigitSeq(Radix)
  BY RadixIs DEF DigitSeq
<1>2. EncodeBase58(bytes) = d
  BY EncodeIs
<1>3. d \in DigitSeq(Base) /\ Converted(d, Base, Radix) = bytes
  BY <1>1, ConvertedBack
<1> HIDE DEF d
<1>4. DecodeBase58(text) = Decoded(TRUE, Converted(d, Base, Radix))
  BY <1>2, <1>3, DecodeOf
<1> QED BY <1>3, <1>4

\* A text that DecodeBase58 accepts is, but for the spaces around it, the text of
\* the bytes it gives: no two texts are the same bytes.
THEOREM BytesHoldText ==
  ASSUME NEW text \in Seq(Int), DecodeBase58(text).ret
  PROVE  BetweenSpaces(EncodeBase58(DecodeBase58(text).bytes), text)
<1>1. DecodeBase58(text) # Decoded(FALSE, <<>>)
  <2> SUFFICES ASSUME DecodeBase58(text) = Decoded(FALSE, <<>>) PROVE FALSE
    OBVIOUS
  <2>1. ~Decoded(FALSE, <<>>).ret
    BY DecodedFields
  <2> QED BY <2>1
<1>2. PICK d \in DigitSeq(Base), j \in Nat : Between(d, text, j)
  BY <1>1, DecodeFrom
<1>3. DecodeBase58(text) = Decoded(TRUE, Converted(d, Base, Radix))
  BY <1>2, DecodeOf
<1> DEFINE b == Converted(d, Base, Radix)
<1>4. Radix \in Nat /\ Radix >= 2 /\ Base \in Nat /\ Base >= 2 /\ Byte = 0 .. Radix - 1
  BY RadixIs
<1>5. b \in DigitSeq(Radix) /\ Converted(b, Radix, Base) = d
  BY <1>4, ConvertedBack
<1> HIDE DEF b
<1>6. DecodeBase58(text).bytes = b
  BY <1>3, DecodedFields DEF b
<1>7. EncodeBase58(b) = d
  BY <1>4, <1>5, EncodeIs DEF DigitSeq
<1> QED BY <1>2, <1>6, <1>7, BetweenIs

\* Nothing is skipped in front of what is no space.
LEMMA NoSpaceSkipped ==
  ASSUME NEW t \in Seq(Int), t # <<>>, t[1] # Space
  PROVE  SkipSpaces(t) = t
<1>1. Len(t) \in Nat /\ Len(t) # 0
  BY LenProperties, EmptyOf
<1>2. LeadsFor(t, {Space}, 0)
  BY <1>1 DEF LeadsFor
<1>3. SkipSpaces(t) = SubSeq(t, 0 + 1, Len(t))
  BY <1>2, SkipFor
<1>4. SubSeq(t, 1, Len(t)) = t
  <2> DEFINE u == SubSeq(t, 0 + 1, Len(t))
  <2>1. u \in Seq(Int) /\ Len(u) = Len(t) - 0 /\ \A i \in 1 .. Len(t) - 0 : u[i] = t[0 + i]
    <3>1. 0 \in 0 .. Len(t) /\ Len(t) \in 0 .. Len(t)
      BY <1>1
    <3> QED BY <3>1, PartIs
  <2>2. u = SubSeq(t, 1, Len(t))
    OBVIOUS
  <2> HIDE DEF u
  <2>3. Len(u) = Len(t) /\ \A i \in 1 .. Len(t) : u[i] = t[i]
    <3>1. Len(t) - 0 = Len(t) /\ \A i \in 1 .. Len(t) : 0 + i = i
      BY <1>1
    <3> QED BY <2>1, <3>1
  <2>4. u = t
    BY <2>1, <2>3, SeqEqual
  <2> QED BY <2>2, <2>4
<1> QED BY <1>3, <1>4

\* Digits are read as they are.
LEMMA DigitsRead ==
  ASSUME NEW d \in DigitSeq(Digit), d # <<>>, d[1] # 0 \/ Len(d) < 2
  PROVE  d \in Seq(Int) /\ SkipSpaces(d) = d /\ SkipSpaces(Skip0x(d)) = d /\ DigitsOf(d) = d /\ d[1] # Minus
<1> DEFINE D == 0 .. Digit - 1
<1>1. Digit \in Nat /\ Digit >= 2 /\ d \in Seq(D) /\ D \subseteq Int
  BY BigNumAssumption DEF DigitSeq
<1>2. \A i \in 1 .. Len(d) : d[i] \in D
  BY <1>1, ElementOfSeq
<1>3. Len(d) \in Nat /\ Len(d) # 0 /\ DOMAIN d = 1 .. Len(d)
  BY <1>1, LenProperties, EmptyOf
<1>4. \A i \in 1 .. Len(d) : d[i] \in Int /\ d[i] >= 0
  BY <1>1, <1>2
<1> HIDE DEF D
<1>5. d \in Seq(Int)
  BY <1>1, SeqMonotonic
<1>6. 1 \in 1 .. Len(d)
  BY <1>3
<1>7. d[1] # Space /\ d[1] # Minus
  BY <1>4, <1>6 DEF Space, Minus
<1>8. SkipSpaces(d) = d
  BY <1>5, <1>7, NoSpaceSkipped
<1>9. Skip0x(d) = d
  <2>1. ~(Len(d) >= 2 /\ d[1] = 0)
    BY <1>3
  <2> QED BY <2>1 DEF Skip0x
<1>10. DigitsOf(d) = d
  <2>1. {i \in DOMAIN d : d[i] < 0} = {}
    BY <1>3, <1>4
  <2> QED BY <2>1 DEF DigitsOf
<1> QED BY <1>5, <1>7, <1>8, <1>9, <1>10

\* The text of a number in hexadecimal digits is read as the number, its sign
\* included (GetHex and SetHex of CBigNum, bignum.h).
THEOREM TextHoldsNumber ==
  ASSUME NEW n \in Int
  PROVE  SetHex(InBase(n, Digit)) = n
<1> DEFINE m == Abs(n)
           d == Numeral(m, Digit)
           t == InBase(n, Digit)
<1>1. Digit \in Nat /\ Digit >= 2 /\ Digit \in Nat \ {0}
  BY BigNumAssumption
<1>2. CASE n = 0
  <2> DEFINE z == <<0>>
  <2>1. t = z
    BY <1>2 DEF InBase
  <2>2. z \in DigitSeq(Digit) /\ z # <<>> /\ Len(z) < 2
    BY <1>1 DEF DigitSeq
  <2>3. DigitsValue(z, Digit) = 0
    <3>1. <<>> \in DigitSeq(Digit) /\ DigitsValue(<<>>, Digit) = 0 /\ 0 \in 0 .. Digit - 1
      BY <1>1, NoDigits
    <3>2. DigitsValue(<<>> \o <<0>>, Digit) = Digit * 0 + 0
      BY <1>1, <3>1, ValueOfMore
    <3>3. <<>> \o <<0>> = z
      OBVIOUS
    <3>4. Digit * 0 + 0 = 0
      BY <1>1
    <3> QED BY <3>2, <3>3, <3>4
  <2> HIDE DEF z
  <2>4. SkipSpaces(z) = z /\ SkipSpaces(Skip0x(z)) = z /\ DigitsOf(z) = z /\ z[1] # Minus
    BY <2>2, DigitsRead
  <2>5. SetHex(z) = 0
    BY <2>3, <2>4 DEF SetHex
  <2> QED BY <1>2, <2>1, <2>5
<1>3. CASE n # 0
  <2>1. m \in Nat /\ m # 0 /\ (n < 0 => n = -m) /\ (~(n < 0) => n = m)
    BY <1>3 DEF Abs
  <2>2. t = (IF n < 0 THEN <<Minus>> ELSE <<>>) \o d
    BY <1>3 DEF InBase
  <2> HIDE DEF m, t
  <2>3. IsNumeral(d, m, Digit)
    BY <1>1, <2>1, NumeralIs
  <2> HIDE DEF d
  <2>4. d \in DigitSeq(Digit) /\ DigitsValue(d, Digit) = m
    BY <2>3 DEF IsNumeral
  <2>5. d # <<>>
    BY <1>1, <2>1, <2>4, NoDigits
  <2>6. d[1] # 0
    BY <2>3, <2>5 DEF IsNumeral, NoZeroInFront
  <2>7. d \in Seq(Int) /\ SkipSpaces(d) = d /\ SkipSpaces(Skip0x(d)) = d /\ DigitsOf(d) = d /\ d[1] # Minus
    BY <2>4, <2>5, <2>6, DigitsRead
  <2>8. CASE ~(n < 0)
    <3>1. t = d
      BY <2>2, <2>7, <2>8, ConcatEmptySeq
    <3>2. SetHex(d) = m
      BY <2>4, <2>7 DEF SetHex
    <3> QED BY <2>1, <2>8, <3>1, <3>2 DEF t
  <2>9. CASE n < 0
    <3> DEFINE a == <<Minus>>
    <3>1. a \in Seq(Int) /\ Len(a) = 1 /\ a[1] = Minus
      BY DEF Minus
    <3>2. t = a \o d
      BY <2>2, <2>9
    <3> HIDE DEF a
    <3>3. /\ t \in Seq(Int) /\ Len(t) = 1 + Len(d) /\ Len(d) \in Nat
          /\ \A i \in 1 .. 1 + Len(d) : t[i] = IF i <= 1 THEN a[i] ELSE d[i - 1]
      <4>1. t \in Seq(Int) /\ Len(t) = Len(a) + Len(d)
            /\ \A i \in 1 .. Len(a) + Len(d) : t[i] = IF i <= Len(a) THEN a[i] ELSE d[i - Len(a)]
        BY <2>7, <3>1, <3>2, ConcatProperties
      <4>2. Len(d) \in Nat
        BY <2>7, LenProperties
      <4> QED BY <3>1, <4>1, <4>2
    <3>4. t # <<>> /\ t[1] = Minus
      <4>1. Len(<<>>) = 0 /\ 1 + Len(d) # 0 /\ 1 \in 1 .. 1 + Len(d)
        BY <3>3, EmptySeq
      <4> QED BY <3>1, <3>3, <4>1
    <3>5. SkipSpaces(t) = t
      <4>1. Minus # Space
        BY DEF Minus, Space
      <4> QED BY <3>3, <3>4, <4>1, NoSpaceSkipped
    <3>6. Tail(t) = d
      <4> DEFINE u == Tail(t)
      <4>1. u \in Seq(Int) /\ Len(u) = Len(t) - 1 /\ \A i \in 1 .. Len(u) : u[i] = t[i + 1]
        BY <3>3, <3>4, HeadTailProperties
      <4> HIDE DEF u
      <4>2. Len(u) = Len(d)
        BY <3>3, <4>1
      <4>3. ASSUME NEW i \in 1 .. Len(u) PROVE u[i] = d[i]
        <5>1. i + 1 \in 1 .. 1 + Len(d) /\ ~(i + 1 <= 1) /\ (i + 1) - 1 = i
          BY <3>3, <4>2
        <5> QED BY <3>3, <4>1, <5>1
      <4>4. u = d
        BY <2>7, <4>1, <4>2, <4>3, SeqEqual
      <4> QED BY <4>4 DEF u
    <3>7. SetHex(t) = -m
      BY <2>4, <2>7, <3>4, <3>5, <3>6 DEF SetHex
    <3> QED BY <2>1, <2>9, <3>7 DEF t
  <2> QED BY <2>8, <2>9
<1> QED BY <1>2, <1>3

-----------------------------------------------------------------------------
(***************************************************************************)
(* The order of objects, and their text.                                   *)
(***************************************************************************)
LEMMA PrefixIs ==
  ASSUME NEW v \in Seq(Byte), NEW w \in Seq(Byte)
  PROVE  IsPrefix(v, w) <=> Len(v) <= Len(w) /\ \A i \in 1 .. Len(v) : v[i] = w[i]
<1> DEFINE n == Len(v)
           u == SubSeq(w, 0 + 1, n)
<1>1. n \in Nat /\ Len(w) \in Nat
  BY LenProperties
<1>2. SubSeq(v, 1, n) = v
  BY SubSeqFull
<1>3. u = SubSeq(w, 1, n)
  OBVIOUS
<1>4. CASE n <= Len(w)
  <2>1. 0 \in 0 .. Len(w) /\ n \in 0 .. Len(w)
    BY <1>1, <1>4
  <2>2. u \in Seq(Byte) /\ Len(u) = n - 0 /\ \A i \in 1 .. n - 0 : u[i] = w[0 + i]
    <3> HIDE DEF n
    <3> QED BY <2>1, PartIs
  <2> HIDE DEF u
  <2>3. Len(u) = n
    BY <1>1, <2>2
  <2>4. \A i \in 1 .. n : u[i] = w[i]
    <3> TAKE i \in 1 .. n
    <3>1. i \in 1 .. n - 0 /\ 0 + i = i
      BY <1>1
    <3> QED BY <2>2, <3>1
  <2>5. v = u <=> \A i \in 1 .. n : v[i] = w[i]
    <3>1. ASSUME \A i \in 1 .. n : v[i] = w[i] PROVE v = u
      BY <2>2, <2>3, <2>4, <3>1, SeqEqual
    <3> QED BY <2>4, <3>1
  <2> QED BY <1>2, <1>3, <1>4, <2>5 DEF IsPrefix
<1>5. CASE ~(n <= Len(w))
  BY <1>5 DEF IsPrefix
<1> QED BY <1>4, <1>5

\* Which of two sequences comes first, without the words of the library.
Before(v, w) ==
  \/ Len(v) < Len(w) /\ \A i \in 1 .. Len(v) : v[i] = w[i]
  \/ \E i \in 1 .. Len(v) : i <= Len(w) /\ v[i] < w[i] /\ \A j \in 1 .. i - 1 : v[j] = w[j]

LEMMA PrecedeIs ==
  ASSUME NEW v \in Seq(Byte), NEW w \in Seq(Byte)
  PROVE  Precede(v, w) <=> Before(v, w)
<1>1. Len(v) \in Nat /\ Len(w) \in Nat /\ DOMAIN v = 1 .. Len(v) /\ DOMAIN w = 1 .. Len(w)
  BY LenProperties
<1>2. IsPrefix(v, w) <=> Len(v) <= Len(w) /\ \A i \in 1 .. Len(v) : v[i] = w[i]
  BY PrefixIs
<1>3. \A i : i \in DOMAIN v \cap DOMAIN w <=> i \in 1 .. Len(v) /\ i <= Len(w)
  BY <1>1
<1>4. Len(v) < Len(w) /\ IsPrefix(v, w) <=> Len(v) < Len(w) /\ \A i \in 1 .. Len(v) : v[i] = w[i]
  BY <1>1, <1>2
<1> QED BY <1>3, <1>4 DEF Precede, Before

LEMMA ByteAt ==
  ASSUME NEW v \in Seq(Byte), NEW i \in 1 .. Len(v)
  PROVE  v[i] \in Int
<1>1. v[i] \in Byte
  BY ElementOfSeq
<1> QED BY <1>1, RadixIs

LEMMA NotBothBefore ==
  ASSUME NEW v \in Seq(Byte), NEW w \in Seq(Byte), Before(v, w), Before(w, v)
  PROVE  FALSE
<1>1. Len(v) \in Nat /\ Len(w) \in Nat
  BY LenProperties
<1>2. ASSUME NEW a \in Seq(Byte), NEW b \in Seq(Byte), Len(a) < Len(b), \A i \in 1 .. Len(a) : a[i] = b[i], Before(b, a)
      PROVE  FALSE
  <2>1. Len(a) \in Nat /\ Len(b) \in Nat
    BY LenProperties
  <2>2. PICK i \in 1 .. Len(b) : i <= Len(a) /\ b[i] < a[i]
    BY <1>2, <2>1 DEF Before
  <2>3. i \in 1 .. Len(a)
    BY <2>1, <2>2
  <2> QED BY <1>2, <2>2, <2>3, ByteAt
<1>3. CASE Len(v) < Len(w) /\ \A i \in 1 .. Len(v) : v[i] = w[i]
  BY <1>2, <1>3
<1>4. CASE Len(w) < Len(v) /\ \A i \in 1 .. Len(w) : w[i] = v[i]
  BY <1>2, <1>4
<1>5. ASSUME NEW i \in 1 .. Len(v), i <= Len(w), v[i] < w[i], \A k \in 1 .. i - 1 : v[k] = w[k],
             NEW j \in 1 .. Len(w), j <= Len(v), w[j] < v[j], \A k \in 1 .. j - 1 : w[k] = v[k]
      PROVE  FALSE
  <2>1. i \in 1 .. Len(w) /\ j \in 1 .. Len(v)
    BY <1>1, <1>5
  <2>2. v[i] \in Int /\ w[i] \in Int /\ v[j] \in Int /\ w[j] \in Int
    BY <2>1, ByteAt
  <2>3. CASE i < j
    <3>1. i \in 1 .. j - 1
      BY <1>1, <2>3
    <3> QED BY <1>5, <2>2, <3>1
  <2>4. CASE j < i
    <3>1. j \in 1 .. i - 1
      BY <1>1, <2>4
    <3> QED BY <1>5, <2>2, <3>1
  <2>5. CASE i = j
    BY <1>5, <2>2, <2>5
  <2> QED BY <1>1, <2>3, <2>4, <2>5
<1> QED BY <1>3, <1>4, <1>5 DEF Before

LEMMA OneIsBefore ==
  ASSUME NEW v \in Seq(Byte), NEW w \in Seq(Byte), ~Before(v, w), ~Before(w, v)
  PROVE  v = w
<1> DEFINE T == {i \in Nat : i >= 1 /\ i <= Len(v) /\ i <= Len(w) /\ v[i] # w[i]}
<1>1. Len(v) \in Nat /\ Len(w) \in Nat
  BY LenProperties
<1>2. CASE T = {}
  <2>1. \A i \in 1 .. Len(v) : i <= Len(w) => v[i] = w[i]
    BY <1>1, <1>2
  <2>2. CASE Len(v) < Len(w)
    <3>1. \A i \in 1 .. Len(v) : v[i] = w[i]
      BY <1>1, <2>1, <2>2
    <3> QED BY <2>2, <3>1 DEF Before
  <2>3. CASE Len(w) < Len(v)
    <3>1. \A i \in 1 .. Len(w) : w[i] = v[i]
      BY <1>1, <2>1, <2>3
    <3> QED BY <2>3, <3>1 DEF Before
  <2>4. CASE Len(w) = Len(v)
    <3>1. \A i \in 1 .. Len(v) : v[i] = w[i]
      BY <1>1, <2>1, <2>4
    <3> QED BY <2>4, <3>1, SeqEqual
  <2> QED BY <1>1, <2>2, <2>3, <2>4
<1>3. CASE T # {}
  <2>1. PICK x \in T : \A y \in T : x <= y
    <3>1. T \in SUBSET Nat
      OBVIOUS
    <3> HIDE DEF T
    <3> QED BY <1>3, <3>1, LeastOf
  <2>2. x \in 1 .. Len(v) /\ x \in 1 .. Len(w) /\ v[x] # w[x] /\ x <= Len(v) /\ x <= Len(w)
    BY <1>1, <2>1
  <2>3. ASSUME NEW j \in 1 .. x - 1 PROVE v[j] = w[j]
    <3>1. j \in Nat /\ j >= 1 /\ j <= Len(v) /\ j <= Len(w) /\ ~(x <= j)
      BY <1>1, <2>2
    <3>2. j \notin T
      BY <2>1, <3>1
    <3> QED BY <3>1, <3>2
  <2>4. v[x] \in Int /\ w[x] \in Int
    BY <2>2, ByteAt
  <2>5. v[x] < w[x] \/ w[x] < v[x]
    BY <2>2, <2>4
  <2>6. CASE v[x] < w[x]
    <3>1. Before(v, w)
      BY <2>2, <2>3, <2>6 DEF Before
    <3> QED BY <3>1
  <2>7. CASE w[x] < v[x]
    <3>1. \A j \in 1 .. x - 1 : w[j] = v[j]
      BY <2>3
    <3>2. Before(w, v)
      BY <2>2, <2>7, <3>1 DEF Before
    <3> QED BY <3>2
  <2> QED BY <2>5, <2>6, <2>7
<1> QED BY <1>2, <1>3

\* The order of two objects is one, and they are equal in it if they are equal.
LEMMA CompareIs ==
  ASSUME NEW v1 \in Seq(Byte), NEW d1 \in Seq(Byte), NEW v2 \in Seq(Byte), NEW d2 \in Seq(Byte)
  PROVE  LET a == Base58Data(v1, d1)
             b == Base58Data(v2, d2)
         IN CompareTo(a, b) = -CompareTo(b, a) /\ (CompareTo(a, b) = 0 <=> v1 = v2 /\ d1 = d2)
<1> DEFINE a == Base58Data(v1, d1)
           b == Base58Data(v2, d2)
           vw == Precede(v1, v2)
           wv == Precede(v2, v1)
           de == Precede(d1, d2)
           ed == Precede(d2, d1)
<1>1. CompareTo(a, b) = IF vw THEN -1 ELSE IF wv THEN 1 ELSE IF de THEN -1 ELSE IF ed THEN 1 ELSE 0
  <2>1. a.vchVersion = v1 /\ a.vchData = d1 /\ b.vchVersion = v2 /\ b.vchData = d2
    BY DataFields
  <2> HIDE DEF a, b
  <2> QED BY <2>1 DEF CompareTo
<1>2. CompareTo(b, a) = IF wv THEN -1 ELSE IF vw THEN 1 ELSE IF ed THEN -1 ELSE IF de THEN 1 ELSE 0
  <2>1. a.vchVersion = v1 /\ a.vchData = d1 /\ b.vchVersion = v2 /\ b.vchData = d2
    BY DataFields
  <2> HIDE DEF a, b
  <2> QED BY <2>1 DEF CompareTo
<1>3. ~(vw /\ wv) /\ ~(de /\ ed)
  BY PrecedeIs, NotBothBefore
<1>4. (~vw /\ ~wv => v1 = v2) /\ (~de /\ ~ed => d1 = d2)
  BY PrecedeIs, OneIsBefore
<1>5. (v1 = v2 => ~vw /\ ~wv) /\ (d1 = d2 => ~de /\ ~ed)
  BY <1>3
<1> HIDE DEF a, b, vw, wv, de, ed
<1>6. CompareTo(a, b) = -CompareTo(b, a)
  BY <1>1, <1>2, <1>3
<1>7. CompareTo(a, b) = 0 <=> ~vw /\ ~wv /\ ~de /\ ~ed
  BY <1>1
<1> QED BY <1>4, <1>5, <1>6, <1>7 DEF a, b

LEMMA TextFits ==
  ASSUME ChecksumFits, NEW v \in Seq(Byte), NEW w \in Seq(Byte)
  PROVE  ToText(Base58Data(v, w)) \in DigitSeq(Base)
<1>1. v \o w \in Seq(Byte)
  BY ConcatProperties
<1>2. ToText(Base58Data(v, w)) = EncodeBase58Check(v \o w)
  BY DataFields DEF ToText
<1> QED BY <1>1, <1>2, EncodeCheckIs

\* A text is between no spaces.
LEMMA AloneBetween ==
  ASSUME NEW t \in DigitSeq(Base)
  PROVE  t \in Seq(Int) /\ Between(t, t, 0)
<1> DEFINE D == 0 .. Base - 1
<1>1. t \in Seq(D) /\ D \subseteq Int
  BY DEF DigitSeq
<1> HIDE DEF D
<1>2. t \in Seq(Int) /\ Len(t) \in Nat
  BY <1>1, SeqMonotonic, LenProperties
<1>3. \A i \in 1 .. Len(t) : 0 + i = i /\ ~(i <= 0) /\ ~(i > 0 + Len(t))
  BY <1>2
<1>4. 0 + Len(t) <= Len(t)
  BY <1>2
<1> QED BY <1>2, <1>3, <1>4 DEF Between

\* Objects whose versions are as long have the same text only if they are the same.
LEMMA TextTells ==
  ASSUME ChecksumFits, NEW v1 \in Seq(Byte), NEW d1 \in Seq(Byte), NEW v2 \in Seq(Byte), NEW d2 \in Seq(Byte),
         Len(v1) = Len(v2), ToText(Base58Data(v1, d1)) = ToText(Base58Data(v2, d2))
  PROVE  v1 = v2 /\ d1 = d2
<1> DEFINE a == Base58Data(v1, d1)
           b == Base58Data(v2, d2)
           t == ToText(a)
<1>1. t \in DigitSeq(Base)
  BY TextFits
<1> HIDE DEF t
<1>2. t \in Seq(Int) /\ Between(t, t, 0)
  BY <1>1, AloneBetween
<1>3. SetString(NoData, t, Len(v1)).data = a
  <2>1. Between(ToText(Base58Data(v1, d1)), t, 0)
    BY <1>2 DEF t
  <2> QED BY <1>2, <2>1, ReadsItself
<1>4. SetString(NoData, t, Len(v2)).data = b
  <2>1. Between(ToText(Base58Data(v2, d2)), t, 0)
    BY <1>2 DEF t
  <2> QED BY <1>2, <2>1, ReadsItself
<1>5. a = b
  BY <1>3, <1>4
<1> QED BY <1>5, DataFields

-----------------------------------------------------------------------------
(***************************************************************************)
(* What an object of a class was last told.                                *)
(***************************************************************************)
\* The version bytes that the parameters of a network have for a type.
Version(n, t) == Base58Prefix(SelectParams(n), t)

LEMMA VersionIs ==
  ASSUME NEW n \in Networks, NEW t \in Base58Types
  PROVE  Version(n, t) = NetPrefix(IF n = "main" THEN "main" ELSE "test", t)
<1>1. MainParams.base58Prefixes[t] = NetPrefix("main", t)
  BY DEF MainParams
<1>2. TestNetParams.base58Prefixes[t] = NetPrefix("test", t)
  BY DEF TestNetParams, MainParams
<1>3. RegTestParams.base58Prefixes[t] = NetPrefix("test", t)
  BY DEF RegTestParams, TestNetParams, MainParams
<1>4. CASE n = "main"
  BY <1>1, <1>4 DEF Version, SelectParams, Base58Prefix
<1>5. CASE n = "test"
  BY <1>2, <1>5 DEF Version, SelectParams, Base58Prefix
<1>6. CASE n = "regtest"
  BY <1>3, <1>6 DEF Version, SelectParams, Base58Prefix
<1> QED BY <1>4, <1>5, <1>6 DEF Networks

LEMMA VersionsFit ==
  ASSUME NEW m \in Networks, NEW n \in Networks
  PROVE  /\ \A t \in Base58Types : Version(n, t) \in Seq(Byte)
         /\ \A t \in Base58Types \ Extended : Len(Version(n, t)) = 1
         /\ Version(m, "PUBKEY_ADDRESS") # Version(n, "SCRIPT_ADDRESS")
         /\ \A t \in Extended : Len(Version(m, t)) = Len(Version(n, t)) /\ Version(n, t) # <<>>
<1>1. Extended \subseteq Base58Types /\ {"PUBKEY_ADDRESS", "SCRIPT_ADDRESS"} \subseteq Base58Types
  BY DEF Extended, Base58Types
<1> DEFINE a == IF m = "main" THEN "main" ELSE "test"
           b == IF n = "main" THEN "main" ELSE "test"
<1>2. a \in Networks /\ b \in Networks
  BY DEF Networks
<1>3. \A t \in Base58Types : Version(m, t) = NetPrefix(a, t) /\ Version(n, t) = NetPrefix(b, t)
  BY VersionIs
<1> HIDE DEF a, b
<1>4. \A t \in Base58Types : Version(n, t) \in Seq(Byte)
  BY <1>2, <1>3, AddressAssumption
<1>5. \A t \in Base58Types \ Extended : Len(Version(n, t)) = 1
  BY <1>2, <1>3, AddressAssumption
<1>6. Version(m, "PUBKEY_ADDRESS") # Version(n, "SCRIPT_ADDRESS")
  BY <1>1, <1>2, <1>3, AddressAssumption
<1>7. \A t \in Extended : Len(Version(m, t)) = Len(Version(n, t)) /\ Version(n, t) # <<>>
  BY <1>1, <1>2, <1>3, AddressAssumption
<1> QED BY <1>4, <1>5, <1>6, <1>7

\* What an object has that was last told a value: the value, behind the
\* version of the network that was selected then.
TypeOfKind(kind) == IF kind = "key" THEN "PUBKEY_ADDRESS" ELSE "SCRIPT_ADDRESS"
MarkOf(mark) == IF mark = "compressed" THEN <<1>> ELSE <<>>
AddressTold ==
  /\ last.mark \in {"key", "script"} /\ last.value \in Ids
  /\ data = Base58Data(Version(last.network, TypeOfKind(last.mark)), last.value)
SecretTold ==
  /\ last.value \in SecretBytesSet /\ SecretOf(last.value)
  /\ data = Base58Data(Version(last.network, "SECRET_KEY"), last.value \o MarkOf(last.mark))
ExtendedTold == last.value \in ExtKeys /\ data = Base58Data(Version(last.network, class), last.value)

ValueTold ==
  /\ last.network \in Networks
  /\ class = "address" => AddressTold
  /\ class = "secret" => SecretTold
  /\ class \in Extended => ExtendedTold

\* The inductive invariant: what the object has is what it was last told.
AddrInv ==
  /\ class \in Classes \union {"none"}
  /\ class = "none" => last.by = "nothing"
  /\ last.by = "value" => ValueTold
  /\ last.by = "text" => last.value \in Texts /\ data = SetString(NoData, last.value, 1).data

LEMMA ToldFields ==
  ASSUME NEW by, NEW value, NEW mark
  PROVE  /\ Told(by, value, mark).by = by /\ Told(by, value, mark).network = network
         /\ Told(by, value, mark).value = value /\ Told(by, value, mark).mark = mark
BY DEF Told

LEMMA ClassesDiffer ==
  /\ "address" \notin Extended /\ "secret" \notin Extended /\ "none" \notin Extended
  /\ Classes \union {"none"} = {"address", "secret", "none"} \union Extended
  /\ Extended \subseteq Base58Types /\ "SECRET_KEY" \in Base58Types \ Extended
  /\ \A kind : TypeOfKind(kind) \in Base58Types \ Extended
BY DEF Extended, Classes, Base58Types, TypeOfKind

LEMMA ReadAlike ==
  ASSUME NEW old, NEW other, NEW text, NEW n
  PROVE  /\ SetString(old, text, n) = SetString(other, text, n)
         /\ SetSecretString(Params, old, text).data = SetString(old, text, 1).data
<1>1. SetString(old, text, n) = SetString(other, text, n)
  BY DEF SetString
<1>2. SetSecretString(Params, old, text).data = SetString(old, text, 1).data
  <2> DEFINE set == SetString(old, text, 1)
  <2>1. set = [ret |-> set.ret, data |-> set.data]
    BY DEF SetString
  <2>2. SetSecretString(Params, old, text) = [set EXCEPT !.ret = set.ret /\ IsValidSecret(Params, set.data)]
    BY DEF SetSecretString
  <2> HIDE DEF set
  <2>3. SetSecretString(Params, old, text).data = set.data
    BY <2>1, <2>2
  <2> QED BY <2>3 DEF set
<1> QED BY <1>1, <1>2

LEMMA AddrInitially == AddrInit => AddrInv
<1> SUFFICES ASSUME AddrInit PROVE AddrInv
  OBVIOUS
<1>1. class = "none" /\ last.by = "nothing"
  BY DEF AddrInit, NotTold
<1> QED BY <1>1 DEF AddrInv

LEMMA CreateKeeps ==
  ASSUME NEW c \in Classes, Create(c)
  PROVE  AddrInv'
<1>1. class' = c /\ last'.by = "nothing" /\ c # "none"
  BY ClassesDiffer DEF Create, NotTold, Classes
<1> QED BY <1>1 DEF AddrInv

LEMMA DestinationKeeps ==
  ASSUME AddrInv, network \in Networks, NEW dest \in Destinations \union {CNoDestination}, SetDestination(dest)
  PROVE  AddrInv'
<1>1. class' = class /\ network' = network /\ class = "address" /\ class \notin Extended /\ class # "secret"
  BY ClassesDiffer DEF SetDestination
<1>2. CASE dest = CNoDestination
  <2>1. data' = data /\ last' = last
    BY <1>2 DEF SetDestination, SetAddress, CNoDestination, Destination
  <2> QED BY <1>1, <2>1 DEF AddrInv, ValueTold, AddressTold, SecretTold, ExtendedTold
<1>3. CASE dest # CNoDestination
  <2>1. dest.kind \in {"key", "script"} /\ dest.id \in Ids
    BY <1>3 DEF Destinations
  <2>2. last' = Told("value", dest.id, dest.kind) /\ data' = SetAddress(Params, data, dest)
    BY <1>3 DEF SetDestination
  <2>3. data' = Base58Data(Version(network, TypeOfKind(dest.kind)), dest.id)
    BY <2>1, <2>2 DEF SetAddress, Version, Params, TypeOfKind
  <2>4. last'.by = "value" /\ last'.network = network /\ last'.value = dest.id /\ last'.mark = dest.kind
    BY <2>2, ToldFields
  <2>5. AddressTold'
    BY <2>1, <2>3, <2>4 DEF AddressTold
  <2> QED BY <1>1, <2>4, <2>5 DEF AddrInv, ValueTold
<1> QED BY <1>2, <1>3

LEMMA SecretKeeps ==
  ASSUME AddrInv, network \in Networks, NEW key \in Keys, SetSecretKey(key)
  PROVE  AddrInv'
<1>1. class' = class /\ network' = network /\ class = "secret" /\ class \notin Extended /\ class # "address"
  BY ClassesDiffer DEF SetSecretKey
<1>2. key.vch \in SecretBytesSet /\ SecretOf(key.vch)
  BY DEF Keys
<1> DEFINE mark == IF key.fCompressed THEN "compressed" ELSE ""
<1>3. last' = Told("value", key.vch, mark) /\ data' = SecretData(Params, key)
  BY DEF SetSecretKey
<1>4. MarkOf(mark) = IF key.fCompressed THEN <<1>> ELSE <<>>
  BY DEF MarkOf
<1>5. data' = Base58Data(Version(network, "SECRET_KEY"), key.vch \o MarkOf(mark))
  BY <1>3, <1>4 DEF SecretData, Version, Params
<1> HIDE DEF mark
<1>6. last'.by = "value" /\ last'.network = network /\ last'.value = key.vch /\ last'.mark = mark
  BY <1>3, ToldFields
<1>7. SecretTold'
  BY <1>2, <1>5, <1>6 DEF SecretTold
<1> QED BY <1>1, <1>6, <1>7 DEF AddrInv, ValueTold

LEMMA ExtKeyKeeps ==
  ASSUME AddrInv, network \in Networks, NEW bytes \in ExtKeys, SetExtKey(bytes)
  PROVE  AddrInv'
<1>1. class' = class /\ network' = network /\ class \in Extended /\ class # "secret" /\ class # "address" /\ class # "none"
  BY ClassesDiffer DEF SetExtKey
<1> DEFINE mark == ""
<1>2. last' = Told("value", bytes, mark) /\ data' = Base58Data(Version(network, class), bytes)
  BY DEF SetExtKey, ExtData, Version, Params
<1> HIDE DEF mark
<1>3. last'.by = "value" /\ last'.network = network /\ last'.value = bytes
  BY <1>2, ToldFields
<1>4. ExtendedTold'
  BY <1>1, <1>2, <1>3 DEF ExtendedTold
<1> QED BY <1>1, <1>3, <1>4 DEF AddrInv, ValueTold

LEMMA ReadTextKeeps ==
  ASSUME AddrInv, NEW text \in Texts, ReadText(text)
  PROVE  AddrInv'
<1> DEFINE set == IF class = "secret" THEN SetSecretString(Params, data, text) ELSE SetString(data, text, 1)
           answer == IF set.ret THEN "read" ELSE "refused"
<1>1. class' = class /\ class # "none" /\ data' = set.data /\ last' = Told("text", text, answer)
  BY DEF ReadText
<1>2. set.data = SetString(NoData, text, 1).data
  BY ReadAlike
<1> HIDE DEF set, answer
<1>3. last'.by = "text" /\ last'.value = text
  BY <1>1, ToldFields
<1> QED BY <1>1, <1>2, <1>3 DEF AddrInv

LEMMA ValuesFit ==
  /\ \A id \in Ids : id \in Seq(Byte) /\ Len(id) = IdBytes
  /\ \A vch \in SecretBytesSet : vch \in Seq(Byte) /\ Len(vch) = SecretBytes
  /\ \A key \in ExtKeys : key \in Seq(Byte)
  /\ \A mark : MarkOf(mark) \in Seq(Byte)
<1>1. IdBytes \in Nat /\ SecretBytes \in Nat /\ Ids \subseteq [1 .. IdBytes -> Byte]
      /\ SecretBytesSet \subseteq [1 .. SecretBytes -> Byte]
  BY AddressAssumption
<1>2. \A n \in Nat : \A s \in [1 .. n -> Byte] : s \in Seq(Byte) /\ Len(s) = n
  <2> TAKE n \in Nat
  <2> TAKE s \in [1 .. n -> Byte]
  <2>1. s \in Seq(Byte)
    OBVIOUS
  <2>2. Len(s) = n
    <3>1. DOMAIN s = 1 .. n
      OBVIOUS
    <3>2. Len(s) \in Nat /\ DOMAIN s = 1 .. Len(s)
      BY <2>1, LenProperties
    <3> QED BY <3>1, <3>2
  <2> QED BY <2>1, <2>2
<1>3. \A key \in ExtKeys : key \in Seq(Byte)
  BY AddressAssumption
<1>4. ASSUME NEW mark PROVE MarkOf(mark) \in Seq(Byte)
  <2>1. 1 \in Byte
    BY RadixIs
  <2>2. <<1>> \in Seq(Byte) /\ <<>> \in Seq(Byte)
    BY <2>1
  <2> QED BY <2>2 DEF MarkOf
<1>5. \A id \in Ids : id \in Seq(Byte) /\ Len(id) = IdBytes
  BY <1>1, <1>2
<1>6. \A vch \in SecretBytesSet : vch \in Seq(Byte) /\ Len(vch) = SecretBytes
  BY <1>1, <1>2
<1> QED BY <1>3, <1>4, <1>5, <1>6

\* What was told is bytes behind a version of the length that the class takes.
LEMMA ToldData ==
  ASSUME AddrInv, network \in Networks, last.by = "value"
  PROVE  \E v, w \in Seq(Byte) : data = Base58Data(v, w) /\ Len(v) = VersionBytes(class)
<1>1. ValueTold /\ class \in {"address", "secret"} \union Extended
  BY ClassesDiffer DEF AddrInv
<1>2. last.network \in Networks
  BY <1>1 DEF ValueTold
<1>3. CASE class = "address"
  <2> DEFINE v == Version(last.network, TypeOfKind(last.mark))
  <2>1. data = Base58Data(v, last.value) /\ last.value \in Ids
    BY <1>1, <1>3 DEF ValueTold, AddressTold
  <2>2. v \in Seq(Byte) /\ Len(v) = 1
    BY <1>2, VersionsFit, ClassesDiffer
  <2>3. VersionBytes(class) = 1
    BY <1>3, ClassesDiffer DEF VersionBytes
  <2> HIDE DEF v
  <2> QED BY <2>1, <2>2, <2>3, ValuesFit
<1>4. CASE class = "secret"
  <2> DEFINE v == Version(last.network, "SECRET_KEY")
             w == last.value \o MarkOf(last.mark)
  <2>1. data = Base58Data(v, w) /\ last.value \in SecretBytesSet
    BY <1>1, <1>4 DEF ValueTold, SecretTold
  <2>2. v \in Seq(Byte) /\ Len(v) = 1
    BY <1>2, VersionsFit, ClassesDiffer
  <2>3. VersionBytes(class) = 1
    BY <1>4, ClassesDiffer DEF VersionBytes
  <2>4. w \in Seq(Byte)
    <3>1. last.value \in Seq(Byte) /\ MarkOf(last.mark) \in Seq(Byte)
      BY <2>1, ValuesFit
    <3> QED BY <3>1, ConcatProperties
  <2> HIDE DEF v, w
  <2> QED BY <2>1, <2>2, <2>3, <2>4
<1>5. CASE class \in Extended
  <2> DEFINE v == Version(last.network, class)
  <2>1. data = Base58Data(v, last.value) /\ last.value \in ExtKeys
    BY <1>1, <1>5 DEF ValueTold, ExtendedTold
  <2>2. v \in Seq(Byte) /\ Len(v) = Len(Version(network, class))
    BY <1>2, <1>5, VersionsFit, ClassesDiffer
  <2>3. VersionBytes(class) = Len(Version(network, class))
    BY <1>5 DEF VersionBytes, Version, Params
  <2> HIDE DEF v
  <2> QED BY <2>1, <2>2, <2>3, ValuesFit
<1> QED BY <1>1, <1>3, <1>4, <1>5

LEMMA ReadBackKeeps ==
  ASSUME ChecksumFits, AddrInv, network \in Networks, NEW spaces \in {<<>>, <<Space>>}, ReadBack(spaces)
  PROVE  AddrInv'
<1> DEFINE t == ToText(data)
           text == spaces \o t \o spaces
<1>1. last.by = "value" /\ data' = SetString(data, text, VersionBytes(class)).data
      /\ UNCHANGED <<network, class, last>>
  BY DEF ReadBack
<1>2. PICK v, w \in Seq(Byte) : data = Base58Data(v, w) /\ Len(v) = VersionBytes(class)
  BY <1>1, ToldData
<1>3. t = ToText(Base58Data(v, w)) /\ t \in DigitSeq(Base)
  BY <1>2, TextFits
<1> HIDE DEF t
<1>4. text \in Seq(Int) /\ Between(t, text, Len(spaces))
  BY <1>3, SpacesAround
<1> HIDE DEF text
<1>5. SetString(data, text, Len(v)).data = Base58Data(v, w)
  BY <1>3, <1>4, ReadsItself
<1>6. data' = data /\ class' = class /\ last' = last
  BY <1>1, <1>2, <1>5
<1> QED BY <1>6 DEF AddrInv, ValueTold, AddressTold, SecretTold, ExtendedTold

LEMMA AddrMoves ==
  ASSUME ChecksumFits, AddrInv, network \in Networks, AddrNext \/ UNCHANGED <<class, data, last>>
  PROVE  AddrInv'
<1>1. ASSUME UNCHANGED <<class, data, last>> PROVE AddrInv'
  BY <1>1 DEF AddrInv, ValueTold, AddressTold, SecretTold, ExtendedTold
<1>2. ASSUME NEW n \in Networks, ChangeNetwork(n) PROVE AddrInv'
  BY <1>1, <1>2 DEF ChangeNetwork
<1>3. CASE AddrNext
  <2>1. ASSUME NEW c \in Classes, Create(c) PROVE AddrInv'
    BY <2>1, CreateKeeps
  <2>2. ASSUME NEW dest \in Destinations \union {CNoDestination}, SetDestination(dest) PROVE AddrInv'
    BY <2>2, DestinationKeeps
  <2>3. ASSUME NEW key \in Keys, SetSecretKey(key) PROVE AddrInv'
    BY <2>3, SecretKeeps
  <2>4. ASSUME NEW bytes \in ExtKeys, SetExtKey(bytes) PROVE AddrInv'
    BY <2>4, ExtKeyKeeps
  <2>5. ASSUME NEW text \in Texts, ReadText(text) PROVE AddrInv'
    BY <2>5, ReadTextKeeps
  <2>6. ASSUME NEW spaces \in {<<>>, <<Space>>}, ReadBack(spaces) PROVE AddrInv'
    BY <2>6, ReadBackKeeps
  <2> QED BY <1>2, <1>3, <2>1, <2>2, <2>3, <2>4, <2>5, <2>6 DEF AddrNext
<1> QED BY <1>1, <1>3

-----------------------------------------------------------------------------
LEMMA NothingStays == AddrInv => NothingOfBefore
BY DEF AddrInv, NothingOfBefore

LEMMA TextStaysCanonical ==
  ASSUME ChecksumFits, AddrInv
  PROVE  TextIsCanonical
<1> SUFFICES ASSUME last.by = "text", data # NoData PROVE BetweenSpaces(ToText(data), last.value)
  BY DEF TextIsCanonical
<1> DEFINE text == last.value
<1>1. text \in Texts /\ data = SetString(NoData, text, 1).data
  BY DEF AddrInv
<1>2. text \in Seq(Int)
  BY <1>1, AddressAssumption
<1> HIDE DEF text
<1>3. SetString(NoData, text, 1).data # NoData
  BY <1>1
<1>4. BetweenSpaces(ToText(SetString(NoData, text, 1).data), text)
  BY <1>2, <1>3, ReadIsWritten
<1> QED BY <1>1, <1>4 DEF text

LEMMA OrderStays ==
  ASSUME ChecksumFits, AddrInv, network \in Networks
  PROVE  OrderIsOfText
<1> SUFFICES ASSUME Holds("address"), NEW n \in Networks, NEW dest \in Destinations
             PROVE  LET other == SetAddress(SelectParams(n), NoData, dest)
                    IN /\ CompareTo(data, other) = -CompareTo(other, data)
                       /\ CompareTo(data, other) = 0 <=> ToText(data) = ToText(other)
  BY DEF OrderIsOfText
<1> DEFINE other == SetAddress(SelectParams(n), NoData, dest)
           v1 == Version(last.network, TypeOfKind(last.mark))
           d1 == last.value
           v2 == Version(n, TypeOfKind(dest.kind))
           d2 == dest.id
<1>1. data = Base58Data(v1, d1) /\ d1 \in Ids /\ last.network \in Networks
  BY DEF Holds, AddrInv, ValueTold, AddressTold
<1>2. dest.kind \in {"key", "script"} /\ d2 \in Ids
  BY DEF Destinations
<1>3. other = Base58Data(v2, d2)
  BY <1>2 DEF SetAddress, Version, TypeOfKind
<1>4. v1 \in Seq(Byte) /\ Len(v1) = 1
  BY <1>1, VersionsFit, ClassesDiffer
<1>5. v2 \in Seq(Byte) /\ Len(v2) = 1
  BY VersionsFit, ClassesDiffer
<1>6. d1 \in Seq(Byte) /\ d2 \in Seq(Byte)
  BY <1>1, <1>2, ValuesFit
<1> HIDE DEF other, v1, v2, d1, d2
<1>7. CompareTo(data, other) = -CompareTo(other, data) /\ (CompareTo(data, other) = 0 <=> v1 = v2 /\ d1 = d2)
  BY <1>1, <1>3, <1>4, <1>5, <1>6, CompareIs
<1>8. ToText(data) = ToText(other) => v1 = v2 /\ d1 = d2
  BY <1>1, <1>3, <1>4, <1>5, <1>6, TextTells
<1>9. v1 = v2 /\ d1 = d2 => ToText(data) = ToText(other)
  BY <1>1, <1>3
<1> QED BY <1>7, <1>8, <1>9 DEF other

LEMMA PrefixesAreVersions ==
  ASSUME NEW type
  PROVE  /\ SamePrefix(type) <=> Version(network, type) = Version(last.network, type)
         /\ IsOf(Params, data, type) <=> data.vchVersion = Version(network, type)
BY DEF SamePrefix, IsOf, Version, Params

LEMMA AddressStays ==
  ASSUME AddrInv, network \in Networks
  PROVE  AddressSurvives
<1> SUFFICES ASSUME Holds("address")
             PROVE  LET dest == Destination(last.mark, last.value)
                        known == SamePrefix(IF dest.kind = "key" THEN "PUBKEY_ADDRESS" ELSE "SCRIPT_ADDRESS")
                    IN /\ GetDestination(Params, data) = IF known THEN dest ELSE CNoDestination
                       /\ GetKeyID(Params, data) <=> known /\ dest.kind = "key"
                       /\ IsScript(Params, data) <=> known /\ dest.kind = "script"
  BY DEF AddressSurvives
<1> DEFINE dest == Destination(last.mark, last.value)
           type == IF dest.kind = "key" THEN "PUBKEY_ADDRESS" ELSE "SCRIPT_ADDRESS"
           k == Version(last.network, TypeOfKind(last.mark))
           P == Version(network, "PUBKEY_ADDRESS")
           S == Version(network, "SCRIPT_ADDRESS")
<1>1. last.network \in Networks /\ last.mark \in {"key", "script"} /\ last.value \in Ids
      /\ data = Base58Data(k, last.value)
  BY DEF Holds, AddrInv, ValueTold, AddressTold
<1>2. data.vchVersion = k /\ data.vchData = last.value /\ Len(data.vchData) = IdBytes
  <2> HIDE DEF k
  <2> QED BY <1>1, DataFields, ValuesFit
<1>3. dest.kind = last.mark /\ type = TypeOfKind(last.mark)
  BY DEF Destination, TypeOfKind
<1>4. SamePrefix(type) <=> k = Version(network, TypeOfKind(last.mark))
  BY <1>3, PrefixesAreVersions
<1>5. IsOf(Params, data, "PUBKEY_ADDRESS") <=> k = P
  BY <1>2, PrefixesAreVersions
<1>6. IsOf(Params, data, "SCRIPT_ADDRESS") <=> k = S
  BY <1>2, PrefixesAreVersions
<1>7. last.mark = "key" => k = Version(last.network, "PUBKEY_ADDRESS") /\ k # S
                             /\ Version(network, TypeOfKind(last.mark)) = P
  BY <1>1, VersionsFit DEF TypeOfKind
<1>8. last.mark = "script" => k = Version(last.network, "SCRIPT_ADDRESS") /\ k # P
                             /\ Version(network, TypeOfKind(last.mark)) = S
  BY <1>1, VersionsFit DEF TypeOfKind
<1>9. dest = Destination(last.mark, data.vchData)
  BY <1>2
<1> DEFINE known == SamePrefix(type)
           pub == IsOf(Params, data, "PUBKEY_ADDRESS")
           script == IsOf(Params, data, "SCRIPT_ADDRESS")
<1>10. /\ last.mark = "key" => ~script /\ (pub <=> known)
       /\ last.mark = "script" => ~pub /\ (script <=> known)
  BY <1>4, <1>5, <1>6, <1>7, <1>8
<1>11. IsValidAddress(Params, data) <=> pub \/ script
  BY <1>2 DEF IsValidAddress
<1>12. (GetKeyID(Params, data) <=> known /\ dest.kind = "key") /\ (IsScript(Params, data) <=> known /\ dest.kind = "script")
  <2> HIDE DEF known, pub, script, dest
  <2>1. (GetKeyID(Params, data) <=> (pub \/ script) /\ pub) /\ (IsScript(Params, data) <=> (pub \/ script) /\ script)
    BY <1>11 DEF GetKeyID, IsScript, pub, script
  <2>2. last.mark = "key" \/ last.mark = "script"
    BY <1>1
  <2>3. "key" # "script"
    OBVIOUS
  <2> QED BY <1>3, <1>10, <2>1, <2>2, <2>3
<1>13. GetDestination(Params, data) = IF known THEN dest ELSE CNoDestination
  <2> HIDE DEF known, dest
  <2>1. GetDestination(Params, data) =
          IF ~IsValidAddress(Params, data) THEN CNoDestination
          ELSE Destination(IF pub THEN "key" ELSE "script", data.vchData)
    BY DEF GetDestination
  <2> HIDE DEF pub, script
  <2>2. CASE last.mark = "key"
    BY <1>9, <1>10, <1>11, <2>1, <2>2
  <2>3. CASE last.mark = "script"
    BY <1>9, <1>10, <1>11, <2>1, <2>3
  <2> QED BY <1>1, <2>2, <2>3
<1> QED BY <1>12, <1>13

\* The bytes of a secret and its mark can be told apart again.
LEMMA SecretCut ==
  ASSUME NEW vch \in SecretBytesSet, NEW mark
  PROVE  LET w == vch \o MarkOf(mark)
         IN /\ SubSeq(w, 1, SecretBytes) = vch
            /\ mark = "compressed" => Len(w) = SecretBytes + 1 /\ w[SecretBytes + 1] = 1
            /\ mark # "compressed" => Len(w) = SecretBytes
<1> DEFINE u == MarkOf(mark)
           w == vch \o u
<1>1. vch \in Seq(Byte) /\ Len(vch) = SecretBytes /\ u \in Seq(Byte) /\ SecretBytes \in Nat
  BY ValuesFit, AddressAssumption
<1>2. u = IF mark = "compressed" THEN <<1>> ELSE <<>>
  BY DEF MarkOf
<1>3. mark = "compressed" => Len(u) = 1 /\ u[1] = 1
  BY <1>2
<1>4. mark # "compressed" => Len(u) = 0
  BY <1>2
<1> HIDE DEF u
<1>5. SubSeq(w, 1, Len(vch)) = vch /\ Len(w) = Len(vch) + Len(u) /\ Len(u) \in Nat
  <2>1. vch \in Seq(Byte) /\ u \in Seq(Byte)
    BY <1>1
  <2> QED BY <2>1, CutWhereJoined
<1>6. \A i \in 1 .. Len(vch) + Len(u) : w[i] = IF i <= Len(vch) THEN vch[i] ELSE u[i - Len(vch)]
  BY <1>1, ConcatProperties
<1> HIDE DEF w
<1>7. ASSUME mark = "compressed" PROVE Len(w) = SecretBytes + 1 /\ w[SecretBytes + 1] = 1
  <2> DEFINE i == SecretBytes + 1
  <2>1. i \in 1 .. Len(vch) + Len(u) /\ ~(i <= Len(vch)) /\ i - Len(vch) = 1
    <3>1. Len(vch) = SecretBytes /\ Len(u) = 1 /\ SecretBytes \in Nat
      BY <1>1, <1>3, <1>7
    <3> HIDE DEF w
    <3> QED BY <3>1
  <2> HIDE DEF i
  <2>2. w[i] = 1
    BY <1>3, <1>6, <1>7, <2>1
  <2> QED BY <1>1, <1>3, <1>5, <1>7, <2>2 DEF i
<1>8. ASSUME mark # "compressed" PROVE Len(w) = SecretBytes
  BY <1>1, <1>4, <1>5, <1>8
<1> QED BY <1>1, <1>5, <1>7, <1>8 DEF w, u

LEMMA SecretStays ==
  ASSUME AddrInv, network \in Networks
  PROVE  SecretSurvives
<1>1. ASSUME Holds("secret")
      PROVE  /\ GetSecret(data) = [fValid |-> TRUE, vch |-> last.value, fCompressed |-> last.mark = "compressed"]
             /\ IsValidSecret(Params, data) <=> SamePrefix("SECRET_KEY")
  <2> DEFINE k == Version(last.network, "SECRET_KEY")
             w == last.value \o MarkOf(last.mark)
             n == SecretBytes
             is == last.mark = "compressed"
  <2>1. last.value \in SecretBytesSet /\ SecretOf(last.value) /\ data = Base58Data(k, w)
    BY <1>1 DEF Holds, AddrInv, ValueTold, SecretTold
  <2>2. SubSeq(w, 1, n) = last.value /\ (is => Len(w) = n + 1 /\ w[n + 1] = 1) /\ (~is => Len(w) = n)
    BY <2>1, SecretCut
  <2> HIDE DEF k, w
  <2>3. data.vchVersion = k /\ data.vchData = w
    BY <2>1, DataFields
  <2>4. IsOf(Params, data, "SECRET_KEY") <=> SamePrefix("SECRET_KEY")
    BY <2>3, PrefixesAreVersions DEF k
  <2>5. n \in Nat
    BY AddressAssumption
  <2>6. (Len(w) > n /\ w[n + 1] = 1) <=> is
    <3>1. CASE is
      <4>1. n + 1 > n
        BY <2>5
      <4> QED BY <2>2, <3>1, <4>1
    <3>2. CASE ~is
      <4>1. ~(n > n)
        BY <2>5
      <4> QED BY <2>2, <3>2, <4>1
    <3> QED BY <3>1, <3>2
  <2>7. Len(w) = n \/ (Len(w) = n + 1 /\ w[n + 1] = 1)
    BY <2>2
  <2>8. IsValidSecret(Params, data) <=> SamePrefix("SECRET_KEY")
    <3>1. IsValidSecret(Params, data) <=> IsOf(Params, data, "SECRET_KEY") /\ (Len(w) = n \/ (Len(w) = n + 1 /\ w[n + 1] = 1))
      BY <2>3 DEF IsValidSecret
    <3> QED BY <2>4, <2>7, <3>1
  <2>9. GetSecret(data) = [fValid |-> TRUE, vch |-> last.value, fCompressed |-> is]
    <3>1. GetSecret(data) = [fValid |-> SecretOf(last.value), vch |-> last.value,
                             fCompressed |-> Len(w) > n /\ w[n + 1] = 1]
      BY <2>2, <2>3 DEF GetSecret
    <3>2. (Len(w) > n /\ w[n + 1] = 1) = is
      BY <2>6
    <3>3. SecretOf(last.value) = TRUE
      BY <2>1
    <3> QED BY <3>1, <3>2, <3>3
  <2> QED BY <2>8, <2>9
<1>2. ASSUME IsValidSecret(Params, data), IsValidAddress(Params, data) PROVE FALSE
  <2>1. IdBytes # SecretBytes /\ IdBytes # SecretBytes + 1
    BY AddressAssumption
  <2> QED BY <1>2, <2>1 DEF IsValidSecret, IsValidAddress
<1> QED BY <1>1, <1>2 DEF SecretSurvives

LEMMA ExtendedStays ==
  ASSUME ChecksumFits, AddrInv, network \in Networks
  PROVE  ExtendedSurvives
<1> SUFFICES ASSUME class \in Extended, last.by = "value"
             PROVE  /\ data.vchData = last.value
                    /\ \A n \in 1 .. 3 : SetString(NoData, ToText(data), n).data = data <=> n = VersionBytes(class)
  BY DEF ExtendedSurvives
<1> DEFINE v == Version(last.network, class)
           w == last.value
           t == ToText(data)
<1>1. last.network \in Networks /\ w \in ExtKeys /\ data = Base58Data(v, w)
  BY DEF AddrInv, ValueTold, ExtendedTold
<1>2. v \in Seq(Byte) /\ w \in Seq(Byte) /\ v # <<>>
  BY <1>1, VersionsFit, ValuesFit, ClassesDiffer
<1>3. Len(v) = VersionBytes(class)
  BY <1>1, VersionsFit DEF VersionBytes, Version, Params
<1> HIDE DEF v, w
<1>4. t = ToText(Base58Data(v, w)) /\ t \in DigitSeq(Base)
  BY <1>1, <1>2, TextFits
<1> HIDE DEF t
<1>5. t \in Seq(Int) /\ Between(t, t, 0)
  BY <1>4, AloneBetween
<1>6. ASSUME NEW n \in 1 .. 3 PROVE SetString(NoData, t, n).data = data <=> n = VersionBytes(class)
  <2>1. SetString(NoData, t, Len(v)).data = Base58Data(v, w)
        /\ (n # Len(v) => SetString(NoData, t, n).data # Base58Data(v, w))
    <3>1. n \in Nat
      OBVIOUS
    <3> QED BY <1>2, <1>4, <1>5, <3>1, ReadsItself
  <2> QED BY <1>1, <1>3, <2>1
<1>7. data.vchData = w
  BY <1>1, DataFields
<1> QED BY <1>6, <1>7 DEF w, t

-----------------------------------------------------------------------------
(***************************************************************************)
(* The parts together.                                                     *)
(***************************************************************************)
LEMMA SelectedIs ==
  ASSUME NEW n \in Networks
  PROVE  SelectParams(n).NetworkID = n
<1>1. MainParams.NetworkID = "main"
  BY DEF MainParams
<1>2. TestNetParams.NetworkID = "test"
  BY DEF TestNetParams, MainParams
<1>3. RegTestParams.NetworkID = "regtest"
  BY DEF RegTestParams, TestNetParams, MainParams
<1> QED
  BY <1>1, <1>2, <1>3 DEF Networks, SelectParams

NodeInv == StartInv /\ network \in Networks /\ HttpInv

LEMMA NodeInitially == NodeInit => NodeInv
<1> SUFFICES ASSUME NodeInit PROVE NodeInv
  OBVIOUS
<1>1. StartInit /\ HttpInit /\ network \in Networks
  BY DEF NodeInit, StartInit, Networks
<1> QED BY <1>1, InitStarts, HttpInitially DEF NodeInv

\* The command line moves, or the network is chosen with it.
LEMMA StartMoves == NodeInv /\ StartNext /\ UNCHANGED httpVars => NodeInv'
<1> SUFFICES ASSUME NodeInv, StartNext, UNCHANGED httpVars PROVE NodeInv'
  OBVIOUS
<1>1. StartInv' /\ HttpInv'
  BY NextStarts, HttpKeeps DEF NodeInv
<1>2. network' \in Networks
  <2>1. CASE UNCHANGED network
    BY <2>1 DEF NodeInv
  <2>2. CASE SelectParamsFromCommandLine
    <3> DEFINE asked == FromCommandLine(GetBoolArg(RegTest, FALSE), GetBoolArg(TestNet, FALSE))
    <3>1. asked \in {"none", "main", "test", "regtest"}
      BY DEF FromCommandLine
    <3> HIDE DEF asked
    <3>2. network' = network \/ (asked # "none" /\ network' = SelectParams(asked).NetworkID)
      BY <2>2 DEF SelectParamsFromCommandLine, asked
    <3>3. asked # "none" => asked \in Networks
      BY <3>1 DEF Networks
    <3> QED BY <3>2, <3>3, SelectedIs DEF NodeInv
  <2> QED BY <2>1, <2>2 DEF StartNext
<1> QED BY <1>1, <1>2 DEF NodeInv

\* An address is set or read, or another network is selected: what was chosen
\* with the command line does not count any more.
LEMMA AddressesMove ==
  ASSUME NodeInv, AddrNext, chosen' = (IF network' = network THEN chosen ELSE "not called"),
         UNCHANGED <<vars, httpVars>>
  PROVE  NodeInv'
<1>1. UNCHANGED <<mapArgs, mapMultiArgs, pc, entry, argc, soft>> /\ UNCHANGED vars
  BY DEF vars
<1>2. IInv'
  BY <1>1, NextIInv DEF NodeInv, StartInv
<1>3. SaysAsGiven' /\ PlainReached' /\ Given' = Given
  BY <1>1 DEF NodeInv, StartInv, SaysAsGiven, EntrySays, Says, PlainReached, LeadsOn, Given
<1>4. ChosenFits'
  <2>1. CASE network' = network
    BY <1>1, <2>1 DEF NodeInv, StartInv, ChosenFits, IsOnNow, GetBoolArg
  <2>2. CASE network' # network
    BY <2>2 DEF ChosenFits
  <2> QED BY <2>1, <2>2
<1>5. network' \in Networks
  <2>1. ASSUME NEW n \in Networks, ChangeNetwork(n) PROVE network' \in Networks
    BY <2>1, SelectedIs DEF ChangeNetwork
  <2>2. CASE UNCHANGED network
    BY <2>2 DEF NodeInv
  <2>3. UNCHANGED network \/ \E n \in Networks : ChangeNetwork(n)
    BY DEF AddrNext, Create, SetDestination, SetSecretKey, SetExtKey, ReadText, ReadBack
  <2> QED BY <2>1, <2>2, <2>3
<1>6. HttpInv'
  BY HttpKeeps DEF NodeInv
<1> QED BY <1>2, <1>3, <1>4, <1>5, <1>6 DEF NodeInv, StartInv

LEMMA NodeMoves == NodeInv /\ [NodeNext]_nodeVars => NodeInv'
<1> SUFFICES ASSUME NodeInv, [NodeNext]_nodeVars PROVE NodeInv'
  OBVIOUS
<1>1. ASSUME UNCHANGED startVars, [HttpNext]_httpVars PROVE NodeInv'
  <2>1. StartInv' /\ HttpInv'
    BY <1>1, NextStarts, HttpKeeps DEF NodeInv
  <2> QED BY <1>1, <2>1 DEF NodeInv, startVars
<1>2. CASE StartNext /\ UNCHANGED <<class, data, last, httpVars>>
  BY <1>2, StartMoves
<1>3. CASE AddrNext /\ chosen' = (IF network' = network THEN chosen ELSE "not called") /\ UNCHANGED <<vars, httpVars>>
  BY <1>3, AddressesMove
<1>4. CASE HttpNext /\ UNCHANGED <<startVars, addrVars>>
  BY <1>1, <1>4
<1>5. CASE UNCHANGED nodeVars
  BY <1>1, <1>5 DEF nodeVars
<1> QED BY <1>2, <1>3, <1>4, <1>5 DEF NodeNext

\* Whatever network is selected, and whatever its halving interval, blocks pay
\* less than twice what those of its first interval do (GetBlockValue).
THEOREM SupplyStaysBounded == NodeSpec => []SupplyIsBounded
<1>1. NodeInv => SupplyIsBounded
  BY SupplyOfNetwork DEF NodeInv
<1> QED BY <1>1, NodeInitially, NodeMoves, PTL DEF NodeSpec

\* No part of a client disturbs another: settings stay as given, the network is
\* the one they ask for until another is selected, and replies stay their own,
\* however calls of ParseParameters, SelectParams, CBitcoinAddress and
\* ReadHTTPMessage are mixed.
THEOREM PartsStaySound == NodeSpec => [](GivenKept /\ NetworkAsAsked /\ RepliesAreTheirOwn)
<1>1. NodeInv => GivenKept /\ NetworkAsAsked /\ RepliesAreTheirOwn
  BY InvGivesKept, ChosenIsAsked DEF NodeInv, StartInv, HttpInv
<1> QED BY <1>1, NodeInitially, NodeMoves, PTL DEF NodeSpec

LEMMA AddressesStay ==
  ASSUME ChecksumFits, NodeInv, AddrInv, [NodeNext]_nodeVars
  PROVE  AddrInv'
<1>1. network \in Networks
  BY DEF NodeInv
<1>2. AddrNext \/ UNCHANGED <<class, data, last>>
  BY DEF NodeNext, nodeVars, addrVars
<1> QED BY <1>1, <1>2, AddrMoves

\* Whatever an object of an address, a secret or an extended key is told comes
\* back from it and from its text, on every network that shares the version bytes
\* and as nothing else on the others, however often the network, the object or
\* the text changes in between and whatever hash the checksum is (base58.h).
THEOREM ValuesAlwaysSurvive ==
  ASSUME ChecksumFits
  PROVE  NodeSpec => []ValueSurvives
<1>1. NodeInit => NodeInv /\ AddrInv
  BY NodeInitially, AddrInitially DEF NodeInit
<1>2. NodeInv /\ AddrInv /\ [NodeNext]_nodeVars => NodeInv' /\ AddrInv'
  BY NodeMoves, AddressesStay
<1>3. NodeInv /\ AddrInv => ValueSurvives
  BY AddressStays, SecretStays, ExtendedStays DEF NodeInv, ValueSurvives
<1> QED BY <1>1, <1>2, <1>3, PTL DEF NodeSpec

\* The text of an object and the object that is read from it always determine
\* each other, nothing is left in an object of what it held before, and two
\* addresses are ordered one way, equal only with the same text (base58.h).
THEOREM TextIsAlwaysObject ==
  ASSUME ChecksumFits
  PROVE  NodeSpec => []TextIsObject
<1>1. NodeInit => NodeInv /\ AddrInv
  BY NodeInitially, AddrInitially DEF NodeInit
<1>2. NodeInv /\ AddrInv /\ [NodeNext]_nodeVars => NodeInv' /\ AddrInv'
  BY NodeMoves, AddressesStay
<1>3. NodeInv /\ AddrInv => TextIsObject
  BY TextStaysCanonical, NothingStays, OrderStays DEF NodeInv, TextIsObject
<1> QED BY <1>1, <1>2, <1>3, PTL DEF NodeSpec
=============================================================================
