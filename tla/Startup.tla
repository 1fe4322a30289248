------------------------------ MODULE Startup ------------------------------
(***************************************************************************)
(* The choice of the network from the command line: Settings parses it,    *)
(* and SelectParamsFromCommandLine (src/src/bitcoin/chainparams.cpp) asks  *)
(* for -regtest and -testnet when it is called, which may be again after   *)
(* further settings.                                                       *)
(***************************************************************************)
EXTENDS Settings, ChainParams

CONSTANTS RegTest, TestNet   \* the bases of the two options

\* "regtest" and "testnet" sort after "no".
ASSUME StartupAssumption ==
  /\ RegTest \in Bases /\ TestNet \in Bases \ {RegTest}
  /\ RegTest > 0 /\ TestNet > 0

VARIABLE chosen   \* what SelectParamsFromCommandLine returned: "not called", "true", "false"

startVars == <<mapArgs, mapMultiArgs, pc, entry, argc, soft, network, chosen>>

Option(base) == [dashes |-> 1, nos |-> 0, base |-> base]
GetBoolArg(base, fDefault) ==
  IF Option(base) \in DOMAIN mapArgs THEN IsOn(mapArgs[Option(base)]) ELSE fDefault

StartInit == Init /\ network = "main" /\ chosen = "not called"

SelectParamsFromCommandLine ==
  /\ pc = "ready"
  /\ LET asked == FromCommandLine(GetBoolArg(RegTest, FALSE), GetBoolArg(TestNet, FALSE))
     IN IF asked = "none"
        THEN chosen' = "false" /\ UNCHANGED network
        ELSE chosen' = "true" /\ network' = SelectParams(asked).NetworkID
  /\ UNCHANGED vars

StartNext ==
  \/ Next /\ UNCHANGED network /\ chosen' = "not called"
  \/ SelectParamsFromCommandLine
StartSpec == StartInit /\ [][StartNext]_startVars
               /\ WF_vars(ExpandEnds \/ \E n \in Names : Expand(n))

-----------------------------------------------------------------------------
\* The spellings of an option on the command line, and what one of them says.
Spellings(base) == {n \in Given : n.base = base}
Says(n) == IsOn(LastOf(mapMultiArgs[n])) = (n.nos % 2 = 0)
Wanted(base) == Spellings(base) # {} /\ \A n \in Spellings(base) : Says(n)
Clear(base) == (\A m, n \in Spellings(base) : m = n) /\ Option(base) \notin soft

\* However the two options are spelled, with one dash or two and behind any
\* number of "no", the network is the one they ask for; both together are
\* refused and leave the network as it was.
NetworkAsAsked ==
  Clear(RegTest) /\ Clear(TestNet) =>
    /\ chosen = "false" <=> chosen # "not called" /\ Wanted(RegTest) /\ Wanted(TestNet)
    /\ chosen = "true" =>
         network = IF Wanted(RegTest) THEN "regtest" ELSE IF Wanted(TestNet) THEN "test" ELSE "main"
=============================================================================
