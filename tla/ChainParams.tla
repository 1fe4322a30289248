---------------------------- MODULE ChainParams ----------------------------
(***************************************************************************)
(* The parameters of the three networks and the choice between them        *)
(* (src/src/bitcoin/chainparams.h, src/src/bitcoin/chainparams.cpp).  Each *)
(* class changes what the one it derives from has set; the genesis block,  *)
(* the seeds and the message start are opaque and left out.                *)
(***************************************************************************)
EXTENDS Integers

CONSTANTS NetPrefix(_, _),   \* the version bytes of a network and a type of text
          MainInterval, RegTestInterval,   \* blocks between two halvings
          Coins50,          \* 50 * COIN
          ShiftBits         \* bits of an int64_t; 64 in the code

ASSUME ChainAssumption == {MainInterval, RegTestInterval, Coins50, ShiftBits} \subseteq Nat \ {0}

VARIABLE network   \* what pCurrentParams points to

Networks == {"main", "test", "regtest"}
Base58Types == {"PUBKEY_ADDRESS", "SCRIPT_ADDRESS", "SECRET_KEY", "EXT_PUBLIC_KEY", "EXT_SECRET_KEY"}

\* The constructors, of which the derived run after their bases.
MainParams ==
  [NetworkID |-> "main", nSubsidyHalvingInterval |-> MainInterval, nRPCPort |-> 8332, nDefaultPort |-> 8333,
   RequireRPCPassword |-> TRUE, base58Prefixes |-> [t \in Base58Types |-> NetPrefix("main", t)]]
TestNetParams ==
  [MainParams EXCEPT !.NetworkID = "test", !.nRPCPort = 18332, !.nDefaultPort = 18333,
                     !.base58Prefixes = [t \in Base58Types |-> NetPrefix("test", t)]]
RegTestParams ==
  [TestNetParams EXCEPT !.NetworkID = "regtest", !.nSubsidyHalvingInterval = RegTestInterval,
                        !.nDefaultPort = 18444, !.RequireRPCPassword = FALSE]
SelectParams(which) ==
  CASE which = "main" -> MainParams
    [] which = "test" -> TestNetParams
    [] which = "regtest" -> RegTestParams

Params == SelectParams(network)
Base58Prefix(params, type) == params.base58Prefixes[type]

\* A shift to the right halves as often as it is told.  One by ShiftBits or
\* more is undefined; the build takes the count modulo ShiftBits.
Halved(n) ==
  LET halved[k \in 0 .. ShiftBits] == IF k = 0 THEN n ELSE halved[k - 1] \div 2
  IN halved
ShiftedRight(n, count) == Halved(n)[count % ShiftBits]
\* Slip: the shift is left to the machine.
GetBlockValueUncut(params, nHeight, nFees) ==
  ShiftedRight(Coins50, nHeight \div params.nSubsidyHalvingInterval) + nFees
GetBlockValue(params, nHeight, nFees) ==
  LET halvings == nHeight \div params.nSubsidyHalvingInterval
  IN IF halvings >= ShiftBits THEN nFees ELSE ShiftedRight(Coins50, halvings) + nFees

\* The network of the two options, or "none" if both are on.
\* Slip: -testnet is looked at first, and both together are not noticed.
FromCommandLineEager(fRegTest, fTestNet) ==
  IF fTestNet THEN "test" ELSE IF fRegTest THEN "regtest" ELSE "main"
FromCommandLine(fRegTest, fTestNet) ==
  IF fTestNet /\ fRegTest THEN "none"
  ELSE IF fRegTest THEN "regtest" ELSE IF fTestNet THEN "test" ELSE "main"
=============================================================================
