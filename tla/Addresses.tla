----------------------------- MODULE Addresses -----------------------------
(***************************************************************************)
(* CBitcoinAddress, CBitcoinSecret and CBitcoinExtKeyBase (src/src/bitcoin/ *)
(* base58.h): data with the version bytes of the network that is selected  *)
(* when they are set, and checked against those of the network selected    *)
(* when they are asked.  One object at a time, which is set, written as    *)
(* text, and read from its own text or from any other.                     *)
(***************************************************************************)
EXTENDS Base58, ChainParams

CONSTANTS IdBytes, SecretBytes,   \* 20 and 32 in the code
          SecretOf(_),   \* whether bytes are in the range of a secret
          Ids, SecretBytesSet, ExtKeys,   \* bytes of identifiers, secrets, extended keys
          Texts

Extended == {"EXT_SECRET_KEY", "EXT_PUBLIC_KEY"}   \* the Type of CBitcoinExtKeyBase

\* The versions of addresses and secrets are a byte on every network, and no
\* key's is a script's; those of extended keys are as long on every network.
ASSUME AddressAssumption ==
  /\ IdBytes \in Nat /\ SecretBytes \in Nat /\ IdBytes \notin {SecretBytes, SecretBytes + 1}
  /\ Ids \subseteq [1 .. IdBytes -> Byte] /\ SecretBytesSet \subseteq [1 .. SecretBytes -> Byte]
  /\ \A key \in ExtKeys : key \in Seq(Byte)
  /\ \A text \in Texts : text \in Seq(Int)
  /\ \A n \in Networks, t \in Base58Types : NetPrefix(n, t) \in Seq(Byte)
  /\ \A n \in Networks, t \in Base58Types \ Extended : Len(NetPrefix(n, t)) = 1
  /\ \A m, n \in Networks : NetPrefix(m, "PUBKEY_ADDRESS") # NetPrefix(n, "SCRIPT_ADDRESS")
  /\ \A m, n \in Networks, t \in Extended :
       Len(NetPrefix(m, t)) = Len(NetPrefix(n, t)) /\ NetPrefix(m, t) # <<>>

Classes == {"address", "secret"} \union Extended

VARIABLES class,   \* of the object, or "none"
          data,    \* vchVersion and vchData
          last     \* what the object was last told: a value, a text or nothing

addrVars == <<network, class, data, last>>

\* Destinations: of a key, of a script, or none.
Destination(kind, id) == [kind |-> kind, id |-> id]
CNoDestination == Destination("none", <<>>)

\* Destinations of no kind leave the address as it is.
SetAddress(params, old, dest) ==
  CASE dest.kind = "key" -> Base58Data(Base58Prefix(params, "PUBKEY_ADDRESS"), dest.id)
    [] dest.kind = "script" -> Base58Data(Base58Prefix(params, "SCRIPT_ADDRESS"), dest.id)
    [] dest.kind = "none" -> old
IsOf(params, b58, type) == b58.vchVersion = Base58Prefix(params, type)
IsValidAddress(params, b58) ==
  /\ Len(b58.vchData) = IdBytes
  /\ IsOf(params, b58, "PUBKEY_ADDRESS") \/ IsOf(params, b58, "SCRIPT_ADDRESS")
\* Slip: the network is not looked at again.
GetOfAnyNetwork(params, b58) ==
  IF Len(b58.vchData) # IdBytes THEN CNoDestination
  ELSE Destination(IF \E n \in Networks : b58.vchVersion = NetPrefix(n, "SCRIPT_ADDRESS") THEN "script" ELSE "key",
                   b58.vchData)
GetDestination(params, b58) ==
  IF ~IsValidAddress(params, b58) THEN CNoDestination
  ELSE Destination(IF IsOf(params, b58, "PUBKEY_ADDRESS") THEN "key" ELSE "script", b58.vchData)
GetKeyID(params, b58) == IsValidAddress(params, b58) /\ IsOf(params, b58, "PUBKEY_ADDRESS")
IsScript(params, b58) == IsValidAddress(params, b58) /\ IsOf(params, b58, "SCRIPT_ADDRESS")

\* A compressed key has a one behind its bytes.
SecretData(params, key) ==
  Base58Data(Base58Prefix(params, "SECRET_KEY"), key.vch \o IF key.fCompressed THEN <<1>> ELSE <<>>)
IsValidSecret(params, b58) ==
  /\ IsOf(params, b58, "SECRET_KEY")
  /\ \/ Len(b58.vchData) = SecretBytes
     \/ Len(b58.vchData) = SecretBytes + 1 /\ b58.vchData[SecretBytes + 1] = 1
\* IsValid says nothing of the range: the key may still be no key.
GetSecret(secret) ==
  LET vch == SubSeq(secret.vchData, 1, SecretBytes)
  IN [fValid |-> SecretOf(vch), vch |-> vch,
      fCompressed |-> Len(secret.vchData) > SecretBytes /\ secret.vchData[SecretBytes + 1] = 1]
SetSecretString(params, old, text) ==
  LET set == SetString(old, text, 1) IN [set EXCEPT !.ret = @ /\ IsValidSecret(params, set.data)]

\* An extended key has its bytes as they are, behind a longer version.
ExtData(params, type, bytes) == Base58Data(Base58Prefix(params, type), bytes)

-----------------------------------------------------------------------------
Keys == {k \in [fValid : {TRUE}, vch : SecretBytesSet, fCompressed : BOOLEAN] : SecretOf(k.vch)}
Destinations == [kind : {"key", "script"}, id : Ids]
\* How many bytes of its text are the version, and how many the class takes
\* them for if it is not told.
VersionBytes(c) == IF c \in Extended THEN Len(Base58Prefix(Params, c)) ELSE 1
Told(by, value, mark) == [by |-> by, network |-> network, value |-> value, mark |-> mark]
NotTold == [by |-> "nothing", network |-> "main", value |-> <<>>, mark |-> ""]

AddrInit == network = "main" /\ class = "none" /\ data = NoData /\ last = NotTold

Create(c) == class' = c /\ data' = NoData /\ last' = NotTold /\ UNCHANGED network

SetDestination(dest) ==
  /\ class = "address"
  /\ data' = SetAddress(Params, data, dest)
  /\ last' = IF dest = CNoDestination THEN last ELSE Told("value", dest.id, dest.kind)
  /\ UNCHANGED <<network, class>>

SetSecretKey(key) ==
  /\ class = "secret"
  /\ data' = SecretData(Params, key)
  /\ last' = Told("value", key.vch, IF key.fCompressed THEN "compressed" ELSE "")
  /\ UNCHANGED <<network, class>>

SetExtKey(bytes) ==
  /\ class \in Extended
  /\ data' = ExtData(Params, class, bytes)
  /\ last' = Told("value", bytes, "")
  /\ UNCHANGED <<network, class>>

ReadText(text) ==
  /\ class # "none"
  /\ LET set == IF class = "secret" THEN SetSecretString(Params, data, text) ELSE SetString(data, text, 1)
     IN data' = set.data /\ last' = Told("text", text, IF set.ret THEN "read" ELSE "refused")
  /\ UNCHANGED <<network, class>>

\* The text of the object, between spaces perhaps, is read into it again.
ReadBack(spaces) ==
  /\ last.by = "value"
  /\ data' = SetString(data, spaces \o ToText(data) \o spaces, VersionBytes(class)).data
  /\ UNCHANGED <<network, class, last>>

ChangeNetwork(n) == network' = SelectParams(n).NetworkID /\ UNCHANGED <<class, data, last>>

AddrNext ==
  \/ \E c \in Classes : Create(c)
  \/ \E dest \in Destinations \union {CNoDestination} : SetDestination(dest)
  \/ \E key \in Keys : SetSecretKey(key)
  \/ \E bytes \in ExtKeys : SetExtKey(bytes)
  \/ \E text \in Texts : ReadText(text)
  \/ \E spaces \in {<<>>, <<Space>>} : ReadBack(spaces)
  \/ \E n \in Networks : ChangeNetwork(n)
AddrSpec == AddrInit /\ [][AddrNext]_addrVars

-----------------------------------------------------------------------------
\* Properties.
SamePrefix(type) == Base58Prefix(Params, type) = Base58Prefix(SelectParams(last.network), type)
Holds(c) == class = c /\ last.by = "value"

\* An address is, through its text and back, the destination it was set to on
\* every network that has the prefix of the one it was made on, and no
\* destination on the others; it never turns from one kind into the other.
AddressSurvives ==
  Holds("address") =>
    LET dest == Destination(last.mark, last.value)
        known == SamePrefix(IF dest.kind = "key" THEN "PUBKEY_ADDRESS" ELSE "SCRIPT_ADDRESS")
    IN /\ GetDestination(Params, data) = IF known THEN dest ELSE CNoDestination
       /\ GetKeyID(Params, data) <=> known /\ dest.kind = "key"
       /\ IsScript(Params, data) <=> known /\ dest.kind = "script"

\* A secret is, through its text and back, the same key, compressed or not, and
\* valid on the networks with its prefix; no text makes a valid secret and a
\* valid address at once.
SecretSurvives ==
  /\ Holds("secret") =>
       /\ GetSecret(data) = [fValid |-> TRUE, vch |-> last.value, fCompressed |-> last.mark = "compressed"]
       /\ IsValidSecret(Params, data) <=> SamePrefix("SECRET_KEY")
  /\ class \in {"address", "secret"} => ~(IsValidSecret(Params, data) /\ IsValidAddress(Params, data))

\* An extended key comes back from its text if SetString is told how long the
\* version is, and with no other length, the one it takes by default included.
ExtendedSurvives ==
  class \in Extended /\ last.by = "value" =>
    /\ data.vchData = last.value
    /\ \A n \in 1 .. 3 : SetString(NoData, ToText(data), n).data = data <=> n = VersionBytes(class)

\* The text is t but for the spaces before and behind it.
BetweenSpaces(t, text) ==
  \E n \in 0 .. Len(text) - Len(t) :
    /\ t = SubSeq(text, n + 1, n + Len(t))
    /\ \A i \in DOMAIN text \ (n + 1 .. n + Len(t)) : text[i] = Space

\* A text that is read is, but for the spaces around it, the text the object
\* writes: no two texts are the same address, secret or key.
TextIsCanonical ==
  last.by = "text" /\ data # NoData => BetweenSpaces(ToText(data), last.value)

\* What is in an object that has read a text depends on the text alone, whether
\* or not it was refused, and not on what was in it before.
NothingOfBefore == last.by = "text" => data = SetString(NoData, last.value, 1).data

\* The order of two objects of a class is one, and only those with the same
\* text are equal.
OrderIsOfText ==
  Holds("address") =>
    \A n \in Networks, dest \in Destinations :
      LET other == SetAddress(SelectParams(n), NoData, dest)
      IN /\ CompareTo(data, other) = -CompareTo(other, data)
         /\ CompareTo(data, other) = 0 <=> ToText(data) = ToText(other)

\* All that is ever paid for blocks without fees is less than twice what the
\* first halving interval pays, however long the chain grows.
Paid(params, heights) ==
  LET paid[h \in 0 .. heights] == IF h = 0 THEN 0 ELSE paid[h - 1] + GetBlockValue(params, h - 1, 0)
  IN paid
Heights(params) == 3 * ShiftBits * params.nSubsidyHalvingInterval
Supply == [n \in Networks |-> Paid(SelectParams(n), Heights(SelectParams(n)))[Heights(SelectParams(n))]]
SupplyIsBounded == Supply[network] < 2 * Coins50 * Params.nSubsidyHalvingInterval

\* Whatever is set comes back, from the object and from its text, on the networks
\* that share its version bytes, and as nothing else on the others.
ValueSurvives == AddressSurvives /\ SecretSurvives /\ ExtendedSurvives

\* A text and the object read from it determine each other.
TextIsObject == TextIsCanonical /\ NothingOfBefore /\ OrderIsOfText
=============================================================================
