------------------------------- MODULE ExtKey -------------------------------
(***************************************************************************)
(* Derivation of keys (BIP 32) and the extended keys CExtKey and           *)
(* CExtPubKey (src/src/bitcoin/key.cpp).                                   *)
(***************************************************************************)
EXTENDS Key, Sequences

CONSTANTS Tweak(_, _, _, _),  \* left half of HMAC-SHA512, of the chain code, child, header and data
          Chain(_, _, _, _),  \* and its right half
          KeyHash(_),         \* the first bytes of the Hash160 of a public key
          Depths,             \* values of nDepth; 256 in the code
          Digit,              \* values of a byte of nChild; 256 in the code
          ChainCodes          \* the values of 32 bytes that chain codes are given as

\* What each byte of nChild counts, the highest first, and how many numbers
\* there are.
Weight == <<Digit * Digit * Digit, Digit * Digit, Digit, 1>>
ChildNumbers == 0 .. Digit * Weight[1] - 1

\* A number and 32 bytes come out of every hash.
ASSUME HashAssumption ==
  /\ Depths \in Nat \ {0} /\ Digit \in Nat \ {0}
  /\ \A cc \in ChainCodes, nChild \in ChildNumbers, header \in {0, 2, 3}, data \in Bytes32 :
       /\ Tweak(cc, nChild, header, data) \in Nat
       /\ Chain(cc, nChild, header, data) \in ChainCodes
  /\ \A header \in {2, 3}, x \in Bytes32 : KeyHash(<<header, x>>) \in Int

\* nChild >> 31.
Hardened(nChild) == nChild >= (Digit * Weight[1]) \div 2
BIP32Hash(cc, nChild, header, data) ==
  [left |-> Tweak(cc, nChild, header, data), right |-> Chain(cc, nChild, header, data)]
GetID(pub) == KeyHash(IF IsCompressed(pub) THEN <<pub.header, pub.x>> ELSE <<pub.header, pub.x, pub.y>>)

\* A child that fails is written, and invalid; only a compressed key derives.
DeriveKey(key, nChild, cc) ==
  LET pub == PublicOf(key)
      out == IF Hardened(nChild) THEN BIP32Hash(cc, nChild, 0, key.vch)
             ELSE BIP32Hash(cc, nChild, pub.header, pub.x)
      child == TweakSecret(key.vch, out.left)
  IN [ret |-> child.ret, cc |-> out.right,
      key |-> [fValid |-> child.ret, fCompressed |-> TRUE, vch |-> child.vch]]

\* A public child that fails is written, and may be valid: bytes that are no
\* point leave OpenSSL at infinity, from where the tweak goes on.
DerivePub(pub, pubkeyChild, nChild, cc) ==
  LET out == BIP32Hash(cc, nChild, pub.header, pub.x)
      known == SetPubKey(pub) # {}
      child == TweakPublic(IF known THEN CHOOSE q \in SetPubKey(pub) : TRUE ELSE Infinity, out.left)
  IN [ret |-> known /\ child.ret, cc |-> out.right, pub |-> GetPubKey(child.point, pubkeyChild, TRUE)]

-----------------------------------------------------------------------------
\* The fields that both extended keys have.
Place(nDepth, vchFingerprint, nChild, vchChainCode) ==
  [nDepth |-> nDepth, vchFingerprint |-> vchFingerprint, nChild |-> nChild, vchChainCode |-> vchChainCode]
NewPlace == Place(Unset, Unset, Unset, Unset)
Written(place) == place # NewPlace
Master(cc) == Place(0, 0, 0, cc)
Below(place, pub, nChild, cc) == Place((place.nDepth + 1) % Depths, GetID(pub), nChild, cc)

\* The 74 bytes: nChild with its highest byte first.
BigEndian(n) == [i \in 1 .. 4 |-> (n \div Weight[i]) % Digit]
FromBigEndian(b) == b[1] * Weight[1] + b[2] * Weight[2] + b[3] * Weight[3] + b[4] * Weight[4]
Code(place, pad, data) ==
  [nDepth |-> place.nDepth, vchFingerprint |-> place.vchFingerprint, nChild |-> BigEndian(place.nChild),
   vchChainCode |-> place.vchChainCode, pad |-> pad, data |-> data]
DecodePlace(code) == Place(code.nDepth, code.vchFingerprint, FromBigEndian(code.nChild), code.vchChainCode)

\* The byte before the secret is zero; reading does not look at it.
EncodeKey(place, key) == Code(place, 0, key.vch)
DecodeKey(key, code) == SetKey(key, TRUE, code.data, TRUE)
\* For a public key it is the header.
EncodePub(place, pub) == Code(place, pub.header, pub.x)
DecodePub(pub, code) == Set(pub, Vector(33, code.pad, code.data, 0))
=============================================================================
