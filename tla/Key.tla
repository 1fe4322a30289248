-------------------------------- MODULE Key --------------------------------
(***************************************************************************)
(* CPubKey, CKey and the wrapper CECKey between them and OpenSSL           *)
(* (src/src/bitcoin/key.h, src/src/bitcoin/key.cpp).                       *)
(*                                                                         *)
(* The 65 bytes of a public key are its header and two numbers, a private  *)
(* key is one number, and a private key in DER is what OpenSSL parses it   *)
(* to: a secret and the public point stored with it.                       *)
(***************************************************************************)
EXTENDS Curve, FiniteSets

CONSTANTS Unset   \* what a member holds that no constructor has written

-----------------------------------------------------------------------------
\* CPubKey.
InvalidHeader == 255
NewPub == [header |-> InvalidHeader, x |-> Unset, y |-> Unset]
GetLen(header) == IF header \in {2, 3} THEN 33 ELSE IF header \in {4, 6, 7} THEN 65 ELSE 0
Size(pub) == GetLen(pub.header)
IsValid(pub) == Size(pub) > 0
IsCompressed(pub) == Size(pub) = 33
Invalidate(pub) == [pub EXCEPT !.header = InvalidHeader]

\* A vector of bytes, as far as a public key reads it.
Vector(len, header, x, y) == [len |-> len, header |-> header, x |-> x, y |-> y]
\* memcpy of the first len bytes: what follows them stays.
Copied(pub, v) ==
  IF v.len = 0 THEN pub
  ELSE [header |-> v.header, x |-> v.x, y |-> IF v.len <= 33 THEN pub.y ELSE v.y]
Set(pub, v) == IF v.len # 0 /\ v.len = GetLen(v.header) THEN Copied(pub, v) ELSE Invalidate(pub)

\* operator== compares the bytes in use.
Same(a, b) ==
  /\ a.header = b.header
  /\ IsValid(a) => a.x = b.x
  /\ Size(a) = 65 => a.y = b.y

Serialized(pub) == Vector(Size(pub), pub.header, pub.x, pub.y)
\* Only lengths above 65 invalidate; a short read throws before anything changes.
Unserialize(pub, v) == IF v.len <= 65 THEN Copied(pub, v) ELSE Invalidate(pub)

-----------------------------------------------------------------------------
\* CECKey.
Encoded(q, fCompressed) ==
  IF q = Infinity THEN Vector(1, 0, 0, 0)
  ELSE LET c == Coordinates[q]
       IN IF fCompressed THEN Vector(33, 2 + (c.y % 2), c.x, 0) ELSE Vector(65, 4, c.x, c.y)
GetPubKey(q, pub, fCompressed) == Set(pub, Encoded(q, fCompressed))

\* The points that o2i_ECPublicKey makes of the bytes: one, or none.
SetPubKey(pub) ==
  IF IsCompressed(pub) THEN AtAbscissa(pub.x, pub.header - 2)
  ELSE {q \in Scalar : /\ Size(pub) = 65
                       /\ Coordinates[q] = [x |-> pub.x, y |-> pub.y]
                       /\ pub.header # 4 => pub.header - 6 = Coordinates[q].y % 2}

\* A public key from a secret: EC_KEY_regenerate_key.
SetSecretBytes(vch) == Multiple(vch)
Check(vch) == vch \in Scalar

Private(secret, point) == [parses |-> TRUE, secret |-> secret, point |-> point]
Unparsable == [parses |-> FALSE, secret |-> 0, point |-> 0]
SetPrivKey(privkey, fSkipCheck) ==
  privkey.parses /\ (fSkipCheck \/ (Check(privkey.secret) /\ privkey.point = SetSecretBytes(privkey.secret)))

\* Low S: the larger half of the signatures is negated.
Low(t) == IF t.s > Order \div 2 THEN [t EXCEPT !.s = Order - @] ELSE t
Sign(vch, e) == {Low(t) : t \in DoSign(SetSecretBytes(vch), e)}

\* ECDSA_SIG_recover_key_GFp: the points it returns, one or none.
Recovered(e, t, recid) ==
  LET x == t.r + Order * (recid \div 2)
      R == IF x >= Field THEN {} ELSE AtAbscissa(x, recid % 2)
  IN IF t.r % Order = 0 THEN {}
     ELSE {(Over(t.s, t.r) * q + Over(Multiple(0 - e), t.r)) % Order : q \in R}

\* SignCompact looks for the first of the four that gives the key back.
RecId(vch, e, t) ==
  CHOOSE i \in 0 .. 3 : /\ SetSecretBytes(vch) \in Recovered(e, t, i)
                        /\ \A j \in 0 .. i - 1 : SetSecretBytes(vch) \notin Recovered(e, t, j)
\* The fourth candidate is refused, although signing may choose it.
Recover(e, t, rec) == IF rec < 0 \/ rec >= 3 THEN {} ELSE Recovered(e, t, rec)

TweakSecret(vch, tweak) ==
  LET sum == Multiple(vch + tweak) IN [ret |-> tweak < Order /\ sum # 0, vch |-> sum]
\* Slip: a tweak above the order is reduced.
TweakPublicReduced(q, tweak) ==
  LET sum == Multiple(q + tweak) IN [ret |-> sum # Infinity, point |-> sum]
TweakPublic(q, tweak) ==
  LET sum == Multiple(q + tweak) IN [ret |-> tweak < Order /\ sum # Infinity, point |-> sum]

-----------------------------------------------------------------------------
\* CKey, and what CPubKey does through CECKey.
NewKey == [fValid |-> FALSE, fCompressed |-> Unset, vch |-> Unset]
MakeKey(vch, fCompressed) == [fValid |-> TRUE, fCompressed |-> fCompressed, vch |-> vch]
SameKey(a, b) == a.fCompressed = b.fCompressed /\ a.fValid = b.fValid /\ (a.fValid => a.vch = b.vch)
\* Bytes of another length, and numbers out of range, only take the validity.
SetKey(key, fits, vch, fCompressed) ==
  IF fits /\ Check(vch) THEN MakeKey(vch, fCompressed) ELSE [key EXCEPT !.fValid = FALSE]

PublicOf(key) == GetPubKey(SetSecretBytes(key.vch), NewPub, key.fCompressed)
GetPrivKey(key) == Private(key.vch, SetSecretBytes(key.vch))

\* Slip: the form of the public key is not taken over.
LoadCompressed(key, privkey, pub, fSkipCheck) ==
  LET loaded == MakeKey(privkey.secret, TRUE)
  IN IF ~SetPrivKey(privkey, fSkipCheck) THEN [ret |-> FALSE, key |-> key]
     ELSE [ret |-> fSkipCheck \/ SetSecretBytes(privkey.secret) \in SetPubKey(pub), key |-> loaded]
\* Load writes the key before it compares the public key.
Load(key, privkey, pub, fSkipCheck) ==
  LET loaded == MakeKey(privkey.secret, IsCompressed(pub))
  IN IF ~SetPrivKey(privkey, fSkipCheck) THEN [ret |-> FALSE, key |-> key]
     ELSE [ret |-> fSkipCheck \/ Same(PublicOf(loaded), pub), key |-> loaded]

\* Signatures: in DER, and the compact ones whose header names a candidate.
Der(t) == [der |-> TRUE, header |-> 0, r |-> t.r, s |-> t.s]
Compact(header, t) == [der |-> FALSE, header |-> header, r |-> t.r, s |-> t.s]
\* Slip: the header forgets the form of the key.
CompactHeaderBare(key, rec) == 27 + rec
CompactHeader(key, rec) == 27 + rec + IF key.fCompressed THEN 4 ELSE 0
SignCompact(key, e) ==
  {Compact(CompactHeader(key, RecId(key.vch, e, t)), t) : t \in DoSign(SetSecretBytes(key.vch), e)}

\* (header - 27) & ~4 and (header - 27) & 4.
Candidate(header) ==
  IF header < 27 THEN -1 ELSE (header - 27) - IF ((header - 27) \div 4) % 2 = 1 THEN 4 ELSE 0
AsksCompressed(header) == header >= 27 /\ ((header - 27) \div 4) % 2 = 1

Verify(pub, e, sig) == IsValid(pub) /\ \E q \in SetPubKey(pub) : DoVerify(q, e, sig)
RecoverCompact(e, sig) == Recover(e, sig, Candidate(sig.header))
VerifyCompact(pub, e, sig) ==
  /\ IsValid(pub)
  /\ \E q \in RecoverCompact(e, sig) : Same(pub, GetPubKey(q, NewPub, IsCompressed(pub)))
IsFullyValid(pub) == IsValid(pub) /\ SetPubKey(pub) # {}
\* Bytes that are no point stay as they are.
Decompressed(pub) ==
  IF IsFullyValid(pub) THEN GetPubKey(CHOOSE q \in SetPubKey(pub) : TRUE, pub, FALSE) ELSE pub
=============================================================================
