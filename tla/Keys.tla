-------------------------------- MODULE Keys --------------------------------
(***************************************************************************)
(* An extended private key and an extended public key, and every operation *)
(* of the keys in them (src/src/bitcoin/key.h, src/src/bitcoin/key.cpp).   *)
(* The secret of the one and the public key of the other also stand for a  *)
(* CKey and a CPubKey of their own.                                        *)
(***************************************************************************)
EXTENDS ExtKey

CONSTANTS Secrets,      \* 32 bytes given as a secret
          PrivKeys,     \* private keys in DER
          Vectors,      \* bytes given as a public key
          Hashes,       \* hashes that are signed
          Signatures,   \* signatures that come from elsewhere
          Children,     \* child numbers
          Codes         \* 74 bytes given as an extended key

ASSUME GivenAssumption ==
  /\ Secrets \subseteq Bytes32 /\ Hashes \subseteq Bytes32 /\ Children \subseteq ChildNumbers
  /\ PrivKeys \subseteq [parses : BOOLEAN, secret : Bytes32, point : 0 .. Order - 1]
  /\ Vectors \subseteq [len : Nat, header : 0 .. 255, x : Bytes32, y : Bytes32]
  /\ Signatures \subseteq [der : BOOLEAN, header : 0 .. 255, r : Bytes32, s : Bytes32]
  /\ Codes \subseteq [nDepth : 0 .. Depths - 1, vchFingerprint : Int, nChild : [1 .. 4 -> 0 .. Digit - 1],
                      vchChainCode : ChainCodes, pad : 0 .. 255, data : Bytes32]

VARIABLES place,      \* the fields of the CExtKey, and
          key,        \* its CKey
          pubPlace,   \* the fields of the CExtPubKey, and
          pubkey,     \* its CPubKey
          sig,        \* the signature made or taken last, and
          hash,       \* what it signs
          skipped,    \* whether Load took the secret without a check
          op          \* the call of before, if its result is watched

vars == <<place, key, pubPlace, pubkey, sig, hash, skipped, op>>

NoSignature == Der([r |-> 0, s |-> 0])
Nothing == [name |-> "none", ret |-> TRUE]
\* The properties watch what some operations return.
Called(name, ret) == op' = [name |-> name, ret |-> ret]
Unwatched == op' = Nothing

Init ==
  /\ place = NewPlace /\ key = NewKey
  /\ pubPlace = NewPlace /\ pubkey = NewPub
  /\ sig = NoSignature /\ hash = 0
  /\ skipped = FALSE /\ op = Nothing

-----------------------------------------------------------------------------
\* The private key.
OnlyKey == UNCHANGED <<place, pubPlace, pubkey, sig, hash>>

SetBytes ==
  \E vch \in Secrets, fits, fCompressed \in BOOLEAN :
    /\ key' = SetKey(key, fits, vch, fCompressed)
    /\ skipped' = FALSE /\ Unwatched /\ OnlyKey

\* RAND_bytes until the number is in range.
MakeNewKey ==
  \E vch \in Secrets, fCompressed \in BOOLEAN :
    /\ Check(vch)
    /\ key' = MakeKey(vch, fCompressed)
    /\ skipped' = FALSE /\ Unwatched /\ OnlyKey

\* Private keys in DER come from elsewhere, or from the key itself.
Offered == PrivKeys \cup IF key.fValid /\ ~skipped THEN {GetPrivKey(key)} ELSE {}

SetPrivate ==
  \E privkey \in Offered, fCompressed \in BOOLEAN :
    LET ret == SetPrivKey(privkey, FALSE)
    IN /\ key' = IF ret THEN MakeKey(privkey.secret, fCompressed) ELSE key
       /\ skipped' = (skipped /\ ~ret) /\ Unwatched /\ OnlyKey

LoadKey ==
  \E privkey \in Offered, fSkipCheck \in BOOLEAN :
    LET load == Load(key, privkey, pubkey, fSkipCheck)
    IN /\ key' = load.key
       /\ skipped' = IF SetPrivKey(privkey, fSkipCheck) THEN fSkipCheck ELSE skipped
       /\ (IF fSkipCheck THEN Unwatched ELSE Called("Load", load.ret)) /\ OnlyKey

SignHash ==
  /\ key.fValid /\ ~skipped
  /\ \E e \in Hashes :
       /\ sig' \in {Der(t) : t \in Sign(key.vch, e)} /\ hash' = e
       /\ Called("Sign", TRUE) /\ UNCHANGED <<place, key, pubPlace, pubkey, skipped>>
SignHashCompact ==
  /\ key.fValid /\ ~skipped
  /\ \E e \in Hashes :
       /\ sig' \in SignCompact(key, e) /\ hash' = e
       /\ Called("SignCompact", TRUE) /\ UNCHANGED <<place, key, pubPlace, pubkey, skipped>>

-----------------------------------------------------------------------------
\* The public key.
OnlyPub == UNCHANGED <<place, key, pubPlace, sig, hash, skipped>>

TakePublic ==
  /\ key.fValid
  /\ pubkey' = PublicOf(key)
  /\ Unwatched /\ OnlyPub

SetPub ==
  \E v \in Vectors : pubkey' = Set(pubkey, v) /\ Unwatched /\ OnlyPub

ReadPub ==
  \E v \in Vectors : pubkey' = Unserialize(pubkey, v) /\ Unwatched /\ OnlyPub

Decompress ==
  /\ pubkey' = Decompressed(pubkey)
  /\ Unwatched /\ OnlyPub

ReceiveSignature ==
  \E e \in Hashes, s \in Signatures :
    /\ sig' = s /\ hash' = e
    /\ Unwatched /\ UNCHANGED <<place, key, pubPlace, pubkey, skipped>>

RecoverPub ==
  /\ ~sig.der
  /\ LET found == RecoverCompact(hash, sig)
     IN /\ pubkey' = IF found = {} THEN pubkey
                     ELSE GetPubKey(CHOOSE q \in found : TRUE, pubkey, AsksCompressed(sig.header))
        /\ Called("RecoverCompact", found # {})
  /\ OnlyPub

-----------------------------------------------------------------------------
\* The extended keys.
SetMaster ==
  \E vch \in Secrets, cc \in {c.vchChainCode : c \in Codes} :
    /\ key' = SetKey(key, TRUE, vch, TRUE) /\ place' = Master(cc)
    /\ skipped' = FALSE /\ Unwatched /\ UNCHANGED <<pubPlace, pubkey, sig, hash>>

CanDerive == key.fValid /\ key.fCompressed /\ Written(place) /\ ~skipped
DeriveChild ==
  /\ CanDerive
  /\ \E nChild \in Children :
       LET child == DeriveKey(key, nChild, place.vchChainCode)
       IN /\ key' = child.key
          /\ place' = Below(place, PublicOf(key), nChild, child.cc)
          /\ Unwatched
  /\ UNCHANGED <<pubPlace, pubkey, sig, hash, skipped>>

DerivePublicChild ==
  /\ IsCompressed(pubkey) /\ Written(pubPlace)
  /\ \E nChild \in Children :
       /\ ~Hardened(nChild)
       /\ LET child == DerivePub(pubkey, pubkey, nChild, pubPlace.vchChainCode)
          IN /\ pubkey' = child.pub
             /\ pubPlace' = Below(pubPlace, pubkey, nChild, child.cc)
             /\ Unwatched
  /\ UNCHANGED <<place, key, sig, hash, skipped>>

Neuter ==
  /\ key.fValid /\ Written(place)
  /\ pubkey' = PublicOf(key) /\ pubPlace' = place
  /\ Unwatched /\ UNCHANGED <<place, key, sig, hash, skipped>>

Decode ==
  \E code \in Codes :
    /\ key' = DecodeKey(key, code) /\ place' = DecodePlace(code)
    /\ skipped' = FALSE /\ Unwatched /\ UNCHANGED <<pubPlace, pubkey, sig, hash>>

DecodePublic ==
  \E code \in Codes :
    /\ pubkey' = DecodePub(pubkey, code) /\ pubPlace' = DecodePlace(code)
    /\ Unwatched /\ UNCHANGED <<place, key, sig, hash, skipped>>

\* One process uses each of the two keys as it likes.
Keeping == SetBytes \/ MakeNewKey \/ SetPrivate \/ LoadKey
Publishing == TakePublic \/ SetPub \/ ReadPub \/ Decompress
Making == SignHash \/ SignHashCompact \/ ReceiveSignature
Signing == Making \/ RecoverPub
Deriving == SetMaster \/ DeriveChild \/ DerivePublicChild \/ Neuter \/ Decode \/ DecodePublic
Next == Keeping \/ Publishing \/ Signing \/ Deriving
Spec == Init /\ [][Next]_vars

-----------------------------------------------------------------------------
\* Properties.
Defined(S) == S \cup {Unset}
PlaceType ==
  {NewPlace} \cup
  [nDepth : 0 .. Depths - 1, vchFingerprint : Int, nChild : ChildNumbers, vchChainCode : ChainCodes]

\* The members have their types, and the depth stays in its byte.
TypeOK ==
  /\ place \in PlaceType /\ pubPlace \in PlaceType
  /\ key \in [fValid : BOOLEAN, fCompressed : Defined(BOOLEAN), vch : Defined(Bytes32)]
  /\ pubkey \in [header : 0 .. 255, x : Defined(Bytes32), y : Defined(Bytes32)]
  /\ sig \in [der : BOOLEAN, header : 0 .. 255, r : Bytes32, s : Bytes32]
  /\ hash \in Bytes32 /\ skipped \in BOOLEAN
  /\ op \in [name : {"none", "Load", "Sign", "SignCompact", "RecoverCompact"}, ret : BOOLEAN]

\* A private key that says it is valid holds a secret in range and knows its
\* form, after any sequence of calls that failed or succeeded, unless Load was
\* told not to check (key.h, CKey::fValid); its form in DER passes the check.
ValidIsDefined ==
  key.fValid => key.fCompressed \in BOOLEAN /\ (skipped \/ SetPrivKey(GetPrivKey(key), FALSE))

\* Load with its check returns true only for the key whose public key was
\* given, in the very form that was given; refusing it leaves the old key, or
\* a valid one of another public key or form.
LoadMatches ==
  op.name = "Load" =>
    /\ op.ret => key.fValid /\ Same(PublicOf(key), pubkey)
    /\ ~op.ret /\ key.fValid /\ ~skipped => IsFullyValid(PublicOf(key))

\* A signature has the low S and still verifies with the public key of the
\* signer, in either form: the negation is of s alone (CECKey::Sign).
SignedLow ==
  op.name = "Sign" =>
    /\ 2 * sig.s < Order
    /\ \A fCompressed \in BOOLEAN :
         Verify(GetPubKey(Multiple(key.vch), NewPub, fCompressed), hash, sig)

\* A compact signature of one of the first three candidates gives the signer's
\* public key back, in the signer's form, and verifies with it in either form:
\* the candidate is the first of four that gives the key, and two abscissas can
\* leave the same r.  SignCompact also writes the fourth (CompactGivesKeyBack).
CompactRecovers ==
  op.name = "SignCompact" /\ Candidate(sig.header) # 3 =>
    /\ RecoverCompact(hash, sig) = {Multiple(key.vch)}
    /\ AsksCompressed(sig.header) = key.fCompressed
    /\ \A fCompressed \in BOOLEAN :
         VerifyCompact(GetPubKey(Multiple(key.vch), NewPub, fCompressed), hash, sig)

\* "Create a compact signature (65 bytes), which allows reconstructing the used
\* public key", whose header is one of four, up to "0x1E = second key with odd
\* y" (key.h:260-263): of every signature of SignCompact, RecoverCompact gives
\* the key back.  CECKey::Recover refuses the fourth (key.cpp:273).
CompactGivesKeyBack ==
  op.name = "SignCompact" => RecoverCompact(hash, sig) = {Multiple(key.vch)}

\* What RecoverCompact leaves when it returns true: an invalid public key if
\* what it found is infinity, or else one that accepts the two numbers as a
\* signature, unless one of them is out of range.
RecoveredVerifies ==
  op.name = "RecoverCompact" /\ op.ret =>
    /\ IsValid(pubkey) <=> Infinity \notin RecoverCompact(hash, sig)
    /\ Verify(pubkey, hash, sig) <=> IsValid(pubkey) /\ sig.r \in Scalar /\ sig.s \in Scalar

\* "If this function succeeds, the recovered public key is guaranteed to be
\* valid (the signature is a valid signature of the given data for that key)"
\* (key.cpp:269-270, CECKey::Recover, which RecoverCompact calls).
RecoveredIsValid ==
  op.name = "RecoverCompact" /\ op.ret => IsValid(pubkey) /\ Verify(pubkey, hash, sig)

\* The public key in another form is the same key: a signature that verifies
\* with one verifies with all, for Decompress keeps the point, and a key that
\* has none is left as it was and verifies nothing.
FormsAgree ==
  LET other == Decompressed(pubkey)
  IN IF IsFullyValid(pubkey) THEN SetPubKey(other) = SetPubKey(pubkey) /\ ~IsCompressed(other)
     ELSE other = pubkey /\ ~\E e \in Hashes : Verify(pubkey, e, sig)

\* Every hybrid form that is taken for a point has the parity of the point, so
\* that a point has one form of each header.
OneFormOfEach ==
  \A q \in SetPubKey(pubkey) :
    \E h \in {2, 3, 4, 6, 7} :
      LET v == Encoded(q, h \in {2, 3})
      IN /\ Same(pubkey, [header |-> h, x |-> v.x, y |-> v.y])
         /\ h # 4 => h % 2 = Coordinates[q].y % 2

\* Deriving and making public commute for every child that is not hardened,
\* in what they return and in what they derive.
DerivationsAgree ==
  CanDerive =>
    \A nChild \in Children :
      ~Hardened(nChild) =>
        LET child == DeriveKey(key, nChild, place.vchChainCode)
            pubChild == DerivePub(PublicOf(key), NewPub, nChild, place.vchChainCode)
        IN /\ child.ret = pubChild.ret /\ child.cc = pubChild.cc
           /\ child.ret => Same(PublicOf(child.key), pubChild.pub)

\* The 74 bytes of an extended key give it back, whatever stood there before.
EncodingReadsBack ==
  /\ CanDerive =>
       LET code == EncodeKey(place, key)
       IN DecodePlace(code) = place /\ \A k \in {key, NewKey} : SameKey(DecodeKey(k, code), key)
  /\ IsCompressed(pubkey) /\ Written(pubPlace) =>
       LET code == EncodePub(pubPlace, pubkey)
       IN DecodePlace(code) = pubPlace /\ Same(DecodePub(NewPub, code), pubkey)

\* A valid public key that is written is read back over any other, and of the
\* key that stood there nothing is left in use by a vector that is too long or
\* as long as its header says.  What a shorter or longer one does not overwrite
\* stays (CPubKey::Unserialize): all of the old key for an empty vector, its
\* tail for 33 bytes behind the header of 65.
SerializedReadsBack ==
  \A v \in Vectors :
    LET old == Unserialize(NewPub, v)
    IN /\ IsValid(pubkey) => Same(Unserialize(old, Serialized(pubkey)), pubkey)
       /\ v.len > 65 \/ (v.len > 0 /\ v.len = GetLen(v.header)) => Same(Unserialize(pubkey, v), old)

\* A key that calls itself valid is one, of the public key it was loaded with.
KeyIsSound == TypeOK /\ ValidIsDefined /\ LoadMatches

\* What a key signs verifies with its public key, in each form, and gives the
\* public key back where recovery looks at its candidate.
SignaturesVerify == SignedLow /\ CompactRecovers /\ RecoveredVerifies

\* One point is one public key, however it is derived, written, read or
\* decompressed.
KeysAreOne == OneFormOfEach /\ DerivationsAgree /\ EncodingReadsBack /\ SerializedReadsBack /\ FormsAgree
=============================================================================
