------------------------------- MODULE Base58 -------------------------------
(***************************************************************************)
(* Text of bytes: base 58 with and without a checksum, and what the class  *)
(* CBase58Data makes of it (src/src/bitcoin/base58.h).  A character is its *)
(* place in the alphabet, Space, or another one that is not in it.         *)
(***************************************************************************)
EXTENDS BigNum
LOCAL INSTANCE SequencesExt

CONSTANTS Base,         \* 58 in the code
          CheckBytes,   \* bytes of the checksum; 4 in the code
          Checksum(_)   \* of bytes

ASSUME Base58Assumption == Base \in Nat \ {0, 1} /\ CheckBytes \in Nat \ {0}

First(S, none) == IF S = {} THEN none ELSE CHOOSE i \in S : \A j \in S : i <= j
\* What comes before the first element that is not of the set.
Leading(s, S) == SubSeq(s, 1, First({i \in DOMAIN s : s[i] \notin S}, Len(s) + 1) - 1)
Zeroes(n) == [i \in 1 .. n |-> 0]

\* An extra zero keeps the number positive; zeroes in front have a character each.
EncodeBase58(bytes) ==
  Leading(bytes, {0}) \o Numeral(setvch(Append(Reverse(bytes), 0)), Base)

\* The byte that only holds the sign is cut off.
Unsigned(v) ==
  IF Len(v) >= 2 /\ v[Len(v)] = 0 /\ v[Len(v) - 1] >= TopBit THEN Front(v) ELSE v
Decoded(ret, bytes) == [ret |-> ret, bytes |-> bytes]
\* Spaces around the number are skipped; anything else refuses the text.
DecodeBase58(text) ==
  LET digits == Leading(SkipSpaces(text), 0 .. Base - 1)
      after == SkipSpaces(SubSeq(SkipSpaces(text), Len(digits) + 1, Len(SkipSpaces(text))))
      number == Unsigned(getvch(DigitsValue(digits, Base)))
  IN IF after # <<>> THEN Decoded(FALSE, <<>>)
     ELSE Decoded(TRUE, Zeroes(Len(Leading(digits, {0}))) \o Reverse(number))

EncodeBase58Check(bytes) == EncodeBase58(bytes \o Checksum(bytes))
\* Whatever is wrong, no byte is left.
DecodeBase58Check(text) ==
  LET all == DecodeBase58(text).bytes
      bytes == SubSeq(all, 1, Len(all) - CheckBytes)
  IN IF ~DecodeBase58(text).ret \/ Len(all) < CheckBytes THEN Decoded(FALSE, <<>>)
     ELSE IF all # bytes \o Checksum(bytes) THEN Decoded(FALSE, <<>>) ELSE Decoded(TRUE, bytes)

-----------------------------------------------------------------------------
\* CBase58Data.
Base58Data(vchVersion, vchData) == [vchVersion |-> vchVersion, vchData |-> vchData]
NoData == Base58Data(<<>>, <<>>)
\* Slip: text that is too short leaves what was there.
SetStringKept(old, text, nVersionBytes) ==
  LET bytes == DecodeBase58Check(text).bytes
  IN IF Len(bytes) < nVersionBytes THEN [ret |-> FALSE, data |-> old]
     ELSE [ret |-> TRUE, data |-> Base58Data(SubSeq(bytes, 1, nVersionBytes),
                                             SubSeq(bytes, nVersionBytes + 1, Len(bytes)))]
\* The answer of DecodeBase58Check is not looked at: what it refuses is empty.
SetString(old, text, nVersionBytes) ==
  LET bytes == DecodeBase58Check(text).bytes
  IN IF Len(bytes) < nVersionBytes THEN [ret |-> FALSE, data |-> NoData]
     ELSE [ret |-> TRUE, data |-> Base58Data(SubSeq(bytes, 1, nVersionBytes),
                                             SubSeq(bytes, nVersionBytes + 1, Len(bytes)))]
ToText(data) == EncodeBase58Check(data.vchVersion \o data.vchData)

Precede(v, w) ==
  \/ Len(v) < Len(w) /\ IsPrefix(v, w)
  \/ \E i \in DOMAIN v \cap DOMAIN w : v[i] < w[i] /\ \A j \in 1 .. i - 1 : v[j] = w[j]
CompareTo(a, b) ==
  IF Precede(a.vchVersion, b.vchVersion) THEN -1
  ELSE IF Precede(b.vchVersion, a.vchVersion) THEN 1
  ELSE IF Precede(a.vchData, b.vchData) THEN -1
  ELSE IF Precede(b.vchData, a.vchData) THEN 1 ELSE 0
=============================================================================
