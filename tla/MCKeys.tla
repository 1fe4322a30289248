------------------------------- MODULE MCKeys -------------------------------
(***************************************************************************)
(* The curve y^2 = x^3 + 3 modulo 19, of order 13: abscissa 14 is above the *)
(* order and leaves the remainder of abscissa 1, so that all four candidate *)
(* keys of a signature occur.  32 bytes hold the numbers up to 20, a byte   *)
(* of a child number has two values and a depth three.                      *)
(***************************************************************************)
EXTENDS Keys

MCCoordinates ==
  LET pts == <<<<1, 2>>, <<14, 12>>, <<11, 2>>, <<7, 17>>, <<3, 12>>, <<2, 12>>,
               <<2, 7>>, <<3, 7>>, <<7, 2>>, <<11, 17>>, <<14, 7>>, <<1, 17>>>>
  IN [k \in 1 .. 12 |-> [x |-> pts[k][1], y |-> pts[k][2]]]

MCTweak(cc, nChild, header, data) == (5 * cc + 7 * nChild + header + 3 * data) % 15
MCChain(cc, nChild, header, data) == (cc + nChild + header + data) % 2
MCKeyHash(b) == (b[1] + 2 * b[2]) % 3

MCChainCodes == {0, 1}
MCSecrets == {0, 1, 6, 12, 13, 20}
MCPrivKeys ==
  {Unparsable} \cup {Private(s, Multiple(s)) : s \in {0, 2, 7, 13}} \cup {Private(2, 5), Private(14, 1)}
MCVectors ==
  {Vector(0, 0, 0, 0), Vector(66, 4, 1, 2), Vector(65, 2, 7, 1), Vector(65, 4, 1, 3), Vector(1, 0, 0, 0),
   Vector(33, 4, 1, 0), Vector(33, 2, 5, 0), Vector(33, 3, 14, 0), Vector(33, 2, 2, 0),
   Vector(65, 4, 2, 12), Vector(65, 6, 2, 12), Vector(65, 7, 2, 12), Vector(65, 7, 11, 17)}
MCHashes == {0, 3, 14}
MCSignatures ==
  {Compact(h, [r |-> r, s |-> s]) :
     h \in {26, 27, 28, 29, 30, 31, 34, 35}, r \in {0, 1, 2, 14, 20}, s \in {0, 1, 5, 13}}
\* Of one: its recovered key is the point at infinity for the hash 14.
OneSignature == {Compact(27, [r |-> 1, s |-> 1])}
MCChildren == {0, 1, 7, 8}
MCCodes == {Code(Place(d, f, 1, cc), p, x) : d \in {2}, f \in {0}, cc \in {0, 1}, p \in {0, 2, 3}, x \in {0, 3, 5, 14}}

\* Bounds: signatures are made and taken while no public key is there and no
\* extended key written; of the two extended keys one is derived, or both are
\* from where they agree.
Fresh == place = NewPlace /\ pubPlace = NewPlace
Together == pubPlace = NewPlace \/ place = NewPlace \/ place = pubPlace
MCNext ==
  \/ Fresh /\ sig = NoSignature /\ (Keeping \/ Publishing)
  \/ Fresh /\ sig = NoSignature /\ pubkey = NewPub /\ Making
  \/ Fresh /\ sig # NoSignature /\ (RecoverPub \/ Decompress)
  \/ sig = NoSignature /\ ~skipped /\ (pubkey = NewPub \/ Written(pubPlace)) /\ Deriving /\ Together'
MCSpec == Init /\ [][MCNext]_vars
=============================================================================
