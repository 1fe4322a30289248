------------------------------- MODULE Curve -------------------------------
(***************************************************************************)
(* The part of OpenSSL that src/src/bitcoin/key.cpp relies on: the group   *)
(* of secp256k1 with its coordinates, and ECDSA over it.  The group has    *)
(* prime order, so a point is the multiple of the generator that it is,    *)
(* and zero is the point at infinity.                                      *)
(***************************************************************************)
EXTENDS Integers

CONSTANTS Order,        \* the order of the group
          Field,        \* the characteristic of the field
          Coordinates,  \* of each multiple of the generator, [x, y]
          MaxBytes      \* the largest number that 32 bytes hold

Bytes32 == 0 .. MaxBytes
Scalar == 1 .. Order - 1

\* Two odd primes, by Hasse's theorem close to each other; of the order, that it
\* is prime says that every number but zero has an inverse.
ASSUME CurveAssumption ==
  /\ Order \in Nat /\ Field \in Nat /\ MaxBytes \in Nat
  /\ 2 < Order /\ Order < Field /\ Field <= MaxBytes
  /\ Order % 2 = 1 /\ Field % 2 = 1 /\ Field <= 2 * Order
  /\ \A a \in Scalar : \E b \in Scalar : (a * b) % Order = 1
  /\ Coordinates \in [Scalar -> [x : 0 .. Field - 1, y : 0 .. Field - 1]]
  /\ \A k \in Scalar :
       /\ Coordinates[Order - k] = [Coordinates[k] EXCEPT !.y = Field - @]
       /\ \A l \in Scalar \ {k, Order - k} : Coordinates[l].x # Coordinates[k].x

Infinity == 0
Multiple(n) == n % Order
InverseOf(a) == CHOOSE b \in Scalar : (a * b) % Order = 1
Over(a, b) == (a * InverseOf(b)) % Order

\* The points with that abscissa, of one parity of the ordinate.
AtAbscissa(x, odd) == {q \in Scalar : Coordinates[q].x = x /\ Coordinates[q].y % 2 = odd}

\* ECDSA_do_sign takes another nonce when r or s is zero.
DoSign(d, e) ==
  LET At(k) == [r |-> Coordinates[k].x % Order,
                s |-> Over(e + (Coordinates[k].x % Order) * d, k)]
  IN {t \in {At(k) : k \in Scalar} : t.r # 0 /\ t.s # 0}

\* ECDSA_verify, for a public key that is not at infinity.
DoVerify(q, e, t) ==
  /\ t.r \in Scalar /\ t.s \in Scalar
  /\ LET at == (Over(e, t.s) + Over(t.r, t.s) * q) % Order
     IN at # Infinity /\ Coordinates[at].x % Order = t.r
=============================================================================
