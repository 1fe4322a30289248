------------------------------ MODULE Numerals ------------------------------
(***************************************************************************)
(* Natural numbers in digits of any base, the most significant one first,  *)
(* and the powers of a base.                                               *)
(***************************************************************************)
EXTENDS Integers, Sequences

\* The number that digits in a base are, and the digits of a number.
DigitsValue(t, base) ==
  LET n[i \in 0 .. Len(t)] == IF i = 0 THEN 0 ELSE base * n[i - 1] + t[i]
  IN n[Len(t)]
Numeral(n, base) ==
  LET digits[m \in 0 .. n] == IF m = 0 THEN <<>> ELSE digits[m \div base] \o <<m % base>>
  IN digits[n]

Power(base, n) ==
  LET power[i \in 0 .. n] == IF i = 0 THEN 1 ELSE base * power[i - 1]
  IN power[n]
=============================================================================
