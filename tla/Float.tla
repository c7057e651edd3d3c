-------------------------------- MODULE Float --------------------------------
(***************************************************************************)
(* Natural numbers as floats.  A float has a fixed number of digits: up to *)
(* FloatRange every number is one, from there to twice that every other,   *)
(* then every fourth, and so on.                                           *)
(***************************************************************************)
EXTENDS Integers

CONSTANT FloatRange     \* 2^24 for a float of 32 bits

\* The distance of the floats around x.
Ulp(x) ==
  LET ulp[y \in 0 .. x] == IF y < FloatRange THEN 1 ELSE 2 * ulp[y \div 2]
  IN  ulp[x]

\* The float nearest to x; of two that are as near, the one with even digits.
Rounded(x) ==
  LET nearest[u \in Nat] ==
        LET q == x \div u
            r == x % u
        IN  IF 2 * r > u \/ (2 * r = u /\ q % 2 = 1) THEN (q + 1) * u ELSE q * u
  IN  nearest[Ulp(x)]

=============================================================================
