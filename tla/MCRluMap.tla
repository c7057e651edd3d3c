------------------------------ MODULE MCRluMap ------------------------------
(* RluMap with values of no weight, and of more than the limit.  The purge *)
(* factor is the default one, 0.75: purge aims at 24.  A float has four    *)
(* digits, so that 25 is rounded to 24, and 33 to 32.                      *)
EXTENDS RluMap

MCValue == {0, 8, 17, 33}

=============================================================================
