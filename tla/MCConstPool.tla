---------------------------- MODULE MCConstPool ----------------------------
(* ConstPool at the limit of its index type.  Owners write an index that   *)
(* is in the pool, and one that is not.                                    *)
EXTENDS ConstPool

MCData == {1, size}

=============================================================================
