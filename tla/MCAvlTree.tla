----------------------------- MODULE MCAvlTree -----------------------------
(* AvlTree on a small set of keys.  Keys are compared, so they are not     *)
(* symmetric.                                                              *)
EXTENDS AvlTree

CONSTANT Size

MCKeys == 1 .. Size

=============================================================================
