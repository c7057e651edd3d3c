------------------------------- MODULE MCTree -------------------------------
(* Tree on a small set of keys: every call from every state.               *)
EXTENDS Tree

CONSTANT Size

MCKeys == 1 .. Size

-----------------------------------------------------------------------------
(* The buffer against the height an AVL tree can have.  Only the fewest    *)
(* nodes matter: a larger count gives a larger buffer.                     *)

\* The fewest nodes of an AVL tree of height h.
Fewest[h \in Nat] == IF h < 2 THEN h ELSE 1 + Fewest[h - 1] + Fewest[h - 2]

\* The stack holds at most one node for each level above the lowest.
ASSUME BufferIsEnough ==
  \A h \in 1 .. 24 : BufferSize(Fewest[h]) >= h - 1

=============================================================================
