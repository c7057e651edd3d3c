------------------------------- MODULE MCTrie -------------------------------
(* PatriciaTrie with keys that differ in their first items, of four bits.  *)
(* Three of the keys have a second item.                                   *)
EXTENDS PatriciaTrie

MCKey ==
  {<<i>> : i \in SUBSET {0, 2, 3} \ {{0, 2, 3}}} \cup
  {<<{0, 2, 3}, {}>>, <<{0, 1}, {0}>>, <<{0, 1, 3}, {}>>}

ASSUME MCKeyAssumption == DifferFirst

=============================================================================
