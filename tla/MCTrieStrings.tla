---------------------------- MODULE MCTrieStrings ----------------------------
(* PatriciaTrie with strings of two items, of two bits each.  No item is   *)
(* the terminator of a string.                                             *)
EXTENDS PatriciaTrie

MCKey == {<<i, j>> : i, j \in Item \ {{}}}

=============================================================================
