----------------------------- MODULE MCTreeDeep -----------------------------
(* Tree at its tallest: the 54 insertions of test/avl_tree.cpp:20-27 make  *)
(* the tree of height 8 with the fewest nodes, where an erase may rotate   *)
(* at several levels and the stack of clear and enumerate is at its        *)
(* deepest.  Then the keys are erased in the order they went in, inner     *)
(* nodes before leaves, and after any of these erases one last call of any *)
(* kind but count and swap is made instead of the next.                    *)
EXTENDS Tree

CONSTANT Erased      \* bound: how many of the erases are made

VARIABLES
  toInsert,   \* the keys still to insert
  toErase     \* the keys still to erase; <<>> after the last call, too

Script ==
  <<33, 20, 46, 12, 28, 41, 51, 7, 17, 25, 31, 38, 44, 49, 53, 4, 10, 15, 19, 23,
    27, 30, 32, 36, 40, 43, 45, 48, 50, 52, 2, 6, 9, 11, 14, 16, 18, 22, 24, 26,
    29, 35, 37, 39, 42, 47, 1, 3, 5, 8, 13, 21, 34, 0>>

MCKeys == {Script[i] : i \in DOMAIN Script}

deepVars == <<treeVars, toInsert, toErase>>

DeepInit ==
  /\ TreeInit
  /\ toInsert = Script
  /\ toErase = SubSeq(Script, 1, Erased)

NextInsert ==
  /\ toInsert # <<>>
  /\ InsertCall(Head(toInsert))
  /\ toInsert' = Tail(toInsert)
  /\ UNCHANGED <<other, walk, toErase>>

NextErase ==
  /\ toInsert = <<>>
  /\ toErase # <<>>
  /\ EraseCall(Head(toErase))
  /\ toErase' = Tail(toErase)
  /\ UNCHANGED <<other, walk, toInsert>>

LastCall ==
  /\ toInsert = <<>>
  /\ toErase # <<>>
  /\ \/ \E k \in Keys : (InsertCall(k) \/ EraseCall(k)) /\ UNCHANGED <<other, walk>>
     \/ ClearCall
     \/ \E order \in Dirs : EnumerateCall(order)
  /\ toErase' = <<>>
  /\ UNCHANGED toInsert

\* The allocator does not fail and the visitor does not stop: MCTree has both.
DeepStep ==
  /\ TreeStep
  /\ reply'.result \notin {"bad_alloc", "stopped"}
  /\ UNCHANGED <<toInsert, toErase>>

DeepSpec == DeepInit /\ [][NextInsert \/ NextErase \/ LastCall \/ DeepStep]_deepVars

=============================================================================
