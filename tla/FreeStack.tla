------------------------------ MODULE FreeStack ------------------------------
(***************************************************************************)
(* What ConstPool promises: a stack of free elements.  Alloc hands out the *)
(* one on top, Free puts one back on top, Reset makes it whole again.      *)
(***************************************************************************)
EXTENDS Integers, SequencesExt

CONSTANT size

VARIABLES
  free,     \* the elements that are free, the next to be handed out first
  reply     \* the last call and the element it was about

vars == <<free, reply>>

Full == [j \in 1 .. size |-> j - 1]

NoReply == [op |-> "none", index |-> size]

Init == free = Full /\ reply = NoReply

Alloc ==
  /\ free # <<>>
  /\ free' = Tail(free)
  /\ reply' = [op |-> "alloc", index |-> Head(free)]

AllocThrows ==
  /\ free = <<>>
  /\ reply' = [op |-> "bad_alloc", index |-> size]
  /\ UNCHANGED free

Free(i) ==
  /\ i \notin ToSet(free)
  /\ free' = <<i>> \o free
  /\ reply' = [op |-> "free", index |-> i]

Reset == free' = Full /\ reply' = NoReply

Next == Alloc \/ AllocThrows \/ Reset \/ \E i \in 0 .. size - 1 : Free(i)

Spec == Init /\ [][Next]_vars

=============================================================================
