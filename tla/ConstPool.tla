------------------------------ MODULE ConstPool ------------------------------
(***************************************************************************)
(* ConstPoolBase: size elements in one block of memory.  The free ones are *)
(* a list threaded through the memory itself: a free element holds the     *)
(* index of the next one, and the last holds size.  An element that is     *)
(* handed out is its owner's, who writes over that index.                  *)
(*                                                                         *)
(* Callers free what they own and forget everything at Reset; the code     *)
(* checks neither.                                                         *)
(***************************************************************************)
EXTENDS Integers, Sequences

CONSTANTS
  size,         \* elements of the pool
  IndexRange,   \* how many values index_type has: 2^8, 2^16, 2^32 or 2^64
  Data          \* what owners write, read as an index_type

Index == 0 .. size - 1
Word == 0 .. IndexRange - 1

ASSUME ConstantsAssumption ==
  /\ size \in Nat
  /\ IndexRange \in Nat
  /\ size < IndexRange          \* the constructor asserts it
  /\ Data \subseteq Word

VARIABLES
  data,          \* the first index_type of each element
  first_empty,
  owned,         \* elements that callers hold
  pc,            \* "reset" while Reset runs, which the constructor calls, too
  i,             \* its loop variable
  reply          \* the last call and the element it was about

vars == <<data, first_empty, owned, pc, i, reply>>

Empty == INSTANCE FreeStack WITH free <- <<>>

\* The memory is fresh: it may hold anything.
Init ==
  /\ data \in [Index -> Data]
  /\ first_empty = 0
  /\ owned = {}
  /\ pc = "reset"
  /\ i = 0
  /\ reply = Empty!NoReply

-----------------------------------------------------------------------------

ResetCall ==
  /\ pc = "idle"
  /\ pc' = "reset"
  /\ i' = 0
  /\ owned' = {}
  /\ reply' = Empty!NoReply
  /\ UNCHANGED <<data, first_empty>>

\* Faulty variant of InLoop: one element too many.
InLoopPastEnd == i <= size

InLoop == i < size

\* Faulty variant of NextIndex: -1 marks the end of the list.
NextIndexMinusOne == IF i + 1 < size THEN i + 1 ELSE -1

NextIndex == (i + 1) % IndexRange

ResetLink ==
  /\ pc = "reset"
  /\ InLoop
  /\ data' = [data EXCEPT ![i] = NextIndex]
  /\ i' = (i + 1) % IndexRange
  /\ UNCHANGED <<first_empty, owned, pc, reply>>

ResetReturn ==
  /\ pc = "reset"
  /\ ~InLoop
  /\ first_empty' = 0
  /\ pc' = "idle"
  /\ UNCHANGED <<data, owned, i, reply>>

\* Faulty variant of Linked: elements are handed out by their numbers.
LinkedByNumber(e) == (e + 1) % IndexRange

\* The element after e in the list.
Linked(e) == data[e]

Alloc ==
  /\ pc = "idle"
  /\ first_empty < size
  /\ first_empty' = Linked(first_empty)
  /\ owned' = owned \cup {first_empty}
  /\ reply' = [op |-> "alloc", index |-> first_empty]
  /\ UNCHANGED <<data, pc, i>>

AllocThrows ==
  /\ pc = "idle"
  /\ first_empty >= size
  /\ reply' = [op |-> "bad_alloc", index |-> size]
  /\ UNCHANGED <<data, first_empty, owned, pc, i>>

\* Faulty variant of LinkTo: first_empty has been overwritten already.
LinkToItself(e) == e

\* What Free stores in e: where the list has begun so far.
LinkTo(e) == first_empty

Free(e) ==
  /\ pc = "idle"
  /\ e \in owned
  /\ data' = [data EXCEPT ![e] = LinkTo(e)]
  /\ first_empty' = e
  /\ owned' = owned \ {e}
  /\ reply' = [op |-> "free", index |-> e]
  /\ UNCHANGED <<pc, i>>

\* An owner writes to the address that Alloc or GetAddr gave it.
Write(e) ==
  /\ pc = "idle"
  /\ e \in owned
  /\ \E d \in Data : data' = [data EXCEPT ![e] = d]
  /\ UNCHANGED <<first_empty, owned, pc, i, reply>>

-----------------------------------------------------------------------------

Next ==
  \/ ResetCall \/ ResetLink \/ ResetReturn
  \/ Alloc \/ AllocThrows
  \/ \E e \in Index : Free(e) \/ Write(e)

\* Reset waits for nothing.
Spec == Init /\ [][Next]_vars /\ WF_vars(ResetLink \/ ResetReturn)

-----------------------------------------------------------------------------
(* Properties.                                                             *)

\* Every variable has its type: indices fit in index_type.
TypeOK ==
  /\ data \in [Index -> Word]
  /\ first_empty \in Word
  /\ owned \subseteq Index
  /\ pc \in {"idle", "reset"}
  /\ i \in 0 .. size

\* Alloc hands out no element that somebody owns, and throws only when all are
\* owned, whatever the owners have written.
NoTwoOwners ==
  pc = "idle" => IF first_empty < size THEN first_empty \notin owned ELSE owned = Index

\* The list from e on, cut off after n elements.
List[n \in Nat] ==
  [e \in Word |-> IF e >= size \/ n = 0 THEN <<>> ELSE <<e>> \o List[n - 1][data[e]]]

\* What is free, in the order of the list.  To the callers, Reset is done when
\* it begins.
free == IF pc = "reset" THEN Empty!Full ELSE List[size + 1][first_empty]

Stack == INSTANCE FreeStack

\* The free elements are a stack: each is on it once, and a call changes its
\* top only.
ImplementsStack == Stack!Spec

\* Reset ends, also when size is the greatest index_type.
ResetEnds == (pc = "reset") ~> (pc = "idle")

=============================================================================
