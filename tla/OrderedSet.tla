----------------------------- MODULE OrderedSet -----------------------------
(***************************************************************************)
(* What binary_tree::tree promises its caller: a set of keys.  A call      *)
(* begins, and later takes effect at once, with the result and the size()  *)
(* that the caller sees when it returns.  There are two trees, the one the *)
(* calls go to and the one it may swap its contents with.                  *)
(***************************************************************************)
EXTENDS Integers, FiniteSets, Sequences

CONSTANTS Keys, Null

VARIABLES
  contents,   \* the keys of the tree that is called
  other,      \* the keys of the tree it may be swapped with
  reply       \* the last call, with its result; NoReply while one is running

vars == <<contents, other, reply>>

NoReply == [op |-> "none", key |-> Null, result |-> "none", size |-> 0,
            visited |-> <<>>]

Reply(op, key, result, size) ==
  [NoReply EXCEPT !.op = op, !.key = key, !.result = result, !.size = size]

\* keys is met in this order by an in-order walk: the order is strict, and
\* what has been met comes before everything of S that has not.
IsWalkOf(seen, S, descending) ==
  LET Before(a, b) == IF descending THEN a > b ELSE a < b
      Seen == {seen[i] : i \in DOMAIN seen}
  IN  /\ Seen \subseteq S
      /\ \A i \in 1 .. Len(seen) - 1 : Before(seen[i], seen[i + 1])
      /\ \A a \in Seen, b \in S \ Seen : Before(a, b)

Init ==
  /\ contents = {}
  /\ other = {}
  /\ reply = NoReply

Begin ==
  /\ reply # NoReply
  /\ reply' = NoReply
  /\ UNCHANGED <<contents, other>>

Insert(k) ==
  /\ contents' = contents \cup {k}
  /\ reply' = Reply("insert", k, IF k \in contents THEN "present" ELSE "inserted",
                    Cardinality(contents'))
  /\ UNCHANGED other

\* No memory for the node: the set is as it was.
InsertThrows(k) ==
  /\ k \notin contents
  /\ reply' = Reply("insert", k, "bad_alloc", Cardinality(contents))
  /\ UNCHANGED <<contents, other>>

Erase(k) ==
  /\ contents' = contents \ {k}
  /\ reply' = Reply("erase", k, IF k \in contents THEN "erased" ELSE "absent",
                    Cardinality(contents'))
  /\ UNCHANGED other

Count(k) ==
  /\ reply' = Reply("count", k, IF k \in contents THEN "present" ELSE "absent",
                    Cardinality(contents))
  /\ UNCHANGED <<contents, other>>

Clear ==
  /\ contents' = {}
  /\ reply' = Reply("clear", Null, "cleared", 0)
  /\ UNCHANGED other

\* The visitor sees the keys in order, and all of them unless it asks to stop.
Enumerate ==
  /\ reply'.op \in {"ascending", "descending"}
  /\ reply'.result \in {"stopped", "complete"}
  /\ reply' = [Reply(reply'.op, Null, reply'.result, Cardinality(contents))
                 EXCEPT !.visited = reply'.visited]
  /\ IsWalkOf(reply'.visited, contents, reply'.op = "descending")
  /\ reply'.result = "complete" => Len(reply'.visited) = Cardinality(contents)
  /\ UNCHANGED <<contents, other>>

Swap ==
  /\ contents' = other
  /\ other' = contents
  /\ reply' = Reply("swap", Null, "swapped", Cardinality(other))

TakeEffect ==
  \/ \E k \in Keys : Insert(k) \/ InsertThrows(k) \/ Erase(k) \/ Count(k)
  \/ Clear
  \/ Enumerate
  \/ Swap

Next == Begin \/ (reply = NoReply /\ TakeEffect)

Spec == Init /\ [][Next]_vars

=============================================================================
