------------------------------ MODULE MapCalls ------------------------------
(* The calls threads make on a ShardMap and the answers they get, shared   *)
(* by what it promises (ConcurrentMap) and what it does (ShardMap).        *)
EXTENDS Integers, FiniteSets

CONSTANTS
  Threads,
  Keys,
  Values,     \* 0 .. n
  None        \* no value: the key is not in the map

NoCall == [op |-> "none", key |-> None, value |-> None]

Result(what, value) == [what |-> what, value |-> value]

NoResult == Result("none", None)

YesNo(b) == Result(IF b THEN "true" ELSE "false", None)

KeyCall(op, k) == [NoCall EXCEPT !.op = op, !.key = k]

Calls ==
  [op : {"insert", "load"}, key : Keys, value : Values]
    \cup [op : {"contains", "erase", "at", "update"}, key : Keys, value : {None}]
    \cup [op : {"size", "empty", "update_each"}, key : {None}, value : {None}]

PresentIn(m) == {k \in Keys : m[k] # None}

\* The updater the callers use: values go round.
Updated(v) == IF v + 1 \in Values THEN v + 1 ELSE 0

=============================================================================
