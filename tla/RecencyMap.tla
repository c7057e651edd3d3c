------------------------------ MODULE RecencyMap ------------------------------
(***************************************************************************)
(* What rlu_map promises: keys in an order of recency, of which an insert  *)
(* that makes the map too heavy keeps only a light enough front part.      *)
(***************************************************************************)
EXTENDS Float, SequencesExt, Functions

CONSTANTS
  Key,
  Value,            \* a value is represented by its weight
  maxWeight,
  factor,           \* purge_factor is factor / FactorUnit
  FactorUnit

VARIABLES
  order,            \* the keys, the most recent one first
  contents          \* the values of the keys

vars == <<order, contents>>

Init == order = <<>> /\ contents = <<>>

\* The contents c when only the keys of o are kept.
Kept(c, o) == Restrict(c, ToSet(o))

Full(c) == SumFunction(c) >= maxWeight

\* Not above maxWeight * factor, as floats compare.
Light(c) ==
  FactorUnit * Rounded(SumFunction(c)) <= Rounded(Rounded(maxWeight) * factor)

\* The longest front part of o that is light enough.
LightFront(o, c) ==
  LET n == CHOOSE n \in 0 .. Len(o) :
             /\ n = 0 \/ Light(Kept(c, SubSeq(o, 1, n)))
             /\ \A m \in n + 1 .. Len(o) : ~Light(Kept(c, SubSeq(o, 1, m)))
  IN  SubSeq(o, 1, n)

Insert(k, v, p) ==
  LET o == InsertAt(order, p, k)
      c == [j \in ToSet(order) \cup {k} |-> IF j = k THEN v ELSE contents[j]]
  IN  /\ k \notin ToSet(order)
      /\ order' = IF Full(c) THEN LightFront(o, c) ELSE o
      /\ contents' = Kept(c, order')

Touch(k) ==
  /\ k \in ToSet(order)
  /\ order' = <<k>> \o RemoveFirst(order, k)
  /\ UNCHANGED contents

Erase(k) ==
  /\ k \in ToSet(order)
  /\ order' = RemoveFirst(order, k)
  /\ contents' = Kept(contents, order')

Clear == order' = <<>> /\ contents' = <<>>

Next ==
  \/ \E k \in Key, v \in Value, p \in 1 .. Len(order) + 1 : Insert(k, v, p)
  \/ \E k \in Key : Touch(k) \/ Erase(k)
  \/ Clear

Spec == Init /\ [][Next]_vars

=============================================================================
