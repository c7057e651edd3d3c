-------------------------------- MODULE RluMap --------------------------------
(***************************************************************************)
(* rlu_map: a list of keys in their order of recency, a map from each key  *)
(* to its value and its place in the list, and the weight of all values.   *)
(* An insert that reaches maxWeight purges: it walks the list from its end *)
(* and removes elements until maxWeight * factor is not exceeded any more, *)
(* a comparison of floats.  Each turn of that loop is a step.              *)
(*                                                                         *)
(* A place in the list is named by the key there.  Allocation does not     *)
(* fail, and weights do not overflow an int.                               *)
(***************************************************************************)
EXTENDS Float, SequencesExt, Functions

CONSTANTS
  Key,
  Value,        \* a value is represented by its weight
  maxWeight,
  factor,       \* purge_factor is factor / FactorUnit
  FactorUnit,
  End           \* the list's end()

ASSUME ConstantsAssumption ==
  /\ Value \subseteq Nat
  /\ maxWeight \in Nat
  /\ factor \in Nat
  /\ FactorUnit \in Nat \ {0}
  /\ FloatRange \in Nat \ {0}
  /\ End \notin Key

PowerOfTwo(n) == \E i \in 0 .. n : 2^i = n

\* Each float that is finite and not negative is a factor: a number of few enough
\* digits, scaled by a power of two.
ASSUME FloatAssumption ==
  PowerOfTwo(FloatRange) /\ PowerOfTwo(FactorUnit) /\ Rounded(factor) = factor

VARIABLES
  orderList,
  map,          \* key to value; the place in the list is the key's
  data_weight,
  pc,           \* "purge" while the loop of purge runs
  list_it       \* its iterator, when it does

vars == <<orderList, map, data_weight, pc, list_it>>

Init ==
  /\ orderList = <<>>
  /\ map = <<>>
  /\ data_weight = 0
  /\ pc = "idle"
  /\ list_it = End

-----------------------------------------------------------------------------

clear ==
  /\ pc = "idle"
  /\ orderList' = <<>>
  /\ map' = <<>>
  /\ data_weight' = 0
  /\ UNCHANGED <<pc, list_it>>

\* Faulty variant of front: touch moves to the wrong end of the list.
frontIsBack(l, k) == Append(l, k)

front(l, k) == <<k>> \o l

\* touch of an absent key changes nothing, as insert of a present one.
touch(k) ==
  /\ pc = "idle"
  /\ k \in DOMAIN map
  /\ orderList' = front(RemoveFirst(orderList, k), k)
  /\ UNCHANGED <<map, data_weight, pc, list_it>>

\* Faulty variant of purges: the limit itself is allowed.
purgesAboveLimit(weight) == weight > maxWeight

\* Whether purge does anything.
purges(weight) == weight >= maxWeight

\* push_front and push_back insert at the first and at the last position.
insert(k, v, position) ==
  /\ pc = "idle"
  /\ k \notin DOMAIN map
  /\ data_weight' = data_weight + v
  /\ orderList' = InsertAt(orderList, position, k)
  /\ map' = [j \in DOMAIN map \cup {k} |-> IF j = k THEN v ELSE map[j]]
  /\ IF purges(data_weight')
       THEN pc' = "purge" /\ list_it' = Last(orderList')
       ELSE UNCHANGED <<pc, list_it>>

\* Faulty variant of lighter: remove leaves the weight alone.
lighterByNothing(k) == data_weight

\* Faulty variant of lighter: purge and remove both subtract the weight.
lighterTwice(k) == data_weight - 2 * map[k]

lighter(k) == data_weight - map[k]

\* What remove does to the list, the map and the weight.
removed(k) ==
  IF k \in DOMAIN map
    THEN /\ data_weight' = lighter(k)
         /\ map' = Restrict(map, DOMAIN map \ {k})
         /\ orderList' = RemoveFirst(orderList, k)
    ELSE UNCHANGED <<data_weight, map, orderList>>

remove(k) == pc = "idle" /\ removed(k) /\ UNCHANGED <<pc, list_it>>

\* Faulty variant of before: the iterator stays on what is removed.
beforeIsSame(it) == it

\* Decrementing begin() leads to end(): the list is circular.
before(it) ==
  IF it = orderList[1] THEN End
  ELSE orderList[CHOOSE n \in 1 .. Len(orderList) - 1 : orderList[n + 1] = it]

\* Both int are converted to float, and the product is rounded to one.
TooHeavy(weight) == FactorUnit * Rounded(weight) > Rounded(Rounded(maxWeight) * factor)

exceeds == TooHeavy(data_weight) /\ DOMAIN map # {}

purgeStep ==
  /\ pc = "purge"
  /\ exceeds
  /\ list_it' = before(list_it)
  /\ removed(list_it)
  /\ UNCHANGED pc

purgeReturn ==
  /\ pc = "purge"
  /\ ~exceeds
  /\ pc' = "idle"
  /\ list_it' = End
  /\ UNCHANGED <<orderList, map, data_weight>>

-----------------------------------------------------------------------------

Next ==
  \/ \E k \in Key, v \in Value, position \in 1 .. Len(orderList) + 1 : insert(k, v, position)
  \/ \E k \in Key : touch(k) \/ remove(k)
  \/ clear
  \/ purgeStep \/ purgeReturn

\* purge waits for nothing.
Spec == Init /\ [][Next]_vars /\ WF_vars(purgeStep \/ purgeReturn)

-----------------------------------------------------------------------------
(* Properties.                                                             *)

\* The weight is never negative and the list's elements are keys.
TypeOK ==
  /\ orderList \in Seq(Key)
  /\ DOMAIN map \subseteq Key
  /\ \A k \in DOMAIN map : map[k] \in Value
  /\ data_weight \in Nat
  /\ pc \in {"idle", "purge"}
  /\ list_it \in Key \cup {End}

\* The list has the map's keys, each once.
ListAgrees == IsInjective(orderList) /\ ToSet(orderList) = DOMAIN map

\* List, map and weight agree between any two calls and in every turn of
\* purge's loop: the list has the map's keys, each once, and the weight is that
\* of all values.
Agreement == ListAgrees /\ data_weight = SumFunction(map)

\* When purge's loop goes on, its iterator is on an element that is still in the
\* list, and on the last one: it never has to read what it has removed, or the
\* end that lies before the first one.
PurgeReadsElement ==
  pc = "purge" /\ exceeds => orderList # <<>> /\ list_it = Last(orderList)

\* After a call, the map is below its limit, or it is no heavier than what purge
\* aims at, maxWeight * factor, but for the error of three roundings to a float.
WeightBounded ==
  pc = "idle" =>
    \/ data_weight < maxWeight
    \/ FactorUnit * data_weight * (FloatRange * (FloatRange - 1))
         <= maxWeight * factor * ((FloatRange + 1) * (FloatRange + 1))

Recency == INSTANCE RecencyMap WITH contents <- map, order <- orderList

\* What there is to the callers: while purge runs, what it will keep.
order == IF pc = "purge" THEN Recency!LightFront(orderList, map) ELSE orderList

contents == IF pc = "purge" THEN Recency!Kept(map, order) ELSE map

Promise == INSTANCE RecencyMap

\* An insert keeps the longest front part of the list that is light enough, as
\* floats compare, and nothing else changes the elements or their order than the
\* call says.
ImplementsRecency == Promise!Spec

\* purge ends.
PurgeEnds == (pc = "purge") ~> (pc = "idle")

=============================================================================
