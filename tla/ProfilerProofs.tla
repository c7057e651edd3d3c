---------------------------- MODULE ProfilerProofs ----------------------------
(***************************************************************************)
(* For every number of threads and points, every duration and every width  *)
(* of the counters: no update is lost, and what for_each_point reports of  *)
(* a point that nobody disturbs is exact.                                  *)
(***************************************************************************)
EXTENDS Profiler, FiniteSetTheorems, SequenceTheorems, TLAPS

-----------------------------------------------------------------------------
(* Arithmetic modulo the range of a counter.                               *)

LEMMA QuotientAndRest ==
  ASSUME NEW a \in Int, NEW R \in Nat \ {0}
  PROVE  a = R * (a \div R) + (a % R) /\ a \div R \in Int /\ a % R \in 0 .. R - 1
OBVIOUS

LEMMA RestIsUnique ==
  ASSUME NEW q \in Int, NEW R \in Nat \ {0}, NEW r \in 0 .. R - 1
  PROVE  (R * q + r) % R = r
BY SMTT(30)

LEMMA SmallIsRest ==
  ASSUME NEW R \in Nat \ {0}, NEW r \in 0 .. R - 1 PROVE r % R = r
OBVIOUS

LEMMA Distribute ==
  ASSUME NEW a \in Int, NEW b \in Int, NEW R \in Int PROVE R * (a + b) = R * a + R * b
OBVIOUS

\* Adding modulo R loses nothing that a sum would have kept modulo R.
LEMMA PlusModulo ==
  ASSUME NEW a \in Int, NEW d \in Int, NEW R \in Nat \ {0}
  PROVE  ((a % R) + d) % R = (a + d) % R
<1> DEFINE b == (a % R) + d
           q == a \div R
           p == b \div R
           r == b % R
<1>1. a = R * q + (a % R) /\ q \in Int /\ a % R \in 0 .. R - 1
  BY QuotientAndRest
<1>2. b \in Int
  BY <1>1
<1>3. b = R * p + r /\ p \in Int /\ r \in 0 .. R - 1
  BY <1>2, QuotientAndRest
<1>4. a + d = R * q + b
  BY <1>1
<1> HIDE DEF b, q, p, r
<1>5. a + d = R * (q + p) + r
  BY <1>1, <1>2, <1>3, <1>4, Distribute
<1>6. (R * (q + p) + r) % R = r
  BY <1>1, <1>3, RestIsUnique
<1> QED
  BY <1>5, <1>6 DEF b, r

-----------------------------------------------------------------------------
(* The inductive invariant.                                                *)

CountTally == \A p \in Point : info[p].call_count = total[p].call_count - Cardinality(Between(p))

TimeTally ==
  \A p \in Point : info[p].cumulative_time_us = total[p].cumulative_time_us % Range64

TotalsOK ==
  /\ total \in [Point -> [Field -> Int]]
  /\ \A p \in Point : total[p].call_count \in 0 .. MaxCalls

\* No scope ends while reset runs.
ResetAlone == stores # {} => \A t \in Thread : ending[t] = None

\* What has been loaded of a point that nobody disturbs is what it has.
ArgsCurrent ==
  /\ DOMAIN args = Field => args = [f \in Field |-> args[f]]
  /\ visited = 0 => DOMAIN args = {}
  /\ quiet => /\ visited # 0
              /\ IsQuiet(info_array[visited])
              /\ \A f \in DOMAIN args : args[f] = info[info_array[visited]][f]

Inv == TypeOK /\ TotalsOK /\ CountTally /\ TimeTally /\ ResetAlone /\ ArgsCurrent

-----------------------------------------------------------------------------

LEMMA InitOK == Init => Inv
<1> SUFFICES ASSUME Init PROVE Inv
  OBVIOUS
<1> USE ConstantsAssumption DEF ConstantsAssumption, Init, Zero, Field
<1>1. TypeOK
  <2>1. info \in [Point -> [Field -> 0 .. Range64 - 1]]
    OBVIOUS
  <2>2. visited \in 0 .. Len(info_array)
    BY LenProperties
  <2>3. DOMAIN args \subseteq Field
    OBVIOUS
  <2> QED
    BY <2>1, <2>2, <2>3 DEF TypeOK
<1>2. TotalsOK
  BY DEF TotalsOK
<1>3. \A p \in Point : Between(p) = {}
  BY DEF Between
<1>4. CountTally
  <2>1. \A p \in Point : info[p].call_count = 0 /\ total[p].call_count = 0
    OBVIOUS
  <2>2. \A p \in Point : Cardinality(Between(p)) = 0
    BY <1>3, FS_EmptySet
  <2> QED
    BY <2>1, <2>2 DEF CountTally
<1>5. TimeTally
  BY DEF TimeTally
<1>6. ResetAlone /\ ArgsCurrent
  BY DEF ResetAlone, ArgsCurrent
<1> QED
  BY <1>1, <1>2, <1>4, <1>5, <1>6 DEF Inv

-----------------------------------------------------------------------------
(* Scopes that end.                                                        *)

\* One more thread is between the two updates of p, and no other one.
LEMMA OneMore ==
  ASSUME NEW t \in Thread, NEW p \in Point, ending \in [Thread -> Point \cup {None}],
         ending[t] = None, ending' = [ending EXCEPT ![t] = p]
  PROVE  \A q \in Point : /\ Cardinality(Between(q)) \in Nat
                          /\ Cardinality(Between(q)') =
                               Cardinality(Between(q)) + IF q = p THEN 1 ELSE 0
<1> TAKE q \in Point
<1> USE ConstantsAssumption DEF ConstantsAssumption
<1>1. IsFiniteSet(Between(q))
  BY FS_Subset DEF Between
<1>2. Between(q)' = IF q = p THEN Between(q) \cup {t} ELSE Between(q)
  BY DEF Between
<1>3. t \notin Between(q)
  BY DEF Between
<1>4. Cardinality(Between(q)) \in Nat
  BY <1>1, FS_CardinalityType
<1>5. Cardinality(Between(q) \cup {t}) = Cardinality(Between(q)) + 1
  BY <1>1, <1>3, FS_AddElement
<1> QED
  BY <1>2, <1>4, <1>5

\* One thread less is between the two updates of its point, and no other one.
LEMMA OneLess ==
  ASSUME NEW t \in Thread, ending \in [Thread -> Point \cup {None}],
         ending[t] # None, ending' = [ending EXCEPT ![t] = None]
  PROVE  \A q \in Point : /\ Cardinality(Between(q)) \in Nat
                          /\ q = ending[t] => Cardinality(Between(q)) > 0
                          /\ Cardinality(Between(q)') =
                               Cardinality(Between(q)) - IF q = ending[t] THEN 1 ELSE 0
<1> TAKE q \in Point
<1> USE ConstantsAssumption DEF ConstantsAssumption
<1>1. IsFiniteSet(Between(q))
  BY FS_Subset DEF Between
<1>2. CASE q = ending[t]
  <2>1. t \in Between(q) /\ Between(q)' = Between(q) \ {t}
    BY <1>2 DEF Between
  <2>2. Cardinality(Between(q)') = Cardinality(Between(q)) - 1
    BY <1>1, <2>1, FS_RemoveElement
  <2>3. Cardinality(Between(q)) \in Nat /\ Cardinality(Between(q)) # 0
    BY <1>1, <2>1, FS_CardinalityType, FS_EmptySet
  <2> QED
    BY <1>2, <2>2, <2>3
<1>3. CASE q # ending[t]
  <2>1. Between(q)' = Between(q)
    BY <1>3 DEF Between
  <2> QED
    BY <1>1, <1>3, <2>1, FS_CardinalityType
<1> QED
  BY <1>2, <1>3

LEMMA VisitedIsPoint == TypeOK /\ visited # 0 => info_array[visited] \in Point
BY ConstantsAssumption, ElementOfSeq DEF TypeOK, ConstantsAssumption

LEMMA AddTimeKeeps ==
  ASSUME NEW t \in Thread, NEW p \in Point, Inv, AddTime(t, p) PROVE Inv'
<1> USE ConstantsAssumption DEF ConstantsAssumption, Inv
<1>1. PICK d \in Duration :
        /\ info' = [info EXCEPT ![p]["cumulative_time_us"] = (@ + d) % Range64]
        /\ total' = [total EXCEPT ![p].call_count = @ + 1,
                                  ![p].cumulative_time_us = @ + d]
  BY DEF AddTime, AddTo, Plus
<1>2. /\ ending \in [Thread -> Point \cup {None}] /\ ending[t] = None /\ stores = {}
      /\ ending' = [ending EXCEPT ![t] = p] /\ total[p].call_count < MaxCalls
      /\ UNCHANGED <<visited, args, stores>>
      /\ quiet' = (quiet /\ p # info_array[visited])
      /\ d \in Int
  BY DEF AddTime, TypeOK
<1>3. /\ info \in [Point -> [Field -> 0 .. Range64 - 1]]
      /\ total \in [Point -> [Field -> Int]]
      /\ "call_count" \in Field /\ "cumulative_time_us" \in Field
  BY DEF TypeOK, TotalsOK, Field
<1>4. /\ \A q \in Point \ {p} : info'[q] = info[q] /\ total'[q] = total[q]
      /\ info'[p].call_count = info[p].call_count
      /\ info'[p].cumulative_time_us = (info[p].cumulative_time_us + d) % Range64
      /\ total'[p].call_count = total[p].call_count + 1
      /\ total'[p].cumulative_time_us = total[p].cumulative_time_us + d
  BY <1>1, <1>3
<1>5. TypeOK'
  <2>0. info[p].cumulative_time_us + d \in Int
    BY <1>2, <1>3
  <2>1. (info[p].cumulative_time_us + d) % Range64 \in 0 .. Range64 - 1
    BY <2>0, QuotientAndRest
  <2>2. info' \in [Point -> [Field -> 0 .. Range64 - 1]]
    BY <1>1, <1>3, <2>1
  <2> QED
    BY <1>2, <2>2 DEF TypeOK
<1>6. TotalsOK'
  <2>1. total' \in [Point -> [Field -> Int]]
    <3> DEFINE new == [total[p] EXCEPT !.call_count = @ + 1, !.cumulative_time_us = @ + d]
    <3>1. new \in [Field -> Int]
      <4>1. /\ total[p] \in [Field -> Int]
            /\ total[p].call_count + 1 \in Int
            /\ total[p].cumulative_time_us + d \in Int
        <5>1. total[p] \in [Field -> Int]
          BY <1>3
        <5>2. total[p].call_count \in Int /\ total[p].cumulative_time_us \in Int /\ d \in Int
          BY <1>2, <1>3, <5>1
        <5> QED
          BY <5>1, <5>2
      <4>2. [total[p] EXCEPT !.call_count = @ + 1] \in [Field -> Int]
        BY <4>1
      <4> QED
        BY <4>1, <4>2
    <3>2. total' = [total EXCEPT ![p] = new]
      BY <1>1, <1>3
    <3> QED
      BY <1>3, <3>1, <3>2
  <2>2. total[p].call_count + 1 \in 0 .. MaxCalls
    BY <1>2 DEF TotalsOK
  <2> QED
    BY <1>4, <2>1, <2>2 DEF TotalsOK
<1>7. CountTally'
  <2>1. \A q \in Point : /\ Cardinality(Between(q)) \in Nat
                        /\ Cardinality(Between(q)') =
                             Cardinality(Between(q)) + IF q = p THEN 1 ELSE 0
    BY <1>2, OneMore
  <2>2. \A q \in Point : total[q].call_count \in Int
    BY <1>3
  <2>3. \A q \in Point : info'[q].call_count = total'[q].call_count - Cardinality(Between(q)')
    <3> TAKE q \in Point
    <3>1. info[q].call_count = total[q].call_count - Cardinality(Between(q))
      BY DEF CountTally
    <3>2. CASE q = p
      BY <1>4, <2>1, <2>2, <3>1, <3>2
    <3>3. CASE q # p
      BY <1>4, <2>1, <2>2, <3>1, <3>3
    <3> QED
      BY <3>2, <3>3
  <2> QED
    BY <2>3 DEF CountTally
<1>8. TimeTally'
  <2>1. ((total[p].cumulative_time_us % Range64) + d) % Range64
          = (total[p].cumulative_time_us + d) % Range64
    BY <1>2, <1>3, PlusModulo
  <2> QED
    BY <1>4, <2>1 DEF TimeTally
<1>9. ResetAlone'
  BY <1>2 DEF ResetAlone
<1>10. ArgsCurrent'
  <2>1. ASSUME quiet' PROVE /\ visited' # 0
                            /\ IsQuiet(info_array[visited])'
                            /\ \A f \in DOMAIN args' : args'[f] = info'[info_array[visited']][f]
    <3>1. quiet /\ p # info_array[visited]
      BY <1>2, <2>1
    <3>2. /\ visited # 0 /\ IsQuiet(info_array[visited])
          /\ \A f \in DOMAIN args : args[f] = info[info_array[visited]][f]
      BY <3>1 DEF ArgsCurrent
    <3>3. info'[info_array[visited]] = info[info_array[visited]]
      BY <1>2, <1>4, <3>1, <3>2, VisitedIsPoint
    <3>4. IsQuiet(info_array[visited])'
      BY <1>2, <3>1, <3>2 DEF IsQuiet
    <3> QED
      BY <1>2, <3>2, <3>3, <3>4
  <2> QED
    BY <1>2, <2>1 DEF ArgsCurrent
<1> QED
  BY <1>5, <1>6, <1>7, <1>8, <1>9, <1>10

LEMMA AddCallKeeps ==
  ASSUME NEW t \in Thread, Inv, AddCall(t) PROVE Inv'
<1> USE ConstantsAssumption DEF ConstantsAssumption, Inv
<1> DEFINE p == ending[t]
<1>1. /\ ending \in [Thread -> Point \cup {None}] /\ p \in Point /\ p # None
      /\ ending' = [ending EXCEPT ![t] = None]
      /\ info' = [info EXCEPT ![p]["call_count"] = (@ + 1) % Range64]
      /\ UNCHANGED <<visited, args, stores, total, quiet>>
  BY DEF AddCall, AddTo, Plus, TypeOK
<1>2. /\ info \in [Point -> [Field -> 0 .. Range64 - 1]]
      /\ "call_count" \in Field /\ "cumulative_time_us" \in Field
  BY DEF TypeOK, Field
<1>3. /\ \A q \in Point \ {p} : info'[q] = info[q]
      /\ info'[p].cumulative_time_us = info[p].cumulative_time_us
      /\ info'[p].call_count = info[p].call_count + 1
  <2>1. /\ info[p].call_count = total[p].call_count - Cardinality(Between(p))
        /\ Cardinality(Between(p)) \in Nat /\ Cardinality(Between(p)) > 0
        /\ total[p].call_count \in 0 .. MaxCalls
    BY <1>1, OneLess DEF CountTally, TotalsOK
  <2>2. info[p].call_count \in Nat /\ info[p].call_count + 1 < Range64
    BY <1>1, <1>2, <2>1
  <2>3. (info[p].call_count + 1) % Range64 = info[p].call_count + 1
    BY <2>2, SmallIsRest
  <2> QED
    BY <1>1, <1>2, <2>3
<1>4. TypeOK'
  <2>1. (info[p].call_count + 1) % Range64 \in 0 .. Range64 - 1
    BY <1>1, <1>2
  <2>2. info' \in [Point -> [Field -> 0 .. Range64 - 1]]
    BY <1>1, <1>2, <2>1
  <2> QED
    BY <1>1, <2>2 DEF TypeOK
<1>5. TotalsOK' /\ TimeTally'
  BY <1>1, <1>3 DEF TotalsOK, TimeTally
<1>6. CountTally'
  <2>1. \A q \in Point : /\ Cardinality(Between(q)) \in Nat
                        /\ Cardinality(Between(q)') =
                             Cardinality(Between(q)) - IF q = p THEN 1 ELSE 0
    BY <1>1, OneLess
  <2>2. \A q \in Point : total[q].call_count \in Int
    BY DEF TotalsOK
  <2>3. \A q \in Point : info'[q].call_count = total'[q].call_count - Cardinality(Between(q)')
    <3> TAKE q \in Point
    <3>1. info[q].call_count = total[q].call_count - Cardinality(Between(q))
      BY DEF CountTally
    <3>2. CASE q = p
      <4>1. info'[q].call_count = info[q].call_count + 1 /\ total' = total
        BY <1>1, <1>3, <3>2
      <4>2. /\ Cardinality(Between(q)) \in Nat
            /\ Cardinality(Between(q)') = Cardinality(Between(q)) - 1
        BY <2>1, <3>2
      <4> QED
        BY <2>2, <3>1, <4>1, <4>2
    <3>3. CASE q # p
      BY <1>1, <1>3, <2>1, <2>2, <3>1, <3>3
    <3> QED
      BY <3>2, <3>3
  <2> QED
    BY <2>3 DEF CountTally
<1>7. ResetAlone'
  BY <1>1 DEF ResetAlone
<1>8. ArgsCurrent'
  <2>1. ASSUME quiet' PROVE /\ visited' # 0
                            /\ IsQuiet(info_array[visited])'
                            /\ \A f \in DOMAIN args' : args'[f] = info'[info_array[visited']][f]
    <3>1. /\ visited # 0 /\ IsQuiet(info_array[visited])
          /\ \A f \in DOMAIN args : args[f] = info[info_array[visited]][f]
      BY <1>1, <2>1 DEF ArgsCurrent
    <3>2. info_array[visited] # p
      BY <3>1 DEF IsQuiet
    <3>3. info'[info_array[visited]] = info[info_array[visited]]
      BY <1>3, <3>1, <3>2, VisitedIsPoint
    <3>4. IsQuiet(info_array[visited])'
      BY <1>1, <3>1, VisitedIsPoint DEF IsQuiet
    <3> QED
      BY <1>1, <3>1, <3>3, <3>4
  <2> QED
    BY <1>1, <2>1 DEF ArgsCurrent
<1> QED
  BY <1>4, <1>5, <1>6, <1>7, <1>8

-----------------------------------------------------------------------------
(* for_each_point and reset.                                               *)

\* A new visit has loaded nothing yet.
LEMMA VisitKeeps ==
  ASSUME NEW n \in 0 .. Len(info_array), Inv, Visit(n), DOMAIN args' = {},
         UNCHANGED <<info, ending, stores, total>>
  PROVE  Inv'
<1> USE DEF Inv
<1>1. TypeOK'
  BY DEF Visit, TypeOK
<1>2. TotalsOK' /\ CountTally' /\ TimeTally' /\ ResetAlone'
  BY DEF TotalsOK, CountTally, TimeTally, ResetAlone, Between
<1>3. ArgsCurrent'
  BY DEF ArgsCurrent, Visit, IsQuiet, Field
<1> QED
  BY <1>1, <1>2, <1>3

LEMMA LoadKeeps ==
  ASSUME NEW f \in Field, Inv, Load(f) PROVE Inv'
<1> USE DEF Inv
<1>1. /\ visited # 0 /\ DOMAIN args' = DOMAIN args \cup {f}
      /\ args' = [g \in DOMAIN args \cup {f} |->
                   IF g = f THEN info[info_array[visited]][f] ELSE args[g]]
      /\ UNCHANGED <<info, ending, visited, stores, total, quiet>>
  BY DEF Load
<1>2. TypeOK'
  BY <1>1 DEF TypeOK
<1>3. TotalsOK' /\ CountTally' /\ TimeTally' /\ ResetAlone'
  BY <1>1 DEF TotalsOK, CountTally, TimeTally, ResetAlone, Between
<1>4. ArgsCurrent'
  <2>1. DOMAIN args' = Field => args' = [g \in Field |-> args'[g]]
    BY <1>1
  <2>2. ASSUME quiet
        PROVE  /\ IsQuiet(info_array[visited])'
               /\ \A g \in DOMAIN args' : args'[g] = info[info_array[visited]][g]
    BY <1>1, <2>2 DEF ArgsCurrent, IsQuiet
  <2> QED
    BY <1>1, <2>1, <2>2 DEF ArgsCurrent
<1> QED
  BY <1>2, <1>3, <1>4

LEMMA ResetKeeps == Inv /\ Reset => Inv'
<1> SUFFICES ASSUME Inv, Reset PROVE Inv'
  OBVIOUS
<1> USE DEF Inv, Reset
<1>1. TypeOK'
  BY DEF TypeOK
<1>2. TotalsOK' /\ CountTally' /\ TimeTally' /\ ResetAlone' /\ ArgsCurrent'
  BY DEF TotalsOK, CountTally, TimeTally, ResetAlone, ArgsCurrent, Between
<1> QED
  BY <1>1, <1>2

LEMMA StoreKeeps ==
  ASSUME NEW p \in Point, NEW f \in Field, Inv, Store(p, f) PROVE Inv'
<1> USE ConstantsAssumption DEF ConstantsAssumption, Inv
<1>1. /\ stores # {} /\ stores' \subseteq stores
      /\ info' = [info EXCEPT ![p][f] = 0] /\ total' = [total EXCEPT ![p][f] = 0]
      /\ UNCHANGED <<ending, visited, args, quiet>>
      /\ \A t \in Thread : ending[t] = None
  BY DEF Store, IsNext, ResetAlone
<1>2. /\ info \in [Point -> [Field -> 0 .. Range64 - 1]]
      /\ total \in [Point -> [Field -> Int]]
      /\ "call_count" \in Field /\ "cumulative_time_us" \in Field
  BY DEF TypeOK, TotalsOK, Field
<1>3. \A q \in Point, g \in Field :
        /\ info'[q][g] = IF q = p /\ g = f THEN 0 ELSE info[q][g]
        /\ total'[q][g] = IF q = p /\ g = f THEN 0 ELSE total[q][g]
  BY <1>1, <1>2
<1>4. TypeOK'
  <2>1. info' \in [Point -> [Field -> 0 .. Range64 - 1]]
    BY <1>1, <1>2
  <2> QED
    BY <1>1, <2>1 DEF TypeOK
<1>5. TotalsOK'
  <2>1. total' \in [Point -> [Field -> Int]]
    BY <1>1, <1>2
  <2>2. \A q \in Point : total'[q].call_count \in 0 .. MaxCalls
    BY <1>2, <1>3 DEF TotalsOK
  <2> QED
    BY <2>1, <2>2 DEF TotalsOK
<1>6. CountTally'
  <2>1. \A q \in Point : Between(q) = {} /\ Between(q)' = {}
    BY <1>1 DEF Between
  <2>2. \A q \in Point : Cardinality(Between(q)) = 0 /\ Cardinality(Between(q)') = 0
    BY <2>1, FS_EmptySet
  <2>3. \A q \in Point : info[q].call_count = total[q].call_count
    BY <1>2, <2>2 DEF CountTally
  <2>4. \A q \in Point : info'[q].call_count = total'[q].call_count
    BY <1>2, <1>3, <2>3
  <2> QED
    <3>1. \A q \in Point : total'[q].call_count \in Int
      BY <1>2, <1>5 DEF TotalsOK
    <3> QED
      BY <2>2, <2>4, <3>1 DEF CountTally
<1>7. TimeTally'
  <2>1. 0 % Range64 = 0
    BY SmallIsRest
  <2> QED
    BY <1>2, <1>3, <2>1 DEF TimeTally
<1>8. ResetAlone' /\ ArgsCurrent'
  BY <1>1 DEF ResetAlone, ArgsCurrent, IsQuiet
<1> QED
  BY <1>4, <1>5, <1>6, <1>7, <1>8

LEMMA StepKeeps == Inv /\ [Next]_vars => Inv'
<1> SUFFICES ASSUME Inv, [Next]_vars PROVE Inv'
  OBVIOUS
<1>1. CASE \E t \in Thread : AddCall(t) \/ \E p \in Point : AddTime(t, p)
  BY <1>1, AddCallKeeps, AddTimeKeeps
<1>2. CASE ForEachPoint
  <2>1. Visit(1) /\ 1 \in 0 .. Len(info_array) /\ UNCHANGED <<info, ending, stores, total>>
    BY <1>2, ConstantsAssumption, EmptySeq, LenProperties DEF ForEachPoint, ConstantsAssumption
  <2> QED
    BY <1>2, <2>1, VisitKeeps DEF ForEachPoint, Inv, ArgsCurrent
<1>3. CASE Report
  <2>1. /\ (IF visited < Len(info_array) THEN visited + 1 ELSE 0) \in 0 .. Len(info_array)
        /\ UNCHANGED <<info, ending, stores, total>>
    BY <1>3, ConstantsAssumption, LenProperties DEF Report, Inv, TypeOK, ConstantsAssumption
  <2>2. DOMAIN args' = {}
    BY <1>3 DEF Report, NextArgs
  <2> QED
    BY <1>3, <2>1, <2>2, VisitKeeps DEF Report
<1>4. CASE \E f \in Field : Load(f)
  BY <1>4, LoadKeeps
<1>5. CASE Reset
  BY <1>5, ResetKeeps
<1>6. CASE \E p \in Point, f \in Field : Store(p, f)
  BY <1>6, StoreKeeps
<1>7. CASE UNCHANGED vars
  BY <1>7 DEF vars, Inv, TypeOK, TotalsOK, CountTally, TimeTally, ResetAlone,
               ArgsCurrent, Between, IsQuiet
<1> QED
  BY <1>1, <1>2, <1>3, <1>4, <1>5, <1>6, <1>7 DEF Next

-----------------------------------------------------------------------------

\* A point that nobody is between two updates of has all its calls, and all
\* that has been loaded of it is what it has.
LEMMA InvSuffices == Inv => Tally /\ QuietReading
<1> SUFFICES ASSUME Inv PROVE Tally /\ QuietReading
  OBVIOUS
<1>1. Tally
  BY DEF Inv, CountTally, TimeTally, Tally
<1>2. ASSUME visited # 0, DOMAIN args = Field, quiet
      PROVE  args = [total[info_array[visited]] EXCEPT !.cumulative_time_us = @ % Range64]
  <2> DEFINE p == info_array[visited]
  <2>1. p \in Point /\ total[p] \in [Field -> Int]
    BY <1>2, VisitedIsPoint DEF Inv, TotalsOK
  <2>2. /\ args = [f \in Field |-> args[f]]
        /\ \A f \in Field : args[f] = info[p][f]
        /\ Between(p) = {}
    BY <1>2 DEF Inv, ArgsCurrent, IsQuiet, Between
  <2>3. Cardinality(Between(p)) = 0
    BY <2>2, FS_EmptySet
  <2>4. info[p].call_count = total[p].call_count
    BY <2>1, <2>3 DEF Inv, CountTally, Field
  <2>5. info[p].cumulative_time_us = total[p].cumulative_time_us % Range64
    BY <2>1 DEF Inv, TimeTally
  <2> QED
    BY <2>1, <2>2, <2>4, <2>5 DEF Field
<1> QED
  BY <1>1, <1>2 DEF QuietReading

LEMMA AlwaysInv == Spec => []Inv
BY InitOK, StepKeeps, PTL DEF Spec

\* The counters stay in their type, for any range of it.
THEOREM TypeCorrect == Spec => []TypeOK
<1>1. Inv => TypeOK
  BY DEF Inv
<1> QED
  BY <1>1, AlwaysInv, PTL

\* No update of a counter is lost: for any number of threads, a point has the
\* time of all its calls and all calls but those that are being counted.
THEOREM NothingLost == Spec => []Tally
BY InvSuffices, AlwaysInv, PTL

\* What for_each_point reports of a point that no scope was ending of is its
\* calls and their time, in whichever order the two are loaded.
THEOREM QuietIsExact == Spec => []QuietReading
BY InvSuffices, AlwaysInv, PTL

=============================================================================
