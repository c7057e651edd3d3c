------------------------------- MODULE Profiler -------------------------------
(***************************************************************************)
(* The profiler's measurement points.  The end of a scope adds its time to *)
(* its point, then one to the point's calls: two atomic updates.  Another  *)
(* thread may read all points meanwhile (for_each_point), each of them by  *)
(* two loads as well, whose order the compiler chooses.  reset stores 0 in *)
(* all of them; its callers see to it that no scope ends meanwhile.        *)
(*                                                                         *)
(* Each access to an atomic is a step.  The points are static objects that *)
(* are in info_array before main begins.                                   *)
(***************************************************************************)
EXTENDS Integers, FiniteSets, Sequences

CONSTANTS
  Thread,
  info_array,   \* the points, in the order they have registered in
  Duration,     \* of a scope; negative ones, too: the clock may be set back
  Range64,      \* how many values a uint_fast64_t has
  MaxCalls,     \* bound: calls of a point between two resets
  None

Point == {info_array[n] : n \in DOMAIN info_array}

Field == {"call_count", "cumulative_time_us"}

ASSUME ConstantsAssumption ==
  /\ IsFiniteSet(Thread)
  /\ info_array \in Seq(Point)
  /\ Duration \subseteq Int
  /\ Range64 \in Nat \ {0}
  /\ MaxCalls \in 0 .. Range64 - 1
  /\ None \notin Point

VARIABLES
  info,       \* the two counters of each point
  ending,     \* the point whose scope a thread is ending, or None
  visited,    \* what for_each_point is at: a position in info_array, or 0
  args,       \* what it has loaded there
  stores,     \* what reset has yet to set to 0
  total,      \* the calls and the time of each point since it was reset
  quiet       \* no scope of the visited point has been ending since its visit began

vars == <<info, ending, visited, args, stores, total, quiet>>

Zero == [f \in Field |-> 0]

Init ==
  /\ info = [p \in Point |-> Zero]
  /\ ending = [t \in Thread |-> None]
  /\ visited = 0
  /\ args = <<>>
  /\ stores = {}
  /\ total = [p \in Point |-> Zero]
  /\ quiet = FALSE

IsQuiet(p) == stores = {} /\ \A t \in Thread : ending[t] # p

-----------------------------------------------------------------------------
(* The end of a scope.                                                     *)

\* Faulty variant of Plus: the sum keeps growing.
PlusUnbounded(a, b) == a + b

Plus(a, b) == (a + b) % Range64

\* Faulty variant of AddTo: the time of the last call only.
AddToSets(p, f, n) == [info EXCEPT ![p][f] = n % Range64]

\* An atomic counter is incremented by n.
AddTo(p, f, n) == [info EXCEPT ![p][f] = Plus(@, n)]

AddTime(t, p) ==
  /\ ending[t] = None
  /\ stores = {}                        \* what reset asks of its callers
  /\ total[p].call_count < MaxCalls
  /\ \E d \in Duration :
       /\ info' = AddTo(p, "cumulative_time_us", d)
       /\ total' = [total EXCEPT ![p].call_count = @ + 1,
                                 ![p].cumulative_time_us = @ + d]
  /\ ending' = [ending EXCEPT ![t] = p]
  /\ quiet' = (quiet /\ p # info_array[visited])
  /\ UNCHANGED <<visited, args, stores>>

AddCall(t) ==
  /\ ending[t] # None
  /\ info' = AddTo(ending[t], "call_count", 1)
  /\ ending' = [ending EXCEPT ![t] = None]
  /\ UNCHANGED <<visited, args, stores, total, quiet>>

-----------------------------------------------------------------------------
(* for_each_point.                                                         *)

Visit(n) ==
  /\ visited' = n
  /\ quiet' = (n # 0 /\ IsQuiet(info_array[n]))

ForEachPoint ==
  /\ visited = 0
  /\ info_array # <<>>
  /\ Visit(1)
  /\ UNCHANGED <<info, ending, args, stores, total>>

Load(f) ==
  /\ visited # 0
  /\ f \notin DOMAIN args
  /\ args' = [g \in DOMAIN args \cup {f} |->
                IF g = f THEN info[info_array[visited]][f] ELSE args[g]]
  /\ UNCHANGED <<info, ending, visited, stores, total, quiet>>

\* Faulty variant of NextArgs: the calls that were loaded serve for all points.
NextArgsKeepCalls == [f \in {"call_count"} |-> args[f]]

\* What is loaded already when the next point's visit begins.
NextArgs == <<>>

\* f is called, and the loop goes on.
Report ==
  /\ visited # 0
  /\ DOMAIN args = Field
  /\ args' = NextArgs
  /\ Visit(IF visited < Len(info_array) THEN visited + 1 ELSE 0)
  /\ UNCHANGED <<info, ending, stores, total>>

-----------------------------------------------------------------------------
(* reset.                                                                  *)

Reset ==
  /\ stores = {}
  /\ \A t \in Thread : ending[t] = None     \* what reset asks of its callers
  /\ stores' = Point \X Field
  /\ quiet' = FALSE
  /\ UNCHANGED <<info, ending, visited, args, total>>

\* Points are reset in their order, the calls of each before its time.
IsNext(p, f) ==
  /\ <<p, f>> \in stores
  /\ f = "call_count" \/ <<p, "call_count">> \notin stores
  /\ \E n \in DOMAIN info_array :
       /\ info_array[n] = p
       /\ \A m \in 1 .. n - 1 : \A g \in Field : <<info_array[m], g>> \notin stores

Store(p, f) ==
  /\ IsNext(p, f)
  /\ info' = [info EXCEPT ![p][f] = 0]
  /\ total' = [total EXCEPT ![p][f] = 0]
  /\ stores' = stores \ {<<p, f>>}
  /\ UNCHANGED <<ending, visited, args, quiet>>

-----------------------------------------------------------------------------

Next ==
  \/ \E t \in Thread : AddCall(t) \/ \E p \in Point : AddTime(t, p)
  \/ ForEachPoint \/ Report \/ \E f \in Field : Load(f)
  \/ Reset \/ \E p \in Point, f \in Field : Store(p, f)

Spec == Init /\ [][Next]_vars

-----------------------------------------------------------------------------
(* Properties.                                                             *)

\* The counters stay in their type, whatever the durations.
TypeOK ==
  /\ info \in [Point -> [Field -> 0 .. Range64 - 1]]
  /\ ending \in [Thread -> Point \cup {None}]
  /\ visited \in 0 .. Len(info_array)
  /\ DOMAIN args \subseteq Field
  /\ stores \subseteq Point \X Field
  /\ quiet \in BOOLEAN

\* Threads that have added their time and not yet their call.
Between(p) == {t \in Thread : ending[t] = p}

\* No update is lost: a point's time is that of all its calls, and its calls are
\* all but the ones in between two updates.
Tally ==
  \A p \in Point :
    /\ info[p].cumulative_time_us = total[p].cumulative_time_us % Range64
    /\ info[p].call_count = total[p].call_count - Cardinality(Between(p))

\* for_each_point may call f with a time and a number of calls that do not belong
\* together, but not unless a scope of that very point was ending, or reset
\* running, during the visit.
QuietReading ==
  visited # 0 /\ DOMAIN args = Field /\ quiet =>
    LET p == info_array[visited]
    IN  args = [total[p] EXCEPT !.cumulative_time_us = @ % Range64]

=============================================================================
