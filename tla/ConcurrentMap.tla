--------------------------- MODULE ConcurrentMap ---------------------------
(***************************************************************************)
(* What ShardMap promises threads that share it: every call takes effect   *)
(* at one instant between its call and its return, and its result is the   *)
(* map's answer at that instant; size() and empty() are no exception.      *)
(* Only update_each is spread out: it updates one element at a time, none  *)
(* twice, and misses none that is in the map all through the call, unless  *)
(* the caller's updater throws.                                            *)
(***************************************************************************)
EXTENDS MapCalls

VARIABLES
  contents,   \* each key's value, None if it is not in the map
  call,       \* each thread's call, NoCall between calls
  result,     \* its result, NoResult until it takes effect
  visited,    \* what each thread's update_each has updated
  kept        \* and the keys that were in the map ever since it began

vars == <<contents, call, result, visited, kept>>

Init ==
  /\ contents = [k \in Keys |-> None]
  /\ call = [t \in Threads |-> NoCall]
  /\ result = [t \in Threads |-> NoResult]
  /\ visited = [t \in Threads |-> {}]
  /\ kept = [t \in Threads |-> {}]

Begin(t) ==
  /\ call[t] = NoCall
  /\ \E c \in Calls :
       /\ call' = [call EXCEPT ![t] = c]
       /\ kept' = [kept EXCEPT ![t] = IF c.op = "update_each" THEN PresentIn(contents) ELSE {}]
  /\ UNCHANGED <<contents, result, visited>>

Answer(t, r) ==
  /\ result[t] = NoResult
  /\ result' = [result EXCEPT ![t] = r]

Insert(t, k, v) ==
  /\ call[t].op \in {"insert", "load"} /\ call[t].key = k /\ call[t].value = v
  /\ contents' = IF contents[k] = None THEN [contents EXCEPT ![k] = v] ELSE contents
  /\ Answer(t, YesNo(contents[k] = None))
  /\ UNCHANGED <<call, visited, kept>>

Contains(t, k) ==
  /\ call[t] = KeyCall("contains", k)
  /\ Answer(t, YesNo(contents[k] # None))
  /\ UNCHANGED <<contents, call, visited, kept>>

Erase(t, k) ==
  /\ call[t] = KeyCall("erase", k)
  /\ contents' = [contents EXCEPT ![k] = None]
  /\ Answer(t, YesNo(contents[k] # None))
  /\ kept' = [u \in Threads |-> kept[u] \ {k}]
  /\ UNCHANGED <<call, visited>>

At(t, k) ==
  /\ call[t] = KeyCall("at", k)
  /\ Answer(t, IF contents[k] = None THEN Result("out_of_range", None)
               ELSE Result("value", contents[k]))
  /\ UNCHANGED <<contents, call, visited, kept>>

Update(t, k) ==
  /\ call[t] = KeyCall("update", k)
  /\ IF contents[k] = None
     THEN Answer(t, Result("out_of_range", None)) /\ UNCHANGED contents
     ELSE Answer(t, Result("updated", None)) /\ contents' = [contents EXCEPT ![k] = Updated(@)]
  /\ UNCHANGED <<call, visited, kept>>

UpdateElement(t, k) ==
  /\ call[t].op = "update_each" /\ result[t] = NoResult
  /\ contents[k] # None
  /\ k \notin visited[t]
  /\ contents' = [contents EXCEPT ![k] = Updated(@)]
  /\ visited' = [visited EXCEPT ![t] = @ \cup {k}]
  /\ UNCHANGED <<call, result, kept>>

UpdatedEach(t) ==
  /\ call[t].op = "update_each"
  /\ kept[t] \subseteq visited[t]
  /\ Answer(t, Result("updated", None))
  /\ UNCHANGED <<contents, call, visited, kept>>

UpdaterThrows(t) ==
  /\ \/ call[t].op = "update" /\ contents[call[t].key] # None
     \/ call[t].op = "update_each"
  /\ Answer(t, Result("exception", None))
  /\ UNCHANGED <<contents, call, visited, kept>>

Size(t) ==
  /\ \/ call[t].op = "size" /\ Answer(t, Result("size", Cardinality(PresentIn(contents))))
     \/ call[t].op = "empty" /\ Answer(t, YesNo(PresentIn(contents) = {}))
  /\ UNCHANGED <<contents, call, visited, kept>>

Return(t) ==
  /\ result[t] # NoResult
  /\ call' = [call EXCEPT ![t] = NoCall]
  /\ result' = [result EXCEPT ![t] = NoResult]
  /\ visited' = [visited EXCEPT ![t] = {}]
  /\ kept' = [kept EXCEPT ![t] = {}]
  /\ UNCHANGED contents

Next ==
  \E t \in Threads :
    \/ Begin(t) \/ Size(t) \/ UpdatedEach(t) \/ UpdaterThrows(t) \/ Return(t)
    \/ \E k \in Keys :
         \/ \E v \in Values : Insert(t, k, v)
         \/ Contains(t, k) \/ Erase(t, k) \/ At(t, k) \/ Update(t, k)
         \/ UpdateElement(t, k)

Spec == Init /\ [][Next]_vars

=============================================================================
