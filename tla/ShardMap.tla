------------------------------ MODULE ShardMap ------------------------------
(***************************************************************************)
(* ShardMap: a map split into shards, each a map of its own behind its own *)
(* mutex, and one atomic counter of all elements beside them.  A thread's  *)
(* call is a sequence of steps, each one access to memory that other       *)
(* threads can see: a lock, an operation on a shard's map, the counter.    *)
(*                                                                         *)
(* A key can be in one shard's map only, so the maps together are one      *)
(* function of the keys.  How a shard's map (std::map, pb_ds::tree) works  *)
(* inside is the library's business.                                       *)
(***************************************************************************)
EXTENDS MapCalls

CONSTANTS
  Nobody,     \* holds the mutexes that are free
  N,          \* shard count
  SizeRange   \* how many values size_t has

ASSUME ConstantsAssumption ==
  /\ Keys \subseteq Int          \* integers, as for ShardMap<int, ...>
  /\ IsFiniteSet(Keys)
  /\ IsFiniteSet(Threads)
  /\ Values \subseteq Nat /\ 0 \in Values
  /\ None \notin Keys \cup Values
  /\ Nobody \notin Threads
  /\ N \in 1 .. 255
  /\ SizeRange \in Nat \ {0}

VARIABLES
  store,      \* the shards' maps: each key's value
  mutex,      \* each shard's mutex: the thread that holds it
  count,      \* the atomic counter
  pc,         \* where each thread is in its call
  call,       \* each thread's call
  reg,        \* its local variables
  result,     \* its result, once it is known
  visited,    \* history: what its update_each has updated
  kept        \* history: what was in the map ever since its update_each began

vars == <<store, mutex, count, pc, call, reg, result, visited, kept>>

Shards == 0 .. N - 1

Unsigned(k) == k % SizeRange              \* static_cast<std::size_t>(key)

\* Faulty variant of ShardOf: without the conversion, a remainder has its key's sign.
ShardOfSigned(k) == IF k < 0 THEN -(-k % N) ELSE k % N

ShardOf(k) == Unsigned(k) % N             \* get_shard_index

InShard(s) == {k \in Keys : ShardOf(k) = s}

NoReg == [shard |-> 0, key |-> None, todo |-> {}, seen |-> None]

Present == PresentIn(store)

\* Elements that are in a shard's map and not yet counted, and the reverse.
Joining == {reg[t].key : t \in {u \in Threads : pc[u] = "count_up"}}
Leaving == {reg[t].key : t \in {u \in Threads : pc[u] = "count_down"}}

Counted == (Present \ Joining) \cup Leaving

Init ==
  /\ store = [k \in Keys |-> None]
  /\ mutex = [s \in Shards |-> Nobody]
  /\ count = 0
  /\ pc = [t \in Threads |-> "idle"]
  /\ call = [t \in Threads |-> NoCall]
  /\ reg = [t \in Threads |-> NoReg]
  /\ result = [t \in Threads |-> NoResult]
  /\ visited = [t \in Threads |-> {}]
  /\ kept = [t \in Threads |-> {}]

-----------------------------------------------------------------------------
(* Calls, locks and returns.  load takes no lock and must have the map to  *)
(* itself, as its comment demands of the callers.                          *)

\* Faulty variant of LocksNothing: readers take no lock.
LocksNothingToRead(op) == op \in {"load", "contains", "at"}

LocksNothing(op) == op = "load"

FirstLabel(op) ==
  CASE LocksNothing(op)         -> "body"
    [] op \in {"size", "empty"} -> "read_count"
    [] OTHER                    -> "lock"

Call(t) ==
  /\ pc[t] = "idle"
  /\ \A u \in Threads : call[u].op # "load"
  /\ \E c \in Calls :
       /\ c.op = "load" => \A u \in Threads : pc[u] = "idle"
       /\ call' = [call EXCEPT ![t] = c]
       /\ pc' = [pc EXCEPT ![t] = FirstLabel(c.op)]
       /\ reg' = [reg EXCEPT ![t] = [NoReg EXCEPT
                    !.key = c.key, !.shard = IF c.key = None THEN 0 ELSE ShardOf(c.key)]]
       /\ kept' = [kept EXCEPT ![t] =
                     IF c.op = "update_each" THEN Counted ELSE {}]
  /\ UNCHANGED <<store, mutex, count, result, visited>>

\* Faulty variant of IsFree: nobody looks whether the mutex is free.
IsFreeAnyway(s) == TRUE

IsFree(s) == mutex[s] = Nobody

\* Lock the shard.  update_each then goes through what is in its map.
Acquire(t) ==
  /\ pc[t] = "lock"
  /\ IsFree(reg[t].shard)
  /\ mutex' = [mutex EXCEPT ![reg[t].shard] = t]
  /\ pc' = [pc EXCEPT ![t] = "body"]
  /\ reg' = [reg EXCEPT ![t].todo =
               IF call[t].op = "update_each" THEN Present \cap InShard(reg[t].shard) ELSE {}]
  /\ UNCHANGED <<store, count, call, result, visited, kept>>

AtBody(t, op) == pc[t] = "body" /\ call[t].op = op

AtBodyOrLoad(t) == AtBody(t, "insert") \/ AtBody(t, "load")

Returned(t) ==
  /\ pc' = [pc EXCEPT ![t] = "idle"]
  /\ call' = [call EXCEPT ![t] = NoCall]
  /\ reg' = [reg EXCEPT ![t] = NoReg]
  /\ result' = [result EXCEPT ![t] = NoResult]
  /\ visited' = [visited EXCEPT ![t] = {}]
  /\ kept' = [kept EXCEPT ![t] = {}]

\* Faulty variant of Unlocks: the lock is not a guard object's.
UnlocksOnReturn(t) == result[t].what \notin {"out_of_range", "exception"}

\* The lock_guard's destructor, on return and on a throw alike.
Unlocks(t) == ~LocksNothing(call[t].op)

Unlock(t) ==
  /\ pc[t] = "unlock"
  /\ mutex' = IF Unlocks(t) THEN [mutex EXCEPT ![reg[t].shard] = Nobody] ELSE mutex
  /\ Returned(t)
  /\ UNCHANGED <<store, count>>

\* A body's end: its answer, and where the call goes on.
Answer(t, r, label) ==
  /\ result' = [result EXCEPT ![t] = r]
  /\ pc' = [pc EXCEPT ![t] = label]

-----------------------------------------------------------------------------
(* The bodies.                                                             *)

InsertBody(t) ==
  /\ AtBodyOrLoad(t)
  /\ LET k == call[t].key
         new == store[k] = None
     IN  /\ store' = IF new THEN [store EXCEPT ![k] = call[t].value] ELSE store
         /\ Answer(t, YesNo(new), IF new THEN "count_up" ELSE "unlock")
  /\ UNCHANGED <<mutex, count, call, reg, visited, kept>>

CountUp(t) ==
  /\ pc[t] = "count_up"
  /\ count' = count + 1
  /\ pc' = [pc EXCEPT ![t] = "unlock"]
  /\ UNCHANGED <<store, mutex, call, reg, result, visited, kept>>

ContainsBody(t) ==
  /\ AtBody(t, "contains")
  /\ Answer(t, YesNo(store[call[t].key] # None), "unlock")
  /\ UNCHANGED <<store, mutex, count, call, reg, visited, kept>>

\* Faulty variant of AfterErase: the counter goes down whatever map.erase said.
AfterEraseAlways(found) == "count_down"

AfterErase(found) == IF found THEN "count_down" ELSE "unlock"

\* seen is history here: the value that is on its way out.
EraseBody(t) ==
  /\ AtBody(t, "erase")
  /\ LET k == call[t].key
         found == store[k] # None
     IN  /\ store' = [store EXCEPT ![k] = None]
         /\ reg' = [reg EXCEPT ![t].seen = store[k]]
         /\ Answer(t, YesNo(found), AfterErase(found))
  /\ UNCHANGED <<mutex, count, call, visited, kept>>

CountDown(t) ==
  /\ pc[t] = "count_down"
  /\ count' = count - 1
  /\ pc' = [pc EXCEPT ![t] = "unlock"]
  /\ kept' = [u \in Threads |-> kept[u] \ {reg[t].key}]
  /\ UNCHANGED <<store, mutex, call, reg, result, visited>>

AtAnswer(t) ==
  /\ AtBody(t, "at")
  /\ LET v == store[call[t].key]
     IN  Answer(t, IF v = None THEN Result("out_of_range", None) ELSE Result("value", v), "unlock")
  /\ UNCHANGED <<store, mutex, count, call, reg, visited, kept>>

UpdateThrows(t) ==
  /\ AtBody(t, "update")
  /\ store[call[t].key] = None
  /\ Answer(t, Result("out_of_range", None), "unlock")
  /\ UNCHANGED <<store, mutex, count, call, reg, visited, kept>>

\* The updater is handed a reference: it reads the value, and writes it.
UpdateRead(t) ==
  /\ AtBody(t, "update")
  /\ store[call[t].key] # None
  /\ reg' = [reg EXCEPT ![t].seen = store[call[t].key]]
  /\ pc' = [pc EXCEPT ![t] = "write"]
  /\ UNCHANGED <<store, mutex, count, call, result, visited, kept>>

UpdateWrite(t) ==
  /\ pc[t] = "write" /\ call[t].op = "update"
  /\ store' = [store EXCEPT ![reg[t].key] = Updated(reg[t].seen)]
  /\ Answer(t, Result("updated", None), "unlock")
  /\ UNCHANGED <<mutex, count, call, reg, visited, kept>>

\* The updater throws: update_each leaves the elements after this one alone.
UpdaterThrows(t) ==
  /\ pc[t] = "write"
  /\ Answer(t, Result("exception", None), "unlock")
  /\ UNCHANGED <<store, mutex, count, call, reg, visited, kept>>

\* The next element in the map's own order, which depends on the container.
EachRead(t) ==
  /\ AtBody(t, "update_each")
  /\ \E k \in reg[t].todo :
       reg' = [reg EXCEPT ![t].key = k, ![t].seen = store[k], ![t].todo = @ \ {k}]
  /\ pc' = [pc EXCEPT ![t] = "write"]
  /\ UNCHANGED <<store, mutex, count, call, result, visited, kept>>

EachWrite(t) ==
  /\ pc[t] = "write" /\ call[t].op = "update_each"
  /\ store' = [store EXCEPT ![reg[t].key] = Updated(reg[t].seen)]
  /\ visited' = [visited EXCEPT ![t] = @ \cup {reg[t].key}]
  /\ pc' = [pc EXCEPT ![t] = "body"]
  /\ UNCHANGED <<mutex, count, call, reg, result, kept>>

IsLast(shard) == shard + 1 = N

\* The end of the loop body unlocks the shard: the next one is locked when
\* nothing is.
EachNextShard(t) ==
  /\ AtBody(t, "update_each")
  /\ reg[t].todo = {}
  /\ ~IsLast(reg[t].shard)
  /\ mutex' = [mutex EXCEPT ![reg[t].shard] = Nobody]
  /\ reg' = [reg EXCEPT ![t] = [NoReg EXCEPT !.shard = reg[t].shard + 1]]
  /\ pc' = [pc EXCEPT ![t] = "lock"]
  /\ UNCHANGED <<store, count, call, result, visited, kept>>

EachLastShard(t) ==
  /\ AtBody(t, "update_each")
  /\ reg[t].todo = {}
  /\ IsLast(reg[t].shard)
  /\ Answer(t, Result("updated", None), "unlock")
  /\ UNCHANGED <<store, mutex, count, call, reg, visited, kept>>

\* size and empty: one atomic load, no lock.
ReadCount(t) ==
  /\ pc[t] = "read_count"
  /\ Answer(t, IF call[t].op = "size" THEN Result("size", count) ELSE YesNo(count = 0), "return")
  /\ UNCHANGED <<store, mutex, count, call, reg, visited, kept>>

ReturnCount(t) ==
  /\ pc[t] = "return"
  /\ Returned(t)
  /\ UNCHANGED <<store, mutex, count>>

-----------------------------------------------------------------------------

Step(t) ==
  \/ Acquire(t) \/ Unlock(t)
  \/ InsertBody(t) \/ CountUp(t) \/ ContainsBody(t) \/ EraseBody(t) \/ CountDown(t)
  \/ AtAnswer(t) \/ UpdateThrows(t) \/ UpdateRead(t) \/ UpdateWrite(t) \/ UpdaterThrows(t)
  \/ EachRead(t) \/ EachWrite(t) \/ EachNextShard(t) \/ EachLastShard(t)
  \/ ReadCount(t) \/ ReturnCount(t)

Next == \E t \in Threads : Call(t) \/ Step(t)

\* A thread that can go on does.  That does not say which thread gets a mutex
\* that several wait for: std::mutex promises no order.
Spec == Init /\ [][Next]_vars /\ \A t \in Threads : WF_vars(Step(t))

-----------------------------------------------------------------------------
(* Properties.                                                             *)

Labels == {"idle", "lock", "body", "count_up", "count_down", "write", "unlock",
           "read_count", "return"}

Regs == [shard : Shards, key : Keys \cup {None}, todo : SUBSET Keys,
         seen : Values \cup {None}]

\* Every variable has its type; a thread is never outside shards_array.
TypeOK ==
  /\ store \in [Keys -> Values \cup {None}]
  /\ mutex \in [Shards -> Threads \cup {Nobody}]
  /\ count \in Int
  /\ pc \in [Threads -> Labels]
  /\ call \in [Threads -> Calls \cup {NoCall}]
  /\ reg \in [Threads -> Regs]

\* The threads that are at work in a shard's map, or between it and the counter.
Locked(t) ==
  /\ pc[t] \in {"body", "count_up", "count_down", "write", "unlock"}
  /\ call[t].op # "load"

\* No two threads are in the same shard, and a load shares the map with nobody:
\* the maps have no other protection.
OneThreadPerShard ==
  \A t, u \in Threads :
    t # u /\ Locked(t) => /\ ~(Locked(u) /\ reg[t].shard = reg[u].shard)
                          /\ call[u].op # "load"

\* A call on one key, from its lock to the end of its body.
AtKey(t) ==
  /\ pc[t] \in {"lock", "body", "count_up", "count_down"}
  /\ call[t].op # "update_each"

Disciplined(t) ==
  /\ Locked(t) => mutex[reg[t].shard] = t
  /\ pc[t] \in {"lock", "write"} => call[t].op # "load"
  /\ call[t].op = "load" => \A u \in Threads : u # t => pc[u] = "idle"
  /\ pc[t] = "idle" => call[t] = NoCall
  /\ AtKey(t) => /\ call[t].key \in Keys
                 /\ reg[t].key = call[t].key
                 /\ reg[t].shard = ShardOf(call[t].key)
  /\ pc[t] \in {"count_up", "count_down", "write"} =>
       /\ reg[t].key \in Keys
       /\ reg[t].shard = ShardOf(reg[t].key)
  /\ call[t].op = "update_each" /\ pc[t] \in {"body", "write"} =>
       \A k \in reg[t].todo : ShardOf(k) = reg[t].shard /\ store[k] # None
  /\ pc[t] = "write" => store[reg[t].key] # None /\ reg[t].seen # None

\* What the locks and the rule for load rest on: a thread that is past the lock
\* of a shard holds its mutex, and what it works on is in that shard.
LockInv == \A t \in Threads : Disciplined(t)

\* The counter is the number of elements but for those on their way in or out;
\* it is exact when no call is running, and it never goes below zero.
CountExact ==
  /\ Joining \subseteq Present
  /\ Leaving \cap Present = {}
  /\ count = Cardinality(Counted)

\* The map as the callers see it.  An element joins or leaves it when the
\* counter says so, a little after it joins or leaves its shard's map: the
\* shard is locked in between.
Contents ==
  [k \in Keys |->
     IF k \in Joining THEN None
     ELSE IF k \in Leaving
     THEN reg[CHOOSE t \in Threads : pc[t] = "count_down" /\ reg[t].key = k].seen
     ELSE store[k]]

Map == INSTANCE ConcurrentMap
  WITH contents <- Contents,
       result <- [t \in Threads |->
                    IF pc[t] \in {"count_up", "count_down"} THEN NoResult ELSE result[t]]

\* Threads see one map: every call takes effect at an instant between its call
\* and its return, size() and empty() included though they take no lock; no
\* update is lost; update_each misses nothing that stays, if no updater throws.
Linearizable == Map!Spec

\* No mutex is held for ever: whoever holds one needs no other to go on.
MutexesReleased == \A s \in Shards : []<>(mutex[s] = Nobody)

=============================================================================
