--------------------------- MODULE ShardMapProofs ---------------------------
(* Theorems about ShardMap, for any number of threads, keys and shards.    *)
EXTENDS ShardMap, FiniteSetTheorems, TLAPS

-----------------------------------------------------------------------------
(* Calls, shards and locks.                                                *)

LEMMA CallFields ==
  ASSUME NEW c \in Calls
  PROVE  /\ c.op \in {"insert", "load"} => c.key \in Keys /\ c.value \in Values
         /\ c.op \in {"contains", "erase", "at", "update"} => c.key \in Keys
         /\ c.op \in {"size", "empty", "update_each"} => c.key = None
         /\ c.op \in {"insert", "load", "contains", "erase", "at", "update", "size",
                      "empty", "update_each"}
  BY DEF Calls

LEMMA ShardType ==
  ASSUME NEW k \in Keys
  PROVE  ShardOf(k) \in Shards
<1>1. k \in Int /\ SizeRange \in Nat \ {0} /\ N \in Nat \ {0}
  BY ConstantsAssumption
<1>2. k % SizeRange \in Int
  BY <1>1
<1>3. (k % SizeRange) % N \in 0 .. N - 1
  BY <1>1, <1>2
<1> QED
  BY <1>3 DEF ShardOf, Unsigned, Shards

LEMMA UpdatedType ==
  ASSUME NEW v \in Values
  PROVE  Updated(v) \in Values /\ Updated(v) # None
  BY ConstantsAssumption DEF Updated

LEMMA NoRegType == NoReg \in Regs
<1>1. 0 \in Shards
  BY ConstantsAssumption DEF Shards
<1> QED
  BY <1>1 DEF NoReg, Regs

-----------------------------------------------------------------------------
(* Type correctness and the discipline of the locks, which need each other:*)
(* what the updater writes back is a value because what it read was one.   *)

Basis == TypeOK /\ LockInv

LEMMA BasisInit == Init => Basis
<1> SUFFICES ASSUME Init PROVE Basis
  OBVIOUS
<1>1. TypeOK
  BY NoRegType DEF Init, TypeOK, Labels
<1>2. LockInv
  BY DEF Init, LockInv, Disciplined, Locked, AtKey, AtBody, NoCall
<1> QED
  BY <1>1, <1>2 DEF Basis

LEMMA TypeStep ==
  ASSUME Basis, NEW t \in Threads, Call(t) \/ Step(t)
  PROVE  TypeOK'
<1> USE DEF Basis, TypeOK, Labels
<1>1. CASE Call(t)
  <2>1. PICK c \in Calls :
          /\ call' = [call EXCEPT ![t] = c]
          /\ pc' = [pc EXCEPT ![t] = FirstLabel(c.op)]
          /\ reg' = [reg EXCEPT ![t] = [NoReg EXCEPT
                       !.key = c.key, !.shard = IF c.key = None THEN 0 ELSE ShardOf(c.key)]]
    BY <1>1 DEF Call
  <2>2. c.key \in Keys \cup {None} /\ FirstLabel(c.op) \in Labels
    BY CallFields DEF FirstLabel, LocksNothing
  <2>3. (IF c.key = None THEN 0 ELSE ShardOf(c.key)) \in Shards
    BY <2>2, ShardType, NoRegType DEF Regs, NoReg
  <2>4. reg' \in [Threads -> Regs]
    BY <2>1, <2>2, <2>3 DEF Regs, NoReg
  <2>5. UNCHANGED <<store, mutex, count>>
    BY <1>1 DEF Call
  <2> QED
    BY <2>1, <2>2, <2>4, <2>5
<1>2. CASE Acquire(t)
  <2> DEFINE todo == IF call[t].op = "update_each" THEN Present \cap InShard(reg[t].shard)
                     ELSE {}
  <2>1. todo \in SUBSET Keys
    BY DEF Present, PresentIn
  <2>2. reg' = [reg EXCEPT ![t].todo = todo]
    BY <1>2 DEF Acquire, IsFree
  <2> HIDE DEF todo
  <2>3. reg' \in [Threads -> Regs]
    BY <2>1, <2>2 DEF Regs
  <2> QED
    BY <1>2, <2>3 DEF Acquire
<1>3. CASE Unlock(t)
  BY <1>3, NoRegType DEF Unlock, Returned, Regs
<1>4. CASE InsertBody(t)
  <2>1. call[t] \in Calls
    BY <1>4 DEF InsertBody, AtBodyOrLoad, AtBody, NoCall
  <2>2. call[t].key \in Keys /\ call[t].value \in Values
    BY <1>4, <2>1, CallFields DEF InsertBody, AtBodyOrLoad, AtBody
  <2> QED
    BY <1>4, <2>2 DEF InsertBody, Answer
<1>5. CASE CountUp(t)
  BY <1>5 DEF CountUp
<1>6. CASE ContainsBody(t)
  BY <1>6 DEF ContainsBody, Answer
<1>7. CASE EraseBody(t)
  <2>1. call[t].key \in Keys
    BY <1>7 DEF EraseBody, AtBody, AtKey, LockInv, Disciplined
  <2> QED
    BY <1>7, <2>1 DEF EraseBody, AfterErase, Answer, Regs
<1>8. CASE CountDown(t)
  BY <1>8 DEF CountDown
<1>9. CASE AtAnswer(t)
  BY <1>9 DEF AtAnswer, Answer
<1>10. CASE UpdateThrows(t)
  BY <1>10 DEF UpdateThrows, Answer
<1>11. CASE UpdateRead(t)
  <2>1. call[t].key \in Keys
    BY <1>11 DEF UpdateRead, AtBody, AtKey, LockInv, Disciplined
  <2> QED
    BY <1>11, <2>1 DEF UpdateRead, Regs
<1>12. ASSUME pc[t] = "write"
       PROVE  Updated(reg[t].seen) \in Values
  <2>1. reg[t].seen \in Values
    BY <1>12 DEF LockInv, Disciplined, Regs
  <2> QED
    BY <2>1, UpdatedType
<1>13. CASE UpdateWrite(t)
  BY <1>12, <1>13 DEF UpdateWrite, Answer
<1>14. CASE EachRead(t)
  BY <1>14 DEF EachRead, Regs
<1>15. CASE EachWrite(t)
  BY <1>12, <1>15 DEF EachWrite
<1>16. CASE EachNextShard(t)
  <2>1. reg[t].shard \in 0 .. N - 1 /\ N \in Nat
    BY ConstantsAssumption DEF Regs, Shards
  <2>2. reg[t].shard + 1 \in Shards
    BY <1>16, <2>1 DEF EachNextShard, IsLast, Shards
  <2> QED
    BY <1>16, <2>2, NoRegType DEF EachNextShard, Regs, NoReg
<1>17. CASE EachLastShard(t)
  BY <1>17 DEF EachLastShard, Answer
<1>18. CASE ReadCount(t)
  BY <1>18 DEF ReadCount, Answer
<1>19. CASE ReturnCount(t)
  BY <1>19, NoRegType DEF ReturnCount, Returned
<1>20. CASE UpdaterThrows(t)
  BY <1>20 DEF UpdaterThrows, Answer
<1> QED
  BY <1>1, <1>2, <1>3, <1>4, <1>5, <1>6, <1>7, <1>8, <1>9, <1>10, <1>11, <1>13, <1>14,
     <1>15, <1>16, <1>17, <1>18, <1>19, <1>20 DEF Step

\* Two threads that are on the same key cannot both be past the lock.
LEMMA KeyIsMine ==
  ASSUME Basis, NEW t \in Threads, NEW u \in Threads, t # u,
         pc[t] \in {"body", "count_up", "count_down", "write"},
         pc[u] \in {"body", "count_up", "count_down", "write"}
  PROVE  reg[t].shard # reg[u].shard
<1>1. call[t].op # "load" /\ call[u].op # "load"
  BY DEF Basis, LockInv, Disciplined
<1>2. Locked(t) /\ Locked(u)
  BY <1>1 DEF Locked
<1> QED
  BY <1>2 DEF Basis, LockInv, Disciplined

LEMMA LockStep ==
  ASSUME Basis, NEW t \in Threads, Call(t) \/ Step(t)
  PROVE  LockInv'
<1> USE DEF Basis, TypeOK, Regs, LockInv, Disciplined, Locked, AtKey, AtBody
<1>1. CASE Call(t)
  <2>1. PICK c \in Calls :
          /\ c.op = "load" => \A u \in Threads : pc[u] = "idle"
          /\ call' = [call EXCEPT ![t] = c]
          /\ pc' = [pc EXCEPT ![t] = FirstLabel(c.op)]
          /\ reg' = [reg EXCEPT ![t] = [NoReg EXCEPT
                       !.key = c.key, !.shard = IF c.key = None THEN 0 ELSE ShardOf(c.key)]]
    BY <1>1 DEF Call
  <2>2. \A u \in Threads : call[u].op # "load"
    BY <1>1 DEF Call
  <2>3. UNCHANGED <<store, mutex, count>>
    BY <1>1 DEF Call
  <2>4. c.op \in {"insert", "load", "contains", "erase", "at", "update"} =>
          c.key \in Keys /\ c.key # None
    BY CallFields, ConstantsAssumption
  <2>5. FirstLabel(c.op) \in {"lock", "body", "read_count"}
    BY DEF FirstLabel, LocksNothing
  <2>6. FirstLabel(c.op) = "body" <=> c.op = "load"
    BY CallFields DEF FirstLabel, LocksNothing
  <2>7. FirstLabel(c.op) = "read_count" <=> c.op \in {"size", "empty"}
    BY CallFields DEF FirstLabel, LocksNothing
  <2>8. reg'[t].key = c.key /\ (c.key # None => reg'[t].shard = ShardOf(c.key))
    BY <2>1 DEF NoReg
  <2>9. \A u \in Threads : u # t => reg'[u] = reg[u] /\ pc'[u] = pc[u] /\ call'[u] = call[u]
    BY <2>1
  <2>10. pc'[t] = FirstLabel(c.op) /\ call'[t] = c
    BY <2>1
  <2>11. Disciplined(t)'
    BY <2>1, <2>2, <2>3, <2>4, <2>5, <2>6, <2>7, <2>8, <2>9, <2>10, CallFields
  <2>12. ASSUME NEW u \in Threads, u # t PROVE Disciplined(u)'
    BY <2>2, <2>3, <2>9, <2>12
  <2> QED
    BY <2>11, <2>12
<1>2. CASE Acquire(t)
  <2> DEFINE todo == IF call[t].op = "update_each" THEN Present \cap InShard(reg[t].shard)
                     ELSE {}
  <2>1. \A k \in todo : ShardOf(k) = reg[t].shard /\ store[k] # None
    BY DEF Present, PresentIn, InShard
  <2>2. reg' = [reg EXCEPT ![t].todo = todo]
    BY <1>2 DEF Acquire, IsFree
  <2> HIDE DEF todo
  <2>3. Disciplined(t)'
    BY <1>2, <2>1, <2>2 DEF Acquire, IsFree
  <2>4. ASSUME NEW u \in Threads, u # t PROVE Disciplined(u)'
    BY <1>2, <2>2, <2>4, ConstantsAssumption DEF Acquire, IsFree
  <2> QED
    BY <2>3, <2>4
<1>3. CASE Unlock(t)
  BY <1>3, ConstantsAssumption DEF Unlock, Unlocks, LocksNothing, Returned, NoCall
<1>4. CASE InsertBody(t)
  BY <1>4, KeyIsMine DEF InsertBody, AtBodyOrLoad, Answer
<1>5. CASE CountUp(t)
  BY <1>5 DEF CountUp
<1>6. CASE ContainsBody(t)
  BY <1>6 DEF ContainsBody, Answer
<1>7. CASE EraseBody(t)
  BY <1>7, KeyIsMine DEF EraseBody, AfterErase, Answer
<1>8. CASE CountDown(t)
  BY <1>8 DEF CountDown
<1>9. CASE AtAnswer(t)
  BY <1>9 DEF AtAnswer, Answer
<1>10. CASE UpdateThrows(t)
  BY <1>10 DEF UpdateThrows, Answer
<1>11. CASE UpdateRead(t)
  BY <1>11 DEF UpdateRead
<1>12. CASE UpdateWrite(t)
  BY <1>12, KeyIsMine, UpdatedType DEF UpdateWrite, Answer
<1>13. CASE EachRead(t)
  BY <1>13 DEF EachRead
<1>14. CASE EachWrite(t)
  <2>1. reg[t].seen \in Values
    BY <1>14 DEF EachWrite
  <2>2. store' = [store EXCEPT ![reg[t].key] = Updated(reg[t].seen)]
        /\ Updated(reg[t].seen) # None
    BY <1>14, <2>1, UpdatedType DEF EachWrite
  <2>3. \A k \in Keys : store[k] # None => store'[k] # None
    BY <2>2
  <2>4. UNCHANGED <<mutex, call, reg>> /\ pc' = [pc EXCEPT ![t] = "body"]
    BY <1>14 DEF EachWrite
  <2>5. Disciplined(t)'
    BY <1>14, <2>3, <2>4 DEF EachWrite
  <2>6. ASSUME NEW u \in Threads, u # t PROVE Disciplined(u)'
    BY <1>14, <2>3, <2>4, <2>6 DEF EachWrite
  <2> QED
    BY <2>5, <2>6
<1>15. CASE EachNextShard(t)
  BY <1>15 DEF EachNextShard, NoReg
<1>16. CASE EachLastShard(t)
  BY <1>16 DEF EachLastShard, Answer
<1>17. CASE ReadCount(t)
  BY <1>17 DEF ReadCount, Answer
<1>18. CASE ReturnCount(t)
  BY <1>18 DEF ReturnCount, Returned, NoCall
<1>19. CASE UpdaterThrows(t)
  BY <1>19 DEF UpdaterThrows, Answer
<1> QED
  BY <1>1, <1>2, <1>3, <1>4, <1>5, <1>6, <1>7, <1>8, <1>9, <1>10, <1>11, <1>12, <1>13,
     <1>14, <1>15, <1>16, <1>17, <1>18, <1>19 DEF Step

-----------------------------------------------------------------------------
(* The counter.  Four steps matter: the two that change a shard's map leave *)
(* the counted elements as they are, and the two that move the counter add  *)
(* one element to them or take one away.                                    *)

LEMMA CountedFinite ==
  ASSUME Basis
  PROVE  IsFiniteSet(Counted)
<1>1. Counted \subseteq Keys
  BY DEF Counted, Present, PresentIn, Leaving, Basis, LockInv, Disciplined
<1> QED
  BY <1>1, ConstantsAssumption, FS_Subset

\* A step between labels that are not on the way to the counter.
LEMMA NothingMoves ==
  ASSUME NEW t \in Threads, pc[t] \notin {"count_up", "count_down"},
         pc'[t] \notin {"count_up", "count_down"},
         \A u \in Threads : u # t => pc'[u] = pc[u] /\ reg'[u].key = reg[u].key
  PROVE  Joining' = Joining /\ Leaving' = Leaving
  BY DEF Joining, Leaving

LEMMA CountStep ==
  ASSUME Basis, CountExact, NEW t \in Threads, Call(t) \/ Step(t)
  PROVE  CountExact'
<1>1. /\ pc \in [Threads -> Labels] /\ reg \in [Threads -> Regs]
      /\ store \in [Keys -> Values \cup {None}]
      /\ call \in [Threads -> Calls \cup {NoCall}]
  BY DEF Basis, TypeOK
<1>2. ASSUME Present' = Present, count' = count, Joining' = Joining, Leaving' = Leaving
      PROVE  CountExact'
  BY <1>2 DEF CountExact, Counted
<1>3. CASE Call(t)
  <2>1. PICK c \in Calls :
          /\ pc' = [pc EXCEPT ![t] = FirstLabel(c.op)]
          /\ reg' = [reg EXCEPT ![t] = [NoReg EXCEPT
                       !.key = c.key, !.shard = IF c.key = None THEN 0 ELSE ShardOf(c.key)]]
    BY <1>3 DEF Call
  <2>2. FirstLabel(c.op) \notin {"count_up", "count_down"}
    BY DEF FirstLabel, LocksNothing
  <2>3. Joining' = Joining /\ Leaving' = Leaving
    BY <1>1, <1>3, <2>1, <2>2, NothingMoves DEF Call
  <2> QED
    BY <1>2, <1>3, <2>3 DEF Call, Present
<1>4. CASE \/ Acquire(t) \/ Unlock(t) \/ ContainsBody(t) \/ AtAnswer(t) \/ UpdateThrows(t)
           \/ UpdateRead(t) \/ EachRead(t) \/ EachNextShard(t) \/ EachLastShard(t)
           \/ ReadCount(t) \/ ReturnCount(t) \/ UpdaterThrows(t)
  <2>1. UNCHANGED <<store, count>>
    BY <1>4 DEF Acquire, Unlock, ContainsBody, AtAnswer, UpdateThrows, UpdateRead, EachRead,
                EachNextShard, EachLastShard, ReadCount, ReturnCount, UpdaterThrows
  <2>2. pc[t] \notin {"count_up", "count_down"}
    BY <1>4 DEF Acquire, Unlock, ContainsBody, AtAnswer, UpdateThrows, UpdateRead, EachRead,
                EachNextShard, EachLastShard, ReadCount, ReturnCount, UpdaterThrows, AtBody
  <2>3. \E label \in Labels \ {"count_up", "count_down"} : pc' = [pc EXCEPT ![t] = label]
    BY <1>4 DEF Acquire, Unlock, ContainsBody, AtAnswer, UpdateThrows, UpdateRead, EachRead,
                EachNextShard, EachLastShard, ReadCount, ReturnCount, UpdaterThrows, Returned, Answer, Labels
  <2>4. \A u \in Threads : u # t => reg'[u] = reg[u]
    BY <1>1, <1>4
       DEF Acquire, Unlock, ContainsBody, AtAnswer, UpdateThrows, UpdateRead, EachRead,
           EachNextShard, EachLastShard, ReadCount, ReturnCount, UpdaterThrows, Returned
  <2>5. Joining' = Joining /\ Leaving' = Leaving
    BY <1>1, <2>2, <2>3, <2>4, NothingMoves
  <2> QED
    BY <1>2, <2>1, <2>5 DEF Present
<1>5. CASE UpdateWrite(t) \/ EachWrite(t)
  <2>1. pc[t] = "write" /\ UNCHANGED <<count, reg>>
        /\ store' = [store EXCEPT ![reg[t].key] = Updated(reg[t].seen)]
    BY <1>5 DEF UpdateWrite, EachWrite
  <2>2. \E label \in {"unlock", "body"} : pc' = [pc EXCEPT ![t] = label]
    BY <1>5 DEF UpdateWrite, EachWrite, Answer
  <2>3. reg[t].seen \in Values /\ store[reg[t].key] # None
    BY <1>1, <2>1 DEF Basis, LockInv, Disciplined, Regs
  <2>4. Present' = Present
    BY <1>1, <2>1, <2>3, UpdatedType DEF Present, PresentIn
  <2>5. Joining' = Joining /\ Leaving' = Leaving
    BY <1>1, <2>1, <2>2, NothingMoves
  <2> QED
    BY <1>2, <2>1, <2>4, <2>5
<1>6. ASSUME pc[t] = "body", call[t].op \in {"insert", "load", "erase"}
      PROVE  /\ call[t].key \in Keys /\ reg[t].key = call[t].key
             /\ call[t].key \notin Joining /\ call[t].key \notin Leaving
  <2>1. call[t].key \in Keys /\ reg[t].key = call[t].key /\ reg[t].shard = ShardOf(reg[t].key)
    BY <1>6 DEF Basis, LockInv, Disciplined, AtKey
  <2>2. ASSUME NEW u \in Threads, pc[u] \in {"count_up", "count_down"}, reg[u].key = reg[t].key
        PROVE  FALSE
    <3>1. u # t /\ reg[u].shard = reg[t].shard
      BY <1>6, <2>1, <2>2 DEF Basis, LockInv, Disciplined
    <3> QED
      BY <1>6, <2>2, <3>1, KeyIsMine
  <2> QED
    BY <2>1, <2>2 DEF Joining, Leaving
<1>7. CASE InsertBody(t)
  <2> DEFINE k == call[t].key
  <2>1. pc[t] = "body" /\ call[t].op \in {"insert", "load"} /\ UNCHANGED <<count, reg>>
    BY <1>7 DEF InsertBody, AtBodyOrLoad, AtBody
  <2>2. k \in Keys /\ reg[t].key = k /\ k \notin Joining /\ k \notin Leaving
    BY <1>6, <2>1
  <2>3. CASE store[k] = None
    <3>1. store' = [store EXCEPT ![k] = call[t].value] /\ pc' = [pc EXCEPT ![t] = "count_up"]
      BY <1>7, <2>3 DEF InsertBody, Answer
    <3>2. call[t].value \in Values /\ call[t].value # None
      BY <1>1, <2>1, CallFields, ConstantsAssumption DEF NoCall
    <3>3. Present' = Present \cup {k}
      BY <1>1, <2>2, <3>1, <3>2 DEF Present, PresentIn
    <3>4. Joining' = Joining \cup {k} /\ Leaving' = Leaving
      BY <1>1, <2>1, <2>2, <3>1 DEF Joining, Leaving
    <3>5. k \notin Present
      BY <2>3 DEF Present, PresentIn
    <3>6. Counted' = Counted
      BY <3>3, <3>4, <3>5 DEF Counted
    <3> QED
      BY <2>1, <2>2, <3>3, <3>4, <3>6 DEF CountExact
  <2>4. CASE store[k] # None
    <3>1. store' = store /\ pc' = [pc EXCEPT ![t] = "unlock"]
      BY <1>7, <2>4 DEF InsertBody, Answer
    <3>2. Joining' = Joining /\ Leaving' = Leaving
      BY <1>1, <2>1, <3>1, NothingMoves
    <3> QED
      BY <1>2, <2>1, <3>1, <3>2 DEF Present
  <2> QED
    BY <2>3, <2>4
<1>8. CASE EraseBody(t)
  <2> DEFINE k == call[t].key
  <2>1. pc[t] = "body" /\ call[t].op = "erase" /\ UNCHANGED count
        /\ store' = [store EXCEPT ![k] = None]
        /\ \A u \in Threads : reg'[u].key = reg[u].key
    BY <1>1, <1>8 DEF EraseBody, AtBody, Regs
  <2>2. k \in Keys /\ reg[t].key = k /\ k \notin Joining /\ k \notin Leaving
    BY <1>6, <2>1
  <2>3. Present' = Present \ {k}
    BY <1>1, <2>1, <2>2 DEF Present, PresentIn
  <2>4. CASE store[k] # None
    <3>1. pc' = [pc EXCEPT ![t] = "count_down"]
      BY <1>8, <2>4 DEF EraseBody, AfterErase, Answer
    <3>2. Leaving' = Leaving \cup {k} /\ Joining' = Joining
      BY <1>1, <2>1, <2>2, <3>1 DEF Joining, Leaving
    <3>3. k \in Present
      BY <2>2, <2>4 DEF Present, PresentIn
    <3>4. Counted' = Counted
      BY <2>2, <2>3, <3>2, <3>3 DEF Counted
    <3> QED
      BY <2>1, <2>2, <2>3, <3>2, <3>4 DEF CountExact
  <2>5. CASE store[k] = None
    <3>1. pc' = [pc EXCEPT ![t] = "unlock"]
      BY <1>8, <2>5 DEF EraseBody, AfterErase, Answer
    <3>2. Joining' = Joining /\ Leaving' = Leaving
      BY <1>1, <2>1, <3>1, NothingMoves
    <3>3. Present' = Present
      BY <2>3, <2>5 DEF Present, PresentIn
    <3> QED
      BY <1>2, <2>1, <3>2, <3>3
  <2> QED
    BY <2>4, <2>5
<1>9. ASSUME pc[t] \in {"count_up", "count_down"}, NEW u \in Threads, u # t,
             pc[u] \in {"count_up", "count_down"}
      PROVE  reg[u].key # reg[t].key
  BY <1>9, KeyIsMine DEF Basis, LockInv, Disciplined
<1>10. CASE CountUp(t)
  <2> DEFINE k == reg[t].key
  <2>1. pc[t] = "count_up" /\ count' = count + 1 /\ UNCHANGED <<store, reg>>
        /\ pc' = [pc EXCEPT ![t] = "unlock"]
    BY <1>10 DEF CountUp
  <2>2. k \in Joining
    BY <2>1 DEF Joining
  <2>3. Joining' = Joining \ {k} /\ Leaving' = Leaving
    BY <1>1, <1>9, <2>1 DEF Joining, Leaving
  <2>4. k \in Present /\ k \notin Counted /\ Present' = Present
    BY <2>1, <2>2 DEF CountExact, Counted, Present
  <2>5. Counted' = Counted \cup {k}
    BY <2>2, <2>3, <2>4 DEF Counted
  <2>6. Cardinality(Counted') = Cardinality(Counted) + 1
    BY <2>4, <2>5, CountedFinite, FS_AddElement
  <2> QED
    BY <2>1, <2>3, <2>4, <2>6 DEF CountExact
<1>11. CASE CountDown(t)
  <2> DEFINE k == reg[t].key
  <2>1. pc[t] = "count_down" /\ count' = count - 1 /\ UNCHANGED <<store, reg>>
        /\ pc' = [pc EXCEPT ![t] = "unlock"]
    BY <1>11 DEF CountDown
  <2>2. k \in Leaving
    BY <2>1 DEF Leaving
  <2>3. Leaving' = Leaving \ {k} /\ Joining' = Joining
    BY <1>1, <1>9, <2>1 DEF Joining, Leaving
  <2>4. k \notin Present /\ k \in Counted /\ Present' = Present
    BY <2>1, <2>2 DEF CountExact, Counted, Present
  <2>5. Counted' = Counted \ {k}
    BY <2>2, <2>3, <2>4 DEF Counted
  <2>6. Cardinality(Counted') = Cardinality(Counted) - 1
    BY <2>4, <2>5, CountedFinite, FS_RemoveElement
  <2> QED
    BY <2>1, <2>3, <2>4, <2>6 DEF CountExact
<1> QED
  BY <1>3, <1>4, <1>5, <1>7, <1>8, <1>10, <1>11 DEF Step

-----------------------------------------------------------------------------
(* The theorems.                                                           *)

LEMMA CountInit == Init => CountExact
<1> SUFFICES ASSUME Init PROVE CountExact
  OBVIOUS
<1>1. Joining = {} /\ Leaving = {} /\ Present = {}
  BY DEF Init, Joining, Leaving, Present, PresentIn
<1>2. Counted = {}
  BY <1>1 DEF Counted
<1> QED
  BY <1>1, <1>2, FS_EmptySet DEF Init, CountExact

LEMMA BasisStep == Basis /\ [Next]_vars => Basis'
<1> SUFFICES ASSUME Basis, [Next]_vars PROVE Basis'
  OBVIOUS
<1>1. CASE Next
  <2>1. PICK t \in Threads : Call(t) \/ Step(t)
    BY <1>1 DEF Next
  <2> QED
    BY <2>1, TypeStep, LockStep DEF Basis
<1>2. CASE UNCHANGED vars
  BY <1>2 DEF vars, Basis, TypeOK, LockInv, Disciplined, Locked, AtKey
<1> QED
  BY <1>1, <1>2

\* No thread ever works on a shard that does not exist, or stores something
\* that is not a value, whatever calls the threads make.
THEOREM TypeCorrect == Spec => []TypeOK
<1>1. Basis => TypeOK
  BY DEF Basis
<1> QED
  BY <1>1, BasisInit, BasisStep, PTL DEF Spec

\* A thread that is past the lock of a shard holds that shard's mutex until it
\* unlocks it, throws and the moves of update_each from shard to shard included.
THEOREM LocksKept == Spec => []LockInv
<1>1. Basis => LockInv
  BY DEF Basis
<1> QED
  BY <1>1, BasisInit, BasisStep, PTL DEF Spec

\* Mutual exclusion on every shard's map, and of load on all of them.
THEOREM ShardsExcluded == Spec => []OneThreadPerShard
<1>1. Basis => OneThreadPerShard
  <2> SUFFICES ASSUME Basis, NEW t \in Threads, NEW u \in Threads, t # u, Locked(t)
               PROVE  /\ ~(Locked(u) /\ reg[t].shard = reg[u].shard)
                      /\ call[u].op # "load"
    BY DEF OneThreadPerShard
  <2>1. pc[t] # "idle" /\ mutex[reg[t].shard] = t
    BY DEF Basis, LockInv, Disciplined, Locked
  <2>2. call[u].op # "load"
    BY <2>1 DEF Basis, LockInv, Disciplined
  <2>3. Locked(u) => mutex[reg[u].shard] = u
    BY DEF Basis, LockInv, Disciplined
  <2> QED
    BY <2>1, <2>2, <2>3
<1> QED
  BY <1>1, BasisInit, BasisStep, PTL DEF Spec

\* The counter is updated apart from the maps and read without a lock, and yet
\* it differs from the number of elements only by the calls that are between
\* the two.
THEOREM CounterExact == Spec => []CountExact
<1>1. Init => Basis /\ CountExact
  BY BasisInit, CountInit
<1>2. Basis /\ CountExact /\ [Next]_vars => (Basis /\ CountExact)'
  <2> SUFFICES ASSUME Basis, CountExact, [Next]_vars PROVE CountExact'
    BY BasisStep
  <2>1. CASE Next
    BY <2>1, CountStep DEF Next
  <2>2. CASE UNCHANGED vars
    BY <2>2 DEF vars, CountExact, Counted, Present, PresentIn, Joining, Leaving
  <2> QED
    BY <2>1, <2>2
<1> QED
  BY <1>1, <1>2, PTL DEF Spec

\* So the unsigned counter never wraps below zero, and size() is exact as soon
\* as no call is running.
THEOREM SizeAtRest ==
  Spec => [](/\ count >= 0
             /\ (\A t \in Threads : pc[t] = "idle") => count = Cardinality(Present))
<1> DEFINE AtRest == /\ count >= 0
                     /\ (\A t \in Threads : pc[t] = "idle") => count = Cardinality(Present)
<1>1. Basis /\ CountExact => AtRest
  <2> SUFFICES ASSUME Basis, CountExact PROVE AtRest
    OBVIOUS
  <2>1. count >= 0
    BY CountedFinite, FS_CardinalityType DEF CountExact
  <2>2. ASSUME \A t \in Threads : pc[t] = "idle" PROVE count = Cardinality(Present)
    <3>1. Joining = {} /\ Leaving = {}
      BY <2>2 DEF Joining, Leaving
    <3>2. Counted = Present
      BY <3>1 DEF Counted
    <3> QED
      BY <3>2 DEF CountExact
  <2> QED
    BY <2>1, <2>2
<1>2. Basis /\ [Next]_vars => Basis'
  BY BasisStep
<1>3. Spec => []Basis
  BY BasisInit, <1>2, PTL DEF Spec
<1> QED
  BY <1>1, <1>3, CounterExact, PTL

-----------------------------------------------------------------------------
(***************************************************************************)
(* ShardMap implements ConcurrentMap, for any number of threads, keys and  *)
(* shards: every step of a thread is one step of the promised map or none. *)
(***************************************************************************)

(* What the refinement needs beside the locks and the counter: where in its *)
(* call a thread knows its result, and how far update_each has come.        *)

\* The result is known from the end of the body on.  It is "true" on the way to
\* the counter, where the thread is the only one to know the element.
Answered(t) ==
  /\ pc[t] \in {"idle", "lock", "body", "write", "read_count"} => result[t] = NoResult
  /\ pc[t] \in {"count_up", "count_down"} => result[t] = YesNo(TRUE)
  /\ pc[t] \in {"unlock", "return"} => result[t] # NoResult

\* Where in the code a thread's call is, and what it holds in its hands.
Placed(t) ==
  /\ pc[t] # "idle" => call[t] \in Calls
  /\ pc[t] = "read_count" => call[t].op \in {"size", "empty"}
  /\ pc[t] = "count_up" =>
       /\ call[t].op \in {"insert", "load"}
       /\ store[reg[t].key] = call[t].value
  /\ pc[t] = "count_down" =>
       /\ call[t].op = "erase"
       /\ store[reg[t].key] = None
       /\ reg[t].seen # None
  /\ pc[t] \in {"count_up", "count_down"} => reg[t].key = call[t].key
  /\ pc[t] = "write" =>
       /\ call[t].op \in {"update", "update_each"}
       /\ reg[t].seen = store[reg[t].key]
       /\ call[t].op = "update" => reg[t].key = call[t].key

\* The elements that update_each has still to come to: those of its shard that
\* it has not taken yet, the one it has in its hands, and those of later shards.
Ahead(t) ==
  reg[t].todo
    \cup (IF pc[t] = "write" THEN {reg[t].key} ELSE {})
    \cup {k \in Keys : \/ ShardOf(k) > reg[t].shard
                       \/ pc[t] = "lock" /\ ShardOf(k) = reg[t].shard}

\* update_each has updated nothing that lies ahead of it, and what it was to
\* update and has not updated yet lies ahead.
Advancing(t) ==
  /\ pc[t] = "idle" => visited[t] = {}
  /\ call[t].op = "update_each" /\ pc[t] \in {"lock", "body", "write"} =>
       /\ visited[t] \cap Ahead(t) = {}
       /\ kept[t] \subseteq visited[t] \cup Ahead(t)
       /\ pc[t] = "write" => reg[t].key \notin reg[t].todo
       /\ pc[t] = "lock" => reg[t].todo = {}

HistoryType ==
  /\ result = [t \in Threads |-> result[t]]
  /\ visited \in [Threads -> SUBSET Keys]
  /\ kept \in [Threads -> SUBSET PresentIn(Contents)]

CallInv ==
  /\ HistoryType
  /\ \A t \in Threads : Answered(t) /\ Placed(t) /\ Advancing(t)

-----------------------------------------------------------------------------
(* CallInv is an invariant.                                                *)

\* Basis in a form that gives the provers the types of the local variables.
LEMMA Types ==
  ASSUME Basis
  PROVE  /\ pc \in [Threads -> Labels] /\ reg \in [Threads -> Regs]
         /\ call \in [Threads -> Calls \cup {NoCall}]
         /\ store \in [Keys -> Values \cup {None}]
         /\ \A t \in Threads : /\ reg[t].shard \in Shards /\ reg[t].key \in Keys \cup {None}
                               /\ reg[t].todo \in SUBSET Keys
                               /\ reg[t].seen \in Values \cup {None}
  BY DEF Basis, TypeOK, Regs

\* A thread's step leaves the locals of the others alone.
LEMMA OthersStay ==
  ASSUME Basis, HistoryType, NEW t \in Threads, Call(t) \/ Step(t), NEW u \in Threads, u # t
  PROVE  /\ pc'[u] = pc[u] /\ call'[u] = call[u] /\ reg'[u] = reg[u]
         /\ result'[u] = result[u] /\ visited'[u] = visited[u]
<1>1. /\ pc \in [Threads -> Labels] /\ reg \in [Threads -> Regs]
      /\ call \in [Threads -> Calls \cup {NoCall}]
      /\ result = [v \in Threads |-> result[v]] /\ visited \in [Threads -> SUBSET Keys]
  BY Types DEF HistoryType
<1>2. CASE Call(t)
  BY <1>1, <1>2 DEF Call
<1>3. CASE Acquire(t) \/ Unlock(t) \/ ReadCount(t) \/ ReturnCount(t)
  BY <1>1, <1>3 DEF Acquire, Unlock, ReadCount, ReturnCount, Returned, Answer
<1>4. CASE InsertBody(t) \/ CountUp(t) \/ ContainsBody(t) \/ EraseBody(t) \/ CountDown(t)
  BY <1>1, <1>4 DEF InsertBody, CountUp, ContainsBody, EraseBody, CountDown, Answer
<1>5. CASE AtAnswer(t) \/ UpdateThrows(t) \/ UpdateRead(t) \/ UpdateWrite(t) \/ UpdaterThrows(t)
  BY <1>1, <1>5 DEF AtAnswer, UpdateThrows, UpdateRead, UpdateWrite, UpdaterThrows, Answer
<1>6. CASE EachRead(t) \/ EachWrite(t) \/ EachNextShard(t) \/ EachLastShard(t)
  BY <1>1, <1>6 DEF EachRead, EachWrite, EachNextShard, EachLastShard, Answer
<1> QED
  BY <1>2, <1>3, <1>4, <1>5, <1>6 DEF Step

\* What another thread has in its hands is in a shard that is not the one of
\* the thread that writes.
LEMMA StoreStays ==
  ASSUME Basis, NEW t \in Threads, Call(t) \/ Step(t), NEW u \in Threads, u # t,
         pc[u] \in {"count_up", "count_down", "write"}
  PROVE  store'[reg[u].key] = store[reg[u].key]
<1>1. reg[u].key \in Keys /\ reg[u].shard = ShardOf(reg[u].key)
  BY DEF Basis, LockInv, Disciplined
<1>2. ASSUME pc[t] = "body", call[t].op \in {"insert", "load", "erase"}
      PROVE  call[t].key # reg[u].key
  <2>1. reg[t].shard = ShardOf(call[t].key)
    BY <1>2 DEF Basis, LockInv, Disciplined, AtKey
  <2> QED
    BY <1>1, <1>2, <2>1, KeyIsMine
<1>3. ASSUME pc[t] = "write"
      PROVE  reg[t].key # reg[u].key
  <2>1. reg[t].shard = ShardOf(reg[t].key)
    BY <1>3 DEF Basis, LockInv, Disciplined
  <2> QED
    BY <1>1, <1>3, <2>1, KeyIsMine
<1>4. CASE InsertBody(t)
  BY <1>1, <1>2, <1>4, Types DEF InsertBody, AtBodyOrLoad, AtBody
<1>5. CASE EraseBody(t)
  BY <1>1, <1>2, <1>5, Types DEF EraseBody, AtBody
<1>6. CASE UpdateWrite(t) \/ EachWrite(t)
  BY <1>1, <1>3, <1>6, Types DEF UpdateWrite, EachWrite
<1>7. CASE \/ Call(t) \/ Acquire(t) \/ Unlock(t) \/ CountUp(t) \/ ContainsBody(t) \/ CountDown(t)
           \/ AtAnswer(t) \/ UpdateThrows(t) \/ UpdateRead(t) \/ UpdaterThrows(t) \/ EachRead(t)
           \/ EachNextShard(t) \/ EachLastShard(t) \/ ReadCount(t) \/ ReturnCount(t)
  BY <1>7 DEF Call, Acquire, Unlock, CountUp, ContainsBody, CountDown, AtAnswer, UpdateThrows,
       UpdateRead, UpdaterThrows, EachRead, EachNextShard, EachLastShard, ReadCount, ReturnCount
<1> QED
  BY <1>4, <1>5, <1>6, <1>7 DEF Step

LEMMA AnsweredStep ==
  ASSUME Basis, CallInv, NEW t \in Threads, Call(t) \/ Step(t)
  PROVE  \A u \in Threads : Answered(u)'
<1>1. ASSUME NEW u \in Threads, u # t PROVE Answered(u)'
  <2>1. pc'[u] = pc[u] /\ result'[u] = result[u] /\ Answered(u)
    BY <1>1, OthersStay DEF CallInv
  <2> QED
    BY <2>1 DEF Answered
<1> SUFFICES Answered(t)'
  BY <1>1
<1>2. /\ pc \in [Threads -> Labels] /\ result = [v \in Threads |-> result[v]] /\ Answered(t)
  BY Types DEF CallInv, HistoryType
<1> USE DEF Answered, Result, NoResult, YesNo
<1>3. CASE Call(t)
  BY <1>2, <1>3 DEF Call, FirstLabel
<1>4. CASE Acquire(t) \/ Unlock(t) \/ ReadCount(t) \/ ReturnCount(t)
  BY <1>2, <1>4 DEF Acquire, Unlock, ReadCount, ReturnCount, Returned, Answer
<1>5. CASE InsertBody(t) \/ CountUp(t) \/ ContainsBody(t) \/ EraseBody(t) \/ CountDown(t)
  BY <1>2, <1>5 DEF InsertBody, CountUp, ContainsBody, EraseBody, AfterErase, CountDown, Answer
<1>6. CASE AtAnswer(t) \/ UpdateThrows(t) \/ UpdateRead(t) \/ UpdateWrite(t) \/ UpdaterThrows(t)
  BY <1>2, <1>6 DEF AtAnswer, AtBody, UpdateThrows, UpdateRead, UpdateWrite, UpdaterThrows, Answer
<1>7. CASE EachRead(t) \/ EachWrite(t) \/ EachNextShard(t)
  BY <1>2, <1>7 DEF EachRead, AtBody, EachWrite, EachNextShard
<1>8. CASE EachLastShard(t)
  BY <1>2, <1>8 DEF EachLastShard, Answer
<1> QED
  BY <1>8, <1>3, <1>4, <1>5, <1>6, <1>7 DEF Step

LEMMA PlacedStep ==
  ASSUME Basis, CallInv, NEW t \in Threads, Call(t) \/ Step(t)
  PROVE  \A u \in Threads : Placed(u)'
<1>1. ASSUME NEW u \in Threads, u # t PROVE Placed(u)'
  <2>1. /\ pc'[u] = pc[u] /\ call'[u] = call[u] /\ reg'[u] = reg[u]
        /\ Placed(u)
    BY <1>1, OthersStay DEF CallInv
  <2>2. pc[u] \in {"count_up", "count_down", "write"} =>
          store'[reg[u].key] = store[reg[u].key]
    BY <1>1, StoreStays
  <2> QED
    BY <2>1, <2>2 DEF Placed
<1> SUFFICES Placed(t)'
  BY <1>1
<1>2. /\ pc \in [Threads -> Labels] /\ reg \in [Threads -> Regs]
      /\ call \in [Threads -> Calls \cup {NoCall}]
      /\ store \in [Keys -> Values \cup {None}] /\ Placed(t)
  BY Types DEF CallInv
<1> USE DEF Placed
<1>3. CASE Call(t)
  <2>1. PICK c \in Calls :
          /\ call' = [call EXCEPT ![t] = c]
          /\ pc' = [pc EXCEPT ![t] = FirstLabel(c.op)]
    BY <1>3 DEF Call
  <2>2. FirstLabel(c.op) \in {"lock", "body", "read_count"}
        /\ (FirstLabel(c.op) = "read_count" => c.op \in {"size", "empty"})
    BY DEF FirstLabel
  <2> QED
    BY <1>2, <2>1, <2>2
<1>4. CASE Acquire(t) \/ Unlock(t) \/ ReadCount(t) \/ ReturnCount(t)
  BY <1>2, <1>4 DEF Acquire, Unlock, ReadCount, ReturnCount, Returned, Answer
<1>5. CASE InsertBody(t)
  <2>1. call[t].key \in Keys /\ reg[t].key = call[t].key
    BY <1>5 DEF InsertBody, AtBodyOrLoad, AtBody, Basis, LockInv, Disciplined, AtKey
  <2> QED
    BY <1>2, <1>5, <2>1 DEF InsertBody, AtBodyOrLoad, AtBody, Answer
<1>6. CASE CountUp(t) \/ ContainsBody(t) \/ CountDown(t)
  BY <1>2, <1>6 DEF CountUp, ContainsBody, CountDown, AtBody, Answer
<1>7. CASE EraseBody(t)
  <2>1. call[t].key \in Keys /\ reg[t].key = call[t].key
    BY <1>7 DEF EraseBody, AtBody, Basis, LockInv, Disciplined, AtKey
  <2>2. reg' = [reg EXCEPT ![t].seen = store[call[t].key]]
    BY <1>7 DEF EraseBody
  <2>3. reg'[t].seen = store[call[t].key] /\ reg'[t].key = reg[t].key
    BY <1>2, <2>2 DEF Regs
  <2>4. call[t].op = "erase" /\ pc[t] = "body" /\ UNCHANGED call
        /\ store' = [store EXCEPT ![call[t].key] = None]
        /\ pc' = [pc EXCEPT ![t] = IF store[call[t].key] # None THEN "count_down" ELSE "unlock"]
    BY <1>7 DEF EraseBody, AtBody, AfterErase, Answer
  <2> QED
    BY <1>2, <2>1, <2>3, <2>4
<1>8. CASE AtAnswer(t) \/ UpdateThrows(t) \/ UpdateWrite(t) \/ UpdaterThrows(t)
  BY <1>2, <1>8 DEF AtAnswer, AtBody, UpdateThrows, UpdateWrite, UpdaterThrows, Answer
<1>9. CASE UpdateRead(t)
  <2>1. call[t].key \in Keys /\ reg[t].key = call[t].key
    BY <1>9 DEF UpdateRead, AtBody, Basis, LockInv, Disciplined, AtKey
  <2>2. reg'[t].seen = store[call[t].key] /\ reg'[t].key = reg[t].key
    BY <1>2, <1>9 DEF UpdateRead, Regs
  <2> QED
    BY <1>2, <1>9, <2>1, <2>2 DEF UpdateRead, AtBody
<1>10. CASE EachRead(t)
  <2>1. reg'[t].seen = store[reg'[t].key]
    BY <1>2, <1>10 DEF EachRead, Regs
  <2> QED
    BY <1>2, <1>10, <2>1 DEF EachRead, AtBody
<1>11. CASE EachWrite(t) \/ EachNextShard(t) \/ EachLastShard(t)
  BY <1>2, <1>11 DEF EachWrite, EachNextShard, EachLastShard, AtBody, Answer
<1> QED
  BY <1>1, <1>3, <1>4, <1>5, <1>6, <1>7, <1>8, <1>9, <1>10, <1>11 DEF Step

-----------------------------------------------------------------------------
(* The map that the callers see.                                           *)

ContentsAre ==
  \A k \in Keys :
    /\ k \in Joining => Contents[k] = None
    /\ \A t \in Threads : pc[t] = "count_down" /\ reg[t].key = k => Contents[k] = reg[t].seen
    /\ k \notin Joining \cup Leaving => Contents[k] = store[k]

\* An element on its way out has one thread that takes it there.
LEMMA ContentsNow == Basis => ContentsAre
<1> SUFFICES ASSUME Basis, NEW k \in Keys
             PROVE  /\ k \in Joining => Contents[k] = None
                    /\ \A t \in Threads : pc[t] = "count_down" /\ reg[t].key = k =>
                         Contents[k] = reg[t].seen
                    /\ k \notin Joining \cup Leaving => Contents[k] = store[k]
  BY DEF ContentsAre
<1>1. ASSUME NEW t \in Threads, pc[t] = "count_down", reg[t].key = k
      PROVE  Contents[k] = reg[t].seen
  <2>1. ASSUME NEW u \in Threads, pc[u] \in {"count_up", "count_down"}, reg[u].key = k
        PROVE  u = t
    BY <1>1, <2>1, KeyIsMine DEF Basis, LockInv, Disciplined
  <2>2. k \notin Joining
    BY <1>1, <2>1 DEF Joining
  <2>3. k \in Leaving
    BY <1>1 DEF Leaving
  <2>4. (CHOOSE u \in Threads : pc[u] = "count_down" /\ reg[u].key = k) = t
    BY <1>1, <2>1
  <2> QED
    BY <2>2, <2>3, <2>4 DEF Contents
<1> QED
  BY <1>1 DEF Contents

LEMMA ContentsNext == Basis' => ContentsAre'
  BY ContentsNow, PTL

\* To its callers the map has the elements that the counter counts.
LEMMA PresentAreCounted ==
  ASSUME Basis, CountExact, CallInv
  PROVE  PresentIn(Contents) = Counted
<1>1. ContentsAre
  BY ContentsNow
<1>2. ASSUME NEW k \in Keys
      PROVE  Contents[k] # None <=> k \in Counted
  <2>1. CASE k \in Joining
    <3>1. k \in Present /\ k \notin Leaving
      BY <2>1 DEF CountExact
    <3> QED
      BY <1>1, <2>1, <3>1 DEF ContentsAre, Counted
  <2>2. CASE k \in Leaving
    <3>1. PICK t \in Threads : pc[t] = "count_down" /\ reg[t].key = k
      BY <2>2 DEF Leaving
    <3>2. Contents[k] = reg[t].seen /\ reg[t].seen # None
      BY <1>1, <3>1 DEF ContentsAre, CallInv, Placed
    <3> QED
      BY <2>2, <3>2 DEF Counted
  <2>3. CASE k \notin Joining \cup Leaving
    BY <1>1, <2>3 DEF ContentsAre, Counted, Present, PresentIn
  <2> QED
    BY <2>1, <2>2, <2>3
<1>3. Counted \subseteq Keys
  BY DEF Counted, Present, PresentIn, Leaving, Basis, LockInv, Disciplined
<1> QED
  BY <1>2, <1>3 DEF PresentIn

\* A step changes nothing of a key that is not in its thread's hands.
LEMMA ContentsElsewhere ==
  ASSUME Basis, Basis', HistoryType, NEW t \in Threads, Call(t) \/ Step(t), NEW k \in Keys,
         store'[k] = store[k],
         pc[t] \in {"count_up", "count_down"} => reg[t].key # k,
         pc'[t] \in {"count_up", "count_down"} => reg'[t].key # k
  PROVE  Contents'[k] = Contents[k]
<1>1. ContentsAre /\ ContentsAre'
  BY ContentsNow, ContentsNext
<1>2. \A u \in Threads : u # t => pc'[u] = pc[u] /\ reg'[u] = reg[u]
  BY OthersStay
<1>3. CASE k \in Joining
  <2>1. k \in Joining'
    BY <1>2, <1>3 DEF Joining
  <2> QED
    BY <1>1, <1>3, <2>1 DEF ContentsAre
<1>4. CASE k \in Leaving
  <2>1. PICK u \in Threads : pc[u] = "count_down" /\ reg[u].key = k
    BY <1>4 DEF Leaving
  <2>2. u # t
    BY <2>1
  <2>3. pc'[u] = "count_down" /\ reg'[u].key = k /\ reg'[u].seen = reg[u].seen
    BY <1>2, <2>1, <2>2
  <2> QED
    BY <1>1, <2>1, <2>3 DEF ContentsAre
<1>5. CASE k \notin Joining \cup Leaving
  <2>1. k \notin Joining' \cup Leaving'
    BY <1>2, <1>5 DEF Joining, Leaving
  <2> QED
    BY <1>1, <1>5, <2>1 DEF ContentsAre
<1> QED
  BY <1>3, <1>4, <1>5

LEMMA ContentsSame ==
  ASSUME Basis, Basis', HistoryType, NEW t \in Threads, Call(t) \/ Step(t), store' = store,
         pc[t] \notin {"count_up", "count_down"}, pc'[t] \notin {"count_up", "count_down"}
  PROVE  Contents' = Contents
<1>1. \A k \in Keys : Contents'[k] = Contents[k]
  BY ContentsElsewhere
<1> QED
  BY <1>1 DEF Contents

\* What a thread that is past a lock has in its hands is nobody else's.
LEMMA AtHand ==
  ASSUME Basis, NEW t \in Threads,
         \/ pc[t] = "body" /\ call[t].op \in {"insert", "load", "contains", "erase", "at", "update"}
         \/ pc[t] = "write"
  PROVE  /\ reg[t].key \in Keys
         /\ reg[t].key \notin Joining \cup Leaving
         /\ Contents[reg[t].key] = store[reg[t].key]
<1>1. reg[t].key \in Keys /\ reg[t].shard = ShardOf(reg[t].key)
  BY DEF Basis, LockInv, Disciplined, AtKey
<1>2. ASSUME NEW u \in Threads, pc[u] \in {"count_up", "count_down"}, reg[u].key = reg[t].key
      PROVE  FALSE
  <2>1. u # t /\ reg[u].shard = reg[t].shard
    BY <1>1, <1>2 DEF Basis, LockInv, Disciplined
  <2> QED
    BY <1>2, <2>1, KeyIsMine
<1>3. reg[t].key \notin Joining \cup Leaving
  BY <1>2 DEF Joining, Leaving
<1> QED
  BY <1>1, <1>3, ContentsNow DEF ContentsAre

\* The steps that change what the callers see, and those at a shard's map that
\* do not because the counter still has to follow.
LEMMA InsertContents ==
  ASSUME Basis, Basis', HistoryType, NEW t \in Threads, InsertBody(t)
  PROVE  /\ Contents' = Contents
         /\ call[t].key \in Keys
         /\ Contents[call[t].key] = store[call[t].key]
<1>1. /\ pc \in [Threads -> Labels] /\ store \in [Keys -> Values \cup {None}]
  BY Types
<1>2. pc[t] = "body" /\ call[t].op \in {"insert", "load"} /\ UNCHANGED <<reg, call>>
  BY DEF InsertBody, AtBodyOrLoad, AtBody
<1>3. /\ reg[t].key = call[t].key /\ call[t].key \in Keys
      /\ reg[t].key \notin Joining \cup Leaving
      /\ Contents[reg[t].key] = store[reg[t].key]
  BY <1>2, AtHand DEF Basis, LockInv, Disciplined, AtKey
<1>4. CASE store[call[t].key] = None
  <2>1. /\ store' = [store EXCEPT ![call[t].key] = call[t].value]
        /\ pc' = [pc EXCEPT ![t] = "count_up"]
    BY <1>4 DEF InsertBody, Answer
  <2>2. ASSUME NEW k \in Keys, k # reg[t].key PROVE Contents'[k] = Contents[k]
    <3>1. store'[k] = store[k]
      BY <1>1, <1>3, <2>1, <2>2
    <3> QED
      BY <1>2, <2>2, <3>1, ContentsElsewhere DEF Step
  <2>3. reg[t].key \in Joining'
    BY <1>1, <1>2, <2>1 DEF Joining
  <2>4. Contents'[reg[t].key] = None
    BY <1>3, <2>3, ContentsNext DEF ContentsAre
  <2>5. \A k \in Keys : Contents'[k] = Contents[k]
    BY <1>3, <1>4, <2>2, <2>4
  <2> QED
    BY <1>3, <2>5 DEF Contents
<1>5. CASE store[call[t].key] # None
  <2>1. store' = store /\ pc' = [pc EXCEPT ![t] = "unlock"]
    BY <1>5 DEF InsertBody, Answer
  <2>2. Contents' = Contents
    BY <1>1, <1>2, <2>1, ContentsSame DEF Step
  <2> QED
    BY <1>3, <2>2
<1> QED
  BY <1>4, <1>5

LEMMA CountUpContents ==
  ASSUME Basis, Basis', HistoryType, NEW t \in Threads, CountUp(t)
  PROVE  /\ reg[t].key \in Keys
         /\ Contents[reg[t].key] = None
         /\ Contents' = [Contents EXCEPT ![reg[t].key] = store[reg[t].key]]
<1>1. pc \in [Threads -> Labels]
  BY Types
<1>2. pc[t] = "count_up" /\ UNCHANGED <<store, reg>> /\ pc' = [pc EXCEPT ![t] = "unlock"]
  BY DEF CountUp
<1>3. reg[t].key \in Keys /\ reg[t].shard = ShardOf(reg[t].key)
  BY <1>2 DEF Basis, LockInv, Disciplined
<1>4. Contents[reg[t].key] = None
  BY <1>2, <1>3, ContentsNow DEF ContentsAre, Joining
<1>5. \A k \in Keys : k # reg[t].key => Contents'[k] = Contents[k]
  BY <1>1, <1>2, ContentsElsewhere DEF Step
<1>6. ASSUME NEW u \in Threads, pc'[u] \in {"count_up", "count_down"}, reg'[u].key = reg[t].key
      PROVE  FALSE
  <2>1. u # t /\ pc[u] \in {"count_up", "count_down"} /\ reg[u].key = reg[t].key
    BY <1>1, <1>2, <1>6
  <2>2. reg[u].shard = reg[t].shard
    BY <1>3, <2>1 DEF Basis, LockInv, Disciplined
  <2> QED
    BY <1>2, <2>1, <2>2, KeyIsMine
<1>7. reg[t].key \notin Joining' \cup Leaving'
  BY <1>6 DEF Joining, Leaving
<1>8. Contents'[reg[t].key] = store[reg[t].key]
  BY <1>2, <1>3, <1>7, ContentsNext DEF ContentsAre
<1>9. Contents' = [k \in Keys |-> Contents'[k]] /\ Contents = [k \in Keys |-> Contents[k]]
  BY DEF Contents
<1> QED
  BY <1>3, <1>4, <1>5, <1>8, <1>9

LEMMA EraseContents ==
  ASSUME Basis, Basis', HistoryType, NEW t \in Threads, EraseBody(t)
  PROVE  /\ Contents' = Contents
         /\ call[t].key \in Keys
         /\ Contents[call[t].key] = store[call[t].key]
<1>1. /\ pc \in [Threads -> Labels] /\ store \in [Keys -> Values \cup {None}]
      /\ reg \in [Threads -> Regs]
  BY Types
<1>2. pc[t] = "body" /\ call[t].op = "erase" /\ UNCHANGED call
      /\ store' = [store EXCEPT ![call[t].key] = None]
      /\ reg' = [reg EXCEPT ![t].seen = store[call[t].key]]
  BY DEF EraseBody, AtBody
<1>3. reg'[t].key = reg[t].key /\ reg'[t].seen = store[call[t].key]
  BY <1>1, <1>2 DEF Regs
<1>4. /\ reg[t].key = call[t].key /\ call[t].key \in Keys
      /\ reg[t].key \notin Joining \cup Leaving
      /\ Contents[reg[t].key] = store[reg[t].key]
  BY <1>2, AtHand DEF Basis, LockInv, Disciplined, AtKey
<1>5. CASE store[call[t].key] # None
  <2>1. pc' = [pc EXCEPT ![t] = "count_down"]
    BY <1>5 DEF EraseBody, Answer, AfterErase
  <2>2. ASSUME NEW k \in Keys, k # reg[t].key PROVE Contents'[k] = Contents[k]
    <3>1. store'[k] = store[k]
      BY <1>1, <1>2, <1>4, <2>2
    <3> QED
      BY <1>2, <1>3, <2>2, <3>1, ContentsElsewhere DEF Step
  <2>3. Contents'[reg[t].key] = store[call[t].key]
    BY <1>1, <1>3, <1>4, <2>1, ContentsNext DEF ContentsAre
  <2>4. \A k \in Keys : Contents'[k] = Contents[k]
    BY <1>4, <2>2, <2>3
  <2> QED
    BY <1>4, <2>4 DEF Contents
<1>6. CASE store[call[t].key] = None
  <2>1. store' = store /\ pc' = [pc EXCEPT ![t] = "unlock"]
    BY <1>1, <1>2, <1>6 DEF EraseBody, Answer, AfterErase
  <2>2. Contents' = Contents
    BY <1>1, <1>2, <2>1, ContentsSame DEF Step
  <2> QED
    BY <1>4, <2>2
<1> QED
  BY <1>5, <1>6

LEMMA CountDownContents ==
  ASSUME Basis, Basis', HistoryType, NEW t \in Threads, CountDown(t)
  PROVE  /\ reg[t].key \in Keys
         /\ Contents[reg[t].key] = reg[t].seen
         /\ store[reg[t].key] = None => Contents' = [Contents EXCEPT ![reg[t].key] = None]
<1>1. pc \in [Threads -> Labels]
  BY Types
<1>2. pc[t] = "count_down" /\ UNCHANGED <<store, reg>> /\ pc' = [pc EXCEPT ![t] = "unlock"]
  BY DEF CountDown
<1>3. reg[t].key \in Keys /\ reg[t].shard = ShardOf(reg[t].key)
  BY <1>2 DEF Basis, LockInv, Disciplined
<1>4. Contents[reg[t].key] = reg[t].seen
  BY <1>2, <1>3, ContentsNow DEF ContentsAre
<1>5. \A k \in Keys : k # reg[t].key => Contents'[k] = Contents[k]
  BY <1>1, <1>2, ContentsElsewhere DEF Step
<1>6. ASSUME NEW u \in Threads, pc'[u] \in {"count_up", "count_down"}, reg'[u].key = reg[t].key
      PROVE  FALSE
  <2>1. u # t /\ pc[u] \in {"count_up", "count_down"} /\ reg[u].key = reg[t].key
    BY <1>1, <1>2, <1>6
  <2>2. reg[u].shard = reg[t].shard
    BY <1>3, <2>1 DEF Basis, LockInv, Disciplined
  <2> QED
    BY <1>2, <2>1, <2>2, KeyIsMine
<1>7. reg[t].key \notin Joining' \cup Leaving'
  BY <1>6 DEF Joining, Leaving
<1>8. Contents'[reg[t].key] = store[reg[t].key]
  BY <1>2, <1>3, <1>7, ContentsNext DEF ContentsAre
<1>9. Contents' = [k \in Keys |-> Contents'[k]] /\ Contents = [k \in Keys |-> Contents[k]]
  BY DEF Contents
<1> QED
  BY <1>3, <1>4, <1>5, <1>8, <1>9

\* The updater's write is the moment of the update.
LEMMA WriteContents ==
  ASSUME Basis, Basis', HistoryType, NEW t \in Threads, UpdateWrite(t) \/ EachWrite(t), Placed(t)
  PROVE  /\ reg[t].key \in Keys
         /\ Contents[reg[t].key] = store[reg[t].key]
         /\ store[reg[t].key] # None
         /\ Contents' = [Contents EXCEPT ![reg[t].key] = Updated(Contents[reg[t].key])]
<1>1. /\ pc \in [Threads -> Labels] /\ store \in [Keys -> Values \cup {None}]
  BY Types
<1>2. /\ pc[t] = "write" /\ UNCHANGED reg
      /\ store' = [store EXCEPT ![reg[t].key] = Updated(reg[t].seen)]
  BY DEF UpdateWrite, EachWrite
<1>3. pc'[t] \notin {"count_up", "count_down"}
  BY <1>1 DEF UpdateWrite, EachWrite, Answer
<1>4. /\ reg[t].key \in Keys /\ reg[t].key \notin Joining \cup Leaving
      /\ Contents[reg[t].key] = store[reg[t].key]
      /\ store[reg[t].key] # None
  BY <1>2, AtHand DEF Basis, LockInv, Disciplined
<1>5. ASSUME NEW k \in Keys, k # reg[t].key PROVE Contents'[k] = Contents[k]
  <2>1. store'[k] = store[k]
    BY <1>1, <1>2, <1>4, <1>5
  <2> QED
    BY <1>2, <1>3, <1>5, <2>1, ContentsElsewhere DEF Step
<1>6. reg[t].key \notin Joining' \cup Leaving'
  <2>1. \A u \in Threads : u # t => pc'[u] = pc[u] /\ reg'[u] = reg[u]
    BY OthersStay DEF Step
  <2> QED
    BY <1>2, <1>3, <1>4, <2>1 DEF Joining, Leaving
<1>7. Contents'[reg[t].key] = Updated(reg[t].seen)
  BY <1>1, <1>2, <1>4, <1>6, ContentsNext DEF ContentsAre
<1>8. reg[t].seen = Contents[reg[t].key]
  BY <1>2, <1>4 DEF Placed
<1>9. Contents' = [k \in Keys |-> Contents'[k]] /\ Contents = [k \in Keys |-> Contents[k]]
  BY DEF Contents
<1> QED
  BY <1>4, <1>5, <1>7, <1>8, <1>9

\* All other steps leave what the callers see alone.
LEMMA QuietContents ==
  ASSUME Basis, Basis', HistoryType, NEW t \in Threads,
         \/ Call(t) \/ Acquire(t) \/ Unlock(t) \/ ContainsBody(t)
         \/ AtAnswer(t) \/ UpdateThrows(t) \/ UpdateRead(t) \/ UpdaterThrows(t) \/ EachRead(t)
         \/ EachNextShard(t) \/ EachLastShard(t) \/ ReadCount(t) \/ ReturnCount(t)
  PROVE  Contents' = Contents /\ UNCHANGED store
<1>1. pc \in [Threads -> Labels]
  BY Types
<1>2. UNCHANGED store
  BY DEF Call, Acquire, Unlock, ContainsBody, AtAnswer, UpdateThrows,
       UpdateRead, UpdaterThrows, EachRead, EachNextShard, EachLastShard, ReadCount, ReturnCount
<1>3. pc[t] \notin {"count_up", "count_down"}
  BY DEF Call, Acquire, Unlock, ContainsBody, AtAnswer, UpdateThrows, AtBody,
       UpdateRead, UpdaterThrows, EachRead, EachNextShard, EachLastShard, ReadCount, ReturnCount
<1>4. pc'[t] \notin {"count_up", "count_down"}
  <2>1. CASE Call(t)
    BY <1>1, <2>1 DEF Call, FirstLabel
  <2>2. CASE ~ Call(t)
    BY <1>1, <2>2 DEF Acquire, Unlock, ContainsBody, AtAnswer, UpdateThrows,
         UpdateRead, UpdaterThrows, EachRead, EachNextShard, EachLastShard, ReadCount,
         ReturnCount, Answer, Returned
  <2> QED
    BY <2>1, <2>2
<1> QED
  BY <1>2, <1>3, <1>4, ContentsSame DEF Step

\* What a running update_each was to update only gets less.
LEMMA KeptShrinks ==
  ASSUME Basis, HistoryType, NEW t \in Threads, Call(t) \/ Step(t), NEW u \in Threads, u # t
  PROVE  kept'[u] \subseteq kept[u]
<1>1. kept \in [Threads -> SUBSET PresentIn(Contents)]
  BY DEF HistoryType
<1>2. CASE Call(t) \/ Unlock(t) \/ ReturnCount(t) \/ CountDown(t)
  BY <1>1, <1>2 DEF Call, Unlock, ReturnCount, Returned, CountDown
<1>3. CASE \/ Acquire(t) \/ InsertBody(t) \/ CountUp(t) \/ ContainsBody(t) \/ EraseBody(t)
           \/ AtAnswer(t) \/ UpdateThrows(t) \/ UpdateRead(t) \/ UpdateWrite(t)
           \/ UpdaterThrows(t) \/ EachRead(t) \/ EachWrite(t) \/ EachNextShard(t)
           \/ EachLastShard(t) \/ ReadCount(t)
  BY <1>3 DEF Acquire, InsertBody, CountUp, ContainsBody, EraseBody, AtAnswer, UpdateThrows,
       UpdateRead, UpdateWrite, UpdaterThrows, EachRead, EachWrite, EachNextShard,
       EachLastShard, ReadCount
<1> QED
  BY <1>2, <1>3 DEF Step

LEMMA AdvancingStep ==
  ASSUME Basis, CountExact, CallInv, NEW t \in Threads, Call(t) \/ Step(t)
  PROVE  \A u \in Threads : Advancing(u)'
<1>1. ASSUME NEW u \in Threads, u # t PROVE Advancing(u)'
  <2>1. /\ pc'[u] = pc[u] /\ call'[u] = call[u] /\ reg'[u] = reg[u]
        /\ visited'[u] = visited[u] /\ kept'[u] \subseteq kept[u] /\ Advancing(u)
    BY <1>1, OthersStay, KeptShrinks DEF CallInv
  <2>2. Ahead(u)' = Ahead(u)
    BY <2>1 DEF Ahead
  <2> QED
    BY <2>1, <2>2 DEF Advancing
<1> SUFFICES Advancing(t)'
  BY <1>1
<1>2. /\ pc \in [Threads -> Labels] /\ reg \in [Threads -> Regs]
      /\ call \in [Threads -> Calls \cup {NoCall}]
      /\ visited \in [Threads -> SUBSET Keys]
      /\ kept \in [Threads -> SUBSET PresentIn(Contents)]
      /\ reg[t].shard \in Nat
      /\ \A k \in Keys : ShardOf(k) \in Nat
  BY Types, ShardType, ConstantsAssumption DEF CallInv, HistoryType, Shards
<1>3. Advancing(t)
  BY DEF CallInv
<1>4. PresentIn(Contents) \subseteq Keys
  BY DEF PresentIn
<1>5. CASE Call(t)
  <2>1. PICK c \in Calls :
          /\ call' = [call EXCEPT ![t] = c]
          /\ pc' = [pc EXCEPT ![t] = FirstLabel(c.op)]
          /\ reg' = [reg EXCEPT ![t] = [NoReg EXCEPT
                       !.key = c.key, !.shard = IF c.key = None THEN 0 ELSE ShardOf(c.key)]]
          /\ kept' = [kept EXCEPT ![t] = IF c.op = "update_each" THEN Counted ELSE {}]
    BY <1>5 DEF Call
  <2>2. FirstLabel(c.op) \in {"lock", "body", "read_count"}
        /\ (c.op = "update_each" => FirstLabel(c.op) = "lock" /\ c.key = None)
    BY CallFields DEF FirstLabel, LocksNothing
  <2>3. visited'[t] = {} /\ call'[t] = c /\ pc'[t] = FirstLabel(c.op)
    BY <1>2, <1>3, <1>5, <2>1 DEF Call, Advancing
  <2>4. ASSUME c.op = "update_each" PROVE kept'[t] \subseteq Ahead(t)' /\ reg'[t].todo = {}
    <3>1. reg'[t].shard = 0 /\ reg'[t].todo = {}
      BY <1>2, <2>1, <2>2, <2>4 DEF NoReg
    <3>2. Ahead(t)' = Keys
      BY <1>2, <2>2, <2>3, <2>4, <3>1 DEF Ahead
    <3>3. kept'[t] = Counted
      BY <1>2, <2>1, <2>4
    <3> QED
      BY <1>4, <3>1, <3>2, <3>3, PresentAreCounted
  <2> QED
    BY <2>2, <2>3, <2>4 DEF Advancing
<1>6. CASE Acquire(t)
  <2>1. /\ pc[t] = "lock" /\ mutex[reg[t].shard] = Nobody
        /\ pc' = [pc EXCEPT ![t] = "body"]
        /\ reg' = [reg EXCEPT ![t].todo =
             IF call[t].op = "update_each" THEN Present \cap InShard(reg[t].shard) ELSE {}]
        /\ UNCHANGED <<call, visited, kept>>
    BY <1>6 DEF Acquire, IsFree
  <2>2. CASE call[t].op # "update_each"
    BY <1>2, <2>1, <2>2 DEF Advancing
  <2>3. CASE call[t].op = "update_each"
    <3>1. reg' = [reg EXCEPT ![t].todo = Present \cap InShard(reg[t].shard)]
      BY <2>1, <2>3
    <3>2. reg'[t].todo = Present \cap InShard(reg[t].shard) /\ reg'[t].shard = reg[t].shard
      BY <1>2, <3>1 DEF Regs
    <3>3. Ahead(t) = {k \in Keys : ShardOf(k) > reg[t].shard \/ ShardOf(k) = reg[t].shard}
      BY <1>3, <2>1, <2>3 DEF Ahead, Advancing
    <3>4. Ahead(t)' = (Present \cap InShard(reg[t].shard))
                        \cup {k \in Keys : ShardOf(k) > reg[t].shard}
      BY <1>2, <2>1, <3>2 DEF Ahead
    <3>5. Ahead(t)' \subseteq Ahead(t)
      BY <3>3, <3>4 DEF InShard
    <3>6. ASSUME NEW k \in kept[t], ShardOf(k) = reg[t].shard
          PROVE  k \in Present
      <4>1. k \in Counted
        BY <1>2, PresentAreCounted
      <4>2. ASSUME NEW u \in Threads, pc[u] = "count_down", reg[u].key = k PROVE FALSE
        <5>1. reg[u].shard = reg[t].shard /\ u # t
          BY <2>1, <3>6, <4>2 DEF Basis, LockInv, Disciplined
        <5>2. Locked(u)
          BY <2>1, <4>2, <5>1 DEF Basis, LockInv, Disciplined, Locked
        <5>3. mutex[reg[t].shard] = u
          BY <5>1, <5>2 DEF Basis, LockInv, Disciplined
        <5> QED
          BY <2>1, <5>3, ConstantsAssumption
      <4> QED
        BY <4>1, <4>2 DEF Counted, Leaving
    <3>7. kept[t] \subseteq visited[t] \cup Ahead(t)' 
      BY <1>2, <1>3, <1>4, <2>1, <2>3, <3>3, <3>4, <3>6 DEF Advancing, InShard
    <3>8. visited[t] \cap Ahead(t)' = {}
      BY <1>3, <2>1, <2>3, <3>5 DEF Advancing
    <3> QED
      BY <1>2, <2>1, <3>7, <3>8 DEF Advancing
  <2> QED
    BY <2>2, <2>3
<1>7. CASE EachRead(t)
  <2>1. /\ pc[t] = "body" /\ call[t].op = "update_each" /\ pc' = [pc EXCEPT ![t] = "write"]
        /\ UNCHANGED <<call, visited, kept>>
    BY <1>7 DEF EachRead, AtBody
  <2>2. PICK k \in reg[t].todo :
          reg' = [reg EXCEPT ![t].key = k, ![t].seen = store[k], ![t].todo = @ \ {k}]
    BY <1>7 DEF EachRead
  <2>3. reg'[t].key = k /\ reg'[t].shard = reg[t].shard /\ reg'[t].todo = reg[t].todo \ {k}
    BY <1>2, <2>2 DEF Regs
  <2>4. Ahead(t)' = Ahead(t)
    BY <1>2, <2>1, <2>3 DEF Ahead
  <2> QED
    BY <1>2, <1>3, <2>1, <2>3, <2>4 DEF Advancing
<1>8. CASE EachWrite(t)
  <2>1. /\ pc[t] = "write" /\ call[t].op = "update_each" /\ pc' = [pc EXCEPT ![t] = "body"]
        /\ visited' = [visited EXCEPT ![t] = @ \cup {reg[t].key}]
        /\ UNCHANGED <<call, reg, kept>>
    BY <1>8 DEF EachWrite
  <2>2. reg[t].key \in Keys /\ ShardOf(reg[t].key) = reg[t].shard
    BY <2>1 DEF Basis, LockInv, Disciplined
  <2>3. Ahead(t) = Ahead(t)' \cup {reg[t].key}
    BY <1>2, <2>1 DEF Ahead
  <2>4. reg[t].key \notin Ahead(t)'
    BY <1>2, <1>3, <2>1, <2>2 DEF Ahead, Advancing
  <2>5. visited'[t] = visited[t] \cup {reg[t].key}
    BY <1>2, <2>1
  <2> QED
    BY <1>2, <1>3, <2>1, <2>3, <2>4, <2>5 DEF Advancing
<1>9. CASE EachNextShard(t)
  <2>1. /\ pc[t] = "body" /\ call[t].op = "update_each" /\ pc' = [pc EXCEPT ![t] = "lock"]
        /\ reg[t].todo = {}
        /\ reg' = [reg EXCEPT ![t] = [NoReg EXCEPT !.shard = reg[t].shard + 1]]
        /\ UNCHANGED <<call, visited, kept>>
    BY <1>9 DEF EachNextShard, AtBody
  <2>2. reg'[t].shard = reg[t].shard + 1 /\ reg'[t].todo = {}
    BY <1>2, <2>1 DEF NoReg
  <2>3. \A k \in Keys : (ShardOf(k) > reg[t].shard + 1 \/ ShardOf(k) = reg[t].shard + 1)
                          <=> ShardOf(k) > reg[t].shard
    BY <1>2
  <2>4. Ahead(t) = {k \in Keys : ShardOf(k) > reg[t].shard}
    BY <2>1 DEF Ahead
  <2>5. Ahead(t)' = {k \in Keys : ShardOf(k) > reg[t].shard + 1 \/ ShardOf(k) = reg[t].shard + 1}
    BY <1>2, <2>1, <2>2 DEF Ahead
  <2>6. Ahead(t)' = Ahead(t)
    BY <2>3, <2>4, <2>5
  <2> QED
    BY <1>2, <1>3, <2>1, <2>2, <2>6 DEF Advancing
<1>10. CASE Unlock(t) \/ ReturnCount(t)
  BY <1>2, <1>10 DEF Unlock, ReturnCount, Returned, Advancing, NoCall
<1>11. CASE InsertBody(t) \/ ContainsBody(t) \/ EraseBody(t) \/ CountUp(t) \/ CountDown(t)
  BY <1>2, <1>3, <1>11 DEF InsertBody, ContainsBody, EraseBody, CountUp, CountDown, AtBodyOrLoad,
       AtBody, Answer, AfterErase, Advancing
<1>12. CASE \/ AtAnswer(t) \/ UpdateThrows(t) \/ UpdateRead(t) \/ UpdateWrite(t)
            \/ UpdaterThrows(t) \/ EachLastShard(t) \/ ReadCount(t)
  BY <1>2, <1>3, <1>12 DEF AtAnswer, UpdateThrows, UpdateRead, UpdateWrite, UpdaterThrows,
       EachLastShard, ReadCount, AtBody, Answer, Advancing
<1> QED
  BY <1>5, <1>6, <1>7, <1>8, <1>9, <1>10, <1>11, <1>12 DEF Step

LEMMA HistoryStep ==
  ASSUME Basis, Basis', CountExact, CallInv, NEW t \in Threads, Call(t) \/ Step(t)
  PROVE  HistoryType'
<1>1. /\ result = [u \in Threads |-> result[u]] /\ visited \in [Threads -> SUBSET Keys]
      /\ kept \in [Threads -> SUBSET PresentIn(Contents)]
      /\ HistoryType /\ Placed(t)
  BY DEF CallInv, HistoryType
<1>2. ASSUME visited' = visited \/ \E s \in SUBSET Keys : visited' = [visited EXCEPT ![t] = s],
             result' = result \/ \E r : result' = [result EXCEPT ![t] = r],
             kept' \in [Threads -> SUBSET PresentIn(Contents')]
      PROVE  HistoryType'
  BY <1>1, <1>2 DEF HistoryType
<1>3. CASE Call(t)
  <2>1. \E s \in {Counted, {}} : kept' = [kept EXCEPT ![t] = s]
    BY <1>3 DEF Call
  <2>2. Contents' = Contents
    BY <1>1, <1>3, QuietContents
  <2>3. kept' \in [Threads -> SUBSET PresentIn(Contents')]
    BY <1>1, <2>1, <2>2, PresentAreCounted
  <2> QED
    BY <1>2, <1>3, <2>3 DEF Call
<1>4. CASE Unlock(t) \/ ReturnCount(t)
  <2>1. Contents' = Contents
    BY <1>1, <1>4, QuietContents
  <2>2. kept' \in [Threads -> SUBSET PresentIn(Contents')]
    BY <1>1, <1>4, <2>1 DEF Unlock, ReturnCount, Returned
  <2> QED
    BY <1>2, <1>4, <2>2 DEF Unlock, ReturnCount, Returned
<1>5. CASE \/ Acquire(t) \/ ContainsBody(t) \/ AtAnswer(t) \/ UpdateThrows(t) \/ UpdateRead(t)
           \/ UpdaterThrows(t) \/ EachRead(t) \/ EachNextShard(t) \/ EachLastShard(t)
           \/ ReadCount(t) \/ InsertBody(t) \/ EraseBody(t)
  <2>1. Contents' = Contents
    BY <1>1, <1>5, QuietContents, InsertContents, EraseContents
  <2>2. kept' = kept
    BY <1>5 DEF Acquire, ContainsBody, AtAnswer, UpdateThrows, UpdateRead, UpdaterThrows,
         EachRead, EachNextShard, EachLastShard, ReadCount, InsertBody, EraseBody
  <2>3. visited' = visited /\ (result' = result \/ \E r : result' = [result EXCEPT ![t] = r])
    BY <1>5 DEF Acquire, ContainsBody, AtAnswer, UpdateThrows, UpdateRead, UpdaterThrows,
         EachRead, EachNextShard, EachLastShard, ReadCount, InsertBody, EraseBody, Answer
  <2> QED
    BY <1>1, <1>2, <2>1, <2>2, <2>3
<1>6. CASE CountUp(t)
  <2>1. /\ reg[t].key \in Keys /\ Contents[reg[t].key] = None
        /\ Contents' = [Contents EXCEPT ![reg[t].key] = store[reg[t].key]]
    BY <1>1, <1>6, CountUpContents
  <2>2. PresentIn(Contents) \subseteq PresentIn(Contents')
    BY <2>1 DEF PresentIn, Contents
  <2>3. kept' \in [Threads -> SUBSET PresentIn(Contents')]
    BY <1>1, <1>6, <2>2 DEF CountUp
  <2> QED
    BY <1>2, <1>6, <2>3 DEF CountUp
<1>7. CASE CountDown(t)
  <2>1. store[reg[t].key] = None
    BY <1>1, <1>7 DEF CountDown, Placed
  <2>2. /\ reg[t].key \in Keys
        /\ Contents' = [Contents EXCEPT ![reg[t].key] = None]
    BY <1>1, <1>7, <2>1, CountDownContents
  <2>3. PresentIn(Contents') = PresentIn(Contents) \ {reg[t].key}
    BY <2>2 DEF PresentIn, Contents
  <2>4. kept' \in [Threads -> SUBSET PresentIn(Contents')]
    BY <1>1, <1>7, <2>3 DEF CountDown
  <2> QED
    BY <1>2, <1>7, <2>4 DEF CountDown
<1>8. CASE UpdateWrite(t) \/ EachWrite(t)
  <2>1. /\ reg[t].key \in Keys /\ Contents[reg[t].key] = store[reg[t].key]
        /\ store[reg[t].key] # None
        /\ Contents' = [Contents EXCEPT ![reg[t].key] = Updated(Contents[reg[t].key])]
    BY <1>1, <1>8, WriteContents
  <2>2. Updated(Contents[reg[t].key]) # None
    BY <2>1, Types, UpdatedType
  <2>3. PresentIn(Contents') = PresentIn(Contents)
    BY <2>1, <2>2 DEF PresentIn, Contents
  <2>4. kept' = kept
    BY <1>8 DEF UpdateWrite, EachWrite
  <2>5. visited' = visited \/ \E s \in SUBSET Keys : visited' = [visited EXCEPT ![t] = s]
    BY <1>1, <1>8, <2>1 DEF UpdateWrite, EachWrite
  <2>6. result' = result \/ \E r : result' = [result EXCEPT ![t] = r]
    BY <1>8 DEF UpdateWrite, EachWrite, Answer
  <2> QED
    BY <1>1, <1>2, <2>3, <2>4, <2>5, <2>6
<1> QED
  BY <1>3, <1>4, <1>5, <1>6, <1>7, <1>8 DEF Step

-----------------------------------------------------------------------------
(* What a step is to the callers.                                          *)

\* The result as the callers will see it: not before the counter has followed.
Shown ==
  [t \in Threads |-> IF pc[t] \in {"count_up", "count_down"} THEN NoResult ELSE result[t]]

LEMMA CallIs ==
  ASSUME NEW c \in Calls, c.op \in {"contains", "erase", "at", "update"}
  PROVE  c = Map!KeyCall(c.op, c.key) /\ c.key \in Keys
<1>1. c \in [op : {"contains", "erase", "at", "update"}, key : Keys, value : {None}]
  BY DEF Calls
<1>2. c = [op |-> c.op, key |-> c.key, value |-> None]
  BY <1>1
<1>3. Map!KeyCall(c.op, c.key) = [op |-> c.op, key |-> c.key, value |-> None]
  <2>1. Map!KeyCall(c.op, c.key) \in [op : {c.op}, key : {c.key}, value : {None}]
    BY DEF Map!KeyCall, Map!NoCall
  <2> QED
    BY <2>1
<1> QED
  BY <1>1, <1>2, <1>3

\* The promised map and the program mean the same by a call and by a result.
LEMMA SameCalls ==
  /\ Map!NoCall = NoCall /\ Map!NoResult = NoResult /\ Map!Calls = Calls
  /\ \A b \in BOOLEAN : Map!YesNo(b) = YesNo(b)
  /\ \A w, v : Map!Result(w, v) = Result(w, v)
  /\ \A v \in Values : Map!Updated(v) = Updated(v)
  /\ Map!PresentIn(Contents) = PresentIn(Contents)
  /\ \A S : Map!Cardinality(S) = Cardinality(S)
  BY DEF Map!Cardinality, Cardinality, Map!NoCall, NoCall, Map!NoResult, NoResult, Map!Calls, Calls, Map!YesNo, YesNo,
     Map!Result, Result, Map!Updated, Updated, Map!PresentIn, PresentIn

LEMMA ShownNext ==
  ASSUME Basis, CallInv, NEW t \in Threads, Call(t) \/ Step(t)
  PROVE  /\ Shown' = [Shown EXCEPT ![t] = Shown'[t]]
         /\ pc[t] \in {"idle", "lock", "body", "write", "read_count", "count_up", "count_down"} =>
              Shown[t] = NoResult
         /\ pc[t] \in {"unlock", "return"} => Shown[t] # NoResult
         /\ pc'[t] \notin {"count_up", "count_down"} => Shown'[t] = result'[t]
         /\ pc'[t] \in {"count_up", "count_down"} => Shown'[t] = NoResult
<1>1. \A u \in Threads : u # t => Shown'[u] = Shown[u]
  BY OthersStay DEF Shown, CallInv
<1>2. Answered(t)
  BY DEF CallInv
<1> QED
  BY <1>1, <1>2 DEF Shown, Answered

\* A step that shows nothing: it is no step of the promised map.
LEMMA Hidden ==
  ASSUME Basis, Basis', CallInv, NEW t \in Threads,
         \/ Acquire(t)
         \/ InsertBody(t) /\ pc'[t] = "count_up"
         \/ EraseBody(t) /\ pc'[t] = "count_down"
         \/ UpdateRead(t) \/ EachRead(t) \/ EachNextShard(t)
  PROVE  UNCHANGED Map!vars
<1>1. Contents' = Contents
  BY QuietContents, InsertContents, EraseContents DEF CallInv
<1>2. UNCHANGED <<call, visited, kept>>
  BY DEF Acquire, InsertBody, EraseBody, UpdateRead, EachRead, EachNextShard
<1>3. pc[t] \in {"lock", "body"}
  BY DEF Acquire, InsertBody, EraseBody, UpdateRead, EachRead, EachNextShard, AtBody, AtBodyOrLoad
<1>4. pc \in [Threads -> Labels] /\ Answered(t)
  BY Types DEF CallInv
<1>5. Shown'[t] = NoResult
  <2>1. CASE \/ InsertBody(t) /\ pc'[t] = "count_up"
             \/ EraseBody(t) /\ pc'[t] = "count_down"
    BY <2>1, ShownNext DEF Step
  <2>2. CASE Acquire(t) \/ UpdateRead(t) \/ EachRead(t) \/ EachNextShard(t)
    <3>1. pc'[t] \notin {"count_up", "count_down"} /\ result'[t] = NoResult
      BY <1>3, <1>4, <2>2 DEF Acquire, UpdateRead, EachRead, EachNextShard, Answered
    <3> QED
      BY <2>2, <3>1, ShownNext DEF Step
  <2> QED
    BY <2>1, <2>2
<1>6. Shown' = Shown
  <2>1. Shown[t] = NoResult /\ Shown' = [Shown EXCEPT ![t] = Shown'[t]]
    BY <1>3, ShownNext DEF Step
  <2>2. Shown = [u \in Threads |-> Shown[u]]
    BY DEF Shown
  <2> QED
    BY <1>5, <2>1, <2>2
<1> QED
  BY <1>1, <1>2, <1>6 DEF Map!vars, Shown

LEMMA BeginStep ==
  ASSUME Basis, Basis', CountExact, CallInv, NEW t \in Threads, Call(t)
  PROVE  Map!Begin(t)
<1>1. Contents' = Contents /\ PresentIn(Contents) = Counted
  BY QuietContents, PresentAreCounted DEF CallInv
<1>2. pc[t] = "idle" /\ call[t] = NoCall
  BY DEF Call, Basis, LockInv, Disciplined
<1>3. Shown' = Shown
  <2>1. pc'[t] \notin {"count_up", "count_down"} /\ result' = result
    BY Types DEF Call, FirstLabel
  <2>2. result'[t] = NoResult
    BY <1>2, <2>1 DEF CallInv, Answered
  <2>3. Shown[t] = NoResult /\ Shown' = [Shown EXCEPT ![t] = NoResult]
    BY <1>2, <2>1, <2>2, ShownNext
  <2>4. Shown = [u \in Threads |-> Shown[u]]
    BY DEF Shown
  <2> QED
    BY <2>3, <2>4
<1>4. \E c \in Calls : /\ call' = [call EXCEPT ![t] = c]
                       /\ kept' = [kept EXCEPT ![t] = IF c.op = "update_each" THEN Counted ELSE {}]
  BY DEF Call
<1> QED
  BY <1>1, <1>2, <1>3, <1>4, SameCalls DEF Map!Begin, Shown, Call

LEMMA ReturnStep ==
  ASSUME Basis, Basis', CallInv, NEW t \in Threads, Unlock(t) \/ ReturnCount(t)
  PROVE  Map!Return(t)
<1>1. Contents' = Contents
  BY QuietContents DEF CallInv
<1>2. pc[t] \in {"unlock", "return"} /\ Returned(t)
  BY DEF Unlock, ReturnCount
<1>3. Shown[t] # NoResult
  BY <1>2, ShownNext DEF Step
<1>4. Shown' = [Shown EXCEPT ![t] = NoResult]
  <2>1. pc'[t] \notin {"count_up", "count_down"} /\ result'[t] = NoResult
    BY <1>2, Types DEF Returned, CallInv, HistoryType
  <2> QED
    BY <2>1, ShownNext DEF Step
<1> QED
  BY <1>1, <1>2, <1>3, <1>4, SameCalls DEF Map!Return, Shown, Returned

\* The rest of the steps are where calls take effect.
LEMMA AnswerShown ==
  ASSUME Basis, CallInv, NEW t \in Threads, Step(t),
         pc[t] \in {"body", "write", "read_count", "count_up", "count_down"},
         pc'[t] \notin {"count_up", "count_down"}
  PROVE  Shown[t] = NoResult /\ Shown' = [Shown EXCEPT ![t] = result'[t]]
  BY ShownNext

LEMMA InsertStep ==
  ASSUME Basis, Basis', CallInv, NEW t \in Threads,
         \/ InsertBody(t) /\ pc'[t] # "count_up"
         \/ CountUp(t)
  PROVE  \E k \in Keys, v \in Values : Map!Insert(t, k, v)
<1>1. /\ pc \in [Threads -> Labels] /\ Placed(t) /\ Answered(t)
      /\ result = [u \in Threads |-> result[u]]
  BY Types DEF CallInv, HistoryType
<1>2. /\ call[t] \in Calls /\ call[t].op \in {"insert", "load"}
      /\ UNCHANGED <<call, visited, kept>>
  BY <1>1 DEF Placed, InsertBody, CountUp, AtBodyOrLoad, AtBody
<1>3. call[t].key \in Keys /\ call[t].value \in Values
  BY <1>2, CallFields
<1>4. CASE InsertBody(t) /\ pc'[t] # "count_up"
  <2>1. Contents' = Contents /\ Contents[call[t].key] = store[call[t].key]
    BY <1>4, InsertContents DEF CallInv
  <2>2. store[call[t].key] # None /\ pc'[t] = "unlock" /\ result'[t] = YesNo(FALSE)
    BY <1>1, <1>4 DEF InsertBody, Answer
  <2>3. Shown[t] = NoResult /\ Shown' = [Shown EXCEPT ![t] = YesNo(FALSE)]
    BY <1>4, <2>2, AnswerShown DEF Step, InsertBody, AtBodyOrLoad, AtBody
  <2>4. YesNo(Contents[call[t].key] = None) = YesNo(FALSE)
    BY <2>1, <2>2
  <2>5. Map!Insert(t, call[t].key, call[t].value)
    BY <1>2, <2>1, <2>2, <2>3, <2>4, SameCalls DEF Map!Insert, Map!Answer, Shown
  <2> QED
    BY <1>3, <2>5
<1>5. CASE CountUp(t)
  <2>1. /\ reg[t].key = call[t].key /\ store[reg[t].key] = call[t].value
        /\ result[t] = YesNo(TRUE)
    BY <1>1, <1>5 DEF CountUp, Placed, Answered
  <2>2. /\ Contents[call[t].key] = None
        /\ Contents' = [Contents EXCEPT ![call[t].key] = call[t].value]
    BY <1>5, <2>1, CountUpContents DEF CallInv
  <2>3. pc'[t] = "unlock" /\ result'[t] = YesNo(TRUE)
    BY <1>1, <1>5, <2>1 DEF CountUp
  <2>4. Shown[t] = NoResult /\ Shown' = [Shown EXCEPT ![t] = YesNo(TRUE)]
    BY <1>5, <2>3, AnswerShown DEF Step, CountUp
  <2>5. YesNo(Contents[call[t].key] = None) = YesNo(TRUE)
    BY <2>2
  <2>6. Map!Insert(t, call[t].key, call[t].value)
    BY <1>2, <2>2, <2>4, <2>5, SameCalls DEF Map!Insert, Map!Answer, Shown
  <2> QED
    BY <1>3, <2>6
<1> QED
  BY <1>4, <1>5

LEMMA EraseStep ==
  ASSUME Basis, Basis', CallInv, NEW t \in Threads,
         \/ EraseBody(t) /\ pc'[t] # "count_down"
         \/ CountDown(t)
  PROVE  \E k \in Keys : Map!Erase(t, k)
<1>1. /\ pc \in [Threads -> Labels] /\ Placed(t) /\ Answered(t)
      /\ result = [u \in Threads |-> result[u]]
      /\ kept \in [Threads -> SUBSET PresentIn(Contents)]
  BY Types DEF CallInv, HistoryType
<1>2. /\ call[t] \in Calls /\ call[t].op = "erase"
      /\ UNCHANGED <<call, visited>>
  BY <1>1 DEF Placed, EraseBody, CountDown, AtBody
<1>3. call[t].key \in Keys /\ call[t] = Map!KeyCall("erase", call[t].key)
  BY <1>2, CallIs
<1>4. CASE EraseBody(t) /\ pc'[t] # "count_down"
  <2>1. Contents' = Contents /\ Contents[call[t].key] = store[call[t].key] /\ kept' = kept
    BY <1>4, EraseContents DEF CallInv, EraseBody
  <2>2. store[call[t].key] = None /\ pc'[t] = "unlock" /\ result'[t] = YesNo(FALSE)
    BY <1>1, <1>4 DEF EraseBody, Answer, AfterErase
  <2>3. Shown[t] = NoResult /\ Shown' = [Shown EXCEPT ![t] = YesNo(FALSE)]
    BY <1>4, <2>2, AnswerShown DEF Step, EraseBody, AtBody
  <2>4. YesNo(Contents[call[t].key] # None) = YesNo(FALSE)
    BY <2>1, <2>2
  <2>5. Contents' = [Contents EXCEPT ![call[t].key] = None]
    BY <2>1, <2>2 DEF Contents
  <2>6. kept' = [u \in Threads |-> kept[u] \ {call[t].key}]
    <3>1. \A u \in Threads : call[t].key \notin kept[u]
      BY <1>1, <2>1, <2>2 DEF PresentIn
    <3> QED
      BY <1>1, <2>1, <3>1
  <2>7. Map!Erase(t, call[t].key)
    BY <1>2, <1>3, <2>3, <2>4, <2>5, <2>6, SameCalls DEF Map!Erase, Map!Answer, Shown
  <2> QED
    BY <1>3, <2>7
<1>5. CASE CountDown(t)
  <2>1. /\ reg[t].key = call[t].key /\ store[reg[t].key] = None /\ reg[t].seen # None
        /\ result[t] = YesNo(TRUE)
    BY <1>1, <1>5 DEF CountDown, Placed, Answered
  <2>2. /\ Contents[call[t].key] # None
        /\ Contents' = [Contents EXCEPT ![call[t].key] = None]
    BY <1>5, <2>1, CountDownContents DEF CallInv
  <2>3. pc'[t] = "unlock" /\ result'[t] = YesNo(TRUE)
    BY <1>1, <1>5, <2>1 DEF CountDown
  <2>4. Shown[t] = NoResult /\ Shown' = [Shown EXCEPT ![t] = YesNo(TRUE)]
    BY <1>5, <2>3, AnswerShown DEF Step, CountDown
  <2>5. YesNo(Contents[call[t].key] # None) = YesNo(TRUE)
    BY <2>2
  <2>6. kept' = [u \in Threads |-> kept[u] \ {call[t].key}]
    BY <1>5, <2>1 DEF CountDown
  <2>7. Map!Erase(t, call[t].key)
    BY <1>2, <1>3, <2>2, <2>4, <2>5, <2>6, SameCalls DEF Map!Erase, Map!Answer, Shown
  <2> QED
    BY <1>3, <2>7
<1> QED
  BY <1>4, <1>5

LEMMA ContainsStep ==
  ASSUME Basis, Basis', CallInv, NEW t \in Threads, ContainsBody(t)
  PROVE  \E k \in Keys : Map!Contains(t, k)
<1>1. /\ pc \in [Threads -> Labels] /\ Placed(t) /\ result = [u \in Threads |-> result[u]]
  BY Types DEF CallInv, HistoryType
<1>2. /\ call[t] \in Calls /\ call[t].op = "contains" /\ pc[t] = "body"
      /\ UNCHANGED <<call, visited, kept>>
      /\ pc'[t] = "unlock" /\ result'[t] = YesNo(store[call[t].key] # None)
  BY <1>1 DEF Placed, ContainsBody, AtBody, Answer
<1>3. call[t].key \in Keys /\ call[t] = Map!KeyCall("contains", call[t].key)
  BY <1>2, CallIs
<1>4. Contents' = Contents /\ Contents[call[t].key] = store[call[t].key]
  BY <1>2, QuietContents, AtHand DEF CallInv, Basis, LockInv, Disciplined, AtKey
<1>5. Shown[t] = NoResult /\ Shown' = [Shown EXCEPT ![t] = YesNo(store[call[t].key] # None)]
  BY <1>2, AnswerShown DEF Step
<1>6. Map!Contains(t, call[t].key)
  BY <1>2, <1>3, <1>4, <1>5, SameCalls DEF Map!Contains, Map!Answer, Shown
<1> QED
  BY <1>3, <1>6

LEMMA AtStep ==
  ASSUME Basis, Basis', CallInv, NEW t \in Threads, AtAnswer(t)
  PROVE  \E k \in Keys : Map!At(t, k)
<1> DEFINE r == IF store[call[t].key] = None THEN Result("out_of_range", None)
                ELSE Result("value", store[call[t].key])
<1>1. /\ pc \in [Threads -> Labels] /\ Placed(t) /\ result = [u \in Threads |-> result[u]]
  BY Types DEF CallInv, HistoryType
<1>2. /\ call[t] \in Calls /\ call[t].op = "at" /\ pc[t] = "body"
      /\ UNCHANGED <<call, visited, kept>>
      /\ pc'[t] = "unlock" /\ result'[t] = r
  BY <1>1 DEF Placed, AtAnswer, AtBody, Answer
<1>3. call[t].key \in Keys /\ call[t] = Map!KeyCall("at", call[t].key)
  BY <1>2, CallIs
<1>4. Contents' = Contents /\ Contents[call[t].key] = store[call[t].key]
  BY <1>2, QuietContents, AtHand DEF CallInv, Basis, LockInv, Disciplined, AtKey
<1>5. Shown[t] = NoResult /\ Shown' = [Shown EXCEPT ![t] = r]
  BY <1>2, AnswerShown DEF Step
<1>6. Map!At(t, call[t].key)
  BY <1>2, <1>3, <1>4, <1>5, SameCalls DEF Map!At, Map!Answer, Shown
<1> QED
  BY <1>3, <1>6

LEMMA UpdateStep ==
  ASSUME Basis, Basis', CallInv, NEW t \in Threads, UpdateThrows(t) \/ UpdateWrite(t)
  PROVE  \E k \in Keys : Map!Update(t, k)
<1>1. /\ pc \in [Threads -> Labels] /\ Placed(t) /\ result = [u \in Threads |-> result[u]]
  BY Types DEF CallInv, HistoryType
<1>2. /\ call[t] \in Calls /\ call[t].op = "update" /\ pc[t] \in {"body", "write"}
      /\ UNCHANGED <<call, visited, kept>> /\ pc'[t] = "unlock"
  BY <1>1 DEF Placed, UpdateThrows, UpdateWrite, AtBody, Answer
<1>3. call[t].key \in Keys /\ call[t] = Map!KeyCall("update", call[t].key)
  BY <1>2, CallIs
<1>4. CASE UpdateThrows(t)
  <2>1. pc[t] = "body" /\ store[call[t].key] = None /\ result'[t] = Result("out_of_range", None)
    BY <1>1, <1>4 DEF UpdateThrows, AtBody, Answer
  <2>2. Contents' = Contents /\ Contents[call[t].key] = None
    BY <1>2, <1>4, <2>1, QuietContents, AtHand DEF CallInv, Basis, LockInv, Disciplined, AtKey
  <2>3. Shown[t] = NoResult /\ Shown' = [Shown EXCEPT ![t] = Result("out_of_range", None)]
    BY <1>2, <1>4, <2>1, AnswerShown DEF Step
  <2>4. Map!Update(t, call[t].key)
    BY <1>2, <1>3, <2>2, <2>3, SameCalls DEF Map!Update, Map!Answer, Shown
  <2> QED
    BY <1>3, <2>4
<1>5. CASE UpdateWrite(t)
  <2>1. /\ pc[t] = "write" /\ reg[t].key = call[t].key
        /\ result'[t] = Result("updated", None)
    BY <1>1, <1>2, <1>5 DEF UpdateWrite, Answer, Placed
  <2>2. /\ Contents[call[t].key] = store[call[t].key] /\ store[call[t].key] # None
        /\ Contents' = [Contents EXCEPT ![call[t].key] = Updated(Contents[call[t].key])]
    BY <1>1, <1>5, <2>1, WriteContents DEF CallInv
  <2>3. Updated(Contents[call[t].key]) = Map!Updated(Contents[call[t].key])
    BY <1>3, <2>2, Types, SameCalls
  <2>4. Shown[t] = NoResult /\ Shown' = [Shown EXCEPT ![t] = Result("updated", None)]
    BY <1>2, <1>5, <2>1, AnswerShown DEF Step
  <2>5. Map!Update(t, call[t].key)
    BY <1>2, <1>3, <2>2, <2>3, <2>4, SameCalls DEF Map!Update, Map!Answer, Shown
  <2> QED
    BY <1>3, <2>5
<1> QED
  BY <1>4, <1>5

LEMMA EachStep ==
  ASSUME Basis, Basis', CallInv, NEW t \in Threads, EachWrite(t)
  PROVE  \E k \in Keys : Map!UpdateElement(t, k)
<1>1. /\ pc \in [Threads -> Labels] /\ visited \in [Threads -> SUBSET Keys]
      /\ Placed(t) /\ Answered(t) /\ Advancing(t)
  BY Types DEF CallInv, HistoryType
<1>2. /\ call[t].op = "update_each" /\ pc[t] = "write" /\ pc'[t] = "body"
      /\ UNCHANGED <<call, result, kept>>
      /\ visited' = [visited EXCEPT ![t] = @ \cup {reg[t].key}]
  BY <1>1 DEF EachWrite
<1>3. /\ reg[t].key \in Keys
      /\ Contents[reg[t].key] = store[reg[t].key] /\ store[reg[t].key] # None
      /\ Contents' = [Contents EXCEPT ![reg[t].key] = Updated(Contents[reg[t].key])]
  BY <1>1, WriteContents DEF CallInv
<1>4. Updated(Contents[reg[t].key]) = Map!Updated(Contents[reg[t].key])
  BY <1>3, Types, SameCalls
<1>5. reg[t].key \notin visited[t]
  BY <1>1, <1>2 DEF Advancing, Ahead
<1>6. Shown' = Shown /\ Shown[t] = NoResult
  <2>1. result'[t] = NoResult
    BY <1>1, <1>2 DEF Answered
  <2>2. Shown[t] = NoResult /\ Shown' = [Shown EXCEPT ![t] = NoResult]
    BY <1>2, <2>1, AnswerShown DEF Step
  <2>3. Shown = [u \in Threads |-> Shown[u]]
    BY DEF Shown
  <2> QED
    BY <2>2, <2>3
<1>7. Map!UpdateElement(t, reg[t].key)
  BY <1>2, <1>3, <1>4, <1>5, <1>6, SameCalls DEF Map!UpdateElement, Shown
<1> QED
  BY <1>3, <1>7

LEMMA EachEndStep ==
  ASSUME Basis, Basis', CallInv, NEW t \in Threads, EachLastShard(t)
  PROVE  Map!UpdatedEach(t)
<1>1. /\ pc \in [Threads -> Labels] /\ Advancing(t) /\ result = [u \in Threads |-> result[u]]
  BY Types DEF CallInv, HistoryType
<1>2. /\ call[t].op = "update_each" /\ pc[t] = "body" /\ pc'[t] = "unlock"
      /\ reg[t].todo = {} /\ reg[t].shard + 1 = N
      /\ result'[t] = Result("updated", None)
      /\ UNCHANGED <<call, visited, kept>>
  BY <1>1 DEF EachLastShard, AtBody, Answer, IsLast
<1>3. Ahead(t) = {}
  <2>1. N \in Nat /\ reg[t].shard \in 0 .. N - 1 /\ \A k \in Keys : ShardOf(k) \in 0 .. N - 1
    BY Types, ShardType, ConstantsAssumption DEF Shards
  <2>2. \A k \in Keys : ~ (ShardOf(k) > reg[t].shard)
    BY <1>2, <2>1
  <2> QED
    BY <1>2, <2>2 DEF Ahead
<1>4. kept[t] \subseteq visited[t]
  BY <1>1, <1>2, <1>3 DEF Advancing
<1>5. Contents' = Contents
  BY QuietContents DEF CallInv
<1>6. Shown[t] = NoResult /\ Shown' = [Shown EXCEPT ![t] = Result("updated", None)]
  BY <1>2, AnswerShown DEF Step
<1> QED
  BY <1>2, <1>4, <1>5, <1>6, SameCalls DEF Map!UpdatedEach, Map!Answer, Shown

LEMMA ThrowStep ==
  ASSUME Basis, Basis', CallInv, NEW t \in Threads, UpdaterThrows(t)
  PROVE  Map!UpdaterThrows(t)
<1>1. /\ pc \in [Threads -> Labels] /\ Placed(t) /\ result = [u \in Threads |-> result[u]]
  BY Types DEF CallInv, HistoryType
<1>2. /\ call[t].op \in {"update", "update_each"} /\ pc[t] = "write" /\ pc'[t] = "unlock"
      /\ result'[t] = Result("exception", None)
      /\ UNCHANGED <<call, visited, kept>>
  BY <1>1 DEF UpdaterThrows, Answer, Placed
<1>3. call[t].op = "update" => Contents[call[t].key] # None
  BY <1>1, <1>2, AtHand DEF Placed, Basis, LockInv, Disciplined
<1>4. Contents' = Contents
  BY QuietContents DEF CallInv
<1>5. Shown[t] = NoResult /\ Shown' = [Shown EXCEPT ![t] = Result("exception", None)]
  BY <1>2, AnswerShown DEF Step
<1> QED
  BY <1>2, <1>3, <1>4, <1>5, SameCalls DEF Map!UpdaterThrows, Map!Answer, Shown

LEMMA SizeStep ==
  ASSUME Basis, Basis', CountExact, CallInv, NEW t \in Threads, ReadCount(t)
  PROVE  Map!Size(t)
<1>1. /\ pc \in [Threads -> Labels] /\ Placed(t) /\ result = [u \in Threads |-> result[u]]
  BY Types DEF CallInv, HistoryType
<1>2. /\ call[t].op \in {"size", "empty"} /\ pc[t] = "read_count" /\ pc'[t] = "return"
      /\ result'[t] = IF call[t].op = "size" THEN Result("size", count) ELSE YesNo(count = 0)
      /\ UNCHANGED <<call, visited, kept>>
  BY <1>1 DEF ReadCount, Answer, Placed
<1>3. /\ count = Cardinality(PresentIn(Contents))
      /\ YesNo(count = 0) = YesNo(PresentIn(Contents) = {})
  <2>1. PresentIn(Contents) = Counted /\ count = Cardinality(Counted)
    BY PresentAreCounted DEF CountExact
  <2>2. count = 0 <=> Counted = {}
    BY <2>1, CountedFinite, FS_EmptySet
  <2> QED
    BY <2>1, <2>2 DEF YesNo
<1>4. Contents' = Contents
  BY QuietContents DEF CallInv
<1>5. Shown[t] = NoResult
      /\ Shown' = [Shown EXCEPT ![t] = IF call[t].op = "size" THEN Result("size", count)
                                       ELSE YesNo(count = 0)]
  BY <1>2, AnswerShown DEF Step
<1>6. CASE call[t].op = "size"
  <2>1. Map!Result("size", Map!Cardinality(Map!PresentIn(Contents))) = Result("size", count)
    BY <1>3, SameCalls
  <2> QED
    BY <1>2, <1>4, <1>5, <1>6, <2>1, SameCalls DEF Map!Size, Map!Answer, Shown
<1>7. CASE call[t].op # "size"
  <2>1. Map!YesNo(Map!PresentIn(Contents) = {}) = YesNo(count = 0)
    BY <1>3, SameCalls
  <2> QED
    BY <1>2, <1>4, <1>5, <1>7, <2>1, SameCalls DEF Map!Size, Map!Answer, Shown
<1> QED
  BY <1>6, <1>7

-----------------------------------------------------------------------------
(* The theorem.                                                            *)

Inv == Basis /\ CountExact /\ CallInv

LEMMA InvInit == Init => Inv /\ Map!Init
<1> SUFFICES ASSUME Init PROVE Inv /\ Map!Init
  OBVIOUS
<1>1. Basis /\ CountExact
  BY BasisInit, CountInit
<1>2. HistoryType
  BY DEF Init, HistoryType
<1>3. ASSUME NEW t \in Threads PROVE Answered(t) /\ Placed(t) /\ Advancing(t)
  BY <1>3 DEF Init, Answered, Placed, Advancing, NoCall
<1>4. Joining = {} /\ Leaving = {}
  BY DEF Init, Joining, Leaving
<1>5. Contents = [k \in Keys |-> None]
  BY <1>4 DEF Contents, Init
<1>6. Shown = [t \in Threads |-> NoResult]
  BY DEF Shown, Init
<1> QED
  BY <1>1, <1>2, <1>3, <1>5, <1>6, SameCalls DEF Inv, CallInv, Map!Init, Shown, Init

LEMMA InvStep == Inv /\ [Next]_vars => Inv'
<1> SUFFICES ASSUME Inv, [Next]_vars PROVE Inv'
  OBVIOUS
<1>1. Basis' /\ Basis /\ CountExact /\ CallInv
  BY BasisStep DEF Inv
<1>2. CASE Next
  <2>1. PICK t \in Threads : Call(t) \/ Step(t)
    BY <1>2 DEF Next
  <2>2. CountExact'
    BY <1>1, <2>1, CountStep
  <2>3. HistoryType'
    BY <1>1, <2>1, HistoryStep
  <2>4. \A u \in Threads : Answered(u)' /\ Placed(u)' /\ Advancing(u)'
    BY <1>1, <2>1, AnsweredStep, PlacedStep, AdvancingStep
  <2> QED
    BY <1>1, <2>2, <2>3, <2>4 DEF Inv, CallInv
<1>3. CASE UNCHANGED vars
  <2>1. CountExact'
    BY <1>1, <1>3 DEF vars, CountExact, Counted, Present, PresentIn, Joining, Leaving
  <2> USE DEF CallInv
  <2>2. UNCHANGED <<store, pc, call, reg, result, visited, kept>>
    BY <1>3 DEF vars
  <2>3. PresentIn(Contents)' = PresentIn(Contents)
    BY <2>2 DEF PresentIn, Contents, Joining, Leaving
  <2>4. HistoryType'
    BY <1>1, <2>2, <2>3 DEF HistoryType
  <2>5. ASSUME NEW u \in Threads PROVE Answered(u)' /\ Placed(u)' /\ Advancing(u)'
    <3>1. Ahead(u)' = Ahead(u)
      BY <2>2 DEF Ahead
    <3>2. Answered(u)' /\ Placed(u)'
      BY <1>1, <2>2 DEF Answered, Placed
    <3>3. Advancing(u)'
      BY <1>1, <2>2, <3>1 DEF Advancing
    <3> QED
      BY <3>2, <3>3
  <2> QED
    BY <1>1, <2>1, <2>4, <2>5 DEF Inv
<1> QED
  BY <1>2, <1>3

LEMMA MapStep == Inv /\ Inv' /\ [Next]_vars => [Map!Next]_(Map!vars)
<1> SUFFICES ASSUME Inv, Inv', [Next]_vars PROVE Map!Next \/ UNCHANGED Map!vars
  OBVIOUS
<1>1. Basis /\ Basis' /\ CountExact /\ CallInv
  BY DEF Inv
<1>2. CASE UNCHANGED vars
  BY <1>2 DEF vars, Map!vars, Contents, Joining, Leaving
<1>3. ASSUME NEW t \in Threads, Call(t) \/ Step(t) PROVE Map!Next \/ UNCHANGED Map!vars
  <2>1. CASE Call(t) \/ Unlock(t) \/ ReturnCount(t)
    BY <1>1, <2>1, BeginStep, ReturnStep DEF Map!Next
  <2>2. CASE Acquire(t) \/ UpdateRead(t) \/ EachRead(t) \/ EachNextShard(t)
    BY <1>1, <2>2, Hidden
  <2>3. CASE InsertBody(t) \/ CountUp(t)
    <3>1. CASE InsertBody(t) /\ pc'[t] = "count_up"
      BY <1>1, <3>1, Hidden
    <3>2. CASE ~ (InsertBody(t) /\ pc'[t] = "count_up")
      BY <1>1, <2>3, <3>2, InsertStep DEF Map!Next
    <3> QED
      BY <3>1, <3>2
  <2>4. CASE EraseBody(t) \/ CountDown(t)
    <3>1. CASE EraseBody(t) /\ pc'[t] = "count_down"
      BY <1>1, <3>1, Hidden
    <3>2. CASE ~ (EraseBody(t) /\ pc'[t] = "count_down")
      BY <1>1, <2>4, <3>2, EraseStep DEF Map!Next
    <3> QED
      BY <3>1, <3>2
  <2>5. CASE ContainsBody(t) \/ AtAnswer(t) \/ UpdateThrows(t) \/ UpdateWrite(t)
    BY <1>1, <2>5, ContainsStep, AtStep, UpdateStep DEF Map!Next
  <2>6. CASE EachWrite(t) \/ EachLastShard(t) \/ UpdaterThrows(t) \/ ReadCount(t)
    BY <1>1, <2>6, EachStep, EachEndStep, ThrowStep, SizeStep DEF Map!Next
  <2> QED
    BY <1>3, <2>1, <2>2, <2>3, <2>4, <2>5, <2>6 DEF Step
<1> QED
  BY <1>2, <1>3 DEF Next

\* ShardMap implements ConcurrentMap: whatever the threads call and however
\* their steps interleave, every call takes effect at one instant between its
\* call and its return, size() and empty() included though they take no lock;
\* update_each updates each element once and misses none that stays.
THEOREM MapLinearizable == Spec => Linearizable
<1>1. Spec => Map!Init /\ [][Map!Next]_(Map!vars)
  BY InvInit, InvStep, MapStep, PTL DEF Spec
<1> QED
  BY <1>1 DEF Linearizable, Map!Spec

=============================================================================
