# A verification development for futils

futils is a header-only C++ library of containers and small tools. These modules model every component
of it that has a state or an algorithm, step by step where steps can be told apart; TLC checks them on
small instances, TLAPS proves the theorems listed below for every value of the constants, and four runs
show where the unfinished trie does not do what its documentation says.

## 1. The system

The components do not call each other, with two exceptions: the tree's balancer
(`avl_balancer.h`) is a policy of the tree and uses the rotations of `base.h`; `clear` and
`enumerate` of the tree use `stack_adaptor`. `ShardMap` takes any map with `insert`, `erase`,
`contains` and `at`, and the trie uses `bitutil`. The only component with threads of its own
concern is `ShardMap`, and the profiler, whose counters any thread updates.

| component | state | operations | what is hard |
|---|---|---|---|
| `binary_tree::tree` + `avl_balancer` + `base.h` | `root`, `node_count`; per node two links and a balance field | `insert`, `erase`, `count`, `size` | No parent pointers and no recursion: one pass down remembers the address of *one* link (`path_top`) from which a second pass restores the balance; `erase` keeps a second link address (`targetp`) across rotations that may move it; every pointer the balance fields vouch for is followed untested; allocation may fail half way |
| `tree::clear`, `enumerate`, `swap`, `stack_adaptor` | the stack of nodes in a buffer sized from `node_count` | the same | Two `goto` loops; no bound check in `push`; nodes are freed while their parents still link to them |
| `ShardMap` | N maps, N mutexes, one atomic counter | `insert`, `load`, `contains`, `erase`, `at`, `update`, `update_each`, `size`, `empty` | Threads; the counter is changed after the map and read without any lock; `update` and `at` throw with the lock held; `update_each` locks shard after shard; `load` locks nothing |
| `ConstPool` | storage, `first_empty`; the free list is threaded through the free elements | `Reset`, `Alloc`, `Free`, `GetAddr`, `GetAddrAt` | A full and an empty pool at the index type's limit; a `Free` of a bad or free index corrupts the list silently |
| `rlu_map` | list of keys, map from key to value and list position, weight | `insert`, `push_front`, `push_back`, `touch`, `remove`, `clear`, purge | Three pieces of state that must agree; the purge loop's iterator; what a purge keeps; a threshold compared in floats |
| `profiler` | per point two atomics; a vector of points | scope end, `for_each_point`, `reset` | Two atomics that a reader sees between their updates |
| `bitutil`, `patricia_trie` | none; nodes with a bit position, links that lead back up | `bit`, `mismatch`; `insert`, `erase`, `contains`, `clear` | Ends of items, keys that are prefixes, look-ups that end only if positions grow; unfinished in the source |
| `allocator`, `type_utils`, `visibility` | none | forwarding, a compile-time choice of a type | nothing |

What makes each of them correct:

* **tree**: to its caller it is a set, and `size()` is its cardinality; at every step, not only
  between calls, the nodes that are allocated are the ones in the tree and in search order;
  between calls it is an AVL tree whose balance fields are right; no null pointer is followed;
  every call returns.
* **clear, enumerate, swap**: each node is freed once, and none is used after; the visitor meets
  the elements in order, all of them if it does not stop; the stack never outgrows its buffer.
* **ShardMap**: linearizable, `size()` and `empty()` included; mutual exclusion in each shard; no
  mutex kept by a call that throws; the counter never below zero.
* **ConstPool**: the free list is a path through exactly the free elements; no element has two
  owners; `Alloc` fails only when nothing is free.
* **rlu_map**: list, map and weight agree; after any insertion the weight is below the limit, or at what purge aims at; a
  purge keeps the longest front part of the list that is light enough, as floats compare; its loop never reads what it removed.
* **profiler**: no update is lost; once all scopes have ended the counts are exact; a reader that no
  ending scope disturbs sees a time and a count that belong together.
* **patricia_trie**: to its caller a set; every node is met once by a traversal; no link to a freed node.

`PROJECT.json` lists every hazard found, at its line, with the properties that would catch it.

## 2. The modules

```
OrderedSet  <---- refined by ---- AvlTree  <-- EXTENDS -- Tree
                                   |    |                  |  |  |
                     AvlTreeProofs      MCAvlTree    MCTree   |  MCTreeDeep
                           ^---------- EXTENDS ---------- TreeProofs

MapCalls <- ConcurrentMap <- refined by - ShardMap -- ShardMapProofs, MCShardMap

FreeStack  <- refined by - ConstPool -- ConstPoolProofs, MCConstPool
RecencyMap <- refined by - RluMap ---- RluMapProofs, MCRluMap      (both EXTEND Float)
                           Profiler -- ProfilerProofs, MCProfiler
BitStream <- EXTENDS - PatriciaTrie -- TrieProofs, MCTrie, MCTrieStrings
Induction: facts about natural numbers for AvlTreeProofs, ConstPoolProofs, RluMapProofs, TrieProofs
```

Operators whose comment begins "Faulty variant of" are plausible bugs, used to confirm that each
property can fail; nothing in the specifications refers to them. Some small operators (`Inward`, `IsFree`,
`LinkTo`, ...) name one expression of the code so that it can be replaced by such a variant.

### AvlTree: insert, erase, count

`heap` is the root pointer with the `links` and `balance` of every node; `live` is the set of
nodes allocated; `node_count`; `pc` and `reg` are the running call's place and local variables;
`reply` is what the caller last got. A `Node**` of the code is a pair `<<n, d>>`, the address
`&n->links[d]`, with a pair of its own for the root's address and one for a null `Node**`. That is
what makes the model worth having: a link that is rewritten by a rotation while its address is
held elsewhere behaves as it does in memory. A node is named by its key, since the code never
moves a value from node to node.

| code | actions |
|---|---|
| `avl_balancer::insert` stage 1 (71-80), `tree::insert` (339-347) | `InsertCall`, `InsertDescend`, `InsertPresent`, `InsertLink`, `InsertThrows` |
| stage 2 (86-110): at most one rotation | `InsertBelowBalanced`, `InsertShorterPath`, `InsertRotate2`, `InsertRotate3` |
| stage 3 (113-120): new balances down the path | `InsertUpdate`, `InsertReturn` |
| `avl_balancer::erase` stage 1 (134-158) | `EraseCall`, `EraseDescend`, `EraseAbsent`, `EraseLocated` |
| stage 2 (159-184): one iteration per node, with rotations | `EraseLower` |
| stage 3 (186-201), `tree::erase` (349-359) | `EraseUnlink` |
| `tree::count`, `lookup` | `CountCall`, `CountDescend`, `CountReturn` |

A loop iteration, or a straight line between loops, is one step. The tree is not shared by threads,
so finer steps would show nothing more to anyone but the code itself; the invariants are stated for
the points where a stage trusts what an earlier one has left behind.

`OrderedSet` is the promise: a call begins, takes effect at once with a result and the `size()` the
caller will see, and returns. The refinement maps `contents` to the nodes in the tree, without the
node that a running `insert` has linked but not reported yet.

### Tree: clear, enumerate, swap

Adds `walk` (the locals of the two loops: order, node at hand, stack, capacity of the buffer) and
`other`, the tree to swap with. `walk.visited` is what the visitor was given and `walk.before` is
history: the set that `clear` began with. The buffer's size is computed as in the code, three
halves of `node_count`'s bit length. A freed node's memory is blanked, so that a use of it after
the free is seen.

Assumptions on callers: the visitor does not change the tree (the code has no defence against that,
and says nothing); no key is inserted in one tree while the other holds it, which is a limitation of
naming nodes by their keys, not of the code.

### ShardMap

A thread's call is a sequence of steps, each one access to what others can see: locking, the
operation on the shard's map, `++`/`--`/load of the atomic counter, and the read and the write of an
updater, which is handed a reference. `mutex` holds the owners, `store` the contents of all the
shards' maps together (a key has one shard), `count` the atomic counter. `ShardOf` converts a key to
`size_t` before the remainder, as `get_shard_index` does for integers; `SizeRange` is the number of values of
`size_t` and stands for 2^64. (For strings it takes the last character, and an empty one is undefined.)

An updater may throw (`UpdaterThrows`), before it has written anything: `update` and `update_each` then end where they are, and the
lock's guard object releases the shard. History variables, which no guard reads: `visited`, `kept`, and
`reg.seen` in `EraseBody` (the value on its way out). Assumptions on callers: `load` is called when nothing else runs, as its comment
demands (the guard of `Call`, which no property can therefore test); an updater does not call the map. The order in which `update_each` meets the elements of a
shard is left open, because it is the container's.

`ConcurrentMap` is the promise: each call takes effect at one instant between its call and its
return. `update_each` is the exception: it updates one element at a time, none twice, and misses
none that is in the map all through the call, unless its updater throws. The refinement says where these instants are. They
are not where one might put them: an element that a thread has put in a shard's map is not in the
abstract map until the counter has been incremented. Only so can `size()` be explained, which reads
the counter with no lock; and it is sound because the shard is locked all that time, so that nobody
can see the element before.

### ConstPool

`data` is the first `index_type` of each element: the free list's next index, or whatever the element's
owner has written over it. `Init` is the state in which the constructor calls `Reset`, with memory that
holds anything; the loop of `Reset` is one step per iteration (`ResetCall`, `ResetLink`, `ResetReturn`),
because its loop variable has the index type and the pool may be as large as that type allows. `Alloc`,
`AllocThrows` and `Free` are the calls, `Write` an owner's access to what `GetAddr` returns. Callers free
what they own, once: the code checks neither a double `Free` (a TODO) nor an index that is too big (it
constructs a `std::bad_alloc` and does not throw it). `FreeStack` is the promise: a stack of the free
elements. The refinement maps it to the path from `first_empty`.

### RluMap

`orderList`, `map` and `data_weight` as in the code. `insert` has the position as a parameter and stands
for `push_front` and `push_back` too; when it reaches `maxWeight`, `pc` becomes `"purge"` and each turn of
`purge`'s loop is a step (`purgeStep`) with its iterator `list_it`, which the code decrements before it
removes. A value is its weight.

The condition of that loop, `data_weight > maxWeight*factor`, compares floats: both `int` are converted, and the
product is rounded. `Float` models that. `Ulp` is the distance of the floats around a natural number, `Rounded` the
nearest one, of two the even one. `FloatRange` stands for 2^24, up to which every integer is a float. The factor is
`factor / FactorUnit`, where the unit is a power of two and `factor` is a float itself (`FloatAssumption`): each finite float that
is not negative is of this form, and since scaling by a power of two does not change what is rounded, the comparison can be
made in integers (`TooHeavy`). So 16777217 is not above 16777216 * 1.0f, and 30000001 not above 40000000 * 0.75f, in the model as in
the code. `maxWeight * factor` is a multiple of the smallest float that the factor is a multiple of, so that
it does not underflow; a product too large for a float is larger than any weight, in the model by its value. Taken for granted is that float
expressions have the precision of float (`FLT_EVAL_METHOD` 0) and are rounded to nearest, as on the platforms the library is built for.

`RecencyMap` is the promise: an insert keeps the longest front part of the list that is
light enough, as floats compare, and every other call changes what it says. While the loop runs the refinement shows what
it is going to keep. Not in the model: allocations that fail in the middle of `insert`, an `int` weight that
overflows, a limit or a factor that is negative, a factor that is infinite or no number, and values whose weight changes (the code hands out no reference to them).

### Profiler

`info` holds two atomics per point. The end of a scope is two steps (`AddTime`, `AddCall`), the visit of a
point in `for_each_point` two loads in either order (`Load`; the order of evaluation of a call's arguments
is not specified) and the call of the visitor (`Report`), `reset` a store at a time (`Store`). The
comment of `reset` demands that no point changes meanwhile; the comment of `for_each_point` says that it may run at any time and
give inconsistent data: the model takes both at their word. `total` and `quiet` are history: what has been
added since the last reset, and whether a scope of the visited point has been ending since its visit
began. Durations may be negative, since the clock may be set back, and counters wrap at `Range64`.
`MaxCalls` bounds the calls of a point between two resets.

### BitStream and PatriciaTrie

`BitStream` has `bit` and `mismatch` of `BitStreamAdaptor` as operators, `bit` at the end of the string
included, where it throws (`bitThrows`), and the number of the differing bit *within its item*, as the code computes it.
An item is the set of its bits that are 1. In `PatriciaTrie` a call is a step: the trie is not shared and no call waits.
`memory` holds the nodes that are allocated (two links and a position), named by their keys; `live` is what callers
have inserted and not erased. `look_up` ends where a link leads back up, or at one of the links the caller's visitor stops at.
`insertBelow` covers the three ways an insertion ends: the node is linked; it is linked and then `bit` throws,
so that its own links stay null; or the code gives up (a FIXME) with the node allocated and nothing that leads to it.
`erase` of an inner node moves the leaf that leads back to it, then both go through `remove_leaf`. Behaviours end when
a link dangles, because following it has no meaning.

There are four sets of callers, which differ in what they do besides inserting. `SpecAboveLeaf` erases keys of inner nodes other than
the root that are right above their leaves: for these the code works. `SpecInner` erases any inner node other
than the root, `SpecErase` leaves as well, and `SpecClear` clears; these three are the subject of runs that expect a
violation. The code further works only for keys that differ in their first items (`DifferFirst`): a node's position is a bit of
an item, and the search takes it for a bit of the first one.

## 3. What TLC checks

| run | module, configuration | asks |
|---|---|---|
| `avl` | `MCAvlTree` | every sequence of `insert`, `erase`, `count` over 8 keys |
| `tree` | `MCTree` | every sequence of all calls on two trees that share 6 keys |
| `tree_deep` | `MCTreeDeep` | the tallest tree of 54 nodes, emptied key by key, with one free call anywhere |
| `shardmap` | `MCShardMap` | two threads, keys -1, 0, 1 in two shards, two values |
| `pool` | `MCConstPool` | five elements, an index type of six values |
| `rlu` | `MCRluMap` | four keys, weights 0, 8, 17, 33, limit 32, floats of four digits |
| `profiler` | `MCProfiler` | three threads, two points, a reader and `reset` |
| `trie` | `MCTrie` | ten keys of four bits, inserted in any order, erased right above their leaves |
| `trie_strings` | `MCTrieStrings` | keys of two items: a violation |
| `trie_inner` | `MCTrie`, `MCTrieInner.cfg` | an inner node further up is erased: a violation |
| `trie_erase` | `MCTrie`, `MCTrieErase.cfg` | a leaf is erased: a violation |
| `trie_clear` | `MCTrie`, `MCTrieClear.cfg` | the trie is cleared: a violation |

**avl** (106,841 states). `SearchOrder` and `NoLeak` hold at every step, in the middle of rotations
and of relinking too; `Balanced` holds when no call runs; `NoNullDereference` covers each pointer
that stage 2 of both calls follows on the word of a balance field; `TargetTracked` says that
`targetp` stays right through rotations. `ImplementsSet` is the refinement of `OrderedSet`, which
covers results, `size()`, and an allocation that fails. `Returns` is liveness. All states that 8
keys can reach are explored, so nothing depends on the length of the history. Eight is not
arbitrary: with seven keys a `path_top` that moves down to balanced nodes only (the variant
`StopsLossBalanced`) goes unnoticed. `Walk` and `Height` go as deep as there are keys, which no path without repetition exceeds.

**tree** (151,445 states). `HeapPartition`: between calls the allocated nodes are those of the two
trees, disjointly, and both counts are right, even though `swap` exchanges roots and `clear` sizes
its buffer by the count. `ClearTouchesLiveNodes`: no node is freed twice or followed after.
`TreeImplementsSets`: both trees, with visitors that stop and allocations that fail. `TreeReturns`.
An assumption of `MCTree` checks the formula of the buffer against the fewest nodes an AVL tree of
a given height can have, up to height 24 (121,392 nodes).

**tree_deep** (53,386 states). Small trees never have a node with three rotations below it nor fill
the stack. The 54 insertions of `test/avl_tree.cpp:20-27` build the tree of eight levels with the
fewest nodes; its keys are then erased in the order they went in, inner nodes first, and after any of
the erases one call of any kind may come instead. `StackFits` and `EnumerationInOrder` are checked
where the stack is deepest, and `Balanced` and `TargetTracked` through erases that rotate at up to
three levels. (The test's comment calls the height 7, counting edges: the walk pushes a node for each
level above the lowest, so 7 is also the stack it needs.) The script ends, hence
`CHECK_DEADLOCK FALSE`; liveness is left to `tree`.

**shardmap** (410,001 states). `LockInv`, `OneThreadPerShard`, `CountExact`, `Linearizable`,
`MutexesReleased`. Three keys in two shards give a shard with two elements for `update_each`, and one
element elsewhere that joins or leaves while it is at work. Key -1 goes through the conversion to an unsigned number: without
it, as the variant `ShardOfSigned` shows, its shard would be -1 (`TypeOK`).
`SizeRange` is 16: all that matters is that it is larger than the keys. `LockInv` is the invariant that the proofs use. With
two threads only one other call can be between a map and the counter while the counter is read; that more of them change
nothing is what the theorems show (section 4), for any number of threads.

**pool** (45,177 states). The pool is as large as its index type allows, so that the last link `Reset` writes is
the greatest index, and its loop variable stops one short of wrapping. Owners write an index that is in the
pool, or one past its end, which is all that the code could mistake their data for. `NoTwoOwners`; `ImplementsStack`, the
order of the free list included; `ResetEnds`.

**rlu** (5,130 states). The limit is 32 and purge aims at 24, three quarters of it, the default. Weights 0 (which a purge removes
without getting lighter), 8 and 17 (so that a purge may keep two elements or three), and 33, above the limit by itself: a purge then
empties the map, and decrements its iterator past the first element. `FloatRange` is 16, so that from 16 on every other number is a
float, and from 32 on every fourth: 25, the weight of 17 and 8, is rounded to 24 and kept, though it is more than purge aims at.
`PurgeReadsElement` says that the iterator is never used past the first element: whenever the
loop goes on, it is at the last element of the list. `Agreement` holds in every turn of the loop. `WeightBounded` allows for the
three roundings: data_weight * (1 - 1/R) <= maxWeight * factor * (1 + 1/R)^2, with R for `FloatRange`, multiplied out.
`ImplementsRecency`; `PurgeEnds`. The run explores all states; nothing is bounded but the keys and weights.

**profiler** (49,677 states, up to renaming threads). Two threads may be between their updates while a third
ends a scope of the same point, and a reader is at that point or at the other one. A range of 4 wraps with
durations of 3 and with -1. `Tally` is that no update is lost, `QuietReading` that a reading can be wrong only if a scope of
that very point ended, or `reset` ran, during the visit: scopes of other points, and the rest of the walk, do not matter.

**trie** (29,525 states). Any subset of the ten keys in any order of insertion, with erases in between of keys at inner nodes right
above their leaves. Four bits give paths of five nodes, and `bit` throws for a key of one item that differs in the last
bit only from one in the trie (0, 3, 1, 13 and 5 in this order): `FindsExactly` holds even so, since the parent leads to
the new node by then. Three of the keys have a second item, which nothing must look at, but which keeps `bit` from throwing.
`TraversesAll` is what `clear` and the destructor rest on.

**trie_strings, trie_inner, trie_erase, trie_clear** expect a violation and show four disagreements with the source's own
comments, quoted in `PROJECT.json`. With strings of two items, `mismatch` numbers the bits of the item that differs and not
those of the string: after (1,1) and (1,2) are inserted, (1,1) is not found. Erasing an inner node whose leaf is not
right below it loses the nodes in between: after 0, 1, 5, 9 are inserted and 1 is erased, 5 is not found. It takes
four bits to see this. Erasing a leaf calls
`remove_leaf` with the leaf as its own parent: the node is freed and the link above still leads to it.
`clear` frees all nodes and leaves `root_node`. The trie's build line is commented out in
`src/CMakeLists.txt`: the component is unfinished, which the runs make precise.

**Fairness.** `Reset`'s loop and `purge`'s loop wait for nothing: weak fairness of their steps. A tree's call has nothing to wait for, so weak fairness of its steps says only that the
program is not stopped; callers need not call. In `ShardMap` a thread that can take a step does, which
is weak fairness for each thread. `std::mutex` promises no order, so a thread may starve at a lock
and no return of every call is claimed; what is claimed is that no mutex is held for ever. Updaters
and visitors are taken to return.

## 4. What TLAPS proves

From the assumptions on the constants (`ConstantsAssumption`), for any finite set of integer keys, any
finite set of threads, any N from 1 to 255 and any width. The theorems state the properties of the runs
under their own names; what a run shows for a few keys the theorem shows for all.

### Induction

The provers cannot instantiate an induction theorem whose parameter is a predicate. `Induction` says the
same in first-order form: a *set* of numbers with 0 and the successors of its elements has all numbers
(`NoGap`), and a function that starts at `a` and goes on by `G` exists and is what its recursive
definition says (`Recursion`); and a recursion over points of bounded rank has a solution (`Fixpoint`). They follow from the library's theorem that the order of the numbers is
well-founded. So the recursive functions of the model (`Walk`, `Height`, the pool's `List`, sums, `Ulp`, the trie's searches and traversal) can be
reasoned about, as long as each is a function and not a RECURSIVE operator.

### AvlTree (`AvlTreeProofs`)

`TypeOK` is inductive by itself, because a slot is a pair whatever the heap looks like (`TypeCorrect`).
`SearchOrder`, `NoLeak`, `Balanced` are not inductive, and speak of walks that no single step can see. The invariant
(`TreeInv`, theorem `TreeKept`) says the same locally, by three functions on the live nodes, which it claims to exist:

* `lo` and `hi`: the open interval of keys that belong below a node (`Shape`). A slot holds a node that has the slot's interval,
  or no live node is in that interval (`Placed`); intervals are nested. A rotation changes the intervals
  of two nodes; taking out a node and putting its neighbour in its place renames the ends of some.
  Each has a lemma (`TurnShape`, `GrownShape`, `CutShape`, `RenamedShape`), and `Rotate3` is two rotations.
* `ht`: heights. Balance fields agree with them at every node (`Sound`), except that one node may be *seen* one
  higher (stage 2 and 3 of insert, below which the path has grown) or one lower (stage 2 of erase, from which
  the loss goes up) than it is. The balance work of the code moves this one disagreement along the path
  until it is gone. There is one lemma for every branch of the code.
* `Fits` ties the locals of the running call to them, stage by stage: that nodes from `path_top` down are balanced, that
  the slot at hand is on the way to the key, that the loss of height goes on from `path_top` to the last node, that
  `targetp` holds the key's node.

From it, with inductions over the depth of a walk: `InSearchOrder` (`SearchOrder`), `NothingLeaks` (`NoLeak`),
`BetweenCallsBalanced` (`Balanced`); and directly `PointersSafe` (`NoNullDereference`) and `TargetKnown` (`TargetTracked`).
`SetImplemented` is the refinement `ImplementsSet`, step by step; it needs further that `node_count` is the number of live
nodes (`CallInv`).

### Tree (`TreeProofs`)

`TreeTypeCorrect`, `HeapParted` (`HeapPartition`), `ClearIsSafe` (`ClearTouchesLiveNodes`), `BufferIsLargeEnough` (`StackFits`),
`VisitsInOrder` (`EnumerationInOrder`) and the refinement `SetsImplemented` (`TreeImplementsSets`), from one inductive
invariant (`WholeInv`, theorem `TreesKept`): the live nodes are two sets `M` and `O` without a common element, and (`Parts(M, O)`)

* the other tree, with the nodes `O`, is at rest; the tree that is called, with the nodes `M`, is at rest too
  or fulfils the invariant of `AvlTree` for the stage it is in. The theorems on `AvlTree` are stated for one set of nodes
  within the memory, so that they hold beside another tree; what is new is that no step writes to a node outside that set
  (`StepApart`, branch by branch), and that being at rest depends only on the nodes of the tree (`RestsAlike`).
* `enumerate` (`EnumInv`): heights fall from the bottom of the stack up to the node at hand (`Deep`); below each of these
  nodes the next element after its interval is the one under it on the stack (`Nexts`); what has been
  visited is, in order, all that comes before the interval of the node at hand, or before the node (`Lists`).
* `clear` (`ClearInv`): what is left of the tree is a search tree still, in which the stack is the way from the root to
  the node at hand, to the right only where nothing is left at the left (`WayTo`). The links to freed right
  children stay in memory; the invariant reads the tree as if the one at the node at hand were reset (`Trim`), and
  the argument is that the code goes up from there without reading it.
* `StackFits` follows from `Deep`, if a tree is never higher than its buffer. It is, at any size: three levels
  more need four times the nodes at least (`FewestGrow`, on the sequence of the fewest nodes of an AVL tree), while four
  times the nodes make the buffer larger by three; with the induction on heights (`AllPeopled`) that is `BufferFits`.
  The assumption in `MCTree` checks the same up to height 24, with numbers.

`HeapPartition` by itself says nothing of a running call, and `ClearTouchesLiveNodes` nothing of what the links
lead to: neither is inductive. The refinement shows the set that `clear` began with until it returns, as its mapping
says, whatever has been freed by then.

### ShardMap

* `TypeCorrect`, `LocksKept`, `ShardsExcluded`: `TypeOK /\ LockInv` is inductive.
  `OneThreadPerShard` alone is not: that nobody else is in a shard follows from who *holds its mutex*,
  and that a thread in a shard works on that shard's keys is what makes the steps of others harmless.
* `CounterExact`: on top of that, the counter is the cardinality of the elements minus those joining and
  plus those leaving. Each step changes that set by one element or not at all; mutual exclusion gives that no
  two threads are joining or leaving with the same key, so that one step of the counter is one element of the set.
* `SizeAtRest`: the counter never wraps below zero, and `size()` is exact when no call runs.
* `MapLinearizable`: every step is a step of `ConcurrentMap` or invisible. The abstract map is the shards' maps without
  the elements that are joining and with those that are leaving; the invariant relates each thread's locals
  to the abstract call it stands for.

### ConstPool

`TypeCorrect`, `OwnersExcluded` (`NoTwoOwners`) and `StackImplemented` (`ImplementsStack`), for any size the constructor accepts and
whatever owners write. `NoTwoOwners` speaks of the first free element only; that it survives `Alloc` needs the
whole list. The invariant is that there is a sequence of distinct elements, exactly the free ones, each linked to the next and the last to
the end. `Free` puts an element in front of it, `Alloc` takes the first away, and an owner's
write touches no link of it. While `Reset` runs the invariant is that the links below the loop variable are
right. The recursive `List` of the model is that sequence, which gives the refinement.

### Profiler

`TypeCorrect`, `NothingLost` (`Tally`) and `QuietIsExact` (`QuietReading`), for any threads, points, durations and
width. The invariant adds that no scope is ending while `reset` stores, and that what has been
loaded in a quiet visit is still current. Counting the threads between their updates uses the
library's facts on cardinalities; the wrap-around uses a lemma that a remainder may be taken early.

### RluMap

`TypeCorrect`, `AllAgree` (`Agreement`), `PurgeReads` (`PurgeReadsElement`), `WeightKept` (`WeightBounded`) and `RecencyImplemented`
(`ImplementsRecency`), for any keys, weights, limit, factor and width of a float. The lemmas say where `InsertAt`, `RemoveFirst` and
`front` put each element, so that lists without repetitions stay so. The invariant adds that `list_it`
is at the last element at the start of each turn, unless the list is empty; `PurgeReadsElement` alone
says nothing of a turn that ends the loop. That the weight is a sum rests on lemmas about sums over finite sets, by
induction on their cardinality: the order of summation does not matter, and one value more or less changes the sum by it.
The refinement follows purge from the back: what it will keep does not change while it removes. For it the comparison of floats is a
predicate on weights like any other, which the map and its promise share; that rounding is monotonic is not used. For `WeightBounded` rounding matters: `UlpOf`, by induction
on `Ulp`'s recursion, gives that floats are at most 2/R of a number apart, `RoundedOf` that rounding changes a number by at most one part in R, and
`NotTooHeavy` adds up the three roundings.

### PatriciaTrie (`TrieProofs`)

`TrieTypeCorrect` (`TypeOK`), `TrieFindsExactly` (`FindsExactly`) and `TrieTraversesAll` (`TraversesAll`) for `SpecAboveLeaf`, any number
of keys of any length, and any width of the items, if the keys differ in their first items (`DifferFirst`, which the keys of `MCTrie`
fulfil and those of `MCTrieStrings` do not). That hypothesis is not an assumption of the module: without it the theorems are false, as the run
`trie_strings` shows. None of the three properties is inductive: what `contains` answers depends on where a whole search goes. The invariant
(`TrieInv`, theorem `TrieInvariant`) says what nodes and links are for the *sets* of keys that a search would take there:

* a key is on the way of a node if it agrees with the node's key in all bits below the node's position (`Way`). No two
  nodes of one position are on each other's way (`Distinct`).
* the keys on a side of a node, those on its way with the side's bit (`Group`), decide its link (`Leads`): null if there are none; to the node of the lowest position, which
  all of them have on their way (`Below`); or back up to the only one there is. At a node with its position at the end of its key,
  where `bit` has thrown, both links are null, and nothing is below.

A search then meets every node that is on its key's way (`SearchComes`), and ends at its key if that is there (`SearchFinds`). `insert` finds
a key with the longest common prefix (`MatchLongest`), so that the position it computes is the first bit that tells the new key
from all others, or one below the node found whose link there is null (`InsertPlace`); its second search ends at the node
above that position (`InsertParent`), and a node placed there keeps the invariant (`PlacedKeeps`). In `erase` the leaf is right below
its node, takes over its place and position, and keeps what the node does not need any more (`LiftedKeeps`). The traversal
lists, from each node, the nodes on its way that are not above it, by induction from below (`TraverseLists`).

### Only model-checked

* Liveness: `Returns`, `TreeReturns`, `MutexesReleased`, `ResetEnds`, `PurgeEnds`. Fairness is out of this prover's reach.

## 5. What is not modelled

* `tree<K, T>` with a mapped type: `Node::compare` hands the key and the stored pair to one
  comparison, and this instance does not compile.
* A key whose copy constructor throws in `tree::insert` leaks the node's memory; no state of the tree
  shows it. In `rlu_map` an allocation that fails in the middle of `insert` leaves list, map and weight in
  disagreement; the code claims nothing for that case.
* `tree::lookup` tests with `!=` (`binary_tree.h:282`) what the rest of the tree leaves to its comparison object: for keys whose `==` is not
  that of the comparison, `count` would disagree with `insert`. The model's keys are integers, for which they agree.
* `max_size`, `dump_tree`, `dump`, `check_height_test`: they change nothing. `contains` of the trie is modelled as
  it reads: it is `const`, calls `look_up`, which is not, and would not compile when used.
* The registration of the profiler's points happens before `main` and is the model's `info_array`.
* The maps in the shards are taken to be correct maps. That `binary_tree::tree` itself is one is what the
  other half of this development is about, but the code does not put the two together.
* A double `Free`, a `Free` of an index out of range, a visitor or an updater that calls its container: the code leaves them
  undefined, without a check. `PROJECT.json` lists them as hazards without a property.
* `allocator.h`, `visibility.h`, the build: no behaviour.

## 6. Plan

Done: all components are modelled and checked; all safety properties and refinements of every run that passes are proved, those of
the trie for the callers and keys for which the code works. What could be added:

1. A `patricia_tree` that is mended where the four runs show (positions counted in the whole key, the leaf moved with the nodes in
   between, `remove_leaf` with the leaf's real parent, `clear` resetting the root) and refines a set, once the code is changed.
2. The formulas of `bitutil` against a definition of a string's bits, for strings of any length.
