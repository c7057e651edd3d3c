------------------------------- MODULE AvlTree -------------------------------
(***************************************************************************)
(* insert, erase and count of binary_tree::tree with avl_balancer: one     *)
(* action per iteration of each loop and per straight-line stage between   *)
(* them.  Nothing recurses and no node knows its parent; instead the code  *)
(* keeps addresses of links ("slots", Node** in the code) and rewrites the *)
(* links behind them while it walks.                                       *)
(*                                                                         *)
(* A node is named by the key it holds: value is set when the node is made *)
(* and erase relinks nodes, it never moves values between them.            *)
(***************************************************************************)
EXTENDS Integers, FiniteSets, Sequences

CONSTANTS
  Keys,       \* the keys callers use
  Null        \* nullptr

ASSUME ConstantsAssumption ==
  /\ Keys \subseteq Int
  /\ IsFiniteSet(Keys)
  /\ Null \notin Keys

Dirs == {0, 1}                     \* links[0] is left, links[1] is right
Ptrs == Keys \cup {Null}
Slots == Ptrs \X Dirs              \* <<n, d>> is &n->links[d]
RootSlot == <<Null, 0>>            \* &root of the tree
NoSlot == <<Null, 1>>              \* a Node** that is nullptr

VARIABLES
  heap,        \* [root, links, balance]: the tree's root and the nodes' fields
  live,        \* nodes allocated and not yet deallocated
  node_count,
  pc,          \* where the running call is
  reg,         \* its local variables
  reply        \* the last call that returned, with its result
               \* (what its caller sees; gone when the next call begins)

vars == <<heap, live, node_count, pc, reg, reply>>

-----------------------------------------------------------------------------
(* Nodes, slots and rotations.  Reading through a null pointer reads Null  *)
(* here; NoNullDereference says that the code never does it.               *)

Get(h, s) == IF s[1] = Null THEN h.root ELSE h.links[s[1]][s[2]]

Put(h, s, n) ==
  IF s[1] = Null THEN [h EXCEPT !.root = n] ELSE [h EXCEPT !.links[s[1]][s[2]] = n]

Link(h, n, d) == IF n = Null THEN Null ELSE h.links[n][d]

Balance(h, n) == IF n = Null THEN -1 ELSE h.balance[n]

SetBalance(h, n, b) == [h EXCEPT !.balance[n] = b]

IsBalanced(h, n) == Balance(h, n) < 0

\* Faulty variant of Direction: the three-way result itself is the index.
DirectionRaw(k, n) == IF k < n THEN -1 ELSE 1

Direction(k, n) == IF k < n THEN 0 ELSE 1

\* The memory of a node that is not in use, and of one just constructed.
Blank(h, n) ==
  [h EXCEPT !.links[n] = [d \in Dirs |-> Null], !.balance[n] = -1]

Rotate2(h, top, dir) ==
  LET B == Get(h, top)
      D == Link(h, B, dir)
      C == Link(h, D, 1 - dir)
  IN  Put(Put(Put(h, top, D), <<D, 1 - dir>>, B), <<B, dir>>, C)

\* Faulty variant of Inward: the one on the side of dir.
InwardSame(dir) == dir

\* The subtree of the raised node that goes to its former grandparent.
Inward(dir) == 1 - dir

Rotate3(h, top, dir) ==
  LET B == Get(h, top)
      F == Link(h, B, dir)
      D == Link(h, F, 1 - dir)
      C == Link(h, D, Inward(dir))
      E == Link(h, D, 1 - Inward(dir))
      raised == Put(Put(Put(h, top, D), <<D, 1 - dir>>, B), <<D, dir>>, F)
  IN  Put(Put(raised, <<B, dir>>, C), <<F, 1 - dir>>, E)

AvlRotate2(h, top, dir) ==
  LET turned == Rotate2(SetBalance(h, Get(h, top), -1), top, dir)
  IN  SetBalance(turned, Get(turned, top), -1)

\* third: the side of D that is the higher one, or -1.
AvlRotate3(h, top, dir, third) ==
  LET B == Get(h, top)
      F == Link(h, B, dir)
      D == Link(h, F, 1 - dir)
      level == SetBalance(SetBalance(SetBalance(h, B, -1), F, -1), D, -1)
      turned == Rotate3(level, top, dir)
  IN  CASE third = -1  -> turned
        [] third = dir -> SetBalance(turned, B, 1 - dir)
        [] OTHER       -> SetBalance(turned, F, dir)

-----------------------------------------------------------------------------
(* Calls and returns.                                                      *)

NoRegs == [key |-> Null, nodep |-> NoSlot, path_top |-> NoSlot,
           targetp |-> NoSlot, path |-> Null, dir |-> 0]

Abstract == INSTANCE OrderedSet WITH contents <- {}, other <- {}

Call(label, k) ==
  /\ pc = "idle"
  /\ pc' = label
  /\ reg' = [NoRegs EXCEPT !.key = k, !.nodep = RootSlot, !.path_top = RootSlot]
  /\ reply' = Abstract!NoReply
  /\ UNCHANGED <<heap, live, node_count>>

Return(op, result) ==
  /\ pc' = "idle"
  /\ reg' = NoRegs
  /\ reply' = Abstract!Reply(op, reg.key, result, node_count')

Here == Get(heap, reg.nodep)            \* the node that the slot at hand points to
Side == Direction(reg.key, Here)        \* where the key is from there

Init ==
  /\ heap = [root    |-> Null,
             links   |-> [n \in Keys |-> [d \in Dirs |-> Null]],
             balance |-> [n \in Keys |-> -1]]
  /\ live = {}
  /\ node_count = 0
  /\ pc = "idle"
  /\ reg = NoRegs
  /\ reply = Abstract!NoReply

-----------------------------------------------------------------------------
(* insert.  Stage 1 finds the slot for the new node and remembers the slot *)
(* of the last unbalanced node passed; stage 2 rotates there at most once; *)
(* stage 3 sets the balance of the nodes from there down to the new one.   *)

InsertCall(k) == Call("find_slot", k)

\* Faulty variant of StopsGrowth: every node passed becomes path_top.
StopsGrowthAlways(n) == TRUE

\* Whether the tree above n keeps its height when n's subtree grows.
StopsGrowth(n) == ~IsBalanced(heap, n)

InsertDescend ==
  /\ pc = "find_slot"
  /\ Here \notin {Null, reg.key}
  /\ reg' = [reg EXCEPT !.path_top = IF StopsGrowth(Here) THEN reg.nodep ELSE @,
                        !.nodep = <<Here, Side>>]
  /\ UNCHANGED <<heap, live, node_count, pc, reply>>

InsertPresent ==
  /\ pc = "find_slot"
  /\ Here = reg.key
  /\ UNCHANGED <<heap, live, node_count>>
  /\ Return("insert", "present")

InsertLink ==
  /\ pc = "find_slot"
  /\ Here = Null
  /\ heap' = Put(Blank(heap, reg.key), reg.nodep, reg.key)
  /\ live' = live \cup {reg.key}
  /\ node_count' = node_count + 1
  /\ pc' = "rebalance"
  /\ UNCHANGED <<reg, reply>>

\* Faulty variant of InsertThrows: the node is counted before it is allocated.
InsertThrowsCounted ==
  /\ pc = "find_slot"
  /\ Here = Null
  /\ node_count' = node_count + 1
  /\ UNCHANGED <<heap, live>>
  /\ Return("insert", "bad_alloc")

\* node_allocator.allocate throws: no catch, and nothing has been changed yet.
InsertThrows ==
  /\ pc = "find_slot"
  /\ Here = Null
  /\ UNCHANGED <<heap, live, node_count>>
  /\ Return("insert", "bad_alloc")

\* The choices of stage 2, named as the code names them.
Top == Get(heap, reg.path_top)
First == Direction(reg.key, Top)
Second == Direction(reg.key, Link(heap, Top, First))

ToUpdate(path) ==
  /\ pc' = "update"
  /\ reg' = [reg EXCEPT !.path = path, !.nodep = NoSlot, !.path_top = NoSlot]
  /\ UNCHANGED <<live, node_count, reply>>

InsertBelowBalanced ==
  /\ pc = "rebalance"
  /\ IsBalanced(heap, Top)
  /\ UNCHANGED heap
  /\ ToUpdate(Top)

InsertShorterPath ==
  /\ pc = "rebalance"
  /\ Balance(heap, Top) = 1 - First
  /\ heap' = SetBalance(heap, Top, -1)
  /\ ToUpdate(Link(heap, Top, First))

InsertRotate2 ==
  /\ pc = "rebalance"
  /\ Balance(heap, Top) = First
  /\ First = Second
  /\ heap' = AvlRotate2(heap, reg.path_top, First)
  /\ ToUpdate(Link(heap, Link(heap, Top, First), First))

InsertRotate3 ==
  /\ pc = "rebalance"
  /\ Balance(heap, Top) = First
  /\ First # Second
  /\ LET D == Link(heap, Link(heap, Top, First), Second)
         third == IF reg.key = D THEN -1 ELSE Direction(reg.key, D)
     IN  /\ heap' = AvlRotate3(heap, reg.path_top, First, third)
         /\ ToUpdate(IF third = -1 THEN Null ELSE Link(heap, D, third))

\* Faulty variant of Onward: path is not advanced.
OnwardStays(d) == reg.path

Onward(d) == Link(heap, reg.path, d)

InsertUpdate ==
  /\ pc = "update"
  /\ reg.path \notin {Null, reg.key}
  /\ LET d == Direction(reg.key, reg.path)
     IN  /\ heap' = SetBalance(heap, reg.path, d)
         /\ reg' = [reg EXCEPT !.path = Onward(d)]
  /\ UNCHANGED <<live, node_count, pc, reply>>

InsertReturn ==
  /\ pc = "update"
  /\ reg.path \in {Null, reg.key}
  /\ UNCHANGED <<heap, live, node_count>>
  /\ Return("insert", "inserted")

-----------------------------------------------------------------------------
(* erase.  Stage 1 goes on below the key to the last node on its path;     *)
(* stage 2 lets every node from path_top down to that one lose height,     *)
(* rotating where it must; stage 3 puts the last node in the place of the  *)
(* erased one.                                                             *)

EraseCall(k) == Call("find_target", k)

\* &node if it is the one that holds the key, else what was found before.
Target == IF Here = reg.key THEN reg.nodep ELSE reg.targetp

\* Faulty variant of StopsLoss: only balanced nodes are asked for.
StopsLossBalanced == IsBalanced(heap, Here)

\* Whether the tree above Here keeps its height when the side at hand shrinks.
StopsLoss ==
  \/ IsBalanced(heap, Here)
  \/ /\ Balance(heap, Here) = 1 - Side
     /\ IsBalanced(heap, Link(heap, Here, 1 - Side))

EraseDescend ==
  /\ pc = "find_target"
  /\ Here # Null
  /\ Link(heap, Here, Side) # Null
  /\ reg' = [reg EXCEPT !.targetp = Target, !.dir = Side,
                        !.path_top = IF StopsLoss THEN reg.nodep ELSE @,
                        !.nodep = <<Here, Side>>]
  /\ UNCHANGED <<heap, live, node_count, pc, reply>>

EraseAbsent ==
  /\ pc = "find_target"
  /\ Here = Null \/ Link(heap, Here, Side) = Null
  /\ Here = Null \/ Target = NoSlot
  /\ UNCHANGED <<heap, live, node_count>>
  /\ Return("erase", "absent")

EraseLocated ==
  /\ pc = "find_target"
  /\ Here # Null /\ Link(heap, Here, Side) = Null
  /\ Target # NoSlot
  /\ pc' = "lower"
  /\ reg' = [reg EXCEPT !.targetp = Target, !.dir = Side, !.nodep = reg.path_top]
  /\ UNCHANGED <<heap, live, node_count, reply>>

\* The far child of the node at hand, which stage 2 may have to raise.
Sibling == Link(heap, Here, 1 - Side)

\* Faulty variant of RaisedEven: the two balance fields are left at -1.
RaisedEvenLevel(turned) == turned

\* Balance after Here's balanced sibling was raised.
RaisedEven(turned) == SetBalance(SetBalance(turned, Here, 1 - Side), Sibling, Side)

\* The heap after one iteration of stage 2 at Here.
Lowered ==
  LET far == 1 - Side
  IN  IF IsBalanced(heap, Here) THEN SetBalance(heap, Here, far)
      ELSE IF Balance(heap, Here) = Side THEN SetBalance(heap, Here, -1)
      ELSE CASE Balance(heap, Sibling) = Side ->
                  AvlRotate3(heap, reg.nodep, far, Balance(heap, Link(heap, Sibling, Side)))
             [] Balance(heap, Sibling) = -1 -> RaisedEven(AvlRotate2(heap, reg.nodep, far))
             [] OTHER -> AvlRotate2(heap, reg.nodep, far)

\* Stage 2 rotates at Here when the far side is the higher one.
Rotates == Balance(heap, Here) = 1 - Side

\* Faulty variant of MovedTarget: targetp is not moved with the target.
MovedTargetStays == reg.targetp

\* The link to the target, when a rotation at it has raised another node.
MovedTarget == <<Get(Lowered, reg.nodep), Side>>

EraseLower ==
  /\ pc = "lower"
  /\ Link(heap, Here, Side) # Null
  /\ heap' = Lowered
  /\ reg' = [reg EXCEPT
               !.targetp = IF Rotates /\ Here = reg.key THEN MovedTarget ELSE @,
               !.nodep = <<Here, Side>>]
  /\ UNCHANGED <<live, node_count, pc, reply>>

\* Faulty variant of OnlyChild: the last node's other child is forgotten.
OnlyChildForgotten(h, last) == Null

OnlyChild(h, last) == Link(h, last, 1 - reg.dir)

\* Stage 3 of avl_balancer::erase, then destroy and deallocate in tree::erase.
EraseUnlink ==
  /\ pc = "lower"
  /\ Link(heap, Here, Side) = Null
  /\ LET last == Here
         gone == Get(heap, reg.targetp)
         h1 == Put(heap, reg.targetp, last)
         h2 == Put(h1, reg.nodep, OnlyChild(h1, last))
         h3 == [h2 EXCEPT !.links[last] = [d \in Dirs |-> Link(h2, gone, d)],
                          !.balance[last] = Balance(h2, gone)]
     IN  /\ heap' = Blank(h3, gone)
         /\ live' = live \ {gone}
  /\ node_count' = node_count - 1
  /\ Return("erase", "erased")

-----------------------------------------------------------------------------
(* count, by way of lookup.                                                *)

CountCall(k) == Call("lookup", k)

CountDescend ==
  /\ pc = "lookup"
  /\ Here \notin {Null, reg.key}
  /\ reg' = [reg EXCEPT !.nodep = <<Here, Side>>]
  /\ UNCHANGED <<heap, live, node_count, pc, reply>>

CountReturn ==
  /\ pc = "lookup"
  /\ Here \in {Null, reg.key}
  /\ UNCHANGED <<heap, live, node_count>>
  /\ Return("count", IF Here = Null THEN "absent" ELSE "present")

-----------------------------------------------------------------------------

InsertStep ==
  \/ InsertDescend \/ InsertPresent \/ InsertLink \/ InsertThrows
  \/ InsertBelowBalanced \/ InsertShorterPath \/ InsertRotate2 \/ InsertRotate3
  \/ InsertUpdate \/ InsertReturn

EraseStep == EraseDescend \/ EraseAbsent \/ EraseLocated \/ EraseLower \/ EraseUnlink

CountStep == CountDescend \/ CountReturn

Step == InsertStep \/ EraseStep \/ CountStep

Next ==
  \/ \E k \in Keys : InsertCall(k) \/ EraseCall(k) \/ CountCall(k)
  \/ Step

\* A call that has begun runs on: there is nothing in it to wait for.
Spec == Init /\ [][Next]_vars /\ WF_vars(Step)

-----------------------------------------------------------------------------
(* Properties.                                                             *)

Heaps == [root : Ptrs, links : [Keys -> [Dirs -> Ptrs]], balance : [Keys -> {-1, 0, 1}]]

Regs == [key : Ptrs, nodep : Slots, path_top : Slots, targetp : Slots,
         path : Ptrs, dir : Dirs]

\* Every variable has its type: a link holds a node or nullptr, a slot names a
\* link that exists, a balance field is -1, 0 or 1.
TypeOK ==
  /\ heap \in Heaps
  /\ live \subseteq Keys
  /\ node_count \in Int
  /\ pc \in {"idle", "find_slot", "rebalance", "update", "find_target", "lower", "lookup"}
  /\ reg \in Regs
  /\ pc # "idle" => reg.key \in Keys

\* No path of a tree is longer than this.
MaxHeight == Cardinality(Keys)

\* The in-order walk of the subtree at n, no deeper than h.
Walk[h \in Nat] ==
  [n \in Ptrs |->
     IF n = Null \/ h = 0 THEN <<>>
     ELSE Walk[h - 1][heap.links[n][0]] \o <<n>> \o Walk[h - 1][heap.links[n][1]]]

InOrder == Walk[MaxHeight][heap.root]

Reach == {InOrder[i] : i \in DOMAIN InOrder}

Height[h \in Nat] ==
  [n \in Ptrs |->
     IF n = Null \/ h = 0 THEN 0
     ELSE LET l == Height[h - 1][heap.links[n][0]]
              r == Height[h - 1][heap.links[n][1]]
          IN  1 + IF l < r THEN r ELSE l]

\* Between any two steps of a call, rotations and relinking included, the
\* nodes in the tree are in search order, and each is there once.
SearchOrder == \A i \in 1 .. Len(InOrder) - 1 : InOrder[i] < InOrder[i + 1]

\* No step loses a node that is allocated, and none leaves a link to a node
\* that erase has handed back to the allocator.
NoLeak == Reach = live

\* When no call is running the tree is an AVL tree, and each balance field
\* says which side is the higher one.
Balanced ==
  pc = "idle" =>
    \A n \in live :
      LET l == Height[MaxHeight][heap.links[n][0]]
          r == Height[MaxHeight][heap.links[n][1]]
      IN  /\ l - r \in {-1, 0, 1}
          /\ heap.balance[n] = CASE l = r -> -1 [] l > r -> 0 [] l < r -> 1

\* What the rotations and the balance tests dereference is there: the code
\* trusts the balance fields and tests none of these pointers.
NoNullDereference ==
  /\ pc = "rebalance" =>
       /\ Top # Null
       /\ Balance(heap, Top) = First =>
            /\ Link(heap, Top, First) # Null
            /\ First # Second => Link(heap, Link(heap, Top, First), Second) # Null
  /\ pc = "find_target" /\ Here # Null =>
       /\ Link(heap, Here, Side) # Null /\ Balance(heap, Here) = 1 - Side => Sibling # Null
  /\ pc = "lower" =>
       /\ Here # Null
       /\ Link(heap, Here, Side) # Null /\ Rotates =>
            /\ Sibling # Null
            /\ Balance(heap, Sibling) = Side => Link(heap, Sibling, Side) # Null

\* While erase rotates, targetp is the address of the link to the node that
\* holds the key, wherever the rotations have moved that node.
TargetTracked == pc = "lower" => Get(heap, reg.targetp) = reg.key

\* To its caller the tree is a set: a call takes effect at once, and only if
\* it returns success; size() agrees.  A node that insert has linked belongs
\* to the set when insert returns.
Set == INSTANCE OrderedSet
         WITH contents <- IF pc \in {"rebalance", "update"} THEN Reach \ {reg.key} ELSE Reach,
              other <- {}

ImplementsSet == Set!Spec

\* Every call returns: the loops of all stages run off the end of their path.
Returns == (pc # "idle") ~> (pc = "idle")

=============================================================================
