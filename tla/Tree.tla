-------------------------------- MODULE Tree --------------------------------
(***************************************************************************)
(* The whole of binary_tree::tree: the calls of AvlTree, and clear,        *)
(* enumerate and swap.  clear and enumerate walk the tree with an explicit *)
(* stack (util::stack_adaptor) over a buffer on the C++ stack whose size   *)
(* is worked out from node_count; push does not look at the bound.         *)
(*                                                                         *)
(* Two trees share the memory.  A node is named by its key, so the callers *)
(* of the model insert no key that the other tree holds.                   *)
(***************************************************************************)
EXTENDS AvlTree

VARIABLES
  other,   \* the tree that swap exchanges with: [root, node_count]
  walk     \* the local variables of clear and enumerate

treeVars == <<vars, other, walk>>

NoWalk == [order |-> 0, node |-> Null, stack |-> <<>>, capacity |-> 0,
           visited |-> <<>>, before |-> {}]

TreeInit ==
  /\ Init
  /\ other = [root |-> Null, node_count |-> 0]
  /\ walk = NoWalk

-----------------------------------------------------------------------------
(* The buffer and the stack in it.                                         *)

\* 8 * sizeof(unsigned long long) - __builtin_clzll(n), for n > 0.
BitLength[n \in Nat] == IF n = 0 THEN 0 ELSE 1 + BitLength[n \div 2]

\* Faulty variant of BufferSize: the height of a perfectly balanced tree.
BufferSizePerfect(count) == BitLength[count]

BufferSize(count) == BitLength[count] + BitLength[count] \div 2

Push(w, n) == [w EXCEPT !.stack = Append(@, n)]

Popped(w) == w.stack[Len(w.stack)]

Pop(w) ==
  [w EXCEPT !.node = Popped(w), !.stack = SubSeq(@, 1, Len(@) - 1)]

\* The keys that other holds.
OtherReach ==
  LET order == Walk[MaxHeight][other.root] IN {order[i] : i \in DOMAIN order}

-----------------------------------------------------------------------------
(* clear.  A node is freed when both its subtrees are; the link to a freed *)
(* right child stays in its parent, the link to a left one is reset.       *)

ClearLabels == {"clear", "clear_down", "clear_right", "clear_remove"}

WalkCall(label, order) ==
  /\ Call(label, Null)
  /\ walk' = [NoWalk EXCEPT !.order = order, !.before = Reach]
  /\ UNCHANGED other

ClearCall == WalkCall("clear", 0)

StartWalk(label) ==
  /\ heap.root # Null
  /\ pc' = label
  /\ walk' = [walk EXCEPT !.node = heap.root, !.capacity = BufferSize(node_count)]
  /\ UNCHANGED <<heap, live, node_count, reg, reply, other>>

ClearEmpty ==
  /\ pc = "clear"
  /\ heap.root = Null
  /\ UNCHANGED <<heap, live, node_count, other>>
  /\ Return("clear", "cleared")
  /\ walk' = NoWalk

ClearStart == pc = "clear" /\ StartWalk("clear_down")

\* walk.node's link on the side that is walked first, and on the other side.
Near == Link(heap, walk.node, walk.order)
Far == Link(heap, walk.node, 1 - walk.order)

ClearLeft ==
  /\ pc = "clear_down"
  /\ IF Near # Null
     THEN walk' = [Push(walk, walk.node) EXCEPT !.node = Near] /\ UNCHANGED pc
     ELSE pc' = "clear_right" /\ UNCHANGED walk
  /\ UNCHANGED <<heap, live, node_count, reg, reply, other>>

ClearRight ==
  /\ pc = "clear_right"
  /\ IF Far # Null
     THEN pc' = "clear_down" /\ walk' = [Push(walk, walk.node) EXCEPT !.node = Far]
     ELSE pc' = "clear_remove" /\ UNCHANGED walk
  /\ UNCHANGED <<heap, live, node_count, reg, reply, other>>

\* Faulty variant of LinkReset: the link to the freed left child stays, and
\* tells nothing when the right one has been freed too.
LinkResetNot(h, parent) == h

LinkReset(h, parent) == Put(h, <<parent, 0>>, Null)

\* Free the node at hand, then go up: to a node whose right subtree is gone
\* as well, or to one whose right subtree is next.
ClearUp ==
  /\ pc = "clear_remove"
  /\ walk.stack # <<>>
  /\ live' = live \ {walk.node}
  /\ walk' = Pop(walk)
  /\ LET freed == Blank(heap, walk.node)
     IN  IF Link(heap, Popped(walk), 0) = Null
         THEN heap' = freed /\ UNCHANGED pc
         ELSE heap' = LinkReset(freed, Popped(walk)) /\ pc' = "clear_right"
  /\ UNCHANGED <<node_count, reg, reply, other>>

\* Faulty variant of CountWhenClear: node_count is left as it was.
CountWhenClearKept == node_count

CountWhenClear == 0

ClearReturn ==
  /\ pc = "clear_remove"
  /\ walk.stack = <<>>
  /\ live' = live \ {walk.node}
  /\ heap' = [Blank(heap, walk.node) EXCEPT !.root = Null]
  /\ node_count' = CountWhenClear
  /\ Return("clear", "cleared")
  /\ walk' = NoWalk
  /\ UNCHANGED other

-----------------------------------------------------------------------------
(* enumerate.  The visitor is the caller's: it may ask to stop at any      *)
(* element.  It does not change the tree (the code has no defence).        *)

EnumerateCall(order) == WalkCall("enumerate", order)

EnumReturn(result, visited) ==
  /\ pc' = "idle"
  /\ reg' = NoRegs
  /\ walk' = NoWalk
  /\ reply' = [Abstract!Reply(IF walk.order = 0 THEN "ascending" ELSE "descending",
                              Null, result, node_count)
                 EXCEPT !.visited = visited]
  /\ UNCHANGED <<heap, live, node_count, other>>

EnumEmpty ==
  /\ pc = "enumerate"
  /\ heap.root = Null
  /\ EnumReturn("complete", <<>>)

EnumStart == pc = "enumerate" /\ StartWalk("enum_down")

EnumDown ==
  /\ pc = "enum_down"
  /\ IF Near # Null
     THEN walk' = [Push(walk, walk.node) EXCEPT !.node = Near] /\ UNCHANGED pc
     ELSE pc' = "enum_visit" /\ UNCHANGED walk
  /\ UNCHANGED <<heap, live, node_count, reg, reply, other>>

Visited == Append(walk.visited, walk.node)

EnumStop ==
  /\ pc = "enum_visit"
  /\ EnumReturn("stopped", Visited)

\* Faulty variant of ToFar: the node is pushed, as clear does.
ToFarPushed == [Push(walk, walk.node) EXCEPT !.node = Far]

ToFar == [walk EXCEPT !.node = Far]

EnumFar ==
  /\ pc = "enum_visit"
  /\ Far # Null
  /\ pc' = "enum_down"
  /\ walk' = [ToFar EXCEPT !.visited = Visited]
  /\ UNCHANGED <<heap, live, node_count, reg, reply, other>>

EnumUp ==
  /\ pc = "enum_visit"
  /\ Far = Null
  /\ walk.stack # <<>>
  /\ walk' = [Pop(walk) EXCEPT !.visited = Visited]
  /\ UNCHANGED <<heap, live, node_count, pc, reg, reply, other>>

EnumComplete ==
  /\ pc = "enum_visit"
  /\ Far = Null
  /\ walk.stack = <<>>
  /\ EnumReturn("complete", Visited)

-----------------------------------------------------------------------------
(* swap.  The allocators are exchanged too; std::allocator has no state.   *)

SwapCall == WalkCall("swap", 0)

\* Faulty variant of Exchanged: the roots are exchanged, the counts are not.
ExchangedRootOnly == [root |-> heap.root, node_count |-> other.node_count]

\* What goes to the other tree.
Exchanged == [root |-> heap.root, node_count |-> node_count]

SwapReturn ==
  /\ pc = "swap"
  /\ heap' = [heap EXCEPT !.root = other.root]
  /\ node_count' = other.node_count
  /\ other' = Exchanged
  /\ UNCHANGED live
  /\ Return("swap", "swapped")
  /\ walk' = NoWalk

-----------------------------------------------------------------------------

TreeCall ==
  \/ \E k \in Keys \ OtherReach : InsertCall(k) /\ UNCHANGED <<other, walk>>
  \/ \E k \in Keys : (EraseCall(k) \/ CountCall(k)) /\ UNCHANGED <<other, walk>>
  \/ ClearCall
  \/ \E order \in Dirs : EnumerateCall(order)
  \/ SwapCall

TreeStep ==
  \/ Step /\ UNCHANGED <<other, walk>>
  \/ ClearEmpty \/ ClearStart \/ ClearLeft \/ ClearRight \/ ClearUp \/ ClearReturn
  \/ EnumEmpty \/ EnumStart \/ EnumDown \/ EnumStop \/ EnumFar \/ EnumUp \/ EnumComplete
  \/ SwapReturn

TreeNext == TreeCall \/ TreeStep

TreeSpec == TreeInit /\ [][TreeNext]_treeVars /\ WF_treeVars(TreeStep)

-----------------------------------------------------------------------------
(* Properties.                                                             *)

TreeLabels == ClearLabels \cup {"enumerate", "enum_down", "enum_visit", "swap"}

\* Every variable has its type.
TreeTypeOK ==
  /\ heap \in Heaps
  /\ live \subseteq Keys
  /\ node_count \in Int
  /\ reg \in Regs
  /\ pc \notin TreeLabels => walk = NoWalk
  /\ other.root \in Ptrs /\ other.node_count \in Int
  /\ walk.node \in Ptrs
  /\ \A i \in DOMAIN walk.stack : walk.stack[i] \in Keys

\* When no call is running, what is allocated is exactly the two trees, they
\* share no node, and each count is right (clear reads it to size its buffer).
HeapPartition ==
  pc = "idle" =>
    /\ Reach \cup OtherReach = live
    /\ Reach \cap OtherReach = {}
    /\ node_count = Cardinality(Reach)
    /\ other.node_count = Cardinality(OtherReach)

\* clear frees no node twice, and follows no node it has freed.
ClearTouchesLiveNodes ==
  pc \in ClearLabels \ {"clear"} =>
    /\ walk.node \in live
    /\ \A i \in DOMAIN walk.stack : walk.stack[i] \in live

\* No push writes past the buffer that clear and enumerate reserve.
StackFits == Len(walk.stack) <= walk.capacity

\* What the visitor has seen at any time is a prefix of the elements in order.
EnumerationInOrder ==
  pc = "enum_visit" =>
    Abstract!IsWalkOf(Visited, live \ OtherReach, walk.order = 1)

\* To their callers the two trees are two sets.  While clear runs its set is
\* the one it began with: it takes effect when it returns.
TreeSet == INSTANCE OrderedSet
  WITH contents <- CASE pc \in {"rebalance", "update"} -> Reach \ {reg.key}
                     [] pc \in ClearLabels             -> walk.before
                     [] OTHER                          -> Reach,
       other <- OtherReach

TreeImplementsSets == TreeSet!Spec

\* Every call returns, provided its visitor does.
TreeReturns == (pc # "idle") ~> (pc = "idle")

=============================================================================
