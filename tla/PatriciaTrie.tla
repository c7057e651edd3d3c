----------------------------- MODULE PatriciaTrie -----------------------------
(***************************************************************************)
(* patricia_tree: each node holds a key, a bit position, and two links.    *)
(* The search for a key goes left or right by the key's bit at the node's  *)
(* position, until a link leads back up: there the key is, if anywhere.    *)
(*                                                                         *)
(* A call is a step.  A node is named by its key.  Calls on a trie with a  *)
(* dangling link have no meaning: behaviours end there.                    *)
(***************************************************************************)
EXTENDS BitStream, SequencesExt, Functions

CONSTANTS
  Key,        \* sequences of items that calls are about
  Null

ASSUME ConstantsAssumption ==
  /\ ItemBits \in Nat \ {0}
  /\ Key \subseteq Seq(Item) \ {<<>>}
  /\ Null \notin Key

VARIABLES
  root_node,
  memory,     \* the nodes that are allocated
  live        \* the keys that have been inserted and not erased

vars == <<root_node, memory, live>>

Sides == {"left", "right"}

Init == root_node = Null /\ memory = <<>> /\ live = {}

-----------------------------------------------------------------------------

position(n) == memory[n].position

Other(side) == IF side = "left" THEN "right" ELSE "left"

\* The side to which k goes by its bit at pos, and at node n of memory mem.
Toward(k, pos) == IF bit(k, pos) THEN "right" ELSE "left"

Side(mem, n, k) == Toward(k, mem[n].position)

Linked(mem, n, side, to) == [mem EXCEPT ![n].link[side] = to]

Allocated(mem, k, node) == [n \in DOMAIN mem \cup {k} |-> IF n = k THEN node ELSE mem[n]]

\* Every visitor ends the search at a link that is null or leads back up.
LeadsBack(node, next) == next = Null \/ position(next) <= position(node)

\* The last node of the search for k, and the one its link leads to.  stops are
\* the links, as pairs of nodes, at which the visitor ends it before.
look_up(k, stops) ==
  LET from[node \in DOMAIN memory] ==
        IF position(node) >= size(k)
          THEN <<node, IF node = root_node THEN Null ELSE node>>
          ELSE LET next == memory[node].link[Side(memory, node, k)]
               IN  IF LeadsBack(node, next) \/ <<node, next>> \in stops
                     THEN <<node, next>> ELSE from[next]
  IN  IF root_node = Null THEN <<Null, Null>> ELSE from[root_node]

contains(k) == look_up(k, {})[2] = k

NoDangling ==
  LET Link == DOMAIN memory \cup {Null}
  IN  root_node \in Link /\ \A n \in DOMAIN memory, s \in Sides : memory[n].link[s] \in Link

-----------------------------------------------------------------------------
(* insert.  It does nothing when the key is there.                         *)

MatchOf(k) ==
  LET pair == look_up(k, {}) IN IF pair[2] = Null THEN pair[1] ELSE pair[2]

\* Faulty variant of positionOf: the bit is counted from the position of match.
positionOfCounted(k, match) == position(match) + mismatch(k, match)

\* Faulty variant of positionOf: the new node goes below match in any case.
positionOfBelow(k, match) == position(match) + 1

\* The position of a new node, when match is what the search for k has found.
positionOf(k, match) ==
  LET new_pos == mismatch(k, match)
  IN  IF new_pos = -1 THEN Len(match)
      ELSE IF new_pos = position(match) THEN new_pos + 1 ELSE new_pos

\* A node for k whose one link leads to itself and whose other one to next.
SelfLinked(k, next, pos) ==
  [link |-> [s \in Sides |-> IF s = Toward(k, pos) THEN k ELSE next], position |-> pos]

\* A node whose links have not been set yet.
Unlinked(pos) == [link |-> [s \in Sides |-> Null], position |-> pos]

insertFirst(k) ==
  /\ root_node = Null
  /\ root_node' = k
  /\ memory' = Allocated(memory, k, SelfLinked(k, Null, 0))
  /\ live' = live \cup {k}

\* The new node takes the link of parent that k follows, and keeps what the link
\* led to, unless bit throws in between.
LinkedTo(parent, k, pos) ==
  LET side == Side(memory, parent, k)
  IN  Allocated(Linked(memory, parent, side, k), k,
                IF bitThrows(k, pos) THEN Unlinked(pos)
                ELSE SelfLinked(k, memory[parent].link[side], pos))

insertBelow(k) ==
  LET match == MatchOf(k)
      pos == positionOf(k, match)
      parent == look_up(k, {n \in DOMAIN memory : position(n) <= pos}
                             \X {n \in DOMAIN memory : pos < position(n)})[1]
  IN  /\ root_node # Null
      /\ NoDangling
      /\ match # k
      /\ k \notin DOMAIN memory
      /\ memory' = IF \/ mismatch(k, match) = -1 /\ Len(k) < Len(match)
                      \/ bitThrows(k, position(parent))
                     THEN Allocated(memory, k, Unlinked(0))
                     ELSE LinkedTo(parent, k, pos)
      /\ live' = live \cup {k}
      /\ UNCHANGED root_node

-----------------------------------------------------------------------------
(* erase.  It does nothing when the key is not there, or when bit throws.  *)

\* A node that the search for its key meets before it finds it at a leaf.
IsInner(k) == k \in DOMAIN memory /\ memory[k].link[Side(memory, k, k)] # k

\* The leaf of an inner node k takes its place, and k is its one child.
WithLeafAbove(k, leaf) ==
  LET grand == look_up(k, (DOMAIN memory) \X {k})[1]
      lifted == Linked(memory, grand, Side(memory, grand, k), leaf)
      next == lifted[leaf].link[IF lifted[leaf].link["right"] = k THEN "left" ELSE "right"]
  IN  [lifted EXCEPT
         ![leaf].position = position(k),
         ![leaf].link = [s \in Sides |-> IF s = Side(memory, k, k) THEN k ELSE lifted[k].link[s]],
         ![k] = SelfLinked(k, next, position(leaf))]

\* Faulty variant of keptLink: the link of the node to itself.
keptLinkSame(mem, node) == mem[node].link[Side(mem, node, node)]

\* What a leaf leaves to its parent.
keptLink(mem, node) == mem[node].link[Other(Side(mem, node, node))]

remove_leaf(mem, parent, node) ==
  Restrict(Linked(mem, parent, Side(mem, parent, node), keptLink(mem, node)),
           DOMAIN mem \ {node})

erase(k) ==
  LET pair == look_up(k, {})
      parent_node == pair[1]
  IN  /\ NoDangling
      /\ pair[2] = k
      /\ ~bitThrows(k, position(k))
      /\ memory' = remove_leaf(IF IsInner(k) THEN WithLeafAbove(k, parent_node) ELSE memory,
                               parent_node, k)
      /\ live' = live \ {k}
      /\ UNCHANGED root_node

-----------------------------------------------------------------------------
(* clear.                                                                  *)

\* The subtree of n in the order in which recursive_traverse visits it.
recursive_traverse ==
  LET from[n \in DOMAIN memory] ==
        LET below(m) == IF m # Null /\ position(m) > position(n) THEN from[m] ELSE <<>>
        IN  below(memory[n].link["left"]) \o below(memory[n].link["right"]) \o <<n>>
  IN  IF root_node = Null THEN <<>> ELSE from[root_node]

clear ==
  /\ NoDangling
  /\ root_node # Null
  /\ memory' = Restrict(memory, DOMAIN memory \ ToSet(recursive_traverse))
  /\ live' = {}
  /\ UNCHANGED root_node

-----------------------------------------------------------------------------

insert(k) == insertFirst(k) \/ insertBelow(k)

\* The leaf of an inner node is the node right below it.
IsAboveLeaf(k) ==
  LET leaf == memory[k].link[Side(memory, k, k)]
  IN  leaf # Null /\ memory[leaf].link[Side(memory, leaf, k)] = k

\* Callers that insert, and erase keys of inner nodes that are right above their
\* leaf.
NextAboveLeaf ==
  \E k \in Key : insert(k) \/ (k # root_node /\ IsInner(k) /\ IsAboveLeaf(k) /\ erase(k))

SpecAboveLeaf == Init /\ [][NextAboveLeaf]_vars

\* Callers that insert, and erase keys of inner nodes only.
NextInner == \E k \in Key : insert(k) \/ (k # root_node /\ IsInner(k) /\ erase(k))

SpecInner == Init /\ [][NextInner]_vars

\* Callers that insert, and erase any key but the first one.
NextErase == \E k \in Key : insert(k) \/ (k # root_node /\ erase(k))

SpecErase == Init /\ [][NextErase]_vars

\* Callers that insert, and clear.
NextClear == clear \/ \E k \in Key : insert(k)

SpecClear == Init /\ [][NextClear]_vars

\* The keys for which the code works when they are inserted and erased like this.
DifferFirst == \A j, k \in Key : j # k => j[1] # k[1]

-----------------------------------------------------------------------------
(* Properties.                                                             *)

\* Links lead to keys, and positions are at most at the end of a key.
TypeOK ==
  LET Link == Key \cup {Null}
  IN  /\ root_node \in Link
      /\ DOMAIN memory \subseteq Key
      /\ \A k \in DOMAIN memory :
           /\ \A s \in Sides : memory[k].link[s] \in Link
           /\ position(k) \in 0 .. size(k)
      /\ live \subseteq Key

\* contains finds the keys that have been inserted and not erased, and no others,
\* also after an insert that has thrown.
FindsExactly == NoDangling /\ \A k \in Key : contains(k) <=> k \in live

\* recursive_traverse visits every allocated node, and visits it once: clear
\* frees all nodes, and none of them twice.
TraversesAll ==
  /\ NoDangling
  /\ ToSet(recursive_traverse) = DOMAIN memory
  /\ IsInjective(recursive_traverse)

=============================================================================
