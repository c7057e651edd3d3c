--------------------------- MODULE AvlTreeProofs ---------------------------
(***************************************************************************)
(* Theorems about AvlTree, for every finite set of integer keys.  First    *)
(* the links: their types, the order of the keys below them, the heights   *)
(* that the balance fields describe, and what rotations and unlinking make *)
(* of them.  Then the invariant, stage by stage: what the slots and nodes  *)
(* that a running call holds have to do with its key and with the heights. *)
(* Last what it says of the pointers, what walks of the tree find, and     *)
(* that it is a set.                                                       *)
(***************************************************************************)
EXTENDS AvlTree, Induction, SequenceTheorems, TLAPS

-----------------------------------------------------------------------------
(* What the operators on the heap return.                                  *)

LEMMA NullIsNoKey == Null \notin Keys
  BY ConstantsAssumption

LEMMA SlotParts ==
  ASSUME NEW s \in Slots
  PROVE  s[1] \in Ptrs /\ s[2] \in Dirs
  BY DEF Slots

LEMMA LinkType ==
  ASSUME NEW h \in Heaps, NEW n \in Ptrs, NEW d \in Dirs
  PROVE  Link(h, n, d) \in Ptrs
  BY DEF Link, Heaps, Ptrs

LEMMA GetType ==
  ASSUME NEW h \in Heaps, NEW s \in Slots
  PROVE  Get(h, s) \in Ptrs
  BY SlotParts DEF Get, Heaps, Ptrs

LEMMA BalanceType ==
  ASSUME NEW h \in Heaps, NEW n \in Ptrs
  PROVE  Balance(h, n) \in {-1, 0, 1}
  BY DEF Balance, Heaps, Ptrs

LEMMA DirectionType == \A k, n : Direction(k, n) \in Dirs
  BY DEF Direction, Dirs

LEMMA PutType ==
  ASSUME NEW h \in Heaps, NEW s \in Slots, NEW n \in Ptrs
  PROVE  Put(h, s, n) \in Heaps
<1>1. CASE s[1] = Null
  BY <1>1 DEF Put, Heaps
<1>2. CASE s[1] # Null
  <2>1. s[1] \in Keys /\ s[2] \in Dirs
    BY <1>2, SlotParts DEF Ptrs
  <2>2. [h.links EXCEPT ![s[1]][s[2]] = n] \in [Keys -> [Dirs -> Ptrs]]
    BY <2>1 DEF Heaps
  <2>3. Put(h, s, n) = [h EXCEPT !.links = [h.links EXCEPT ![s[1]][s[2]] = n]]
    BY <1>2 DEF Put
  <2> QED
    BY <2>2, <2>3 DEF Heaps
<1> QED
  BY <1>1, <1>2

LEMMA SetBalanceType ==
  ASSUME NEW h \in Heaps, NEW n, NEW b \in {-1, 0, 1}
  PROVE  SetBalance(h, n, b) \in Heaps
<1>1. [h.balance EXCEPT ![n] = b] \in [Keys -> {-1, 0, 1}]
  BY DEF Heaps
<1> QED
  BY <1>1 DEF SetBalance, Heaps

LEMMA BlankType ==
  ASSUME NEW h \in Heaps, NEW n
  PROVE  Blank(h, n) \in Heaps
<1>1. [h.links EXCEPT ![n] = [d \in Dirs |-> Null]] \in [Keys -> [Dirs -> Ptrs]]
  BY DEF Heaps, Ptrs
<1>2. [h.balance EXCEPT ![n] = -1] \in [Keys -> {-1, 0, 1}]
  BY DEF Heaps
<1> QED
  BY <1>1, <1>2 DEF Blank, Heaps

\* A slot of a node, or of what reads as one.
LEMMA SlotOf ==
  ASSUME NEW n \in Ptrs, NEW d \in Dirs
  PROVE  <<n, d>> \in Slots
  BY DEF Slots

LEMMA Rotate2Type ==
  ASSUME NEW h \in Heaps, NEW top \in Slots, NEW dir \in Dirs
  PROVE  Rotate2(h, top, dir) \in Heaps
<1> DEFINE B == Get(h, top)
           D == Link(h, B, dir)
           C == Link(h, D, 1 - dir)
<1>1. 1 - dir \in Dirs
  BY DEF Dirs
<1>2. B \in Ptrs /\ D \in Ptrs /\ C \in Ptrs
  BY <1>1, GetType, LinkType
<1>3. Put(h, top, D) \in Heaps
  BY <1>2, PutType
<1>4. Put(Put(h, top, D), <<D, 1 - dir>>, B) \in Heaps
  BY <1>1, <1>2, <1>3, SlotOf, PutType
<1>5. Put(Put(Put(h, top, D), <<D, 1 - dir>>, B), <<B, dir>>, C) \in Heaps
  BY <1>2, <1>4, SlotOf, PutType
<1> QED
  BY <1>5 DEF Rotate2

LEMMA Rotate3Type ==
  ASSUME NEW h \in Heaps, NEW top \in Slots, NEW dir \in Dirs
  PROVE  Rotate3(h, top, dir) \in Heaps
<1> DEFINE B == Get(h, top)
           F == Link(h, B, dir)
           D == Link(h, F, 1 - dir)
           C == Link(h, D, Inward(dir))
           E == Link(h, D, 1 - Inward(dir))
           h1 == Put(h, top, D)
           h2 == Put(h1, <<D, 1 - dir>>, B)
           h3 == Put(h2, <<D, dir>>, F)
           h4 == Put(h3, <<B, dir>>, C)
           h5 == Put(h4, <<F, 1 - dir>>, E)
<1>1. 1 - dir \in Dirs
  BY DEF Dirs
<1>2. B \in Ptrs /\ F \in Ptrs
  BY <1>1, GetType, LinkType
<1>3. D \in Ptrs
  BY <1>1, <1>2, LinkType
<1>4. C \in Ptrs /\ E \in Ptrs
  <2>1. Inward(dir) \in Dirs /\ 1 - Inward(dir) \in Dirs
    BY DEF Inward, Dirs
  <2> QED
    BY <1>3, <2>1, LinkType
<1>5. h1 \in Heaps
  BY <1>3, PutType
<1> HIDE DEF h1
<1>6. h2 \in Heaps
  BY <1>1, <1>2, <1>3, <1>5, SlotOf, PutType
<1> HIDE DEF h2
<1>7. h3 \in Heaps
  BY <1>2, <1>3, <1>6, SlotOf, PutType
<1> HIDE DEF h3
<1>8. h4 \in Heaps
  BY <1>2, <1>4, <1>7, SlotOf, PutType
<1> HIDE DEF h4
<1>9. h5 \in Heaps
  BY <1>1, <1>2, <1>4, <1>8, SlotOf, PutType
<1> QED
  BY <1>9 DEF Rotate3, h1, h2, h3, h4

LEMMA AvlRotate2Type ==
  ASSUME NEW h \in Heaps, NEW top \in Slots, NEW dir \in Dirs
  PROVE  AvlRotate2(h, top, dir) \in Heaps
<1>1. SetBalance(h, Get(h, top), -1) \in Heaps
  BY SetBalanceType
<1>2. Rotate2(SetBalance(h, Get(h, top), -1), top, dir) \in Heaps
  BY <1>1, Rotate2Type
<1> QED
  BY <1>2, SetBalanceType DEF AvlRotate2

LEMMA AvlRotate3Type ==
  ASSUME NEW h \in Heaps, NEW top \in Slots, NEW dir \in Dirs, NEW third
  PROVE  AvlRotate3(h, top, dir, third) \in Heaps
<1> DEFINE B == Get(h, top)
           F == Link(h, B, dir)
           D == Link(h, F, 1 - dir)
           level == SetBalance(SetBalance(SetBalance(h, B, -1), F, -1), D, -1)
           turned == Rotate3(level, top, dir)
<1>1. level \in Heaps
  BY SetBalanceType
<1>2. turned \in Heaps
  BY <1>1, Rotate3Type
<1>3. dir \in {-1, 0, 1} /\ 1 - dir \in {-1, 0, 1}
  BY DEF Dirs
<1>4. SetBalance(turned, B, 1 - dir) \in Heaps /\ SetBalance(turned, F, dir) \in Heaps
  BY <1>2, <1>3, SetBalanceType
<1>5. AvlRotate3(h, top, dir, third) =
        CASE third = -1  -> turned
          [] third = dir -> SetBalance(turned, B, 1 - dir)
          [] OTHER       -> SetBalance(turned, F, dir)
  BY DEF AvlRotate3
<1> HIDE DEF turned, B, F
<1> QED
  BY <1>2, <1>4, <1>5

-----------------------------------------------------------------------------
(* The registers.                                                          *)

LEMMA NoRegsType == NoRegs \in Regs
  BY DEF NoRegs, Regs, Ptrs, Slots, Dirs, NoSlot

\* What the steps of a running call read through their slots.
LEMMA HereType ==
  ASSUME TypeOK
  PROVE  /\ Here \in Ptrs
         /\ Side \in Dirs /\ 1 - Side \in Dirs
         /\ <<Here, Side>> \in Slots
         /\ Target \in Slots
         /\ reg.nodep \in Slots /\ reg.path_top \in Slots /\ reg.targetp \in Slots
         /\ reg.path \in Ptrs
<1>1. reg.nodep \in Slots /\ reg.path_top \in Slots /\ reg.targetp \in Slots /\ reg.path \in Ptrs
  BY DEF TypeOK, Regs
<1>2. Here \in Ptrs
  BY <1>1, GetType DEF TypeOK, Here
<1>3. Side \in Dirs /\ 1 - Side \in Dirs
  BY DirectionType DEF Side, Dirs
<1>4. Target \in Slots
  BY <1>1 DEF Target
<1> QED
  BY <1>1, <1>2, <1>3, <1>4, SlotOf

-----------------------------------------------------------------------------
(* Type correctness: one lemma for each call's steps.                      *)

LEMMA TypeInit == Init => TypeOK
  BY NoRegsType DEF Init, TypeOK, Heaps, Ptrs, NoRegs

LEMMA CallType ==
  ASSUME TypeOK, NEW k \in Keys, NEW label \in {"find_slot", "find_target", "lookup"},
         Call(label, k)
  PROVE  TypeOK'
<1>1. reg' \in Regs /\ reg'.key = k
  BY NoRegsType DEF Call, Regs, NoRegs, Ptrs, Slots, Dirs, RootSlot, NoSlot
<1>2. pc' = label /\ UNCHANGED <<heap, live, node_count>>
  BY DEF Call
<1> QED
  BY <1>1, <1>2 DEF TypeOK

\* A step that returns keeps the types if what it does to the heap does.
LEMMA ReturnType ==
  ASSUME TypeOK, NEW op, NEW result, Return(op, result),
         heap' \in Heaps, live' \subseteq Keys, node_count' \in Int
  PROVE  TypeOK'
  BY NoRegsType DEF Return, TypeOK

LEMMA InsertType ==
  ASSUME TypeOK, InsertStep
  PROVE  TypeOK'
<1> USE HereType
<1>1. CASE InsertDescend
  <2>1. reg' \in Regs /\ reg'.key = reg.key
    BY <1>1 DEF InsertDescend, TypeOK, Regs
  <2> QED
    BY <1>1, <2>1 DEF InsertDescend, TypeOK
<1>2. CASE InsertPresent
  BY <1>2, ReturnType DEF InsertPresent, TypeOK
<1>3. CASE InsertLink
  <2>1. pc = "find_slot" /\ reg.key \in Keys
    BY <1>3 DEF InsertLink, TypeOK
  <2>2. Blank(heap, reg.key) \in Heaps
    BY BlankType DEF TypeOK
  <2>3. heap' \in Heaps
    BY <1>3, <2>1, <2>2, PutType DEF InsertLink, Ptrs
  <2> QED
    BY <1>3, <2>1, <2>3 DEF InsertLink, TypeOK
<1>4. CASE InsertThrows
  BY <1>4, ReturnType DEF InsertThrows, TypeOK
<1>5. ASSUME NEW p \in Ptrs, ToUpdate(p), heap' \in Heaps, reg.key \in Keys
      PROVE  TypeOK'
  <2>1. reg' \in Regs /\ reg'.key = reg.key
    BY <1>5 DEF ToUpdate, TypeOK, Regs, NoSlot, Slots, Ptrs, Dirs
  <2> QED
    BY <1>5, <2>1 DEF ToUpdate, TypeOK
<1>6. ASSUME pc = "rebalance"
      PROVE  /\ reg.key \in Keys /\ heap \in Heaps
             /\ Top \in Ptrs
             /\ First \in Dirs /\ Second \in Dirs
             /\ Link(heap, Top, First) \in Ptrs
  <2>1. reg.key \in Keys /\ heap \in Heaps
    BY <1>6 DEF TypeOK
  <2>2. Top \in Ptrs
    BY <2>1, GetType DEF Top
  <2>3. First \in Dirs /\ Second \in Dirs
    BY DirectionType DEF First, Second
  <2> QED
    BY <2>1, <2>2, <2>3, LinkType
<1>7. CASE InsertBelowBalanced
  BY <1>5, <1>6, <1>7 DEF InsertBelowBalanced
<1>8. CASE InsertShorterPath
  BY <1>5, <1>6, <1>8, SetBalanceType DEF InsertShorterPath
<1>9. CASE InsertRotate2
  <2>1. heap' \in Heaps
    BY <1>6, <1>9, AvlRotate2Type DEF InsertRotate2
  <2>2. Link(heap, Link(heap, Top, First), First) \in Ptrs
    BY <1>6, <1>9, LinkType DEF InsertRotate2
  <2> QED
    BY <1>5, <1>6, <1>9, <2>1, <2>2 DEF InsertRotate2
<1>10. CASE InsertRotate3
  <2> DEFINE D == Link(heap, Link(heap, Top, First), Second)
             third == IF reg.key = D THEN -1 ELSE Direction(reg.key, D)
             next == IF third = -1 THEN Null ELSE Link(heap, D, third)
  <2>1. D \in Ptrs
    BY <1>6, <1>10, LinkType DEF InsertRotate3
  <2>2. heap' \in Heaps
    BY <1>6, <1>10, AvlRotate3Type DEF InsertRotate3
  <2>3. third = -1 \/ third \in Dirs
    BY DirectionType
  <2>4. next \in Ptrs
    BY <1>6, <1>10, <2>1, <2>3, LinkType DEF InsertRotate3, Ptrs
  <2>5. ToUpdate(next)
    BY <1>10 DEF InsertRotate3
  <2> HIDE DEF next
  <2> QED
    BY <1>5, <1>6, <1>10, <2>2, <2>4, <2>5 DEF InsertRotate3
<1>11. CASE InsertUpdate
  <2> DEFINE d == Direction(reg.key, reg.path)
  <2>1. d \in Dirs /\ d \in {-1, 0, 1}
    BY DirectionType DEF Dirs
  <2>2. heap' = SetBalance(heap, reg.path, d) /\ reg' = [reg EXCEPT !.path = Link(heap, @, d)]
    BY <1>11 DEF InsertUpdate, Onward
  <2> HIDE DEF d
  <2>3. heap' \in Heaps /\ Link(heap, reg.path, d) \in Ptrs
    BY <2>1, <2>2, SetBalanceType, LinkType DEF TypeOK
  <2>4. reg' \in Regs /\ reg'.key = reg.key
    BY <2>2, <2>3 DEF TypeOK, Regs
  <2> QED
    BY <1>11, <2>3, <2>4 DEF InsertUpdate, TypeOK
<1>12. CASE InsertReturn
  BY <1>12, ReturnType DEF InsertReturn, TypeOK
<1> QED
  BY <1>1, <1>2, <1>3, <1>4, <1>7, <1>8, <1>9, <1>10, <1>11, <1>12 DEF InsertStep

LEMMA LoweredType ==
  ASSUME TypeOK
  PROVE  Lowered \in Heaps
<1> DEFINE far == 1 - Side
           turned == AvlRotate2(heap, reg.nodep, far)
           bent == AvlRotate3(heap, reg.nodep, far, Balance(heap, Link(heap, Sibling, Side)))
<1>1. heap \in Heaps /\ reg.nodep \in Slots /\ Side \in Dirs /\ far \in Dirs
  BY HereType DEF TypeOK
<1>2. far \in {-1, 0, 1} /\ Side \in {-1, 0, 1}
  BY <1>1 DEF Dirs
<1>3. turned \in Heaps
  BY <1>1, AvlRotate2Type
<1>4. bent \in Heaps
  BY <1>1, AvlRotate3Type
<1>5. SetBalance(heap, Here, far) \in Heaps /\ SetBalance(heap, Here, -1) \in Heaps
  BY <1>1, <1>2, SetBalanceType
<1>6. RaisedEven(turned) \in Heaps
  BY <1>2, <1>3, SetBalanceType DEF RaisedEven
<1>7. Lowered = IF IsBalanced(heap, Here) THEN SetBalance(heap, Here, far)
                ELSE IF Balance(heap, Here) = Side THEN SetBalance(heap, Here, -1)
                ELSE CASE Balance(heap, Sibling) = Side -> bent
                       [] Balance(heap, Sibling) = -1   -> RaisedEven(turned)
                       [] OTHER                         -> turned
  BY DEF Lowered
<1> HIDE DEF far, turned, bent
<1> QED
  BY <1>3, <1>4, <1>5, <1>6, <1>7

LEMMA EraseType ==
  ASSUME TypeOK, EraseStep
  PROVE  TypeOK'
<1> USE HereType
<1>1. CASE EraseDescend
  <2>1. reg' \in Regs /\ reg'.key = reg.key
    BY <1>1 DEF EraseDescend, TypeOK, Regs
  <2> QED
    BY <1>1, <2>1 DEF EraseDescend, TypeOK
<1>2. CASE EraseAbsent
  BY <1>2, ReturnType DEF EraseAbsent, TypeOK
<1>3. CASE EraseLocated
  <2>1. reg' \in Regs /\ reg'.key = reg.key
    BY <1>3 DEF EraseLocated, TypeOK, Regs
  <2> QED
    BY <1>3, <2>1 DEF EraseLocated, TypeOK
<1>4. CASE EraseLower
  <2>1. heap' \in Heaps
    BY <1>4, LoweredType DEF EraseLower
  <2>2. MovedTarget \in Slots
    BY LoweredType, GetType, SlotOf DEF MovedTarget
  <2>3. reg' \in Regs /\ reg'.key = reg.key
    BY <1>4, <2>2 DEF EraseLower, TypeOK, Regs
  <2> QED
    BY <1>4, <2>1, <2>3 DEF EraseLower, TypeOK
<1>5. CASE EraseUnlink
  <2> DEFINE last == Here
             gone == Get(heap, reg.targetp)
             h1 == Put(heap, reg.targetp, last)
             h2 == Put(h1, reg.nodep, Link(h1, last, 1 - reg.dir))
             links3 == [h2.links EXCEPT ![last] = [d \in Dirs |-> Link(h2, gone, d)]]
             balance3 == [h2.balance EXCEPT ![last] = Balance(h2, gone)]
             h3 == [h2 EXCEPT !.links[last] = [d \in Dirs |-> Link(h2, gone, d)],
                              !.balance[last] = Balance(h2, gone)]
  <2>1. gone \in Ptrs /\ 1 - reg.dir \in Dirs
    BY GetType DEF TypeOK, Regs, Dirs
  <2>2. h1 \in Heaps
    BY PutType DEF TypeOK
  <2> HIDE DEF h1
  <2>3. Link(h1, last, 1 - reg.dir) \in Ptrs
    BY <2>1, <2>2, LinkType
  <2>4. h2 \in Heaps
    BY <2>2, <2>3, PutType
  <2> HIDE DEF h2
  <2>5. [d \in Dirs |-> Link(h2, gone, d)] \in [Dirs -> Ptrs]
    BY <2>1, <2>4, LinkType
  <2>6. Balance(h2, gone) \in {-1, 0, 1}
    BY <2>1, <2>4, BalanceType
  <2>7. h3 = [h2 EXCEPT !.links = links3, !.balance = balance3]
    OBVIOUS
  <2>8. links3 \in [Keys -> [Dirs -> Ptrs]] /\ balance3 \in [Keys -> {-1, 0, 1}]
    BY <2>4, <2>5, <2>6 DEF Heaps
  <2>9. h3 \in Heaps
    BY <2>4, <2>7, <2>8 DEF Heaps
  <2>10. heap' = Blank(h3, gone) /\ live' = live \ {gone} /\ node_count' = node_count - 1
    BY <1>5 DEF EraseUnlink, OnlyChild, h2, h1
  <2> HIDE DEF h3
  <2>11. heap' \in Heaps
    BY <2>9, <2>10, BlankType
  <2>12. live' \subseteq Keys /\ node_count' \in Int
    BY <2>10 DEF TypeOK
  <2> QED
    BY <1>5, <2>11, <2>12, ReturnType DEF EraseUnlink
<1> QED
  BY <1>1, <1>2, <1>3, <1>4, <1>5 DEF EraseStep

LEMMA CountType ==
  ASSUME TypeOK, CountStep
  PROVE  TypeOK'
<1> USE HereType
<1>1. CASE CountDescend
  <2>1. reg' \in Regs /\ reg'.key = reg.key
    BY <1>1 DEF CountDescend, TypeOK, Regs
  <2> QED
    BY <1>1, <2>1 DEF CountDescend, TypeOK
<1>2. CASE CountReturn
  BY <1>2, ReturnType DEF CountReturn, TypeOK
<1> QED
  BY <1>1, <1>2 DEF CountStep

LEMMA TypeNext == TypeOK /\ [Next]_vars => TypeOK'
<1> SUFFICES ASSUME TypeOK, [Next]_vars PROVE TypeOK'
  OBVIOUS
<1>1. CASE \E k \in Keys : InsertCall(k) \/ EraseCall(k) \/ CountCall(k)
  BY <1>1, CallType DEF InsertCall, EraseCall, CountCall
<1>2. CASE Step
  BY <1>2, InsertType, EraseType, CountType DEF Step
<1>3. CASE UNCHANGED vars
  BY <1>3 DEF vars, TypeOK
<1> QED
  BY <1>1, <1>2, <1>3 DEF Next

-----------------------------------------------------------------------------
(***************************************************************************)
(* What the links of a search tree say, without walking it.  Every node n  *)
(* of the tree has an open interval lo[n], hi[n] of keys that belong below *)
(* it; the slot at its left has lo[n], n and the slot at its right has     *)
(* n, hi[n].  Rotations and unlinking change the intervals of two or three *)
(* nodes; that the intervals stay nested is what keeps the search order.   *)
(***************************************************************************)

(* The intervals.                                                          *)

Bottom == CHOOSE b \in Int : \A x \in Keys : b < x
Ceil == CHOOSE c \in Int : \A x \in Keys : x < c

\* The slots of a tree whose nodes are L.
TreeSlots(L) == {RootSlot} \cup (L \X Dirs)

Lo(lo, s) == IF s = RootSlot THEN Bottom ELSE IF s[2] = 0 THEN lo[s[1]] ELSE s[1]
Hi(hi, s) == IF s = RootSlot THEN Ceil ELSE IF s[2] = 0 THEN s[1] ELSE hi[s[1]]

Inside(lo, hi, s, x) == Lo(lo, s) < x /\ x < Hi(hi, s)

\* An interval ends at nodes, or is open to that side, and has its node inside.
Ended(L, lo, hi) ==
  \A n \in L : /\ lo[n] \in L \cup {Bottom} /\ hi[n] \in L \cup {Ceil}
               /\ lo[n] < n /\ n < hi[n]

\* A slot holds a node that has its interval, or there is no node for it.
Placed(h, L, lo, hi) ==
  \A s \in TreeSlots(L) :
    /\ Get(h, s) = Null => \A x \in L : ~ Inside(lo, hi, s, x)
    /\ Get(h, s) # Null => /\ Get(h, s) \in L
                           /\ lo[Get(h, s)] = Lo(lo, s)
                           /\ hi[Get(h, s)] = Hi(hi, s)

\* A node in the interval of another one has all of its own on one side of it.
Nested(L, lo, hi) ==
  \A a, b \in L :
    /\ lo[a] < b /\ b < a => lo[b] >= lo[a] /\ hi[b] <= a
    /\ a < b /\ b < hi[a] => lo[b] >= a /\ hi[b] <= hi[a]

\* The nodes at the ends of a node's interval are above it.
Bounded(L, lo, hi) ==
  \A a \in L : /\ lo[a] \in L => a < hi[lo[a]]
               /\ hi[a] \in L => lo[hi[a]] < a

Bounds(L) == [L -> Int]

Shape(h, L, lo, hi) ==
  /\ lo \in Bounds(L) /\ hi \in Bounds(L)
  /\ Ended(L, lo, hi)
  /\ Placed(h, L, lo, hi)
  /\ Nested(L, lo, hi)
  /\ Bounded(L, lo, hi)

LEMMA Sentinels ==
  /\ Bottom \in Int /\ \A x \in Keys : Bottom < x
  /\ Ceil \in Int /\ \A x \in Keys : x < Ceil
<1>1. PICK b \in Int : \A x \in Keys : -b < x /\ x < b
  BY FiniteBounds, ConstantsAssumption
<1>2. -b \in Int
  OBVIOUS
<1>3. \E c \in Int : \A x \in Keys : c < x
  BY <1>1, <1>2, Zenon
<1>4. \E c \in Int : \A x \in Keys : x < c
  BY <1>1, Zenon
<1>5. Bottom \in Int /\ \A x \in Keys : Bottom < x
  BY <1>3, Zenon DEF Bottom
<1>6. Ceil \in Int /\ \A x \in Keys : x < Ceil
  BY <1>4, Zenon DEF Ceil
<1> QED
  BY <1>5, <1>6

LEMMA KeysAreNumbers == Keys \subseteq Int /\ Null \notin Keys
  BY ConstantsAssumption

LEMMA SlotCases ==
  ASSUME NEW L, L \subseteq Keys, NEW s \in TreeSlots(L)
  PROVE  /\ s \in Slots
         /\ s = RootSlot \/ (s[1] \in L /\ s[2] \in Dirs /\ s = <<s[1], s[2]>> /\ s # RootSlot)
<1>1. CASE s = RootSlot
  BY <1>1 DEF RootSlot, Slots, Ptrs, Dirs
<1>2. CASE s # RootSlot
  <2>1. s \in L \X Dirs
    BY <1>2 DEF TreeSlots
  <2>2. s[1] \in L /\ s[2] \in Dirs /\ s = <<s[1], s[2]>>
    BY <2>1
  <2>3. s[1] \in Ptrs
    BY <2>2 DEF Ptrs
  <2> QED
    BY <1>2, <2>2, <2>3, SlotOf
<1> QED
  BY <1>1, <1>2

-----------------------------------------------------------------------------
(* Reading what was written.                                               *)

LEMMA LinkGet ==
  ASSUME NEW h \in Heaps, NEW n \in Keys, NEW d \in Dirs
  PROVE  Link(h, n, d) = Get(h, <<n, d>>)
  BY KeysAreNumbers DEF Link, Get

LEMMA PutGet ==
  ASSUME NEW h \in Heaps, NEW s \in TreeSlots(Keys), NEW n \in Ptrs
  PROVE  /\ Put(h, s, n).balance = h.balance
         /\ \A t \in TreeSlots(Keys) :
              Get(Put(h, s, n), t) = IF t = s THEN n ELSE Get(h, t)
<1>1. CASE s = RootSlot
  BY <1>1, KeysAreNumbers DEF Put, Get, RootSlot, TreeSlots, Heaps
<1>2. CASE s # RootSlot
  <2>1. s[1] \in Keys /\ s[2] \in Dirs /\ s = <<s[1], s[2]>> /\ s[1] # Null
    BY <1>2, SlotCases, KeysAreNumbers
  <2> DEFINE links == [h.links EXCEPT ![s[1]][s[2]] = n]
  <2>2. Put(h, s, n) = [h EXCEPT !.links = links]
    BY <2>1 DEF Put
  <2>3. Put(h, s, n).balance = h.balance /\ Put(h, s, n).root = h.root /\ Put(h, s, n).links = links
    BY <2>2 DEF Heaps
  <2>4. \A m \in Keys, d \in Dirs :
          links[m][d] = IF m = s[1] /\ d = s[2] THEN n ELSE h.links[m][d]
    BY <2>1 DEF Heaps
  <2> HIDE DEF links
  <2> SUFFICES ASSUME NEW t \in TreeSlots(Keys)
               PROVE  Get(Put(h, s, n), t) = IF t = s THEN n ELSE Get(h, t)
    BY <2>3
  <2>5. CASE t = RootSlot
    BY <2>3, <2>5, <1>2 DEF Get, RootSlot
  <2>6. CASE t # RootSlot
    <3>1. t[1] \in Keys /\ t[2] \in Dirs /\ t = <<t[1], t[2]>> /\ t[1] # Null
      BY <2>6, SlotCases, KeysAreNumbers
    <3>2. t = s <=> t[1] = s[1] /\ t[2] = s[2]
      BY <3>1, <2>1
    <3> QED
      BY <3>1, <3>2, <2>3, <2>4 DEF Get
  <2> QED
    BY <2>5, <2>6
<1> QED
  BY <1>1, <1>2

LEMMA SetBalanceGet ==
  ASSUME NEW h \in Heaps, NEW n \in Keys, NEW b
  PROVE  /\ SetBalance(h, n, b).balance = [h.balance EXCEPT ![n] = b]
         /\ \A t : Get(SetBalance(h, n, b), t) = Get(h, t)
  BY DEF SetBalance, Get, Heaps

LEMMA BlankGet ==
  ASSUME NEW h \in Heaps, NEW n \in Keys
  PROVE  /\ Blank(h, n).balance = [h.balance EXCEPT ![n] = -1]
         /\ \A t \in TreeSlots(Keys) :
              Get(Blank(h, n), t) = IF t[1] = n THEN Null ELSE Get(h, t)
<1> DEFINE links == [h.links EXCEPT ![n] = [d \in Dirs |-> Null]]
           balance == [h.balance EXCEPT ![n] = -1]
<1>1. Blank(h, n) = [h EXCEPT !.links = links, !.balance = balance]
  BY DEF Blank
<1>2. /\ Blank(h, n).balance = balance /\ Blank(h, n).root = h.root
      /\ Blank(h, n).links = links
  BY <1>1 DEF Heaps
<1>3. \A m \in Keys, d \in Dirs : links[m][d] = IF m = n THEN Null ELSE h.links[m][d]
  BY DEF Heaps
<1> HIDE DEF links
<1> SUFFICES ASSUME NEW t \in TreeSlots(Keys)
             PROVE  Get(Blank(h, n), t) = IF t[1] = n THEN Null ELSE Get(h, t)
  BY <1>2
<1>4. CASE t = RootSlot
  BY <1>2, <1>4, KeysAreNumbers DEF Get, RootSlot
<1>5. CASE t # RootSlot
  <2>1. t[1] \in Keys /\ t[2] \in Dirs /\ t = <<t[1], t[2]>> /\ t[1] # Null
    BY <1>5, SlotCases, KeysAreNumbers
  <2> QED
    BY <2>1, <1>2, <1>3 DEF Get
<1> QED
  BY <1>4, <1>5

-----------------------------------------------------------------------------
(* What a shape says of its slots.                                         *)

LEMMA SlotEnds ==
  ASSUME NEW lo, NEW hi
  PROVE  /\ Lo(lo, RootSlot) = Bottom /\ Hi(hi, RootSlot) = Ceil
         /\ \A n \in Keys : Lo(lo, <<n, 0>>) = lo[n]
         /\ \A n \in Keys : Hi(hi, <<n, 0>>) = n
         /\ \A n \in Keys : Lo(lo, <<n, 1>>) = n
         /\ \A n \in Keys : Hi(hi, <<n, 1>>) = hi[n]
<1>1. \A n \in Keys, d \in Dirs : <<n, d>> # RootSlot
  BY KeysAreNumbers DEF RootSlot
<1> QED
  BY <1>1 DEF Lo, Hi, Dirs

LEMMA SlotKinds ==
  ASSUME NEW L, L \subseteq Keys, NEW s \in TreeSlots(L)
  PROVE  s = RootSlot \/ \E n \in L : s = <<n, 0>> \/ s = <<n, 1>>
  BY SlotCases DEF Dirs

\* Two slots with the same interval are the same slot.
LEMMA OneSlot ==
  ASSUME NEW L, L \subseteq Keys, NEW lo \in Bounds(L), NEW hi \in Bounds(L),
         Ended(L, lo, hi), Bounded(L, lo, hi),
         NEW s \in TreeSlots(L), NEW t \in TreeSlots(L),
         Lo(lo, s) = Lo(lo, t), Hi(hi, s) = Hi(hi, t)
  PROVE  s = t
<1>0. /\ Lo(lo, RootSlot) = Bottom /\ Hi(hi, RootSlot) = Ceil
      /\ \A n \in Keys : Lo(lo, <<n, 0>>) = lo[n]
      /\ \A n \in Keys : Hi(hi, <<n, 0>>) = n
      /\ \A n \in Keys : Lo(lo, <<n, 1>>) = n
      /\ \A n \in Keys : Hi(hi, <<n, 1>>) = hi[n]
  BY SlotEnds
<1> USE Sentinels, KeysAreNumbers, <1>0
<1>1. CASE s = RootSlot
  <2>1. Lo(lo, t) = Bottom /\ Hi(hi, t) = Ceil
    BY <1>1
  <2>2. ASSUME NEW m \in L, t = <<m, 0>> PROVE FALSE
    BY <2>1, <2>2
  <2>3. ASSUME NEW m \in L, t = <<m, 1>> PROVE FALSE
    BY <2>1, <2>3
  <2> QED
    BY <1>1, <2>2, <2>3, SlotKinds
<1>2. ASSUME NEW n \in L, s = <<n, 0>> PROVE s = t
  <2>1. t # RootSlot
    BY <1>2
  <2>2. PICK m \in L : t = <<m, 0>> \/ t = <<m, 1>>
    BY <2>1, SlotKinds
  <2> QED
    BY <1>2, <2>2 DEF Bounded, Bounds
<1>3. ASSUME NEW n \in L, s = <<n, 1>> PROVE s = t
  <2>1. t # RootSlot
    BY <1>3
  <2>2. PICK m \in L : t = <<m, 0>> \/ t = <<m, 1>>
    BY <2>1, SlotKinds
  <2> QED
    BY <1>3, <2>2 DEF Bounded, Bounds
<1> QED
  BY <1>1, <1>2, <1>3, SlotKinds

\* A node hangs from one slot.
LEMMA OneParent ==
  ASSUME NEW h, NEW L, L \subseteq Keys, NEW lo, NEW hi, Shape(h, L, lo, hi),
         NEW s \in TreeSlots(L), NEW t \in TreeSlots(L),
         Get(h, s) # Null, Get(h, s) = Get(h, t)
  PROVE  s = t
  BY OneSlot DEF Shape, Placed

\* The three slots around a node.
LEMMA SlotsOf ==
  ASSUME NEW L, NEW n \in L
  PROVE  RootSlot \in TreeSlots(L) /\ \A d \in Dirs : <<n, d>> \in TreeSlots(L)
  BY DEF TreeSlots

LEMMA SlotNumbers ==
  ASSUME NEW L, L \subseteq Keys, NEW lo \in Bounds(L), NEW hi \in Bounds(L),
         NEW s \in TreeSlots(L)
  PROVE  Lo(lo, s) \in Int /\ Hi(hi, s) \in Int
<1>0. /\ Lo(lo, RootSlot) = Bottom /\ Hi(hi, RootSlot) = Ceil
      /\ \A n \in Keys : Lo(lo, <<n, 0>>) = lo[n]
      /\ \A n \in Keys : Hi(hi, <<n, 0>>) = n
      /\ \A n \in Keys : Lo(lo, <<n, 1>>) = n
      /\ \A n \in Keys : Hi(hi, <<n, 1>>) = hi[n]
  BY SlotEnds
<1> USE Sentinels, KeysAreNumbers, <1>0
<1>1. CASE s = RootSlot
  BY <1>1
<1>2. ASSUME NEW n \in L, s = <<n, 0>> \/ s = <<n, 1>> PROVE Lo(lo, s) \in Int /\ Hi(hi, s) \in Int
  BY <1>2 DEF Bounds
<1> QED
  BY <1>1, <1>2, SlotKinds

\* A node in the interval of a slot has its own interval in it.
LEMMA Below ==
  ASSUME NEW L, L \subseteq Keys, NEW lo \in Bounds(L), NEW hi \in Bounds(L),
         Ended(L, lo, hi), Nested(L, lo, hi),
         NEW s \in TreeSlots(L), NEW x \in L, Inside(lo, hi, s, x)
  PROVE  Lo(lo, s) <= lo[x] /\ hi[x] <= Hi(hi, s)
<1>0. /\ Lo(lo, RootSlot) = Bottom /\ Hi(hi, RootSlot) = Ceil
      /\ \A n \in Keys : Lo(lo, <<n, 0>>) = lo[n]
      /\ \A n \in Keys : Hi(hi, <<n, 0>>) = n
      /\ \A n \in Keys : Lo(lo, <<n, 1>>) = n
      /\ \A n \in Keys : Hi(hi, <<n, 1>>) = hi[n]
  BY SlotEnds
<1> USE Sentinels, KeysAreNumbers, <1>0
<1>1. CASE s = RootSlot
  BY <1>1 DEF Ended, Bounds
<1>2. ASSUME NEW n \in L, s = <<n, 0>> PROVE Lo(lo, s) <= lo[x] /\ hi[x] <= Hi(hi, s)
  BY <1>2 DEF Nested, Bounds, Inside
<1>3. ASSUME NEW n \in L, s = <<n, 1>> PROVE Lo(lo, s) <= lo[x] /\ hi[x] <= Hi(hi, s)
  BY <1>3 DEF Nested, Bounds, Inside
<1> QED
  BY <1>1, <1>2, <1>3, SlotKinds

-----------------------------------------------------------------------------
(* Rotations.                                                              *)

\* A child's interval is what its parent leaves to that side.
LEMMA LeftChild ==
  ASSUME NEW h, NEW L, L \subseteq Keys, NEW lo, NEW hi, Shape(h, L, lo, hi),
         NEW n \in L, Get(h, <<n, 0>>) # Null
  PROVE  /\ Get(h, <<n, 0>>) \in L
         /\ lo[Get(h, <<n, 0>>)] = lo[n] /\ hi[Get(h, <<n, 0>>)] = n
<1>1. <<n, 0>> \in TreeSlots(L)
  BY SlotsOf DEF Dirs
<1>2. Lo(lo, <<n, 0>>) = lo[n] /\ Hi(hi, <<n, 0>>) = n
  BY SlotEnds
<1> QED
  BY <1>1, <1>2 DEF Shape, Placed

LEMMA RightChild ==
  ASSUME NEW h, NEW L, L \subseteq Keys, NEW lo, NEW hi, Shape(h, L, lo, hi),
         NEW n \in L, Get(h, <<n, 1>>) # Null
  PROVE  /\ Get(h, <<n, 1>>) \in L
         /\ lo[Get(h, <<n, 1>>)] = n /\ hi[Get(h, <<n, 1>>)] = hi[n]
<1>1. <<n, 1>> \in TreeSlots(L)
  BY SlotsOf DEF Dirs
<1>2. Lo(lo, <<n, 1>>) = n /\ Hi(hi, <<n, 1>>) = hi[n]
  BY SlotEnds
<1> QED
  BY <1>1, <1>2 DEF Shape, Placed

\* The intervals after Rotate2 with B at the top and D raised.
TurnLo(lo, dir, B, D) == IF dir = 1 THEN [lo EXCEPT ![D] = lo[B]] ELSE [lo EXCEPT ![B] = D]
TurnHi(hi, dir, B, D) == IF dir = 1 THEN [hi EXCEPT ![B] = D] ELSE [hi EXCEPT ![D] = hi[B]]

\* The links after Rotate2: g is h but for three slots.
Turned(h, g, top, dir, B, D) ==
  \A t \in TreeSlots(Keys) :
    Get(g, t) = IF t = top THEN D
                ELSE IF t = <<D, 1 - dir>> THEN B
                ELSE IF t = <<B, dir>> THEN Get(h, <<D, 1 - dir>>)
                ELSE Get(h, t)

\* B hangs from top and D is its child at dir.
Pair(h, L, top, dir, B, D) ==
  /\ top \in TreeSlots(L) /\ dir \in Dirs
  /\ B \in L /\ D \in L
  /\ Get(h, top) = B /\ Get(h, <<B, dir>>) = D

\* Where the two nodes of a rotation are before it.
LEMMA PairBounds ==
  ASSUME NEW h, NEW L, L \subseteq Keys, NEW lo, NEW hi, Shape(h, L, lo, hi),
         NEW top, NEW dir, NEW B, NEW D, Pair(h, L, top, dir, B, D)
  PROVE  /\ B # D /\ B \in Int /\ D \in Int
         /\ lo[B] = Lo(lo, top) /\ hi[B] = Hi(hi, top)
         /\ dir = 1 => lo[D] = B /\ hi[D] = hi[B] /\ lo[B] < B /\ B < D /\ D < hi[B]
         /\ dir = 0 => lo[D] = lo[B] /\ hi[D] = B /\ lo[B] < D /\ D < B /\ B < hi[B]
         /\ top # <<B, dir>> /\ top # <<D, 1 - dir>>
<1>1. B \in Keys /\ D \in Keys /\ B # Null /\ D # Null /\ B \in Int /\ D \in Int
  BY KeysAreNumbers DEF Pair
<1>2. lo[B] = Lo(lo, top) /\ hi[B] = Hi(hi, top)
  BY <1>1 DEF Pair, Shape, Placed
<1>3. lo[B] \in Int /\ hi[B] \in Int /\ lo[D] \in Int /\ hi[D] \in Int
  BY DEF Pair, Shape, Bounds
<1>4. lo[B] < B /\ B < hi[B] /\ lo[D] < D /\ D < hi[D]
  BY DEF Pair, Shape, Ended
<1>5. CASE dir = 1
  <2>0. Get(h, <<B, 1>>) = D
    BY <1>5 DEF Pair
  <2>1. lo[D] = B /\ hi[D] = hi[B]
    <3>1. B \in L /\ Get(h, <<B, 1>>) # Null
      BY <1>1, <2>0 DEF Pair
    <3>2. lo[Get(h, <<B, 1>>)] = B /\ hi[Get(h, <<B, 1>>)] = hi[B]
      BY <3>1, RightChild
    <3> QED
      BY <2>0, <3>2
  <2>2. top # <<B, 1>>
    BY <1>1, <1>3, <1>4, <1>5, <2>1 DEF Pair
  <2>3. Hi(hi, <<D, 0>>) = D
    BY <1>1, SlotEnds
  <2>4. top # <<D, 0>>
    BY <1>1, <1>2, <1>3, <1>4, <2>1, <2>3
  <2> QED
    BY <1>1, <1>2, <1>3, <1>4, <1>5, <2>1, <2>2, <2>4
<1>6. CASE dir = 0
  <2>0. Get(h, <<B, 0>>) = D
    BY <1>6 DEF Pair
  <2>1. lo[D] = lo[B] /\ hi[D] = B
    <3>1. B \in L /\ Get(h, <<B, 0>>) # Null
      BY <1>1, <2>0 DEF Pair
    <3>2. lo[Get(h, <<B, 0>>)] = lo[B] /\ hi[Get(h, <<B, 0>>)] = B
      BY <3>1, LeftChild
    <3> QED
      BY <2>0, <3>2
  <2>2. top # <<B, 0>>
    BY <1>1, <1>3, <1>4, <1>6, <2>1 DEF Pair
  <2>3. Lo(lo, <<D, 1>>) = D
    BY <1>1, SlotEnds
  <2>4. top # <<D, 1>>
    BY <1>1, <1>2, <1>3, <1>4, <2>1, <2>3
  <2> QED
    BY <1>1, <1>2, <1>3, <1>4, <1>6, <2>1, <2>2, <2>4
<1> QED
  BY <1>5, <1>6 DEF Pair, Dirs

LEMMA Rotate2Turns ==
  ASSUME NEW h \in Heaps, NEW L, L \subseteq Keys, NEW lo, NEW hi, Shape(h, L, lo, hi),
         NEW top, NEW dir, NEW B, NEW D, Pair(h, L, top, dir, B, D)
  PROVE  /\ Rotate2(h, top, dir) \in Heaps
         /\ Rotate2(h, top, dir).balance = h.balance
         /\ Turned(h, Rotate2(h, top, dir), top, dir, B, D)
<1> DEFINE C == Get(h, <<D, 1 - dir>>)
           g1 == Put(h, top, D)
           g2 == Put(g1, <<D, 1 - dir>>, B)
           g3 == Put(g2, <<B, dir>>, C)
<1>1. /\ B \in Keys /\ D \in Keys /\ B \in Ptrs /\ D \in Ptrs
      /\ dir \in Dirs /\ 1 - dir \in Dirs
  BY DEF Pair, Ptrs, Dirs
<1>2. /\ top \in TreeSlots(Keys) /\ <<D, 1 - dir>> \in TreeSlots(Keys) /\ <<B, dir>> \in TreeSlots(Keys)
      /\ top \in Slots /\ <<D, 1 - dir>> \in Slots /\ <<B, dir>> \in Slots
  BY <1>1, SlotCases, SlotOf DEF Pair, TreeSlots
<1>3. Link(h, B, dir) = D /\ Link(h, D, 1 - dir) = C /\ C \in Ptrs
  BY <1>1, <1>2, LinkGet, GetType DEF Pair
<1>4. Rotate2(h, top, dir) = g3
  BY <1>3 DEF Rotate2, Pair
<1>5. /\ g1 \in Heaps /\ g1.balance = h.balance
      /\ \A t \in TreeSlots(Keys) : Get(g1, t) = IF t = top THEN D ELSE Get(h, t)
  BY <1>1, <1>2, PutGet, PutType
<1> HIDE DEF g1
<1>6. /\ g2 \in Heaps /\ g2.balance = h.balance
      /\ \A t \in TreeSlots(Keys) : Get(g2, t) = IF t = <<D, 1 - dir>> THEN B ELSE Get(g1, t)
  <2>1. g2 \in Heaps
    BY <1>1, <1>2, <1>5, PutType
  <2> QED
    BY <1>1, <1>2, <1>5, <2>1, PutGet
<1> HIDE DEF g2
<1>7. /\ g3 \in Heaps /\ g3.balance = h.balance
      /\ \A t \in TreeSlots(Keys) : Get(g3, t) = IF t = <<B, dir>> THEN C ELSE Get(g2, t)
  <2>1. g3 \in Heaps
    BY <1>1, <1>2, <1>3, <1>6, PutType
  <2> QED
    BY <1>1, <1>2, <1>3, <1>6, <2>1, PutGet
<1> HIDE DEF g3, C
<1>8. top # <<B, dir>> /\ top # <<D, 1 - dir>> /\ <<B, dir>> # <<D, 1 - dir>>
  BY PairBounds
<1>9. \A t \in TreeSlots(Keys) :
        Get(g3, t) = IF t = top THEN D
                     ELSE IF t = <<D, 1 - dir>> THEN B
                     ELSE IF t = <<B, dir>> THEN C
                     ELSE Get(h, t)
  BY <1>5, <1>6, <1>7, <1>8
<1> QED
  BY <1>4, <1>7, <1>9 DEF Turned, C

LEMMA TurnEnded ==
  ASSUME NEW h, NEW L, L \subseteq Keys, NEW lo, NEW hi, Shape(h, L, lo, hi),
         NEW top, NEW dir, NEW B, NEW D, Pair(h, L, top, dir, B, D)
  PROVE  /\ TurnLo(lo, dir, B, D) \in Bounds(L) /\ TurnHi(hi, dir, B, D) \in Bounds(L)
         /\ Ended(L, TurnLo(lo, dir, B, D), TurnHi(hi, dir, B, D))
<1> DEFINE lo1 == TurnLo(lo, dir, B, D)
           hi1 == TurnHi(hi, dir, B, D)
<1>1. /\ B # D /\ B \in Int /\ D \in Int
      /\ lo[B] = Lo(lo, top) /\ hi[B] = Hi(hi, top)
      /\ dir = 1 => lo[D] = B /\ hi[D] = hi[B] /\ lo[B] < B /\ B < D /\ D < hi[B]
      /\ dir = 0 => lo[D] = lo[B] /\ hi[D] = B /\ lo[B] < D /\ D < B /\ B < hi[B]
      /\ top # <<B, dir>> /\ top # <<D, 1 - dir>>
  BY PairBounds
<1>2. B \in L /\ D \in L /\ dir \in Dirs
  BY DEF Pair
<1>3. lo \in [L -> Int] /\ hi \in [L -> Int] /\ L \subseteq Int
  BY KeysAreNumbers DEF Shape, Bounds
<1>4. CASE dir = 1
  <2>1. lo1 = [lo EXCEPT ![D] = lo[B]] /\ hi1 = [hi EXCEPT ![B] = D]
    BY <1>4 DEF TurnLo, TurnHi
  <2> HIDE DEF lo1, hi1
  <2>2. lo1 \in [L -> Int] /\ hi1 \in [L -> Int]
    BY <2>1, <1>1, <1>2, <1>3
  <2>3. \A n \in L : lo1[n] = IF n = D THEN lo[B] ELSE lo[n]
    BY <2>1, <1>3
  <2>4. \A n \in L : hi1[n] = IF n = B THEN D ELSE hi[n]
    BY <2>1, <1>3
  <2>5. Ended(L, lo1, hi1)
    BY <1>1, <1>2, <1>3, <1>4, <2>3, <2>4 DEF Shape, Ended
  <2> QED
    BY <2>2, <2>5 DEF Bounds, lo1, hi1
<1>5. CASE dir = 0
  <2>1. lo1 = [lo EXCEPT ![B] = D] /\ hi1 = [hi EXCEPT ![D] = hi[B]]
    BY <1>5 DEF TurnLo, TurnHi
  <2> HIDE DEF lo1, hi1
  <2>2. lo1 \in [L -> Int] /\ hi1 \in [L -> Int]
    BY <2>1, <1>1, <1>2, <1>3
  <2>3. \A n \in L : lo1[n] = IF n = B THEN D ELSE lo[n]
    BY <2>1, <1>3
  <2>4. \A n \in L : hi1[n] = IF n = D THEN hi[B] ELSE hi[n]
    BY <2>1, <1>3
  <2>5. Ended(L, lo1, hi1)
    BY <1>1, <1>2, <1>3, <1>5, <2>3, <2>4 DEF Shape, Ended
  <2> QED
    BY <2>2, <2>5 DEF Bounds, lo1, hi1
<1> QED
  BY <1>2, <1>4, <1>5 DEF Dirs

\* What the two cases have in common: the pair's bounds, and the new ones.
TurnFacts(h, L, lo, hi, lo1, hi1, top, dir, B, D) ==
  /\ B # D /\ B \in L /\ D \in L /\ L \subseteq Int
  /\ lo \in [L -> Int] /\ hi \in [L -> Int]
  /\ lo[B] = Lo(lo, top) /\ hi[B] = Hi(hi, top)
  /\ top # <<B, dir>> /\ top # <<D, 1 - dir>>
  /\ dir = 1 => /\ lo[D] = B /\ hi[D] = hi[B] /\ lo[B] < B /\ B < D /\ D < hi[B]
                /\ \A n \in L : lo1[n] = IF n = D THEN lo[B] ELSE lo[n]
                /\ \A n \in L : hi1[n] = IF n = B THEN D ELSE hi[n]
  /\ dir = 0 => /\ lo[D] = lo[B] /\ hi[D] = B /\ lo[B] < D /\ D < B /\ B < hi[B]
                /\ \A n \in L : lo1[n] = IF n = B THEN D ELSE lo[n]
                /\ \A n \in L : hi1[n] = IF n = D THEN hi[B] ELSE hi[n]

LEMMA TurnBounds ==
  ASSUME NEW h, NEW L, L \subseteq Keys, NEW lo, NEW hi, Shape(h, L, lo, hi),
         NEW top, NEW dir, NEW B, NEW D, Pair(h, L, top, dir, B, D)
  PROVE  TurnFacts(h, L, lo, hi, TurnLo(lo, dir, B, D), TurnHi(hi, dir, B, D), top, dir, B, D)
<1>1. /\ B # D /\ B \in Int /\ D \in Int
      /\ lo[B] = Lo(lo, top) /\ hi[B] = Hi(hi, top)
      /\ dir = 1 => lo[D] = B /\ hi[D] = hi[B] /\ lo[B] < B /\ B < D /\ D < hi[B]
      /\ dir = 0 => lo[D] = lo[B] /\ hi[D] = B /\ lo[B] < D /\ D < B /\ B < hi[B]
      /\ top # <<B, dir>> /\ top # <<D, 1 - dir>>
  BY PairBounds
<1>2. B \in L /\ D \in L /\ dir \in Dirs
  BY DEF Pair
<1>3. lo \in [L -> Int] /\ hi \in [L -> Int] /\ L \subseteq Int
  BY KeysAreNumbers DEF Shape, Bounds
<1>4. ASSUME dir = 1
      PROVE  /\ \A n \in L : TurnLo(lo, dir, B, D)[n] = IF n = D THEN lo[B] ELSE lo[n]
             /\ \A n \in L : TurnHi(hi, dir, B, D)[n] = IF n = B THEN D ELSE hi[n]
  BY <1>3, <1>4 DEF TurnLo, TurnHi
<1>5. ASSUME dir = 0
      PROVE  /\ \A n \in L : TurnLo(lo, dir, B, D)[n] = IF n = B THEN D ELSE lo[n]
             /\ \A n \in L : TurnHi(hi, dir, B, D)[n] = IF n = D THEN hi[B] ELSE hi[n]
  BY <1>3, <1>5 DEF TurnLo, TurnHi
<1> QED
  BY <1>1, <1>2, <1>3, <1>4, <1>5 DEF TurnFacts

LEMMA TurnNested ==
  ASSUME NEW h, NEW L, NEW lo, NEW hi, NEW lo1, NEW hi1,
         Shape(h, L, lo, hi), NEW top, NEW dir \in Dirs, NEW B, NEW D,
         TurnFacts(h, L, lo, hi, lo1, hi1, top, dir, B, D)
  PROVE  Nested(L, lo1, hi1)
<1> SUFFICES ASSUME NEW a \in L, NEW b \in L
             PROVE  /\ lo1[a] < b /\ b < a => lo1[b] >= lo1[a] /\ hi1[b] <= a
                    /\ a < b /\ b < hi1[a] => lo1[b] >= a /\ hi1[b] <= hi1[a]
  BY DEF Nested
<1>1. /\ B # D /\ B \in L /\ D \in L /\ L \subseteq Int
      /\ lo \in [L -> Int] /\ hi \in [L -> Int]
  BY DEF TurnFacts
<1>2. /\ lo[a] < b /\ b < a => lo[b] >= lo[a] /\ hi[b] <= a
      /\ a < b /\ b < hi[a] => lo[b] >= a /\ hi[b] <= hi[a]
  BY DEF Shape, Nested
<1>3. /\ lo[a] < B /\ B < a => lo[B] >= lo[a] /\ hi[B] <= a
      /\ a < B /\ B < hi[a] => lo[B] >= a /\ hi[B] <= hi[a]
  BY <1>1 DEF Shape, Nested
<1>4. /\ lo[a] < D /\ D < a => lo[D] >= lo[a] /\ hi[D] <= a
      /\ a < D /\ D < hi[a] => lo[D] >= a /\ hi[D] <= hi[a]
  BY <1>1 DEF Shape, Nested
<1>5. /\ lo[B] < b /\ b < B => lo[b] >= lo[B] /\ hi[b] <= B
      /\ B < b /\ b < hi[B] => lo[b] >= B /\ hi[b] <= hi[B]
  BY <1>1 DEF Shape, Nested
<1>6. /\ lo[D] < b /\ b < D => lo[b] >= lo[D] /\ hi[b] <= D
      /\ D < b /\ b < hi[D] => lo[b] >= D /\ hi[b] <= hi[D]
  BY <1>1 DEF Shape, Nested
<1>7. /\ lo[a] = B => a < hi[B]
      /\ hi[a] = B => lo[B] < a
  BY <1>1 DEF Shape, Bounded
<1>8. /\ lo[a] < a /\ a < hi[a] /\ lo[b] < b /\ b < hi[b]
  BY DEF Shape, Ended
<1>9. /\ lo[a] \in Int /\ hi[a] \in Int /\ lo[b] \in Int /\ hi[b] \in Int /\ a \in Int /\ b \in Int
      /\ lo[B] \in Int /\ hi[B] \in Int /\ B \in Int /\ D \in Int
  BY <1>1
<1>10. CASE dir = 1
  <2>1. lo[D] = B /\ hi[D] = hi[B] /\ lo[B] < B /\ B < D /\ D < hi[B]
    BY <1>10 DEF TurnFacts
  <2>2. /\ lo1[a] = IF a = D THEN lo[B] ELSE lo[a]
        /\ lo1[b] = IF b = D THEN lo[B] ELSE lo[b]
        /\ hi1[a] = IF a = B THEN D ELSE hi[a]
        /\ hi1[b] = IF b = B THEN D ELSE hi[b]
    BY <1>10 DEF TurnFacts
  <2> QED
    BY <1>1, <1>2, <1>3, <1>4, <1>5, <1>6, <1>7, <1>8, <1>9, <2>1, <2>2
<1>11. CASE dir = 0
  <2>1. lo[D] = lo[B] /\ hi[D] = B /\ lo[B] < D /\ D < B /\ B < hi[B]
    BY <1>11 DEF TurnFacts
  <2>2. /\ lo1[a] = IF a = B THEN D ELSE lo[a]
        /\ lo1[b] = IF b = B THEN D ELSE lo[b]
        /\ hi1[a] = IF a = D THEN hi[B] ELSE hi[a]
        /\ hi1[b] = IF b = D THEN hi[B] ELSE hi[b]
    BY <1>11 DEF TurnFacts
  <2> QED
    BY <1>1, <1>2, <1>3, <1>4, <1>5, <1>6, <1>7, <1>8, <1>9, <2>1, <2>2
<1> QED
  BY <1>10, <1>11 DEF Dirs

LEMMA TurnBounded ==
  ASSUME NEW h, NEW L, NEW lo, NEW hi, NEW lo1, NEW hi1,
         Shape(h, L, lo, hi), NEW top, NEW dir \in Dirs, NEW B, NEW D,
         TurnFacts(h, L, lo, hi, lo1, hi1, top, dir, B, D)
  PROVE  Bounded(L, lo1, hi1)
<1>1. /\ B # D /\ B \in L /\ D \in L /\ L \subseteq Int
      /\ lo \in [L -> Int] /\ hi \in [L -> Int]
  BY DEF TurnFacts
<1>2. CASE dir = 1
  <2> USE <1>1, <1>2
  <2>1. lo[D] = B /\ hi[D] = hi[B] /\ lo[B] < B /\ B < D /\ D < hi[B]
    BY DEF TurnFacts
  <2>2. \A n \in L : lo1[n] = IF n = D THEN lo[B] ELSE lo[n]
    BY DEF TurnFacts
  <2>3. \A n \in L : hi1[n] = IF n = B THEN D ELSE hi[n]
    BY DEF TurnFacts
  <2>4. ASSUME NEW a \in L, lo1[a] \in L PROVE a < hi1[lo1[a]]
    BY <2>1, <2>2, <2>3, <2>4 DEF Shape, Bounded, Nested, Ended
  <2>5. ASSUME NEW a \in L, hi1[a] \in L PROVE lo1[hi1[a]] < a
    BY <2>1, <2>2, <2>3, <2>5 DEF Shape, Bounded, Nested, Ended
  <2> QED
    BY <2>4, <2>5 DEF Bounded
<1>3. CASE dir = 0
  <2> USE <1>1, <1>3
  <2>1. lo[D] = lo[B] /\ hi[D] = B /\ lo[B] < D /\ D < B /\ B < hi[B]
    BY DEF TurnFacts
  <2>2. \A n \in L : lo1[n] = IF n = B THEN D ELSE lo[n]
    BY DEF TurnFacts
  <2>3. \A n \in L : hi1[n] = IF n = D THEN hi[B] ELSE hi[n]
    BY DEF TurnFacts
  <2>4. ASSUME NEW a \in L, lo1[a] \in L PROVE a < hi1[lo1[a]]
    BY <2>1, <2>2, <2>3, <2>4 DEF Shape, Bounded, Nested, Ended
  <2>5. ASSUME NEW a \in L, hi1[a] \in L PROVE lo1[hi1[a]] < a
    BY <2>1, <2>2, <2>3, <2>5 DEF Shape, Bounded, Nested, Ended
  <2> QED
    BY <2>4, <2>5 DEF Bounded
<1> QED
  BY <1>2, <1>3 DEF Dirs

\* The slot above the pair is no slot of the pair.
LEMMA TopOutside ==
  ASSUME NEW h, NEW L, L \subseteq Keys, NEW lo, NEW hi, Shape(h, L, lo, hi),
         NEW top, NEW dir, NEW B, NEW D, Pair(h, L, top, dir, B, D), NEW d \in Dirs
  PROVE  top # <<B, d>> /\ top # <<D, d>>
<1>1. /\ B # D /\ B \in Int /\ D \in Int
      /\ lo[B] = Lo(lo, top) /\ hi[B] = Hi(hi, top)
      /\ dir = 1 => lo[D] = B /\ hi[D] = hi[B] /\ lo[B] < B /\ B < D /\ D < hi[B]
      /\ dir = 0 => lo[D] = lo[B] /\ hi[D] = B /\ lo[B] < D /\ D < B /\ B < hi[B]
      /\ top # <<B, dir>> /\ top # <<D, 1 - dir>>
  BY PairBounds
<1>2. /\ Hi(hi, <<B, 0>>) = B /\ Lo(lo, <<B, 1>>) = B
      /\ Hi(hi, <<D, 0>>) = D /\ Lo(lo, <<D, 1>>) = D
  BY SlotEnds DEF Pair
<1>3. dir = 0 \/ dir = 1
  BY DEF Pair, Dirs
<1>4. top # <<B, 0>> /\ top # <<B, 1>> /\ top # <<D, 0>> /\ top # <<D, 1>>
  BY <1>1, <1>2, <1>3, KeysAreNumbers DEF Pair, Shape, Bounds
<1> QED
  BY <1>4 DEF Dirs

LEMMA TurnPlaced ==
  ASSUME NEW h, NEW L, L \subseteq Keys, NEW lo, NEW hi, NEW lo1, NEW hi1, NEW g,
         Shape(h, L, lo, hi), NEW top, NEW dir \in Dirs, NEW B, NEW D,
         Pair(h, L, top, dir, B, D), Turned(h, g, top, dir, B, D),
         TurnFacts(h, L, lo, hi, lo1, hi1, top, dir, B, D)
  PROVE  Placed(g, L, lo1, hi1)
<1> DEFINE Fine(s) ==
             /\ Get(g, s) = Null => \A x \in L : ~ Inside(lo1, hi1, s, x)
             /\ Get(g, s) # Null => /\ Get(g, s) \in L
                                    /\ lo1[Get(g, s)] = Lo(lo1, s)
                                    /\ hi1[Get(g, s)] = Hi(hi1, s)
<1>1. /\ B # D /\ B \in L /\ D \in L /\ L \subseteq Int /\ B # Null /\ D # Null
      /\ lo \in [L -> Int] /\ hi \in [L -> Int]
      /\ lo[B] = Lo(lo, top) /\ hi[B] = Hi(hi, top)
      /\ Get(h, top) = B /\ Get(h, <<B, dir>>) = D
      /\ top \in TreeSlots(L) /\ <<B, dir>> \in TreeSlots(L)
      /\ dir = 0 \/ dir = 1
  BY KeysAreNumbers, SlotsOf DEF TurnFacts, Pair, Dirs
<1>2. \A s \in TreeSlots(L) : s \in TreeSlots(Keys)
  BY DEF TreeSlots
<1>3. \A s \in TreeSlots(L) :
        Get(g, s) = IF s = top THEN D
                    ELSE IF s = <<D, 1 - dir>> THEN B
                    ELSE IF s = <<B, dir>> THEN Get(h, <<D, 1 - dir>>)
                    ELSE Get(h, s)
  BY <1>2 DEF Turned
<1>4. \A n \in L : n \notin {B, D} => lo1[n] = lo[n] /\ hi1[n] = hi[n]
  BY <1>1 DEF TurnFacts
<1>5. \A s \in TreeSlots(L) :
        (\A d \in Dirs : s # <<B, d>> /\ s # <<D, d>>) => Lo(lo1, s) = Lo(lo, s) /\ Hi(hi1, s) = Hi(hi, s)
  <2> SUFFICES ASSUME NEW s \in TreeSlots(L), \A d \in Dirs : s # <<B, d>> /\ s # <<D, d>>
               PROVE  Lo(lo1, s) = Lo(lo, s) /\ Hi(hi1, s) = Hi(hi, s)
    OBVIOUS
  <2>1. CASE s = RootSlot
    BY <2>1 DEF Lo, Hi
  <2>2. CASE s # RootSlot
    <3>1. s[1] \in L /\ s[2] \in Dirs /\ s = <<s[1], s[2]>>
      BY <2>2, SlotCases
    <3>2. s[1] \notin {B, D}
      BY <3>1
    <3> QED
      BY <2>2, <3>1, <3>2, <1>4 DEF Lo, Hi
  <2> QED
    BY <2>1, <2>2
<1>6. Fine(top)
  <2>0. \A d \in Dirs : top # <<B, d>> /\ top # <<D, d>>
    BY TopOutside
  <2>1. Lo(lo1, top) = lo[B] /\ Hi(hi1, top) = hi[B]
    BY <1>1, <1>5, <2>0
  <2>2. lo1[D] = lo[B] /\ hi1[D] = hi[B]
    BY <1>1 DEF TurnFacts
  <2>3. Get(g, top) = D
    BY <1>1, <1>3
  <2> QED
    BY <1>1, <2>1, <2>2, <2>3
<1>7. ASSUME NEW s \in TreeSlots(L), s # top, \A d \in Dirs : s # <<B, d>> /\ s # <<D, d>>
      PROVE  Fine(s)
  <2>0. s # <<D, 1 - dir>> /\ s # <<B, dir>>
    BY <1>7 DEF Dirs
  <2>1. Get(g, s) = Get(h, s)
    BY <1>3, <1>7, <2>0
  <2>2. Lo(lo1, s) = Lo(lo, s) /\ Hi(hi1, s) = Hi(hi, s)
    BY <1>5, <1>7
  <2>3. CASE Get(h, s) = Null
    BY <2>1, <2>2, <2>3 DEF Shape, Placed, Inside
  <2>4. CASE Get(h, s) # Null
    <3>1. Get(h, s) # B
      BY <1>1, <1>7, <2>4, OneParent
    <3>2. Get(h, s) # D
      BY <1>1, <1>7, <2>4, OneParent
    <3>3. Get(h, s) \in L /\ lo[Get(h, s)] = Lo(lo, s) /\ hi[Get(h, s)] = Hi(hi, s)
      BY <2>4 DEF Shape, Placed
    <3> QED
      BY <2>1, <2>2, <2>4, <3>1, <3>2, <3>3, <1>4
  <2> QED
    BY <2>3, <2>4
<1>8. /\ Lo(lo1, <<B, 0>>) = lo1[B] /\ Hi(hi1, <<B, 0>>) = B
      /\ Lo(lo1, <<B, 1>>) = B /\ Hi(hi1, <<B, 1>>) = hi1[B]
      /\ Lo(lo1, <<D, 0>>) = lo1[D] /\ Hi(hi1, <<D, 0>>) = D
      /\ Lo(lo1, <<D, 1>>) = D /\ Hi(hi1, <<D, 1>>) = hi1[D]
  BY <1>1, SlotEnds
<1>9. /\ Lo(lo, <<B, 0>>) = lo[B] /\ Hi(hi, <<B, 0>>) = B
      /\ Lo(lo, <<B, 1>>) = B /\ Hi(hi, <<B, 1>>) = hi[B]
      /\ Lo(lo, <<D, 0>>) = lo[D] /\ Hi(hi, <<D, 0>>) = D
      /\ Lo(lo, <<D, 1>>) = D /\ Hi(hi, <<D, 1>>) = hi[D]
  BY <1>1, SlotEnds
<1>10. /\ <<B, 0>> \in TreeSlots(L) /\ <<B, 1>> \in TreeSlots(L)
       /\ <<D, 0>> \in TreeSlots(L) /\ <<D, 1>> \in TreeSlots(L)
       /\ top # <<B, 0>> /\ top # <<B, 1>> /\ top # <<D, 0>> /\ top # <<D, 1>>
  BY <1>1, SlotsOf, TopOutside DEF Dirs
\* A slot that keeps its interval, and takes over what it holds from one that had it.
<1>11. ASSUME NEW s \in TreeSlots(L), NEW t \in TreeSlots(L), Get(g, s) = Get(h, t),
              Get(h, t) \notin {B, D}, Lo(lo1, s) = Lo(lo, t), Hi(hi1, s) = Hi(hi, t)
       PROVE  Fine(s)
  <2>1. CASE Get(h, t) = Null
    BY <1>11, <2>1 DEF Shape, Placed, Inside
  <2>2. CASE Get(h, t) # Null
    <3>1. Get(h, t) \in L /\ lo[Get(h, t)] = Lo(lo, t) /\ hi[Get(h, t)] = Hi(hi, t)
      BY <2>2 DEF Shape, Placed
    <3> QED
      BY <1>4, <1>11, <2>2, <3>1
  <2> QED
    BY <2>1, <2>2
<1>12. ASSUME NEW t \in TreeSlots(L), t # top, t # <<B, dir>>
       PROVE  Get(h, t) \notin {B, D}
  BY <1>1, <1>12, OneParent
<1>13. Fine(<<B, 0>>) /\ Fine(<<B, 1>>) /\ Fine(<<D, 0>>) /\ Fine(<<D, 1>>)
  <2>1. CASE dir = 1
    <3>1. /\ lo[D] = B /\ hi[D] = hi[B]
          /\ lo1[D] = lo[B] /\ lo1[B] = lo[B] /\ hi1[B] = D /\ hi1[D] = hi[D]
      BY <1>1, <2>1 DEF TurnFacts
    <3>2. Get(g, <<B, 0>>) = Get(h, <<B, 0>>) /\ Get(g, <<D, 1>>) = Get(h, <<D, 1>>)
      <4>1. <<B, 0>> # <<D, 1 - dir>> /\ <<B, 0>> # <<B, dir>>
        BY <1>1, <2>1
      <4>2. <<D, 1>> # <<D, 1 - dir>> /\ <<D, 1>> # <<B, dir>>
        BY <1>1, <2>1
      <4> QED
        BY <1>3, <1>10, <4>1, <4>2
    <3>3. Get(g, <<D, 0>>) = B /\ Get(g, <<B, 1>>) = Get(h, <<D, 0>>)
      BY <1>1, <1>3, <1>10, <2>1
    <3>4. /\ Get(h, <<B, 0>>) \notin {B, D}
          /\ Get(h, <<D, 1>>) \notin {B, D}
          /\ Get(h, <<D, 0>>) \notin {B, D}
      BY <1>1, <1>10, <1>12, <2>1
    <3>5. Fine(<<B, 0>>)
      BY <1>8, <1>9, <1>10, <1>11, <3>1, <3>2, <3>4
    <3>6. Fine(<<D, 1>>)
      BY <1>8, <1>9, <1>10, <1>11, <3>1, <3>2, <3>4
    <3>7. Fine(<<B, 1>>)
      BY <1>8, <1>9, <1>10, <1>11, <3>1, <3>3, <3>4
    <3>8. Fine(<<D, 0>>)
      BY <1>1, <1>8, <3>1, <3>3
    <3> QED
      BY <3>5, <3>6, <3>7, <3>8
  <2>2. CASE dir = 0
    <3>1. /\ lo[D] = lo[B] /\ hi[D] = B
          /\ lo1[B] = D /\ hi1[B] = hi[B] /\ lo1[D] = lo[D] /\ hi1[D] = hi[B]
      BY <1>1, <2>2 DEF TurnFacts
    <3>2. Get(g, <<B, 1>>) = Get(h, <<B, 1>>) /\ Get(g, <<D, 0>>) = Get(h, <<D, 0>>)
      <4>1. <<B, 1>> # <<D, 1 - dir>> /\ <<B, 1>> # <<B, dir>>
        BY <1>1, <2>2
      <4>2. <<D, 0>> # <<D, 1 - dir>> /\ <<D, 0>> # <<B, dir>>
        BY <1>1, <2>2
      <4> QED
        BY <1>3, <1>10, <4>1, <4>2
    <3>3. Get(g, <<D, 1>>) = B /\ Get(g, <<B, 0>>) = Get(h, <<D, 1>>)
      BY <1>1, <1>3, <1>10, <2>2
    <3>4. /\ Get(h, <<B, 1>>) \notin {B, D}
          /\ Get(h, <<D, 0>>) \notin {B, D}
          /\ Get(h, <<D, 1>>) \notin {B, D}
      BY <1>1, <1>10, <1>12, <2>2
    <3>5. Fine(<<B, 1>>)
      BY <1>8, <1>9, <1>10, <1>11, <3>1, <3>2, <3>4
    <3>6. Fine(<<D, 0>>)
      BY <1>8, <1>9, <1>10, <1>11, <3>1, <3>2, <3>4
    <3>7. Fine(<<B, 0>>)
      BY <1>8, <1>9, <1>10, <1>11, <3>1, <3>3, <3>4
    <3>8. Fine(<<D, 1>>)
      BY <1>1, <1>8, <3>1, <3>3
    <3> QED
      BY <3>5, <3>6, <3>7, <3>8
  <2> QED
    BY <1>1, <2>1, <2>2
<1>14. \A s \in TreeSlots(L) : Fine(s)
  <2> HIDE DEF Fine
  <2> QED
    BY <1>6, <1>7, <1>13 DEF Dirs
<1> QED
  BY <1>14 DEF Placed

\* A rotation keeps the shape.
LEMMA TurnShape ==
  ASSUME NEW h, NEW L, L \subseteq Keys, NEW lo, NEW hi, NEW g,
         Shape(h, L, lo, hi), NEW top, NEW dir, NEW B, NEW D,
         Pair(h, L, top, dir, B, D), Turned(h, g, top, dir, B, D)
  PROVE  Shape(g, L, TurnLo(lo, dir, B, D), TurnHi(hi, dir, B, D))
<1>1. TurnFacts(h, L, lo, hi, TurnLo(lo, dir, B, D), TurnHi(hi, dir, B, D), top, dir, B, D)
  BY TurnBounds
<1>2. dir \in Dirs
  BY DEF Pair
<1>3. /\ TurnLo(lo, dir, B, D) \in Bounds(L) /\ TurnHi(hi, dir, B, D) \in Bounds(L)
      /\ Ended(L, TurnLo(lo, dir, B, D), TurnHi(hi, dir, B, D))
  BY TurnEnded
<1>4. Nested(L, TurnLo(lo, dir, B, D), TurnHi(hi, dir, B, D))
  BY <1>1, <1>2, TurnNested
<1>5. Bounded(L, TurnLo(lo, dir, B, D), TurnHi(hi, dir, B, D))
  BY <1>1, <1>2, TurnBounded
<1>6. Placed(g, L, TurnLo(lo, dir, B, D), TurnHi(hi, dir, B, D))
  BY <1>1, <1>2, TurnPlaced
<1> QED
  BY <1>3, <1>4, <1>5, <1>6 DEF Shape

\* Rotate3 is two rotations: D is raised above F, then above B.
LEMMA Rotate3Turns ==
  ASSUME NEW h \in Heaps, NEW L, L \subseteq Keys, NEW lo, NEW hi, Shape(h, L, lo, hi),
         NEW top, NEW dir, NEW B, NEW F, NEW D,
         Pair(h, L, top, dir, B, F), Pair(h, L, <<B, dir>>, 1 - dir, F, D)
  PROVE  /\ Rotate3(h, top, dir) \in Heaps
         /\ Rotate3(h, top, dir).balance = h.balance
         /\ \E m \in Heaps :
              /\ Turned(h, m, <<B, dir>>, 1 - dir, F, D)
              /\ Pair(m, L, top, dir, B, D)
              /\ Turned(m, Rotate3(h, top, dir), top, dir, B, D)
<1> DEFINE C == Get(h, <<D, 1 - dir>>)
           E == Get(h, <<D, dir>>)
           g1 == Put(h, top, D)
           g2 == Put(g1, <<D, 1 - dir>>, B)
           g3 == Put(g2, <<D, dir>>, F)
           g4 == Put(g3, <<B, dir>>, C)
           g5 == Put(g4, <<F, 1 - dir>>, E)
           m == Rotate2(h, <<B, dir>>, 1 - dir)
<1>1. /\ B \in Keys /\ D \in Keys /\ F \in Keys /\ B \in Ptrs /\ D \in Ptrs /\ F \in Ptrs
      /\ dir \in Dirs /\ 1 - dir \in Dirs /\ 1 - (1 - dir) = dir /\ dir # 1 - dir
  BY DEF Pair, Ptrs, Dirs
<1>2. /\ top \in TreeSlots(Keys) /\ <<D, 1 - dir>> \in TreeSlots(Keys)
      /\ <<D, dir>> \in TreeSlots(Keys)
      /\ <<B, dir>> \in TreeSlots(Keys) /\ <<F, 1 - dir>> \in TreeSlots(Keys)
  BY <1>1 DEF Pair, TreeSlots
<1>3. /\ top \in Slots /\ <<D, 1 - dir>> \in Slots /\ <<D, dir>> \in Slots
      /\ <<B, dir>> \in Slots /\ <<F, 1 - dir>> \in Slots
  <2>1. top \in Slots
    BY SlotCases DEF Pair
  <2> QED
    BY <1>1, <2>1, SlotOf
<1>4. C \in Ptrs /\ E \in Ptrs
  BY <1>3, GetType
<1>5. Link(h, B, dir) = F /\ Link(h, F, 1 - dir) = D /\ Get(h, top) = B
  BY <1>1, LinkGet DEF Pair
<1>6. Link(h, D, 1 - dir) = C /\ Link(h, D, dir) = E
  BY <1>1, LinkGet
<1>7. Rotate3(h, top, dir) = g5
  BY <1>1, <1>5, <1>6 DEF Rotate3, Inward
<1> HIDE DEF C, E
<1>8. /\ g1 \in Heaps /\ g1.balance = h.balance
      /\ \A t \in TreeSlots(Keys) : Get(g1, t) = IF t = top THEN D ELSE Get(h, t)
  <2>1. g1 \in Heaps
    BY <1>1, <1>3, PutType
  <2> QED
    BY <1>1, <1>2, <2>1, PutGet
<1> HIDE DEF g1
<1>9. /\ g2 \in Heaps /\ g2.balance = h.balance
      /\ \A t \in TreeSlots(Keys) : Get(g2, t) = IF t = <<D, 1 - dir>> THEN B ELSE Get(g1, t)
  <2>1. g2 \in Heaps
    BY <1>1, <1>3, <1>8, PutType
  <2> QED
    BY <1>1, <1>2, <1>8, <2>1, PutGet
<1> HIDE DEF g2
<1>10. /\ g3 \in Heaps /\ g3.balance = h.balance
       /\ \A t \in TreeSlots(Keys) : Get(g3, t) = IF t = <<D, dir>> THEN F ELSE Get(g2, t)
  <2>1. g3 \in Heaps
    BY <1>1, <1>3, <1>9, PutType
  <2> QED
    BY <1>1, <1>2, <1>9, <2>1, PutGet
<1> HIDE DEF g3
<1>11. /\ g4 \in Heaps /\ g4.balance = h.balance
       /\ \A t \in TreeSlots(Keys) : Get(g4, t) = IF t = <<B, dir>> THEN C ELSE Get(g3, t)
  <2>1. g4 \in Heaps
    BY <1>3, <1>4, <1>10, PutType
  <2> QED
    BY <1>2, <1>4, <1>10, <2>1, PutGet
<1> HIDE DEF g4
<1>12. /\ g5 \in Heaps /\ g5.balance = h.balance
       /\ \A t \in TreeSlots(Keys) : Get(g5, t) = IF t = <<F, 1 - dir>> THEN E ELSE Get(g4, t)
  <2>1. g5 \in Heaps
    BY <1>3, <1>4, <1>11, PutType
  <2> QED
    BY <1>2, <1>4, <1>11, <2>1, PutGet
<1> HIDE DEF g5
<1>13. /\ m \in Heaps /\ m.balance = h.balance
       /\ Turned(h, m, <<B, dir>>, 1 - dir, F, D)
  BY Rotate2Turns
<1> HIDE DEF m
<1>14. \A t \in TreeSlots(Keys) :
         Get(m, t) = IF t = <<B, dir>> THEN D
                     ELSE IF t = <<D, dir>> THEN F
                     ELSE IF t = <<F, 1 - dir>> THEN E
                     ELSE Get(h, t)
  BY <1>1, <1>13 DEF Turned, E
<1>15. /\ B # F /\ top # <<B, dir>> /\ top # <<F, dir>> /\ top # <<F, 1 - dir>>
  <2>1. B # F
    BY PairBounds
  <2> QED
    BY <1>1, <2>1, TopOutside
<1>16. F # D /\ B # D
  <2>1. F # D /\ <<B, dir>> # <<D, 1 - (1 - dir)>>
    BY PairBounds
  <2> QED
    BY <1>1, <2>1
<1>17. top # <<D, dir>> /\ top # <<D, 1 - dir>>
  <2>1. ASSUME NEW d \in Dirs, top = <<D, d>> PROVE FALSE
    <3>1. /\ B # F /\ B \in Int /\ F \in Int
          /\ lo[B] = Lo(lo, top) /\ hi[B] = Hi(hi, top)
          /\ dir = 1 => lo[F] = B /\ hi[F] = hi[B] /\ lo[B] < B /\ B < F /\ F < hi[B]
          /\ dir = 0 => lo[F] = lo[B] /\ hi[F] = B /\ lo[B] < F /\ F < B /\ B < hi[B]
          /\ top # <<B, dir>> /\ top # <<F, 1 - dir>>
      BY PairBounds
    <3>2. /\ F # D /\ F \in Int /\ D \in Int
          /\ lo[F] = Lo(lo, <<B, dir>>) /\ hi[F] = Hi(hi, <<B, dir>>)
          /\ 1 - dir = 1 => lo[D] = F /\ hi[D] = hi[F] /\ lo[F] < F /\ F < D /\ D < hi[F]
          /\ 1 - dir = 0 => lo[D] = lo[F] /\ hi[D] = F /\ lo[F] < D /\ D < F /\ F < hi[F]
          /\ <<B, dir>> # <<F, 1 - dir>> /\ <<B, dir>> # <<D, 1 - (1 - dir)>>
      BY PairBounds
    <3>3. Hi(hi, <<D, 0>>) = D /\ Lo(lo, <<D, 1>>) = D
      BY <1>1, SlotEnds
    <3>4. lo[B] \in Int /\ hi[B] \in Int
      BY DEF Shape, Bounds, Pair
    <3>5. d = 0 \/ d = 1
      BY DEF Dirs
    <3>6. CASE dir = 1
      BY <2>1, <3>1, <3>2, <3>3, <3>4, <3>5, <3>6
    <3>7. CASE dir = 0
      BY <2>1, <3>1, <3>2, <3>3, <3>4, <3>5, <3>7
    <3> QED
      BY <1>1, <3>6, <3>7 DEF Dirs
  <2> QED
    BY <1>1, <2>1
<1>18. /\ <<B, dir>> # <<D, dir>> /\ <<B, dir>> # <<D, 1 - dir>> /\ <<B, dir>> # <<F, 1 - dir>>
       /\ <<D, dir>> # <<D, 1 - dir>> /\ <<D, dir>> # <<F, 1 - dir>> /\ <<D, 1 - dir>> # <<F, 1 - dir>>
  BY <1>1, <1>15, <1>16
<1>19. Pair(m, L, top, dir, B, D)
  <2>1. Get(m, top) = B /\ Get(m, <<B, dir>>) = D
    BY <1>2, <1>5, <1>14, <1>15, <1>17
  <2> QED
    BY <2>1 DEF Pair
<1>20. Get(m, <<D, 1 - dir>>) = C
  BY <1>2, <1>14, <1>18 DEF C
<1>21. Turned(m, g5, top, dir, B, D)
  <2> SUFFICES ASSUME NEW t \in TreeSlots(Keys)
               PROVE  Get(g5, t) = IF t = top THEN D
                                   ELSE IF t = <<D, 1 - dir>> THEN B
                                   ELSE IF t = <<B, dir>> THEN C
                                   ELSE Get(m, t)
    BY <1>20 DEF Turned
  <2>1. Get(g5, t) = IF t = <<F, 1 - dir>> THEN E
                     ELSE IF t = <<B, dir>> THEN C
                     ELSE IF t = <<D, dir>> THEN F
                     ELSE IF t = <<D, 1 - dir>> THEN B
                     ELSE IF t = top THEN D ELSE Get(h, t)
    BY <1>8, <1>9, <1>10, <1>11, <1>12
  <2>2. Get(m, t) = IF t = <<B, dir>> THEN D
                    ELSE IF t = <<D, dir>> THEN F
                    ELSE IF t = <<F, 1 - dir>> THEN E
                    ELSE Get(h, t)
    BY <1>14
  <2> QED
    BY <2>1, <2>2, <1>15, <1>17, <1>18
<1> QED
  BY <1>7, <1>12, <1>13, <1>19, <1>21

-----------------------------------------------------------------------------
(* The way to a key.                                                       *)

\* The ends of a slot's interval are nodes, or the ends of all intervals.
LEMMA SlotEnded ==
  ASSUME NEW L, L \subseteq Keys, NEW lo, NEW hi, Ended(L, lo, hi), NEW s \in TreeSlots(L)
  PROVE  Lo(lo, s) \in L \cup {Bottom} /\ Hi(hi, s) \in L \cup {Ceil}
<1>1. CASE s = RootSlot
  BY <1>1 DEF Lo, Hi
<1>2. ASSUME NEW n \in L, s = <<n, 0>> PROVE Lo(lo, s) \in L \cup {Bottom} /\ Hi(hi, s) \in L \cup {Ceil}
  <2>1. Lo(lo, <<n, 0>>) = lo[n] /\ Hi(hi, <<n, 0>>) = n
    BY SlotEnds
  <2> QED
    BY <1>2, <2>1 DEF Ended
<1>3. ASSUME NEW n \in L, s = <<n, 1>> PROVE Lo(lo, s) \in L \cup {Bottom} /\ Hi(hi, s) \in L \cup {Ceil}
  <2>1. Lo(lo, <<n, 1>>) = n /\ Hi(hi, <<n, 1>>) = hi[n]
    BY SlotEnds
  <2> QED
    BY <1>3, <2>1 DEF Ended
<1> QED
  BY <1>1, <1>2, <1>3, SlotKinds

\* Of the empty slots, one is where a key belongs.
LEMMA OneGap ==
  ASSUME NEW L, L \subseteq Keys, NEW lo \in Bounds(L), NEW hi \in Bounds(L),
         Ended(L, lo, hi), Bounded(L, lo, hi),
         NEW s \in TreeSlots(L), NEW t \in TreeSlots(L), NEW k \in Int,
         Lo(lo, s) <= k, k < Hi(hi, s), Lo(lo, t) <= k, k < Hi(hi, t),
         \A x \in L : ~ Inside(lo, hi, s, x), \A x \in L : ~ Inside(lo, hi, t, x)
  PROVE  s = t
<1>1. /\ Lo(lo, s) \in Int /\ Hi(hi, s) \in Int
      /\ Lo(lo, t) \in Int /\ Hi(hi, t) \in Int
  BY SlotNumbers
<1>2. /\ Lo(lo, s) \in L \cup {Bottom} /\ Hi(hi, s) \in L \cup {Ceil}
      /\ Lo(lo, t) \in L \cup {Bottom} /\ Hi(hi, t) \in L \cup {Ceil}
  BY SlotEnded
<1>3. \A x \in L : Bottom < x /\ x < Ceil
  BY Sentinels
<1>4. Lo(lo, s) = Lo(lo, t)
  BY <1>1, <1>2, <1>3, Sentinels DEF Inside
<1>5. Hi(hi, s) = Hi(hi, t)
  BY <1>1, <1>2, <1>3, Sentinels DEF Inside
<1> QED
  BY <1>4, <1>5, OneSlot

\* Of the nodes below a slot, those whose interval has the key are the node in
\* the slot and nodes below it on the side of the key.
LEMMA OnTheWay ==
  ASSUME NEW h, NEW L, L \subseteq Keys, NEW lo, NEW hi, Shape(h, L, lo, hi),
         NEW s \in TreeSlots(L), Get(h, s) # Null, NEW k \in Int,
         NEW n \in L, Inside(lo, hi, s, n), lo[n] <= k, k < hi[n], n # Get(h, s)
  PROVE  Inside(lo, hi, <<Get(h, s), Direction(k, Get(h, s))>>, n)
<1> DEFINE B == Get(h, s)
<1>1. B \in L /\ lo[B] = Lo(lo, s) /\ hi[B] = Hi(hi, s)
  BY DEF Shape, Placed
<1> HIDE DEF B
<1>2. /\ Lo(lo, <<B, 0>>) = lo[B] /\ Hi(hi, <<B, 0>>) = B
      /\ Lo(lo, <<B, 1>>) = B /\ Hi(hi, <<B, 1>>) = hi[B]
  BY <1>1, SlotEnds
<1>3. /\ lo[B] < n /\ n < B => lo[n] >= lo[B] /\ hi[n] <= B
      /\ B < n /\ n < hi[B] => lo[n] >= B /\ hi[n] <= hi[B]
  BY <1>1 DEF Shape, Nested
<1>4. lo[B] < n /\ n < hi[B] /\ n # B
  BY <1>1 DEF Inside, B
<1>5. lo[B] \in Int /\ hi[B] \in Int /\ lo[n] \in Int /\ hi[n] \in Int /\ B \in Int /\ n \in Int
  BY <1>1, KeysAreNumbers DEF Shape, Bounds
<1>6. Inside(lo, hi, <<B, Direction(k, B)>>, n)
  BY <1>2, <1>3, <1>4, <1>5 DEF Inside, Direction
<1> QED
  BY <1>6 DEF B

\* The key of a node is met on the way to it.
LEMMA WayDown ==
  ASSUME NEW h, NEW L, L \subseteq Keys, NEW lo, NEW hi, Shape(h, L, lo, hi),
         NEW n \in L, NEW k \in L, lo[n] < k, k < hi[n], k # n
  PROVE  /\ Get(h, <<n, Direction(k, n)>>) \in L
         /\ Inside(lo, hi, <<n, Direction(k, n)>>, k)
<1>1. /\ Lo(lo, <<n, 0>>) = lo[n] /\ Hi(hi, <<n, 0>>) = n
      /\ Lo(lo, <<n, 1>>) = n /\ Hi(hi, <<n, 1>>) = hi[n]
  BY SlotEnds
<1>2. Inside(lo, hi, <<n, Direction(k, n)>>, k)
  BY <1>1, KeysAreNumbers DEF Inside, Direction
<1>3. <<n, Direction(k, n)>> \in TreeSlots(L)
  BY DirectionType, SlotsOf
<1> QED
  BY <1>2, <1>3 DEF Shape, Placed

-----------------------------------------------------------------------------
(* A new leaf.                                                             *)

GrownLo(L, lo, s, k) == [n \in L \cup {k} |-> IF n = k THEN Lo(lo, s) ELSE lo[n]]
GrownHi(L, hi, s, k) == [n \in L \cup {k} |-> IF n = k THEN Hi(hi, s) ELSE hi[n]]

\* The links when k has been put in the slot s: g is h but for that.
Grown(h, g, s, k) ==
  \A t \in TreeSlots(Keys) :
    Get(g, t) = IF t = s THEN k ELSE IF t[1] = k THEN Null ELSE Get(h, t)

LEMMA GrownShape ==
  ASSUME NEW h, NEW L, L \subseteq Keys, NEW lo, NEW hi, Shape(h, L, lo, hi),
         NEW s \in TreeSlots(L), Get(h, s) = Null, NEW k \in Keys, Inside(lo, hi, s, k),
         NEW g, Grown(h, g, s, k)
  PROVE  k \notin L /\ Shape(g, L \cup {k}, GrownLo(L, lo, s, k), GrownHi(L, hi, s, k))
<1> DEFINE M == L \cup {k}
           lo1 == GrownLo(L, lo, s, k)
           hi1 == GrownHi(L, hi, s, k)
           l == Lo(lo, s)
           r == Hi(hi, s)
<1>1. \A x \in L : ~ (l < x /\ x < r)
  BY DEF Shape, Placed, Inside
<1>2. l < k /\ k < r
  BY DEF Inside
<1>3. k \notin L
  BY <1>1, <1>2
<1>4. l \in Int /\ r \in Int /\ L \subseteq Int /\ k \in Int /\ M \subseteq Keys /\ k # Null
  BY SlotNumbers, KeysAreNumbers DEF Shape
<1>5. l \in L \cup {Bottom} /\ r \in L \cup {Ceil}
  BY SlotEnded DEF Shape
<1>6. /\ lo1[k] = l /\ hi1[k] = r
      /\ \A n \in L : lo1[n] = lo[n] /\ hi1[n] = hi[n]
      /\ lo1 \in [M -> Int] /\ hi1 \in [M -> Int]
  BY <1>3, <1>4 DEF GrownLo, GrownHi, Shape, Bounds
<1> HIDE DEF lo1, hi1, l, r
<1>7. \A n \in L : lo[n] \in Int /\ hi[n] \in Int
  BY DEF Shape, Bounds
<1>8. Ended(M, lo1, hi1)
  BY <1>2, <1>5, <1>6 DEF Shape, Ended
<1>9. Nested(M, lo1, hi1)
  <2> SUFFICES ASSUME NEW a \in M, NEW b \in M
               PROVE  /\ lo1[a] < b /\ b < a => lo1[b] >= lo1[a] /\ hi1[b] <= a
                      /\ a < b /\ b < hi1[a] => lo1[b] >= a /\ hi1[b] <= hi1[a]
    BY DEF Nested
  <2>1. CASE a \in L /\ b \in L
    BY <2>1, <1>6 DEF Shape, Nested
  <2>2. CASE a = k /\ b \in L
    BY <2>2, <1>1, <1>2, <1>4, <1>6
  <2>3. CASE a \in L /\ b = k
    <3>1. lo[a] \in L \cup {Bottom} /\ hi[a] \in L \cup {Ceil}
      BY <2>3 DEF Shape, Ended
    <3>2. \A x \in Keys : Bottom < x /\ x < Ceil
      BY Sentinels
    <3> QED
      BY <2>3, <3>1, <3>2, <1>1, <1>2, <1>4, <1>5, <1>6, <1>7, Sentinels
  <2>4. CASE a = k /\ b = k
    BY <2>4, <1>4
  <2> QED
    BY <2>1, <2>2, <2>3, <2>4
<1>10. Bounded(M, lo1, hi1)
  <2>1. ASSUME NEW a \in L
        PROVE  /\ lo1[a] \in M => a < hi1[lo1[a]]
               /\ hi1[a] \in M => lo1[hi1[a]] < a
    <3>1. /\ lo[a] \in L \cup {Bottom} /\ hi[a] \in L \cup {Ceil}
          /\ Bottom < k /\ k < Ceil
      BY Sentinels DEF Shape, Ended
    <3>2. lo[a] # k /\ hi[a] # k
      BY <3>1, <1>3, <1>4, Sentinels
    <3> QED
      BY <3>2, <1>6 DEF Shape, Bounded
  <2>2. /\ l \in M => k < hi1[l]
        /\ r \in M => lo1[r] < k
    <3>1. l # k /\ r # k
      BY <1>2, <1>4
    <3>2. CASE s = RootSlot
      BY <3>1, <3>2, Sentinels, KeysAreNumbers DEF l, r, Lo, Hi
    <3>3. ASSUME NEW n \in L, s = <<n, 0>>
          PROVE  /\ l \in M => k < hi1[l]
                 /\ r \in M => lo1[r] < k
      <4>1. l = lo[n] /\ r = n
        BY <3>3, SlotEnds DEF l, r
      <4>2. lo[n] \in L => n < hi[lo[n]]
        BY DEF Shape, Bounded
      <4> QED
        BY <3>1, <4>1, <4>2, <1>2, <1>4, <1>6, <1>7
    <3>4. ASSUME NEW n \in L, s = <<n, 1>>
          PROVE  /\ l \in M => k < hi1[l]
                 /\ r \in M => lo1[r] < k
      <4>1. l = n /\ r = hi[n]
        BY <3>4, SlotEnds DEF l, r
      <4>2. hi[n] \in L => lo[hi[n]] < n
        BY DEF Shape, Bounded
      <4> QED
        BY <3>1, <4>1, <4>2, <1>2, <1>4, <1>6, <1>7
    <3> QED
      BY <3>2, <3>3, <3>4, SlotKinds
  <2> QED
    BY <2>1, <2>2, <1>6 DEF Bounded
<1>11. Placed(g, M, lo1, hi1)
  <2> SUFFICES ASSUME NEW t \in TreeSlots(M)
               PROVE  /\ Get(g, t) = Null => \A x \in M : ~ Inside(lo1, hi1, t, x)
                      /\ Get(g, t) # Null => /\ Get(g, t) \in M
                                             /\ lo1[Get(g, t)] = Lo(lo1, t)
                                             /\ hi1[Get(g, t)] = Hi(hi1, t)
    BY DEF Placed
  <2>1. t \in TreeSlots(Keys)
    BY <1>4 DEF TreeSlots
  <2>2. CASE t \in TreeSlots(L)
    <3>1. Lo(lo1, t) = Lo(lo, t) /\ Hi(hi1, t) = Hi(hi, t)
      <4>1. CASE t = RootSlot
        BY <4>1 DEF Lo, Hi
      <4>2. CASE t # RootSlot
        BY <4>2, <2>2, SlotCases, <1>6 DEF Lo, Hi
      <4> QED
        BY <4>1, <4>2
    <3>2. t[1] # k
      BY <2>2, <1>3, <1>4, SlotCases DEF RootSlot
    <3>3. CASE t = s
      BY <2>1, <3>1, <3>3, <1>4, <1>6 DEF Grown, l, r
    <3>4. CASE t # s
      <4>1. Get(g, t) = Get(h, t)
        BY <2>1, <3>2, <3>4 DEF Grown
      <4>2. CASE Get(h, t) = Null
        <5>1. \A x \in L : ~ Inside(lo, hi, t, x)
          BY <2>2, <4>2 DEF Shape, Placed
        <5>2. ~ Inside(lo, hi, t, k)
          <6> SUFFICES ASSUME Inside(lo, hi, t, k) PROVE FALSE
            OBVIOUS
          <6>1. Lo(lo, t) <= k /\ k < Hi(hi, t) /\ Lo(lo, s) <= k /\ k < Hi(hi, s)
            <7>1. Lo(lo, t) \in Int /\ Hi(hi, t) \in Int
              BY <2>2, SlotNumbers DEF Shape
            <7> QED
              BY <7>1, <1>2, <1>4 DEF Inside, l, r
          <6>2. \A x \in L : ~ Inside(lo, hi, s, x)
            BY DEF Shape, Placed
          <6>3. s = t
            BY <2>2, <5>1, <6>1, <6>2, <1>4, OneGap DEF Shape
          <6> QED
            BY <6>3, <3>4
        <5> QED
          BY <3>1, <4>1, <4>2, <5>1, <5>2 DEF Inside
      <4>3. CASE Get(h, t) # Null
        BY <2>2, <3>1, <4>1, <4>3, <1>6 DEF Shape, Placed
      <4> QED
        BY <4>2, <4>3
    <3> QED
      BY <3>3, <3>4
  <2>3. CASE t \notin TreeSlots(L)
    <3>1. t = <<k, 0>> \/ t = <<k, 1>>
      BY <2>3, <1>3 DEF TreeSlots, Dirs
    <3>2. t # s /\ t[1] = k
      BY <2>3, <3>1
    <3>3. Get(g, t) = Null
      BY <2>1, <3>2 DEF Grown
    <3>4. /\ Lo(lo1, <<k, 0>>) = lo1[k] /\ Hi(hi1, <<k, 0>>) = k
          /\ Lo(lo1, <<k, 1>>) = k /\ Hi(hi1, <<k, 1>>) = hi1[k]
      BY SlotEnds
    <3>5. \A x \in M : ~ Inside(lo1, hi1, t, x)
      BY <3>1, <3>4, <1>1, <1>2, <1>4, <1>6 DEF Inside
    <3> QED
      BY <3>3, <3>5
  <2> QED
    BY <2>2, <2>3
<1> QED
  BY <1>3, <1>6, <1>8, <1>9, <1>10, <1>11 DEF Shape, Bounds, lo1, hi1

-----------------------------------------------------------------------------
(* A node with an empty slot is taken out.                                 *)

CutLo(L, lo, x) == [n \in L \ {x} |-> IF lo[n] = x THEN lo[x] ELSE lo[n]]
CutHi(L, hi, x) == [n \in L \ {x} |-> IF hi[n] = x THEN hi[x] ELSE hi[n]]

\* The links when the other child of x is in its place, the slot s.
Cut(h, g, L, s, x, e) ==
  \A t \in TreeSlots(L \ {x}) :
    Get(g, t) = IF t = s THEN Get(h, <<x, 1 - e>>) ELSE Get(h, t)

LEMMA CutShape ==
  ASSUME NEW h, NEW L, L \subseteq Keys, NEW lo, NEW hi, Shape(h, L, lo, hi),
         NEW s \in TreeSlots(L), NEW x \in L, Get(h, s) = x,
         NEW e \in Dirs, Get(h, <<x, e>>) = Null,
         NEW g, Cut(h, g, L, s, x, e)
  PROVE  /\ s \in TreeSlots(L \ {x})
         /\ Shape(g, L \ {x}, CutLo(L, lo, x), CutHi(L, hi, x))
<1> DEFINE M == L \ {x}
           lo1 == CutLo(L, lo, x)
           hi1 == CutHi(L, hi, x)
<1>1. L \subseteq Int /\ x \in Int /\ x # Null /\ M \subseteq L /\ M \subseteq Keys
  BY KeysAreNumbers
<1>2. \A n \in L : lo[n] \in Int /\ hi[n] \in Int /\ lo[n] < n /\ n < hi[n]
  BY DEF Shape, Bounds, Ended
<1>3. /\ \A n \in M : lo1[n] = IF lo[n] = x THEN lo[x] ELSE lo[n]
      /\ \A n \in M : hi1[n] = IF hi[n] = x THEN hi[x] ELSE hi[n]
      /\ lo1 \in [M -> Int] /\ hi1 \in [M -> Int]
  BY <1>2 DEF CutLo, CutHi
<1> HIDE DEF lo1, hi1
<1>4. /\ Lo(lo, <<x, 0>>) = lo[x] /\ Hi(hi, <<x, 0>>) = x
      /\ Lo(lo, <<x, 1>>) = x /\ Hi(hi, <<x, 1>>) = hi[x]
  BY SlotEnds
<1>5. <<x, e>> \in TreeSlots(L) /\ (e = 0 \/ e = 1)
  BY SlotsOf DEF Dirs
<1>6. \A y \in L : ~ Inside(lo, hi, <<x, e>>, y)
  BY <1>5 DEF Shape, Placed
<1>7. e = 0 => \A y \in L : ~ (lo[x] < y /\ y < x)
  BY <1>4, <1>6 DEF Inside
<1>8. e = 1 => \A y \in L : ~ (x < y /\ y < hi[x])
  BY <1>4, <1>6 DEF Inside
<1>9. e = 0 => \A y \in L : hi[y] # x
  BY <1>1, <1>2, <1>7 DEF Shape, Bounded
<1>10. e = 1 => \A y \in L : lo[y] # x
  BY <1>1, <1>2, <1>8 DEF Shape, Bounded
<1>11. Ended(M, lo1, hi1)
  <2>1. lo[x] \in M \cup {Bottom} /\ hi[x] \in M \cup {Ceil}
    BY <1>2 DEF Shape, Ended
  <2> QED
    BY <2>1, <1>1, <1>2, <1>3 DEF Shape, Ended
<1>12. Nested(M, lo1, hi1)
  <2> SUFFICES ASSUME NEW a \in M, NEW b \in M
               PROVE  /\ lo1[a] < b /\ b < a => lo1[b] >= lo1[a] /\ hi1[b] <= a
                      /\ a < b /\ b < hi1[a] => lo1[b] >= a /\ hi1[b] <= hi1[a]
    BY DEF Nested
  <2>1. /\ lo[a] < b /\ b < a => lo[b] >= lo[a] /\ hi[b] <= a
        /\ a < b /\ b < hi[a] => lo[b] >= a /\ hi[b] <= hi[a]
    BY DEF Shape, Nested
  <2>2. /\ lo1[a] = IF lo[a] = x THEN lo[x] ELSE lo[a]
        /\ lo1[b] = IF lo[b] = x THEN lo[x] ELSE lo[b]
        /\ hi1[a] = IF hi[a] = x THEN hi[x] ELSE hi[a]
        /\ hi1[b] = IF hi[b] = x THEN hi[x] ELSE hi[b]
    BY <1>3
  <2>3. /\ a \in Int /\ b \in Int /\ a # x /\ b # x
        /\ lo[a] \in Int /\ hi[a] \in Int /\ lo[b] \in Int /\ hi[b] \in Int
        /\ lo[x] \in Int /\ hi[x] \in Int
        /\ lo[x] < x /\ x < hi[x] /\ lo[a] < a /\ a < hi[a] /\ lo[b] < b /\ b < hi[b]
    BY <1>1, <1>2
  <2>a. /\ lo[a] < x /\ x < a => lo[x] >= lo[a] /\ hi[x] <= a
        /\ a < x /\ x < hi[a] => lo[x] >= a /\ hi[x] <= hi[a]
    BY DEF Shape, Nested
  <2>4. CASE e = 0
    <3>1. hi[a] # x /\ hi[b] # x /\ ~ (lo[x] < b /\ b < x) /\ ~ (lo[x] < a /\ a < x)
      BY <2>4, <1>7, <1>9
    <3> QED
      BY <2>1, <2>2, <2>3, <2>a, <3>1, <1>1
  <2>5. CASE e = 1
    <3>1. lo[a] # x /\ lo[b] # x /\ ~ (x < b /\ b < hi[x]) /\ ~ (x < a /\ a < hi[x])
      BY <2>5, <1>8, <1>10
    <3> QED
      BY <2>1, <2>2, <2>3, <2>a, <3>1, <1>1
  <2> QED
    BY <2>4, <2>5, <1>5
<1>13. Bounded(M, lo1, hi1)
  <2> SUFFICES ASSUME NEW a \in M
               PROVE  /\ lo1[a] \in M => a < hi1[lo1[a]]
                      /\ hi1[a] \in M => lo1[hi1[a]] < a
    BY DEF Bounded
  <2>1. /\ lo[a] \in L => a < hi[lo[a]]
        /\ hi[a] \in L => lo[hi[a]] < a
    BY DEF Shape, Bounded
  <2>2. /\ lo[x] \in L => x < hi[lo[x]]
        /\ hi[x] \in L => lo[hi[x]] < x
    BY DEF Shape, Bounded
  <2>3. /\ lo[x] \in L => hi[x] <= hi[lo[x]]
        /\ hi[x] \in L => lo[hi[x]] <= lo[x]
    BY <2>2, <1>2 DEF Shape, Nested
  <2> QED
    BY <2>1, <2>2, <2>3, <1>1, <1>2, <1>3, <1>5, <1>9, <1>10
<1>14. lo[x] = Lo(lo, s) /\ hi[x] = Hi(hi, s)
  BY <1>1 DEF Shape, Placed
<1>15. s \in TreeSlots(M)
  BY <1>1, <1>2, <1>4, <1>14, SlotKinds DEF TreeSlots, Dirs
<1>16. Placed(g, M, lo1, hi1)
  <2> SUFFICES ASSUME NEW t \in TreeSlots(M)
               PROVE  /\ Get(g, t) = Null => \A y \in M : ~ Inside(lo1, hi1, t, y)
                      /\ Get(g, t) # Null => /\ Get(g, t) \in M
                                             /\ lo1[Get(g, t)] = Lo(lo1, t)
                                             /\ hi1[Get(g, t)] = Hi(hi1, t)
    BY DEF Placed
  <2>1. t \in TreeSlots(L)
    BY DEF TreeSlots
  <2>2. /\ Lo(lo1, t) = IF Lo(lo, t) = x THEN lo[x] ELSE Lo(lo, t)
        /\ Hi(hi1, t) = IF Hi(hi, t) = x THEN hi[x] ELSE Hi(hi, t)
    <3>1. CASE t = RootSlot
      BY <3>1, Sentinels DEF Lo, Hi
    <3>2. ASSUME NEW n \in M, t = <<n, 0>>
          PROVE  /\ Lo(lo1, t) = IF Lo(lo, t) = x THEN lo[x] ELSE Lo(lo, t)
                 /\ Hi(hi1, t) = IF Hi(hi, t) = x THEN hi[x] ELSE Hi(hi, t)
      <4>1. Lo(lo, <<n, 0>>) = lo[n] /\ Hi(hi, <<n, 0>>) = n
        BY SlotEnds
      <4>2. Lo(lo1, <<n, 0>>) = lo1[n] /\ Hi(hi1, <<n, 0>>) = n
        BY SlotEnds
      <4> QED
        BY <3>2, <4>1, <4>2, <1>3
    <3>3. ASSUME NEW n \in M, t = <<n, 1>>
          PROVE  /\ Lo(lo1, t) = IF Lo(lo, t) = x THEN lo[x] ELSE Lo(lo, t)
                 /\ Hi(hi1, t) = IF Hi(hi, t) = x THEN hi[x] ELSE Hi(hi, t)
      <4>1. Lo(lo, <<n, 1>>) = n /\ Hi(hi, <<n, 1>>) = hi[n]
        BY SlotEnds
      <4>2. Lo(lo1, <<n, 1>>) = n /\ Hi(hi1, <<n, 1>>) = hi1[n]
        BY SlotEnds
      <4> QED
        BY <3>3, <4>1, <4>2, <1>3
    <3>4. t = RootSlot \/ \E n \in M : t = <<n, 0>> \/ t = <<n, 1>>
      BY <1>1, SlotKinds
    <3> QED
      BY <3>1, <3>2, <3>3, <3>4
  <2>a. /\ e = 0 => Hi(hi, t) # x
        /\ e = 1 => Lo(lo, t) # x
    <3>1. CASE t = RootSlot
      BY <3>1, Sentinels DEF Lo, Hi
    <3>2. CASE t # RootSlot
      <4>1. t[1] \in M /\ t[2] \in Dirs
        BY <3>2, <1>1, SlotCases
      <4> QED
        BY <3>2, <4>1, <1>9, <1>10 DEF Lo, Hi
    <3> QED
      BY <3>1, <3>2
  <2>3. CASE t = s
    <3> DEFINE c == Get(h, <<x, 1 - e>>)
    <3>1. Get(g, t) = c
      BY <2>3 DEF Cut
    <3>2. Lo(lo1, t) = lo[x] /\ Hi(hi1, t) = hi[x]
      BY <2>2, <2>3, <1>2, <1>14
    <3>3. <<x, 1 - e>> \in TreeSlots(L)
      BY <1>5, SlotsOf DEF Dirs
    <3>4. CASE c = Null
      <4>1. \A y \in L : ~ Inside(lo, hi, <<x, 1 - e>>, y)
        BY <3>3, <3>4 DEF Shape, Placed
      <4>2. \A y \in M : ~ (lo[x] < y /\ y < hi[x])
        BY <4>1, <1>1, <1>4, <1>5, <1>6 DEF Inside
      <4> QED
        BY <3>1, <3>2, <3>4, <4>2 DEF Inside
    <3>5. CASE c # Null
      <4>1. c \in L /\ lo[c] = Lo(lo, <<x, 1 - e>>) /\ hi[c] = Hi(hi, <<x, 1 - e>>)
        BY <3>3, <3>5 DEF Shape, Placed
      <4> HIDE DEF c
      <4>2. CASE e = 0
        BY <4>1, <4>2, <3>1, <3>2, <3>5, <1>1, <1>2, <1>3, <1>4, <1>9
      <4>3. CASE e = 1
        BY <4>1, <4>3, <3>1, <3>2, <3>5, <1>1, <1>2, <1>3, <1>4, <1>10
      <4> QED
        BY <4>2, <4>3, <1>5
    <3> QED
      BY <3>4, <3>5
  <2>4. CASE t # s
    <3>1. Get(g, t) = Get(h, t)
      BY <2>4 DEF Cut
    <3>2. CASE Get(h, t) = Null
      <4>1. \A y \in L : ~ Inside(lo, hi, t, y)
        BY <2>1, <3>2 DEF Shape, Placed
      <4>2. \A y \in M : ~ Inside(lo1, hi1, t, y)
        <5> SUFFICES ASSUME NEW y \in M, Lo(lo1, t) < y, y < Hi(hi1, t) PROVE FALSE
          BY DEF Inside
        <5>1. Lo(lo, t) \in Int /\ Hi(hi, t) \in Int /\ lo[x] \in Int /\ hi[x] \in Int /\ y \in Int
          BY <2>1, <1>1, <1>2, SlotNumbers DEF Shape
        <5>2. y # x /\ y \in L /\ ~ (Lo(lo, t) < y /\ y < Hi(hi, t))
          BY <4>1 DEF Inside
        <5>3. CASE e = 0
          <6>1. ~ (lo[x] < y /\ y < x) /\ Hi(hi1, t) = Hi(hi, t)
            BY <5>3, <2>a, <2>2, <1>7
          <6> QED
            BY <5>1, <5>2, <6>1, <2>2, <1>1
        <5>4. CASE e = 1
          <6>1. ~ (x < y /\ y < hi[x]) /\ Lo(lo1, t) = Lo(lo, t)
            BY <5>4, <2>a, <2>2, <1>8
          <6> QED
            BY <5>1, <5>2, <6>1, <2>2, <1>1
        <5> QED
          BY <5>3, <5>4, <1>5
      <4> QED
        BY <3>1, <3>2, <4>2
    <3>3. CASE Get(h, t) # Null
      <4>1. Get(h, t) \in L /\ lo[Get(h, t)] = Lo(lo, t) /\ hi[Get(h, t)] = Hi(hi, t)
        BY <2>1, <3>3 DEF Shape, Placed
      <4>2. Get(h, t) # x
        BY <2>1, <2>4, <3>3, OneParent
      <4>3. Get(h, t) \in M
        BY <4>1, <4>2
      <4>4. lo1[Get(h, t)] = Lo(lo1, t) /\ hi1[Get(h, t)] = Hi(hi1, t)
        BY <4>1, <4>3, <2>2, <1>3
      <4> QED
        BY <3>1, <3>3, <4>3, <4>4
    <3> QED
      BY <3>2, <3>3
  <2> QED
    BY <2>3, <2>4
<1> QED
  BY <1>3, <1>11, <1>12, <1>13, <1>15, <1>16 DEF Shape, Bounds, lo1, hi1

-----------------------------------------------------------------------------
(* A node takes the place of another one, its neighbour in the order.      *)

Named(k, m, v) == IF v = k THEN m ELSE v

Replaced(L, k, m) == (L \ {k}) \cup {m}

NamedLo(L, lo, k, m) == [n \in Replaced(L, k, m) |-> Named(k, m, lo[IF n = m THEN k ELSE n])]
NamedHi(L, hi, k, m) == [n \in Replaced(L, k, m) |-> Named(k, m, hi[IF n = m THEN k ELSE n])]

\* The links when m hangs from the slot s of k and has the children of k.
Renamed(h, g, L, s, k, m) ==
  \A t \in TreeSlots(Replaced(L, k, m)) :
    Get(g, t) = IF t = s THEN m ELSE IF t[1] = m THEN Get(h, <<k, t[2]>>) ELSE Get(h, t)

LEMMA RenamedShape ==
  ASSUME NEW h, NEW L, L \subseteq Keys, NEW lo, NEW hi, Shape(h, L, lo, hi),
         NEW s \in TreeSlots(L), NEW k \in L, Get(h, s) = k,
         NEW m \in Keys, m \notin L, k < m, \A x \in L : x > k => x > m,
         NEW g, Renamed(h, g, L, s, k, m)
  PROVE  /\ s \in TreeSlots(Replaced(L, k, m))
         /\ Shape(g, Replaced(L, k, m), NamedLo(L, lo, k, m), NamedHi(L, hi, k, m))
<1> DEFINE M == Replaced(L, k, m)
           lo1 == NamedLo(L, lo, k, m)
           hi1 == NamedHi(L, hi, k, m)
           Old(n) == IF n = m THEN k ELSE n
           E == L \cup {Bottom, Ceil}
           F(v) == Named(k, m, v)
<1>1. /\ L \subseteq Int /\ k \in Int /\ m \in Int /\ k # Null /\ m # Null /\ k # m
      /\ M \subseteq Keys /\ M \subseteq Int /\ m \in M
  BY KeysAreNumbers DEF Replaced
<1>2. \A n \in L : lo[n] \in Int /\ hi[n] \in Int /\ lo[n] < n /\ n < hi[n]
  BY DEF Shape, Bounds, Ended
<1>3. /\ Bottom \in Int /\ Ceil \in Int /\ \A x \in Keys : Bottom < x /\ x < Ceil
      /\ Bottom < m /\ m < Ceil /\ Bottom < k /\ k < Ceil
  BY Sentinels
\* F keeps the order of nodes and ends, and Old undoes it.
<1>4. \A v \in E : F(v) \in Int
  BY <1>1, <1>3 DEF Named
<1>5. \A v, w \in E : v < w => F(v) < F(w)
  BY <1>1, <1>3 DEF Named
<1>6. \A v, w \in E : v <= w => F(v) <= F(w)
  BY <1>1, <1>3 DEF Named
<1>7. \A n \in M : Old(n) \in L /\ F(Old(n)) = n
  BY <1>1 DEF Replaced, Named
<1>8. \A n \in L : F(n) \in M /\ Old(F(n)) = n
  BY <1>1 DEF Replaced, Named
<1>9. \A n \in L : lo[n] \in L \cup {Bottom} /\ hi[n] \in L \cup {Ceil} /\ lo[n] \in E /\ hi[n] \in E
  BY DEF Shape, Ended
<1>10. \A n \in M : lo1[n] = F(lo[Old(n)])
  BY DEF NamedLo
<1>11. \A n \in M : hi1[n] = F(hi[Old(n)])
  BY DEF NamedHi
<1>12. F(Bottom) = Bottom /\ F(Ceil) = Ceil
  BY <1>3 DEF Named
<1>13. lo1 \in Bounds(M) /\ hi1 \in Bounds(M)
  <2>1. \A n \in M : F(lo[Old(n)]) \in Int /\ F(hi[Old(n)]) \in Int
    <3> HIDE DEF F, Old, E, M
    <3> QED
      BY <1>4, <1>7, <1>9
  <2> QED
    BY <2>1 DEF NamedLo, NamedHi, Bounds
<1>14. \A v \in L \cup {Bottom} : F(v) \in M \cup {Bottom}
  <2> HIDE DEF F, M
  <2> QED
    BY <1>8, <1>12
<1>15. \A v \in L \cup {Ceil} : F(v) \in M \cup {Ceil}
  <2> HIDE DEF F, M
  <2> QED
    BY <1>8, <1>12
<1>16. \A v, w \in E : F(v) < F(w) => v < w
  BY <1>1, <1>3 DEF Named
<1>17. L \subseteq E
  OBVIOUS
<1> HIDE DEF F, Old, E, M, lo1, hi1
<1>18. \A n \in M : \E p \in L : p = Old(n) /\ n = F(p) /\ lo1[n] = F(lo[p]) /\ hi1[n] = F(hi[p])
  BY <1>7, <1>10, <1>11
<1>19. Ended(M, lo1, hi1)
  <2> SUFFICES ASSUME NEW n \in M
               PROVE  /\ lo1[n] \in M \cup {Bottom} /\ hi1[n] \in M \cup {Ceil}
                      /\ lo1[n] < n /\ n < hi1[n]
    BY DEF Ended
  <2>1. PICK p \in L : p = Old(n) /\ n = F(p) /\ lo1[n] = F(lo[p]) /\ hi1[n] = F(hi[p])
    BY <1>18
  <2>2. lo[p] < p /\ p < hi[p] /\ lo[p] \in E /\ hi[p] \in E /\ p \in E
    BY <1>2, <1>9, <1>17
  <2>3. F(lo[p]) < F(p) /\ F(p) < F(hi[p])
    BY <2>2, <1>5
  <2> QED
    BY <2>1, <2>3, <1>9, <1>14, <1>15
<1>20. Nested(M, lo1, hi1)
  <2> SUFFICES ASSUME NEW a \in M, NEW b \in M
               PROVE  /\ lo1[a] < b /\ b < a => lo1[b] >= lo1[a] /\ hi1[b] <= a
                      /\ a < b /\ b < hi1[a] => lo1[b] >= a /\ hi1[b] <= hi1[a]
    BY DEF Nested
  <2>1. PICK p \in L : p = Old(a) /\ a = F(p) /\ lo1[a] = F(lo[p]) /\ hi1[a] = F(hi[p])
    BY <1>18
  <2>2. PICK q \in L : q = Old(b) /\ b = F(q) /\ lo1[b] = F(lo[q]) /\ hi1[b] = F(hi[q])
    BY <1>18
  <2>3. /\ lo[p] < q /\ q < p => lo[q] >= lo[p] /\ hi[q] <= p
        /\ p < q /\ q < hi[p] => lo[q] >= p /\ hi[q] <= hi[p]
    BY DEF Shape, Nested
  <2>4. p \in E /\ q \in E /\ lo[p] \in E /\ hi[p] \in E /\ lo[q] \in E /\ hi[q] \in E
    BY <1>9, <1>17
  <2>5. /\ F(p) \in Int /\ F(q) \in Int /\ F(lo[p]) \in Int /\ F(hi[p]) \in Int
        /\ F(lo[q]) \in Int /\ F(hi[q]) \in Int
        /\ p \in Int /\ q \in Int /\ lo[p] \in Int /\ hi[p] \in Int /\ lo[q] \in Int /\ hi[q] \in Int
    BY <2>4, <1>1, <1>2, <1>4
  <2>6. ASSUME F(lo[p]) < F(q), F(q) < F(p) PROVE F(lo[q]) >= F(lo[p]) /\ F(hi[q]) <= F(p)
    <3>1. lo[p] < q /\ q < p
      BY <2>4, <2>6, <1>16
    <3>2. lo[p] <= lo[q] /\ hi[q] <= p
      BY <3>1, <2>3, <2>5
    <3>3. F(lo[p]) <= F(lo[q]) /\ F(hi[q]) <= F(p)
      BY <3>2, <2>4, <1>6
    <3> QED
      BY <3>3, <2>5
  <2>7. ASSUME F(p) < F(q), F(q) < F(hi[p]) PROVE F(lo[q]) >= F(p) /\ F(hi[q]) <= F(hi[p])
    <3>1. p < q /\ q < hi[p]
      BY <2>4, <2>7, <1>16
    <3>2. p <= lo[q] /\ hi[q] <= hi[p]
      BY <3>1, <2>3, <2>5
    <3>3. F(p) <= F(lo[q]) /\ F(hi[q]) <= F(hi[p])
      BY <3>2, <2>4, <1>6
    <3> QED
      BY <3>3, <2>5
  <2> QED
    BY <2>1, <2>2, <2>6, <2>7
<1>21. \A v \in L \cup {Bottom} : F(v) \in M => v \in L
  <2>1. Bottom \notin M
    BY <1>1, <1>3
  <2> QED
    BY <2>1, <1>12
<1>22. \A v \in L \cup {Ceil} : F(v) \in M => v \in L
  <2>1. Ceil \notin M
    BY <1>1, <1>3
  <2> QED
    BY <2>1, <1>12
<1>23. \A p \in L : F(p) \in M /\ lo1[F(p)] = F(lo[p]) /\ hi1[F(p)] = F(hi[p])
  BY <1>8, <1>10, <1>11
<1>24. Bounded(M, lo1, hi1)
  <2> SUFFICES ASSUME NEW a \in M
               PROVE  /\ lo1[a] \in M => a < hi1[lo1[a]]
                      /\ hi1[a] \in M => lo1[hi1[a]] < a
    BY DEF Bounded
  <2>1. PICK p \in L : p = Old(a) /\ a = F(p) /\ lo1[a] = F(lo[p]) /\ hi1[a] = F(hi[p])
    BY <1>18
  <2>2. /\ lo[p] \in L => p < hi[lo[p]]
        /\ hi[p] \in L => lo[hi[p]] < p
    BY DEF Shape, Bounded
  <2>3. ASSUME lo1[a] \in M PROVE a < hi1[lo1[a]]
    <3>1. lo[p] \in L
      BY <2>1, <2>3, <1>9, <1>21
    <3>2. p < hi[lo[p]] /\ p \in E /\ hi[lo[p]] \in E
      BY <3>1, <2>2, <1>9, <1>17
    <3> QED
      BY <3>1, <3>2, <2>1, <1>5, <1>23
  <2>4. ASSUME hi1[a] \in M PROVE lo1[hi1[a]] < a
    <3>1. hi[p] \in L
      BY <2>1, <2>4, <1>9, <1>22
    <3>2. lo[hi[p]] < p /\ p \in E /\ lo[hi[p]] \in E
      BY <3>1, <2>2, <1>9, <1>17
    <3> QED
      BY <3>1, <3>2, <2>1, <1>5, <1>23
  <2> QED
    BY <2>3, <2>4
<1>25. lo[k] = Lo(lo, s) /\ hi[k] = Hi(hi, s)
  BY <1>1 DEF Shape, Placed
<1>26. /\ Lo(lo, <<k, 0>>) = lo[k] /\ Hi(hi, <<k, 0>>) = k
       /\ Lo(lo, <<k, 1>>) = k /\ Hi(hi, <<k, 1>>) = hi[k]
  BY SlotEnds
<1>27. s \in TreeSlots(M)
  <2>1. s # <<k, 0>> /\ s # <<k, 1>>
    BY <1>2, <1>25, <1>26
  <2> QED
    BY <2>1, SlotKinds DEF TreeSlots, Dirs, M, Replaced
<1>28. Placed(g, M, lo1, hi1)
  <2> SUFFICES ASSUME NEW t \in TreeSlots(M)
               PROVE  /\ Get(g, t) = Null => \A y \in M : ~ Inside(lo1, hi1, t, y)
                      /\ Get(g, t) # Null => /\ Get(g, t) \in M
                                             /\ lo1[Get(g, t)] = Lo(lo1, t)
                                             /\ hi1[Get(g, t)] = Hi(hi1, t)
    BY DEF Placed
  <2>1. \E u \in TreeSlots(L) :
          /\ Lo(lo1, t) = F(Lo(lo, u)) /\ Hi(hi1, t) = F(Hi(hi, u))
          /\ Get(g, t) = IF u = s THEN m ELSE Get(h, u)
    <3>1. CASE t = RootSlot
      <4>1. t[1] # m
        BY <3>1, <1>1 DEF RootSlot
      <4>2. RootSlot \in TreeSlots(L)
        BY DEF TreeSlots
      <4>3. Get(g, t) = IF t = s THEN m ELSE Get(h, t)
        BY <4>1 DEF Renamed, M
      <4>4. Lo(lo1, t) = F(Lo(lo, t)) /\ Hi(hi1, t) = F(Hi(hi, t))
        BY <3>1, <1>12 DEF Lo, Hi
      <4> QED
        BY <3>1, <4>2, <4>3, <4>4
    <3>2. CASE t # RootSlot
      <4>1. t[1] \in M /\ t[2] \in Dirs /\ t = <<t[1], t[2]>>
        BY <3>2, <1>1, SlotCases
      <4>2. PICK p \in L : /\ p = Old(t[1]) /\ t[1] = F(p)
                           /\ lo1[t[1]] = F(lo[p]) /\ hi1[t[1]] = F(hi[p])
        BY <4>1, <1>18
      <4> DEFINE u == <<p, t[2]>>
      <4>3. u \in TreeSlots(L) /\ u # RootSlot
        BY <4>1, SlotsOf, <1>1, KeysAreNumbers DEF RootSlot
      <4>4. Lo(lo1, t) = F(Lo(lo, u)) /\ Hi(hi1, t) = F(Hi(hi, u))
        BY <3>2, <4>1, <4>2, <4>3 DEF Lo, Hi
      <4>5. CASE t[1] = m
        <5>1. p = k
          BY <4>2, <4>5 DEF Old
        <5>2. u # s
          BY <4>1, <5>1, <1>2, <1>25, <1>26 DEF Dirs
        <5>3. t # s
          <6>1. s = RootSlot \/ s[1] \in L
            BY SlotCases
          <6> QED
            BY <3>2, <4>5, <6>1
        <5>4. Get(g, t) = Get(h, u)
          BY <4>5, <5>1, <5>3 DEF Renamed, M
        <5> QED
          BY <4>3, <4>4, <5>2, <5>4
      <4>6. CASE t[1] # m
        <5>1. u = t
          BY <4>1, <4>2, <4>6 DEF Old
        <5>2. Get(g, t) = IF t = s THEN m ELSE Get(h, t)
          BY <4>6 DEF Renamed, M
        <5> QED
          BY <4>3, <4>4, <5>1, <5>2
      <4> QED
        BY <4>5, <4>6
    <3> QED
      BY <3>1, <3>2
  <2>2. PICK u \in TreeSlots(L) :
          /\ Lo(lo1, t) = F(Lo(lo, u)) /\ Hi(hi1, t) = F(Hi(hi, u))
          /\ Get(g, t) = IF u = s THEN m ELSE Get(h, u)
    BY <2>1
  <2>3. CASE u = s
    <3>1. m = F(k)
      BY DEF F, Named
    <3> QED
      BY <2>2, <2>3, <3>1, <1>1, <1>23, <1>25
  <2>4. CASE u # s /\ Get(h, u) = Null
    <3>1. \A y \in L : ~ Inside(lo, hi, u, y)
      BY <2>4 DEF Shape, Placed
    <3>2. Lo(lo, u) \in E /\ Hi(hi, u) \in E
      BY SlotEnded DEF Shape, E
    <3>3. ASSUME NEW y \in M PROVE ~ Inside(lo1, hi1, t, y)
      <4>1. PICK p \in L : p = Old(y) /\ y = F(p) /\ lo1[y] = F(lo[p]) /\ hi1[y] = F(hi[p])
        BY <1>18
      <4>2. p \in E
        BY <1>17
      <4> QED
        BY <3>1, <3>2, <4>1, <4>2, <2>2, <1>16 DEF Inside
    <3> QED
      BY <3>3, <2>2, <2>4
  <2>5. CASE u # s /\ Get(h, u) # Null
    <3>1. Get(h, u) \in L /\ lo[Get(h, u)] = Lo(lo, u) /\ hi[Get(h, u)] = Hi(hi, u)
      BY <2>5 DEF Shape, Placed
    <3>2. Get(h, u) # k
      BY <2>5, OneParent
    <3>3. F(Get(h, u)) = Get(h, u)
      BY <3>2 DEF F, Named
    <3> QED
      BY <2>2, <2>5, <3>1, <3>3, <1>23
  <2> QED
    BY <2>3, <2>4, <2>5
<1> QED
  BY <1>13, <1>19, <1>20, <1>24, <1>27, <1>28 DEF Shape, M, lo1, hi1

-----------------------------------------------------------------------------
(***************************************************************************)
(* That AvlTree stays an AVL search tree: the invariant that the links,    *)
(* the balance fields and the slots held by the running call keep, and     *)
(* what follows from it.                                                   *)
(***************************************************************************)

(* What rotations do to the links around them.                             *)

\* Nodes outside T keep their intervals, and so does the near side of B.
Keeps(L, lo, hi, lo1, hi1, dir, B, T) ==
  /\ \A n \in L \ T : lo1[n] = lo[n] /\ hi1[n] = hi[n]
  /\ dir = 1 => lo1[B] = lo[B]
  /\ dir = 0 => hi1[B] = hi[B]

\* Nodes outside T keep their links, which lead to none of T, but for top.
LinksOutside(h, g, L, top, T) ==
  \A n \in L \ T, d \in Dirs :
    <<n, d>> # top => Get(g, <<n, d>>) = Get(h, <<n, d>>) /\ Get(h, <<n, d>>) \notin T

Links2(h, g, top, dir, B, D) ==
  /\ Get(g, top) = D
  /\ Get(g, <<D, 1 - dir>>) = B
  /\ Get(g, <<B, dir>>) = Get(h, <<D, 1 - dir>>)
  /\ Get(g, <<D, dir>>) = Get(h, <<D, dir>>)
  /\ Get(g, <<B, 1 - dir>>) = Get(h, <<B, 1 - dir>>)

\* The children that the nodes of T bring along are none of T.
Brings2(h, dir, B, D) ==
  /\ Get(h, <<D, 1 - dir>>) \notin {B, D}
  /\ Get(h, <<D, dir>>) \notin {B, D}
  /\ Get(h, <<B, 1 - dir>>) \notin {B, D}

Raised2(h, g, L, lo, hi, top, dir, B, D) ==
  /\ Shape(g, L, TurnLo(lo, dir, B, D), TurnHi(hi, dir, B, D))
  /\ Keeps(L, lo, hi, TurnLo(lo, dir, B, D), TurnHi(hi, dir, B, D), dir, B, {B, D})
  /\ LinksOutside(h, g, L, top, {B, D})
  /\ Links2(h, g, top, dir, B, D)
  /\ Brings2(h, dir, B, D)
  /\ B # D

LEMMA Raise2 ==
  ASSUME NEW h, NEW L, L \subseteq Keys, NEW lo, NEW hi, Shape(h, L, lo, hi),
         NEW top, NEW dir, NEW B, NEW D, Pair(h, L, top, dir, B, D),
         NEW g, Turned(h, g, top, dir, B, D)
  PROVE  Raised2(h, g, L, lo, hi, top, dir, B, D)
<1>1. /\ B \in L /\ D \in L /\ B \in Keys /\ D \in Keys /\ B # Null /\ D # Null
      /\ dir \in Dirs /\ 1 - dir \in Dirs /\ dir # 1 - dir /\ 1 - (1 - dir) = dir
      /\ top \in TreeSlots(L)
      /\ Get(h, top) = B /\ Get(h, <<B, dir>>) = D
  BY KeysAreNumbers DEF Pair, Dirs
<1>2. /\ B # D /\ B \in Int /\ D \in Int
      /\ lo[B] = Lo(lo, top) /\ hi[B] = Hi(hi, top)
      /\ dir = 1 => lo[D] = B /\ hi[D] = hi[B] /\ lo[B] < B /\ B < D /\ D < hi[B]
      /\ dir = 0 => lo[D] = lo[B] /\ hi[D] = B /\ lo[B] < D /\ D < B /\ B < hi[B]
      /\ top # <<B, dir>> /\ top # <<D, 1 - dir>>
  BY PairBounds
<1>3. Keeps(L, lo, hi, TurnLo(lo, dir, B, D), TurnHi(hi, dir, B, D), dir, B, {B, D})
  <2>1. TurnFacts(h, L, lo, hi, TurnLo(lo, dir, B, D), TurnHi(hi, dir, B, D), top, dir, B, D)
    BY TurnBounds
  <2>2. CASE dir = 1
    BY <2>1, <2>2, <1>2 DEF TurnFacts, Keeps
  <2>3. CASE dir = 0
    BY <2>1, <2>3, <1>2 DEF TurnFacts, Keeps
  <2> QED
    BY <2>2, <2>3, <1>1 DEF Dirs
<1>4. Shape(g, L, TurnLo(lo, dir, B, D), TurnHi(hi, dir, B, D))
  BY TurnShape
<1>5. \A n \in L, d \in Dirs : <<n, d>> \in TreeSlots(L) /\ <<n, d>> \in TreeSlots(Keys)
  BY DEF TreeSlots
<1>6. top \in TreeSlots(Keys)
  BY <1>1 DEF TreeSlots
<1>7. \A s \in TreeSlots(L) : s # top /\ s # <<B, dir>> => Get(h, s) \notin {B, D}
  <2> SUFFICES ASSUME NEW s \in TreeSlots(L), s # top, s # <<B, dir>>
               PROVE  Get(h, s) \notin {B, D}
    OBVIOUS
  <2>1. Get(h, s) # B
    BY <1>1, OneParent
  <2>2. Get(h, s) # D
    <3>1. <<B, dir>> \in TreeSlots(L)
      BY <1>1, <1>5
    <3> QED
      BY <1>1, <3>1, OneParent
  <2> QED
    BY <2>1, <2>2
<1>8. LinksOutside(h, g, L, top, {B, D})
  <2> SUFFICES ASSUME NEW n \in L \ {B, D}, NEW d \in Dirs, <<n, d>> # top
               PROVE  Get(g, <<n, d>>) = Get(h, <<n, d>>) /\ Get(h, <<n, d>>) \notin {B, D}
    BY DEF LinksOutside
  <2>1. <<n, d>> # <<B, dir>> /\ <<n, d>> # <<D, 1 - dir>>
    OBVIOUS
  <2>2. Get(g, <<n, d>>) = Get(h, <<n, d>>)
    BY <2>1, <1>5 DEF Turned
  <2> QED
    BY <2>1, <2>2, <1>5, <1>7
<1>9. \A d \in Dirs : top # <<B, d>> /\ top # <<D, d>>
  BY TopOutside
<1>10. /\ <<D, dir>> # <<D, 1 - dir>> /\ <<B, dir>> # <<B, 1 - dir>>
       /\ <<D, dir>> # <<B, dir>> /\ <<D, 1 - dir>> # <<B, dir>>
       /\ <<B, 1 - dir>> # <<D, 1 - dir>>
  BY <1>1, <1>2
<1>11. Brings2(h, dir, B, D)
  BY <1>1, <1>5, <1>7, <1>9, <1>10 DEF Brings2
<1>12. Links2(h, g, top, dir, B, D)
  <2>1. Get(g, top) = D
    BY <1>6 DEF Turned
  <2>2. Get(g, <<D, 1 - dir>>) = B
    BY <1>1, <1>5, <1>9 DEF Turned
  <2>3. Get(g, <<B, dir>>) = Get(h, <<D, 1 - dir>>)
    BY <1>1, <1>5, <1>9, <1>10 DEF Turned
  <2>4. Get(g, <<D, dir>>) = Get(h, <<D, dir>>)
    BY <1>1, <1>5, <1>9, <1>10 DEF Turned
  <2>5. Get(g, <<B, 1 - dir>>) = Get(h, <<B, 1 - dir>>)
    BY <1>1, <1>5, <1>9, <1>10 DEF Turned
  <2> QED
    BY <2>1, <2>2, <2>3, <2>4, <2>5 DEF Links2
<1> QED
  BY <1>2, <1>3, <1>4, <1>8, <1>11, <1>12 DEF Raised2

Links3(h, g, top, dir, B, F, D) ==
  /\ Get(g, top) = D
  /\ Get(g, <<D, 1 - dir>>) = B
  /\ Get(g, <<D, dir>>) = F
  /\ Get(g, <<B, dir>>) = Get(h, <<D, 1 - dir>>)
  /\ Get(g, <<F, 1 - dir>>) = Get(h, <<D, dir>>)
  /\ Get(g, <<B, 1 - dir>>) = Get(h, <<B, 1 - dir>>)
  /\ Get(g, <<F, dir>>) = Get(h, <<F, dir>>)

Brings3(h, dir, B, F, D) ==
  /\ Get(h, <<D, 1 - dir>>) \notin {B, F, D}
  /\ Get(h, <<D, dir>>) \notin {B, F, D}
  /\ Get(h, <<B, 1 - dir>>) \notin {B, F, D}
  /\ Get(h, <<F, dir>>) \notin {B, F, D}

LEMMA Raise3 ==
  ASSUME NEW h \in Heaps, NEW L, L \subseteq Keys, NEW lo, NEW hi, Shape(h, L, lo, hi),
         NEW top, NEW dir, NEW B, NEW F, NEW D,
         Pair(h, L, top, dir, B, F), Pair(h, L, <<B, dir>>, 1 - dir, F, D)
  PROVE  /\ Rotate3(h, top, dir) \in Heaps
         /\ Rotate3(h, top, dir).balance = h.balance
         /\ \E lo1, hi1 : /\ Shape(Rotate3(h, top, dir), L, lo1, hi1)
                          /\ Keeps(L, lo, hi, lo1, hi1, dir, B, {B, F, D})
         /\ LinksOutside(h, Rotate3(h, top, dir), L, top, {B, F, D})
         /\ Links3(h, Rotate3(h, top, dir), top, dir, B, F, D)
         /\ Brings3(h, dir, B, F, D)
         /\ B # F /\ B # D /\ F # D
<1> DEFINE g == Rotate3(h, top, dir)
           lo0 == TurnLo(lo, 1 - dir, F, D)
           hi0 == TurnHi(hi, 1 - dir, F, D)
           lo1 == TurnLo(lo0, dir, B, D)
           hi1 == TurnHi(hi0, dir, B, D)
<1>0. /\ B \in L /\ D \in L /\ F \in L
      /\ dir \in Dirs /\ 1 - dir \in Dirs /\ dir # 1 - dir /\ 1 - (1 - dir) = dir
  BY DEF Pair, Dirs
<1>1. /\ g \in Heaps
      /\ g.balance = h.balance
      /\ \E m \in Heaps :
           /\ Turned(h, m, <<B, dir>>, 1 - dir, F, D)
           /\ Pair(m, L, top, dir, B, D)
           /\ Turned(m, g, top, dir, B, D)
  BY Rotate3Turns
<1> HIDE DEF g
<1>2. PICK m \in Heaps :
           /\ Turned(h, m, <<B, dir>>, 1 - dir, F, D)
           /\ Pair(m, L, top, dir, B, D)
           /\ Turned(m, g, top, dir, B, D)
  BY <1>1
<1>3. /\ Shape(m, L, lo0, hi0)
      /\ Keeps(L, lo, hi, lo0, hi0, 1 - dir, F, {F, D})
      /\ LinksOutside(h, m, L, <<B, dir>>, {F, D})
      /\ Links2(h, m, <<B, dir>>, 1 - dir, F, D)
      /\ Brings2(h, 1 - dir, F, D)
      /\ F # D
  <2>1. Raised2(h, m, L, lo, hi, <<B, dir>>, 1 - dir, F, D)
    BY <1>2, Raise2
  <2> QED
    BY <2>1 DEF Raised2
<1> HIDE DEF lo0, hi0
<1>4. /\ Shape(g, L, lo1, hi1)
      /\ Keeps(L, lo0, hi0, lo1, hi1, dir, B, {B, D})
      /\ LinksOutside(m, g, L, top, {B, D})
      /\ Links2(m, g, top, dir, B, D)
      /\ Brings2(m, dir, B, D)
      /\ B # D
  <2>1. Raised2(m, g, L, lo0, hi0, top, dir, B, D)
    BY <1>2, <1>3, Raise2
  <2> QED
    BY <2>1 DEF Raised2
<1> HIDE DEF lo1, hi1
<1>5. B # F
  BY PairBounds
<1>6. Keeps(L, lo, hi, lo1, hi1, dir, B, {B, F, D})
  BY <1>0, <1>3, <1>4, <1>5 DEF Keeps
<1>7. \A d \in Dirs : top # <<B, d>> /\ top # <<F, d>>
  BY TopOutside
<1>8. \A d \in Dirs : top # <<B, d>> /\ top # <<D, d>>
  BY <1>2, <1>3, TopOutside
<1>9. Links3(h, g, top, dir, B, F, D)
  <2>1. /\ Get(g, top) = D
        /\ Get(g, <<D, 1 - dir>>) = B
        /\ Get(g, <<B, dir>>) = Get(m, <<D, 1 - dir>>)
        /\ Get(g, <<D, dir>>) = Get(m, <<D, dir>>)
        /\ Get(g, <<B, 1 - dir>>) = Get(m, <<B, 1 - dir>>)
    BY <1>4 DEF Links2
  <2>2. /\ Get(m, <<D, dir>>) = F
        /\ Get(m, <<F, 1 - dir>>) = Get(h, <<D, dir>>)
        /\ Get(m, <<D, 1 - dir>>) = Get(h, <<D, 1 - dir>>)
        /\ Get(m, <<F, dir>>) = Get(h, <<F, dir>>)
    BY <1>0, <1>3 DEF Links2
  <2>3. Get(g, <<F, dir>>) = Get(m, <<F, dir>>) /\ Get(g, <<F, 1 - dir>>) = Get(m, <<F, 1 - dir>>)
    <3>1. F \in L \ {B, D}
      BY <1>0, <1>3, <1>5
    <3>2. <<F, dir>> # top /\ <<F, 1 - dir>> # top
      BY <1>0, <1>7
    <3> QED
      BY <1>0, <1>4, <3>1, <3>2 DEF LinksOutside
  <2>4. Get(m, <<B, 1 - dir>>) = Get(h, <<B, 1 - dir>>)
    <3>1. B \in L \ {F, D} /\ <<B, 1 - dir>> # <<B, dir>>
      BY <1>0, <1>4, <1>5
    <3> QED
      BY <1>0, <1>3, <3>1 DEF LinksOutside
  <2> QED
    BY <2>1, <2>2, <2>3, <2>4 DEF Links3
<1>10. /\ Get(h, top) = B /\ Get(h, <<B, dir>>) = F /\ top \in TreeSlots(L)
       /\ B # Null /\ B \in Keys
  BY <1>0, KeysAreNumbers DEF Pair
<1>11. \A s \in TreeSlots(L) : s # top => Get(h, s) # B
  BY <1>10, OneParent
<1>12. \A n \in L, d \in Dirs : <<n, d>> # top => Get(h, <<n, d>>) # B
  BY <1>11 DEF TreeSlots
<1>13. Brings3(h, dir, B, F, D)
  <2>1. Get(h, <<D, 1 - dir>>) # B /\ Get(h, <<D, dir>>) # B
    BY <1>0, <1>8, <1>12
  <2>2. Get(h, <<B, 1 - dir>>) # B /\ Get(h, <<F, dir>>) # B
    BY <1>0, <1>7, <1>12
  <2>3. Get(h, <<D, 1 - dir>>) \notin {F, D} /\ Get(h, <<D, dir>>) \notin {F, D} /\ Get(h, <<F, dir>>) \notin {F, D}
    BY <1>0, <1>3 DEF Brings2
  <2>4. Get(h, <<B, 1 - dir>>) \notin {F, D}
    <3>1. B \in L \ {F, D} /\ <<B, 1 - dir>> # <<B, dir>>
      BY <1>0, <1>4, <1>5
    <3> QED
      BY <1>0, <1>3, <3>1 DEF LinksOutside
  <2> QED
    BY <2>1, <2>2, <2>3, <2>4 DEF Brings3
<1>14. LinksOutside(h, g, L, top, {B, F, D})
  <2> SUFFICES ASSUME NEW n \in L \ {B, F, D}, NEW d \in Dirs, <<n, d>> # top
               PROVE  Get(g, <<n, d>>) = Get(h, <<n, d>>) /\ Get(h, <<n, d>>) \notin {B, F, D}
    BY DEF LinksOutside
  <2>1. Get(g, <<n, d>>) = Get(m, <<n, d>>)
    BY <1>4 DEF LinksOutside
  <2>2. <<n, d>> # <<B, dir>>
    OBVIOUS
  <2>3. Get(m, <<n, d>>) = Get(h, <<n, d>>) /\ Get(h, <<n, d>>) \notin {F, D}
    BY <2>2, <1>3 DEF LinksOutside
  <2> QED
    BY <2>1, <2>3, <1>12
<1> QED
  BY <1>1, <1>3, <1>4, <1>5, <1>6, <1>9, <1>13, <1>14 DEF g

\* A shape is a matter of the links only.
LEMMA SameShape ==
  ASSUME NEW h, NEW g, \A t : Get(g, t) = Get(h, t),
         NEW L, NEW lo, NEW hi, Shape(h, L, lo, hi)
  PROVE  Shape(g, L, lo, hi)
  BY DEF Shape, Placed

LEMMA AvlRotate2Does ==
  ASSUME NEW h \in Heaps, NEW L, L \subseteq Keys, NEW lo, NEW hi, Shape(h, L, lo, hi),
         NEW top, NEW dir, NEW B, NEW D, Pair(h, L, top, dir, B, D)
  PROVE  /\ AvlRotate2(h, top, dir) \in Heaps
         /\ AvlRotate2(h, top, dir).balance = [h.balance EXCEPT ![B] = -1, ![D] = -1]
         /\ Turned(h, AvlRotate2(h, top, dir), top, dir, B, D)
<1> DEFINE level == SetBalance(h, B, -1)
           turned == Rotate2(level, top, dir)
           g == SetBalance(turned, D, -1)
<1>1. B \in Keys /\ D \in Keys /\ Get(h, top) = B
  BY DEF Pair
<1>2. level \in Heaps
  BY SetBalanceType
<1>3. level.balance = [h.balance EXCEPT ![B] = -1] /\ \A t : Get(level, t) = Get(h, t)
  BY <1>1, SetBalanceGet
<1> HIDE DEF level
<1>4. Shape(level, L, lo, hi)
  BY <1>3, SameShape
<1>5. Pair(level, L, top, dir, B, D)
  BY <1>3 DEF Pair
<1>6. turned \in Heaps /\ turned.balance = level.balance /\ Turned(level, turned, top, dir, B, D)
  BY <1>2, <1>4, <1>5, Rotate2Turns
<1> HIDE DEF turned
<1>7. Turned(h, turned, top, dir, B, D)
  BY <1>3, <1>6 DEF Turned
<1>8. Get(turned, top) = D
  <2>1. top \in TreeSlots(Keys)
    BY DEF Pair, TreeSlots
  <2> QED
    BY <2>1, <1>7 DEF Turned
<1>9. /\ g \in Heaps /\ g.balance = [turned.balance EXCEPT ![D] = -1]
      /\ \A t : Get(g, t) = Get(turned, t)
  <2>1. g \in Heaps
    BY <1>6, SetBalanceType
  <2> QED
    BY <2>1, <1>1, <1>6, SetBalanceGet
<1> HIDE DEF g
<1>10. Turned(h, g, top, dir, B, D)
  BY <1>7, <1>9 DEF Turned
<1>11. AvlRotate2(h, top, dir) = g
  BY <1>1, <1>8 DEF AvlRotate2, level, turned, g
<1> QED
  BY <1>3, <1>6, <1>9, <1>10, <1>11

\* The balance fields after AvlRotate3.
Evened(b, third, dir, B, F, D) ==
  LET even == [b EXCEPT ![B] = -1, ![F] = -1, ![D] = -1]
  IN  IF third = -1 THEN even
      ELSE IF third = dir THEN [even EXCEPT ![B] = 1 - dir]
      ELSE [even EXCEPT ![F] = dir]

LEMMA AvlRotate3Does ==
  ASSUME NEW h \in Heaps, NEW L, L \subseteq Keys, NEW lo, NEW hi, Shape(h, L, lo, hi),
         NEW top, NEW dir, NEW B, NEW F, NEW D, NEW third,
         Pair(h, L, top, dir, B, F), Pair(h, L, <<B, dir>>, 1 - dir, F, D)
  PROVE  /\ AvlRotate3(h, top, dir, third) \in Heaps
         /\ AvlRotate3(h, top, dir, third).balance = Evened(h.balance, third, dir, B, F, D)
         /\ \E lo1, hi1 : /\ Shape(AvlRotate3(h, top, dir, third), L, lo1, hi1)
                          /\ Keeps(L, lo, hi, lo1, hi1, dir, B, {B, F, D})
         /\ LinksOutside(h, AvlRotate3(h, top, dir, third), L, top, {B, F, D})
         /\ Links3(h, AvlRotate3(h, top, dir, third), top, dir, B, F, D)
         /\ Brings3(h, dir, B, F, D)
         /\ B # F /\ B # D /\ F # D
<1> DEFINE level == SetBalance(SetBalance(SetBalance(h, B, -1), F, -1), D, -1)
           turned == Rotate3(level, top, dir)
           g == AvlRotate3(h, top, dir, third)
<1>1. /\ B \in Keys /\ F \in Keys /\ D \in Keys
      /\ Get(h, top) = B /\ Get(h, <<B, dir>>) = F /\ Get(h, <<F, 1 - dir>>) = D
      /\ dir \in Dirs /\ 1 - dir \in Dirs
  BY DEF Pair, Dirs
<1>2. /\ level \in Heaps /\ level.balance = [h.balance EXCEPT ![B] = -1, ![F] = -1, ![D] = -1]
      /\ \A t : Get(level, t) = Get(h, t)
  <2> DEFINE l1 == SetBalance(h, B, -1)
             l2 == SetBalance(l1, F, -1)
  <2>1. /\ l1 \in Heaps /\ l1.balance = [h.balance EXCEPT ![B] = -1]
        /\ \A t : Get(l1, t) = Get(h, t)
    <3>1. l1 \in Heaps
      BY SetBalanceType
    <3> QED
      BY <3>1, <1>1, SetBalanceGet
  <2> HIDE DEF l1
  <2>2. /\ l2 \in Heaps /\ l2.balance = [l1.balance EXCEPT ![F] = -1]
        /\ \A t : Get(l2, t) = Get(l1, t)
    <3>1. l2 \in Heaps
      BY <2>1, SetBalanceType
    <3> QED
      BY <2>1, <3>1, <1>1, SetBalanceGet
  <2> HIDE DEF l2
  <2>3. level = SetBalance(l2, D, -1)
    BY DEF l2, l1
  <2>4. /\ level \in Heaps /\ level.balance = [l2.balance EXCEPT ![D] = -1]
        /\ \A t : Get(level, t) = Get(l2, t)
    <3>1. level \in Heaps
      BY <2>2, <2>3, SetBalanceType
    <3> HIDE DEF level
    <3> QED
      BY <2>2, <2>3, <3>1, <1>1, SetBalanceGet
  <2> HIDE DEF level
  <2> QED
    BY <2>1, <2>2, <2>4
<1>3. Link(h, B, dir) = F /\ Link(h, F, 1 - dir) = D
  BY <1>1, LinkGet
<1>4. g = CASE third = -1  -> turned
            [] third = dir -> SetBalance(turned, B, 1 - dir)
            [] OTHER       -> SetBalance(turned, F, dir)
  BY <1>1, <1>3 DEF AvlRotate3
<1> HIDE DEF level, g
<1>5. Shape(level, L, lo, hi)
  BY <1>2, SameShape
<1>6. Pair(level, L, top, dir, B, F) /\ Pair(level, L, <<B, dir>>, 1 - dir, F, D)
  BY <1>2 DEF Pair
<1>7. /\ turned \in Heaps
      /\ turned.balance = level.balance
      /\ \E lo1, hi1 : /\ Shape(turned, L, lo1, hi1)
                       /\ Keeps(L, lo, hi, lo1, hi1, dir, B, {B, F, D})
      /\ LinksOutside(level, turned, L, top, {B, F, D})
      /\ Links3(level, turned, top, dir, B, F, D)
      /\ Brings3(level, dir, B, F, D)
      /\ B # F /\ B # D /\ F # D
  BY <1>2, <1>5, <1>6, Raise3
<1> HIDE DEF turned
<1>8. /\ LinksOutside(h, turned, L, top, {B, F, D})
      /\ Links3(h, turned, top, dir, B, F, D)
      /\ Brings3(h, dir, B, F, D)
  BY <1>2, <1>7 DEF LinksOutside, Links3, Brings3
<1>9. /\ g \in Heaps /\ \A t : Get(g, t) = Get(turned, t)
      /\ g.balance = Evened(h.balance, third, dir, B, F, D)
  <2>1. dir # -1 /\ dir \in {-1, 0, 1} /\ 1 - dir \in {-1, 0, 1}
    BY <1>1 DEF Dirs
  <2>2. CASE third = -1
    <3>1. g = turned
      BY <1>4, <2>1, <2>2
    <3>2. g.balance = [h.balance EXCEPT ![B] = -1, ![F] = -1, ![D] = -1]
      BY <1>2, <1>7, <3>1
    <3>3. Evened(h.balance, third, dir, B, F, D) = [h.balance EXCEPT ![B] = -1, ![F] = -1, ![D] = -1]
      BY <2>2 DEF Evened
    <3> QED
      BY <1>7, <3>1, <3>2, <3>3
  <2>3. CASE third = dir
    <3>1. g = SetBalance(turned, B, 1 - dir)
      BY <1>4, <2>1, <2>3
    <3>2. g \in Heaps
      BY <1>7, <2>1, <3>1, SetBalanceType
    <3>3. g.balance = [turned.balance EXCEPT ![B] = 1 - dir] /\ \A t : Get(g, t) = Get(turned, t)
      BY <1>1, <1>7, <3>1, SetBalanceGet
    <3> QED
      BY <1>2, <1>7, <2>1, <2>3, <3>2, <3>3 DEF Evened
  <2>4. CASE third # -1 /\ third # dir
    <3>1. g = SetBalance(turned, F, dir)
      BY <1>4, <2>4
    <3>2. g \in Heaps
      BY <1>7, <2>1, <3>1, SetBalanceType
    <3>3. g.balance = [turned.balance EXCEPT ![F] = dir] /\ \A t : Get(g, t) = Get(turned, t)
      BY <1>1, <1>7, <3>1, SetBalanceGet
    <3> QED
      BY <1>2, <1>7, <2>4, <3>2, <3>3 DEF Evened
  <2> QED
    BY <2>2, <2>3, <2>4
<1>10. \E lo1, hi1 : /\ Shape(g, L, lo1, hi1)
                     /\ Keeps(L, lo, hi, lo1, hi1, dir, B, {B, F, D})
  <2>1. PICK lo1, hi1 : /\ Shape(turned, L, lo1, hi1)
                        /\ Keeps(L, lo, hi, lo1, hi1, dir, B, {B, F, D})
    BY <1>7
  <2>2. Shape(g, L, lo1, hi1)
    BY <1>9, <2>1, SameShape
  <2> QED
    BY <2>1, <2>2
<1>11. LinksOutside(h, g, L, top, {B, F, D}) /\ Links3(h, g, top, dir, B, F, D)
  BY <1>8, <1>9 DEF LinksOutside, Links3
<1> QED
  BY <1>7, <1>8, <1>9, <1>10, <1>11 DEF g

-----------------------------------------------------------------------------
(* Heights.                                                                *)

Tall(ht, p) == IF p = Null THEN 0 ELSE ht[p]

Higher(a, b) == IF a < b THEN b ELSE a

\* own is the height above subtrees x, at side d, and y, and b says which is higher.
Weighs(b, d, own, x, y) ==
  /\ own = 1 + Higher(x, y)
  /\ \/ b = -1 /\ x = y
     \/ b = d /\ x = y + 1
     \/ b = 1 - d /\ y = x + 1

\* The balance field of n agrees with the heights that n sees below it.
Level(h, n, d, ht, seen) ==
  Weighs(h.balance[n], d, ht[n], Tall(seen, Get(h, <<n, d>>)), Tall(seen, Get(h, <<n, 1 - d>>)))

\* ht, but for one node that is seen higher, or lower, than it is.
Seen(ht, p, by) == [n \in DOMAIN ht |-> IF n = p THEN ht[n] + by ELSE ht[n]]

Heights(L) == [L -> Nat]
Views(L) == [L -> Int]

LEMMA TallType ==
  ASSUME NEW L, L \subseteq Keys, NEW seen \in Views(L), NEW p, p \in L \/ p = Null
  PROVE  Tall(seen, p) \in Int
  BY DEF Tall, Views

LEMMA SeenType ==
  ASSUME NEW L, NEW ht \in Heights(L), NEW p, NEW by \in Int
  PROVE  /\ Seen(ht, p, by) \in Views(L)
         /\ \A n \in L : Seen(ht, p, by)[n] = IF n = p THEN ht[n] + by ELSE ht[n]
  BY DEF Seen, Views, Heights

\* Where links lead.
LEMMA ChildType ==
  ASSUME NEW h, NEW L, L \subseteq Keys, NEW lo, NEW hi, Shape(h, L, lo, hi),
         NEW n \in L, NEW d \in Dirs
  PROVE  Get(h, <<n, d>>) \in L \/ Get(h, <<n, d>>) = Null
<1>1. <<n, d>> \in TreeSlots(L)
  BY DEF TreeSlots
<1> QED
  BY <1>1 DEF Shape, Placed

LEMMA NotShared ==
  ASSUME NEW h, NEW L, L \subseteq Keys, NEW lo, NEW hi, Shape(h, L, lo, hi),
         NEW n \in L, NEW d \in Dirs, NEW m \in L, NEW e \in Dirs, n # m \/ d # e,
         Get(h, <<n, d>>) # Null
  PROVE  Get(h, <<n, d>>) # Get(h, <<m, e>>)
<1>1. <<n, d>> \in TreeSlots(L) /\ <<m, e>> \in TreeSlots(L) /\ <<n, d>> # <<m, e>>
  BY DEF TreeSlots
<1> QED
  BY <1>1, OneParent

LEMMA NotOwnChild ==
  ASSUME NEW h, NEW L, L \subseteq Keys, NEW lo, NEW hi, Shape(h, L, lo, hi),
         NEW n \in L, NEW d \in Dirs
  PROVE  Get(h, <<n, d>>) # n
<1> SUFFICES ASSUME Get(h, <<n, d>>) = n PROVE FALSE
  OBVIOUS
<1>1. n # Null /\ n \in Int
  BY KeysAreNumbers
<1>2. CASE d = 0
  <2>1. /\ Get(h, <<n, 0>>) \in L
        /\ lo[Get(h, <<n, 0>>)] = lo[n] /\ hi[Get(h, <<n, 0>>)] = n
    <3>1. Get(h, <<n, 0>>) # Null
      BY <1>1, <1>2
    <3> QED
      BY <3>1, LeftChild
  <2> QED
    BY <1>1, <1>2, <2>1 DEF Shape, Ended
<1>3. CASE d = 1
  <2>1. /\ Get(h, <<n, 1>>) \in L
        /\ lo[Get(h, <<n, 1>>)] = n /\ hi[Get(h, <<n, 1>>)] = hi[n]
    <3>1. Get(h, <<n, 1>>) # Null
      BY <1>1, <1>3
    <3> QED
      BY <3>1, RightChild
  <2> QED
    BY <1>1, <1>3, <2>1 DEF Shape, Ended
<1> QED
  BY <1>2, <1>3 DEF Dirs

\* The two ways to look at a node.
LEMMA LevelSides ==
  ASSUME NEW h, NEW L, L \subseteq Keys, NEW lo, NEW hi, Shape(h, L, lo, hi),
         NEW n \in L, NEW d \in Dirs, NEW ht, NEW seen \in Views(L)
  PROVE  Level(h, n, d, ht, seen) <=> Level(h, n, 0, ht, seen)
<1>1. CASE d = 0
  BY <1>1
<1>2. CASE d = 1
  <2>1. /\ Get(h, <<n, 0>>) \in L \/ Get(h, <<n, 0>>) = Null
        /\ Get(h, <<n, 1>>) \in L \/ Get(h, <<n, 1>>) = Null
    BY ChildType DEF Dirs
  <2> DEFINE x == Tall(seen, Get(h, <<n, 0>>))
             y == Tall(seen, Get(h, <<n, 1>>))
  <2>2. x \in Int /\ y \in Int
    BY <2>1, TallType
  <2>3. /\ Level(h, n, 0, ht, seen) <=> Weighs(h.balance[n], 0, ht[n], x, y)
        /\ Level(h, n, 1, ht, seen) <=> Weighs(h.balance[n], 1, ht[n], y, x)
    BY DEF Level
  <2> HIDE DEF x, y
  <2>4. Higher(x, y) = Higher(y, x)
    BY <2>2 DEF Higher
  <2> QED
    BY <1>2, <2>2, <2>3, <2>4 DEF Weighs
<1> QED
  BY <1>1, <1>2 DEF Dirs

\* A node whose links lead to what is seen as before keeps its level.
LEMMA LevelKept ==
  ASSUME NEW h, NEW g, NEW n, NEW ht, NEW ht1, NEW seen, NEW seen1,
         Level(h, n, 0, ht, seen), g.balance[n] = h.balance[n], ht1[n] = ht[n],
         \A d \in Dirs : Tall(seen1, Get(g, <<n, d>>)) = Tall(seen, Get(h, <<n, d>>))
  PROVE  Level(g, n, 0, ht1, seen1)
  BY DEF Level, Dirs

\* q hangs from a node of T.
Hangs(h, T, q) == \E m \in T, e \in Dirs : q = Get(h, <<m, e>>)

\* f is as it was outside T.
Same(L, T, f, f1) == \A n \in L \ T : f1[n] = f[n]

\* All of X have their level.
Sound(h, X, ht, seen) == \A n \in X : Level(h, n, 0, ht, seen)

\* Outside T and q nothing is seen differently.
SeenAlike(L, T, q, seen, seen1) == \A c \in L \ T : c # q => seen1[c] = seen[c]

\* g is h after the nodes T under top, with B at their top, were moved so that
\* D is there now.
Moved(h, g, L, top, T, B, D) ==
  /\ L \subseteq Keys /\ \E lo, hi : Shape(h, L, lo, hi)
  /\ T \subseteq L /\ B \in T /\ D \in T
  /\ Get(h, top) = B /\ Get(g, top) = D
  /\ LinksOutside(h, g, L, top, T)
  /\ Same(L, T, h.balance, g.balance)

\* Nothing is seen differently from outside T.
Unseen(h, L, T, B, D, ht, ht1, seen, seen1) ==
  /\ Same(L, T, ht, ht1)
  /\ seen1[D] = seen[B]
  /\ \E q : Hangs(h, T, q) /\ SeenAlike(L, T, q, seen, seen1)

LEMMA LevelsOutside ==
  ASSUME NEW h, NEW g, NEW L, NEW top, NEW T, NEW B, NEW D, Moved(h, g, L, top, T, B, D),
         NEW ht, NEW ht1, NEW seen, NEW seen1, Unseen(h, L, T, B, D, ht, ht1, seen, seen1),
         NEW X, X \subseteq L, Sound(h, X, ht, seen)
  PROVE  Sound(g, X \ T, ht1, seen1)
<1>0. /\ L \subseteq Keys /\ T \subseteq L /\ B \in T /\ D \in T
      /\ Get(h, top) = B /\ Get(g, top) = D
      /\ LinksOutside(h, g, L, top, T)
      /\ Same(L, T, h.balance, g.balance)
      /\ Same(L, T, ht, ht1)
      /\ seen1[D] = seen[B]
  BY DEF Moved, Unseen
<1>1. PICK lo, hi : Shape(h, L, lo, hi)
  BY DEF Moved
<1>2. PICK q : Hangs(h, T, q) /\ SeenAlike(L, T, q, seen, seen1)
  BY DEF Unseen
<1> SUFFICES ASSUME NEW n \in X, n \notin T
             PROVE  Level(g, n, 0, ht1, seen1)
  BY DEF Sound
<1>3. /\ n \in L \ T /\ g.balance[n] = h.balance[n] /\ ht1[n] = ht[n]
      /\ Level(h, n, 0, ht, seen)
  BY <1>0 DEF Same, Sound
<1> SUFFICES ASSUME NEW d \in Dirs
             PROVE  Tall(seen1, Get(g, <<n, d>>)) = Tall(seen, Get(h, <<n, d>>))
  BY <1>3, LevelKept
<1>4. B # Null /\ D # Null
  BY <1>0, KeysAreNumbers
<1>5. CASE <<n, d>> = top
  BY <1>0, <1>4, <1>5 DEF Tall
<1>6. CASE <<n, d>> # top
  <2>1. Get(g, <<n, d>>) = Get(h, <<n, d>>) /\ Get(h, <<n, d>>) \notin T
    BY <1>0, <1>3, <1>6 DEF LinksOutside
  <2>2. Get(h, <<n, d>>) \in L \/ Get(h, <<n, d>>) = Null
    BY <1>0, <1>1, <1>3, ChildType
  <2>3. Get(h, <<n, d>>) # Null => Get(h, <<n, d>>) # q
    <3>1. PICK m \in T, e \in Dirs : q = Get(h, <<m, e>>)
      BY <1>2 DEF Hangs
    <3>2. m \in L /\ n # m
      BY <1>0
    <3> QED
      BY <1>0, <1>1, <1>3, <3>1, <3>2, NotShared
  <2> QED
    BY <1>2, <2>1, <2>2, <2>3 DEF Tall, SeenAlike
<1> QED
  BY <1>5, <1>6

\* g is h but for the balance field of B.
Rebalanced(h, g, L, B) ==
  /\ L \subseteq Keys /\ \E lo, hi : Shape(h, L, lo, hi)
  /\ B \in L
  /\ \A t : Get(g, t) = Get(h, t)
  /\ Same(L, {B}, h.balance, g.balance)

LEMMA LevelsAround ==
  ASSUME NEW h, NEW g, NEW L, NEW B, Rebalanced(h, g, L, B),
         NEW ht, NEW ht1, NEW seen, NEW seen1, Unseen(h, L, {B}, B, B, ht, ht1, seen, seen1),
         NEW X, X \subseteq L, Sound(h, X, ht, seen)
  PROVE  Sound(g, X \ {B}, ht1, seen1)
<1>0. /\ L \subseteq Keys /\ B \in L
      /\ \A t : Get(g, t) = Get(h, t)
      /\ Same(L, {B}, h.balance, g.balance)
  BY DEF Rebalanced
<1>a. PICK lo, hi : Shape(h, L, lo, hi)
  BY DEF Rebalanced
<1>1. PICK q : Hangs(h, {B}, q) /\ SeenAlike(L, {B}, q, seen, seen1)
  BY DEF Unseen
<1>2. PICK e \in Dirs : q = Get(h, <<B, e>>)
  BY <1>1 DEF Hangs
<1> SUFFICES ASSUME NEW n \in X, n # B
             PROVE  Level(g, n, 0, ht1, seen1)
  BY DEF Sound
<1>3. n \in L \ {B} /\ g.balance[n] = h.balance[n] /\ ht1[n] = ht[n] /\ Level(h, n, 0, ht, seen)
  BY <1>0 DEF Same, Sound, Unseen
<1> SUFFICES ASSUME NEW d \in Dirs
             PROVE  Tall(seen1, Get(g, <<n, d>>)) = Tall(seen, Get(h, <<n, d>>))
  BY <1>3, LevelKept
<1>4. Get(h, <<n, d>>) \in L \/ Get(h, <<n, d>>) = Null
  BY <1>0, <1>a, <1>3, ChildType
<1>5. Get(h, <<n, d>>) # Null => Get(h, <<n, d>>) # q
  BY <1>0, <1>a, <1>2, <1>3, NotShared
<1>6. seen1[B] = seen[B]
  BY DEF Unseen
<1> QED
  BY <1>0, <1>1, <1>4, <1>5, <1>6 DEF Tall, SeenAlike

Raised3(h, g, L, lo, hi, lo1, hi1, top, dir, B, F, D) ==
  /\ Shape(g, L, lo1, hi1)
  /\ Keeps(L, lo, hi, lo1, hi1, dir, B, {B, F, D})
  /\ LinksOutside(h, g, L, top, {B, F, D})
  /\ Links3(h, g, top, dir, B, F, D)
  /\ Brings3(h, dir, B, F, D)
  /\ B # F /\ B # D /\ F # D

-----------------------------------------------------------------------------
(* Stage 2 of insert: the subtree at path is one higher than ht says.      *)

\* A height is as it was if neither the node nor its view has changed.
LEMMA TallKept ==
  ASSUME NEW seen, NEW seen1, NEW p, p # Null => seen1[p] = seen[p]
  PROVE  Tall(seen1, p) = Tall(seen, p)
  BY DEF Tall

Turns(h, g, L, lo, hi, top, dir, B, D) ==
  /\ L \subseteq Keys /\ Shape(h, L, lo, hi)
  /\ Pair(h, L, top, dir, B, D)
  /\ Raised2(h, g, L, lo, hi, top, dir, B, D)
  /\ Same(L, {B, D}, h.balance, g.balance)

\* k, which is none of T, has been put in, and nobody has taken note.
Untold(h, L, T, ht, k) ==
  /\ ht \in Heights(L) /\ k \in L /\ k \notin T
  /\ Sound(h, L \ {k}, ht, ht)

\* What is left is that the node p is higher than the node above it knows.
GrownAt(g, L, ht, k, p) ==
  \E ht1 \in Heights(L) :
    /\ ht1[k] = ht[k]
    /\ Sound(g, L \ {k}, ht1, Seen(ht1, p, 1))

LEMMA InsertRotate2Levels ==
  ASSUME NEW h, NEW g, NEW L, NEW lo, NEW hi, NEW top, NEW dir, NEW B, NEW D,
         Turns(h, g, L, lo, hi, top, dir, B, D),
         h.balance[B] = dir, h.balance[D] = -1, g.balance[B] = -1, g.balance[D] = -1,
         NEW ht, NEW k, Untold(h, L, {B, D}, ht, k), Get(h, <<D, dir>>) \in L
  PROVE  GrownAt(g, L, ht, k, Get(h, <<D, dir>>))
<1> SUFFICES ASSUME L \subseteq Keys, Shape(h, L, lo, hi), Pair(h, L, top, dir, B, D),
                    Raised2(h, g, L, lo, hi, top, dir, B, D),
                    Same(L, {B, D}, h.balance, g.balance),
                    ht \in Heights(L), k \in L, k \notin {B, D}, Sound(h, L \ {k}, ht, ht)
             PROVE  \E ht1 \in Heights(L) :
                      /\ ht1[k] = ht[k]
                      /\ Sound(g, L \ {k}, ht1, Seen(ht1, Get(h, <<D, dir>>), 1))
  BY DEF Turns, Untold, GrownAt
<1> DEFINE P == Get(h, <<D, dir>>)
           C == Get(h, <<D, 1 - dir>>)
           O == Get(h, <<B, 1 - dir>>)
           ht1 == [ht EXCEPT ![B] = ht[D], ![D] = ht[B]]
           seen == Seen(ht1, P, 1)
<1>1. Links2(h, g, top, dir, B, D) /\ Brings2(h, dir, B, D) /\ B # D
  BY DEF Raised2
<1>2. /\ B \in L /\ D \in L /\ Get(h, <<B, dir>>) = D
      /\ dir \in Dirs /\ 1 - dir \in Dirs /\ dir # 1 - dir /\ dir \in Int /\ dir # -1 /\ dir >= 0 /\ dir <= 1
      /\ B # Null /\ D # Null
  BY KeysAreNumbers DEF Pair, Dirs
<1>3. P \notin {B, D} /\ C \notin {B, D} /\ O \notin {B, D}
  BY <1>1 DEF Brings2
<1>4. /\ C \in L \/ C = Null
      /\ O \in L \/ O = Null
  BY <1>2, ChildType
<1>5. /\ C # Null => C # P
      /\ O # Null => O # P
  BY <1>1, <1>2, NotShared
<1>6. ht1 \in Heights(L) /\ \A n \in L : ht1[n] = IF n = B THEN ht[D] ELSE IF n = D THEN ht[B] ELSE ht[n]
  BY <1>1, <1>2 DEF Heights
<1> HIDE DEF P, C, O, ht1
<1>7. seen \in Views(L) /\ \A n \in L : seen[n] = IF n = P THEN ht1[n] + 1 ELSE ht1[n]
  <2>1. 1 \in Int
    OBVIOUS
  <2> QED
    BY <2>1, <1>6, SeenType
<1>8. ht \in Views(L)
  BY DEF Heights, Views
<1>9. P \in L /\ P # Null
  BY KeysAreNumbers DEF P
<1> HIDE DEF seen
<1>10. Level(h, B, dir, ht, ht) /\ Level(h, D, dir, ht, ht)
  <2>1. Level(h, B, 0, ht, ht) /\ Level(h, D, 0, ht, ht)
    BY <1>2 DEF Sound
  <2> QED
    BY <2>1, <1>2, <1>8, LevelSides
<1>11. /\ Weighs(dir, dir, ht[B], Tall(ht, D), Tall(ht, O))
       /\ Weighs(-1, dir, ht[D], Tall(ht, P), Tall(ht, C))
  BY <1>2, <1>10 DEF Level, P, C, O
<1>12. /\ Tall(ht, D) = ht[D] /\ Tall(ht, P) = ht[P]
       /\ Tall(ht, O) \in Int /\ Tall(ht, C) \in Int /\ ht[B] \in Int /\ ht[D] \in Int /\ ht[P] \in Int
  <2>1. Tall(ht, O) \in Int /\ Tall(ht, C) \in Int
    BY <1>4, <1>8, TallType
  <2> QED
    BY <2>1, <1>2, <1>8, <1>9 DEF Tall, Views
<1>13. /\ ht[D] = Tall(ht, O) + 1 /\ ht[B] = ht[D] + 1
       /\ ht[P] = Tall(ht, C) /\ ht[D] = ht[P] + 1
  BY <1>2, <1>11, <1>12 DEF Weighs, Higher
<1>14. Tall(seen, C) = Tall(ht, C) /\ Tall(seen, O) = Tall(ht, O)
  BY <1>3, <1>4, <1>5, <1>6, <1>7 DEF Tall
<1>15. Tall(seen, P) = ht[P] + 1 /\ seen[B] = ht[D] /\ seen[D] = ht[B]
  BY <1>1, <1>2, <1>3, <1>6, <1>7, <1>9 DEF Tall
<1>16. Level(g, B, dir, ht1, seen)
  <2>1. Weighs(g.balance[B], dir, ht1[B], Tall(seen, C), Tall(seen, O))
    BY <1>2, <1>6, <1>12, <1>13, <1>14 DEF Weighs, Higher
  <2> QED
    BY <2>1, <1>1 DEF Level, Links2, C, O
<1>17. Level(g, D, dir, ht1, seen)
  <2>1. Weighs(g.balance[D], dir, ht1[D], Tall(seen, P), Tall(seen, B))
    BY <1>1, <1>2, <1>6, <1>12, <1>13, <1>15 DEF Weighs, Higher, Tall
  <2> QED
    BY <2>1, <1>1 DEF Level, Links2, P
<1>18. Unseen(h, L, {B, D}, B, D, ht, ht1, ht, seen)
  <2>1. SeenAlike(L, {B, D}, P, ht, seen)
    BY <1>6, <1>7 DEF SeenAlike
  <2>2. Hangs(h, {B, D}, P)
    BY <1>2 DEF Hangs, P
  <2>3. Same(L, {B, D}, ht, ht1)
    BY <1>6 DEF Same
  <2> QED
    BY <2>1, <2>2, <2>3, <1>15 DEF Unseen
<1>19. Moved(h, g, L, top, {B, D}, B, D)
  BY <1>1, <1>2 DEF Moved, Raised2, Pair, Links2
<1>20. Sound(g, L \ {k}, ht1, seen)
  <2>1. Sound(g, (L \ {k}) \ {B, D}, ht1, seen)
    <3>1. L \ {k} \subseteq L
      OBVIOUS
    <3> QED
      BY <3>1, <1>18, <1>19, LevelsOutside
  <2>2. Level(g, B, 0, ht1, seen) /\ Level(g, D, 0, ht1, seen)
    <3>1. Shape(g, L, TurnLo(lo, dir, B, D), TurnHi(hi, dir, B, D))
      BY DEF Raised2
    <3> QED
      BY <3>1, <1>2, <1>7, <1>16, <1>17, LevelSides
  <2> QED
    BY <2>1, <2>2 DEF Sound
<1>21. ht1[k] = ht[k]
  BY <1>6
<1> QED
  BY <1>6, <1>20, <1>21 DEF seen, P

\* The balance field of B evens out, and the higher subtree is now at path.
LEMMA InsertShorterLevels ==
  ASSUME NEW h, NEW g, NEW L, NEW B, Rebalanced(h, g, L, B), g.balance[B] = -1,
         NEW ht \in Heights(L), NEW k \in L, B # k, Sound(h, L \ {k}, ht, ht),
         NEW d \in Dirs, h.balance[B] = 1 - d, Get(h, <<B, d>>) \in L
  PROVE  Sound(g, L \ {k}, ht, Seen(ht, Get(h, <<B, d>>), 1))
<1> DEFINE P == Get(h, <<B, d>>)
           O == Get(h, <<B, 1 - d>>)
           seen == Seen(ht, P, 1)
<1>0. /\ L \subseteq Keys /\ B \in L
      /\ \A t : Get(g, t) = Get(h, t)
  BY DEF Rebalanced
<1>1. PICK lo, hi : Shape(h, L, lo, hi)
  BY DEF Rebalanced
<1>2. Shape(g, L, lo, hi)
  BY <1>0, <1>1, SameShape
<1>3. d \in Int /\ 1 - d \in Dirs /\ d # 1 - d /\ d # -1 /\ 1 - d # -1
  BY DEF Dirs
<1>4. O \in L \/ O = Null
  BY <1>0, <1>1, <1>3, ChildType
<1>5. P \in L /\ P # Null /\ (O # Null => O # P)
  <2>1. P \in L /\ P # Null
    BY <1>0, KeysAreNumbers
  <2>2. O # Null => O # P
    BY <1>0, <1>1, <1>3, NotShared
  <2> QED
    BY <2>1, <2>2
<1>6. P # B
  BY <1>0, <1>1, NotOwnChild
<1>7. seen \in Views(L) /\ \A n \in L : seen[n] = IF n = P THEN ht[n] + 1 ELSE ht[n]
  <2> HIDE DEF P
  <2>1. 1 \in Int
    OBVIOUS
  <2> QED
    BY <2>1, SeenType
<1>8. ht \in Views(L)
  BY DEF Heights, Views
<1> HIDE DEF P, O, seen
<1>9. Level(h, B, d, ht, ht)
  <2>1. Level(h, B, 0, ht, ht)
    BY <1>0 DEF Sound
  <2> QED
    BY <2>1, <1>0, <1>1, <1>8, LevelSides
<1>10. Weighs(1 - d, d, ht[B], Tall(ht, P), Tall(ht, O))
  BY <1>9 DEF Level, P, O
<1>11. /\ Tall(ht, P) \in Int /\ Tall(ht, O) \in Int
       /\ Tall(seen, P) = Tall(ht, P) + 1 /\ Tall(seen, O) = Tall(ht, O)
  <2>1. Tall(ht, P) \in Int /\ Tall(ht, O) \in Int
    BY <1>0, <1>4, <1>5, <1>8, TallType
  <2> QED
    BY <2>1, <1>4, <1>5, <1>7 DEF Tall
<1>12. Weighs(-1, d, ht[B], Tall(seen, P), Tall(seen, O))
  BY <1>3, <1>10, <1>11 DEF Weighs, Higher
<1>13. Level(g, B, d, ht, seen)
  BY <1>0, <1>12 DEF Level, P, O
<1>14. Level(g, B, 0, ht, seen)
  BY <1>0, <1>2, <1>7, <1>13, LevelSides
<1>15. Unseen(h, L, {B}, B, B, ht, ht, ht, seen)
  <2>1. SeenAlike(L, {B}, P, ht, seen)
    BY <1>7 DEF SeenAlike
  <2>2. Hangs(h, {B}, P)
    BY DEF Hangs, P
  <2>3. Same(L, {B}, ht, ht)
    BY DEF Same
  <2> QED
    BY <2>1, <2>2, <2>3, <1>0, <1>6, <1>7 DEF Unseen
<1>16. Sound(g, (L \ {k}) \ {B}, ht, seen)
  <2>1. L \ {k} \subseteq L
    OBVIOUS
  <2> QED
    BY <2>1, <1>15, LevelsAround
<1> QED
  BY <1>14, <1>16 DEF Sound, seen, P

\* A node on the path takes note that its subtree has grown.
LEMMA InsertUpdateLevels ==
  ASSUME NEW h, NEW g, NEW L, NEW B, Rebalanced(h, g, L, B),
         NEW ht \in Heights(L), NEW k \in L, B # k, Sound(h, L \ {k}, ht, Seen(ht, B, 1)),
         NEW d \in Dirs, h.balance[B] = -1, g.balance[B] = d, Get(h, <<B, d>>) \in L
  PROVE  \E ht1 \in Heights(L) :
           /\ ht1[k] = ht[k]
           /\ Sound(g, L \ {k}, ht1, Seen(ht1, Get(h, <<B, d>>), 1))
<1> DEFINE P == Get(h, <<B, d>>)
           O == Get(h, <<B, 1 - d>>)
           ht1 == [ht EXCEPT ![B] = @ + 1]
           was == Seen(ht, B, 1)
           seen == Seen(ht1, P, 1)
<1>0. /\ L \subseteq Keys /\ B \in L
      /\ \A t : Get(g, t) = Get(h, t)
  BY DEF Rebalanced
<1>1. PICK lo, hi : Shape(h, L, lo, hi)
  BY DEF Rebalanced
<1>2. Shape(g, L, lo, hi)
  BY <1>0, <1>1, SameShape
<1>3. d \in Int /\ 1 - d \in Dirs /\ d # 1 - d /\ d # -1 /\ 1 - d # -1
  BY DEF Dirs
<1>4. O \in L \/ O = Null
  BY <1>0, <1>1, <1>3, ChildType
<1>5. P \in L /\ P # Null /\ (O # Null => O # P)
  <2>1. P \in L /\ P # Null
    BY <1>0, KeysAreNumbers
  <2>2. O # Null => O # P
    BY <1>0, <1>1, <1>3, NotShared
  <2> QED
    BY <2>1, <2>2
<1>6. P # B /\ O # B
  BY <1>0, <1>1, <1>3, NotOwnChild
<1>7. ht1 \in Heights(L) /\ \A n \in L : ht1[n] = IF n = B THEN ht[n] + 1 ELSE ht[n]
  BY <1>0 DEF Heights
<1> HIDE DEF P, O, ht1
<1>8. seen \in Views(L) /\ \A n \in L : seen[n] = IF n = P THEN ht1[n] + 1 ELSE ht1[n]
  <2>1. 1 \in Int
    OBVIOUS
  <2> QED
    BY <2>1, <1>7, SeenType
<1>9. was \in Views(L) /\ \A n \in L : was[n] = IF n = B THEN ht[n] + 1 ELSE ht[n]
  <2>1. 1 \in Int
    OBVIOUS
  <2> QED
    BY <2>1, SeenType
<1> HIDE DEF seen, was
<1>10. Level(h, B, d, ht, was)
  <2>1. Level(h, B, 0, ht, was)
    BY <1>0 DEF Sound, was
  <2> QED
    BY <2>1, <1>0, <1>1, <1>9, LevelSides
<1>11. Weighs(-1, d, ht[B], Tall(was, P), Tall(was, O))
  BY <1>10 DEF Level, P, O
<1>12. /\ Tall(was, P) \in Int /\ Tall(was, O) \in Int
       /\ Tall(seen, P) = Tall(was, P) + 1 /\ Tall(seen, O) = Tall(was, O)
  <2>1. Tall(was, P) \in Int /\ Tall(was, O) \in Int
    BY <1>0, <1>4, <1>5, <1>9, TallType
  <2> QED
    BY <2>1, <1>4, <1>5, <1>6, <1>7, <1>8, <1>9 DEF Tall
<1>13. Weighs(d, d, ht1[B], Tall(seen, P), Tall(seen, O))
  <2>1. ht1[B] = ht[B] + 1
    BY <1>0, <1>7
  <2> QED
    BY <2>1, <1>3, <1>11, <1>12 DEF Weighs, Higher
<1>14. Level(g, B, d, ht1, seen)
  BY <1>0, <1>13 DEF Level, P, O
<1>15. Level(g, B, 0, ht1, seen)
  BY <1>0, <1>2, <1>8, <1>14, LevelSides
<1>16. Unseen(h, L, {B}, B, B, ht, ht1, was, seen)
  <2>1. SeenAlike(L, {B}, P, was, seen)
    BY <1>7, <1>8, <1>9 DEF SeenAlike
  <2>2. Hangs(h, {B}, P)
    BY DEF Hangs, P
  <2>3. Same(L, {B}, ht, ht1)
    BY <1>7 DEF Same
  <2>4. seen[B] = was[B]
    BY <1>0, <1>6, <1>7, <1>8, <1>9
  <2> QED
    BY <2>1, <2>2, <2>3, <2>4 DEF Unseen
<1>17. Sound(g, (L \ {k}) \ {B}, ht1, seen)
  <2>1. L \ {k} \subseteq L /\ Sound(h, L \ {k}, ht, was)
    BY DEF was
  <2> QED
    BY <2>1, <1>16, LevelsAround
<1>18. ht1[k] = ht[k]
  BY <1>7
<1> QED
  BY <1>7, <1>15, <1>17, <1>18 DEF Sound, seen, P


Rises(h, g, L, lo, hi, lo1, hi1, top, dir, B, F, D) ==
  /\ L \subseteq Keys /\ Shape(h, L, lo, hi)
  /\ Pair(h, L, top, dir, B, F) /\ Pair(h, L, <<B, dir>>, 1 - dir, F, D)
  /\ Raised3(h, g, L, lo, hi, lo1, hi1, top, dir, B, F, D)
  /\ Same(L, {B, F, D}, h.balance, g.balance)

\* The subtrees that the nodes of a double rotation bring along.
Spread(h, L, dir, B, F, D) ==
  LET S == {<<D, 1 - dir>>, <<D, dir>>, <<B, 1 - dir>>, <<F, dir>>}
  IN  \A s \in S : /\ Get(h, s) \in L \/ Get(h, s) = Null
                   /\ Get(h, s) \notin {B, F, D}
                   /\ \A t \in S : s # t /\ Get(h, s) # Null => Get(h, s) # Get(h, t)

LEMMA Parts3 ==
  ASSUME NEW h, NEW g, NEW L, NEW lo, NEW hi, NEW lo1, NEW hi1,
         NEW top, NEW dir, NEW B, NEW F, NEW D,
         Rises(h, g, L, lo, hi, lo1, hi1, top, dir, B, F, D)
  PROVE  Spread(h, L, dir, B, F, D)
<1>0. L \subseteq Keys /\ Shape(h, L, lo, hi)
  BY DEF Rises
<1>1. B \in L /\ F \in L /\ D \in L /\ dir \in Dirs /\ 1 - dir \in Dirs
  BY DEF Rises, Pair, Dirs
<1> DEFINE S == {<<D, 1 - dir>>, <<D, dir>>, <<B, 1 - dir>>, <<F, dir>>}
<1>2. S \subseteq TreeSlots(L)
  BY <1>1 DEF TreeSlots
<1>3. \A s \in S : Get(h, s) \notin {B, F, D}
  BY DEF Rises, Raised3, Brings3
<1> HIDE DEF S
<1>4. ASSUME NEW s \in S, NEW t \in S, s # t, Get(h, s) # Null
      PROVE  Get(h, s) # Get(h, t)
  BY <1>0, <1>2, <1>4, OneParent
<1>5. \A s \in S : Get(h, s) \in L \/ Get(h, s) = Null
  BY <1>0, <1>2 DEF Shape, Placed
<1> QED
  BY <1>3, <1>4, <1>5 DEF S, Spread

\* All of L are as high as their balance fields say.
Settled(h, L) == \E ht \in Heights(L) : Sound(h, L, ht, ht)

\* So they were before the leaf k was put in.
NewBelow(h, L, ht, k) ==
  /\ ht \in Heights(L) /\ ht[k] = 0
  /\ \A d \in Dirs : Get(h, <<k, d>>) = Null
  /\ Sound(h, L \ {k}, ht, ht)

\* Stage 2 raises the new node itself: its two neighbours become its children.
LEMMA InsertRotate3NewLevels ==
  ASSUME NEW h, NEW g, NEW L, NEW lo, NEW hi, NEW lo1, NEW hi1,
         NEW top, NEW dir, NEW B, NEW F, NEW D,
         Rises(h, g, L, lo, hi, lo1, hi1, top, dir, B, F, D),
         h.balance[B] = dir, h.balance[F] = -1,
         g.balance[B] = -1, g.balance[F] = -1, g.balance[D] = -1,
         NEW ht, NewBelow(h, L, ht, D)
  PROVE  Settled(g, L)
<1> SUFFICES ASSUME ht \in Heights(L), ht[D] = 0, \A d \in Dirs : Get(h, <<D, d>>) = Null,
                    Sound(h, L \ {D}, ht, ht)
             PROVE  \E ht1 \in Heights(L) : Sound(g, L, ht1, ht1)
  BY DEF NewBelow, Settled
<1> DEFINE O == Get(h, <<B, 1 - dir>>)
           G == Get(h, <<F, dir>>)
           ht1 == [ht EXCEPT ![B] = 1, ![F] = 1, ![D] = 2]
<1>1. /\ L \subseteq Keys /\ Shape(h, L, lo, hi) /\ Shape(g, L, lo1, hi1)
      /\ Pair(h, L, top, dir, B, F) /\ Pair(h, L, <<B, dir>>, 1 - dir, F, D)
      /\ Raised3(h, g, L, lo, hi, lo1, hi1, top, dir, B, F, D)
      /\ Links3(h, g, top, dir, B, F, D) /\ B # F /\ B # D /\ F # D
      /\ LinksOutside(h, g, L, top, {B, F, D})
      /\ Same(L, {B, F, D}, h.balance, g.balance)
  BY DEF Rises, Raised3
<1>2. /\ B \in L /\ F \in L /\ D \in L /\ Get(h, top) = B
      /\ Get(h, <<B, dir>>) = F /\ Get(h, <<F, 1 - dir>>) = D
      /\ dir \in Dirs /\ 1 - dir \in Dirs /\ dir # 1 - dir /\ dir \in Int /\ dir # -1 /\ dir >= 0 /\ dir <= 1
      /\ B # Null /\ D # Null /\ F # Null
  BY <1>1, KeysAreNumbers DEF Pair, Dirs
<1>3. /\ O \notin {B, F, D} /\ G \notin {B, F, D}
      /\ O \in L \/ O = Null
      /\ G \in L \/ G = Null
  <2>1. Spread(h, L, dir, B, F, D)
    BY Parts3
  <2> QED
    BY <2>1 DEF Spread, O, G
<1>4. ht \in Views(L)
  BY DEF Heights, Views
<1>5. ht1 \in Heights(L) /\ \A n \in L : ht1[n] = IF n = D THEN 2 ELSE IF n \in {B, F} THEN 1 ELSE ht[n]
  BY <1>1, <1>2 DEF Heights
<1> HIDE DEF O, G, ht1
<1>6. Level(h, B, dir, ht, ht) /\ Level(h, F, dir, ht, ht)
  <2>1. Level(h, B, 0, ht, ht) /\ Level(h, F, 0, ht, ht)
    BY <1>1, <1>2 DEF Sound
  <2> QED
    BY <2>1, <1>1, <1>2, <1>4, LevelSides
<1>7. /\ Weighs(dir, dir, ht[B], Tall(ht, F), Tall(ht, O))
      /\ Weighs(-1, dir, ht[F], Tall(ht, G), Tall(ht, D))
  BY <1>2, <1>6 DEF Level, O, G
<1>8. /\ Tall(ht, F) = ht[F] /\ Tall(ht, D) = 0
      /\ Tall(ht, O) \in Int /\ Tall(ht, G) \in Int /\ ht[B] \in Int /\ ht[F] \in Int
  <2>1. Tall(ht, O) \in Int /\ Tall(ht, G) \in Int
    BY <1>1, <1>3, <1>4, TallType
  <2> QED
    BY <2>1, <1>2, <1>4 DEF Tall, Views
<1>9. ht[F] = 1 /\ ht[B] = 2 /\ Tall(ht, O) = 0 /\ Tall(ht, G) = 0
  BY <1>2, <1>7, <1>8 DEF Weighs, Higher
<1>10. Tall(ht1, O) = 0 /\ Tall(ht1, G) = 0 /\ Tall(ht1, Null) = 0 /\ Tall(ht1, B) = 1 /\ Tall(ht1, F) = 1
  BY <1>1, <1>2, <1>3, <1>5, <1>9 DEF Tall
<1>11. Level(g, B, dir, ht1, ht1)
  <2>1. Weighs(-1, dir, ht1[B], 0, 0)
    BY <1>1, <1>2, <1>5 DEF Weighs, Higher
  <2> QED
    BY <2>1, <1>1, <1>2, <1>10 DEF Level, Links3, O
<1>12. Level(g, F, dir, ht1, ht1)
  <2>1. Weighs(-1, dir, ht1[F], 0, 0)
    BY <1>1, <1>2, <1>5 DEF Weighs, Higher
  <2> QED
    BY <2>1, <1>1, <1>2, <1>10 DEF Level, Links3, G
<1>13. Level(g, D, dir, ht1, ht1)
  <2>1. Weighs(-1, dir, ht1[D], 1, 1)
    BY <1>1, <1>2, <1>5 DEF Weighs, Higher
  <2> QED
    BY <2>1, <1>1, <1>2, <1>10 DEF Level, Links3
<1>14. Unseen(h, L, {B, F, D}, B, D, ht, ht1, ht, ht1)
  <2>1. SeenAlike(L, {B, F, D}, D, ht, ht1)
    BY <1>5 DEF SeenAlike
  <2>2. Hangs(h, {B, F, D}, D)
    BY <1>2 DEF Hangs
  <2>3. Same(L, {B, F, D}, ht, ht1)
    BY <1>5 DEF Same
  <2>4. ht1[D] = ht[B]
    BY <1>2, <1>5, <1>9
  <2> QED
    BY <2>1, <2>2, <2>3, <2>4 DEF Unseen
<1>15. Moved(h, g, L, top, {B, F, D}, B, D)
  BY <1>1, <1>2 DEF Moved, Links3
<1>16. Sound(g, (L \ {D}) \ {B, F, D}, ht1, ht1)
  <2>1. L \ {D} \subseteq L
    OBVIOUS
  <2> QED
    BY <2>1, <1>14, <1>15, LevelsOutside
<1>17. Level(g, B, 0, ht1, ht1) /\ Level(g, F, 0, ht1, ht1) /\ Level(g, D, 0, ht1, ht1)
  <2>1. ht1 \in Views(L)
    BY <1>5 DEF Heights, Views
  <2> QED
    BY <2>1, <1>1, <1>2, <1>11, <1>12, <1>13, LevelSides
<1> QED
  BY <1>5, <1>16, <1>17 DEF Sound


\* Stage 2 raises a node above the new one: its higher side is now at path.
LEMMA InsertRotate3Levels ==
  ASSUME NEW h, NEW g, NEW L, NEW lo, NEW hi, NEW lo1, NEW hi1,
         NEW top, NEW dir, NEW B, NEW F, NEW D,
         Rises(h, g, L, lo, hi, lo1, hi1, top, dir, B, F, D),
         h.balance[B] = dir, h.balance[F] = -1, h.balance[D] = -1, NEW e \in Dirs,
         g.balance[B] = IF e = dir THEN 1 - dir ELSE -1,
         g.balance[F] = IF e = dir THEN -1 ELSE dir,
         g.balance[D] = -1,
         NEW ht, NEW k, Untold(h, L, {B, F, D}, ht, k), Get(h, <<D, e>>) \in L
  PROVE  GrownAt(g, L, ht, k, Get(h, <<D, e>>))
<1> SUFFICES ASSUME ht \in Heights(L), k \in L, k \notin {B, F, D}, Sound(h, L \ {k}, ht, ht)
             PROVE  \E ht1 \in Heights(L) :
                      /\ ht1[k] = ht[k]
                      /\ Sound(g, L \ {k}, ht1, Seen(ht1, Get(h, <<D, e>>), 1))
  BY DEF Untold, GrownAt
<1> DEFINE O == Get(h, <<B, 1 - dir>>)
           G == Get(h, <<F, dir>>)
           C == Get(h, <<D, 1 - dir>>)
           E == Get(h, <<D, dir>>)
           P == Get(h, <<D, e>>)
           ht1 == [ht EXCEPT ![B] = ht[D] + 1, ![F] = ht[D] + 1, ![D] = ht[D] + 2]
           seen == Seen(ht1, P, 1)
<1>1. /\ L \subseteq Keys /\ Shape(h, L, lo, hi) /\ Shape(g, L, lo1, hi1)
      /\ Pair(h, L, top, dir, B, F) /\ Pair(h, L, <<B, dir>>, 1 - dir, F, D)
      /\ Raised3(h, g, L, lo, hi, lo1, hi1, top, dir, B, F, D)
      /\ Links3(h, g, top, dir, B, F, D) /\ B # F /\ B # D /\ F # D
      /\ LinksOutside(h, g, L, top, {B, F, D})
      /\ Same(L, {B, F, D}, h.balance, g.balance)
  BY DEF Rises, Raised3
<1>2. /\ B \in L /\ F \in L /\ D \in L /\ Get(h, top) = B
      /\ Get(h, <<B, dir>>) = F /\ Get(h, <<F, 1 - dir>>) = D
      /\ dir \in Dirs /\ 1 - dir \in Dirs /\ dir # 1 - dir /\ dir \in Int /\ dir # -1 /\ dir >= 0 /\ dir <= 1
      /\ B # Null /\ D # Null /\ F # Null
      /\ e = dir \/ e = 1 - dir
  BY <1>1, KeysAreNumbers DEF Pair, Dirs
<1>3. /\ O \notin {B, F, D} /\ G \notin {B, F, D} /\ C \notin {B, F, D} /\ E \notin {B, F, D}
      /\ O \in L \/ O = Null
      /\ G \in L \/ G = Null
      /\ C \in L \/ C = Null
      /\ E \in L \/ E = Null
      /\ O # Null => O # C /\ O # E
      /\ G # Null => G # C /\ G # E
      /\ C # Null => C # E
      /\ E # Null => E # C
  <2>1. Spread(h, L, dir, B, F, D)
    BY Parts3
  <2>2. /\ <<B, 1 - dir>> # <<D, 1 - dir>> /\ <<B, 1 - dir>> # <<D, dir>>
        /\ <<F, dir>> # <<D, 1 - dir>> /\ <<F, dir>> # <<D, dir>>
        /\ <<D, dir>> # <<D, 1 - dir>>
    BY <1>1, <1>2
  <2> QED
    BY <2>1, <2>2 DEF Spread, O, G, C, E
<1>4. ht \in Views(L) /\ ht[D] \in Nat
  BY <1>2 DEF Heights, Views
<1>5. ht1 \in Heights(L) /\ \A n \in L : ht1[n] = IF n = D THEN ht[D] + 2 ELSE IF n \in {B, F} THEN ht[D] + 1 ELSE ht[n]
  BY <1>1, <1>2, <1>4 DEF Heights
<1>6. P = IF e = dir THEN E ELSE C
  BY <1>2
<1>7. P \in L
  OBVIOUS
<1> HIDE DEF O, G, C, E, P, ht1
<1>8. seen \in Views(L) /\ \A n \in L : seen[n] = IF n = P THEN ht1[n] + 1 ELSE ht1[n]
  <2>1. 1 \in Int
    OBVIOUS
  <2> QED
    BY <2>1, <1>5, SeenType
<1> HIDE DEF seen
<1>9. Level(h, B, dir, ht, ht) /\ Level(h, F, dir, ht, ht) /\ Level(h, D, dir, ht, ht)
  <2>1. Level(h, B, 0, ht, ht) /\ Level(h, F, 0, ht, ht) /\ Level(h, D, 0, ht, ht)
    BY <1>1, <1>2 DEF Sound
  <2> QED
    BY <2>1, <1>1, <1>2, <1>4, LevelSides
<1>10. /\ Weighs(dir, dir, ht[B], Tall(ht, F), Tall(ht, O))
       /\ Weighs(-1, dir, ht[F], Tall(ht, G), Tall(ht, D))
       /\ Weighs(-1, dir, ht[D], Tall(ht, E), Tall(ht, C))
  BY <1>2, <1>9 DEF Level, O, G, E, C
<1>11. /\ Tall(ht, F) = ht[F] /\ Tall(ht, D) = ht[D]
       /\ Tall(ht, O) \in Int /\ Tall(ht, G) \in Int /\ Tall(ht, C) \in Int /\ Tall(ht, E) \in Int
       /\ ht[B] \in Int /\ ht[F] \in Int
  <2>1. Tall(ht, O) \in Int /\ Tall(ht, G) \in Int /\ Tall(ht, C) \in Int /\ Tall(ht, E) \in Int
    BY <1>1, <1>3, <1>4, TallType
  <2> QED
    BY <2>1, <1>2, <1>4 DEF Tall, Views
<1>12. /\ ht[F] = ht[D] + 1 /\ ht[B] = ht[D] + 2
       /\ Tall(ht, O) = ht[D] /\ Tall(ht, G) = ht[D]
       /\ Tall(ht, C) = ht[D] - 1 /\ Tall(ht, E) = ht[D] - 1
  BY <1>2, <1>4, <1>10, <1>11 DEF Weighs, Higher
<1>13. Tall(seen, O) = ht[D] /\ Tall(seen, G) = ht[D]
  <2>1. O # Null => seen[O] = ht[O]
    BY <1>3, <1>5, <1>6, <1>8
  <2>2. G # Null => seen[G] = ht[G]
    BY <1>3, <1>5, <1>6, <1>8
  <2> QED
    BY <2>1, <2>2, <1>12, TallKept
<1>14. /\ e = dir => Tall(seen, E) = ht[D] /\ Tall(seen, C) = ht[D] - 1
       /\ e # dir => Tall(seen, E) = ht[D] - 1 /\ Tall(seen, C) = ht[D]
  <2>1. P # Null /\ seen[P] = ht[P] + 1 /\ P \notin {B, F, D}
    BY <1>1, <1>3, <1>5, <1>6, <1>7, <1>8, KeysAreNumbers
  <2>2. e = dir => (C # Null => seen[C] = ht[C])
    BY <1>3, <1>5, <1>6, <1>8
  <2>3. e # dir => (E # Null => seen[E] = ht[E])
    BY <1>3, <1>5, <1>6, <1>8
  <2>4. Tall(seen, P) = Tall(ht, P) + 1
    BY <2>1 DEF Tall
  <2>5. CASE e = dir
    BY <2>2, <2>4, <2>5, <1>4, <1>6, <1>12, TallKept
  <2>6. CASE e # dir
    BY <2>3, <2>4, <2>6, <1>4, <1>6, <1>12, TallKept
  <2> QED
    BY <2>5, <2>6
<1>15. /\ ht1[B] = ht[D] + 1 /\ ht1[F] = ht[D] + 1 /\ ht1[D] = ht[D] + 2
       /\ Tall(seen, B) = ht[D] + 1 /\ Tall(seen, F) = ht[D] + 1 /\ seen[D] = ht[D] + 2
  BY <1>1, <1>2, <1>3, <1>5, <1>6, <1>8 DEF Tall
<1>16. Level(g, B, dir, ht1, seen)
  <2>1. Weighs(g.balance[B], dir, ht1[B], Tall(seen, C), Tall(seen, O))
    BY <1>2, <1>4, <1>13, <1>14, <1>15 DEF Weighs, Higher
  <2> QED
    BY <2>1, <1>1 DEF Level, Links3, C, O
<1>17. Level(g, F, dir, ht1, seen)
  <2>1. Weighs(g.balance[F], dir, ht1[F], Tall(seen, G), Tall(seen, E))
    BY <1>2, <1>4, <1>13, <1>14, <1>15 DEF Weighs, Higher
  <2> QED
    BY <2>1, <1>1 DEF Level, Links3, G, E
<1>18. Level(g, D, dir, ht1, seen)
  <2>1. Weighs(g.balance[D], dir, ht1[D], Tall(seen, F), Tall(seen, B))
    BY <1>2, <1>4, <1>15 DEF Weighs, Higher
  <2> QED
    BY <2>1, <1>1 DEF Level, Links3
<1>19. Unseen(h, L, {B, F, D}, B, D, ht, ht1, ht, seen)
  <2>1. SeenAlike(L, {B, F, D}, P, ht, seen)
    BY <1>5, <1>8 DEF SeenAlike
  <2>2. Hangs(h, {B, F, D}, P)
    BY DEF Hangs, P
  <2>3. Same(L, {B, F, D}, ht, ht1)
    BY <1>5 DEF Same
  <2>4. seen[D] = ht[B]
    BY <1>12, <1>15
  <2> QED
    BY <2>1, <2>2, <2>3, <2>4 DEF Unseen
<1>20. Moved(h, g, L, top, {B, F, D}, B, D)
  BY <1>1, <1>2 DEF Moved, Links3
<1>21. Sound(g, (L \ {k}) \ {B, F, D}, ht1, seen)
  <2>1. L \ {k} \subseteq L
    OBVIOUS
  <2> QED
    BY <2>1, <1>19, <1>20, LevelsOutside
<1>22. Level(g, B, 0, ht1, seen) /\ Level(g, F, 0, ht1, seen) /\ Level(g, D, 0, ht1, seen)
  BY <1>1, <1>2, <1>8, <1>16, <1>17, <1>18, LevelSides
<1>23. ht1[k] = ht[k]
  BY <1>5
<1> QED
  BY <1>5, <1>21, <1>22, <1>23 DEF Sound, seen, P


-----------------------------------------------------------------------------
(* Stage 2 of erase: the subtree at the node at hand is by loss lower than *)
(* ht says, and its child on the path is one lower after each step.        *)

\* The subtree at p is lower than the node above it knows.
LostAt(g, L, p) == \E ht1 \in Heights(L) : Sound(g, L, ht1, Seen(ht1, p, -1))

\* The loss stops at a balanced node, and goes on above one that leans to it.
LEMMA LowerStays ==
  ASSUME NEW h, NEW g, NEW L, NEW B, Rebalanced(h, g, L, B), NEW dir \in Dirs,
         NEW loss \in {0, 1},
         loss = 0 => h.balance[B] = -1 /\ g.balance[B] = dir,
         loss = 1 => h.balance[B] = 1 - dir /\ g.balance[B] = -1,
         NEW ht \in Heights(L), Sound(h, L, ht, Seen(ht, B, -loss)),
         Get(h, <<B, 1 - dir>>) \in L
  PROVE  LostAt(g, L, Get(h, <<B, 1 - dir>>))
<1> SUFFICES \E ht1 \in Heights(L) : Sound(g, L, ht1, Seen(ht1, Get(h, <<B, 1 - dir>>), -1))
  BY DEF LostAt
<1> DEFINE P == Get(h, <<B, dir>>)
           N == Get(h, <<B, 1 - dir>>)
           ht1 == [ht EXCEPT ![B] = @ - loss]
           was == Seen(ht, B, -loss)
           seen == Seen(ht1, N, -1)
<1>0. /\ L \subseteq Keys /\ B \in L
      /\ \A t : Get(g, t) = Get(h, t)
  BY DEF Rebalanced
<1>1. PICK lo, hi : Shape(h, L, lo, hi)
  BY DEF Rebalanced
<1>2. Shape(g, L, lo, hi)
  BY <1>0, <1>1, SameShape
<1>3. dir \in Int /\ 1 - dir \in Dirs /\ dir # 1 - dir /\ dir # -1 /\ 1 - dir # -1
  BY DEF Dirs
<1>4. P \in L \/ P = Null
  BY <1>0, <1>1, <1>3, ChildType
<1>5. N \in L /\ N # Null /\ (P # Null => P # N)
  <2>1. N \in L /\ N # Null
    BY <1>0, KeysAreNumbers
  <2>2. P # Null => P # N
    BY <1>0, <1>1, <1>3, NotShared
  <2> QED
    BY <2>1, <2>2
<1>6. P # B /\ N # B
  BY <1>0, <1>1, <1>3, NotOwnChild
<1> HIDE DEF P, N
<1>7. was \in Views(L) /\ \A n \in L : was[n] = IF n = B THEN ht[n] - loss ELSE ht[n]
  <2>1. -loss \in Int
    OBVIOUS
  <2>2. was \in Views(L) /\ \A n \in L : was[n] = IF n = B THEN ht[n] + (-loss) ELSE ht[n]
    BY <2>1, SeenType
  <2> QED
    BY <2>2 DEF Heights
<1> HIDE DEF was
<1>8. Level(h, B, dir, ht, was)
  <2>1. Level(h, B, 0, ht, was)
    BY <1>0 DEF Sound, was
  <2> QED
    BY <2>1, <1>0, <1>1, <1>7, LevelSides
<1>9. Weighs(h.balance[B], dir, ht[B], Tall(was, P), Tall(was, N))
  BY <1>8 DEF Level, P, N
<1>10. /\ Tall(was, P) = Tall(ht, P) /\ Tall(was, N) = ht[N]
       /\ Tall(ht, P) \in Nat /\ ht[N] \in Nat /\ ht[B] \in Nat
  BY <1>0, <1>4, <1>5, <1>6, <1>7 DEF Tall, Heights
<1>11. ht[B] - loss \in Nat
  BY <1>3, <1>9, <1>10 DEF Weighs, Higher
<1>12. ht1 \in Heights(L) /\ \A n \in L : ht1[n] = IF n = B THEN ht[n] - loss ELSE ht[n]
  BY <1>0, <1>11 DEF Heights
<1> HIDE DEF ht1
<1>13. seen \in Views(L) /\ \A n \in L : seen[n] = IF n = N THEN ht1[n] - 1 ELSE ht1[n]
  <2>1. -1 \in Int
    OBVIOUS
  <2>2. seen \in Views(L) /\ \A n \in L : seen[n] = IF n = N THEN ht1[n] + (-1) ELSE ht1[n]
    BY <2>1, <1>12, SeenType
  <2> QED
    BY <2>2, <1>12 DEF Heights
<1> HIDE DEF seen
<1>14. Tall(seen, P) = Tall(ht, P) /\ Tall(seen, N) = ht[N] - 1
  BY <1>4, <1>5, <1>6, <1>12, <1>13 DEF Tall
<1>15. Weighs(g.balance[B], dir, ht1[B], Tall(seen, P), Tall(seen, N))
  <2>1. ht1[B] = ht[B] - loss
    BY <1>0, <1>12
  <2> QED
    BY <2>1, <1>3, <1>9, <1>10, <1>14 DEF Weighs, Higher
<1>16. Level(g, B, dir, ht1, seen)
  BY <1>0, <1>15 DEF Level, P, N
<1>17. Level(g, B, 0, ht1, seen)
  BY <1>0, <1>2, <1>13, <1>16, LevelSides
<1>18. Unseen(h, L, {B}, B, B, ht, ht1, was, seen)
  <2>1. SeenAlike(L, {B}, N, was, seen)
    BY <1>7, <1>12, <1>13 DEF SeenAlike
  <2>2. Hangs(h, {B}, N)
    BY <1>3 DEF Hangs, N
  <2>3. Same(L, {B}, ht, ht1)
    BY <1>12 DEF Same
  <2>4. seen[B] = was[B]
    BY <1>0, <1>6, <1>7, <1>12, <1>13
  <2> QED
    BY <2>1, <2>2, <2>3, <2>4 DEF Unseen
<1>19. Sound(g, L \ {B}, ht1, seen)
  <2>1. Sound(h, L, ht, was)
    BY DEF was
  <2> QED
    BY <2>1, <1>18, LevelsAround
<1> QED
  BY <1>12, <1>17, <1>19 DEF Sound, seen, N

\* The far child is raised; the loss goes on above it unless it was balanced.
LEMMA LowerRotate2Levels ==
  ASSUME NEW h, NEW g, NEW L, NEW lo, NEW hi, NEW top, NEW dir, NEW B, NEW D,
         Turns(h, g, L, lo, hi, top, dir, B, D),
         NEW loss \in {0, 1}, h.balance[B] = dir,
         loss = 0 => h.balance[D] = -1 /\ g.balance[B] = dir /\ g.balance[D] = 1 - dir,
         loss = 1 => h.balance[D] = dir /\ g.balance[B] = -1 /\ g.balance[D] = -1,
         NEW ht \in Heights(L), Sound(h, L, ht, Seen(ht, B, -loss)),
         Get(h, <<B, 1 - dir>>) \in L
  PROVE  LostAt(g, L, Get(h, <<B, 1 - dir>>))
<1> SUFFICES ASSUME L \subseteq Keys, Shape(h, L, lo, hi), Pair(h, L, top, dir, B, D),
                    Raised2(h, g, L, lo, hi, top, dir, B, D),
                    Same(L, {B, D}, h.balance, g.balance)
             PROVE  \E ht1 \in Heights(L) : Sound(g, L, ht1, Seen(ht1, Get(h, <<B, 1 - dir>>), -1))
  BY DEF Turns, LostAt
<1> DEFINE P == Get(h, <<D, dir>>)
           C == Get(h, <<D, 1 - dir>>)
           N == Get(h, <<B, 1 - dir>>)
           ht1 == [ht EXCEPT ![B] = ht[N] + 1 - loss, ![D] = ht[N] + 2 - loss]
           was == Seen(ht, B, -loss)
           seen == Seen(ht1, N, -1)
<1>1. Links2(h, g, top, dir, B, D) /\ Brings2(h, dir, B, D) /\ B # D
  BY DEF Raised2
<1>2. /\ B \in L /\ D \in L /\ Get(h, <<B, dir>>) = D
      /\ dir \in Dirs /\ 1 - dir \in Dirs /\ dir # 1 - dir /\ dir \in Int /\ dir # -1 /\ dir >= 0 /\ dir <= 1
      /\ B # Null /\ D # Null
  BY KeysAreNumbers DEF Pair, Dirs
<1>3. P \notin {B, D} /\ C \notin {B, D} /\ N \notin {B, D}
  BY <1>1 DEF Brings2
<1>4. /\ C \in L \/ C = Null
      /\ P \in L \/ P = Null
  BY <1>2, ChildType
<1>5. N \in L /\ N # Null /\ (C # Null => C # N) /\ (P # Null => P # N)
  <2>1. N \in L /\ N # Null
    BY KeysAreNumbers
  <2>2. (C # Null => C # N) /\ (P # Null => P # N)
    BY <1>1, <1>2, NotShared
  <2> QED
    BY <2>1, <2>2
<1> HIDE DEF P, C, N
<1>6. ht1 \in Heights(L) /\ \A n \in L : ht1[n] = IF n = B THEN ht[N] + 1 - loss
                                                ELSE IF n = D THEN ht[N] + 2 - loss ELSE ht[n]
  <2>1. ht[N] \in Nat
    BY <1>5 DEF Heights
  <2> QED
    BY <2>1, <1>1, <1>2 DEF Heights
<1> HIDE DEF ht1
<1>7. seen \in Views(L) /\ \A n \in L : seen[n] = IF n = N THEN ht1[n] - 1 ELSE ht1[n]
  <2>1. -1 \in Int
    OBVIOUS
  <2>2. seen \in Views(L) /\ \A n \in L : seen[n] = IF n = N THEN ht1[n] + (-1) ELSE ht1[n]
    BY <2>1, <1>6, SeenType
  <2> QED
    BY <2>2, <1>6 DEF Heights
<1>8. was \in Views(L) /\ \A n \in L : was[n] = IF n = B THEN ht[n] - loss ELSE ht[n]
  <2>1. -loss \in Int
    OBVIOUS
  <2>2. was \in Views(L) /\ \A n \in L : was[n] = IF n = B THEN ht[n] + (-loss) ELSE ht[n]
    BY <2>1, SeenType
  <2> QED
    BY <2>2 DEF Heights
<1> HIDE DEF seen, was
<1>9. Level(h, B, dir, ht, was) /\ Level(h, D, dir, ht, was)
  <2>1. Level(h, B, 0, ht, was) /\ Level(h, D, 0, ht, was)
    BY <1>2 DEF Sound, was
  <2> QED
    BY <2>1, <1>2, <1>8, LevelSides
<1>10. /\ Weighs(dir, dir, ht[B], Tall(was, D), Tall(was, N))
       /\ Weighs(h.balance[D], dir, ht[D], Tall(was, P), Tall(was, C))
  BY <1>2, <1>9 DEF Level, P, C, N
<1>11. /\ Tall(was, D) = ht[D] /\ Tall(was, N) = ht[N]
       /\ Tall(was, P) = Tall(ht, P) /\ Tall(was, C) = Tall(ht, C)
       /\ Tall(ht, P) \in Int /\ Tall(ht, C) \in Int
       /\ ht[B] \in Int /\ ht[D] \in Int /\ ht[N] \in Int
  BY <1>1, <1>2, <1>3, <1>4, <1>5, <1>8 DEF Tall, Heights
<1>12. /\ ht[D] = ht[N] + 1 /\ ht[B] = ht[N] + 2 /\ Tall(ht, P) = ht[N]
       /\ Tall(ht, C) = ht[N] - loss
  BY <1>2, <1>10, <1>11 DEF Weighs, Higher
<1>13. Tall(seen, P) = ht[N] /\ Tall(seen, C) = ht[N] - loss /\ Tall(seen, N) = ht[N] - 1
  BY <1>3, <1>4, <1>5, <1>6, <1>7, <1>12 DEF Tall
<1>14. /\ ht1[B] = ht[N] + 1 - loss /\ ht1[D] = ht[N] + 2 - loss
       /\ Tall(seen, B) = ht[N] + 1 - loss /\ seen[D] = ht[N] + 2 - loss
       /\ was[B] = ht[N] + 2 - loss
  <2>1. ht1[B] = ht[N] + 1 - loss /\ ht1[D] = ht[N] + 2 - loss
    BY <1>1, <1>2, <1>6
  <2>2. seen[B] = ht1[B] /\ seen[D] = ht1[D]
    BY <1>2, <1>3, <1>7
  <2>3. was[B] = ht[N] + 2 - loss
    BY <1>2, <1>8, <1>11, <1>12
  <2> QED
    BY <1>2, <2>1, <2>2, <2>3 DEF Tall
<1>15. Level(g, B, dir, ht1, seen)
  <2>1. Weighs(g.balance[B], dir, ht1[B], Tall(seen, C), Tall(seen, N))
    BY <1>2, <1>11, <1>13, <1>14 DEF Weighs, Higher
  <2> QED
    BY <2>1, <1>1 DEF Level, Links2, C, N
<1>16. Level(g, D, dir, ht1, seen)
  <2>1. Weighs(g.balance[D], dir, ht1[D], Tall(seen, P), Tall(seen, B))
    BY <1>2, <1>11, <1>13, <1>14 DEF Weighs, Higher
  <2> QED
    BY <2>1, <1>1 DEF Level, Links2, P
<1>17. Unseen(h, L, {B, D}, B, D, ht, ht1, was, seen)
  <2>1. SeenAlike(L, {B, D}, N, was, seen)
    BY <1>6, <1>7, <1>8 DEF SeenAlike
  <2>2. Hangs(h, {B, D}, N)
    BY <1>2 DEF Hangs, N
  <2>3. Same(L, {B, D}, ht, ht1)
    BY <1>6 DEF Same
  <2> QED
    BY <2>1, <2>2, <2>3, <1>14 DEF Unseen
<1>18. Moved(h, g, L, top, {B, D}, B, D)
  BY <1>1, <1>2 DEF Moved, Raised2, Pair, Links2
<1>19. Sound(g, L \ {B, D}, ht1, seen)
  <2>1. Sound(h, L, ht, was)
    BY DEF was
  <2> QED
    BY <2>1, <1>17, <1>18, LevelsOutside
<1>20. Level(g, B, 0, ht1, seen) /\ Level(g, D, 0, ht1, seen)
  <2>1. Shape(g, L, TurnLo(lo, dir, B, D), TurnHi(hi, dir, B, D))
    BY DEF Raised2
  <2> QED
    BY <2>1, <1>2, <1>7, <1>15, <1>16, LevelSides
<1> QED
  BY <1>6, <1>19, <1>20 DEF Sound, seen, N


\* The far child leans to the side at hand: its inner child is raised.
LEMMA LowerRotate3Levels ==
  ASSUME NEW h, NEW g, NEW L, NEW lo, NEW hi, NEW lo1, NEW hi1,
         NEW top, NEW dir, NEW B, NEW F, NEW D,
         Rises(h, g, L, lo, hi, lo1, hi1, top, dir, B, F, D),
         h.balance[B] = dir, h.balance[F] = 1 - dir, h.balance[D] \in {-1, 0, 1},
         g.balance[B] = IF h.balance[D] = dir THEN 1 - dir ELSE -1,
         g.balance[F] = IF h.balance[D] = 1 - dir THEN dir ELSE -1,
         g.balance[D] = -1,
         NEW ht \in Heights(L), Sound(h, L, ht, Seen(ht, B, -1)),
         Get(h, <<B, 1 - dir>>) \in L
  PROVE  LostAt(g, L, Get(h, <<B, 1 - dir>>))
<1> SUFFICES \E ht1 \in Heights(L) : Sound(g, L, ht1, Seen(ht1, Get(h, <<B, 1 - dir>>), -1))
  BY DEF LostAt
<1> DEFINE N == Get(h, <<B, 1 - dir>>)
           G == Get(h, <<F, dir>>)
           C == Get(h, <<D, 1 - dir>>)
           E == Get(h, <<D, dir>>)
           ht1 == [ht EXCEPT ![B] = ht[N], ![F] = ht[N], ![D] = ht[N] + 1]
           was == Seen(ht, B, -1)
           seen == Seen(ht1, N, -1)
<1>1. /\ L \subseteq Keys /\ Shape(h, L, lo, hi) /\ Shape(g, L, lo1, hi1)
      /\ Pair(h, L, top, dir, B, F) /\ Pair(h, L, <<B, dir>>, 1 - dir, F, D)
      /\ Raised3(h, g, L, lo, hi, lo1, hi1, top, dir, B, F, D)
      /\ Links3(h, g, top, dir, B, F, D) /\ B # F /\ B # D /\ F # D
      /\ LinksOutside(h, g, L, top, {B, F, D})
      /\ Same(L, {B, F, D}, h.balance, g.balance)
  BY DEF Rises, Raised3
<1>2. /\ B \in L /\ F \in L /\ D \in L /\ Get(h, top) = B
      /\ Get(h, <<B, dir>>) = F /\ Get(h, <<F, 1 - dir>>) = D
      /\ dir \in Dirs /\ 1 - dir \in Dirs /\ dir # 1 - dir /\ dir \in Int /\ dir # -1 /\ dir >= 0 /\ dir <= 1
      /\ B # Null /\ D # Null /\ F # Null
  BY <1>1, KeysAreNumbers DEF Pair, Dirs
<1>3. /\ N \notin {B, F, D} /\ G \notin {B, F, D} /\ C \notin {B, F, D} /\ E \notin {B, F, D}
      /\ G \in L \/ G = Null
      /\ C \in L \/ C = Null
      /\ E \in L \/ E = Null
      /\ G # Null => G # N
      /\ C # Null => C # N
      /\ E # Null => E # N
  <2>1. Spread(h, L, dir, B, F, D)
    BY Parts3
  <2>2. /\ <<B, 1 - dir>> # <<D, 1 - dir>> /\ <<B, 1 - dir>> # <<D, dir>>
        /\ <<F, dir>> # <<B, 1 - dir>>
    BY <1>1, <1>2
  <2> QED
    BY <2>1, <2>2 DEF Spread, N, G, C, E
<1>4. N \in L /\ N # Null
  BY <1>1, KeysAreNumbers
<1> HIDE DEF N, G, C, E
<1>5. ht1 \in Heights(L) /\ \A n \in L : ht1[n] = IF n = D THEN ht[N] + 1 ELSE IF n \in {B, F} THEN ht[N] ELSE ht[n]
  <2>1. ht[N] \in Nat
    BY <1>4 DEF Heights
  <2> QED
    BY <2>1, <1>1, <1>2 DEF Heights
<1> HIDE DEF ht1
<1>6. seen \in Views(L) /\ \A n \in L : seen[n] = IF n = N THEN ht1[n] - 1 ELSE ht1[n]
  <2>1. -1 \in Int
    OBVIOUS
  <2>2. seen \in Views(L) /\ \A n \in L : seen[n] = IF n = N THEN ht1[n] + (-1) ELSE ht1[n]
    BY <2>1, <1>5, SeenType
  <2> QED
    BY <2>2, <1>5 DEF Heights
<1>7. was \in Views(L) /\ \A n \in L : was[n] = IF n = B THEN ht[n] - 1 ELSE ht[n]
  <2>1. -1 \in Int
    OBVIOUS
  <2>2. was \in Views(L) /\ \A n \in L : was[n] = IF n = B THEN ht[n] + (-1) ELSE ht[n]
    BY <2>1, SeenType
  <2> QED
    BY <2>2 DEF Heights
<1> HIDE DEF seen, was
<1>8. Level(h, B, dir, ht, was) /\ Level(h, F, dir, ht, was) /\ Level(h, D, dir, ht, was)
  <2>1. Level(h, B, 0, ht, was) /\ Level(h, F, 0, ht, was) /\ Level(h, D, 0, ht, was)
    BY <1>2 DEF Sound, was
  <2> QED
    BY <2>1, <1>1, <1>2, <1>7, LevelSides
<1>9. /\ Weighs(dir, dir, ht[B], Tall(was, F), Tall(was, N))
      /\ Weighs(1 - dir, dir, ht[F], Tall(was, G), Tall(was, D))
      /\ Weighs(h.balance[D], dir, ht[D], Tall(was, E), Tall(was, C))
  BY <1>2, <1>8 DEF Level, N, G, E, C
<1>10. /\ Tall(was, F) = ht[F] /\ Tall(was, N) = ht[N] /\ Tall(was, D) = ht[D]
       /\ Tall(was, G) = Tall(ht, G) /\ Tall(was, C) = Tall(ht, C) /\ Tall(was, E) = Tall(ht, E)
  <2>1. G # Null => was[G] = ht[G]
    BY <1>3, <1>7
  <2>2. C # Null => was[C] = ht[C]
    BY <1>3, <1>7
  <2>3. E # Null => was[E] = ht[E]
    BY <1>3, <1>7
  <2>4. was[F] = ht[F] /\ was[N] = ht[N] /\ was[D] = ht[D]
    BY <1>1, <1>2, <1>3, <1>4, <1>7
  <2> QED
    BY <2>1, <2>2, <2>3, <2>4, <1>2, <1>4 DEF Tall
<1>11. /\ ht[B] \in Int /\ ht[F] \in Int /\ ht[D] \in Int /\ ht[N] \in Int
       /\ Tall(ht, G) \in Int /\ Tall(ht, C) \in Int /\ Tall(ht, E) \in Int
  BY <1>2, <1>3, <1>4 DEF Tall, Heights
<1>12. /\ ht[F] = ht[N] + 1 /\ ht[B] = ht[N] + 2 /\ ht[D] = ht[N] /\ Tall(ht, G) = ht[N] - 1
  BY <1>2, <1>9, <1>10, <1>11 DEF Weighs, Higher
<1>13. /\ h.balance[D] = -1 => Tall(ht, C) = ht[N] - 1 /\ Tall(ht, E) = ht[N] - 1
       /\ h.balance[D] = dir => Tall(ht, C) = ht[N] - 2 /\ Tall(ht, E) = ht[N] - 1
       /\ h.balance[D] = 1 - dir => Tall(ht, C) = ht[N] - 1 /\ Tall(ht, E) = ht[N] - 2
       /\ h.balance[D] = -1 \/ h.balance[D] = dir \/ h.balance[D] = 1 - dir
  BY <1>2, <1>9, <1>10, <1>11, <1>12 DEF Weighs, Higher
<1>14. /\ Tall(seen, G) = Tall(ht, G) /\ Tall(seen, C) = Tall(ht, C) /\ Tall(seen, E) = Tall(ht, E)
       /\ Tall(seen, N) = ht[N] - 1
  <2>1. G # Null => seen[G] = ht[G]
    BY <1>3, <1>5, <1>6
  <2>2. C # Null => seen[C] = ht[C]
    BY <1>3, <1>5, <1>6
  <2>3. E # Null => seen[E] = ht[E]
    BY <1>3, <1>5, <1>6
  <2>4. seen[N] = ht[N] - 1
    BY <1>3, <1>4, <1>5, <1>6
  <2> QED
    BY <2>1, <2>2, <2>3, <2>4, <1>4 DEF Tall
<1>15. /\ ht1[B] = ht[N] /\ ht1[F] = ht[N] /\ ht1[D] = ht[N] + 1
       /\ Tall(seen, B) = ht[N] /\ Tall(seen, F) = ht[N] /\ seen[D] = ht[N] + 1
  <2>1. ht1[B] = ht[N] /\ ht1[F] = ht[N] /\ ht1[D] = ht[N] + 1
    BY <1>1, <1>2, <1>5
  <2>2. seen[B] = ht1[B] /\ seen[F] = ht1[F] /\ seen[D] = ht1[D]
    BY <1>2, <1>3, <1>6
  <2> QED
    BY <2>1, <2>2, <1>2 DEF Tall
<1>16. Level(g, B, dir, ht1, seen)
  <2>1. Weighs(g.balance[B], dir, ht1[B], Tall(seen, C), Tall(seen, N))
    BY <1>2, <1>11, <1>13, <1>14, <1>15 DEF Weighs, Higher
  <2> QED
    BY <2>1, <1>1 DEF Level, Links3, C, N
<1>17. Level(g, F, dir, ht1, seen)
  <2>1. Weighs(g.balance[F], dir, ht1[F], Tall(seen, G), Tall(seen, E))
    BY <1>2, <1>11, <1>12, <1>13, <1>14, <1>15 DEF Weighs, Higher
  <2> QED
    BY <2>1, <1>1 DEF Level, Links3, G, E
<1>18. Level(g, D, dir, ht1, seen)
  <2>1. Weighs(g.balance[D], dir, ht1[D], Tall(seen, F), Tall(seen, B))
    BY <1>2, <1>11, <1>15 DEF Weighs, Higher
  <2> QED
    BY <2>1, <1>1 DEF Level, Links3
<1>19. Unseen(h, L, {B, F, D}, B, D, ht, ht1, was, seen)
  <2>1. SeenAlike(L, {B, F, D}, N, was, seen)
    BY <1>5, <1>6, <1>7 DEF SeenAlike
  <2>2. Hangs(h, {B, F, D}, N)
    BY <1>2 DEF Hangs, N
  <2>3. Same(L, {B, F, D}, ht, ht1)
    BY <1>5 DEF Same
  <2>4. seen[D] = was[B]
    BY <1>2, <1>7, <1>11, <1>12, <1>15
  <2> QED
    BY <2>1, <2>2, <2>3, <2>4 DEF Unseen
<1>20. Moved(h, g, L, top, {B, F, D}, B, D)
  BY <1>1, <1>2 DEF Moved, Links3
<1>21. Sound(g, L \ {B, F, D}, ht1, seen)
  <2>1. Sound(h, L, ht, was)
    BY DEF was
  <2> QED
    BY <2>1, <1>19, <1>20, LevelsOutside
<1>22. Level(g, B, 0, ht1, seen) /\ Level(g, F, 0, ht1, seen) /\ Level(g, D, 0, ht1, seen)
  BY <1>1, <1>2, <1>6, <1>16, <1>17, <1>18, LevelSides
<1> QED
  BY <1>5, <1>21, <1>22 DEF Sound, seen, N

-----------------------------------------------------------------------------
(* In these definitions h is the heap, L are its nodes and r are the       *)
(* registers of the call.  lo, hi and ht are the intervals and heights.    *)

\* The path of key k runs over n; nodes with the key, and its neighbours, too.
OnPath(lo, hi, k, n) == lo[n] <= k /\ k < hi[n]

Around(L, lo, hi, s, k) == s \in TreeSlots(L) /\ Lo(lo, s) <= k /\ k < Hi(hi, s)

\* The slot leads to where the key is, or would be.
Leads(L, lo, hi, s, k) == s \in TreeSlots(L) /\ Inside(lo, hi, s, k)

\* The nodes of X on the path below path_top, Top itself left out, are balanced.
EvenBelow(h, lo, hi, r, X) ==
  \A n \in X :
    /\ Inside(lo, hi, r.path_top, n)
    /\ OnPath(lo, hi, r.key, n)
    /\ n # Get(h, r.path_top)
    => h.balance[n] = -1

Unpassed(L, lo, hi, s) == {n \in L : ~ Inside(lo, hi, s, n)}

\* Growth stops at Top, or goes up to the root.
GrowthStops(h, L, lo, hi, r) ==
  /\ Leads(L, lo, hi, r.path_top, r.key)
  /\ r.path_top # RootSlot => ~ IsBalanced(h, Get(h, r.path_top))

FindSlotInv(h, L, lo, hi, r) ==
  /\ Leads(L, lo, hi, r.nodep, r.key)
  /\ GrowthStops(h, L, lo, hi, r)
  /\ EvenBelow(h, lo, hi, r, Unpassed(L, lo, hi, r.nodep))

\* The new node, whose height is not told to anyone yet.
NewLeaf(h, L, ht, k) ==
  /\ k \in L
  /\ ht[k] = 0
  /\ h.balance[k] = -1
  /\ \A d \in Dirs : Get(h, <<k, d>>) = Null

RebalanceInv(h, L, lo, hi, ht, r) ==
  /\ NewLeaf(h, L, ht, r.key)
  /\ GrowthStops(h, L, lo, hi, r)
  /\ EvenBelow(h, lo, hi, r, L \ {r.key})
  /\ Sound(h, L \ {r.key}, ht, ht)

UpdateInv(h, L, lo, hi, ht, r) ==
  /\ r.key \in L
  /\ r.path = Null => Sound(h, L, ht, ht)
  /\ r.path # Null =>
       /\ NewLeaf(h, L, ht, r.key)
       /\ r.path \in L
       /\ OnPath(lo, hi, r.key, r.path)
       /\ Sound(h, L \ {r.key}, ht, Seen(ht, r.path, 1))
       /\ \A n \in L : /\ lo[r.path] < n /\ n < hi[r.path]
                       /\ OnPath(lo, hi, r.key, n)
                       => h.balance[n] = -1

\* n keeps its height when its side of the key loses height.
Stops(h, k, n) ==
  /\ Get(h, <<n, Direction(k, n)>>) # Null
  /\ \/ h.balance[n] < 0
     \/ /\ h.balance[n] = 1 - Direction(k, n)
        /\ IsBalanced(h, Get(h, <<n, 1 - Direction(k, n)>>))

\* The loss goes through the nodes of X on the path below s, but for the first.
LossGoesOn(h, lo, hi, k, s, X) ==
  \A n \in X :
    /\ Inside(lo, hi, s, n)
    /\ OnPath(lo, hi, k, n)
    /\ n # Get(h, s)
    => ~ Stops(h, k, n)

FindTargetInv(h, L, lo, hi, r) ==
  /\ Around(L, lo, hi, r.nodep, r.key)
  /\ r.targetp = NoSlot => Inside(lo, hi, r.nodep, r.key)
  /\ r.targetp # NoSlot =>
       /\ r.targetp \in TreeSlots(L) /\ Get(h, r.targetp) = r.key
       /\ Lo(lo, r.nodep) = r.key
  /\ Around(L, lo, hi, r.path_top, r.key)
  /\ r.path_top # RootSlot => Get(h, r.path_top) # Null /\ Stops(h, r.key, Get(h, r.path_top))
  /\ LossGoesOn(h, lo, hi, r.key, r.path_top, Unpassed(L, lo, hi, r.nodep))

\* By how much the subtree at n will be lower than its height says.
Loss(h, k, n) == IF Stops(h, k, n) THEN 0 ELSE 1

\* The path below s ends at the side dir of its last node.
LastSide(h, L, lo, hi, k, s, dir) ==
  \A n \in L : /\ Inside(lo, hi, s, n)
              /\ OnPath(lo, hi, k, n)
              /\ Get(h, <<n, Direction(k, n)>>) = Null
              => dir = Direction(k, n)

LowerInv(h, L, lo, hi, ht, r) ==
  /\ r.key \in L
  /\ r.targetp \in TreeSlots(L) /\ Get(h, r.targetp) = r.key
  /\ Around(L, lo, hi, r.nodep, r.key)
  /\ Get(h, r.nodep) # Null
  /\ Sound(h, L, ht, Seen(ht, Get(h, r.nodep), -Loss(h, r.key, Get(h, r.nodep))))
  /\ LossGoesOn(h, lo, hi, r.key, r.nodep, L)
  /\ LastSide(h, L, lo, hi, r.key, r.nodep, r.dir)

Stage(q, h, L, lo, hi, ht, r) ==
  /\ q \in {"idle", "lookup", "find_slot", "find_target"} => Sound(h, L, ht, ht)
  /\ q = "lookup" => Leads(L, lo, hi, r.nodep, r.key)
  /\ q = "find_slot" => FindSlotInv(h, L, lo, hi, r)
  /\ q = "rebalance" => RebalanceInv(h, L, lo, hi, ht, r)
  /\ q = "update" => UpdateInv(h, L, lo, hi, ht, r)
  /\ q = "find_target" => FindTargetInv(h, L, lo, hi, r)
  /\ q = "lower" => LowerInv(h, L, lo, hi, ht, r)

Fits(q, h, L, lo, hi, ht, r) ==
  /\ Shape(h, L, lo, hi)
  /\ ht \in Heights(L)
  /\ Stage(q, h, L, lo, hi, ht, r)

\* The tree under the root has the nodes L, and the running call fits it.
Own(L) ==
  /\ L \subseteq Keys
  /\ \E lo, hi, ht : Fits(pc, heap, L, lo, hi, ht, reg)

TreeInv == Own(live)

LEMMA OwnKeys ==
  ASSUME NEW L, Own(L)
  PROVE  L \subseteq Keys
BY DEF Own

-----------------------------------------------------------------------------
(* Walking down.                                                           *)

LEMMA InvInit == Init => TreeInv
<1> SUFFICES ASSUME Init PROVE TreeInv
  OBVIOUS
<1> DEFINE none == [n \in {} |-> 0]
<1>1. live = {} /\ pc = "idle" /\ heap.root = Null
  BY DEF Init
<1>2. none \in Bounds({}) /\ none \in Heights({})
  BY DEF Bounds, Heights
<1>3. TreeSlots({}) = {RootSlot} /\ Get(heap, RootSlot) = Null
  BY <1>1 DEF TreeSlots, Get, RootSlot
<1> HIDE DEF none
<1>4. Shape(heap, {}, none, none)
  BY <1>2, <1>3 DEF Shape, Ended, Placed, Nested, Bounded
<1>5. Fits("idle", heap, {}, none, none, none, reg)
  BY <1>2, <1>4 DEF Fits, Stage, Sound
<1> QED
  BY <1>1, <1>5 DEF TreeInv, Own

\* n hangs from s, and d is a side of it.
Found(L, lo, hi, s, n, d) ==
  /\ n \in L /\ n \in Keys
  /\ <<n, d>> \in TreeSlots(L)
  /\ lo[n] = Lo(lo, s) /\ hi[n] = Hi(hi, s) /\ Inside(lo, hi, s, n)
  /\ lo[n] \in Int /\ hi[n] \in Int /\ n \in Int /\ lo[n] < n /\ n < hi[n]
  /\ Lo(lo, <<n, d>>) = IF d = 0 THEN lo[n] ELSE n
  /\ Hi(hi, <<n, d>>) = IF d = 0 THEN n ELSE hi[n]

LEMMA NextSlot ==
  ASSUME NEW h, NEW L, L \subseteq Keys, NEW lo, NEW hi, Shape(h, L, lo, hi),
         NEW s \in TreeSlots(L), NEW n, n = Get(h, s), n # Null, NEW d \in Dirs
  PROVE  Found(L, lo, hi, s, n, d)
<1>1. n \in L /\ lo[n] = Lo(lo, s) /\ hi[n] = Hi(hi, s)
  BY DEF Shape, Placed
<1>2. lo[n] \in Int /\ hi[n] \in Int /\ n \in Int /\ lo[n] < n /\ n < hi[n]
  BY <1>1, KeysAreNumbers DEF Shape, Bounds, Ended
<1>3. <<n, d>> \in TreeSlots(L)
  BY <1>1, SlotsOf
<1>4. /\ Lo(lo, <<n, 0>>) = lo[n] /\ Hi(hi, <<n, 0>>) = n
      /\ Lo(lo, <<n, 1>>) = n /\ Hi(hi, <<n, 1>>) = hi[n]
  BY <1>1, SlotEnds
<1> QED
  BY <1>1, <1>2, <1>3, <1>4 DEF Found, Dirs, Inside

\* A step down from s, over n, stays on the way to k.
Down(L, lo, hi, s, k, n) ==
  /\ Around(L, lo, hi, s, k) =>
       /\ OnPath(lo, hi, k, n)
       /\ Around(L, lo, hi, <<n, Direction(k, n)>>, k)
  /\ Leads(L, lo, hi, s, k) /\ k # n => Leads(L, lo, hi, <<n, Direction(k, n)>>, k)
  /\ Leads(L, lo, hi, s, k) => Around(L, lo, hi, s, k)
  /\ Unpassed(L, lo, hi, <<n, Direction(k, n)>>) \subseteq L
  /\ \A x \in Unpassed(L, lo, hi, <<n, Direction(k, n)>>) :
       \/ x \in Unpassed(L, lo, hi, s)
       \/ x = n
       \/ ~ OnPath(lo, hi, k, x)

LEMMA StepDown ==
  ASSUME NEW h, NEW L, L \subseteq Keys, NEW lo, NEW hi, Shape(h, L, lo, hi),
         NEW s \in TreeSlots(L), NEW n, n = Get(h, s), n # Null, NEW k \in Int
  PROVE  Down(L, lo, hi, s, k, n)
<1> DEFINE d == Direction(k, n)
<1>1. d \in Dirs /\ d = IF k < n THEN 0 ELSE 1
  BY DirectionType DEF Direction
<1> HIDE DEF d
<1>2. /\ n \in L /\ n \in Keys
      /\ <<n, d>> \in TreeSlots(L)
      /\ lo[n] = Lo(lo, s) /\ hi[n] = Hi(hi, s) /\ Inside(lo, hi, s, n)
      /\ lo[n] \in Int /\ hi[n] \in Int /\ n \in Int /\ lo[n] < n /\ n < hi[n]
      /\ Lo(lo, <<n, d>>) = IF d = 0 THEN lo[n] ELSE n
      /\ Hi(hi, <<n, d>>) = IF d = 0 THEN n ELSE hi[n]
  <2>1. Found(L, lo, hi, s, n, d)
    BY <1>1, NextSlot
  <2> QED
    BY <2>1 DEF Found
<1>3. /\ Around(L, lo, hi, s, k) =>
           /\ OnPath(lo, hi, k, n)
           /\ Around(L, lo, hi, <<n, d>>, k)
      /\ Leads(L, lo, hi, s, k) /\ k # n => Leads(L, lo, hi, <<n, d>>, k)
      /\ Leads(L, lo, hi, s, k) => Around(L, lo, hi, s, k)
  BY <1>1, <1>2 DEF Around, Leads, Inside, OnPath
<1>4. ASSUME NEW x \in L, Inside(lo, hi, s, x), x # n, OnPath(lo, hi, k, x)
      PROVE  Inside(lo, hi, <<n, d>>, x)
  BY <1>4, OnTheWay DEF OnPath, d
<1> QED
  BY <1>3, <1>4 DEF Down, Unpassed, d

-----------------------------------------------------------------------------
(* The steps that change registers only.                                   *)

\* What the type invariant says of the running call.
LEMMA Running ==
  ASSUME TypeOK
  PROVE  /\ heap \in Heaps /\ live \subseteq Keys
         /\ pc # "idle" => reg.key \in Keys /\ reg.key \in Int
         /\ reg \in Regs
         /\ \A d \in Dirs, n \in Keys : Link(heap, n, d) = Get(heap, <<n, d>>)
         /\ \A n \in Keys : Balance(heap, n) = heap.balance[n]
<1>1. heap \in Heaps /\ live \subseteq Keys /\ reg \in Regs /\ (pc # "idle" => reg.key \in Keys)
  BY DEF TypeOK
<1> QED
  BY <1>1, LinkGet, KeysAreNumbers DEF Balance

LEMMA CallKeeps ==
  ASSUME TypeOK, NEW L, Own(L), NEW k \in Keys, InsertCall(k) \/ EraseCall(k) \/ CountCall(k)
  PROVE  Own(L)'
<1>1. PICK lo, hi, ht : Fits(pc, heap, L, lo, hi, ht, reg)
  BY DEF Own
<1>2. /\ pc = "idle" /\ pc' \in {"find_slot", "find_target", "lookup"}
      /\ heap' = heap
      /\ reg'.key = k /\ reg'.nodep = RootSlot /\ reg'.path_top = RootSlot /\ reg'.targetp = NoSlot
  BY DEF InsertCall, EraseCall, CountCall, Call, NoRegs
<1>3. RootSlot \in TreeSlots(L) /\ NoSlot # RootSlot
  BY DEF TreeSlots, RootSlot, NoSlot
<1>4. Lo(lo, RootSlot) = Bottom /\ Hi(hi, RootSlot) = Ceil
  BY SlotEnds
<1>5. Inside(lo, hi, RootSlot, k) /\ Bottom <= k
  BY <1>4, Sentinels, KeysAreNumbers DEF Inside
<1>6. Leads(L, lo, hi, RootSlot, k) /\ Around(L, lo, hi, RootSlot, k)
  BY <1>3, <1>4, <1>5, Sentinels, KeysAreNumbers DEF Leads, Around, Inside
<1>7. \A n \in Unpassed(L, lo, hi, RootSlot) : ~ Inside(lo, hi, RootSlot, n)
  BY DEF Unpassed
<1>8. FindSlotInv(heap, L, lo, hi, reg')
  BY <1>2, <1>6, <1>7 DEF FindSlotInv, GrowthStops, EvenBelow
<1>9. FindTargetInv(heap, L, lo, hi, reg')
  BY <1>2, <1>3, <1>5, <1>6, <1>7 DEF FindTargetInv, LossGoesOn
<1>10. Sound(heap, L, ht, ht)
  BY <1>1, <1>2 DEF Fits, Stage
<1>11. Fits(pc', heap', L, lo, hi, ht, reg')
  BY <1>1, <1>2, <1>6, <1>8, <1>9, <1>10 DEF Fits, Stage
<1> QED
  BY <1>11, OwnKeys DEF Own

\* Without a call only the shape and the levels matter.
LEMMA RestKeeps ==
  ASSUME NEW L, Own(L), pc \in {"lookup", "find_slot", "find_target"},
         pc' = "idle", UNCHANGED heap
  PROVE  Own(L)'
<1>1. PICK lo, hi, ht : Fits(pc, heap, L, lo, hi, ht, reg)
  BY DEF Own
<1>2. Fits(pc', heap', L, lo, hi, ht, reg')
  BY <1>1 DEF Fits, Stage
<1> QED
  BY <1>2, OwnKeys DEF Own

LEMMA InsertDescendKeeps ==
  ASSUME TypeOK, NEW L, Own(L), InsertDescend
  PROVE  Own(L)'
<1>1. PICK lo, hi, ht : Fits(pc, heap, L, lo, hi, ht, reg)
  BY DEF Own
<1> DEFINE n == Here
           k == reg.key
           s == reg.nodep
           t == <<n, Direction(k, n)>>
<1>2. /\ pc = "find_slot" /\ pc' = pc /\ heap' = heap
      /\ n # Null /\ n # k /\ n = Get(heap, s)
      /\ reg'.key = k /\ reg'.nodep = t
      /\ reg'.path_top = IF StopsGrowth(n) THEN s ELSE reg.path_top
  BY DEF InsertDescend, Here, Side, TypeOK, Regs
<1>3. /\ Shape(heap, L, lo, hi) /\ Sound(heap, L, ht, ht)
      /\ FindSlotInv(heap, L, lo, hi, reg)
  BY <1>1, <1>2 DEF Fits, Stage
<1>4. L \subseteq Keys /\ k \in Int /\ \A x \in Keys : Balance(heap, x) = heap.balance[x]
  BY <1>2, Running, OwnKeys
<1>5. Leads(L, lo, hi, s, k) /\ s \in TreeSlots(L)
  BY <1>3 DEF FindSlotInv, Leads
<1> HIDE DEF n, k, s
<1>6. Down(L, lo, hi, s, k, n)
  BY <1>2, <1>3, <1>4, <1>5, StepDown
<1>7. n \in L /\ n \in Keys
  BY <1>2, <1>3, <1>4, <1>5 DEF Shape, Placed
<1>8. IsBalanced(heap, n) => heap.balance[n] = -1
  BY <1>4, <1>7, Running DEF IsBalanced, Heaps
<1>9. Leads(L, lo, hi, t, k)
  BY <1>2, <1>5, <1>6 DEF Down
<1>10. ASSUME StopsGrowth(n) PROVE FindSlotInv(heap, L, lo, hi, reg')
  <2>1. reg'.path_top = s
    BY <1>2, <1>10
  <2>2. GrowthStops(heap, L, lo, hi, reg')
    BY <2>1, <1>2, <1>5, <1>10 DEF GrowthStops, StopsGrowth
  <2>3. EvenBelow(heap, lo, hi, reg', Unpassed(L, lo, hi, t))
    BY <2>1, <1>2, <1>6 DEF EvenBelow, Down, Unpassed
  <2> QED
    BY <2>2, <2>3, <1>2, <1>9 DEF FindSlotInv
<1>11. ASSUME ~ StopsGrowth(n) PROVE FindSlotInv(heap, L, lo, hi, reg')
  <2>1. reg'.path_top = reg.path_top
    BY <1>2, <1>11
  <2>2. GrowthStops(heap, L, lo, hi, reg')
    BY <2>1, <1>2, <1>3 DEF GrowthStops, FindSlotInv, k
  <2>3. heap.balance[n] = -1
    BY <1>8, <1>11 DEF StopsGrowth
  <2>4. EvenBelow(heap, lo, hi, reg', Unpassed(L, lo, hi, t))
    BY <2>1, <2>3, <1>2, <1>3, <1>6 DEF EvenBelow, Down, FindSlotInv, k, s
  <2> QED
    BY <2>2, <2>4, <1>2, <1>9 DEF FindSlotInv
<1>12. FindSlotInv(heap', L, lo, hi, reg')
  BY <1>2, <1>10, <1>11
<1>13. Fits(pc', heap', L, lo, hi, ht, reg')
  BY <1>1, <1>2, <1>3, <1>12 DEF Fits, Stage
<1> QED
  BY <1>13, OwnKeys DEF Own

LEMMA CountDescendKeeps ==
  ASSUME TypeOK, NEW L, Own(L), CountDescend
  PROVE  Own(L)'
<1>1. PICK lo, hi, ht : Fits(pc, heap, L, lo, hi, ht, reg)
  BY DEF Own
<1> DEFINE n == Here
           k == reg.key
           s == reg.nodep
           t == <<n, Direction(k, n)>>
<1>2. /\ pc = "lookup" /\ pc' = pc /\ heap' = heap
      /\ n # Null /\ n # k /\ n = Get(heap, s)
      /\ reg'.key = k /\ reg'.nodep = t
  BY DEF CountDescend, Here, Side, TypeOK, Regs
<1>3. /\ Shape(heap, L, lo, hi) /\ Sound(heap, L, ht, ht)
      /\ Leads(L, lo, hi, s, k)
  BY <1>1, <1>2 DEF Fits, Stage
<1>4. L \subseteq Keys /\ k \in Int
  BY <1>2, Running, OwnKeys
<1> HIDE DEF n, k, s
<1>5. Down(L, lo, hi, s, k, n)
  BY <1>2, <1>3, <1>4, StepDown DEF Leads
<1>6. Leads(L, lo, hi, t, k)
  BY <1>2, <1>3, <1>5 DEF Down
<1>7. Fits(pc', heap', L, lo, hi, ht, reg')
  BY <1>1, <1>2, <1>3, <1>6 DEF Fits, Stage
<1> QED
  BY <1>7, OwnKeys DEF Own

LEMMA StopsLossIs ==
  ASSUME TypeOK, pc # "idle", Here \in Keys
  PROVE  Stops(heap, reg.key, Here) <=> Link(heap, Here, Side) # Null /\ StopsLoss
<1>1. Side \in Dirs /\ 1 - Side \in Dirs
  BY DirectionType DEF Side, Dirs
<1>2. /\ Link(heap, Here, Side) = Get(heap, <<Here, Side>>)
      /\ Link(heap, Here, 1 - Side) = Get(heap, <<Here, 1 - Side>>)
      /\ Balance(heap, Here) = heap.balance[Here]
  BY <1>1, Running
<1> QED
  BY <1>2 DEF Stops, StopsLoss, IsBalanced, Side

LEMMA EraseDescendKeeps ==
  ASSUME TypeOK, NEW L, Own(L), EraseDescend
  PROVE  Own(L)'
<1>1. PICK lo, hi, ht : Fits(pc, heap, L, lo, hi, ht, reg)
  BY DEF Own
<1> DEFINE n == Here
           k == reg.key
           s == reg.nodep
           d == Direction(k, n)
           t == <<n, d>>
<1>2. /\ pc = "find_target" /\ pc' = pc /\ heap' = heap
      /\ n # Null /\ n = Get(heap, s) /\ Link(heap, n, d) # Null
      /\ reg'.key = k /\ reg'.nodep = t
      /\ reg'.path_top = IF StopsLoss THEN s ELSE reg.path_top
      /\ reg'.targetp = IF n = k THEN s ELSE reg.targetp
  BY DEF EraseDescend, Here, Side, Target, TypeOK, Regs
<1>3. /\ Shape(heap, L, lo, hi) /\ Sound(heap, L, ht, ht)
      /\ FindTargetInv(heap, L, lo, hi, reg)
  BY <1>1, <1>2 DEF Fits, Stage
<1>4. L \subseteq Keys /\ k \in Int
  BY <1>2, Running, OwnKeys
<1>5. Around(L, lo, hi, s, k) /\ s \in TreeSlots(L)
  BY <1>3 DEF FindTargetInv, Around
<1>6. n \in L /\ n \in Keys
  BY <1>2, <1>3, <1>4, <1>5 DEF Shape, Placed
<1>7. Stops(heap, k, n) <=> StopsLoss
  BY <1>2, <1>6, StopsLossIs DEF Side
<1>8. d \in Dirs /\ d = IF k < n THEN 0 ELSE 1
  BY DirectionType DEF Direction
<1> HIDE DEF n, k, s
<1>9. Down(L, lo, hi, s, k, n)
  BY <1>2, <1>3, <1>4, <1>5, StepDown
<1>10. Found(L, lo, hi, s, n, d)
  BY <1>2, <1>3, <1>4, <1>5, <1>8, NextSlot
<1>11. Around(L, lo, hi, t, k)
  BY <1>5, <1>9 DEF Down
<1>12. /\ reg'.targetp = NoSlot => Inside(lo, hi, t, k)
       /\ reg'.targetp # NoSlot =>
            /\ reg'.targetp \in TreeSlots(L) /\ Get(heap, reg'.targetp) = k
            /\ Lo(lo, t) = k
  <2>1. CASE n = k
    <3>1. reg'.targetp = s /\ s # NoSlot
      BY <1>2, <1>5, <2>1, SlotCases, <1>4, KeysAreNumbers DEF RootSlot, NoSlot
    <3>2. Lo(lo, t) = k
      BY <1>4, <1>8, <1>10, <2>1 DEF Found
    <3> QED
      BY <3>1, <3>2, <1>2, <1>5, <2>1
  <2>2. CASE n # k
    <3>1. reg'.targetp = reg.targetp
      BY <1>2, <2>2
    <3>2. CASE reg.targetp = NoSlot
      <4>1. Leads(L, lo, hi, s, k)
        BY <1>3, <1>5, <3>2 DEF FindTargetInv, Leads, k, s
      <4> QED
        BY <4>1, <3>1, <3>2, <1>9, <2>2 DEF Down, Leads
    <3>3. CASE reg.targetp # NoSlot
      <4>1. /\ reg.targetp \in TreeSlots(L) /\ Get(heap, reg.targetp) = k
            /\ Lo(lo, s) = k
        BY <1>3, <3>3 DEF FindTargetInv, k, s
      <4>2. Lo(lo, t) = k
        BY <4>1, <1>4, <1>8, <1>10 DEF Found
      <4> QED
        BY <4>1, <4>2, <3>1, <3>3
    <3> QED
      BY <3>2, <3>3
  <2> QED
    BY <2>1, <2>2
<1>13. ASSUME StopsLoss PROVE FindTargetInv(heap, L, lo, hi, reg')
  <2>1. reg'.path_top = s
    BY <1>2, <1>13
  <2>2. Get(heap, s) # Null /\ Stops(heap, k, Get(heap, s))
    BY <1>2, <1>7, <1>13
  <2>3. LossGoesOn(heap, lo, hi, k, s, Unpassed(L, lo, hi, t))
    BY <1>2, <1>9 DEF LossGoesOn, Down, Unpassed
  <2> QED
    BY <2>1, <2>2, <2>3, <1>2, <1>5, <1>11, <1>12 DEF FindTargetInv
<1>14. ASSUME ~ StopsLoss PROVE FindTargetInv(heap, L, lo, hi, reg')
  <2>1. reg'.path_top = reg.path_top
    BY <1>2, <1>14
  <2>2. /\ Around(L, lo, hi, reg.path_top, k)
        /\ reg.path_top # RootSlot =>
             Get(heap, reg.path_top) # Null /\ Stops(heap, k, Get(heap, reg.path_top))
        /\ LossGoesOn(heap, lo, hi, k, reg.path_top, Unpassed(L, lo, hi, s))
    BY <1>3 DEF FindTargetInv, k, s
  <2>3. LossGoesOn(heap, lo, hi, k, reg.path_top, Unpassed(L, lo, hi, t))
    BY <2>2, <1>7, <1>9, <1>14 DEF LossGoesOn, Down
  <2> QED
    BY <2>1, <2>2, <2>3, <1>2, <1>11, <1>12 DEF FindTargetInv
<1>15. FindTargetInv(heap', L, lo, hi, reg')
  BY <1>2, <1>13, <1>14
<1>16. Fits(pc', heap', L, lo, hi, ht, reg')
  BY <1>1, <1>2, <1>3, <1>15 DEF Fits, Stage
<1> QED
  BY <1>16, OwnKeys DEF Own

\* No node sees the root as its child: its height may be anything.
LEMMA SoundAbove ==
  ASSUME NEW h, NEW L, L \subseteq Keys, NEW lo, NEW hi, Shape(h, L, lo, hi),
         Get(h, RootSlot) # Null, NEW X, X \subseteq L,
         NEW ht \in Heights(L), Sound(h, X, ht, ht), NEW by \in Int
  PROVE  Sound(h, X, ht, Seen(ht, Get(h, RootSlot), by))
<1> DEFINE p == Get(h, RootSlot)
           seen == Seen(ht, p, by)
<1> HIDE DEF p
<1>1. seen \in Views(L) /\ \A n \in L : seen[n] = IF n = p THEN ht[n] + by ELSE ht[n]
  BY SeenType
<1> HIDE DEF seen
<1>2. ASSUME NEW n \in X PROVE Level(h, n, 0, ht, seen)
  <2>1. Level(h, n, 0, ht, ht)
    BY <1>2 DEF Sound
  <2> SUFFICES ASSUME NEW d \in Dirs
               PROVE  Tall(seen, Get(h, <<n, d>>)) = Tall(ht, Get(h, <<n, d>>))
    BY <2>1, LevelKept
  <2>2. Get(h, <<n, d>>) \in L \/ Get(h, <<n, d>>) = Null
    BY <1>2, ChildType
  <2>3. Get(h, <<n, d>>) # p
    <3>1. RootSlot \in TreeSlots(L) /\ <<n, d>> \in TreeSlots(L) /\ <<n, d>> # RootSlot
      BY <1>2, KeysAreNumbers DEF TreeSlots, RootSlot
    <3> QED
      BY <3>1, OneParent DEF p
  <2> QED
    BY <1>1, <2>2, <2>3 DEF Tall
<1> QED
  BY <1>2 DEF Sound, seen, p

LEMMA EraseLocatedKeeps ==
  ASSUME TypeOK, NEW L, Own(L), EraseLocated
  PROVE  Own(L)'
<1>1. PICK lo, hi, ht : Fits(pc, heap, L, lo, hi, ht, reg)
  BY DEF Own
<1> DEFINE n == Here
           k == reg.key
           s == reg.nodep
           p == reg.path_top
           top == Get(heap, p)
           d == Direction(k, n)
           t == <<n, d>>
           goal == IF n = k THEN s ELSE reg.targetp
<1>2. /\ pc = "find_target" /\ pc' = "lower" /\ heap' = heap
      /\ n # Null /\ n = Get(heap, s) /\ Link(heap, n, d) = Null
      /\ goal # NoSlot
      /\ reg'.key = k /\ reg'.nodep = p /\ reg'.targetp = goal /\ reg'.dir = d
  BY DEF EraseLocated, Here, Side, Target, TypeOK, Regs
<1>3. /\ Shape(heap, L, lo, hi) /\ Sound(heap, L, ht, ht)
      /\ FindTargetInv(heap, L, lo, hi, reg)
      /\ ht \in Heights(L)
  BY <1>1, <1>2 DEF Fits, Stage
<1>4. L \subseteq Keys /\ k \in Int /\ k \in Keys /\ k # Null
  BY <1>2, Running, OwnKeys, KeysAreNumbers
<1>5. /\ Around(L, lo, hi, s, k) /\ s \in TreeSlots(L)
      /\ Around(L, lo, hi, p, k) /\ p \in TreeSlots(L)
      /\ p # RootSlot => top # Null /\ Stops(heap, k, top)
      /\ LossGoesOn(heap, lo, hi, k, p, Unpassed(L, lo, hi, s))
  BY <1>3 DEF FindTargetInv, Around
<1>6. n \in L /\ n \in Keys
  BY <1>2, <1>3, <1>4, <1>5 DEF Shape, Placed
<1>7. d \in Dirs /\ d = IF k < n THEN 0 ELSE 1
  BY DirectionType DEF Direction
<1>8. Get(heap, t) = Null
  BY <1>2, <1>6, <1>7, Running
<1>9. goal \in TreeSlots(L) /\ Get(heap, goal) = k /\ k \in L
  <2>1. goal \in TreeSlots(L) /\ Get(heap, goal) = k
    BY <1>2, <1>3, <1>5 DEF FindTargetInv
  <2> QED
    BY <2>1, <1>3, <1>4 DEF Shape, Placed
<1> HIDE DEF n, k, s, p, goal
<1>10. top # Null
  <2>1. CASE p = RootSlot
    <3>1. RootSlot \in TreeSlots(L)
      BY DEF TreeSlots
    <3>2. Inside(lo, hi, RootSlot, k)
      BY <1>4, SlotEnds, Sentinels DEF Inside
    <3> QED
      BY <3>1, <3>2, <2>1, <1>3, <1>9 DEF Shape, Placed
  <2> QED
    BY <2>1, <1>5
<1>11. Sound(heap, L, ht, Seen(ht, top, -Loss(heap, k, top)))
  <2>1. CASE p = RootSlot
    <3>1. -Loss(heap, k, top) \in Int
      BY DEF Loss
    <3>2. L \subseteq L
      OBVIOUS
    <3> QED
      BY <2>1, <3>1, <3>2, <1>3, <1>4, <1>10, SoundAbove
  <2>2. CASE p # RootSlot
    <3>1. Loss(heap, k, top) = 0
      BY <2>2, <1>5 DEF Loss
    <3>2. Seen(ht, top, -Loss(heap, k, top)) = ht
      BY <3>1, <1>3 DEF Seen, Heights
    <3> QED
      BY <3>2, <1>3
  <2> QED
    BY <2>1, <2>2
<1>12. Down(L, lo, hi, s, k, n)
  BY <1>2, <1>3, <1>4, <1>5, StepDown
<1>13. Unpassed(L, lo, hi, t) = L
  <2>1. t \in TreeSlots(L)
    BY <1>6, <1>7, SlotsOf
  <2> QED
    BY <2>1, <1>3, <1>8 DEF Unpassed, Shape, Placed
<1>14. LossGoesOn(heap, lo, hi, k, p, L)
  <2> SUFFICES ASSUME NEW x \in L, Inside(lo, hi, p, x), OnPath(lo, hi, k, x), x # top
               PROVE  ~ Stops(heap, k, x)
    BY DEF LossGoesOn
  <2>1. x \in Unpassed(L, lo, hi, s) \/ x = n
    BY <1>12, <1>13 DEF Down
  <2>2. ~ Stops(heap, k, n)
    BY <1>8 DEF Stops
  <2> QED
    BY <2>1, <2>2, <1>5 DEF LossGoesOn
<1>15. ASSUME NEW x \in L, OnPath(lo, hi, k, x), Get(heap, <<x, Direction(k, x)>>) = Null
       PROVE  d = Direction(k, x)
  <2> DEFINE e == Direction(k, x)
             u == <<x, e>>
  <2>1. e \in Dirs /\ e = IF k < x THEN 0 ELSE 1
    BY DirectionType DEF Direction
  <2> HIDE DEF e
  <2>2. u \in TreeSlots(L) /\ t \in TreeSlots(L)
    BY <2>1, <1>6, <1>7, SlotsOf
  <2>3. /\ Lo(lo, <<x, 0>>) = lo[x] /\ Hi(hi, <<x, 0>>) = x
        /\ Lo(lo, <<x, 1>>) = x /\ Hi(hi, <<x, 1>>) = hi[x]
    BY <1>4, <1>15, SlotEnds
  <2>4. Lo(lo, u) <= k /\ k < Hi(hi, u)
    BY <2>1, <2>3, <1>4, <1>15, KeysAreNumbers DEF OnPath
  <2>5. Lo(lo, t) <= k /\ k < Hi(hi, t)
    BY <1>5, <1>12 DEF Down, Around
  <2>6. (\A y \in L : ~ Inside(lo, hi, u, y)) /\ (\A y \in L : ~ Inside(lo, hi, t, y))
    BY <2>2, <1>3, <1>8, <1>15 DEF Shape, Placed, e
  <2>7. u = t
    BY <2>2, <2>4, <2>5, <2>6, <1>3, <1>4, OneGap DEF Shape
  <2> QED
    BY <2>7 DEF e
<1>16. LowerInv(heap', L, lo, hi, ht, reg')
  BY <1>2, <1>5, <1>9, <1>10, <1>11, <1>14, <1>15 DEF LowerInv, LastSide
<1>17. Fits(pc', heap', L, lo, hi, ht, reg')
  BY <1>2, <1>3, <1>16 DEF Fits, Stage
<1> QED
  BY <1>17, OwnKeys DEF Own

-----------------------------------------------------------------------------
(* insert.                                                                 *)

\* The way to k, when k has been linked in at its end.
LEMMA GrownLeads ==
  ASSUME NEW L, L \subseteq Keys, NEW lo, NEW hi, NEW s \in TreeSlots(L), NEW k \in Keys, k \notin L,
         NEW p, Leads(L, lo, hi, p, k)
  PROVE  /\ Lo(GrownLo(L, lo, s, k), p) = Lo(lo, p) /\ Hi(GrownHi(L, hi, s, k), p) = Hi(hi, p)
         /\ Leads(L \cup {k}, GrownLo(L, lo, s, k), GrownHi(L, hi, s, k), p, k)
<1> DEFINE lo1 == GrownLo(L, lo, s, k)
           hi1 == GrownHi(L, hi, s, k)
<1>1. \A n \in L : lo1[n] = lo[n] /\ hi1[n] = hi[n]
  BY DEF GrownLo, GrownHi
<1> HIDE DEF lo1, hi1
<1>2. p \in TreeSlots(L) /\ p \in TreeSlots(L \cup {k})
  BY DEF Leads, TreeSlots
<1>3. Lo(lo1, p) = Lo(lo, p) /\ Hi(hi1, p) = Hi(hi, p)
  BY <1>1, <1>2, SlotCases DEF Lo, Hi
<1>4. Leads(L \cup {k}, lo1, hi1, p, k)
  BY <1>2, <1>3 DEF Leads, Inside
<1> QED
  BY <1>3, <1>4 DEF lo1, hi1

LEMMA InsertLinkKeeps ==
  ASSUME TypeOK, NEW L, Own(L), InsertLink,
         NEW M, M = L \cup {reg.key}
  PROVE  Own(M)'
<1>1. PICK lo, hi, ht : Fits(pc, heap, L, lo, hi, ht, reg)
  BY DEF Own
<1> DEFINE k == reg.key
           s == reg.nodep
           p == reg.path_top
           h == heap
           g == Put(Blank(h, k), s, k)
           lo1 == GrownLo(L, lo, s, k)
           hi1 == GrownHi(L, hi, s, k)
           ht1 == [n \in L \cup {k} |-> IF n = k THEN 0 ELSE ht[n]]
<1>2. /\ pc = "find_slot" /\ pc' = "rebalance" /\ heap' = g /\ M = L \cup {k}
      /\ Get(h, s) = Null /\ reg' = reg
  BY DEF InsertLink, Here
<1>3. /\ Shape(h, L, lo, hi) /\ Sound(h, L, ht, ht)
      /\ FindSlotInv(h, L, lo, hi, reg)
      /\ ht \in Heights(L)
  BY <1>1, <1>2 DEF Fits, Stage
<1>4. L \subseteq Keys /\ k \in Int /\ k \in Keys /\ k # Null /\ h \in Heaps
  BY <1>2, Running, OwnKeys, KeysAreNumbers
<1>5. /\ Leads(L, lo, hi, s, k) /\ s \in TreeSlots(L) /\ Inside(lo, hi, s, k)
      /\ Leads(L, lo, hi, p, k) /\ p \in TreeSlots(L)
      /\ p # RootSlot => ~ IsBalanced(h, Get(h, p))
  BY <1>3 DEF FindSlotInv, GrowthStops, Leads
<1> HIDE DEF k, s, p, h
<1>6. Grown(h, g, s, k) /\ g.balance = [h.balance EXCEPT ![k] = -1]
  <2> DEFINE b == Blank(h, k)
  <2>1. b \in Heaps
    BY <1>4, BlankType
  <2>2. /\ b.balance = [h.balance EXCEPT ![k] = -1]
        /\ \A t \in TreeSlots(Keys) : Get(b, t) = IF t[1] = k THEN Null ELSE Get(h, t)
    BY <1>4, BlankGet
  <2> HIDE DEF b
  <2>3. s \in TreeSlots(Keys) /\ k \in Ptrs
    BY <1>4, <1>5 DEF TreeSlots, Ptrs
  <2>4. /\ Put(b, s, k).balance = b.balance
        /\ \A t \in TreeSlots(Keys) : Get(Put(b, s, k), t) = IF t = s THEN k ELSE Get(b, t)
    BY <2>1, <2>3, PutGet
  <2>5. g = Put(b, s, k)
    BY DEF b
  <2> HIDE DEF g
  <2> QED
    BY <2>2, <2>4, <2>5 DEF Grown
<1> HIDE DEF g
<1>7. k \notin L /\ Shape(g, L \cup {k}, lo1, hi1)
  BY <1>2, <1>3, <1>4, <1>5, <1>6, GrownShape
<1>8. \A n \in L : lo1[n] = lo[n] /\ hi1[n] = hi[n]
  BY <1>7 DEF GrownLo, GrownHi
<1>9. /\ Lo(lo1, p) = Lo(lo, p) /\ Hi(hi1, p) = Hi(hi, p)
      /\ Leads(L \cup {k}, lo1, hi1, p, k)
  BY <1>4, <1>5, <1>7, GrownLeads
<1> HIDE DEF lo1, hi1
<1>10. /\ \A n \in L, d \in Dirs : Get(g, <<n, d>>) = IF <<n, d>> = s THEN k ELSE Get(h, <<n, d>>)
       /\ \A d \in Dirs : Get(g, <<k, d>>) = Null
       /\ Get(g, p) = IF p = s THEN k ELSE Get(h, p)
       /\ \A n \in L : g.balance[n] = h.balance[n]
       /\ g.balance[k] = -1
  <2>1. /\ \A n \in L \cup {k}, d \in Dirs : <<n, d>> \in TreeSlots(Keys)
        /\ p \in TreeSlots(Keys)
    BY <1>4, <1>5 DEF TreeSlots
  <2>2. /\ p = RootSlot => p[1] # k
        /\ p # RootSlot => p[1] # k
    BY <1>4, <1>5, <1>7, SlotCases DEF RootSlot
  <2>3. \A d \in Dirs : <<k, d>> # s
    BY <1>4, <1>5, <1>7 DEF TreeSlots, RootSlot
  <2>4. \A n \in L, d \in Dirs : Get(g, <<n, d>>) = IF <<n, d>> = s THEN k ELSE Get(h, <<n, d>>)
    BY <2>1, <1>6, <1>7 DEF Grown
  <2>5. \A d \in Dirs : Get(g, <<k, d>>) = Null
    BY <2>1, <2>3, <1>6 DEF Grown
  <2>6. Get(g, p) = IF p = s THEN k ELSE Get(h, p)
    BY <2>1, <2>2, <1>6 DEF Grown
  <2>7. (\A n \in L : g.balance[n] = h.balance[n]) /\ g.balance[k] = -1
    BY <1>4, <1>6, <1>7 DEF Heaps
  <2> QED
    BY <2>4, <2>5, <2>6, <2>7
<1>11. ht1 \in Heights(L \cup {k}) /\ ht1[k] = 0 /\ \A n \in L : ht1[n] = ht[n]
  BY <1>3, <1>7 DEF Heights
<1> HIDE DEF ht1
<1>12. Sound(g, (L \cup {k}) \ {k}, ht1, ht1)
  <2> SUFFICES ASSUME NEW n \in L PROVE Level(g, n, 0, ht1, ht1)
    BY DEF Sound
  <2>1. Level(h, n, 0, ht, ht) /\ g.balance[n] = h.balance[n] /\ ht1[n] = ht[n]
    BY <1>3, <1>10, <1>11 DEF Sound
  <2> SUFFICES ASSUME NEW d \in Dirs
               PROVE  Tall(ht1, Get(g, <<n, d>>)) = Tall(ht, Get(h, <<n, d>>))
    BY <2>1, LevelKept
  <2>2. CASE <<n, d>> = s
    BY <2>2, <1>2, <1>4, <1>10, <1>11 DEF Tall
  <2>3. CASE <<n, d>> # s
    <3>1. Get(h, <<n, d>>) \in L \/ Get(h, <<n, d>>) = Null
      BY <1>3, <1>4, ChildType
    <3> QED
      BY <2>3, <3>1, <1>10, <1>11 DEF Tall
  <2> QED
    BY <2>2, <2>3
<1>13. NewLeaf(g, L \cup {k}, ht1, k)
  BY <1>10, <1>11 DEF NewLeaf
<1>14. p # RootSlot => ~ IsBalanced(g, Get(g, p))
  <2> SUFFICES ASSUME p # RootSlot PROVE ~ IsBalanced(g, Get(g, p))
    OBVIOUS
  <2>1. ~ IsBalanced(h, Get(h, p))
    BY <1>5
  <2>2. Get(h, p) # Null
    BY <2>1 DEF IsBalanced, Balance
  <2>3. Get(g, p) = Get(h, p) /\ Get(h, p) \in L
    BY <2>2, <1>2, <1>3, <1>5, <1>10 DEF Shape, Placed
  <2> QED
    BY <2>1, <2>3, <1>10 DEF IsBalanced, Balance
<1>15. \A n \in (L \cup {k}) \ {k} :
         /\ Inside(lo1, hi1, p, n)
         /\ OnPath(lo1, hi1, k, n)
         /\ n # Get(g, p)
         => g.balance[n] = -1
  <2> SUFFICES ASSUME NEW n \in L, Inside(lo1, hi1, p, n), OnPath(lo1, hi1, k, n), n # Get(g, p)
               PROVE  h.balance[n] = -1
    BY <1>10
  <2>1. Inside(lo, hi, p, n) /\ OnPath(lo, hi, k, n)
    BY <1>8, <1>9 DEF Inside, OnPath
  <2>2. ~ Inside(lo, hi, s, n)
    BY <1>2, <1>3, <1>5 DEF Shape, Placed
  <2>3. n # Get(h, p)
    BY <1>2, <1>4, <1>10, KeysAreNumbers
  <2> QED
    BY <2>1, <2>2, <2>3, <1>3 DEF FindSlotInv, EvenBelow, Unpassed, k, s, p
<1>16. RebalanceInv(g, L \cup {k}, lo1, hi1, ht1, reg)
  BY <1>9, <1>12, <1>13, <1>14, <1>15 DEF RebalanceInv, GrowthStops, EvenBelow, k, p
<1>17. Fits("rebalance", g, L \cup {k}, lo1, hi1, ht1, reg)
  BY <1>7, <1>11, <1>16 DEF Fits, Stage
<1> QED
  BY <1>2, <1>4, <1>17 DEF Own

\* c is the child of n on the way to k.
OneDown(h, L, lo, hi, k, n, c) ==
  /\ c = Get(h, <<n, Direction(k, n)>>)
  /\ c \in L /\ c # n
  /\ lo[c] \in Int /\ hi[c] \in Int /\ c \in Int
  /\ lo[c] < k /\ k < hi[c]
  /\ lo[n] <= lo[c] /\ hi[c] <= hi[n]
  /\ lo[c] < c /\ c < hi[c]
  /\ n <= lo[c] \/ hi[c] <= n

LEMMA PathChild ==
  ASSUME NEW h, NEW L, L \subseteq Keys, NEW lo, NEW hi, Shape(h, L, lo, hi),
         NEW n \in L, NEW k \in L, lo[n] < k, k < hi[n], k # n
  PROVE  OneDown(h, L, lo, hi, k, n, Get(h, <<n, Direction(k, n)>>))
<1> DEFINE d == Direction(k, n)
           c == Get(h, <<n, d>>)
<1>1. c \in L /\ Inside(lo, hi, <<n, d>>, k)
  BY WayDown
<1>2. d \in Dirs /\ <<n, d>> \in TreeSlots(L) /\ c # Null
  BY <1>1, DirectionType, SlotsOf, KeysAreNumbers
<1> HIDE DEF d
<1>3. lo[c] = Lo(lo, <<n, d>>) /\ hi[c] = Hi(hi, <<n, d>>)
  BY <1>1, <1>2 DEF Shape, Placed
<1>4. /\ Lo(lo, <<n, 0>>) = lo[n] /\ Hi(hi, <<n, 0>>) = n
      /\ Lo(lo, <<n, 1>>) = n /\ Hi(hi, <<n, 1>>) = hi[n]
  BY SlotEnds
<1>5. /\ lo[c] \in Int /\ hi[c] \in Int /\ c \in Int /\ n \in Int /\ k \in Int
      /\ lo[n] \in Int /\ hi[n] \in Int
      /\ lo[c] < c /\ c < hi[c] /\ lo[n] < n /\ n < hi[n]
  BY <1>1, KeysAreNumbers DEF Shape, Bounds, Ended
<1>6. d = 0 \/ d = 1
  BY <1>2 DEF Dirs
<1>7. lo[c] < k /\ k < hi[c]
  BY <1>1, <1>3 DEF Inside
<1> HIDE DEF c
<1>8. CASE d = 0
  <2>1. lo[c] = lo[n] /\ hi[c] = n
    BY <1>3, <1>4, <1>8
  <2>2. lo[n] <= lo[c] /\ hi[c] <= hi[n] /\ c # n
    BY <2>1, <1>5
  <2>3. hi[c] <= n
    BY <2>1, <1>5
  <2> QED
    BY <1>1, <1>5, <1>7, <2>2, <2>3 DEF OneDown, c, d
<1>9. CASE d = 1
  <2>1. lo[c] = n /\ hi[c] = hi[n]
    BY <1>3, <1>4, <1>9
  <2>2. lo[n] <= lo[c] /\ hi[c] <= hi[n] /\ c # n
    BY <2>1, <1>5
  <2>3. n <= lo[c]
    BY <2>1, <1>5
  <2> QED
    BY <1>1, <1>5, <1>7, <2>2, <2>3 DEF OneDown, c, d
<1> QED
  BY <1>6, <1>8, <1>9

-----------------------------------------------------------------------------
(* Stage 2 of insert.                                                      *)

\* Growth goes from k up to B, the node in the slot p.
Growing(h, L, lo, hi, ht, k, p, B) ==
  /\ h \in Heaps /\ L \subseteq Keys /\ Shape(h, L, lo, hi) /\ ht \in Heights(L)
  /\ k \in L /\ k \in Keys /\ k \in Int
  /\ p \in TreeSlots(L) /\ B = Get(h, p) /\ B \in L
  /\ lo[B] < k /\ k < hi[B]
  /\ lo[B] \in Int /\ hi[B] \in Int
  /\ p # RootSlot => h.balance[B] # -1
  /\ NewLeaf(h, L, ht, k)
  /\ Sound(h, L \ {k}, ht, ht)
  /\ \A n \in L : /\ lo[B] < n /\ n < hi[B]
                  /\ OnPath(lo, hi, k, n)
                  /\ n # B
                  => h.balance[n] = -1

LEMMA Growth ==
  ASSUME TypeOK, NEW L, Own(L), pc = "rebalance"
  PROVE  \E lo, hi, ht : Growing(heap, L, lo, hi, ht, reg.key, reg.path_top, Top)
<1>1. PICK lo, hi, ht : Fits(pc, heap, L, lo, hi, ht, reg)
  BY DEF Own
<1> DEFINE k == reg.key
           p == reg.path_top
<1>2. /\ Shape(heap, L, lo, hi) /\ ht \in Heights(L)
      /\ RebalanceInv(heap, L, lo, hi, ht, reg)
  BY <1>1 DEF Fits, Stage
<1>3. heap \in Heaps /\ L \subseteq Keys /\ k \in Keys /\ k \in Int
  BY Running, OwnKeys
<1>4. /\ k \in L /\ NewLeaf(heap, L, ht, k)
      /\ Sound(heap, L \ {k}, ht, ht)
      /\ p \in TreeSlots(L) /\ Inside(lo, hi, p, k)
      /\ p # RootSlot => ~ IsBalanced(heap, Top)
      /\ heap.balance[k] = -1
  BY <1>2 DEF RebalanceInv, NewLeaf, GrowthStops, Leads, Top
<1>5. Top # Null /\ Top = Get(heap, p)
  BY <1>2, <1>4 DEF Shape, Placed, Top
<1>6. Top \in L /\ lo[Top] = Lo(lo, p) /\ hi[Top] = Hi(hi, p)
  BY <1>2, <1>4, <1>5 DEF Shape, Placed
<1>7. lo[Top] \in Int /\ hi[Top] \in Int
  BY <1>2, <1>6 DEF Shape, Bounds
<1>8. p # RootSlot => heap.balance[Top] # -1
  BY <1>3, <1>4, <1>5, <1>6, Running DEF IsBalanced
<1>9. ASSUME NEW n \in L, lo[Top] < n, n < hi[Top], OnPath(lo, hi, k, n), n # Top
      PROVE  heap.balance[n] = -1
  <2>1. Inside(lo, hi, p, n)
    BY <1>6, <1>9 DEF Inside
  <2> QED
    BY <2>1, <1>2, <1>4, <1>5, <1>9 DEF RebalanceInv, EvenBelow
<1>10. lo[Top] < k /\ k < hi[Top]
  BY <1>4, <1>6 DEF Inside
<1> HIDE DEF k, p
<1>11. Growing(heap, L, lo, hi, ht, k, p, Top)
  BY <1>2, <1>3, <1>4, <1>5, <1>6, <1>7, <1>8, <1>9, <1>10 DEF Growing
<1> QED
  BY <1>11 DEF k, p

\* On the path of k all nodes in the interval of n, and n itself, are balanced.
EvenInside(h, L, lo, hi, k, n) ==
  \A x \in L : /\ lo[n] < x /\ x < hi[n]
              /\ OnPath(lo, hi, k, x)
              => h.balance[x] = -1

\* What stage 3 has to do when growth goes from k up to path.
ToDo(h, L, lo, hi, ht, k, path) ==
  /\ Shape(h, L, lo, hi)
  /\ ht \in Heights(L)
  /\ NewLeaf(h, L, ht, k)
  /\ path \in L /\ path # Null
  /\ OnPath(lo, hi, k, path)
  /\ Sound(h, L \ {k}, ht, Seen(ht, path, 1))
  /\ EvenInside(h, L, lo, hi, k, path)

LEMMA ToDoUpdates ==
  ASSUME NEW L, L \subseteq Keys, NEW lo, NEW hi, NEW ht, ToDo(heap', L, lo, hi, ht, reg'.key, reg'.path), pc' = "update"
  PROVE  Own(L)'
<1>1. UpdateInv(heap', L, lo, hi, ht, reg')
  BY DEF ToDo, EvenInside, UpdateInv, NewLeaf
<1> QED
  BY <1>1 DEF Own, Fits, Stage, Own, ToDo

LEMMA InsertBelowBalancedKeeps ==
  ASSUME TypeOK, NEW L, Own(L), InsertBelowBalanced
  PROVE  Own(L)'
<1>1. /\ pc = "rebalance" /\ pc' = "update" /\ IsBalanced(heap, Top)
      /\ heap' = heap /\ reg'.key = reg.key /\ reg'.path = Top
  BY DEF InsertBelowBalanced, ToUpdate, TypeOK, Regs
<1>2. PICK lo, hi, ht : Growing(heap, L, lo, hi, ht, reg.key, reg.path_top, Top)
  BY <1>1, Growth
<1> DEFINE k == reg.key
           B == Top
<1>3. heap.balance[B] = -1 /\ B # Null
  BY <1>1, <1>2, Running, KeysAreNumbers DEF IsBalanced, Growing, Heaps
<1>4. reg.path_top = RootSlot /\ B = Get(heap, RootSlot)
  BY <1>2, <1>3 DEF Growing
<1>5. 1 \in Int /\ L \ {k} \subseteq L
  OBVIOUS
<1>6. Sound(heap, L \ {k}, ht, Seen(ht, B, 1))
  BY <1>2, <1>3, <1>4, <1>5, SoundAbove DEF Growing
<1>7. OnPath(lo, hi, k, B)
  BY <1>2 DEF Growing, OnPath
<1>8. ToDo(heap, L, lo, hi, ht, k, B)
  BY <1>2, <1>3, <1>6, <1>7 DEF Growing, ToDo, EvenInside
<1> QED
  BY <1>1, <1>8, OwnKeys, ToDoUpdates

\* Below path, which is further down than B, nothing has changed.
LEMMA EvenThere ==
  ASSUME NEW h, NEW g, NEW L, NEW lo, NEW hi, NEW lo1, NEW hi1, NEW ht, NEW k, NEW p, NEW B,
         Growing(h, L, lo, hi, ht, k, p, B),
         NEW T, B \in T, Same(L, T, h.balance, g.balance), Same(L, T, lo, lo1), Same(L, T, hi, hi1),
         NEW path \in L \ T, lo[B] <= lo[path], hi[path] <= hi[B],
         lo[path] \in Int, hi[path] \in Int,
         \A n \in T : n <= lo[path] \/ hi[path] <= n
  PROVE  EvenInside(g, L, lo1, hi1, k, path)
<1> SUFFICES ASSUME NEW n \in L, lo1[path] < n, n < hi1[path], OnPath(lo1, hi1, k, n)
             PROVE  g.balance[n] = -1
  BY DEF EvenInside
<1>1. lo1[path] = lo[path] /\ hi1[path] = hi[path] /\ n \in Int /\ lo[B] \in Int /\ hi[B] \in Int
  BY KeysAreNumbers DEF Same, Growing
<1>2. n \notin T
  BY <1>1
<1>3. lo1[n] = lo[n] /\ hi1[n] = hi[n] /\ g.balance[n] = h.balance[n]
  BY <1>2 DEF Same
<1>4. lo[B] < n /\ n < hi[B] /\ n # B
  BY <1>1, <1>2
<1> QED
  BY <1>3, <1>4 DEF OnPath, Growing

LEMMA InsertShorterPathKeeps ==
  ASSUME TypeOK, NEW L, Own(L), InsertShorterPath
  PROVE  Own(L)'
<1> DEFINE k == reg.key
           B == Top
           d == First
           c == Get(heap, <<B, d>>)
           g == SetBalance(heap, B, -1)
<1>1. /\ pc = "rebalance" /\ pc' = "update" /\ Balance(heap, B) = 1 - d
      /\ heap' = g /\ reg'.key = k /\ reg'.path = Link(heap, B, d)
  BY DEF InsertShorterPath, ToUpdate, TypeOK, Regs
<1>2. PICK lo, hi, ht : Growing(heap, L, lo, hi, ht, k, reg.path_top, B)
  BY <1>1, Growth
<1>3. B \in Keys /\ heap.balance[B] = 1 - d /\ d \in Dirs /\ d = Direction(k, B)
  BY <1>1, <1>2, Running, DirectionType DEF Growing, First
<1>4. reg'.path = c
  BY <1>1, <1>3, Running
<1>5. /\ heap \in Heaps /\ L \subseteq Keys /\ Shape(heap, L, lo, hi) /\ ht \in Heights(L)
      /\ k \in L /\ B \in L /\ NewLeaf(heap, L, ht, k)
      /\ Sound(heap, L \ {k}, ht, ht)
      /\ lo[B] < k /\ k < hi[B]
      /\ heap.balance[k] = -1
  BY <1>2 DEF Growing, NewLeaf
<1>6. B # k
  BY <1>3, <1>5 DEF Dirs
<1> HIDE DEF B, k, d
<1>7. OneDown(heap, L, lo, hi, k, B, c)
  BY <1>3, <1>5, <1>6, PathChild
<1> HIDE DEF c, g
<1>8. g.balance = [heap.balance EXCEPT ![B] = -1] /\ \A t : Get(g, t) = Get(heap, t)
  BY <1>3, <1>5, SetBalanceGet DEF g
<1>9. g.balance[B] = -1 /\ Same(L, {B}, heap.balance, g.balance)
  BY <1>3, <1>5, <1>8 DEF Heaps, Same
<1>10. Rebalanced(heap, g, L, B)
  BY <1>5, <1>8, <1>9 DEF Rebalanced
<1>11. c \in L /\ c = Get(heap, <<B, d>>)
  BY <1>7 DEF OneDown, c
<1>12. Sound(g, L \ {k}, ht, Seen(ht, c, 1))
  BY <1>3, <1>5, <1>6, <1>9, <1>10, <1>11, InsertShorterLevels
<1>13. Shape(g, L, lo, hi)
  BY <1>5, <1>8, SameShape
<1>14. NewLeaf(g, L, ht, k)
  BY <1>5, <1>6, <1>8, <1>9 DEF NewLeaf, Same
<1>15. EvenInside(g, L, lo, hi, k, c)
  <2>1. Same(L, {B}, lo, lo) /\ Same(L, {B}, hi, hi) /\ B \in {B}
    BY DEF Same
  <2>2. c \in L \ {B} /\ lo[B] <= lo[c] /\ hi[c] <= hi[B] /\ lo[c] \in Int /\ hi[c] \in Int
    BY <1>7 DEF OneDown
  <2>3. \A n \in {B} : n <= lo[c] \/ hi[c] <= n
    BY <1>7 DEF OneDown
  <2> QED
    BY <2>1, <2>2, <2>3, <1>2, <1>9, EvenThere DEF B, k
<1>16. OnPath(lo, hi, k, c)
  BY <1>7, <1>5, KeysAreNumbers DEF OneDown, OnPath
<1>17. ToDo(g, L, lo, hi, ht, k, c)
  BY <1>5, <1>11, <1>12, <1>13, <1>14, <1>15, <1>16, KeysAreNumbers DEF ToDo
<1> QED
  BY <1>1, <1>4, <1>17, OwnKeys, ToDoUpdates

-----------------------------------------------------------------------------
(* Stage 3 of insert.                                                      *)

LEMMA InsertUpdateKeeps ==
  ASSUME TypeOK, NEW L, Own(L), InsertUpdate
  PROVE  Own(L)'
<1>1. PICK lo, hi, ht : Fits(pc, heap, L, lo, hi, ht, reg)
  BY DEF Own
<1> DEFINE k == reg.key
           B == reg.path
           d == Direction(k, B)
           c == Get(heap, <<B, d>>)
           g == SetBalance(heap, B, d)
<1>2. /\ pc = "update" /\ pc' = "update" /\ B # Null /\ B # k
      /\ heap' = g /\ reg'.key = k /\ reg'.path = Link(heap, B, d)
  BY DEF InsertUpdate, Onward, TypeOK, Regs
<1>3. /\ Shape(heap, L, lo, hi) /\ ht \in Heights(L) /\ UpdateInv(heap, L, lo, hi, ht, reg)
  BY <1>1, <1>2 DEF Fits, Stage
<1>4. heap \in Heaps /\ L \subseteq Keys /\ k \in Keys /\ k \in Int
  BY <1>2, Running, OwnKeys
<1>5. /\ k \in L /\ NewLeaf(heap, L, ht, k)
      /\ B \in L /\ B \in Keys /\ OnPath(lo, hi, k, B)
      /\ Sound(heap, L \ {k}, ht, Seen(ht, B, 1))
      /\ \A n \in L : /\ lo[B] < n /\ n < hi[B]
                         /\ OnPath(lo, hi, k, n)
                         => heap.balance[n] = -1
      /\ Get(heap, <<k, 1>>) = Null
  BY <1>2, <1>3, <1>4 DEF UpdateInv, NewLeaf, Dirs
<1>6. d \in Dirs
  BY DirectionType
<1>7. reg'.path = c
  BY <1>2, <1>5, <1>6, Running
<1> HIDE DEF k, B, g
<1>8. /\ lo[B] \in Int /\ hi[B] \in Int /\ B \in Int /\ lo[B] < B /\ B < hi[B]
      /\ lo[k] \in Int /\ hi[k] \in Int
  BY <1>3, <1>5, KeysAreNumbers DEF Shape, Bounds, Ended
<1>9. lo[B] # k
  <2> SUFFICES ASSUME lo[B] = k PROVE FALSE
    OBVIOUS
  <2>1. k < B /\ B < hi[k]
    BY <1>3, <1>5, <1>8 DEF Shape, Bounded
  <2>2. Inside(lo, hi, <<k, 1>>, B)
    BY <2>1, <1>4, SlotEnds DEF Inside
  <2>3. <<k, 1>> \in TreeSlots(L)
    BY <1>5, SlotsOf DEF Dirs
  <2> QED
    BY <2>2, <2>3, <1>3, <1>5 DEF Shape, Placed
<1>10. lo[B] < k /\ k < hi[B]
  BY <1>4, <1>5, <1>8, <1>9 DEF OnPath
<1>11. OneDown(heap, L, lo, hi, k, B, c)
  BY <1>2, <1>3, <1>4, <1>5, <1>10, PathChild
<1>12. heap.balance[B] = -1
  BY <1>5, <1>8
<1> HIDE DEF d
<1>13. g.balance = [heap.balance EXCEPT ![B] = d] /\ \A t : Get(g, t) = Get(heap, t)
  BY <1>4, <1>5, SetBalanceGet DEF g
<1>14. g.balance[B] = d /\ Same(L, {B}, heap.balance, g.balance)
  BY <1>4, <1>5, <1>13 DEF Heaps, Same
<1>15. Rebalanced(heap, g, L, B)
  BY <1>3, <1>4, <1>5, <1>13, <1>14 DEF Rebalanced
<1>16. c \in L
  BY <1>11 DEF OneDown
<1>17. PICK ht1 \in Heights(L) :
         ht1[k] = ht[k] /\ Sound(g, L \ {k}, ht1, Seen(ht1, c, 1))
  <2>1. /\ ht \in Heights(L) /\ k \in L /\ B # k /\ d \in Dirs
        /\ Sound(heap, L \ {k}, ht, Seen(ht, B, 1))
        /\ heap.balance[B] = -1 /\ g.balance[B] = d
        /\ Get(heap, <<B, d>>) \in L
    BY <1>2, <1>3, <1>5, <1>6, <1>12, <1>14, <1>16
  <2>2. \E ht2 \in Heights(L) :
          /\ ht2[k] = ht[k]
          /\ Sound(g, L \ {k}, ht2, Seen(ht2, Get(heap, <<B, d>>), 1))
    BY <2>1, <1>15, InsertUpdateLevels
  <2> QED
    BY <2>2
<1>18. Shape(g, L, lo, hi)
  BY <1>3, <1>13, SameShape
<1>19. NewLeaf(g, L, ht1, k)
  BY <1>2, <1>5, <1>13, <1>14, <1>17 DEF NewLeaf, Same
<1> HIDE DEF c
<1>20. EvenInside(g, L, lo, hi, k, c)
  <2> SUFFICES ASSUME NEW n \in L, lo[c] < n, n < hi[c], OnPath(lo, hi, k, n)
               PROVE  g.balance[n] = -1
    BY DEF EvenInside
  <2>1. n \in Int
    BY <1>4, KeysAreNumbers
  <2>2. lo[B] < n /\ n < hi[B] /\ n # B
    BY <2>1, <1>8, <1>11 DEF OneDown
  <2> QED
    BY <2>2, <1>5, <1>14 DEF Same
<1>21. OnPath(lo, hi, k, c)
  BY <1>4, <1>11 DEF OneDown, OnPath
<1>22. ToDo(g, L, lo, hi, ht1, k, c)
  BY <1>4, <1>16, <1>17, <1>18, <1>19, <1>20, <1>21, KeysAreNumbers DEF ToDo
<1> QED
  BY <1>2, <1>7, <1>22, OwnKeys, ToDoUpdates

LEMMA InsertReturnKeeps ==
  ASSUME TypeOK, NEW L, Own(L), InsertReturn
  PROVE  Own(L)'
<1>1. PICK lo, hi, ht : Fits(pc, heap, L, lo, hi, ht, reg)
  BY DEF Own
<1> DEFINE k == reg.key
           ht1 == [ht EXCEPT ![k] = 1]
<1>2. /\ pc = "update" /\ pc' = "idle" /\ (reg.path = Null \/ reg.path = k)
      /\ heap' = heap
  BY DEF InsertReturn, Return
<1>3. /\ Shape(heap, L, lo, hi) /\ ht \in Heights(L) /\ UpdateInv(heap, L, lo, hi, ht, reg)
  BY <1>1, <1>2 DEF Fits, Stage
<1>4. L \subseteq Keys /\ k \in Keys /\ k # Null
  BY <1>2, Running, OwnKeys, KeysAreNumbers
<1>5. \E ht2 \in Heights(L) : Sound(heap, L, ht2, ht2)
  <2>1. CASE reg.path = Null
    BY <2>1, <1>3 DEF UpdateInv
  <2>2. CASE reg.path = k
    <3>1. /\ NewLeaf(heap, L, ht, k) /\ k \in L
          /\ Sound(heap, L \ {k}, ht, Seen(ht, k, 1))
      BY <2>2, <1>3, <1>4 DEF UpdateInv
    <3>2. 1 \in Int
      OBVIOUS
    <3>3. /\ \A n \in L : Seen(ht, k, 1)[n] = IF n = k THEN ht[n] + 1 ELSE ht[n]
      BY <3>2, <1>3, SeenType
    <3>4. ht[k] = 0 /\ heap.balance[k] = -1 /\ \A d \in Dirs : Get(heap, <<k, d>>) = Null
      BY <3>1 DEF NewLeaf
    <3>5. ht1 \in Heights(L) /\ ht1[k] = 1 /\ \A n \in L : n # k => ht1[n] = ht[n]
      BY <3>1, <1>3 DEF Heights
    <3>6. \A n \in L : Seen(ht, k, 1)[n] = ht1[n]
      BY <3>3, <3>4, <3>5
    <3> HIDE DEF ht1, k
    <3>7. Level(heap, k, 0, ht1, ht1)
      <4>1. Get(heap, <<k, 0>>) = Null /\ Get(heap, <<k, 1 - 0>>) = Null
        BY <3>4 DEF Dirs
      <4> QED
        BY <4>1, <3>4, <3>5 DEF Level, Weighs, Tall, Higher
    <3>8. ASSUME NEW n \in L, n # k PROVE Level(heap, n, 0, ht1, ht1)
      <4>1. Level(heap, n, 0, ht, Seen(ht, k, 1))
        BY <3>1, <3>8 DEF Sound
      <4>2. ht1[n] = ht[n]
        BY <3>5, <3>8
      <4>3. ASSUME NEW d \in Dirs
            PROVE  Tall(ht1, Get(heap, <<n, d>>)) = Tall(Seen(ht, k, 1), Get(heap, <<n, d>>))
        <5>1. Get(heap, <<n, d>>) \in L \/ Get(heap, <<n, d>>) = Null
          BY <1>3, <1>4, ChildType
        <5> QED
          BY <5>1, <3>6 DEF Tall
      <4> QED
        BY <4>1, <4>2, <4>3, LevelKept
    <3> QED
      BY <3>5, <3>7, <3>8 DEF Sound
  <2> QED
    BY <2>1, <2>2, <1>2
<1>6. PICK ht2 \in Heights(L) : Sound(heap, L, ht2, ht2)
  BY <1>5
<1>7. Fits(pc', heap', L, lo, hi, ht2, reg')
  BY <1>2, <1>3, <1>6 DEF Fits, Stage
<1> QED
  BY <1>7, OwnKeys DEF Own

-----------------------------------------------------------------------------
(* The rotations of insert.                                                *)

\* B leans to the side of k, where D is its child.
HighSide(h, L, lo, hi, k, p, dir, B, D) ==
  /\ B # k /\ D # k
  /\ dir \in Dirs /\ dir = Direction(k, B)
  /\ h.balance[B] = dir /\ h.balance[D] = -1
  /\ Pair(h, L, p, dir, B, D)
  /\ OneDown(h, L, lo, hi, k, B, D)

LEMMA LeansToKey ==
  ASSUME NEW h, NEW L, NEW lo, NEW hi, NEW ht, NEW k, NEW p, NEW B,
         Growing(h, L, lo, hi, ht, k, p, B),
         NEW dir, dir = Direction(k, B), h.balance[B] = dir
  PROVE  HighSide(h, L, lo, hi, k, p, dir, B, Get(h, <<B, dir>>))
<1> DEFINE D == Get(h, <<B, dir>>)
<1>1. /\ L \subseteq Keys /\ Shape(h, L, lo, hi) /\ ht \in Heights(L)
      /\ k \in L /\ k \in Int /\ B \in L /\ lo[B] < k /\ k < hi[B]
      /\ p \in TreeSlots(L) /\ B = Get(h, p)
      /\ ht[k] = 0 /\ h.balance[k] = -1
      /\ Sound(h, L \ {k}, ht, ht)
      /\ lo[B] \in Int /\ hi[B] \in Int
  BY DEF Growing, NewLeaf
<1>2. dir \in Dirs /\ dir # -1
  BY DirectionType DEF Dirs
<1>3. B # k
  BY <1>1, <1>2
<1>4. OneDown(h, L, lo, hi, k, B, D)
  BY <1>1, <1>3, PathChild
<1> HIDE DEF D
<1>5. D \in L /\ D # B /\ lo[D] < k /\ k < hi[D] /\ lo[D] < D /\ D < hi[D]
      /\ lo[B] <= lo[D] /\ hi[D] <= hi[B] /\ lo[D] \in Int /\ hi[D] \in Int /\ D \in Int
  BY <1>4 DEF OneDown
<1>6. D # k
  <2>1. ht \in Views(L)
    BY <1>1 DEF Heights, Views
  <2>2. Level(h, B, 0, ht, ht)
    BY <1>1, <1>3 DEF Sound
  <2>3. Level(h, B, dir, ht, ht)
    BY <2>1, <2>2, <1>1, <1>2, LevelSides
  <2> DEFINE C == Get(h, <<B, 1 - dir>>)
  <2>4. Tall(ht, D) = Tall(ht, C) + 1
    BY <2>3, <1>1, <1>2 DEF Level, Weighs, D, Dirs
  <2>5. 1 - dir \in Dirs
    BY <1>2 DEF Dirs
  <2>6. C \in L \/ C = Null
    BY <2>5, <1>1, ChildType
  <2> HIDE DEF C
  <2>7. Tall(ht, C) \in Nat
    BY <2>6, <1>1 DEF Tall, Heights
  <2>8. Tall(ht, D) = ht[D]
    BY <1>1, <1>5, KeysAreNumbers DEF Tall
  <2>9. ht[D] # 0
    BY <2>4, <2>7, <2>8
  <2> QED
    BY <2>9, <1>1
<1>7. h.balance[D] = -1
  <2>1. lo[B] < D /\ D < hi[B]
    BY <1>1, <1>5
  <2>2. OnPath(lo, hi, k, D)
    BY <1>1, <1>5 DEF OnPath
  <2> QED
    BY <2>1, <2>2, <1>5 DEF Growing
<1>8. Pair(h, L, p, dir, B, D)
  BY <1>1, <1>2, <1>5 DEF Pair, D
<1> QED
  BY <1>2, <1>3, <1>4, <1>6, <1>7, <1>8 DEF HighSide, D

\* Two steps down the path.
TwoDown(lo, hi, B, P) ==
  /\ P # B
  /\ lo[B] <= lo[P] /\ hi[P] <= hi[B]
  /\ B <= lo[P] \/ hi[P] <= B

LEMMA DownTwice ==
  ASSUME NEW h, NEW L, NEW lo, NEW hi, NEW k, NEW B \in Int, NEW D, NEW P,
         lo[B] \in Int, hi[B] \in Int,
         OneDown(h, L, lo, hi, k, B, D),
         OneDown(h, L, lo, hi, k, D, P)
  PROVE  TwoDown(lo, hi, B, P)
<1>1. /\ lo[D] \in Int /\ hi[D] \in Int /\ D \in Int
      /\ lo[B] <= lo[D] /\ hi[D] <= hi[B]
      /\ B <= lo[D] \/ hi[D] <= B
  BY DEF OneDown
<1>2. /\ lo[P] \in Int /\ hi[P] \in Int /\ P \in Int
      /\ lo[D] <= lo[P] /\ hi[P] <= hi[D]
      /\ lo[P] < P /\ P < hi[P]
  BY DEF OneDown
<1> QED
  BY <1>1, <1>2 DEF TwoDown

\* The new leaf is none of the nodes moved.
LEMMA LeafStays ==
  ASSUME NEW h, NEW g, NEW L, NEW p, NEW T, NEW B, Get(h, p) = B, B # Null,
         LinksOutside(h, g, L, p, T), Same(L, T, h.balance, g.balance),
         NEW ht, NEW ht1, NEW k, k \notin T, NewLeaf(h, L, ht, k), ht1[k] = ht[k]
  PROVE  NewLeaf(g, L, ht1, k)
<1>1. k \in L /\ h.balance[k] = -1 /\ ht[k] = 0 /\ \A d \in Dirs : Get(h, <<k, d>>) = Null
  BY DEF NewLeaf
<1>2. \A d \in Dirs : Get(g, <<k, d>>) = Null
  BY <1>1 DEF LinksOutside
<1> QED
  BY <1>1, <1>2 DEF NewLeaf, Same

LEMMA InsertRotate2Keeps ==
  ASSUME TypeOK, NEW L, Own(L), InsertRotate2
  PROVE  Own(L)'
<1> DEFINE k == reg.key
           p == reg.path_top
           B == Top
           dir == First
           D == Get(heap, <<B, dir>>)
           P == Get(heap, <<D, dir>>)
           g == AvlRotate2(heap, p, dir)
           T == {B, D}
<1>1. /\ pc = "rebalance" /\ pc' = "update" /\ Balance(heap, B) = dir /\ First = Second
      /\ heap' = g /\ reg'.key = k
      /\ reg'.path = Link(heap, Link(heap, B, dir), dir)
  BY DEF InsertRotate2, ToUpdate, TypeOK, Regs
<1>2. PICK lo, hi, ht : Growing(heap, L, lo, hi, ht, k, p, B)
  BY <1>1, Growth
<1>3. B \in Keys /\ heap.balance[B] = dir /\ dir \in Dirs /\ dir = Direction(k, B)
  BY <1>1, <1>2, Running, DirectionType DEF Growing, First
<1>4. /\ heap \in Heaps /\ L \subseteq Keys /\ Shape(heap, L, lo, hi) /\ ht \in Heights(L)
      /\ k \in L /\ B \in L /\ B \in Int /\ NewLeaf(heap, L, ht, k)
      /\ Sound(heap, L \ {k}, ht, ht)
      /\ lo[B] < k /\ k < hi[B] /\ lo[B] \in Int /\ hi[B] \in Int
      /\ Get(heap, p) = B /\ B # Null
  BY <1>2, KeysAreNumbers DEF Growing
<1>5. HighSide(heap, L, lo, hi, k, p, dir, B, D)
  BY <1>2, <1>3, LeansToKey
<1>6. /\ B # k /\ D # k /\ heap.balance[D] = -1
      /\ Pair(heap, L, p, dir, B, D)
      /\ OneDown(heap, L, lo, hi, k, B, D)
      /\ D \in L /\ lo[D] < k /\ k < hi[D]
  BY <1>5 DEF HighSide, OneDown
<1>7. dir = Direction(k, D)
  BY <1>1, <1>3, <1>6, Running DEF Second
<1>8. OneDown(heap, L, lo, hi, k, D, Get(heap, <<D, Direction(k, D)>>))
  BY <1>4, <1>6, PathChild
<1>9. OneDown(heap, L, lo, hi, k, D, P) /\ P \in L /\ P # D
  BY <1>7, <1>8 DEF OneDown
<1>10. reg'.path = P
  BY <1>1, <1>3, <1>4, <1>6, Running
<1> HIDE DEF k, p, B, dir, D, P, g
<1>11. /\ AvlRotate2(heap, p, dir) \in Heaps
       /\ AvlRotate2(heap, p, dir).balance = [heap.balance EXCEPT ![B] = -1, ![D] = -1]
       /\ Turned(heap, AvlRotate2(heap, p, dir), p, dir, B, D)
  <2>1. heap \in Heaps /\ L \subseteq Keys /\ Shape(heap, L, lo, hi)
    BY <1>4
  <2>2. Pair(heap, L, p, dir, B, D)
    BY <1>6
  <2> QED
    BY <2>1, <2>2, AvlRotate2Does
<1>12. /\ g \in Heaps /\ Turned(heap, g, p, dir, B, D)
       /\ g.balance = [heap.balance EXCEPT ![B] = -1, ![D] = -1]
  BY <1>11 DEF g
<1>13. g.balance[B] = -1 /\ g.balance[D] = -1 /\ Same(L, T, heap.balance, g.balance)
  BY <1>4, <1>6, <1>12 DEF Heaps, Same
<1>14. Raised2(heap, g, L, lo, hi, p, dir, B, D)
  BY <1>4, <1>6, <1>12, Raise2
<1> DEFINE lo1 == TurnLo(lo, dir, B, D)
           hi1 == TurnHi(hi, dir, B, D)
<1>15. /\ Shape(g, L, lo1, hi1)
       /\ \A n \in L \ T : lo1[n] = lo[n] /\ hi1[n] = hi[n]
       /\ LinksOutside(heap, g, L, p, T)
  BY <1>14 DEF Raised2, Keeps
<1> HIDE DEF lo1, hi1
<1>16. PICK ht1 \in Heights(L) :
         ht1[k] = ht[k] /\ Sound(g, L \ {k}, ht1, Seen(ht1, P, 1))
  <2>1. Turns(heap, g, L, lo, hi, p, dir, B, D)
    BY <1>4, <1>6, <1>13, <1>14 DEF Turns
  <2>2. Untold(heap, L, {B, D}, ht, k)
    BY <1>4, <1>6 DEF Untold
  <2>3. /\ heap.balance[B] = dir /\ heap.balance[D] = -1
        /\ g.balance[B] = -1 /\ g.balance[D] = -1
        /\ Get(heap, <<D, dir>>) \in L
    BY <1>3, <1>6, <1>9, <1>13 DEF P
  <2>4. GrownAt(g, L, ht, k, Get(heap, <<D, dir>>))
    BY <2>1, <2>2, <2>3, InsertRotate2Levels
  <2> QED
    BY <2>4 DEF GrownAt, P
<1>17. TwoDown(lo, hi, B, P)
  BY <1>4, <1>6, <1>9, DownTwice
<1>18. NewLeaf(g, L, ht1, k)
  BY <1>4, <1>6, <1>13, <1>15, <1>16, LeafStays
<1>19. P \in L \ T /\ lo[B] <= lo[P] /\ hi[P] <= hi[B] /\ lo[P] \in Int /\ hi[P] \in Int
  BY <1>9, <1>17 DEF OneDown, TwoDown
<1>20. EvenInside(g, L, lo1, hi1, k, P)
  <2>1. Same(L, T, lo, lo1) /\ Same(L, T, hi, hi1) /\ B \in T
    BY <1>15 DEF Same
  <2>2. \A n \in T : n <= lo[P] \/ hi[P] <= n
    BY <1>9, <1>17 DEF OneDown, TwoDown
  <2> HIDE DEF T
  <2> QED
    BY <2>1, <2>2, <1>2, <1>13, <1>19, EvenThere
<1>21. OnPath(lo1, hi1, k, P)
  <2>1. lo[P] < k /\ k < hi[P]
    BY <1>9 DEF OneDown
  <2>2. lo1[P] = lo[P] /\ hi1[P] = hi[P] /\ k \in Int
    BY <1>4, <1>15, <1>19, KeysAreNumbers
  <2> QED
    BY <2>1, <2>2, <1>19 DEF OnPath
<1>22. ToDo(g, L, lo1, hi1, ht1, k, P)
  BY <1>4, <1>9, <1>15, <1>16, <1>18, <1>20, <1>21, KeysAreNumbers DEF ToDo
<1> QED
  BY <1>1, <1>10, <1>22, OwnKeys, ToDoUpdates DEF k

LEMMA DownAgain ==
  ASSUME NEW h, NEW L, NEW lo, NEW hi, NEW k, NEW B \in Int, NEW D, NEW P,
         lo[B] \in Int, hi[B] \in Int, lo[D] \in Int, hi[D] \in Int,
         TwoDown(lo, hi, B, D), OneDown(h, L, lo, hi, k, D, P)
  PROVE  TwoDown(lo, hi, B, P)
<1>1. /\ lo[B] <= lo[D] /\ hi[D] <= hi[B]
      /\ B <= lo[D] \/ hi[D] <= B
  BY DEF TwoDown
<1>2. /\ lo[P] \in Int /\ hi[P] \in Int /\ P \in Int
      /\ lo[D] <= lo[P] /\ hi[P] <= hi[D]
      /\ lo[P] < P /\ P < hi[P]
  BY DEF OneDown
<1> QED
  BY <1>1, <1>2 DEF TwoDown

\* The three nodes of a double rotation, whose inner one is D.
Bent(h, L, lo, hi, k, p, dir, B, F, D) ==
  /\ dir \in Dirs /\ B \in L /\ F \in L /\ D \in L
  /\ B # k /\ F # k
  /\ h.balance[B] = dir /\ h.balance[F] = -1 /\ h.balance[D] = -1
  /\ Pair(h, L, p, dir, B, F) /\ Pair(h, L, <<B, dir>>, 1 - dir, F, D)
  /\ OneDown(h, L, lo, hi, k, B, F) /\ OneDown(h, L, lo, hi, k, F, D)
  /\ TwoDown(lo, hi, B, D)

LEMMA BendsAtKey ==
  ASSUME NEW h, NEW L, NEW lo, NEW hi, NEW ht, NEW k, NEW p, NEW B,
         Growing(h, L, lo, hi, ht, k, p, B),
         NEW dir, dir = Direction(k, B), h.balance[B] = dir,
         Direction(k, Get(h, <<B, dir>>)) # dir
  PROVE  Bent(h, L, lo, hi, k, p, dir, B, Get(h, <<B, dir>>),
              Get(h, <<Get(h, <<B, dir>>), 1 - dir>>))
<1> DEFINE F == Get(h, <<B, dir>>)
           D == Get(h, <<F, 1 - dir>>)
<1>1. HighSide(h, L, lo, hi, k, p, dir, B, F)
  BY LeansToKey
<1>2. /\ L \subseteq Keys /\ Shape(h, L, lo, hi) /\ k \in L /\ k \in Int
      /\ B \in L /\ B \in Int /\ lo[B] \in Int /\ hi[B] \in Int
      /\ lo[B] < k /\ k < hi[B] /\ h.balance[k] = -1
  BY KeysAreNumbers DEF Growing, NewLeaf
<1>3. /\ B # k /\ F # k /\ dir \in Dirs
      /\ h.balance[B] = dir /\ h.balance[F] = -1
      /\ Pair(h, L, p, dir, B, F)
      /\ OneDown(h, L, lo, hi, k, B, F)
      /\ F \in L /\ lo[F] < k /\ k < hi[F] /\ F = Get(h, <<B, dir>>)
  BY <1>1 DEF HighSide, OneDown
<1> HIDE DEF F
<1>4. 1 - dir = Direction(k, F) /\ 1 - dir \in Dirs
  BY <1>3, DirectionType DEF Dirs, F
<1>5. OneDown(h, L, lo, hi, k, F, D)
  BY <1>2, <1>3, <1>4, PathChild
<1> HIDE DEF D
<1>6. D \in L /\ lo[D] < k /\ k < hi[D] /\ D = Get(h, <<F, 1 - dir>>)
      /\ lo[D] < D /\ D < hi[D] /\ lo[D] \in Int /\ hi[D] \in Int /\ D \in Int
  BY <1>5 DEF OneDown, D
<1>7. TwoDown(lo, hi, B, D)
  BY <1>2, <1>3, <1>5, DownTwice
<1>8. h.balance[D] = -1
  <2>1. lo[B] < D /\ D < hi[B] /\ D # B
    BY <1>2, <1>6, <1>7 DEF TwoDown
  <2>2. OnPath(lo, hi, k, D)
    BY <1>2, <1>6 DEF OnPath
  <2> QED
    BY <2>1, <2>2, <1>6 DEF Growing
<1>9. Pair(h, L, <<B, dir>>, 1 - dir, F, D)
  BY <1>2, <1>3, <1>4, <1>6, SlotsOf DEF Pair
<1> QED
  BY <1>2, <1>3, <1>5, <1>6, <1>7, <1>8, <1>9 DEF Bent, D, F

\* The three nodes and fields after AvlRotate3, in one predicate.
Rotated3(h, g, L, lo, hi, top, dir, third, B, F, D) ==
  /\ g.balance = Evened(h.balance, third, dir, B, F, D)
  /\ \E lo1, hi1 : /\ Raised3(h, g, L, lo, hi, lo1, hi1, top, dir, B, F, D)
                   /\ Rises(h, g, L, lo, hi, lo1, hi1, top, dir, B, F, D)

LEMMA AvlRotate3Raises ==
  ASSUME NEW h \in Heaps, NEW L, L \subseteq Keys, NEW lo, NEW hi, Shape(h, L, lo, hi),
         NEW top, NEW dir, NEW third, NEW B, NEW F, NEW D,
         Pair(h, L, top, dir, B, F), Pair(h, L, <<B, dir>>, 1 - dir, F, D)
  PROVE  Rotated3(h, AvlRotate3(h, top, dir, third), L, lo, hi, top, dir, third, B, F, D)
<1> DEFINE g == AvlRotate3(h, top, dir, third)
<1>1. /\ AvlRotate3(h, top, dir, third) \in Heaps
      /\ AvlRotate3(h, top, dir, third).balance = Evened(h.balance, third, dir, B, F, D)
      /\ \E lo1, hi1 : /\ Shape(AvlRotate3(h, top, dir, third), L, lo1, hi1)
                       /\ Keeps(L, lo, hi, lo1, hi1, dir, B, {B, F, D})
      /\ LinksOutside(h, AvlRotate3(h, top, dir, third), L, top, {B, F, D})
      /\ Links3(h, AvlRotate3(h, top, dir, third), top, dir, B, F, D)
      /\ Brings3(h, dir, B, F, D)
      /\ B # F /\ B # D /\ F # D
  BY AvlRotate3Does
<1> HIDE DEF g
<1>2. PICK lo1, hi1 : /\ Shape(g, L, lo1, hi1)
                      /\ Keeps(L, lo, hi, lo1, hi1, dir, B, {B, F, D})
  BY <1>1 DEF g
<1>3. Raised3(h, g, L, lo, hi, lo1, hi1, top, dir, B, F, D)
  BY <1>1, <1>2 DEF Raised3, g
<1>4. g.balance = Evened(h.balance, third, dir, B, F, D)
  BY <1>1 DEF g
<1>5. Same(L, {B, F, D}, h.balance, g.balance)
  <2>1. L \subseteq Keys /\ h.balance \in [Keys -> {-1, 0, 1}]
    BY DEF Heaps
  <2> QED
    BY <2>1, <1>4 DEF Same, Evened
<1>6. Rises(h, g, L, lo, hi, lo1, hi1, top, dir, B, F, D)
  BY <1>3, <1>5 DEF Rises
<1> QED
  BY <1>3, <1>4, <1>6 DEF Rotated3, g

\* The path goes on below the inner node.
LEMMA InsertRotate3Goes ==
  ASSUME NEW h \in Heaps, NEW g, NEW L, NEW lo, NEW hi, NEW ht, NEW k, NEW p,
         NEW dir, NEW B, NEW F, NEW D, NEW e, e = Direction(k, D), k # D,
         Growing(h, L, lo, hi, ht, k, p, B),
         Bent(h, L, lo, hi, k, p, dir, B, F, D),
         Rotated3(h, g, L, lo, hi, p, dir, e, B, F, D)
  PROVE  \E lo1, hi1, ht1 : ToDo(g, L, lo1, hi1, ht1, k, Get(h, <<D, e>>))
<1> DEFINE P == Get(h, <<D, e>>)
           T == {B, F, D}
<1>1. /\ L \subseteq Keys /\ Shape(h, L, lo, hi) /\ ht \in Heights(L)
      /\ k \in L /\ k \in Int /\ B \in Int /\ NewLeaf(h, L, ht, k)
      /\ Sound(h, L \ {k}, ht, ht)
      /\ lo[B] \in Int /\ hi[B] \in Int
      /\ Get(h, p) = B /\ B # Null
  BY KeysAreNumbers DEF Growing
<1>2. /\ dir \in Dirs /\ B \in L /\ F \in L /\ D \in L
      /\ B # k /\ F # k
      /\ h.balance[B] = dir /\ h.balance[F] = -1 /\ h.balance[D] = -1
      /\ OneDown(h, L, lo, hi, k, B, F) /\ OneDown(h, L, lo, hi, k, F, D)
      /\ TwoDown(lo, hi, B, D)
  BY DEF Bent
<1>3. lo[D] < k /\ k < hi[D] /\ lo[D] \in Int /\ hi[D] \in Int
      /\ lo[F] \in Int /\ hi[F] \in Int /\ F \in Int
  BY <1>2 DEF OneDown
<1>4. OneDown(h, L, lo, hi, k, D, P) /\ P \in L /\ P # D
  <2>1. OneDown(h, L, lo, hi, k, D, Get(h, <<D, Direction(k, D)>>))
    BY <1>1, <1>2, <1>3, PathChild
  <2> QED
    BY <2>1 DEF OneDown
<1> HIDE DEF P
<1>5. TwoDown(lo, hi, F, P)
  BY <1>2, <1>3, <1>4, DownTwice
<1>6. TwoDown(lo, hi, B, P)
  BY <1>1, <1>2, <1>3, <1>4, DownAgain
<1>7. P \in L \ T /\ lo[B] <= lo[P] /\ hi[P] <= hi[B] /\ lo[P] \in Int /\ hi[P] \in Int
  BY <1>4, <1>5, <1>6 DEF OneDown, TwoDown
<1>8. \A n \in T : n <= lo[P] \/ hi[P] <= n
  BY <1>4, <1>5, <1>6 DEF OneDown, TwoDown
<1>9. PICK lo1, hi1 : Rises(h, g, L, lo, hi, lo1, hi1, p, dir, B, F, D)
  BY DEF Rotated3
<1>10. /\ Shape(g, L, lo1, hi1)
       /\ \A n \in L \ T : lo1[n] = lo[n] /\ hi1[n] = hi[n]
       /\ LinksOutside(h, g, L, p, T)
       /\ Same(L, T, h.balance, g.balance)
       /\ B # F /\ B # D /\ F # D
  BY <1>9 DEF Rises, Raised3, Keeps
<1>11. e \in Dirs /\ e # -1
  BY DirectionType DEF Dirs
<1>12. /\ g.balance[B] = IF e = dir THEN 1 - dir ELSE -1
       /\ g.balance[F] = IF e = dir THEN -1 ELSE dir
       /\ g.balance[D] = -1
  <2>1. B \in Keys /\ F \in Keys /\ D \in Keys /\ h.balance \in [Keys -> {-1, 0, 1}]
    BY <1>1, <1>2 DEF Heaps
  <2> QED
    BY <2>1, <1>10, <1>11 DEF Rotated3, Evened
<1>13. Untold(h, L, {B, F, D}, ht, k)
  BY <1>1, <1>2 DEF Untold
<1>14. GrownAt(g, L, ht, k, P)
  <2>1. Get(h, <<D, e>>) \in L
    BY <1>4 DEF P
  <2>2. GrownAt(g, L, ht, k, Get(h, <<D, e>>))
    BY <2>1, <1>2, <1>9, <1>11, <1>12, <1>13, InsertRotate3Levels
  <2> QED
    BY <2>2 DEF P
<1>15. PICK ht1 \in Heights(L) : ht1[k] = ht[k] /\ Sound(g, L \ {k}, ht1, Seen(ht1, P, 1))
  BY <1>14 DEF GrownAt
<1>16. NewLeaf(g, L, ht1, k)
  BY <1>1, <1>2, <1>10, <1>15, LeafStays
<1>17. EvenInside(g, L, lo1, hi1, k, P)
  <2>1. Same(L, T, lo, lo1) /\ Same(L, T, hi, hi1) /\ B \in T
    BY <1>10 DEF Same
  <2> HIDE DEF T
  <2> QED
    BY <2>1, <1>7, <1>8, <1>10, EvenThere
<1>18. OnPath(lo1, hi1, k, P)
  <2>1. lo[P] < k /\ k < hi[P]
    BY <1>4 DEF OneDown
  <2>2. lo1[P] = lo[P] /\ hi1[P] = hi[P]
    BY <1>7, <1>10
  <2> QED
    BY <2>1, <2>2, <1>1, <1>7 DEF OnPath
<1>19. ToDo(g, L, lo1, hi1, ht1, k, P)
  BY <1>1, <1>4, <1>10, <1>15, <1>16, <1>17, <1>18, KeysAreNumbers DEF ToDo
<1> QED
  BY <1>19 DEF P

\* The inner node is the new one: growth ends there.
LEMMA InsertRotate3Ends ==
  ASSUME NEW h \in Heaps, NEW g, NEW L, NEW lo, NEW hi, NEW ht, NEW k, NEW p,
         NEW dir, NEW B, NEW F,
         Growing(h, L, lo, hi, ht, k, p, B),
         Bent(h, L, lo, hi, k, p, dir, B, F, k),
         Rotated3(h, g, L, lo, hi, p, dir, -1, B, F, k)
  PROVE  Settled(g, L) /\ \E lo1, hi1 : Shape(g, L, lo1, hi1)
<1>1. /\ L \subseteq Keys /\ ht \in Heights(L) /\ k \in L
      /\ ht[k] = 0 /\ \A d \in Dirs : Get(h, <<k, d>>) = Null
      /\ Sound(h, L \ {k}, ht, ht)
  BY DEF Growing, NewLeaf
<1>2. dir \in Dirs /\ B \in L /\ F \in L /\ h.balance[B] = dir /\ h.balance[F] = -1
  BY DEF Bent
<1>3. PICK lo1, hi1 : Rises(h, g, L, lo, hi, lo1, hi1, p, dir, B, F, k)
  BY DEF Rotated3
<1>4. Shape(g, L, lo1, hi1) /\ B # F /\ B # k /\ F # k
  BY <1>3 DEF Rises, Raised3
<1>5. g.balance[B] = -1 /\ g.balance[F] = -1 /\ g.balance[k] = -1
  <2>1. B \in Keys /\ F \in Keys /\ k \in Keys /\ h.balance \in [Keys -> {-1, 0, 1}]
    BY <1>1, <1>2 DEF Heaps
  <2> QED
    BY <2>1, <1>4 DEF Rotated3, Evened
<1>6. Settled(g, L)
  <2>1. NewBelow(h, L, ht, k)
    BY <1>1 DEF NewBelow
  <2>2. h.balance[B] = dir /\ h.balance[F] = -1
    BY <1>2
  <2> QED
    BY <2>1, <2>2, <1>3, <1>5, InsertRotate3NewLevels
<1> QED
  BY <1>4, <1>6

LEMMA InsertRotate3Keeps ==
  ASSUME TypeOK, NEW L, Own(L), InsertRotate3
  PROVE  Own(L)'
<1> DEFINE k == reg.key
           p == reg.path_top
           B == Top
           dir == First
           F == Get(heap, <<B, dir>>)
           D == Get(heap, <<F, 1 - dir>>)
           linked == Link(heap, Link(heap, Top, First), Second)
           third == IF k = linked THEN -1 ELSE Direction(k, linked)
           g == AvlRotate3(heap, p, dir, third)
<1>1. /\ pc = "rebalance" /\ pc' = "update" /\ Balance(heap, B) = dir /\ First # Second
      /\ heap' = g /\ reg'.key = k
      /\ reg'.path = IF third = -1 THEN Null ELSE Link(heap, linked, third)
  BY DEF InsertRotate3, ToUpdate, TypeOK, Regs
<1>2. PICK lo, hi, ht : Growing(heap, L, lo, hi, ht, k, p, B)
  BY <1>1, Growth
<1>3. B \in Keys /\ heap.balance[B] = dir /\ dir \in Dirs /\ dir = Direction(k, B) /\ Second \in Dirs
  BY <1>1, <1>2, Running, DirectionType DEF Growing, First, Second
<1>4. Second = Direction(k, F)
  BY <1>3, Running DEF Second
<1>5. Bent(heap, L, lo, hi, k, p, dir, B, F, D)
  <2>1. Direction(k, F) # dir
    BY <1>1, <1>4
  <2> QED
    BY <2>1, <1>2, <1>3, BendsAtKey
<1>6. Second = 1 - dir
  BY <1>1, <1>3 DEF Dirs
<1>7. heap \in Heaps /\ L \subseteq Keys /\ Shape(heap, L, lo, hi) /\ k \in L
  BY <1>2 DEF Growing
<1>8. /\ B \in L /\ F \in L /\ D \in L /\ 1 - dir \in Dirs
      /\ Pair(heap, L, p, dir, B, F) /\ Pair(heap, L, <<B, dir>>, 1 - dir, F, D)
  BY <1>3, <1>5 DEF Bent, Dirs
<1>9. linked = D
  <2>1. Link(heap, Top, First) = F
    BY <1>3, Running
  <2>2. Link(heap, F, Second) = D
    BY <1>6, <1>7, <1>8, Running
  <2> QED
    BY <2>1, <2>2
<1>10. k # Null /\ D # Null /\ D \in Keys
  BY <1>7, <1>8, KeysAreNumbers
<1> HIDE DEF k, p, B, dir, F, D, linked
<1>11. Rotated3(heap, g, L, lo, hi, p, dir, third, B, F, D)
  BY <1>7, <1>8, AvlRotate3Raises
<1>12. CASE k = D
  <2>1. third = -1
    BY <1>9, <1>12
  <2> HIDE DEF g, third
  <2>2. reg'.path = Null
    BY <2>1, <1>1
  <2>3. Settled(g, L) /\ \E lo1, hi1 : Shape(g, L, lo1, hi1)
    BY <2>1, <1>2, <1>5, <1>7, <1>11, <1>12, InsertRotate3Ends
  <2>4. PICK lo1, hi1, ht1 : Shape(g, L, lo1, hi1) /\ ht1 \in Heights(L) /\ Sound(g, L, ht1, ht1)
    BY <2>3 DEF Settled
  <2>5. UpdateInv(g, L, lo1, hi1, ht1, reg')
    BY <2>2, <2>4, <1>1, <1>7 DEF UpdateInv
  <2>6. Fits(pc', heap', L, lo1, hi1, ht1, reg')
    BY <2>4, <2>5, <1>1 DEF Fits, Stage
  <2> QED
    BY <2>6, OwnKeys DEF Own
<1>13. CASE k # D
  <2>1. third = Direction(k, D) /\ third \in Dirs /\ third # -1
    BY <1>9, <1>13, DirectionType DEF Dirs
  <2> HIDE DEF g, third
  <2>2. reg'.path = Get(heap, <<D, third>>)
    BY <2>1, <1>1, <1>9, <1>10, Running
  <2>3. \E lo1, hi1, ht1 : ToDo(g, L, lo1, hi1, ht1, k, Get(heap, <<D, third>>))
    BY <2>1, <1>2, <1>5, <1>7, <1>11, <1>13, InsertRotate3Goes
  <2>4. PICK lo1, hi1, ht1 : ToDo(g, L, lo1, hi1, ht1, k, Get(heap, <<D, third>>))
    BY <2>3
  <2>5. ToDo(heap', L, lo1, hi1, ht1, reg'.key, reg'.path)
    BY <2>2, <2>4, <1>1
  <2> QED
    BY <2>5, <1>1, OwnKeys, ToDoUpdates
<1> QED
  BY <1>12, <1>13

-----------------------------------------------------------------------------
(* Stage 2 of erase.                                                       *)

\* A slot with the interval of a node holds that node.
LEMMA SlotOfNode ==
  ASSUME NEW h, NEW L, L \subseteq Keys, NEW lo, NEW hi, Shape(h, L, lo, hi),
         NEW s \in TreeSlots(L), NEW x \in L, lo[x] = Lo(lo, s), hi[x] = Hi(hi, s)
  PROVE  Get(h, s) = x
<1> DEFINE y == Get(h, s)
<1>1. lo[x] \in Int /\ hi[x] \in Int /\ x \in Int /\ lo[x] < x /\ x < hi[x]
  BY KeysAreNumbers DEF Shape, Bounds, Ended
<1>2. y # Null
  BY <1>1 DEF Shape, Placed, Inside
<1>3. y \in L /\ lo[y] = lo[x] /\ hi[y] = hi[x]
  BY <1>2 DEF Shape, Placed
<1>4. y \in Int /\ lo[y] < y /\ y < hi[y]
  BY <1>3, KeysAreNumbers DEF Shape, Ended
<1> HIDE DEF y
<1>5. ~ (x < y)
  BY <1>1, <1>3, <1>4 DEF Shape, Nested
<1>6. ~ (y < x)
  BY <1>1, <1>3, <1>4 DEF Shape, Nested
<1> QED
  BY <1>1, <1>4, <1>5, <1>6 DEF y

\* Intervals change at B and on its side 1 - d only.
FarOnly(L, lo, hi, lo1, hi1, B, d, T) ==
  /\ B \in T /\ T \subseteq L
  /\ \A x \in T : x = B \/ Inside(lo, hi, <<B, 1 - d>>, x)
  /\ \A n \in L \ T : lo1[n] = lo[n] /\ hi1[n] = hi[n]
  /\ Lo(lo1, <<B, d>>) = Lo(lo, <<B, d>>) /\ Hi(hi1, <<B, d>>) = Hi(hi, <<B, d>>)

\* The side of k keeps to itself when the node B of its path is lowered.
LowerStep(h, g, L, lo, hi, lo1, hi1, k, s, B, d, T) ==
  /\ L \subseteq Keys /\ Shape(h, L, lo, hi) /\ Shape(g, L, lo1, hi1)
  /\ k \in L /\ k \in Int /\ B \in L /\ B \in Int
  /\ s \in TreeSlots(L) /\ Get(h, s) = B
  /\ d \in Dirs /\ d = Direction(k, B)
  /\ Get(h, <<B, d>>) \in L /\ Get(g, <<B, d>>) = Get(h, <<B, d>>)
  /\ Around(L, lo, hi, s, k)
  /\ FarOnly(L, lo, hi, lo1, hi1, B, d, T)
  /\ LinksOutside(h, g, L, s, T)
  /\ Same(L, T, h.balance, g.balance)

\* Where the sides of B are.
Sides(L, lo, hi, s, B) ==
  /\ lo[B] = Lo(lo, s) /\ hi[B] = Hi(hi, s)
  /\ lo[B] \in Int /\ hi[B] \in Int /\ B \in Int /\ lo[B] < B /\ B < hi[B]
  /\ Lo(lo, <<B, 0>>) = lo[B] /\ Hi(hi, <<B, 0>>) = B
  /\ Lo(lo, <<B, 1>>) = B /\ Hi(hi, <<B, 1>>) = hi[B]
  /\ \A d \in Dirs : <<B, d>> \in TreeSlots(L)

LEMMA SidesOf ==
  ASSUME NEW h, NEW L, L \subseteq Keys, NEW lo, NEW hi, Shape(h, L, lo, hi),
         NEW s \in TreeSlots(L), NEW B \in L, Get(h, s) = B
  PROVE  Sides(L, lo, hi, s, B)
<1>1. B # Null /\ B \in Keys
  BY KeysAreNumbers
<1>2. lo[B] = Lo(lo, s) /\ hi[B] = Hi(hi, s)
  BY <1>1 DEF Shape, Placed
<1>3. lo[B] \in Int /\ hi[B] \in Int /\ B \in Int /\ lo[B] < B /\ B < hi[B]
  BY KeysAreNumbers DEF Shape, Bounds, Ended
<1>4. /\ Lo(lo, <<B, 0>>) = lo[B] /\ Hi(hi, <<B, 0>>) = B
      /\ Lo(lo, <<B, 1>>) = B /\ Hi(hi, <<B, 1>>) = hi[B]
  BY <1>1, SlotEnds
<1> QED
  BY <1>2, <1>3, <1>4, SlotsOf DEF Sides

\* Nothing happens to the nodes below the side of k.
Undisturbed(h, g, L, lo, hi, lo1, hi1, k, s, B, d) ==
  \A n \in L : Inside(lo1, hi1, <<B, d>>, n) =>
    /\ Inside(lo, hi, s, n) /\ n # B
    /\ lo1[n] = lo[n] /\ hi1[n] = hi[n]
    /\ \A e \in Dirs : Get(g, <<n, e>>) = Get(h, <<n, e>>)
    /\ Stops(g, k, n) => Stops(h, k, n)

LEMMA NearSideKept ==
  ASSUME NEW h, NEW g, NEW L, NEW lo, NEW hi, NEW lo1, NEW hi1, NEW k, NEW s, NEW B, NEW d, NEW T,
         LowerStep(h, g, L, lo, hi, lo1, hi1, k, s, B, d, T)
  PROVE  Undisturbed(h, g, L, lo, hi, lo1, hi1, k, s, B, d)
<1>1. /\ L \subseteq Keys /\ Shape(h, L, lo, hi) /\ d \in Dirs
      /\ B \in L /\ s \in TreeSlots(L) /\ Get(h, s) = B
      /\ LinksOutside(h, g, L, s, T)
      /\ Same(L, T, h.balance, g.balance)
      /\ \A x \in T : x = B \/ Inside(lo, hi, <<B, 1 - d>>, x)
      /\ \A n \in L \ T : lo1[n] = lo[n] /\ hi1[n] = hi[n]
      /\ Lo(lo1, <<B, d>>) = Lo(lo, <<B, d>>) /\ Hi(hi1, <<B, d>>) = Hi(hi, <<B, d>>)
  BY DEF LowerStep, FarOnly
<1>2. Sides(L, lo, hi, s, B)
  BY <1>1, SidesOf
<1>3. d = 0 \/ d = 1
  BY <1>1 DEF Dirs
<1> SUFFICES ASSUME NEW n \in L, Inside(lo1, hi1, <<B, d>>, n)
             PROVE  /\ Inside(lo, hi, s, n) /\ n # B
                    /\ lo1[n] = lo[n] /\ hi1[n] = hi[n]
                    /\ \A e \in Dirs : Get(g, <<n, e>>) = Get(h, <<n, e>>)
                    /\ Stops(g, k, n) => Stops(h, k, n)
  BY DEF Undisturbed
<1>4. Inside(lo, hi, <<B, d>>, n) /\ n \in Int
  BY <1>1, KeysAreNumbers DEF Inside
<1>5. Inside(lo, hi, s, n) /\ n # B /\ lo[B] < n /\ n < hi[B]
  BY <1>2, <1>3, <1>4 DEF Sides, Inside
<1>6. ~ Inside(lo, hi, <<B, 1 - d>>, n)
  BY <1>2, <1>3, <1>4 DEF Sides, Inside
<1>7. n \notin T
  BY <1>1, <1>5, <1>6
<1>8. \A e \in Dirs : <<n, e>> # s
  <2> SUFFICES ASSUME NEW e \in Dirs, <<n, e>> = s PROVE FALSE
    OBVIOUS
  <2>1. Lo(lo, s) = n \/ Hi(hi, s) = n
    <3>1. Hi(hi, <<n, 0>>) = n /\ Lo(lo, <<n, 1>>) = n
      BY <1>1, SlotEnds
    <3> QED
      BY <3>1 DEF Dirs
  <2> QED
    BY <2>1, <1>2, <1>4, <1>5 DEF Sides
<1>9. \A e \in Dirs : Get(g, <<n, e>>) = Get(h, <<n, e>>) /\ Get(h, <<n, e>>) \notin T
  BY <1>1, <1>7, <1>8 DEF LinksOutside
<1>10. g.balance[n] = h.balance[n]
  BY <1>1, <1>7 DEF Same
<1>11. ASSUME Stops(g, k, n) PROVE Stops(h, k, n)
  <2> DEFINE e == Direction(k, n)
             c == Get(h, <<n, 1 - e>>)
  <2>1. e \in Dirs /\ 1 - e \in Dirs
    BY DirectionType DEF Dirs
  <2>2. Get(g, <<n, e>>) = Get(h, <<n, e>>) /\ Get(g, <<n, 1 - e>>) = c /\ c \notin T
    BY <2>1, <1>9
  <2>3. c \in L \/ c = Null
    BY <2>1, <1>1, ChildType
  <2>4. IsBalanced(g, c) <=> IsBalanced(h, c)
    BY <2>2, <2>3, <1>1 DEF IsBalanced, Balance, Same
  <2> QED
    BY <2>2, <2>4, <1>10, <1>11 DEF Stops
<1> QED
  BY <1>1, <1>5, <1>7, <1>9, <1>11

\* What stays true of the path below.
GoesDown(g, L, lo1, hi1, k, t, dir) ==
  /\ Around(L, lo1, hi1, t, k)
  /\ ~ Stops(g, k, Get(g, t))
  /\ LossGoesOn(g, lo1, hi1, k, t, L)
  /\ LastSide(g, L, lo1, hi1, k, t, dir)

LEMMA LowerGoesDown ==
  ASSUME NEW h, NEW g, NEW L, NEW lo, NEW hi, NEW lo1, NEW hi1, NEW k, NEW s, NEW B, NEW d, NEW T,
         LowerStep(h, g, L, lo, hi, lo1, hi1, k, s, B, d, T),
         LossGoesOn(h, lo, hi, k, s, L), NEW dir, LastSide(h, L, lo, hi, k, s, dir)
  PROVE  GoesDown(g, L, lo1, hi1, k, <<B, d>>, dir)
<1> DEFINE N == Get(h, <<B, d>>)
           t == <<B, d>>
<1>1. /\ L \subseteq Keys /\ Shape(h, L, lo, hi) /\ Shape(g, L, lo1, hi1)
      /\ k \in L /\ k \in Int /\ B \in L /\ s \in TreeSlots(L) /\ Get(h, s) = B
      /\ d \in Dirs /\ d = Direction(k, B) /\ Around(L, lo, hi, s, k)
      /\ Lo(lo1, t) = Lo(lo, t) /\ Hi(hi1, t) = Hi(hi, t)
      /\ N \in L /\ Get(g, t) = N
  BY DEF LowerStep, FarOnly
<1>2. B # Null /\ N # Null
  BY <1>1, KeysAreNumbers
<1>3. Undisturbed(h, g, L, lo, hi, lo1, hi1, k, s, B, d)
  BY NearSideKept
<1>4. Down(L, lo, hi, s, k, B)
  BY <1>1, <1>2, StepDown
<1>5. Around(L, lo, hi, t, k)
  BY <1>1, <1>4 DEF Down
<1>6. Around(L, lo1, hi1, t, k)
  BY <1>1, <1>5 DEF Around
<1> HIDE DEF t
<1>7. t \in TreeSlots(L)
  BY <1>5 DEF Around
<1>8. ASSUME NEW n \in L, Inside(lo1, hi1, t, n)
      PROVE  /\ Inside(lo, hi, s, n) /\ n # B
             /\ OnPath(lo1, hi1, k, n) => OnPath(lo, hi, k, n)
             /\ \A e \in Dirs : Get(g, <<n, e>>) = Get(h, <<n, e>>)
             /\ Stops(g, k, n) => Stops(h, k, n)
  BY <1>3, <1>8 DEF Undisturbed, OnPath, t
<1>9. ASSUME NEW n \in L, Inside(lo1, hi1, t, n), OnPath(lo1, hi1, k, n) PROVE ~ Stops(g, k, n)
  BY <1>1, <1>8, <1>9 DEF LossGoesOn
<1>10. ~ Stops(g, k, N)
  <2>1. lo1[N] = Lo(lo1, t) /\ hi1[N] = Hi(hi1, t)
    BY <1>1, <1>2, <1>7 DEF Shape, Placed
  <2>2. OnPath(lo1, hi1, k, N)
    BY <2>1, <1>6 DEF Around, OnPath
  <2>3. Inside(lo1, hi1, t, N)
    BY <2>1, <1>1 DEF Inside, Shape, Ended
  <2> QED
    BY <2>2, <2>3, <1>1, <1>9
<1>11. LossGoesOn(g, lo1, hi1, k, t, L)
  BY <1>9 DEF LossGoesOn
<1>12. LastSide(g, L, lo1, hi1, k, t, dir)
  <2> SUFFICES ASSUME NEW n \in L, Inside(lo1, hi1, t, n), OnPath(lo1, hi1, k, n),
                      Get(g, <<n, Direction(k, n)>>) = Null
               PROVE  dir = Direction(k, n)
    BY DEF LastSide
  <2>1. Get(h, <<n, Direction(k, n)>>) = Null
    BY <1>8, DirectionType
  <2> QED
    BY <2>1, <1>8 DEF LastSide
<1>13. Get(g, t) = N
  BY <1>1 DEF t
<1> QED
  BY <1>6, <1>10, <1>11, <1>12, <1>13 DEF GoesDown, t

\* A key that is not on the far side of B does not lose its slot.
LEMMA TargetKept ==
  ASSUME NEW h, NEW g, NEW L, NEW lo, NEW hi, NEW lo1, NEW hi1, NEW k, NEW s, NEW B, NEW d, NEW T,
         LowerStep(h, g, L, lo, hi, lo1, hi1, k, s, B, d, T),
         NEW t \in TreeSlots(L), Get(h, t) = k, k # B
  PROVE  Get(g, t) = k
<1>1. /\ L \subseteq Keys /\ Shape(h, L, lo, hi) /\ Shape(g, L, lo1, hi1)
      /\ k \in L /\ k \in Int /\ k # Null /\ B \in L /\ s \in TreeSlots(L) /\ Get(h, s) = B
      /\ d = Direction(k, B)
      /\ T \subseteq L
      /\ \A x \in T : x = B \/ Inside(lo, hi, <<B, 1 - d>>, x)
      /\ \A n \in L \ T : lo1[n] = lo[n] /\ hi1[n] = hi[n]
      /\ Lo(lo1, <<B, d>>) = Lo(lo, <<B, d>>) /\ Hi(hi1, <<B, d>>) = Hi(hi, <<B, d>>)
  BY KeysAreNumbers DEF LowerStep, FarOnly
<1>2. d \in Dirs /\ 1 - d \in Dirs /\ (d = 0 \/ d = 1)
  BY <1>1, DirectionType DEF Dirs
<1>3. Sides(L, lo, hi, s, B)
  BY <1>1, SidesOf
<1> DEFINE f == <<B, 1 - d>>
<1>4. f \in TreeSlots(L)
  BY <1>2, <1>3 DEF Sides
<1>5. ~ Inside(lo, hi, f, k)
  BY <1>1, <1>2, <1>3 DEF Sides, Inside, Direction
<1>6. lo[k] = Lo(lo, t) /\ hi[k] = Hi(hi, t) /\ lo[k] < k /\ k < hi[k]
      /\ lo[k] \in Int /\ hi[k] \in Int
  BY <1>1 DEF Shape, Placed, Ended, Bounds
<1>7. k \notin T
  BY <1>1, <1>5
<1> HIDE DEF f
<1>8. t # f
  BY <1>5, <1>6 DEF Inside
<1>9. Lo(lo1, t) = Lo(lo, t) /\ Hi(hi1, t) = Hi(hi, t)
  <2>1. CASE t = RootSlot
    BY <2>1 DEF Lo, Hi
  <2>2. CASE t # RootSlot
    <3>1. PICK m \in L : t = <<m, 0>> \/ t = <<m, 1>>
      BY <2>2, <1>1, SlotKinds
    <3>2. CASE m \notin T
      <4>1. lo1[m] = lo[m] /\ hi1[m] = hi[m]
        BY <3>2, <1>1
      <4> QED
        BY <4>1, <2>2, <3>1 DEF Lo, Hi
    <3>3. CASE m = B
      BY <3>1, <3>3, <1>1, <1>2, <1>8 DEF f
    <3>4. CASE m \in T /\ m # B
      <4>1. Inside(lo, hi, f, m)
        BY <3>4, <1>1 DEF f
      <4>2. Lo(lo, f) <= lo[m] /\ hi[m] <= Hi(hi, f)
        BY <4>1, <3>1, <1>1, <1>4, Below DEF Shape
      <4>3. /\ Lo(lo, <<m, 0>>) = lo[m] /\ Hi(hi, <<m, 0>>) = m
            /\ Lo(lo, <<m, 1>>) = m /\ Hi(hi, <<m, 1>>) = hi[m]
        BY <1>1, SlotEnds
      <4>4. lo[m] \in Int /\ hi[m] \in Int /\ m \in Int /\ lo[m] < m /\ m < hi[m]
        BY <1>1, KeysAreNumbers DEF Shape, Bounds, Ended
      <4>5. lo[m] <= lo[k] /\ hi[k] <= hi[m]
        BY <3>1, <4>3, <4>4, <1>6
      <4>6. Lo(lo, f) \in Int /\ Hi(hi, f) \in Int
        BY <1>1, <1>4, SlotNumbers DEF Shape
      <4>7. Inside(lo, hi, f, k)
        BY <4>2, <4>4, <4>5, <4>6, <1>1, <1>6 DEF Inside
      <4> QED
        BY <4>7, <1>5
    <3> QED
      BY <3>2, <3>3, <3>4
  <2> QED
    BY <2>1, <2>2
<1>10. lo1[k] = Lo(lo1, t) /\ hi1[k] = Hi(hi1, t)
  BY <1>1, <1>6, <1>7, <1>9
<1>11. L \subseteq Keys /\ Shape(g, L, lo1, hi1) /\ k \in L
  BY <1>1
<1> QED
  BY <1>10, <1>11, SlotOfNode

-----------------------------------------------------------------------------
(* One node is lowered: what changes, in each case, is on its far side.    *)

\* After a step at B, whose child on the path is one lower than it knows.
Lowers(h, g, L, lo, hi, k, s, B, d) ==
  /\ LostAt(g, L, Get(h, <<B, d>>))
  /\ \E lo1, hi1, T : LowerStep(h, g, L, lo, hi, lo1, hi1, k, s, B, d, T)

\* What the invariant says of the node B at hand, n being the height of its loss.
Lowering(h, L, lo, hi, ht, k, s, B, d, loss) ==
  /\ h \in Heaps /\ L \subseteq Keys /\ Shape(h, L, lo, hi)
  /\ k \in L /\ k \in Int /\ B \in L /\ B \in Int
  /\ s \in TreeSlots(L) /\ Get(h, s) = B
  /\ d \in Dirs /\ d = Direction(k, B)
  /\ Get(h, <<B, d>>) \in L
  /\ Around(L, lo, hi, s, k)
  /\ ht \in Heights(L) /\ loss \in {0, 1}
  /\ Sound(h, L, ht, Seen(ht, B, -loss))

LEMMA LowerStaysDoes ==
  ASSUME NEW h, NEW L, NEW lo, NEW hi, NEW ht, NEW k, NEW s, NEW B, NEW d, NEW loss,
         Lowering(h, L, lo, hi, ht, k, s, B, d, loss), NEW b,
         loss = 0 => h.balance[B] = -1 /\ b = 1 - d,
         loss = 1 => h.balance[B] = d /\ b = -1
  PROVE  Lowers(h, SetBalance(h, B, b), L, lo, hi, k, s, B, d)
<1> DEFINE g == SetBalance(h, B, b)
<1>1. /\ h \in Heaps /\ L \subseteq Keys /\ Shape(h, L, lo, hi)
      /\ k \in L /\ k \in Int /\ B \in L /\ B \in Keys /\ B \in Int /\ B # Null
      /\ s \in TreeSlots(L) /\ Get(h, s) = B
      /\ d \in Dirs /\ 1 - d \in Dirs /\ 1 - (1 - d) = d /\ d = Direction(k, B)
      /\ Get(h, <<B, d>>) \in L
      /\ Around(L, lo, hi, s, k)
      /\ ht \in Heights(L) /\ loss \in {0, 1}
      /\ Sound(h, L, ht, Seen(ht, B, -loss))
  BY KeysAreNumbers DEF Lowering, Dirs
<1>2. g.balance = [h.balance EXCEPT ![B] = b] /\ \A t : Get(g, t) = Get(h, t)
  BY <1>1, SetBalanceGet
<1> HIDE DEF g
<1>3. g.balance[B] = b /\ Same(L, {B}, h.balance, g.balance)
  BY <1>1, <1>2 DEF Heaps, Same
<1>4. Rebalanced(h, g, L, B)
  BY <1>1, <1>2, <1>3 DEF Rebalanced
<1>5. LostAt(g, L, Get(h, <<B, d>>))
  <2> DEFINE dir == 1 - d
  <2>1. dir \in Dirs /\ 1 - dir = d
    BY <1>1
  <2> HIDE DEF dir
  <2>2. /\ loss = 0 => h.balance[B] = -1 /\ g.balance[B] = dir
        /\ loss = 1 => h.balance[B] = 1 - dir /\ g.balance[B] = -1
        /\ Get(h, <<B, 1 - dir>>) \in L
    BY <2>1, <1>1, <1>3 DEF dir
  <2>3. LostAt(g, L, Get(h, <<B, 1 - dir>>))
    BY <2>1, <2>2, <1>1, <1>4, LowerStays
  <2> QED
    BY <2>1, <2>3
<1>6. Shape(g, L, lo, hi)
  BY <1>1, <1>2, SameShape
<1>7. LinksOutside(h, g, L, s, {B})
  <2> SUFFICES ASSUME NEW n \in L, NEW e \in Dirs, <<n, e>> # s PROVE Get(h, <<n, e>>) # B
    BY <1>2 DEF LinksOutside
  <2>1. <<n, e>> \in TreeSlots(L)
    BY SlotsOf
  <2> QED
    BY <2>1, <1>1, OneParent
<1>8. FarOnly(L, lo, hi, lo, hi, B, d, {B})
  BY <1>1 DEF FarOnly
<1>9. LowerStep(h, g, L, lo, hi, lo, hi, k, s, B, d, {B})
  BY <1>1, <1>2, <1>3, <1>6, <1>7, <1>8 DEF LowerStep
<1> QED
  BY <1>5, <1>9 DEF Lowers, g

\* A node that leans to a side has a child there.
LEMMA Leaning ==
  ASSUME NEW h, NEW L, L \subseteq Keys, NEW lo, NEW hi, Shape(h, L, lo, hi),
         NEW ht \in Heights(L), NEW B, NEW by \in Int, Sound(h, L, ht, Seen(ht, B, by)),
         NEW n \in L, NEW e \in Dirs, h.balance[n] = e, Get(h, <<n, 1 - e>>) # B
  PROVE  Get(h, <<n, e>>) \in L
<1> DEFINE seen == Seen(ht, B, by)
           c == Get(h, <<n, 1 - e>>)
<1>1. 1 - e \in Dirs /\ e # -1 /\ e # 1 - e /\ e \in Int
  BY DEF Dirs
<1>2. seen \in Views(L) /\ \A x \in L : x # B => seen[x] = ht[x]
  BY SeenType
<1>3. Level(h, n, e, ht, seen)
  BY <1>2, LevelSides DEF Sound
<1> HIDE DEF seen
<1>4. Tall(seen, Get(h, <<n, e>>)) = Tall(seen, c) + 1
  BY <1>1, <1>3 DEF Level, Weighs
<1>5. c \in L \/ c = Null
  BY <1>1, ChildType
<1> HIDE DEF c
<1>6. Tall(seen, c) \in Nat
  <2>1. c \in L => seen[c] = ht[c]
    BY <1>2 DEF c
  <2> QED
    BY <2>1, <1>5 DEF Tall, Heights
<1>7. Get(h, <<n, e>>) # Null
  BY <1>4, <1>6 DEF Tall
<1> QED
  BY <1>7, ChildType

\* The node on the far side, when that is the higher one.
LEMMA HasSibling ==
  ASSUME NEW h, NEW L, NEW lo, NEW hi, NEW ht, NEW k, NEW s, NEW B, NEW d, NEW loss,
         Lowering(h, L, lo, hi, ht, k, s, B, d, loss), h.balance[B] = 1 - d
  PROVE  Pair(h, L, s, 1 - d, B, Get(h, <<B, 1 - d>>))
<1> DEFINE e == 1 - d
<1>1. /\ L \subseteq Keys /\ Shape(h, L, lo, hi) /\ B \in L
      /\ s \in TreeSlots(L) /\ Get(h, s) = B
      /\ ht \in Heights(L) /\ loss \in {0, 1}
      /\ Sound(h, L, ht, Seen(ht, B, -loss))
      /\ e \in Dirs /\ 1 - e = d /\ d \in Dirs
  BY DEF Lowering, Dirs
<1> HIDE DEF e
<1>2. -loss \in Int
  BY <1>1
<1>3. h.balance[B] = e
  BY DEF e
<1>4. Get(h, <<B, 1 - e>>) # B
  BY <1>1, NotOwnChild
<1>5. Get(h, <<B, e>>) \in L
  BY <1>1, <1>2, <1>3, <1>4, Leaning
<1>6. Pair(h, L, s, e, B, Get(h, <<B, e>>))
  BY <1>1, <1>5 DEF Pair
<1> QED
  BY <1>6 DEF e

\* Its inner child, when that is the higher one of its children.
LEMMA HasInner ==
  ASSUME NEW h, NEW L, NEW lo, NEW hi, NEW ht, NEW k, NEW s, NEW B, NEW d, NEW loss,
         Lowering(h, L, lo, hi, ht, k, s, B, d, loss),
         NEW F, Pair(h, L, s, 1 - d, B, F), h.balance[F] = d
  PROVE  Pair(h, L, <<B, 1 - d>>, d, F, Get(h, <<F, d>>))
<1>1. /\ L \subseteq Keys /\ Shape(h, L, lo, hi) /\ B \in L /\ B # Null
      /\ s \in TreeSlots(L) /\ Get(h, s) = B
      /\ ht \in Heights(L) /\ loss \in {0, 1}
      /\ Sound(h, L, ht, Seen(ht, B, -loss))
      /\ 1 - d \in Dirs /\ d \in Dirs
  BY KeysAreNumbers DEF Lowering, Dirs
<1>2. -loss \in Int
  BY <1>1
<1>3. F \in L /\ Get(h, <<B, 1 - d>>) = F
  BY DEF Pair
<1>4. Get(h, <<F, 1 - d>>) # B
  <2>1. s # <<F, 1 - d>>
    BY <1>1, TopOutside
  <2>2. <<F, 1 - d>> \in TreeSlots(L)
    BY <1>1, <1>3, SlotsOf
  <2> QED
    BY <2>1, <2>2, <1>1, OneParent
<1>5. Get(h, <<F, d>>) \in L
  BY <1>1, <1>2, <1>3, <1>4, Leaning
<1>6. <<B, 1 - d>> \in TreeSlots(L)
  BY <1>1, SlotsOf
<1> QED
  BY <1>1, <1>3, <1>5, <1>6 DEF Pair

\* Nodes on the far side of B are inside its far slot.
LEMMA FarInside ==
  ASSUME NEW h, NEW L, L \subseteq Keys, NEW lo, NEW hi, Shape(h, L, lo, hi),
         NEW s, NEW e, NEW B, NEW F, Pair(h, L, s, e, B, F)
  PROVE  /\ Inside(lo, hi, <<B, e>>, F)
         /\ \A D : Pair(h, L, <<B, e>>, 1 - e, F, D) => Inside(lo, hi, <<B, e>>, D)
<1>1. /\ B \in L /\ F \in L /\ e \in Dirs /\ F # Null /\ B # Null
      /\ Get(h, <<B, e>>) = F /\ s \in TreeSlots(L) /\ Get(h, s) = B
  BY KeysAreNumbers DEF Pair
<1>2. <<B, e>> \in TreeSlots(L)
  BY <1>1, SlotsOf
<1>3. lo[F] = Lo(lo, <<B, e>>) /\ hi[F] = Hi(hi, <<B, e>>)
  BY <1>1, <1>2 DEF Shape, Placed
<1>4. lo[F] \in Int /\ hi[F] \in Int /\ F \in Int /\ lo[F] < F /\ F < hi[F]
  BY <1>1, KeysAreNumbers DEF Shape, Bounds, Ended
<1>5. ASSUME NEW D, Pair(h, L, <<B, e>>, 1 - e, F, D)
      PROVE  Inside(lo, hi, <<B, e>>, D)
  <2>1. D \in L /\ D # Null /\ Get(h, <<F, 1 - e>>) = D /\ 1 - e \in Dirs
    BY <1>5, KeysAreNumbers DEF Pair
  <2>2. <<F, 1 - e>> \in TreeSlots(L)
    BY <2>1, <1>1, SlotsOf
  <2>3. lo[D] = Lo(lo, <<F, 1 - e>>) /\ hi[D] = Hi(hi, <<F, 1 - e>>)
    BY <2>1, <2>2 DEF Shape, Placed
  <2>4. /\ Lo(lo, <<F, 0>>) = lo[F] /\ Hi(hi, <<F, 0>>) = F
        /\ Lo(lo, <<F, 1>>) = F /\ Hi(hi, <<F, 1>>) = hi[F]
    BY <1>1, SlotEnds
  <2>5. 1 - e = 0 \/ 1 - e = 1
    BY <2>1 DEF Dirs
  <2>6. D \in Int /\ lo[D] < D /\ D < hi[D]
    BY <2>1, KeysAreNumbers DEF Shape, Ended
  <2> QED
    BY <2>3, <2>4, <2>5, <2>6, <1>3, <1>4 DEF Inside
<1> QED
  BY <1>3, <1>4, <1>5 DEF Inside

\* B is lowered by a rotation, and hangs from the node that was raised.
LowersByTurn(h, g, L, lo, hi, k, s, B, d) ==
  /\ Lowers(h, g, L, lo, hi, k, s, B, d)
  /\ Get(g, s) \in L
  /\ Get(g, <<Get(g, s), d>>) = B

LEMMA LowerRotate2Does ==
  ASSUME NEW h, NEW L, NEW lo, NEW hi, NEW ht, NEW k, NEW s, NEW B, NEW d, NEW loss,
         Lowering(h, L, lo, hi, ht, k, s, B, d, loss), h.balance[B] = 1 - d,
         NEW g, NEW D, Pair(h, L, s, 1 - d, B, D), Turned(h, g, s, 1 - d, B, D),
         Same(L, {B, D}, h.balance, g.balance),
         loss = 0 => h.balance[D] = -1 /\ g.balance[B] = 1 - d /\ g.balance[D] = d,
         loss = 1 => h.balance[D] = 1 - d /\ g.balance[B] = -1 /\ g.balance[D] = -1
  PROVE  LowersByTurn(h, g, L, lo, hi, k, s, B, d)
<1> DEFINE dir == 1 - d
           lo1 == TurnLo(lo, dir, B, D)
           hi1 == TurnHi(hi, dir, B, D)
           T == {B, D}
<1>1. /\ h \in Heaps /\ L \subseteq Keys /\ Shape(h, L, lo, hi)
      /\ k \in L /\ k \in Int /\ B \in L /\ B \in Keys /\ B \in Int /\ B # Null
      /\ s \in TreeSlots(L) /\ Get(h, s) = B
      /\ d \in Dirs /\ d = Direction(k, B)
      /\ Get(h, <<B, d>>) \in L
      /\ Around(L, lo, hi, s, k)
      /\ ht \in Heights(L) /\ loss \in {0, 1}
      /\ Sound(h, L, ht, Seen(ht, B, -loss))
  BY KeysAreNumbers DEF Lowering
<1>2. dir \in Dirs /\ 1 - dir = d /\ (dir = 0 \/ dir = 1)
  BY <1>1 DEF Dirs
<1>3. Pair(h, L, s, dir, B, D) /\ Turned(h, g, s, dir, B, D) /\ h.balance[B] = dir
  OBVIOUS
<1>4. /\ loss = 0 => h.balance[D] = -1 /\ g.balance[B] = dir /\ g.balance[D] = 1 - dir
      /\ loss = 1 => h.balance[D] = dir /\ g.balance[B] = -1 /\ g.balance[D] = -1
  BY <1>2
<1> HIDE DEF dir
<1>5. Raised2(h, g, L, lo, hi, s, dir, B, D)
  BY <1>1, <1>3, Raise2
<1>6. Turns(h, g, L, lo, hi, s, dir, B, D)
  BY <1>1, <1>3, <1>5 DEF Turns
<1>7. LostAt(g, L, Get(h, <<B, d>>))
  <2>1. Get(h, <<B, 1 - dir>>) \in L
    BY <1>1, <1>2
  <2>2. /\ loss \in {0, 1} /\ h.balance[B] = dir
        /\ ht \in Heights(L) /\ Sound(h, L, ht, Seen(ht, B, -loss))
    BY <1>1, <1>3
  <2>3. LostAt(g, L, Get(h, <<B, 1 - dir>>))
    BY <2>1, <2>2, <1>4, <1>6, LowerRotate2Levels
  <2> QED
    BY <2>3, <1>2
<1>8. /\ Shape(g, L, lo1, hi1) /\ D \in L /\ B # D
      /\ \A n \in L \ T : lo1[n] = lo[n] /\ hi1[n] = hi[n]
      /\ dir = 1 => lo1[B] = lo[B]
      /\ dir = 0 => hi1[B] = hi[B]
      /\ LinksOutside(h, g, L, s, T)
      /\ Get(g, s) = D /\ Get(g, <<D, d>>) = B /\ Get(g, <<B, d>>) = Get(h, <<B, d>>)
  BY <1>2, <1>3, <1>5 DEF Raised2, Keeps, Links2, Pair
<1> HIDE DEF lo1, hi1
<1>9. FarOnly(L, lo, hi, lo1, hi1, B, d, T)
  <2>1. Inside(lo, hi, <<B, 1 - d>>, D)
    <3>1. Inside(lo, hi, <<B, dir>>, D)
      BY <1>1, <1>3, FarInside
    <3> QED
      BY <3>1 DEF dir
  <2>2. Lo(lo1, <<B, d>>) = Lo(lo, <<B, d>>) /\ Hi(hi1, <<B, d>>) = Hi(hi, <<B, d>>)
    <3>1. /\ Lo(lo, <<B, 0>>) = lo[B] /\ Hi(hi, <<B, 0>>) = B
          /\ Lo(lo, <<B, 1>>) = B /\ Hi(hi, <<B, 1>>) = hi[B]
      BY <1>1, SlotEnds
    <3>2. /\ Lo(lo1, <<B, 0>>) = lo1[B] /\ Hi(hi1, <<B, 0>>) = B
          /\ Lo(lo1, <<B, 1>>) = B /\ Hi(hi1, <<B, 1>>) = hi1[B]
      BY <1>1, SlotEnds
    <3>3. d = 1 - dir
      BY <1>2
    <3> QED
      BY <3>1, <3>2, <3>3, <1>2, <1>8
  <2> QED
    BY <2>1, <2>2, <1>1, <1>8 DEF FarOnly
<1>10. LowerStep(h, g, L, lo, hi, lo1, hi1, k, s, B, d, T)
  BY <1>1, <1>8, <1>9 DEF LowerStep
<1> QED
  BY <1>7, <1>8, <1>10 DEF LowersByTurn, Lowers

LEMMA LowerRotate3Does ==
  ASSUME NEW h, NEW L, NEW lo, NEW hi, NEW ht, NEW k, NEW s, NEW B, NEW d,
         Lowering(h, L, lo, hi, ht, k, s, B, d, 1), h.balance[B] = 1 - d,
         NEW F, Pair(h, L, s, 1 - d, B, F), h.balance[F] = d,
         NEW D, Pair(h, L, <<B, 1 - d>>, d, F, D)
  PROVE  LowersByTurn(h, AvlRotate3(h, s, 1 - d, h.balance[D]), L, lo, hi, k, s, B, d)
<1> DEFINE dir == 1 - d
           g == AvlRotate3(h, s, dir, h.balance[D])
           T == {B, F, D}
<1>1. /\ h \in Heaps /\ L \subseteq Keys /\ Shape(h, L, lo, hi)
      /\ k \in L /\ k \in Int /\ B \in L /\ B \in Keys /\ B \in Int /\ B # Null
      /\ s \in TreeSlots(L) /\ Get(h, s) = B
      /\ d \in Dirs /\ d = Direction(k, B)
      /\ Get(h, <<B, d>>) \in L
      /\ Around(L, lo, hi, s, k)
      /\ ht \in Heights(L)
      /\ Sound(h, L, ht, Seen(ht, B, -1))
  BY KeysAreNumbers DEF Lowering
<1>2. dir \in Dirs /\ 1 - dir = d /\ (dir = 0 \/ dir = 1)
  BY <1>1 DEF Dirs
<1>3. /\ Pair(h, L, s, dir, B, F) /\ Pair(h, L, <<B, dir>>, 1 - dir, F, D)
      /\ h.balance[B] = dir /\ h.balance[F] = 1 - dir
  BY <1>2
<1>4. F \in L /\ D \in L /\ F \in Keys /\ D \in Keys
  BY <1>1, <1>3 DEF Pair
<1>5. h.balance[D] \in {-1, 0, 1} /\ h.balance \in [Keys -> {-1, 0, 1}]
  BY <1>1, <1>4 DEF Heaps
<1> HIDE DEF dir
<1>6. Rotated3(h, g, L, lo, hi, s, dir, h.balance[D], B, F, D)
  BY <1>1, <1>3, AvlRotate3Raises
<1> HIDE DEF g
<1>7. PICK lo1, hi1 : Rises(h, g, L, lo, hi, lo1, hi1, s, dir, B, F, D)
  BY <1>6 DEF Rotated3
<1>8. /\ Shape(g, L, lo1, hi1) /\ B # F /\ B # D /\ F # D
      /\ \A n \in L \ T : lo1[n] = lo[n] /\ hi1[n] = hi[n]
      /\ dir = 1 => lo1[B] = lo[B]
      /\ dir = 0 => hi1[B] = hi[B]
      /\ LinksOutside(h, g, L, s, T)
      /\ Same(L, T, h.balance, g.balance)
      /\ Get(g, s) = D /\ Get(g, <<D, d>>) = B /\ Get(g, <<B, d>>) = Get(h, <<B, d>>)
  BY <1>2, <1>7 DEF Rises, Raised3, Keeps, Links3
<1>9. /\ g.balance[B] = IF h.balance[D] = dir THEN 1 - dir ELSE -1
      /\ g.balance[F] = IF h.balance[D] = 1 - dir THEN dir ELSE -1
      /\ g.balance[D] = -1
  <2>1. g.balance = Evened(h.balance, h.balance[D], dir, B, F, D)
    BY <1>6 DEF Rotated3
  <2>2. CASE h.balance[D] = -1
    BY <2>1, <2>2, <1>1, <1>2, <1>4, <1>5, <1>8 DEF Evened
  <2>3. CASE h.balance[D] = dir
    BY <2>1, <2>3, <1>1, <1>2, <1>4, <1>5, <1>8 DEF Evened
  <2>4. CASE h.balance[D] = 1 - dir
    BY <2>1, <2>4, <1>1, <1>2, <1>4, <1>5, <1>8 DEF Evened
  <2> QED
    BY <2>2, <2>3, <2>4, <1>2, <1>5
<1>10. LostAt(g, L, Get(h, <<B, d>>))
  <2>1. Get(h, <<B, 1 - dir>>) \in L
    BY <1>1, <1>2
  <2>2. LostAt(g, L, Get(h, <<B, 1 - dir>>))
    BY <2>1, <1>1, <1>3, <1>5, <1>7, <1>9, LowerRotate3Levels
  <2> QED
    BY <2>2, <1>2
<1>11. FarOnly(L, lo, hi, lo1, hi1, B, d, T)
  <2>1. Inside(lo, hi, <<B, 1 - d>>, F) /\ Inside(lo, hi, <<B, 1 - d>>, D)
    <3>1. Inside(lo, hi, <<B, dir>>, F) /\ Inside(lo, hi, <<B, dir>>, D)
      BY <1>1, <1>3, FarInside
    <3> QED
      BY <3>1 DEF dir
  <2>2. Lo(lo1, <<B, d>>) = Lo(lo, <<B, d>>) /\ Hi(hi1, <<B, d>>) = Hi(hi, <<B, d>>)
    <3>1. /\ Lo(lo, <<B, 0>>) = lo[B] /\ Hi(hi, <<B, 0>>) = B
          /\ Lo(lo, <<B, 1>>) = B /\ Hi(hi, <<B, 1>>) = hi[B]
      BY <1>1, SlotEnds
    <3>2. /\ Lo(lo1, <<B, 0>>) = lo1[B] /\ Hi(hi1, <<B, 0>>) = B
          /\ Lo(lo1, <<B, 1>>) = B /\ Hi(hi1, <<B, 1>>) = hi1[B]
      BY <1>1, SlotEnds
    <3>3. d = 1 - dir
      BY <1>2
    <3> QED
      BY <3>1, <3>2, <3>3, <1>2, <1>8
  <2> QED
    BY <2>1, <2>2, <1>1, <1>4, <1>8 DEF FarOnly
<1>12. LowerStep(h, g, L, lo, hi, lo1, hi1, k, s, B, d, T)
  BY <1>1, <1>8, <1>11 DEF LowerStep
<1> QED
  BY <1>4, <1>8, <1>10, <1>12 DEF LowersByTurn, Lowers, g, dir

\* One iteration of stage 2, whichever of the five things it does.
LoweredWell(L, lo, hi) ==
  /\ Rotates => LowersByTurn(heap, Lowered, L, lo, hi, reg.key, reg.nodep, Here, Side)
  /\ ~ Rotates => /\ Lowers(heap, Lowered, L, lo, hi, reg.key, reg.nodep, Here, Side)
                  /\ \A t : Get(Lowered, t) = Get(heap, t)

LEMMA LoweredDoes ==
  ASSUME TypeOK, pc # "idle", NEW L, NEW lo, NEW hi, NEW ht,
         Lowering(heap, L, lo, hi, ht, reg.key, reg.nodep, Here, Side,
                  Loss(heap, reg.key, Here))
  PROVE  LoweredWell(L, lo, hi)
<1> DEFINE h == heap
           k == reg.key
           s == reg.nodep
           B == Here
           d == Side
           far == 1 - Side
           F == Get(heap, <<B, far>>)
           loss == Loss(heap, k, B)
<1>1. /\ h \in Heaps /\ L \subseteq Keys /\ Shape(h, L, lo, hi)
      /\ B \in L /\ B \in Keys /\ B # Null
      /\ s \in TreeSlots(L) /\ Get(h, s) = B
      /\ d \in Dirs /\ d = Direction(k, B) /\ Get(h, <<B, d>>) # Null
      /\ far \in Dirs /\ 1 - far = d /\ far # d /\ d # -1 /\ far # -1 /\ d \in Int
      /\ Lowering(h, L, lo, hi, ht, k, s, B, d, loss)
  <2>1. /\ h \in Heaps /\ L \subseteq Keys /\ Shape(h, L, lo, hi)
        /\ B \in L /\ s \in TreeSlots(L) /\ Get(h, s) = B
        /\ d \in Dirs /\ d = Direction(k, B) /\ Get(h, <<B, d>>) \in L
    BY DEF Lowering
  <2>2. B \in Keys /\ B # Null /\ Get(h, <<B, d>>) # Null
    BY <2>1, KeysAreNumbers
  <2>3. far \in Dirs /\ 1 - far = d /\ far # d /\ d # -1 /\ far # -1 /\ d \in Int
    BY <2>1 DEF Dirs
  <2> QED
    BY <2>1, <2>2, <2>3
<1>2. /\ Balance(h, B) = h.balance[B] /\ h.balance[B] \in {-1, 0, 1}
      /\ Sibling = F /\ 1 - Side = far
  BY <1>1, Running DEF Heaps, Sibling
<1>3. /\ Stops(h, k, B) <=> \/ h.balance[B] < 0
                            \/ h.balance[B] = far /\ IsBalanced(h, F)
      /\ loss = IF Stops(h, k, B) THEN 0 ELSE 1
  BY <1>1 DEF Stops, Loss
<1>4. Rotates <=> h.balance[B] = far
  BY <1>2 DEF Rotates
<1>5. h.balance[B] = -1 \/ h.balance[B] = d \/ h.balance[B] = far
  BY <1>1, <1>2 DEF Dirs
<1>6. CASE h.balance[B] = -1
  <2>1. Lowered = SetBalance(h, B, far) /\ loss = 0 /\ ~ Rotates
    BY <1>1, <1>2, <1>3, <1>4, <1>6 DEF Lowered, IsBalanced
  <2>2. /\ SetBalance(h, B, far).balance = [h.balance EXCEPT ![B] = far]
        /\ \A t : Get(SetBalance(h, B, far), t) = Get(h, t)
    <3>1. h \in Heaps /\ B \in Keys
      BY <1>1
    <3> HIDE DEF h, B, far
    <3> QED
      BY <3>1, SetBalanceGet
  <2>3. /\ loss = 0 => h.balance[B] = -1 /\ far = 1 - d
        /\ loss = 1 => h.balance[B] = d /\ far = -1
    BY <2>1, <1>6
  <2> HIDE DEF h, k, s, B, d, far, loss
  <2>4. Lowers(h, SetBalance(h, B, far), L, lo, hi, k, s, B, d)
    BY <2>3, <1>1, LowerStaysDoes
  <2> QED
    BY <2>1, <2>2, <2>4 DEF LoweredWell, h, k, s, B, d
<1>7. CASE h.balance[B] = d
  <2>1. Lowered = SetBalance(h, B, -1) /\ loss = 1 /\ ~ Rotates
    BY <1>1, <1>2, <1>3, <1>4, <1>7 DEF Lowered, IsBalanced, Dirs
  <2>2. /\ SetBalance(h, B, -1).balance = [h.balance EXCEPT ![B] = -1]
        /\ \A t : Get(SetBalance(h, B, -1), t) = Get(h, t)
    <3>1. h \in Heaps /\ B \in Keys
      BY <1>1
    <3> HIDE DEF h, B, far
    <3> QED
      BY <3>1, SetBalanceGet
  <2>3. /\ loss = 0 => h.balance[B] = -1 /\ -1 = 1 - d
        /\ loss = 1 => h.balance[B] = d /\ -1 = -1
    BY <2>1, <1>7
  <2> HIDE DEF h, k, s, B, d, far, loss
  <2>4. Lowers(h, SetBalance(h, B, -1), L, lo, hi, k, s, B, d)
    BY <2>3, <1>1, LowerStaysDoes
  <2> QED
    BY <2>1, <2>2, <2>4 DEF LoweredWell, h, k, s, B, d
<1>8. CASE h.balance[B] = far
  <2>1. Pair(h, L, s, far, B, F) /\ F \in L /\ F \in Keys
    <3>1. Pair(h, L, s, 1 - d, B, Get(h, <<B, 1 - d>>))
      <4> HIDE DEF h, k, s, B, d, loss
      <4>1. h.balance[B] = 1 - d
        BY <1>8 DEF d
      <4> QED
        BY <4>1, <1>1, HasSibling
    <3> QED
      BY <3>1, <1>1 DEF Pair
  <2>2. Balance(h, F) = h.balance[F] /\ h.balance[F] \in {-1, 0, 1} /\ Rotates
    BY <2>1, <1>1, <1>4, <1>8, Running DEF Heaps
  <2>3. h.balance[F] = -1 \/ h.balance[F] = d \/ h.balance[F] = far
    BY <2>2, <1>1 DEF Dirs
  <2>4. CASE h.balance[F] = d
    <3> DEFINE D == Get(h, <<F, d>>)
    <3>1. Pair(h, L, <<B, 1 - d>>, d, F, D)
      <4>1. Pair(h, L, s, 1 - d, B, F)
        BY <2>1
      <4> HIDE DEF h, k, s, B, d, far, F, loss
      <4> QED
        BY <4>1, <2>4, <1>1, HasInner
    <3>2. D \in Keys /\ Link(h, F, d) = D /\ Balance(h, D) = h.balance[D]
      BY <3>1, <2>1, <1>1, Running DEF Pair
    <3>3. loss = 1
      BY <2>2, <2>4, <1>1, <1>3, <1>8 DEF IsBalanced, Dirs
    <3>4. Lowered = AvlRotate3(h, s, 1 - d, h.balance[D])
      BY <3>2, <2>2, <2>4, <1>1, <1>2, <1>8 DEF Lowered, IsBalanced, Dirs
    <3>5. LowersByTurn(h, AvlRotate3(h, s, 1 - d, h.balance[D]), L, lo, hi, k, s, B, d)
      <4>1. Pair(h, L, s, 1 - d, B, F) /\ h.balance[B] = 1 - d
        BY <2>1, <1>8
      <4> HIDE DEF h, k, s, B, d, far, F, D, loss
      <4>2. Lowering(h, L, lo, hi, ht, k, s, B, d, 1)
        BY <3>3, <1>1
      <4> QED
        BY <4>1, <4>2, <3>1, <2>4, LowerRotate3Does
    <3> QED
      BY <3>4, <3>5, <2>2 DEF LoweredWell
  <2>5. CASE h.balance[F] # d
    <3> DEFINE turned == AvlRotate2(h, s, far)
    <3>1. /\ AvlRotate2(h, s, far) \in Heaps
          /\ AvlRotate2(h, s, far).balance = [h.balance EXCEPT ![B] = -1, ![F] = -1]
          /\ Turned(h, AvlRotate2(h, s, far), s, far, B, F)
      <4>1. h \in Heaps /\ L \subseteq Keys /\ Shape(h, L, lo, hi)
        BY <1>1
      <4> HIDE DEF h, s, B, far, F
      <4> QED
        BY <4>1, <2>1, AvlRotate2Does
    <3>2. B # F
      <4> HIDE DEF h, s, B, far, F
      <4> QED
        BY <2>1, <1>1, PairBounds
    <3>3. /\ turned \in Heaps /\ Turned(h, turned, s, far, B, F)
          /\ turned.balance[B] = -1 /\ turned.balance[F] = -1
          /\ \A n \in L \ {B, F} : turned.balance[n] = h.balance[n]
      BY <3>1, <3>2, <2>1, <1>1 DEF Heaps
    <3> HIDE DEF turned
    <3>4. PICK g : /\ Lowered = g
                   /\ Turned(h, g, s, far, B, F)
                   /\ Same(L, {B, F}, h.balance, g.balance)
                   /\ loss = 0 => h.balance[F] = -1 /\ g.balance[B] = far /\ g.balance[F] = d
                   /\ loss = 1 => h.balance[F] = far /\ g.balance[B] = -1 /\ g.balance[F] = -1
      <4>1. CASE h.balance[F] = far
        <5>1. Lowered = turned
          BY <4>1, <2>2, <1>1, <1>2, <1>8 DEF Lowered, IsBalanced, Dirs, turned
        <5>2. loss = 1
          BY <4>1, <2>2, <1>1, <1>3, <1>8 DEF IsBalanced, Dirs
        <5> QED
          BY <5>1, <5>2, <4>1, <3>3 DEF Same
      <4>2. CASE h.balance[F] = -1
        <5> DEFINE m == SetBalance(turned, B, far)
                   g == SetBalance(m, F, d)
        <5>1. Lowered = RaisedEven(turned)
          BY <4>2, <2>2, <1>1, <1>2, <1>8 DEF Lowered, IsBalanced, Dirs, turned
        <5>2. RaisedEven(turned) = g
          BY <1>2 DEF RaisedEven
        <5>3. loss = 0
          BY <4>2, <2>2, <1>1, <1>3, <1>8 DEF IsBalanced
        <5>4. m \in Heaps
          BY <3>3, <1>1, SetBalanceType DEF Dirs
        <5>5. m.balance = [turned.balance EXCEPT ![B] = far] /\ \A t : Get(m, t) = Get(turned, t)
          BY <3>3, <1>1, SetBalanceGet
        <5> HIDE DEF m
        <5>6. g.balance = [m.balance EXCEPT ![F] = d] /\ \A t : Get(g, t) = Get(m, t)
          BY <5>4, <2>1, SetBalanceGet
        <5> HIDE DEF g
        <5>7. turned.balance \in [Keys -> {-1, 0, 1}] /\ m.balance \in [Keys -> {-1, 0, 1}]
          BY <5>4, <3>3 DEF Heaps
        <5>8. g.balance[B] = far /\ g.balance[F] = d
          BY <5>5, <5>6, <5>7, <3>2, <2>1, <1>1
        <5>9. Same(L, {B, F}, h.balance, g.balance)
          BY <5>5, <5>6, <5>7, <3>3, <1>1 DEF Same
        <5>10. Turned(h, g, s, far, B, F)
          BY <5>5, <5>6, <3>3 DEF Turned
        <5> QED
          BY <5>1, <5>2, <5>3, <5>8, <5>9, <5>10, <4>2
      <4> QED
        BY <4>1, <4>2, <2>3, <2>5
    <3>5. LowersByTurn(h, g, L, lo, hi, k, s, B, d)
      <4>1. h.balance[B] = 1 - d /\ Pair(h, L, s, 1 - d, B, F) /\ Turned(h, g, s, 1 - d, B, F)
        BY <3>4, <2>1, <1>8
      <4>2. /\ loss = 0 => h.balance[F] = -1 /\ g.balance[B] = 1 - d /\ g.balance[F] = d
            /\ loss = 1 => h.balance[F] = 1 - d /\ g.balance[B] = -1 /\ g.balance[F] = -1
        BY <3>4
      <4> HIDE DEF h, k, s, B, d, far, F, loss
      <4> QED
        <5>1. Lowering(h, L, lo, hi, ht, k, s, B, d, loss)
          BY <1>1
        <5>2. Same(L, {B, F}, h.balance, g.balance)
          BY <3>4
        <5> QED
          BY <5>1, <5>2, <4>1, <4>2, LowerRotate2Does
    <3> QED
      BY <3>4, <3>5, <2>2 DEF LoweredWell
  <2> QED
    BY <2>4, <2>5
<1> QED
  BY <1>5, <1>6, <1>7, <1>8

\* After a step at B, wherever its key is now.
LEMMA LowerInvAgain ==
  ASSUME NEW h, NEW g, NEW L, NEW lo, NEW hi, NEW k, NEW s, NEW B, NEW d, NEW r, NEW t,
         Lowers(h, g, L, lo, hi, k, s, B, d),
         LossGoesOn(h, lo, hi, k, s, L), LastSide(h, L, lo, hi, k, s, r.dir),
         r.key = k, r.nodep = <<B, d>>, r.targetp = t,
         t \in TreeSlots(L), Get(g, t) = k
  PROVE  \E lo1, hi1, ht1 : Shape(g, L, lo1, hi1) /\ ht1 \in Heights(L) /\ LowerInv(g, L, lo1, hi1, ht1, r)
<1> DEFINE N == Get(h, <<B, d>>)
<1>1. PICK lo1, hi1, T : LowerStep(h, g, L, lo, hi, lo1, hi1, k, s, B, d, T)
  BY DEF Lowers
<1>2. PICK ht1 \in Heights(L) : Sound(g, L, ht1, Seen(ht1, N, -1))
  BY DEF Lowers, LostAt
<1>3. /\ L \subseteq Keys /\ Shape(g, L, lo1, hi1) /\ k \in L
      /\ N \in L /\ N # Null /\ Get(g, <<B, d>>) = N
  BY <1>1, KeysAreNumbers DEF LowerStep
<1>4. GoesDown(g, L, lo1, hi1, k, <<B, d>>, r.dir)
  BY <1>1, LowerGoesDown
<1>5. /\ Around(L, lo1, hi1, r.nodep, k)
      /\ ~ Stops(g, k, N)
      /\ LossGoesOn(g, lo1, hi1, k, r.nodep, L)
      /\ LastSide(g, L, lo1, hi1, k, r.nodep, r.dir)
  BY <1>3, <1>4 DEF GoesDown
<1> HIDE DEF N
<1>6. Loss(g, k, N) = 1
  BY <1>5 DEF Loss
<1>7. LowerInv(g, L, lo1, hi1, ht1, r)
  BY <1>2, <1>3, <1>5, <1>6 DEF LowerInv
<1> QED
  BY <1>2, <1>3, <1>7

\* What stage 2 of erase works on.
LEMMA LowerBegins ==
  ASSUME TypeOK, NEW L, L \subseteq Keys, pc = "lower", Link(heap, Here, Side) # Null,
         NEW lo, NEW hi, NEW ht, Fits(pc, heap, L, lo, hi, ht, reg)
  PROVE  /\ Lowering(heap, L, lo, hi, ht, reg.key, reg.nodep, Here, Side,
                     Loss(heap, reg.key, Here))
         /\ LossGoesOn(heap, lo, hi, reg.key, reg.nodep, L)
         /\ LastSide(heap, L, lo, hi, reg.key, reg.nodep, reg.dir)
         /\ reg.targetp \in TreeSlots(L) /\ Get(heap, reg.targetp) = reg.key
<1> DEFINE k == reg.key
           s == reg.nodep
           B == Here
           d == Side
<1>1. heap \in Heaps /\ L \subseteq Keys /\ k \in Keys /\ k \in Int
  BY Running
<1>2. Shape(heap, L, lo, hi) /\ ht \in Heights(L) /\ LowerInv(heap, L, lo, hi, ht, reg)
  BY DEF Fits, Stage
<1>3. /\ k \in L /\ Around(L, lo, hi, s, k) /\ B # Null /\ Get(heap, s) = B
      /\ Sound(heap, L, ht, Seen(ht, B, -Loss(heap, k, B)))
      /\ LossGoesOn(heap, lo, hi, k, s, L)
      /\ LastSide(heap, L, lo, hi, k, s, reg.dir)
      /\ reg.targetp \in TreeSlots(L) /\ Get(heap, reg.targetp) = k
  BY <1>2 DEF LowerInv, Here
<1>4. s \in TreeSlots(L) /\ B \in L /\ B \in Keys /\ B \in Int
  BY <1>1, <1>2, <1>3, KeysAreNumbers DEF Around, Shape, Placed
<1>5. d \in Dirs /\ d = Direction(k, B)
  BY DirectionType DEF Side
<1>6. Get(heap, <<B, d>>) \in L
  <2>1. Get(heap, <<B, d>>) # Null
    BY <1>4, <1>5, Running
  <2> QED
    BY <2>1, <1>1, <1>2, <1>4, <1>5, ChildType
<1>7. Loss(heap, k, B) \in {0, 1}
  BY DEF Loss
<1>8. Lowering(heap, L, lo, hi, ht, k, s, B, d, Loss(heap, k, B))
  BY <1>1, <1>2, <1>3, <1>4, <1>5, <1>6, <1>7 DEF Lowering
<1> QED
  BY <1>3, <1>8

LEMMA EraseLowerKeeps ==
  ASSUME TypeOK, NEW L, Own(L), EraseLower
  PROVE  Own(L)'
<1>1. PICK lo, hi, ht : Fits(pc, heap, L, lo, hi, ht, reg)
  BY DEF Own
<1> DEFINE k == reg.key
           s == reg.nodep
           B == Here
           d == Side
           g == Lowered
           t == IF Rotates /\ B = k THEN MovedTarget ELSE reg.targetp
<1>2. /\ pc = "lower" /\ pc' = "lower" /\ Link(heap, B, d) # Null
      /\ heap' = g
      /\ reg'.key = k /\ reg'.nodep = <<B, d>> /\ reg'.dir = reg.dir
      /\ reg'.targetp = t
  BY DEF EraseLower, TypeOK, Regs
<1>3. /\ Lowering(heap, L, lo, hi, ht, k, s, B, d, Loss(heap, k, B))
      /\ LossGoesOn(heap, lo, hi, k, s, L)
      /\ LastSide(heap, L, lo, hi, k, s, reg.dir)
      /\ reg.targetp \in TreeSlots(L) /\ Get(heap, reg.targetp) = k
  BY <1>1, <1>2, OwnKeys, LowerBegins
<1>4. LoweredWell(L, lo, hi)
  BY <1>2, <1>3, LoweredDoes
<1>5. Lowers(heap, g, L, lo, hi, k, s, B, d)
  BY <1>4 DEF LoweredWell, LowersByTurn
<1>6. d \in Dirs
  BY DirectionType DEF Side
<1>7. t \in TreeSlots(L) /\ Get(g, t) = k
  <2>1. CASE Rotates /\ B = k
    <3>1. t = <<Get(g, s), d>>
      BY <2>1 DEF MovedTarget
    <3>2. Get(g, s) \in L /\ Get(g, <<Get(g, s), d>>) = B
      BY <2>1, <1>4 DEF LoweredWell, LowersByTurn
    <3> HIDE DEF g, s, d, B, k
    <3> QED
      BY <3>1, <3>2, <2>1, <1>6, SlotsOf
  <2>2. CASE ~ Rotates
    BY <2>2, <1>3, <1>4 DEF LoweredWell
  <2>3. CASE B # k
    <3>1. PICK lo1, hi1, T : LowerStep(heap, g, L, lo, hi, lo1, hi1, k, s, B, d, T)
      BY <1>5 DEF Lowers
    <3>2. t = reg.targetp
      BY <2>3
    <3> HIDE DEF g, s, d, B, k, t
    <3> QED
      BY <3>1, <3>2, <2>3, <1>3, TargetKept
  <2> QED
    BY <2>1, <2>2, <2>3
<1> HIDE DEF g, s, d, B, k, t
<1>8. LastSide(heap, L, lo, hi, k, s, reg'.dir)
  BY <1>2, <1>3
<1>9. PICK lo1, hi1, ht1 :
        Shape(g, L, lo1, hi1) /\ ht1 \in Heights(L) /\ LowerInv(g, L, lo1, hi1, ht1, reg')
  BY <1>2, <1>3, <1>5, <1>7, <1>8, LowerInvAgain
<1>10. Fits(pc', heap', L, lo1, hi1, ht1, reg')
  BY <1>2, <1>9 DEF Fits, Stage
<1> QED
  BY <1>10, OwnKeys DEF Own

-----------------------------------------------------------------------------
(* Stage 3 of erase.                                                       *)

\* With B, which has one child at most, its slot loses one of its height.
LEMMA CutLevels ==
  ASSUME NEW h, NEW g, NEW L, L \subseteq Keys, NEW lo, NEW hi, Shape(h, L, lo, hi),
         NEW s \in TreeSlots(L), NEW B \in L, Get(h, s) = B,
         NEW d \in Dirs, Get(h, <<B, d>>) = Null, Cut(h, g, L, s, B, d),
         Same(L, {B}, h.balance, g.balance),
         NEW ht \in Heights(L), Sound(h, L, ht, Seen(ht, B, -1)),
         NEW ht1 \in Heights(L \ {B}), \A n \in L \ {B} : ht1[n] = ht[n]
  PROVE  Sound(g, L \ {B}, ht1, ht1)
<1> DEFINE C == Get(h, <<B, 1 - d>>)
           seen == Seen(ht, B, -1)
<1>1. 1 - d \in Dirs /\ B # Null
  BY KeysAreNumbers DEF Dirs
<1>2. seen \in Views(L) /\ \A x \in L : seen[x] = IF x = B THEN ht[x] + -1 ELSE ht[x]
  <2>1. -1 \in Int
    OBVIOUS
  <2> QED
    BY <2>1, SeenType
<1>3. C \in L \/ C = Null
  BY <1>1, ChildType
<1>4. C # B
  BY <1>1, NotOwnChild
<1>5. Level(h, B, d, ht, seen)
  BY <1>2, LevelSides DEF Sound
<1> HIDE DEF C, seen
<1>6. Tall(seen, C) = Tall(ht, C) /\ Tall(ht, C) \in Nat /\ Tall(ht1, C) = Tall(ht, C)
  BY <1>2, <1>3, <1>4 DEF Tall, Heights
<1>7. ht[B] = 1 + Tall(ht, C)
  <2>1. ht[B] = 1 + Higher(0, Tall(seen, C))
    BY <1>5 DEF Level, Weighs, Tall, C
  <2> QED
    BY <2>1, <1>6 DEF Higher
<1> SUFFICES ASSUME NEW n \in L \ {B} PROVE Level(g, n, 0, ht1, ht1)
  BY DEF Sound
<1>8. Level(h, n, 0, ht, seen)
  BY DEF Sound, seen
<1>9. g.balance[n] = h.balance[n] /\ ht1[n] = ht[n]
  BY DEF Same
<1>10. ASSUME NEW e \in Dirs
       PROVE  Tall(ht1, Get(g, <<n, e>>)) = Tall(seen, Get(h, <<n, e>>))
  <2> DEFINE c == Get(h, <<n, e>>)
  <2>1. <<n, e>> \in TreeSlots(L \ {B}) /\ <<n, e>> \in TreeSlots(L)
    BY SlotsOf
  <2>2. CASE <<n, e>> = s
    <3>1. Get(g, <<n, e>>) = C /\ Get(h, <<n, e>>) = B
      BY <2>1, <2>2 DEF Cut, C
    <3>2. Tall(seen, B) = Tall(ht, C)
      BY <1>1, <1>2, <1>6, <1>7 DEF Tall, Heights
    <3> QED
      BY <3>1, <3>2, <1>6
  <2>3. CASE <<n, e>> # s
    <3>1. Get(g, <<n, e>>) = c
      BY <2>1, <2>3 DEF Cut
    <3>2. c # B
      BY <2>1, <2>3, <1>1, OneParent
    <3>3. c \in L \/ c = Null
      BY ChildType
    <3> HIDE DEF c
    <3>4. Tall(ht1, c) = Tall(seen, c)
      BY <3>2, <3>3, <1>2 DEF Tall
    <3> QED
      BY <3>1, <3>4 DEF c
  <2> QED
    BY <2>2, <2>3
<1> QED
  BY <1>8, <1>9, <1>10, LevelKept

\* m takes the place of k, with its height and its balance.
LEMMA RenamedLevels ==
  ASSUME NEW h, NEW g, NEW L, L \subseteq Keys, NEW lo, NEW hi, Shape(h, L, lo, hi),
         NEW t \in TreeSlots(L), NEW k \in L, Get(h, t) = k,
         NEW m \in Keys, m \notin L, Renamed(h, g, L, t, k, m),
         Same(L, {k}, h.balance, g.balance), g.balance[m] = h.balance[k],
         NEW ht \in Heights(L), Sound(h, L, ht, ht),
         NEW ht1 \in Heights(Replaced(L, k, m)),
         \A n \in Replaced(L, k, m) : ht1[n] = IF n = m THEN ht[k] ELSE ht[n]
  PROVE  Sound(g, Replaced(L, k, m), ht1, ht1)
<1>1. k # Null /\ m # Null /\ k # m
  BY KeysAreNumbers
<1> SUFFICES ASSUME NEW n \in Replaced(L, k, m) PROVE Level(g, n, 0, ht1, ht1)
  BY DEF Sound
<1>2. m \in Replaced(L, k, m) /\ \A e \in Dirs : <<n, e>> \in TreeSlots(Replaced(L, k, m))
  BY SlotsOf DEF Replaced
<1> DEFINE o == IF n = m THEN k ELSE n
<1>3. o \in L /\ (n # m => n # k)
  BY <1>1 DEF Replaced
<1>4. Level(h, o, 0, ht, ht) /\ g.balance[n] = h.balance[o] /\ ht1[n] = ht[o]
  BY <1>1, <1>3 DEF Sound, Same
<1>5. ASSUME NEW e \in Dirs
      PROVE  Tall(ht1, Get(g, <<n, e>>)) = Tall(ht, Get(h, <<o, e>>))
  <2> DEFINE c == Get(h, <<o, e>>)
  <2>1. c \in L \/ c = Null
    BY <1>3, ChildType
  <2>2. <<o, e>> \in TreeSlots(L)
    BY <1>3, SlotsOf
  <2>3. CASE <<n, e>> = t
    <3>1. n # m
      BY <2>3, <1>1, SlotCases DEF RootSlot
    <3>2. Get(g, <<n, e>>) = m /\ c = k
      BY <2>3, <3>1, <1>2 DEF Renamed
    <3> QED
      BY <3>2, <1>1, <1>2 DEF Tall
  <2>4. CASE <<n, e>> # t
    <3>1. Get(g, <<n, e>>) = c
      BY <2>4, <1>2 DEF Renamed
    <3>2. c # k
      <4>1. CASE n = m
        BY <4>1, <1>3, NotOwnChild
      <4>2. CASE n # m
        BY <4>2, <2>2, <2>4, <1>1, OneParent
      <4> QED
        BY <4>1, <4>2
    <3> HIDE DEF c
    <3>3. Tall(ht1, c) = Tall(ht, c)
      BY <3>2, <2>1 DEF Tall, Replaced
    <3> QED
      BY <3>1, <3>3 DEF c
  <2> QED
    BY <2>3, <2>4
<1> HIDE DEF o
<1>6. /\ Tall(ht1, Get(g, <<n, 0>>)) = Tall(ht, Get(h, <<o, 0>>))
      /\ Tall(ht1, Get(g, <<n, 1 - 0>>)) = Tall(ht, Get(h, <<o, 1 - 0>>))
  <2>1. 0 \in Dirs /\ 1 - 0 \in Dirs
    BY DEF Dirs
  <2> QED
    BY <2>1, <1>5
<1> QED
  BY <1>4, <1>6 DEF Level

\* The heap after EraseUnlink, k being the node behind t and B the last node.
Unlinked(h, t, s, B, k, dir) ==
  LET h1 == Put(h, t, B)
      h2 == Put(h1, s, Link(h1, B, 1 - dir))
      h3 == [h2 EXCEPT !.links[B] = [e \in Dirs |-> Link(h2, k, e)],
                       !.balance[B] = Balance(h2, k)]
  IN  Blank(h3, k)

\* What the slots of nodes other than k hold: C is the other child of B.
UnlinkedGets(h, g, t, s, B, k, C) ==
  \A u \in TreeSlots(Keys) : u[1] # k =>
    Get(g, u) = LET v == IF u[1] = B THEN <<k, u[2]>> ELSE u
                IN  IF v = s THEN C ELSE IF v = t THEN B ELSE Get(h, v)

LEMMA UnlinkedDoes ==
  ASSUME NEW h \in Heaps, NEW t \in TreeSlots(Keys), NEW s \in TreeSlots(Keys),
         NEW B \in Keys, NEW k \in Keys, NEW dir \in Dirs, t # <<B, 1 - dir>>
  PROVE  /\ UnlinkedGets(h, Unlinked(h, t, s, B, k, dir), t, s, B, k, Get(h, <<B, 1 - dir>>))
         /\ \A n \in Keys : n # k =>
              Unlinked(h, t, s, B, k, dir).balance[n] = h.balance[IF n = B THEN k ELSE n]
<1> DEFINE C == Get(h, <<B, 1 - dir>>)
           h1 == Put(h, t, B)
           h2 == Put(h1, s, Link(h1, B, 1 - dir))
           h3 == [h2 EXCEPT !.links[B] = [e \in Dirs |-> Link(h2, k, e)],
                            !.balance[B] = Balance(h2, k)]
           g == Blank(h3, k)
<1>1. /\ 1 - dir \in Dirs /\ B \in Ptrs /\ Keys \subseteq Keys
      /\ t \in Slots /\ s \in Slots /\ k # Null /\ B # Null
      /\ \A n \in Keys, e \in Dirs : <<n, e>> \in TreeSlots(Keys) /\ <<n, e>> \in Slots
  BY SlotCases, SlotsOf, KeysAreNumbers DEF Dirs, Ptrs, Slots
<1>2. h1 \in Heaps /\ h1.balance = h.balance
  BY <1>1, PutType, PutGet
<1>3. \A u \in TreeSlots(Keys) : Get(h1, u) = IF u = t THEN B ELSE Get(h, u)
  BY <1>1, PutGet
<1> HIDE DEF h1
<1>4. Link(h1, B, 1 - dir) = C
  BY <1>1, <1>2, <1>3, LinkGet
<1>5. C \in Ptrs
  BY <1>1, GetType
<1> HIDE DEF C
<1>6. h2 \in Heaps /\ h2.balance = h1.balance
  BY <1>1, <1>2, <1>4, <1>5, PutType, PutGet
<1>7. \A u \in TreeSlots(Keys) : Get(h2, u) = IF u = s THEN C ELSE Get(h1, u)
  BY <1>1, <1>2, <1>4, <1>5, PutGet
<1> HIDE DEF h2
<1>8. \A e \in Dirs : Link(h2, k, e) = Get(h2, <<k, e>>) /\ Link(h2, k, e) \in Ptrs
  <2>1. k \in Ptrs
    BY DEF Ptrs
  <2> QED
    BY <2>1, <1>6, LinkGet, LinkType
<1>9. Balance(h2, k) = h.balance[k] /\ Balance(h2, k) \in {-1, 0, 1}
  BY <1>1, <1>2, <1>6 DEF Balance, Heaps
<1>10. /\ h3 \in Heaps
       /\ h3.root = h2.root
       /\ h3.links = [h2.links EXCEPT ![B] = [e \in Dirs |-> Link(h2, k, e)]]
       /\ h3.balance = [h2.balance EXCEPT ![B] = Balance(h2, k)]
  BY <1>6, <1>8, <1>9 DEF Heaps
<1> HIDE DEF h3
<1>11. \A u \in TreeSlots(Keys) :
         Get(h3, u) = IF u[1] = B THEN Get(h2, <<k, u[2]>>) ELSE Get(h2, u)
  <2> SUFFICES ASSUME NEW u \in TreeSlots(Keys)
               PROVE  Get(h3, u) = IF u[1] = B THEN Get(h2, <<k, u[2]>>) ELSE Get(h2, u)
    OBVIOUS
  <2>1. CASE u = RootSlot
    BY <2>1, <1>1, <1>10 DEF Get, RootSlot
  <2>2. CASE u # RootSlot
    <3>1. u[1] \in Keys /\ u[2] \in Dirs
      BY <2>2, <1>1, SlotCases
    <3>2. u[1] # Null
      BY <3>1, KeysAreNumbers
    <3>3. Get(h3, u) = h3.links[u[1]][u[2]] /\ Get(h2, u) = h2.links[u[1]][u[2]]
      BY <3>2 DEF Get
    <3>4. h2.links \in [Keys -> [Dirs -> Ptrs]]
      BY <1>6 DEF Heaps
    <3>5. CASE u[1] = B
      BY <3>1, <3>3, <3>4, <3>5, <1>8, <1>10
    <3>6. CASE u[1] # B
      BY <3>1, <3>3, <3>4, <3>6, <1>10
    <3> QED
      BY <3>5, <3>6
  <2> QED
    BY <2>1, <2>2
<1>12. \A u \in TreeSlots(Keys) : Get(g, u) = IF u[1] = k THEN Null ELSE Get(h3, u)
  BY <1>10, BlankGet
<1>13. g.balance = [h3.balance EXCEPT ![k] = -1]
  BY <1>10, BlankGet
<1>14. g = Unlinked(h, t, s, B, k, dir)
  BY DEF Unlinked, h1, h2, h3
<1> HIDE DEF g
<1>15. UnlinkedGets(h, g, t, s, B, k, C)
  <2> SUFFICES ASSUME NEW u \in TreeSlots(Keys), u[1] # k
               PROVE  Get(g, u) = LET v == IF u[1] = B THEN <<k, u[2]>> ELSE u
                                  IN  IF v = s THEN C ELSE IF v = t THEN B ELSE Get(h, v)
    BY DEF UnlinkedGets
  <2> DEFINE v == IF u[1] = B THEN <<k, u[2]>> ELSE u
  <2>1. v \in TreeSlots(Keys)
    <3>1. u[1] = B => u[2] \in Dirs
      BY <1>1, SlotCases DEF RootSlot
    <3> QED
      BY <3>1, <1>1
  <2>2. Get(g, u) = Get(h2, v)
    BY <1>11, <1>12
  <2> HIDE DEF v
  <2>3. Get(h2, v) = IF v = s THEN C ELSE IF v = t THEN B ELSE Get(h, v)
    BY <2>1, <1>3, <1>7
  <2> QED
    BY <2>2, <2>3 DEF v
<1>16. ASSUME NEW n \in Keys, n # k
       PROVE  g.balance[n] = h.balance[IF n = B THEN k ELSE n]
  <2>1. h2.balance \in [Keys -> {-1, 0, 1}] /\ h3.balance \in [Keys -> {-1, 0, 1}]
    BY <1>6, <1>10 DEF Heaps
  <2> QED
    BY <2>1, <1>2, <1>6, <1>9, <1>10, <1>13, <1>16
<1> QED
  BY <1>14, <1>15, <1>16 DEF C

\* The last node B has no child on the side of k; its loss goes up from it.
Ending(h, L, lo, hi, ht, k, s, B, d, t) ==
  /\ h \in Heaps /\ L \subseteq Keys /\ Shape(h, L, lo, hi) /\ ht \in Heights(L)
  /\ k \in L /\ k \in Int /\ B \in L /\ B \in Int
  /\ s \in TreeSlots(L) /\ Get(h, s) = B
  /\ t \in TreeSlots(L) /\ Get(h, t) = k
  /\ d \in Dirs /\ d = Direction(k, B) /\ Get(h, <<B, d>>) = Null
  /\ Around(L, lo, hi, s, k)
  /\ Sound(h, L, ht, Seen(ht, B, -1))

\* What is left when stage 3 is done.
Rests(g, M) == \E lo, hi, ht : Shape(g, M, lo, hi) /\ ht \in Heights(M) /\ Sound(g, M, ht, ht)

\* Slots of some nodes are slots of all.
LEMMA MoreSlots ==
  ASSUME NEW L, NEW M, L \subseteq M
  PROVE  TreeSlots(L) \subseteq TreeSlots(M)
BY DEF TreeSlots

\* The erased node is the last one itself.
LEMMA UnlinkItself ==
  ASSUME NEW h, NEW L, NEW lo, NEW hi, NEW ht, NEW k, NEW s, NEW d, NEW t,
         Ending(h, L, lo, hi, ht, k, s, k, d, t)
  PROVE  Rests(Unlinked(h, t, s, k, k, d), L \ {k})
<1>1. /\ h \in Heaps /\ L \subseteq Keys /\ Shape(h, L, lo, hi) /\ ht \in Heights(L)
      /\ k \in L /\ k \in Keys /\ k # Null
      /\ s \in TreeSlots(L) /\ Get(h, s) = k
      /\ t \in TreeSlots(L) /\ Get(h, t) = k
      /\ d \in Dirs /\ Get(h, <<k, d>>) = Null
      /\ Sound(h, L, ht, Seen(ht, k, -1))
  BY KeysAreNumbers DEF Ending
<1>2. t = s
  <2>1. Get(h, s) # Null /\ Get(h, s) = Get(h, t)
    BY <1>1
  <2> QED
    BY <1>1, <2>1, OneParent
<1>3. 1 - d \in Dirs
  BY <1>1 DEF Dirs
<1>4. t # <<k, 1 - d>>
  BY <1>1, <1>3, NotOwnChild
<1>5. s \in TreeSlots(Keys) /\ t \in TreeSlots(Keys)
  BY <1>1, MoreSlots
<1> DEFINE g == Unlinked(h, t, s, k, k, d)
           C == Get(h, <<k, 1 - d>>)
           ht1 == [n \in L \ {k} |-> ht[n]]
<1>6. /\ UnlinkedGets(h, g, t, s, k, k, C)
      /\ \A n \in Keys : n # k => g.balance[n] = h.balance[IF n = k THEN k ELSE n]
  BY <1>1, <1>4, <1>5, UnlinkedDoes
<1> HIDE DEF g, C
<1>7. Cut(h, g, L, s, k, d)
  <2> SUFFICES ASSUME NEW u \in TreeSlots(L \ {k})
               PROVE  Get(g, u) = IF u = s THEN Get(h, <<k, 1 - d>>) ELSE Get(h, u)
    BY DEF Cut
  <2>1. u \in TreeSlots(Keys) /\ u[1] # k
    BY <1>1 DEF TreeSlots, RootSlot
  <2>2. Get(g, u) = IF u = s THEN C ELSE IF u = t THEN k ELSE Get(h, u)
    BY <1>6, <2>1 DEF UnlinkedGets
  <2> QED
    BY <2>2, <1>2 DEF C
<1>8. Same(L, {k}, h.balance, g.balance)
  BY <1>1, <1>6 DEF Same
<1>9. ht1 \in Heights(L \ {k}) /\ \A n \in L \ {k} : ht1[n] = ht[n]
  BY <1>1 DEF Heights
<1> HIDE DEF ht1
<1>10. Shape(g, L \ {k}, CutLo(L, lo, k), CutHi(L, hi, k))
  BY <1>1, <1>7, CutShape
<1>11. Sound(g, L \ {k}, ht1, ht1)
  BY <1>1, <1>7, <1>8, <1>9, CutLevels
<1>12. Rests(g, L \ {k})
  BY <1>9, <1>10, <1>11 DEF Rests
<1> QED
  BY <1>12 DEF g

\* The last node has the next key after k.
Successor(h, L, lo, k, B, t) ==
  /\ lo[B] = k /\ k < B
  /\ \A x \in L : x > k => x >= B
  /\ t \in TreeSlots(L \ {B})

LEMMA LastIsNext ==
  ASSUME NEW h, NEW L, NEW lo, NEW hi, NEW ht, NEW k, NEW s, NEW B, NEW d, NEW t,
         Ending(h, L, lo, hi, ht, k, s, B, d, t), B # k
  PROVE  d = 0 /\ Successor(h, L, lo, k, B, t)
<1>1. /\ L \subseteq Keys /\ Shape(h, L, lo, hi)
      /\ k \in L /\ k \in Int /\ B \in L /\ B \in Int /\ k # Null
      /\ s \in TreeSlots(L) /\ Get(h, s) = B
      /\ t \in TreeSlots(L) /\ Get(h, t) = k
      /\ d \in Dirs /\ d = Direction(k, B) /\ Get(h, <<B, d>>) = Null
      /\ Null \notin L /\ L \subseteq Int
  BY KeysAreNumbers DEF Ending
<1>2. Sides(L, lo, hi, s, B)
  BY <1>1, SidesOf
<1>3. lo[B] <= k /\ k < hi[B] /\ lo[B] \in Int /\ lo[B] < B
  BY <1>2 DEF Sides, Ending, Around
<1>4. lo[B] = k
  <2> SUFFICES ASSUME lo[B] < k PROVE FALSE
    BY <1>3, <1>1
  <2>1. Get(h, <<B, Direction(k, B)>>) \in L
    BY <1>1, <1>3, WayDown
  <2> QED
    BY <2>1, <1>1
<1>5. k < B /\ d = 0
  BY <1>3, <1>4, <1>1 DEF Direction
<1>6. \A x \in L : ~ Inside(lo, hi, <<B, 0>>, x)
  BY <1>1, <1>5, <1>2 DEF Shape, Placed, Sides, Dirs
<1>7. \A x \in L : x > k => x >= B
  BY <1>6, <1>4, <1>2, <1>1 DEF Inside, Sides
<1>8. t \in TreeSlots(L \ {B})
  <2>1. ASSUME NEW e \in Dirs, t = <<B, e>> PROVE FALSE
    <3>1. e = 1
      BY <2>1, <1>1, <1>5 DEF Dirs
    <3>2. Get(h, <<B, 1>>) = k
      BY <3>1, <2>1, <1>1
    <3>3. lo[k] = B
      <4>1. Get(h, <<B, 1>>) # Null
        BY <3>2, <1>1
      <4>2. lo[Get(h, <<B, 1>>)] = B
        <5>1. L \subseteq Keys /\ Shape(h, L, lo, hi) /\ B \in L
          BY <1>1
        <5> QED
          BY <4>1, <5>1, RightChild
      <4> QED
        BY <4>2, <3>2
    <3>4. lo[k] < k
      BY <1>1 DEF Shape, Ended
    <3> QED
      BY <3>3, <3>4, <1>5, <1>1
  <2>2. t = RootSlot \/ (t[1] \in L /\ t[2] \in Dirs /\ t = <<t[1], t[2]>>)
    BY <1>1, SlotCases
  <2> QED
    BY <2>1, <2>2 DEF TreeSlots
<1> QED
  BY <1>4, <1>5, <1>7, <1>8 DEF Successor

\* The links when k hangs on and the next node has been taken out of its place,
\* and when that node has then come in the place of k.
InTwo(h, m, g, L, s, B, k, t) ==
  /\ Cut(h, m, L, s, B, 0) /\ m.balance = h.balance /\ Get(m, t) = k
  /\ Renamed(m, g, L \ {B}, t, k, B)
  /\ \A n \in Keys : n # k => g.balance[n] = h.balance[IF n = B THEN k ELSE n]

LEMMA UnlinkInTwo ==
  ASSUME NEW h, NEW L, NEW lo, NEW hi, NEW ht, NEW k, NEW s, NEW B, NEW t,
         Ending(h, L, lo, hi, ht, k, s, B, 0, t), B # k, Successor(h, L, lo, k, B, t)
  PROVE  \E m : InTwo(h, m, Unlinked(h, t, s, B, k, 0), L, s, B, k, t)
<1> DEFINE m == Put(h, s, Get(h, <<B, 1>>))
           g == Unlinked(h, t, s, B, k, 0)
<1>1. /\ h \in Heaps /\ L \subseteq Keys /\ Shape(h, L, lo, hi)
      /\ k \in L /\ k \in Keys /\ k # Null /\ B \in L /\ B \in Keys /\ B # Null
      /\ s \in TreeSlots(L) /\ Get(h, s) = B
      /\ t \in TreeSlots(L) /\ Get(h, t) = k
      /\ t \in TreeSlots(L \ {B}) /\ Null \notin L /\ Null \notin Keys
  BY KeysAreNumbers DEF Ending, Successor
<1>2. s \in TreeSlots(Keys) /\ t \in TreeSlots(Keys)
  BY <1>1, MoreSlots
<1> DEFINE C == Get(h, <<B, 1>>)
<1>3. C \in Ptrs
  BY <1>1, ChildType DEF Dirs, Ptrs
<1>4. /\ m.balance = h.balance
      /\ \A u \in TreeSlots(Keys) : Get(m, u) = IF u = s THEN C ELSE Get(h, u)
  BY <1>1, <1>2, <1>3, PutGet
<1>5. t # s /\ t[1] # B
  BY <1>1 DEF TreeSlots, RootSlot
<1>6. t # <<B, 1 - 0>>
  BY <1>5
<1>7. /\ UnlinkedGets(h, g, t, s, B, k, Get(h, <<B, 1 - 0>>))
      /\ \A n \in Keys : n # k => g.balance[n] = h.balance[IF n = B THEN k ELSE n]
  <2>1. 0 \in Dirs
    BY DEF Dirs
  <2> QED
    BY <1>1, <1>2, <1>6, <2>1, UnlinkedDoes
<1>8. UnlinkedGets(h, g, t, s, B, k, C)
  BY <1>7
<1> HIDE DEF C, m, g
<1>9. Cut(h, m, L, s, B, 0)
  <2>1. \A u \in TreeSlots(L \ {B}) : u \in TreeSlots(Keys)
    BY <1>1, MoreSlots
  <2> QED
    BY <1>4, <2>1 DEF Cut, C
<1>10. Get(m, t) = k
  BY <1>4, <1>5, <1>1, <1>2
<1>11. Renamed(m, g, L \ {B}, t, k, B)
  <2> SUFFICES ASSUME NEW u \in TreeSlots(Replaced(L \ {B}, k, B))
               PROVE  Get(g, u) = IF u = t THEN B
                                  ELSE IF u[1] = B THEN Get(m, <<k, u[2]>>) ELSE Get(m, u)
    BY DEF Renamed
  <2>1. /\ u \in TreeSlots(Keys) /\ u[1] # k
        /\ u[1] = B => u[2] \in Dirs
    BY <1>1 DEF TreeSlots, RootSlot, Replaced
  <2>2. Get(g, u) = LET v == IF u[1] = B THEN <<k, u[2]>> ELSE u
                    IN  IF v = s THEN C ELSE IF v = t THEN B ELSE Get(h, v)
    BY <1>8, <2>1 DEF UnlinkedGets
  <2>3. CASE u[1] = B
    <3>1. u # t
      BY <2>3, <1>5
    <3>2. <<k, u[2]>> # t
      BY <2>1, <2>3, <1>1, NotOwnChild
    <3>3. <<k, u[2]>> \in TreeSlots(Keys)
      BY <2>1, <2>3, <1>1 DEF TreeSlots
    <3> QED
      BY <2>2, <2>3, <3>1, <3>2, <3>3, <1>4
  <2>4. CASE u[1] # B
    BY <2>2, <2>4, <2>1, <1>4, <1>5
  <2> QED
    BY <2>3, <2>4
<1>12. InTwo(h, m, g, L, s, B, k, t)
  BY <1>4, <1>7, <1>9, <1>10, <1>11 DEF InTwo
<1> QED
  BY <1>12 DEF g

\* The erased node is above the last one, which has the next key.
LEMMA UnlinkOther ==
  ASSUME NEW h, NEW L, NEW lo, NEW hi, NEW ht, NEW k, NEW s, NEW B, NEW d, NEW t,
         Ending(h, L, lo, hi, ht, k, s, B, d, t), B # k
  PROVE  Rests(Unlinked(h, t, s, B, k, d), L \ {k})
<1>1. d = 0 /\ Successor(h, L, lo, k, B, t)
  BY LastIsNext
<1> DEFINE g == Unlinked(h, t, s, B, k, 0)
           M == L \ {B}
           ht1 == [n \in M |-> ht[n]]
           ht2 == [n \in L \ {k} |-> IF n = B THEN ht[k] ELSE ht[n]]
<1>0. PICK m : InTwo(h, m, g, L, s, B, k, t)
  <2>1. Ending(h, L, lo, hi, ht, k, s, B, 0, t)
    BY <1>1
  <2> QED
    BY <1>1, <2>1, UnlinkInTwo
<1> HIDE DEF g
<1>2. /\ Cut(h, m, L, s, B, 0) /\ m.balance = h.balance /\ Get(m, t) = k
      /\ Renamed(m, g, M, t, k, B)
      /\ \A n \in Keys : n # k => g.balance[n] = h.balance[IF n = B THEN k ELSE n]
  BY <1>0 DEF InTwo
<1>3. /\ L \subseteq Keys /\ Shape(h, L, lo, hi) /\ ht \in Heights(L)
      /\ k \in L /\ B \in L /\ B \in Keys /\ k \in Int /\ B \in Int
      /\ s \in TreeSlots(L) /\ Get(h, s) = B
      /\ 0 \in Dirs /\ Get(h, <<B, 0>>) = Null
      /\ Sound(h, L, ht, Seen(ht, B, -1))
  BY <1>1 DEF Ending, Dirs
<1>4. L \subseteq Int
  BY <1>3, KeysAreNumbers
<1>5. Shape(m, M, CutLo(L, lo, B), CutHi(L, hi, B))
  BY <1>2, <1>3, CutShape
<1>6. ht1 \in Heights(M) /\ \A n \in M : ht1[n] = ht[n]
  BY <1>3 DEF Heights
<1>7. Same(L, {B}, h.balance, m.balance)
  BY <1>2 DEF Same
<1>8. Sound(m, M, ht1, ht1)
  <2> HIDE DEF ht1
  <2>1. ht1 \in Heights(L \ {B}) /\ \A n \in L \ {B} : ht1[n] = ht[n]
    BY <1>6
  <2> QED
    BY <1>2, <1>3, <1>7, <2>1, CutLevels
<1>9. Replaced(M, k, B) = L \ {k}
  BY <1>3, B # k DEF Replaced
<1>10. /\ M \subseteq Keys /\ t \in TreeSlots(M) /\ k \in M /\ B \notin M
       /\ k < B /\ \A x \in M : x > k => x > B
  BY <1>1, <1>3, <1>4 DEF Successor
<1>11. /\ Same(M, {k}, m.balance, g.balance)
       /\ g.balance[B] = m.balance[k]
  BY <1>2, <1>3, B # k DEF Same
<1>12. /\ ht2 \in Heights(Replaced(M, k, B))
       /\ \A n \in Replaced(M, k, B) : ht2[n] = IF n = B THEN ht1[k] ELSE ht1[n]
  BY <1>3, <1>9, B # k DEF Heights
<1> HIDE DEF M, ht1, ht2
<1>13. Shape(g, Replaced(M, k, B), NamedLo(M, CutLo(L, lo, B), k, B), NamedHi(M, CutHi(L, hi, B), k, B))
  BY <1>2, <1>3, <1>5, <1>10, RenamedShape
<1>14. Sound(g, Replaced(M, k, B), ht2, ht2)
  BY <1>2, <1>3, <1>5, <1>6, <1>8, <1>10, <1>11, <1>12, RenamedLevels
<1>15. Rests(g, Replaced(M, k, B))
  BY <1>12, <1>13, <1>14 DEF Rests
<1> QED
  BY <1>1, <1>9, <1>15 DEF g

LEMMA EraseUnlinkKeeps ==
  ASSUME TypeOK, NEW L, Own(L), EraseUnlink,
         NEW M, M = L \ {reg.key}
  PROVE  Own(M)'
<1>1. PICK lo, hi, ht : Fits(pc, heap, L, lo, hi, ht, reg)
  BY DEF Own
<1> DEFINE k == reg.key
           s == reg.nodep
           t == reg.targetp
           B == Here
<1>2. /\ pc = "lower" /\ pc' = "idle" /\ Link(heap, B, Side) = Null
  BY DEF EraseUnlink, Return
<1>3. /\ Shape(heap, L, lo, hi) /\ ht \in Heights(L)
      /\ LowerInv(heap, L, lo, hi, ht, reg)
  BY <1>1, <1>2 DEF Fits, Stage
<1>4. /\ k \in L /\ s \in TreeSlots(L) /\ Get(heap, s) = B
      /\ t \in TreeSlots(L) /\ Get(heap, t) = k
      /\ Around(L, lo, hi, s, k) /\ B # Null
      /\ Sound(heap, L, ht, Seen(ht, B, -Loss(heap, k, B)))
      /\ LastSide(heap, L, lo, hi, k, s, reg.dir)
  BY <1>3 DEF LowerInv, Around, Here
<1>5. heap \in Heaps /\ L \subseteq Keys /\ k \in Int
  BY <1>2, Running, OwnKeys
<1>6. B \in L
  BY <1>3, <1>4 DEF Shape, Placed
<1>7. B \in Keys /\ B \in Int
  BY <1>5, <1>6, KeysAreNumbers
<1>8. Side \in Dirs /\ Side = Direction(k, B)
  BY <1>2, <1>4, DirectionType DEF Side
<1>9. Get(heap, <<B, Side>>) = Null
  BY <1>2, <1>7, <1>8, Running
<1>10. reg.dir = Side
  <2>1. Sides(L, lo, hi, s, B)
    BY <1>3, <1>4, <1>5, <1>6, SidesOf
  <2>2. Inside(lo, hi, s, B) /\ OnPath(lo, hi, k, B)
    BY <2>1, <1>4 DEF Sides, Inside, OnPath, Around
  <2> QED
    BY <2>2, <1>4, <1>6, <1>8, <1>9 DEF LastSide
<1>11. Loss(heap, k, B) = 1
  BY <1>8, <1>9 DEF Loss, Stops
<1>12. Ending(heap, L, lo, hi, ht, k, s, B, Side, t)
  BY <1>3, <1>4, <1>5, <1>6, <1>7, <1>8, <1>9, <1>11 DEF Ending
<1>13. heap' = Unlinked(heap, t, s, B, k, Side) /\ M = L \ {k}
  BY <1>4, <1>10 DEF EraseUnlink, Unlinked, OnlyChild
<1> HIDE DEF k, s, t, B
<1>14. Rests(Unlinked(heap, t, s, B, k, Side), L \ {k})
  <2>1. CASE B = k
    <3>1. Ending(heap, L, lo, hi, ht, k, s, k, Side, t)
      BY <2>1, <1>12
    <3> QED
      BY <3>1, <2>1, UnlinkItself
  <2>2. CASE B # k
    BY <2>2, <1>12, UnlinkOther
  <2> QED
    BY <2>1, <2>2
<1>15. PICK lo1, hi1, ht1 : /\ Shape(heap', M, lo1, hi1)
                            /\ ht1 \in Heights(M) /\ Sound(heap', M, ht1, ht1)
  BY <1>13, <1>14 DEF Rests
<1>16. Fits(pc', heap', M, lo1, hi1, ht1, reg')
  BY <1>2, <1>15 DEF Fits, Stage
<1> QED
  BY <1>16, OwnKeys DEF Own

-----------------------------------------------------------------------------
(* The invariant is inductive.                                             *)

\* A step that keeps to the nodes it has.
OldNodes ==
  \/ \E k \in Keys : InsertCall(k) \/ EraseCall(k) \/ CountCall(k)
  \/ InsertStep /\ ~ InsertLink
  \/ EraseStep /\ ~ EraseUnlink
  \/ CountStep
  \/ UNCHANGED vars

LEMMA OldNodesKeep ==
  ASSUME TypeOK, NEW L, Own(L), OldNodes
  PROVE  Own(L)'
<1>1. CASE \E k \in Keys : InsertCall(k) \/ EraseCall(k) \/ CountCall(k)
  BY <1>1, CallKeeps
<1>2. CASE InsertStep /\ ~ InsertLink
  <2>1. CASE InsertDescend
    BY <2>1, InsertDescendKeeps
  <2>2. CASE InsertPresent \/ InsertThrows
    BY <2>2, RestKeeps DEF InsertPresent, InsertThrows, Return
  <2>4. CASE InsertBelowBalanced
    BY <2>4, InsertBelowBalancedKeeps
  <2>5. CASE InsertShorterPath
    BY <2>5, InsertShorterPathKeeps
  <2>6. CASE InsertRotate2
    BY <2>6, InsertRotate2Keeps
  <2>7. CASE InsertRotate3
    BY <2>7, InsertRotate3Keeps
  <2>8. CASE InsertUpdate
    BY <2>8, InsertUpdateKeeps
  <2>9. CASE InsertReturn
    BY <2>9, InsertReturnKeeps
  <2> QED
    BY <1>2, <2>1, <2>2, <2>4, <2>5, <2>6, <2>7, <2>8, <2>9 DEF InsertStep
<1>3. CASE EraseStep /\ ~ EraseUnlink
  <2>1. CASE EraseDescend
    BY <2>1, EraseDescendKeeps
  <2>2. CASE EraseAbsent
    BY <2>2, RestKeeps DEF EraseAbsent, Return
  <2>3. CASE EraseLocated
    BY <2>3, EraseLocatedKeeps
  <2>4. CASE EraseLower
    BY <2>4, EraseLowerKeeps
  <2> QED
    BY <1>3, <2>1, <2>2, <2>3, <2>4 DEF EraseStep
<1>4. CASE CountStep
  <2>1. CASE CountDescend
    BY <2>1, CountDescendKeeps
  <2>2. CASE CountReturn
    BY <2>2, RestKeeps DEF CountReturn, Return
  <2> QED
    BY <1>4, <2>1, <2>2 DEF CountStep
<1>5. CASE UNCHANGED vars
  <2>1. UNCHANGED <<heap, live, pc, reg>>
    BY <1>5 DEF vars
  <2>2. PICK lo, hi, ht : Fits(pc, heap, L, lo, hi, ht, reg)
    BY DEF Own
  <2>3. Fits(pc', heap', L, lo, hi, ht, reg')
    BY <2>1, <2>2
  <2> QED
    BY <2>3, OwnKeys DEF Own
<1> QED
  BY <1>1, <1>2, <1>3, <1>4, <1>5 DEF OldNodes

\* M are the nodes of the tree after a step, when L are those before it.
Nodes(L, M) ==
  /\ InsertLink => M = L \cup {reg.key}
  /\ EraseUnlink => M = L \ {reg.key}
  /\ ~ InsertLink /\ ~ EraseUnlink => M = L

LEMMA OneStage ==
  /\ InsertLink => ~ EraseUnlink
  /\ OldNodes => ~ InsertLink /\ ~ EraseUnlink
  /\ [Next]_vars => OldNodes \/ InsertLink \/ EraseUnlink
<1>1. InsertLink => pc = "find_slot" /\ pc' = "rebalance"
  BY DEF InsertLink
<1>2. EraseUnlink => pc = "lower" /\ pc' = "idle"
  BY DEF EraseUnlink, Return
<1>3. ASSUME OldNodes PROVE ~ InsertLink /\ ~ EraseUnlink
  <2>1. CASE \E k \in Keys : InsertCall(k) \/ EraseCall(k) \/ CountCall(k)
    BY <2>1, <1>1, <1>2 DEF InsertCall, EraseCall, CountCall, Call
  <2>2. CASE InsertStep /\ ~ InsertLink
    BY <2>2, <1>2 DEF InsertStep, InsertDescend, InsertPresent, InsertThrows, InsertBelowBalanced,
       InsertShorterPath, InsertRotate2, InsertRotate3, InsertUpdate, InsertReturn
  <2>3. CASE EraseStep /\ ~ EraseUnlink
    BY <2>3, <1>1 DEF EraseStep, EraseDescend, EraseAbsent, EraseLocated, EraseLower
  <2>4. CASE CountStep
    BY <2>4, <1>1, <1>2 DEF CountStep, CountDescend, CountReturn
  <2>5. CASE UNCHANGED vars
    BY <2>5, <1>1, <1>2 DEF vars
  <2> QED
    BY <1>3, <2>1, <2>2, <2>3, <2>4, <2>5 DEF OldNodes
<1>4. [Next]_vars => OldNodes \/ InsertLink \/ EraseUnlink
  BY DEF Next, Step, OldNodes
<1> QED
  BY <1>1, <1>2, <1>3, <1>4

LEMMA OwnNext ==
  ASSUME TypeOK, NEW L, Own(L), [Next]_vars, NEW M, Nodes(L, M)
  PROVE  Own(M)'
<1>1. CASE InsertLink
  BY <1>1, InsertLinkKeeps DEF Nodes
<1>2. CASE EraseUnlink
  BY <1>2, EraseUnlinkKeeps DEF Nodes
<1>3. CASE OldNodes
  BY <1>3, OneStage, OldNodesKeep DEF Nodes
<1> QED
  BY <1>1, <1>2, <1>3, OneStage

LEMMA LiveNext ==
  ASSUME TypeOK, NEW L, L = live, Own(L), [Next]_vars
  PROVE  Nodes(L, live')
<1>1. CASE InsertLink
  BY <1>1, OneStage DEF InsertLink, Nodes
<1>2. CASE EraseUnlink
  <2>1. Get(heap, reg.targetp) = reg.key
    BY <1>2 DEF Own, Fits, Stage, LowerInv, EraseUnlink
  <2> QED
    BY <1>2, <2>1, OneStage DEF EraseUnlink, Nodes
<1>3. CASE OldNodes
  <2>1. live' = live
    BY <1>3 DEF OldNodes, vars, InsertCall, EraseCall, CountCall, Call,
       InsertStep, InsertDescend, InsertPresent, InsertThrows, InsertBelowBalanced, InsertShorterPath,
       InsertRotate2, InsertRotate3, InsertUpdate, InsertReturn, ToUpdate, EraseStep, EraseDescend,
       EraseAbsent, EraseLocated, EraseLower, CountStep, CountDescend, CountReturn
  <2> QED
    BY <1>3, <2>1, OneStage DEF Nodes
<1> QED
  BY <1>1, <1>2, <1>3, OneStage

LEMMA InvNext ==
  ASSUME TypeOK, TreeInv, [Next]_vars
  PROVE  TreeInv'
<1>1. PICK L, M : L = live /\ M = live'
  OBVIOUS
<1>2. Own(L)
  BY <1>1 DEF TreeInv
<1>3. Own(M)'
  BY <1>1, <1>2, LiveNext, OwnNext
<1> QED
  BY <1>1, <1>3 DEF TreeInv, Own

-----------------------------------------------------------------------------
(* The invariant, and what it says of pointers.                            *)

\* Whatever calls are made, in whatever order, every link that a rotation or
\* an unlinking writes is a node or nullptr, and every slot that a step reads
\* through exists.
THEOREM TypeCorrect == Spec => []TypeOK
BY TypeInit, TypeNext, PTL DEF Spec

\* At all times the links form a search tree, and where heights and balance
\* fields disagree is where the running call is at work.
THEOREM TreeKept == Spec => [](TypeOK /\ TreeInv)
<1>1. Init => TypeOK /\ TreeInv
  BY TypeInit, InvInit
<1>2. TypeOK /\ [Next]_vars => TypeOK'
  BY TypeNext
<1>3. TypeOK /\ TreeInv /\ [Next]_vars => TypeOK' /\ TreeInv'
  BY <1>2, InvNext
<1> QED
  BY <1>1, <1>3, PTL DEF Spec

\* While erase rotates, targetp stays the address of the link to the node that
\* holds the key: stage 3 takes out that node, and no other.
THEOREM TargetKnown == Spec => []TargetTracked
<1>1. TypeOK /\ TreeInv => TargetTracked
  BY DEF TreeInv, Own, Fits, Stage, LowerInv, TargetTracked
<1> QED
  BY <1>1, TreeKept, PTL

LEMMA NoNullInRebalance ==
  ASSUME TypeOK, NEW L, Own(L), pc = "rebalance"
  PROVE  /\ Top # Null
         /\ Balance(heap, Top) = First =>
              /\ Link(heap, Top, First) # Null
              /\ First # Second => Link(heap, Link(heap, Top, First), Second) # Null
<1> DEFINE k == reg.key
           p == reg.path_top
           B == Top
           dir == First
           F == Get(heap, <<B, dir>>)
<1>1. PICK lo, hi, ht : Growing(heap, L, lo, hi, ht, k, p, B)
  BY Growth
<1>2. B \in L /\ L \subseteq Keys /\ heap \in Heaps
  BY <1>1 DEF Growing
<1>3. dir = Direction(k, B) /\ dir \in Dirs
  BY DirectionType DEF First
<1>4. B \in Keys /\ Null \notin Keys
  BY <1>2, KeysAreNumbers
<1>5. Balance(heap, B) = heap.balance[B] /\ Link(heap, B, dir) = F
  BY <1>2, <1>3, <1>4, LinkGet DEF Balance
<1> HIDE DEF k, p, B, dir, F
<1>6. ASSUME heap.balance[B] = dir
      PROVE  /\ F # Null
             /\ First # Second => Link(heap, F, Second) # Null
  <2>1. HighSide(heap, L, lo, hi, k, p, dir, B, F)
    BY <1>1, <1>3, <1>6, LeansToKey DEF F
  <2>2. F \in L
    BY <2>1 DEF HighSide, Pair
  <2>3. ASSUME First # Second PROVE Link(heap, F, Second) # Null
    <3>1. Second = Direction(k, F)
      BY <1>5 DEF Second, k, B, dir
    <3>2. Second = 1 - dir /\ 1 - dir \in Dirs
      BY <2>3, <3>1, <1>3 DEF Direction, dir, Dirs
    <3>3. Direction(k, F) # dir
      BY <2>3, <3>1 DEF dir
    <3>4. Bent(heap, L, lo, hi, k, p, dir, B, F, Get(heap, <<F, 1 - dir>>))
      BY <1>1, <1>3, <1>6, <3>3, BendsAtKey DEF F
    <3>5. Get(heap, <<F, 1 - dir>>) \in L
      BY <3>4 DEF Bent
    <3> QED
      BY <3>2, <3>5, <1>2, <1>4, <2>2, LinkGet
  <2> QED
    BY <2>2, <2>3, <1>2, <1>4
<1> QED
  BY <1>2, <1>4, <1>5, <1>6 DEF B, dir

\* Without a view that differs, heights are seen as they are.
LEMMA SeenSame ==
  ASSUME NEW L, NEW ht \in Heights(L), NEW p
  PROVE  Seen(ht, p, 0) = ht
BY DEF Seen, Heights

LEMMA NoNullInDescent ==
  ASSUME TypeOK, NEW L, Own(L), pc = "find_target", Here # Null, Balance(heap, Here) = 1 - Side
  PROVE  Sibling # Null
<1>1. PICK lo, hi, ht : Fits(pc, heap, L, lo, hi, ht, reg)
  BY DEF Own
<1>2. /\ Shape(heap, L, lo, hi) /\ ht \in Heights(L) /\ Sound(heap, L, ht, ht)
      /\ reg.nodep \in TreeSlots(L)
  BY <1>1 DEF Fits, Stage, FindTargetInv, Around
<1>3. /\ heap \in Heaps /\ L \subseteq Keys
      /\ Side \in Dirs /\ 1 - Side \in Dirs /\ Null \notin Keys
  BY Running, HereType, OwnKeys, KeysAreNumbers
<1>4. Here \in L
  BY <1>2 DEF Shape, Placed, Here
<1> DEFINE e == 1 - Side
<1>5. Sound(heap, L, ht, Seen(ht, Here, 0)) /\ 0 \in Int
  BY <1>2, SeenSame
<1>6. Get(heap, <<Here, 1 - e>>) # Here
  <2>1. 1 - e = Side
    BY <1>3 DEF Dirs
  <2> QED
    BY <2>1, <1>2, <1>3, <1>4, NotOwnChild
<1>7. heap.balance[Here] = e /\ e \in Dirs /\ Sibling = Get(heap, <<Here, e>>)
  BY <1>3, <1>4, LinkGet DEF Balance, Sibling
<1> HIDE DEF e
<1>8. Get(heap, <<Here, e>>) \in L
  BY <1>2, <1>3, <1>4, <1>5, <1>6, <1>7, Leaning
<1> QED
  BY <1>3, <1>7, <1>8

LEMMA NoNullInLower ==
  ASSUME TypeOK, NEW L, Own(L), pc = "lower", Link(heap, Here, Side) # Null, Rotates
  PROVE  /\ Sibling # Null
         /\ Balance(heap, Sibling) = Side => Link(heap, Sibling, Side) # Null
<1>1. PICK lo, hi, ht : Fits(pc, heap, L, lo, hi, ht, reg)
  BY DEF Own
<1> DEFINE k == reg.key
           s == reg.nodep
           B == Here
           d == Side
           F == Get(heap, <<B, 1 - d>>)
           loss == Loss(heap, k, B)
<1>2. Lowering(heap, L, lo, hi, ht, k, s, B, d, loss)
  BY <1>1, OwnKeys, LowerBegins
<1>3. /\ heap \in Heaps /\ L \subseteq Keys /\ B \in L /\ B \in Keys
      /\ d \in Dirs /\ 1 - d \in Dirs /\ Null \notin Keys
  BY <1>2, HereType, KeysAreNumbers DEF Lowering
<1>4. heap.balance[B] = 1 - d
  BY <1>3 DEF Rotates, Balance
<1>5. Sibling = F
  BY <1>3, LinkGet DEF Sibling
<1> HIDE DEF k, s, B, d, F, loss
<1>6. Pair(heap, L, s, 1 - d, B, F)
  BY <1>2, <1>4, HasSibling DEF F
<1>7. F \in L /\ F \in Keys /\ F # Null
  BY <1>3, <1>6 DEF Pair
<1>8. ASSUME Balance(heap, F) = d PROVE Link(heap, F, d) # Null
  <2>1. heap.balance[F] = d
    BY <1>7, <1>8 DEF Balance
  <2>2. Pair(heap, L, <<B, 1 - d>>, d, F, Get(heap, <<F, d>>))
    BY <1>2, <1>6, <2>1, HasInner
  <2>3. Get(heap, <<F, d>>) \in L
    BY <2>2 DEF Pair
  <2> QED
    BY <2>3, <1>3, <1>7, LinkGet
<1> QED
  BY <1>5, <1>7, <1>8 DEF d

LEMMA NoNull ==
  ASSUME TypeOK, NEW L, Own(L)
  PROVE  NoNullDereference
<1>1. pc = "lower" => Here # Null
  BY DEF Own, Fits, Stage, LowerInv, Here
<1> QED
  BY <1>1, NoNullInRebalance, NoNullInDescent, NoNullInLower DEF NoNullDereference

\* No pointer that the rotations and the balance tests read through is null,
\* although the code asks the balance fields only.
THEOREM PointersSafe == Spec => []NoNullDereference
<1>1. ASSUME TypeOK, TreeInv PROVE NoNullDereference
  <2>0. PICK L : L = live
    OBVIOUS
  <2>1. TypeOK /\ Own(L)
    BY <1>1, <2>0 DEF TreeInv, Own
  <2> QED
    BY <2>1, NoNull
<1> QED
  BY <1>1, TreeKept, PTL

-----------------------------------------------------------------------------
(* Walk and Height are what their definitions say.                         *)

LEMMA LinksAre ==
  ASSUME heap \in Heaps, NEW n \in Keys
  PROVE  heap.links[n][0] \in Ptrs /\ heap.links[n][1] \in Ptrs
BY DEF Heaps, Dirs

\* A walk is a sequence of keys.
LEMMA JoinedWalks ==
  ASSUME NEW l \in Seq(Keys), NEW n \in Keys, NEW r \in Seq(Keys)
  PROVE  /\ l \o <<n>> \o r \in Seq(Keys)
         /\ Len(l \o <<n>> \o r) = Len(l) + 1 + Len(r)
         /\ \A i \in 1 .. Len(l) + 1 + Len(r) :
              (l \o <<n>> \o r)[i] = IF i <= Len(l) THEN l[i]
                                     ELSE IF i = Len(l) + 1 THEN n
                                     ELSE r[i - Len(l) - 1]
<1>1. <<n>> \in Seq(Keys) /\ Len(<<n>>) = 1 /\ <<n>>[1] = n
  OBVIOUS
<1>2. /\ l \o <<n>> \in Seq(Keys)
      /\ Len(l \o <<n>>) = Len(l) + 1
      /\ \A i \in 1 .. Len(l) + 1 : (l \o <<n>>)[i] = IF i <= Len(l) THEN l[i] ELSE <<n>>[i - Len(l)]
  BY <1>1, ConcatProperties
<1> DEFINE s == l \o <<n>>
<1> HIDE DEF s
<1>3. s \in Seq(Keys) /\ Len(s) = Len(l) + 1
  BY <1>2 DEF s
<1>4. /\ s \o r \in Seq(Keys)
      /\ Len(s \o r) = Len(s) + Len(r)
      /\ \A i \in 1 .. Len(s) + Len(r) : (s \o r)[i] = IF i <= Len(s) THEN s[i] ELSE r[i - Len(s)]
  BY <1>3, ConcatProperties
<1>5. Len(l) \in Nat /\ Len(r) \in Nat
  BY LenProperties
<1>6. ASSUME NEW i \in 1 .. Len(l) + 1 + Len(r)
      PROVE  (s \o r)[i] = IF i <= Len(l) THEN l[i] ELSE IF i = Len(l) + 1 THEN n ELSE r[i - Len(l) - 1]
  <2>0. i \in Int
    OBVIOUS
  <2>1. (s \o r)[i] = IF i <= Len(s) THEN s[i] ELSE r[i - Len(s)]
    BY <1>3, <1>4
  <2>2. CASE i <= Len(l) + 1
    <3>1. i \in 1 .. Len(l) + 1
      BY <2>2, <1>5
    <3>2. s[i] = IF i <= Len(l) THEN l[i] ELSE <<n>>[i - Len(l)]
      BY <3>1, <1>2 DEF s
    <3>3. CASE i = Len(l) + 1
      <4>1. i - Len(l) = 1 /\ ~ (i <= Len(l)) /\ i <= Len(s)
        BY <3>3, <1>3, <1>5
      <4> QED
        BY <4>1, <3>2, <3>3, <2>1, <1>1
    <3> QED
      BY <2>1, <2>2, <3>2, <3>3, <1>3, <1>5
  <2>3. CASE i > Len(l) + 1
    <3>1. i - Len(s) = i - Len(l) - 1 /\ ~ (i <= Len(s))
      BY <2>3, <1>3, <1>5
    <3> QED
      BY <2>1, <2>3, <3>1, <1>5
  <2> QED
    <3>1. i <= Len(l) + 1 \/ i > Len(l) + 1
      BY <2>0, <1>5
    <3> QED
      BY <2>2, <2>3, <3>1
<1> QED
  BY <1>3, <1>4, <1>6 DEF s

LEMMA WalkIs ==
  ASSUME heap \in Heaps
  PROVE  /\ Walk \in [Nat -> [Ptrs -> Seq(Keys)]]
         /\ \A h \in Nat, n \in Ptrs :
              Walk[h][n] = IF n = Null \/ h = 0 THEN <<>>
                           ELSE Walk[h - 1][heap.links[n][0]] \o <<n>> \o Walk[h - 1][heap.links[n][1]]
<1> DEFINE A == [Ptrs -> Seq(Keys)]
           a == [n \in Ptrs |-> <<>>]
           Body(x) == [n \in Ptrs |-> IF n = Null THEN <<>>
                                      ELSE x[heap.links[n][0]] \o <<n>> \o x[heap.links[n][1]]]
           G == [x \in A |-> Body(x)]
<1>1. a \in A
  BY EmptySeq
<1>2. ASSUME NEW x \in A PROVE Body(x) \in A
  <2> SUFFICES ASSUME NEW n \in Ptrs, n # Null
               PROVE  x[heap.links[n][0]] \o <<n>> \o x[heap.links[n][1]] \in Seq(Keys)
    BY EmptySeq
  <2>1. n \in Keys
    BY DEF Ptrs
  <2>2. x[heap.links[n][0]] \in Seq(Keys) /\ x[heap.links[n][1]] \in Seq(Keys)
    BY <2>1, LinksAre
  <2> QED
    BY <2>1, <2>2, JoinedWalks
<1>3. G \in [A -> A]
  BY <1>2
<1> HIDE DEF Body
<1>r. PICK w : Recurs(A, a, G, w)
  <2>1. Goes(A, a, G)
    BY <1>1, <1>3 DEF Goes
  <2> HIDE DEF A, a, G
  <2> QED
    BY <2>1, Recursion
<1>4. w \in [Nat -> A] /\ w[0] = a /\ \A h \in Nat : w[h + 1] = G[w[h]]
  <2> HIDE DEF A, a, G
  <2> QED
    BY <1>r DEF Recurs
<1> DEFINE R(v) == [h \in Nat |-> [n \in Ptrs |->
                      IF n = Null \/ h = 0 THEN <<>>
                      ELSE v[h - 1][heap.links[n][0]] \o <<n>> \o v[h - 1][heap.links[n][1]]]]
<1>5. ASSUME NEW h \in Nat
      PROVE  w[h] = [n \in Ptrs |-> IF n = Null \/ h = 0 THEN <<>>
                      ELSE w[h - 1][heap.links[n][0]] \o <<n>> \o w[h - 1][heap.links[n][1]]]
  <2>1. CASE h = 0
    BY <2>1, <1>4
  <2>2. CASE h # 0
    <3>1. h - 1 \in Nat /\ h = (h - 1) + 1
      BY <2>2
    <3>2. w[(h - 1) + 1] = Body(w[h - 1])
      BY <3>1, <1>4
    <3> QED
      BY <2>2, <3>1, <3>2 DEF Body
  <2> QED
    BY <2>1, <2>2
<1>6. w = R(w)
  BY <1>4, <1>5
<1>7. Walk = R(Walk)
  BY <1>6 DEF Walk
<1>8. \A h \in Nat, n \in Ptrs :
        Walk[h][n] = IF n = Null \/ h = 0 THEN <<>>
                     ELSE Walk[h - 1][heap.links[n][0]] \o <<n>> \o Walk[h - 1][heap.links[n][1]]
  <2> TAKE h \in Nat
  <2>1. Walk[h] = [n \in Ptrs |->
                     IF n = Null \/ h = 0 THEN <<>>
                     ELSE Walk[h - 1][heap.links[n][0]] \o <<n>> \o Walk[h - 1][heap.links[n][1]]]
    BY <1>7
  <2> QED
    BY <2>1
<1>9. Walk[0] = a /\ \A h \in Nat : Walk[h + 1] = Body(Walk[h])
  <2>1. Walk[0] = a
    BY <1>7
  <2>2. ASSUME NEW h \in Nat PROVE Walk[h + 1] = Body(Walk[h])
    <3>1. h + 1 \in Nat /\ h + 1 # 0 /\ (h + 1) - 1 = h
      OBVIOUS
    <3> QED
      BY <3>1, <1>7 DEF Body
  <2> QED
    BY <2>1, <2>2
<1> DEFINE S == {h \in Nat : Walk[h] \in A}
<1>10. \A h \in Nat : h \in S
  <2>1. 0 \in S
    BY <1>1, <1>9
  <2>2. ASSUME NEW h \in Nat, h \in S PROVE h + 1 \in S
    <3>1. Walk[h] \in A /\ Walk[h + 1] = Body(Walk[h])
      BY <2>2, <1>9
    <3>2. Body(Walk[h]) \in A
      BY <3>1, <1>2
    <3> QED
      BY <3>1, <3>2
  <2> HIDE DEF S
  <2> QED
    BY <2>1, <2>2, NoGap
<1>11. Walk \in [Nat -> A]
  BY <1>7, <1>10
<1> QED
  BY <1>8, <1>11

LEMMA HeightIs ==
  ASSUME heap \in Heaps
  PROVE  /\ Height \in [Nat -> [Ptrs -> Nat]]
         /\ \A h \in Nat, n \in Ptrs :
              Height[h][n] = IF n = Null \/ h = 0 THEN 0
                             ELSE 1 + Higher(Height[h - 1][heap.links[n][0]],
                                             Height[h - 1][heap.links[n][1]])
<1> DEFINE A == [Ptrs -> Nat]
           a == [n \in Ptrs |-> 0]
           Body(x) == [n \in Ptrs |-> IF n = Null THEN 0
                                      ELSE 1 + Higher(x[heap.links[n][0]], x[heap.links[n][1]])]
           G == [x \in A |-> Body(x)]
<1>1. a \in A
  OBVIOUS
<1>2. ASSUME NEW x \in A PROVE Body(x) \in A
  <2> SUFFICES ASSUME NEW n \in Ptrs, n # Null
               PROVE  1 + Higher(x[heap.links[n][0]], x[heap.links[n][1]]) \in Nat
    OBVIOUS
  <2>1. n \in Keys
    BY DEF Ptrs
  <2>2. x[heap.links[n][0]] \in Nat /\ x[heap.links[n][1]] \in Nat
    BY <2>1, LinksAre
  <2> QED
    BY <2>2 DEF Higher
<1>3. G \in [A -> A]
  BY <1>2
<1> HIDE DEF Body
<1>r. PICK w : Recurs(A, a, G, w)
  <2>1. Goes(A, a, G)
    BY <1>1, <1>3 DEF Goes
  <2> HIDE DEF A, a, G
  <2> QED
    BY <2>1, Recursion
<1>4. w \in [Nat -> A] /\ w[0] = a /\ \A h \in Nat : w[h + 1] = G[w[h]]
  <2> HIDE DEF A, a, G
  <2> QED
    BY <1>r DEF Recurs
<1> DEFINE R(v) == [h \in Nat |-> [n \in Ptrs |->
                      IF n = Null \/ h = 0 THEN 0
                      ELSE 1 + Higher(v[h - 1][heap.links[n][0]], v[h - 1][heap.links[n][1]])]]
<1>5. ASSUME NEW h \in Nat
      PROVE  w[h] = [n \in Ptrs |-> IF n = Null \/ h = 0 THEN 0
                      ELSE 1 + Higher(w[h - 1][heap.links[n][0]], w[h - 1][heap.links[n][1]])]
  <2>1. CASE h = 0
    BY <2>1, <1>4
  <2>2. CASE h # 0
    <3>1. h - 1 \in Nat /\ h = (h - 1) + 1
      BY <2>2
    <3>2. w[(h - 1) + 1] = Body(w[h - 1])
      BY <3>1, <1>4
    <3> QED
      BY <2>2, <3>1, <3>2 DEF Body
  <2> QED
    BY <2>1, <2>2
<1>6. w = R(w)
  BY <1>4, <1>5
<1>7. Height = R(Height)
  BY <1>6 DEF Height, Higher
<1>8. \A h \in Nat, n \in Ptrs :
        Height[h][n] = IF n = Null \/ h = 0 THEN 0
                       ELSE 1 + Higher(Height[h - 1][heap.links[n][0]],
                                       Height[h - 1][heap.links[n][1]])
  <2> TAKE h \in Nat
  <2>1. Height[h] = [n \in Ptrs |->
                       IF n = Null \/ h = 0 THEN 0
                       ELSE 1 + Higher(Height[h - 1][heap.links[n][0]],
                                       Height[h - 1][heap.links[n][1]])]
    BY <1>7
  <2> QED
    BY <2>1
<1>9. Height[0] = a /\ \A h \in Nat : Height[h + 1] = Body(Height[h])
  <2>1. Height[0] = a
    BY <1>7
  <2>2. ASSUME NEW h \in Nat PROVE Height[h + 1] = Body(Height[h])
    <3>1. h + 1 \in Nat /\ h + 1 # 0 /\ (h + 1) - 1 = h
      OBVIOUS
    <3> QED
      BY <3>1, <1>7 DEF Body
  <2> QED
    BY <2>1, <2>2
<1> DEFINE S == {h \in Nat : Height[h] \in A}
<1>10. \A h \in Nat : h \in S
  <2>1. 0 \in S
    BY <1>1, <1>9
  <2>2. ASSUME NEW h \in Nat, h \in S PROVE h + 1 \in S
    <3>1. Height[h] \in A /\ Height[h + 1] = Body(Height[h])
      BY <2>2, <1>9
    <3>2. Body(Height[h]) \in A
      BY <3>1, <1>2
    <3> QED
      BY <3>1, <3>2
  <2> HIDE DEF S
  <2> QED
    BY <2>1, <2>2, NoGap
<1>11. Height \in [Nat -> A]
  BY <1>7, <1>10
<1> QED
  BY <1>8, <1>11

-----------------------------------------------------------------------------
(* Walks are in order.                                                     *)

Rising(w) == \A i, j \in 1 .. Len(w) : i < j => w[i] < w[j]

\* What is met below the slot s are nodes in its interval, in order.
Orderly(L, lo, hi, s, w) ==
  /\ w \in Seq(Keys)
  /\ Rising(w)
  /\ \A i \in 1 .. Len(w) : w[i] \in L /\ Inside(lo, hi, s, w[i])

LEMMA JoinedRising ==
  ASSUME NEW l \in Seq(Keys), NEW n \in Keys, NEW r \in Seq(Keys), Rising(l), Rising(r),
         \A i \in 1 .. Len(l) : l[i] < n, \A i \in 1 .. Len(r) : n < r[i]
  PROVE  Rising(l \o <<n>> \o r)
<1> DEFINE w == l \o <<n>> \o r
           a == Len(l)
           b == Len(r)
<1>1. /\ Len(w) = a + 1 + b
      /\ \A i \in 1 .. a + 1 + b :
           w[i] = IF i <= a THEN l[i] ELSE IF i = a + 1 THEN n ELSE r[i - a - 1]
  BY JoinedWalks
<1>2. /\ a \in Nat /\ b \in Nat
      /\ \A i \in 1 .. a : l[i] \in Keys
      /\ \A i \in 1 .. b : r[i] \in Keys
  BY LenProperties, ElementOfSeq
<1>3. /\ \A i, j \in 1 .. a : i < j => l[i] < l[j]
      /\ \A i, j \in 1 .. b : i < j => r[i] < r[j]
      /\ \A i \in 1 .. a : l[i] < n
      /\ \A i \in 1 .. b : n < r[i]
  BY DEF Rising
<1>4. Keys \subseteq Int
  BY KeysAreNumbers
<1> HIDE DEF w, a, b
<1> SUFFICES ASSUME NEW i \in 1 .. a + 1 + b, NEW j \in 1 .. a + 1 + b, i < j
             PROVE  w[i] < w[j]
  BY <1>1 DEF Rising, w
<1>5. CASE j <= a
  <2>1. i \in 1 .. a /\ j \in 1 .. a
    BY <1>2, <1>5
  <2>2. w[i] = l[i] /\ w[j] = l[j]
    BY <2>1, <1>1
  <2> QED
    BY <2>1, <2>2, <1>3
<1>6. CASE j = a + 1
  <2>1. i \in 1 .. a /\ ~ (j <= a)
    BY <1>2, <1>6
  <2>2. w[i] = l[i] /\ w[j] = n
    BY <2>1, <1>1, <1>6
  <2> QED
    BY <2>1, <2>2, <1>3
<1>7. CASE j > a + 1
  <2>1. j - a - 1 \in 1 .. b /\ ~ (j <= a) /\ j # a + 1
    BY <1>2, <1>7
  <2>2. w[j] = r[j - a - 1]
    BY <2>1, <1>1
  <2>3. CASE i <= a
    <3>1. i \in 1 .. a
      BY <2>3, <1>2
    <3>2. w[i] = l[i] /\ l[i] < n /\ n < r[j - a - 1]
      BY <3>1, <2>1, <1>1, <1>3
    <3>3. l[i] \in Int /\ n \in Int /\ r[j - a - 1] \in Int
      BY <3>1, <2>1, <1>2, <1>4
    <3> QED
      BY <3>2, <3>3, <2>2
  <2>4. CASE i = a + 1
    <3>1. ~ (i <= a)
      BY <2>4, <1>2
    <3>2. w[i] = n
      BY <3>1, <2>4, <1>1
    <3> QED
      BY <3>2, <2>1, <2>2, <1>3
  <2>5. CASE i > a + 1
    <3>1. /\ i - a - 1 \in 1 .. b /\ ~ (i <= a) /\ i # a + 1
          /\ i - a - 1 < j - a - 1
      BY <2>5, <1>2, <1>7
    <3>2. w[i] = r[i - a - 1]
      BY <3>1, <1>1
    <3>3. r[i - a - 1] < r[j - a - 1]
      BY <3>1, <2>1, <1>3
    <3> QED
      BY <3>2, <3>3, <2>2
  <2> QED
    BY <2>3, <2>4, <2>5, <1>2
<1> QED
  BY <1>5, <1>6, <1>7, <1>2

\* Where the walks of the two sides of a node are.
LEMMA SidesInside ==
  ASSUME NEW L, L \subseteq Keys, NEW lo, NEW hi, NEW s, NEW n, Sides(L, lo, hi, s, n), NEW x \in L
  PROVE  /\ Inside(lo, hi, <<n, 0>>, x) => x < n /\ Inside(lo, hi, s, x)
         /\ Inside(lo, hi, <<n, 1>>, x) => n < x /\ Inside(lo, hi, s, x)
         /\ Inside(lo, hi, s, x) => x = n \/ Inside(lo, hi, <<n, 0>>, x) \/ Inside(lo, hi, <<n, 1>>, x)
         /\ Inside(lo, hi, s, n)
         /\ ~ Inside(lo, hi, <<n, 0>>, n) /\ ~ Inside(lo, hi, <<n, 1>>, n)
<1>1. x \in Int
  BY KeysAreNumbers
<1> QED
  BY <1>1 DEF Sides, Inside

LEMMA WalksInOrder ==
  ASSUME heap \in Heaps, NEW L, L \subseteq Keys, NEW g, g.links = heap.links, NEW lo, NEW hi, Shape(g, L, lo, hi)
  PROVE  \A h \in Nat : \A s \in TreeSlots(L) : Orderly(L, lo, hi, s, Walk[h][Get(g, s)])
<1> DEFINE S == {h \in Nat : \A s \in TreeSlots(L) : Orderly(L, lo, hi, s, Walk[h][Get(g, s)])}
<1>1. \A s : Orderly(L, lo, hi, s, <<>>)
  <2>1. <<>> \in Seq(Keys) /\ Len(<<>>) = 0
    BY EmptySeq
  <2> QED
    BY <2>1 DEF Orderly, Rising
<1>2. \A s \in TreeSlots(L) : Get(g, s) \in L \cup {Null}
  BY DEF Shape, Placed
<1>3. L \cup {Null} \subseteq Ptrs /\ Null \in Ptrs
  BY DEF Ptrs
<1>4. 0 \in S
  <2>1. \A n \in Ptrs : Walk[0][n] = <<>>
    BY WalkIs
  <2> QED
    BY <2>1, <1>1, <1>2, <1>3
<1>5. ASSUME NEW h \in Nat, h \in S PROVE h + 1 \in S
  <2>0. h + 1 \in Nat /\ h + 1 # 0 /\ (h + 1) - 1 = h
    OBVIOUS
  <2> SUFFICES ASSUME NEW s \in TreeSlots(L)
               PROVE  Orderly(L, lo, hi, s, Walk[h + 1][Get(g, s)])
    BY <2>0
  <2> DEFINE n == Get(g, s)
             l == Walk[h][Get(g, <<n, 0>>)]
             r == Walk[h][Get(g, <<n, 1>>)]
             w == l \o <<n>> \o r
  <2>1. CASE n = Null
    <3>1. Walk[h + 1][n] = <<>>
      BY <2>0, <2>1, <1>3, WalkIs
    <3> QED
      BY <3>1, <1>1
  <2>2. CASE n # Null
    <3>1. n \in L /\ n \in Keys /\ n \in Ptrs
      BY <2>2, <1>2, <1>3
    <3>2. heap.links[n][0] = Get(g, <<n, 0>>) /\ heap.links[n][1] = Get(g, <<n, 1>>)
      BY <2>2 DEF Get
    <3>3. Walk[h + 1][n] = w
      <4>1. Walk[h + 1][n] = Walk[(h + 1) - 1][heap.links[n][0]] \o <<n>> \o Walk[(h + 1) - 1][heap.links[n][1]]
        BY <2>0, <2>2, <3>1, WalkIs
      <4> QED
        BY <4>1, <2>0, <3>2
    <3> HIDE DEF n
    <3>4. Sides(L, lo, hi, s, n)
      BY <3>1, SidesOf DEF n
    <3>5. <<n, 0>> \in TreeSlots(L) /\ <<n, 1>> \in TreeSlots(L)
      BY <3>1, SlotsOf DEF Dirs
    <3>6. Orderly(L, lo, hi, <<n, 0>>, l) /\ Orderly(L, lo, hi, <<n, 1>>, r)
      BY <3>5, <1>5
    <3> HIDE DEF l, r
    <3>7. \A x \in L :
            /\ Inside(lo, hi, <<n, 0>>, x) => x < n /\ Inside(lo, hi, s, x)
            /\ Inside(lo, hi, <<n, 1>>, x) => n < x /\ Inside(lo, hi, s, x)
      BY <3>4, SidesInside
    <3>8. Inside(lo, hi, s, n)
      BY <3>1, <3>4, SidesInside
    <3>9. /\ l \in Seq(Keys) /\ r \in Seq(Keys) /\ Rising(l) /\ Rising(r)
          /\ \A i \in 1 .. Len(l) : l[i] \in L /\ Inside(lo, hi, s, l[i]) /\ l[i] < n
          /\ \A i \in 1 .. Len(r) : r[i] \in L /\ Inside(lo, hi, s, r[i]) /\ n < r[i]
      BY <3>6, <3>7 DEF Orderly
    <3>10. Rising(w)
      BY <3>1, <3>9, JoinedRising
    <3>11. /\ w \in Seq(Keys)
           /\ Len(w) = Len(l) + 1 + Len(r)
           /\ \A i \in 1 .. Len(l) + 1 + Len(r) :
                w[i] = IF i <= Len(l) THEN l[i] ELSE IF i = Len(l) + 1 THEN n ELSE r[i - Len(l) - 1]
      BY <3>1, <3>9, JoinedWalks
    <3> HIDE DEF w
    <3>12. ASSUME NEW i \in 1 .. Len(w) PROVE w[i] \in L /\ Inside(lo, hi, s, w[i])
      <4>1. Len(l) \in Nat /\ Len(r) \in Nat /\ i \in Int /\ i >= 1 /\ i <= Len(l) + 1 + Len(r)
        BY <3>9, <3>11, LenProperties
      <4>2. w[i] = IF i <= Len(l) THEN l[i] ELSE IF i = Len(l) + 1 THEN n ELSE r[i - Len(l) - 1]
        BY <3>11
      <4>3. i <= Len(l) => i \in 1 .. Len(l)
        BY <4>1
      <4>4. ~ (i <= Len(l)) /\ i # Len(l) + 1 => i - Len(l) - 1 \in 1 .. Len(r)
        BY <4>1
      <4> QED
        BY <4>2, <4>3, <4>4, <3>1, <3>8, <3>9
    <3>13. Orderly(L, lo, hi, s, w)
      BY <3>10, <3>11, <3>12 DEF Orderly
    <3> QED
      BY <3>3, <3>13 DEF n
  <2> QED
    BY <2>1, <2>2
<1>6. \A h \in Nat : h \in S
  <2> HIDE DEF S
  <2> QED
    BY <1>4, <1>5, NoGap
<1> QED
  BY <1>6

\* At any time the links under the root are a search tree.
THEOREM InSearchOrder == Spec => []SearchOrder
<1>1. ASSUME TypeOK, TreeInv PROVE SearchOrder
  <2>1. PICK lo, hi, ht : Fits(pc, heap, live, lo, hi, ht, reg)
    BY <1>1 DEF TreeInv, Own
  <2>2. heap \in Heaps /\ live \subseteq Keys /\ Shape(heap, live, lo, hi)
    BY <1>1, <2>1, Running DEF Fits
  <2>3. MaxHeight \in Nat
    BY ConstantsAssumption, FS_CardinalityType DEF MaxHeight
  <2>4. RootSlot \in TreeSlots(live) /\ InOrder = Walk[MaxHeight][Get(heap, RootSlot)]
    BY DEF TreeSlots, InOrder, Get, RootSlot
  <2>5. Orderly(live, lo, hi, RootSlot, InOrder)
    BY <2>2, <2>3, <2>4, WalksInOrder
  <2>6. Len(InOrder) \in Nat /\ Rising(InOrder)
    BY <2>5, LenProperties DEF Orderly
  <2> SUFFICES ASSUME NEW i \in 1 .. Len(InOrder) - 1 PROVE InOrder[i] < InOrder[i + 1]
    BY DEF SearchOrder
  <2>7. i \in 1 .. Len(InOrder) /\ i + 1 \in 1 .. Len(InOrder) /\ i < i + 1
    BY <2>6
  <2> QED
    BY <2>6, <2>7 DEF Rising
<1> QED
  BY <1>1, TreeKept, PTL

-----------------------------------------------------------------------------
(* A walk, or a measuring, that is deep enough misses no node.             *)

\* The nodes below a slot.
Under(L, lo, hi, s) == {x \in L : Inside(lo, hi, s, x)}

\* No path below the slot is longer than h.
Room(L, lo, hi, s, h) == Cardinality(Under(L, lo, hi, s)) <= h

LEMMA UnderFinite ==
  ASSUME NEW L, L \subseteq Keys, NEW lo, NEW hi, NEW s
  PROVE  IsFiniteSet(Under(L, lo, hi, s)) /\ Cardinality(Under(L, lo, hi, s)) \in Nat
<1>1. Under(L, lo, hi, s) \subseteq Keys
  BY DEF Under
<1>2. IsFiniteSet(Under(L, lo, hi, s))
  BY <1>1, ConstantsAssumption, FS_Subset
<1> QED
  BY <1>2, FS_CardinalityType

LEMMA RoomBelow ==
  ASSUME NEW L, L \subseteq Keys, NEW lo, NEW hi, NEW s, NEW n \in L, Sides(L, lo, hi, s, n),
         NEW h \in Nat, Room(L, lo, hi, s, h + 1)
  PROVE  Room(L, lo, hi, <<n, 0>>, h) /\ Room(L, lo, hi, <<n, 1>>, h)
<1> DEFINE U(t) == Under(L, lo, hi, t)
<1>1. \A t : IsFiniteSet(U(t)) /\ Cardinality(U(t)) \in Nat
  BY UnderFinite
<1>2. ASSUME NEW d \in Dirs PROVE U(<<n, d>>) \subseteq U(s) \ {n}
  <2>1. d = 0 \/ d = 1
    BY DEF Dirs
  <2>2. ASSUME NEW x \in L, Inside(lo, hi, <<n, d>>, x) PROVE Inside(lo, hi, s, x) /\ x # n
    <3>1. /\ Inside(lo, hi, <<n, 0>>, x) => Inside(lo, hi, s, x)
          /\ Inside(lo, hi, <<n, 1>>, x) => Inside(lo, hi, s, x)
          /\ ~ Inside(lo, hi, <<n, 0>>, n) /\ ~ Inside(lo, hi, <<n, 1>>, n)
      BY SidesInside
    <3> QED
      BY <2>1, <2>2, <3>1
  <2> QED
    BY <2>2 DEF Under
<1>3. n \in U(s)
  BY SidesInside DEF Under
<1> HIDE DEF U
<1>4. IsFiniteSet(U(s) \ {n}) /\ Cardinality(U(s) \ {n}) = Cardinality(U(s)) - 1
  BY <1>1, <1>3, FS_RemoveElement
<1>5. ASSUME NEW d \in Dirs PROVE Cardinality(U(<<n, d>>)) <= h
  <2>1. Cardinality(U(<<n, d>>)) <= Cardinality(U(s) \ {n})
    BY <1>2, <1>4, FS_Subset
  <2>2. Cardinality(U(s)) <= h + 1
    BY DEF Room, U
  <2> QED
    BY <2>1, <2>2, <1>1, <1>4
<1>6. 0 \in Dirs /\ 1 \in Dirs
  BY DEF Dirs
<1> QED
  BY <1>5, <1>6 DEF Room, U

LEMMA NoRoom ==
  ASSUME NEW L, L \subseteq Keys, NEW g, NEW lo, NEW hi, Shape(g, L, lo, hi),
         NEW s \in TreeSlots(L), Room(L, lo, hi, s, 0)
  PROVE  Under(L, lo, hi, s) = {} /\ Get(g, s) = Null
<1>1. Under(L, lo, hi, s) = {}
  <2>1. Cardinality(Under(L, lo, hi, s)) = 0
    BY UnderFinite DEF Room
  <2> QED
    BY <2>1, UnderFinite, FS_EmptySet
<1>2. ASSUME Get(g, s) # Null PROVE FALSE
  <2>1. Get(g, s) \in L
    BY <1>2 DEF Shape, Placed
  <2>2. Sides(L, lo, hi, s, Get(g, s))
    BY <2>1, SidesOf
  <2>3. Inside(lo, hi, s, Get(g, s))
    BY <2>1, <2>2, SidesInside
  <2> QED
    BY <1>1, <2>1, <2>3 DEF Under
<1> QED
  BY <1>1, <1>2

\* The node in a slot, and the two sides of it.
LEMMA AllUnder ==
  ASSUME NEW h, NEW L, L \subseteq Keys, NEW lo, NEW hi, Shape(h, L, lo, hi),
         NEW s \in TreeSlots(L)
  PROVE  /\ Get(h, s) = Null => Under(L, lo, hi, s) = {}
         /\ Get(h, s) # Null =>
              \A x \in Under(L, lo, hi, s) :
                \/ x = Get(h, s)
                \/ x \in Under(L, lo, hi, <<Get(h, s), 0>>)
                \/ x \in Under(L, lo, hi, <<Get(h, s), 1>>)
<1>1. Get(h, s) = Null => Under(L, lo, hi, s) = {}
  BY DEF Shape, Placed, Under
<1>2. ASSUME Get(h, s) # Null, NEW x \in Under(L, lo, hi, s)
      PROVE  \/ x = Get(h, s)
             \/ x \in Under(L, lo, hi, <<Get(h, s), 0>>)
             \/ x \in Under(L, lo, hi, <<Get(h, s), 1>>)
  <2>1. Get(h, s) \in L
    BY <1>2 DEF Shape, Placed
  <2>2. Sides(L, lo, hi, s, Get(h, s))
    BY <2>1, SidesOf
  <2> QED
    BY <1>2, <2>1, <2>2, SidesInside DEF Under
<1> QED
  BY <1>1, <1>2

Meets(w, x) == \E i \in 1 .. Len(w) : w[i] = x

LEMMA JoinedMeets ==
  ASSUME NEW l \in Seq(Keys), NEW n \in Keys, NEW r \in Seq(Keys), NEW x,
         x = n \/ Meets(l, x) \/ Meets(r, x)
  PROVE  Meets(l \o <<n>> \o r, x)
<1> DEFINE w == l \o <<n>> \o r
           a == Len(l)
           b == Len(r)
<1>1. /\ Len(w) = a + 1 + b
      /\ \A i \in 1 .. a + 1 + b :
           w[i] = IF i <= a THEN l[i] ELSE IF i = a + 1 THEN n ELSE r[i - a - 1]
  BY JoinedWalks
<1>2. a \in Nat /\ b \in Nat
  BY LenProperties
<1> HIDE DEF w, a, b
<1> SUFFICES \E i \in 1 .. a + 1 + b : w[i] = x
  BY <1>1 DEF Meets, w
<1>3. CASE x = n
  <2>1. a + 1 \in 1 .. a + 1 + b /\ ~ (a + 1 <= a)
    BY <1>2
  <2>2. w[a + 1] = n
    BY <2>1, <1>1
  <2> QED
    BY <2>1, <2>2, <1>3
<1>4. CASE Meets(l, x)
  <2>1. PICK i \in 1 .. a : l[i] = x
    BY <1>4 DEF Meets, a
  <2>2. i \in 1 .. a + 1 + b /\ i <= a
    BY <1>2
  <2>3. w[i] = l[i]
    BY <2>2, <1>1
  <2> QED
    BY <2>1, <2>2, <2>3
<1>5. CASE Meets(r, x)
  <2>1. PICK j \in 1 .. b : r[j] = x
    BY <1>5 DEF Meets, b
  <2> DEFINE i == a + 1 + j
  <2>2. i \in 1 .. a + 1 + b /\ ~ (i <= a) /\ i # a + 1 /\ i - a - 1 = j
    BY <1>2
  <2> HIDE DEF i
  <2>3. w[i] = r[j]
    BY <2>2, <1>1
  <2> QED
    BY <2>1, <2>2, <2>3
<1> QED
  BY <1>3, <1>4, <1>5

LEMMA WalksMeetAll ==
  ASSUME heap \in Heaps, NEW L, L \subseteq Keys, NEW g, g.links = heap.links, NEW lo, NEW hi, Shape(g, L, lo, hi)
  PROVE  \A h \in Nat : \A s \in TreeSlots(L) :
           Room(L, lo, hi, s, h) =>
             \A x \in Under(L, lo, hi, s) : Meets(Walk[h][Get(g, s)], x)
<1> DEFINE S == {h \in Nat : \A s \in TreeSlots(L) :
                   Room(L, lo, hi, s, h) =>
                     \A x \in Under(L, lo, hi, s) : Meets(Walk[h][Get(g, s)], x)}
<1>1. 0 \in S
  BY NoRoom
<1>2. ASSUME NEW h \in Nat, h \in S PROVE h + 1 \in S
  <2>0. h + 1 \in Nat /\ h + 1 # 0 /\ (h + 1) - 1 = h
    OBVIOUS
  <2> SUFFICES ASSUME NEW s \in TreeSlots(L), Room(L, lo, hi, s, h + 1),
                      NEW x \in Under(L, lo, hi, s)
               PROVE  Meets(Walk[h + 1][Get(g, s)], x)
    BY <2>0
  <2> DEFINE n == Get(g, s)
             l == Walk[h][Get(g, <<n, 0>>)]
             r == Walk[h][Get(g, <<n, 1>>)]
  <2>1. n # Null
    BY AllUnder
  <2>2. n \in L /\ n \in Keys /\ n \in Ptrs
    BY <2>1 DEF Shape, Placed, Ptrs
  <2>3. heap.links[n][0] = Get(g, <<n, 0>>) /\ heap.links[n][1] = Get(g, <<n, 1>>)
    BY <2>1 DEF Get
  <2>4. Walk[h + 1][n] = l \o <<n>> \o r
    <3>1. Walk[h + 1][n] = Walk[(h + 1) - 1][heap.links[n][0]] \o <<n>> \o Walk[(h + 1) - 1][heap.links[n][1]]
      BY <2>0, <2>1, <2>2, WalkIs
    <3> QED
      BY <3>1, <2>0, <2>3
  <2>5. /\ x = n \/ x \in Under(L, lo, hi, <<n, 0>>) \/ x \in Under(L, lo, hi, <<n, 1>>)
    BY <2>1, AllUnder
  <2> HIDE DEF n
  <2>6. Sides(L, lo, hi, s, n)
    BY <2>2, SidesOf DEF n
  <2>7. Room(L, lo, hi, <<n, 0>>, h) /\ Room(L, lo, hi, <<n, 1>>, h)
    BY <2>2, <2>6, RoomBelow
  <2>8. <<n, 0>> \in TreeSlots(L) /\ <<n, 1>> \in TreeSlots(L)
    BY <2>2, SlotsOf DEF Dirs
  <2>9. /\ x \in Under(L, lo, hi, <<n, 0>>) => Meets(l, x)
        /\ x \in Under(L, lo, hi, <<n, 1>>) => Meets(r, x)
    BY <2>7, <2>8, <1>2
  <2>10. Orderly(L, lo, hi, <<n, 0>>, l) /\ Orderly(L, lo, hi, <<n, 1>>, r)
    BY <2>8, WalksInOrder
  <2>11. l \in Seq(Keys) /\ r \in Seq(Keys)
    BY <2>10 DEF Orderly
  <2> HIDE DEF l, r
  <2>12. x = n \/ Meets(l, x) \/ Meets(r, x)
    BY <2>5, <2>9
  <2>13. Meets(l \o <<n>> \o r, x)
    BY <2>2, <2>11, <2>12, JoinedMeets
  <2> QED
    BY <2>4, <2>13 DEF n
<1>3. \A h \in Nat : h \in S
  <2> HIDE DEF S
  <2> QED
    BY <1>1, <1>2, NoGap
<1> QED
  BY <1>3

LEMMA HeightsAre ==
  ASSUME heap \in Heaps, NEW L, L \subseteq Keys, NEW g, g.links = heap.links, NEW lo, NEW hi, Shape(g, L, lo, hi),
         NEW ht \in Heights(L), Sound(g, L, ht, ht)
  PROVE  \A h \in Nat : \A s \in TreeSlots(L) :
           Room(L, lo, hi, s, h) => Height[h][Get(g, s)] = Tall(ht, Get(g, s))
<1> DEFINE S == {h \in Nat : \A s \in TreeSlots(L) :
                   Room(L, lo, hi, s, h) => Height[h][Get(g, s)] = Tall(ht, Get(g, s))}
<1>1. 0 \in S
  <2>1. Height[0][Null] = 0 /\ Tall(ht, Null) = 0
    BY HeightIs DEF Tall, Ptrs
  <2> QED
    BY <2>1, NoRoom
<1>2. ASSUME NEW h \in Nat, h \in S PROVE h + 1 \in S
  <2>0. h + 1 \in Nat /\ h + 1 # 0 /\ (h + 1) - 1 = h
    OBVIOUS
  <2> SUFFICES ASSUME NEW s \in TreeSlots(L), Room(L, lo, hi, s, h + 1)
               PROVE  Height[h + 1][Get(g, s)] = Tall(ht, Get(g, s))
    BY <2>0
  <2> DEFINE n == Get(g, s)
             l == Get(g, <<n, 0>>)
             r == Get(g, <<n, 1>>)
  <2>1. CASE n = Null
    <3>1. Height[h + 1][n] = 0
      BY <2>0, <2>1, HeightIs DEF Ptrs
    <3> QED
      BY <2>1, <3>1 DEF Tall
  <2>2. CASE n # Null
    <3>1. n \in L /\ n \in Keys /\ n \in Ptrs
      BY <2>2 DEF Shape, Placed, Ptrs
    <3>2. heap.links[n][0] = l /\ heap.links[n][1] = r
      BY <2>2 DEF Get
    <3>3. Height[h + 1][n] = 1 + Higher(Height[h][l], Height[h][r])
      <4>1. Height[h + 1][n] = 1 + Higher(Height[(h + 1) - 1][heap.links[n][0]],
                                         Height[(h + 1) - 1][heap.links[n][1]])
        BY <2>0, <2>2, <3>1, HeightIs
      <4> QED
        BY <4>1, <2>0, <3>2
    <3> HIDE DEF n
    <3>4. Sides(L, lo, hi, s, n)
      BY <3>1, SidesOf DEF n
    <3>5. Room(L, lo, hi, <<n, 0>>, h) /\ Room(L, lo, hi, <<n, 1>>, h)
      BY <3>1, <3>4, RoomBelow
    <3>6. <<n, 0>> \in TreeSlots(L) /\ <<n, 1>> \in TreeSlots(L)
      BY <3>1, SlotsOf DEF Dirs
    <3>7. Height[h][l] = Tall(ht, l) /\ Height[h][r] = Tall(ht, r)
      BY <3>5, <3>6, <1>2
    <3>8. Level(g, n, 0, ht, ht)
      BY <3>1 DEF Sound
    <3>9. ht[n] = 1 + Higher(Tall(ht, l), Tall(ht, r))
      BY <3>8 DEF Level, Weighs
    <3>10. Height[h + 1][n] = ht[n]
      BY <3>3, <3>7, <3>9
    <3> QED
      BY <2>2, <3>10 DEF Tall, n
  <2> QED
    BY <2>1, <2>2
<1>3. \A h \in Nat : h \in S
  <2> HIDE DEF S
  <2> QED
    BY <1>1, <1>2, NoGap
<1> QED
  BY <1>3

LEMMA RoomForAll ==
  ASSUME NEW L, L \subseteq Keys, NEW lo, NEW hi, NEW s
  PROVE  Room(L, lo, hi, s, MaxHeight) /\ MaxHeight \in Nat
<1>1. Under(L, lo, hi, s) \subseteq Keys
  BY DEF Under
<1>2. Cardinality(Under(L, lo, hi, s)) <= Cardinality(Keys)
  BY <1>1, ConstantsAssumption, FS_Subset
<1> QED
  BY <1>2, ConstantsAssumption, FS_CardinalityType DEF Room, MaxHeight

\* A walk of all of a tree meets its nodes, each once.
LEMMA WalkReaches ==
  ASSUME heap \in Heaps, NEW L, L \subseteq Keys, NEW g, g.links = heap.links,
         NEW lo, NEW hi, Shape(g, L, lo, hi)
  PROVE  /\ Orderly(L, lo, hi, RootSlot, Walk[MaxHeight][g.root])
         /\ LET w == Walk[MaxHeight][g.root] IN {w[i] : i \in DOMAIN w} = L
<1> DEFINE w == Walk[MaxHeight][g.root]
<1>3. MaxHeight \in Nat /\ Room(L, lo, hi, RootSlot, MaxHeight)
  BY RoomForAll
<1>4. RootSlot \in TreeSlots(L) /\ w = Walk[MaxHeight][Get(g, RootSlot)]
  BY DEF TreeSlots, Get, RootSlot
<1>5. Orderly(L, lo, hi, RootSlot, w)
  BY <1>3, <1>4, WalksInOrder
<1>9. ASSUME NEW x \in L PROVE Meets(w, x)
  <2>1. x \in Under(L, lo, hi, RootSlot)
    BY Sentinels, SlotEnds DEF Under, Inside
  <2> QED
    BY <1>3, <1>4, <2>1, WalksMeetAll
<1> HIDE DEF w
<1>6. DOMAIN w = 1 .. Len(w)
  BY <1>5, LenProperties DEF Orderly
<1>7. {w[i] : i \in DOMAIN w} \subseteq L
  BY <1>5, <1>6 DEF Orderly
<1>8. L \subseteq {w[i] : i \in DOMAIN w}
  BY <1>6, <1>9 DEF Meets
<1> QED
  BY <1>5, <1>7, <1>8 DEF w

LEMMA ReachIs ==
  ASSUME heap \in Heaps, NEW L, L \subseteq Keys, NEW lo, NEW hi, Shape(heap, L, lo, hi)
  PROVE  Reach = L
BY WalkReaches DEF Reach, InOrder

LEMMA ReachIsLive ==
  ASSUME TypeOK, TreeInv
  PROVE  Reach = live
<1>1. PICK L : L = live
  OBVIOUS
<1>2. PICK lo, hi, ht : Fits(pc, heap, L, lo, hi, ht, reg)
  BY <1>1 DEF TreeInv, Own
<1>3. heap \in Heaps /\ L \subseteq Keys /\ Shape(heap, L, lo, hi)
  BY <1>1, <1>2, Running DEF Fits
<1> QED
  BY <1>1, <1>3, ReachIs

\* At any time the nodes that the root leads to are those allocated and not yet
\* given back.
THEOREM NothingLeaks == Spec => []NoLeak
<1>1. TypeOK /\ TreeInv => NoLeak
  BY ReachIsLive DEF NoLeak
<1> QED
  BY <1>1, TreeKept, PTL

\* Between calls no node has sides that differ by more than one in height, and
\* each balance field is right: rotations and updates on the path are enough.
THEOREM BetweenCallsBalanced == Spec => []Balanced
<1>1. ASSUME TypeOK, TreeInv PROVE Balanced
  <2>1. PICK lo, hi, ht : Fits(pc, heap, live, lo, hi, ht, reg)
    BY <1>1 DEF TreeInv, Own
  <2>2. heap \in Heaps /\ live \subseteq Keys /\ Shape(heap, live, lo, hi) /\ ht \in Heights(live)
    BY <1>1, <2>1, Running DEF Fits
  <2> SUFFICES ASSUME pc = "idle", NEW n \in live
               PROVE  LET l == Height[MaxHeight][heap.links[n][0]]
                          r == Height[MaxHeight][heap.links[n][1]]
                      IN  /\ l - r \in {-1, 0, 1}
                          /\ heap.balance[n] = CASE l = r -> -1 [] l > r -> 0 [] l < r -> 1
    BY DEF Balanced
  <2>3. Sound(heap, live, ht, ht)
    BY <2>1 DEF Fits, Stage
  <2> DEFINE a == Get(heap, <<n, 0>>)
             b == Get(heap, <<n, 1>>)
  <2>4. heap.links[n][0] = a /\ heap.links[n][1] = b
    BY <2>2, KeysAreNumbers DEF Get
  <2>5. <<n, 0>> \in TreeSlots(live) /\ <<n, 1>> \in TreeSlots(live)
    BY SlotsOf DEF Dirs
  <2>6. /\ Room(live, lo, hi, <<n, 0>>, MaxHeight) /\ Room(live, lo, hi, <<n, 1>>, MaxHeight)
        /\ MaxHeight \in Nat
    BY <2>2, RoomForAll
  <2>7. Height[MaxHeight][a] = Tall(ht, a) /\ Height[MaxHeight][b] = Tall(ht, b)
    BY <2>2, <2>3, <2>5, <2>6, HeightsAre
  <2>8. Tall(ht, a) \in Int /\ Tall(ht, b) \in Int
    <3>1. a \in live \cup {Null} /\ b \in live \cup {Null}
      BY <2>2, <2>5 DEF Shape, Placed
    <3> QED
      BY <3>1, <2>2 DEF Tall, Heights
  <2>9. \/ heap.balance[n] = -1 /\ Tall(ht, a) = Tall(ht, b)
        \/ heap.balance[n] = 0 /\ Tall(ht, a) = Tall(ht, b) + 1
        \/ heap.balance[n] = 1 /\ Tall(ht, b) = Tall(ht, a) + 1
    BY <2>3 DEF Sound, Level, Weighs
  <2> HIDE DEF a, b
  <2> QED
    BY <2>4, <2>7, <2>8, <2>9
<1> QED
  BY <1>1, TreeKept, PTL

-----------------------------------------------------------------------------
(* To its caller the tree is a set.                                        *)

\* What the calls need beside the tree: the count is right, nothing is replied
\* before the call returns, and erase goes on only where there is a node.
CallInv(L) ==
  /\ node_count = Cardinality(L)
  /\ pc # "idle" => reply = Abstract!NoReply
  /\ pc = "find_target" /\ Here = Null => reg.targetp = NoSlot

LEMMA LiveFinite ==
  ASSUME NEW L, L \subseteq Keys
  PROVE  /\ IsFiniteSet(L) /\ Cardinality(L) \in Nat
         /\ \A k : k \notin L => Cardinality(L \cup {k}) = Cardinality(L) + 1
         /\ \A k : k \in L => Cardinality(L \ {k}) = Cardinality(L) - 1
<1>1. IsFiniteSet(L)
  BY ConstantsAssumption, FS_Subset
<1>2. Cardinality(L) \in Nat
  BY <1>1, FS_CardinalityType
<1>3. ASSUME NEW k, k \notin L PROVE Cardinality(L \cup {k}) = Cardinality(L) + 1
  BY <1>1, <1>3, FS_AddElement
<1>4. ASSUME NEW k, k \in L PROVE Cardinality(L \ {k}) = Cardinality(L) - 1
  BY <1>1, <1>4, FS_RemoveElement
<1> QED
  BY <1>1, <1>2, <1>3, <1>4

\* A slot that leads to the key holds it, or the way to it, if it is there at all.
LEMMA LeadsThere ==
  ASSUME TypeOK, NEW L, L \subseteq Keys, NEW lo, NEW hi, Shape(heap, L, lo, hi), Leads(L, lo, hi, reg.nodep, reg.key)
  PROVE  /\ Here = Null => reg.key \notin L
         /\ Here # Null => Here \in L /\ Here \in Keys
         /\ Here # Null /\ Here # reg.key /\ Link(heap, Here, Side) = Null /\ pc # "idle"
              => reg.key \notin L
<1> DEFINE k == reg.key
           s == reg.nodep
           n == Here
<1>1. /\ s \in TreeSlots(L) /\ Inside(lo, hi, s, k) /\ n = Get(heap, s)
      /\ L \subseteq Keys /\ heap \in Heaps
  BY Running DEF Leads, Here
<1>2. n = Null => k \notin L
  BY <1>1 DEF Shape, Placed
<1>3. n # Null => n \in L /\ n \in Keys
  BY <1>1 DEF Shape, Placed
<1>4. ASSUME n # Null, n # k, Link(heap, n, Side) = Null, pc # "idle", k \in L PROVE FALSE
  <2>1. Sides(L, lo, hi, s, n)
    BY <1>1, <1>3, <1>4, SidesOf
  <2>2. lo[n] < k /\ k < hi[n]
    BY <1>1, <2>1 DEF Sides, Inside
  <2>3. Side = Direction(k, n) /\ Side \in Dirs
    BY <1>4, HereType DEF Side
  <2>4. Get(heap, <<n, Side>>) = Null
    BY <1>1, <1>3, <1>4, <2>3, LinkGet
  <2> HIDE DEF k, s, n
  <2>5. Get(heap, <<n, Direction(k, n)>>) \in L
    BY <1>1, <1>3, <1>4, <2>2, WayDown
  <2> QED
    BY <1>1, <2>3, <2>4, <2>5, KeysAreNumbers
<1> QED
  BY <1>2, <1>3, <1>4

\* What a step finds of the key.
Finds(L) ==
  /\ pc = "find_slot" /\ Here = Null => reg.key \notin L
  /\ pc = "find_slot" /\ Here = reg.key => reg.key \in L
  /\ pc \in {"rebalance", "update"} => reg.key \in L
  /\ pc = "lookup" /\ Here = Null => reg.key \notin L
  /\ pc = "lookup" /\ Here = reg.key => reg.key \in L
  /\ pc = "lower" => reg.key \in L /\ Get(heap, reg.targetp) = reg.key
  /\ EraseAbsent => reg.key \notin L

LEMMA FindsKey ==
  ASSUME TypeOK, NEW L, Own(L), CallInv(L)
  PROVE  Finds(L)
<1>1. PICK lo, hi, ht : Fits(pc, heap, L, lo, hi, ht, reg)
  BY DEF Own
<1>2. Shape(heap, L, lo, hi)
  BY <1>1 DEF Fits
<1>3. pc # "idle" => reg.key \in Keys /\ reg.key # Null
  BY Running, KeysAreNumbers
<1>4. ASSUME pc \in {"find_slot", "lookup"}
      PROVE  /\ Here = Null => reg.key \notin L
             /\ Here = reg.key => reg.key \in L
  <2>1. Leads(L, lo, hi, reg.nodep, reg.key)
    BY <1>1, <1>4 DEF Fits, Stage, FindSlotInv
  <2> QED
    BY <1>2, <1>3, <1>4, <2>1, OwnKeys, LeadsThere
<1>5. pc \in {"rebalance", "update"} => reg.key \in L
  BY <1>1 DEF Fits, Stage, RebalanceInv, NewLeaf, UpdateInv
<1>6. pc = "lower" => reg.key \in L /\ Get(heap, reg.targetp) = reg.key
  BY <1>1 DEF Fits, Stage, LowerInv
<1>7. ASSUME EraseAbsent PROVE reg.key \notin L
  <2>1. /\ pc = "find_target" /\ pc # "idle"
        /\ Here = Null \/ Link(heap, Here, Side) = Null
        /\ Here = Null \/ Target = NoSlot
    BY <1>7 DEF EraseAbsent
  <2>2. /\ reg.targetp = NoSlot
        /\ Here # Null => Here # reg.key
    <3>1. CASE Here = Null
      BY <2>1, <3>1 DEF CallInv
    <3>2. CASE Here # Null
      <4>1. Target = NoSlot
        BY <2>1, <3>2
      <4>2. reg.nodep # NoSlot
        <5>1. reg.nodep \in TreeSlots(L) /\ L \subseteq Keys
          BY <1>1, <2>1, OwnKeys DEF Fits, Stage, FindTargetInv, Around
        <5>2. reg.nodep = RootSlot \/ reg.nodep[1] \in L
          BY <5>1, SlotCases
        <5>3. RootSlot # NoSlot /\ NoSlot[1] = Null
          BY DEF RootSlot, NoSlot
        <5> QED
          BY <5>1, <5>2, <5>3, KeysAreNumbers
      <4> QED
        BY <4>1, <4>2, <3>2 DEF Target
    <3> QED
      BY <3>1, <3>2
  <2>3. Leads(L, lo, hi, reg.nodep, reg.key)
    BY <1>1, <2>1, <2>2 DEF Fits, Stage, FindTargetInv, Around, Leads
  <2> QED
    BY <1>2, <2>1, <2>2, <2>3, OwnKeys, LeadsThere
<1> QED
  BY <1>4, <1>5, <1>6, <1>7 DEF Finds


LEMMA CallInit ==
  ASSUME Init
  PROVE  CallInv({})
BY FS_EmptySet DEF Init, CallInv

\* The keys of a tree with the nodes L that its caller knows of.
Known(L) == IF pc \in {"rebalance", "update"} THEN L \ {reg.key} ELSE L

\* A call takes effect on the set c.
Takes(c, d) ==
  \E op, result :
    /\ reply' = Abstract!Reply(op, reg.key, result, Cardinality(d))
    /\ \/ /\ op = "insert" /\ d = c \cup {reg.key}
          /\ result = IF reg.key \in c THEN "present" ELSE "inserted"
       \/ /\ op = "insert" /\ d = c /\ result = "bad_alloc" /\ reg.key \notin c
       \/ /\ op = "erase" /\ d = c \ {reg.key}
          /\ result = IF reg.key \in c THEN "erased" ELSE "absent"
       \/ /\ op = "count" /\ d = c
          /\ result = IF reg.key \in c THEN "present" ELSE "absent"
\* What a step does to the set of keys, as the caller sees it.
Effect(c, d) ==
  \/ d = c /\ reply' \in {reply, Abstract!NoReply}
  \/ reply = Abstract!NoReply /\ reg.key \in Keys /\ Takes(c, d)

LEMMA CallNext ==
  ASSUME TypeOK, NEW L, Own(L), CallInv(L), [Next]_vars, NEW M, Nodes(L, M)
  PROVE  CallInv(M)'
<1>0. L \subseteq Keys
  BY OwnKeys
<1>1. Finds(L) /\ heap \in Heaps
  BY FindsKey, Running
<1>2. ASSUME NEW op, NEW result, Return(op, result), node_count' = Cardinality(M)
      PROVE  CallInv(M)'
  BY <1>2 DEF Return, CallInv
<1>o. OldNodes => M = L
  BY OneStage DEF Nodes
<1>3. CASE \E k \in Keys : InsertCall(k) \/ EraseCall(k) \/ CountCall(k)
  <2>1. PICK k \in Keys : InsertCall(k) \/ EraseCall(k) \/ CountCall(k)
    BY <1>3
  <2>2. /\ node_count' = node_count
        /\ reply' = Abstract!NoReply
        /\ reg'.targetp = NoSlot
    BY <2>1 DEF InsertCall, EraseCall, CountCall, Call, NoRegs
  <2>3. M = L
    BY <1>3, <1>o DEF OldNodes
  <2> QED
    BY <2>2, <2>3 DEF CallInv
<1>4. CASE \/ InsertDescend \/ InsertBelowBalanced \/ InsertShorterPath \/ InsertRotate2
           \/ InsertRotate3 \/ InsertUpdate \/ EraseLocated \/ EraseLower \/ CountDescend
  <2>1. /\ pc # "idle" /\ pc' # "find_target"
        /\ node_count' = node_count /\ reply' = reply
    BY <1>4 DEF InsertDescend, InsertBelowBalanced, InsertShorterPath, InsertRotate2,
         InsertRotate3, InsertUpdate, EraseLocated, EraseLower, CountDescend, ToUpdate
  <2>2. M = L
    <3>1. ~ InsertLink /\ ~ EraseUnlink
      BY <1>4 DEF InsertDescend, InsertBelowBalanced, InsertShorterPath, InsertRotate2,
         InsertRotate3, InsertUpdate, EraseLocated, EraseLower, CountDescend, ToUpdate,
         InsertLink, EraseUnlink, Return
    <3> QED
      BY <3>1 DEF Nodes
  <2> QED
    BY <2>1, <2>2 DEF CallInv
<1>5. CASE InsertLink
  <2>1. /\ pc # "idle" /\ pc' = "rebalance" /\ reply' = reply
        /\ M = L \cup {reg.key} /\ node_count' = node_count + 1
        /\ reg.key \notin L
    BY <1>5, <1>1 DEF InsertLink, Finds, Nodes
  <2>2. Cardinality(M) = Cardinality(L) + 1
    BY <1>0, <2>1, LiveFinite
  <2> QED
    BY <2>1, <2>2 DEF CallInv
<1>6. CASE EraseDescend
  <2>1. /\ pc # "idle" /\ reply' = reply /\ node_count' = node_count
        /\ Link(heap, Here, Side) # Null /\ Here # Null
        /\ heap' = heap /\ reg'.nodep = <<Here, Side>>
    BY <1>6 DEF EraseDescend, TypeOK, Regs
  <2>2. Here' = Get(heap, <<Here, Side>>)
    BY <2>1 DEF Here
  <2>3. Get(heap, <<Here, Side>>) = Link(heap, Here, Side)
    BY <2>1 DEF Get, Link
  <2>4. M = L
    BY <1>6, <2>1 DEF Nodes, EraseDescend, InsertLink, EraseUnlink
  <2> QED
    BY <2>1, <2>2, <2>3, <2>4 DEF CallInv
<1>7. CASE InsertPresent \/ InsertThrows \/ InsertReturn \/ EraseAbsent \/ CountReturn
  <2>1. /\ \E op, result : Return(op, result)
        /\ node_count' = node_count
        /\ ~ InsertLink /\ ~ EraseUnlink
    BY <1>7 DEF InsertPresent, InsertThrows, InsertReturn, EraseAbsent, CountReturn, Return,
         InsertLink, EraseUnlink
  <2>2. M = L
    BY <2>1 DEF Nodes
  <2>3. node_count' = Cardinality(M)
    BY <2>1, <2>2 DEF CallInv
  <2> QED
    BY <1>2, <2>1, <2>3
<1>8. CASE EraseUnlink
  <2>1. /\ Return("erase", "erased")
        /\ M = L \ {reg.key} /\ node_count' = node_count - 1
        /\ reg.key \in L
    BY <1>8, <1>1 DEF EraseUnlink, Finds, Nodes
  <2>2. Cardinality(M) = Cardinality(L) - 1
    BY <1>0, <2>1, LiveFinite
  <2>3. node_count' = Cardinality(M)
    BY <2>1, <2>2 DEF CallInv
  <2> QED
    BY <1>2, <2>1, <2>3
<1>9. CASE UNCHANGED vars
  <2>1. UNCHANGED <<heap, live, node_count, pc, reg, reply>>
    BY <1>9 DEF vars
  <2>2. M = L
    BY <1>9, <1>o DEF OldNodes
  <2> QED
    BY <2>1, <2>2 DEF CallInv, Here
<1> QED
  BY <1>3, <1>4, <1>5, <1>6, <1>7, <1>8, <1>9 DEF Next, Step, InsertStep, EraseStep, CountStep

LEMMA CallEffect ==
  ASSUME TypeOK, NEW L, Own(L), CallInv(L), [Next]_vars, NEW M, Nodes(L, M)
  PROVE  Effect(Known(L), Known(M)')
<1>0. L \subseteq Keys
  BY OwnKeys
<1>1. Finds(L) /\ (pc # "idle" => reg.key \in Keys) /\ reg \in Regs
  BY FindsKey, Running
<1>2. /\ node_count = Cardinality(L)
      /\ pc # "idle" => reply = Abstract!NoReply
  BY DEF CallInv
<1>o. OldNodes => M = L
  BY OneStage DEF Nodes
\* A step that the caller does not see, or that begins a call.
<1>4. ASSUME Known(M)' = Known(L), reply' \in {reply, Abstract!NoReply}
      PROVE  Effect(Known(L), Known(M)')
  BY <1>4 DEF Effect
<1>5. CASE \E k \in Keys : InsertCall(k) \/ EraseCall(k) \/ CountCall(k)
  <2>1. /\ pc = "idle" /\ pc' \in {"find_slot", "find_target", "lookup"}
        /\ reply' = Abstract!NoReply /\ M = L
    BY <1>5, <1>o DEF InsertCall, EraseCall, CountCall, Call, OldNodes
  <2>2. Known(M)' = Known(L)
    BY <2>1 DEF Known
  <2> QED
    BY <2>1, <2>2, <1>4
<1>6. CASE InsertDescend \/ EraseDescend \/ EraseLocated \/ EraseLower \/ CountDescend
  <2>1. /\ pc \notin {"rebalance", "update"} /\ pc' \notin {"rebalance", "update"}
        /\ reply' = reply /\ ~ InsertLink /\ ~ EraseUnlink
    BY <1>6 DEF InsertDescend, EraseDescend, EraseLocated, EraseLower, CountDescend,
         InsertLink, EraseUnlink, Return
  <2>2. Known(M)' = Known(L)
    BY <2>1 DEF Known, Nodes
  <2> QED
    BY <2>1, <2>2, <1>4
<1>7. CASE InsertBelowBalanced \/ InsertShorterPath \/ InsertRotate2 \/ InsertRotate3 \/ InsertUpdate
  <2>1. /\ pc \in {"rebalance", "update"} /\ pc' \in {"rebalance", "update"}
        /\ reply' = reply /\ reg'.key = reg.key
    BY <1>7, <1>1 DEF InsertBelowBalanced, InsertShorterPath, InsertRotate2, InsertRotate3,
         InsertUpdate, ToUpdate, Regs
  <2>2. Known(M)' = Known(L)
    BY <2>1 DEF Known, Nodes, InsertLink, EraseUnlink
  <2> QED
    BY <2>1, <2>2, <1>4
<1>8. CASE InsertLink
  <2>1. /\ pc = "find_slot" /\ pc' = "rebalance" /\ reply' = reply /\ reg' = reg
        /\ M = L \cup {reg.key} /\ reg.key \notin L
    BY <1>8, <1>1 DEF InsertLink, Finds, Nodes
  <2>2. Known(M)' = Known(L)
    BY <2>1 DEF Known
  <2> QED
    BY <2>1, <2>2, <1>4
\* A step that returns takes effect.
<1>9. ASSUME NEW op, NEW result, Return(op, result), NEW c, NEW d, Known(L) = c, Known(M)' = d,
             pc # "idle", node_count' = Cardinality(d),
             LET k == reg.key
             IN  \/ /\ op = "insert" /\ d = c \cup {k}
                    /\ result = IF k \in c THEN "present" ELSE "inserted"
                 \/ /\ op = "insert" /\ d = c /\ result = "bad_alloc" /\ k \notin c
                 \/ /\ op = "erase" /\ d = c \ {k}
                    /\ result = IF k \in c THEN "erased" ELSE "absent"
                 \/ /\ op = "count" /\ d = c
                    /\ result = IF k \in c THEN "present" ELSE "absent"
      PROVE  Effect(Known(L), Known(M)')
  <2>1. /\ reply' = Abstract!Reply(op, reg.key, result, Cardinality(d)) /\ reg.key \in Keys
        /\ reply = Abstract!NoReply
    BY <1>1, <1>2, <1>9 DEF Return
  <2>2. Takes(c, d)
    BY <1>9, <2>1 DEF Takes
  <2> QED
    BY <1>9, <2>1, <2>2 DEF Effect
<1>10. CASE InsertPresent \/ InsertThrows \/ EraseAbsent \/ CountReturn
  <2>1. /\ pc \in {"find_slot", "find_target", "lookup"} /\ pc' = "idle"
        /\ node_count' = node_count /\ ~ InsertLink /\ ~ EraseUnlink
    BY <1>10 DEF InsertPresent, InsertThrows, EraseAbsent, CountReturn, Return,
         InsertLink, EraseUnlink
  <2>2. Known(L) = L /\ Known(M)' = L /\ pc # "idle" /\ node_count' = Cardinality(L)
    BY <2>1, <1>2 DEF Known, Nodes
  <2>3. CASE InsertPresent
    <3>1. Return("insert", "present") /\ reg.key \in L /\ L = L \cup {reg.key}
      BY <2>3, <1>1 DEF InsertPresent, Finds
    <3> QED
      BY <1>9, <2>2, <3>1
  <2>4. CASE InsertThrows
    <3>1. Return("insert", "bad_alloc") /\ reg.key \notin L
      BY <2>4, <1>1 DEF InsertThrows, Finds
    <3> QED
      BY <1>9, <2>2, <3>1
  <2>5. CASE EraseAbsent
    <3>1. Return("erase", "absent") /\ reg.key \notin L /\ L = L \ {reg.key}
      BY <2>5, <1>1 DEF EraseAbsent, Finds
    <3> QED
      BY <1>9, <2>2, <3>1
  <2>6. CASE CountReturn
    <3>1. Return("count", IF Here = Null THEN "absent" ELSE "present")
      BY <2>6 DEF CountReturn
    <3>2. Here = Null => reg.key \notin L
      BY <2>6, <1>1 DEF CountReturn, Finds
    <3>3. Here # Null => reg.key \in L
      BY <2>6, <1>1 DEF CountReturn, Finds
    <3>4. (IF Here = Null THEN "absent" ELSE "present") = (IF reg.key \in L THEN "present" ELSE "absent")
      BY <3>2, <3>3
    <3> QED
      BY <1>9, <2>2, <3>1, <3>4
  <2> QED
    BY <1>10, <2>3, <2>4, <2>5, <2>6
<1>11. CASE InsertReturn
  <2>1. /\ pc = "update" /\ pc' = "idle" /\ Return("insert", "inserted")
        /\ M = L /\ node_count' = node_count /\ reg.key \in L
    BY <1>11, <1>1 DEF InsertReturn, Return, Finds, Nodes, InsertLink, EraseUnlink
  <2> DEFINE c == L \ {reg.key}
  <2>2. Known(L) = c /\ Known(M)' = L /\ pc # "idle" /\ node_count' = Cardinality(L)
    BY <2>1, <1>2 DEF Known
  <2>3. L = c \cup {reg.key} /\ reg.key \notin c
    BY <2>1
  <2> HIDE DEF c
  <2> QED
    BY <1>9, <2>1, <2>2, <2>3
<1>12. CASE EraseUnlink
  <2>1. /\ pc = "lower" /\ pc' = "idle" /\ Return("erase", "erased")
        /\ M = L \ {reg.key} /\ node_count' = node_count - 1 /\ reg.key \in L
    BY <1>12, <1>1 DEF EraseUnlink, Return, Finds, Nodes
  <2> DEFINE d == L \ {reg.key}
  <2>2. Known(L) = L /\ Known(M)' = d /\ pc # "idle" /\ node_count' = Cardinality(d)
    BY <2>1, <1>0, <1>2, LiveFinite DEF Known
  <2>3. d = L \ {reg.key}
    OBVIOUS
  <2> HIDE DEF d
  <2> QED
    BY <1>9, <2>1, <2>2, <2>3
<1>13. CASE UNCHANGED vars
  <2>1. UNCHANGED <<heap, live, node_count, pc, reg, reply>> /\ M = L
    BY <1>13, <1>o DEF vars, OldNodes
  <2>2. Known(M)' = Known(L)
    BY <2>1 DEF Known
  <2> QED
    BY <2>1, <2>2, <1>4
<1> QED
  BY <1>5, <1>6, <1>7, <1>8, <1>10, <1>11, <1>12, <1>13
  DEF Next, Step, InsertStep, EraseStep, CountStep

\* Both specifications count in the same way.
LEMMA SameCount == \A S : Set!Cardinality(S) = Cardinality(S)
BY DEF Set!Cardinality, Cardinality

LEMMA SetInit ==
  ASSUME Init, TypeOK, TreeInv
  PROVE  Set!Init
<1>1. Reach = {} /\ pc = "idle" /\ reply = Abstract!NoReply
  BY ReachIsLive DEF Init
<1> QED
  BY <1>1 DEF Set!Init, Set!NoReply, Abstract!NoReply

LEMMA SetNext ==
  ASSUME NEW c, NEW d, Effect(c, d),
         c = IF pc \in {"rebalance", "update"} THEN Reach \ {reg.key} ELSE Reach,
         d = IF pc' \in {"rebalance", "update"} THEN Reach' \ {reg'.key} ELSE Reach'
  PROVE  [Set!Next]_(Set!vars)
<1>1. /\ Set!NoReply = Abstract!NoReply
      /\ \A op, k, result, size : Abstract!Reply(op, k, result, size) = Set!Reply(op, k, result, size)
  BY DEF Abstract!Reply, Set!Reply, Abstract!NoReply, Set!NoReply
<1>2. CASE d = c /\ reply' = reply
  BY <1>2 DEF Set!vars
<1>3. CASE d = c /\ reply' = Abstract!NoReply /\ reply # Abstract!NoReply
  <2>1. Set!Begin
    BY <1>1, <1>3 DEF Set!Begin
  <2> QED
    BY <2>1 DEF Set!Next
<1>4. CASE reply = Abstract!NoReply /\ reg.key \in Keys /\ Takes(c, d)
  <2> DEFINE k == reg.key
  <2>0. PICK op, result :
          /\ reply' = Abstract!Reply(op, k, result, Cardinality(d))
          /\ \/ /\ op = "insert" /\ d = c \cup {k}
                /\ result = IF k \in c THEN "present" ELSE "inserted"
             \/ /\ op = "insert" /\ d = c /\ result = "bad_alloc" /\ k \notin c
             \/ /\ op = "erase" /\ d = c \ {k}
                /\ result = IF k \in c THEN "erased" ELSE "absent"
             \/ /\ op = "count" /\ d = c
                /\ result = IF k \in c THEN "present" ELSE "absent"
    BY <1>4 DEF Takes
  <2>1. reply' = Set!Reply(op, k, result, Cardinality(d)) /\ k \in Keys /\ reply = Set!NoReply
    BY <1>1, <1>4, <2>0
  <2>2. Set!Insert(k) \/ Set!InsertThrows(k) \/ Set!Erase(k) \/ Set!Count(k)
    <3>1. ASSUME op = "insert", d = c \cup {k}, result = IF k \in c THEN "present" ELSE "inserted"
          PROVE  Set!Insert(k)
      BY <2>1, <3>1, SameCount DEF Set!Insert
    <3>2. ASSUME op = "insert", d = c, result = "bad_alloc", k \notin c
          PROVE  Set!InsertThrows(k)
      BY <2>1, <3>2, SameCount DEF Set!InsertThrows
    <3>3. ASSUME op = "erase", d = c \ {k}, result = IF k \in c THEN "erased" ELSE "absent"
          PROVE  Set!Erase(k)
      BY <2>1, <3>3, SameCount DEF Set!Erase
    <3>4. ASSUME op = "count", d = c, result = IF k \in c THEN "present" ELSE "absent"
          PROVE  Set!Count(k)
      BY <2>1, <3>4, SameCount DEF Set!Count
    <3> HIDE DEF k
    <3> QED
      BY <2>0, <3>1, <3>2, <3>3, <3>4
  <2>3. Set!TakeEffect
    BY <2>1, <2>2 DEF Set!TakeEffect
  <2> QED
    BY <2>1, <2>3 DEF Set!Next
<1> QED
  BY <1>2, <1>3, <1>4 DEF Effect

\* One step of the tree, as its caller sees it.
LEMMA CallerSees ==
  ASSUME TypeOK, TreeInv, CallInv(live), [Next]_vars, Reach' = live'
  PROVE  CallInv(live)' /\ [Set!Next]_(Set!vars)
<1>1. PICK L : L = live
  OBVIOUS
<1>2. PICK M : M = live'
  OBVIOUS
<1>3. Own(L) /\ CallInv(L)
  BY <1>1 DEF TreeInv
<1>4. Nodes(L, M)
  BY <1>1, <1>2, <1>3, LiveNext
<1>5. CallInv(M)'
  BY <1>3, <1>4, CallNext
<1>6. Effect(Known(L), Known(M)')
  BY <1>3, <1>4, CallEffect
<1>7. CallInv(live)'
  BY <1>2, <1>5 DEF CallInv
<1>8. Reach = L /\ Reach' = M
  BY <1>1, <1>2, ReachIsLive
<1>9. PICK c, d : c = Known(L) /\ d = Known(M)'
  OBVIOUS
<1>10. /\ c = IF pc \in {"rebalance", "update"} THEN Reach \ {reg.key} ELSE Reach
       /\ d = IF pc' \in {"rebalance", "update"} THEN Reach' \ {reg'.key} ELSE Reach'
  BY <1>8, <1>9 DEF Known
<1>11. Effect(c, d)
  BY <1>6, <1>9
<1> QED
  BY <1>7, <1>10, <1>11, SetNext

\* What callers see of insert, erase and count, whatever the tree does inside:
\* each call changes a set of keys at once or not at all, its result and size()
\* are those of the set, and a failed allocation changes nothing.
THEOREM SetImplemented == Spec => ImplementsSet
<1>1. Init /\ TypeOK /\ TreeInv => Set!Init
  BY SetInit
<1>2. TypeOK /\ TreeInv => Reach = live
  BY ReachIsLive
<1>3. TypeOK' /\ TreeInv' => (Reach = live)'
  BY <1>2, PTL
<1>4. CallInv(live) /\ TypeOK /\ TreeInv /\ TypeOK' /\ TreeInv' /\ [Next]_vars
        => CallInv(live)' /\ [Set!Next]_(Set!vars)
  BY <1>3, CallerSees
<1>5. Init => CallInv(live)
  BY CallInit DEF Init, CallInv
<1> QED
  BY <1>1, <1>4, <1>5, TreeKept, PTL DEF Spec, ImplementsSet, Set!Spec

=============================================================================
