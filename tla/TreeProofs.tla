----------------------------- MODULE TreeProofs -----------------------------
(***************************************************************************)
(* Theorems about Tree, for every finite set of integer keys: the two      *)
(* trees share no node whatever calls are made, clear and enumerate walk   *)
(* over live nodes within the buffer they reserve, and to their callers    *)
(* the two trees are two sets.                                             *)
(***************************************************************************)
EXTENDS Tree, AvlTreeProofs

-----------------------------------------------------------------------------
(* What a step of one tree leaves alone.                                   *)

\* The nodes that are not in S have kept their links and their balance.
Apart(h, g, S) ==
  \A n \in Keys \ S : /\ g.balance[n] = h.balance[n]
                      /\ \A d \in Dirs : Get(g, <<n, d>>) = Get(h, <<n, d>>)

LEMMA ApartSelf ==
  ASSUME NEW h, NEW S
  PROVE  Apart(h, h, S)
BY DEF Apart

LEMMA ApartThen ==
  ASSUME NEW h, NEW g, NEW f, NEW S, Apart(h, g, S), Apart(g, f, S)
  PROVE  Apart(h, f, S)
BY DEF Apart

\* Slots of nodes outside S.
LEMMA SlotsOutside ==
  ASSUME NEW S, S \subseteq Keys, NEW n \in Keys \ S, NEW d \in Dirs
  PROVE  /\ <<n, d>> \in TreeSlots(Keys)
         /\ <<n, d>>[1] = n
         /\ \A s \in TreeSlots(S) : s # <<n, d>>
<1>1. n # Null
  BY NullIsNoKey
<1>2. <<n, d>> \in TreeSlots(Keys) /\ <<n, d>>[1] = n
  BY DEF TreeSlots
<1>3. ASSUME NEW s \in TreeSlots(S), s = <<n, d>> PROVE FALSE
  BY <1>1, <1>3 DEF TreeSlots, RootSlot
<1> QED
  BY <1>2, <1>3

LEMMA ApartPut ==
  ASSUME NEW h \in Heaps, NEW S, S \subseteq Keys, NEW s \in TreeSlots(S), NEW n \in Ptrs
  PROVE  Apart(h, Put(h, s, n), S)
<1>1. s \in TreeSlots(Keys)
  BY DEF TreeSlots
<1>2. /\ Put(h, s, n).balance = h.balance
      /\ \A t \in TreeSlots(Keys) : Get(Put(h, s, n), t) = IF t = s THEN n ELSE Get(h, t)
  BY <1>1, PutGet
<1> QED
  BY <1>2, SlotsOutside DEF Apart

LEMMA ApartSetBalance ==
  ASSUME NEW h \in Heaps, NEW S, S \subseteq Keys, NEW n \in S, NEW b
  PROVE  Apart(h, SetBalance(h, n, b), S)
<1>1. /\ SetBalance(h, n, b).balance = [h.balance EXCEPT ![n] = b]
      /\ \A t : Get(SetBalance(h, n, b), t) = Get(h, t)
  BY SetBalanceGet
<1> QED
  BY <1>1 DEF Apart, Heaps

LEMMA ApartBlank ==
  ASSUME NEW h \in Heaps, NEW S, S \subseteq Keys, NEW n \in S
  PROVE  Apart(h, Blank(h, n), S)
<1>1. /\ Blank(h, n).balance = [h.balance EXCEPT ![n] = -1]
      /\ \A t \in TreeSlots(Keys) : Get(Blank(h, n), t) = IF t[1] = n THEN Null ELSE Get(h, t)
  BY BlankGet
<1> QED
  BY <1>1, SlotsOutside DEF Apart, Heaps

LEMMA ApartTurned ==
  ASSUME NEW h, NEW g, NEW L, L \subseteq Keys, NEW top, NEW dir, NEW B, NEW D,
         Pair(h, L, top, dir, B, D), Turned(h, g, top, dir, B, D),
         Same(Keys, L, h.balance, g.balance)
  PROVE  Apart(h, g, L)
<1> SUFFICES ASSUME NEW n \in Keys \ L, NEW d \in Dirs
             PROVE  Get(g, <<n, d>>) = Get(h, <<n, d>>)
  BY DEF Apart, Same
<1>1. /\ top \in TreeSlots(L) /\ <<D, 1 - dir>> \in TreeSlots(L) /\ <<B, dir>> \in TreeSlots(L)
  BY DEF Pair, TreeSlots, Dirs
<1>2. <<n, d>> \in TreeSlots(Keys) /\ \A s \in TreeSlots(L) : s # <<n, d>>
  BY SlotsOutside
<1> QED
  BY <1>1, <1>2 DEF Turned

LEMMA ApartRotate2 ==
  ASSUME NEW h \in Heaps, NEW L, L \subseteq Keys, NEW lo, NEW hi, Shape(h, L, lo, hi),
         NEW top, NEW dir, NEW B, NEW D, Pair(h, L, top, dir, B, D)
  PROVE  Apart(h, AvlRotate2(h, top, dir), L)
<1>0. h \in Heaps /\ L \subseteq Keys /\ Shape(h, L, lo, hi) /\ Pair(h, L, top, dir, B, D)
  OBVIOUS
<1>1. /\ AvlRotate2(h, top, dir) \in Heaps
      /\ AvlRotate2(h, top, dir).balance = [h.balance EXCEPT ![B] = -1, ![D] = -1]
      /\ Turned(h, AvlRotate2(h, top, dir), top, dir, B, D)
  BY <1>0, AvlRotate2Does
<1>2. Same(Keys, L, h.balance, AvlRotate2(h, top, dir).balance)
  BY <1>1 DEF Same, Pair, Heaps
<1> QED
  BY <1>1, <1>2, ApartTurned

\* The three balance fields that AvlRotate3 resets first.
LEMMA ThreeLevel ==
  ASSUME NEW h \in Heaps, NEW B \in Keys, NEW F \in Keys, NEW D \in Keys
  PROVE  LET level == SetBalance(SetBalance(SetBalance(h, B, -1), F, -1), D, -1)
         IN  level \in Heaps /\ \A t : Get(level, t) = Get(h, t)
<1> DEFINE l1 == SetBalance(h, B, -1)
           l2 == SetBalance(l1, F, -1)
           level == SetBalance(l2, D, -1)
<1>1. l1 \in Heaps /\ \A t : Get(l1, t) = Get(h, t)
  BY SetBalanceType, SetBalanceGet
<1> HIDE DEF l1
<1>2. l2 \in Heaps /\ \A t : Get(l2, t) = Get(l1, t)
  BY <1>1, SetBalanceType, SetBalanceGet
<1> HIDE DEF l2
<1>3. level \in Heaps /\ \A t : Get(level, t) = Get(l2, t)
  BY <1>2, SetBalanceType, SetBalanceGet
<1> HIDE DEF level
<1>4. level \in Heaps /\ \A t : Get(level, t) = Get(h, t)
  BY <1>1, <1>2, <1>3
<1> QED
  BY <1>4 DEF level, l2, l1

LEMMA ApartRotate3 ==
  ASSUME NEW h \in Heaps, NEW L, L \subseteq Keys, NEW lo, NEW hi, Shape(h, L, lo, hi),
         NEW top, NEW dir, NEW third, NEW B, NEW F, NEW D,
         Pair(h, L, top, dir, B, F), Pair(h, L, <<B, dir>>, 1 - dir, F, D)
  PROVE  Apart(h, AvlRotate3(h, top, dir, third), L)
<1> DEFINE level == SetBalance(SetBalance(SetBalance(h, B, -1), F, -1), D, -1)
           turned == Rotate3(level, top, dir)
           g == AvlRotate3(h, top, dir, third)
<1>1. /\ B \in L /\ F \in L /\ D \in L
      /\ B \in Keys /\ F \in Keys /\ D \in Keys
      /\ Get(h, top) = B /\ Get(h, <<B, dir>>) = F /\ Get(h, <<F, 1 - dir>>) = D
      /\ dir \in Dirs /\ 1 - dir \in Dirs
  BY DEF Pair, Dirs
<1>2. level \in Heaps /\ \A t : Get(level, t) = Get(h, t)
  BY <1>1, ThreeLevel
<1>3. Link(h, B, dir) = F /\ Link(h, F, 1 - dir) = D
  BY <1>1, LinkGet
<1>4. g = CASE third = -1  -> turned
            [] third = dir -> SetBalance(turned, B, 1 - dir)
            [] OTHER       -> SetBalance(turned, F, dir)
  BY <1>1, <1>3 DEF AvlRotate3
<1>b. g.balance = Evened(h.balance, third, dir, B, F, D)
  <2>0. /\ h \in Heaps /\ L \subseteq Keys /\ Shape(h, L, lo, hi)
        /\ Pair(h, L, top, dir, B, F) /\ Pair(h, L, <<B, dir>>, 1 - dir, F, D)
    OBVIOUS
  <2>1. Rotated3(h, AvlRotate3(h, top, dir, third), L, lo, hi, top, dir, third, B, F, D)
    BY <2>0, AvlRotate3Raises
  <2> QED
    BY <2>1 DEF Rotated3
<1>s. Same(Keys, L, h.balance, g.balance)
  <2> HIDE DEF g
  <2> QED
    BY <1>1, <1>b DEF Same, Evened, Heaps
<1> HIDE DEF level, g
<1>5. Shape(level, L, lo, hi)
  BY <1>2, SameShape
<1>6. Pair(level, L, top, dir, B, F) /\ Pair(level, L, <<B, dir>>, 1 - dir, F, D)
  BY <1>2 DEF Pair
<1>7. /\ turned \in Heaps
      /\ \E m \in Heaps :
           /\ Turned(level, m, <<B, dir>>, 1 - dir, F, D)
           /\ Pair(m, L, top, dir, B, D)
           /\ Turned(m, turned, top, dir, B, D)
  BY <1>2, <1>5, <1>6, Rotate3Turns
<1> HIDE DEF turned
<1>8. PICK m \in Heaps :
         /\ Turned(level, m, <<B, dir>>, 1 - dir, F, D)
         /\ Pair(m, L, top, dir, B, D)
         /\ Turned(m, turned, top, dir, B, D)
  BY <1>7
<1>9. \A t : Get(g, t) = Get(turned, t)
  <2>1. \A n \in Keys : \A b, t : Get(SetBalance(turned, n, b), t) = Get(turned, t)
    <3>1. turned \in Heaps
      BY <1>7
    <3> QED
      BY <3>1, SetBalanceGet
  <2> QED
    BY <1>1, <1>4, <2>1
<1> SUFFICES ASSUME NEW n \in Keys \ L, NEW d \in Dirs
             PROVE  Get(g, <<n, d>>) = Get(h, <<n, d>>)
  BY <1>s DEF Apart, Same, g
<1>10. <<n, d>> \in TreeSlots(Keys) /\ \A s \in TreeSlots(L) : s # <<n, d>>
  BY SlotsOutside
<1>11. /\ top \in TreeSlots(L) /\ <<D, 1 - dir>> \in TreeSlots(L) /\ <<B, dir>> \in TreeSlots(L)
       /\ <<D, 1 - (1 - dir)>> \in TreeSlots(L) /\ <<F, 1 - dir>> \in TreeSlots(L)
  BY <1>1, <1>8 DEF Pair, TreeSlots, Dirs
<1>12. Get(m, <<n, d>>) = Get(level, <<n, d>>)
  BY <1>8, <1>10, <1>11 DEF Turned
<1>13. Get(turned, <<n, d>>) = Get(m, <<n, d>>)
  BY <1>8, <1>10, <1>11 DEF Turned
<1> QED
  BY <1>2, <1>9, <1>12, <1>13

LEMMA ApartUnlinked ==
  ASSUME NEW h \in Heaps, NEW L, L \subseteq Keys, NEW t \in TreeSlots(L), NEW s \in TreeSlots(L),
         NEW B \in L, NEW k \in L, NEW dir \in Dirs
  PROVE  Apart(h, Unlinked(h, t, s, B, k, dir), L)
<1> DEFINE h1 == Put(h, t, B)
           c == Link(h1, B, 1 - dir)
           h2 == Put(h1, s, c)
           f == [e \in Dirs |-> Link(h2, k, e)]
           b == Balance(h2, k)
           h3 == [h2 EXCEPT !.links[B] = f, !.balance[B] = b]
<1>1. t \in Slots /\ s \in Slots /\ B \in Ptrs /\ k \in Ptrs /\ 1 - dir \in Dirs
  BY SlotCases DEF Ptrs, Dirs
<1>2. h1 \in Heaps /\ Apart(h, h1, L)
  BY <1>1, PutType, ApartPut
<1> HIDE DEF h1
<1>3. c \in Ptrs
  BY <1>1, <1>2, LinkType
<1> HIDE DEF c
<1>4. h2 \in Heaps /\ Apart(h1, h2, L)
  BY <1>1, <1>2, <1>3, PutType, ApartPut
<1> HIDE DEF h2
<1>5. f \in [Dirs -> Ptrs] /\ b \in {-1, 0, 1}
  BY <1>1, <1>4, LinkType, BalanceType
<1> HIDE DEF f, b
<1>6. h3 \in Heaps
  BY <1>4, <1>5 DEF Heaps
<1>7. Apart(h2, h3, L)
  <2> SUFFICES ASSUME NEW n \in Keys \ L
               PROVE  h3.balance[n] = h2.balance[n]
                      /\ \A d \in Dirs : Get(h3, <<n, d>>) = Get(h2, <<n, d>>)
    BY DEF Apart
  <2>1. n # Null /\ n # B
    BY NullIsNoKey
  <2> QED
    BY <1>4, <2>1 DEF Get, Heaps
<1> HIDE DEF h3
<1>8. Apart(h3, Blank(h3, k), L)
  BY <1>6, ApartBlank
<1>9. Unlinked(h, t, s, B, k, dir) = Blank(h3, k)
  BY DEF Unlinked, h1, c, h2, f, b, h3
<1> QED
  BY <1>2, <1>4, <1>7, <1>8, <1>9 DEF Apart

-----------------------------------------------------------------------------
(* The steps of insert and erase that write to the heap.                   *)

LEMMA InsertLinkApart ==
  ASSUME TypeOK, NEW L, Own(L), InsertLink, NEW S, S \subseteq Keys,
         L \subseteq S, reg.key \in S
  PROVE  Apart(heap, heap', S)
<1>1. PICK lo, hi, ht : Fits(pc, heap, L, lo, hi, ht, reg)
  BY DEF Own
<1>2. reg.nodep \in TreeSlots(L)
  BY <1>1 DEF InsertLink, Fits, Stage, FindSlotInv, Leads
<1>3. reg.nodep \in TreeSlots(S) /\ heap \in Heaps /\ reg.key \in Ptrs
  BY <1>2, MoreSlots DEF TypeOK, Ptrs
<1> DEFINE h == Blank(heap, reg.key)
<1>4. h \in Heaps /\ Apart(heap, h, S)
  BY <1>3, BlankType, ApartBlank
<1>5. heap' = Put(h, reg.nodep, reg.key)
  BY DEF InsertLink
<1> HIDE DEF h
<1>6. Apart(h, heap', S)
  BY <1>3, <1>4, <1>5, ApartPut
<1> QED
  BY <1>4, <1>6, ApartThen

LEMMA InsertStage2Apart ==
  ASSUME TypeOK, NEW L, Own(L), InsertShorterPath \/ InsertRotate2 \/ InsertRotate3
  PROVE  Apart(heap, heap', L)
<1> DEFINE k == reg.key
           p == reg.path_top
           B == Top
           dir == First
           F == Get(heap, <<B, dir>>)
           D == Get(heap, <<F, 1 - dir>>)
<1>1. pc = "rebalance"
  BY DEF InsertShorterPath, InsertRotate2, InsertRotate3
<1>2. PICK lo, hi, ht : Growing(heap, L, lo, hi, ht, k, p, B)
  BY <1>1, Growth
<1>3. heap \in Heaps /\ L \subseteq Keys /\ Shape(heap, L, lo, hi) /\ B \in L /\ B \in Keys
  BY <1>2 DEF Growing
<1>4. CASE InsertShorterPath
  BY <1>3, <1>4, ApartSetBalance DEF InsertShorterPath
<1>5. ASSUME InsertRotate2 \/ InsertRotate3
      PROVE  HighSide(heap, L, lo, hi, k, p, dir, B, F)
  <2>1. Balance(heap, B) = dir /\ dir = Direction(k, B)
    BY <1>5 DEF InsertRotate2, InsertRotate3, First
  <2>2. heap.balance[B] = dir
    BY <1>3, <2>1, Running
  <2> HIDE DEF k, p, B, dir
  <2> QED
    BY <1>2, <2>1, <2>2, LeansToKey
<1>6. CASE InsertRotate2
  <2>1. Pair(heap, L, p, dir, B, F)
    BY <1>5, <1>6 DEF HighSide
  <2>2. heap' = AvlRotate2(heap, p, dir)
    BY <1>6 DEF InsertRotate2
  <2> HIDE DEF k, p, B, dir, F
  <2> QED
    BY <1>3, <2>1, <2>2, ApartRotate2
<1>7. CASE InsertRotate3
  <2>1. dir # Second /\ dir = Direction(k, B) /\ heap.balance[B] = dir /\ F \in Keys /\ dir \in Dirs
    BY <1>3, <1>5, <1>7 DEF InsertRotate3, HighSide, Pair
  <2>2. Second = Direction(k, F)
    BY <2>1, <1>3, Running DEF Second
  <2>3. PICK third : heap' = AvlRotate3(heap, p, dir, third)
    BY <1>7 DEF InsertRotate3
  <2> HIDE DEF k, p, B, dir, F, D
  <2>4. Bent(heap, L, lo, hi, k, p, dir, B, F, D)
    BY <1>2, <2>1, <2>2, BendsAtKey DEF F, D
  <2>5. Pair(heap, L, p, dir, B, F) /\ Pair(heap, L, <<B, dir>>, 1 - dir, F, D)
    BY <2>4 DEF Bent
  <2> QED
    BY <1>3, <2>3, <2>5, ApartRotate3
<1> QED
  BY <1>4, <1>6, <1>7

LEMMA InsertUpdateApart ==
  ASSUME TypeOK, NEW L, Own(L), InsertUpdate
  PROVE  Apart(heap, heap', L)
<1>1. PICK lo, hi, ht : Fits(pc, heap, L, lo, hi, ht, reg)
  BY DEF Own
<1>2. reg.path \in L
  BY <1>1 DEF InsertUpdate, Fits, Stage, UpdateInv
<1>3. heap \in Heaps /\ L \subseteq Keys
  BY OwnKeys DEF TypeOK
<1>4. PICK b : heap' = SetBalance(heap, reg.path, b)
  BY DEF InsertUpdate
<1> QED
  BY <1>2, <1>3, <1>4, ApartSetBalance

LEMMA EraseUnlinkApart ==
  ASSUME TypeOK, NEW L, Own(L), EraseUnlink
  PROVE  Apart(heap, heap', L)
<1>1. PICK lo, hi, ht : Fits(pc, heap, L, lo, hi, ht, reg)
  BY DEF Own
<1>2. pc = "lower"
  BY DEF EraseUnlink
<1>3. /\ reg.key \in L /\ reg.nodep \in TreeSlots(L) /\ Here # Null
      /\ reg.targetp \in TreeSlots(L) /\ Get(heap, reg.targetp) = reg.key
      /\ Shape(heap, L, lo, hi)
  BY <1>1, <1>2 DEF Fits, Stage, LowerInv, Around, Here
<1>4. Here \in L
  BY <1>3 DEF Shape, Placed, Here
<1>5. heap \in Heaps /\ L \subseteq Keys /\ reg.dir \in Dirs
  BY OwnKeys DEF TypeOK, Regs
<1>6. heap' = Unlinked(heap, reg.targetp, reg.nodep, Here, reg.key, reg.dir)
  BY <1>3 DEF EraseUnlink, Unlinked, OnlyChild
<1> QED
  BY <1>3, <1>4, <1>5, <1>6, ApartUnlinked

LEMMA EraseLowerApart ==
  ASSUME TypeOK, NEW L, Own(L), EraseLower
  PROVE  Apart(heap, heap', L)
<1> DEFINE h == heap
           k == reg.key
           s == reg.nodep
           B == Here
           d == Side
           far == 1 - Side
           F == Get(heap, <<B, far>>)
           D == Get(heap, <<F, d>>)
           loss == Loss(heap, k, B)
<1>1. PICK lo, hi, ht : Fits(pc, heap, L, lo, hi, ht, reg)
  BY DEF Own
<1>2. pc = "lower" /\ Link(heap, Here, Side) # Null /\ heap' = Lowered
  BY DEF EraseLower
<1>3. L \subseteq Keys /\ h \in Heaps
  BY OwnKeys DEF TypeOK
<1>4. Lowering(h, L, lo, hi, ht, k, s, B, d, loss)
  BY <1>1, <1>2, <1>3, LowerBegins
<1>5. /\ Shape(h, L, lo, hi) /\ B \in L /\ B \in Keys
      /\ d \in Dirs /\ far \in Dirs /\ 1 - far = d /\ far # d
  <2>1. Shape(h, L, lo, hi) /\ B \in L /\ d \in Dirs
    BY <1>4 DEF Lowering
  <2> QED
    BY <1>3, <2>1 DEF Dirs
<1>6. /\ Balance(h, B) = h.balance[B] /\ h.balance[B] \in {-1, 0, 1}
      /\ Sibling = F
  BY <1>5, Running DEF Heaps, Sibling
<1>7. CASE h.balance[B] = -1 \/ h.balance[B] = d
  <2>1. \E b : Lowered = SetBalance(h, B, b)
    BY <1>5, <1>6, <1>7 DEF Lowered, IsBalanced, Dirs
  <2> HIDE DEF h, B
  <2> QED
    BY <1>2, <1>3, <1>5, <2>1, ApartSetBalance DEF h
<1>8. CASE h.balance[B] = far
  <2>1. Pair(h, L, s, far, B, F)
    <3> HIDE DEF h, k, s, B, d, F, loss
    <3>1. h.balance[B] = 1 - d
      BY <1>8 DEF d
    <3>2. Pair(h, L, s, 1 - d, B, Get(h, <<B, 1 - d>>))
      BY <1>4, <3>1, HasSibling
    <3> QED
      BY <3>2 DEF F, d, h
  <2>2. F \in L /\ F \in Keys /\ Balance(h, F) = h.balance[F]
    BY <2>1, <1>3, Running DEF Pair
  <2>3. ~ IsBalanced(h, B) /\ Balance(h, B) # d
    BY <1>5, <1>6, <1>8 DEF IsBalanced, Dirs
  <2>4. CASE h.balance[F] = d
    <3>1. Pair(h, L, <<B, far>>, d, F, D)
      <4> HIDE DEF h, k, s, B, d, F, D, loss
      <4>1. Pair(h, L, s, 1 - d, B, F) /\ h.balance[F] = d
        BY <2>1, <2>4 DEF d
      <4>2. Pair(h, L, <<B, 1 - d>>, d, F, Get(h, <<F, d>>))
        BY <1>4, <4>1, HasInner
      <4> QED
        BY <4>2 DEF D, h, d
    <3>2. PICK third : Lowered = AvlRotate3(h, s, far, third)
      <4>1. Balance(heap, Sibling) = Side
        BY <1>6, <2>2, <2>4
      <4>2. Lowered = AvlRotate3(heap, reg.nodep, 1 - Side, Balance(heap, Link(heap, Sibling, Side)))
        BY <2>3, <4>1, <1>5, <1>6, <1>8 DEF Lowered, IsBalanced, Dirs
      <4> QED
        BY <4>2
    <3>3. Pair(h, L, <<B, far>>, 1 - far, F, D)
      BY <3>1, <1>5
    <3> HIDE DEF h, s, B, d, far, F, D
    <3>4. Apart(h, AvlRotate3(h, s, far, third), L)
      BY <1>3, <1>5, <2>1, <3>3, ApartRotate3
    <3> QED
      BY <1>2, <3>2, <3>4 DEF h
  <2>5. CASE h.balance[F] # d
    <3> DEFINE turned == AvlRotate2(h, s, far)
    <3>1. Lowered \in {turned, RaisedEven(turned)}
      BY <1>6, <2>2, <2>3, <2>5 DEF Lowered
    <3>2. turned \in Heaps /\ Apart(h, turned, L)
      <4> HIDE DEF h, s, B, d, far, F
      <4>1. Apart(h, turned, L)
        BY <1>3, <1>5, <2>1, ApartRotate2
      <4>2. /\ AvlRotate2(h, s, far) \in Heaps
            /\ AvlRotate2(h, s, far).balance = [h.balance EXCEPT ![B] = -1, ![F] = -1]
            /\ Turned(h, AvlRotate2(h, s, far), s, far, B, F)
        BY <1>3, <1>5, <2>1, AvlRotate2Does
      <4> QED
        BY <4>1, <4>2
    <3> HIDE DEF turned
    <3>3. Apart(h, RaisedEven(turned), L)
      <4> DEFINE one == SetBalance(turned, B, far)
      <4>1. one \in Heaps /\ Apart(turned, one, L)
        <5>1. far \in {-1, 0, 1}
          BY <1>5 DEF Dirs
        <5> HIDE DEF B, far
        <5> QED
          BY <1>3, <1>5, <3>2, <5>1, SetBalanceType, ApartSetBalance
      <4>2. RaisedEven(turned) = SetBalance(one, F, d)
        BY <1>6 DEF RaisedEven
      <4> HIDE DEF one, F, d
      <4>3. Apart(one, RaisedEven(turned), L)
        BY <1>3, <2>2, <4>1, <4>2, ApartSetBalance
      <4> QED
        BY <3>2, <4>1, <4>3 DEF Apart
    <3> QED
      BY <1>2, <3>1, <3>2, <3>3
  <2> QED
    BY <2>4, <2>5
<1>9. h.balance[B] = -1 \/ h.balance[B] = d \/ h.balance[B] = far
  BY <1>5, <1>6 DEF Dirs
<1> QED
  BY <1>7, <1>8, <1>9

\* A step of insert, erase or count writes to no node of another tree.
LEMMA StepApart ==
  ASSUME TypeOK, NEW L, Own(L), [Next]_vars, NEW S, S \subseteq Keys, L \subseteq S,
         InsertLink => reg.key \in S
  PROVE  Apart(heap, heap', S)
<1>1. ASSUME Apart(heap, heap', L) PROVE Apart(heap, heap', S)
  BY <1>1 DEF Apart
<1>2. CASE InsertLink
  BY <1>2, InsertLinkApart
<1>3. CASE InsertShorterPath \/ InsertRotate2 \/ InsertRotate3
  BY <1>1, <1>3, InsertStage2Apart
<1>4. CASE InsertUpdate
  BY <1>1, <1>4, InsertUpdateApart
<1>5. CASE EraseLower
  BY <1>1, <1>5, EraseLowerApart
<1>6. CASE EraseUnlink
  BY <1>1, <1>6, EraseUnlinkApart
<1>7. CASE UNCHANGED heap
  BY <1>7, ApartSelf
<1>8. \/ InsertLink \/ InsertShorterPath \/ InsertRotate2 \/ InsertRotate3 \/ InsertUpdate
      \/ EraseLower \/ EraseUnlink \/ UNCHANGED heap
  BY DEF Next, Step, InsertStep, EraseStep, CountStep, InsertCall, EraseCall, CountCall, Call,
         InsertDescend, InsertPresent, InsertThrows, InsertBelowBalanced, InsertReturn,
         EraseDescend, EraseAbsent, EraseLocated, CountDescend, CountReturn, vars
<1> QED
  BY <1>2, <1>3, <1>4, <1>5, <1>6, <1>7, <1>8

-----------------------------------------------------------------------------
(* The two trees.                                                          *)

\* h, read from the root r.
From(h, r) == [h EXCEPT !.root = r]

LEMMA FromIs ==
  ASSUME NEW h \in Heaps, NEW r \in Ptrs
  PROVE  /\ From(h, r) \in Heaps
         /\ From(h, r).root = r
         /\ From(h, r).links = h.links /\ From(h, r).balance = h.balance
         /\ Get(From(h, r), RootSlot) = r /\ Get(h, RootSlot) = h.root
         /\ \A n \in Keys, d \in Dirs : Get(From(h, r), <<n, d>>) = Get(h, <<n, d>>)
         /\ From(h, h.root) = h
         /\ \A x : From([h EXCEPT !.root = x], r) = From(h, r)
BY NullIsNoKey DEF From, Heaps, Get, RootSlot

\* g has the links of h on the nodes M, and the same root.
Alike(h, g, M) ==
  /\ Get(g, RootSlot) = Get(h, RootSlot)
  /\ \A n \in M, d \in Dirs : Get(g, <<n, d>>) = Get(h, <<n, d>>)

LEMMA ShapeAlike ==
  ASSUME NEW h, NEW g, NEW M, M \subseteq Keys, Alike(h, g, M), NEW lo, NEW hi, Shape(h, M, lo, hi)
  PROVE  Shape(g, M, lo, hi)
<1>1. \A s \in TreeSlots(M) : Get(g, s) = Get(h, s)
  BY SlotCases DEF Alike
<1> QED
  BY <1>1 DEF Shape, Placed

LEMMA RestsAlike ==
  ASSUME NEW h, NEW g, NEW M, M \subseteq Keys, Alike(h, g, M), Rests(h, M),
         \A n \in M : g.balance[n] = h.balance[n]
  PROVE  Rests(g, M)
<1>1. PICK lo, hi, ht : Shape(h, M, lo, hi) /\ ht \in Heights(M) /\ Sound(h, M, ht, ht)
  BY DEF Rests
<1>2. Shape(g, M, lo, hi)
  BY <1>1, ShapeAlike
<1>3. ASSUME NEW n \in M PROVE Level(g, n, 0, ht, ht)
  <2>1. Level(h, n, 0, ht, ht)
    BY <1>1 DEF Sound
  <2>2. \A d \in Dirs : Tall(ht, Get(g, <<n, d>>)) = Tall(ht, Get(h, <<n, d>>))
    BY DEF Alike
  <2> QED
    BY <2>1, <2>2, LevelKept
<1> QED
  BY <1>1, <1>2, <1>3 DEF Rests, Sound

\* The tree with the root r rests, with the nodes O, when another tree is at work.
LEMMA OtherKept ==
  ASSUME NEW h \in Heaps, NEW g \in Heaps, NEW r \in Ptrs, NEW O, O \subseteq Keys,
         Rests(From(h, r), O), NEW S, Apart(h, g, S), S \cap O = {}
  PROVE  Rests(From(g, r), O)
<1>1. Alike(From(h, r), From(g, r), O)
  BY FromIs DEF Alike, Apart
<1>2. \A n \in O : From(g, r).balance[n] = From(h, r).balance[n]
  BY FromIs DEF Apart
<1> QED
  BY <1>1, <1>2, RestsAlike

AvlLabels == {"idle", "find_slot", "rebalance", "update", "find_target", "lower", "lookup"}

Walks == [order : Dirs, node : Ptrs, stack : Seq(Keys), capacity : Nat,
          visited : Seq(Keys), before : SUBSET Keys]

\* What clear, enumerate and swap leave alone until they return.
WalkCalled ==
  /\ reg = [NoRegs EXCEPT !.key = Null, !.nodep = RootSlot, !.path_top = RootSlot]
  /\ reply = Abstract!NoReply

TypeInv ==
  /\ heap \in Heaps /\ live \subseteq Keys /\ node_count \in Int /\ reg \in Regs
  /\ other \in [root : Ptrs, node_count : Int]
  /\ walk \in Walks
  /\ pc \in AvlLabels \cup TreeLabels
  /\ pc \in AvlLabels => TypeOK /\ walk = NoWalk
  /\ pc \in TreeLabels => WalkCalled

LEMMA Labels ==
  /\ AvlLabels \cap TreeLabels = {}
  /\ \A q : q \in TreeLabels <=> \/ q \in {"clear", "enumerate", "swap"}
                                 \/ q \in {"enum_down", "enum_visit"}
                                 \/ q \in {"clear_down", "clear_right", "clear_remove"}
BY DEF AvlLabels, TreeLabels, ClearLabels

LEMMA NoWalkType == NoWalk \in Walks
BY DEF NoWalk, Walks, Dirs, Ptrs

LEMMA TypeInvTypes ==
  ASSUME TypeInv
  PROVE  TreeTypeOK
<1>1. walk.node \in Ptrs /\ \A i \in DOMAIN walk.stack : walk.stack[i] \in Keys
  BY DEF TypeInv, Walks
<1>2. other.root \in Ptrs /\ other.node_count \in Int
  BY DEF TypeInv
<1>3. pc \notin TreeLabels => walk = NoWalk
  BY DEF TypeInv
<1> QED
  BY <1>1, <1>2, <1>3 DEF TypeInv, TreeTypeOK

-----------------------------------------------------------------------------
(* What a walk with an explicit stack keeps.                               *)

\* ht falls along the links of M.
Falling(h, M, ht) ==
  \A n \in M :
    /\ ht[n] \in Nat /\ ht[n] >= 1
    /\ \A d \in Dirs : Get(h, <<n, d>>) # Null => /\ Get(h, <<n, d>>) \in M
                                                  /\ ht[Get(h, <<n, d>>)] < ht[n]

\* From the bottom of the stack s up to n heights fall, and there is room.
Deep(M, ht, n, s, capacity) ==
  /\ n \in M /\ s \in Seq(M)
  /\ ht[n] + Len(s) <= capacity
  /\ \A i \in 1 .. Len(s) : ht[n] < ht[s[i]] /\ ht[s[i]] + i - 1 <= capacity
  /\ \A i, j \in 1 .. Len(s) : i < j => ht[s[j]] < ht[s[i]]

\* The order of a walk, and the ends of intervals as it meets them.
Precedes(o, a, b) == IF o = 0 THEN a < b ELSE b < a
NearEnd(o, lo, hi, n) == IF o = 0 THEN lo[n] ELSE hi[n]
FarEnd(o, lo, hi, n) == IF o = 0 THEN hi[n] ELSE lo[n]
FarLimit(o) == IF o = 0 THEN Ceil ELSE Bottom

\* The next element after all that is below n is on the top of the stack.
Nexts(o, lo, hi, n, s) ==
  /\ FarEnd(o, lo, hi, n) = IF Len(s) = 0 THEN FarLimit(o) ELSE s[Len(s)]
  /\ \A i \in 1 .. Len(s) : FarEnd(o, lo, hi, s[i]) = IF i = 1 THEN FarLimit(o) ELSE s[i - 1]

\* v has the elements T in the order of the walk.
Lists(o, v, T) ==
  /\ v \in Seq(T)
  /\ \A i, j \in 1 .. Len(v) : i < j => Precedes(o, v[i], v[j])
  /\ \A x \in T : \E i \in 1 .. Len(v) : v[i] = x

\* What has been visited before a step at n.
Done(q, o, M, lo, hi, n) ==
  IF q = "enum_down" THEN {x \in M : ~ Precedes(o, NearEnd(o, lo, hi, n), x)}
                     ELSE {x \in M : Precedes(o, x, n)}

EnumInv(q, h, M, w) ==
  \E lo, hi, ht :
    /\ Shape(h, M, lo, hi)
    /\ Falling(h, M, ht)
    /\ Deep(M, ht, w.node, w.stack, w.capacity)
    /\ Nexts(w.order, lo, hi, w.node, w.stack)
    /\ Lists(w.order, w.visited, Done(q, w.order, M, lo, hi, w.node))

\* The tree as clear has left it: at clear_remove the link to the right of the
\* node at hand may lead to a node that is no more.
Trim(h, q, n) == IF q = "clear_remove" THEN Put(h, <<n, 1>>, Null) ELSE h

\* s, and n after it, is a way down from the root, right only where there is no left.
WayTo(h, n, s) ==
  /\ h.root = IF Len(s) = 0 THEN n ELSE s[1]
  /\ \A i \in 1 .. Len(s) :
       \E d \in Dirs : /\ Get(h, <<s[i], d>>) = IF i = Len(s) THEN n ELSE s[i + 1]
                       /\ d = 1 => Get(h, <<s[i], 0>>) = Null

ClearTree(h, M, n, s, capacity) ==
  \E lo, hi, ht :
    /\ Shape(h, M, lo, hi)
    /\ Falling(h, M, ht)
    /\ Deep(M, ht, n, s, capacity)
    /\ WayTo(h, n, s)

ClearInv(q, h, M, w) ==
  /\ w.order = 0
  /\ ClearTree(Trim(h, q, w.node), M, w.node, w.stack, w.capacity)
  /\ q # "clear_down" => Get(h, <<w.node, 0>>) = Null

-----------------------------------------------------------------------------
(* The invariant.                                                          *)

\* Of the nodes in use M are those of the tree that is called and O those of
\* the other one.
Parts(M, O) ==
  /\ live = M \cup O /\ M \cap O = {}
  /\ Rests(From(heap, other.root), O)
  /\ other.node_count = Cardinality(O)
  /\ pc \in AvlLabels => Own(M) /\ CallInv(M)
  /\ pc = "find_slot" => reg.key \notin O
  /\ pc \in {"clear", "enumerate", "swap"} =>
       walk = [NoWalk EXCEPT !.order = walk.order, !.before = M]
  /\ pc = "clear" => walk.order = 0
  /\ pc \in {"clear", "enumerate", "swap", "enum_down", "enum_visit"} => Rests(heap, M)
  /\ pc \in {"clear", "enumerate", "swap", "enum_down", "enum_visit"} => node_count = Cardinality(M)
  /\ pc \in {"enum_down", "enum_visit"} => EnumInv(pc, heap, M, walk)
  /\ pc \in {"clear_down", "clear_right", "clear_remove"} => ClearInv(pc, heap, M, walk)

WholeInv == TypeInv /\ \E M, O : Parts(M, O)

-----------------------------------------------------------------------------
(* What the invariant says.                                                *)

LEMMA PartsTypes ==
  ASSUME TypeInv, NEW M, NEW O, Parts(M, O)
  PROVE  /\ M \subseteq Keys /\ O \subseteq Keys /\ M \cap O = {} /\ live = M \cup O
         /\ From(heap, other.root) \in Heaps
         /\ heap \in Heaps /\ other.root \in Ptrs
BY FromIs DEF TypeInv, Parts

LEMMA OtherReachIs ==
  ASSUME TypeInv, NEW M, NEW O, Parts(M, O)
  PROVE  OtherReach = O
<1>1. PICK lo, hi, ht : Shape(From(heap, other.root), O, lo, hi)
  BY DEF Parts, Rests
<1>2. heap \in Heaps /\ O \subseteq Keys /\ From(heap, other.root).links = heap.links
      /\ From(heap, other.root).root = other.root
  BY PartsTypes, FromIs
<1> DEFINE g == From(heap, other.root)
<1> HIDE DEF g
<1>3. LET w == Walk[MaxHeight][g.root] IN {w[i] : i \in DOMAIN w} = O
  BY <1>1, <1>2, WalkReaches DEF g
<1> QED
  BY <1>2, <1>3 DEF OtherReach, g

LEMMA OwnReach ==
  ASSUME heap \in Heaps, NEW M, Own(M)
  PROVE  Reach = M
<1>1. PICK lo, hi, ht : Fits(pc, heap, M, lo, hi, ht, reg)
  BY DEF Own
<1>2. Shape(heap, M, lo, hi) /\ M \subseteq Keys
  BY <1>1, OwnKeys DEF Fits
<1> QED
  BY <1>2, ReachIs

LEMMA RestsReach ==
  ASSUME heap \in Heaps, NEW M, M \subseteq Keys, Rests(heap, M)
  PROVE  Reach = M
BY ReachIs DEF Rests

LEMMA MainReach ==
  ASSUME TypeInv, NEW M, NEW O, Parts(M, O),
         pc \notin {"clear_down", "clear_right", "clear_remove"}
  PROVE  Reach = M
<1>1. heap \in Heaps /\ M \subseteq Keys
  BY PartsTypes
<1>2. CASE pc \in AvlLabels
  BY <1>1, <1>2, OwnReach DEF Parts
<1>3. CASE pc \in {"clear", "enumerate", "swap"}
  BY <1>1, <1>3, RestsReach DEF Parts
<1>4. CASE pc \in {"enum_down", "enum_visit"}
  <2>1. PICK lo, hi : Shape(heap, M, lo, hi)
    BY <1>4 DEF Parts, EnumInv
  <2> QED
    BY <1>1, <2>1, ReachIs
<1> QED
  BY <1>2, <1>3, <1>4, Labels DEF TypeInv

LEMMA OwnAtRest ==
  ASSUME pc = "idle", NEW M, M \subseteq Keys
  PROVE  Own(M) <=> Rests(heap, M)
<1>1. ASSUME NEW lo, NEW hi, NEW ht
      PROVE  Fits(pc, heap, M, lo, hi, ht, reg)
             <=> Shape(heap, M, lo, hi) /\ ht \in Heights(M) /\ Sound(heap, M, ht, ht)
  BY DEF Fits, Stage
<1> QED
  BY <1>1 DEF Own, Rests

LEMMA PartitionHolds ==
  ASSUME TypeInv, NEW M, NEW O, Parts(M, O)
  PROVE  HeapPartition
<1> SUFFICES ASSUME pc = "idle"
             PROVE  /\ Reach \cup OtherReach = live
                    /\ Reach \cap OtherReach = {}
                    /\ node_count = Cardinality(Reach)
                    /\ other.node_count = Cardinality(OtherReach)
  BY DEF HeapPartition
<1>1. Reach = M /\ OtherReach = O
  BY MainReach, OtherReachIs
<1>2. node_count = Cardinality(M)
  BY DEF Parts, CallInv, AvlLabels
<1> QED
  BY <1>1, <1>2 DEF Parts

LEMMA ClearTouchesHolds ==
  ASSUME TypeInv, NEW M, NEW O, Parts(M, O)
  PROVE  ClearTouchesLiveNodes
<1> SUFFICES ASSUME pc \in {"clear_down", "clear_right", "clear_remove"}
             PROVE  walk.node \in live /\ \A i \in DOMAIN walk.stack : walk.stack[i] \in live
  BY DEF ClearTouchesLiveNodes, ClearLabels
<1>1. PICK ht : Deep(M, ht, walk.node, walk.stack, walk.capacity)
  BY DEF Parts, ClearInv, ClearTree
<1>2. walk.node \in M /\ walk.stack \in Seq(M)
  BY <1>1 DEF Deep
<1>3. \A i \in DOMAIN walk.stack : walk.stack[i] \in M
  BY <1>2
<1> QED
  BY <1>2, <1>3 DEF Parts

\* Heights of a stack's nodes are positive: the stack fits.
LEMMA StackFitsHolds ==
  ASSUME TypeInv, NEW M, NEW O, Parts(M, O)
  PROVE  StackFits
<1>1. ASSUME NEW h, NEW ht, NEW n, NEW s, NEW c \in Nat, Deep(M, ht, n, s, c), Falling(h, M, ht)
      PROVE  Len(s) <= c
  <2>1. ht[n] \in Nat /\ s \in Seq(M) /\ ht[n] + Len(s) <= c
    BY <1>1 DEF Deep, Falling
  <2>2. Len(s) \in Nat
    BY <2>1
  <2> QED
    BY <2>1, <2>2
<1>2. walk.capacity \in Nat
  BY DEF TypeInv, Walks
<1>3. CASE pc \in AvlLabels \cup {"clear", "enumerate", "swap"}
  <2>1. walk.stack = <<>>
    <3>1. CASE pc \in AvlLabels
      BY <3>1 DEF TypeInv, NoWalk
    <3>2. ASSUME NEW o PROVE [NoWalk EXCEPT !.order = o, !.before = M].stack = <<>>
      BY DEF NoWalk
    <3>3. CASE pc \in {"clear", "enumerate", "swap"}
      BY <3>2, <3>3 DEF Parts
    <3> QED
      BY <1>3, <3>1, <3>3
  <2>2. Len(walk.stack) = 0
    BY <2>1
  <2> QED
    BY <1>2, <2>2 DEF StackFits
<1>4. CASE pc \in {"enum_down", "enum_visit"}
  BY <1>1, <1>2, <1>4 DEF StackFits, Parts, EnumInv
<1>5. CASE pc \in {"clear_down", "clear_right", "clear_remove"}
  BY <1>1, <1>2, <1>5 DEF StackFits, Parts, ClearInv, ClearTree
<1> QED
  BY <1>3, <1>4, <1>5, Labels DEF TypeInv

-----------------------------------------------------------------------------
(* The calls of AvlTree.                                                   *)

LEMMA WholeInit ==
  ASSUME TreeInit
  PROVE  TypeInv /\ Parts({}, {})
<1>1. Init /\ other = [root |-> Null, node_count |-> 0] /\ walk = NoWalk
  BY DEF TreeInit
<1>2. TypeOK /\ TreeInv /\ CallInv({}) /\ live = {} /\ pc = "idle" /\ heap.root = Null
  BY <1>1, TypeInit, InvInit, CallInit DEF Init
<1>3. Own({})
  BY <1>2 DEF TreeInv
<1>4. Rests(From(heap, other.root), {})
  <2>1. Rests(heap, {})
    BY <1>2, <1>3, OwnAtRest
  <2>2. From(heap, other.root) = heap
    BY <1>1, <1>2, FromIs DEF TypeOK, Ptrs
  <2> QED
    BY <2>1, <2>2
<1>5. TypeInv
  BY <1>1, <1>2, NoWalkType, Labels DEF TypeInv, AvlLabels, TypeOK, Ptrs
<1>6. Cardinality({}) = 0
  BY FS_EmptySet
<1> QED
  BY <1>1, <1>2, <1>3, <1>4, <1>5, <1>6 DEF Parts

\* A step of insert, erase or count.
AvlStep ==
  /\ [Next]_vars
  /\ pc \in AvlLabels
  /\ UNCHANGED <<other, walk>>
  /\ \A k \in Keys : InsertCall(k) => k \notin OtherReach

LEMMA AvlStepTypes ==
  ASSUME TypeInv, AvlStep
  PROVE  TypeInv'
<1>1. TypeOK /\ walk = NoWalk
  BY DEF TypeInv, AvlStep
<1>2. TypeOK'
  BY <1>1, TypeNext DEF AvlStep
<1>3. pc' \in AvlLabels
  BY <1>2 DEF TypeOK, AvlLabels
<1> QED
  BY <1>1, <1>2, <1>3, Labels DEF AvlStep, TypeInv, TypeOK

LEMMA FindSlotKey ==
  ASSUME TypeInv, AvlStep, NEW O, OtherReach = O, pc = "find_slot" => reg.key \notin O,
         pc' = "find_slot"
  PROVE  reg'.key \notin O
<1>1. CASE \E k \in Keys : InsertCall(k)
  <2>1. PICK k \in Keys : InsertCall(k)
    BY <1>1
  <2> QED
    BY <2>1 DEF AvlStep, InsertCall, Call, NoRegs
<1>2. CASE InsertDescend \/ UNCHANGED vars
  BY <1>2 DEF InsertDescend, vars, TypeInv, Regs
<1>3. (\E k \in Keys : InsertCall(k)) \/ InsertDescend \/ UNCHANGED vars
  BY DEF AvlStep, Next, Step, InsertStep, EraseStep, CountStep, EraseCall, CountCall, Call, Return,
         InsertPresent, InsertLink, InsertThrows, InsertBelowBalanced, InsertShorterPath,
         InsertRotate2, InsertRotate3, InsertUpdate, InsertReturn, ToUpdate,
         EraseDescend, EraseAbsent, EraseLocated, EraseLower, EraseUnlink, CountDescend, CountReturn
<1> QED
  BY <1>1, <1>2, <1>3

LEMMA AvlStepKeeps ==
  ASSUME TypeInv, NEW M, NEW O, Parts(M, O), AvlStep, NEW N, Nodes(M, N)
  PROVE  Parts(N, O)'
<1>1. /\ TypeOK /\ Own(M) /\ CallInv(M) /\ [Next]_vars /\ pc \in AvlLabels
      /\ UNCHANGED <<other, walk>>
  BY DEF TypeInv, Parts, AvlStep
<1>2. /\ M \subseteq Keys /\ O \subseteq Keys /\ M \cap O = {} /\ live = M \cup O
      /\ heap \in Heaps /\ other.root \in Ptrs
  BY PartsTypes
<1>3. Own(N)' /\ CallInv(N)'
  BY <1>1, OwnNext, CallNext
<1>4. InsertLink => reg.key \notin O /\ reg.key \in Keys
  BY <1>1 DEF InsertLink, Parts, TypeOK
<1>5. EraseUnlink => reg.key \in M /\ Get(heap, reg.targetp) = reg.key
  BY <1>1, FindsKey DEF EraseUnlink, Finds
<1>6. live' = N \cup O /\ N \cap O = {}
  <2>1. CASE InsertLink
    BY <1>2, <1>4, <2>1 DEF Nodes, InsertLink
  <2>2. CASE EraseUnlink
    BY <1>2, <1>5, <2>2, OneStage DEF Nodes, EraseUnlink
  <2>3. CASE ~ InsertLink /\ ~ EraseUnlink
    <3>1. UNCHANGED live
      BY <1>1, <2>3 DEF Next, Step, InsertStep, EraseStep, CountStep, InsertCall, EraseCall, CountCall,
         Call, InsertDescend, InsertPresent, InsertThrows, InsertBelowBalanced, InsertShorterPath,
         InsertRotate2, InsertRotate3, InsertUpdate, InsertReturn, ToUpdate,
         EraseDescend, EraseAbsent, EraseLocated, EraseLower, CountDescend, CountReturn, vars
    <3> QED
      BY <1>2, <2>3, <3>1 DEF Nodes
  <2> QED
    BY <2>1, <2>2, <2>3
<1>7. Rests(From(heap', other'.root), O)
  <2> DEFINE S == IF InsertLink THEN M \cup {reg.key} ELSE M
  <2>1. S \subseteq Keys /\ M \subseteq S /\ (InsertLink => reg.key \in S) /\ S \cap O = {}
    BY <1>2, <1>4
  <2> HIDE DEF S
  <2>2. Apart(heap, heap', S)
    BY <1>1, <2>1, StepApart
  <2>3. heap' \in Heaps
    BY <1>1, TypeNext DEF TypeOK
  <2>4. Rests(From(heap, other.root), O)
    BY DEF Parts
  <2>5. Rests(From(heap', other.root), O)
    BY <1>2, <2>1, <2>2, <2>3, <2>4, OtherKept
  <2> QED
    BY <1>1, <2>5
<1>8. pc' = "find_slot" => reg'.key \notin O
  BY OtherReachIs, FindSlotKey DEF Parts
<1>9. pc' \in AvlLabels
  BY <1>1, TypeNext DEF TypeOK, AvlLabels
<1>10. pc' \notin {"clear", "enumerate", "swap", "enum_down", "enum_visit", "clear_down",
                   "clear_right", "clear_remove"}
  BY <1>9 DEF AvlLabels
<1>11. other'.node_count = Cardinality(O)
  BY <1>1 DEF Parts
<1> QED
  BY <1>3, <1>6, <1>7, <1>8, <1>9, <1>10, <1>11 DEF Parts

-----------------------------------------------------------------------------
(* Calls and returns of clear, enumerate and swap.                         *)

\* The local variables when clear, enumerate or swap begins.
Fresh(o, M) == [NoWalk EXCEPT !.order = o, !.before = M]

LEMMA FreshType ==
  ASSUME NEW o \in Dirs, NEW M, M \subseteq Keys
  PROVE  /\ Fresh(o, M) \in Walks
         /\ Fresh(o, M).order = o /\ Fresh(o, M).before = M
         /\ Fresh(o, M).stack = <<>> /\ Fresh(o, M).visited = <<>>
<1>1. Fresh(o, M) \in Walks
  BY NoWalkType DEF Fresh, Walks
<1> QED
  BY <1>1 DEF Fresh, NoWalk

\* The registers, too.
LEMMA WalkRegs ==
  /\ [NoRegs EXCEPT !.key = Null, !.nodep = RootSlot, !.path_top = RootSlot] \in Regs
  /\ [NoRegs EXCEPT !.key = Null, !.nodep = RootSlot, !.path_top = RootSlot].key = Null
<1>1. RootSlot \in Slots /\ Null \in Ptrs
  BY DEF RootSlot, Slots, Ptrs, Dirs
<1> QED
  BY <1>1, NoRegsType DEF Regs

LEMMA WalkCallKeeps ==
  ASSUME TypeInv, NEW M, NEW O, Parts(M, O), NEW label \in {"clear", "enumerate", "swap"},
         NEW order \in Dirs, WalkCall(label, order), label = "clear" => order = 0
  PROVE  TypeInv' /\ Parts(M, O)'
<1>1. /\ pc = "idle" /\ pc' = label
      /\ reg' = [NoRegs EXCEPT !.key = Null, !.nodep = RootSlot, !.path_top = RootSlot]
      /\ reply' = Abstract!NoReply
      /\ walk' = [NoWalk EXCEPT !.order = order, !.before = Reach]
      /\ UNCHANGED <<heap, live, node_count, other>>
  BY DEF WalkCall, Call
<1>2. Reach = M /\ M \subseteq Keys
  BY <1>1, MainReach, PartsTypes
<1>3. walk' = [NoWalk EXCEPT !.order = walk'.order, !.before = M] /\ walk' \in Walks
      /\ walk'.order = order
  <2>1. walk' = Fresh(order, M)
    BY <1>1, <1>2 DEF Fresh
  <2>2. walk' \in Walks /\ walk'.order = order
    BY <2>1, <1>2, FreshType
  <2> QED
    BY <2>1, <2>2 DEF Fresh
<1>4. reg' \in Regs
  BY <1>1, WalkRegs
<1>5. pc' \in TreeLabels /\ pc' \notin AvlLabels
  BY <1>1, Labels
<1>6. TypeInv'
  BY <1>1, <1>3, <1>4, <1>5 DEF TypeInv, WalkCalled
<1>7. Own(M) /\ CallInv(M) /\ Rests(heap, M)
  BY <1>1, <1>2, OwnAtRest DEF Parts, AvlLabels
<1>8. Rests(heap', M) /\ Rests(From(heap', other'.root), O) /\ node_count' = Cardinality(M)
      /\ other'.node_count = Cardinality(O) /\ live' = M \cup O /\ M \cap O = {}
  BY <1>1, <1>7 DEF Parts, CallInv
<1>9. Parts(M, O)'
  BY <1>1, <1>3, <1>5, <1>8 DEF Parts
<1> QED
  BY <1>6, <1>9

\* A call has returned, and the trees have the nodes M and O.
Returned(M, O) ==
  /\ pc = "idle" /\ reg = NoRegs /\ walk = NoWalk
  /\ heap \in Heaps /\ other \in [root : Ptrs, node_count : Int]
  /\ M \subseteq Keys /\ O \subseteq Keys /\ M \cap O = {} /\ live = M \cup O
  /\ node_count = Cardinality(M) /\ other.node_count = Cardinality(O)
  /\ Rests(heap, M) /\ Rests(From(heap, other.root), O)

ReturnedIsWell == \A M, O : Returned(M, O) => TypeInv /\ Parts(M, O)

LEMMA ReturnedHas == ReturnedIsWell
<1> SUFFICES ASSUME NEW M, NEW O, Returned(M, O)
             PROVE  TypeInv /\ Parts(M, O)
  BY DEF ReturnedIsWell
<1>1. pc \in AvlLabels /\ pc \notin TreeLabels
  BY Labels DEF Returned, AvlLabels
<1>2. Cardinality(M) \in Int
  BY LiveFinite DEF Returned
<1>3. TypeOK
  BY <1>2, NoRegsType DEF Returned, TypeOK
<1>4. TypeInv
  BY <1>1, <1>2, <1>3, NoWalkType, NoRegsType DEF Returned, TypeInv
<1>5. Own(M)
  BY OwnAtRest DEF Returned
<1>6. CallInv(M)
  BY DEF Returned, CallInv
<1>7. Parts(M, O)
  BY <1>1, <1>5, <1>6 DEF Returned, Parts
<1> QED
  BY <1>4, <1>7

LEMMA ReturnedAfter ==
  ASSUME NEW M, NEW O, Returned(M, O)'
  PROVE  TypeInv' /\ Parts(M, O)'
<1>1. ReturnedIsWell'
  BY ReturnedHas, PTL
<1> QED
  BY <1>1 DEF ReturnedIsWell

\* A walk that ends without having changed anything.
LEMMA QuietReturn ==
  ASSUME TypeInv, NEW M, NEW O, Parts(M, O), pc' = "idle", reg' = NoRegs, walk' = NoWalk,
         UNCHANGED <<heap, live, node_count, other>>,
         node_count = Cardinality(M), Rests(heap, M)
  PROVE  TypeInv' /\ Parts(M, O)'
<1>1. Returned(M, O)'
  BY PartsTypes DEF Returned, Parts, TypeInv
<1> QED
  BY <1>1, ReturnedAfter

\* An empty tree.
LEMMA EmptyTree ==
  ASSUME TypeInv, NEW M, M \subseteq Keys, Rests(heap, M), heap.root = Null
  PROVE  M = {}
<1>1. PICK lo, hi : Shape(heap, M, lo, hi)
  BY DEF Rests
<1>2. Get(heap, RootSlot) = Null
  BY DEF Get, RootSlot
<1>3. RootSlot \in TreeSlots(M)
  BY DEF TreeSlots
<1>4. \A x \in M : ~ Inside(lo, hi, RootSlot, x)
  BY <1>1, <1>2, <1>3 DEF Shape, Placed
<1>5. \A x \in M : Inside(lo, hi, RootSlot, x)
  BY SlotEnds, Sentinels DEF Inside
<1> QED
  BY <1>4, <1>5

LEMMA SwapKeeps ==
  ASSUME TypeInv, NEW M, NEW O, Parts(M, O), SwapReturn
  PROVE  TypeInv' /\ Parts(O, M)'
<1>1. /\ pc = "swap" /\ pc' = "idle" /\ reg' = NoRegs /\ walk' = NoWalk
      /\ heap' = From(heap, other.root) /\ node_count' = other.node_count
      /\ other' = [root |-> heap.root, node_count |-> node_count] /\ live' = live
  BY DEF SwapReturn, Return, From, Exchanged
<1>2. /\ M \subseteq Keys /\ O \subseteq Keys /\ M \cap O = {} /\ live = M \cup O
      /\ heap \in Heaps /\ other.root \in Ptrs /\ From(heap, other.root) \in Heaps
      /\ heap.root \in Ptrs
  BY PartsTypes DEF Heaps
<1>3. Rests(heap, M) /\ node_count = Cardinality(M)
      /\ Rests(From(heap, other.root), O) /\ other.node_count = Cardinality(O)
  BY <1>1 DEF Parts
<1>4. From(heap', heap.root) = heap
  BY <1>1, <1>2, FromIs DEF From
<1>5. Returned(O, M)'
  BY <1>1, <1>2, <1>3, <1>4 DEF Returned, TypeInv
<1> QED
  BY <1>5, ReturnedAfter

LEMMA ClearEmptyKeeps ==
  ASSUME TypeInv, NEW M, NEW O, Parts(M, O), ClearEmpty
  PROVE  TypeInv' /\ Parts(M, O)' /\ M = {}
<1>1. /\ pc = "clear" /\ heap.root = Null
      /\ pc' = "idle" /\ reg' = NoRegs /\ walk' = NoWalk
      /\ UNCHANGED <<heap, live, node_count, other>>
  BY DEF ClearEmpty, Return
<1>2. Rests(heap, M) /\ node_count = Cardinality(M) /\ M \subseteq Keys
  BY <1>1, PartsTypes DEF Parts
<1> QED
  BY <1>1, <1>2, QuietReturn, EmptyTree

LEMMA EnumEmptyKeeps ==
  ASSUME TypeInv, NEW M, NEW O, Parts(M, O), EnumEmpty
  PROVE  TypeInv' /\ Parts(M, O)' /\ M = {}
<1>1. /\ pc = "enumerate" /\ heap.root = Null
      /\ pc' = "idle" /\ reg' = NoRegs /\ walk' = NoWalk
      /\ UNCHANGED <<heap, live, node_count, other>>
  BY DEF EnumEmpty, EnumReturn
<1>2. Rests(heap, M) /\ node_count = Cardinality(M) /\ M \subseteq Keys
  BY <1>1, PartsTypes DEF Parts
<1> QED
  BY <1>1, <1>2, QuietReturn, EmptyTree

-----------------------------------------------------------------------------
(* The buffer is large enough: a tree of height h has so many nodes that   *)
(* one and a half times the length of their number is h at least.          *)

LEMMA HalvesAre ==
  ASSUME NEW n \in Nat
  PROVE  /\ n \div 2 \in Nat /\ n \div 2 <= n
         /\ n # 0 => n \div 2 <= n - 1
         /\ n \div 4 = (n \div 2) \div 2 /\ n \div 4 \in Nat
         /\ n >= 2 => n \div 2 # 0
         /\ \A m \in Nat : n >= 4 * m => n \div 4 >= m
OBVIOUS

LEMMA BitLengthIs ==
  /\ BitLength \in [Nat -> Nat]
  /\ \A n \in Nat : BitLength[n] = IF n = 0 THEN 0 ELSE 1 + BitLength[n \div 2]
<1> DEFINE A == [Nat -> Nat]
           a == [n \in Nat |-> 0]
           Body(x) == [n \in Nat |-> IF n = 0 THEN 0 ELSE 1 + x[n \div 2]]
           G == [x \in A |-> Body(x)]
<1>1. a \in A /\ \A x \in A : Body(x) \in A
  BY HalvesAre
<1>2. G \in [A -> A]
  BY <1>1
<1> HIDE DEF Body
<1>3. PICK w : Recurs(A, a, G, w)
  <2>1. Goes(A, a, G)
    BY <1>1, <1>2 DEF Goes
  <2> HIDE DEF A, a, G
  <2> QED
    BY <2>1, Recursion
<1>4. w \in [Nat -> A] /\ w[0] = a /\ \A h \in Nat : w[h + 1] = G[w[h]]
  <2> HIDE DEF A, a, G
  <2> QED
    BY <1>3 DEF Recurs
<1>5. /\ \A n \in Nat : w[0][n] = 0
      /\ \A h \in Nat : w[h] \in [Nat -> Nat]
      /\ \A h \in Nat, n \in Nat : w[h + 1][n] = IF n = 0 THEN 0 ELSE 1 + w[h][n \div 2]
  <2>1. \A x \in A, n \in Nat : G[x][n] = IF n = 0 THEN 0 ELSE 1 + x[n \div 2]
    BY DEF Body
  <2>2. a \in [Nat -> Nat] /\ \A n \in Nat : a[n] = 0
    OBVIOUS
  <2>3. \A h \in Nat : w[h] \in A /\ w[h] \in [Nat -> Nat]
    BY <1>4
  <2> HIDE DEF A, a, G
  <2>4. \A n \in Nat : w[0][n] = 0
    BY <1>4, <2>2
  <2>5. ASSUME NEW h \in Nat, NEW n \in Nat
        PROVE  w[h + 1][n] = IF n = 0 THEN 0 ELSE 1 + w[h][n \div 2]
    <3>1. w[h] \in A /\ w[h + 1] = G[w[h]]
      BY <1>4
    <3>2. G[w[h]][n] = IF n = 0 THEN 0 ELSE 1 + w[h][n \div 2]
      BY <2>1, <3>1
    <3> QED
      BY <3>1, <3>2
  <2> QED
    BY <2>3, <2>4, <2>5
<1> HIDE DEF A, a, G
<1>6. \A k \in Nat : \A n \in Nat : n <= k => w[k + 1][n] = w[k][n]
  <2> DEFINE S == {k \in Nat : \A n \in Nat : n <= k => w[k + 1][n] = w[k][n]}
  <2>1. 0 \in S
    BY <1>5
  <2>2. ASSUME NEW k \in Nat, k \in S PROVE k + 1 \in S
    <3> SUFFICES ASSUME NEW n \in Nat, n <= k + 1 PROVE w[k + 1 + 1][n] = w[k + 1][n]
      OBVIOUS
    <3>1. w[k + 1 + 1][n] = IF n = 0 THEN 0 ELSE 1 + w[k + 1][n \div 2]
      <4>1. k + 1 \in Nat /\ n \in Nat
        OBVIOUS
      <4> QED
        BY <1>5, <4>1
    <3>2. w[k + 1][n] = IF n = 0 THEN 0 ELSE 1 + w[k][n \div 2]
      BY <1>5
    <3>3. n # 0 => n \div 2 \in Nat /\ n \div 2 <= k
      BY HalvesAre
    <3> QED
      BY <2>2, <3>1, <3>2, <3>3
  <2> HIDE DEF S
  <2>3. \A k \in Nat : k \in S
    BY <2>1, <2>2, NoGap
  <2> QED
    BY <2>3 DEF S
<1>7. \A j \in Nat : \A n \in Nat : w[n + j][n] = w[n][n]
  <2> DEFINE S == {j \in Nat : \A n \in Nat : w[n + j][n] = w[n][n]}
  <2>1. 0 \in S
    OBVIOUS
  <2>2. ASSUME NEW j \in Nat, j \in S PROVE j + 1 \in S
    <3> SUFFICES ASSUME NEW n \in Nat PROVE w[n + (j + 1)][n] = w[n][n]
      OBVIOUS
    <3>1. n + j \in Nat /\ n <= n + j /\ n + (j + 1) = (n + j) + 1
      OBVIOUS
    <3>2. w[(n + j) + 1][n] = w[n + j][n]
      BY <3>1, <1>6
    <3> QED
      BY <2>2, <3>1, <3>2
  <2> HIDE DEF S
  <2>3. \A j \in Nat : j \in S
    BY <2>1, <2>2, NoGap
  <2> QED
    BY <2>3 DEF S
<1> DEFINE B == [n \in Nat |-> w[n][n]]
           R(v) == [n \in Nat |-> IF n = 0 THEN 0 ELSE 1 + v[n \div 2]]
<1>8. ASSUME NEW n \in Nat PROVE w[n][n] = IF n = 0 THEN 0 ELSE 1 + w[n \div 2][n \div 2]
  <2>1. CASE n = 0
    BY <2>1, <1>5
  <2>2. CASE n # 0
    <3> DEFINE m == n \div 2
               j == n - 1 - m
    <3>1. m \in Nat /\ j \in Nat /\ m + j = n - 1 /\ n - 1 \in Nat /\ (n - 1) + 1 = n
      BY <2>2, HalvesAre
    <3> HIDE DEF m, j
    <3>2. w[n - 1][m] = w[m][m]
      BY <3>1, <1>7
    <3>3. w[(n - 1) + 1][n] = IF n = 0 THEN 0 ELSE 1 + w[n - 1][n \div 2]
      BY <3>1, <1>5
    <3> QED
      BY <2>2, <3>1, <3>2, <3>3 DEF m
  <2> QED
    BY <2>1, <2>2
<1>9. B = R(B)
  BY <1>8, HalvesAre
<1>10. BitLength = CHOOSE v : v = R(v)
  BY DEF BitLength
<1> HIDE DEF B, R
<1>11. BitLength = R(BitLength)
  BY <1>9, <1>10
<1>12. /\ BitLength = [n \in Nat |-> BitLength[n]]
       /\ \A n \in Nat : BitLength[n] = IF n = 0 THEN 0 ELSE 1 + BitLength[n \div 2]
  <2> DEFINE v == BitLength
  <2> HIDE DEF v
  <2>1. v = [n \in Nat |-> IF n = 0 THEN 0 ELSE 1 + v[n \div 2]]
    BY <1>11 DEF R, v
  <2>2. /\ v = [n \in Nat |-> v[n]]
        /\ \A n \in Nat : v[n] = IF n = 0 THEN 0 ELSE 1 + v[n \div 2]
    BY <2>1
  <2> QED
    BY <2>2 DEF v
<1>13. \A m \in Nat : \A n \in Nat : n <= m => BitLength[n] \in Nat
  <2> DEFINE S == {m \in Nat : \A n \in Nat : n <= m => BitLength[n] \in Nat}
  <2>1. 0 \in S
    BY <1>12
  <2>2. ASSUME NEW m \in Nat, m \in S PROVE m + 1 \in S
    <3> SUFFICES ASSUME NEW n \in Nat, n <= m + 1 PROVE BitLength[n] \in Nat
      OBVIOUS
    <3>1. n # 0 => n \div 2 \in Nat /\ n \div 2 <= m
      BY HalvesAre
    <3> QED
      BY <2>2, <3>1, <1>12
  <2> HIDE DEF S
  <2>3. \A m \in Nat : m \in S
    BY <2>1, <2>2, NoGap
  <2> QED
    BY <2>3 DEF S
<1>14. \A n \in Nat : BitLength[n] \in Nat
  BY <1>13
<1> QED
  BY <1>12, <1>14

\* f[h] is the number of nodes that a tree of height h has at least.
IsFewest(f) ==
  /\ f \in [Nat -> Nat] /\ f[0] = 0 /\ f[1] = 1
  /\ \A h \in Nat : f[h + 2] = 1 + f[h] + f[h + 1]

LEMMA SomeFewest == \E f : IsFewest(f)
<1> DEFINE A == Nat \X Nat
           a == <<0, 1>>
           G == [p \in A |-> <<p[2], 1 + p[1] + p[2]>>]
<1>1. a \in A /\ G \in [A -> A]
  OBVIOUS
<1>2. \A p \in A : G[p][1] = p[2] /\ G[p][2] = 1 + p[1] + p[2]
  OBVIOUS
<1>a. a[1] = 0 /\ a[2] = 1
  OBVIOUS
<1>b. \A p \in A : p[1] \in Nat /\ p[2] \in Nat
  OBVIOUS
<1> HIDE DEF A, a, G
<1>3. PICK w : Recurs(A, a, G, w)
  <2>1. Goes(A, a, G)
    BY <1>1 DEF Goes
  <2> QED
    BY <2>1, Recursion
<1>4. w \in [Nat -> A] /\ w[0] = a /\ \A h \in Nat : w[h + 1] = G[w[h]]
  BY <1>3 DEF Recurs
<1> DEFINE f == [h \in Nat |-> w[h][1]]
<1>5. \A h \in Nat : w[h] \in A /\ w[h][1] \in Nat /\ w[h][2] \in Nat
  BY <1>4, <1>b
<1>6. \A h \in Nat : w[h + 1][1] = w[h][2] /\ w[h + 1][2] = 1 + w[h][1] + w[h][2]
  BY <1>2, <1>4, <1>5
<1>7. ASSUME NEW h \in Nat PROVE w[h + 2][1] = 1 + w[h][1] + w[h + 1][1]
  <2>1. h + 1 \in Nat /\ h + 2 = (h + 1) + 1
    OBVIOUS
  <2>2. w[(h + 1) + 1][1] = w[h + 1][2]
    BY <2>1, <1>6
  <2> QED
    BY <2>1, <2>2, <1>5, <1>6
<1>8. w[0][1] = 0 /\ w[1][1] = 1
  <2>1. w[0 + 1][1] = w[0][2]
    BY <1>6
  <2> QED
    BY <2>1, <1>4, <1>a
<1>9. f \in [Nat -> Nat]
  BY <1>5
<1>10. f[0] = 0 /\ f[1] = 1 /\ \A h \in Nat : f[h + 2] = 1 + f[h] + f[h + 1]
  BY <1>7, <1>8
<1> QED
  BY <1>9, <1>10 DEF IsFewest

LEMMA FewestGrow ==
  ASSUME NEW f, IsFewest(f)
  PROVE  \A h \in Nat : f[h] \in Nat /\ f[h] <= f[h + 1] /\ f[h + 3] >= 4 * f[h]
<1>1. /\ \A h \in Nat : f[h] \in Nat
      /\ f[0] = 0 /\ f[1] = 1
      /\ \A h \in Nat : f[h + 2] = 1 + f[h] + f[h + 1]
  BY DEF IsFewest
<1>2. \A h \in Nat : f[h] <= f[h + 1]
  <2> SUFFICES ASSUME NEW h \in Nat PROVE f[h] <= f[h + 1]
    OBVIOUS
  <2>1. CASE h = 0
    BY <1>1, <2>1
  <2>2. CASE h # 0
    <3> DEFINE m == h - 1
    <3>1. m \in Nat /\ m + 1 = h /\ m + 2 = h + 1
      BY <2>2
    <3> HIDE DEF m
    <3>2. f[m + 2] = 1 + f[m] + f[m + 1] /\ f[m] \in Nat /\ f[m + 1] \in Nat
      BY <1>1, <3>1
    <3> QED
      BY <3>1, <3>2
  <2> QED
    BY <2>1, <2>2
<1>3. ASSUME NEW h \in Nat PROVE f[h + 3] >= 4 * f[h]
  <2>1. /\ f[h + 3] = 1 + f[h + 1] + f[h + 2] /\ f[h + 2] = 1 + f[h] + f[h + 1]
        /\ f[h] \in Nat /\ f[h + 1] \in Nat /\ f[h + 2] \in Nat
    <3>1. h + 1 \in Nat /\ (h + 1) + 2 = h + 3 /\ (h + 1) + 1 = h + 2 /\ h + 2 \in Nat
      OBVIOUS
    <3>2. f[(h + 1) + 2] = 1 + f[h + 1] + f[(h + 1) + 1]
      BY <1>1, <3>1
    <3> QED
      BY <1>1, <3>1, <3>2
  <2>2. CASE h = 0
    BY <1>1, <2>1, <2>2
  <2>3. CASE h = 1
    <3>1. f[2] = 1 + f[0] + f[1] /\ f[1] = 1 /\ f[0] = 0
      <4>1. f[0 + 2] = 1 + f[0] + f[0 + 1]
        BY <1>1
      <4> QED
        BY <1>1, <4>1
    <3>2. h + 1 = 2 /\ h + 2 = 3
      BY <2>3
    <3> QED
      BY <2>1, <2>3, <3>1, <3>2
  <2>4. CASE h >= 2
    <3> DEFINE m == h - 2
    <3>1. m \in Nat /\ m + 1 \in Nat /\ m + 2 = h /\ (m + 1) + 1 = h /\ (m + 1) + 2 = h + 1
      BY <2>4
    <3> HIDE DEF m
    <3>2. f[m + 2] = 1 + f[m] + f[m + 1] /\ f[m] \in Nat /\ f[m + 1] \in Nat
      BY <1>1, <3>1
    <3>3. f[(m + 1) + 2] = 1 + f[m + 1] + f[(m + 1) + 1]
      BY <1>1, <3>1
    <3>4. f[m] <= f[m + 1]
      BY <1>2, <3>1
    <3>5. f[h] = 1 + f[m] + f[m + 1] /\ f[h + 1] = 1 + f[m + 1] + f[h]
      BY <3>1, <3>2, <3>3
    <3>6. f[h + 3] = 2 + f[h] + 2 * f[h + 1]
      BY <2>1
    <3> QED
      BY <2>1, <3>2, <3>4, <3>5, <3>6
  <2> QED
    BY <2>2, <2>3, <2>4
<1> QED
  BY <1>1, <1>2, <1>3

LEMMA BufferCovers ==
  ASSUME NEW f, IsFewest(f)
  PROVE  /\ \A n \in Nat : BufferSize(n) \in Nat
         /\ \A h \in Nat : \A n \in Nat : n >= f[h] => BufferSize(n) >= h
<1>1. \A n \in Nat : BitLength[n] \in Nat
  BY BitLengthIs
<1>2. \A n \in Nat : BufferSize(n) \in Nat
  BY <1>1 DEF BufferSize
<1>3. ASSUME NEW n \in Nat, n >= 2 PROVE BufferSize(n) = 3 + BufferSize(n \div 4)
  <2>1. /\ n \div 2 \in Nat /\ n \div 4 \in Nat /\ n # 0 /\ n \div 2 # 0
        /\ (n \div 2) \div 2 = n \div 4
    <3>1. n # 0 /\ n \div 2 # 0
      BY <1>3
    <3> QED
      BY <3>1, HalvesAre
  <2>2. BitLength[n] = 1 + BitLength[n \div 2]
    BY <2>1, BitLengthIs
  <2>3. BitLength[n \div 2] = 1 + BitLength[n \div 4]
    BY <2>1, BitLengthIs
  <2>4. BitLength[n] = 2 + BitLength[n \div 4] /\ BitLength[n \div 4] \in Nat
    BY <2>1, <2>2, <2>3, <1>1
  <2>5. \A b \in Nat : (2 + b) \div 2 = 1 + b \div 2 /\ b \div 2 \in Nat
    OBVIOUS
  <2> QED
    BY <2>4, <2>5 DEF BufferSize
<1> DEFINE P(h) == \A n \in Nat : n >= f[h] => BufferSize(n) >= h
           S == {h \in Nat : P(h) /\ P(h + 1) /\ P(h + 2)}
<1>f. /\ \A h \in Nat : f[h] \in Nat /\ f[h + 3] >= 4 * f[h]
      /\ f[0] = 0 /\ f[1] = 1 /\ f[2] = 2 /\ f[3] = 4
  <2>1. f[0 + 2] = 1 + f[0] + f[0 + 1] /\ f[1 + 2] = 1 + f[1] + f[1 + 1]
    BY DEF IsFewest
  <2>2. f[0] = 0 /\ f[1] = 1
    BY DEF IsFewest
  <2> QED
    BY <2>1, <2>2, FewestGrow
<1>4. 0 \in S
  <2>1. BitLength[0] = 0 /\ BitLength[1] = 1
    <3>1. BitLength[0] = 0
      BY BitLengthIs
    <3>2. BitLength[1] = 1 + BitLength[1 \div 2] /\ 1 \div 2 = 0
      BY BitLengthIs
    <3> QED
      BY <3>1, <3>2
  <2>2. BufferSize(0) = 0 /\ BufferSize(1) = 1
    BY <2>1 DEF BufferSize
  <2>3. P(0) /\ P(1) /\ P(2)
    <3>1. \A n \in Nat : n >= 2 => BufferSize(n) >= 3
      <4> SUFFICES ASSUME NEW n \in Nat, n >= 2 PROVE BufferSize(n) >= 3
        OBVIOUS
      <4>1. BufferSize(n) = 3 + BufferSize(n \div 4) /\ n \div 4 \in Nat
        BY <1>3, HalvesAre
      <4>2. BufferSize(n \div 4) \in Nat
        BY <4>1, <1>2
      <4> QED
        BY <4>1, <4>2
    <3> QED
      BY <1>2, <1>f, <2>2, <3>1
  <2> QED
    BY <2>3
<1>5. ASSUME NEW h \in Nat, h \in S PROVE h + 1 \in S
  <2>1. P(h) /\ P(h + 1) /\ P(h + 2) /\ (h + 1) + 1 = h + 2 /\ (h + 1) + 2 = h + 3
    BY <1>5
  <2>2. ASSUME NEW n \in Nat, n >= f[h + 3] PROVE BufferSize(n) >= h + 3
    <3>1. n >= 4 * f[h] /\ f[h] \in Nat /\ f[h + 3] \in Nat
      <4>1. f[h] \in Nat /\ f[h + 3] \in Nat /\ f[h + 3] >= 4 * f[h]
        BY <1>f
      <4> QED
        BY <2>2, <4>1
    <3>2. n \div 4 \in Nat /\ n \div 4 >= f[h]
      BY <3>1, HalvesAre
    <3>3. BufferSize(n \div 4) >= h /\ BufferSize(n \div 4) \in Nat
      BY <2>1, <3>2, <1>2
    <3>4. f[3] <= f[h + 3]
      <4> DEFINE T == {m \in Nat : f[3] <= f[m + 3]}
      <4>1. 0 \in T
        BY <1>f
      <4>2. ASSUME NEW m \in Nat, m \in T PROVE m + 1 \in T
        <5>1. f[m + 3] \in Nat /\ f[m + 3] <= f[(m + 3) + 1] /\ f[(m + 3) + 1] \in Nat
          BY FewestGrow
        <5>2. (m + 3) + 1 = (m + 1) + 3
          OBVIOUS
        <5> QED
          BY <4>2, <5>1, <5>2, <1>f
      <4> HIDE DEF T
      <4>3. \A m \in Nat : m \in T
        BY <4>1, <4>2, NoGap
      <4> QED
        BY <4>3 DEF T
    <3>5. n >= 2
      BY <2>2, <3>1, <3>4, <1>f
    <3> QED
      BY <3>3, <3>5, <1>3
  <2>3. P(h + 3)
    BY <2>2
  <2> HIDE DEF P
  <2> QED
    BY <2>1, <2>3
<1>6. \A h \in Nat : h \in S
  <2> HIDE DEF S
  <2> QED
    BY <1>4, <1>5, NoGap
<1> QED
  BY <1>2, <1>6

\* The nodes below a slot are at least as many as their height asks for.
Peopled(f, g, M, lo, hi, ht, s) ==
  Cardinality(Under(M, lo, hi, s)) >= f[Tall(ht, Get(g, s))]

LEMMA CountSides ==
  ASSUME NEW M, M \subseteq Keys, NEW lo, NEW hi, NEW s, NEW n \in M, Sides(M, lo, hi, s, n)
  PROVE  Cardinality(Under(M, lo, hi, s))
         = 1 + Cardinality(Under(M, lo, hi, <<n, 0>>)) + Cardinality(Under(M, lo, hi, <<n, 1>>))
<1> DEFINE U == Under(M, lo, hi, s)
           A == Under(M, lo, hi, <<n, 0>>)
           B == Under(M, lo, hi, <<n, 1>>)
<1>1. \A x \in M : /\ Inside(lo, hi, <<n, 0>>, x) => x < n /\ Inside(lo, hi, s, x)
                   /\ Inside(lo, hi, <<n, 1>>, x) => n < x /\ Inside(lo, hi, s, x)
                   /\ Inside(lo, hi, s, x) => x = n \/ Inside(lo, hi, <<n, 0>>, x) \/ Inside(lo, hi, <<n, 1>>, x)
                   /\ Inside(lo, hi, s, n)
                   /\ ~ Inside(lo, hi, <<n, 0>>, n) /\ ~ Inside(lo, hi, <<n, 1>>, n)
  BY SidesInside
<1>2. U = (A \cup B) \cup {n} /\ A \cap B = {} /\ n \notin A \cup B
  <2>1. M \subseteq Int
    BY KeysAreNumbers
  <2>2. /\ \A x : x \in U <=> x \in M /\ Inside(lo, hi, s, x)
        /\ \A x : x \in A <=> x \in M /\ Inside(lo, hi, <<n, 0>>, x)
        /\ \A x : x \in B <=> x \in M /\ Inside(lo, hi, <<n, 1>>, x)
    BY DEF Under
  <2> HIDE DEF U, A, B
  <2>3. n \notin A \cup B
    BY <1>1, <2>2
  <2>4. \A x : ~ (x \in A /\ x \in B)
    <3> SUFFICES ASSUME NEW x, x \in A, x \in B PROVE FALSE
      OBVIOUS
    <3>1. x \in M /\ x < n /\ n < x
      BY <1>1, <2>2
    <3> QED
      BY <2>1, <3>1
  <2>5. ASSUME NEW x PROVE x \in U <=> x \in A \/ x \in B \/ x = n
    BY <1>1, <2>2
  <2>6. U = (A \cup B) \cup {n}
    BY <2>5
  <2> QED
    BY <2>3, <2>4, <2>6
<1>3. /\ IsFiniteSet(A) /\ IsFiniteSet(B)
      /\ Cardinality(A) \in Nat /\ Cardinality(B) \in Nat
  BY UnderFinite
<1> HIDE DEF U, A, B
<1>4. IsFiniteSet(A \cup B) /\ Cardinality(A \cup B) = Cardinality(A) + Cardinality(B) - Cardinality(A \cap B)
  BY <1>3, FS_Union
<1>5. Cardinality({}) = 0
  BY FS_EmptySet
<1>6. Cardinality((A \cup B) \cup {n}) = Cardinality(A \cup B) + 1
  BY <1>2, <1>4, FS_AddElement
<1>7. Cardinality(U) = 1 + Cardinality(A) + Cardinality(B)
  <2>1. Cardinality(A \cap B) = 0
    BY <1>2, <1>5
  <2>2. Cardinality(U) = Cardinality(A \cup B) + 1
    BY <1>2, <1>6
  <2> QED
    BY <1>3, <1>4, <2>1, <2>2
<1> QED
  BY <1>7 DEF U, A, B

LEMMA AllPeopled ==
  ASSUME NEW g, NEW M, M \subseteq Keys, NEW lo, NEW hi, Shape(g, M, lo, hi),
         NEW ht \in Heights(M), Sound(g, M, ht, ht), NEW f, IsFewest(f)
  PROVE  \A s \in TreeSlots(M) : Peopled(f, g, M, lo, hi, ht, s)
<1> DEFINE S == {h \in Nat : \A s \in TreeSlots(M) :
                               Tall(ht, Get(g, s)) <= h => Peopled(f, g, M, lo, hi, ht, s)}
<1>1. ASSUME NEW s \in TreeSlots(M)
      PROVE  Get(g, s) = Null \/ Get(g, s) \in M
  BY DEF Shape, Placed
<1>2. \A s \in TreeSlots(M) : Tall(ht, Get(g, s)) \in Nat
  BY <1>1 DEF Tall, Heights
<1>3. ASSUME NEW s \in TreeSlots(M), Get(g, s) # Null
      PROVE  Weighs(g.balance[Get(g, s)], 0, Tall(ht, Get(g, s)),
                    Tall(ht, Get(g, <<Get(g, s), 0>>)), Tall(ht, Get(g, <<Get(g, s), 1>>)))
  <2>1. Get(g, s) \in M
    BY <1>1, <1>3
  <2>2. Level(g, Get(g, s), 0, ht, ht)
    BY <2>1 DEF Sound
  <2> QED
    BY <1>3, <2>2 DEF Level, Tall
<1>f. f[0] = 0 /\ f[1] = 1 /\ \A h \in Nat : f[h] \in Nat /\ f[h] <= f[h + 1]
                                             /\ f[h + 2] = 1 + f[h] + f[h + 1]
  BY FewestGrow DEF IsFewest
<1>u. \A s : Cardinality(Under(M, lo, hi, s)) \in Nat
  BY UnderFinite
<1>4. 0 \in S
  <2> SUFFICES ASSUME NEW s \in TreeSlots(M), Tall(ht, Get(g, s)) <= 0
               PROVE  Peopled(f, g, M, lo, hi, ht, s)
    OBVIOUS
  <2>1. Tall(ht, Get(g, s)) = 0
    BY <1>2
  <2> QED
    BY <2>1, <1>f, <1>u DEF Peopled
<1>5. ASSUME NEW h \in Nat, h \in S PROVE h + 1 \in S
  <2> SUFFICES ASSUME NEW s \in TreeSlots(M), Tall(ht, Get(g, s)) <= h + 1,
                      Tall(ht, Get(g, s)) # 0
               PROVE  Peopled(f, g, M, lo, hi, ht, s)
    <3>1. ASSUME NEW s \in TreeSlots(M), Tall(ht, Get(g, s)) = 0
          PROVE  Peopled(f, g, M, lo, hi, ht, s)
      BY <3>1, <1>f, <1>u DEF Peopled
    <3> QED
      BY <3>1
  <2> DEFINE n == Get(g, s)
             x == Tall(ht, Get(g, <<n, 0>>))
             y == Tall(ht, Get(g, <<n, 1>>))
             own == Tall(ht, n)
             A == Cardinality(Under(M, lo, hi, <<n, 0>>))
             B == Cardinality(Under(M, lo, hi, <<n, 1>>))
  <2>1. n # Null /\ n \in M
    BY <1>1 DEF Tall
  <2>2. Weighs(g.balance[n], 0, own, x, y)
    BY <2>1, <1>3
  <2>3. Sides(M, lo, hi, s, n)
    BY <2>1, SidesOf
  <2>4. Cardinality(Under(M, lo, hi, s)) = 1 + A + B
    BY <2>1, <2>3, CountSides
  <2>5. <<n, 0>> \in TreeSlots(M) /\ <<n, 1>> \in TreeSlots(M)
    BY <2>1 DEF TreeSlots, Dirs
  <2>6. x \in Nat /\ y \in Nat /\ own \in Nat /\ own <= h + 1 /\ A \in Nat /\ B \in Nat
    BY <2>5, <1>2, <1>u
  <2>7. x <= h /\ y <= h
    <3> HIDE DEF n, x, y, own
    <3> QED
      BY <2>2, <2>6 DEF Weighs, Higher
  <2>8. A >= f[x] /\ B >= f[y]
    BY <1>5, <2>5, <2>7 DEF Peopled
  <2>9. 1 + A + B >= f[own]
    <3> HIDE DEF n, x, y, own, A, B
    <3>1. f[x] \in Nat /\ f[y] \in Nat /\ f[own] \in Nat
      BY <2>6, <1>f
    <3>2. own = 1 + Higher(x, y) /\ (x = y \/ x = y + 1 \/ y = x + 1)
      BY <2>2 DEF Weighs
    <3>3. CASE x = y /\ x = 0
      BY <3>1, <3>2, <3>3, <1>f, <2>6, <2>8 DEF Higher
    <3>4. CASE x = y /\ x # 0
      <4> DEFINE j == x - 1
      <4>1. j \in Nat /\ j + 1 = x /\ own = j + 2
        BY <3>2, <3>4, <2>6 DEF Higher
      <4> HIDE DEF j
      <4>2. f[j + 2] = 1 + f[j] + f[j + 1] /\ f[j] \in Nat /\ f[j] <= f[j + 1]
        BY <4>1, <1>f
      <4> QED
        BY <4>1, <4>2, <3>1, <3>4, <2>6, <2>8
    <3>5. CASE x = y + 1
      <4>1. own = y + 2 /\ f[y + 2] = 1 + f[y] + f[y + 1]
        BY <3>2, <3>5, <2>6, <1>f DEF Higher
      <4> QED
        BY <4>1, <3>1, <3>5, <2>6, <2>8
    <3>6. CASE y = x + 1
      <4>1. own = x + 2 /\ f[x + 2] = 1 + f[x] + f[x + 1]
        BY <3>2, <3>6, <2>6, <1>f DEF Higher
      <4> QED
        BY <4>1, <3>1, <3>6, <2>6, <2>8
    <3> QED
      BY <3>2, <3>3, <3>4, <3>5, <3>6
  <2> QED
    BY <2>4, <2>9 DEF Peopled
<1>6. \A h \in Nat : h \in S
  <2> HIDE DEF S
  <2> QED
    BY <1>4, <1>5, NoGap
<1> QED
  BY <1>2, <1>6

\* A tree is not higher than the buffer worked out from its number of nodes.
LEMMA BufferFits ==
  ASSUME NEW g, NEW M, M \subseteq Keys, NEW lo, NEW hi, Shape(g, M, lo, hi),
         NEW ht \in Heights(M), Sound(g, M, ht, ht)
  PROVE  /\ BufferSize(Cardinality(M)) \in Nat
         /\ Tall(ht, Get(g, RootSlot)) <= BufferSize(Cardinality(M))
<1>1. PICK f : IsFewest(f)
  BY SomeFewest
<1>2. RootSlot \in TreeSlots(M)
  BY DEF TreeSlots
<1>3. Peopled(f, g, M, lo, hi, ht, RootSlot)
  BY <1>1, <1>2, AllPeopled
<1>4. Under(M, lo, hi, RootSlot) = M
  <2>1. \A x \in M : Inside(lo, hi, RootSlot, x)
    BY SlotEnds, Sentinels DEF Inside
  <2> QED
    BY <2>1 DEF Under
<1>5. Cardinality(M) \in Nat
  BY LiveFinite
<1>6. Tall(ht, Get(g, RootSlot)) \in Nat
  BY <1>2 DEF Shape, Placed, Tall, Heights
<1>7. Cardinality(M) >= f[Tall(ht, Get(g, RootSlot))]
  BY <1>3, <1>4 DEF Peopled
<1>8. BufferSize(Cardinality(M)) \in Nat /\ BufferSize(Cardinality(M)) >= Tall(ht, Get(g, RootSlot))
  <2> DEFINE c == Cardinality(M)
             t == Tall(ht, Get(g, RootSlot))
  <2>1. c \in Nat /\ t \in Nat /\ c >= f[t]
    BY <1>5, <1>6, <1>7
  <2> HIDE DEF c, t
  <2>2. /\ \A n \in Nat : BufferSize(n) \in Nat
        /\ \A h \in Nat : \A n \in Nat : n >= f[h] => BufferSize(n) >= h
    BY <1>1, BufferCovers
  <2>3. BufferSize(c) \in Nat /\ BufferSize(c) >= t
    BY <2>1, <2>2
  <2> QED
    BY <2>3 DEF c, t
<1>9. \A a, b \in Nat : a >= b => b <= a
  OBVIOUS
<1> QED
  BY <1>6, <1>8, <1>9


-----------------------------------------------------------------------------
(* Steps of a walk with a stack.                                           *)

LEMMA FallingIs ==
  ASSUME NEW h, NEW M, M \subseteq Keys, NEW lo, NEW hi, Shape(h, M, lo, hi),
         NEW ht \in Heights(M), Sound(h, M, ht, ht)
  PROVE  Falling(h, M, ht)
<1> SUFFICES ASSUME NEW n \in M
             PROVE  /\ ht[n] \in Nat /\ ht[n] >= 1
                    /\ \A d \in Dirs : Get(h, <<n, d>>) # Null => /\ Get(h, <<n, d>>) \in M
                                                                  /\ ht[Get(h, <<n, d>>)] < ht[n]
  BY DEF Falling
<1> DEFINE l == Get(h, <<n, 0>>)
           r == Get(h, <<n, 1>>)
<1>1. (l = Null \/ l \in M) /\ (r = Null \/ r \in M)
  BY ChildType DEF Dirs
<1>2. ht[n] = 1 + Higher(Tall(ht, l), Tall(ht, r))
  BY DEF Sound, Level, Weighs
<1>3. Tall(ht, l) \in Nat /\ Tall(ht, r) \in Nat /\ ht[n] \in Nat
  BY <1>1 DEF Tall, Heights
<1>4. Tall(ht, l) < ht[n] /\ Tall(ht, r) < ht[n] /\ ht[n] >= 1
  <2> HIDE DEF l, r
  <2> QED
    BY <1>2, <1>3 DEF Higher
<1>5. /\ l # Null => l \in M /\ ht[l] < ht[n]
      /\ r # Null => r \in M /\ ht[r] < ht[n]
  BY <1>1, <1>4 DEF Tall
<1> QED
  BY <1>3, <1>4, <1>5 DEF Dirs

LEMMA PushedIs ==
  ASSUME NEW M, NEW s \in Seq(M), NEW n \in M
  PROVE  /\ Append(s, n) \in Seq(M) /\ Len(Append(s, n)) = Len(s) + 1
         /\ Len(s) \in Nat
         /\ \A i \in 1 .. Len(s) : Append(s, n)[i] = s[i] /\ s[i] \in M
         /\ Append(s, n)[Len(s) + 1] = n
OBVIOUS

LEMMA PoppedIs ==
  ASSUME NEW M, NEW s \in Seq(M), s # <<>>
  PROVE  /\ Len(s) \in Nat /\ Len(s) >= 1
         /\ SubSeq(s, 1, Len(s) - 1) \in Seq(M)
         /\ Len(SubSeq(s, 1, Len(s) - 1)) = Len(s) - 1
         /\ \A i \in 1 .. Len(s) - 1 : SubSeq(s, 1, Len(s) - 1)[i] = s[i]
         /\ \A i \in 1 .. Len(s) : s[i] \in M
<1>1. Len(s) \in Nat /\ Len(s) >= 1 /\ \A i \in 1 .. Len(s) : s[i] \in M
  <2>1. Len(s) # 0
    BY EmptySeq
  <2> QED
    BY <2>1
<1> DEFINE t == SubSeq(s, 1, Len(s) - 1)
<1>2. Len(s) - 1 \in Nat
  BY <1>1
<1>3. \A i \in 1 .. Len(s) - 1 : i \in 1 .. Len(s)
  BY <1>1
<1>4. t \in Seq(M) /\ Len(t) = Len(s) - 1 /\ \A i \in 1 .. Len(s) - 1 : t[i] = s[i]
  <2> DEFINE k == Len(s) - 1
  <2>1. k \in Int /\ 1 \in Int /\ k \in Nat /\ \A i \in 1 .. k : s[i] \in M
    BY <1>1, <1>3
  <2> HIDE DEF k
  <2>2. /\ SubSeq(s, 1, k) \in Seq(M)
        /\ Len(SubSeq(s, 1, k)) = IF 1 <= k THEN k - 1 + 1 ELSE 0
        /\ \A i \in 1 .. k - 1 + 1 : SubSeq(s, 1, k)[i] = s[1 + i - 1]
    BY <2>1, SubSeqProperties
  <2>3. k - 1 + 1 = k /\ \A i \in 1 .. k : 1 + i - 1 = i
    BY <2>1
  <2>4. Len(SubSeq(s, 1, k)) = k /\ \A i \in 1 .. k : SubSeq(s, 1, k)[i] = s[i]
    BY <2>1, <2>2, <2>3
  <2> QED
    BY <2>2, <2>4 DEF k
<1> QED
  BY <1>1, <1>4

LEMMA DeepPush ==
  ASSUME NEW h, NEW M, NEW ht, Falling(h, M, ht), NEW n, NEW s, NEW c \in Nat, Deep(M, ht, n, s, c),
         NEW d \in Dirs, Get(h, <<n, d>>) # Null
  PROVE  Deep(M, ht, Get(h, <<n, d>>), Append(s, n), c)
<1> DEFINE m == Get(h, <<n, d>>)
           t == Append(s, n)
<1>1. /\ n \in M /\ m \in M /\ ht[n] \in Nat /\ ht[m] \in Nat /\ ht[m] < ht[n]
      /\ s \in Seq(M)
      /\ ht[n] + Len(s) <= c
      /\ \A i \in 1 .. Len(s) : ht[n] < ht[s[i]] /\ ht[s[i]] + i - 1 <= c
      /\ \A i, j \in 1 .. Len(s) : i < j => ht[s[j]] < ht[s[i]]
  BY DEF Deep, Falling
<1>2. /\ t \in Seq(M) /\ Len(t) = Len(s) + 1 /\ Len(s) \in Nat
      /\ \A i \in 1 .. Len(s) : t[i] = s[i] /\ s[i] \in M
      /\ t[Len(s) + 1] = n
  BY <1>1, PushedIs
<1>3. \A x \in M : ht[x] \in Nat
  BY DEF Falling
<1> HIDE DEF m, t
<1>4. ht[m] + Len(t) <= c
  BY <1>1, <1>2
<1>5. ASSUME NEW i \in 1 .. Len(t) PROVE ht[m] < ht[t[i]] /\ ht[t[i]] + i - 1 <= c
  <2>1. CASE i = Len(s) + 1
    BY <1>1, <1>2, <2>1
  <2>2. CASE i # Len(s) + 1
    <3>1. i \in 1 .. Len(s)
      BY <1>2, <2>2
    <3>2. t[i] = s[i] /\ ht[s[i]] \in Nat
      BY <1>2, <1>3, <3>1
    <3>3. ht[n] < ht[s[i]] /\ ht[s[i]] + i - 1 <= c
      BY <1>1, <3>1
    <3> QED
      BY <1>1, <3>2, <3>3
  <2> QED
    BY <2>1, <2>2
<1>6. ASSUME NEW i \in 1 .. Len(t), NEW j \in 1 .. Len(t), i < j PROVE ht[t[j]] < ht[t[i]]
  <2>1. i \in 1 .. Len(s) /\ t[i] = s[i]
    BY <1>2, <1>6
  <2>2. CASE j = Len(s) + 1
    BY <1>1, <1>2, <2>1, <2>2
  <2>3. CASE j # Len(s) + 1
    <3>1. j \in 1 .. Len(s) /\ t[j] = s[j]
      BY <1>2, <2>3
    <3> QED
      BY <1>1, <1>6, <2>1, <3>1
  <2> QED
    BY <2>2, <2>3
<1>7. Deep(M, ht, m, t, c)
  BY <1>1, <1>2, <1>4, <1>5, <1>6 DEF Deep
<1> QED
  BY <1>7 DEF m, t

LEMMA DeepOn ==
  ASSUME NEW h, NEW M, NEW ht, Falling(h, M, ht), NEW n, NEW s, NEW c \in Nat, Deep(M, ht, n, s, c),
         NEW d \in Dirs, Get(h, <<n, d>>) # Null
  PROVE  Deep(M, ht, Get(h, <<n, d>>), s, c)
<1> DEFINE m == Get(h, <<n, d>>)
<1>1. /\ n \in M /\ m \in M /\ ht[n] \in Nat /\ ht[m] \in Nat /\ ht[m] < ht[n]
      /\ s \in Seq(M) /\ Len(s) \in Nat
      /\ ht[n] + Len(s) <= c
      /\ \A i \in 1 .. Len(s) : ht[n] < ht[s[i]] /\ ht[s[i]] + i - 1 <= c
      /\ \A i, j \in 1 .. Len(s) : i < j => ht[s[j]] < ht[s[i]]
  BY DEF Deep, Falling
<1>2. \A i \in 1 .. Len(s) : s[i] \in M /\ ht[s[i]] \in Nat
  BY <1>1 DEF Falling
<1> HIDE DEF m
<1>3. ht[m] + Len(s) <= c
  BY <1>1
<1>4. \A i \in 1 .. Len(s) : ht[m] < ht[s[i]]
  BY <1>1, <1>2
<1>5. Deep(M, ht, m, s, c)
  BY <1>1, <1>3, <1>4 DEF Deep
<1> QED
  BY <1>5 DEF m

LEMMA DeepPop ==
  ASSUME NEW h, NEW M, NEW ht, Falling(h, M, ht), NEW n, NEW s, NEW c \in Nat, Deep(M, ht, n, s, c),
         s # <<>>
  PROVE  Deep(M, ht, s[Len(s)], SubSeq(s, 1, Len(s) - 1), c)
<1> DEFINE t == SubSeq(s, 1, Len(s) - 1)
           p == s[Len(s)]
<1>1. /\ s \in Seq(M)
      /\ \A i \in 1 .. Len(s) : ht[n] < ht[s[i]] /\ ht[s[i]] + i - 1 <= c
      /\ \A i, j \in 1 .. Len(s) : i < j => ht[s[j]] < ht[s[i]]
  BY DEF Deep
<1>2. /\ Len(s) \in Nat /\ Len(s) >= 1
      /\ t \in Seq(M) /\ Len(t) = Len(s) - 1
      /\ \A i \in 1 .. Len(s) - 1 : t[i] = s[i]
      /\ \A i \in 1 .. Len(s) : s[i] \in M
  BY <1>1, PoppedIs
<1>3. \A x \in M : ht[x] \in Nat
  BY DEF Falling
<1> HIDE DEF t
<1>4. Len(s) \in 1 .. Len(s) /\ \A i \in 1 .. Len(t) : i \in 1 .. Len(s) /\ i < Len(s) /\ t[i] = s[i]
  BY <1>2
<1>5. p \in M /\ ht[p] + Len(s) - 1 <= c /\ ht[p] \in Nat
  BY <1>1, <1>2, <1>3, <1>4
<1> HIDE DEF p
<1>6. ht[p] + Len(t) <= c
  BY <1>2, <1>5
<1>7. \A i \in 1 .. Len(t) : ht[p] < ht[t[i]] /\ ht[t[i]] + i - 1 <= c
  BY <1>1, <1>4 DEF p
<1>8. \A i, j \in 1 .. Len(t) : i < j => ht[t[j]] < ht[t[i]]
  BY <1>1, <1>4
<1>9. Deep(M, ht, p, t, c)
  BY <1>2, <1>5, <1>6, <1>7, <1>8 DEF Deep
<1> QED
  BY <1>9 DEF p, t

-----------------------------------------------------------------------------
(* enumerate.                                                              *)

\* The neighbours of a node in the order of the walk.
Neighbours(h, M, lo, hi, n, o) ==
  /\ Get(h, <<n, o>>) # Null =>
       /\ Get(h, <<n, o>>) \in M
       /\ NearEnd(o, lo, hi, Get(h, <<n, o>>)) = NearEnd(o, lo, hi, n)
       /\ FarEnd(o, lo, hi, Get(h, <<n, o>>)) = n
  /\ Get(h, <<n, 1 - o>>) # Null =>
       /\ Get(h, <<n, 1 - o>>) \in M
       /\ NearEnd(o, lo, hi, Get(h, <<n, 1 - o>>)) = n
       /\ FarEnd(o, lo, hi, Get(h, <<n, 1 - o>>)) = FarEnd(o, lo, hi, n)
  /\ Get(h, <<n, o>>) = Null =>
       \A x \in M : ~ Precedes(o, NearEnd(o, lo, hi, n), x) <=> Precedes(o, x, n)
  /\ Get(h, <<n, 1 - o>>) = Null =>
       \A x \in M : ~ Precedes(o, n, x) <=> Precedes(o, x, FarEnd(o, lo, hi, n))

LEMMA WalkEnds ==
  ASSUME NEW h, NEW M, M \subseteq Keys, NEW lo, NEW hi, Shape(h, M, lo, hi),
         NEW n \in M, NEW o \in Dirs
  PROVE  Neighbours(h, M, lo, hi, n, o)
<1> DEFINE l == Get(h, <<n, 0>>)
           r == Get(h, <<n, 1>>)
<1>1. /\ l # Null => l \in M /\ lo[l] = lo[n] /\ hi[l] = n
      /\ r # Null => r \in M /\ lo[r] = n /\ hi[r] = hi[n]
  BY LeftChild, RightChild
<1>2. /\ l = Null => \A x \in M : ~ (lo[n] < x /\ x < n)
      /\ r = Null => \A x \in M : ~ (n < x /\ x < hi[n])
  <2>1. <<n, 0>> \in TreeSlots(M) /\ <<n, 1>> \in TreeSlots(M)
    BY DEF TreeSlots, Dirs
  <2>2. /\ l = Null => \A x \in M : ~ Inside(lo, hi, <<n, 0>>, x)
        /\ r = Null => \A x \in M : ~ Inside(lo, hi, <<n, 1>>, x)
    BY <2>1 DEF Shape, Placed
  <2>3. /\ Lo(lo, <<n, 0>>) = lo[n] /\ Hi(hi, <<n, 0>>) = n
        /\ Lo(lo, <<n, 1>>) = n /\ Hi(hi, <<n, 1>>) = hi[n]
    BY SlotEnds
  <2> QED
    BY <2>2, <2>3 DEF Inside
<1>3. /\ lo[n] \in Int /\ hi[n] \in Int /\ lo[n] < n /\ n < hi[n] /\ n \in Int
      /\ \A x \in M : x \in Int
  BY KeysAreNumbers DEF Shape, Bounds, Ended
<1> HIDE DEF l, r
<1>4. CASE o = 0
  <2>1. /\ NearEnd(o, lo, hi, n) = lo[n] /\ FarEnd(o, lo, hi, n) = hi[n]
        /\ NearEnd(o, lo, hi, l) = lo[l] /\ FarEnd(o, lo, hi, l) = hi[l]
        /\ NearEnd(o, lo, hi, r) = lo[r] /\ FarEnd(o, lo, hi, r) = hi[r]
        /\ \A a, b : Precedes(o, a, b) <=> a < b
        /\ Get(h, <<n, o>>) = l /\ Get(h, <<n, 1 - o>>) = r
    BY <1>4 DEF NearEnd, FarEnd, Precedes, l, r
  <2>2. /\ l = Null => \A x \in M : ~ (lo[n] < x) <=> x < n
        /\ r = Null => \A x \in M : ~ (n < x) <=> x < hi[n]
    BY <1>2, <1>3
  <2> QED
    BY <1>1, <2>1, <2>2 DEF Neighbours
<1>5. CASE o = 1
  <2>1. /\ NearEnd(o, lo, hi, n) = hi[n] /\ FarEnd(o, lo, hi, n) = lo[n]
        /\ NearEnd(o, lo, hi, l) = hi[l] /\ FarEnd(o, lo, hi, l) = lo[l]
        /\ NearEnd(o, lo, hi, r) = hi[r] /\ FarEnd(o, lo, hi, r) = lo[r]
        /\ \A a, b : Precedes(o, a, b) <=> b < a
        /\ Get(h, <<n, o>>) = r /\ Get(h, <<n, 1 - o>>) = l
    BY <1>5 DEF NearEnd, FarEnd, Precedes, l, r
  <2>2. /\ r = Null => \A x \in M : ~ (x < hi[n]) <=> n < x
        /\ l = Null => \A x \in M : ~ (x < n) <=> lo[n] < x
    BY <1>2, <1>3
  <2> QED
    BY <1>1, <2>1, <2>2 DEF Neighbours
<1> QED
  BY <1>4, <1>5 DEF Dirs

LEMMA WalkBegins ==
  ASSUME NEW h, NEW M, M \subseteq Keys, NEW lo, NEW hi, Shape(h, M, lo, hi), NEW o \in Dirs
  PROVE  /\ Get(h, RootSlot) # Null =>
              /\ Get(h, RootSlot) \in M
              /\ FarEnd(o, lo, hi, Get(h, RootSlot)) = FarLimit(o)
              /\ \A x \in M : Precedes(o, NearEnd(o, lo, hi, Get(h, RootSlot)), x)
         /\ \A x \in M : Precedes(o, x, FarLimit(o))
<1> DEFINE r == Get(h, RootSlot)
<1>1. RootSlot \in TreeSlots(M) /\ Lo(lo, RootSlot) = Bottom /\ Hi(hi, RootSlot) = Ceil
  BY SlotEnds DEF TreeSlots
<1>2. r # Null => r \in M /\ lo[r] = Bottom /\ hi[r] = Ceil
  BY <1>1 DEF Shape, Placed
<1>3. \A x \in M : Bottom < x /\ x < Ceil
  BY Sentinels
<1> HIDE DEF r
<1>4. r # Null => r \in M /\ FarEnd(o, lo, hi, r) = FarLimit(o)
                  /\ \A x \in M : Precedes(o, NearEnd(o, lo, hi, r), x)
  BY <1>2, <1>3 DEF FarEnd, NearEnd, FarLimit, Precedes, Dirs
<1>5. \A x \in M : Precedes(o, x, FarLimit(o))
  BY <1>3 DEF FarLimit, Precedes, Dirs
<1> QED
  BY <1>4, <1>5 DEF r

LEMMA NextsPush ==
  ASSUME NEW M, NEW s \in Seq(M), NEW n \in M, NEW m, NEW o, NEW lo, NEW hi,
         Nexts(o, lo, hi, n, s), FarEnd(o, lo, hi, m) = n
  PROVE  Nexts(o, lo, hi, m, Append(s, n))
<1> DEFINE t == Append(s, n)
<1>1. /\ Len(t) = Len(s) + 1 /\ Len(s) \in Nat
      /\ \A i \in 1 .. Len(s) : t[i] = s[i]
      /\ t[Len(s) + 1] = n
  BY PushedIs
<1>2. /\ FarEnd(o, lo, hi, n) = IF Len(s) = 0 THEN FarLimit(o) ELSE s[Len(s)]
      /\ \A i \in 1 .. Len(s) : FarEnd(o, lo, hi, s[i]) = IF i = 1 THEN FarLimit(o) ELSE s[i - 1]
  BY DEF Nexts
<1> HIDE DEF t
<1>3. FarEnd(o, lo, hi, m) = IF Len(t) = 0 THEN FarLimit(o) ELSE t[Len(t)]
  BY <1>1
<1>4. ASSUME NEW i \in 1 .. Len(t)
      PROVE  FarEnd(o, lo, hi, t[i]) = IF i = 1 THEN FarLimit(o) ELSE t[i - 1]
  <2>1. i # 1 => i - 1 \in 1 .. Len(s) /\ t[i - 1] = s[i - 1]
    BY <1>1
  <2>2. CASE i = Len(s) + 1
    BY <1>1, <1>2, <2>1, <2>2
  <2>3. CASE i # Len(s) + 1
    <3>1. i \in 1 .. Len(s) /\ t[i] = s[i]
      BY <1>1, <2>3
    <3> QED
      BY <1>2, <2>1, <3>1
  <2> QED
    BY <2>2, <2>3
<1>5. Nexts(o, lo, hi, m, t)
  BY <1>3, <1>4 DEF Nexts
<1> QED
  BY <1>5 DEF t

LEMMA NextsPop ==
  ASSUME NEW M, NEW s \in Seq(M), s # <<>>, NEW n, NEW o, NEW lo, NEW hi, Nexts(o, lo, hi, n, s)
  PROVE  /\ Nexts(o, lo, hi, s[Len(s)], SubSeq(s, 1, Len(s) - 1))
         /\ FarEnd(o, lo, hi, n) = s[Len(s)]
<1> DEFINE t == SubSeq(s, 1, Len(s) - 1)
           p == s[Len(s)]
<1>1. /\ Len(s) \in Nat /\ Len(s) >= 1 /\ Len(t) = Len(s) - 1
      /\ \A i \in 1 .. Len(s) - 1 : t[i] = s[i]
  BY PoppedIs
<1>2. /\ FarEnd(o, lo, hi, n) = IF Len(s) = 0 THEN FarLimit(o) ELSE s[Len(s)]
      /\ \A i \in 1 .. Len(s) : FarEnd(o, lo, hi, s[i]) = IF i = 1 THEN FarLimit(o) ELSE s[i - 1]
  BY DEF Nexts
<1> HIDE DEF t
<1>3. FarEnd(o, lo, hi, n) = p
  BY <1>1, <1>2
<1>4. FarEnd(o, lo, hi, p) = IF Len(t) = 0 THEN FarLimit(o) ELSE t[Len(t)]
  <2>1. Len(s) \in 1 .. Len(s)
    BY <1>1
  <2>2. FarEnd(o, lo, hi, p) = IF Len(s) = 1 THEN FarLimit(o) ELSE s[Len(s) - 1]
    BY <1>2, <2>1
  <2>3. Len(s) # 1 => Len(s) - 1 \in 1 .. Len(s) - 1 /\ Len(t) # 0
    BY <1>1
  <2> QED
    BY <1>1, <2>2, <2>3
<1>5. ASSUME NEW i \in 1 .. Len(t)
      PROVE  FarEnd(o, lo, hi, t[i]) = IF i = 1 THEN FarLimit(o) ELSE t[i - 1]
  <2>1. i \in 1 .. Len(s) /\ t[i] = s[i]
    BY <1>1
  <2>2. i # 1 => t[i - 1] = s[i - 1]
    BY <1>1
  <2> QED
    BY <1>2, <2>1, <2>2
<1> HIDE DEF p
<1>6. Nexts(o, lo, hi, p, t)
  BY <1>4, <1>5 DEF Nexts
<1> QED
  BY <1>3, <1>6 DEF p, t

LEMMA ListsMore ==
  ASSUME NEW o \in Dirs, NEW v, NEW T, Lists(o, v, T), NEW n, \A x \in T : Precedes(o, x, n)
  PROVE  Lists(o, Append(v, n), T \cup {n})
<1> DEFINE w == Append(v, n)
           S == T \cup {n}
<1>1. /\ v \in Seq(T)
      /\ \A i, j \in 1 .. Len(v) : i < j => Precedes(o, v[i], v[j])
      /\ \A x \in T : \E i \in 1 .. Len(v) : v[i] = x
  BY DEF Lists
<1>2. v \in Seq(S) /\ n \in S /\ Len(v) \in Nat /\ \A i \in 1 .. Len(v) : v[i] \in T
  BY <1>1
<1>3. /\ w \in Seq(S) /\ Len(w) = Len(v) + 1
      /\ \A i \in 1 .. Len(v) : w[i] = v[i]
      /\ w[Len(v) + 1] = n
  <2> HIDE DEF S
  <2> QED
    BY <1>2, PushedIs
<1> HIDE DEF w
<1>4. ASSUME NEW i \in 1 .. Len(w), NEW j \in 1 .. Len(w), i < j PROVE Precedes(o, w[i], w[j])
  <2>1. i \in 1 .. Len(v) /\ w[i] = v[i] /\ v[i] \in T
    BY <1>2, <1>3, <1>4
  <2>2. CASE j = Len(v) + 1
    BY <1>3, <2>1, <2>2
  <2>3. CASE j # Len(v) + 1
    <3>1. j \in 1 .. Len(v) /\ w[j] = v[j]
      BY <1>2, <1>3, <2>3
    <3> QED
      BY <1>1, <1>4, <2>1, <3>1
  <2> QED
    BY <2>2, <2>3
<1>5. ASSUME NEW x \in S PROVE \E i \in 1 .. Len(w) : w[i] = x
  <2>1. CASE x = n
    <3>1. Len(v) + 1 \in 1 .. Len(w)
      BY <1>2, <1>3
    <3> QED
      BY <1>3, <2>1, <3>1
  <2>2. CASE x \in T
    <3>1. PICK i \in 1 .. Len(v) : v[i] = x
      BY <1>1, <2>2
    <3>2. i \in 1 .. Len(w) /\ w[i] = x
      BY <1>2, <1>3, <3>1
    <3> QED
      BY <3>2
  <2> QED
    BY <2>1, <2>2
<1>6. Lists(o, w, S)
  BY <1>3, <1>4, <1>5 DEF Lists
<1> QED
  BY <1>6 DEF w, S

\* What the visitor has seen when it has seen the node at hand.
LEMMA SeenSoFar ==
  ASSUME NEW h, NEW M, M \subseteq Keys, NEW w, w.order \in Dirs, EnumInv("enum_visit", h, M, w)
  PROVE  /\ w.node \in M
         /\ Lists(w.order, Append(w.visited, w.node), {x \in M : ~ Precedes(w.order, w.node, x)})
<1> DEFINE o == w.order
           n == w.node
           T == {x \in M : Precedes(o, x, n)}
           S == {x \in M : ~ Precedes(o, n, x)}
<1>1. n \in M /\ Lists(o, w.visited, T)
  BY DEF EnumInv, Deep, Done
<1>2. \A x \in M : x \in Int
  BY KeysAreNumbers
<1>3. S = T \cup {n}
  <2>1. \A x \in M : ~ Precedes(o, n, x) <=> Precedes(o, x, n) \/ x = n
    BY <1>1, <1>2 DEF Precedes, Dirs
  <2> QED
    BY <1>1, <2>1
<1>4. \A x \in T : Precedes(o, x, n)
  OBVIOUS
<1> HIDE DEF T, S, o, n
<1>5. o \in Dirs
  BY DEF o
<1>6. Lists(o, Append(w.visited, n), T \cup {n})
  BY <1>1, <1>4, <1>5, ListsMore
<1> QED
  BY <1>1, <1>3, <1>6 DEF S, o, n

\* From w the walk goes to the node n, with the stack s, and v has been visited.
WalksOn(w, w2, n, s, v) ==
  w2.order = w.order /\ w2.capacity = w.capacity /\ w2.node = n /\ w2.stack = s /\ w2.visited = v

LEMMA EnumNear ==
  ASSUME NEW h, NEW M, M \subseteq Keys, NEW w, w.order \in Dirs, w.capacity \in Nat,
         EnumInv("enum_down", h, M, w), Get(h, <<w.node, w.order>>) # Null,
         NEW w2, WalksOn(w, w2, Get(h, <<w.node, w.order>>), Append(w.stack, w.node), w.visited)
  PROVE  EnumInv("enum_down", h, M, w2)
<1> DEFINE o == w.order
           n == w.node
           m == Get(h, <<n, o>>)
<1>1. PICK lo, hi, ht :
         /\ Shape(h, M, lo, hi)
         /\ Falling(h, M, ht)
         /\ Deep(M, ht, n, w.stack, w.capacity)
         /\ Nexts(o, lo, hi, n, w.stack)
         /\ Lists(o, w.visited, Done("enum_down", o, M, lo, hi, n))
  BY DEF EnumInv
<1>2. n \in M /\ w.stack \in Seq(M)
  BY <1>1 DEF Deep
<1>3. NearEnd(o, lo, hi, m) = NearEnd(o, lo, hi, n) /\ FarEnd(o, lo, hi, m) = n
  <2>1. o \in Dirs /\ Shape(h, M, lo, hi) /\ n \in M
    BY <1>1, <1>2
  <2> HIDE DEF o, n
  <2>2. Neighbours(h, M, lo, hi, n, o)
    BY <2>1, WalkEnds
  <2> QED
    BY <2>2 DEF Neighbours, m, o, n
<1>4. Deep(M, ht, m, Append(w.stack, n), w.capacity)
  BY <1>1, DeepPush
<1>5. Nexts(o, lo, hi, m, Append(w.stack, n))
  <2> HIDE DEF m
  <2> QED
    BY <1>1, <1>2, <1>3, NextsPush
<1>6. Done("enum_down", o, M, lo, hi, m) = Done("enum_down", o, M, lo, hi, n)
  BY <1>3 DEF Done
<1> QED
  BY <1>1, <1>4, <1>5, <1>6 DEF EnumInv, WalksOn

LEMMA EnumHere ==
  ASSUME NEW h, NEW M, M \subseteq Keys, NEW w, w.order \in Dirs,
         EnumInv("enum_down", h, M, w), Get(h, <<w.node, w.order>>) = Null
  PROVE  EnumInv("enum_visit", h, M, w)
<1> DEFINE o == w.order
           n == w.node
<1>1. PICK lo, hi, ht :
         /\ Shape(h, M, lo, hi)
         /\ Falling(h, M, ht)
         /\ Deep(M, ht, n, w.stack, w.capacity)
         /\ Nexts(o, lo, hi, n, w.stack)
         /\ Lists(o, w.visited, Done("enum_down", o, M, lo, hi, n))
  BY DEF EnumInv
<1>2. n \in M
  BY <1>1 DEF Deep
<1>3. \A x \in M : ~ Precedes(o, NearEnd(o, lo, hi, n), x) <=> Precedes(o, x, n)
  <2>1. o \in Dirs /\ Shape(h, M, lo, hi) /\ n \in M
    BY <1>1, <1>2
  <2> HIDE DEF o, n
  <2>2. Neighbours(h, M, lo, hi, n, o)
    BY <2>1, WalkEnds
  <2> QED
    BY <2>2 DEF Neighbours, o, n
<1>4. Done("enum_visit", o, M, lo, hi, n) = Done("enum_down", o, M, lo, hi, n)
  BY <1>3 DEF Done
<1> QED
  BY <1>1, <1>4 DEF EnumInv

LEMMA EnumOn ==
  ASSUME NEW h, NEW M, M \subseteq Keys, NEW w, w.order \in Dirs, w.capacity \in Nat,
         EnumInv("enum_visit", h, M, w), Get(h, <<w.node, 1 - w.order>>) # Null,
         NEW w2, WalksOn(w, w2, Get(h, <<w.node, 1 - w.order>>), w.stack, Append(w.visited, w.node))
  PROVE  EnumInv("enum_down", h, M, w2)
<1> DEFINE o == w.order
           n == w.node
           m == Get(h, <<n, 1 - o>>)
<1>1. PICK lo, hi, ht :
         /\ Shape(h, M, lo, hi)
         /\ Falling(h, M, ht)
         /\ Deep(M, ht, n, w.stack, w.capacity)
         /\ Nexts(o, lo, hi, n, w.stack)
  BY DEF EnumInv
<1>2. n \in M /\ w.stack \in Seq(M) /\ 1 - o \in Dirs
  BY <1>1 DEF Deep, Dirs
<1>3. NearEnd(o, lo, hi, m) = n /\ FarEnd(o, lo, hi, m) = FarEnd(o, lo, hi, n)
  <2>1. o \in Dirs /\ Shape(h, M, lo, hi) /\ n \in M
    BY <1>1, <1>2
  <2> HIDE DEF o, n
  <2>2. Neighbours(h, M, lo, hi, n, o)
    BY <2>1, WalkEnds
  <2> QED
    BY <2>2 DEF Neighbours, m, o, n
<1>4. Deep(M, ht, m, w.stack, w.capacity)
  BY <1>1, <1>2, DeepOn
<1>5. Nexts(o, lo, hi, m, w.stack)
  BY <1>1, <1>3 DEF Nexts
<1>6. Done("enum_down", o, M, lo, hi, m) = {x \in M : ~ Precedes(o, n, x)}
  BY <1>3 DEF Done
<1>7. Lists(o, Append(w.visited, n), {x \in M : ~ Precedes(o, n, x)})
  BY SeenSoFar
<1> QED
  BY <1>1, <1>4, <1>5, <1>6, <1>7 DEF EnumInv, WalksOn

LEMMA EnumBack ==
  ASSUME NEW h, NEW M, M \subseteq Keys, NEW w, w.order \in Dirs, w.capacity \in Nat,
         EnumInv("enum_visit", h, M, w), Get(h, <<w.node, 1 - w.order>>) = Null, w.stack # <<>>,
         NEW w2, WalksOn(w, w2, w.stack[Len(w.stack)], SubSeq(w.stack, 1, Len(w.stack) - 1),
                      Append(w.visited, w.node))
  PROVE  EnumInv("enum_visit", h, M, w2)
<1> DEFINE o == w.order
           n == w.node
           p == w.stack[Len(w.stack)]
           t == SubSeq(w.stack, 1, Len(w.stack) - 1)
<1>1. PICK lo, hi, ht :
         /\ Shape(h, M, lo, hi)
         /\ Falling(h, M, ht)
         /\ Deep(M, ht, n, w.stack, w.capacity)
         /\ Nexts(o, lo, hi, n, w.stack)
  BY DEF EnumInv
<1>2. n \in M /\ w.stack \in Seq(M)
  BY <1>1 DEF Deep
<1>3. \A x \in M : ~ Precedes(o, n, x) <=> Precedes(o, x, FarEnd(o, lo, hi, n))
  <2>1. o \in Dirs /\ Shape(h, M, lo, hi) /\ n \in M
    BY <1>1, <1>2
  <2> HIDE DEF o, n
  <2>2. Neighbours(h, M, lo, hi, n, o)
    BY <2>1, WalkEnds
  <2> QED
    BY <2>2 DEF Neighbours, o, n
<1>4. Deep(M, ht, p, t, w.capacity)
  BY <1>1, DeepPop
<1>5. Nexts(o, lo, hi, p, t) /\ FarEnd(o, lo, hi, n) = p
  BY <1>1, <1>2, NextsPop
<1>6. Done("enum_visit", o, M, lo, hi, p) = {x \in M : ~ Precedes(o, n, x)}
  BY <1>3, <1>5 DEF Done
<1>7. Lists(o, Append(w.visited, n), {x \in M : ~ Precedes(o, n, x)})
  BY SeenSoFar
<1> HIDE DEF p, t
<1> QED
  BY <1>1, <1>4, <1>5, <1>6, <1>7 DEF EnumInv, WalksOn, p, t

\* The last node of the walk.
LEMMA EnumLast ==
  ASSUME NEW h, NEW M, M \subseteq Keys, NEW w, w.order \in Dirs,
         EnumInv("enum_visit", h, M, w), Get(h, <<w.node, 1 - w.order>>) = Null, w.stack = <<>>
  PROVE  Lists(w.order, Append(w.visited, w.node), M)
<1> DEFINE o == w.order
           n == w.node
<1>1. PICK lo, hi, ht :
         /\ Shape(h, M, lo, hi)
         /\ Deep(M, ht, n, w.stack, w.capacity)
         /\ Nexts(o, lo, hi, n, w.stack)
  BY DEF EnumInv
<1>2. n \in M /\ Len(w.stack) = 0
  BY <1>1 DEF Deep
<1>3. \A x \in M : ~ Precedes(o, n, x) <=> Precedes(o, x, FarEnd(o, lo, hi, n))
  <2>1. o \in Dirs /\ Shape(h, M, lo, hi) /\ n \in M
    BY <1>1, <1>2
  <2> HIDE DEF o, n
  <2>2. Neighbours(h, M, lo, hi, n, o)
    BY <2>1, WalkEnds
  <2> QED
    BY <2>2 DEF Neighbours, o, n
<1>4. FarEnd(o, lo, hi, n) = FarLimit(o)
  BY <1>1, <1>2 DEF Nexts
<1>5. \A x \in M : Precedes(o, x, FarLimit(o))
  BY <1>1, WalkBegins
<1>6. M = {x \in M : ~ Precedes(o, n, x)}
  BY <1>3, <1>4, <1>5
<1>7. Lists(o, Append(w.visited, n), {x \in M : ~ Precedes(o, n, x)})
  BY SeenSoFar
<1> QED
  BY <1>6, <1>7

\* A walk that has met all of a set has met as many elements as it has.
LEMMA ListsCount ==
  ASSUME NEW o \in Dirs, NEW v, NEW M, M \subseteq Keys, Lists(o, v, M)
  PROVE  Len(v) = Cardinality(M)
<1>1. /\ v \in Seq(M)
      /\ \A i, j \in 1 .. Len(v) : i < j => Precedes(o, v[i], v[j])
      /\ \A x \in M : \E i \in 1 .. Len(v) : v[i] = x
  BY DEF Lists
<1>2. \A x \in M : x \in Int
  BY KeysAreNumbers
<1>3. Len(v) \in Nat /\ \A i \in 1 .. Len(v) : v[i] \in M
  BY <1>1
<1>4. \A i, j \in 1 .. Len(v) : v[i] = v[j] => i = j
  <2> SUFFICES ASSUME NEW i \in 1 .. Len(v), NEW j \in 1 .. Len(v), v[i] = v[j], i # j
               PROVE  FALSE
    OBVIOUS
  <2>1. Precedes(o, v[i], v[j]) \/ Precedes(o, v[j], v[i])
    <3>1. i < j \/ j < i
      BY <1>3
    <3> QED
      BY <1>1, <3>1
  <2> QED
    BY <1>2, <1>3, <2>1 DEF Precedes
<1> DEFINE f == [i \in 1 .. Len(v) |-> v[i]]
<1>5. f \in [1 .. Len(v) -> M] /\ \A i \in 1 .. Len(v) : f[i] = v[i]
  BY <1>3
<1> HIDE DEF f
<1>6. f \in Injection(1 .. Len(v), M)
  BY <1>4, <1>5 DEF Injection, IsInjective
<1>7. f \in Surjection(1 .. Len(v), M)
  BY <1>1, <1>5 DEF Surjection
<1>8. f \in Bijection(1 .. Len(v), M)
  BY <1>6, <1>7 DEF Bijection
<1>9. ExistsBijection(1 .. Len(v), M)
  BY <1>8 DEF ExistsBijection
<1> QED
  BY <1>3, <1>9, FS_CountingElements

-----------------------------------------------------------------------------
(* The steps of enumerate.                                                 *)

\* What the steps make of the local variables.
LEMMA WalksPushed ==
  ASSUME NEW w \in Walks, NEW m \in Keys, NEW n \in Ptrs
  PROVE  /\ [Push(w, m) EXCEPT !.node = n] \in Walks
         /\ WalksOn(w, [Push(w, m) EXCEPT !.node = n], n, Append(w.stack, m), w.visited)
         /\ [Push(w, m) EXCEPT !.node = n].before = w.before
<1>1. Append(w.stack, m) \in Seq(Keys)
  BY DEF Walks
<1> QED
  BY <1>1 DEF Walks, Push, WalksOn

LEMMA WalksToFar ==
  ASSUME NEW w \in Walks, NEW n \in Ptrs, NEW v \in Seq(Keys)
  PROVE  /\ [[w EXCEPT !.node = n] EXCEPT !.visited = v] \in Walks
         /\ WalksOn(w, [[w EXCEPT !.node = n] EXCEPT !.visited = v], n, w.stack, v)
         /\ [[w EXCEPT !.node = n] EXCEPT !.visited = v].before = w.before
BY DEF Walks, WalksOn

LEMMA WalksPopped ==
  ASSUME NEW w \in Walks, w.stack # <<>>
  PROVE  /\ Pop(w) \in Walks
         /\ WalksOn(w, Pop(w), w.stack[Len(w.stack)], SubSeq(w.stack, 1, Len(w.stack) - 1), w.visited)
         /\ Pop(w).before = w.before
<1>1. w.stack \in Seq(Keys)
  BY DEF Walks
<1>2. SubSeq(w.stack, 1, Len(w.stack) - 1) \in Seq(Keys) /\ w.stack[Len(w.stack)] \in Ptrs
  <2>1. /\ Len(w.stack) \in Nat /\ Len(w.stack) >= 1
        /\ SubSeq(w.stack, 1, Len(w.stack) - 1) \in Seq(Keys)
        /\ \A i \in 1 .. Len(w.stack) : w.stack[i] \in Keys
    BY <1>1, PoppedIs
  <2> QED
    BY <2>1 DEF Ptrs
<1> QED
  BY <1>2 DEF Walks, Pop, Popped, WalksOn

LEMMA WalksPoppedSeen ==
  ASSUME NEW w \in Walks, w.stack # <<>>, NEW v \in Seq(Keys)
  PROVE  /\ [Pop(w) EXCEPT !.visited = v] \in Walks
         /\ WalksOn(w, [Pop(w) EXCEPT !.visited = v], w.stack[Len(w.stack)],
                    SubSeq(w.stack, 1, Len(w.stack) - 1), v)
         /\ [Pop(w) EXCEPT !.visited = v].before = w.before
<1> DEFINE p == Pop(w)
<1>1. /\ p \in Walks
      /\ WalksOn(w, p, w.stack[Len(w.stack)], SubSeq(w.stack, 1, Len(w.stack) - 1), w.visited)
      /\ p.before = w.before
  BY WalksPopped
<1> HIDE DEF p
<1>2. /\ [p EXCEPT !.visited = v] \in Walks
      /\ WalksOn(w, [p EXCEPT !.visited = v], w.stack[Len(w.stack)],
                 SubSeq(w.stack, 1, Len(w.stack) - 1), v)
      /\ [p EXCEPT !.visited = v].before = w.before
  BY <1>1 DEF Walks, WalksOn
<1> QED
  BY <1>2 DEF p

\* A step in the middle of a walk.
LEMMA EnumStepKeeps ==
  ASSUME TypeInv, NEW M, NEW O, Parts(M, O), pc \in {"enumerate", "enum_down", "enum_visit"},
         UNCHANGED <<heap, live, node_count, reg, reply, other>>,
         pc' \in {"enum_down", "enum_visit"}, walk' \in Walks, EnumInv(pc', heap, M, walk')
  PROVE  TypeInv' /\ Parts(M, O)'
<1>1. pc \in TreeLabels /\ pc' \in TreeLabels /\ pc' \notin AvlLabels
  BY Labels
<1>2. TypeInv'
  BY <1>1 DEF TypeInv, WalkCalled
<1>3. /\ live' = M \cup O /\ M \cap O = {}
      /\ Rests(From(heap', other'.root), O) /\ other'.node_count = Cardinality(O)
      /\ Rests(heap', M) /\ node_count' = Cardinality(M)
  BY DEF Parts
<1>4. EnumInv(pc', heap', M, walk')
  OBVIOUS
<1>5. pc' \notin {"find_slot", "clear", "enumerate", "swap", "clear_down", "clear_right", "clear_remove"}
  OBVIOUS
<1> QED
  BY <1>1, <1>2, <1>3, <1>4, <1>5 DEF Parts

\* What a walk that is under way has.
LEMMA EnumHas ==
  ASSUME TypeInv, NEW M, NEW O, Parts(M, O), pc \in {"enum_down", "enum_visit"}
  PROVE  /\ EnumInv(pc, heap, M, walk) /\ heap \in Heaps /\ M \subseteq Keys
         /\ walk \in Walks /\ walk.order \in Dirs /\ 1 - walk.order \in Dirs
         /\ walk.capacity \in Nat /\ walk.visited \in Seq(Keys)
         /\ walk.node \in M /\ walk.node \in Keys
         /\ Near = Get(heap, <<walk.node, walk.order>>) /\ Near \in Ptrs
         /\ Far = Get(heap, <<walk.node, 1 - walk.order>>) /\ Far \in Ptrs
         /\ Visited \in Seq(Keys)
<1>1. EnumInv(pc, heap, M, walk) /\ heap \in Heaps /\ M \subseteq Keys /\ walk \in Walks
  BY PartsTypes DEF Parts, TypeInv
<1>2. walk.order \in Dirs /\ 1 - walk.order \in Dirs /\ walk.capacity \in Nat /\ walk.visited \in Seq(Keys)
  BY <1>1 DEF Walks, Dirs
<1>3. walk.node \in M /\ walk.node \in Keys
  BY <1>1 DEF EnumInv, Deep
<1>4. Near = Get(heap, <<walk.node, walk.order>>) /\ Far = Get(heap, <<walk.node, 1 - walk.order>>)
  BY <1>1, <1>2, <1>3, LinkGet DEF Near, Far
<1>5. Near \in Ptrs /\ Far \in Ptrs
  BY <1>1, <1>2, <1>3, LinkType DEF Near, Far, Ptrs
<1>6. Visited \in Seq(Keys)
  BY <1>2, <1>3 DEF Visited
<1> QED
  BY <1>1, <1>2, <1>3, <1>4, <1>5, <1>6

LEMMA EnumDownKeeps ==
  ASSUME TypeInv, NEW M, NEW O, Parts(M, O), EnumDown
  PROVE  TypeInv' /\ Parts(M, O)'
<1>1. pc = "enum_down" /\ UNCHANGED <<heap, live, node_count, reg, reply, other>>
  BY DEF EnumDown
<1>2. /\ EnumInv("enum_down", heap, M, walk) /\ M \subseteq Keys
      /\ walk \in Walks /\ walk.order \in Dirs /\ walk.capacity \in Nat
      /\ walk.node \in Keys
      /\ Near = Get(heap, <<walk.node, walk.order>>) /\ Near \in Ptrs
  BY <1>1, EnumHas
<1>3. CASE Near # Null
  <2>1. walk' = [Push(walk, walk.node) EXCEPT !.node = Near] /\ pc' = "enum_down"
    BY <1>1, <1>3 DEF EnumDown
  <2>2. walk' \in Walks /\ WalksOn(walk, walk', Near, Append(walk.stack, walk.node), walk.visited)
    BY <1>2, <2>1, WalksPushed
  <2>3. EnumInv("enum_down", heap, M, walk')
    BY <1>2, <1>3, <2>2, EnumNear
  <2> QED
    BY <1>1, <2>1, <2>2, <2>3, EnumStepKeeps
<1>4. CASE Near = Null
  <2>1. walk' = walk /\ pc' = "enum_visit"
    BY <1>1, <1>4 DEF EnumDown
  <2>2. EnumInv("enum_visit", heap, M, walk)
    BY <1>2, <1>4, EnumHere
  <2> QED
    BY <1>1, <1>2, <2>1, <2>2, EnumStepKeeps
<1> QED
  BY <1>3, <1>4

LEMMA EnumFarKeeps ==
  ASSUME TypeInv, NEW M, NEW O, Parts(M, O), EnumFar
  PROVE  TypeInv' /\ Parts(M, O)'
<1>1. /\ pc = "enum_visit" /\ Far # Null /\ pc' = "enum_down"
      /\ walk' = [[walk EXCEPT !.node = Far] EXCEPT !.visited = Visited]
      /\ UNCHANGED <<heap, live, node_count, reg, reply, other>>
  BY DEF EnumFar, ToFar
<1>2. /\ EnumInv("enum_visit", heap, M, walk) /\ M \subseteq Keys
      /\ walk \in Walks /\ walk.order \in Dirs /\ walk.capacity \in Nat
      /\ Far = Get(heap, <<walk.node, 1 - walk.order>>) /\ Far \in Ptrs /\ Visited \in Seq(Keys)
  BY <1>1, EnumHas
<1>3. walk' \in Walks /\ WalksOn(walk, walk', Far, walk.stack, Visited)
  BY <1>1, <1>2, WalksToFar
<1>4. EnumInv("enum_down", heap, M, walk')
  BY <1>1, <1>2, <1>3, EnumOn DEF Visited
<1> QED
  BY <1>1, <1>3, <1>4, EnumStepKeeps

LEMMA EnumUpKeeps ==
  ASSUME TypeInv, NEW M, NEW O, Parts(M, O), EnumUp
  PROVE  TypeInv' /\ Parts(M, O)'
<1>1. /\ pc = "enum_visit" /\ Far = Null /\ pc' = "enum_visit" /\ walk.stack # <<>>
      /\ walk' = [Pop(walk) EXCEPT !.visited = Visited]
      /\ UNCHANGED <<heap, live, node_count, reg, reply, other>>
  BY DEF EnumUp
<1>2. /\ EnumInv("enum_visit", heap, M, walk) /\ M \subseteq Keys
      /\ walk \in Walks /\ walk.order \in Dirs /\ walk.capacity \in Nat
      /\ Far = Get(heap, <<walk.node, 1 - walk.order>>) /\ Visited \in Seq(Keys)
  BY <1>1, EnumHas
<1>3. walk' \in Walks
      /\ WalksOn(walk, walk', walk.stack[Len(walk.stack)],
                 SubSeq(walk.stack, 1, Len(walk.stack) - 1), Visited)
  BY <1>1, <1>2, WalksPoppedSeen
<1>4. EnumInv("enum_visit", heap, M, walk')
  BY <1>1, <1>2, <1>3, EnumBack DEF Visited
<1> QED
  BY <1>1, <1>3, <1>4, EnumStepKeeps

LEMMA EnumReturnKeeps ==
  ASSUME TypeInv, NEW M, NEW O, Parts(M, O), EnumStop \/ EnumComplete
  PROVE  TypeInv' /\ Parts(M, O)'
<1>1. /\ pc = "enum_visit" /\ pc' = "idle" /\ reg' = NoRegs /\ walk' = NoWalk
      /\ UNCHANGED <<heap, live, node_count, other>>
  BY DEF EnumStop, EnumComplete, EnumReturn
<1>2. node_count = Cardinality(M) /\ Rests(heap, M)
  BY <1>1 DEF Parts
<1> QED
  BY <1>1, <1>2, QuietReturn

\* Where a walk begins: at the root, with the stack empty.
LEMMA BeginsAt ==
  ASSUME TypeInv, NEW M, NEW O, Parts(M, O), pc \in {"clear", "enumerate"}, NEW label, StartWalk(label)
  PROVE  /\ walk' \in Walks /\ walk'.order = walk.order /\ walk'.before = M
         /\ walk'.node = heap.root /\ walk'.stack = <<>> /\ walk'.visited = <<>>
         /\ walk'.order \in Dirs /\ walk'.capacity \in Nat
         /\ heap.root # Null /\ Get(heap, RootSlot) = heap.root
         /\ \E lo, hi, ht : /\ Shape(heap, M, lo, hi)
                            /\ Falling(heap, M, ht)
                            /\ Deep(M, ht, heap.root, <<>>, walk'.capacity)
<1>1. /\ heap.root # Null
      /\ walk' = [walk EXCEPT !.node = heap.root, !.capacity = BufferSize(node_count)]
  BY DEF StartWalk
<1>2. /\ walk = [NoWalk EXCEPT !.order = walk.order, !.before = M]
      /\ Rests(heap, M) /\ node_count = Cardinality(M)
  BY DEF Parts
<1>3. heap \in Heaps /\ M \subseteq Keys /\ walk \in Walks
  BY PartsTypes DEF TypeInv
<1>4. walk.order \in Dirs
  BY <1>3 DEF Walks
<1>5. walk.stack = <<>> /\ walk.visited = <<>> /\ walk.before = M
  <2>1. walk = Fresh(walk.order, M)
    BY <1>2 DEF Fresh
  <2>2. /\ Fresh(walk.order, M).before = M
        /\ Fresh(walk.order, M).stack = <<>> /\ Fresh(walk.order, M).visited = <<>>
    BY <1>3, <1>4, FreshType
  <2> QED
    BY <2>1, <2>2
<1>6. PICK lo, hi, ht : Shape(heap, M, lo, hi) /\ ht \in Heights(M) /\ Sound(heap, M, ht, ht)
  BY <1>2 DEF Rests
<1>7. Get(heap, RootSlot) = heap.root /\ heap.root \in Ptrs
  BY <1>3 DEF Get, RootSlot, Heaps
<1>8. BufferSize(node_count) \in Nat /\ Tall(ht, Get(heap, RootSlot)) <= BufferSize(node_count)
  BY <1>2, <1>3, <1>6, BufferFits
<1>9. /\ walk' \in Walks /\ walk'.order = walk.order /\ walk'.before = walk.before
      /\ walk'.node = heap.root /\ walk'.stack = walk.stack /\ walk'.visited = walk.visited
      /\ walk'.capacity = BufferSize(node_count)
  <2> DEFINE c == BufferSize(node_count)
  <2>1. c \in Nat
    BY <1>8
  <2> HIDE DEF c
  <2>2. walk' = [walk EXCEPT !.node = heap.root, !.capacity = c]
    BY <1>1 DEF c
  <2>3. /\ walk' \in Walks /\ walk'.order = walk.order /\ walk'.before = walk.before
        /\ walk'.node = heap.root /\ walk'.stack = walk.stack /\ walk'.visited = walk.visited
        /\ walk'.capacity = c
    BY <1>3, <1>7, <2>1, <2>2 DEF Walks
  <2> QED
    BY <2>3 DEF c
<1>10. heap.root \in M
  <2>1. RootSlot \in TreeSlots(M)
    BY DEF TreeSlots
  <2> QED
    BY <1>1, <1>6, <1>7, <2>1 DEF Shape, Placed
<1>11. Falling(heap, M, ht)
  BY <1>3, <1>6, FallingIs
<1>12. ht[heap.root] <= walk'.capacity /\ ht[heap.root] \in Nat
  BY <1>1, <1>6, <1>7, <1>8, <1>9, <1>10 DEF Tall, Heights
<1>13. Deep(M, ht, heap.root, <<>>, walk'.capacity)
  <2>1. <<>> \in Seq(M) /\ Len(<<>>) = 0 /\ \A i \in 1 .. 0 : FALSE
    OBVIOUS
  <2>2. ht[heap.root] + 0 <= walk'.capacity
    BY <1>12, <1>8, <1>9
  <2> QED
    BY <1>10, <2>1, <2>2 DEF Deep
<1>14. \E lo1, hi1, ht1 : /\ Shape(heap, M, lo1, hi1)
                          /\ Falling(heap, M, ht1)
                          /\ Deep(M, ht1, heap.root, <<>>, walk'.capacity)
  BY <1>6, <1>11, <1>13
<1>15. walk'.capacity \in Nat
  BY <1>8, <1>9
<1> QED
  BY <1>1, <1>4, <1>5, <1>7, <1>9, <1>14, <1>15

LEMMA EnumStartKeeps ==
  ASSUME TypeInv, NEW M, NEW O, Parts(M, O), EnumStart
  PROVE  TypeInv' /\ Parts(M, O)'
<1>1. /\ pc = "enumerate" /\ StartWalk("enum_down") /\ pc' = "enum_down"
      /\ UNCHANGED <<heap, live, node_count, reg, reply, other>>
  BY DEF EnumStart, StartWalk
<1> DEFINE o == walk'.order
           r == heap.root
<1>2. /\ walk' \in Walks /\ walk'.node = r /\ walk'.stack = <<>> /\ walk'.visited = <<>>
      /\ o \in Dirs /\ r # Null /\ Get(heap, RootSlot) = r
      /\ \E lo, hi, ht : /\ Shape(heap, M, lo, hi)
                         /\ Falling(heap, M, ht)
                         /\ Deep(M, ht, r, <<>>, walk'.capacity)
  BY <1>1, BeginsAt
<1>3. PICK lo, hi, ht : /\ Shape(heap, M, lo, hi)
                        /\ Falling(heap, M, ht)
                        /\ Deep(M, ht, r, <<>>, walk'.capacity)
  BY <1>2
<1>4. M \subseteq Keys
  BY PartsTypes
<1>5. FarEnd(o, lo, hi, r) = FarLimit(o) /\ \A x \in M : Precedes(o, NearEnd(o, lo, hi, r), x)
  <2>1. o \in Dirs /\ Get(heap, RootSlot) = r /\ r # Null
    BY <1>2
  <2> HIDE DEF o, r
  <2>2. /\ Get(heap, RootSlot) # Null =>
              /\ Get(heap, RootSlot) \in M
              /\ FarEnd(o, lo, hi, Get(heap, RootSlot)) = FarLimit(o)
              /\ \A x \in M : Precedes(o, NearEnd(o, lo, hi, Get(heap, RootSlot)), x)
        /\ \A x \in M : Precedes(o, x, FarLimit(o))
    BY <1>3, <1>4, <2>1, WalkBegins
  <2> QED
    BY <2>1, <2>2
<1>6. Nexts(o, lo, hi, r, <<>>)
  <2>1. Len(<<>>) = 0 /\ \A i \in 1 .. 0 : FALSE
    OBVIOUS
  <2> QED
    BY <1>5, <2>1 DEF Nexts
<1>7. Done("enum_down", o, M, lo, hi, r) = {}
  BY <1>5 DEF Done
<1>8. Lists(o, <<>>, {})
  <2>1. <<>> \in Seq({}) /\ Len(<<>>) = 0 /\ \A i \in 1 .. 0 : FALSE
    OBVIOUS
  <2> QED
    BY <2>1 DEF Lists
<1>9. Lists(o, <<>>, Done("enum_down", o, M, lo, hi, r))
  BY <1>7, <1>8
<1>10. EnumInv("enum_down", heap, M, walk')
  BY <1>2, <1>3, <1>6, <1>9 DEF EnumInv
<1> QED
  BY <1>1, <1>2, <1>10, EnumStepKeeps

\* A list in the order of the walk is what the abstract specification asks for.
LEMMA ListsWalk ==
  ASSUME NEW o \in Dirs, NEW v, NEW n, NEW M, M \subseteq Keys, n \in M,
         Lists(o, v, {x \in M : ~ Precedes(o, n, x)})
  PROVE  Abstract!IsWalkOf(v, M, o = 1)
<1> DEFINE T == {x \in M : ~ Precedes(o, n, x)}
           Met == {v[i] : i \in DOMAIN v}
<1>1. /\ v \in Seq(T)
      /\ \A i, j \in 1 .. Len(v) : i < j => Precedes(o, v[i], v[j])
      /\ \A x \in T : \E i \in 1 .. Len(v) : v[i] = x
  BY DEF Lists
<1>2. Len(v) \in Nat /\ DOMAIN v = 1 .. Len(v) /\ \A i \in 1 .. Len(v) : v[i] \in T
  BY <1>1
<1>3. Met = T
  BY <1>1, <1>2
<1>4. \A x \in M : x \in Int
  BY KeysAreNumbers
<1>5. \A a, b : Precedes(o, a, b) <=> (IF o = 1 THEN a > b ELSE a < b)
  BY DEF Precedes, Dirs
<1>6. \A i \in 1 .. Len(v) - 1 : Precedes(o, v[i], v[i + 1])
  BY <1>1, <1>2
<1>7. \A a \in T, b \in M \ T : Precedes(o, a, b)
  <2> SUFFICES ASSUME NEW a \in M, ~ Precedes(o, n, a), NEW b \in M, Precedes(o, n, b)
               PROVE  Precedes(o, a, b)
    OBVIOUS
  <2> QED
    BY <1>4 DEF Precedes, Dirs
<1>8. T \subseteq M
  OBVIOUS
<1> HIDE DEF T
<1> QED
  BY <1>3, <1>5, <1>6, <1>7, <1>8 DEF Abstract!IsWalkOf

LEMMA InOrderHolds ==
  ASSUME TypeInv, NEW M, NEW O, Parts(M, O)
  PROVE  EnumerationInOrder
<1> SUFFICES ASSUME pc = "enum_visit"
             PROVE  Abstract!IsWalkOf(Visited, live \ OtherReach, walk.order = 1)
  BY DEF EnumerationInOrder
<1>1. EnumInv("enum_visit", heap, M, walk) /\ M \subseteq Keys /\ walk.order \in Dirs
  BY EnumHas
<1>2. /\ walk.node \in M
      /\ Lists(walk.order, Append(walk.visited, walk.node), {x \in M : ~ Precedes(walk.order, walk.node, x)})
  BY <1>1, SeenSoFar
<1>3. Abstract!IsWalkOf(Visited, M, walk.order = 1)
  BY <1>1, <1>2, ListsWalk DEF Visited
<1>4. live \ OtherReach = M
  <2>1. OtherReach = O /\ live = M \cup O /\ M \cap O = {}
    BY OtherReachIs, PartsTypes
  <2> QED
    BY <2>1
<1> QED
  BY <1>3, <1>4

-----------------------------------------------------------------------------
(* clear.                                                                  *)

\* Nodes at different heights are different nodes.
LEMMA StackApart ==
  ASSUME NEW h, NEW M, NEW ht, Falling(h, M, ht), NEW n, NEW s, NEW c, Deep(M, ht, n, s, c)
  PROVE  /\ n \in M /\ s \in Seq(M)
         /\ \A i \in 1 .. Len(s) : s[i] \in M /\ s[i] # n
         /\ \A i, j \in 1 .. Len(s) : i < j => s[i] # s[j]
<1>1. /\ n \in M /\ s \in Seq(M)
      /\ \A i \in 1 .. Len(s) : ht[n] < ht[s[i]]
      /\ \A i, j \in 1 .. Len(s) : i < j => ht[s[j]] < ht[s[i]]
  BY DEF Deep
<1>2. \A i \in 1 .. Len(s) : s[i] \in M
  BY <1>1
<1>3. \A x \in M : ht[x] \in Nat
  BY DEF Falling
<1>4. \A x, y \in M : ht[x] < ht[y] => x # y
  BY <1>3
<1> QED
  BY <1>1, <1>2, <1>4

LEMMA WayPush ==
  ASSUME NEW h, NEW M, NEW n \in M, NEW s \in Seq(M), WayTo(h, n, s), NEW d \in Dirs,
         d = 1 => Get(h, <<n, 0>>) = Null
  PROVE  WayTo(h, Get(h, <<n, d>>), Append(s, n))
<1> DEFINE t == Append(s, n)
           m == Get(h, <<n, d>>)
<1>1. /\ Len(t) = Len(s) + 1 /\ Len(s) \in Nat
      /\ \A i \in 1 .. Len(s) : t[i] = s[i]
      /\ t[Len(s) + 1] = n
  BY PushedIs
<1>2. /\ h.root = IF Len(s) = 0 THEN n ELSE s[1]
      /\ \A i \in 1 .. Len(s) :
           \E e \in Dirs : /\ Get(h, <<s[i], e>>) = IF i = Len(s) THEN n ELSE s[i + 1]
                           /\ e = 1 => Get(h, <<s[i], 0>>) = Null
  BY DEF WayTo
<1>3. Get(h, <<n, d>>) = m
  OBVIOUS
<1> HIDE DEF t, m
<1>4. h.root = IF Len(t) = 0 THEN m ELSE t[1]
  BY <1>1, <1>2
<1>5. ASSUME NEW i \in 1 .. Len(t)
      PROVE  \E e \in Dirs : /\ Get(h, <<t[i], e>>) = IF i = Len(t) THEN m ELSE t[i + 1]
                             /\ e = 1 => Get(h, <<t[i], 0>>) = Null
  <2>1. CASE i = Len(t)
    <3>1. t[i] = n
      BY <1>1, <2>1
    <3> QED
      BY <1>3, <2>1, <3>1
  <2>2. CASE i # Len(t)
    <3>1. i \in 1 .. Len(s) /\ t[i] = s[i]
      BY <1>1, <2>2
    <3>2. t[i + 1] = IF i = Len(s) THEN n ELSE s[i + 1]
      BY <1>1, <3>1
    <3>3. PICK e \in Dirs : /\ Get(h, <<s[i], e>>) = IF i = Len(s) THEN n ELSE s[i + 1]
                            /\ e = 1 => Get(h, <<s[i], 0>>) = Null
      BY <1>2, <3>1
    <3> QED
      BY <2>2, <3>1, <3>2, <3>3
  <2> QED
    BY <2>1, <2>2
<1>6. WayTo(h, m, t)
  BY <1>4, <1>5 DEF WayTo
<1> QED
  BY <1>6 DEF t, m

\* Going down from a node, to the right only if there is nothing at the left.
LEMMA ClearDown ==
  ASSUME NEW h, NEW M, NEW n, NEW s, NEW c \in Nat, ClearTree(h, M, n, s, c),
         NEW d \in Dirs, Get(h, <<n, d>>) # Null, d = 1 => Get(h, <<n, 0>>) = Null
  PROVE  ClearTree(h, M, Get(h, <<n, d>>), Append(s, n), c)
<1>1. PICK lo, hi, ht : /\ Shape(h, M, lo, hi)
                        /\ Falling(h, M, ht)
                        /\ Deep(M, ht, n, s, c)
                        /\ WayTo(h, n, s)
  BY DEF ClearTree
<1>2. n \in M /\ s \in Seq(M)
  BY <1>1 DEF Deep
<1>3. WayTo(h, Get(h, <<n, d>>), Append(s, n))
  BY <1>1, <1>2, WayPush
<1>4. Deep(M, ht, Get(h, <<n, d>>), Append(s, n), c)
  BY <1>1, DeepPush
<1> QED
  BY <1>1, <1>3, <1>4 DEF ClearTree

\* A matter of the links of M only.
LEMMA ClearAlike ==
  ASSUME NEW h \in Heaps, NEW g \in Heaps, NEW M, M \subseteq Keys, Alike(h, g, M),
         NEW n, NEW s, NEW c, ClearTree(h, M, n, s, c)
  PROVE  ClearTree(g, M, n, s, c)
<1>1. PICK lo, hi, ht : /\ Shape(h, M, lo, hi)
                        /\ Falling(h, M, ht)
                        /\ Deep(M, ht, n, s, c)
                        /\ WayTo(h, n, s)
  BY DEF ClearTree
<1>2. Shape(g, M, lo, hi)
  BY <1>1, ShapeAlike
<1>3. Falling(g, M, ht)
  BY <1>1 DEF Falling, Alike
<1>4. s \in Seq(M) /\ \A i \in 1 .. Len(s) : s[i] \in M
  BY <1>1, StackApart
<1>5. g.root = h.root
  BY DEF Alike, Get, RootSlot
<1>6. \A i \in 1 .. Len(s), d \in Dirs : Get(g, <<s[i], d>>) = Get(h, <<s[i], d>>)
  BY <1>4 DEF Alike
<1>7. WayTo(g, n, s)
  <2>1. /\ h.root = IF Len(s) = 0 THEN n ELSE s[1]
        /\ \A i \in 1 .. Len(s) :
             \E d \in Dirs : /\ Get(h, <<s[i], d>>) = IF i = Len(s) THEN n ELSE s[i + 1]
                             /\ d = 1 => Get(h, <<s[i], 0>>) = Null
    BY <1>1 DEF WayTo
  <2>2. ASSUME NEW i \in 1 .. Len(s)
        PROVE  \E d \in Dirs : /\ Get(g, <<s[i], d>>) = IF i = Len(s) THEN n ELSE s[i + 1]
                               /\ d = 1 => Get(g, <<s[i], 0>>) = Null
    <3>1. PICK d \in Dirs : /\ Get(h, <<s[i], d>>) = IF i = Len(s) THEN n ELSE s[i + 1]
                            /\ d = 1 => Get(h, <<s[i], 0>>) = Null
      BY <2>1
    <3>2. Get(g, <<s[i], d>>) = Get(h, <<s[i], d>>) /\ Get(g, <<s[i], 0>>) = Get(h, <<s[i], 0>>)
      BY <1>6 DEF Dirs
    <3> QED
      BY <3>1, <3>2
  <2> QED
    BY <1>5, <2>1, <2>2 DEF WayTo
<1> QED
  BY <1>1, <1>2, <1>3, <1>7 DEF ClearTree

\* The leaf n has been freed, and the link to it at the side d of p reset:
\* g is h but for that.
Plucked(h, g, M, n, p, d) ==
  /\ Get(h, <<n, 0>>) = Null /\ Get(h, <<n, 1>>) = Null
  /\ d \in Dirs /\ Get(h, <<p, d>>) = n
  /\ \A t \in TreeSlots(M \ {n}) : Get(g, t) = IF t = <<p, d>> THEN Null ELSE Get(h, t)

LEMMA ClearPlucks ==
  ASSUME NEW h \in Heaps, NEW g \in Heaps, NEW M, M \subseteq Keys, NEW n, NEW s, NEW c \in Nat,
         ClearTree(h, M, n, s, c), s # <<>>, NEW d, Plucked(h, g, M, n, s[Len(s)], d)
  PROVE  ClearTree(g, M \ {n}, s[Len(s)], SubSeq(s, 1, Len(s) - 1), c)
<1> DEFINE p == s[Len(s)]
           t == SubSeq(s, 1, Len(s) - 1)
           N == M \ {n}
<1>1. PICK lo, hi, ht : /\ Shape(h, M, lo, hi)
                        /\ Falling(h, M, ht)
                        /\ Deep(M, ht, n, s, c)
                        /\ WayTo(h, n, s)
  BY DEF ClearTree
<1>2. /\ n \in M /\ s \in Seq(M)
      /\ \A i \in 1 .. Len(s) : s[i] \in M /\ s[i] # n
      /\ \A i, j \in 1 .. Len(s) : i < j => s[i] # s[j]
  BY <1>1, StackApart
<1>3. /\ Len(s) \in Nat /\ Len(s) >= 1
      /\ t \in Seq(M) /\ Len(t) = Len(s) - 1
      /\ \A i \in 1 .. Len(s) - 1 : t[i] = s[i]
  BY <1>2, PoppedIs
<1>4. Len(s) \in 1 .. Len(s) /\ p \in M /\ p # n /\ p # Null /\ n # Null
  BY <1>2, <1>3, NullIsNoKey
<1>5. /\ Get(h, <<n, 0>>) = Null /\ Get(h, <<n, 1>>) = Null
      /\ d \in Dirs /\ Get(h, <<p, d>>) = n
      /\ \A q \in TreeSlots(N) : Get(g, q) = IF q = <<p, d>> THEN Null ELSE Get(h, q)
  BY DEF Plucked
<1>6. <<p, d>> \in TreeSlots(M)
  BY <1>4, <1>5 DEF TreeSlots
<1> HIDE DEF p, t, N
<1>7. Shape(g, N, CutLo(M, lo, n), CutHi(M, hi, n))
  <2>1. Cut(h, g, M, <<p, d>>, n, 0)
    BY <1>5 DEF Cut, N
  <2>2. /\ <<p, d>> \in TreeSlots(M \ {n})
        /\ Shape(g, M \ {n}, CutLo(M, lo, n), CutHi(M, hi, n))
    BY <1>1, <1>2, <1>5, <1>6, <2>1, CutShape DEF Dirs
  <2> QED
    BY <2>2 DEF N
<1>8. ASSUME NEW m \in N, NEW e \in Dirs
      PROVE  /\ Get(g, <<m, e>>) = IF <<m, e>> = <<p, d>> THEN Null ELSE Get(h, <<m, e>>)
             /\ Get(g, <<m, e>>) # Null => Get(g, <<m, e>>) \in N
  <2>1. <<m, e>> \in TreeSlots(N)
    BY DEF TreeSlots
  <2>2. N \subseteq Keys
    BY DEF N
  <2>3. Get(g, <<m, e>>) \in N \/ Get(g, <<m, e>>) = Null
    BY <1>7, <2>2, ChildType
  <2> QED
    BY <1>5, <2>1, <2>3
<1>9. Falling(g, N, ht)
  <2>1. /\ \A m \in M : ht[m] \in Nat /\ ht[m] >= 1
        /\ \A m \in M, e \in Dirs : Get(h, <<m, e>>) # Null => ht[Get(h, <<m, e>>)] < ht[m]
    BY <1>1 DEF Falling
  <2>2. N \subseteq M
    BY DEF N
  <2> QED
    BY <1>8, <2>1, <2>2 DEF Falling
<1>10. Deep(N, ht, p, t, c)
  <2>1. Deep(M, ht, p, t, c)
    BY <1>1, <1>3, DeepPop, EmptySeq DEF p, t
  <2>2. p \in N
    BY <1>4 DEF N
  <2>3. t \in Seq(N)
    <3>1. \A i \in 1 .. Len(t) : t[i] \in N
      BY <1>2, <1>3 DEF N
    <3> QED
      BY <1>3, <3>1
  <2> QED
    BY <2>1, <2>2, <2>3 DEF Deep
<1>11. WayTo(g, p, t)
  <2>1. /\ h.root = IF Len(s) = 0 THEN n ELSE s[1]
        /\ \A i \in 1 .. Len(s) :
             \E e \in Dirs : /\ Get(h, <<s[i], e>>) = IF i = Len(s) THEN n ELSE s[i + 1]
                             /\ e = 1 => Get(h, <<s[i], 0>>) = Null
    BY <1>1 DEF WayTo
  <2>2. g.root = h.root
    <3>1. RootSlot \in TreeSlots(N) /\ RootSlot # <<p, d>>
      BY <1>4 DEF TreeSlots, RootSlot
    <3>2. Get(g, RootSlot) = Get(h, RootSlot)
      BY <1>5, <3>1
    <3> QED
      BY <3>2 DEF Get, RootSlot
  <2>3. g.root = IF Len(t) = 0 THEN p ELSE t[1]
    BY <1>3, <2>1, <2>2 DEF p
  <2>4. ASSUME NEW i \in 1 .. Len(t)
        PROVE  \E e \in Dirs : /\ Get(g, <<t[i], e>>) = IF i = Len(t) THEN p ELSE t[i + 1]
                               /\ e = 1 => Get(g, <<t[i], 0>>) = Null
    <3>1. i \in 1 .. Len(s) /\ i < Len(s) /\ t[i] = s[i] /\ i + 1 \in 1 .. Len(s)
      BY <1>3
    <3>2. s[i] \in N /\ s[i] # p
      BY <1>2, <1>4, <3>1 DEF N, p
    <3>3. PICK e \in Dirs : /\ Get(h, <<s[i], e>>) = s[i + 1]
                            /\ e = 1 => Get(h, <<s[i], 0>>) = Null
      <4>1. PICK e \in Dirs : /\ Get(h, <<s[i], e>>) = IF i = Len(s) THEN n ELSE s[i + 1]
                              /\ e = 1 => Get(h, <<s[i], 0>>) = Null
        BY <2>1, <3>1
      <4>2. i # Len(s)
        BY <1>3, <3>1
      <4> QED
        BY <4>1, <4>2
    <3>4. s[i + 1] = IF i = Len(t) THEN p ELSE t[i + 1]
      BY <1>3, <3>1 DEF p
    <3>5. Get(g, <<s[i], e>>) = Get(h, <<s[i], e>>) /\ Get(g, <<s[i], 0>>) = Get(h, <<s[i], 0>>)
      <4>1. <<s[i], e>> # <<p, d>> /\ <<s[i], 0>> # <<p, d>> /\ 0 \in Dirs
        BY <3>2 DEF Dirs
      <4> QED
        BY <1>8, <3>2, <4>1
    <3> QED
      BY <3>1, <3>3, <3>4, <3>5
  <2> QED
    BY <2>3, <2>4 DEF WayTo
<1>12. ClearTree(g, N, p, t, c)
  BY <1>7, <1>9, <1>10, <1>11 DEF ClearTree
<1> QED
  BY <1>12 DEF N, p, t

\* The last node of the tree is its root.
LEMMA ClearLast ==
  ASSUME NEW h \in Heaps, NEW M, M \subseteq Keys, NEW n, NEW c, ClearTree(h, M, n, <<>>, c),
         Get(h, <<n, 0>>) = Null, Get(h, <<n, 1>>) = Null
  PROVE  M = {n}
<1>1. PICK lo, hi, ht : /\ Shape(h, M, lo, hi)
                        /\ Deep(M, ht, n, <<>>, c)
                        /\ WayTo(h, n, <<>>)
  BY DEF ClearTree
<1>2. n \in M /\ h.root = n
  BY <1>1 DEF Deep, WayTo
<1>3. Get(h, RootSlot) = n /\ n # Null
  BY <1>2, NullIsNoKey DEF Get, RootSlot
<1>4. RootSlot \in TreeSlots(M) /\ <<n, 0>> \in TreeSlots(M) /\ <<n, 1>> \in TreeSlots(M)
  BY <1>2 DEF TreeSlots, Dirs
<1>5. Under(M, lo, hi, <<n, 0>>) = {} /\ Under(M, lo, hi, <<n, 1>>) = {}
  <2>1. \A q \in TreeSlots(M) : Get(h, q) = Null => \A x \in M : ~ Inside(lo, hi, q, x)
    BY <1>1 DEF Shape, Placed
  <2>2. \A x \in M : ~ Inside(lo, hi, <<n, 0>>, x) /\ ~ Inside(lo, hi, <<n, 1>>, x)
    BY <1>4, <2>1
  <2> QED
    BY <2>2 DEF Under
<1>6. \A x \in Under(M, lo, hi, RootSlot) :
         x = n \/ x \in Under(M, lo, hi, <<n, 0>>) \/ x \in Under(M, lo, hi, <<n, 1>>)
  BY <1>1, <1>3, <1>4, AllUnder
<1>7. Under(M, lo, hi, RootSlot) = M
  <2>1. \A x \in M : Inside(lo, hi, RootSlot, x)
    BY SlotEnds, Sentinels DEF Inside
  <2> QED
    BY <2>1 DEF Under
<1> QED
  BY <1>2, <1>5, <1>6, <1>7

\* Nothing is at rest.
LEMMA NothingRests ==
  ASSUME NEW h \in Heaps, h.root = Null
  PROVE  Rests(h, {})
<1> DEFINE f == [x \in {} |-> 0]
<1>1. TreeSlots({}) = {RootSlot}
  BY DEF TreeSlots
<1>2. Get(h, RootSlot) = Null
  BY DEF Get, RootSlot
<1>3. f \in [{} -> Int] /\ f \in [{} -> Nat]
  OBVIOUS
<1> HIDE DEF f
<1>4. Placed(h, {}, f, f)
  BY <1>1, <1>2 DEF Placed
<1>5. Shape(h, {}, f, f)
  BY <1>3, <1>4 DEF Shape, Bounds, Ended, Nested, Bounded
<1>6. f \in Heights({}) /\ Sound(h, {}, f, f)
  BY <1>3 DEF Heights, Sound
<1> QED
  BY <1>5, <1>6 DEF Rests

-----------------------------------------------------------------------------
(* The steps of clear.                                                     *)

\* What a walk of clear that is under way has.
LEMMA ClearHas ==
  ASSUME TypeInv, NEW M, NEW O, Parts(M, O), pc \in {"clear_down", "clear_right", "clear_remove"}
  PROVE  /\ ClearTree(Trim(heap, pc, walk.node), M, walk.node, walk.stack, walk.capacity)
         /\ pc # "clear_down" => Get(heap, <<walk.node, 0>>) = Null
         /\ heap \in Heaps /\ M \subseteq Keys
         /\ walk \in Walks /\ walk.order = 0 /\ walk.capacity \in Nat
         /\ walk.node \in M /\ walk.node \in Keys /\ walk.stack \in Seq(M)
         /\ Near = Get(heap, <<walk.node, 0>>) /\ Near \in Ptrs
         /\ Far = Get(heap, <<walk.node, 1>>) /\ Far \in Ptrs
<1>1. ClearInv(pc, heap, M, walk) /\ heap \in Heaps /\ M \subseteq Keys /\ walk \in Walks
  BY PartsTypes DEF Parts, TypeInv
<1>2. /\ ClearTree(Trim(heap, pc, walk.node), M, walk.node, walk.stack, walk.capacity)
      /\ pc # "clear_down" => Get(heap, <<walk.node, 0>>) = Null
      /\ walk.order = 0
  BY <1>1 DEF ClearInv
<1>3. walk.node \in M /\ walk.node \in Keys /\ walk.stack \in Seq(M)
  BY <1>1, <1>2 DEF ClearTree, Deep
<1>4. walk.capacity \in Nat
  BY <1>1 DEF Walks
<1>5. 0 \in Dirs /\ 1 \in Dirs /\ 1 - walk.order = 1 /\ walk.node \in Ptrs
  BY <1>2, <1>3 DEF Dirs, Ptrs
<1>6. Near = Get(heap, <<walk.node, 0>>) /\ Far = Get(heap, <<walk.node, 1>>)
  BY <1>1, <1>2, <1>3, <1>5, LinkGet DEF Near, Far
<1>7. Near \in Ptrs /\ Far \in Ptrs
  BY <1>1, <1>2, <1>5, LinkType DEF Near, Far
<1> QED
  BY <1>1, <1>2, <1>3, <1>4, <1>6, <1>7

\* A step that goes on without freeing a node.
LEMMA ClearStepKeeps ==
  ASSUME TypeInv, NEW M, NEW O, Parts(M, O), pc \in {"clear", "clear_down", "clear_right"},
         UNCHANGED <<heap, live, node_count, reg, reply, other>>,
         pc' \in {"clear_down", "clear_right", "clear_remove"}, walk' \in Walks,
         ClearInv(pc', heap, M, walk')
  PROVE  TypeInv' /\ Parts(M, O)'
<1>1. pc \in TreeLabels /\ pc' \in TreeLabels /\ pc' \notin AvlLabels
  BY Labels
<1>2. TypeInv'
  BY <1>1 DEF TypeInv, WalkCalled
<1>3. /\ live' = M \cup O /\ M \cap O = {}
      /\ Rests(From(heap', other'.root), O) /\ other'.node_count = Cardinality(O)
  BY DEF Parts
<1>4. ClearInv(pc', heap', M, walk')
  OBVIOUS
<1>5. pc' \notin {"find_slot", "clear", "enumerate", "swap", "enum_down", "enum_visit"}
  OBVIOUS
<1> QED
  BY <1>1, <1>2, <1>3, <1>4, <1>5 DEF Parts

LEMMA ClearStartKeeps ==
  ASSUME TypeInv, NEW M, NEW O, Parts(M, O), ClearStart
  PROVE  TypeInv' /\ Parts(M, O)'
<1>1. /\ pc = "clear" /\ StartWalk("clear_down") /\ pc' = "clear_down"
      /\ UNCHANGED <<heap, live, node_count, reg, reply, other>>
  BY DEF ClearStart, StartWalk
<1>2. /\ walk' \in Walks /\ walk'.node = heap.root /\ walk'.stack = <<>> /\ walk'.order = walk.order
      /\ \E lo, hi, ht : /\ Shape(heap, M, lo, hi)
                         /\ Falling(heap, M, ht)
                         /\ Deep(M, ht, heap.root, <<>>, walk'.capacity)
  BY <1>1, BeginsAt
<1>3. WayTo(heap, heap.root, <<>>)
  <2>1. Len(<<>>) = 0 /\ \A i \in 1 .. 0 : FALSE
    OBVIOUS
  <2> QED
    BY <2>1 DEF WayTo
<1>4. ClearTree(heap, M, heap.root, <<>>, walk'.capacity)
  BY <1>2, <1>3 DEF ClearTree
<1>6. walk.order = 0
  BY <1>1 DEF Parts
<1>5. ClearInv("clear_down", heap, M, walk')
  BY <1>2, <1>4, <1>6 DEF ClearInv, Trim
<1> QED
  BY <1>1, <1>2, <1>5, ClearStepKeeps

LEMMA ClearLeftKeeps ==
  ASSUME TypeInv, NEW M, NEW O, Parts(M, O), ClearLeft
  PROVE  TypeInv' /\ Parts(M, O)'
<1>1. pc = "clear_down" /\ UNCHANGED <<heap, live, node_count, reg, reply, other>>
  BY DEF ClearLeft
<1>2. /\ ClearTree(Trim(heap, pc, walk.node), M, walk.node, walk.stack, walk.capacity)
      /\ walk \in Walks /\ walk.order = 0 /\ walk.capacity \in Nat
      /\ walk.node \in Keys
      /\ Near = Get(heap, <<walk.node, 0>>) /\ Near \in Ptrs
  BY <1>1, ClearHas
<1>3. ClearTree(heap, M, walk.node, walk.stack, walk.capacity)
  BY <1>1, <1>2 DEF Trim
<1>4. CASE Near # Null
  <2>1. walk' = [Push(walk, walk.node) EXCEPT !.node = Near] /\ pc' = "clear_down"
    BY <1>1, <1>4 DEF ClearLeft
  <2>2. walk' \in Walks /\ WalksOn(walk, walk', Near, Append(walk.stack, walk.node), walk.visited)
    BY <1>2, <2>1, WalksPushed
  <2>3. ClearTree(heap, M, Near, Append(walk.stack, walk.node), walk.capacity)
    <3>1. 0 \in Dirs /\ 0 # 1
      BY DEF Dirs
    <3>2. ClearTree(heap, M, Get(heap, <<walk.node, 0>>), Append(walk.stack, walk.node), walk.capacity)
      BY <1>2, <1>3, <1>4, <3>1, ClearDown
    <3> QED
      BY <1>2, <3>2
  <2>4. ClearInv("clear_down", heap, M, walk')
    BY <1>2, <2>2, <2>3 DEF ClearInv, Trim, WalksOn
  <2> QED
    BY <1>1, <2>1, <2>2, <2>4, ClearStepKeeps
<1>5. CASE Near = Null
  <2>1. walk' = walk /\ pc' = "clear_right"
    BY <1>1, <1>5 DEF ClearLeft
  <2>2. ClearInv("clear_right", heap, M, walk)
    BY <1>2, <1>3, <1>5 DEF ClearInv, Trim
  <2> QED
    BY <1>1, <1>2, <2>1, <2>2, ClearStepKeeps
<1> QED
  BY <1>4, <1>5

LEMMA ClearRightKeeps ==
  ASSUME TypeInv, NEW M, NEW O, Parts(M, O), ClearRight
  PROVE  TypeInv' /\ Parts(M, O)'
<1>1. pc = "clear_right" /\ UNCHANGED <<heap, live, node_count, reg, reply, other>>
  BY DEF ClearRight
<1>2. /\ ClearTree(Trim(heap, pc, walk.node), M, walk.node, walk.stack, walk.capacity)
      /\ Get(heap, <<walk.node, 0>>) = Null
      /\ heap \in Heaps /\ M \subseteq Keys
      /\ walk \in Walks /\ walk.order = 0 /\ walk.capacity \in Nat
      /\ walk.node \in M /\ walk.node \in Keys
      /\ Far = Get(heap, <<walk.node, 1>>) /\ Far \in Ptrs
  BY <1>1, ClearHas
<1>3. ClearTree(heap, M, walk.node, walk.stack, walk.capacity)
  BY <1>1, <1>2 DEF Trim
<1>4. CASE Far # Null
  <2>1. walk' = [Push(walk, walk.node) EXCEPT !.node = Far] /\ pc' = "clear_down"
    BY <1>1, <1>4 DEF ClearRight
  <2>2. walk' \in Walks /\ WalksOn(walk, walk', Far, Append(walk.stack, walk.node), walk.visited)
    BY <1>2, <2>1, WalksPushed
  <2>3. ClearTree(heap, M, Far, Append(walk.stack, walk.node), walk.capacity)
    <3>1. 1 \in Dirs
      BY DEF Dirs
    <3>2. ClearTree(heap, M, Get(heap, <<walk.node, 1>>), Append(walk.stack, walk.node), walk.capacity)
      BY <1>2, <1>3, <1>4, <3>1, ClearDown
    <3> QED
      BY <1>2, <3>2
  <2>4. ClearInv("clear_down", heap, M, walk')
    BY <1>2, <2>2, <2>3 DEF ClearInv, Trim, WalksOn
  <2> QED
    BY <1>1, <2>1, <2>2, <2>4, ClearStepKeeps
<1>5. CASE Far = Null
  <2>1. walk' = walk /\ pc' = "clear_remove"
    BY <1>1, <1>5 DEF ClearRight
  <2> DEFINE g == Put(heap, <<walk.node, 1>>, Null)
  <2>2. <<walk.node, 1>> \in TreeSlots(Keys) /\ Null \in Ptrs /\ <<walk.node, 1>> \in Slots
    BY <1>2 DEF TreeSlots, Dirs, Ptrs, Slots
  <2>3. g \in Heaps
    BY <1>2, <2>2, PutType
  <2>8. \A q \in TreeSlots(Keys) : Get(g, q) = IF q = <<walk.node, 1>> THEN Null ELSE Get(heap, q)
    BY <1>2, <2>2, PutGet
  <2>9. Get(heap, <<walk.node, 1>>) = Null
    BY <1>2, <1>5
  <2> HIDE DEF g
  <2>4. \A q \in TreeSlots(Keys) : Get(g, q) = Get(heap, q)
    BY <2>8, <2>9
  <2>5. Alike(heap, g, M)
    BY <1>2, <2>4, MoreSlots DEF Alike, TreeSlots
  <2>6. ClearTree(g, M, walk.node, walk.stack, walk.capacity)
    BY <1>2, <1>3, <2>3, <2>5, ClearAlike
  <2>7. ClearInv("clear_remove", heap, M, walk)
    BY <1>2, <2>6 DEF ClearInv, Trim, g
  <2> QED
    BY <1>1, <1>2, <2>1, <2>7, ClearStepKeeps
<1> QED
  BY <1>4, <1>5

\* The node at hand when it is about to be freed.
LEMMA LeafAtHand ==
  ASSUME TypeInv, NEW M, NEW O, Parts(M, O), pc = "clear_remove"
  PROVE  LET hs == Put(heap, <<walk.node, 1>>, Null)
         IN  /\ hs \in Heaps
             /\ ClearTree(hs, M, walk.node, walk.stack, walk.capacity)
             /\ Get(hs, <<walk.node, 0>>) = Null /\ Get(hs, <<walk.node, 1>>) = Null
             /\ \A q \in TreeSlots(Keys) : q # <<walk.node, 1>> => Get(hs, q) = Get(heap, q)
<1> DEFINE hs == Put(heap, <<walk.node, 1>>, Null)
<1>1. /\ ClearTree(Trim(heap, pc, walk.node), M, walk.node, walk.stack, walk.capacity)
      /\ Get(heap, <<walk.node, 0>>) = Null
      /\ heap \in Heaps /\ walk.node \in Keys
  BY ClearHas
<1>2. <<walk.node, 1>> \in TreeSlots(Keys) /\ <<walk.node, 0>> \in TreeSlots(Keys)
      /\ Null \in Ptrs /\ <<walk.node, 1>> \in Slots
  BY <1>1 DEF TreeSlots, Dirs, Ptrs, Slots
<1>3. hs \in Heaps
  BY <1>1, <1>2, PutType
<1>4. \A q \in TreeSlots(Keys) : Get(hs, q) = IF q = <<walk.node, 1>> THEN Null ELSE Get(heap, q)
  BY <1>1, <1>2, PutGet
<1>5. ClearTree(hs, M, walk.node, walk.stack, walk.capacity)
  BY <1>1 DEF Trim
<1>6. <<walk.node, 0>> # <<walk.node, 1>>
  OBVIOUS
<1> HIDE DEF hs
<1>7. Get(hs, <<walk.node, 0>>) = Null /\ Get(hs, <<walk.node, 1>>) = Null
  BY <1>1, <1>2, <1>4, <1>6
<1> QED
  BY <1>3, <1>4, <1>5, <1>7 DEF hs

\* What clear has freed is not in the other tree.
LEMMA ClearUpKeeps ==
  ASSUME TypeInv, NEW M, NEW O, Parts(M, O), ClearUp, NEW N, N = M \ {walk.node}
  PROVE  TypeInv' /\ Parts(N, O)'
<1> DEFINE n == walk.node
           s == walk.stack
           p == s[Len(s)]
           hs == Put(heap, <<n, 1>>, Null)
           freed == Blank(heap, n)
<1>1. /\ pc = "clear_remove" /\ s # <<>> /\ live' = live \ {n} /\ walk' = Pop(walk)
      /\ UNCHANGED <<node_count, reg, reply, other>>
  BY DEF ClearUp
<1>2. /\ IF Link(heap, p, 0) = Null
         THEN heap' = freed /\ pc' = "clear_remove"
         ELSE heap' = Put(freed, <<p, 0>>, Null) /\ pc' = "clear_right"
  BY <1>1 DEF ClearUp, LinkReset, Popped
<1>3. /\ heap \in Heaps /\ M \subseteq Keys /\ walk \in Walks /\ walk.order = 0 /\ walk.capacity \in Nat
      /\ n \in M /\ n \in Keys /\ s \in Seq(M) /\ Get(heap, <<n, 0>>) = Null
  BY <1>1, ClearHas
<1>4. /\ hs \in Heaps
      /\ ClearTree(hs, M, n, s, walk.capacity)
      /\ Get(hs, <<n, 0>>) = Null /\ Get(hs, <<n, 1>>) = Null
      /\ \A q \in TreeSlots(Keys) : q # <<n, 1>> => Get(hs, q) = Get(heap, q)
  BY <1>1, LeafAtHand
<1>5. PICK ht : Falling(hs, M, ht) /\ Deep(M, ht, n, s, walk.capacity) /\ WayTo(hs, n, s)
  BY <1>4 DEF ClearTree
<1>6. /\ \A i \in 1 .. Len(s) : s[i] \in M /\ s[i] # n
      /\ Len(s) \in Nat /\ Len(s) >= 1
  BY <1>1, <1>3, <1>5, StackApart, PoppedIs
<1>7. Len(s) \in 1 .. Len(s) /\ p \in M /\ p # n /\ p \in Keys /\ p # Null /\ n # Null
  BY <1>3, <1>6, NullIsNoKey
<1>8. PICK d \in Dirs : Get(hs, <<p, d>>) = n /\ (d = 1 => Get(hs, <<p, 0>>) = Null)
  <2>1. \E e \in Dirs : /\ Get(hs, <<s[Len(s)], e>>) = IF Len(s) = Len(s) THEN n ELSE s[Len(s) + 1]
                        /\ e = 1 => Get(hs, <<s[Len(s)], 0>>) = Null
    BY <1>5, <1>7 DEF WayTo
  <2> QED
    BY <2>1
<1>9. freed \in Heaps /\ \A t \in TreeSlots(Keys) : Get(freed, t) = IF t[1] = n THEN Null ELSE Get(heap, t)
  BY <1>3, BlankType, BlankGet
<1>10. /\ <<p, 0>> \in TreeSlots(Keys) /\ <<p, 1>> \in TreeSlots(Keys)
       /\ <<p, 0>> \in Slots /\ <<p, 1>> \in Slots /\ Null \in Ptrs
       /\ <<p, 0>> # <<n, 1>> /\ <<p, 1>> # <<n, 1>> /\ <<p, 0>>[1] = p /\ <<p, 1>>[1] = p
       /\ 0 \in Dirs /\ 1 \in Dirs
       /\ <<p, 0>> \in TreeSlots(M)
  BY <1>7 DEF TreeSlots, Dirs, Ptrs, Slots
<1>11. Link(heap, p, 0) = Get(hs, <<p, 0>>) /\ Get(heap, <<p, 0>>) = Get(hs, <<p, 0>>)
  BY <1>3, <1>4, <1>7, <1>10, LinkGet
<1>12. IF d = 1 THEN heap' = freed /\ pc' = "clear_remove"
                ELSE heap' = Put(freed, <<p, 0>>, Null) /\ pc' = "clear_right"
  BY <1>2, <1>7, <1>8, <1>11 DEF Dirs
<1> HIDE DEF hs, freed, p
<1>13. heap' \in Heaps /\ Get(heap', <<p, 0>>) = Null
  <2>1. CASE d = 1
    BY <1>7, <1>8, <1>9, <1>10, <1>11, <1>12, <2>1
  <2>2. CASE d # 1
    <3>1. Put(freed, <<p, 0>>, Null) \in Heaps
      BY <1>9, <1>10, PutType
    <3>2. Get(Put(freed, <<p, 0>>, Null), <<p, 0>>) = Null
      BY <1>9, <1>10, PutGet
    <3> QED
      BY <1>12, <2>2, <3>1, <3>2
  <2> QED
    BY <2>1, <2>2
<1> DEFINE g == Put(freed, <<p, d>>, Null)
<1>14. g = Trim(heap', pc', p)
  <2>1. CASE d = 1
    BY <1>12, <2>1 DEF Trim
  <2>2. CASE d # 1
    BY <1>12, <2>2 DEF Trim, Dirs
  <2> QED
    BY <2>1, <2>2
<1>15. <<p, d>> \in TreeSlots(Keys) /\ <<p, d>> \in Slots
  BY <1>10 DEF Dirs
<1>16. /\ g \in Heaps
       /\ \A t \in TreeSlots(Keys) : Get(g, t) = IF t = <<p, d>> THEN Null ELSE Get(freed, t)
  BY <1>9, <1>10, <1>15, PutType, PutGet
<1> HIDE DEF g
<1>17. Plucked(hs, g, M, n, p, d)
  <2> SUFFICES ASSUME NEW t \in TreeSlots(M \ {n})
               PROVE  Get(g, t) = IF t = <<p, d>> THEN Null ELSE Get(hs, t)
    BY <1>4, <1>8 DEF Plucked
  <2>1. t \in TreeSlots(Keys)
    BY <1>3 DEF TreeSlots
  <2>2. t[1] # n /\ t # <<n, 1>>
    BY <1>7 DEF TreeSlots, RootSlot
  <2> QED
    BY <1>4, <1>9, <1>16, <2>1, <2>2
<1>27. N = M \ {n}
  OBVIOUS
<1>18. ClearTree(g, N, p, SubSeq(s, 1, Len(s) - 1), walk.capacity)
  <2>1. Plucked(hs, g, M, n, s[Len(s)], d)
    BY <1>17 DEF p
  <2>2. ClearTree(g, M \ {n}, s[Len(s)], SubSeq(s, 1, Len(s) - 1), walk.capacity)
    BY <1>1, <1>3, <1>4, <1>16, <2>1, ClearPlucks
  <2> QED
    BY <1>27, <2>2 DEF p
<1>19. /\ walk' \in Walks
       /\ WalksOn(walk, walk', p, SubSeq(s, 1, Len(s) - 1), walk.visited)
  BY <1>1, <1>3, WalksPopped DEF p
<1>20. ClearInv(pc', heap', N, walk')
  <2>1. walk'.order = 0 /\ walk'.node = p /\ walk'.stack = SubSeq(s, 1, Len(s) - 1)
        /\ walk'.capacity = walk.capacity
    BY <1>3, <1>19 DEF WalksOn
  <2>2. ClearTree(Trim(heap', pc', walk'.node), N, walk'.node, walk'.stack, walk'.capacity)
    BY <1>14, <1>18, <2>1
  <2> QED
    BY <1>13, <2>1, <2>2 DEF ClearInv
<1>21. Rests(From(heap', other'.root), O)
  <2>1. Apart(heap, freed, M)
    BY <1>3, ApartBlank DEF freed
  <2>2. Apart(freed, Put(freed, <<p, 0>>, Null), M)
    BY <1>3, <1>9, <1>10, ApartPut
  <2>3. Apart(heap, heap', M)
    BY <1>12, <2>1, <2>2, ApartThen
  <2>4. Rests(From(heap, other.root), O) /\ other.root \in Ptrs /\ O \subseteq Keys /\ M \cap O = {}
    BY PartsTypes DEF Parts
  <2>5. Rests(From(heap', other.root), O)
    BY <1>3, <1>13, <2>3, <2>4, OtherKept
  <2> QED
    BY <1>1, <2>5
<1>22. live' = N \cup O /\ N \cap O = {} /\ other'.node_count = Cardinality(O)
  BY <1>1, <1>3, <1>27 DEF Parts
<1>23. pc' \in {"clear_right", "clear_remove"}
  BY <1>12
<1>24. pc' \in TreeLabels /\ pc' \notin AvlLabels /\ pc \in TreeLabels
       /\ pc' \notin {"find_slot", "clear", "enumerate", "swap", "enum_down", "enum_visit"}
  BY <1>1, <1>23, Labels
<1>25. TypeInv'
  BY <1>1, <1>13, <1>19, <1>24 DEF TypeInv, WalkCalled
<1>26. Parts(N, O)'
  <2>1. Rests(From(heap, other.root), O)'
    BY <1>1, <1>21
  <2>2. (pc \in AvlLabels => Own(N) /\ CallInv(N))'
    BY <1>24
  <2>3. live' = N \cup O /\ N \cap O = {} /\ other'.node_count = Cardinality(O)
    BY <1>22
  <2>4. ClearInv(pc', heap', N, walk')
    BY <1>20
  <2> QED
    BY <1>24, <2>1, <2>2, <2>3, <2>4 DEF Parts
<1> QED
  BY <1>25, <1>26

LEMMA ClearReturnKeeps ==
  ASSUME TypeInv, NEW M, NEW O, Parts(M, O), ClearReturn
  PROVE  TypeInv' /\ Parts({}, O)'
<1> DEFINE n == walk.node
           freed == Blank(heap, n)
<1>1. /\ pc = "clear_remove" /\ walk.stack = <<>> /\ live' = live \ {n}
      /\ heap' = [freed EXCEPT !.root = Null] /\ node_count' = 0
      /\ pc' = "idle" /\ reg' = NoRegs /\ walk' = NoWalk /\ UNCHANGED other
  BY DEF ClearReturn, CountWhenClear, Return
<1>2. heap \in Heaps /\ M \subseteq Keys /\ n \in M /\ n \in Keys
  BY <1>1, ClearHas
<1>3. M = {n}
  <2> DEFINE hs == Put(heap, <<n, 1>>, Null)
  <2>1. /\ hs \in Heaps
        /\ ClearTree(hs, M, n, walk.stack, walk.capacity)
        /\ Get(hs, <<n, 0>>) = Null /\ Get(hs, <<n, 1>>) = Null
    BY <1>1, LeafAtHand
  <2> HIDE DEF hs
  <2> QED
    BY <1>1, <1>2, <2>1, ClearLast
<1>4. freed \in Heaps /\ Apart(heap, freed, M)
  BY <1>2, BlankType, ApartBlank
<1>5. /\ Rests(From(heap, other.root), O) /\ other.root \in Ptrs /\ O \subseteq Keys /\ M \cap O = {}
      /\ live = M \cup O
      /\ other.node_count = Cardinality(O) /\ other \in [root : Ptrs, node_count : Int]
  BY PartsTypes DEF Parts, TypeInv
<1> HIDE DEF freed
<1>6. Rests(From(freed, other.root), O)
  BY <1>2, <1>4, <1>5, OtherKept
<1>7. From(heap', other.root) = From(freed, other.root)
  BY <1>1, <1>4, <1>5, FromIs
<1>8. heap' \in Heaps /\ heap'.root = Null
  <2>1. Null \in Ptrs /\ heap' = From(freed, Null)
    BY <1>1 DEF Ptrs, From
  <2> QED
    BY <1>4, <2>1, FromIs
<1>9. Rests(heap', {})
  BY <1>8, NothingRests
<1>10. Cardinality({}) = 0
  BY FS_EmptySet
<1>11. live' = {} \cup O /\ {} \cap O = {}
  BY <1>1, <1>3, <1>5
<1>12. Returned({}, O)'
  BY <1>1, <1>5, <1>6, <1>7, <1>8, <1>9, <1>10, <1>11 DEF Returned
<1> QED
  BY <1>12, ReturnedAfter


-----------------------------------------------------------------------------
(* What the callers see of a step.                                         *)

\* The keys that the caller knows to be in a tree with the nodes M.
Shown(M) ==
  IF pc \in {"rebalance", "update"} THEN M \ {reg.key}
  ELSE IF pc \in {"clear_down", "clear_right", "clear_remove"} THEN walk.before ELSE M

\* enumerate returns, when it has shown v to the visitor.
Enumerates(c, op, result, v) ==
  /\ op \in {"ascending", "descending"} /\ result \in {"stopped", "complete"}
  /\ reply' = [Abstract!Reply(op, Null, result, Cardinality(c)) EXCEPT !.visited = v]
  /\ Abstract!IsWalkOf(v, c, op = "descending")
  /\ result = "complete" => Len(v) = Cardinality(c)

\* A call of clear, enumerate or swap takes effect on the sets c and o.
WalkTakes(c, o, d, p) ==
  \/ /\ d = {} /\ p = o
     /\ reply' = Abstract!Reply("clear", Null, "cleared", 0)
  \/ /\ d = c /\ p = o
     /\ \E op, result, v : Enumerates(c, op, result, v)
  \/ /\ d = o /\ p = c
     /\ reply' = Abstract!Reply("swap", Null, "swapped", Cardinality(o))

\* What a step does to the two sets of keys.
WholeEffect(c, o, d, p) ==
  \/ p = o /\ Effect(c, d)
  \/ reply = Abstract!NoReply /\ WalkTakes(c, o, d, p)

\* A step takes the trees with the nodes M and O to trees with the nodes N and P.
Moves(M, O, N, P) ==
  TypeInv' /\ Parts(N, P)' /\ WholeEffect(Shown(M), O, Shown(N)', P)

\* A step that callers do not see.
LEMMA QuietMoves ==
  ASSUME NEW M, NEW O, NEW N, TypeInv' /\ Parts(N, O)', reply' \in {reply, Abstract!NoReply},
         Shown(N)' = Shown(M)
  PROVE  Moves(M, O, N, O)
BY DEF Moves, WholeEffect, Effect

LEMMA AvlStepMoves ==
  ASSUME TypeInv, NEW M, NEW O, Parts(M, O), AvlStep
  PROVE  \E N : Moves(M, O, N, O)
<1>1. TypeOK /\ Own(M) /\ CallInv(M) /\ [Next]_vars /\ pc \in AvlLabels
  BY DEF TypeInv, Parts, AvlStep
<1>2. PICK N : Nodes(M, N)
  <2>1. CASE InsertLink
    <3>1. ~ EraseUnlink
      BY <2>1, OneStage
    <3>2. Nodes(M, M \cup {reg.key})
      BY <2>1, <3>1 DEF Nodes
    <3> QED
      BY <3>2
  <2>2. CASE EraseUnlink
    <3>1. ~ InsertLink
      BY <2>2, OneStage
    <3>2. Nodes(M, M \ {reg.key})
      BY <2>2, <3>1 DEF Nodes
    <3> QED
      BY <3>2
  <2>3. CASE ~ InsertLink /\ ~ EraseUnlink
    <3>1. Nodes(M, M)
      BY <2>3 DEF Nodes
    <3> QED
      BY <3>1
  <2> QED
    BY <2>1, <2>2, <2>3
<1>3. TypeInv' /\ Parts(N, O)'
  BY <1>2, AvlStepTypes, AvlStepKeeps
<1>4. Effect(Known(M), Known(N)')
  BY <1>1, <1>2, CallEffect
<1>5. pc' \in AvlLabels
  BY <1>1, TypeNext DEF TypeOK, AvlLabels
<1>6. Shown(M) = Known(M) /\ Shown(N)' = Known(N)'
  BY <1>1, <1>5 DEF Shown, Known, AvlLabels
<1>7. Moves(M, O, N, O)
  BY <1>3, <1>4, <1>6 DEF Moves, WholeEffect
<1> QED
  BY <1>7

LEMMA WalkCallMoves ==
  ASSUME TypeInv, NEW M, NEW O, Parts(M, O), NEW label \in {"clear", "enumerate", "swap"},
         NEW order \in Dirs, WalkCall(label, order), label = "clear" => order = 0
  PROVE  Moves(M, O, M, O)
<1>1. pc = "idle" /\ pc' \in {"clear", "enumerate", "swap"} /\ reply' = Abstract!NoReply
  BY DEF WalkCall, Call
<1>2. Shown(M)' = Shown(M)
  BY <1>1 DEF Shown
<1> QED
  BY <1>1, <1>2, WalkCallKeeps, QuietMoves

\* What a call of clear, enumerate or swap that is running has.
LEMMA WalkHas ==
  ASSUME TypeInv, pc \in TreeLabels
  PROVE  reply = Abstract!NoReply /\ reg.key = Null
BY WalkRegs DEF TypeInv, WalkCalled

-----------------------------------------------------------------------------
(* clear takes effect when it returns.                                     *)

LEMMA ClearEmptyMoves ==
  ASSUME TypeInv, NEW M, NEW O, Parts(M, O), ClearEmpty
  PROVE  Moves(M, O, M, O)
<1>1. /\ pc = "clear" /\ pc' = "idle" /\ node_count' = node_count
      /\ reply' = Abstract!Reply("clear", reg.key, "cleared", node_count')
  BY DEF ClearEmpty, Return
<1>2. TypeInv' /\ Parts(M, O)' /\ M = {}
  BY ClearEmptyKeeps
<1>3. node_count = 0
  BY <1>1, <1>2, FS_EmptySet DEF Parts
<1>4. reply = Abstract!NoReply /\ reg.key = Null
  BY <1>1, WalkHas, Labels
<1>5. Shown(M)' = {}
  BY <1>1, <1>2 DEF Shown
<1>6. reply' = Abstract!Reply("clear", Null, "cleared", 0)
  BY <1>1, <1>3, <1>4
<1>7. WholeEffect(Shown(M), O, Shown(M)', O)
  BY <1>4, <1>5, <1>6 DEF WholeEffect, WalkTakes
<1> QED
  BY <1>2, <1>7 DEF Moves

LEMMA ClearReturnMoves ==
  ASSUME TypeInv, NEW M, NEW O, Parts(M, O), ClearReturn
  PROVE  Moves(M, O, {}, O)
<1>1. /\ pc = "clear_remove" /\ pc' = "idle" /\ node_count' = 0
      /\ reply' = Abstract!Reply("clear", reg.key, "cleared", node_count')
  BY DEF ClearReturn, Return, CountWhenClear
<1>2. TypeInv' /\ Parts({}, O)'
  BY ClearReturnKeeps
<1>4. reply = Abstract!NoReply /\ reg.key = Null
  BY <1>1, WalkHas, Labels
<1>5. Shown({})' = {}
  BY <1>1 DEF Shown
<1>6. reply' = Abstract!Reply("clear", Null, "cleared", 0)
  BY <1>1, <1>4
<1>7. WholeEffect(Shown(M), O, Shown({})', O)
  BY <1>4, <1>5, <1>6 DEF WholeEffect, WalkTakes
<1> QED
  BY <1>2, <1>7 DEF Moves

\* What the caller knows does not change while clear frees the nodes.
LEMMA ClearInnerMoves ==
  ASSUME TypeInv, NEW M, NEW O, Parts(M, O), ClearStart \/ ClearLeft \/ ClearRight \/ ClearUp
  PROVE  \E N : Moves(M, O, N, O)
<1>1. CASE ClearStart
  <2>1. pc = "clear" /\ StartWalk("clear_down") /\ pc' = "clear_down" /\ reply' = reply
    BY <1>1 DEF ClearStart, StartWalk
  <2>2. walk'.before = M
    BY <2>1, BeginsAt
  <2>3. Shown(M)' = Shown(M)
    BY <2>1, <2>2 DEF Shown
  <2>4. Moves(M, O, M, O)
    BY <1>1, <2>1, <2>3, ClearStartKeeps, QuietMoves
  <2> QED
    BY <2>4
<1>2. CASE ClearLeft
  <2>1. pc = "clear_down" /\ pc' \in {"clear_down", "clear_right"} /\ reply' = reply
    BY <1>2 DEF ClearLeft
  <2>2. walk \in Walks /\ walk.node \in Keys /\ Near \in Ptrs
    BY <2>1, ClearHas
  <2>3. walk' = [Push(walk, walk.node) EXCEPT !.node = Near] \/ walk' = walk
    BY <1>2 DEF ClearLeft
  <2>4. [Push(walk, walk.node) EXCEPT !.node = Near].before = walk.before
    BY <2>2, WalksPushed
  <2>5. walk'.before = walk.before
    BY <2>3, <2>4
  <2>6. Shown(M)' = Shown(M)
    BY <2>1, <2>5 DEF Shown
  <2>7. Moves(M, O, M, O)
    BY <1>2, <2>1, <2>6, ClearLeftKeeps, QuietMoves
  <2> QED
    BY <2>7
<1>3. CASE ClearRight
  <2>1. pc = "clear_right" /\ pc' \in {"clear_down", "clear_remove"} /\ reply' = reply
    BY <1>3 DEF ClearRight
  <2>2. walk \in Walks /\ walk.node \in Keys /\ Far \in Ptrs
    BY <2>1, ClearHas
  <2>3. walk' = [Push(walk, walk.node) EXCEPT !.node = Far] \/ walk' = walk
    BY <1>3 DEF ClearRight
  <2>4. [Push(walk, walk.node) EXCEPT !.node = Far].before = walk.before
    BY <2>2, WalksPushed
  <2>5. walk'.before = walk.before
    BY <2>3, <2>4
  <2>6. Shown(M)' = Shown(M)
    BY <2>1, <2>5 DEF Shown
  <2>7. Moves(M, O, M, O)
    BY <1>3, <2>1, <2>6, ClearRightKeeps, QuietMoves
  <2> QED
    BY <2>7
<1>4. CASE ClearUp
  <2>1. /\ pc = "clear_remove" /\ pc' \in {"clear_remove", "clear_right"} /\ reply' = reply
        /\ walk.stack # <<>> /\ walk' = Pop(walk)
    BY <1>4 DEF ClearUp
  <2>2. walk \in Walks
    BY <2>1, ClearHas
  <2>3. walk'.before = walk.before
    BY <2>1, <2>2, WalksPopped
  <2>4. PICK N : N = M \ {walk.node}
    OBVIOUS
  <2>5. Shown(N)' = Shown(M)
    BY <2>1, <2>3 DEF Shown
  <2>6. TypeInv' /\ Parts(N, O)'
    BY <1>4, <2>4, ClearUpKeeps
  <2>7. Moves(M, O, N, O)
    BY <2>1, <2>5, <2>6, QuietMoves
  <2> QED
    BY <2>7
<1> QED
  BY <1>1, <1>2, <1>3, <1>4

-----------------------------------------------------------------------------
(* enumerate takes effect when it returns, and swap.                       *)

LEMMA EnumInnerMoves ==
  ASSUME TypeInv, NEW M, NEW O, Parts(M, O), EnumStart \/ EnumDown \/ EnumFar \/ EnumUp
  PROVE  Moves(M, O, M, O)
<1>1. /\ pc \in {"enumerate", "enum_down", "enum_visit"} /\ pc' \in {"enum_down", "enum_visit"}
      /\ reply' = reply
  BY DEF EnumStart, StartWalk, EnumDown, EnumFar, EnumUp
<1>2. Shown(M)' = Shown(M)
  BY <1>1 DEF Shown
<1>3. TypeInv' /\ Parts(M, O)'
  BY EnumStartKeeps, EnumDownKeeps, EnumFarKeeps, EnumUpKeeps
<1> QED
  BY <1>1, <1>2, <1>3, QuietMoves

\* An end of enumerate with what has been visited.
LEMMA EnumReturnMoves ==
  ASSUME TypeInv, NEW M, NEW O, Parts(M, O), TypeInv' /\ Parts(M, O)',
         pc \in {"enumerate", "enum_visit"}, NEW result \in {"stopped", "complete"}, NEW v,
         EnumReturn(result, v), Abstract!IsWalkOf(v, M, walk.order = 1),
         result = "complete" => Len(v) = Cardinality(M)
  PROVE  Moves(M, O, M, O)
<1> DEFINE op == IF walk.order = 0 THEN "ascending" ELSE "descending"
<1>1. /\ pc' = "idle"
      /\ reply' = [Abstract!Reply(op, Null, result, node_count) EXCEPT !.visited = v]
  BY DEF EnumReturn
<1>2. walk.order \in Dirs
  BY DEF TypeInv, Walks
<1>3. op \in {"ascending", "descending"} /\ (op = "descending") = (walk.order = 1)
  BY <1>2 DEF Dirs
<1>4. Abstract!IsWalkOf(v, M, op = "descending")
  BY <1>3
<1> HIDE DEF op
<1>5. node_count = Cardinality(M)
  BY DEF Parts
<1>6. reply = Abstract!NoReply
  BY WalkHas, Labels
<1>7. Shown(M) = M /\ Shown(M)' = M
  BY <1>1 DEF Shown
<1>8. WalkTakes(M, O, M, O)
  <2>1. Enumerates(M, op, result, v)
    BY <1>1, <1>3, <1>4, <1>5 DEF Enumerates
  <2> QED
    BY <2>1 DEF WalkTakes
<1>9. WholeEffect(Shown(M), O, Shown(M)', O)
  BY <1>6, <1>7, <1>8 DEF WholeEffect
<1> QED
  BY <1>9 DEF Moves

LEMMA EnumEmptyMoves ==
  ASSUME TypeInv, NEW M, NEW O, Parts(M, O), EnumEmpty
  PROVE  Moves(M, O, M, O)
<1>1. pc = "enumerate" /\ EnumReturn("complete", <<>>)
  BY DEF EnumEmpty
<1>2. TypeInv' /\ Parts(M, O)' /\ M = {}
  BY EnumEmptyKeeps
<1>3. Abstract!IsWalkOf(<<>>, M, walk.order = 1)
  BY DEF Abstract!IsWalkOf
<1>4. Len(<<>>) = Cardinality(M)
  BY <1>2, FS_EmptySet
<1> QED
  BY <1>1, <1>2, <1>3, <1>4, EnumReturnMoves

LEMMA EnumEndMoves ==
  ASSUME TypeInv, NEW M, NEW O, Parts(M, O), EnumStop \/ EnumComplete
  PROVE  Moves(M, O, M, O)
<1>1. pc = "enum_visit"
  BY DEF EnumStop, EnumComplete
<1>2. TypeInv' /\ Parts(M, O)'
  BY EnumReturnKeeps
<1>3. /\ EnumInv("enum_visit", heap, M, walk) /\ M \subseteq Keys /\ walk.order \in Dirs
      /\ Far = Get(heap, <<walk.node, 1 - walk.order>>)
  BY <1>1, EnumHas
<1>4. /\ walk.node \in M
      /\ Lists(walk.order, Visited, {x \in M : ~ Precedes(walk.order, walk.node, x)})
  BY <1>3, SeenSoFar DEF Visited
<1>5. Abstract!IsWalkOf(Visited, M, walk.order = 1)
  BY <1>3, <1>4, ListsWalk
<1>6. CASE EnumStop
  <2>1. EnumReturn("stopped", Visited)
    BY <1>6 DEF EnumStop
  <2> QED
    BY <1>1, <1>2, <1>5, <2>1, EnumReturnMoves
<1>7. CASE EnumComplete
  <2>1. EnumReturn("complete", Visited) /\ Far = Null /\ walk.stack = <<>>
    BY <1>7 DEF EnumComplete
  <2>2. Lists(walk.order, Append(walk.visited, walk.node), M)
    BY <1>3, <2>1, EnumLast
  <2>3. Len(Visited) = Cardinality(M)
    BY <1>3, <2>2, ListsCount DEF Visited
  <2> QED
    BY <1>1, <1>2, <1>5, <2>1, <2>3, EnumReturnMoves
<1> QED
  BY <1>6, <1>7

LEMMA SwapMoves ==
  ASSUME TypeInv, NEW M, NEW O, Parts(M, O), SwapReturn
  PROVE  Moves(M, O, O, M)
<1>1. /\ pc = "swap" /\ pc' = "idle" /\ node_count' = other.node_count
      /\ reply' = Abstract!Reply("swap", reg.key, "swapped", node_count')
  BY DEF SwapReturn, Return
<1>2. TypeInv' /\ Parts(O, M)'
  BY SwapKeeps
<1>3. reply = Abstract!NoReply /\ reg.key = Null
  BY <1>1, WalkHas, Labels
<1>4. other.node_count = Cardinality(O)
  BY DEF Parts
<1>5. Shown(M) = M /\ Shown(O)' = O
  BY <1>1 DEF Shown
<1>6. WalkTakes(M, O, O, M)
  BY <1>1, <1>3, <1>4 DEF WalkTakes
<1> QED
  BY <1>2, <1>3, <1>5, <1>6 DEF Moves, WholeEffect

-----------------------------------------------------------------------------
(* All the steps.                                                          *)

\* The registers of a call of insert.
LEMMA CallKey ==
  ASSUME NEW k, NEW j, InsertCall(k), InsertCall(j)
  PROVE  k = j
BY DEF InsertCall, Call, NoRegs

LEMMA IsAvlStep ==
  ASSUME TypeInv,
         \/ \E k \in Keys \ OtherReach : InsertCall(k) /\ UNCHANGED <<other, walk>>
         \/ \E k \in Keys : (EraseCall(k) \/ CountCall(k)) /\ UNCHANGED <<other, walk>>
         \/ Step /\ UNCHANGED <<other, walk>>
  PROVE  AvlStep
<1>1. CASE \E k \in Keys \ OtherReach : InsertCall(k) /\ UNCHANGED <<other, walk>>
  <2>1. PICK k \in Keys \ OtherReach : InsertCall(k) /\ UNCHANGED <<other, walk>>
    BY <1>1
  <2>2. pc = "idle"
    BY <2>1 DEF InsertCall, Call
  <2>3. \A j \in Keys : InsertCall(j) => j \notin OtherReach
    BY <2>1, CallKey
  <2>4. [Next]_vars
    BY <2>1 DEF Next
  <2> QED
    BY <2>1, <2>2, <2>3, <2>4 DEF AvlStep, AvlLabels
<1>2. CASE \E k \in Keys : (EraseCall(k) \/ CountCall(k)) /\ UNCHANGED <<other, walk>>
  <2>1. PICK k \in Keys : (EraseCall(k) \/ CountCall(k)) /\ UNCHANGED <<other, walk>>
    BY <1>2
  <2>2. pc = "idle" /\ pc' \in {"find_target", "lookup"}
    BY <2>1 DEF EraseCall, CountCall, Call
  <2>3. \A j \in Keys : ~ InsertCall(j)
    BY <2>2 DEF InsertCall, Call
  <2>4. [Next]_vars
    BY <2>1 DEF Next
  <2> QED
    BY <2>1, <2>2, <2>3, <2>4 DEF AvlStep, AvlLabels
<1>3. CASE Step /\ UNCHANGED <<other, walk>>
  <2>1. pc \in AvlLabels /\ pc # "idle"
    BY <1>3 DEF Step, InsertStep, EraseStep, CountStep, AvlLabels,
       InsertDescend, InsertPresent, InsertLink, InsertThrows, InsertBelowBalanced,
       InsertShorterPath, InsertRotate2, InsertRotate3, InsertUpdate, InsertReturn,
       EraseDescend, EraseAbsent, EraseLocated, EraseLower, EraseUnlink, CountDescend, CountReturn
  <2>2. \A j \in Keys : ~ InsertCall(j)
    BY <2>1 DEF InsertCall, Call
  <2>3. [Next]_vars
    BY <1>3 DEF Next
  <2> QED
    BY <1>3, <2>1, <2>2, <2>3 DEF AvlStep
<1> QED
  BY <1>1, <1>2, <1>3

LEMMA StutterMoves ==
  ASSUME TypeInv, NEW M, NEW O, Parts(M, O), UNCHANGED treeVars
  PROVE  \E N : Moves(M, O, N, O)
<1>1. UNCHANGED <<heap, live, node_count, pc, reg, reply, other, walk>> /\ UNCHANGED vars
  BY DEF treeVars, vars
<1>2. CASE pc \in AvlLabels
  <2>1. \A j \in Keys : ~ InsertCall(j)
    BY <1>1 DEF InsertCall, Call
  <2>2. AvlStep
    BY <1>1, <1>2, <2>1 DEF AvlStep
  <2> QED
    BY <2>2, AvlStepMoves
<1>3. CASE pc \notin AvlLabels
  <2>1. TypeInv'
    BY <1>1, <1>3 DEF TypeInv, WalkCalled
  <2>2. pc # "find_slot"
    BY <1>3 DEF AvlLabels
  <2>3. Parts(M, O)'
    BY <1>1, <1>3, <2>2 DEF Parts
  <2>4. Shown(M)' = Shown(M)
    BY <1>1 DEF Shown
  <2>5. Moves(M, O, M, O)
    BY <1>1, <2>1, <2>3, <2>4, QuietMoves
  <2> QED
    BY <2>5
<1> QED
  BY <1>2, <1>3

LEMMA WholeNext ==
  ASSUME TypeInv, NEW M, NEW O, Parts(M, O), [TreeNext]_treeVars
  PROVE  \E N, P : Moves(M, O, N, P)
<1>1. CASE AvlStep
  BY <1>1, AvlStepMoves
<1>2. CASE ClearCall \/ SwapCall \/ \E order \in Dirs : EnumerateCall(order)
  <2>1. PICK label \in {"clear", "enumerate", "swap"}, order \in Dirs :
          WalkCall(label, order) /\ (label = "clear" => order = 0)
    BY <1>2 DEF ClearCall, SwapCall, EnumerateCall, Dirs
  <2>2. Moves(M, O, M, O)
    BY <2>1, WalkCallMoves
  <2> QED
    BY <2>2
<1>3. CASE ClearEmpty
  BY <1>3, ClearEmptyMoves
<1>4. CASE ClearStart \/ ClearLeft \/ ClearRight \/ ClearUp
  BY <1>4, ClearInnerMoves
<1>5. CASE ClearReturn
  BY <1>5, ClearReturnMoves
<1>6. CASE EnumEmpty
  BY <1>6, EnumEmptyMoves
<1>7. CASE EnumStart \/ EnumDown \/ EnumFar \/ EnumUp
  BY <1>7, EnumInnerMoves
<1>8. CASE EnumStop \/ EnumComplete
  BY <1>8, EnumEndMoves
<1>9. CASE SwapReturn
  BY <1>9, SwapMoves
<1>10. CASE UNCHANGED treeVars
  BY <1>10, StutterMoves
<1>11. TreeNext => \/ AvlStep \/ ClearCall \/ SwapCall \/ (\E order \in Dirs : EnumerateCall(order))
                   \/ TreeStep
  BY IsAvlStep DEF TreeNext, TreeCall
<1>12. TreeStep => \/ AvlStep
                   \/ ClearEmpty \/ ClearStart \/ ClearLeft \/ ClearRight \/ ClearUp \/ ClearReturn
                   \/ EnumEmpty \/ EnumStart \/ EnumDown \/ EnumStop \/ EnumFar \/ EnumUp \/ EnumComplete
                   \/ SwapReturn
  BY IsAvlStep DEF TreeStep
<1> QED
  BY <1>1, <1>2, <1>3, <1>4, <1>5, <1>6, <1>7, <1>8, <1>9, <1>10, <1>11, <1>12

-----------------------------------------------------------------------------
(* The theorems.                                                           *)

\* One step keeps the invariant.
LEMMA WholeStep == WholeInv /\ [TreeNext]_treeVars => WholeInv'
<1> SUFFICES ASSUME WholeInv, [TreeNext]_treeVars
             PROVE  WholeInv'
  OBVIOUS
<1>1. PICK M, O : TypeInv /\ Parts(M, O)
  BY DEF WholeInv
<1>2. PICK N, P : Moves(M, O, N, P)
  BY <1>1, WholeNext
<1> QED
  BY <1>2 DEF Moves, WholeInv

\* The state of the two trees at every step of every call.
THEOREM TreesKept == TreeSpec => []WholeInv
<1>1. TreeInit => WholeInv
  BY WholeInit DEF WholeInv
<1> QED
  BY <1>1, WholeStep, PTL DEF TreeSpec

\* Every variable has its type, the two trees and the local variables of clear
\* and enumerate with those of insert, erase and count.
THEOREM TreeTypeCorrect == TreeSpec => []TreeTypeOK
<1>1. WholeInv => TreeTypeOK
  BY TypeInvTypes DEF WholeInv
<1> QED
  BY <1>1, TreesKept, PTL

\* Whatever calls are made and however the trees are swapped, between calls
\* nothing that is allocated is outside the two trees or in both of them, and
\* each tree knows its number of nodes, from which the next walk's buffer is
\* worked out.
THEOREM HeapParted == TreeSpec => []HeapPartition
<1>1. WholeInv => HeapPartition
  BY PartitionHolds DEF WholeInv
<1> QED
  BY <1>1, TreesKept, PTL

\* clear frees each node once and follows no link to a node it has freed, though
\* it leaves such links behind.
THEOREM ClearIsSafe == TreeSpec => []ClearTouchesLiveNodes
<1>1. WholeInv => ClearTouchesLiveNodes
  BY ClearTouchesHolds DEF WholeInv
<1> QED
  BY <1>1, TreesKept, PTL

\* The unchecked push of stack_adaptor is never past the end of the buffer that
\* clear and enumerate take from the C++ stack, for a tree of any size.
THEOREM BufferIsLargeEnough == TreeSpec => []StackFits
<1>1. WholeInv => StackFits
  BY StackFitsHolds DEF WholeInv
<1> QED
  BY <1>1, TreesKept, PTL

\* Both enumerations show the visitor the elements in order, and none is left
\* out before the last one shown.
THEOREM VisitsInOrder == TreeSpec => []EnumerationInOrder
<1>1. WholeInv => EnumerationInOrder
  BY InOrderHolds DEF WholeInv
<1> QED
  BY <1>1, TreesKept, PTL

-----------------------------------------------------------------------------
(* The trees implement the sets.                                           *)

Contents == CASE pc \in {"rebalance", "update"} -> Reach \ {reg.key}
              [] pc \in ClearLabels             -> walk.before
              [] OTHER                          -> Reach

\* What callers are shown is what the refinement mapping says.
ShowsContents == \A M, O : TypeInv /\ Parts(M, O) => Contents = Shown(M) /\ OtherReach = O

LEMMA ContentsShown == ShowsContents
<1> SUFFICES ASSUME NEW M, NEW O, TypeInv, Parts(M, O)
             PROVE  Contents = Shown(M) /\ OtherReach = O
  BY DEF ShowsContents
<1>1. OtherReach = O
  BY OtherReachIs
<1>2. pc = "clear" => walk.before = M /\ M \subseteq Keys
  <2>1. pc = "clear" => walk = [NoWalk EXCEPT !.order = walk.order, !.before = M]
    BY DEF Parts
  <2>2. walk.order \in Dirs /\ M \subseteq Keys
    BY PartsTypes DEF TypeInv, Walks
  <2>3. Fresh(walk.order, M).before = M
    BY <2>2, FreshType
  <2> QED
    BY <2>1, <2>2, <2>3 DEF Fresh
<1>3. pc \notin {"clear_down", "clear_right", "clear_remove"} => Reach = M
  BY MainReach
<1>4. CASE pc \in {"rebalance", "update"}
  <2>1. Reach = M /\ pc \notin ClearLabels
    BY <1>3, <1>4 DEF ClearLabels
  <2>2. Contents = Reach \ {reg.key}
    BY <1>4, <2>1 DEF Contents
  <2>3. Shown(M) = M \ {reg.key}
    BY <1>4 DEF Shown
  <2> QED
    BY <1>1, <2>1, <2>2, <2>3
<1>5. CASE pc = "clear"
  BY <1>1, <1>2, <1>5 DEF Contents, Shown, ClearLabels
<1>6. CASE pc \in {"clear_down", "clear_right", "clear_remove"}
  BY <1>1, <1>6 DEF Contents, Shown, ClearLabels
<1>7. CASE pc \notin {"rebalance", "update", "clear", "clear_down", "clear_right", "clear_remove"}
  BY <1>1, <1>3, <1>7 DEF Contents, Shown, ClearLabels
<1> QED
  BY <1>4, <1>5, <1>6, <1>7

LEMMA SameReplies ==
  /\ TreeSet!NoReply = Abstract!NoReply
  /\ \A op, k, result, size : Abstract!Reply(op, k, result, size) = TreeSet!Reply(op, k, result, size)
  /\ \A S : TreeSet!Cardinality(S) = Cardinality(S)
  /\ \A v, S, down : Abstract!IsWalkOf(v, S, down) => TreeSet!IsWalkOf(v, S, down)
BY DEF Abstract!Reply, TreeSet!Reply, Abstract!NoReply, TreeSet!NoReply,
   TreeSet!Cardinality, Cardinality, Abstract!IsWalkOf, TreeSet!IsWalkOf

LEMMA SetsNext ==
  ASSUME NEW c, NEW d, NEW o, NEW p, WholeEffect(c, o, d, p),
         c = Contents, d = Contents', o = OtherReach, p = OtherReach'
  PROVE  [TreeSet!Next]_(TreeSet!vars)
<1>1. /\ c = CASE pc \in {"rebalance", "update"} -> Reach \ {reg.key}
                [] pc \in ClearLabels             -> walk.before
                [] OTHER                          -> Reach
      /\ d = CASE pc' \in {"rebalance", "update"} -> Reach' \ {reg'.key}
                [] pc' \in ClearLabels             -> walk'.before
                [] OTHER                           -> Reach'
  BY DEF Contents
<1>2. CASE d = c /\ p = o /\ reply' = reply
  BY <1>1, <1>2 DEF TreeSet!vars
<1>3. CASE d = c /\ p = o /\ reply' = Abstract!NoReply /\ reply # Abstract!NoReply
  <2>1. TreeSet!Begin
    BY <1>1, <1>3, SameReplies DEF TreeSet!Begin
  <2> QED
    BY <2>1 DEF TreeSet!Next
<1>4. CASE p = o /\ reply = Abstract!NoReply /\ reg.key \in Keys /\ Takes(c, d)
  <2> DEFINE k == reg.key
  <2>0. PICK op, result :
          /\ reply' = Abstract!Reply(op, k, result, Cardinality(d))
          /\ \/ /\ op = "insert" /\ d = c \cup {k}
                /\ result = IF k \in c THEN "present" ELSE "inserted"
             \/ /\ op = "insert" /\ d = c /\ result = "bad_alloc" /\ k \notin c
             \/ /\ op = "erase" /\ d = c \ {k}
                /\ result = IF k \in c THEN "erased" ELSE "absent"
             \/ /\ op = "count" /\ d = c
                /\ result = IF k \in c THEN "present" ELSE "absent"
    BY <1>4 DEF Takes
  <2>1. /\ reply' = TreeSet!Reply(op, k, result, TreeSet!Cardinality(d)) /\ k \in Keys
        /\ reply = TreeSet!NoReply
    BY <1>4, <2>0, SameReplies
  <2>2. TreeSet!Insert(k) \/ TreeSet!InsertThrows(k) \/ TreeSet!Erase(k) \/ TreeSet!Count(k)
    <3>1. ASSUME op = "insert", d = c \cup {k}, result = IF k \in c THEN "present" ELSE "inserted"
          PROVE  TreeSet!Insert(k)
      BY <1>1, <1>4, <2>1, <3>1 DEF TreeSet!Insert
    <3>2. ASSUME op = "insert", d = c, result = "bad_alloc", k \notin c
          PROVE  TreeSet!InsertThrows(k)
      BY <1>1, <1>4, <2>1, <3>2 DEF TreeSet!InsertThrows
    <3>3. ASSUME op = "erase", d = c \ {k}, result = IF k \in c THEN "erased" ELSE "absent"
          PROVE  TreeSet!Erase(k)
      BY <1>1, <1>4, <2>1, <3>3 DEF TreeSet!Erase
    <3>4. ASSUME op = "count", d = c, result = IF k \in c THEN "present" ELSE "absent"
          PROVE  TreeSet!Count(k)
      BY <1>1, <1>4, <2>1, <3>4 DEF TreeSet!Count
    <3> HIDE DEF k
    <3> QED
      BY <2>0, <3>1, <3>2, <3>3, <3>4
  <2>3. TreeSet!TakeEffect
    BY <2>1, <2>2 DEF TreeSet!TakeEffect
  <2> QED
    BY <2>1, <2>3 DEF TreeSet!Next
<1>5. CASE reply = Abstract!NoReply /\ WalkTakes(c, o, d, p)
  <2>1. CASE d = {} /\ p = o /\ reply' = Abstract!Reply("clear", Null, "cleared", 0)
    <3>1. TreeSet!Clear
      BY <1>1, <2>1, SameReplies DEF TreeSet!Clear
    <3> QED
      BY <1>5, <3>1, SameReplies DEF TreeSet!TakeEffect, TreeSet!Next
  <2>2. CASE d = c /\ p = o /\ \E op, result, v : Enumerates(c, op, result, v)
    <3>1. PICK op, result, v : Enumerates(c, op, result, v)
      BY <2>2
    <3>2. /\ op \in {"ascending", "descending"} /\ result \in {"stopped", "complete"}
          /\ reply' = [TreeSet!Reply(op, Null, result, TreeSet!Cardinality(c)) EXCEPT !.visited = v]
          /\ TreeSet!IsWalkOf(v, c, op = "descending")
          /\ result = "complete" => Len(v) = TreeSet!Cardinality(c)
      BY <3>1, SameReplies DEF Enumerates
    <3>3. reply'.op = op /\ reply'.result = result /\ reply'.visited = v
      BY <3>2 DEF TreeSet!Reply, TreeSet!NoReply
    <3>4. TreeSet!Enumerate
      BY <1>1, <2>2, <3>2, <3>3 DEF TreeSet!Enumerate
    <3> QED
      BY <1>5, <3>4, SameReplies DEF TreeSet!TakeEffect, TreeSet!Next
  <2>3. CASE d = o /\ p = c /\ reply' = Abstract!Reply("swap", Null, "swapped", Cardinality(o))
    <3>1. TreeSet!Swap
      BY <1>1, <2>3, SameReplies DEF TreeSet!Swap
    <3> QED
      BY <1>5, <3>1, SameReplies DEF TreeSet!TakeEffect, TreeSet!Next
  <2> QED
    BY <1>5, <2>1, <2>2, <2>3 DEF WalkTakes
<1> QED
  BY <1>2, <1>3, <1>4, <1>5 DEF WholeEffect, Effect

LEMMA SetsInit ==
  ASSUME TreeInit
  PROVE  TreeSet!Init
<1>1. TypeInv /\ Parts({}, {}) /\ pc = "idle" /\ reply = Abstract!NoReply
  BY WholeInit DEF TreeInit, Init
<1>2. Contents = {} /\ OtherReach = {}
  <2>1. Shown({}) = {}
    BY <1>1 DEF Shown
  <2> QED
    BY <1>1, <2>1, ContentsShown DEF ShowsContents
<1> QED
  BY <1>1, <1>2, SameReplies DEF TreeSet!Init, Contents

LEMMA SetsStep == WholeInv /\ [TreeNext]_treeVars => [TreeSet!Next]_(TreeSet!vars)
<1> SUFFICES ASSUME WholeInv, [TreeNext]_treeVars
             PROVE  [TreeSet!Next]_(TreeSet!vars)
  OBVIOUS
<1>1. PICK M, O : TypeInv /\ Parts(M, O)
  BY DEF WholeInv
<1>2. PICK N, P : Moves(M, O, N, P)
  BY <1>1, WholeNext
<1>3. ShowsContents'
  BY ContentsShown, PTL
<1>4. /\ Contents = Shown(M) /\ OtherReach = O
      /\ Contents' = Shown(N)' /\ OtherReach' = P
  BY <1>1, <1>2, <1>3, ContentsShown DEF ShowsContents, Moves
<1>5. PICK c, d : c = Shown(M) /\ d = Shown(N)'
  OBVIOUS
<1>6. WholeEffect(c, O, d, P)
  BY <1>2, <1>5 DEF Moves
<1> QED
  BY <1>4, <1>5, <1>6, SetsNext

\* What callers see of all the calls, on two trees: two sets.  clear takes effect
\* when it returns, enumerate shows a set in order, and says it is complete only
\* when it has shown all of it, and swap exchanges the sets with their counts.
THEOREM SetsImplemented == TreeSpec => TreeImplementsSets
<1>1. TreeInit => TreeSet!Init
  BY SetsInit
<1> QED
  BY <1>1, SetsStep, TreesKept, PTL DEF TreeSpec, TreeImplementsSets, TreeSet!Spec

=============================================================================
