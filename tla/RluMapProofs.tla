---------------------------- MODULE RluMapProofs ----------------------------
(***************************************************************************)
(* For any keys, weights, limit and factor: list, map and weight agree, so *)
(* that the map keeps the most recent elements that are light enough, as   *)
(* floats compare.                                                         *)
(***************************************************************************)
EXTENDS RluMap, Induction, SequenceTheorems

Lists == Seq(Key)

\* list_it is where the loop begins its turn, unless nothing is left.
IteratorLast == pc = "purge" /\ orderList # <<>> => list_it = Last(orderList)

ListInv ==
  /\ orderList \in Lists
  /\ ListAgrees
  /\ IteratorLast

-----------------------------------------------------------------------------
(* What the operations on lists do.                                        *)

\* In a list without repetitions, the first place of a key is its only one.
LEMMA RemoveFirstIsAt ==
  ASSUME NEW l \in Lists, IsInjective(l), NEW n \in 1 .. Len(l)
  PROVE  RemoveFirst(l, l[n]) = RemoveAt(l, n)
<1> DEFINE Places == {m \in 1 .. Len(l) : l[m] = l[n]}
<1>1. Places = {n}
  BY DEF IsInjective, Lists
<1>2. Min(Places) = n
  BY <1>1 DEF Min
<1>3. SelectInSeq(l, LAMBDA v : v = l[n]) = n
  BY <1>1, <1>2 DEF SelectInSeq, SelectInSubSeq
<1> QED
  BY <1>3 DEF RemoveFirst

\* The list l without its place n.
LEMMA RemoveAtOf ==
  ASSUME NEW l \in Lists, NEW n \in 1 .. Len(l)
  PROVE  /\ RemoveAt(l, n) \in Lists
         /\ Len(RemoveAt(l, n)) = Len(l) - 1
         /\ \A m \in 1 .. Len(l) - 1 :
              RemoveAt(l, n)[m] = IF m < n THEN l[m] ELSE l[m + 1]
<1> DEFINE a == SubSeq(l, 1, n - 1)
           b == SubSeq(l, n + 1, Len(l))
<1>1. a \in Lists /\ Len(a) = n - 1 /\ \A m \in 1 .. n - 1 : a[m] = l[m]
  BY DEF Lists
<1>2. b \in Lists /\ Len(b) = Len(l) - n /\ \A m \in 1 .. Len(l) - n : b[m] = l[m + n]
  BY DEF Lists
<1>3. RemoveAt(l, n) = a \o b
  BY DEF RemoveAt
<1> HIDE DEF a, b
<1>4. a \o b \in Lists /\ Len(a \o b) = Len(l) - 1
  BY <1>1, <1>2 DEF Lists
<1>5. ASSUME NEW m \in 1 .. Len(l) - 1
      PROVE  (a \o b)[m] = IF m < n THEN l[m] ELSE l[m + 1]
  <2>1. (a \o b)[m] = IF m < n THEN a[m] ELSE b[m - (n - 1)]
    BY <1>1, <1>2 DEF Lists
  <2> QED
    BY <1>1, <1>2, <2>1 DEF Lists
<1> QED
  BY <1>3, <1>4, <1>5

LEMMA RemoveAtAgrees ==
  ASSUME NEW l \in Lists, IsInjective(l), NEW n \in 1 .. Len(l)
  PROVE  /\ IsInjective(RemoveAt(l, n))
         /\ ToSet(RemoveAt(l, n)) = ToSet(l) \ {l[n]}
<1> DEFINE r == RemoveAt(l, n)
<1>1. /\ DOMAIN l = 1 .. Len(l) /\ DOMAIN r = 1 .. Len(l) - 1
      /\ \A m \in 1 .. Len(l) - 1 : r[m] = IF m < n THEN l[m] ELSE l[m + 1]
      /\ Len(l) \in Nat
  BY RemoveAtOf DEF Lists
<1> HIDE DEF r
<1>2. IsInjective(r)
  BY <1>1 DEF IsInjective
<1>3. ToSet(r) \subseteq ToSet(l) \ {l[n]}
  BY <1>1 DEF IsInjective, ToSet
<1>4. ASSUME NEW m \in 1 .. Len(l), m # n
      PROVE  l[m] \in ToSet(r)
  <2>1. CASE m < n
    BY <1>1, <2>1 DEF ToSet
  <2>2. CASE m > n
    <3>1. m - 1 \in 1 .. Len(l) - 1 /\ r[m - 1] = l[m]
      BY <1>1, <2>2
    <3> QED
      BY <1>1, <3>1 DEF ToSet
  <2> QED
    BY <1>1, <1>4, <2>1, <2>2
<1>5. ToSet(l) \ {l[n]} \subseteq ToSet(r)
  BY <1>1, <1>4 DEF ToSet
<1> QED
  BY <1>2, <1>3, <1>5 DEF r

\* The list l with k at its place n.
LEMMA InsertAtOf ==
  ASSUME NEW l \in Lists, NEW n \in 1 .. Len(l) + 1, NEW k \in Key
  PROVE  /\ InsertAt(l, n, k) \in Lists
         /\ Len(InsertAt(l, n, k)) = Len(l) + 1
         /\ \A m \in 1 .. Len(l) + 1 :
              InsertAt(l, n, k)[m] = IF m < n THEN l[m] ELSE IF m = n THEN k ELSE l[m - 1]
<1> DEFINE a == SubSeq(l, 1, n - 1)
           b == SubSeq(l, n, Len(l))
           ak == a \o <<k>>
<1>1. a \in Lists /\ Len(a) = n - 1 /\ \A m \in 1 .. n - 1 : a[m] = l[m]
  BY DEF Lists
<1>2. b \in Lists /\ Len(b) = Len(l) - n + 1
      /\ \A m \in 1 .. Len(l) - n + 1 : b[m] = l[m + n - 1]
  BY DEF Lists
<1>3. InsertAt(l, n, k) = ak \o b
  BY DEF InsertAt
<1> HIDE DEF a, b
<1>4. ak \in Lists /\ Len(ak) = n /\ \A m \in 1 .. n : ak[m] = IF m < n THEN l[m] ELSE k
  BY <1>1 DEF Lists
<1> HIDE DEF ak
<1>5. ak \o b \in Lists /\ Len(ak \o b) = Len(l) + 1
  <2> SUFFICES ASSUME ak \in Seq(Key), b \in Seq(Key)
               PROVE  /\ ak \o b \in Seq(Key)
                      /\ Len(ak \o b) = Len(ak) + Len(b)
                      /\ Len(l) \in Nat
    BY <1>2, <1>4 DEF Lists
  <2>1. ak \o b \in Seq(Key) /\ Len(ak \o b) = Len(ak) + Len(b)
    OBVIOUS
  <2>2. Len(l) \in Nat
    BY DEF Lists
  <2> QED
    BY <2>1, <2>2
<1>6. ASSUME NEW m \in 1 .. Len(l) + 1
      PROVE  (ak \o b)[m] = IF m < n THEN l[m] ELSE IF m = n THEN k ELSE l[m - 1]
  <2>1. (ak \o b)[m] = IF m <= n THEN ak[m] ELSE b[m - n]
    BY <1>2, <1>4 DEF Lists
  <2> QED
    BY <1>2, <1>4, <2>1 DEF Lists
<1> QED
  BY <1>3, <1>5, <1>6

LEMMA InsertAtAgrees ==
  ASSUME NEW l \in Lists, IsInjective(l), NEW n \in 1 .. Len(l) + 1, NEW k \in Key,
         k \notin ToSet(l)
  PROVE  /\ IsInjective(InsertAt(l, n, k))
         /\ ToSet(InsertAt(l, n, k)) = ToSet(l) \cup {k}
<1> DEFINE r == InsertAt(l, n, k)
<1>1. /\ DOMAIN l = 1 .. Len(l) /\ DOMAIN r = 1 .. Len(l) + 1
      /\ \A m \in 1 .. Len(l) + 1 :
           r[m] = IF m < n THEN l[m] ELSE IF m = n THEN k ELSE l[m - 1]
      /\ Len(l) \in Nat
  <2>1. /\ r \in Lists /\ Len(r) = Len(l) + 1
        /\ \A m \in 1 .. Len(l) + 1 :
             r[m] = IF m < n THEN l[m] ELSE IF m = n THEN k ELSE l[m - 1]
    BY InsertAtOf
  <2> HIDE DEF r
  <2>2. DOMAIN l = 1 .. Len(l) /\ DOMAIN r = 1 .. Len(r) /\ Len(l) \in Nat
    BY <2>1 DEF Lists
  <2> QED
    BY <2>1, <2>2
<1> HIDE DEF r
<1>2. IsInjective(r)
  <2>1. \A m \in 1 .. Len(l) : l[m] # k
    BY <1>1 DEF ToSet
  <2>2. \A i, j \in 1 .. Len(l) : l[i] = l[j] => i = j
    BY <1>1 DEF IsInjective
  <2>3. \A i, j \in 1 .. Len(l) + 1 : r[i] = r[j] => i = j
    BY <1>1, <2>1, <2>2
  <2> QED
    BY <1>1, <2>3 DEF IsInjective
<1>3. ToSet(r) \subseteq ToSet(l) \cup {k}
  BY <1>1 DEF ToSet
<1>4. k \in ToSet(r)
  BY <1>1 DEF ToSet
<1>5. ASSUME NEW m \in 1 .. Len(l)
      PROVE  l[m] \in ToSet(r)
  <2>1. CASE m < n
    BY <1>1, <2>1 DEF ToSet
  <2>2. CASE m >= n
    <3>1. m + 1 \in 1 .. Len(l) + 1 /\ r[m + 1] = l[m]
      BY <1>1, <2>2
    <3> QED
      BY <1>1, <3>1 DEF ToSet
  <2> QED
    BY <1>1, <2>1, <2>2
<1>6. ToSet(l) \subseteq ToSet(r)
  BY <1>1, <1>5 DEF ToSet
<1> QED
  BY <1>2, <1>3, <1>4, <1>6 DEF r

\* What removed and touch take out is one place of the list.
LEMMA RemoveFirstAgrees ==
  ASSUME NEW l \in Lists, IsInjective(l), NEW k \in ToSet(l)
  PROVE  /\ RemoveFirst(l, k) \in Lists
         /\ IsInjective(RemoveFirst(l, k))
         /\ ToSet(RemoveFirst(l, k)) = ToSet(l) \ {k}
<1>1. PICK n \in 1 .. Len(l) : l[n] = k
  BY DEF ToSet, Lists
<1>2. RemoveFirst(l, k) = RemoveAt(l, n)
  BY <1>1, RemoveFirstIsAt
<1> QED
  BY <1>1, <1>2, RemoveAtOf, RemoveAtAgrees

\* front is the insertion at the first place.
LEMMA FrontAgrees ==
  ASSUME NEW l \in Lists, IsInjective(l), NEW k \in Key, k \notin ToSet(l)
  PROVE  /\ front(l, k) \in Lists
         /\ IsInjective(front(l, k))
         /\ ToSet(front(l, k)) = ToSet(l) \cup {k}
<1> DEFINE r == front(l, k)
<1>1. /\ r \in Lists /\ Len(l) \in Nat /\ Len(r) = Len(l) + 1
      /\ DOMAIN l = 1 .. Len(l) /\ DOMAIN r = 1 .. Len(l) + 1
  BY DEF front, Lists
<1>2. \A m \in 1 .. Len(l) + 1 : r[m] = IF m = 1 THEN k ELSE l[m - 1]
  BY DEF front, Lists
<1> HIDE DEF r
<1>3. IsInjective(r)
  <2>1. \A m \in 1 .. Len(l) : l[m] # k
    BY <1>1 DEF ToSet
  <2>2. \A i, j \in 1 .. Len(l) : l[i] = l[j] => i = j
    BY <1>1 DEF IsInjective
  <2>3. \A i, j \in 1 .. Len(l) + 1 : r[i] = r[j] => i = j
    BY <1>1, <1>2, <2>1, <2>2
  <2> QED
    BY <1>1, <2>3 DEF IsInjective
<1>4. ToSet(r) \subseteq ToSet(l) \cup {k} /\ k \in ToSet(r)
  BY <1>1, <1>2 DEF ToSet
<1>5. ASSUME NEW m \in 1 .. Len(l)
      PROVE  l[m] \in ToSet(r)
  <2>1. m + 1 \in 1 .. Len(l) + 1 /\ r[m + 1] = l[m]
    BY <1>1, <1>2
  <2> QED
    BY <1>1, <2>1 DEF ToSet
<1>6. ToSet(l) \subseteq ToSet(r)
  BY <1>1, <1>5 DEF ToSet
<1> QED
  BY <1>1, <1>3, <1>4, <1>6 DEF r

\* Before the last element is the one that is the last when that is removed.
LEMMA BeforeLast ==
  ASSUME orderList \in Lists, IsInjective(orderList), Len(orderList) > 1
  PROVE  before(Last(orderList)) = Last(RemoveAt(orderList, Len(orderList)))
<1> DEFINE n == Len(orderList)
<1>1. /\ n \in Nat /\ n > 1 /\ DOMAIN orderList = 1 .. n
      /\ Last(orderList) = orderList[n]
  BY DEF Lists, Last
<1>2. \A i, j \in 1 .. n : orderList[i] = orderList[j] => i = j
  BY <1>1 DEF IsInjective
<1>3. ASSUME NEW m \in 1 .. n - 1
      PROVE  orderList[m + 1] = orderList[n] <=> m = n - 1
  <2>1. m + 1 \in 1 .. n /\ n \in 1 .. n
    BY <1>1
  <2>2. orderList[m + 1] = orderList[n] <=> m + 1 = n
    BY <1>2, <2>1
  <2>3. m + 1 = n <=> m = n - 1
    BY <1>1
  <2> QED
    BY <2>2, <2>3
<1>4. n - 1 \in 1 .. n - 1
  BY <1>1
<1>5. (CHOOSE m \in 1 .. n - 1 : orderList[m + 1] = orderList[n]) = n - 1
  BY <1>3, <1>4
<1>6. orderList[n] # orderList[1]
  BY <1>1, <1>2
<1>7. before(Last(orderList)) = orderList[n - 1]
  BY <1>1, <1>5, <1>6 DEF before
<1>8. /\ Len(RemoveAt(orderList, n)) = n - 1
      /\ RemoveAt(orderList, n)[n - 1] = orderList[n - 1]
  <2>1. n \in 1 .. n /\ n - 1 < n
    BY <1>1
  <2>2. /\ Len(RemoveAt(orderList, n)) = n - 1
        /\ \A m \in 1 .. n - 1 :
             RemoveAt(orderList, n)[m] = IF m < n THEN orderList[m] ELSE orderList[m + 1]
    BY <2>1, RemoveAtOf
  <2> QED
    BY <1>4, <2>1, <2>2
<1> QED
  BY <1>7, <1>8 DEF Last

-----------------------------------------------------------------------------
(* The invariant and its steps.                                            *)

LEMMA InitListInv == Init => ListInv
<1> SUFFICES ASSUME Init PROVE ListInv
  OBVIOUS
<1>1. orderList = <<>> /\ map = <<>> /\ pc = "idle"
  BY DEF Init
<1>2. orderList \in Lists /\ DOMAIN orderList = {} /\ DOMAIN map = {}
  BY <1>1 DEF Lists
<1> QED
  BY <1>1, <1>2 DEF ListInv, ListAgrees, IteratorLast, IsInjective, ToSet

\* What remove and purge share keeps list and map in agreement.
LEMMA RemovedAgrees ==
  ASSUME ListInv, NEW k, removed(k)
  PROVE  orderList' \in Lists /\ ListAgrees'
<1>1. CASE k \in DOMAIN map
  <2>1. /\ orderList' = RemoveFirst(orderList, k)
        /\ DOMAIN map' = DOMAIN map \ {k}
    BY <1>1 DEF removed, Restrict
  <2>2. k \in ToSet(orderList) /\ orderList \in Lists /\ IsInjective(orderList)
    BY <1>1 DEF ListInv, ListAgrees
  <2>3. /\ orderList' \in Lists /\ IsInjective(orderList')
        /\ ToSet(orderList') = ToSet(orderList) \ {k}
    BY <2>1, <2>2, RemoveFirstAgrees
  <2> QED
    BY <2>1, <2>3 DEF ListAgrees, ListInv
<1>2. CASE k \notin DOMAIN map
  BY <1>2 DEF removed, ListInv, ListAgrees
<1> QED
  BY <1>1, <1>2

LEMMA InsertListInv ==
  ASSUME ListInv, NEW k \in Key, NEW v, NEW n \in 1 .. Len(orderList) + 1,
         insert(k, v, n)
  PROVE  ListInv'
<1>1. /\ k \notin DOMAIN map
      /\ orderList' = InsertAt(orderList, n, k)
      /\ DOMAIN map' = DOMAIN map \cup {k}
      /\ pc = "idle"
      /\ (pc' = "purge" /\ list_it' = Last(orderList')) \/ pc' = pc
  BY DEF insert
<1>2. /\ orderList' \in Lists /\ IsInjective(orderList')
      /\ ToSet(orderList') = ToSet(orderList) \cup {k}
  BY <1>1, InsertAtOf, InsertAtAgrees DEF ListInv, ListAgrees
<1> QED
  BY <1>1, <1>2 DEF ListInv, ListAgrees, IteratorLast

LEMMA TouchListInv ==
  ASSUME ListInv, NEW k \in Key, touch(k)
  PROVE  ListInv'
<1> DEFINE rest == RemoveFirst(orderList, k)
<1>1. k \in ToSet(orderList) /\ orderList \in Lists /\ IsInjective(orderList)
  BY DEF touch, ListInv, ListAgrees
<1>2. rest \in Lists /\ IsInjective(rest) /\ ToSet(rest) = ToSet(orderList) \ {k}
  BY <1>1, RemoveFirstAgrees
<1>3. orderList' = front(rest, k) /\ map' = map /\ pc' = "idle"
  BY DEF touch
<1> HIDE DEF rest
<1>4. /\ front(rest, k) \in Lists /\ IsInjective(front(rest, k))
      /\ ToSet(front(rest, k)) = ToSet(rest) \cup {k}
  BY <1>2, FrontAgrees
<1>5. /\ orderList' \in Lists /\ IsInjective(orderList')
      /\ ToSet(orderList') = ToSet(orderList)
  BY <1>1, <1>2, <1>3, <1>4
<1> QED
  BY <1>3, <1>5 DEF ListInv, ListAgrees, IteratorLast

\* purge takes out the last element, and its iterator moves on before that.
LEMMA PurgeListInv ==
  ASSUME ListInv, purgeStep
  PROVE  ListInv'
<1> DEFINE n == Len(orderList)
<1>1. orderList' \in Lists /\ ListAgrees'
  BY RemovedAgrees DEF purgeStep
<1>2. /\ n \in Nat \ {0} /\ orderList[n] \in DOMAIN map
      /\ list_it = orderList[n] /\ list_it = Last(orderList)
  <2>1. DOMAIN orderList = 1 .. n /\ n \in Nat
    BY DEF ListInv, Lists
  <2>2. orderList # <<>> /\ n # 0
    BY <2>1 DEF purgeStep, exceeds, ListInv, ListAgrees, ToSet
  <2>3. orderList[n] \in ToSet(orderList)
    BY <2>1, <2>2 DEF ToSet
  <2> QED
    BY <2>1, <2>2, <2>3 DEF purgeStep, ListInv, ListAgrees, IteratorLast, Last
<1>3. orderList' = RemoveAt(orderList, n)
  <2>1. orderList' = RemoveFirst(orderList, orderList[n])
    BY <1>2 DEF purgeStep, removed
  <2> QED
    BY <1>2, <2>1, RemoveFirstIsAt DEF ListInv, ListAgrees
<1>4. ASSUME orderList' # <<>>
      PROVE  list_it' = Last(orderList')
  <2>1. Len(orderList') = n - 1
    BY <1>2, <1>3, RemoveAtOf DEF ListInv
  <2>2. n > 1
    BY <1>1, <1>2, <1>4, <2>1 DEF Lists
  <2>3. list_it' = before(Last(orderList))
    BY <1>2 DEF purgeStep
  <2> QED
    BY <1>3, <2>2, <2>3, BeforeLast DEF ListInv, ListAgrees
<1> QED
  BY <1>1, <1>4 DEF ListInv, IteratorLast

LEMMA NextListInv == ListInv /\ [Next]_vars => ListInv'
<1> SUFFICES ASSUME ListInv, [Next]_vars
             PROVE  ListInv'
  OBVIOUS
<1>1. ASSUME NEW k \in Key, NEW v \in Value, NEW n \in 1 .. Len(orderList) + 1,
             insert(k, v, n)
      PROVE  ListInv'
  BY <1>1, InsertListInv
<1>2. ASSUME NEW k \in Key, touch(k)
      PROVE  ListInv'
  BY <1>2, TouchListInv
<1>3. ASSUME NEW k \in Key, remove(k)
      PROVE  ListInv'
  <2>1. orderList' \in Lists /\ ListAgrees' /\ pc' = "idle"
    BY <1>3, RemovedAgrees DEF remove
  <2> QED
    BY <2>1 DEF ListInv, IteratorLast
<1>4. CASE clear
  <2>1. orderList' = <<>> /\ map' = <<>> /\ pc' = "idle"
    BY <1>4 DEF clear
  <2>2. orderList' \in Lists /\ DOMAIN orderList' = {} /\ DOMAIN map' = {}
    BY <2>1 DEF Lists
  <2> QED
    BY <2>1, <2>2 DEF ListInv, ListAgrees, IteratorLast, IsInjective, ToSet
<1>5. CASE purgeStep
  BY <1>5, PurgeListInv
<1>6. CASE purgeReturn
  BY <1>6 DEF purgeReturn, ListInv, ListAgrees, IteratorLast
<1>7. CASE UNCHANGED vars
  BY <1>7 DEF vars, ListInv, ListAgrees, IteratorLast
<1> QED
  BY <1>1, <1>2, <1>3, <1>4, <1>5, <1>6, <1>7 DEF Next

\* ListInv always holds.
THEOREM ListInvariant == Spec => []ListInv
<1> QED
  BY InitListInv, NextListInv, PTL DEF Spec

\* Between any two calls and in every turn of purge's loop, the list has the
\* map's keys, each once.
THEOREM ListAndMapAgree == Spec => []ListAgrees
<1>1. ListInv => ListAgrees
  BY DEF ListInv
<1> QED
  BY <1>1, ListInvariant, PTL

\* A turn of purge's loop reads the last element of the list, never one that it
\* has removed or the end of the list.
THEOREM PurgeReads == Spec => []PurgeReadsElement
<1>1. ListInv => PurgeReadsElement
  <2> SUFFICES ASSUME ListInv, pc = "purge", exceeds
               PROVE  orderList # <<>> /\ list_it = Last(orderList)
    BY DEF PurgeReadsElement
  <2>1. orderList # <<>>
    BY DEF exceeds, ListInv, ListAgrees, ToSet
  <2> QED
    BY <2>1 DEF ListInv, IteratorLast
<1> QED
  BY <1>1, ListInvariant, PTL

-----------------------------------------------------------------------------
(* Floats.                                                                 *)

LEMMA FloatTypes ==
  /\ FloatRange \in Nat \ {0} /\ FactorUnit \in Nat \ {0}
  /\ maxWeight \in Nat /\ factor \in Nat
BY ConstantsAssumption DEF ConstantsAssumption

\* Ulp's recursion, and the function that it defines up to x.
UlpStep(f, y) == IF y < FloatRange THEN 1 ELSE 2 * f[y \div 2]

UlpTo(x) == CHOOSE f : f = [y \in 0 .. x |-> UlpStep(f, y)]

LEMMA UlpIs == \A x : Ulp(x) = UlpTo(x)[x]
  BY Zenon DEF Ulp, UlpTo, UlpStep

\* That function is what its definition says.
LEMMA UlpExists ==
  ASSUME NEW x \in Nat
  PROVE  \A y \in 0 .. x : UlpTo(x)[y] = UlpStep(UlpTo(x), y)
<1> DEFINE D == 0 .. x
           G == [f \in [D -> Nat] |-> [y \in D |-> UlpStep(f, y)]]
           rank == [y \in D |-> x - y]
<1>h. ASSUME NEW y \in D, ~(y < FloatRange) PROVE y \div 2 \in D /\ y \div 2 < y
  BY <1>h, FloatTypes
<1>1. ASSUME NEW f \in [D -> Nat], NEW y \in D PROVE UlpStep(f, y) \in Nat
  BY <1>h DEF UlpStep
<1>2. G \in [[D -> Nat] -> [D -> Nat]]
  BY <1>1
<1>3. rank \in [D -> 0 .. x]
  OBVIOUS
<1>4. ASSUME NEW f \in [D -> Nat], NEW g \in [D -> Nat], NEW y \in D,
             \A m \in D : rank[m] > rank[y] => f[m] = g[m]
      PROVE  G[f][y] = G[g][y]
  <2>1. ~(y < FloatRange) => f[y \div 2] = g[y \div 2]
    BY <1>h, <1>4
  <2> QED
    BY <2>1 DEF UlpStep
<1>5. Descends(D, Nat, G, rank, x)
  <2> HIDE DEF D, G, rank
  <2> QED
    BY <1>2, <1>3, <1>4, Zenon DEF Descends
<1>6. \E f \in [D -> Nat] : f = G[f]
  <2> HIDE DEF D, G, rank
  <2> QED
    BY <1>5, 0 \in Nat, Fixpoint
<1>7. PICK f \in [D -> Nat] : f = [y \in D |-> UlpStep(f, y)]
  BY <1>6
<1>8. UlpTo(x) = [y \in D |-> UlpStep(UlpTo(x), y)]
  BY <1>7, Zenon DEF UlpTo
<1> QED
  BY <1>8

\* Floats are at most 2 / FloatRange of a number apart.
LEMMA UlpOf ==
  ASSUME NEW x \in Nat
  PROVE  /\ Ulp(x) \in Nat \ {0}
         /\ Ulp(x) = 1 \/ FloatRange * Ulp(x) <= 2 * x
<1> DEFINE f == UlpTo(x)
           Good(y) == f[y] \in Nat \ {0} /\ (f[y] = 1 \/ FloatRange * f[y] <= 2 * y)
           S == {n \in Nat : \A y \in 0 .. n : y <= x => Good(y)}
<1>0. \A y \in 0 .. x : f[y] = IF y < FloatRange THEN 1 ELSE 2 * f[y \div 2]
  BY UlpExists DEF UlpStep
<1> HIDE DEF f
<1>1. ASSUME NEW y \in 0 .. x, y < FloatRange PROVE Good(y)
  BY <1>0, <1>1
<1>2. 0 \in S
  BY <1>1, FloatTypes
<1>3. ASSUME NEW n \in Nat, n \in S PROVE n + 1 \in S
  <2> DEFINE y == n + 1
             h == y \div 2
  <2> SUFFICES ASSUME y <= x, ~(y < FloatRange) PROVE Good(y)
    BY <1>1, <1>3
  <2>1. h \in 0 .. n /\ h <= x /\ 2 * h <= y
    OBVIOUS
  <2>2. Good(h) /\ f[y] = 2 * f[h]
    BY <1>0, <1>3, <2>1
  <2> HIDE DEF h
  <2>3. f[y] \in Nat \ {0}
    BY <2>2
  <2>4. FloatRange * f[y] <= 2 * y
    <3>1. CASE f[h] = 1
      BY <2>2, <3>1, FloatTypes
    <3>2. CASE FloatRange * f[h] <= 2 * h
      <4>1. FloatRange * f[y] = 2 * (FloatRange * f[h])
        BY <2>2, FloatTypes
      <4>2. FloatRange * f[h] \in Nat
        BY <2>2, FloatTypes
      <4> QED
        BY <2>1, <3>2, <4>1, <4>2
    <3> QED
      BY <2>2, <3>1, <3>2
  <2> QED
    BY <2>3, <2>4
<1>4. x \in S
  <2> HIDE DEF S
  <2> QED
    BY <1>2, <1>3, NoGap
<1> QED
  BY <1>4, UlpIs DEF f

\* Rounding changes a number by at most one part in FloatRange.
LEMMA RoundedOf ==
  ASSUME NEW x \in Nat
  PROVE  /\ Rounded(x) \in Nat
         /\ FloatRange * Rounded(x) <= (FloatRange + 1) * x
         /\ (FloatRange - 1) * x <= FloatRange * Rounded(x)
<1> DEFINE u == Ulp(x)
           q == x \div u
           r == x % u
           a == Rounded(x)
<1>1. /\ u \in Nat \ {0}
      /\ u = 1 \/ FloatRange * u <= 2 * x
  BY UlpOf
<1>2. a = IF 2 * r > u \/ (2 * r = u /\ q % 2 = 1) THEN (q + 1) * u ELSE q * u
  <2> HIDE DEF u
  <2> QED
    BY <1>1 DEF Rounded, u
<1> HIDE DEF u, a
<1>3. q \in Nat /\ r \in 0 .. u - 1 /\ x = q * u + r
  <2>1. \A n \in Nat, d \in Nat \ {0} :
          n \div d \in Nat /\ n % d \in 0 .. d - 1 /\ n = (n \div d) * d + (n % d)
    OBVIOUS
  <2> QED
    BY <1>1, <2>1
<1> HIDE DEF q, r
<1>4. a \in Nat /\ ((a = q * u + u /\ 2 * r >= u) \/ (a = q * u /\ 2 * r <= u))
  <2>1. q * u \in Nat /\ (q + 1) * u = q * u + u
    BY <1>1, <1>3
  <2> DEFINE m == q * u
             n == (q + 1) * u
  <2>2. a = IF 2 * r > u \/ (2 * r = u /\ q % 2 = 1) THEN n ELSE m
    BY <1>2
  <2> HIDE DEF m, n
  <2>3. m \in Nat /\ n = m + u
    BY <2>1 DEF m, n
  <2>4. a \in Nat /\ ((a = m + u /\ 2 * r >= u) \/ (a = m /\ 2 * r <= u))
    BY <1>1, <1>3, <2>2, <2>3
  <2> QED
    BY <2>4 DEF m
<1>5. a \in Nat /\ 2 * a <= 2 * x + u /\ 2 * x <= 2 * a + u /\ (u = 1 => a = x)
  <2>1. q * u \in Nat
    BY <1>1, <1>3
  <2> HIDE DEF q, r
  <2> QED
    BY <1>1, <1>3, <1>4, <2>1
<1>6. CASE u = 1
  <2>1. a = x
    BY <1>5, <1>6
  <2>2. FloatRange * x <= (FloatRange + 1) * x /\ (FloatRange - 1) * x <= FloatRange * x
    BY FloatTypes
  <2> QED
    BY <2>1, <2>2 DEF a
<1>7. CASE FloatRange * u <= 2 * x
  <2>1. FloatRange * (2 * a) <= FloatRange * (2 * x + u)
    BY <1>1, <1>5, FloatTypes
  <2>2. FloatRange * (2 * x) <= FloatRange * (2 * a + u)
    BY <1>1, <1>5, FloatTypes
  <2> DEFINE fa == FloatRange * a
             fx == FloatRange * x
             fu == FloatRange * u
  <2>3. fa \in Nat /\ fx \in Nat /\ fu \in Nat
    BY <1>1, <1>5, FloatTypes
  <2>4. 2 * fa <= 2 * fx + fu /\ 2 * fx <= 2 * fa + fu /\ fu <= 2 * x
    BY <1>1, <1>5, <1>7, <2>1, <2>2, FloatTypes
  <2>5. (FloatRange + 1) * x = fx + x /\ (FloatRange - 1) * x = fx - x
    BY FloatTypes
  <2> HIDE DEF fa, fx, fu
  <2>6. fa <= fx + x /\ fx - x <= fa
    BY <2>3, <2>4
  <2> QED
    BY <1>5, <2>5, <2>6 DEF fa, a
<1> QED
  BY <1>1, <1>6, <1>7 DEF a

LEMMA Scaled ==
  ASSUME NEW a \in Nat, NEW b \in Nat, NEW c \in Nat, a <= b
  PROVE  c * a <= c * b
OBVIOUS

\* w is no more than maxWeight * factor, but for the error of three roundings.
NearTarget(w) ==
  FactorUnit * w * (FloatRange * (FloatRange - 1))
         <= maxWeight * factor * ((FloatRange + 1) * (FloatRange + 1))

\* When purge's loop stops, the weight is that near to what it aims at.
LEMMA NotTooHeavy ==
  ASSUME NEW w \in Nat, ~ TooHeavy(w)
  PROVE  NearTarget(w)
<1> DEFINE F == FloatRange
           U == FactorUnit
           v == Rounded(w)
           m == Rounded(maxWeight)
           p == m * factor
           t == Rounded(p)
<1>1. /\ F \in Nat /\ F - 1 \in Nat /\ U \in Nat /\ maxWeight \in Nat /\ factor \in Nat
  BY FloatTypes
<1>2. /\ v \in Nat /\ m \in Nat /\ p \in Nat /\ t \in Nat
      /\ (F - 1) * w <= F * v
      /\ F * m <= (F + 1) * maxWeight
      /\ F * t <= (F + 1) * p
  <2>1. v \in Nat /\ (F - 1) * w <= F * v
    BY RoundedOf
  <2>2. m \in Nat /\ F * m <= (F + 1) * maxWeight
    BY FloatTypes, RoundedOf
  <2>3. p \in Nat
    BY FloatTypes, <2>2
  <2> HIDE DEF p
  <2>4. t \in Nat /\ F * t <= (F + 1) * p
    BY <2>3, RoundedOf
  <2> QED
    BY <2>1, <2>2, <2>3, <2>4
<1>3. U * v <= t
  <2>1. ~ (U * v > t)
    BY DEF TooHeavy
  <2> HIDE DEF v, t, U
  <2>2. U * v \in Nat
    BY <1>1, <1>2
  <2> QED
    BY <1>2, <2>1, <2>2
<1>p. p = m * factor
  OBVIOUS
<1> HIDE DEF F, U, v, m, p, t
<1>4. (U * F) * ((F - 1) * w) <= (U * F) * (F * v)
  BY <1>1, <1>2, Scaled
<1>5. (F * F) * (U * v) <= (F * F) * t
  BY <1>1, <1>2, <1>3, Scaled
<1>6. F * (F * t) <= F * ((F + 1) * p)
  BY <1>1, <1>2, Scaled
<1>7. ((F + 1) * factor) * (F * m) <= ((F + 1) * factor) * ((F + 1) * maxWeight)
  BY <1>1, <1>2, Scaled
<1>8. /\ (U * F) * ((F - 1) * w) = U * w * (F * (F - 1))
      /\ (U * F) * (F * v) = (F * F) * (U * v)
      /\ (F * F) * t = F * (F * t)
  BY <1>1, <1>2
<1>9. /\ F * ((F + 1) * p) = ((F + 1) * factor) * (F * m)
      /\ ((F + 1) * factor) * ((F + 1) * maxWeight) = maxWeight * factor * ((F + 1) * (F + 1))
  BY <1>1, <1>2, <1>p
<1>10. /\ U * w * (F * (F - 1)) \in Nat /\ (F * F) * (U * v) \in Nat /\ F * (F * t) \in Nat
       /\ F * ((F + 1) * p) \in Nat
       /\ maxWeight * factor * ((F + 1) * (F + 1)) \in Nat
  BY <1>1, <1>2
<1>11. U * w * (F * (F - 1)) <= maxWeight * factor * ((F + 1) * (F + 1))
  BY <1>4, <1>5, <1>6, <1>7, <1>8, <1>9, <1>10
<1> QED
  BY <1>11 DEF NearTarget, F, U

\* TooHeavy compares two numbers.
LEMMA LightEnough ==
  ASSUME NEW w \in Nat
  PROVE  ~ TooHeavy(w)
           <=> FactorUnit * Rounded(w) <= Rounded(Rounded(maxWeight) * factor)
<1> DEFINE p == Rounded(maxWeight) * factor
           a == Rounded(w)
           b == Rounded(p)
<1>1. a \in Nat /\ b \in Nat
  <2>1. a \in Nat /\ p \in Nat
    BY FloatTypes, RoundedOf
  <2> HIDE DEF p
  <2> QED
    BY <2>1, RoundedOf
<1>2. TooHeavy(w) <=> FactorUnit * a > b
  BY DEF TooHeavy
<1> HIDE DEF a, b
<1>3. FactorUnit * a \in Nat
  BY <1>1, FloatTypes
<1>4. ~ TooHeavy(w) <=> FactorUnit * a <= b
  BY <1>1, <1>2, <1>3
<1> QED
  BY <1>4 DEF a, b

\* What is not above the target stays so when the weight falls.
LEMMA NearLower ==
  ASSUME NEW w \in Nat, NEW v \in Nat, v <= w, NearTarget(w)
  PROVE  NearTarget(v)
<1> DEFINE c == FactorUnit * (FloatRange * (FloatRange - 1))
           t == maxWeight * factor * ((FloatRange + 1) * (FloatRange + 1))
<1>0. FloatRange - 1 \in Nat
  BY FloatTypes
<1>1. c \in Nat /\ t \in Nat
  BY <1>0, FloatTypes
<1>2. ASSUME NEW n \in Nat PROVE NearTarget(n) <=> c * n <= t
  <2>1. c * n = FactorUnit * n * (FloatRange * (FloatRange - 1))
    BY <1>0, FloatTypes
  <2> QED
    BY <2>1 DEF NearTarget
<1>3. c * v <= c * w /\ c * v \in Nat /\ c * w \in Nat
  <2> HIDE DEF c
  <2> QED
    BY <1>1, Scaled
<1>4. c * v <= t
  <2>1. c * w <= t
    BY <1>2
  <2> HIDE DEF c, t
  <2> QED
    BY <1>1, <1>3, <2>1
<1> QED
  BY <1>2, <1>4

\* No weight is not above the target.
LEMMA NearZero == NearTarget(0)
<1> DEFINE t == maxWeight * factor * ((FloatRange + 1) * (FloatRange + 1))
<1>1. t \in Nat /\ FactorUnit * 0 * (FloatRange * (FloatRange - 1)) = 0
  BY FloatTypes
<1> QED
  BY <1>1 DEF NearTarget

------------------------------------------
(* Sums.  SumFunction adds the values in an order that is not known; what  *)
(* counts is that the sum does not depend on it.                           *)

First(s) == CHOOSE x \in s : TRUE

Adds(f, S, v) ==
  v = [s \in SUBSET S |-> IF s = {} THEN 0 ELSE f[First(s)] + v[s \ {First(s)}]]

Summable(f, S) == IsFiniteSet(S) /\ \A x \in S : f[x] \in Int

LEMMA FirstIn ==
  ASSUME NEW s, s # {}
  PROVE  First(s) \in s
BY DEF First

LEMMA Smaller ==
  ASSUME NEW S, IsFiniteSet(S), NEW x \in S
  PROVE  /\ Cardinality(S) \in Nat \ {0}
         /\ IsFiniteSet(S \ {x}) /\ Cardinality(S \ {x}) = Cardinality(S) - 1
<1>1. IsFiniteSet(S \ {x}) /\ Cardinality(S \ {x}) = Cardinality(S) - 1
  BY FS_RemoveElement
<1>2. Cardinality(S) \in Nat /\ Cardinality(S \ {x}) \in Nat
  BY <1>1, FS_CardinalityType
<1> QED
  BY <1>1, <1>2

\* The recursion is bounded by the number of elements.
LEMMA SumsExist ==
  ASSUME NEW f, NEW S, Summable(f, S)
  PROVE  \E v : Adds(f, S, v)
<1> DEFINE A == [SUBSET S -> Int]
           a == [s \in SUBSET S |-> 0]
           Body(x) == [s \in SUBSET S |->
                         IF s = {} THEN 0 ELSE f[First(s)] + x[s \ {First(s)}]]
           G == [x \in A |-> Body(x)]
<1>1. ASSUME NEW x \in A PROVE Body(x) \in A
  <2> SUFFICES ASSUME NEW s \in SUBSET S, s # {}
               PROVE  f[First(s)] + x[s \ {First(s)}] \in Int
    OBVIOUS
  <2>1. First(s) \in S /\ s \ {First(s)} \in SUBSET S
    BY FirstIn
  <2> QED
    BY <2>1 DEF Summable
<1>2a. a \in A
  OBVIOUS
<1>2b. G \in [A -> A]
  BY <1>1
<1> HIDE DEF Body
<1>3. PICK w : Recurs(A, a, G, w)
  <2>1. Goes(A, a, G)
    BY <1>2a, <1>2b DEF Goes
  <2> HIDE DEF A, a, G
  <2> QED
    BY <2>1, Recursion
<1>4. w \in [Nat -> A] /\ \A n \in Nat : w[n + 1] = G[w[n]]
  <2> HIDE DEF A, a, G
  <2> QED
    BY <1>3 DEF Recurs
<1>5. \A n \in Nat, s \in SUBSET S :
        w[n + 1][s] = IF s = {} THEN 0 ELSE f[First(s)] + w[n][s \ {First(s)}]
  <2> TAKE n \in Nat, s \in SUBSET S
  <2>1. w[n + 1] = Body(w[n])
    BY <1>4
  <2> QED
    BY <2>1 DEF Body
<1>6. \A s \in SUBSET S : IsFiniteSet(s) /\ Cardinality(s) \in Nat
  BY FS_Subset, FS_CardinalityType DEF Summable
<1> DEFINE Settled(n) == \A s \in SUBSET S :
              Cardinality(s) <= n => w[n + 1][s] = w[Cardinality(s) + 1][s]
           N == {n \in Nat : Settled(n)}
<1>7. Settled(0)
  <2> SUFFICES ASSUME NEW s \in SUBSET S, Cardinality(s) <= 0
               PROVE  w[0 + 1][s] = w[Cardinality(s) + 1][s]
    OBVIOUS
  <2>1. Cardinality(s) = 0
    BY <1>6
  <2> QED
    BY <2>1
<1>8. ASSUME NEW n \in Nat, Settled(n) PROVE Settled(n + 1)
  <2> SUFFICES ASSUME NEW s \in SUBSET S, Cardinality(s) <= n + 1, Cardinality(s) # n + 1
               PROVE  w[(n + 1) + 1][s] = w[Cardinality(s) + 1][s]
    OBVIOUS
  <2>0. n + 1 \in Nat /\ Cardinality(s) \in Nat
    BY <1>6
  <2>1. CASE s = {}
    BY <1>5, <2>0, <2>1
  <2>2. CASE s # {}
    <3> DEFINE r == s \ {First(s)}
    <3>1. First(s) \in s /\ r \in SUBSET S
      BY <2>2, FirstIn
    <3>2. Cardinality(s) \in Nat \ {0} /\ Cardinality(r) = Cardinality(s) - 1
      BY <1>6, <3>1, Smaller
    <3>3. w[n + 1][r] = w[Cardinality(r) + 1][r]
      BY <1>8, <3>1, <3>2
    <3>4. w[(n + 1) + 1][s] = f[First(s)] + w[n + 1][r]
      BY <1>5, <2>0, <2>2
    <3>5. w[Cardinality(s) + 1][s] = f[First(s)] + w[Cardinality(s)][r]
      BY <1>5, <2>2, <3>2
    <3>6. Cardinality(r) + 1 = Cardinality(s)
      BY <3>2
    <3> QED
      BY <3>3, <3>4, <3>5, <3>6
  <2> QED
    BY <2>1, <2>2
<1>9. \A n \in Nat : n \in N
  <2>1. 0 \in N /\ \A n \in Nat : n \in N => n + 1 \in N
    <3> HIDE DEF Settled
    <3> QED
      BY <1>7, <1>8
  <2> HIDE DEF N
  <2> QED
    BY <2>1, NoGap
<1> DEFINE v == [s \in SUBSET S |-> w[Cardinality(s) + 1][s]]
<1>10. ASSUME NEW s \in SUBSET S
       PROVE  v[s] = IF s = {} THEN 0 ELSE f[First(s)] + v[s \ {First(s)}]
  <2>1. CASE s = {}
    BY <1>5, <1>6, <2>1
  <2>2. CASE s # {}
    <3> DEFINE r == s \ {First(s)}
    <3>1. First(s) \in s /\ r \in SUBSET S
      BY <2>2, FirstIn
    <3>2. Cardinality(s) \in Nat \ {0} /\ Cardinality(r) = Cardinality(s) - 1
      BY <1>6, <3>1, Smaller
    <3>3. Cardinality(r) + 1 = Cardinality(s) /\ Cardinality(r) \in Nat
      BY <3>2
    <3>4. w[Cardinality(s) + 1][s] = f[First(s)] + w[Cardinality(s)][r]
      BY <1>5, <2>2, <3>2
    <3> QED
      BY <2>2, <3>1, <3>3, <3>4
  <2> QED
    BY <2>1, <2>2
<1>11. v = [s \in SUBSET S |-> IF s = {} THEN 0 ELSE f[First(s)] + v[s \ {First(s)}]]
  <2>1. v = [s \in SUBSET S |-> v[s]]
    OBVIOUS
  <2> HIDE DEF v
  <2> QED
    BY <1>10, <2>1
<1> QED
  BY <1>11 DEF Adds

LEMMA SumsAgree ==
  ASSUME NEW f, NEW g, NEW S, NEW T, NEW v, NEW u, Adds(f, S, v), Adds(g, T, u),
         NEW R, R \subseteq S, R \subseteq T, IsFiniteSet(R), \A x \in R : f[x] = g[x]
  PROVE  v[R] = u[R]
<1>1. \A s \in SUBSET S : v[s] = IF s = {} THEN 0 ELSE f[First(s)] + v[s \ {First(s)}]
  BY DEF Adds
<1>2. \A s \in SUBSET T : u[s] = IF s = {} THEN 0 ELSE g[First(s)] + u[s \ {First(s)}]
  BY DEF Adds
<1>3. \A s \in SUBSET R : IsFiniteSet(s) /\ Cardinality(s) \in Nat
  BY FS_Subset, FS_CardinalityType
<1> DEFINE Same(n) == \A s \in SUBSET R : Cardinality(s) = n => v[s] = u[s]
           N == {n \in Nat : Same(n)}
<1>4. Same(0)
  <2> SUFFICES ASSUME NEW s \in SUBSET R, Cardinality(s) = 0 PROVE v[s] = u[s]
    OBVIOUS
  <2>1. s = {}
    BY <1>3, FS_EmptySet
  <2> QED
    BY <1>1, <1>2, <2>1
<1>5. ASSUME NEW n \in Nat, Same(n) PROVE Same(n + 1)
  <2> SUFFICES ASSUME NEW s \in SUBSET R, Cardinality(s) = n + 1 PROVE v[s] = u[s]
    OBVIOUS
  <2>1. s # {}
    BY FS_EmptySet
  <2>2. First(s) \in s
    BY <2>1, FirstIn
  <2> DEFINE r == s \ {First(s)}
  <2>3. Cardinality(r) = n
    <3>1. Cardinality(r) = Cardinality(s) - 1
      BY <1>3, <2>2, Smaller
    <3> QED
      BY <3>1
  <2>4. v[r] = u[r] /\ f[First(s)] = g[First(s)]
    BY <1>5, <2>2, <2>3
  <2> QED
    BY <1>1, <1>2, <2>1, <2>4
<1>6. \A n \in Nat : n \in N
  <2>1. 0 \in N /\ \A n \in Nat : n \in N => n + 1 \in N
    <3> HIDE DEF Same
    <3> QED
      BY <1>4, <1>5
  <2> HIDE DEF N
  <2> QED
    BY <2>1, NoGap
<1> QED
  BY <1>3, <1>6

LEMMA SumIs ==
  ASSUME NEW f, NEW S, Summable(f, S)
  PROVE  \E v : Adds(f, S, v) /\ SumFunctionOnSet(f, S) = v[S]
<1>1. SumFunctionOnSet(f, S) = (CHOOSE v : Adds(f, S, v))[S]
  BY DEF SumFunctionOnSet, FoldFunctionOnSet, MapThenFoldSet, Adds, First
<1>2. Adds(f, S, CHOOSE v : Adds(f, S, v))
  BY SumsExist
<1> QED
  BY <1>1, <1>2

\* Only the values in the set count.
LEMMA SumSame ==
  ASSUME NEW f, NEW g, NEW S, Summable(f, S), \A x \in S : f[x] = g[x]
  PROVE  SumFunctionOnSet(f, S) = SumFunctionOnSet(g, S)
<1>1. Summable(g, S) /\ IsFiniteSet(S)
  BY DEF Summable
<1>2. PICK v : Adds(f, S, v) /\ SumFunctionOnSet(f, S) = v[S]
  BY SumIs
<1>3. PICK u : Adds(g, S, u) /\ SumFunctionOnSet(g, S) = u[S]
  BY <1>1, SumIs
<1>4. v[S] = u[S]
  BY <1>1, <1>2, <1>3, SumsAgree
<1> QED
  BY <1>2, <1>3, <1>4

LEMMA SumEmpty == \A f : SumFunctionOnSet(f, {}) = 0
<1> TAKE f
<1>1. Summable(f, {})
  BY FS_EmptySet DEF Summable
<1>2. PICK v : Adds(f, {}, v) /\ SumFunctionOnSet(f, {}) = v[{}]
  BY <1>1, SumIs
<1> QED
  BY <1>2 DEF Adds

LEMMA SumFirst ==
  ASSUME NEW f, NEW S, Summable(f, S), S # {}
  PROVE  SumFunctionOnSet(f, S) = f[First(S)] + SumFunctionOnSet(f, S \ {First(S)})
<1> DEFINE R == S \ {First(S)}
<1>1. Summable(f, R) /\ IsFiniteSet(R) /\ R \subseteq S
  BY FS_Subset DEF Summable
<1>2. PICK v : Adds(f, S, v) /\ SumFunctionOnSet(f, S) = v[S]
  BY SumIs
<1>3. PICK u : Adds(f, R, u) /\ SumFunctionOnSet(f, R) = u[R]
  <2> HIDE DEF R
  <2> QED
    BY <1>1, SumIs
<1>4. v[R] = u[R]
  <2> HIDE DEF R
  <2> QED
    BY <1>1, <1>2, <1>3, SumsAgree
<1>5. v[S] = f[First(S)] + v[R]
  BY <1>2 DEF Adds
<1> QED
  BY <1>2, <1>3, <1>4, <1>5

LEMMA SumType ==
  ASSUME NEW f, NEW B, B \in {Nat, Int}
  PROVE  \A S : IsFiniteSet(S) /\ (\A x \in S : f[x] \in B) => SumFunctionOnSet(f, S) \in B
<1> DEFINE Finite(S) == IsFiniteSet(S) /\ \A x \in S : f[x] \in B
           Typed(n) == \A S : Finite(S) /\ Cardinality(S) = n => SumFunctionOnSet(f, S) \in B
           N == {n \in Nat : Typed(n)}
<1>1. Typed(0)
  <2> SUFFICES ASSUME NEW S, Finite(S), Cardinality(S) = 0 PROVE SumFunctionOnSet(f, S) \in B
    OBVIOUS
  <2>1. S = {}
    BY FS_EmptySet
  <2> QED
    BY <2>1, SumEmpty
<1>2. ASSUME NEW n \in Nat, Typed(n) PROVE Typed(n + 1)
  <2> SUFFICES ASSUME NEW S, Finite(S), Cardinality(S) = n + 1
               PROVE  SumFunctionOnSet(f, S) \in B
    OBVIOUS
  <2>1. S # {} /\ Summable(f, S)
    BY FS_EmptySet DEF Summable
  <2>2. First(S) \in S
    BY <2>1, FirstIn
  <2>3. IsFiniteSet(S \ {First(S)}) /\ Cardinality(S \ {First(S)}) = Cardinality(S) - 1
    BY <2>2, Smaller
  <2>4. SumFunctionOnSet(f, S \ {First(S)}) \in B
    BY <1>2, <2>3
  <2>5. SumFunctionOnSet(f, S) = f[First(S)] + SumFunctionOnSet(f, S \ {First(S)})
    BY <2>1, SumFirst
  <2> QED
    BY <2>2, <2>4, <2>5
<1>3. \A n \in Nat : n \in N
  <2>1. 0 \in N /\ \A n \in Nat : n \in N => n + 1 \in N
    <3> HIDE DEF Typed
    <3> QED
      BY <1>1, <1>2
  <2> HIDE DEF N
  <2> QED
    BY <2>1, NoGap
<1> QED
  BY <1>3, FS_CardinalityType

\* Any element may be the first.
LEMMA SumAny ==
  ASSUME NEW f
  PROVE  \A S : Summable(f, S) =>
           \A x \in S : SumFunctionOnSet(f, S) = f[x] + SumFunctionOnSet(f, S \ {x})
<1> DEFINE Sum(S) == SumFunctionOnSet(f, S)
           Free(n) == \A S : Summable(f, S) /\ Cardinality(S) = n =>
                               \A x \in S : Sum(S) = f[x] + Sum(S \ {x})
           N == {n \in Nat : Free(n)}
<1>0. \A S : Summable(f, S) => /\ Sum(S) \in Int
                               /\ \A x \in S : Summable(f, S \ {x})
  <2> TAKE S
  <2> HAVE Summable(f, S)
  <2>1. Sum(S) \in Int
    BY SumType DEF Summable
  <2> QED
    BY <2>1, FS_Subset DEF Summable
<1>1. Free(0)
  BY FS_EmptySet DEF Summable
<1>2. ASSUME NEW n \in Nat, Free(n) PROVE Free(n + 1)
  <2> SUFFICES ASSUME NEW S, Summable(f, S), Cardinality(S) = n + 1, NEW x \in S
               PROVE  Sum(S) = f[x] + Sum(S \ {x})
    OBVIOUS
  <2> DEFINE c == First(S)
  <2>1. c \in S /\ Sum(S) = f[c] + Sum(S \ {c})
    BY SumFirst, FirstIn
  <2>2. CASE x = c
    BY <2>1, <2>2
  <2>3. CASE x # c
    <3> HIDE DEF c, Sum
    <3>1. /\ Summable(f, S \ {c}) /\ Summable(f, S \ {x})
          /\ Cardinality(S \ {c}) = n /\ Cardinality(S \ {x}) = n
      <4>1. /\ Cardinality(S \ {c}) = Cardinality(S) - 1
            /\ Cardinality(S \ {x}) = Cardinality(S) - 1
        BY <2>1, Smaller DEF Summable
      <4> QED
        BY <1>0, <2>1, <4>1
    <3>2. Sum(S \ {c}) = f[x] + Sum((S \ {c}) \ {x})
      BY <1>2, <2>3, <3>1
    <3>3. Sum(S \ {x}) = f[c] + Sum((S \ {x}) \ {c})
      BY <1>2, <2>1, <2>3, <3>1
    <3>4. (S \ {c}) \ {x} = (S \ {x}) \ {c}
      OBVIOUS
    <3>5. /\ f[x] \in Int /\ f[c] \in Int
          /\ Sum((S \ {x}) \ {c}) \in Int
      BY <1>0, <2>1, <2>3, <3>1 DEF Summable
    <3>6. PICK z \in Int : z = Sum((S \ {x}) \ {c})
      BY <3>5
    <3>7. Sum(S) = f[c] + (f[x] + z) /\ Sum(S \ {x}) = f[c] + z
      BY <2>1, <3>2, <3>3, <3>4, <3>6
    <3> QED
      BY <3>5, <3>7
  <2> QED
    BY <2>2, <2>3
<1>3. \A n \in Nat : n \in N
  <2>1. 0 \in N /\ \A n \in Nat : n \in N => n + 1 \in N
    <3> HIDE DEF Free
    <3> QED
      BY <1>1, <1>2
  <2> HIDE DEF N
  <2> QED
    BY <2>1, NoGap
<1> QED
  BY <1>3, FS_CardinalityType DEF Summable

\* g is f with one more element in its domain.
Extends(f, k, v, g) ==
  /\ k \notin DOMAIN f
  /\ g = [j \in DOMAIN f \cup {k} |-> IF j = k THEN v ELSE f[j]]

LEMMA SumMore ==
  ASSUME NEW f, Summable(f, DOMAIN f), NEW k, NEW v \in Int, NEW g, Extends(f, k, v, g)
  PROVE  SumFunction(g) = SumFunction(f) + v
<1> DEFINE D == DOMAIN f
<1>1. k \notin D /\ DOMAIN g = D \cup {k} /\ g[k] = v /\ \A x \in D : g[x] = f[x]
  BY DEF Extends
<1>2. Summable(g, D \cup {k})
  BY <1>1, FS_AddElement DEF Summable
<1>3. SumFunctionOnSet(g, D \cup {k}) = v + SumFunctionOnSet(g, (D \cup {k}) \ {k})
  BY <1>1, <1>2, SumAny
<1>4. (D \cup {k}) \ {k} = D
  BY <1>1
<1>5. SumFunctionOnSet(g, D) = SumFunctionOnSet(f, D) /\ SumFunctionOnSet(f, D) \in Int
  BY <1>1, SumSame, SumType DEF Summable
<1> QED
  BY <1>1, <1>3, <1>4, <1>5 DEF SumFunction

LEMMA SumLess ==
  ASSUME NEW f, Summable(f, DOMAIN f), NEW k \in DOMAIN f,
         NEW g, g = Restrict(f, DOMAIN f \ {k})
  PROVE  SumFunction(g) = SumFunction(f) - f[k]
<1> DEFINE R == DOMAIN f \ {k}
<1>1. DOMAIN g = R /\ \A x \in R : g[x] = f[x]
  BY DEF Restrict
<1>2. SumFunctionOnSet(f, DOMAIN f) = f[k] + SumFunctionOnSet(f, R)
  BY SumAny
<1>3. Summable(f, R)
  BY FS_Subset DEF Summable
<1>4. SumFunctionOnSet(g, R) = SumFunctionOnSet(f, R) /\ SumFunctionOnSet(f, R) \in Int
  <2> HIDE DEF R
  <2> QED
    BY <1>1, <1>3, SumSame, SumType DEF Summable
<1>5. f[k] \in Int
  BY DEF Summable
<1> QED
  BY <1>1, <1>2, <1>4, <1>5 DEF SumFunction

-----------------------------------------------------------------------------
(* The weight.                                                             *)

Weighed == data_weight = SumFunction(map)

\* WeightBounded, with a name for the bound.
BoundInv == pc = "idle" => data_weight < maxWeight \/ NearTarget(data_weight)

\* BoundInv needs Weighed: an empty map is not too heavy.
WeightInv ==
  /\ TypeOK
  /\ IsFiniteSet(DOMAIN map)
  /\ map = [k \in DOMAIN map |-> map[k]]
  /\ Weighed
  /\ BoundInv

LEMMA MapSummable ==
  ASSUME WeightInv
  PROVE  Summable(map, DOMAIN map) /\ SumFunction(map) \in Nat
<1>1. \A k \in DOMAIN map : map[k] \in Nat
  BY ConstantsAssumption DEF WeightInv, TypeOK, ConstantsAssumption
<1>2. Summable(map, DOMAIN map)
  BY <1>1 DEF Summable, WeightInv
<1>3. \A S : IsFiniteSet(S) /\ (\A k \in S : map[k] \in Nat) => SumFunctionOnSet(map, S) \in Nat
  BY SumType
<1> QED
  BY <1>1, <1>2, <1>3 DEF Summable, SumFunction

LEMMA InitWeightInv == Init => WeightInv
<1> SUFFICES ASSUME Init PROVE WeightInv
  OBVIOUS
<1>1. map = <<>> /\ orderList = <<>> /\ data_weight = 0 /\ pc = "idle" /\ list_it = End
  BY DEF Init
<1>2. DOMAIN map = {} /\ map = [k \in DOMAIN map |-> map[k]] /\ orderList \in Seq(Key)
  BY <1>1
<1>3. SumFunction(map) = 0 /\ IsFiniteSet(DOMAIN map)
  BY <1>2, SumEmpty, FS_EmptySet DEF SumFunction
<1>4. NearTarget(data_weight)
  BY <1>1, NearZero
<1> QED
  BY <1>1, <1>2, <1>3, <1>4 DEF WeightInv, TypeOK, Weighed, BoundInv

\* What remove and purge share: the weight is still that of what is left.
LEMMA RemovedWeighs ==
  ASSUME WeightInv, NEW k, removed(k)
  PROVE  /\ IsFiniteSet(DOMAIN map') /\ map' = [x \in DOMAIN map' |-> map'[x]]
         /\ DOMAIN map' \subseteq Key /\ \A x \in DOMAIN map' : map'[x] \in Value
         /\ Weighed' /\ data_weight' \in Nat /\ data_weight' <= data_weight
<1>1. CASE k \in DOMAIN map
  <2> DEFINE R == DOMAIN map \ {k}
  <2>1. /\ map' = Restrict(map, R) /\ data_weight' = data_weight - map[k]
    BY <1>1 DEF removed, lighter
  <2>2. map' = [x \in R |-> map[x]]
    BY <2>1 DEF Restrict
  <2>3. DOMAIN map' = R /\ IsFiniteSet(R)
    BY <1>1, <2>2, FS_RemoveElement DEF WeightInv
  <2>4. SumFunction(map') = SumFunction(map) - map[k]
    BY <1>1, <2>1, SumLess, MapSummable
  <2>5. Weighed'
    BY <2>1, <2>4 DEF Weighed, WeightInv
  <2>6. \A x \in R : map'[x] \in Value /\ map'[x] \in Nat
    BY <2>2, ConstantsAssumption DEF WeightInv, TypeOK, ConstantsAssumption
  <2>7. SumFunction(map') \in Nat
    BY <2>3, <2>6, SumType DEF SumFunction
  <2>8. map[k] \in Nat /\ data_weight \in Nat
    BY <1>1, ConstantsAssumption DEF WeightInv, TypeOK, ConstantsAssumption
  <2>9. data_weight' \in Nat /\ data_weight' <= data_weight
    BY <2>1, <2>5, <2>7, <2>8 DEF Weighed
  <2> QED
    BY <2>2, <2>3, <2>5, <2>6, <2>9 DEF WeightInv, TypeOK
<1>2. CASE k \notin DOMAIN map
  <2>1. UNCHANGED <<map, data_weight>>
    BY <1>2 DEF removed
  <2> QED
    BY <2>1 DEF WeightInv, Weighed, TypeOK
<1> QED
  BY <1>1, <1>2

LEMMA InsertWeightInv ==
  ASSUME ListInv, ListInv', WeightInv, NEW k \in Key, NEW v \in Value,
         NEW n \in 1 .. Len(orderList) + 1, insert(k, v, n)
  PROVE  WeightInv'
<1>1. /\ k \notin DOMAIN map /\ data_weight' = data_weight + v
      /\ map' = [j \in DOMAIN map \cup {k} |-> IF j = k THEN v ELSE map[j]]
      /\ orderList' = InsertAt(orderList, n, k)
  BY DEF insert
<1>2. DOMAIN map' = DOMAIN map \cup {k} /\ map' = [x \in DOMAIN map' |-> map'[x]]
  BY <1>1
<1>3. v \in Nat
  BY ConstantsAssumption DEF ConstantsAssumption
<1>4. Weighed'
  <2>1. SumFunction(map') = SumFunction(map) + v
    <3>1. Summable(map, DOMAIN map) /\ v \in Int
      BY <1>3, MapSummable
    <3>2. Extends(map, k, v, map')
      BY <1>1 DEF Extends
    <3> QED
      BY <3>1, <3>2, SumMore
  <2> QED
    BY <1>1, <2>1 DEF Weighed, WeightInv
<1>5. IsFiniteSet(DOMAIN map')
  BY <1>2, FS_AddElement DEF WeightInv
<1>6. Last(orderList') \in Key
  <2>1. Len(orderList') = Len(orderList) + 1 /\ orderList \in Lists /\ orderList' \in Lists
    BY <1>1, InsertAtOf DEF ListInv
  <2>2. Len(orderList') \in 1 .. Len(orderList') /\ DOMAIN orderList' = 1 .. Len(orderList')
    BY <2>1 DEF Lists
  <2> QED
    BY <2>1, <2>2 DEF Last, Lists
<1>7. /\ pc = "idle"
      /\ IF purges(data_weight') THEN pc' = "purge" /\ list_it' = Last(orderList')
         ELSE pc' = pc /\ list_it' = list_it
  BY DEF insert
<1>8. TypeOK'
  <2>1. data_weight' \in Nat
    BY <1>1, <1>3 DEF WeightInv, TypeOK
  <2>2. DOMAIN map' \subseteq Key /\ \A x \in DOMAIN map' : map'[x] \in Value
    BY <1>1, <1>2 DEF WeightInv, TypeOK
  <2>3. pc' \in {"idle", "purge"} /\ list_it' \in Key \cup {End}
    BY <1>6, <1>7 DEF WeightInv, TypeOK
  <2> QED
    BY <2>1, <2>2, <2>3 DEF TypeOK, ListInv, Lists
<1>9. BoundInv'
  <2> SUFFICES ASSUME pc' = "idle" PROVE data_weight' < maxWeight
    BY DEF BoundInv
  <2>1. ~(data_weight' >= maxWeight)
    BY <1>7 DEF purges
  <2> QED
    BY <1>8, <2>1, ConstantsAssumption DEF TypeOK, ConstantsAssumption
<1> QED
  BY <1>2, <1>4, <1>5, <1>8, <1>9 DEF WeightInv

LEMMA PurgeWeightInv ==
  ASSUME ListInv, ListInv', WeightInv, purgeStep
  PROVE  WeightInv'
<1>1. removed(list_it) /\ pc = "purge" /\ pc' = pc /\ list_it' = before(list_it)
  BY DEF purgeStep
<1>2. /\ IsFiniteSet(DOMAIN map') /\ map' = [x \in DOMAIN map' |-> map'[x]]
      /\ DOMAIN map' \subseteq Key /\ \A x \in DOMAIN map' : map'[x] \in Value
      /\ Weighed' /\ data_weight' \in Nat
  BY <1>1, RemovedWeighs
<1>3. list_it' \in Key \cup {End}
  <2>1. CASE orderList' = <<>>
    <3>1. /\ orderList \in Lists /\ IsInjective(orderList)
          /\ orderList # <<>> /\ list_it = Last(orderList)
      BY DEF purgeStep, exceeds, ListInv, ListAgrees, ToSet, IteratorLast
    <3>2. /\ Len(orderList) \in Nat \ {0} /\ DOMAIN orderList = 1 .. Len(orderList)
          /\ list_it = orderList[Len(orderList)]
      BY <3>1 DEF Last, Lists
    <3>3. list_it \in ToSet(orderList)
      BY <3>2 DEF ToSet
    <3>4. list_it \in DOMAIN map
      BY <3>3 DEF ListInv, ListAgrees
    <3>5. orderList' = RemoveFirst(orderList, orderList[Len(orderList)])
      BY <1>1, <3>2, <3>4 DEF removed
    <3>6. orderList' = RemoveAt(orderList, Len(orderList))
      BY <3>1, <3>2, <3>5, RemoveFirstIsAt
    <3>7. Len(orderList') = Len(orderList) - 1
      <4>1. Len(orderList) \in 1 .. Len(orderList)
        BY <3>2
      <4> QED
        BY <3>1, <3>6, <4>1, RemoveAtOf
    <3>8. list_it = orderList[1]
      <4>1. Len(orderList') = 0
        BY <2>1
      <4>2. \A m \in Nat : 0 = m - 1 => m = 1
        OBVIOUS
      <4>3. Len(orderList) = 1
        BY <3>2, <3>7, <4>1, <4>2
      <4> QED
        BY <3>2, <4>3
    <3> QED
      BY <1>1, <3>8 DEF before
  <2>2. CASE orderList' # <<>>
    <3>1. list_it' = Last(orderList') /\ orderList' \in Lists
      BY <1>1, <2>2 DEF ListInv, IteratorLast
    <3>2. Len(orderList') \in 1 .. Len(orderList')
      BY <2>2, <3>1 DEF Lists
    <3> QED
      BY <3>1, <3>2 DEF Last, Lists
  <2> QED
    BY <2>1, <2>2
<1> QED
  BY <1>1, <1>2, <1>3 DEF WeightInv, TypeOK, BoundInv, ListInv, Lists

LEMMA NextWeightInv == ListInv /\ WeightInv /\ [Next]_vars => WeightInv'
<1> SUFFICES ASSUME ListInv, ListInv', WeightInv, [Next]_vars
             PROVE  WeightInv'
  BY NextListInv
<1>1. ASSUME NEW k \in Key, NEW v \in Value, NEW n \in 1 .. Len(orderList) + 1,
             insert(k, v, n)
      PROVE  WeightInv'
  BY <1>1, InsertWeightInv
<1>2. ASSUME NEW k \in Key, touch(k)
      PROVE  WeightInv'
  BY <1>2 DEF touch, WeightInv, TypeOK, Weighed, BoundInv, ListInv, Lists
<1>3. ASSUME NEW k \in Key, remove(k)
      PROVE  WeightInv'
  <2>1. removed(k) /\ pc = "idle" /\ pc' = "idle" /\ list_it' = list_it
    BY <1>3 DEF remove
  <2>2. /\ IsFiniteSet(DOMAIN map') /\ map' = [x \in DOMAIN map' |-> map'[x]]
        /\ DOMAIN map' \subseteq Key /\ \A x \in DOMAIN map' : map'[x] \in Value
        /\ Weighed' /\ data_weight' \in Nat /\ data_weight' <= data_weight
    BY <2>1, RemovedWeighs
  <2>3. BoundInv'
    <3>1. data_weight < maxWeight \/ NearTarget(data_weight)
      BY <2>1 DEF WeightInv, BoundInv
    <3>2. maxWeight \in Nat /\ data_weight \in Nat
      BY ConstantsAssumption DEF ConstantsAssumption, WeightInv, TypeOK
    <3>3. data_weight' < maxWeight \/ NearTarget(data_weight')
      BY <2>2, <3>1, <3>2, NearLower
    <3> QED
      BY <3>3 DEF BoundInv
  <2> QED
    BY <2>1, <2>2, <2>3 DEF WeightInv, TypeOK, ListInv, Lists
<1>4. CASE clear
  <2>1. /\ orderList' = <<>> /\ map' = <<>> /\ data_weight' = 0
        /\ pc' = "idle" /\ list_it' = list_it
    BY <1>4 DEF clear
  <2>2. DOMAIN map' = {} /\ map' = [k \in DOMAIN map' |-> map'[k]] /\ orderList' \in Seq(Key)
    BY <2>1
  <2>3. SumFunction(map') = 0 /\ IsFiniteSet(DOMAIN map')
    BY <2>2, SumEmpty, FS_EmptySet DEF SumFunction
  <2>4. NearTarget(data_weight')
    BY <2>1, NearZero
  <2> QED
    BY <2>1, <2>2, <2>3, <2>4 DEF WeightInv, TypeOK, Weighed, BoundInv
<1>5. CASE purgeStep
  BY <1>5, PurgeWeightInv
<1>6. CASE purgeReturn
  <2>1. /\ ~exceeds /\ UNCHANGED <<orderList, map, data_weight>>
        /\ pc' = "idle" /\ list_it' = End
    BY <1>6 DEF purgeReturn
  <2>2. NearTarget(data_weight)
    <3>1. data_weight \in Nat
      BY DEF WeightInv, TypeOK
    <3>2. CASE DOMAIN map = {}
      <4>1. data_weight = 0
        BY <3>2, SumEmpty DEF WeightInv, Weighed, SumFunction
      <4> QED
        BY <4>1, NearZero
    <3>3. CASE ~ TooHeavy(data_weight)
      BY <3>1, <3>3, NotTooHeavy
    <3> QED
      BY <2>1, <3>2, <3>3 DEF exceeds
  <2> QED
    BY <2>1, <2>2 DEF WeightInv, TypeOK, Weighed, BoundInv
<1>7. CASE UNCHANGED vars
  BY <1>7 DEF vars, WeightInv, TypeOK, Weighed, BoundInv
<1> QED
  BY <1>1, <1>2, <1>3, <1>4, <1>5, <1>6, <1>7 DEF Next

\* ListInv and WeightInv always hold.
THEOREM MapKept == Spec => [](ListInv /\ WeightInv)
<1>1. Init => ListInv /\ WeightInv
  BY InitListInv, InitWeightInv
<1>2. ListInv /\ WeightInv /\ [Next]_vars => (ListInv /\ WeightInv)'
  BY NextListInv, NextWeightInv
<1> QED
  BY <1>1, <1>2, PTL DEF Spec

\* The weight never falls below zero, and purge's iterator is a key or end().
THEOREM TypeCorrect == Spec => []TypeOK
<1>1. WeightInv => TypeOK
  BY DEF WeightInv
<1> QED
  BY <1>1, MapKept, PTL

\* List, map and weight agree between any two calls and in every turn of
\* purge's loop: the list has the map's keys, each once, and the weight is that
\* of all values.
THEOREM AllAgree == Spec => []Agreement
<1>1. ListInv /\ WeightInv => Agreement
  BY DEF ListInv, WeightInv, Weighed, Agreement
<1> QED
  BY <1>1, MapKept, PTL

\* After a call, the map is below its limit, or it is no heavier than what purge
\* aims at, maxWeight * factor, but for the error of three roundings to a float: for
\* any factor that is a finite float and not negative, and floats of any width.
THEOREM WeightKept == Spec => []WeightBounded
<1>1. WeightInv => WeightBounded
  BY DEF WeightInv, BoundInv, NearTarget, WeightBounded
<1> QED
  BY <1>1, MapKept, PTL

-----------------------------------------------------------------------------
(* The map implements RecencyMap.  The names of that module, spelled out   *)
(* once for both of its instances:                                         *)

Keep(c, o) == Restrict(c, ToSet(o))

LightWeight(c) ==
  FactorUnit * Rounded(SumFunction(c)) <= Rounded(Rounded(maxWeight) * factor)

\* The front part of o that ends at n is the longest one that is light enough.
EndsLight(o, c, n) ==
  /\ n \in 0 .. Len(o)
  /\ n = 0 \/ LightWeight(Keep(c, SubSeq(o, 1, n)))
  /\ \A m \in n + 1 .. Len(o) : ~ LightWeight(Keep(c, SubSeq(o, 1, m)))

LightPart(o, c) == SubSeq(o, 1, CHOOSE n : EndsLight(o, c, n))

LEMMA SumNames ==
  /\ \A c : Recency!SumFunction(c) = SumFunction(c)
  /\ \A c : Promise!SumFunction(c) = SumFunction(c)
BY DEF SumFunction, SumFunctionOnSet, FoldFunctionOnSet, MapThenFoldSet,
       Recency!SumFunction, Recency!SumFunctionOnSet, Recency!FoldFunctionOnSet,
       Recency!MapThenFoldSet,
       Promise!SumFunction, Promise!SumFunctionOnSet, Promise!FoldFunctionOnSet,
       Promise!MapThenFoldSet

LEMMA KeptNames ==
  /\ \A c, o : Recency!Kept(c, o) = Keep(c, o)
  /\ \A c, o : Promise!Kept(c, o) = Keep(c, o)
BY DEF Keep, Restrict, ToSet, Recency!Kept, Recency!Restrict, Recency!ToSet,
       Promise!Kept, Promise!Restrict, Promise!ToSet

LEMMA FloatNames ==
  /\ \A x : Recency!Rounded(x) = Rounded(x)
  /\ \A x : Promise!Rounded(x) = Rounded(x)
BY Zenon DEF Rounded, Ulp, Recency!Rounded, Recency!Ulp, Promise!Rounded, Promise!Ulp

LEMMA LightNames ==
  /\ \A c : Recency!Light(c) <=> LightWeight(c)
  /\ \A c : Promise!Light(c) <=> LightWeight(c)
BY SumNames, FloatNames DEF LightWeight, Recency!Light, Promise!Light

LEMMA PartNames ==
  /\ \A c, o : Recency!LightFront(o, c) = LightPart(o, c)
  /\ \A c, o : Promise!LightFront(o, c) = LightPart(o, c)
BY KeptNames, LightNames DEF LightPart, EndsLight, Recency!LightFront, Promise!LightFront

LEMMA ListNames ==
  /\ \A o : Promise!ToSet(o) = ToSet(o)
  /\ \A o, n, k : Promise!InsertAt(o, n, k) = InsertAt(o, n, k)
  /\ \A o, k : Promise!RemoveFirst(o, k) = RemoveFirst(o, k)
BY DEF ToSet, InsertAt, RemoveFirst, RemoveAt, SelectInSeq, Min,
       Promise!ToSet, Promise!InsertAt, Promise!RemoveFirst, Promise!RemoveAt,
       Promise!SelectInSeq, Promise!Min

\* What the callers see, in these names.
SeenIdle == pc # "purge" => order = orderList /\ contents = map

SeenPurging ==
  pc = "purge" => /\ order = LightPart(orderList, map)
                  /\ contents = Keep(map, LightPart(orderList, map))

LEMMA SeenAs == SeenIdle /\ SeenPurging
BY PartNames, KeptNames DEF order, contents, SeenIdle, SeenPurging

LEMMA SeenNext == SeenIdle' /\ SeenPurging'
BY SeenAs, PTL

\* There is a longest light front part, and only one.
LEMMA PartIs ==
  ASSUME NEW o \in Lists, NEW c, NEW n, EndsLight(o, c, n)
  PROVE  LightPart(o, c) = SubSeq(o, 1, n)
<1>1. Len(o) \in Nat
  BY DEF Lists
<1>2. ASSUME NEW m, EndsLight(o, c, m) PROVE m = n
  <2>1. m \in Nat /\ n \in Nat /\ m <= Len(o) /\ n <= Len(o)
    BY <1>1, <1>2 DEF EndsLight
  <2>2. ~(m < n)
    BY <1>1, <1>2, <2>1 DEF EndsLight
  <2>3. ~(n < m)
    BY <1>1, <1>2, <2>1 DEF EndsLight
  <2> QED
    BY <2>1, <2>2, <2>3
<1>3. (CHOOSE m : EndsLight(o, c, m)) = n
  BY <1>2
<1> QED
  BY <1>3 DEF LightPart

LEMMA PartEnds ==
  ASSUME NEW o \in Lists, NEW c
  PROVE  \E n : EndsLight(o, c, n)
<1> DEFINE Light(m) == m = 0 \/ LightWeight(Keep(c, SubSeq(o, 1, m)))
           L == Len(o)
           T == {d \in Nat : d <= L /\ Light(L - d)}
<1>1. L \in Nat
  BY DEF Lists
<1>2. L \in T
  BY <1>1
<1>3. PICK d \in T : \A e \in T : d <= e
  <2>1. T \subseteq Nat /\ T # {}
    BY <1>2
  <2> HIDE DEF T
  <2> QED
    BY <2>1, Least
<1> DEFINE n == L - d
<1>4. n \in 0 .. L /\ Light(n)
  BY <1>1, <1>3
<1>5. ASSUME NEW m \in n + 1 .. L PROVE ~ Light(m)
  <2>1. L - m \in Nat /\ L - m <= L /\ L - m < d /\ L - (L - m) = m
    BY <1>1, <1>3
  <2>2. L - m \notin T
    BY <1>3, <2>1
  <2> QED
    BY <2>1, <2>2
<1>6. \A m \in n + 1 .. L : m # 0
  BY <1>1, <1>4
<1>7. EndsLight(o, c, n)
  BY <1>4, <1>5, <1>6 DEF EndsLight
<1> QED
  BY <1>7

LEMMA FrontOf ==
  ASSUME NEW o \in Lists, NEW n \in 0 .. Len(o)
  PROVE  /\ SubSeq(o, 1, n) \in Lists /\ Len(SubSeq(o, 1, n)) = n
         /\ \A i \in 1 .. n : SubSeq(o, 1, n)[i] = o[i]
<1>1. Len(o) \in Nat /\ n \in Nat /\ \A i \in 1 .. n : o[i] \in Key
  BY ElementOfSeq DEF Lists
<1>2. /\ SubSeq(o, 1, n) \in Seq(Key)
      /\ Len(SubSeq(o, 1, n)) = IF 1 <= n THEN n - 1 + 1 ELSE 0
      /\ \A i \in 1 .. n - 1 + 1 : SubSeq(o, 1, n)[i] = o[1 + i - 1]
  BY <1>1, SubSeqProperties
<1>3. \A i \in 1 .. n : i \in 1 .. n - 1 + 1 /\ 1 + i - 1 = i
  BY <1>1
<1>4. Len(SubSeq(o, 1, n)) = n
  BY <1>1, <1>2
<1> QED
  BY <1>2, <1>3, <1>4 DEF Lists

\* The whole list is its longest front part, and keeps the whole map.
LEMMA WholeList ==
  ASSUME ListInv, WeightInv
  PROVE  SubSeq(orderList, 1, Len(orderList)) = orderList /\ Keep(map, orderList) = map
<1>1. orderList \in Lists /\ ToSet(orderList) = DOMAIN map /\ map = [k \in DOMAIN map |-> map[k]]
  BY DEF ListInv, ListAgrees, WeightInv
<1>2. Len(orderList) \in 0 .. Len(orderList)
  BY <1>1 DEF Lists
<1>3. /\ SubSeq(orderList, 1, Len(orderList)) \in Lists
      /\ Len(SubSeq(orderList, 1, Len(orderList))) = Len(orderList)
      /\ \A i \in 1 .. Len(orderList) : SubSeq(orderList, 1, Len(orderList))[i] = orderList[i]
  BY <1>1, <1>2, FrontOf
<1>4. SubSeq(orderList, 1, Len(orderList)) = orderList
  BY <1>1, <1>3, SeqEqual DEF Lists
<1> QED
  BY <1>1, <1>4 DEF Keep, Restrict

LEMMA StepInsert ==
  ASSUME ListInv, WeightInv, ListInv', WeightInv', NEW k \in Key, NEW v \in Value,
         NEW n \in 1 .. Len(orderList) + 1, insert(k, v, n)
  PROVE  Promise!Next
<1>1. /\ pc = "idle" /\ k \notin DOMAIN map
      /\ orderList' = InsertAt(orderList, n, k)
      /\ map' = [j \in DOMAIN map \cup {k} |-> IF j = k THEN v ELSE map[j]]
      /\ IF purges(data_weight') THEN pc' = "purge" ELSE pc' = pc
  BY DEF insert
<1>2. order = orderList /\ contents = map /\ ToSet(orderList) = DOMAIN map
  BY <1>1, SeenAs DEF ListInv, ListAgrees, SeenIdle, SeenPurging
<1>3. Promise!Full(map') <=> purges(data_weight')
  <2>1. data_weight' = SumFunction(map')
    BY DEF WeightInv, Weighed
  <2> QED
    BY <2>1, SumNames DEF Promise!Full, purges
<1>4. order' = IF Promise!Full(map') THEN Promise!LightFront(orderList', map') ELSE orderList'
  <2>1. /\ pc' # "purge" => order' = orderList'
        /\ pc' = "purge" => order' = LightPart(orderList', map')
    BY SeenNext DEF SeenIdle, SeenPurging
  <2>2. Promise!LightFront(orderList', map') = LightPart(orderList', map')
    BY PartNames
  <2> QED
    BY <1>1, <1>3, <2>1, <2>2
<1>5. contents' = Promise!Kept(map', order')
  <2>1. /\ pc' # "purge" => order' = orderList' /\ contents' = map'
        /\ pc' = "purge" => /\ order' = LightPart(orderList', map')
                            /\ contents' = Keep(map', LightPart(orderList', map'))
    BY SeenNext DEF SeenIdle, SeenPurging
  <2>2. Keep(map', orderList') = map'
    <3>1. (ListInv /\ WeightInv => Keep(map, orderList) = map)'
      BY WholeList, PTL
    <3> QED
      BY <3>1
  <2> QED
    BY <2>1, <2>2, KeptNames
<1>6. Promise!Insert(k, v, n)
  <2>1. map' = [j \in Promise!ToSet(order) \cup {k} |-> IF j = k THEN v ELSE contents[j]]
    BY <1>1, <1>2, ListNames
  <2>2. orderList' = Promise!InsertAt(order, n, k) /\ k \notin Promise!ToSet(order)
    BY <1>1, <1>2, ListNames
  <2> QED
    BY <1>4, <1>5, <2>1, <2>2 DEF Promise!Insert
<1> QED
  BY <1>2, <1>6 DEF Promise!Next

\* The loop of purge keeps what it will leave.
LEMMA StepPurge ==
  ASSUME ListInv, WeightInv, ListInv', WeightInv', purgeStep
  PROVE  order' = order /\ contents' = contents
<1> DEFINE L == Len(orderList)
           k == orderList[L]
<1>1. /\ orderList \in Lists /\ orderList' \in Lists /\ IsInjective(orderList)
      /\ ToSet(orderList) = DOMAIN map /\ data_weight = SumFunction(map)
      /\ L \in Nat \ {0} /\ DOMAIN orderList = 1 .. L /\ list_it = k /\ k \in DOMAIN map
  <2>1. orderList \in Lists /\ ToSet(orderList) = DOMAIN map /\ orderList # <<>>
    BY DEF purgeStep, exceeds, ListInv, ListAgrees, ToSet
  <2>2. L \in Nat \ {0} /\ DOMAIN orderList = 1 .. L
    BY <2>1 DEF Lists
  <2>3. list_it = k
    BY <2>1 DEF purgeStep, ListInv, IteratorLast, Last
  <2>4. k \in DOMAIN map
    BY <2>1, <2>2 DEF ToSet
  <2> QED
    BY <2>1, <2>2, <2>3, <2>4 DEF ListInv, ListAgrees, WeightInv, Weighed
<1>2. /\ pc = "purge" /\ pc' = "purge"
      /\ orderList' = RemoveAt(orderList, L)
      /\ map' = Restrict(map, DOMAIN map \ {k})
  <2>1. orderList' = RemoveFirst(orderList, k)
    BY <1>1 DEF purgeStep, removed
  <2>2. L \in 1 .. L
    BY <1>1
  <2> QED
    BY <1>1, <2>1, <2>2, RemoveFirstIsAt DEF purgeStep, removed
<1>3. Len(orderList') = L - 1 /\ \A i \in 1 .. L - 1 : orderList'[i] = orderList[i]
  <2>1. L \in 1 .. L
    BY <1>1
  <2>2. \A i \in 1 .. L - 1 : i < L
    BY <1>1
  <2> QED
    BY <1>1, <1>2, <2>1, <2>2, RemoveAtOf
<1>4. ASSUME NEW m \in 0 .. L - 1
      PROVE  SubSeq(orderList', 1, m) = SubSeq(orderList, 1, m)
  <2>1. m \in 0 .. L /\ m \in 0 .. Len(orderList')
    BY <1>1, <1>3
  <2> DEFINE a == SubSeq(orderList', 1, m)
             b == SubSeq(orderList, 1, m)
  <2>2. a \in Lists /\ Len(a) = m /\ \A i \in 1 .. m : a[i] = orderList'[i]
    BY <1>1, <2>1, FrontOf
  <2>3. b \in Lists /\ Len(b) = m /\ \A i \in 1 .. m : b[i] = orderList[i]
    BY <1>1, <2>1, FrontOf
  <2> HIDE DEF a, b
  <2>4. \A i \in 1 .. m : i \in 1 .. L - 1
    BY <1>1
  <2>5. a = b
    BY <1>3, <2>2, <2>3, <2>4, SeqEqual DEF Lists
  <2> QED
    BY <2>5 DEF a, b
<1>5. ASSUME NEW m \in 0 .. L - 1
      PROVE  Keep(map', SubSeq(orderList', 1, m)) = Keep(map, SubSeq(orderList, 1, m))
  <2> DEFINE b == SubSeq(orderList, 1, m)
  <2>1. m \in 0 .. L
    BY <1>1
  <2>2. b \in Lists /\ Len(b) = m /\ \A i \in 1 .. m : b[i] = orderList[i]
    BY <1>1, <2>1, FrontOf
  <2> HIDE DEF b
  <2>3. DOMAIN b = 1 .. m
    BY <2>2 DEF Lists
  <2>4. ToSet(b) \subseteq DOMAIN map \ {k}
    <3>0. L \in Nat \ {0} /\ m \in 0 .. L - 1
      BY <1>1
    <3>1. \A i \in 1 .. m : i \in 1 .. L /\ L \in 1 .. L /\ i # L
      BY <3>0
    <3> QED
      BY <1>1, <2>2, <2>3, <3>1 DEF ToSet, IsInjective
  <2>5. Keep(map', b) = Keep(map, b)
    BY <1>2, <2>4 DEF Keep, Restrict
  <2> QED
    BY <1>4, <2>5 DEF b
<1>6. PICK n : EndsLight(orderList, map, n)
  BY <1>1, PartEnds
<1>7. n \in 0 .. L - 1
  <2>0. n \in 0 .. L
    BY <1>6 DEF EndsLight
  <2>1. n = 0 \/ LightWeight(Keep(map, SubSeq(orderList, 1, n)))
    BY <1>6 DEF EndsLight
  <2>2. ~ LightWeight(Keep(map, SubSeq(orderList, 1, L)))
    <3>1. TooHeavy(data_weight) /\ data_weight \in Nat
      BY DEF purgeStep, exceeds, WeightInv, TypeOK
    <3>2. ~ (FactorUnit * Rounded(data_weight) <= Rounded(Rounded(maxWeight) * factor))
      BY <3>1, LightEnough
    <3>3. ~ LightWeight(map)
      BY <1>1, <3>2 DEF LightWeight
    <3> QED
      BY <3>3, WholeList
  <2>3. n # L
    BY <1>1, <2>1, <2>2
  <2>4. L \in Nat
    BY <1>1
  <2> QED
    BY <2>0, <2>3, <2>4
<1>8. EndsLight(orderList', map', n)
  <2>1. n \in 0 .. Len(orderList')
    BY <1>3, <1>7
  <2>2. n = 0 \/ LightWeight(Keep(map', SubSeq(orderList', 1, n)))
    BY <1>5, <1>6, <1>7 DEF EndsLight
  <2>3. \A m \in n + 1 .. L - 1 : m \in n + 1 .. L /\ m \in 0 .. L - 1
    BY <1>1, <1>7
  <2>4. \A m \in n + 1 .. L - 1 : ~ LightWeight(Keep(map', SubSeq(orderList', 1, m)))
    BY <1>5, <1>6, <2>3 DEF EndsLight
  <2> QED
    BY <1>3, <2>1, <2>2, <2>4 DEF EndsLight
<1>9. /\ LightPart(orderList', map') = LightPart(orderList, map)
      /\ Keep(map', LightPart(orderList', map')) = Keep(map, LightPart(orderList, map))
  <2>1. /\ LightPart(orderList', map') = SubSeq(orderList', 1, n)
        /\ LightPart(orderList, map) = SubSeq(orderList, 1, n)
    BY <1>1, <1>6, <1>8, PartIs
  <2> QED
    BY <1>4, <1>5, <1>7, <2>1
<1>10. pc' = "purge" => /\ order' = LightPart(orderList', map')
                        /\ contents' = Keep(map', LightPart(orderList', map'))
  BY SeenNext DEF SeenIdle, SeenPurging
<1> QED
  BY <1>2, <1>9, <1>10, SeenAs DEF SeenIdle, SeenPurging

LEMMA StepReturn ==
  ASSUME ListInv, WeightInv, purgeReturn
  PROVE  order' = order /\ contents' = contents
<1> DEFINE L == Len(orderList)
<1>1. pc = "purge" /\ ~exceeds /\ pc' = "idle" /\ UNCHANGED <<orderList, map>>
  BY DEF purgeReturn
<1>2. orderList \in Lists /\ L \in Nat /\ ToSet(orderList) = DOMAIN map
  BY DEF ListInv, ListAgrees, Lists
<1>3. L = 0 \/ LightWeight(map)
  <2>1. CASE DOMAIN map = {}
    <3>1. L \notin 1 .. L
      BY <1>2, <2>1 DEF ToSet, Lists
    <3> QED
      BY <1>2, <3>1
  <2>2. CASE ~ TooHeavy(data_weight)
    <3>1. data_weight \in Nat /\ data_weight = SumFunction(map)
      BY DEF WeightInv, TypeOK, Weighed
    <3>2. FactorUnit * Rounded(data_weight) <= Rounded(Rounded(maxWeight) * factor)
      BY <2>2, <3>1, LightEnough
    <3> QED
      BY <3>1, <3>2 DEF LightWeight
  <2> QED
    BY <1>1, <2>1, <2>2 DEF exceeds
<1>4. EndsLight(orderList, map, L)
  <2>1. L \in 0 .. L /\ L + 1 .. L = {}
    BY <1>2
  <2>2. L = 0 \/ LightWeight(Keep(map, SubSeq(orderList, 1, L)))
    BY <1>3, WholeList
  <2> QED
    BY <2>1, <2>2 DEF EndsLight
<1>5. order = orderList /\ contents = map
  BY <1>1, <1>2, <1>4, PartIs, WholeList, SeenAs DEF SeenIdle, SeenPurging
<1>6. pc' # "purge" => order' = orderList' /\ contents' = map'
  BY SeenNext DEF SeenIdle, SeenPurging
<1> QED
  BY <1>1, <1>5, <1>6

LEMMA RecencyInit == Init => Promise!Init
<1> SUFFICES ASSUME Init PROVE Promise!Init
  OBVIOUS
<1>1. order = <<>> /\ contents = <<>>
  BY SeenAs DEF Init, SeenIdle, SeenPurging
<1> QED
  BY <1>1 DEF Promise!Init

LEMMA RecencyStep ==
  ASSUME ListInv, WeightInv, ListInv', WeightInv', [Next]_vars
  PROVE  [Promise!Next]_(Promise!vars)
<1> USE DEF Promise!vars
<1>0. pc' # "purge" => order' = orderList' /\ contents' = map'
  BY SeenNext DEF SeenIdle, SeenPurging
<1>1. ASSUME NEW k \in Key, NEW v \in Value, NEW n \in 1 .. Len(orderList) + 1,
             insert(k, v, n)
      PROVE  Promise!Next
  BY <1>1, StepInsert
<1>2. ASSUME NEW k \in Key, touch(k)
      PROVE  Promise!Next
  <2>1. /\ pc = "idle" /\ pc' = "idle" /\ k \in DOMAIN map /\ map' = map
        /\ orderList' = <<k>> \o RemoveFirst(orderList, k)
    BY <1>2 DEF touch, front
  <2>2. Promise!Touch(k)
    BY <1>0, <2>1, SeenAs, ListNames DEF Promise!Touch, ListInv, ListAgrees, SeenIdle, SeenPurging
  <2> QED
    BY <2>2 DEF Promise!Next
<1>3. ASSUME NEW k \in Key, remove(k)
      PROVE  Promise!Next \/ UNCHANGED <<order, contents>>
  <2>1. pc = "idle" /\ pc' = "idle" /\ removed(k) /\ order = orderList /\ contents = map
        /\ order' = orderList' /\ contents' = map'
    BY <1>0, <1>3, SeenAs DEF remove, SeenIdle, SeenPurging
  <2>2. CASE k \in DOMAIN map
    <3>1. /\ orderList' = RemoveFirst(orderList, k)
          /\ map' = Restrict(map, DOMAIN map \ {k})
      BY <2>1, <2>2 DEF removed
    <3>2. DOMAIN map' = DOMAIN map \ {k} /\ ToSet(orderList') = DOMAIN map'
      BY <3>1 DEF Restrict, ListInv, ListAgrees
    <3>3. map' = Promise!Kept(contents, order')
      BY <2>1, <3>1, <3>2, KeptNames DEF Keep
    <3>4. k \in Promise!ToSet(order) /\ order' = Promise!RemoveFirst(order, k)
      BY <2>1, <2>2, <3>1, ListNames DEF ListInv, ListAgrees
    <3>5. Promise!Erase(k)
      BY <2>1, <3>3, <3>4 DEF Promise!Erase
    <3> QED
      BY <3>5 DEF Promise!Next
  <2>3. CASE k \notin DOMAIN map
    BY <2>1, <2>3 DEF removed
  <2> QED
    BY <2>2, <2>3
<1>4. CASE clear
  <2>1. Promise!Clear
    BY <1>0, <1>4 DEF clear, Promise!Clear
  <2> QED
    BY <2>1 DEF Promise!Next
<1>5. CASE purgeStep
  BY <1>5, StepPurge
<1>6. CASE purgeReturn
  BY <1>6, StepReturn
<1>7. CASE UNCHANGED vars
  <2>1. UNCHANGED <<orderList, map, pc>>
    BY <1>7 DEF vars
  <2>2. order' = order /\ contents' = contents
    BY <2>1 DEF order, contents, Recency!LightFront, Recency!Kept, Recency!Light,
       Recency!Restrict, Recency!ToSet
  <2> QED
    BY <2>2
<1> QED
  BY <1>1, <1>2, <1>3, <1>4, <1>5, <1>6, <1>7 DEF Next

\* rlu_map is a map in the order of recency, for any keys, weights, limit and
\* factor: an insert that makes it too heavy keeps the longest front part of the
\* list whose weight, rounded to a float, is not above maxWeight * factor, computed
\* in floats; nothing else changes the elements or their order than the call says.
THEOREM RecencyImplemented == Spec => ImplementsRecency
<1>1. Spec => Promise!Init /\ [][Promise!Next]_(Promise!vars)
  BY MapKept, RecencyInit, RecencyStep, PTL DEF Spec
<1> QED
  BY <1>1 DEF ImplementsRecency, Promise!Spec

=============================================================================
