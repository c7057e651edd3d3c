--------------------------- MODULE ConstPoolProofs ---------------------------
(***************************************************************************)
(* For every size and every index type that the constructor accepts, and   *)
(* whatever owners write: the free list is a path through exactly the free *)
(* elements, so that no element is handed out twice.                       *)
(***************************************************************************)
EXTENDS ConstPool, Induction, SequenceTheorems, TLAPS

FreeOnes == Index \ owned

\* f is the list from e on: every element holds the index of the next one, and
\* the last holds size.
Chains(e, f) ==
  /\ f \in Seq(Index)
  /\ e = IF f = <<>> THEN size ELSE f[1]
  /\ \A j \in 1 .. Len(f) : data[f[j]] = IF j = Len(f) THEN size ELSE f[j + 1]

\* f has the elements of E, each once.
Lists(f, E) ==
  /\ \A j, k \in 1 .. Len(f) : f[j] = f[k] => j = k
  /\ \A j \in 1 .. Len(f) : f[j] \in E
  /\ \A e \in E : \E j \in 1 .. Len(f) : f[j] = e

FreeList == \E f : Chains(first_empty, f) /\ Lists(f, FreeOnes)

\* What Reset has done so far.
Resetting == owned = {} /\ \A e \in Index : e < i => data[e] = e + 1

PoolInv == (pc = "idle" => FreeList) /\ (pc = "reset" => Resetting)

-----------------------------------------------------------------------------

LEMMA TypeInit == Init => TypeOK
<1> USE ConstantsAssumption DEF ConstantsAssumption, Index, Word
<1>1. Init => data \in [Index -> Word]
  BY DEF Init
<1> QED
  BY <1>1 DEF Init, TypeOK

\* Every store into the pool and into first_empty is of an index_type.
LEMMA TypeStep == TypeOK /\ [Next]_vars => TypeOK'
<1> SUFFICES ASSUME TypeOK, [Next]_vars PROVE TypeOK'
  OBVIOUS
<1> USE ConstantsAssumption DEF ConstantsAssumption, Index, Word
<1>1. CASE ResetCall
  BY <1>1 DEF ResetCall, TypeOK
<1>2. CASE ResetLink
  <2>1. i \in Index /\ (i + 1) % IndexRange = i + 1
    BY <1>2 DEF ResetLink, InLoop, TypeOK
  <2> QED
    BY <1>2, <2>1 DEF ResetLink, InLoop, NextIndex, TypeOK
<1>3. CASE ResetReturn
  BY <1>3 DEF ResetReturn, TypeOK
<1>4. CASE Alloc
  BY <1>4 DEF Alloc, Linked, TypeOK
<1>5. CASE AllocThrows
  BY <1>5 DEF AllocThrows, TypeOK
<1>6. ASSUME NEW e \in Index, Free(e) PROVE TypeOK'
  BY <1>6 DEF Free, LinkTo, TypeOK
<1>7. ASSUME NEW e \in Index, Write(e) PROVE TypeOK'
  BY <1>7 DEF Write, TypeOK
<1>8. CASE UNCHANGED vars
  BY <1>8 DEF vars, TypeOK
<1> QED
  BY <1>1, <1>2, <1>3, <1>4, <1>5, <1>6, <1>7, <1>8 DEF Next

\* Type correctness of ConstPool: the index that Reset stores in the last
\* element fits in index_type, and so does whatever Alloc and Free load.
THEOREM TypeCorrect == Spec => []TypeOK
BY TypeInit, TypeStep, PTL DEF Spec

-----------------------------------------------------------------------------

\* Reset has made the whole pool one list when its loop ends.
LEMMA ResetMakesList ==
  ASSUME TypeOK, Resetting, ResetReturn
  PROVE  Chains(first_empty, Empty!Full)' /\ Lists(Empty!Full, FreeOnes)'
<1> USE ConstantsAssumption DEF ConstantsAssumption, Index
<1>f. PICK f : f = Empty!Full
  OBVIOUS
<1>1. /\ data' = data /\ first_empty' = 0 /\ FreeOnes' = Index
      /\ \A e \in Index : data[e] = e + 1
  BY DEF ResetReturn, Resetting, InLoop, TypeOK, FreeOnes
<1>2. f \in Seq(Index) /\ Len(f) = size /\ \A j \in 1 .. size : f[j] = j - 1
  <2>1. f = [j \in 1 .. size |-> j - 1]
    BY <1>f DEF Empty!Full
  <2>2. f \in [1 .. size -> Index]
    BY <2>1
  <2> QED
    BY <2>1, <2>2
<1>3. 0 = IF f = <<>> THEN size ELSE f[1]
  <2>1. CASE f = <<>>
    BY <1>2, <2>1
  <2>2. CASE f # <<>>
    BY <1>2, <2>2, EmptySeq
  <2> QED
    BY <2>1, <2>2
<1>4. \A j \in 1 .. size : data[j - 1] = j
  BY <1>1
<1>5. Chains(first_empty, f)'
  <2>1. \A j \in 1 .. size : data[f[j]] = IF j = size THEN size ELSE f[j + 1]
    BY <1>2, <1>4
  <2> QED
    BY <1>1, <1>2, <1>3, <2>1 DEF Chains
<1>6. \A e \in Index : e + 1 \in 1 .. size /\ f[e + 1] = e
  BY <1>2
<1>7. Lists(f, FreeOnes)'
  BY <1>1, <1>2, <1>6 DEF Lists
<1> QED
  BY <1>f, <1>5, <1>7

\* Alloc takes the first element of the list.
LEMMA AllocTakesFirst ==
  ASSUME TypeOK, NEW f, Chains(first_empty, f), Lists(f, FreeOnes), Alloc
  PROVE  /\ f # <<>> /\ first_empty = Head(f) /\ first_empty \in FreeOnes
         /\ Chains(first_empty, Tail(f))' /\ Lists(Tail(f), FreeOnes)'
<1> USE ConstantsAssumption DEF ConstantsAssumption, Index
<1>1. f \in Seq(Index) /\ f # <<>> /\ first_empty = f[1] /\ Len(f) \in Nat
  BY LenProperties DEF Chains, Alloc
<1>2. /\ 1 \in 1 .. Len(f) /\ Head(f) = f[1]
      /\ Tail(f) \in Seq(Index) /\ Len(Tail(f)) = Len(f) - 1
      /\ \A j \in 1 .. Len(f) - 1 : Tail(f)[j] = f[j + 1]
  BY <1>1, HeadTailProperties, EmptySeq
<1>3. /\ data' = data /\ first_empty' = data[f[1]]
      /\ FreeOnes' = FreeOnes \ {f[1]}
  BY <1>1 DEF Alloc, Linked, FreeOnes
<1> DEFINE t == Tail(f)
<1> HIDE DEF t
<1>4. first_empty' = IF t = <<>> THEN size ELSE t[1]
  <2>1. data[f[1]] = IF 1 = Len(f) THEN size ELSE f[1 + 1]
    BY <1>2 DEF Chains
  <2>2. CASE Len(f) = 1
    <3>1. t \in Seq(Index) /\ Len(t) = 0
      BY <1>2, <2>2 DEF t
    <3>2. t = <<>>
      BY <3>1, EmptySeq
    <3> QED
      BY <1>3, <2>1, <2>2, <3>2
  <2>3. CASE Len(f) # 1
    <3>1. Len(f) - 1 \in Nat /\ 1 \in 1 .. Len(f) - 1 /\ t[1] = f[2] /\ Len(t) # 0
      BY <1>1, <1>2, <2>3 DEF t
    <3> QED
      BY <1>3, <2>1, <2>3, <3>1, EmptySeq
  <2> QED
    BY <2>2, <2>3
<1>5. ASSUME NEW j \in 1 .. Len(t)
      PROVE  data[t[j]] = IF j = Len(t) THEN size ELSE t[j + 1]
  <2>1. j + 1 \in 1 .. Len(f) /\ t[j] = f[j + 1] /\ Len(t) = Len(f) - 1
    BY <1>1, <1>2 DEF t
  <2>2. data[f[j + 1]] = IF j + 1 = Len(f) THEN size ELSE f[(j + 1) + 1]
    BY <2>1 DEF Chains
  <2>3. j # Len(t) => j + 1 \in 1 .. Len(t) /\ t[j + 1] = f[(j + 1) + 1]
    <3>1. ASSUME j # Len(t) PROVE j + 1 \in 1 .. Len(t) /\ t[j + 1] = f[(j + 1) + 1]
      <4>1. j + 1 \in 1 .. Len(f) - 1 /\ Len(t) = Len(f) - 1
        BY <1>1, <2>1, <3>1
      <4>2. t[j + 1] = f[(j + 1) + 1]
        BY <1>2, <4>1 DEF t
      <4> QED
        BY <4>1, <4>2
    <3> QED
      BY <3>1
  <2> QED
    BY <1>1, <2>1, <2>2, <2>3
<1>6. Chains(first_empty, t)'
  BY <1>2, <1>3, <1>4, <1>5 DEF Chains, t
<1>7. Lists(t, FreeOnes)'
  <2>1. \A j \in 1 .. Len(t) : j + 1 \in 1 .. Len(f) /\ t[j] = f[j + 1] /\ j + 1 # 1
    BY <1>1, <1>2 DEF t
  <2>2. \A j \in 1 .. Len(f) : j # 1 => j - 1 \in 1 .. Len(t) /\ t[j - 1] = f[j]
    BY <1>1, <1>2 DEF t
  <2>3. \A j, k \in 1 .. Len(t) : t[j] = t[k] => j = k
    <3> TAKE j, k \in 1 .. Len(t)
    <3> HAVE t[j] = t[k]
    <3>1. j + 1 = k + 1
      BY <2>1 DEF Lists
    <3> QED
      BY <3>1, <1>1, <1>2 DEF t
  <2>4. \A j \in 1 .. Len(t) : t[j] \in FreeOnes \ {f[1]}
    BY <1>2, <2>1 DEF Lists
  <2>5. \A e \in FreeOnes \ {f[1]} : \E j \in 1 .. Len(t) : t[j] = e
    BY <2>2 DEF Lists
  <2> QED
    BY <1>3, <2>3, <2>4, <2>5 DEF Lists
<1> QED
  BY <1>1, <1>2, <1>6, <1>7 DEF t, Lists

\* Free puts an element in front that nothing in the list leads to.
LEMMA FreePutsFirst ==
  ASSUME TypeOK, NEW e \in Index, NEW f, Chains(first_empty, f), Lists(f, FreeOnes), Free(e)
  PROVE  /\ \A j \in 1 .. Len(f) : f[j] # e
         /\ Chains(first_empty, <<e>> \o f)' /\ Lists(<<e>> \o f, FreeOnes)'
<1> USE ConstantsAssumption DEF ConstantsAssumption, Index, Word
<1>1. /\ e \notin FreeOnes /\ first_empty' = e
      /\ data \in [Index -> Word] /\ data' = [data EXCEPT ![e] = first_empty]
      /\ FreeOnes' = FreeOnes \cup {e}
  BY DEF Free, LinkTo, FreeOnes, TypeOK
<1>2. f \in Seq(Index) /\ Len(f) \in Nat /\ \A j \in 1 .. Len(f) : f[j] \in Index
  BY LenProperties, ElementOfSeq DEF Chains
<1>3. \A j \in 1 .. Len(f) : f[j] # e
  BY <1>1 DEF Lists
<1> DEFINE g == <<e>> \o f
<1>4. /\ g \in Seq(Index) /\ Len(g) = Len(f) + 1 /\ g # <<>> /\ g[1] = e
      /\ \A j \in 1 .. Len(f) : g[j + 1] = f[j]
  <2>1. <<e>> \in Seq(Index) /\ Len(<<e>>) = 1 /\ <<e>>[1] = e
    OBVIOUS
  <2>2. /\ g \in Seq(Index) /\ Len(g) = Len(<<e>>) + Len(f)
        /\ \A j \in 1 .. Len(<<e>>) + Len(f) :
             g[j] = IF j <= Len(<<e>>) THEN <<e>>[j] ELSE f[j - Len(<<e>>)]
    BY <1>2, <2>1, ConcatProperties
  <2> HIDE DEF g
  <2> QED
    BY <1>2, <2>1, <2>2, EmptySeq
<1> HIDE DEF g
<1>5. \A j \in 1 .. Len(g) : j = 1 \/ (j - 1 \in 1 .. Len(f) /\ g[j] = f[j - 1])
  <2> SUFFICES ASSUME NEW j \in 1 .. Len(g), j # 1
               PROVE  j - 1 \in 1 .. Len(f) /\ g[j] = f[j - 1]
    OBVIOUS
  <2>1. j - 1 \in 1 .. Len(f) /\ (j - 1) + 1 = j
    BY <1>2, <1>4
  <2>2. g[(j - 1) + 1] = f[j - 1]
    BY <1>4, <2>1
  <2> QED
    BY <2>1, <2>2
<1>6. ASSUME NEW j \in 1 .. Len(g)
      PROVE  data'[g[j]] = IF j = Len(g) THEN size ELSE g[j + 1]
  <2>1. CASE j = 1
    <3>1. data'[e] = first_empty
      BY <1>1
    <3>2. CASE f = <<>>
      BY <1>2, <1>4, <2>1, <3>1, <3>2, EmptySeq DEF Chains
    <3>3. CASE f # <<>>
      <4>1. first_empty = f[1] /\ 1 \in 1 .. Len(f)
        BY <1>2, <3>3, EmptySeq DEF Chains
      <4> QED
        BY <1>2, <1>4, <2>1, <3>1, <4>1
    <3> QED
      BY <3>2, <3>3
  <2>2. CASE j # 1
    <3>1. j - 1 \in 1 .. Len(f) /\ g[j] = f[j - 1] /\ f[j - 1] # e /\ f[j - 1] \in Index
      BY <1>2, <1>3, <1>5, <2>2
    <3>2. data'[g[j]] = IF j - 1 = Len(f) THEN size ELSE f[(j - 1) + 1]
      BY <1>1, <3>1 DEF Chains
    <3>3. j - 1 # Len(f) => (j - 1) + 1 \in 1 .. Len(f) /\ g[((j - 1) + 1) + 1] = f[(j - 1) + 1]
      BY <1>2, <1>4, <3>1
    <3>4. (j - 1) + 1 = j
      BY <1>2, <1>4
    <3> QED
      BY <1>2, <1>4, <3>1, <3>2, <3>3, <3>4
  <2> QED
    BY <2>1, <2>2
<1>7. Chains(first_empty, g)'
  BY <1>1, <1>4, <1>6 DEF Chains
<1>8. Lists(g, FreeOnes)'
  <2>1. \A j, k \in 1 .. Len(g) : g[j] = g[k] => j = k
    <3> TAKE j, k \in 1 .. Len(g)
    <3> HAVE g[j] = g[k]
    <3>1. CASE j = 1 \/ k = 1
      BY <1>3, <1>4, <1>5, <3>1
    <3>2. CASE j # 1 /\ k # 1
      <4>1. j - 1 \in 1 .. Len(f) /\ k - 1 \in 1 .. Len(f) /\ f[j - 1] = f[k - 1]
        BY <1>5, <3>2
      <4>2. j - 1 = k - 1
        BY <4>1 DEF Lists
      <4> QED
        BY <1>2, <1>4, <4>2
    <3> QED
      BY <3>1, <3>2
  <2>2. \A j \in 1 .. Len(g) : g[j] \in FreeOnes \cup {e}
    BY <1>4, <1>5 DEF Lists
  <2>3. \A x \in FreeOnes \cup {e} : \E j \in 1 .. Len(g) : g[j] = x
    <3>1. 1 \in 1 .. Len(g) /\ g[1] = e
      BY <1>2, <1>4
    <3>2. \A j \in 1 .. Len(f) : j + 1 \in 1 .. Len(g) /\ g[j + 1] = f[j]
      BY <1>2, <1>4
    <3>3. ASSUME NEW x \in FreeOnes PROVE \E j \in 1 .. Len(g) : g[j] = x
      BY <3>2 DEF Lists
    <3> QED
      BY <3>1, <3>3
  <2> QED
    BY <1>1, <2>1, <2>2, <2>3 DEF Lists
<1> QED
  BY <1>3, <1>7, <1>8 DEF g

\* What an owner writes, the list does not read.
LEMMA WriteKeepsList ==
  ASSUME TypeOK, NEW e \in Index, NEW f, Chains(first_empty, f), Lists(f, FreeOnes), Write(e)
  PROVE  Chains(first_empty, f)' /\ Lists(f, FreeOnes)'
<1>1. first_empty' = first_empty /\ FreeOnes' = FreeOnes /\ \A x \in FreeOnes : data'[x] = data[x]
  BY DEF Write, FreeOnes, TypeOK
<1>2. \A j \in 1 .. Len(f) : data'[f[j]] = data[f[j]]
  BY <1>1 DEF Lists
<1> QED
  BY <1>1, <1>2 DEF Chains, Lists

LEMMA PoolInit == Init => PoolInv
BY ConstantsAssumption DEF Init, PoolInv, Resetting, ConstantsAssumption, Index

LEMMA PoolStep == TypeOK /\ PoolInv /\ [Next]_vars => PoolInv'
<1> SUFFICES ASSUME TypeOK, PoolInv, [Next]_vars PROVE PoolInv'
  OBVIOUS
<1> USE ConstantsAssumption DEF ConstantsAssumption, Index, Word
<1>1. CASE ResetCall
  BY <1>1 DEF ResetCall, PoolInv, Resetting
<1>2. CASE ResetLink
  <2>0. i \in Index /\ (i + 1) % IndexRange = i + 1
    BY <1>2 DEF ResetLink, InLoop, TypeOK
  <2>1. /\ pc = "reset" /\ pc' = pc /\ i \in Index /\ i' = i + 1 /\ owned' = owned
        /\ data' = [data EXCEPT ![i] = i + 1]
    BY <1>2, <2>0 DEF ResetLink, NextIndex
  <2>2. \A e \in Index : e < i' => data'[e] = e + 1
    BY <2>1 DEF PoolInv, Resetting, TypeOK
  <2> QED
    BY <2>1, <2>2 DEF PoolInv, Resetting
<1>3. CASE ResetReturn
  <2>1. pc = "reset" /\ pc' = "idle" /\ Resetting
    BY <1>3 DEF ResetReturn, PoolInv
  <2>2. FreeList'
    BY <1>3, <2>1, ResetMakesList DEF FreeList
  <2> QED
    BY <2>1, <2>2 DEF PoolInv
<1>4. ASSUME pc = "idle", pc' = "idle",
             \A f : Chains(first_empty, f) /\ Lists(f, FreeOnes) =>
               \E g : Chains(first_empty, g)' /\ Lists(g, FreeOnes)'
      PROVE  PoolInv'
  BY <1>4 DEF PoolInv, FreeList
<1>5. CASE Alloc
  BY <1>4, <1>5, AllocTakesFirst DEF Alloc
<1>6. ASSUME NEW e \in Index, Free(e) PROVE PoolInv'
  BY <1>4, <1>6, FreePutsFirst DEF Free
<1>7. ASSUME NEW e \in Index, Write(e) PROVE PoolInv'
  BY <1>4, <1>7, WriteKeepsList DEF Write
<1>8. CASE AllocThrows \/ UNCHANGED vars
  <2>1. UNCHANGED <<data, first_empty, owned, pc, i>>
    BY <1>8 DEF AllocThrows, vars
  <2> QED
    BY <2>1 DEF PoolInv, FreeList, Chains, Lists, FreeOnes, Resetting
<1> QED
  BY <1>1, <1>2, <1>3, <1>5, <1>6, <1>7, <1>8 DEF Next

LEMMA ListExcludesOwned == TypeOK /\ PoolInv => NoTwoOwners
<1> SUFFICES ASSUME TypeOK, NEW f, Chains(first_empty, f), Lists(f, FreeOnes)
             PROVE  IF first_empty < size THEN first_empty \notin owned ELSE owned = Index
  BY DEF PoolInv, FreeList, NoTwoOwners
<1> USE ConstantsAssumption DEF ConstantsAssumption, Index
<1>1. CASE f = <<>>
  <2>1. first_empty = size /\ 1 .. Len(f) = {}
    BY <1>1, EmptySeq DEF Chains
  <2>2. FreeOnes = {}
    BY <2>1 DEF Lists
  <2>3. owned = Index
    BY <2>2 DEF FreeOnes, TypeOK
  <2>4. ~(first_empty < size)
    BY <2>1
  <2> QED
    BY <2>3, <2>4
<1>2. CASE f # <<>>
  <2>1. first_empty = f[1] /\ 1 \in 1 .. Len(f)
    BY <1>2, EmptySeq, LenProperties DEF Chains
  <2>2. first_empty \in FreeOnes
    BY <2>1 DEF Lists
  <2> QED
    BY <2>2 DEF FreeOnes
<1> QED
  BY <1>1, <1>2

\* No element has two owners, and Alloc throws only when every element has
\* one, for every pool size up to the greatest index_type.
THEOREM OwnersExcluded == Spec => []NoTwoOwners
<1>1. Init => TypeOK /\ PoolInv
  BY TypeInit, PoolInit
<1>2. TypeOK /\ PoolInv /\ [Next]_vars => (TypeOK /\ PoolInv)'
  BY TypeStep, PoolStep
<1>3. TypeOK /\ PoolInv => NoTwoOwners
  BY ListExcludesOwned
<1> QED
  BY <1>1, <1>2, <1>3, PTL DEF Spec

-----------------------------------------------------------------------------
(* The pool is a stack of the free elements.                               *)

\* A list without repetitions is not longer than the pool.
LEMMA ListIsShort ==
  ASSUME NEW f \in Seq(Index), Lists(f, FreeOnes)
  PROVE  Len(f) <= size
<1> USE ConstantsAssumption DEF ConstantsAssumption
<1>1. SUFFICES ASSUME Len(f) > size PROVE FALSE
  BY LenProperties
<1>2. /\ IsFiniteSet(Index) /\ Cardinality(Index) = size
      /\ IsFiniteSet(1 .. Len(f)) /\ Cardinality(1 .. Len(f)) = Len(f)
  <2>1. Len(f) \in Nat /\ size - 1 \in Int
    BY LenProperties
  <2>2. IsFiniteSet(0 .. size - 1) /\ Cardinality(0 .. size - 1) = size
    <3>1. /\ IsFiniteSet(0 .. size - 1)
          /\ Cardinality(0 .. size - 1) = IF 0 > size - 1 THEN 0 ELSE (size - 1) - 0 + 1
      BY <2>1, FS_Interval
    <3> QED
      BY <3>1
  <2>3. IsFiniteSet(1 .. Len(f)) /\ Cardinality(1 .. Len(f)) = Len(f)
    <3>1. /\ IsFiniteSet(1 .. Len(f))
          /\ Cardinality(1 .. Len(f)) = IF 1 > Len(f) THEN 0 ELSE Len(f) - 1 + 1
      BY <2>1, FS_Interval
    <3> QED
      BY <2>1, <3>1
  <2> QED
    BY <2>2, <2>3 DEF Index
<1>3. f \in [1 .. Len(f) -> Index]
  BY LenProperties
<1>4. \E j, k \in 1 .. Len(f) : j # k /\ f[j] = f[k]
  BY <1>1, <1>2, <1>3, FS_PigeonHole
<1> QED
  BY <1>4 DEF Lists

LEMMA ListIs ==
  ASSUME data \in [Index -> Word]
  PROVE  \A n \in Nat, e \in Word :
           List[n][e] = IF e >= size \/ n = 0 THEN <<>> ELSE <<e>> \o List[n - 1][data[e]]
<1> USE ConstantsAssumption DEF ConstantsAssumption, Index, Word
<1> DEFINE A == [Word -> Seq(Index)]
           a == [e \in Word |-> <<>>]
           Body(x) == [e \in Word |-> IF e >= size THEN <<>> ELSE <<e>> \o x[data[e]]]
           G == [x \in A |-> Body(x)]
<1>1. a \in A
  BY EmptySeq
<1>2. ASSUME NEW x \in A PROVE Body(x) \in A
  <2> SUFFICES ASSUME NEW e \in Word, ~(e >= size)
               PROVE  <<e>> \o x[data[e]] \in Seq(Index)
    BY EmptySeq
  <2>1. e \in Index /\ <<e>> \in Seq(Index) /\ x[data[e]] \in Seq(Index)
    OBVIOUS
  <2> QED
    BY <2>1, ConcatProperties
<1>3. G \in [A -> A]
  BY <1>2
<1> HIDE DEF Body
<1>r. PICK w : Recurs(A, a, G, w)
  <2>1. Goes(A, a, G)
    BY <1>1, <1>3 DEF Goes
  <2> HIDE DEF A, a, G
  <2> QED
    BY <2>1, Recursion
<1>4. w \in [Nat -> A] /\ w[0] = a /\ \A h \in Nat : w[h + 1] = G[w[h]]
  <2> HIDE DEF A, a, G
  <2> QED
    BY <1>r DEF Recurs
<1> DEFINE R(v) == [n \in Nat |-> [e \in Word |->
                      IF e >= size \/ n = 0 THEN <<>> ELSE <<e>> \o v[n - 1][data[e]]]]
<1>5. ASSUME NEW n \in Nat
      PROVE  w[n] = [e \in Word |->
                       IF e >= size \/ n = 0 THEN <<>> ELSE <<e>> \o w[n - 1][data[e]]]
  <2>1. CASE n = 0
    BY <2>1, <1>4
  <2>2. CASE n # 0
    <3>1. n - 1 \in Nat /\ n = (n - 1) + 1
      BY <2>2
    <3>2. w[(n - 1) + 1] = Body(w[n - 1])
      BY <3>1, <1>4
    <3> QED
      BY <2>2, <3>1, <3>2 DEF Body
  <2> QED
    BY <2>1, <2>2
<1>6. w = R(w)
  BY <1>4, <1>5
<1>7. List = R(List)
  BY <1>6 DEF List
<1> QED
  <2> TAKE n \in Nat, e \in Word
  <2>1. List[n] = [x \in Word |->
                     IF x >= size \/ n = 0 THEN <<>> ELSE <<x>> \o List[n - 1][data[x]]]
    BY <1>7
  <2> QED
    BY <2>1

\* The rest of a list is the list from its second element on.
LEMMA RestChains ==
  ASSUME data \in [Index -> Word], NEW e, NEW f, Chains(e, f), f # <<>>
  PROVE  /\ e \in Index /\ f = <<e>> \o Tail(f)
         /\ Chains(data[e], Tail(f)) /\ Len(Tail(f)) = Len(f) - 1 /\ Len(f) \in Nat
<1>1. f \in Seq(Index) /\ Len(f) \in Nat /\ e = f[1] /\ 1 \in 1 .. Len(f) /\ e \in Index
  BY LenProperties, EmptySeq, ElementOfSeq DEF Chains
<1>2. /\ Tail(f) \in Seq(Index) /\ Len(Tail(f)) = Len(f) - 1
      /\ \A j \in 1 .. Len(f) - 1 : Tail(f)[j] = f[j + 1]
  BY <1>1, HeadTailProperties, EmptySeq DEF Chains
<1> DEFINE t == Tail(f)
<1> HIDE DEF t
<1>3. t \in Seq(Index) /\ Len(t) = Len(f) - 1 /\ \A j \in 1 .. Len(f) - 1 : t[j] = f[j + 1]
  BY <1>2 DEF t
<1>4. f = <<e>> \o t
  <2>1. <<e>> \in Seq(Index) /\ Len(<<e>>) = 1 /\ <<e>>[1] = e
    BY <1>1
  <2>2. /\ <<e>> \o t \in Seq(Index) /\ Len(<<e>> \o t) = 1 + Len(t)
        /\ \A j \in 1 .. 1 + Len(t) : (<<e>> \o t)[j] = IF j <= 1 THEN <<e>>[j] ELSE t[j - 1]
    BY <1>3, <2>1, ConcatProperties
  <2> DEFINE g == <<e>> \o t
  <2>3. g \in Seq(Index) /\ Len(g) = Len(f)
    BY <1>1, <1>3, <2>2
  <2>4. ASSUME NEW j \in 1 .. Len(f) PROVE f[j] = g[j]
    <3>1. CASE j = 1
      BY <1>1, <1>3, <2>1, <2>2, <3>1
    <3>2. CASE j # 1
      <4>1. j - 1 \in 1 .. Len(f) - 1 /\ (j - 1) + 1 = j /\ ~(j <= 1) /\ j \in 1 .. 1 + Len(t)
        BY <1>1, <1>3, <3>2
      <4>2. t[j - 1] = f[(j - 1) + 1]
        BY <1>3, <4>1
      <4> QED
        BY <2>2, <4>1, <4>2
    <3> QED
      BY <3>1, <3>2
  <2> HIDE DEF g
  <2>5. f = g
    BY <1>1, <2>3, <2>4, SeqEqual
  <2> QED
    BY <2>5 DEF g
<1>5. data[e] = IF t = <<>> THEN size ELSE t[1]
  <2>1. data[f[1]] = IF 1 = Len(f) THEN size ELSE f[1 + 1]
    BY <1>1 DEF Chains
  <2>2. CASE Len(f) = 1
    <3>1. Len(t) = 0
      BY <1>3, <2>2
    <3>2. t = <<>>
      BY <1>3, <3>1, EmptySeq
    <3> QED
      BY <1>1, <2>1, <2>2, <3>2
  <2>3. CASE Len(f) # 1
    <3>1. 1 \in 1 .. Len(f) - 1 /\ Len(t) # 0
      BY <1>1, <1>3, <2>3
    <3>2. t[1] = f[1 + 1] /\ t # <<>>
      BY <1>3, <3>1, EmptySeq
    <3> QED
      BY <1>1, <2>1, <2>3, <3>2
  <2> QED
    BY <2>2, <2>3
<1>6. ASSUME NEW j \in 1 .. Len(t)
      PROVE  data[t[j]] = IF j = Len(t) THEN size ELSE t[j + 1]
  <2>1. j + 1 \in 1 .. Len(f) /\ t[j] = f[j + 1]
    BY <1>1, <1>3
  <2>2. data[f[j + 1]] = IF j + 1 = Len(f) THEN size ELSE f[(j + 1) + 1]
    BY <2>1 DEF Chains
  <2>3. ASSUME j # Len(t) PROVE t[j + 1] = f[(j + 1) + 1]
    <3>1. j + 1 \in 1 .. Len(f) - 1
      BY <1>1, <1>3, <2>3
    <3> QED
      BY <1>3, <3>1
  <2>4. j = Len(t) <=> j + 1 = Len(f)
    BY <1>1, <1>3
  <2> QED
    BY <2>1, <2>2, <2>3, <2>4
<1>7. Chains(data[e], t)
  BY <1>3, <1>5, <1>6 DEF Chains
<1> QED
  BY <1>1, <1>3, <1>4, <1>7 DEF t

LEMMA ListFollows ==
  ASSUME data \in [Index -> Word]
  PROVE  \A n \in Nat : \A e \in Word : \A f :
           Chains(e, f) /\ Len(f) <= n => List[n][e] = f
<1> USE ConstantsAssumption DEF ConstantsAssumption
<1> DEFINE Follows(n) == \A e \in Word : \A f : Chains(e, f) /\ Len(f) <= n => List[n][e] = f
           S == {n \in Nat : Follows(n)}
<1>1. ASSUME NEW n \in Nat, NEW e \in Word, Chains(e, <<>>) PROVE List[n][e] = <<>>
  <2>1. e = size
    BY <1>1 DEF Chains
  <2>2. e >= size
    BY <2>1
  <2> QED
    BY <2>2, ListIs
<1>2. Follows(0)
  <2> SUFFICES ASSUME NEW e \in Word, NEW f, Chains(e, f), Len(f) <= 0
               PROVE  List[0][e] = f
    OBVIOUS
  <2>1. f \in Seq(Index) /\ Len(f) = 0
    BY LenProperties DEF Chains
  <2>2. f = <<>>
    BY <2>1, EmptySeq
  <2> QED
    BY <2>2, <1>1
<1>3. ASSUME NEW n \in Nat, Follows(n) PROVE Follows(n + 1)
  <2> SUFFICES ASSUME NEW e \in Word, NEW f, Chains(e, f), Len(f) <= n + 1
               PROVE  List[n + 1][e] = f
    OBVIOUS
  <2>1. CASE f = <<>>
    BY <1>1, <2>1
  <2>2. CASE f # <<>>
    <3>1. /\ e \in Index /\ f = <<e>> \o Tail(f)
          /\ Chains(data[e], Tail(f)) /\ Len(Tail(f)) = Len(f) - 1 /\ Len(f) \in Nat
      BY <2>2, RestChains
    <3>2. data[e] \in Word /\ Len(Tail(f)) <= n /\ ~(e >= size) /\ n + 1 # 0 /\ (n + 1) - 1 = n
      BY <3>1 DEF Index
    <3>3. List[n][data[e]] = Tail(f)
      BY <1>3, <3>1, <3>2
    <3>4. List[n + 1][e] = <<e>> \o List[n][data[e]]
      <4>1. n + 1 \in Nat
        OBVIOUS
      <4>2. List[n + 1][e] = IF e >= size \/ n + 1 = 0 THEN <<>>
                             ELSE <<e>> \o List[(n + 1) - 1][data[e]]
        BY <4>1, ListIs
      <4> QED
        BY <3>2, <4>2
    <3> QED
      BY <3>1, <3>3, <3>4
  <2> QED
    BY <2>1, <2>2
<1> HIDE DEF Follows
<1>4. 0 \in S /\ \A n \in Nat : n \in S => n + 1 \in S
  BY <1>2, <1>3
<1>5. \A n \in Nat : n \in S
  <2> HIDE DEF S
  <2> QED
    BY <1>4, NoGap
<1> QED
  BY <1>5 DEF Follows

\* Between calls, free is the list that FreeList knows.
FreeKnown == \A f : Chains(first_empty, f) /\ Lists(f, FreeOnes) => free = f

LEMMA FreeIs == TypeOK /\ pc = "idle" => FreeKnown
<1> SUFFICES ASSUME TypeOK, pc = "idle", NEW f, Chains(first_empty, f), Lists(f, FreeOnes)
             PROVE  free = f
  BY DEF FreeKnown
<1> USE ConstantsAssumption DEF ConstantsAssumption
<1>1. data \in [Index -> Word] /\ first_empty \in Word /\ f \in Seq(Index)
  BY DEF TypeOK, Chains
<1>2. Len(f) <= size + 1 /\ size + 1 \in Nat
  BY <1>1, ListIsShort, LenProperties
<1>3. List[size + 1][first_empty] = f
  BY <1>1, <1>2, ListFollows
<1> QED
  BY <1>3 DEF free

LEMMA FreeWillBe ==
  ASSUME TypeOK', pc' = "idle", NEW f, Chains(first_empty, f)', Lists(f, FreeOnes)'
  PROVE  free' = f
<1>1. TypeOK' /\ (pc = "idle")' => FreeKnown'
  BY FreeIs, PTL
<1> QED
  BY <1>1 DEF FreeKnown

LEMMA StackInit == Init => Stack!Init
BY DEF Init, Stack!Init, free, Empty!Full, Stack!Full, Empty!NoReply, Stack!NoReply

LEMMA StackStep ==
  ASSUME TypeOK, TypeOK', PoolInv, [Next]_vars
  PROVE  [Stack!Next]_(Stack!vars)
<1> USE DEF Stack!vars
<1>1. CASE ResetCall
  <2>1. free' = Stack!Full /\ reply' = Stack!NoReply
    BY <1>1 DEF ResetCall, free, Empty!Full, Stack!Full, Empty!NoReply, Stack!NoReply
  <2> QED
    BY <2>1 DEF Stack!Next, Stack!Reset
<1>2. CASE ResetLink
  <2>1. free = Empty!Full /\ free' = Empty!Full /\ reply' = reply
    BY <1>2 DEF ResetLink, free
  <2> QED
    BY <2>1
<1>3. CASE ResetReturn
  <2>1. pc = "reset" /\ pc' = "idle" /\ reply' = reply /\ Resetting
    BY <1>3 DEF ResetReturn, PoolInv
  <2>2. free' = Empty!Full
    BY <1>3, <2>1, ResetMakesList, FreeWillBe
  <2>3. free = Empty!Full
    BY <2>1 DEF free
  <2> QED
    BY <2>1, <2>2, <2>3
<1>4. ASSUME pc = "idle" PROVE \E f : Chains(first_empty, f) /\ Lists(f, FreeOnes) /\ free = f
  BY <1>4, FreeIs DEF PoolInv, FreeList, FreeKnown
<1>5. CASE Alloc
  <2>1. pc = "idle" /\ pc' = "idle" /\ reply' = [op |-> "alloc", index |-> first_empty]
    BY <1>5 DEF Alloc
  <2>2. PICK f : Chains(first_empty, f) /\ Lists(f, FreeOnes) /\ free = f
    BY <1>4, <2>1
  <2>3. /\ f # <<>> /\ first_empty = Head(f)
        /\ Chains(first_empty, Tail(f))' /\ Lists(Tail(f), FreeOnes)'
    BY <1>5, <2>2, AllocTakesFirst
  <2>4. free' = Tail(f)
    BY <2>1, <2>3, FreeWillBe
  <2>5. Stack!Alloc
    BY <2>1, <2>2, <2>3, <2>4 DEF Stack!Alloc
  <2> QED
    BY <2>5 DEF Stack!Next
<1>6. CASE AllocThrows
  <2>1. /\ pc = "idle" /\ first_empty >= size /\ UNCHANGED <<data, first_empty, pc>>
        /\ reply' = [op |-> "bad_alloc", index |-> size]
    BY <1>6 DEF AllocThrows
  <2>2. PICK f : Chains(first_empty, f) /\ Lists(f, FreeOnes) /\ free = f
    BY <1>4, <2>1
  <2>3. free' = free
    BY <2>1 DEF free, List
  <2>4. f = <<>>
    <3> SUFFICES ASSUME f # <<>> PROVE FALSE
      OBVIOUS
    <3>1. first_empty \in Index
      BY <2>2, RestChains DEF TypeOK
    <3> QED
      BY <2>1, <3>1, ConstantsAssumption DEF ConstantsAssumption, Index
  <2>5. Stack!AllocThrows
    BY <2>1, <2>2, <2>3, <2>4 DEF Stack!AllocThrows
  <2> QED
    BY <2>5 DEF Stack!Next
<1>7. ASSUME NEW e \in Index, Free(e) PROVE Stack!Next
  <2>1. pc = "idle" /\ pc' = "idle" /\ reply' = [op |-> "free", index |-> e]
    BY <1>7 DEF Free
  <2>2. PICK f : Chains(first_empty, f) /\ Lists(f, FreeOnes) /\ free = f
    BY <1>4, <2>1
  <2>3. /\ \A j \in 1 .. Len(f) : f[j] # e
        /\ Chains(first_empty, <<e>> \o f)' /\ Lists(<<e>> \o f, FreeOnes)'
    BY <1>7, <2>2, FreePutsFirst
  <2>4. free' = <<e>> \o f
    BY <2>1, <2>3, FreeWillBe
  <2>5. e \notin Stack!ToSet(free)
    <3>1. DOMAIN f = 1 .. Len(f)
      BY <2>2, LenProperties DEF Chains
    <3> QED
      BY <2>2, <2>3, <3>1 DEF Stack!ToSet
  <2>6. Stack!Free(e)
    BY <2>1, <2>2, <2>4, <2>5 DEF Stack!Free
  <2> QED
    BY <2>6 DEF Stack!Next, Index
<1>8. ASSUME NEW e \in Index, Write(e) PROVE UNCHANGED <<free, reply>>
  <2>1. pc = "idle" /\ pc' = "idle" /\ reply' = reply
    BY <1>8 DEF Write
  <2>2. PICK f : Chains(first_empty, f) /\ Lists(f, FreeOnes) /\ free = f
    BY <1>4, <2>1
  <2>3. free' = f
    BY <1>8, <2>1, <2>2, WriteKeepsList, FreeWillBe
  <2> QED
    BY <2>1, <2>2, <2>3
<1>9. CASE UNCHANGED vars
  BY <1>9 DEF vars, free, List
<1> QED
  BY <1>1, <1>2, <1>3, <1>5, <1>6, <1>7, <1>8, <1>9 DEF Next

\* The pool implements a stack, for every size and whatever owners write: Alloc
\* hands out the element that was freed last, an element is free once, and
\* Reset makes all of them free in their order.
THEOREM StackImplemented == Spec => ImplementsStack
<1>1. Init => TypeOK /\ PoolInv
  BY TypeInit, PoolInit
<1>2. TypeOK /\ PoolInv /\ [Next]_vars => (TypeOK /\ PoolInv)'
  BY TypeStep, PoolStep
<1>3. TypeOK /\ TypeOK' /\ PoolInv /\ [Next]_vars => [Stack!Next]_(Stack!vars)
  BY StackStep
<1>4. Spec => Stack!Init /\ [][Stack!Next]_(Stack!vars)
  BY <1>1, <1>2, <1>3, StackInit, PTL DEF Spec
<1> QED
  BY <1>4 DEF ImplementsStack, Stack!Spec

=============================================================================
