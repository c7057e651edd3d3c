----------------------------- MODULE TrieProofs -----------------------------
(***************************************************************************)
(* Theorems about PatriciaTrie, for keys that differ in their first items: *)
(* what the nodes and links are for the keys that a search takes there,    *)
(* that searches and traversals then find what they should, and that       *)
(* insert, and erase right above a leaf, keep it like this.                *)
(***************************************************************************)
EXTENDS PatriciaTrie, Induction

-----------------------------------------------------------------------------
(* Bits.                                                                   *)

LEMMA Sizes ==
  ASSUME NEW k \in Key
  PROVE  /\ ItemBits \in Nat /\ ItemBits >= 1
         /\ k \in Seq(Item) /\ Len(k) \in Nat /\ Len(k) >= 1 /\ k[1] \in Item
         /\ size(k) \in Nat /\ size(k) >= ItemBits
<1>1. ItemBits \in Nat /\ ItemBits >= 1 /\ k \in Seq(Item) /\ k # <<>>
  BY ConstantsAssumption
<1>2. Len(k) \in Nat /\ Len(k) >= 1 /\ k[1] \in Item
  BY <1>1
<1>3. size(k) = Len(k) * ItemBits
  BY DEF size
<1>4. \A a, b \in Nat : a >= 1 => a * b \in Nat /\ a * b >= b
  OBVIOUS
<1> QED
  BY <1>1, <1>2, <1>3, <1>4

\* The bits below ItemBits are those of the first item.
LEMMA FirstBits ==
  ASSUME NEW k \in Key, NEW b \in Nat, b < ItemBits
  PROVE  (bit(k, b) <=> b \in k[1]) /\ ~ bitThrows(k, b)
<1>1. ItemBits \in Nat /\ ItemBits >= 1 /\ size(k) \in Nat /\ size(k) >= ItemBits /\ Len(k) >= 1
  BY Sizes
<1>2. b \div ItemBits = 0 /\ b % ItemBits = b
  BY <1>1
<1>3. (b \div ItemBits) + 1 = 1
  BY <1>2
<1>4. b < size(k)
  BY <1>1
<1>5. bit(k, b) <=> b \in k[1]
  BY <1>2, <1>3, <1>4 DEF bit
<1>6. ~ (b \div ItemBits >= Len(k))
  BY <1>1, <1>2, Sizes
<1> QED
  BY <1>5, <1>6 DEF bitThrows

\* bit throws at the end of a key of one item.
LEMMA Throws ==
  ASSUME NEW k \in Key, NEW p \in 0 .. ItemBits
  PROVE  bitThrows(k, p) <=> p >= size(k)
<1>1. ItemBits \in Nat /\ ItemBits >= 1 /\ size(k) \in Nat /\ size(k) >= ItemBits
      /\ Len(k) \in Nat /\ Len(k) >= 1
  BY Sizes
<1>2. CASE p < ItemBits
  BY <1>1, <1>2, FirstBits
<1>3. CASE p = ItemBits
  <2>1. p \div ItemBits = 1
    BY <1>1, <1>3
  <2>2. PICK len \in Nat : len = Len(k)
    BY <1>1
  <2>3. len >= 1
    BY <2>2, <1>1
  <2>4. bitThrows(k, p) <=> p <= size(k) /\ 1 >= len
    BY <2>1, <2>2, Zenon DEF bitThrows
  <2>5. size(k) = len * ItemBits
    BY <2>2, Zenon DEF size
  <2>6. \A a, b \in Nat : a >= 2 /\ b >= 1 => a * b > b
    OBVIOUS
  <2>7. len >= 2 => size(k) > ItemBits
    BY <2>5, <2>6, <1>1
  <2>8. len = 1 => size(k) = ItemBits
    BY <2>5, <1>1
  <2>9. (p <= size(k) /\ 1 >= len) <=> p >= size(k)
    BY <2>3, <2>7, <2>8, <1>1, <1>3
  <2> QED
    BY <2>4, <2>9, Zenon
<1> QED
  BY <1>1, <1>2, <1>3

LEMMA SidesTwo ==
  /\ \A k, p : Toward(k, p) \in Sides
  /\ \A s \in Sides : Other(s) \in Sides /\ Other(s) # s /\ Other(Other(s)) = s
  /\ \A s, t \in Sides : s # t => t = Other(s)
  BY DEF Toward, Sides, Other

\* x and y go the same way at the bits below p.
Agree(x, y, p) == \A b \in Nat : b < p => Toward(x, b) = Toward(y, b)

LEMMA AgreeIs ==
  ASSUME NEW x, NEW y, NEW p \in Nat, Agree(x, y, p)
  PROVE  /\ Agree(y, x, p)
         /\ \A q \in Nat : q <= p => Agree(x, y, q)
         /\ \A q \in Nat : q < p => Toward(x, q) = Toward(y, q)
         /\ \A z : Agree(y, z, p) => Agree(x, z, p)
         /\ Toward(x, p) = Toward(y, p) => Agree(x, y, p + 1)
  BY DEF Agree

LEMMA AgreeSelf == \A x, p : Agree(x, x, p)
  BY DEF Agree

LEMMA AgreeNone == \A x, y : Agree(x, y, 0)
  BY DEF Agree

\* Keys that agree in the bits of an item are the same.
LEMMA OneKey ==
  ASSUME DifferFirst, NEW x \in Key, NEW y \in Key, Agree(x, y, ItemBits)
  PROVE  x = y
<1>1. ItemBits \in Nat /\ x[1] \in Item /\ y[1] \in Item
  BY Sizes
<1>2. ASSUME NEW b \in 0 .. ItemBits - 1 PROVE b \in x[1] <=> b \in y[1]
  <2>1. b \in Nat /\ b < ItemBits
    BY <1>1
  <2>2. Toward(x, b) = Toward(y, b)
    BY <2>1 DEF Agree
  <2>3. bit(x, b) <=> bit(y, b)
    BY <2>2 DEF Toward
  <2> QED
    BY <2>1, <2>3, FirstBits
<1>3. x[1] = y[1]
  BY <1>1, <1>2 DEF Item
<1> QED
  BY <1>3 DEF DifferFirst

LEMMA MinIs ==
  ASSUME NEW S, S \subseteq Nat, S # {}
  PROVE  Min(S) \in S /\ \A y \in S : Min(S) <= y
<1>1. \E x \in S : \A y \in S : x <= y
  BY Least
<1> QED
  BY <1>1 DEF Min

\* mismatch is the first bit at which two keys part.
LEMMA Mismatch ==
  ASSUME DifferFirst, NEW x \in Key, NEW y \in Key, x # y
  PROVE  /\ mismatch(x, y) \in 0 .. ItemBits - 1
         /\ Agree(x, y, mismatch(x, y))
         /\ Toward(x, mismatch(x, y)) # Toward(y, mismatch(x, y))
<1> DEFINE differ == {i \in 1 .. Len(x) : i > Len(y) \/ x[i] # y[i]}
           B == {b \in 0 .. ItemBits - 1 : b \in x[1] <=> b \notin y[1]}
<1>0. /\ ItemBits \in Nat /\ x[1] \in Item /\ y[1] \in Item
      /\ Len(x) \in Nat /\ Len(x) >= 1 /\ Len(y) \in Nat /\ Len(y) >= 1
  BY Sizes
<1>1. x[1] # y[1]
  BY DEF DifferFirst
<1>2. 1 \in differ /\ differ \subseteq Nat /\ \A i \in differ : i >= 1
  BY <1>0, <1>1
<1>3. Min(differ) = 1
  <2> HIDE DEF differ
  <2>1. Min(differ) \in differ /\ \A i \in differ : Min(differ) <= i
    BY <1>2, MinIs
  <2>2. Min(differ) \in Nat /\ Min(differ) <= 1 /\ Min(differ) >= 1
    BY <2>1, <1>2
  <2> QED
    BY <2>2
<1>4. mismatch(x, y) = Min(B)
  <2>1. ~ (differ = {} \/ Min(differ) > Len(y))
    BY <1>0, <1>2, <1>3
  <2>2. mismatch(x, y) = LowestBit(x[Min(differ)], y[Min(differ)])
    BY <2>1 DEF mismatch
  <2> QED
    BY <2>2, <1>3 DEF LowestBit
<1>5. \E b \in 0 .. ItemBits - 1 : b \in x[1] <=> b \notin y[1]
  BY <1>0, <1>1 DEF Item
<1>6. Min(B) \in B /\ \A b \in B : Min(B) <= b
  <2>1. B \subseteq Nat /\ B # {}
    BY <1>0, <1>5
  <2> HIDE DEF B
  <2> QED
    BY <2>1, MinIs
<1> DEFINE q == Min(B)
<1>7. q \in 0 .. ItemBits - 1 /\ (q \in x[1] <=> q \notin y[1])
  BY <1>6
<1>8. \A b \in 0 .. ItemBits - 1 : b < q => (b \in x[1] <=> b \in y[1])
  <2> TAKE b \in 0 .. ItemBits - 1
  <2> HAVE b < q
  <2>1. b \notin B
    BY <1>6, <1>7, <1>0
  <2> QED
    BY <2>1
<1> HIDE DEF q
<1>9. Agree(x, y, q)
  <2> SUFFICES ASSUME NEW b \in Nat, b < q PROVE Toward(x, b) = Toward(y, b)
    BY DEF Agree
  <2>1. b \in 0 .. ItemBits - 1 /\ b < ItemBits
    BY <1>7, <1>0
  <2>2. bit(x, b) <=> bit(y, b)
    BY <2>1, <1>8, FirstBits
  <2> QED
    BY <2>2 DEF Toward
<1>10. Toward(x, q) # Toward(y, q)
  <2>1. q \in Nat /\ q < ItemBits
    BY <1>7, <1>0
  <2>2. bit(x, q) <=> ~ bit(y, q)
    BY <2>1, <1>7, FirstBits
  <2> QED
    BY <2>2 DEF Toward
<1> QED
  BY <1>4, <1>7, <1>9, <1>10 DEF q


-----------------------------------------------------------------------------
(* What the trie is.                                                       *)

Pos(M, n) == M[n].position

Link(M, n, s) == M[n].link[s]

\* The search for x goes through n, or ends there.
Way(M, x, n) == Agree(x, n, Pos(M, n))

\* The keys on side s of node n.
Group(M, n, s) == {x \in DOMAIN M : Way(M, x, n) /\ Toward(x, Pos(M, n)) = s}

\* m is the node below n on side s: the node of lowest position on that side.
Below(M, n, s, m) ==
  /\ Pos(M, m) > Pos(M, n)
  /\ m \in Group(M, n, s)
  /\ \A x \in Group(M, n, s) : Way(M, x, m) /\ (Pos(M, x) > Pos(M, n) => Pos(M, x) >= Pos(M, m))

\* The link of n on side s leads to the node below, or back to the one key on that
\* side, or nowhere.
Leads(M, n, s) ==
  LET m == Link(M, n, s)
  IN  /\ m = Null => Group(M, n, s) = {}
      /\ m # Null /\ Pos(M, m) <= Pos(M, n) => Group(M, n, s) = {m}
      /\ m # Null /\ Pos(M, m) > Pos(M, n) => Below(M, n, s, m)

Shape(M, r) ==
  /\ DOMAIN M \subseteq Key
  /\ \A n \in DOMAIN M :
       M[n] \in [link : [Sides -> DOMAIN M \cup {Null}], position : 0 .. ItemBits]
  /\ DOMAIN M = {} => r = Null
  /\ DOMAIN M # {} => r \in DOMAIN M /\ Pos(M, r) = 0

Distinct(M) ==
  \A x, y \in DOMAIN M : Pos(M, x) = Pos(M, y) /\ Way(M, x, y) => x = y

Linking(M) ==
  \A n \in DOMAIN M, s \in Sides :
    /\ Pos(M, n) < size(n) => Leads(M, n, s)
    /\ Pos(M, n) >= size(n) => Link(M, n, s) = Null

\* Every node is where the search for its key passes, every link leads to where
\* the keys on its side are, and the keys are those of the nodes.
TrieInv == Shape(memory, root_node) /\ Distinct(memory) /\ Linking(memory) /\ live = DOMAIN memory


LEMMA ShapeIs ==
  ASSUME NEW M, NEW r, Shape(M, r)
  PROVE  /\ ItemBits \in Nat
         /\ \A n \in DOMAIN M : n \in Key /\ n # Null /\ Pos(M, n) \in Nat /\ Pos(M, n) <= ItemBits
         /\ \A n \in DOMAIN M : Pos(M, n) \in 0 .. ItemBits
         /\ \A n \in DOMAIN M : size(n) \in Nat /\ size(n) >= ItemBits /\ Pos(M, n) <= size(n)
         /\ \A n \in DOMAIN M, s \in Sides : Link(M, n, s) \in DOMAIN M \cup {Null}
<1>1. ItemBits \in Nat
  BY ConstantsAssumption
<1>2. \A n \in DOMAIN M : n \in Key /\ n # Null
  BY ConstantsAssumption DEF Shape
<1>3. ASSUME NEW n \in DOMAIN M
      PROVE  Pos(M, n) \in 0 .. ItemBits /\ \A s \in Sides : Link(M, n, s) \in DOMAIN M \cup {Null}
  <2>1. M[n] \in [link : [Sides -> DOMAIN M \cup {Null}], position : 0 .. ItemBits]
    BY DEF Shape
  <2>2. M[n].link \in [Sides -> DOMAIN M \cup {Null}] /\ M[n].position \in 0 .. ItemBits
    BY <2>1
  <2> QED
    BY <2>2 DEF Pos, Link
<1>4. ASSUME NEW n \in DOMAIN M PROVE size(n) \in Nat /\ size(n) >= ItemBits
  BY <1>2, Sizes
<1> QED
  BY <1>1, <1>2, <1>3, <1>4

\* What holds of a node when it holds of all nodes of higher positions holds of
\* all nodes.
LEMMA FromBelow ==
  ASSUME NEW M, NEW r, Shape(M, r), NEW T,
         \A n \in DOMAIN M : (\A m \in DOMAIN M : Pos(M, m) > Pos(M, n) => m \in T) => n \in T
  PROVE  \A n \in DOMAIN M : n \in T
<1> DEFINE S == {i \in Nat : \A n \in DOMAIN M : ItemBits - Pos(M, n) <= i => n \in T}
<1>0. ItemBits \in Nat /\ \A n \in DOMAIN M : Pos(M, n) \in Nat /\ Pos(M, n) <= ItemBits
  BY ShapeIs
<1>1. 0 \in S
  <2> SUFFICES ASSUME NEW n \in DOMAIN M, ItemBits - Pos(M, n) <= 0 PROVE n \in T
    OBVIOUS
  <2>1. \A m \in DOMAIN M : ~ (Pos(M, m) > Pos(M, n))
    BY <1>0
  <2> QED
    BY <2>1
<1>2. ASSUME NEW i \in Nat, i \in S PROVE i + 1 \in S
  <2> SUFFICES ASSUME NEW n \in DOMAIN M, ItemBits - Pos(M, n) <= i + 1 PROVE n \in T
    OBVIOUS
  <2>1. \A m \in DOMAIN M : Pos(M, m) > Pos(M, n) => m \in T
    BY <1>0, <1>2
  <2> QED
    BY <2>1
<1>3. \A i \in Nat : i \in S
  <2> HIDE DEF S
  <2> QED
    BY <1>1, <1>2, NoGap
<1>4. ItemBits \in S
  BY <1>0, <1>3
<1> QED
  BY <1>0, <1>4

-----------------------------------------------------------------------------
(* The search is the recursion that look_up writes.                        *)

SearchStep(k, stops, f, node) ==
  IF position(node) >= size(k)
    THEN <<node, IF node = root_node THEN Null ELSE node>>
    ELSE LET next == memory[node].link[Side(memory, node, k)]
         IN  IF LeadsBack(node, next) \/ <<node, next>> \in stops
               THEN <<node, next>> ELSE f[next]

Search(k, stops) == CHOOSE f : f = [node \in DOMAIN memory |-> SearchStep(k, stops, f, node)]

LEMMA LookUpIs ==
  ASSUME NEW k, NEW stops
  PROVE  look_up(k, stops) = IF root_node = Null THEN <<Null, Null>>
                             ELSE Search(k, stops)[root_node]
  BY Zenon DEF look_up, Search, SearchStep

LEMMA SearchExists ==
  ASSUME Shape(memory, root_node), NEW k \in Key, NEW stops
  PROVE  /\ DOMAIN Search(k, stops) = DOMAIN memory
         /\ \A n \in DOMAIN memory :
              Search(k, stops)[n] = SearchStep(k, stops, Search(k, stops), n)
<1> DEFINE D == DOMAIN memory
           R == D \X (D \cup {Null})
           G == [f \in [D -> R] |-> [n \in D |-> SearchStep(k, stops, f, n)]]
           rank == [n \in D |-> Pos(memory, n)]
<1>0. /\ ItemBits \in Nat
      /\ \A n \in D : Pos(memory, n) \in 0 .. ItemBits
      /\ \A n \in D, s \in Sides : Link(memory, n, s) \in D \cup {Null}
  BY ShapeIs
<1>a. ASSUME NEW f \in [D -> R], NEW n \in D PROVE SearchStep(k, stops, f, n) \in R
  <2> DEFINE next == memory[n].link[Side(memory, n, k)]
  <2>1. next \in D \cup {Null}
    BY <1>0, SidesTwo DEF Link, Side
  <2>2. ~ LeadsBack(n, next) => next \in D
    BY <2>1 DEF LeadsBack
  <2> HIDE DEF next, D
  <2>3. SearchStep(k, stops, f, n) = IF position(n) >= size(k)
          THEN <<n, IF n = root_node THEN Null ELSE n>>
          ELSE IF LeadsBack(n, next) \/ <<n, next>> \in stops THEN <<n, next>> ELSE f[next]
    BY Zenon DEF SearchStep, next
  <2> QED
    BY <2>1, <2>2, <2>3
<1>b. ASSUME NEW f \in [D -> R], NEW g \in [D -> R], NEW n \in D,
             \A m \in D : rank[m] > rank[n] => f[m] = g[m]
      PROVE  SearchStep(k, stops, f, n) = SearchStep(k, stops, g, n)
  <2> DEFINE next == memory[n].link[Side(memory, n, k)]
  <2>1. next \in D \cup {Null}
    BY <1>0, SidesTwo DEF Link, Side
  <2>2. ~ LeadsBack(n, next) => f[next] = g[next]
    <3> SUFFICES ASSUME ~ LeadsBack(n, next) PROVE f[next] = g[next]
      OBVIOUS
    <3>1. next \in D /\ ~ (position(next) <= position(n))
      BY <2>1 DEF LeadsBack
    <3>2. rank[next] > rank[n]
      BY <3>1, <1>0 DEF position, Pos
    <3> QED
      BY <3>1, <3>2, <1>b
  <2> HIDE DEF next
  <2>3. SearchStep(k, stops, f, n) = IF position(n) >= size(k)
          THEN <<n, IF n = root_node THEN Null ELSE n>>
          ELSE IF LeadsBack(n, next) \/ <<n, next>> \in stops THEN <<n, next>> ELSE f[next]
    BY Zenon DEF SearchStep, next
  <2>4. SearchStep(k, stops, g, n) = IF position(n) >= size(k)
          THEN <<n, IF n = root_node THEN Null ELSE n>>
          ELSE IF LeadsBack(n, next) \/ <<n, next>> \in stops THEN <<n, next>> ELSE g[next]
    BY Zenon DEF SearchStep, next
  <2> QED
    BY <2>2, <2>3, <2>4
<1>1. Descends(D, R, G, rank, ItemBits)
  <2>1. G \in [[D -> R] -> [D -> R]]
    BY <1>a
  <2>2. rank \in [D -> 0 .. ItemBits]
    BY <1>0
  <2>3. ASSUME NEW f \in [D -> R], NEW g \in [D -> R], NEW n \in D,
               \A m \in D : rank[m] > rank[n] => f[m] = g[m]
        PROVE  G[f][n] = G[g][n]
    BY <2>3, <1>b
  <2> HIDE DEF G, rank
  <2> QED
    BY <2>1, <2>2, <2>3 DEF Descends
<1>2. \E f : f = [n \in D |-> SearchStep(k, stops, f, n)]
  <2>1. CASE D = {}
    <3>1. \A h : [n \in D |-> SearchStep(k, stops, h, n)] = [n \in {} |-> Null]
      BY <2>1
    <3> DEFINE e == [n \in {} |-> Null]
    <3>2. e = [n \in D |-> SearchStep(k, stops, e, n)]
      BY <3>1
    <3> QED
      BY <3>2
  <2>2. CASE D # {}
    <3>0. PICK d \in D : TRUE
      BY <2>2
    <3>1. PICK r : r \in R
      <4>1. <<d, d>> \in R
        BY <3>0
      <4> QED
        BY <4>1, Zenon
    <3>2. PICK f \in [D -> R] : f = G[f]
      <4> HIDE DEF G, rank, R, D
      <4> QED
        BY <1>1, <3>1, <1>0, Fixpoint
    <3>3. f = [n \in D |-> SearchStep(k, stops, f, n)]
      BY <3>2
    <3> QED
      BY <3>3
  <2> QED
    BY <2>1, <2>2
<1>3. Search(k, stops) = [n \in DOMAIN memory |-> SearchStep(k, stops, Search(k, stops), n)]
  BY <1>2, Zenon DEF Search
<1> QED
  <2> DEFINE f == Search(k, stops)
  <2>1. f = [n \in DOMAIN memory |-> SearchStep(k, stops, f, n)]
    BY <1>3
  <2> HIDE DEF f
  <2>2. DOMAIN f = DOMAIN memory /\ \A n \in DOMAIN memory : f[n] = SearchStep(k, stops, f, n)
    BY <2>1
  <2> QED
    BY <2>2 DEF f


\* What a search does at n, when next is where the link goes.
Here(k, stops, n, next) ==
  /\ Pos(memory, n) >= size(k) =>
       Search(k, stops)[n] = <<n, IF n = root_node THEN Null ELSE n>>
  /\ Pos(memory, n) < size(k) =>
       /\ \/ next = Null \/ Pos(memory, next) <= Pos(memory, n) \/ <<n, next>> \in stops
          => Search(k, stops)[n] = <<n, next>>
       /\ next # Null /\ Pos(memory, next) > Pos(memory, n) /\ <<n, next>> \notin stops
          => Search(k, stops)[n] = Search(k, stops)[next]

LEMMA SearchHere ==
  ASSUME Shape(memory, root_node), NEW k \in Key, NEW stops, NEW n \in DOMAIN memory,
         NEW next, next = Link(memory, n, Toward(k, Pos(memory, n)))
  PROVE  Here(k, stops, n, next)
<1>1. Search(k, stops)[n] = SearchStep(k, stops, Search(k, stops), n)
  BY SearchExists
<1>2. position(n) = Pos(memory, n) /\ memory[n].link[Side(memory, n, k)] = next
  BY DEF position, Pos, Link, Side
<1>3. Pos(memory, n) \in Nat /\ size(k) \in Nat /\ next \in DOMAIN memory \cup {Null}
  BY ShapeIs, Sizes, SidesTwo
<1>4. next # Null => Pos(memory, next) \in Nat
  BY <1>3, ShapeIs
<1>5. LeadsBack(n, next) <=> next = Null \/ Pos(memory, next) <= Pos(memory, n)
  BY Zenon DEF LeadsBack, position, Pos
<1>6. SearchStep(k, stops, Search(k, stops), n) =
        IF Pos(memory, n) >= size(k) THEN <<n, IF n = root_node THEN Null ELSE n>>
        ELSE IF LeadsBack(n, next) \/ <<n, next>> \in stops
               THEN <<n, next>> ELSE Search(k, stops)[next]
  BY <1>2, Zenon DEF SearchStep
<1>7. CASE Pos(memory, n) >= size(k)
  BY <1>1, <1>3, <1>6, <1>7 DEF Here
<1>8. CASE Pos(memory, n) < size(k)
  <2>1. ~ (Pos(memory, n) >= size(k))
    BY <1>3, <1>8
  <2>2. Search(k, stops)[n] = IF LeadsBack(n, next) \/ <<n, next>> \in stops
               THEN <<n, next>> ELSE Search(k, stops)[next]
    BY <2>1, <1>1, <1>6
  <2>3. next # Null /\ Pos(memory, next) > Pos(memory, n) => ~ LeadsBack(n, next)
    BY <1>3, <1>4, <1>5
  <2> QED
    BY <2>1, <2>2, <2>3, <1>5 DEF Here
<1> QED
  BY <1>3, <1>7, <1>8

LEMMA SearchEnds ==
  ASSUME Shape(memory, root_node), NEW k \in Key, NEW stops, NEW n \in DOMAIN memory,
         Pos(memory, n) >= size(k)
  PROVE  Search(k, stops)[n] = <<n, IF n = root_node THEN Null ELSE n>>
<1>1. PICK next : next = Link(memory, n, Toward(k, Pos(memory, n)))
  OBVIOUS
<1>2. Here(k, stops, n, next)
  BY <1>1, SearchHere
<1> QED
  BY <1>2 DEF Here

LEMMA SearchStops ==
  ASSUME Shape(memory, root_node), NEW k \in Key, NEW stops, NEW n \in DOMAIN memory,
         Pos(memory, n) < size(k),
         NEW next, next = Link(memory, n, Toward(k, Pos(memory, n))),
         next = Null \/ Pos(memory, next) <= Pos(memory, n) \/ <<n, next>> \in stops
  PROVE  Search(k, stops)[n] = <<n, next>>
<1>1. Here(k, stops, n, next)
  BY SearchHere
<1> QED
  BY <1>1 DEF Here

LEMMA SearchGoes ==
  ASSUME Shape(memory, root_node), NEW k \in Key, NEW stops, NEW n \in DOMAIN memory,
         Pos(memory, n) < size(k),
         NEW next, next = Link(memory, n, Toward(k, Pos(memory, n))),
         next # Null, Pos(memory, next) > Pos(memory, n), <<n, next>> \notin stops
  PROVE  Search(k, stops)[n] = Search(k, stops)[next]
<1>1. Here(k, stops, n, next)
  BY SearchHere
<1> QED
  BY <1>1 DEF Here

\* The search ends at a node.
LEMMA SearchIn ==
  ASSUME Shape(memory, root_node), NEW k \in Key, NEW stops, NEW node \in DOMAIN memory
  PROVE  \E n \in DOMAIN memory, c \in DOMAIN memory \cup {Null} : Search(k, stops)[node] = <<n, c>>
<1> DEFINE D == DOMAIN memory
           In(n) == \E m \in D, c \in D \cup {Null} : Search(k, stops)[n] = <<m, c>>
           T == {n \in D : In(n)}
<1>0. /\ ItemBits \in Nat
      /\ \A n \in D : Pos(memory, n) \in Nat /\ Pos(memory, n) <= ItemBits
      /\ \A n \in D, s \in Sides : Link(memory, n, s) \in D \cup {Null}
  BY ShapeIs
<1>1. ASSUME NEW n \in D,
             \A m \in D : Pos(memory, m) > Pos(memory, n) => In(m)
      PROVE  In(n)
  <2> DEFINE next == Link(memory, n, Toward(k, Pos(memory, n)))
  <2>1. next \in D \cup {Null}
    BY <1>0, SidesTwo
  <2>2. size(k) \in Nat
    BY Sizes
  <2> HIDE DEF next
  <2>3. \/ \E c \in D \cup {Null} : Search(k, stops)[n] = <<n, c>>
        \/ next \in D /\ Pos(memory, next) > Pos(memory, n) /\ Search(k, stops)[n] = Search(k, stops)[next]
    <3>1. CASE Pos(memory, n) >= size(k)
      <4>1. Search(k, stops)[n] = <<n, IF n = root_node THEN Null ELSE n>>
        BY <3>1, SearchEnds
      <4> QED
        BY <4>1
    <3>2. CASE Pos(memory, n) < size(k)
      <4>1. /\ \/ next = Null \/ Pos(memory, next) <= Pos(memory, n) \/ <<n, next>> \in stops
               => Search(k, stops)[n] = <<n, next>>
            /\ next # Null /\ Pos(memory, next) > Pos(memory, n) /\ <<n, next>> \notin stops
               => Search(k, stops)[n] = Search(k, stops)[next]
        BY <3>2, SearchStops, SearchGoes DEF next
      <4>2. next # Null => Pos(memory, next) \in Nat
        BY <2>1, <1>0
      <4> QED
        BY <4>1, <4>2, <2>1, <1>0
    <3> QED
      BY <3>1, <3>2, <2>2, <1>0
  <2> QED
    BY <2>3, <1>1
<1>2. \A n \in D : (\A m \in D : Pos(memory, m) > Pos(memory, n) => m \in T) => n \in T
  <2> HIDE DEF In
  <2> QED
    BY <1>1
<1>3. \A n \in D : n \in T
  <2> HIDE DEF T
  <2> QED
    BY <1>2, FromBelow
<1> QED
  BY <1>3

\* Below a node that the search for k meets, towards another one that it meets
\* further down, is a node that it meets.
LEMMA WayDown ==
  ASSUME NEW M, NEW r, Shape(M, r), Linking(M), NEW k \in Key,
         NEW m \in DOMAIN M, NEW n \in DOMAIN M, Way(M, k, m), Way(M, k, n), Pos(M, m) < Pos(M, n),
         NEW s, s = Toward(k, Pos(M, m)), NEW c, c = Link(M, m, s)
  PROVE  /\ Pos(M, m) < size(m) /\ Pos(M, m) < ItemBits
         /\ n \in Group(M, m, s)
         /\ c \in DOMAIN M /\ Below(M, m, s, c) /\ Pos(M, c) <= Pos(M, n) /\ Way(M, k, c)
<1>0. /\ ItemBits \in Nat
      /\ \A x \in DOMAIN M : Pos(M, x) \in Nat /\ Pos(M, x) <= ItemBits /\ size(x) \in Nat /\ size(x) >= ItemBits
      /\ \A x \in DOMAIN M, t \in Sides : Link(M, x, t) \in DOMAIN M \cup {Null}
      /\ \A x \in DOMAIN M : x # Null
  BY ShapeIs
<1>1. Pos(M, m) < size(m) /\ Pos(M, m) < ItemBits
  BY <1>0
<1>2. n \in Group(M, m, s)
  <2>1. Agree(k, n, Pos(M, n)) /\ Agree(k, m, Pos(M, m))
    BY DEF Way
  <2>2. Agree(n, k, Pos(M, m)) /\ Toward(n, Pos(M, m)) = s
    <3>1. Agree(n, k, Pos(M, n))
      BY <2>1, <1>0, AgreeIs
    <3>2. Pos(M, m) \in Nat /\ Pos(M, n) \in Nat
      BY <1>0
    <3> QED
      BY <3>1, <3>2, AgreeIs
  <2>3. Agree(n, m, Pos(M, m))
    BY <2>1, <2>2, <1>0, AgreeIs
  <2> QED
    BY <2>2, <2>3 DEF Group, Way
<1>3. s \in Sides /\ c \in DOMAIN M \cup {Null}
  BY <1>0, SidesTwo
<1>4. Leads(M, m, s)
  BY <1>1, <1>3 DEF Linking
<1>5. c # Null
  BY <1>2, <1>4 DEF Leads
<1>6. ~ (Pos(M, c) <= Pos(M, m))
  <2> SUFFICES ASSUME Pos(M, c) <= Pos(M, m) PROVE FALSE
    OBVIOUS
  <2>1. n = c
    BY <1>2, <1>4, <1>5 DEF Leads
  <2> QED
    BY <2>1, <1>0
<1>7. c \in DOMAIN M /\ Pos(M, c) \in Nat
  BY <1>0, <1>3, <1>5
<1>8. Below(M, m, s, c)
  <2>1. Pos(M, c) > Pos(M, m)
    BY <1>6, <1>7, <1>0
  <2> QED
    BY <2>1, <1>4, <1>5 DEF Leads
<1>9. Way(M, n, c) /\ Pos(M, n) >= Pos(M, c)
  BY <1>0, <1>2, <1>8 DEF Below
<1>10. Way(M, k, c)
  <2>1. Agree(k, n, Pos(M, c)) /\ Agree(n, c, Pos(M, c))
    <3>1. Agree(k, n, Pos(M, n)) /\ Pos(M, c) <= Pos(M, n) /\ Pos(M, c) \in Nat /\ Pos(M, n) \in Nat
      BY <1>0, <1>7, <1>9 DEF Way
    <3> QED
      BY <3>1, <1>9, AgreeIs DEF Way
  <2> QED
    BY <2>1, <1>7, AgreeIs DEF Way
<1> QED
  BY <1>0, <1>1, <1>2, <1>7, <1>8, <1>9, <1>10


\* No link from a node that the search for k meets, as far as n, is a stop.
Unstopped(k, stops, n) ==
  \A m, c \in DOMAIN memory :
    Way(memory, k, m) /\ Way(memory, k, c) /\ Pos(memory, c) <= Pos(memory, n) => <<m, c>> \notin stops

\* The search for k comes to every node of its way, unless it is stopped.
LEMMA SearchComes ==
  ASSUME Shape(memory, root_node), Distinct(memory), Linking(memory),
         NEW k \in Key, NEW stops, NEW n \in DOMAIN memory, Way(memory, k, n), Unstopped(k, stops, n),
         NEW m \in DOMAIN memory, Way(memory, k, m), Pos(memory, m) <= Pos(memory, n)
  PROVE  Search(k, stops)[m] = Search(k, stops)[n]
<1> DEFINE D == DOMAIN memory
           F == Search(k, stops)
           Near(x, i) == Way(memory, k, x) /\ Pos(memory, x) <= Pos(memory, n) /\ Pos(memory, n) - Pos(memory, x) <= i
           S == {i \in Nat : \A x \in D : Near(x, i) => F[x] = F[n]}
<1>0. /\ ItemBits \in Nat
      /\ \A x \in D : Pos(memory, x) \in Nat /\ Pos(memory, x) <= ItemBits /\ x # Null
  BY ShapeIs
<1>1. ASSUME NEW x \in D, Way(memory, k, x), Pos(memory, x) = Pos(memory, n) PROVE x = n
  <2>1. Agree(x, k, Pos(memory, x)) /\ Agree(k, n, Pos(memory, x))
    BY <1>0, <1>1, AgreeIs DEF Way
  <2>2. Way(memory, x, n)
    BY <1>0, <1>1, <2>1, AgreeIs DEF Way
  <2> QED
    BY <1>1, <2>2 DEF Distinct
<1>2. ASSUME NEW x \in D, Way(memory, k, x), Pos(memory, x) < Pos(memory, n)
      PROVE  \E c \in D : /\ Way(memory, k, c) /\ Pos(memory, c) > Pos(memory, x)
                          /\ Pos(memory, c) <= Pos(memory, n) /\ F[x] = F[c]
  <2> DEFINE s == Toward(k, Pos(memory, x))
             c == Link(memory, x, s)
  <2>1. /\ Pos(memory, x) < ItemBits
        /\ c \in D /\ Below(memory, x, s, c) /\ Pos(memory, c) <= Pos(memory, n) /\ Way(memory, k, c)
    BY <1>2, WayDown
  <2>2. Pos(memory, c) > Pos(memory, x)
    BY <2>1 DEF Below
  <2>3. <<x, c>> \notin stops
    BY <1>2, <2>1 DEF Unstopped
  <2>4. Pos(memory, x) < size(k)
    BY <2>1, <1>0, Sizes
  <2>5. F[x] = F[c]
    BY <2>1, <2>2, <2>3, <2>4, <1>0, SearchGoes
  <2> QED
    BY <2>1, <2>2, <2>5
<1>3. 0 \in S
  <2> SUFFICES ASSUME NEW x \in D, Near(x, 0) PROVE F[x] = F[n]
    BY Zenon
  <2>1. Pos(memory, x) = Pos(memory, n)
    BY <1>0
  <2> QED
    BY <1>1, <2>1
<1>4. ASSUME NEW i \in Nat, i \in S PROVE i + 1 \in S
  <2> SUFFICES ASSUME NEW x \in D, Near(x, i + 1) PROVE F[x] = F[n]
    OBVIOUS
  <2>1. CASE Pos(memory, x) = Pos(memory, n)
    BY <1>1, <2>1
  <2>2. CASE Pos(memory, x) < Pos(memory, n)
    <3>1. PICK c \in D : /\ Way(memory, k, c) /\ Pos(memory, c) > Pos(memory, x)
                         /\ Pos(memory, c) <= Pos(memory, n) /\ F[x] = F[c]
      BY <1>2, <2>2
    <3>2. Near(c, i)
      BY <1>0, <3>1
    <3>3. F[c] = F[n]
      <4> HIDE DEF Near
      <4> QED
        BY <1>4, <3>2
    <3> QED
      BY <3>1, <3>3
  <2> QED
    BY <1>0, <2>1, <2>2
<1>5. \A i \in Nat : i \in S
  <2> HIDE DEF S
  <2> QED
    BY <1>3, <1>4, NoGap
<1>6. Near(m, ItemBits)
  BY <1>0
<1>7. ItemBits \in S
  BY <1>5, <1>0
<1> QED
  <2> HIDE DEF Near, F
  <2>1. F[m] = F[n]
    BY <1>6, <1>7
  <2> QED
    BY <2>1 DEF F

\* The search for a key that is there finds it.
LEMMA SearchFinds ==
  ASSUME DifferFirst, Shape(memory, root_node), Distinct(memory), Linking(memory),
         NEW k \in DOMAIN memory
  PROVE  Search(k, {})[root_node][2] = k
<1> DEFINE D == DOMAIN memory
           F == Search(k, {})
           Met(x) == Way(memory, k, x) /\ Pos(memory, x) >= Pos(memory, k)
           T == {x \in D : Met(x) => F[x][2] = k}
<1>0. /\ ItemBits \in Nat /\ k \in Key
      /\ \A x \in D : /\ Pos(memory, x) \in Nat /\ Pos(memory, x) <= ItemBits
                      /\ x \in Key /\ x # Null /\ size(x) \in Nat /\ size(x) >= ItemBits
      /\ \A x \in D, s \in Sides : Link(memory, x, s) \in D \cup {Null}
  BY ShapeIs
<1>r. root_node \in D /\ Pos(memory, root_node) = 0
  BY DEF Shape
<1>i. ItemBits >= 1
  BY <1>0, Sizes
<1>1. ASSUME NEW x \in D, Met(x), \A y \in D : Met(y) /\ Pos(memory, y) > Pos(memory, x) => F[y][2] = k
      PROVE  F[x][2] = k
  <2>1. CASE Pos(memory, x) >= size(k)
    <3>1. Pos(memory, x) = ItemBits
      BY <1>0, <2>1
    <3>2. x = k
      BY <1>0, <1>1, <3>1, OneKey DEF Way
    <3>3. x # root_node
      BY <1>r, <1>i, <3>1
    <3>4. F[x] = <<x, IF x = root_node THEN Null ELSE x>>
      BY <2>1, <1>0, SearchEnds
    <3> QED
      BY <3>2, <3>3, <3>4
  <2>2. CASE Pos(memory, x) < size(k)
    <3> DEFINE s == Toward(k, Pos(memory, x))
               c == Link(memory, x, s)
    <3>1. k \in Group(memory, x, s)
      BY <1>1 DEF Group
    <3>2. Pos(memory, x) < size(x)
      <4>1. CASE Pos(memory, x) < ItemBits
        BY <4>1, <1>0
      <4>2. CASE Pos(memory, x) = ItemBits
        <5>1. x = k
          BY <1>0, <1>1, <4>2, OneKey DEF Way
        <5> QED
          BY <5>1, <2>2
      <4> QED
        BY <4>1, <4>2, <1>0
    <3>3. Leads(memory, x, s) /\ s \in Sides /\ c \in D \cup {Null}
      BY <3>2, <1>0, SidesTwo DEF Linking
    <3>4. c # Null /\ c \in D
      BY <3>1, <3>3 DEF Leads
    <3>5. CASE Pos(memory, c) <= Pos(memory, x)
      <4>1. c = k
        BY <3>1, <3>3, <3>4, <3>5 DEF Leads
      <4>2. F[x] = <<x, c>>
        <5>1. k \in Key /\ x \in DOMAIN memory
          BY <1>0
        <5> QED
          BY <5>1, <2>2, <3>5, SearchStops
      <4> QED
        BY <4>1, <4>2
    <3>6. CASE Pos(memory, c) > Pos(memory, x)
      <4>1. F[x] = F[c]
        <5>1. c # Null /\ Pos(memory, c) > Pos(memory, x) /\ <<x, c>> \notin {}
          BY <3>4, <3>6
        <5>2. k \in Key /\ x \in DOMAIN memory
          BY <1>0
        <5> QED
          BY <5>1, <5>2, <2>2, SearchGoes
      <4>2. Below(memory, x, s, c)
        BY <3>3, <3>4, <3>6 DEF Leads
      <4>3. Way(memory, k, c)
        BY <3>1, <4>2 DEF Below
      <4>4. Met(c)
        BY <4>3, <3>4, <3>6, <1>0, <1>1
      <4> HIDE DEF Met, F
      <4> QED
        BY <1>1, <3>4, <3>6, <4>1, <4>4
    <3> QED
      BY <1>0, <3>4, <3>5, <3>6
  <2>3. size(k) \in Nat
    BY <1>0
  <2> QED
    BY <1>0, <2>1, <2>2, <2>3
<1>2. \A x \in D : (\A y \in D : Pos(memory, y) > Pos(memory, x) => y \in T) => x \in T
  <2> HIDE DEF Met, F
  <2> QED
    BY <1>1
<1>3. \A x \in D : x \in T
  <2> HIDE DEF T
  <2> QED
    BY <1>2, FromBelow
<1>5. F[k][2] = k
  <2>1. Met(k)
    BY <1>0, AgreeSelf DEF Way
  <2> HIDE DEF Met, F
  <2> QED
    BY <1>3, <2>1
<1>6. F[root_node] = F[k]
  <2>1. Way(memory, k, k) /\ Way(memory, k, root_node)
    BY <1>r, AgreeSelf, AgreeNone DEF Way
  <2>2. Unstopped(k, {}, k)
    BY DEF Unstopped
  <2>3. Pos(memory, root_node) <= Pos(memory, k)
    BY <1>0, <1>r
  <2> QED
    BY <2>1, <2>2, <2>3, <1>0, <1>r, SearchComes
<1> QED
  BY <1>5, <1>6

\* contains finds the keys of the nodes.
LEMMA ContainsIs ==
  ASSUME DifferFirst, TrieInv, NEW k \in Key
  PROVE  contains(k) <=> k \in DOMAIN memory
<1>1. CASE DOMAIN memory = {}
  <2>1. root_node = Null
    BY <1>1 DEF TrieInv, Shape
  <2>2. look_up(k, {}) = <<Null, Null>>
    BY <2>1, LookUpIs
  <2> QED
    BY <1>1, <2>2, ConstantsAssumption DEF contains
<1>2. CASE DOMAIN memory # {}
  <2>1. root_node \in DOMAIN memory /\ root_node # Null
    BY <1>2, ConstantsAssumption DEF TrieInv, Shape
  <2>2. look_up(k, {}) = Search(k, {})[root_node]
    BY <2>1, LookUpIs
  <2>3. k \in DOMAIN memory => look_up(k, {})[2] = k
    BY <2>2, SearchFinds DEF TrieInv
  <2>4. PICK n \in DOMAIN memory, c \in DOMAIN memory \cup {Null} : Search(k, {})[root_node] = <<n, c>>
    BY <2>1, SearchIn DEF TrieInv
  <2>5. look_up(k, {})[2] \in DOMAIN memory \cup {Null}
    BY <2>2, <2>4
  <2>6. k # Null
    BY ConstantsAssumption
  <2> QED
    BY <2>3, <2>5, <2>6 DEF contains
<1> QED
  BY <1>1, <1>2


-----------------------------------------------------------------------------
(* What an insert finds.                                                   *)

\* m has the longest common prefix with k among the keys that go through n.
Longest(M, k, n, m) ==
  /\ m \in DOMAIN M /\ Way(M, m, n)
  /\ \A x \in DOMAIN M, j \in Nat : Way(M, x, n) /\ Agree(x, k, j) => Agree(m, k, j)

Found(k, n) ==
  LET pair == Search(k, {})[n] IN IF pair[2] = Null THEN pair[1] ELSE pair[2]

LEMMA FoundBy ==
  ASSUME NEW k, NEW n, NEW m, NEW c, Search(k, {})[n] = <<m, c>>
  PROVE  Found(k, n) = IF c = Null THEN m ELSE c
  BY DEF Found

LEMMA LongestFound ==
  ASSUME DifferFirst, Shape(memory, root_node), Linking(memory), NEW k \in Key
  PROVE  \A n \in DOMAIN memory : Longest(memory, k, n, Found(k, n))
<1> DEFINE D == DOMAIN memory
           T == {n \in D : Longest(memory, k, n, Found(k, n))}
<1>0. /\ ItemBits \in Nat /\ ItemBits >= 1
      /\ \A x \in D : /\ Pos(memory, x) \in Nat /\ Pos(memory, x) <= ItemBits
                      /\ x \in Key /\ x # Null /\ size(x) \in Nat /\ size(x) >= ItemBits
      /\ \A x \in D, s \in Sides : Link(memory, x, s) \in D \cup {Null}
  BY ShapeIs, Sizes
<1>r. \A n \in D : root_node \in D /\ Pos(memory, root_node) = 0
  BY DEF Shape
<1>k. size(k) \in Nat /\ size(k) >= ItemBits
  BY Sizes
<1>a. \A x, y : Way(memory, x, y) <=> Agree(x, y, Pos(memory, y))
  BY DEF Way
<1>1. ASSUME NEW n \in D, \A m \in D : Pos(memory, m) > Pos(memory, n) => Longest(memory, k, m, Found(k, m))
      PROVE  Longest(memory, k, n, Found(k, n))
  <2> DEFINE s == Toward(k, Pos(memory, n))
             c == Link(memory, n, s)
  <2>1. c \in D \cup {Null} /\ s \in Sides
    BY <1>0, SidesTwo
  <2>2. ASSUME NEW x \in D, NEW j \in Nat, Way(memory, x, n), Agree(x, k, j), j > Pos(memory, n)
        PROVE  x \in Group(memory, n, s)
    <3>1. Toward(x, Pos(memory, n)) = s
      BY <1>0, <2>2, AgreeIs
    <3> QED
      BY <2>2, <3>1 DEF Group
  <2>3. ASSUME NEW x \in D, NEW y \in D, NEW j \in Nat, Way(memory, x, n), Way(memory, y, n),
               Agree(x, k, j), ~ (j > Pos(memory, n))
        PROVE  Agree(y, k, j)
    <3>1. Agree(y, n, Pos(memory, n)) /\ Agree(n, x, Pos(memory, n)) /\ Pos(memory, n) \in Nat
      BY <1>0, <2>3, AgreeIs DEF Way
    <3>2. Agree(y, x, Pos(memory, n))
      BY <3>1, AgreeIs
    <3>3. Agree(y, x, j)
      BY <3>1, <3>2, <2>3, AgreeIs
    <3> QED
      BY <2>3, <3>3, AgreeIs
  <2>4. Way(memory, n, n)
    BY AgreeSelf DEF Way
  <2>5. CASE Pos(memory, n) = ItemBits
    <3>1. \A x \in D : Way(memory, x, n) => x = n
      BY <1>0, <2>5, OneKey DEF Way
    <3>2. n # root_node
      BY <1>0, <1>r, <2>5
    <3>3. Found(k, n) \in D /\ Way(memory, Found(k, n), n)
      <4>1. CASE Pos(memory, n) >= size(k)
        <5>1. Search(k, {})[n] = <<n, IF n = root_node THEN Null ELSE n>>
          BY <4>1, SearchEnds
        <5>2. Search(k, {})[n] = <<n, n>>
          BY <3>2, <5>1
        <5> QED
          BY <5>2, <2>4, <1>0, FoundBy
      <4>2. CASE Pos(memory, n) < size(k) /\ Pos(memory, n) >= size(n)
        <5>1. c = Null
          BY <2>1, <4>2 DEF Linking
        <5>2. Search(k, {})[n] = <<n, c>>
          BY <4>2, <5>1, SearchStops
        <5> QED
          BY <5>1, <5>2, <2>4, FoundBy
      <4>3. CASE Pos(memory, n) < size(k) /\ Pos(memory, n) < size(n)
        <5>1. Leads(memory, n, s)
          BY <2>1, <4>3 DEF Linking
        <5>2. c = Null \/ Pos(memory, c) <= Pos(memory, n)
          BY <1>0, <2>1, <2>5
        <5>3. Search(k, {})[n] = <<n, c>>
          BY <4>3, <5>2, SearchStops
        <5>4. CASE c = Null
          BY <5>3, <5>4, <2>4, FoundBy
        <5>5. CASE c # Null
          <6>1. Group(memory, n, s) = {c}
            BY <5>1, <5>2, <5>5 DEF Leads
          <6>2. c \in D /\ Way(memory, c, n)
            BY <6>1 DEF Group
          <6> QED
            BY <5>3, <5>5, <6>2, FoundBy
        <5> QED
          BY <5>4, <5>5
      <4> QED
        BY <1>0, <1>k, <4>1, <4>2, <4>3
    <3> QED
      BY <3>1, <3>3 DEF Longest
  <2>6. CASE Pos(memory, n) < ItemBits
    <3>0. Leads(memory, n, s) /\ Pos(memory, n) < size(k)
      BY <1>0, <1>k, <2>1, <2>6 DEF Linking
    <3>1. CASE c = Null
      <4>1. Search(k, {})[n] = <<n, c>>
        BY <3>0, <3>1, SearchStops
      <4>2. Found(k, n) = n
        BY <3>1, <4>1, FoundBy
      <4>3. Group(memory, n, s) = {}
        BY <3>0, <3>1 DEF Leads
      <4>4. \A x \in D, j \in Nat : Way(memory, x, n) /\ Agree(x, k, j) => Agree(n, k, j)
        BY <2>2, <2>3, <2>4, <4>3
      <4> QED
        BY <2>4, <4>2, <4>4 DEF Longest
    <3>2. CASE c # Null /\ Pos(memory, c) <= Pos(memory, n)
      <4>1. Search(k, {})[n] = <<n, c>>
        BY <3>0, <3>2, SearchStops
      <4>2. Found(k, n) = c
        BY <3>2, <4>1, FoundBy
      <4>3. Group(memory, n, s) = {c}
        BY <3>0, <3>2 DEF Leads
      <4>4. c \in D /\ Way(memory, c, n)
        BY <4>3 DEF Group
      <4>5. \A x \in D, j \in Nat : Way(memory, x, n) /\ Agree(x, k, j) => Agree(c, k, j)
        <5> TAKE x \in D, j \in Nat
        <5> HAVE Way(memory, x, n) /\ Agree(x, k, j)
        <5>1. CASE j > Pos(memory, n)
          <6>1. x = c
            BY <2>2, <4>3, <5>1
          <6> QED
            BY <6>1
        <5>2. CASE ~ (j > Pos(memory, n))
          BY <2>3, <4>4, <5>2
        <5> QED
          BY <5>1, <5>2
      <4> QED
        BY <4>2, <4>4, <4>5 DEF Longest
    <3>3. CASE c # Null /\ Pos(memory, c) > Pos(memory, n)
      <4>0. c \in D
        BY <2>1, <3>3
      <4>1. Search(k, {})[n] = Search(k, {})[c]
        BY <3>0, <3>3, <4>0, SearchGoes, <<n, c>> \notin {}
      <4>2. Found(k, n) = Found(k, c)
        BY <4>1 DEF Found
      <4>3. Below(memory, n, s, c)
        BY <3>0, <3>3 DEF Leads
      <4>4. Longest(memory, k, c, Found(k, c))
        BY <1>1, <3>3, <4>0
      <4>5. Found(k, c) \in D /\ Way(memory, Found(k, c), n)
        <5>1. Found(k, c) \in D /\ Agree(Found(k, c), c, Pos(memory, c))
          BY <4>4 DEF Longest, Way
        <5>2. Agree(Found(k, c), c, Pos(memory, n)) /\ Agree(c, n, Pos(memory, n))
          <6>1. Agree(c, n, Pos(memory, n))
            BY <4>3 DEF Below, Group, Way
          <6>2. Agree(Found(k, c), c, Pos(memory, n))
            BY <5>1, <4>0, <3>3, <1>0, AgreeIs
          <6> QED
            BY <6>1, <6>2
        <5>3. Agree(Found(k, c), n, Pos(memory, n))
          BY <5>2, <1>0, AgreeIs
        <5> QED
          BY <5>1, <5>3 DEF Way
      <4>6. \A x \in D, j \in Nat : Way(memory, x, n) /\ Agree(x, k, j) => Agree(Found(k, c), k, j)
        <5> TAKE x \in D, j \in Nat
        <5> HAVE Way(memory, x, n) /\ Agree(x, k, j)
        <5>1. CASE j > Pos(memory, n)
          <6>1. Way(memory, x, c)
            BY <2>2, <4>3, <5>1 DEF Below
          <6> QED
            BY <6>1, <4>4 DEF Longest
        <5>2. CASE ~ (j > Pos(memory, n))
          BY <2>3, <4>5, <5>2
        <5> QED
          BY <5>1, <5>2
      <4> QED
        BY <4>2, <4>5, <4>6 DEF Longest
    <3>4. c # Null => Pos(memory, c) \in Nat
      BY <1>0, <2>1
    <3> QED
      BY <1>0, <3>1, <3>2, <3>3, <3>4
  <2> QED
    BY <1>0, <2>5, <2>6
<1>2. \A n \in D : (\A m \in D : Pos(memory, m) > Pos(memory, n) => m \in T) => n \in T
  BY <1>1
<1>3. \A n \in D : n \in T
  <2> HIDE DEF T
  <2> QED
    BY <1>2, FromBelow
<1> QED
  BY <1>3


LEMMA MatchLongest ==
  ASSUME DifferFirst, Shape(memory, root_node), Linking(memory), NEW k \in Key, DOMAIN memory # {}
  PROVE  /\ root_node \in DOMAIN memory /\ root_node # Null /\ Pos(memory, root_node) = 0
         /\ MatchOf(k) \in DOMAIN memory
         /\ \A x \in DOMAIN memory, j \in Nat : Agree(x, k, j) => Agree(MatchOf(k), k, j)
         /\ Way(memory, k, root_node)
         /\ MatchOf(k) = Found(k, root_node)
<1>1. root_node \in DOMAIN memory /\ root_node # Null /\ Pos(memory, root_node) = 0
  BY ConstantsAssumption DEF Shape
<1>2. look_up(k, {}) = Search(k, {})[root_node]
  BY <1>1, LookUpIs
<1>3. MatchOf(k) = Found(k, root_node)
  BY <1>2 DEF MatchOf, Found
<1>4. Longest(memory, k, root_node, MatchOf(k))
  BY <1>1, <1>3, LongestFound
<1>5. \A x : Way(memory, x, root_node)
  BY <1>1, AgreeNone DEF Way
<1> QED
  BY <1>1, <1>3, <1>4, <1>5 DEF Longest

\* Among some nodes there is a highest one.
LEMMA Highest ==
  ASSUME Shape(memory, root_node), NEW T, T \subseteq DOMAIN memory, T # {}
  PROVE  \E a \in T : \A m \in T : Pos(memory, m) <= Pos(memory, a)
<1> DEFINE R == {ItemBits - Pos(memory, m) : m \in T}
<1>0. ItemBits \in Nat /\ \A m \in T : Pos(memory, m) \in Nat /\ Pos(memory, m) <= ItemBits
  BY ShapeIs
<1>1. R \subseteq Nat /\ R # {}
  BY <1>0
<1>2. PICK i \in R : \A j \in R : i <= j
  <2> HIDE DEF R
  <2> QED
    BY <1>1, Least
<1>3. PICK a \in T : i = ItemBits - Pos(memory, a)
  BY <1>2
<1>4. ASSUME NEW m \in T PROVE Pos(memory, m) <= Pos(memory, a)
  <2>1. ItemBits - Pos(memory, m) \in R
    BY <1>4
  <2>2. ItemBits - Pos(memory, a) <= ItemBits - Pos(memory, m)
    BY <2>1, <1>2, <1>3
  <2> QED
    BY <2>2, <1>0
<1> QED
  BY <1>3, <1>4

\* k may be placed at bit p below node a, over next: it parts at p from all keys
\* on its side of a, and the search for k meets no node after a.
Place(M, k, a, p, s, next) ==
  /\ a \in DOMAIN M /\ Way(M, k, a)
  /\ \A n \in DOMAIN M : Way(M, k, n) => Pos(M, n) <= Pos(M, a)
  /\ p \in 0 .. ItemBits /\ Pos(M, a) < p
  /\ s = Toward(k, Pos(M, a)) /\ next = Link(M, a, s)
  /\ \A x \in Group(M, a, s) : Agree(x, k, p) /\ Toward(x, p) # Toward(k, p)
  /\ p = ItemBits => next = Null
  /\ next # Null /\ Pos(M, next) > Pos(M, a) => Pos(M, next) > p

\* Where the bit of mismatch is the position of match, k goes one below match,
\* whose link is null; elsewhere it goes at that bit.
LEMMA InsertPlace ==
  ASSUME DifferFirst, Shape(memory, root_node), Distinct(memory), Linking(memory),
         NEW k \in Key, k \notin DOMAIN memory, DOMAIN memory # {},
         NEW match, match = MatchOf(k), NEW p, p = positionOf(k, match)
  PROVE  /\ mismatch(k, match) # -1
         /\ \E a, s, next : Place(memory, k, a, p, s, next)
<1> DEFINE D == DOMAIN memory
           q == mismatch(k, match)
<1>0. /\ ItemBits \in Nat /\ ItemBits >= 1
      /\ \A x \in D : /\ Pos(memory, x) \in Nat /\ Pos(memory, x) <= ItemBits
                      /\ x \in Key /\ x # Null /\ size(x) \in Nat /\ size(x) >= ItemBits
      /\ \A x \in D, s \in Sides : Link(memory, x, s) \in D \cup {Null}
  BY ShapeIs, Sizes
<1>1. /\ root_node \in D /\ match \in D
      /\ \A x \in D, j \in Nat : Agree(x, k, j) => Agree(match, k, j)
      /\ Way(memory, k, root_node) /\ match = Found(k, root_node)
      /\ Pos(memory, root_node) = 0
  BY MatchLongest
<1>2. q \in 0 .. ItemBits - 1 /\ Agree(k, match, q) /\ Toward(k, q) # Toward(match, q)
  <2>1. match \in Key /\ match # k
    BY <1>0, <1>1
  <2> QED
    BY <2>1, Mismatch
<1> HIDE DEF q
<1>3. q \in Nat /\ q < ItemBits /\ q # -1
  BY <1>0, <1>2
<1>4. p = IF q = Pos(memory, match) THEN q + 1 ELSE q
  BY <1>3 DEF positionOf, q, position, Pos
\* No key agrees with k beyond q.
<1>5. ASSUME NEW x \in D, NEW j \in Nat, Agree(x, k, j) PROVE j <= q
  <2>1. Agree(match, k, j)
    BY <1>1, <1>5
  <2> QED
    BY <1>2, <1>3, <2>1 DEF Agree
<1>6. ASSUME NEW n \in D, Way(memory, k, n) PROVE Pos(memory, n) <= q
  <2>1. Agree(n, k, Pos(memory, n))
    BY <1>0, <1>6, AgreeIs DEF Way
  <2> QED
    BY <1>0, <1>5, <2>1
<1>7. ASSUME NEW n \in D, Way(memory, k, n), Pos(memory, n) = q
      PROVE  Group(memory, n, Toward(k, q)) = {} /\ Link(memory, n, Toward(k, q)) = Null
  <2>1. ASSUME NEW x \in Group(memory, n, Toward(k, q)) PROVE FALSE
    <3>1. x \in D /\ Agree(x, n, q) /\ Toward(x, q) = Toward(k, q)
      BY <1>7, <2>1 DEF Group, Way
    <3>2. Agree(n, k, q)
      BY <1>3, <1>7, AgreeIs DEF Way
    <3>3. Agree(x, k, q)
      BY <1>3, <3>1, <3>2, AgreeIs
    <3>4. Agree(x, k, q + 1)
      BY <1>3, <3>1, <3>3, AgreeIs
    <3>5. q + 1 <= q
      BY <1>3, <1>5, <3>1, <3>4
    <3> QED
      BY <1>3, <3>5
  <2>2. Leads(memory, n, Toward(k, q))
    BY <1>0, <1>3, <1>7, SidesTwo DEF Linking
  <2>3. \/ Link(memory, n, Toward(k, q)) = Null
        \/ Link(memory, n, Toward(k, q)) \in Group(memory, n, Toward(k, q))
    <3>1. Link(memory, n, Toward(k, q)) \in D \cup {Null}
      BY <1>0, SidesTwo
    <3>2. \A c \in D : Pos(memory, c) <= Pos(memory, n) \/ Pos(memory, c) > Pos(memory, n)
      BY <1>0
    <3> QED
      BY <2>2, <3>1, <3>2 DEF Leads, Below
  <2> QED
    BY <2>1, <2>3
<1>8. CASE q = Pos(memory, match)
  <2>1. Way(memory, k, match)
    BY <1>2, <1>8 DEF Way
  <2>2. Group(memory, match, Toward(k, q)) = {} /\ Link(memory, match, Toward(k, q)) = Null
    BY <1>1, <1>7, <1>8, <2>1
  <2>3. p = q + 1
    BY <1>4, <1>8
  <2>4. Place(memory, k, match, p, Toward(k, q), Null)
    BY <1>0, <1>1, <1>3, <1>6, <1>8, <2>1, <2>2, <2>3 DEF Place
  <2> QED
    BY <2>4, <1>3 DEF q
<1>9. CASE q # Pos(memory, match)
  <2>0. p = q
    BY <1>4, <1>9
  <2>1. ASSUME NEW n \in D, Way(memory, k, n) PROVE Pos(memory, n) < q
    <3>1. Pos(memory, n) # q
      <4> SUFFICES ASSUME Pos(memory, n) = q PROVE FALSE
        OBVIOUS
      <4>1. Link(memory, n, Toward(k, q)) = Null
        BY <1>7, <2>1
      <4>2. Pos(memory, n) < size(k)
        BY <1>0, <1>3, Sizes
      <4>3. Search(k, {})[n] = <<n, Null>>
        BY <4>1, <4>2, SearchStops
      <4>4. Search(k, {})[root_node] = Search(k, {})[n]
        <5>1. Unstopped(k, {}, n)
          BY DEF Unstopped
        <5>2. Pos(memory, root_node) <= Pos(memory, n)
          BY <1>0, <1>1
        <5> QED
          BY <1>1, <2>1, <5>1, <5>2, SearchComes
      <4>5. match = n
        BY <1>1, <4>3, <4>4, FoundBy
      <4> QED
        BY <1>9, <4>5
    <3>2. Pos(memory, n) \in Nat
      BY <1>0
    <3> QED
      BY <1>3, <1>6, <2>1, <3>1, <3>2
  <2>2. PICK a \in D : /\ Way(memory, k, a)
                       /\ \A m \in D : Way(memory, k, m) => Pos(memory, m) <= Pos(memory, a)
    <3> DEFINE T == {m \in D : Way(memory, k, m)}
    <3>1. T \subseteq D /\ T # {}
      BY <1>1
    <3> HIDE DEF T
    <3>2. PICK b \in T : \A m \in T : Pos(memory, m) <= Pos(memory, b)
      BY <3>1, Highest
    <3> QED
      BY <3>2 DEF T
  <2> DEFINE s == Toward(k, Pos(memory, a))
             next == Link(memory, a, s)
  <2>3. Pos(memory, a) < q /\ Pos(memory, a) \in Nat
    BY <1>0, <2>1, <2>2
  <2>4. match \in Group(memory, a, s)
    <3>1. Agree(match, k, q)
      BY <1>2, <1>3, AgreeIs
    <3>2. Toward(match, Pos(memory, a)) = s /\ Agree(match, k, Pos(memory, a))
      BY <1>3, <2>3, <3>1, AgreeIs
    <3>3. Agree(k, a, Pos(memory, a))
      BY <2>2 DEF Way
    <3>4. Agree(match, a, Pos(memory, a))
      BY <2>3, <3>2, <3>3, AgreeIs
    <3> QED
      BY <1>1, <3>2, <3>4 DEF Group, Way
  <2>5. Leads(memory, a, s) /\ next \in D \cup {Null}
    BY <1>0, <1>3, <2>3, SidesTwo DEF Linking
  <2>6. next # Null
    BY <2>4, <2>5 DEF Leads
  <2>7. Agree(match, k, q)
    BY <1>2, <1>3, AgreeIs
  <2>8. CASE Pos(memory, next) <= Pos(memory, a)
    <3>1. Group(memory, a, s) = {match} /\ next = match
      BY <2>4, <2>5, <2>6, <2>8 DEF Leads
    <3>2. ~ (Pos(memory, next) > Pos(memory, a))
      BY <1>0, <1>1, <2>3, <2>8, <3>1
    <3> HIDE DEF next, s
    <3>3. s = Toward(k, Pos(memory, a)) /\ next = Link(memory, a, s)
      BY DEF next, s
    <3>4. p \in 0 .. ItemBits /\ Pos(memory, a) < p /\ p # ItemBits
      BY <1>2, <1>3, <2>0, <2>3, <1>0
    <3>5. \A x \in Group(memory, a, s) : Agree(x, k, p) /\ Toward(x, p) # Toward(k, p)
      BY <1>2, <2>0, <2>7, <3>1
    <3>6. Place(memory, k, a, p, s, next)
      BY <2>2, <3>2, <3>3, <3>4, <3>5 DEF Place
    <3> QED
      BY <3>6, <1>3 DEF q
  <2>9. CASE Pos(memory, next) > Pos(memory, a)
    <3>1. Below(memory, a, s, next) /\ next \in D
      BY <2>5, <2>6, <2>9 DEF Leads
    <3>2. Way(memory, match, next)
      BY <2>4, <3>1 DEF Below
    <3>3. Pos(memory, next) > q
      <4> SUFFICES ASSUME Pos(memory, next) <= q PROVE FALSE
        BY <1>0, <1>3, <3>1
      <4>1. Pos(memory, next) \in Nat
        BY <1>0, <3>1
      <4>2. Agree(k, match, Pos(memory, next))
        BY <1>2, <1>3, <4>1, AgreeIs
      <4>3. Way(memory, k, next)
        BY <3>2, <4>1, <4>2, AgreeIs DEF Way
      <4> QED
        BY <2>2, <2>3, <2>9, <3>1, <4>1, <4>3
    <3>4. ASSUME NEW x \in Group(memory, a, s) PROVE Agree(x, k, q) /\ Toward(x, q) # Toward(k, q)
      <4>1. Agree(x, next, Pos(memory, next)) /\ Agree(match, next, Pos(memory, next)) /\ Pos(memory, next) \in Nat
        BY <1>0, <3>1, <3>2, <3>4 DEF Below, Way
      <4>2. Agree(next, match, Pos(memory, next))
        BY <4>1, AgreeIs
      <4>3. Agree(x, match, Pos(memory, next))
        BY <4>1, <4>2, AgreeIs
      <4>4. Agree(x, match, q) /\ Toward(x, q) = Toward(match, q)
        BY <1>3, <3>3, <4>1, <4>3, AgreeIs
      <4>5. Agree(x, k, q)
        BY <1>3, <2>7, <4>4, AgreeIs
      <4> QED
        BY <1>2, <4>4, <4>5
    <3> HIDE DEF next, s
    <3>5. s = Toward(k, Pos(memory, a)) /\ next = Link(memory, a, s)
      BY DEF next, s
    <3>6. p \in 0 .. ItemBits /\ Pos(memory, a) < p /\ p # ItemBits
      BY <1>2, <1>3, <2>0, <2>3, <1>0
    <3>7. \A x \in Group(memory, a, s) : Agree(x, k, p) /\ Toward(x, p) # Toward(k, p)
      BY <2>0, <3>4
    <3>8. Pos(memory, next) > p
      BY <2>0, <3>3
    <3>9. Place(memory, k, a, p, s, next)
      BY <2>2, <3>5, <3>6, <3>7, <3>8 DEF Place
    <3> QED
      BY <3>9, <1>3 DEF q
  <2>10. Pos(memory, next) \in Nat
    BY <1>0, <2>5, <2>6
  <2> QED
    BY <2>3, <2>8, <2>9, <2>10
<1> QED
  BY <1>8, <1>9


\* The stops of the second search of insert.
Crossing(p) ==
  {n \in DOMAIN memory : position(n) <= p} \X {n \in DOMAIN memory : p < position(n)}

LEMMA InsertParent ==
  ASSUME Shape(memory, root_node), Distinct(memory), Linking(memory),
         NEW k \in Key, NEW a, NEW p, NEW s, NEW next, Place(memory, k, a, p, s, next)
  PROVE  look_up(k, Crossing(p))[1] = a
<1>0. /\ ItemBits \in Nat
      /\ \A x \in DOMAIN memory : Pos(memory, x) \in Nat
      /\ \A x \in DOMAIN memory, t \in Sides : Link(memory, x, t) \in DOMAIN memory \cup {Null}
  BY ShapeIs
<1>1. /\ a \in DOMAIN memory /\ Way(memory, k, a) /\ p \in 0 .. ItemBits /\ Pos(memory, a) < p
      /\ next = Link(memory, a, Toward(k, Pos(memory, a)))
      /\ next # Null /\ Pos(memory, next) > Pos(memory, a) => Pos(memory, next) > p
  BY DEF Place
<1>2. /\ root_node \in DOMAIN memory /\ root_node # Null /\ Pos(memory, root_node) = 0
  BY <1>1, ConstantsAssumption DEF Shape
<1>3. Unstopped(k, Crossing(p), a)
  <2> SUFFICES ASSUME NEW m \in DOMAIN memory, NEW c \in DOMAIN memory, Pos(memory, c) <= Pos(memory, a),
                      <<m, c>> \in Crossing(p)
               PROVE  FALSE
    BY DEF Unstopped
  <2>1. p < Pos(memory, c)
    BY DEF Crossing, position, Pos
  <2> QED
    BY <1>0, <1>1, <2>1
<1>4. Search(k, Crossing(p))[root_node] = Search(k, Crossing(p))[a]
  <2>1. Way(memory, k, root_node) /\ Pos(memory, root_node) <= Pos(memory, a)
    BY <1>0, <1>1, <1>2, AgreeNone DEF Way
  <2> QED
    BY <1>1, <1>2, <1>3, <2>1, SearchComes
<1>5. next = Null \/ Pos(memory, next) <= Pos(memory, a) \/ <<a, next>> \in Crossing(p)
  <2> SUFFICES ASSUME next # Null, ~ (Pos(memory, next) <= Pos(memory, a))
               PROVE  <<a, next>> \in Crossing(p)
    OBVIOUS
  <2>1. next \in DOMAIN memory /\ Pos(memory, next) \in Nat
    BY <1>0, <1>1, SidesTwo
  <2>2. Pos(memory, next) > p /\ Pos(memory, a) <= p
    BY <1>0, <1>1, <2>1
  <2> QED
    BY <1>0, <1>1, <2>1, <2>2 DEF Crossing, position, Pos
<1>6. Pos(memory, a) < size(k)
  BY <1>0, <1>1, Sizes
<1>7. Search(k, Crossing(p))[a] = <<a, next>>
  BY <1>1, <1>5, <1>6, SearchStops
<1>8. look_up(k, Crossing(p)) = <<a, next>>
  BY <1>2, <1>4, <1>7, LookUpIs
<1> QED
  BY <1>8

-----------------------------------------------------------------------------
(* An insert keeps the trie in order.                                      *)

\* N is M with k at bit p below a, over next.
Placed(M, N, k, a, p, s, next) ==
  /\ DOMAIN N = DOMAIN M \cup {k}
  /\ \A n \in DOMAIN N : N[n] \in [link : [Sides -> DOMAIN N \cup {Null}], position : 0 .. ItemBits]
  /\ \A n \in DOMAIN M : Pos(N, n) = Pos(M, n)
  /\ \A n \in DOMAIN M, t \in Sides :
       Link(N, n, t) = IF n = a /\ t = s THEN k ELSE Link(M, n, t)
  /\ Pos(N, k) = p
  /\ \A t \in Sides : Link(N, k, t) = IF p >= size(k) THEN Null
                                      ELSE IF t = Toward(k, p) THEN k ELSE next

LEMMA PlacedKeeps ==
  ASSUME NEW M, NEW N, NEW r, Shape(M, r), Distinct(M), Linking(M),
         NEW k \in Key, k \notin DOMAIN M, NEW a, NEW p, NEW s, NEW next,
         Place(M, k, a, p, s, next), Placed(M, N, k, a, p, s, next)
  PROVE  Shape(N, r) /\ Distinct(N) /\ Linking(N)
<1> DEFINE D == DOMAIN M
           E == DOMAIN N
<1>0. /\ ItemBits \in Nat
      /\ \A x \in D : /\ Pos(M, x) \in Nat /\ Pos(M, x) <= ItemBits
                      /\ x \in Key /\ x # Null /\ size(x) \in Nat /\ size(x) >= ItemBits
      /\ \A x \in D, t \in Sides : Link(M, x, t) \in D \cup {Null}
  BY ShapeIs
<1>1. /\ a \in D /\ Way(M, k, a) /\ p \in Nat /\ p <= ItemBits /\ Pos(M, a) < p
      /\ \A n \in D : Way(M, k, n) => Pos(M, n) <= Pos(M, a)
      /\ s = Toward(k, Pos(M, a)) /\ next = Link(M, a, s) /\ s \in Sides
      /\ \A x \in Group(M, a, s) : Agree(x, k, p) /\ Toward(x, p) # Toward(k, p)
      /\ p = ItemBits => next = Null
      /\ next # Null /\ Pos(M, next) > Pos(M, a) => Pos(M, next) > p
  BY <1>0, SidesTwo DEF Place
<1>2. /\ E = D \cup {k} /\ Pos(N, k) = p
      /\ \A n \in D : Pos(N, n) = Pos(M, n)
      /\ \A n \in D, t \in Sides : Link(N, n, t) = IF n = a /\ t = s THEN k ELSE Link(M, n, t)
      /\ \A t \in Sides : Link(N, k, t) = IF p >= size(k) THEN Null
                                          ELSE IF t = Toward(k, p) THEN k ELSE next
  BY DEF Placed
<1>3. k # Null /\ k # a /\ size(k) \in Nat /\ size(k) >= ItemBits
  BY <1>1, ConstantsAssumption, Sizes
<1>4. Leads(M, a, s) /\ next \in D \cup {Null} /\ Pos(M, a) < size(a)
  BY <1>0, <1>1 DEF Linking
<1>5. p >= size(k) => next = Null
  BY <1>0, <1>1, <1>3
<1>6. \A x \in E, n \in D : Way(N, x, n) <=> Way(M, x, n)
  BY <1>2 DEF Way
<1>7. ASSUME NEW n \in D, NEW t \in Sides
      PROVE  Group(N, n, t) = Group(M, n, t) \cup
                              (IF Way(M, k, n) /\ Toward(k, Pos(M, n)) = t THEN {k} ELSE {})
  BY <1>2, <1>6 DEF Group
<1>8. Shape(N, r)
  <2>1. \A n \in E : N[n] \in [link : [Sides -> E \cup {Null}], position : 0 .. ItemBits]
    BY DEF Placed
  <2>2. r \in D /\ Pos(M, r) = 0 /\ D \subseteq Key
    BY <1>1 DEF Shape
  <2> QED
    BY <1>2, <2>1, <2>2 DEF Shape
<1>9. Distinct(N)
  <2>1. ASSUME NEW y \in D, p = Pos(M, y) PROVE ~ Agree(k, y, p)
    <3> SUFFICES ASSUME Agree(k, y, p) PROVE FALSE
      OBVIOUS
    <3>1. Way(M, k, y)
      BY <2>1 DEF Way
    <3> QED
      BY <1>0, <1>1, <2>1, <3>1
  <2> SUFFICES ASSUME NEW x \in E, NEW y \in E, Pos(N, x) = Pos(N, y), Way(N, x, y), x # y
               PROVE  FALSE
    BY DEF Distinct
  <2>2. CASE x \in D /\ y \in D
    BY <2>2, <1>2, <1>6 DEF Distinct
  <2>3. CASE x = k /\ y \in D
    BY <1>2, <2>1, <2>3 DEF Way
  <2>4. CASE x \in D /\ y = k
    <3>1. Agree(x, k, p) /\ Pos(M, x) = p
      BY <1>2, <2>4 DEF Way
    <3>2. Agree(k, x, p)
      BY <1>1, <3>1, AgreeIs
    <3> QED
      BY <2>1, <2>4, <3>1, <3>2
  <2> QED
    BY <1>2, <2>2, <2>3, <2>4
\* At the new node.
<1>10. ASSUME NEW t \in Sides, p < size(k) PROVE Leads(N, k, t)
  <2>1. Group(N, k, Toward(k, p)) = {k}
    <3>1. k \in Group(N, k, Toward(k, p))
      BY <1>2, AgreeSelf DEF Group, Way
    <3>2. ASSUME NEW x \in Group(N, k, Toward(k, p)), x # k PROVE FALSE
      <4>1. x \in D /\ Agree(x, k, p) /\ Toward(x, p) = Toward(k, p)
        BY <1>2, <3>2 DEF Group, Way
      <4>2. x \in Group(M, a, s)
        <5>1. Agree(x, k, Pos(M, a)) /\ Toward(x, Pos(M, a)) = s /\ Pos(M, a) \in Nat
          BY <1>0, <1>1, <4>1, AgreeIs
        <5>2. Agree(x, a, Pos(M, a))
          BY <1>1, <5>1, AgreeIs DEF Way
        <5> QED
          BY <4>1, <5>1, <5>2 DEF Group, Way
      <4> QED
        BY <1>1, <4>1, <4>2
    <3> QED
      BY <3>1, <3>2
  <2>2. CASE t = Toward(k, p)
    <3>1. Link(N, k, t) = k
      BY <1>0, <1>1, <1>2, <1>3, <1>10, <2>2
    <3> QED
      BY <1>1, <1>2, <1>3, <2>1, <2>2, <3>1 DEF Leads
  <2>3. CASE t # Toward(k, p)
    <3>1. Link(N, k, t) = next
      BY <1>0, <1>1, <1>2, <1>3, <1>10, <2>3
    <3>2. Group(N, k, t) = Group(M, a, s)
      <4>1. ASSUME NEW x \in Group(N, k, t) PROVE x \in Group(M, a, s)
        <5>1. x \in E /\ Agree(x, k, p) /\ Toward(x, p) = t
          BY <1>2, <4>1 DEF Group, Way
        <5>2. x \in D
          BY <1>2, <2>3, <5>1
        <5>3. Agree(x, k, Pos(M, a)) /\ Toward(x, Pos(M, a)) = s /\ Pos(M, a) \in Nat
          BY <1>0, <1>1, <5>1, AgreeIs
        <5>4. Agree(x, a, Pos(M, a))
          BY <1>1, <5>3, AgreeIs DEF Way
        <5> QED
          BY <5>2, <5>3, <5>4 DEF Group, Way
      <4>2. ASSUME NEW x \in Group(M, a, s) PROVE x \in Group(N, k, t)
        <5>1. x \in D /\ Agree(x, k, p) /\ Toward(x, p) # Toward(k, p)
          BY <1>1, <4>2 DEF Group
        <5>2. Toward(x, p) = t
          BY <2>3, <5>1, SidesTwo
        <5> QED
          BY <1>2, <5>1, <5>2 DEF Group, Way
      <4> QED
        BY <4>1, <4>2
    <3>3. CASE next = Null
      <4>1. Group(N, k, t) = {}
        BY <1>1, <1>4, <3>2, <3>3 DEF Leads
      <4> QED
        BY <3>1, <3>3, <4>1 DEF Leads
    <3>4. CASE next # Null /\ Pos(M, next) <= Pos(M, a)
      <4>1. Group(N, k, t) = {next}
        BY <1>1, <1>4, <3>2, <3>4 DEF Leads
      <4>2. Pos(N, next) = Pos(M, next) /\ Pos(M, next) < p /\ Pos(M, next) \in Nat
        BY <1>0, <1>1, <1>2, <1>4, <3>4
      <4>3. ~ (Pos(N, next) > p) /\ Pos(N, next) <= p
        BY <1>1, <4>2
      <4> QED
        BY <1>2, <3>1, <3>4, <4>1, <4>3 DEF Leads
    <3>5. CASE next # Null /\ Pos(M, next) > Pos(M, a)
      <4>1. Below(M, a, s, next) /\ next \in D
        BY <1>1, <1>4, <3>5 DEF Leads
      <4>2. Pos(N, next) = Pos(M, next) /\ Pos(M, next) > p /\ Pos(M, next) \in Nat
        BY <1>0, <1>1, <1>2, <3>5, <4>1
      <4>3. ASSUME NEW x \in Group(M, a, s)
            PROVE  Way(N, x, next) /\ (Pos(N, x) > p => Pos(N, x) >= Pos(N, next))
        <5>1. x \in D /\ Way(M, x, next) /\ (Pos(M, x) > Pos(M, a) => Pos(M, x) >= Pos(M, next))
          BY <4>1, <4>3 DEF Below, Group
        <5>2. Pos(N, x) = Pos(M, x) /\ Pos(M, x) \in Nat /\ Way(N, x, next)
          BY <1>0, <1>2, <1>6, <4>1, <5>1
        <5> QED
          BY <1>0, <1>1, <4>2, <5>1, <5>2
      <4>4. Below(N, k, t, next)
        <5>1. next \in Group(M, a, s)
          BY <4>1 DEF Below
        <5> QED
          BY <1>2, <3>2, <4>2, <4>3, <5>1 DEF Below
      <4>5. ~ (Pos(N, next) <= Pos(N, k))
        BY <1>1, <1>2, <4>2
      <4> QED
        BY <3>1, <3>5, <4>4, <4>5 DEF Leads
    <3>6. next # Null => Pos(M, next) \in Nat
      BY <1>0, <1>4
    <3> QED
      BY <1>0, <1>1, <3>3, <3>4, <3>5, <3>6
  <2> QED
    BY <2>2, <2>3
\* At the link that leads to the new node.
<1>11. Leads(N, a, s)
  <2>1. Link(N, a, s) = k
    BY <1>1, <1>2
  <2>2. Group(N, a, s) = Group(M, a, s) \cup {k}
    BY <1>1, <1>7
  <2>3. ASSUME NEW x \in Group(N, a, s)
        PROVE  Way(N, x, k) /\ (Pos(N, x) > Pos(N, a) => Pos(N, x) >= p)
    <3>1. CASE x = k
      BY <1>1, <1>2, <3>1, AgreeSelf DEF Way
    <3>2. CASE x \in Group(M, a, s)
      <4>1. x \in D /\ Agree(x, k, p) /\ Pos(N, x) = Pos(M, x) /\ Pos(M, x) \in Nat
        BY <1>0, <1>1, <1>2, <3>2 DEF Group
      <4>2. Way(N, x, k)
        BY <1>2, <4>1 DEF Way
      <4>3. Pos(M, x) > Pos(M, a) => Pos(M, x) >= p
        <5> SUFFICES ASSUME Pos(M, x) > Pos(M, a) PROVE Pos(M, x) >= p
          OBVIOUS
        <5>1. next # Null
          BY <1>1, <1>4, <3>2 DEF Leads
        <5>2. ~ (Pos(M, next) <= Pos(M, a))
          <6> SUFFICES ASSUME Pos(M, next) <= Pos(M, a) PROVE FALSE
            OBVIOUS
          <6>1. x = next
            BY <1>1, <1>4, <3>2, <5>1 DEF Leads
          <6> QED
            BY <1>0, <1>1, <4>1, <6>1
        <5>3. Pos(M, next) \in Nat /\ Pos(M, next) > Pos(M, a)
          BY <1>0, <1>1, <1>4, <5>1, <5>2
        <5>4. Below(M, a, s, next)
          BY <1>1, <1>4, <5>1, <5>3 DEF Leads
        <5>5. Pos(M, x) >= Pos(M, next) /\ Pos(M, next) > p
          BY <1>1, <3>2, <5>1, <5>3, <5>4 DEF Below
        <5> QED
          BY <1>1, <4>1, <5>3, <5>5
      <4> QED
        BY <1>1, <1>2, <4>1, <4>2, <4>3
    <3> QED
      BY <2>2, <2>3, <3>1, <3>2
  <2>4. Pos(N, k) > Pos(N, a) /\ ~ (Pos(N, k) <= Pos(N, a))
    BY <1>0, <1>1, <1>2
  <2>5. Below(N, a, s, k)
    BY <1>2, <2>2, <2>3, <2>4 DEF Below
  <2> QED
    BY <1>3, <2>1, <2>4, <2>5 DEF Leads
\* At the other links.
<1>12. ASSUME NEW n \in D, NEW t \in Sides, ~ (n = a /\ t = s), Pos(M, n) < size(n)
       PROVE  Leads(N, n, t)
  <2> DEFINE m == Link(M, n, t)
  <2>1. Link(N, n, t) = m /\ m \in D \cup {Null} /\ Leads(M, n, t)
    BY <1>0, <1>2, <1>12 DEF Linking
  <2>2. m # Null => m \in D /\ Pos(N, m) = Pos(M, m) /\ Pos(M, m) \in Nat
    BY <1>0, <1>2, <2>1
  <2>3. Pos(N, n) = Pos(M, n) /\ Pos(M, n) \in Nat
    BY <1>0, <1>2
  <2>4. CASE Way(M, k, n) /\ Toward(k, Pos(M, n)) = t
    <3>1. n # a
      BY <1>1, <1>12, <2>4
    <3>2. Pos(M, n) <= Pos(M, a) /\ Pos(M, a) \in Nat
      BY <1>0, <1>1, <2>4
    <3>3. Pos(M, n) # Pos(M, a)
      <4> SUFFICES ASSUME Pos(M, n) = Pos(M, a) PROVE FALSE
        OBVIOUS
      <4>1. Agree(k, n, Pos(M, n)) /\ Agree(k, a, Pos(M, n))
        BY <1>1, <2>4 DEF Way
      <4>2. Agree(n, a, Pos(M, n))
        <5>1. Agree(n, k, Pos(M, n))
          BY <2>3, <4>1, AgreeIs
        <5> QED
          BY <2>3, <4>1, <5>1, AgreeIs
      <4> QED
        BY <1>1, <3>1, <4>2 DEF Distinct, Way
    <3>4. Pos(M, n) < Pos(M, a)
      BY <2>3, <3>2, <3>3
    <3>5. m \in D /\ Below(M, n, t, m) /\ Pos(M, m) <= Pos(M, a) /\ Way(M, k, m)
      BY <1>1, <2>4, <3>4, WayDown
    <3>6. Pos(N, k) >= Pos(N, m) /\ Pos(N, m) > Pos(N, n) /\ ~ (Pos(N, m) <= Pos(N, n))
      BY <1>1, <1>2, <2>2, <2>3, <3>2, <3>5, <1>0 DEF Below
    <3>7. Group(N, n, t) = Group(M, n, t) \cup {k}
      BY <1>7, <2>4
    <3>8. ASSUME NEW x \in Group(N, n, t)
          PROVE  Way(N, x, m) /\ (Pos(N, x) > Pos(N, n) => Pos(N, x) >= Pos(N, m))
      <4>1. CASE x = k
        BY <1>2, <1>6, <3>5, <3>6, <4>1
      <4>2. CASE x \in Group(M, n, t)
        <5>1. x \in D /\ Way(M, x, m) /\ (Pos(M, x) > Pos(M, n) => Pos(M, x) >= Pos(M, m))
          BY <3>5, <4>2 DEF Below, Group
        <5> QED
          BY <1>2, <1>6, <2>2, <2>3, <3>5, <5>1
      <4> QED
        BY <3>7, <3>8, <4>1, <4>2
    <3>9. m \in Group(N, n, t)
      BY <3>5, <3>7 DEF Below
    <3>10. Below(N, n, t, m)
      <4> HIDE DEF m
      <4> QED
        BY <3>6, <3>8, <3>9 DEF Below
    <3> QED
      BY <1>0, <2>1, <3>5, <3>6, <3>10 DEF Leads
  <2>5. CASE ~ (Way(M, k, n) /\ Toward(k, Pos(M, n)) = t)
    <3>1. Group(N, n, t) = Group(M, n, t)
      BY <1>7, <2>5
    <3>2. ASSUME Below(M, n, t, m), m \in D PROVE Below(N, n, t, m)
      <4>1. \A x \in Group(M, n, t) : Way(N, x, m) /\ (Pos(N, x) > Pos(N, n) => Pos(N, x) >= Pos(N, m))
        <5> TAKE x \in Group(M, n, t)
        <5>1. x \in D /\ Way(M, x, m) /\ (Pos(M, x) > Pos(M, n) => Pos(M, x) >= Pos(M, m))
          BY <3>2 DEF Below, Group
        <5> QED
          BY <1>2, <1>6, <2>2, <2>3, <3>2, <5>1
      <4>2. m \in Group(M, n, t) /\ Pos(M, m) > Pos(M, n)
        BY <3>2 DEF Below
      <4> HIDE DEF m
      <4> QED
        BY <1>2, <3>1, <3>2, <4>1, <4>2 DEF Below
    <3>3. m # Null => Pos(N, m) = Pos(M, m) /\ m \in D
      BY <2>2
    <3> HIDE DEF m
    <3>4. /\ m = Null => Group(M, n, t) = {}
          /\ m # Null /\ Pos(M, m) <= Pos(M, n) => Group(M, n, t) = {m}
          /\ m # Null /\ Pos(M, m) > Pos(M, n) => Below(M, n, t, m)
      BY <2>1 DEF Leads, m
    <3> QED
      BY <2>1, <2>3, <3>1, <3>2, <3>3, <3>4 DEF Leads
  <2> QED
    BY <2>4, <2>5
<1>13. Linking(N)
  <2> SUFFICES ASSUME NEW n \in E, NEW t \in Sides
               PROVE  /\ Pos(N, n) < size(n) => Leads(N, n, t)
                      /\ Pos(N, n) >= size(n) => Link(N, n, t) = Null
    BY DEF Linking
  <2>1. CASE n = k
    BY <1>1, <1>2, <1>3, <1>10, <2>1
  <2>2. CASE n \in D
    <3>1. Pos(M, n) < size(n) => Leads(N, n, t)
      BY <1>11, <1>12, <2>2
    <3>2. Pos(M, n) >= size(n) => Link(M, n, t) = Null /\ ~ (n = a)
      BY <1>0, <1>4, <2>2 DEF Linking
    <3> QED
      BY <1>2, <2>2, <3>1, <3>2
  <2> QED
    BY <1>2, <2>1, <2>2
<1> QED
  BY <1>8, <1>9, <1>13


-----------------------------------------------------------------------------
(* What the operators on the memory do.                                    *)

\* The nodes of M have links to X and positions in P.
Nodes(M, X, P) == \A n \in DOMAIN M : M[n] \in [link : [Sides -> X], position : P]

LEMMA LinkedIs ==
  ASSUME NEW M, NEW X, NEW P, Nodes(M, X, P), NEW a \in DOMAIN M, NEW s \in Sides, NEW v \in X,
         NEW N, N = Linked(M, a, s, v)
  PROVE  /\ DOMAIN N = DOMAIN M /\ Nodes(N, X, P)
         /\ \A n \in DOMAIN M : Pos(N, n) = Pos(M, n)
         /\ \A n \in DOMAIN M, t \in Sides :
              Link(N, n, t) = IF n = a /\ t = s THEN v ELSE Link(M, n, t)
<1>1. N = [M EXCEPT ![a] = [M[a] EXCEPT !.link = [M[a].link EXCEPT ![s] = v]]]
  BY DEF Linked
<1>2. M[a] \in [link : [Sides -> X], position : P]
  BY DEF Nodes
<1> DEFINE f == [M[a].link EXCEPT ![s] = v]
           node == [M[a] EXCEPT !.link = f]
<1>3. f \in [Sides -> X] /\ \A t \in Sides : f[t] = IF t = s THEN v ELSE M[a].link[t]
  BY <1>2
<1> HIDE DEF f
<1>4. node \in [link : [Sides -> X], position : P] /\ node.link = f /\ node.position = M[a].position
  BY <1>2, <1>3
<1>5. N = [M EXCEPT ![a] = node]
  BY <1>1 DEF f
<1> HIDE DEF node
<1>6. DOMAIN N = DOMAIN M /\ N[a] = node /\ \A n \in DOMAIN M : n # a => N[n] = M[n]
  BY <1>5
<1>7. Nodes(N, X, P)
  BY <1>4, <1>6 DEF Nodes
<1> QED
  BY <1>3, <1>4, <1>6, <1>7 DEF Pos, Link

LEMMA SelfLinkedIs ==
  ASSUME NEW k, NEW next, NEW p, NEW node, node = SelfLinked(k, next, p)
  PROVE  /\ node.position = p
         /\ \A t \in Sides : node.link[t] = IF t = Toward(k, p) THEN k ELSE next
         /\ \A X, P : k \in X /\ next \in X /\ p \in P => node \in [link : [Sides -> X], position : P]
  BY DEF SelfLinked

LEMMA UnlinkedIs ==
  ASSUME NEW p, NEW node, node = Unlinked(p)
  PROVE  /\ node.position = p /\ \A t \in Sides : node.link[t] = Null
         /\ \A X, P : Null \in X /\ p \in P => node \in [link : [Sides -> X], position : P]
  BY DEF Unlinked

LEMMA StepInsertFirst ==
  ASSUME TrieInv, NEW k \in Key, insertFirst(k)
  PROVE  TrieInv'
<1> DEFINE N == memory'
           node == SelfLinked(k, Null, 0)
<1>0. ItemBits \in Nat /\ ItemBits >= 1 /\ k # Null /\ size(k) \in Nat /\ size(k) >= ItemBits
  BY Sizes, ConstantsAssumption
<1>1. DOMAIN memory = {}
  BY ConstantsAssumption DEF TrieInv, Shape, insertFirst
<1>2. N = Allocated(memory, k, node) /\ root_node' = k /\ live' = live \cup {k}
  BY DEF insertFirst
<1>3. DOMAIN N = {k} /\ N[k] = node
  <2> HIDE DEF node, N
  <2>1. k \notin DOMAIN memory
    BY <1>1
  <2> QED
    BY <1>1, <1>2, <2>1 DEF Allocated
<1>4. /\ Pos(N, k) = 0 /\ \A t \in Sides : Link(N, k, t) = IF t = Toward(k, 0) THEN k ELSE Null
      /\ N[k] \in [link : [Sides -> DOMAIN N \cup {Null}], position : 0 .. ItemBits]
  <2>1. 0 \in 0 .. ItemBits /\ k \in DOMAIN N \cup {Null} /\ Null \in DOMAIN N \cup {Null}
    BY <1>0, <1>3
  <2> HIDE DEF node
  <2>2. /\ node.position = 0
        /\ \A t \in Sides : node.link[t] = IF t = Toward(k, 0) THEN k ELSE Null
        /\ \A X, P : k \in X /\ Null \in X /\ 0 \in P => node \in [link : [Sides -> X], position : P]
    BY SelfLinkedIs DEF node
  <2> QED
    BY <1>3, <2>1, <2>2 DEF Pos, Link
<1> HIDE DEF N, node
<1>5. Shape(N, k)
  BY <1>3, <1>4 DEF Shape
<1>6. Distinct(N)
  BY <1>3 DEF Distinct
<1>7. Linking(N)
  <2> SUFFICES ASSUME NEW t \in Sides PROVE Leads(N, k, t) /\ Pos(N, k) < size(k)
    BY <1>0, <1>3, <1>4 DEF Linking
  <2>1. Group(N, k, Toward(k, 0)) = {k} /\ (t # Toward(k, 0) => Group(N, k, t) = {})
    BY <1>3, <1>4, AgreeSelf DEF Group, Way
  <2> QED
    BY <1>0, <1>4, <2>1 DEF Leads
<1>8. live' = DOMAIN N
  BY <1>1, <1>2, <1>3 DEF TrieInv
<1> QED
  BY <1>2, <1>5, <1>6, <1>7, <1>8 DEF TrieInv, N

LEMMA StepInsertBelow ==
  ASSUME DifferFirst, TrieInv, NEW k \in Key, insertBelow(k)
  PROVE  TrieInv'
<1> DEFINE N == memory'
           match == MatchOf(k)
           p == positionOf(k, match)
<1>0. /\ Shape(memory, root_node) /\ Distinct(memory) /\ Linking(memory) /\ live = DOMAIN memory
      /\ k \notin DOMAIN memory /\ DOMAIN memory # {} /\ k # Null
      /\ root_node' = root_node /\ live' = live \cup {k}
  BY ConstantsAssumption DEF TrieInv, insertBelow, Shape
<1>1. mismatch(k, match) # -1 /\ \E a, s, next : Place(memory, k, a, p, s, next)
  BY <1>0, InsertPlace
<1>2. PICK a, s, next : Place(memory, k, a, p, s, next)
  BY <1>1
<1>3. look_up(k, Crossing(p))[1] = a
  BY <1>0, <1>2, InsertParent
<1>4. /\ a \in DOMAIN memory /\ s = Side(memory, a, k) /\ next = memory[a].link[s] /\ s \in Sides
      /\ p \in 0 .. ItemBits /\ Pos(memory, a) < p
  BY <1>2, SidesTwo DEF Place, Side, Link, Pos
<1>5. ~ bitThrows(k, position(a))
  <2>1. position(a) \in Nat /\ position(a) < ItemBits
    <3>1. Pos(memory, a) \in Nat /\ ItemBits \in Nat
      BY <1>0, <1>4, ShapeIs
    <3> QED
      BY <3>1, <1>4 DEF Pos, position
  <2> QED
    BY <2>1, FirstBits
<1>6. N = IF (mismatch(k, match) = -1 /\ Len(k) < Len(match)) \/ bitThrows(k, position(a))
            THEN Allocated(memory, k, Unlinked(0)) ELSE LinkedTo(a, k, p)
  BY <1>3, Zenon DEF insertBelow, Crossing
<1>7. N = LinkedTo(a, k, p)
  BY <1>1, <1>5, <1>6
<1> DEFINE node == IF bitThrows(k, p) THEN Unlinked(p) ELSE SelfLinked(k, next, p)
           L == Linked(memory, a, s, k)
           X == DOMAIN memory \cup {k, Null}
           P == 0 .. ItemBits
<1>8. N = Allocated(L, k, node)
  BY <1>4, <1>7 DEF LinkedTo
<1>9. Nodes(memory, X, P) /\ k \in X /\ next \in X /\ Null \in X
  <2>1. \A n \in DOMAIN memory : memory[n].link \in [Sides -> DOMAIN memory \cup {Null}] /\ memory[n].position \in P
          /\ memory[n] = [link |-> memory[n].link, position |-> memory[n].position]
    BY <1>0 DEF Shape
  <2>2. \A n \in DOMAIN memory : memory[n].link \in [Sides -> X]
    BY <2>1
  <2>3. Nodes(memory, X, P)
    BY <2>1, <2>2 DEF Nodes
  <2> QED
    BY <2>2, <2>3, <1>4
<1>10. /\ node.position = p
       /\ \A t \in Sides : node.link[t] = IF p >= size(k) THEN Null
                                         ELSE IF t = Toward(k, p) THEN k ELSE next
       /\ node \in [link : [Sides -> X], position : P]
  <2>1. bitThrows(k, p) <=> p >= size(k)
    BY <1>4, Throws
  <2>2. CASE bitThrows(k, p)
    <3>1. node = Unlinked(p)
      BY <2>2
    <3> HIDE DEF node, X, P
    <3>2. /\ node.position = p /\ \A t \in Sides : node.link[t] = Null
          /\ (Null \in X /\ p \in P => node \in [link : [Sides -> X], position : P])
      BY <3>1, UnlinkedIs
    <3> QED
      BY <1>4, <1>9, <2>1, <2>2, <3>2 DEF P
  <2>3. CASE ~ bitThrows(k, p)
    <3>1. node = SelfLinked(k, next, p)
      BY <2>3
    <3> HIDE DEF node, X, P
    <3>2. /\ node.position = p
          /\ \A t \in Sides : node.link[t] = IF t = Toward(k, p) THEN k ELSE next
          /\ (k \in X /\ next \in X /\ p \in P => node \in [link : [Sides -> X], position : P])
      BY <3>1, SelfLinkedIs
    <3> QED
      BY <1>4, <1>9, <2>1, <2>3, <3>2 DEF P
  <2> QED
    BY <2>2, <2>3
<1> HIDE DEF N, L, node, X, P, match, p
<1>11. /\ DOMAIN L = DOMAIN memory /\ Nodes(L, X, P)
       /\ \A n \in DOMAIN memory : Pos(L, n) = Pos(memory, n)
       /\ \A n \in DOMAIN memory, t \in Sides :
            Link(L, n, t) = IF n = a /\ t = s THEN k ELSE Link(memory, n, t)
  <2>1. L = Linked(memory, a, s, k)
    BY DEF L
  <2> QED
    BY <1>4, <1>9, <2>1, LinkedIs
<1>12. /\ DOMAIN N = DOMAIN memory \cup {k} /\ N[k] = node
       /\ \A n \in DOMAIN memory : N[n] = L[n]
  <2>1. k \notin DOMAIN L
    BY <1>0, <1>11
  <2> QED
    BY <1>8, <1>11, <2>1 DEF Allocated
<1>13. Placed(memory, N, k, a, p, s, next)
  <2>1. \A n \in DOMAIN N : N[n] \in [link : [Sides -> DOMAIN N \cup {Null}], position : 0 .. ItemBits]
    <3>1. X = DOMAIN N \cup {Null}
      BY <1>12 DEF X
    <3>2. \A n \in DOMAIN N : N[n] \in [link : [Sides -> X], position : P]
      BY <1>10, <1>11, <1>12 DEF Nodes
    <3> QED
      BY <3>1, <3>2 DEF P
  <2>2. \A n \in DOMAIN memory : Pos(N, n) = Pos(memory, n)
    BY <1>11, <1>12 DEF Pos
  <2>3. \A n \in DOMAIN memory, t \in Sides :
          Link(N, n, t) = IF n = a /\ t = s THEN k ELSE Link(memory, n, t)
    BY <1>11, <1>12 DEF Link
  <2>4. Pos(N, k) = p /\ \A t \in Sides : Link(N, k, t) = IF p >= size(k) THEN Null
                                      ELSE IF t = Toward(k, p) THEN k ELSE next
    BY <1>10, <1>12 DEF Pos, Link
  <2> QED
    BY <1>12, <2>1, <2>2, <2>3, <2>4 DEF Placed
<1>14. Shape(N, root_node) /\ Distinct(N) /\ Linking(N)
  BY <1>0, <1>2, <1>13, PlacedKeeps
<1> QED
  BY <1>0, <1>12, <1>14 DEF TrieInv, N


-----------------------------------------------------------------------------
(* An erase of a node right above its leaf keeps the trie in order.        *)

\* a, right below k, is the leaf of k, and g is right above k.
Between(M, k, g, a, h, s, v) ==
  /\ k \in DOMAIN M /\ a \in DOMAIN M /\ g \in DOMAIN M /\ a # k
  /\ h = Toward(k, Pos(M, g)) /\ s = Toward(k, Pos(M, k)) /\ v = Toward(k, Pos(M, a))
  /\ Link(M, g, h) = k /\ Link(M, k, s) = a /\ Link(M, a, v) = k
  /\ Way(M, k, g) /\ Pos(M, g) < Pos(M, k) /\ k # Null

LEMMA BetweenIs ==
  ASSUME DifferFirst, NEW M, NEW r, Shape(M, r), Distinct(M), Linking(M),
         NEW k, NEW g, NEW a, NEW h, NEW s, NEW v, Between(M, k, g, a, h, s, v)
  PROVE  /\ h \in Sides /\ s \in Sides /\ v \in Sides
         /\ Pos(M, k) < Pos(M, a) /\ Pos(M, g) < Pos(M, k)
         /\ Pos(M, k) < size(k) /\ Pos(M, a) < size(a) /\ Pos(M, g) < size(g)
         /\ Below(M, k, s, a) /\ Below(M, g, h, k) /\ Group(M, a, v) = {k}
         /\ Agree(a, k, Pos(M, k)) /\ Agree(k, a, Pos(M, a))
         /\ Pos(M, k) < ItemBits
<1>0. /\ ItemBits \in Nat
      /\ \A x \in DOMAIN M : /\ Pos(M, x) \in Nat /\ Pos(M, x) <= ItemBits
                             /\ x \in Key /\ x # Null /\ size(x) \in Nat /\ size(x) >= ItemBits
  BY ShapeIs
<1>1. /\ k \in DOMAIN M /\ a \in DOMAIN M /\ g \in DOMAIN M /\ a # k
      /\ h = Toward(k, Pos(M, g)) /\ s = Toward(k, Pos(M, k)) /\ v = Toward(k, Pos(M, a))
      /\ Link(M, g, h) = k /\ Link(M, k, s) = a /\ Link(M, a, v) = k
      /\ Way(M, k, g) /\ Pos(M, g) < Pos(M, k) /\ a # Null /\ k # Null
      /\ h \in Sides /\ s \in Sides /\ v \in Sides
  BY <1>0, SidesTwo DEF Between
<1>2. Pos(M, k) < size(k) /\ Pos(M, a) < size(a) /\ Pos(M, g) < size(g)
  BY <1>0, <1>1 DEF Linking
<1>3. Leads(M, k, s) /\ Leads(M, a, v) /\ Leads(M, g, h)
  BY <1>1, <1>2 DEF Linking
<1>4. k \in Group(M, k, s)
  BY <1>1, AgreeSelf DEF Group, Way
<1>5. Pos(M, k) < Pos(M, a)
  <2> SUFFICES ASSUME Pos(M, a) <= Pos(M, k) PROVE FALSE
    BY <1>0, <1>1
  <2>1. Group(M, k, s) = {a}
    BY <1>1, <1>3 DEF Leads
  <2> QED
    BY <1>1, <1>4, <2>1
<1>6. Below(M, k, s, a) /\ Below(M, g, h, k)
  BY <1>1, <1>3, <1>5 DEF Leads
<1>7. Group(M, a, v) = {k}
  <2>1. Pos(M, k) <= Pos(M, a)
    BY <1>0, <1>1, <1>5
  <2> QED
    BY <1>1, <1>3, <2>1 DEF Leads
<1>8. Agree(a, k, Pos(M, k)) /\ Agree(k, a, Pos(M, a))
  BY <1>6, <1>7 DEF Below, Group, Way
<1>9. Pos(M, k) < ItemBits
  BY <1>0, <1>1, <1>5
<1> QED
  BY <1>1, <1>2, <1>5, <1>6, <1>7, <1>8, <1>9

\* Only g and a have links to k.
LEMMA LinksToErased ==
  ASSUME DifferFirst, NEW M, NEW r, Shape(M, r), Distinct(M), Linking(M),
         NEW k, NEW g, NEW a, NEW h, NEW s, NEW v, Between(M, k, g, a, h, s, v),
         NEW n \in DOMAIN M, NEW t \in Sides, Link(M, n, t) = k
  PROVE  (n = g /\ t = h) \/ (n = a /\ t = v)
<1> DEFINE D == DOMAIN M
<1>0. /\ ItemBits \in Nat
      /\ \A x \in D : /\ Pos(M, x) \in Nat /\ Pos(M, x) <= ItemBits
                      /\ x \in Key /\ x # Null /\ size(x) \in Nat /\ size(x) >= ItemBits
  BY ShapeIs
<1>1. /\ k \in D /\ a \in D /\ g \in D /\ a # k /\ k # Null
      /\ h = Toward(k, Pos(M, g)) /\ s = Toward(k, Pos(M, k)) /\ v = Toward(k, Pos(M, a))
      /\ Link(M, g, h) = k /\ Link(M, k, s) = a /\ Link(M, a, v) = k
      /\ Way(M, k, g)
  BY DEF Between
<1>2. /\ Pos(M, k) < Pos(M, a) /\ Pos(M, g) < Pos(M, k)
      /\ Below(M, k, s, a) /\ Below(M, g, h, k) /\ Group(M, a, v) = {k}
      /\ Agree(k, a, Pos(M, a)) /\ Pos(M, k) < ItemBits
  BY BetweenIs
<1>3. Pos(M, n) < size(n) /\ Leads(M, n, t)
  BY <1>0, <1>1 DEF Linking
<1>4. k \in Group(M, n, t)
  <2>1. Pos(M, k) <= Pos(M, n) \/ Pos(M, k) > Pos(M, n)
    BY <1>0, <1>1
  <2> QED
    BY <1>1, <1>3, <2>1 DEF Leads, Below
<1>5. Agree(k, n, Pos(M, n)) /\ t = Toward(k, Pos(M, n)) /\ Pos(M, n) \in Nat
  BY <1>0, <1>4 DEF Group, Way
<1>n. \A q \in Nat : q <= Pos(M, n) => Agree(n, k, q)
  BY <1>5, AgreeIs
<1>m. \A q \in Nat : q < Pos(M, n) => Toward(n, q) = Toward(k, q)
  BY <1>5, AgreeIs
\* Nodes on the way of k.
<1>6. ASSUME NEW x \in D, Way(M, k, x), Pos(M, x) < Pos(M, n)
      PROVE  n \in Group(M, x, Toward(k, Pos(M, x)))
  <2>1. Agree(n, k, Pos(M, x)) /\ Toward(n, Pos(M, x)) = Toward(k, Pos(M, x)) /\ Pos(M, x) \in Nat
    BY <1>0, <1>5, <1>6, <1>n, <1>m
  <2>2. Agree(n, x, Pos(M, x))
    BY <1>6, <2>1, AgreeIs DEF Way
  <2> QED
    BY <2>1, <2>2 DEF Group, Way
<1>7. ASSUME NEW x \in D, Way(M, k, x), Pos(M, x) = Pos(M, n) PROVE x = n
  <2>1. Agree(n, x, Pos(M, n))
    <3>1. Agree(n, k, Pos(M, n)) /\ Agree(k, x, Pos(M, n))
      BY <1>5, <1>7, <1>n DEF Way
    <3> QED
      BY <1>5, <3>1, AgreeIs
  <2> QED
    BY <1>7, <2>1 DEF Distinct, Way
<1>8. CASE Pos(M, n) < Pos(M, g)
  <2>1. k = Link(M, n, t) /\ Below(M, n, t, k)
    <3>1. Pos(M, k) > Pos(M, n)
      BY <1>0, <1>1, <1>2, <1>8
    <3> QED
      BY <1>1, <1>3, <3>1 DEF Leads
  <2>2. g \in Group(M, n, t)
    <3>1. Way(M, k, n)
      BY <1>5 DEF Way
    <3> QED
      BY <1>0, <1>1, <1>5, <1>8, <3>1, WayDown
  <2> QED
    BY <1>0, <1>1, <1>2, <1>8, <2>1, <2>2 DEF Below
<1>9. CASE Pos(M, n) = Pos(M, g)
  BY <1>1, <1>5, <1>7, <1>9
<1>10. CASE Pos(M, g) < Pos(M, n) /\ Pos(M, n) < Pos(M, k)
  <2>1. n \in Group(M, g, h)
    BY <1>1, <1>6, <1>10
  <2> QED
    BY <1>0, <1>1, <1>2, <1>10, <2>1 DEF Below
<1>11. CASE Pos(M, n) = Pos(M, k)
  <2>1. n = k
    BY <1>1, <1>7, <1>11, AgreeSelf DEF Way
  <2>2. t = s
    BY <1>1, <1>5, <2>1
  <2> QED
    BY <1>1, <2>1, <2>2
<1>12. CASE Pos(M, k) < Pos(M, n)
  <2>1. n \in Group(M, k, s)
    BY <1>1, <1>6, <1>12, AgreeSelf DEF Way
  <2>2. Pos(M, n) >= Pos(M, a)
    BY <1>1, <1>2, <1>12, <2>1, <1>0 DEF Below
  <2>3. Way(M, k, a)
    BY <1>2 DEF Way
  <2>4. CASE Pos(M, n) = Pos(M, a)
    BY <1>1, <1>5, <1>7, <2>3, <2>4
  <2>5. CASE Pos(M, n) > Pos(M, a)
    <3>1. n \in Group(M, a, v)
      BY <1>0, <1>1, <1>6, <2>3, <2>5
    <3>2. n = k
      BY <1>2, <3>1
    <3> QED
      BY <1>0, <1>1, <1>12, <3>2
  <2> QED
    BY <1>0, <1>1, <2>2, <2>4, <2>5
<1> QED
  BY <1>0, <1>1, <1>8, <1>9, <1>10, <1>11, <1>12


\* Only k has a forward link to a.
LEMMA LinksToLeaf ==
  ASSUME DifferFirst, NEW M, NEW r, Shape(M, r), Distinct(M), Linking(M),
         NEW k, NEW g, NEW a, NEW h, NEW s, NEW v, Between(M, k, g, a, h, s, v),
         NEW n \in DOMAIN M, NEW t \in Sides, Below(M, n, t, a)
  PROVE  n = k
<1> DEFINE D == DOMAIN M
<1>0. /\ ItemBits \in Nat
      /\ \A x \in D : /\ Pos(M, x) \in Nat /\ Pos(M, x) <= ItemBits
                      /\ x \in Key /\ size(x) \in Nat /\ size(x) >= ItemBits
  BY ShapeIs
<1>1. /\ k \in D /\ a \in D /\ a # k /\ s = Toward(k, Pos(M, k))
      /\ Pos(M, k) < Pos(M, a) /\ Below(M, k, s, a)
      /\ Agree(a, k, Pos(M, k)) /\ Toward(a, Pos(M, k)) = s
  BY BetweenIs DEF Between, Below, Group
<1>2. /\ Pos(M, n) < Pos(M, a) /\ Agree(a, n, Pos(M, n)) /\ Toward(a, Pos(M, n)) = t
      /\ \A x \in Group(M, n, t) : Pos(M, x) > Pos(M, n) => Pos(M, x) >= Pos(M, a)
  BY DEF Below, Group, Way
<1>3. Pos(M, n) \in Nat /\ Pos(M, k) \in Nat /\ Pos(M, a) \in Nat
  BY <1>0, <1>1
<1>4. Agree(n, a, Pos(M, n)) /\ Agree(k, a, Pos(M, k))
  BY <1>1, <1>2, <1>3, AgreeIs
<1>5. CASE Pos(M, n) < Pos(M, k)
  <2>1. Agree(k, a, Pos(M, n)) /\ Toward(k, Pos(M, n)) = Toward(a, Pos(M, n))
    BY <1>3, <1>4, <1>5, AgreeIs
  <2>2. Agree(k, n, Pos(M, n))
    BY <1>2, <1>3, <2>1, AgreeIs
  <2>3. k \in Group(M, n, t)
    BY <1>1, <1>2, <2>1, <2>2 DEF Group, Way
  <2> QED
    BY <1>1, <1>2, <1>3, <1>5, <2>3
<1>6. CASE Pos(M, n) = Pos(M, k)
  <2>1. Agree(n, k, Pos(M, n))
    BY <1>1, <1>3, <1>4, <1>6, AgreeIs
  <2> QED
    BY <1>1, <1>6, <2>1 DEF Distinct, Way
<1>7. CASE Pos(M, n) > Pos(M, k)
  <2>1. Agree(n, a, Pos(M, k)) /\ Toward(n, Pos(M, k)) = s
    BY <1>1, <1>3, <1>4, <1>7, AgreeIs
  <2>2. Agree(n, k, Pos(M, k))
    BY <1>1, <1>3, <2>1, AgreeIs
  <2>3. n \in Group(M, k, s)
    BY <2>1, <2>2 DEF Group, Way
  <2>4. Pos(M, n) >= Pos(M, a)
    BY <1>1, <1>7, <2>3 DEF Below
  <2> QED
    BY <1>2, <1>3, <2>4
<1> QED
  BY <1>3, <1>5, <1>6, <1>7

\* N is M without k: a has its place, and keeps what k does not need any more.
Lifted(M, N, k, g, a, h, s, v) ==
  /\ DOMAIN N = DOMAIN M \ {k}
  /\ Nodes(N, DOMAIN M \cup {Null}, 0 .. ItemBits)
  /\ \A n \in DOMAIN N : Pos(N, n) = IF n = a THEN Pos(M, k) ELSE Pos(M, n)
  /\ \A t \in Sides : Link(N, a, t) = IF t = s THEN Link(M, a, Other(v)) ELSE Link(M, k, t)
  /\ \A n \in DOMAIN N, t \in Sides :
       n # a => Link(N, n, t) = IF n = g /\ t = h THEN a ELSE Link(M, n, t)

LEMMA LiftedKeeps ==
  ASSUME DifferFirst, NEW M, NEW N, NEW r, Shape(M, r), Distinct(M), Linking(M),
         NEW k, NEW g, NEW a, NEW h, NEW s, NEW v, Between(M, k, g, a, h, s, v), k # r,
         Lifted(M, N, k, g, a, h, s, v)
  PROVE  Shape(N, r) /\ Distinct(N) /\ Linking(N)
<1> DEFINE D == DOMAIN M
           E == DOMAIN N
           next == Link(M, a, Other(v))
<1>0. /\ ItemBits \in Nat
      /\ \A x \in D : /\ Pos(M, x) \in Nat /\ Pos(M, x) <= ItemBits
                      /\ x \in Key /\ x # Null /\ size(x) \in Nat /\ size(x) >= ItemBits
      /\ \A x \in D, t \in Sides : Link(M, x, t) \in D \cup {Null}
  BY ShapeIs
<1>1. /\ k \in D /\ a \in D /\ g \in D /\ a # k /\ k # Null
      /\ h = Toward(k, Pos(M, g)) /\ s = Toward(k, Pos(M, k)) /\ v = Toward(k, Pos(M, a))
      /\ Link(M, g, h) = k /\ Link(M, k, s) = a /\ Link(M, a, v) = k
      /\ Way(M, k, g)
  BY DEF Between
<1>2. /\ h \in Sides /\ s \in Sides /\ v \in Sides
      /\ Pos(M, k) < Pos(M, a) /\ Pos(M, g) < Pos(M, k)
      /\ Pos(M, k) < size(k) /\ Pos(M, a) < size(a) /\ Pos(M, g) < size(g)
      /\ Below(M, k, s, a) /\ Below(M, g, h, k) /\ Group(M, a, v) = {k}
      /\ Agree(a, k, Pos(M, k)) /\ Agree(k, a, Pos(M, a))
      /\ Pos(M, k) < ItemBits
  BY BetweenIs
<1>3. /\ E = D \ {k} /\ a \in E /\ g \in E /\ g # a
      /\ Pos(N, a) = Pos(M, k)
      /\ \A n \in E : n # a => Pos(N, n) = Pos(M, n)
      /\ \A t \in Sides : Link(N, a, t) = IF t = s THEN next ELSE Link(M, k, t)
      /\ \A n \in E, t \in Sides :
           n # a => Link(N, n, t) = IF n = g /\ t = h THEN a ELSE Link(M, n, t)
  BY <1>0, <1>1, <1>2 DEF Lifted
<1>k. Agree(k, a, Pos(M, k)) /\ Pos(M, k) \in Nat /\ Pos(M, a) \in Nat
  BY <1>0, <1>1, <1>2, AgreeIs
<1> HIDE DEF next
<1>4. Other(v) \in Sides /\ Other(v) # v /\ next = Link(M, a, Other(v)) /\ next \in D \cup {Null}
  BY <1>0, <1>1, <1>2, SidesTwo DEF next
\* The groups.
<1>5. \A x \in E, n \in E : n # a => (Way(N, x, n) <=> Way(M, x, n))
  BY <1>3 DEF Way
<1>6. ASSUME NEW n \in E, n # a, NEW t \in Sides PROVE Group(N, n, t) = Group(M, n, t) \ {k}
  BY <1>3, <1>5, <1>6 DEF Group
<1>7. ASSUME NEW x PROVE Way(N, x, a) <=> Way(M, x, k)
  BY <1>2, <1>3, <1>k, AgreeIs DEF Way
<1>8. ASSUME NEW t \in Sides PROVE Group(N, a, t) = Group(M, k, t) \ {k}
  BY <1>3, <1>7 DEF Group
<1>9. Group(M, k, s) \ {k} = Group(M, a, Other(v))
  <2>1. ASSUME NEW x \in Group(M, k, s), x # k PROVE x \in Group(M, a, Other(v))
    <3>1. x \in D /\ Way(M, x, a)
      BY <1>2, <2>1 DEF Below, Group
    <3>2. Toward(x, Pos(M, a)) # v
      BY <1>2, <2>1, <3>1 DEF Group
    <3>3. Toward(x, Pos(M, a)) = Other(v)
      BY <1>2, <3>2, SidesTwo
    <3> QED
      BY <3>1, <3>3 DEF Group
  <2>2. ASSUME NEW x \in Group(M, a, Other(v)) PROVE x \in Group(M, k, s) /\ x # k
    <3>1. x \in D /\ Agree(x, a, Pos(M, a)) /\ Toward(x, Pos(M, a)) = Other(v)
      BY <2>2 DEF Group, Way
    <3>2. x # k
      BY <1>1, <1>4, <3>1
    <3>3. Agree(x, a, Pos(M, k)) /\ Toward(x, Pos(M, k)) = Toward(a, Pos(M, k))
      BY <1>2, <1>k, <3>1, AgreeIs
    <3>4. Toward(a, Pos(M, k)) = s
      BY <1>2 DEF Below, Group
    <3>5. Agree(x, k, Pos(M, k))
      BY <1>2, <1>k, <3>3, AgreeIs
    <3> QED
      BY <3>1, <3>2, <3>3, <3>4, <3>5 DEF Group, Way
  <2> QED
    BY <2>1, <2>2
\* No link leads to k.
<1>10. ASSUME NEW n \in E, NEW t \in Sides PROVE Link(N, n, t) \in E \cup {Null}
  <2>1. \A m \in D, i \in Sides : Link(M, m, i) = k => (m = g /\ i = h) \/ (m = a /\ i = v)
    BY LinksToErased
  <2>2. CASE n = a
    <3>1. next # k
      BY <1>1, <1>3, <1>4, <2>1
    <3>2. t # s => Link(M, k, t) # k
      BY <1>1, <1>3, <2>1
    <3> QED
      BY <1>0, <1>1, <1>3, <1>4, <2>2, <3>1, <3>2
  <2>3. CASE n # a
    BY <1>0, <1>1, <1>3, <2>1, <2>3
  <2> QED
    BY <2>2, <2>3
<1>11. Shape(N, r)
  <2>1. r \in D /\ Pos(M, r) = 0 /\ D \subseteq Key
    BY <1>1 DEF Shape
  <2>2. r \in E /\ r # a /\ Pos(N, r) = 0
    BY <1>2, <1>3, <1>k, <2>1
  <2>3. ASSUME NEW n \in E
        PROVE  N[n] \in [link : [Sides -> E \cup {Null}], position : 0 .. ItemBits]
    <3>1. N[n] \in [link : [Sides -> D \cup {Null}], position : 0 .. ItemBits]
      BY DEF Lifted, Nodes
    <3>2. \A t \in Sides : N[n].link[t] \in E \cup {Null}
      BY <1>10 DEF Link
    <3>3. N[n].link \in [Sides -> E \cup {Null}]
      BY <3>1, <3>2
    <3> QED
      BY <3>1, <3>3
  <2> QED
    BY <1>3, <2>1, <2>2, <2>3 DEF Shape
<1>12. Distinct(N)
  <2>1. ASSUME NEW y \in E, y # a, Pos(M, y) = Pos(M, k) PROVE ~ Agree(k, y, Pos(M, k))
    BY <1>1, <1>3, <2>1 DEF Distinct, Way
  <2> SUFFICES ASSUME NEW x \in E, NEW y \in E, Pos(N, x) = Pos(N, y), Way(N, x, y), x # y
               PROVE  FALSE
    BY DEF Distinct
  <2>2. CASE x # a /\ y # a
    BY <1>3, <1>5, <2>2 DEF Distinct
  <2>3. CASE x = a
    <3>1. Pos(M, y) = Pos(M, k) /\ y # a /\ Agree(a, y, Pos(M, k))
      BY <1>3, <2>3 DEF Way
    <3>2. Agree(k, y, Pos(M, k))
      BY <1>k, <3>1, AgreeIs
    <3> QED
      BY <2>1, <3>1, <3>2
  <2>4. CASE y = a
    <3>1. Pos(M, x) = Pos(M, k) /\ x # a /\ Agree(x, a, Pos(M, k))
      BY <1>3, <2>4 DEF Way
    <3>2. Agree(a, x, Pos(M, k))
      BY <1>k, <3>1, AgreeIs
    <3>3. Agree(k, x, Pos(M, k))
      BY <1>k, <3>2, AgreeIs
    <3> QED
      BY <2>1, <3>1, <3>3
  <2> QED
    BY <2>2, <2>3, <2>4
\* A link that does not change, at a node that keeps its position.
<1>13. ASSUME NEW n \in E, n # a, NEW t \in Sides, ~ (n = g /\ t = h), Pos(M, n) < size(n)
       PROVE  Leads(N, n, t)
  <2> DEFINE m == Link(M, n, t)
  <2>1. Link(N, n, t) = m /\ m \in E \cup {Null} /\ Leads(M, n, t) /\ n \in D
    BY <1>3, <1>10, <1>13 DEF Linking
  <2>2. Group(N, n, t) = Group(M, n, t) \ {k}
    BY <1>6, <1>13
  <2>3. Pos(N, n) = Pos(M, n) /\ Pos(M, n) \in Nat
    BY <1>0, <1>3, <1>13
  <2>4. CASE m = Null
    BY <2>1, <2>2, <2>4 DEF Leads
  <2>5. CASE m # Null /\ Pos(M, m) <= Pos(M, n)
    <3>1. Group(M, n, t) = {m} /\ m # k /\ m \in E
      BY <1>3, <2>1, <2>5 DEF Leads
    <3>2. Group(N, n, t) = {m}
      BY <2>2, <3>1
    <3>3. Pos(N, m) <= Pos(N, n) /\ ~ (Pos(N, m) > Pos(N, n))
      <4>1. Pos(N, m) <= Pos(M, m) /\ Pos(N, m) \in Nat /\ Pos(M, m) \in Nat
        BY <1>0, <1>2, <1>3, <1>k, <3>1
      <4> QED
        BY <2>3, <2>5, <4>1
    <3> QED
      BY <2>1, <2>5, <3>2, <3>3 DEF Leads
  <2>6. CASE m # Null /\ Pos(M, m) > Pos(M, n)
    <3>1. Below(M, n, t, m) /\ m \in E
      BY <2>1, <2>6 DEF Leads
    <3>2. m # a
      BY <1>3, <1>13, <2>1, <3>1, LinksToLeaf
    <3>3. Pos(N, m) = Pos(M, m) /\ Pos(M, m) \in Nat
      BY <1>0, <1>3, <3>1, <3>2
    <3>4. ASSUME NEW x \in Group(N, n, t)
          PROVE  Way(N, x, m) /\ (Pos(N, x) > Pos(N, n) => Pos(N, x) >= Pos(N, m))
      <4>1. x \in E /\ x \in Group(M, n, t) /\ Way(M, x, m)
        BY <2>2, <3>1, <3>4, <1>3 DEF Below, Group
      <4>2. Way(N, x, m)
        BY <1>5, <3>1, <3>2, <4>1
      <4>3. CASE x # a
        BY <1>3, <2>3, <3>1, <3>3, <4>1, <4>2, <4>3 DEF Below
      <4>4. CASE x = a
        <5> SUFFICES ASSUME Pos(M, k) > Pos(M, n) PROVE Pos(M, k) >= Pos(M, m)
          BY <1>3, <2>3, <3>3, <4>2, <4>4
        <5>1. Agree(a, n, Pos(M, n)) /\ Toward(a, Pos(M, n)) = t
          BY <4>1, <4>4 DEF Group, Way
        <5>2. Agree(k, a, Pos(M, n)) /\ Toward(k, Pos(M, n)) = Toward(a, Pos(M, n))
          BY <1>k, <2>3, AgreeIs
        <5>3. Agree(k, n, Pos(M, n))
          BY <2>3, <5>1, <5>2, AgreeIs
        <5>4. k \in Group(M, n, t)
          BY <1>1, <5>1, <5>2, <5>3 DEF Group, Way
        <5> QED
          BY <3>1, <5>4 DEF Below
      <4> QED
        BY <4>3, <4>4
    <3>5. m \in Group(N, n, t)
      BY <1>3, <2>2, <3>1 DEF Below
    <3>6. Pos(N, m) > Pos(N, n) /\ ~ (Pos(N, m) <= Pos(N, n))
      BY <2>3, <2>6, <3>3
    <3> HIDE DEF m
    <3>7. Below(N, n, t, m)
      BY <3>4, <3>5, <3>6 DEF Below
    <3> QED
      BY <2>1, <2>6, <3>6, <3>7 DEF Leads
  <2>7. m # Null => Pos(M, m) \in Nat
    BY <1>0, <1>3, <2>1
  <2> QED
    BY <2>3, <2>4, <2>5, <2>6, <2>7
\* The link that has led to k.
<1>14. Leads(N, g, h)
  <2>1. Link(N, g, h) = a
    BY <1>2, <1>3
  <2>2. Group(N, g, h) = Group(M, g, h) \ {k}
    BY <1>2, <1>3, <1>6
  <2>3. Pos(N, g) = Pos(M, g) /\ Pos(N, a) > Pos(N, g) /\ ~ (Pos(N, a) <= Pos(N, g))
    BY <1>0, <1>1, <1>2, <1>3
  <2>4. a \in Group(M, g, h)
    <3>1. Agree(a, k, Pos(M, g)) /\ Toward(a, Pos(M, g)) = h /\ Pos(M, g) \in Nat
      BY <1>0, <1>1, <1>2, <1>k, AgreeIs
    <3>2. Agree(a, g, Pos(M, g))
      BY <1>1, <3>1, AgreeIs DEF Way
    <3> QED
      BY <1>1, <3>1, <3>2 DEF Group, Way
  <2>5. ASSUME NEW x \in Group(N, g, h)
        PROVE  Way(N, x, a) /\ (Pos(N, x) > Pos(N, g) => Pos(N, x) >= Pos(N, a))
    <3>1. x \in E /\ x \in Group(M, g, h)
      BY <1>3, <2>2, <2>5 DEF Group
    <3>2. Way(N, x, a)
      BY <1>2, <1>7, <3>1 DEF Below
    <3>3. CASE x = a
      BY <1>3, <1>k, <3>2, <3>3
    <3>4. CASE x # a
      BY <1>2, <1>3, <2>3, <3>1, <3>2, <3>4 DEF Below
    <3> QED
      BY <3>3, <3>4
  <2>6. Below(N, g, h, a)
    BY <1>1, <1>3, <2>2, <2>3, <2>4, <2>5 DEF Below
  <2> QED
    BY <1>0, <1>1, <2>1, <2>3, <2>6 DEF Leads
\* The node that takes the place of k.
<1>15. ASSUME NEW t \in Sides PROVE Leads(N, a, t)
  <2>1. CASE t = s
    <3>0. Link(N, a, t) = next /\ Group(N, a, t) = Group(M, a, Other(v)) /\ Leads(M, a, Other(v))
          /\ next \in E \cup {Null}
      BY <1>1, <1>2, <1>3, <1>4, <1>8, <1>9, <1>10, <2>1 DEF Linking
    <3>1. CASE next = Null
      BY <1>4, <3>0, <3>1 DEF Leads
    <3>2. CASE next # Null /\ Pos(M, next) <= Pos(M, a)
      <4>1. Group(M, a, Other(v)) = {next} /\ next \in E
        BY <1>4, <3>0, <3>2 DEF Leads
      <4>2. next \in Group(M, k, s)
        BY <1>9, <4>1
      <4>3. Pos(N, next) <= Pos(N, a)
        <5>1. CASE next = a
          BY <1>3, <1>k, <5>1
        <5>2. CASE next # a
          <6>1. Pos(N, next) = Pos(M, next) /\ Pos(M, next) \in Nat
            BY <1>0, <1>3, <4>1, <5>2
          <6>2. Pos(M, next) # Pos(M, a)
            <7>1. next \in Group(M, a, Other(v))
              BY <4>1
            <7> QED
              BY <1>1, <1>3, <4>1, <5>2, <7>1 DEF Distinct, Group
          <6>3. ~ (Pos(M, next) > Pos(M, k))
            BY <1>2, <1>k, <3>2, <4>2, <6>1, <6>2 DEF Below
          <6> QED
            BY <1>3, <1>k, <6>1, <6>3
        <5> QED
          BY <5>1, <5>2
      <4>4. Pos(N, next) \in Nat /\ ~ (Pos(N, next) > Pos(N, a))
        BY <1>0, <1>3, <1>k, <4>1, <4>3
      <4> QED
        BY <3>0, <3>2, <4>1, <4>3, <4>4 DEF Leads
    <3>3. CASE next # Null /\ Pos(M, next) > Pos(M, a)
      <4>1. Below(M, a, Other(v), next) /\ next \in E
        BY <1>4, <3>0, <3>3 DEF Leads
      <4>2. next # a /\ Pos(N, next) = Pos(M, next) /\ Pos(M, next) \in Nat
        BY <1>0, <1>3, <1>k, <3>3, <4>1
      <4>3. Pos(N, next) > Pos(N, a) /\ ~ (Pos(N, next) <= Pos(N, a))
        BY <1>2, <1>3, <1>k, <3>3, <4>2
      <4>4. ASSUME NEW x \in Group(M, a, Other(v))
            PROVE  Way(N, x, next) /\ (Pos(N, x) > Pos(N, a) => Pos(N, x) >= Pos(N, next))
        <5>1. x \in E /\ Way(M, x, next) /\ x \in Group(M, k, s) /\ Way(M, x, a)
          BY <1>3, <1>9, <4>1, <4>4 DEF Below, Group
        <5>2. Way(N, x, next)
          BY <1>5, <4>1, <4>2, <5>1
        <5>3. CASE x = a
          BY <1>3, <1>k, <5>2, <5>3
        <5>4. CASE x # a
          <6>1. Pos(N, x) = Pos(M, x) /\ Pos(M, x) \in Nat
            BY <1>0, <1>3, <5>1, <5>4
          <6>2. Pos(M, x) # Pos(M, a)
            BY <1>1, <1>3, <5>1, <5>4 DEF Distinct
          <6>3. Pos(M, x) > Pos(M, k) => Pos(M, x) > Pos(M, a)
            BY <1>2, <1>k, <5>1, <6>1, <6>2 DEF Below
          <6>4. Pos(M, x) > Pos(M, a) => Pos(M, x) >= Pos(M, next)
            BY <4>1, <4>4 DEF Below
          <6> QED
            BY <1>3, <4>2, <5>2, <6>1, <6>3, <6>4
        <5> QED
          BY <5>3, <5>4
      <4>5. next \in Group(M, a, Other(v))
        BY <4>1 DEF Below
      <4>6. Below(N, a, t, next)
        BY <3>0, <4>3, <4>4, <4>5 DEF Below
      <4> QED
        BY <3>0, <3>3, <4>3, <4>6 DEF Leads
    <3>4. next # Null => Pos(M, next) \in Nat
      BY <1>0, <1>4
    <3> QED
      BY <1>k, <3>1, <3>2, <3>3, <3>4
  <2>2. CASE t # s
    <3> DEFINE m == Link(M, k, t)
    <3>0. /\ Link(N, a, t) = m /\ m \in E \cup {Null} /\ Leads(M, k, t)
          /\ Group(N, a, t) = Group(M, k, t)
      <4>1. Link(N, a, t) = m /\ Leads(M, k, t)
        BY <1>1, <1>2, <1>3, <2>2 DEF Linking
      <4>2. k \notin Group(M, k, t)
        BY <1>1, <2>2 DEF Group
      <4> QED
        BY <1>3, <1>8, <1>10, <4>1, <4>2
    <3>1. a \notin Group(M, k, t)
      BY <1>2, <2>2 DEF Below, Group
    <3> HIDE DEF m
    <3>m. /\ m = Null => Group(M, k, t) = {}
          /\ m # Null /\ Pos(M, m) <= Pos(M, k) => Group(M, k, t) = {m}
          /\ m # Null /\ Pos(M, m) > Pos(M, k) => Below(M, k, t, m)
      BY <3>0 DEF Leads, m
    <3>2. CASE m = Null
      BY <3>0, <3>m, <3>2 DEF Leads
    <3>3. m # Null => m \in E /\ m # a /\ Pos(N, m) = Pos(M, m) /\ Pos(M, m) \in Nat
      <4> SUFFICES ASSUME m # Null PROVE m # a
        BY <1>0, <1>3, <3>0
      <4>1. m \in D /\ Pos(M, m) \in Nat
        BY <1>0, <1>3, <3>0
      <4>2. Pos(M, m) <= Pos(M, k) \/ Pos(M, m) > Pos(M, k)
        BY <1>k, <4>1
      <4> QED
        BY <3>1, <3>m, <4>2 DEF Below
    <3>4. CASE m # Null /\ Pos(M, m) <= Pos(M, k)
      <4>1. ~ (Pos(N, m) > Pos(N, a)) /\ Pos(N, m) <= Pos(N, a)
        BY <1>3, <1>k, <3>3, <3>4
      <4> QED
        BY <3>0, <3>m, <3>4, <4>1 DEF Leads
    <3>5. CASE m # Null /\ Pos(M, m) > Pos(M, k)
      <4>1. ~ (Pos(N, m) <= Pos(N, a)) /\ Pos(N, m) > Pos(N, a)
        BY <1>3, <1>k, <3>3, <3>5
      <4>2. ASSUME NEW x \in Group(M, k, t)
            PROVE  Way(N, x, m) /\ (Pos(N, x) > Pos(N, a) => Pos(N, x) >= Pos(N, m))
        <5>1. x \in E /\ x # a /\ Way(M, x, m) /\ (Pos(M, x) > Pos(M, k) => Pos(M, x) >= Pos(M, m))
          <6>1. k \notin Group(M, k, t)
            BY <1>1, <2>2 DEF Group
          <6> QED
            BY <1>3, <3>1, <3>m, <3>5, <4>2, <6>1 DEF Below, Group
        <5>2. Way(N, x, m)
          BY <1>5, <3>3, <3>5, <5>1
        <5> QED
          BY <1>3, <3>3, <3>5, <5>1, <5>2
      <4>3. Below(N, a, t, m)
        BY <3>0, <3>m, <3>5, <4>1, <4>2 DEF Below
      <4> QED
        BY <3>0, <3>5, <4>1, <4>3 DEF Leads
    <3> QED
      BY <1>k, <3>2, <3>3, <3>4, <3>5
  <2> QED
    BY <2>1, <2>2
<1>16. Linking(N)
  <2> SUFFICES ASSUME NEW n \in E, NEW t \in Sides
               PROVE  /\ Pos(N, n) < size(n) => Leads(N, n, t)
                      /\ Pos(N, n) >= size(n) => Link(N, n, t) = Null
    BY DEF Linking
  <2>1. CASE n = a
    <3>1. ~ (Pos(N, n) >= size(n))
      BY <1>0, <1>1, <1>2, <1>3, <2>1
    <3> QED
      BY <1>15, <2>1, <3>1
  <2>2. CASE n # a
    <3>1. n \in D /\ Pos(N, n) = Pos(M, n)
      BY <1>3, <2>2
    <3>2. Pos(M, n) < size(n) => Leads(N, n, t)
      BY <1>13, <1>14, <2>2
    <3>3. Pos(M, n) >= size(n) => Link(M, n, t) = Null /\ n # g
      BY <1>0, <1>2, <3>1 DEF Linking
    <3> QED
      BY <1>3, <2>2, <3>1, <3>2, <3>3
  <2> QED
    BY <2>1, <2>2
<1> QED
  BY <1>11, <1>12, <1>16


\* What the guards of the caller say of the node of k.
LEMMA EraseLeaf ==
  ASSUME DifferFirst, Shape(memory, root_node), Distinct(memory), Linking(memory),
         NEW k \in DOMAIN memory, k # root_node,
         NEW s, s = Side(memory, k, k), NEW a, a = memory[k].link[s], a # k, a # Null,
         memory[a].link[Side(memory, a, k)] = k
  PROVE  /\ a \in DOMAIN memory /\ Pos(memory, k) < Pos(memory, a) /\ Pos(memory, a) < ItemBits
         /\ look_up(k, {}) = <<a, k>>
<1> DEFINE D == DOMAIN memory
           v == Toward(k, Pos(memory, a))
<1>0. /\ ItemBits \in Nat
      /\ \A x \in D : /\ Pos(memory, x) \in Nat /\ Pos(memory, x) <= ItemBits
                      /\ x \in Key /\ x # Null /\ size(x) \in Nat /\ size(x) >= ItemBits
      /\ \A x \in D, t \in Sides : Link(memory, x, t) \in D \cup {Null}
  BY ShapeIs
<1>1. /\ s = Toward(k, Pos(memory, k)) /\ a = Link(memory, k, s) /\ Link(memory, a, v) = k
      /\ s \in Sides /\ v \in Sides
  BY SidesTwo DEF Side, Link, Pos
<1>2. a \in D
  BY <1>0, <1>1
<1>3. Pos(memory, k) < size(k) /\ Pos(memory, a) < size(a)
  BY <1>0, <1>1, <1>2 DEF Linking
<1>4. Leads(memory, k, s) /\ Leads(memory, a, v)
  BY <1>1, <1>2, <1>3 DEF Linking
<1>5. k \in Group(memory, k, s)
  BY <1>1, AgreeSelf DEF Group, Way
<1>6. Pos(memory, k) < Pos(memory, a)
  <2> SUFFICES ASSUME Pos(memory, a) <= Pos(memory, k) PROVE FALSE
    BY <1>0, <1>2
  <2>1. Group(memory, k, s) = {a}
    BY <1>1, <1>4 DEF Leads
  <2> QED
    BY <1>5, <2>1
<1>7. Agree(k, a, Pos(memory, a))
  <2>1. Group(memory, a, v) = {k}
    BY <1>0, <1>1, <1>2, <1>4, <1>6 DEF Leads
  <2> QED
    BY <2>1 DEF Group, Way
<1>8. Pos(memory, a) < ItemBits
  <2>1. Pos(memory, a) # ItemBits
    BY <1>0, <1>2, <1>7, OneKey
  <2> QED
    BY <1>0, <1>2, <2>1
<1>9. Search(k, {})[a] = <<a, k>>
  <2>1. Pos(memory, a) < size(k) /\ Pos(memory, k) <= Pos(memory, a)
    BY <1>0, <1>2, <1>6, <1>8
  <2>2. /\ Shape(memory, root_node) /\ a \in DOMAIN memory /\ k \in Key /\ k # Null
        /\ k = Link(memory, a, Toward(k, Pos(memory, a)))
    BY <1>0, <1>1, <1>2, <2>1
  <2>3. Here(k, {}, a, k)
    BY <2>2, SearchHere
  <2> QED
    BY <2>1, <2>3 DEF Here
<1>10. Search(k, {})[k] = Search(k, {})[a]
  <2>1. <<k, a>> \notin {}
    OBVIOUS
  <2>2. /\ k \in DOMAIN memory /\ k \in Key /\ a # Null /\ Pos(memory, k) < size(k)
        /\ a = Link(memory, k, Toward(k, Pos(memory, k)))
    BY <1>0, <1>1, <1>2, <1>3
  <2>3. Here(k, {}, k, a)
    <3> HIDE DEF D, v
    <3> QED
      BY <2>2, SearchHere
  <2>4. Pos(memory, k) < size(k) =>
          (a # Null /\ Pos(memory, a) > Pos(memory, k) /\ <<k, a>> \notin {}
             => Search(k, {})[k] = Search(k, {})[a])
    BY <2>3, Zenon DEF Here
  <2>5. Pos(memory, a) > Pos(memory, k)
    BY <1>0, <1>2, <1>6, <2>2
  <2> HIDE DEF D, v
  <2> QED
    BY <2>1, <2>2, <2>4, <2>5, Zenon
<1>11. root_node \in D /\ root_node # Null /\ Pos(memory, root_node) = 0
  BY ConstantsAssumption DEF Shape
<1>12. Search(k, {})[root_node] = Search(k, {})[k]
  <2>1. Way(memory, k, k) /\ Way(memory, k, root_node) /\ Unstopped(k, {}, k)
        /\ Pos(memory, root_node) <= Pos(memory, k) /\ k \in Key
    BY <1>0, <1>11, AgreeSelf, AgreeNone DEF Way, Unstopped
  <2> QED
    BY <1>11, <2>1, SearchComes
<1>13. look_up(k, {}) = <<a, k>>
  BY <1>9, <1>10, <1>11, <1>12, LookUpIs
<1> QED
  BY <1>2, <1>6, <1>8, <1>13

\* The second search of erase comes to the node right above that of k.
LEMMA EraseGrand ==
  ASSUME Shape(memory, root_node), Distinct(memory), Linking(memory),
         NEW k \in DOMAIN memory, k # root_node
  PROVE  \E g \in DOMAIN memory :
           /\ look_up(k, (DOMAIN memory) \X {k})[1] = g
           /\ Way(memory, k, g) /\ Pos(memory, g) < Pos(memory, k)
           /\ Link(memory, g, Toward(k, Pos(memory, g))) = k
<1> DEFINE D == DOMAIN memory
           T == {m \in D : Way(memory, k, m) /\ Pos(memory, m) < Pos(memory, k)}
           stops == D \X {k}
<1>0. /\ ItemBits \in Nat /\ k \in Key /\ size(k) \in Nat /\ size(k) >= ItemBits
      /\ \A x \in D : Pos(memory, x) \in Nat /\ Pos(memory, x) <= ItemBits /\ x # Null
  BY ShapeIs
<1>1. root_node \in D /\ root_node # Null /\ Pos(memory, root_node) = 0 /\ Way(memory, k, root_node)
  BY ConstantsAssumption, AgreeNone DEF Shape, Way
<1>2. Pos(memory, k) > 0
  <2> SUFFICES ASSUME Pos(memory, k) = 0 PROVE FALSE
    BY <1>0
  <2> QED
    BY <1>1 DEF Distinct
<1>3. T \subseteq D /\ T # {}
  BY <1>0, <1>1, <1>2
<1>4. PICK g \in T : \A m \in T : Pos(memory, m) <= Pos(memory, g)
  <2> HIDE DEF T
  <2> QED
    BY <1>3, Highest
<1>5. g \in D /\ Way(memory, k, g) /\ Pos(memory, g) < Pos(memory, k)
  BY <1>4
<1> DEFINE c == Link(memory, g, Toward(k, Pos(memory, g)))
<1>6. /\ Pos(memory, g) < ItemBits /\ c \in D /\ Pos(memory, c) <= Pos(memory, k) /\ Way(memory, k, c)
      /\ Pos(memory, c) > Pos(memory, g)
  <2>1. Way(memory, k, k)
    BY AgreeSelf DEF Way
  <2> QED
    BY <1>0, <1>5, <2>1, WayDown DEF Below
<1>7. c = k
  <2>1. ~ (Pos(memory, c) < Pos(memory, k))
    BY <1>0, <1>4, <1>5, <1>6
  <2>2. Pos(memory, c) = Pos(memory, k)
    BY <1>0, <1>6, <2>1
  <2> QED
    BY <1>6, <2>2 DEF Distinct, Way
<1>8. Unstopped(k, stops, g)
  BY <1>0, <1>5 DEF Unstopped
<1>9. Search(k, stops)[root_node] = Search(k, stops)[g]
  <2>1. Pos(memory, root_node) <= Pos(memory, g)
    BY <1>0, <1>1, <1>5
  <2> HIDE DEF stops
  <2> QED
    BY <1>0, <1>1, <1>5, <1>8, <2>1, SearchComes
<1>10. Search(k, stops)[g] = <<g, k>>
  <2>1. <<g, k>> \in stops /\ Pos(memory, g) < size(k)
    BY <1>0, <1>5, <1>6
  <2> HIDE DEF stops
  <2> QED
    BY <1>0, <1>5, <1>7, <2>1, SearchStops
<1>11. look_up(k, stops) = <<g, k>>
  <2> HIDE DEF stops
  <2> QED
    BY <1>1, <1>9, <1>10, LookUpIs
<1> QED
  BY <1>5, <1>7, <1>11

\* L with a in the place of k, and k in that of a.
Swapped(L, a, k, p, links, node) ==
  [L EXCEPT ![a].position = p, ![a].link = links, ![k] = node]

LEMMA SwappedIs ==
  ASSUME NEW L, NEW X, NEW P, Nodes(L, X, P), NEW a \in DOMAIN L, NEW k \in DOMAIN L, a # k,
         NEW p \in P, NEW links \in [Sides -> X], NEW node \in [link : [Sides -> X], position : P],
         NEW W, W = Swapped(L, a, k, p, links, node)
  PROVE  /\ DOMAIN W = DOMAIN L /\ Nodes(W, X, P)
         /\ Pos(W, a) = p /\ Pos(W, k) = node.position
         /\ \A t \in Sides : Link(W, a, t) = links[t] /\ Link(W, k, t) = node.link[t]
         /\ \A n \in DOMAIN L : n # a /\ n # k => W[n] = L[n]
<1> DEFINE R == [link : [Sides -> X], position : P]
<1>0. W = [L EXCEPT ![a].position = p, ![a].link = links, ![k] = node]
  BY DEF Swapped
<1>1. \A n \in DOMAIN L : L[n] \in R
  BY DEF Nodes
<1>2. DOMAIN W = DOMAIN L
  BY <1>0
<1>3. W[k] = node
  BY <1>0
<1>4. \A n \in DOMAIN L : n # a /\ n # k => W[n] = L[n]
  BY <1>0
<1>5. W[a] = [[L[a] EXCEPT !.position = p] EXCEPT !.link = links]
  BY <1>0
<1>6. W[a] \in R /\ W[a].position = p /\ W[a].link = links
  BY <1>1, <1>5
<1>7. Nodes(W, X, P)
  BY <1>1, <1>2, <1>3, <1>4, <1>6 DEF Nodes
<1> QED
  BY <1>2, <1>3, <1>4, <1>6, <1>7 DEF Pos, Link

LEMMA StepErase ==
  ASSUME DifferFirst, TrieInv, NEW k \in Key, k # root_node, IsInner(k), IsAboveLeaf(k), erase(k)
  PROVE  TrieInv'
<1> DEFINE M == memory
           D == DOMAIN memory
           X == DOMAIN memory \cup {Null}
           P == 0 .. ItemBits
           s == Side(memory, k, k)
           a == memory[k].link[s]
           v == Toward(k, Pos(memory, a))
<1>0. Shape(memory, root_node) /\ Distinct(memory) /\ Linking(memory) /\ live = D
  BY DEF TrieInv
<1>1. k \in D /\ a # k /\ a # Null /\ memory[a].link[Side(memory, a, k)] = k
  BY DEF IsInner, IsAboveLeaf
<1>2. /\ a \in D /\ Pos(memory, k) < Pos(memory, a) /\ Pos(memory, a) < ItemBits
      /\ look_up(k, {}) = <<a, k>>
  <2> HIDE DEF D, a, s
  <2>1. s = Side(memory, k, k) /\ a = memory[k].link[s]
    BY DEF a, s
  <2> QED
    BY <1>0, <1>1, <2>1, EraseLeaf DEF D
<1>3. PICK g \in D : /\ look_up(k, D \X {k})[1] = g
                     /\ Way(memory, k, g) /\ Pos(memory, g) < Pos(memory, k)
                     /\ Link(memory, g, Toward(k, Pos(memory, g))) = k
  BY <1>0, <1>1, EraseGrand
<1> DEFINE h == Toward(k, Pos(memory, g))
<1>4. /\ ItemBits \in Nat
      /\ \A x \in D : Pos(memory, x) \in P /\ x # Null
      /\ \A x \in D, t \in Sides : Link(memory, x, t) \in X
      /\ Nodes(memory, X, P)
  BY <1>0, ShapeIs DEF Nodes, Shape
<1>5. Between(memory, k, g, a, h, s, v)
  BY <1>1, <1>2, <1>3, <1>4 DEF Between, Side, Pos, Link
<1>6. /\ h \in Sides /\ s \in Sides /\ v \in Sides /\ Other(v) \in Sides /\ Other(v) # v
      /\ Side(memory, g, k) = h /\ s = Toward(k, Pos(memory, k)) /\ Side(memory, a, k) = v
  BY SidesTwo DEF Side, Pos
<1>7. g # k /\ g # a /\ a # k
  BY <1>1, <1>2, <1>3, <1>4
<1> DEFINE L == Linked(memory, g, h, a)
<1>8. /\ DOMAIN L = D /\ Nodes(L, X, P)
      /\ \A n \in D : Pos(L, n) = Pos(memory, n)
      /\ \A n \in D, t \in Sides : Link(L, n, t) = IF n = g /\ t = h THEN a ELSE Link(memory, n, t)
  <2>1. /\ a \in X /\ Nodes(memory, X, P) /\ g \in DOMAIN memory /\ h \in Sides
        /\ L = Linked(memory, g, h, a)
    BY <1>2, <1>3, <1>4, <1>6
  <2> HIDE DEF P, X, a, h, L, D
  <2>2. /\ DOMAIN L = DOMAIN memory /\ Nodes(L, X, P)
        /\ \A n \in DOMAIN memory : Pos(L, n) = Pos(memory, n)
        /\ \A n \in DOMAIN memory, t \in Sides :
             Link(L, n, t) = IF n = g /\ t = h THEN a ELSE Link(memory, n, t)
    BY <2>1, LinkedIs
  <2> QED
    BY <2>2 DEF D
<1> DEFINE next == Link(memory, a, Other(v))
<1>9. L[a].link[IF L[a].link["right"] = k THEN "left" ELSE "right"] = next /\ next \in X /\ next # k
  <2>1. \A t \in Sides : L[a].link[t] = Link(memory, a, t)
    BY <1>2, <1>7, <1>8 DEF Link
  <2>2. next # k
    <3> SUFFICES ASSUME next = k PROVE FALSE
      OBVIOUS
    <3>1. Link(memory, a, Other(v)) = k /\ Other(v) \in Sides /\ Other(v) # v
      BY <1>6
    <3> HIDE DEF a, v, h, s, next
    <3>2. (a = g /\ Other(v) = h) \/ (a = a /\ Other(v) = v)
      BY <1>0, <1>2, <1>5, <3>1, LinksToErased
    <3> QED
      BY <1>7, <3>1, <3>2
  <2>3. Link(memory, a, v) = k
    BY <1>5 DEF Between
  <2>4. "right" \in Sides /\ "left" \in Sides
    BY DEF Sides
  <2>5. CASE v = "right"
    <3>1. Other(v) = "left"
      BY <2>5 DEF Other
    <3> HIDE DEF L, a, v
    <3> QED
      BY <1>2, <1>4, <1>6, <2>1, <2>2, <2>3, <2>4, <2>5, <3>1
  <2>6. CASE v = "left"
    <3>1. Other(v) = "right"
      BY <2>6 DEF Other
    <3> HIDE DEF L, a, v
    <3> QED
      BY <1>2, <1>4, <1>6, <2>1, <2>2, <2>3, <2>4, <2>6, <3>1
  <2> HIDE DEF v
  <2> QED
    BY <1>6, <2>5, <2>6 DEF Sides
<1> DEFINE links == [t \in Sides |-> IF t = s THEN k ELSE L[k].link[t]]
           node == SelfLinked(k, next, Pos(memory, a))
           W == [L EXCEPT ![a].position = Pos(memory, k), ![a].link = links, ![k] = node]
<1>10. WithLeafAbove(k, a) = W
  <2>1. look_up(k, (DOMAIN memory) \X {k})[1] = g
    BY <1>3
  <2>2. position(k) = Pos(memory, k) /\ position(a) = Pos(memory, a)
    BY DEF position, Pos
  <2> QED
    BY <1>6, <1>9, <2>1, <2>2, Zenon DEF WithLeafAbove
<1>11. /\ DOMAIN W = D /\ Nodes(W, X, P)
       /\ Pos(W, a) = Pos(memory, k) /\ Pos(W, k) = Pos(memory, a)
       /\ \A t \in Sides : Link(W, a, t) = IF t = s THEN k ELSE Link(memory, k, t)
       /\ \A t \in Sides : Link(W, k, t) = IF t = v THEN k ELSE next
       /\ \A n \in D : n # a /\ n # k => W[n] = L[n]
  <2>1. links \in [Sides -> X] /\ \A t \in Sides : links[t] = IF t = s THEN k ELSE Link(memory, k, t)
    <3>1. \A t \in Sides : L[k].link[t] = Link(memory, k, t) /\ Link(memory, k, t) \in X
      BY <1>1, <1>4, <1>7, <1>8 DEF Link
    <3> HIDE DEF L
    <3> QED
      BY <1>1, <3>1
  <2>2. /\ node.position = Pos(memory, a) /\ node \in [link : [Sides -> X], position : P]
        /\ \A t \in Sides : node.link[t] = IF t = v THEN k ELSE next
    <3>1. k \in X /\ next \in X /\ Pos(memory, a) \in P
      BY <1>1, <1>2, <1>4, <1>9
    <3>2. node = SelfLinked(k, next, Pos(memory, a))
      OBVIOUS
    <3> HIDE DEF node, next, X, P, a
    <3> QED
      BY <3>1, <3>2, SelfLinkedIs
  <2>3. Pos(memory, k) \in P
    BY <1>1, <1>4
  <2>4. W = Swapped(L, a, k, Pos(memory, k), links, node)
    BY DEF Swapped
  <2> HIDE DEF W, links, node, L, a, X, P, v, s
  <2>5. /\ DOMAIN W = DOMAIN L /\ Nodes(W, X, P)
        /\ Pos(W, a) = Pos(memory, k) /\ Pos(W, k) = node.position
        /\ \A t \in Sides : Link(W, a, t) = links[t] /\ Link(W, k, t) = node.link[t]
        /\ \A n \in DOMAIN L : n # a /\ n # k => W[n] = L[n]
    <3>1. /\ Nodes(L, X, P) /\ a \in DOMAIN L /\ k \in DOMAIN L /\ a # k
          /\ links \in [Sides -> X] /\ node \in [link : [Sides -> X], position : P]
      BY <1>1, <1>2, <1>7, <1>8, <2>1, <2>2
    <3> QED
      BY <2>3, <2>4, <3>1, SwappedIs
  <2> QED
    BY <1>8, <2>1, <2>2, <2>5
<1> DEFINE K == Linked(W, a, s, next)
           N == Restrict(K, D \ {k})
<1>12. memory' = N /\ live' = D \ {k} /\ UNCHANGED root_node
  <2>1. memory' = remove_leaf(WithLeafAbove(k, a), a, k)
    <3>1. look_up(k, {})[1] = a
      BY <1>2
    <3> HIDE DEF a
    <3> QED
      BY <3>1 DEF erase
  <2>2. Side(W, a, k) = s
    <3> HIDE DEF W, a
    <3> QED
      BY <1>6, <1>11 DEF Side, Pos
  <2>3. keptLink(W, k) = next
    <3>1. Side(W, k, k) = v
      <4> HIDE DEF W, a
      <4> QED
        BY <1>11 DEF Side, Pos
    <3> HIDE DEF W, v, next
    <3> QED
      BY <1>6, <1>11, <3>1 DEF keptLink, Link
  <2>4. remove_leaf(W, a, k) = N
    <3> HIDE DEF W, next, a, s
    <3> QED
      BY <1>11, <2>2, <2>3 DEF remove_leaf
  <2>5. live' = live \ {k} /\ UNCHANGED root_node
    BY DEF erase
  <2> HIDE DEF W, N, a
  <2> QED
    BY <1>0, <1>10, <2>1, <2>4, <2>5
<1>13. /\ DOMAIN K = D /\ Nodes(K, X, P)
       /\ \A n \in D : Pos(K, n) = Pos(W, n)
       /\ \A n \in D, t \in Sides : Link(K, n, t) = IF n = a /\ t = s THEN next ELSE Link(W, n, t)
  <2> HIDE DEF W, X, P, next, a, s
  <2> QED
    BY <1>2, <1>6, <1>9, <1>11, LinkedIs
<1>14. DOMAIN N = D \ {k} /\ \A n \in D \ {k} : N[n] = K[n]
  <2> HIDE DEF K
  <2> QED
    BY DEF Restrict
<1>15. Lifted(memory, N, k, g, a, h, s, v)
  <2> HIDE DEF K, N, W, X, P, L, a, s, h, v, next
  <2>1. Nodes(N, X, P)
    BY <1>13, <1>14 DEF Nodes
  <2>2. \A n \in D \ {k} : Pos(N, n) = IF n = a THEN Pos(memory, k) ELSE Pos(memory, n)
    <3>1. \A n \in D \ {k} : Pos(N, n) = Pos(W, n)
      BY <1>13, <1>14 DEF Pos
    <3>2. \A n \in D \ {k} : n # a => Pos(W, n) = Pos(memory, n)
      BY <1>8, <1>11 DEF Pos
    <3> QED
      BY <1>11, <3>1, <3>2
  <2>3. \A n \in D \ {k}, t \in Sides :
          Link(N, n, t) = IF n = a /\ t = s THEN next ELSE Link(W, n, t)
    BY <1>13, <1>14 DEF Link
  <2>4. \A t \in Sides : Link(N, a, t) = IF t = s THEN Link(memory, a, Other(v)) ELSE Link(memory, k, t)
    BY <1>2, <1>7, <1>11, <2>3 DEF next
  <2>5. \A n \in D \ {k}, t \in Sides :
          n # a => Link(N, n, t) = IF n = g /\ t = h THEN a ELSE Link(memory, n, t)
    <3>1. \A n \in D \ {k}, t \in Sides : n # a => Link(W, n, t) = Link(L, n, t)
      BY <1>11 DEF Link
    <3> QED
      BY <1>8, <2>3, <3>1
  <2>6. DOMAIN N = DOMAIN memory \ {k}
    BY <1>14
  <2> QED
    BY <1>14, <2>1, <2>2, <2>4, <2>5, <2>6 DEF Lifted, X, P
<1>16. Shape(N, root_node) /\ Distinct(N) /\ Linking(N)
  <2> HIDE DEF N, a, h, s, v
  <2> QED
    BY <1>0, <1>5, <1>15, LiftedKeeps
<1>17. live' = DOMAIN memory' /\ root_node' = root_node
  BY <1>12, <1>14
<1>18. Shape(memory', root_node') /\ Distinct(memory') /\ Linking(memory') /\ live' = DOMAIN memory'
  <2> HIDE DEF N
  <2> QED
    BY <1>12, <1>16, <1>17
<1> QED
  BY <1>18, Zenon DEF TrieInv

-----------------------------------------------------------------------------
(* The invariant.                                                          *)

LEMMA TrieInit == Init => TrieInv
<1> SUFFICES ASSUME Init PROVE TrieInv
  OBVIOUS
<1>1. root_node = Null /\ live = {} /\ DOMAIN memory = {}
  BY DEF Init
<1> QED
  BY <1>1 DEF TrieInv, Shape, Distinct, Linking

LEMMA TrieStep ==
  ASSUME DifferFirst, TrieInv, [NextAboveLeaf]_vars
  PROVE  TrieInv'
<1>1. ASSUME NEW k \in Key, insert(k) PROVE TrieInv'
  BY <1>1, StepInsertFirst, StepInsertBelow DEF insert
<1>2. ASSUME NEW k \in Key, k # root_node, IsInner(k), IsAboveLeaf(k), erase(k) PROVE TrieInv'
  BY <1>2, StepErase
<1>3. ASSUME UNCHANGED vars PROVE TrieInv'
  <2>1. memory' = memory /\ root_node' = root_node /\ live' = live
    BY <1>3 DEF vars
  <2> QED
    BY <2>1, Zenon DEF TrieInv
<1> QED
  BY <1>1, <1>2, <1>3 DEF NextAboveLeaf

\* Nodes are where the search for their keys passes, links lead to where the keys
\* on their side are, and insert and erase keep it like this: for keys that differ
\* in their first items, of any number and length and of any width of the items,
\* when only inner nodes right above their leaves are erased.
THEOREM TrieInvariant == DifferFirst => (SpecAboveLeaf => []TrieInv)
<1> SUFFICES ASSUME DifferFirst PROVE SpecAboveLeaf => []TrieInv
  OBVIOUS
<1>1. TrieInv /\ [NextAboveLeaf]_vars => TrieInv'
  BY TrieStep
<1> QED
  BY <1>1, TrieInit, PTL DEF SpecAboveLeaf

LEMMA TrieTypes == TrieInv => TypeOK
<1> SUFFICES ASSUME TrieInv PROVE TypeOK
  OBVIOUS
<1>0. Shape(memory, root_node) /\ live = DOMAIN memory
  BY DEF TrieInv
<1>1. DOMAIN memory \subseteq Key /\ root_node \in DOMAIN memory \cup {Null}
  BY <1>0 DEF Shape
<1>2. ASSUME NEW k \in DOMAIN memory
      PROVE  position(k) \in 0 .. size(k) /\ \A s \in Sides : memory[k].link[s] \in Key \cup {Null}
  <2>1. Pos(memory, k) \in Nat /\ size(k) \in Nat /\ Pos(memory, k) <= size(k)
        /\ \A s \in Sides : Link(memory, k, s) \in DOMAIN memory \cup {Null}
    BY <1>0, ShapeIs
  <2> QED
    BY <1>1, <2>1 DEF Pos, Link, position
<1> QED
  BY <1>0, <1>1, <1>2 DEF TypeOK

\* Type correctness: links lead to keys, and no position is beyond the end of its
\* node's key; for keys that differ in their first items, when only inner nodes right
\* above their leaves are erased.
THEOREM TrieTypeCorrect == DifferFirst => (SpecAboveLeaf => []TypeOK)
  BY TrieInvariant, TrieTypes, PTL

LEMMA NoLinkDangles == TrieInv => NoDangling
<1> SUFFICES ASSUME TrieInv PROVE NoDangling
  OBVIOUS
<1>1. Shape(memory, root_node)
  BY DEF TrieInv
<1>2. \A n \in DOMAIN memory, s \in Sides : Link(memory, n, s) \in DOMAIN memory \cup {Null}
  BY <1>1, ShapeIs
<1>3. root_node \in DOMAIN memory \cup {Null}
  BY <1>1 DEF Shape
<1> QED
  BY <1>2, <1>3 DEF NoDangling, Link

LEMMA TrieFinds ==
  ASSUME DifferFirst
  PROVE  TrieInv => FindsExactly
  BY ContainsIs, NoLinkDangles DEF FindsExactly, TrieInv

\* contains answers for the keys that have been inserted and not erased, and for
\* no others, whatever the calls before: those that took nodes in between two
\* others, moved a leaf up, or threw; for keys that differ in their first items,
\* when only inner nodes right above their leaves are erased.
THEOREM TrieFindsExactly == DifferFirst => (SpecAboveLeaf => []FindsExactly)
<1> SUFFICES ASSUME DifferFirst PROVE SpecAboveLeaf => []FindsExactly
  OBVIOUS
<1>1. TrieInv => FindsExactly
  BY TrieFinds
<1> QED
  BY <1>1, TrieInvariant, PTL

-----------------------------------------------------------------------------
(* The traversal.                                                          *)

BelowStep(f, n, m) == IF m # Null /\ position(m) > position(n) THEN f[m] ELSE <<>>

TraverseStep(f, n) ==
  BelowStep(f, n, memory[n].link["left"]) \o BelowStep(f, n, memory[n].link["right"]) \o <<n>>

Traverse == CHOOSE f : f = [n \in DOMAIN memory |-> TraverseStep(f, n)]

LEMMA TraverseIs == recursive_traverse = IF root_node = Null THEN <<>> ELSE Traverse[root_node]
  BY Zenon DEF recursive_traverse, Traverse, TraverseStep, BelowStep

LEMMA TraverseExists ==
  ASSUME Shape(memory, root_node), NEW n \in DOMAIN memory
  PROVE  Traverse[n] = TraverseStep(Traverse, n)
<1> DEFINE D == DOMAIN memory
           R == Seq(D)
           G == [f \in [D -> R] |-> [m \in D |-> TraverseStep(f, m)]]
           rank == [m \in D |-> Pos(memory, m)]
<1>0. /\ ItemBits \in Nat
      /\ \A x \in D : Pos(memory, x) \in 0 .. ItemBits
      /\ \A x \in D, s \in Sides : Link(memory, x, s) \in D \cup {Null}
      /\ "left" \in Sides /\ "right" \in Sides
  BY ShapeIs DEF Sides
<1>a. ASSUME NEW f \in [D -> R], NEW x \in D, NEW m \in D \cup {Null}
      PROVE  BelowStep(f, x, m) \in R
  <2>1. <<>> \in R
    OBVIOUS
  <2> HIDE DEF R
  <2> QED
    BY <2>1 DEF BelowStep
<1>b. ASSUME NEW f \in [D -> R], NEW x \in D PROVE TraverseStep(f, x) \in R
  <2> DEFINE p == BelowStep(f, x, memory[x].link["left"])
             q == BelowStep(f, x, memory[x].link["right"])
  <2>1. p \in Seq(D) /\ q \in Seq(D)
    <3>1. memory[x].link["left"] \in D \cup {Null} /\ memory[x].link["right"] \in D \cup {Null}
      BY <1>0 DEF Link
    <3> HIDE DEF D
    <3> QED
      BY <1>a, <3>1
  <2>2. TraverseStep(f, x) = p \o q \o <<x>>
    BY DEF TraverseStep
  <2> HIDE DEF p, q, D
  <2> QED
    BY <2>1, <2>2
<1>c. ASSUME NEW f \in [D -> R], NEW g \in [D -> R], NEW x \in D,
             \A m \in D : rank[m] > rank[x] => f[m] = g[m]
      PROVE  TraverseStep(f, x) = TraverseStep(g, x)
  <2>1. ASSUME NEW s \in Sides
        PROVE  BelowStep(f, x, memory[x].link[s]) = BelowStep(g, x, memory[x].link[s])
    <3>1. memory[x].link[s] \in D \cup {Null}
      BY <1>0 DEF Link
    <3> DEFINE m == memory[x].link[s]
    <3>2. m # Null /\ position(m) > position(x) => f[m] = g[m]
      BY <1>c, <3>1 DEF position, Pos
    <3> HIDE DEF m
    <3>3. BelowStep(f, x, m) = BelowStep(g, x, m)
      BY <3>2 DEF BelowStep
    <3> QED
      BY <3>3 DEF m
  <2>2. /\ BelowStep(f, x, memory[x].link["left"]) = BelowStep(g, x, memory[x].link["left"])
        /\ BelowStep(f, x, memory[x].link["right"]) = BelowStep(g, x, memory[x].link["right"])
    BY <1>0, <2>1
  <2> QED
    BY <2>2, Zenon DEF TraverseStep
<1>1. Descends(D, R, G, rank, ItemBits)
  <2>1. G \in [[D -> R] -> [D -> R]]
    <3> HIDE DEF R, D
    <3> QED
      BY <1>b
  <2>2. rank \in [D -> 0 .. ItemBits]
    BY <1>0
  <2>3. ASSUME NEW f \in [D -> R], NEW g \in [D -> R], NEW x \in D,
               \A m \in D : rank[m] > rank[x] => f[m] = g[m]
        PROVE  G[f][x] = G[g][x]
    <3>1. TraverseStep(f, x) = TraverseStep(g, x)
      BY <2>3, <1>c
    <3> HIDE DEF R, D
    <3> QED
      BY <3>1
  <2> HIDE DEF G, rank, R
  <2> QED
    BY <2>1, <2>2, <2>3 DEF Descends
<1>2. PICK f \in [D -> R] : f = G[f]
  <2>1. <<>> \in R
    OBVIOUS
  <2> HIDE DEF G, rank, R, D
  <2> QED
    BY <1>1, <2>1, <1>0, Fixpoint
<1>3. f = [m \in DOMAIN memory |-> TraverseStep(f, m)]
  <2> HIDE DEF R
  <2> QED
    BY <1>2
<1>4. Traverse = [m \in DOMAIN memory |-> TraverseStep(Traverse, m)]
  BY <1>3, Zenon DEF Traverse
<1> DEFINE t == Traverse
<1>5. t = [m \in DOMAIN memory |-> TraverseStep(t, m)]
  BY <1>4
<1> HIDE DEF t
<1>6. t[n] = TraverseStep(t, n)
  BY <1>5
<1> QED
  BY <1>6 DEF t

\* t is a list of the nodes U.
Lists(t, U) == t \in Seq(U) /\ ToSet(t) = U /\ IsInjective(t)

LEMMA ListsEmpty == Lists(<<>>, {})
  BY DEF Lists, ToSet, IsInjective

LEMMA ListsOne ==
  ASSUME NEW n
  PROVE  Lists(<<n>>, {n})
<1>1. <<n>> \in Seq({n}) /\ DOMAIN <<n>> = {1} /\ <<n>>[1] = n
  OBVIOUS
<1> QED
  BY <1>1 DEF Lists, ToSet, IsInjective

LEMMA ListsJoined ==
  ASSUME NEW p, NEW q, NEW U, NEW V, Lists(p, U), Lists(q, V), U \cap V = {}
  PROVE  Lists(p \o q, U \cup V)
<1> DEFINE t == p \o q
           W == U \cup V
<1>1. p \in Seq(U) /\ q \in Seq(V) /\ p \in Seq(W) /\ q \in Seq(W)
  BY DEF Lists
<1>2. PICK i \in Nat, j \in Nat : i = Len(p) /\ j = Len(q)
  BY <1>1
<1>3. /\ t \in Seq(W) /\ DOMAIN t = 1 .. i + j /\ DOMAIN p = 1 .. i /\ DOMAIN q = 1 .. j
      /\ \A x \in 1 .. i : t[x] = p[x]
      /\ \A x \in i + 1 .. i + j : t[x] = q[x - i]
  BY <1>1, <1>2
<1>4. U = {p[x] : x \in 1 .. i} /\ V = {q[x] : x \in 1 .. j}
  BY <1>3 DEF Lists, ToSet
<1> HIDE DEF t
<1>5. \A x \in 1 .. i : p[x] \in U /\ t[x] \in U
  BY <1>3, <1>4
<1>6. \A x \in i + 1 .. i + j : x - i \in 1 .. j /\ t[x] \in V
  BY <1>3, <1>4
<1>7. ToSet(t) = U \cup V
  <2>1. ToSet(t) = {t[x] : x \in 1 .. i + j}
    BY <1>3 DEF ToSet
  <2>2. \A x \in 1 .. i + j : x \in 1 .. i \/ x \in i + 1 .. i + j
    BY <1>2
  <2>3. \A u \in U : u \in ToSet(t)
    <3> TAKE u \in U
    <3>1. PICK x \in 1 .. i : u = p[x]
      BY <1>4
    <3>2. x \in 1 .. i + j /\ t[x] = u
      BY <1>2, <1>3, <3>1
    <3> QED
      BY <2>1, <3>2
  <2>4. \A u \in V : u \in ToSet(t)
    <3> TAKE u \in V
    <3>1. PICK x \in 1 .. j : u = q[x]
      BY <1>4
    <3>2. x + i \in i + 1 .. i + j /\ x + i \in 1 .. i + j /\ (x + i) - i = x
      BY <1>2, <3>1
    <3>3. t[x + i] = u
      BY <1>3, <3>1, <3>2
    <3> QED
      BY <2>1, <3>2, <3>3
  <2>5. \A u \in ToSet(t) : u \in U \cup V
    BY <1>5, <1>6, <2>1, <2>2
  <2> QED
    BY <2>3, <2>4, <2>5
<1>8. IsInjective(t)
  <2> SUFFICES ASSUME NEW x \in 1 .. i + j, NEW y \in 1 .. i + j, t[x] = t[y] PROVE x = y
    BY <1>3 DEF IsInjective
  <2>0. (x \in 1 .. i \/ x \in i + 1 .. i + j) /\ (y \in 1 .. i \/ y \in i + 1 .. i + j)
    BY <1>2
  <2>1. CASE x \in 1 .. i /\ y \in 1 .. i
    <3>1. p[x] = p[y]
      BY <1>3, <2>1
    <3> QED
      BY <1>3, <2>1, <3>1 DEF Lists, IsInjective
  <2>2. CASE x \in i + 1 .. i + j /\ y \in i + 1 .. i + j
    <3>1. q[x - i] = q[y - i] /\ x - i \in 1 .. j /\ y - i \in 1 .. j
      BY <1>3, <1>6, <2>2
    <3>2. x - i = y - i
      BY <1>3, <3>1 DEF Lists, IsInjective
    <3> QED
      BY <1>2, <3>2
  <2>3. CASE (x \in 1 .. i /\ y \in i + 1 .. i + j) \/ (y \in 1 .. i /\ x \in i + 1 .. i + j)
    BY <1>5, <1>6, <2>3
  <2> QED
    BY <2>0, <2>1, <2>2, <2>3
<1> QED
  BY <1>3, <1>7, <1>8 DEF Lists, t

\* The nodes at n and below.
Under(n) == {x \in DOMAIN memory : Way(memory, x, n) /\ Pos(memory, x) >= Pos(memory, n)}

\* The nodes below n on side s.
UnderSide(n, s) == {x \in Group(memory, n, s) : Pos(memory, x) > Pos(memory, n)}

LEMMA UnderIs ==
  ASSUME Shape(memory, root_node), Distinct(memory), NEW n \in DOMAIN memory
  PROVE  /\ Under(n) = UnderSide(n, "left") \cup UnderSide(n, "right") \cup {n}
         /\ UnderSide(n, "left") \cap UnderSide(n, "right") = {}
         /\ n \notin UnderSide(n, "left") \cup UnderSide(n, "right")
<1>0. \A x \in DOMAIN memory : Pos(memory, x) \in Nat
  BY ShapeIs
<1>1. \A x \in Under(n) : x = n \/ Pos(memory, x) > Pos(memory, n)
  BY <1>0 DEF Under, Distinct
<1>2. \A x : Toward(x, Pos(memory, n)) \in {"left", "right"}
  BY SidesTwo DEF Sides
<1>3. n \in Under(n)
  BY <1>0, AgreeSelf DEF Under, Way
<1>4. ASSUME NEW x \in Under(n), x # n
      PROVE  x \in UnderSide(n, "left") \/ x \in UnderSide(n, "right")
  <2>1. x \in DOMAIN memory /\ Way(memory, x, n) /\ Pos(memory, x) > Pos(memory, n)
    BY <1>1, <1>4 DEF Under
  <2> QED
    BY <1>2, <2>1 DEF UnderSide, Group
<1>5. \A s : UnderSide(n, s) \subseteq Under(n) /\ n \notin UnderSide(n, s)
  BY <1>0 DEF UnderSide, Under, Group
<1>6. UnderSide(n, "left") \cap UnderSide(n, "right") = {}
  BY DEF UnderSide, Group
<1> QED
  BY <1>3, <1>4, <1>5, <1>6

\* The nodes below n on a side are those at the node its link leads to, and below.
LEMMA UnderSideIs ==
  ASSUME Shape(memory, root_node), Linking(memory), NEW n \in DOMAIN memory, NEW s \in Sides,
         NEW m, m = Link(memory, n, s)
  PROVE  /\ m = Null => UnderSide(n, s) = {}
         /\ m # Null /\ Pos(memory, m) <= Pos(memory, n) => UnderSide(n, s) = {}
         /\ m # Null /\ Pos(memory, m) > Pos(memory, n) => UnderSide(n, s) = Under(m)
<1>0. /\ ItemBits \in Nat /\ m \in DOMAIN memory \cup {Null}
      /\ \A x \in DOMAIN memory : /\ Pos(memory, x) \in Nat /\ Pos(memory, x) <= ItemBits
                                  /\ size(x) \in Nat /\ size(x) >= ItemBits
  BY ShapeIs
<1>1. CASE Pos(memory, n) >= size(n)
  <2>1. m = Null
    BY <1>1 DEF Linking
  <2>2. \A x \in DOMAIN memory : ~ (Pos(memory, x) > Pos(memory, n))
    BY <1>0, <1>1
  <2> QED
    BY <2>1, <2>2 DEF UnderSide, Group
<1>2. CASE Pos(memory, n) < size(n)
  <2>1. /\ m = Null => Group(memory, n, s) = {}
        /\ m # Null /\ Pos(memory, m) <= Pos(memory, n) => Group(memory, n, s) = {m}
        /\ m # Null /\ Pos(memory, m) > Pos(memory, n) => Below(memory, n, s, m)
    BY <1>2 DEF Linking, Leads
  <2>2. m = Null => UnderSide(n, s) = {}
    BY <2>1 DEF UnderSide
  <2>3. m # Null /\ Pos(memory, m) <= Pos(memory, n) => UnderSide(n, s) = {}
    <3> SUFFICES ASSUME m # Null, Pos(memory, m) <= Pos(memory, n), NEW x \in UnderSide(n, s)
                 PROVE  FALSE
      OBVIOUS
    <3>1. x = m /\ Pos(memory, x) > Pos(memory, n)
      BY <2>1 DEF UnderSide
    <3> QED
      BY <1>0, <3>1
  <2>4. ASSUME m # Null, Pos(memory, m) > Pos(memory, n)
        PROVE  UnderSide(n, s) = Under(m)
    <3>0. Below(memory, n, s, m) /\ m \in DOMAIN memory
      BY <1>0, <2>1, <2>4
    <3>1. \A x \in UnderSide(n, s) : x \in Under(m)
      BY <3>0 DEF Below, UnderSide, Under, Group
    <3>2. ASSUME NEW x \in Under(m) PROVE x \in UnderSide(n, s)
      <4>1. x \in DOMAIN memory /\ Agree(x, m, Pos(memory, m)) /\ Pos(memory, x) >= Pos(memory, m)
        BY <3>2 DEF Under, Way
      <4>2. Agree(m, n, Pos(memory, n)) /\ Toward(m, Pos(memory, n)) = s
        BY <3>0 DEF Below, Group, Way
      <4>3. Agree(x, m, Pos(memory, n)) /\ Toward(x, Pos(memory, n)) = Toward(m, Pos(memory, n))
        BY <1>0, <2>4, <3>0, <4>1, AgreeIs
      <4>4. Agree(x, n, Pos(memory, n))
        BY <1>0, <4>2, <4>3, AgreeIs
      <4>5. Pos(memory, x) > Pos(memory, n)
        BY <1>0, <2>4, <3>0, <4>1
      <4> QED
        BY <4>1, <4>2, <4>3, <4>4, <4>5 DEF UnderSide, Group, Way
    <3> QED
      BY <3>1, <3>2
  <2> QED
    BY <2>2, <2>3, <2>4
<1> QED
  BY <1>0, <1>1, <1>2

\* From every node, the traversal lists the nodes at it and below.
LEMMA TraverseLists ==
  ASSUME Shape(memory, root_node), Distinct(memory), Linking(memory), NEW node \in DOMAIN memory
  PROVE  Lists(Traverse[node], Under(node))
<1> DEFINE D == DOMAIN memory
           T == {n \in D : Lists(Traverse[n], Under(n))}
<1>0. /\ \A x \in D : Pos(memory, x) \in Nat
      /\ \A x \in D, s \in Sides : Link(memory, x, s) \in D \cup {Null}
      /\ "left" \in Sides /\ "right" \in Sides
  BY ShapeIs DEF Sides
<1>1. ASSUME NEW n \in D, \A m \in D : Pos(memory, m) > Pos(memory, n) => m \in T
      PROVE  n \in T
  <2>1. ASSUME NEW s \in Sides
        PROVE  Lists(BelowStep(Traverse, n, memory[n].link[s]), UnderSide(n, s))
    <3> DEFINE m == Link(memory, n, s)
    <3>1. m \in D \cup {Null}
      BY <1>0
    <3>2. memory[n].link[s] = m
      BY DEF Link
    <3>3. /\ m = Null => UnderSide(n, s) = {}
          /\ m # Null /\ Pos(memory, m) <= Pos(memory, n) => UnderSide(n, s) = {}
          /\ m # Null /\ Pos(memory, m) > Pos(memory, n) => UnderSide(n, s) = Under(m)
      BY UnderSideIs
    <3> HIDE DEF m
    <3>4. CASE m # Null /\ Pos(memory, m) > Pos(memory, n)
      <4>1. Lists(Traverse[m], Under(m))
        BY <1>1, <3>1, <3>4
      <4>2. BelowStep(Traverse, n, m) = Traverse[m]
        BY <3>4 DEF BelowStep, position, Pos
      <4> QED
        BY <3>2, <3>3, <3>4, <4>1, <4>2
    <3>5. CASE m = Null \/ ~ (Pos(memory, m) > Pos(memory, n))
      <4>1. BelowStep(Traverse, n, m) = <<>>
        BY <3>5 DEF BelowStep, position, Pos
      <4>2. UnderSide(n, s) = {}
        <5>1. m # Null => Pos(memory, m) <= Pos(memory, n)
          BY <1>0, <3>1, <3>5
        <5> QED
          BY <3>3, <5>1
      <4> QED
        BY <3>2, <4>1, <4>2, ListsEmpty
    <3> QED
      BY <3>4, <3>5
  <2> DEFINE p == BelowStep(Traverse, n, memory[n].link["left"])
             q == BelowStep(Traverse, n, memory[n].link["right"])
             U == UnderSide(n, "left")
             V == UnderSide(n, "right")
  <2>2. Lists(p, U) /\ Lists(q, V)
    BY <1>0, <2>1
  <2>3. Under(n) = U \cup V \cup {n} /\ U \cap V = {} /\ n \notin U \cup V
    BY UnderIs
  <2>4. Traverse[n] = p \o q \o <<n>>
    BY TraverseExists DEF TraverseStep
  <2> HIDE DEF p, q, U, V
  <2>5. Lists(p \o q, U \cup V)
    BY <2>2, <2>3, ListsJoined
  <2>6. (U \cup V) \cap {n} = {}
    BY <2>3
  <2>7. Lists((p \o q) \o <<n>>, (U \cup V) \cup {n})
    BY <2>5, <2>6, ListsOne, ListsJoined
  <2>8. Lists(Traverse[n], Under(n))
    BY <2>3, <2>4, <2>7
  <2> QED
    BY <2>8
<1>2. \A n \in D : n \in T
  <2> HIDE DEF T
  <2> QED
    BY <1>1, FromBelow
<1> QED
  BY <1>2

LEMMA TrieTraverses == TrieInv => TraversesAll
<1> SUFFICES ASSUME TrieInv PROVE TraversesAll
  OBVIOUS
<1>0. Shape(memory, root_node) /\ Distinct(memory) /\ Linking(memory)
  BY DEF TrieInv
<1>1. Lists(recursive_traverse, DOMAIN memory)
  <2>1. CASE DOMAIN memory = {}
    <3>1. recursive_traverse = <<>>
      BY <1>0, <2>1, TraverseIs DEF Shape
    <3> QED
      BY <2>1, <3>1, ListsEmpty
  <2>2. CASE DOMAIN memory # {}
    <3>1. root_node \in DOMAIN memory /\ Pos(memory, root_node) = 0 /\ root_node # Null
      BY <1>0, <2>2, ConstantsAssumption DEF Shape
    <3>2. \A x \in DOMAIN memory : Pos(memory, x) \in Nat
      BY <1>0, ShapeIs
    <3>3. Under(root_node) = DOMAIN memory
      BY <3>1, <3>2, AgreeNone DEF Under, Way
    <3> QED
      BY <1>0, <3>1, <3>3, TraverseIs, TraverseLists
  <2> QED
    BY <2>1, <2>2
<1> QED
  BY <1>1, NoLinkDangles DEF TraversesAll, Lists

\* The traversal that clear frees nodes by visits every node that is allocated, and
\* none of them twice; for keys that differ in their first items, when only inner
\* nodes right above their leaves are erased.
THEOREM TrieTraversesAll == DifferFirst => (SpecAboveLeaf => []TraversesAll)
  BY TrieInvariant, TrieTraverses, PTL

=============================================================================
