----------------------------- MODULE Induction -----------------------------
(***************************************************************************)
(* Induction over the natural numbers in first-order form: what is proved  *)
(* by induction is that a set of numbers has no gap.  It comes from the    *)
(* library's theorem that a well-founded relation has minimal elements.    *)
(***************************************************************************)
EXTENDS Integers, FiniteSets, TLAPS, FiniteSetTheorems

LEMMA Least ==
  ASSUME NEW T, T \subseteq Nat, T # {}
  PROVE  \E x \in T : \A y \in T : x <= y
<1> DEFINE R == {ss \in Nat \X Nat : ss[1] < ss[2]}
<1>1. IsWellFoundedOn(R, Nat)
  <2>1. R = OpToRel(<, Nat)
    BY Zenon DEF OpToRel
  <2> HIDE DEF R
  <2> QED
    BY <2>1, NatLessThanWellFounded, Zenon
<1>2. \E x \in T : \A y \in T : ~ (<<y, x>> \in R)
  <2> HIDE DEF R
  <2> QED
    BY <1>1, WFMin
<1>3. PICK x \in T : \A y \in T : ~ (<<y, x>> \in R)
  BY <1>2
<1>4. \A y \in T : ~ (y < x)
  BY <1>3
<1> QED
  BY <1>4

\* A set of numbers with 0 and with the successors of its elements has all.
LEMMA NoGap ==
  ASSUME NEW S, 0 \in S, \A n \in Nat : n \in S => n + 1 \in S
  PROVE  \A n \in Nat : n \in S
<1> SUFFICES ASSUME Nat \ S # {} PROVE FALSE
  OBVIOUS
<1>1. PICK n \in Nat \ S : \A m \in Nat \ S : n <= m
  BY Least
<1>2. n - 1 \in Nat /\ n - 1 \in S
  BY <1>1
<1> QED
  BY <1>1, <1>2

\* f has the first values of a sequence that starts at a and goes on by G.
Begins(A, a, G, m, f) ==
  /\ f \in [0 .. m -> A]
  /\ f[0] = a
  /\ \A i \in 0 .. m : i # m => f[i + 1] = G[f[i]]

LEMMA OneBeginning ==
  ASSUME NEW A, NEW a, NEW G, NEW m \in Nat, NEW n \in Nat,
         NEW f, NEW g, Begins(A, a, G, m, f), Begins(A, a, G, n, g)
  PROVE  \A i \in Nat : i <= m /\ i <= n => f[i] = g[i]
<1> DEFINE S == {i \in Nat : i <= m /\ i <= n => f[i] = g[i]}
<1>1. 0 \in S
  BY DEF Begins
<1>2. ASSUME NEW i \in Nat, i \in S PROVE i + 1 \in S
  <2> SUFFICES ASSUME i + 1 <= m, i + 1 <= n PROVE f[i + 1] = g[i + 1]
    OBVIOUS
  <2>1. i \in 0 .. m /\ i # m /\ i \in 0 .. n /\ i # n
    OBVIOUS
  <2>2. f[i] = g[i]
    BY <1>2, <2>1
  <2> QED
    BY <2>1, <2>2 DEF Begins
<1>3. \A i \in Nat : i \in S
  <2> HIDE DEF S
  <2> QED
    BY <1>1, <1>2, NoGap
<1> QED
  BY <1>3

LEMMA SomeBeginning ==
  ASSUME NEW A, NEW a \in A, NEW G \in [A -> A]
  PROVE  \A m \in Nat : \E f : Begins(A, a, G, m, f)
<1> DEFINE S == {m \in Nat : \E f : Begins(A, a, G, m, f)}
<1>1. 0 \in S
  <2>1. Begins(A, a, G, 0, [i \in 0 .. 0 |-> a])
    BY DEF Begins
  <2> QED
    BY <2>1
<1>2. ASSUME NEW m \in Nat, m \in S PROVE m + 1 \in S
  <2>1. PICK f : Begins(A, a, G, m, f)
    BY <1>2
  <2> DEFINE g == [i \in 0 .. m + 1 |-> IF i = m + 1 THEN G[f[m]] ELSE f[i]]
  <2>2. f \in [0 .. m -> A] /\ m \in 0 .. m
    BY <2>1 DEF Begins
  <2>3. g \in [0 .. m + 1 -> A]
    BY <2>2
  <2>4. g[0] = a
    BY <2>1 DEF Begins
  <2>5. ASSUME NEW i \in 0 .. m + 1, i # m + 1 PROVE g[i + 1] = G[g[i]]
    <3>1. i \in 0 .. m /\ i + 1 \in 0 .. m + 1 /\ g[i] = f[i]
      BY <2>5
    <3>2. CASE i = m
      BY <3>1, <3>2
    <3>3. CASE i # m
      BY <3>1, <3>3, <2>1 DEF Begins
    <3> QED
      BY <3>2, <3>3
  <2>6. Begins(A, a, G, m + 1, g)
    <3> HIDE DEF g
    <3> QED
      BY <2>3, <2>4, <2>5 DEF Begins
  <2> QED
    BY <2>6
<1>3. \A m \in Nat : m \in S
  <2> HIDE DEF S
  <2> QED
    BY <1>1, <1>2, NoGap
<1> QED
  BY <1>3

\* w starts at a and goes on by G, which keeps to A.
Recurs(A, a, G, w) ==
  w \in [Nat -> A] /\ w[0] = a /\ \A n \in Nat : w[n + 1] = G[w[n]]

Goes(A, a, G) == a \in A /\ G \in [A -> A]

\* There is a sequence that starts at a and goes on by G: so a function that is
\* defined by recursion over the natural numbers is what its definition says.
LEMMA Recursion ==
  ASSUME NEW A, NEW a, NEW G, Goes(A, a, G)
  PROVE  \E w : Recurs(A, a, G, w)
<1>0. a \in A /\ G \in [A -> A]
  BY DEF Goes
<1> DEFINE F == [m \in Nat |-> CHOOSE f : Begins(A, a, G, m, f)]
           w == [m \in Nat |-> F[m][m]]
<1>1. \A m \in Nat : Begins(A, a, G, m, F[m])
  <2> TAKE m \in Nat
  <2>1. \E f : Begins(A, a, G, m, f)
    BY <1>0, SomeBeginning
  <2>2. Begins(A, a, G, m, CHOOSE f : Begins(A, a, G, m, f))
    BY <2>1
  <2> QED
    BY <2>2
<1>w. \A m \in Nat : w[m] = F[m][m]
  OBVIOUS
<1> HIDE DEF F
<1>2. w \in [Nat -> A]
  BY <1>1 DEF Begins
<1>3. w[0] = a
  BY <1>1 DEF Begins
<1> HIDE DEF w
<1>4. ASSUME NEW n \in Nat PROVE w[n + 1] = G[w[n]]
  <2>1. Begins(A, a, G, n, F[n]) /\ Begins(A, a, G, n + 1, F[n + 1])
    BY <1>1
  <2>2. n \in Nat /\ n + 1 \in Nat /\ n <= n /\ n <= n + 1
    OBVIOUS
  <2>3. F[n][n] = F[n + 1][n]
    <3> DEFINE f == F[n]
               g == F[n + 1]
               m == n + 1
    <3>0. Begins(A, a, G, n, f) /\ Begins(A, a, G, m, g) /\ m \in Nat
      BY <2>1
    <3> HIDE DEF f, g, m
    <3>2. \A i \in Nat : i <= n /\ i <= m => f[i] = g[i]
      BY <3>0, OneBeginning
    <3>1. \A i \in Nat : i <= n /\ i <= n + 1 => F[n][i] = F[n + 1][i]
      BY <3>2 DEF f, g, m
    <3> QED
      BY <3>1, <2>2
  <2>4. n \in 0 .. n + 1 /\ n # n + 1
    OBVIOUS
  <2>5. F[n + 1][n + 1] = G[F[n + 1][n]]
    BY <2>1, <2>4 DEF Begins
  <2> QED
    BY <2>3, <2>5, <1>w
<1> QED
  BY <1>2, <1>3, <1>4 DEF Recurs

\* A finite set of integers has strict bounds.
LEMMA FiniteBounds ==
  ASSUME NEW K, K \subseteq Int, IsFiniteSet(K)
  PROVE  \E b \in Int : \A x \in K : -b < x /\ x < b
<1>1. PICK n \in Nat : ExistsSurjection(1 .. n, K)
  BY FS_NatSurjection
<1>2. PICK f \in Surjection(1 .. n, K) : TRUE
  BY <1>1 DEF ExistsSurjection
<1>3. f \in [1 .. n -> K] /\ \A x \in K : \E i \in 1 .. n : f[i] = x
  BY <1>2 DEF Surjection
<1>a. \A i \in 1 .. n : f[i] \in Int
  BY <1>3
<1> DEFINE S == {m \in Nat : m <= n => \E b \in Int : \A i \in 1 .. m : -b < f[i] /\ f[i] < b}
<1>4. 0 \in S
  OBVIOUS
<1>5. ASSUME NEW m \in Nat, m \in S PROVE m + 1 \in S
  <2> SUFFICES ASSUME m + 1 <= n
               PROVE  \E b \in Int : \A i \in 1 .. m + 1 : -b < f[i] /\ f[i] < b
    OBVIOUS
  <2>1. PICK b \in Int : \A i \in 1 .. m : -b < f[i] /\ f[i] < b
    BY <1>5
  <2>2. f[m + 1] \in Int
    <3>1. m + 1 \in 1 .. n
      BY <1>5
    <3> QED
      BY <3>1, <1>a
  <2> DEFINE a == IF f[m + 1] < 0 THEN -f[m + 1] ELSE f[m + 1]
             c == IF a < b THEN b ELSE a + 1
  <2>3. /\ c \in Int /\ c >= b /\ -c <= -b
        /\ -c < f[m + 1] /\ f[m + 1] < c
    BY <2>2
  <2>4. \A i \in 1 .. m + 1 : -c < f[i] /\ f[i] < c
    <3> HIDE DEF c
    <3> SUFFICES ASSUME NEW i \in 1 .. m + 1 PROVE -c < f[i] /\ f[i] < c
      OBVIOUS
    <3>1. f[i] \in Int
      <4>1. i \in 1 .. n
        BY <1>5
      <4> QED
        BY <4>1, <1>a
    <3>2. CASE i = m + 1
      BY <3>2, <2>3
    <3>3. CASE i \in 1 .. m
      BY <3>1, <3>3, <2>1, <2>3
    <3> QED
      BY <3>2, <3>3
  <2> HIDE DEF c
  <2> QED
    BY <2>3, <2>4
<1>6. n \in S
  <2> HIDE DEF S
  <2> QED
    BY <1>4, <1>5, NoGap
<1>7. PICK b \in Int : \A i \in 1 .. n : -b < f[i] /\ f[i] < b
  BY <1>6
<1>8. \A x \in K : -b < x /\ x < b
  BY <1>3, <1>7, Zenon
<1> QED
  BY <1>8

\* What G gives at n depends on the values at points of higher rank only.
Descends(D, R, G, rank, top) ==
  /\ G \in [[D -> R] -> [D -> R]]
  /\ rank \in [D -> 0 .. top]
  /\ \A f, g \in [D -> R] : \A n \in D :
       (\A m \in D : rank[m] > rank[n] => f[m] = g[m]) => G[f][n] = G[g][n]

\* Recursion over points of bounded rank has a solution.
LEMMA Fixpoint ==
  ASSUME NEW D, NEW R, NEW r \in R, NEW G, NEW rank, NEW top \in Nat,
         Descends(D, R, G, rank, top)
  PROVE  \E f \in [D -> R] : f = G[f]
<1> DEFINE A == [D -> R]
           a == [n \in D |-> r]
<1>1. Goes(A, a, G)
  BY DEF Goes, Descends
<1>2. PICK w : Recurs(A, a, G, w)
  <2> HIDE DEF A, a
  <2> QED
    BY <1>1, Recursion DEF Goes
<1>3. w \in [Nat -> [D -> R]] /\ \A i \in Nat : w[i + 1] = G[w[i]]
  BY <1>2 DEF Recurs
<1> HIDE DEF A, a
<1>a. \A n \in D : rank[n] \in 0 .. top
  BY DEF Descends
<1> DEFINE S == {i \in Nat : \A n \in D : top - rank[n] < i => w[i][n] = w[i + 1][n]}
<1>4. 0 \in S
  BY <1>a
<1>5. ASSUME NEW i \in Nat, i \in S PROVE i + 1 \in S
  <2> SUFFICES ASSUME NEW n \in D, top - rank[n] < i + 1
               PROVE  w[i + 1][n] = w[i + 1 + 1][n]
    BY <1>5
  <2>1. w[i] \in [D -> R] /\ w[i + 1] \in [D -> R]
    BY <1>3
  <2>2. \A m \in D : rank[m] > rank[n] => w[i][m] = w[i + 1][m]
    BY <1>5, <1>a
  <2>3. G[w[i]][n] = G[w[i + 1]][n]
    BY <2>1, <2>2 DEF Descends
  <2>4. w[i + 1] = G[w[i]] /\ w[i + 1 + 1] = G[w[i + 1]]
    BY <1>3
  <2> QED
    BY <2>3, <2>4
<1>6. top + 1 \in S
  <2>1. \A i \in Nat : i \in S
    <3> HIDE DEF S
    <3> QED
      BY <1>4, <1>5, NoGap
  <2> QED
    BY <2>1, top + 1 \in Nat
<1> DEFINE f == w[top + 1]
<1>7. f \in [D -> R] /\ G[f] \in [D -> R] /\ G[f] = w[top + 1 + 1]
  BY <1>3 DEF Descends
<1>8. \A n \in D : f[n] = G[f][n]
  BY <1>6, <1>7, <1>a
<1> QED
  BY <1>7, <1>8

=============================================================================
