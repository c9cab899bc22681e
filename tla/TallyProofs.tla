---------------------------- MODULE TallyProofs ----------------------------
(***************************************************************************)
(* Lemmas that the proofs of several components rest on: induction over    *)
(* numbers and over the subsets of a finite set, stated for sets of them;  *)
(* least and largest members; sums; and the places of a loop in order.     *)
(***************************************************************************)
EXTENDS Tallies, Sequences, FiniteSetTheorems, WellFoundedInduction, TLAPS

-----------------------------------------------------------------------------
(* Induction *)

\* The least of some natural numbers.
LEMMA LeastOf ==
    ASSUME NEW S \in SUBSET Nat, S # {}
    PROVE  \E t \in S : \A u \in S : t <= u
<1>1. PICK t \in S : \A u \in S : ~(<<u, t>> \in OpToRel(<, Nat))
  BY WFMin, NatLessThanWellFounded
<1>2. ASSUME NEW u \in S PROVE t <= u
  <2>1. t \in Nat /\ u \in Nat /\ ~(<<u, t>> \in OpToRel(<, Nat))
    BY <1>1
  <2>2. u < t => <<u, t>> \in OpToRel(<, Nat)
    BY <2>1, Zenon DEF OpToRel
  <2>3. t \in Nat /\ u \in Nat /\ ~(u < t)
    BY <2>1, <2>2, Zenon
  <2>. QED
    BY <2>3
<1>. QED
  BY <1>2

\* Induction, for a set of numbers.
LEMMA Counting ==
    ASSUME NEW G, 0 \in G, \A n \in Nat : n \in G => n + 1 \in G
    PROVE  Nat \subseteq G
<1>. DEFINE B == Nat \ G
<1>1. CASE B = {}
  BY <1>1
<1>2. CASE B # {}
  <2>1. PICK t \in B : \A u \in B : t <= u
    BY <1>2, LeastOf
  <2>2. t \in Nat /\ t # 0 /\ t - 1 \in Nat /\ ~(t <= t - 1)
    BY <2>1
  <2>3. t - 1 \in G
    BY <2>1, <2>2
  <2>4. (t - 1) + 1 \in G
    BY <2>2, <2>3
  <2>. QED
    BY <2>1, <2>2, <2>4
<1>. QED
  BY <1>1, <1>2

\* The element a sum takes out next.
Pick(s) == CHOOSE x \in s : TRUE

LEMMA Picked ==
    ASSUME NEW s, s # {} PROVE Pick(s) \in s
  BY DEF Pick

\* Induction, for a set of subsets of a finite set.
LEMMA Growing ==
    ASSUME NEW S, IsFiniteSet(S), NEW G, {} \in G,
           \A s \in SUBSET S : s # {} /\ s \ {Pick(s)} \in G => s \in G
    PROVE  SUBSET S \subseteq G
<1>. DEFINE Upto == {n \in Nat : \A s \in SUBSET S : Cardinality(s) = n => s \in G}
<1>1. \A s \in SUBSET S : IsFiniteSet(s) /\ Cardinality(s) \in Nat
  BY FS_Subset, FS_CardinalityType
<1>2. 0 \in Upto
  <2>. SUFFICES ASSUME NEW s \in SUBSET S, Cardinality(s) = 0 PROVE s \in G
    OBVIOUS
  <2>1. s = {}
    BY <1>1, FS_EmptySet
  <2>. QED
    BY <2>1
<1>3. ASSUME NEW n \in Nat, n \in Upto PROVE n + 1 \in Upto
  <2>. SUFFICES ASSUME NEW s \in SUBSET S, Cardinality(s) = n + 1 PROVE s \in G
    OBVIOUS
  <2>1. s # {}
    BY n + 1 # 0, FS_EmptySet
  <2>2. Pick(s) \in s
    BY <2>1, Picked
  <2>3. Cardinality(s \ {Pick(s)}) = n /\ s \ {Pick(s)} \in SUBSET S
    BY <1>1, <2>2, FS_RemoveElement
  <2>4. s \ {Pick(s)} \in G
    BY <1>3, <2>3
  <2>. QED
    BY <2>1, <2>4
<1>4. Nat \subseteq Upto
  <2>. HIDE DEF Upto
  <2>. QED
    BY <1>2, <1>3, Counting
<1>. QED
  BY <1>1, <1>4

\* A finite set of numbers is bounded.
LEMMA Bounded ==
    ASSUME NEW S, IsFiniteSet(S), S \subseteq Nat
    PROVE  \E H \in Nat : S \subseteq 0..H
<1>. DEFINE G == {s \in SUBSET S : \E H \in Nat : s \subseteq 0..H}
<1>1. {} \in G
  <2>1. 0 \in Nat /\ {} \subseteq 0..0
    OBVIOUS
  <2>. QED
    BY <2>1
<1>2. ASSUME NEW s \in SUBSET S, s # {}, s \ {Pick(s)} \in G PROVE s \in G
  <2>1. Pick(s) \in Nat
    BY <1>2, Picked
  <2>2. PICK H \in Nat : s \ {Pick(s)} \subseteq 0..H
    BY <1>2
  <2>3. H + Pick(s) \in Nat /\ \A x \in s : x \in 0..(H + Pick(s))
    BY <2>1, <2>2
  <2>. QED
    BY <2>3
<1>3. SUBSET S \subseteq G
  <2>. HIDE DEF G
  <2>. QED
    BY <1>1, <1>2, Growing
<1>. QED
  BY <1>3

\* A bounded, nonempty set of numbers has a largest member.
LEMMA LargestOf ==
    ASSUME NEW H \in Nat, NEW S \in SUBSET (0..H), S # {}
    PROVE  Max(S) \in S /\ \A y \in S : y <= Max(S)
<1>. DEFINE T == {H - y : y \in S}
<1>1. \A y \in S : y \in Nat /\ H - y \in Nat
  OBVIOUS
<1>2. T \subseteq Nat /\ T # {}
  BY <1>1
<1>3. PICK t \in T : \A u \in T : t <= u
  <2>. HIDE DEF T
  <2>. QED
    BY <1>2, LeastOf
<1>4. PICK x \in S : t = H - x
  OBVIOUS
<1>5. \A y \in S : x >= y
  <2>. SUFFICES ASSUME NEW y \in S PROVE x >= y
    OBVIOUS
  <2>1. t <= H - y
    BY <1>3
  <2>. QED
    BY <1>1, <1>4, <2>1
<1>6. Max(S) \in S /\ \A y \in S : Max(S) >= y
  BY <1>5 DEF Max
<1>. QED
  BY <1>1, <1>6

-----------------------------------------------------------------------------
(* Numbers *)

\* Integer division: the quotient is the whole number of divisors that fit.
LEMMA Floor ==
    ASSUME NEW n \in Nat, NEW d \in Nat \ {0}
    PROVE  /\ n \div d \in Nat
           /\ (n \div d) * d <= n
           /\ n < (n \div d + 1) * d
<1>1. n \div d \in Int /\ n = d * (n \div d) + (n % d) /\ n % d \in 0..(d - 1)
  OBVIOUS
<1>. QED
  BY <1>1

\* Multiplication keeps the order of natural numbers.
LEMMA Times ==
    ASSUME NEW a \in Nat, NEW b \in Nat, NEW c \in Nat
    PROVE  /\ a * c \in Nat
           /\ a <= b => a * c <= b * c
  OBVIOUS

\* A share of an amount, rounded down, is at most the amount.
LEMMA PartOf ==
    ASSUME NEW n \in Nat, NEW s \in Nat, NEW B \in Nat \ {0}, s <= B
    PROVE  (n * s) \div B \in Nat /\ (n * s) \div B <= n
<1>. DEFINE m == n * s
            d == m \div B
<1>1. m \in Nat /\ m <= B * n
  BY Times
<1>2. d \in Nat /\ d * B <= m
  <2>. HIDE DEF m
  <2>. QED
    BY <1>1, Floor
<1>. HIDE DEF m, d
<1>3. d * B \in Nat /\ d * B <= B * n
  BY <1>1, <1>2
<1>4. d <= n
  <2>1. SUFFICES ASSUME n + 1 <= d PROVE FALSE
    BY <1>2
  <2>2. (n + 1) * B <= d * B
    BY <1>2, <2>1, Times
  <2>3. (n + 1) * B = B * n + B /\ B * n \in Nat
    OBVIOUS
  <2>. QED
    BY <1>3, <2>2, <2>3
<1>. QED
  BY <1>2, <1>4 DEF m, d

\* The larger and the smaller of two numbers.
LEMMA LargerOfTwo ==
    ASSUME NEW a \in Int, NEW b \in Int
    PROVE  Max({a, b}) = IF a >= b THEN a ELSE b
  BY DEF Max

LEMMA SmallerOfTwo ==
    ASSUME NEW a \in Int, NEW b \in Int
    PROVE  Min({a, b}) = IF a <= b THEN a ELSE b
  BY DEF Min

-----------------------------------------------------------------------------
(* Sums over a finite set *)

\* g adds f up over every subset of S, the way a fold goes through it.
AddsUp(g, f, S) ==
    g = [s \in SUBSET S |-> IF s = {} THEN 0 ELSE f[Pick(s)] + g[s \ {Pick(s)}]]

\* The fold is well defined.
LEMMA SumsExist ==
    ASSUME NEW S, IsFiniteSet(S), NEW f
    PROVE  \E g : AddsUp(g, f, S)
<1>. DEFINE Small(n) == {s \in SUBSET S : Cardinality(s) <= n}
            Part(g, n) == g = [s \in Small(n) |->
                                 IF s = {} THEN 0 ELSE f[Pick(s)] + g[s \ {Pick(s)}]]
            Upto == {n \in Nat : \E g : Part(g, n)}
<1>1. \A s \in SUBSET S : IsFiniteSet(s) /\ Cardinality(s) \in Nat
                            /\ Cardinality(s) <= Cardinality(S)
  BY FS_Subset, FS_CardinalityType
<1>2. \A n \in Nat : \A s \in Small(n) :
         s # {} => /\ n # 0
                   /\ s \ {Pick(s)} \in Small(n - 1)
                   /\ s \ {Pick(s)} \in Small(n)
  <2>. SUFFICES ASSUME NEW n \in Nat, NEW s \in Small(n), s # {}
                PROVE  /\ n # 0
                       /\ s \ {Pick(s)} \in Small(n - 1)
                       /\ s \ {Pick(s)} \in Small(n)
    OBVIOUS
  <2>1. Pick(s) \in s
    BY Picked
  <2>2. Cardinality(s \ {Pick(s)}) = Cardinality(s) - 1 /\ s \ {Pick(s)} \in SUBSET S
    BY <1>1, <2>1, FS_RemoveElement
  <2>3. Cardinality(s) \in Nat /\ Cardinality(s) # 0 /\ Cardinality(s) <= n
    BY <1>1, FS_EmptySet
  <2>. QED
    BY <2>2, <2>3
<1>3. \A n \in Nat : \A s \in Small(n) : s \in Small(n + 1)
  BY <1>1
<1>. HIDE DEF Small
<1>4. 0 \in Upto
  <2>. DEFINE g == [s \in Small(0) |-> 0]
  <2>1. \A s \in Small(0) : s = {}
    BY <1>2
  <2>2. Part(g, 0)
    BY <2>1
  <2>. QED
    BY <2>2
<1>5. ASSUME NEW n \in Nat, n \in Upto PROVE n + 1 \in Upto
  <2>1. PICK g : Part(g, n)
    BY <1>5
  <2>. DEFINE h == [s \in Small(n + 1) |-> IF s = {} THEN 0 ELSE f[Pick(s)] + g[s \ {Pick(s)}]]
  <2>2. \A s \in Small(n) : h[s] = g[s]
    <3>. SUFFICES ASSUME NEW s \in Small(n) PROVE h[s] = g[s]
      OBVIOUS
    <3>1. h[s] = IF s = {} THEN 0 ELSE f[Pick(s)] + g[s \ {Pick(s)}]
      BY <1>3
    <3>2. g[s] = IF s = {} THEN 0 ELSE f[Pick(s)] + g[s \ {Pick(s)}]
      BY <2>1
    <3>. QED
      BY <3>1, <3>2
  <2>3. \A s \in Small(n + 1) : s # {} => h[s \ {Pick(s)}] = g[s \ {Pick(s)}]
    <3>. HIDE DEF h
    <3>. SUFFICES ASSUME NEW s \in Small(n + 1), s # {}
                  PROVE  h[s \ {Pick(s)}] = g[s \ {Pick(s)}]
      OBVIOUS
    <3>1. (n + 1) - 1 = n /\ n + 1 \in Nat
      OBVIOUS
    <3>2. s \ {Pick(s)} \in Small((n + 1) - 1)
      BY <1>2, <3>1, Zenon
    <3>3. s \ {Pick(s)} \in Small(n)
      BY <3>1, <3>2, Zenon
    <3>. QED
      BY <2>2, <3>3
  <2>4. Part(h, n + 1)
    BY <2>3
  <2>5. n + 1 \in Nat
    OBVIOUS
  <2>6. \E k : Part(k, n + 1)
    BY <2>4, Zenon
  <2>. HIDE DEF Part
  <2>. QED
    BY <2>5, <2>6
<1>6. Nat \subseteq Upto
  <2>. HIDE DEF Upto
  <2>. QED
    BY <1>4, <1>5, Counting
<1>7. PICK g : Part(g, Cardinality(S))
  BY <1>1, <1>6
<1>8. Small(Cardinality(S)) = SUBSET S
  BY <1>1 DEF Small
<1>. QED
  BY <1>7, <1>8 DEF AddsUp

\* What a sum is, as a function of the set summed over.
LEMMA SumOverIs ==
    ASSUME NEW S, IsFiniteSet(S), NEW f
    PROVE  \E g : AddsUp(g, f, S) /\ SumOver(f, S) = g[S]
<1>. DEFINE It(g) == g = [s \in SUBSET S |->
                            IF s = {} THEN 0
                            ELSE f[CHOOSE x \in s : TRUE] + g[s \ {CHOOSE x \in s : TRUE}]]
            it == CHOOSE g : It(g)
<1>1. It(it)
  <2>1. PICK g : AddsUp(g, f, S)
    BY SumsExist
  <2>2. It(g)
    BY <2>1 DEF AddsUp, Pick
  <2>. HIDE DEF It
  <2>. QED
    BY <2>2
<1>2. AddsUp(it, f, S)
  <2>. HIDE DEF it
  <2>. QED
    BY <1>1 DEF AddsUp, Pick
<1>3. SumOver(f, S) = it[S]
  BY DEF SumOver, MapThenSumSet, MapThenFoldSet
<1>. QED
  BY <1>2, <1>3

\* Adding up natural numbers, or integers, gives one.
LEMMA SumsAreNumbers ==
    ASSUME NEW S, IsFiniteSet(S), NEW f, NEW g, AddsUp(g, f, S),
           NEW T \in {Nat, Int}, \A x \in S : f[x] \in T
    PROVE  g[S] \in T
<1>. DEFINE G == {s \in SUBSET S : g[s] \in T}
<1>0. \A m, n \in T : m + n \in T
  <2>1. CASE T = Nat
    BY <2>1
  <2>2. CASE T = Int
    BY <2>2
  <2>. QED
    BY <2>1, <2>2
<1>1. {} \in G
  BY DEF AddsUp
<1>2. ASSUME NEW s \in SUBSET S, s # {}, s \ {Pick(s)} \in G PROVE s \in G
  <2>1. Pick(s) \in S
    BY <1>2, Picked
  <2>2. g[s] = f[Pick(s)] + g[s \ {Pick(s)}]
    BY <1>2 DEF AddsUp
  <2>3. f[Pick(s)] \in T /\ g[s \ {Pick(s)}] \in T
    BY <1>2, <2>1
  <2>4. g[s] \in T
    BY <1>0, <2>2, <2>3
  <2>. QED
    BY <2>4
<1>3. SUBSET S \subseteq G
  <2>. HIDE DEF G
  <2>. QED
    BY <1>1, <1>2, Growing
<1>. QED
  BY <1>3

LEMMA Scaled ==
    ASSUME NEW a \in Nat, NEW b \in Nat, NEW x \in Nat, NEW y \in Nat,
           NEW u \in Nat, NEW v \in Nat, x * a <= y * b, u * a <= v * b
    PROVE  (x + u) * a <= (y + v) * b
<1>1. (x + u) * a = x * a + u * a /\ (y + v) * b = y * b + v * b
  OBVIOUS
<1>2. x * a \in Nat /\ y * b \in Nat /\ u * a \in Nat /\ v * b \in Nat
  OBVIOUS
<1>. QED
  BY <1>1, <1>2

\* Sums keep the order of what they add up.
LEMMA SumsKeepTheOrder ==
    ASSUME NEW S, IsFiniteSet(S), NEW f, NEW g, AddsUp(g, f, S),
           NEW f2, NEW g2, AddsUp(g2, f2, S), NEW a \in Nat, NEW b \in Nat,
           \A x \in S : f[x] \in Nat /\ f2[x] \in Nat /\ f[x] * a <= f2[x] * b
    PROVE  g[S] * a <= g2[S] * b
<1>. DEFINE G == {s \in SUBSET S : g[s] \in Nat /\ g2[s] \in Nat /\ g[s] * a <= g2[s] * b}
<1>1. {} \in G
  <2>1. g[{}] = 0 /\ g2[{}] = 0
    BY DEF AddsUp
  <2>. QED
    BY <2>1
<1>2. ASSUME NEW s \in SUBSET S, s # {}, s \ {Pick(s)} \in G PROVE s \in G
  <2>1. Pick(s) \in S
    BY <1>2, Picked
  <2>. DEFINE x == f[Pick(s)]
              y == f2[Pick(s)]
              u == g[s \ {Pick(s)}]
              v == g2[s \ {Pick(s)}]
  <2>2. g[s] = x + u /\ g2[s] = y + v
    BY <1>2 DEF AddsUp
  <2>3. x \in Nat /\ y \in Nat /\ x * a <= y * b
    BY <2>1
  <2>4. u \in Nat /\ v \in Nat /\ u * a <= v * b
    BY <1>2
  <2>. HIDE DEF x, y, u, v
  <2>5. (x + u) * a <= (y + v) * b
    BY <2>3, <2>4, Scaled
  <2>6. x + u \in Nat /\ y + v \in Nat
    BY <2>3, <2>4
  <2>. QED
    BY <2>2, <2>5, <2>6
<1>3. SUBSET S \subseteq G
  <2>. HIDE DEF G
  <2>. QED
    BY <1>1, <1>2, Growing
<1>. QED
  BY <1>3

-----------------------------------------------------------------------------
(* Places in order *)

\* Places are numbers, finitely many.
LEMMA Places ==
    ASSUME NEW n \in Nat, NEW S \in SUBSET (1..n)
    PROVE  /\ \A j \in S : j \in Int /\ 1 <= j /\ j <= n
           /\ IsFiniteSet(S) /\ Cardinality(S) \in Nat /\ Cardinality(S) <= n
<1>1. \A j \in S : j \in Int /\ 1 <= j /\ j <= n
  OBVIOUS
<1>2. IsFiniteSet(1..n) /\ Cardinality(1..n) = n
  <2>1. 1 \in Int /\ n \in Int
    OBVIOUS
  <2>2. IsFiniteSet(1..n) /\ Cardinality(1..n) = IF 1 > n THEN 0 ELSE n - 1 + 1
    BY <2>1, FS_Interval
  <2>. QED
    BY <2>2
<1>3. IsFiniteSet(S) /\ Cardinality(S) <= Cardinality(1..n)
  BY <1>2, FS_Subset
<1>. QED
  BY <1>1, <1>2, <1>3, FS_CardinalityType

\* The rank of a place among those of a set grows by one at each of them.
LEMMA RankGrows ==
    ASSUME NEW n \in Nat, NEW S \in SUBSET (1..n), NEW i \in 1..n
    PROVE  /\ Rank(S, i) \in Nat /\ Rank(S, i - 1) \in Nat
           /\ i \in S => Rank(S, i) = Rank(S, i - 1) + 1
           /\ i \notin S => Rank(S, i) = Rank(S, i - 1)
<1>. DEFINE Before(k) == {j \in S : j <= k}
<1>1. IsFiniteSet(S) /\ \A j \in S : j \in Int
  BY Places
<1>2. IsFiniteSet(Before(i - 1)) /\ IsFiniteSet(Before(i))
  BY <1>1, FS_Subset
<1>3. Rank(S, i) = Cardinality(Before(i)) /\ Rank(S, i - 1) = Cardinality(Before(i - 1))
  BY DEF Rank
<1>4. \A j \in S : j <= i <=> j <= i - 1 \/ j = i
  BY <1>1
<1>5. i \in S => Before(i) = Before(i - 1) \cup {i}
  BY <1>4, Zenon
<1>6. i \notin S => Before(i) = Before(i - 1)
  BY <1>4, Zenon
<1>7. i \notin Before(i - 1)
  OBVIOUS
<1>. HIDE DEF Before
<1>. QED
  BY <1>2, <1>3, <1>5, <1>6, <1>7, FS_AddElement, FS_CardinalityType

\* Every rank up to the number of places is some place's.
LEMMA RankReached ==
    ASSUME NEW n \in Nat, NEW S \in SUBSET (1..n), NEW k \in 1..Cardinality(S)
    PROVE  \E i \in S : Rank(S, i) = k
<1>. DEFINE T == {i \in 0..n : Rank(S, i) >= k}
<1>1. Cardinality(S) \in Nat /\ \A j \in S : j \in Int /\ 1 <= j /\ j <= n
  BY Places
<1>2. Rank(S, n) = Cardinality(S)
  <2>1. {j \in S : j <= n} = S
    BY <1>1
  <2>. QED
    BY <2>1 DEF Rank
<1>3. T \in SUBSET Nat /\ T # {}
  BY <1>1, <1>2
<1>4. PICK i \in T : \A u \in T : i <= u
  <2>. HIDE DEF T
  <2>. QED
    BY <1>3, LeastOf
<1>5. Rank(S, 0) = 0
  <2>1. \A j \in S : ~(j <= 0)
    BY <1>1
  <2>2. {j \in S : j <= 0} = {}
    BY <2>1, Zenon
  <2>. QED
    BY <2>2, FS_EmptySet DEF Rank
<1>6. i \in 1..n /\ Rank(S, i) >= k
  BY <1>1, <1>4, <1>5
<1>7. ~(Rank(S, i - 1) >= k)
  BY <1>4, <1>6
<1>8. i \in S /\ Rank(S, i) = k
  BY <1>1, <1>6, <1>7, RankGrows
<1>. QED
  BY <1>8

\* A later place of the set has a higher rank.
LEMMA RankOrders ==
    ASSUME NEW n \in Nat, NEW S \in SUBSET (1..n), NEW i \in S, NEW j \in S, i < j
    PROVE  Rank(S, i) < Rank(S, j)
<1>. DEFINE A == {x \in S : x <= i}
            B == {x \in S : x <= j}
<1>1. IsFiniteSet(S) /\ \A x \in S : x \in Int
  BY Places
<1>2. IsFiniteSet(A) /\ IsFiniteSet(B) /\ j \in B
  BY <1>1, FS_Subset
<1>3. A \subseteq B \ {j} /\ IsFiniteSet(B \ {j})
  <2>1. \A x \in S : x <= i => x <= j /\ x # j
    BY <1>1
  <2>2. A \subseteq B \ {j}
    BY <2>1, Zenon
  <2>. QED
    BY <1>2, <2>2, FS_Subset
<1>4. Cardinality(B \ {j}) = Cardinality(B) - 1 /\ Cardinality(B) \in Nat
  BY <1>2, FS_RemoveElement, FS_CardinalityType
<1>5. Cardinality(A) <= Cardinality(B \ {j}) /\ Cardinality(A) \in Nat
  BY <1>2, <1>3, FS_Subset, FS_CardinalityType
<1>6. Rank(S, i) = Cardinality(A) /\ Rank(S, j) = Cardinality(B)
  BY DEF Rank
<1>. HIDE DEF A, B
<1>. QED
  BY <1>4, <1>5, <1>6

\* InOrder lists the places of a loop: only those, all of those.
LEMMA InOrderIs ==
    ASSUME NEW n \in Nat, NEW S \in SUBSET (1..n)
    PROVE  /\ Cardinality(S) \in 0..n
           /\ DOMAIN InOrder(S) = 1..Cardinality(S)
           /\ \A k \in 1..Cardinality(S) : InOrder(S)[k] \in S
           /\ \A i \in S : \E k \in 1..Cardinality(S) : InOrder(S)[k] = i
<1>1. /\ IsFiniteSet(S) /\ Cardinality(S) \in Nat /\ Cardinality(S) <= n
      /\ \A j \in S : j \in Int
  BY Places
<1>2. DOMAIN InOrder(S) = 1..Cardinality(S)
  BY DEF InOrder
<1>3. ASSUME NEW k \in 1..Cardinality(S)
      PROVE  InOrder(S)[k] \in S /\ Rank(S, InOrder(S)[k]) = k
  <2>1. \E i \in S : Rank(S, i) = k
    BY RankReached
  <2>2. InOrder(S)[k] = CHOOSE i \in S : Rank(S, i) = k
    BY DEF InOrder
  <2>. QED
    BY <2>1, <2>2
<1>4. ASSUME NEW i \in S PROVE \E k \in 1..Cardinality(S) : InOrder(S)[k] = i
  <2>. DEFINE k == Rank(S, i)
  <2>1. k \in 1..Cardinality(S)
    <3>. DEFINE A == {j \in S : j <= i}
    <3>1. A \subseteq S /\ i \in A /\ IsFiniteSet(A)
      BY <1>1, FS_Subset
    <3>2. Cardinality(A) <= Cardinality(S) /\ Cardinality(A) \in Nat
      BY <1>1, <3>1, FS_Subset, FS_CardinalityType
    <3>3. Cardinality(A) # 0
      BY <3>1, FS_EmptySet
    <3>4. k = Cardinality(A)
      BY DEF Rank
    <3>. HIDE DEF A, k
    <3>. QED
      BY <1>1, <3>2, <3>3, <3>4
  <2>2. InOrder(S)[k] \in S /\ Rank(S, InOrder(S)[k]) = k
    BY <1>3, <2>1
  <2>3. InOrder(S)[k] = i
    <3>. DEFINE x == InOrder(S)[k]
    <3>1. x \in 1..n /\ i \in 1..n
      BY <2>2
    <3>2. ~(x < i) /\ ~(i < x)
      <4>1. Rank(S, x) = Rank(S, i) /\ Rank(S, i) \in Nat
        BY <2>2, <3>1, RankGrows
      <4>2. x \in S
        BY <2>2
      <4>. HIDE DEF x, k
      <4>3. x < i => Rank(S, x) < Rank(S, i)
        BY <4>2, RankOrders
      <4>4. i < x => Rank(S, i) < Rank(S, x)
        BY <4>2, RankOrders
      <4>. QED
        BY <4>1, <4>3, <4>4
    <3>. QED
      BY <3>1, <3>2
  <2>. QED
    BY <2>1, <2>3
<1>. QED
  BY <1>1, <1>2, <1>3, <1>4

-----------------------------------------------------------------------------
(* Rows in the order of a sort *)

\* A set of pairs that puts any two members of S in one order.
Orders(pairs, S) ==
    /\ \A x \in S : <<x, x>> \notin pairs
    /\ \A x, y \in S : x # y => <<x, y>> \in pairs \/ <<y, x>> \in pairs
    /\ \A x, y, z \in S : <<x, y>> \in pairs /\ <<y, z>> \in pairs => <<x, z>> \in pairs

\* The earlier of two members has fewer before it.
LEMMA FewerBefore ==
    ASSUME NEW S, IsFiniteSet(S), NEW pairs, Orders(pairs, S),
           NEW a \in S, NEW b \in S, <<a, b>> \in pairs
    PROVE  Cardinality({y \in S : <<y, a>> \in pairs})
             < Cardinality({y \in S : <<y, b>> \in pairs})
<1>. DEFINE A == {y \in S : <<y, a>> \in pairs}
            B == {y \in S : <<y, b>> \in pairs}
<1>1. IsFiniteSet(A) /\ IsFiniteSet(B) /\ a \in B
  BY FS_Subset
<1>2. A \subseteq B \ {a} /\ IsFiniteSet(B \ {a})
  <2>1. A \subseteq B \ {a}
    BY Zenon DEF Orders
  <2>. QED
    BY <1>1, <2>1, FS_Subset
<1>3. Cardinality(B \ {a}) = Cardinality(B) - 1 /\ Cardinality(B) \in Nat
  BY <1>1, FS_RemoveElement, FS_CardinalityType
<1>4. Cardinality(A) <= Cardinality(B \ {a}) /\ Cardinality(A) \in Nat
  BY <1>1, <1>2, FS_Subset, FS_CardinalityType
<1>. HIDE DEF A, B
<1>5. Cardinality(A) < Cardinality(B)
  BY <1>3, <1>4
<1>. QED
  BY <1>5 DEF A, B

\* A sort lists every row once: only those, all of those, each after its betters.
LEMMA SequencedIs ==
    ASSUME NEW S, IsFiniteSet(S), NEW pairs, Orders(pairs, S)
    PROVE  /\ Cardinality(S) \in Nat
           /\ DOMAIN Sequenced(S, pairs) = 1..Cardinality(S)
           /\ \A k \in 1..Cardinality(S) : Sequenced(S, pairs)[k] \in S
           /\ \A x \in S : \E k \in 1..Cardinality(S) : Sequenced(S, pairs)[k] = x
           /\ \A k \in 1..Cardinality(S) :
                Cardinality({y \in S : <<y, Sequenced(S, pairs)[k]>> \in pairs}) = k - 1
<1>. DEFINE n == Cardinality(S)
            Below(x) == Cardinality({y \in S : <<y, x>> \in pairs})
            h == [x \in S |-> Below(x) + 1]
<1>1. n \in Nat /\ IsFiniteSet(1..n) /\ Cardinality(1..n) = n
  <2>1. n \in Nat
    BY FS_CardinalityType
  <2>2. 1 \in Int /\ n \in Int
    BY <2>1
  <2>. HIDE DEF n
  <2>3. IsFiniteSet(1..n) /\ Cardinality(1..n) = IF 1 > n THEN 0 ELSE n - 1 + 1
    BY <2>2, FS_Interval
  <2>. QED
    BY <2>1, <2>3
<1>2. ASSUME NEW x \in S PROVE Below(x) \in Nat /\ Below(x) < n
  <2>. DEFINE A == {y \in S : <<y, x>> \in pairs}
  <2>1. A \subseteq S \ {x} /\ IsFiniteSet(S \ {x}) /\ IsFiniteSet(A)
    <3>1. A \subseteq S \ {x}
      BY DEF Orders
    <3>. QED
      BY <3>1, FS_Subset
  <2>2. Cardinality(S \ {x}) = n - 1
    BY FS_RemoveElement
  <2>3. Cardinality(A) <= Cardinality(S \ {x}) /\ Cardinality(A) \in Nat
    BY <2>1, FS_Subset, FS_CardinalityType
  <2>4. Below(x) = Cardinality(A)
    OBVIOUS
  <2>. HIDE DEF A, Below, n
  <2>. QED
    BY <1>1, <2>2, <2>3, <2>4
<1>3. ASSUME NEW x \in S, NEW y \in S, Below(x) = Below(y) PROVE x = y
  <2>1. <<x, y>> \in pairs => Below(x) < Below(y)
    BY FewerBefore
  <2>2. <<y, x>> \in pairs => Below(y) < Below(x)
    BY FewerBefore
  <2>3. x # y => <<x, y>> \in pairs \/ <<y, x>> \in pairs
    BY DEF Orders
  <2>4. Below(x) \in Nat /\ Below(y) \in Nat
    BY <1>2
  <2>. HIDE DEF Below
  <2>. QED
    BY <1>3, <2>1, <2>2, <2>3, <2>4
<1>. HIDE DEF Below
<1>4. h \in Injection(S, 1..n)
  <2>1. h \in [S -> 1..n]
    BY <1>1, <1>2
  <2>2. \A x, y \in S : h[x] = h[y] => x = y
    <3>. SUFFICES ASSUME NEW x \in S, NEW y \in S, h[x] = h[y] PROVE x = y
      OBVIOUS
    <3>1. Below(x) + 1 = Below(y) + 1 /\ Below(x) \in Nat /\ Below(y) \in Nat
      BY <1>2
    <3>2. Below(x) = Below(y)
      BY <3>1
    <3>. QED
      BY <1>3, <3>2
  <2>. HIDE DEF h, n
  <2>. QED
    BY <2>1, <2>2 DEF Injection, IsInjective
<1>5. h \in Surjection(S, 1..n)
  <2>. HIDE DEF h
  <2>. QED
    BY <1>1, <1>4, FS_Injection
<1>6. ASSUME NEW k \in 1..n PROVE \E x \in S : Below(x) = k - 1
  <2>1. PICK x \in S : h[x] = k
    <3>. HIDE DEF h, n
    <3>. QED
      BY <1>5 DEF Surjection
  <2>2. Below(x) + 1 = k /\ Below(x) \in Nat /\ k \in Int
    BY <1>1, <1>2, <2>1
  <2>. QED
    BY <2>2
<1>7. DOMAIN Sequenced(S, pairs) = 1..n
  BY DEF Sequenced
<1>8. ASSUME NEW k \in 1..n
      PROVE  Sequenced(S, pairs)[k] \in S /\ Below(Sequenced(S, pairs)[k]) = k - 1
  <2>1. Sequenced(S, pairs)[k] = CHOOSE x \in S : Below(x) = k - 1
    BY DEF Sequenced, Below
  <2>. QED
    BY <1>6, <1>8, <2>1
<1>9. ASSUME NEW x \in S PROVE \E k \in 1..n : Sequenced(S, pairs)[k] = x
  <2>. DEFINE k == Below(x) + 1
  <2>1. k \in 1..n /\ Below(x) = k - 1
    BY <1>1, <1>2
  <2>2. Sequenced(S, pairs)[k] \in S /\ Below(Sequenced(S, pairs)[k]) = k - 1
    BY <1>8, <2>1
  <2>. QED
    BY <1>3, <2>1, <2>2
<1>10. \A k \in 1..n : Cardinality({y \in S : <<y, Sequenced(S, pairs)[k]>> \in pairs}) = k - 1
  BY <1>8 DEF Below
<1>. QED
  BY <1>1, <1>7, <1>8, <1>9, <1>10

\* Sorting by a figure, ties by the row's own key.
Keyed(S, figure, key) ==
    {p \in S \X S : /\ p[1] # p[2]
                    /\ \/ figure[p[1]] < figure[p[2]]
                       \/ figure[p[1]] = figure[p[2]] /\ key[p[1]] < key[p[2]]}

\* It is a strict total order if no two rows share both.
LEMMA KeyedOrder ==
    ASSUME NEW S, NEW figure, NEW key,
           \A x \in S : figure[x] \in Int /\ key[x] \in Int,
           \A x, y \in S : figure[x] = figure[y] /\ key[x] = key[y] => x = y
    PROVE  Orders(Keyed(S, figure, key), S)
<1>. DEFINE Before(x, y) == /\ x # y
                            /\ \/ figure[x] < figure[y]
                               \/ figure[x] = figure[y] /\ key[x] < key[y]
            pairs == {p \in S \X S : Before(p[1], p[2])}
<1>1. \A x, y \in S : <<x, y>> \in pairs <=> Before(x, y)
  OBVIOUS
<1>2. \A x, y \in S : x # y => Before(x, y) \/ Before(y, x)
  OBVIOUS
<1>3. \A x, y, z \in S : Before(x, y) /\ Before(y, z) => Before(x, z)
  OBVIOUS
<1>4. \A x \in S : ~Before(x, x)
  OBVIOUS
<1>5. Orders(pairs, S)
  <2>. HIDE DEF Before, pairs
  <2>. QED
    BY <1>1, <1>2, <1>3, <1>4 DEF Orders
<1>6. Keyed(S, figure, key) = pairs
  BY DEF Keyed
<1>. QED
  BY <1>5, <1>6

\* Sorting pairs by the first part, ties by the second.
LEMMA PairsInOrder ==
    ASSUME NEW S, \A x \in S : x[1] \in Int /\ x[2] \in Int,
           \A x, y \in S : x[1] = y[1] /\ x[2] = y[2] => x = y
    PROVE  Orders({p \in S \X S : /\ p[1] # p[2]
                                  /\ \/ p[1][1] < p[2][1]
                                     \/ p[1][1] = p[2][1] /\ p[1][2] < p[2][2]}, S)
<1>. DEFINE Before(x, y) == x # y /\ (x[1] < y[1] \/ (x[1] = y[1] /\ x[2] < y[2]))
            pairs == {p \in S \X S : Before(p[1], p[2])}
<1>1. \A x, y \in S : <<x, y>> \in pairs <=> Before(x, y)
  OBVIOUS
<1>2. \A x, y \in S : x # y => Before(x, y) \/ Before(y, x)
  OBVIOUS
<1>3. \A x, y, z \in S : Before(x, y) /\ Before(y, z) => Before(x, z)
  OBVIOUS
<1>4. \A x \in S : ~Before(x, x)
  OBVIOUS
<1>5. Orders(pairs, S)
  <2>. HIDE DEF Before, pairs
  <2>. QED
    BY <1>1, <1>2, <1>3, <1>4 DEF Orders
<1>. QED
  BY <1>5

\* A sorted list of the rows of S is a sequence of them that leaves none out.
LEMMA SequencedSeq ==
    ASSUME NEW S, IsFiniteSet(S), NEW pairs, Orders(pairs, S)
    PROVE  /\ Sequenced(S, pairs) \in Seq(S)
           /\ Len(Sequenced(S, pairs)) = Cardinality(S) /\ Cardinality(S) \in Nat
           /\ \A x \in S : \E k \in 1..Cardinality(S) : Sequenced(S, pairs)[k] = x
<1>. DEFINE n == Cardinality(S)
            s == Sequenced(S, pairs)
<1>1. n \in Nat /\ DOMAIN s = 1..n /\ \A k \in 1..n : s[k] \in S
  BY SequencedIs
<1>. DEFINE nth(k) == CHOOSE x \in S : Cardinality({y \in S : <<y, x>> \in pairs}) = k - 1
<1>2. s = [k \in 1..n |-> nth(k)]
  BY DEF Sequenced
<1>. HIDE DEF n, s, nth
<1>3. s \in [1..n -> S]
  BY <1>1, <1>2
<1>4. s \in Seq(S) /\ Len(s) = n
  BY <1>1, <1>3
<1>. QED
  BY <1>1, <1>4, SequencedIs DEF n, s

-----------------------------------------------------------------------------
(* Best rows, sums of numbers, occurrences *)

\* Of finitely many rows one has the largest figure.
LEMMA MostOf ==
    ASSUME NEW S, IsFiniteSet(S), S # {}, NEW f, \A x \in S : f[x] \in Int
    PROVE  \E x \in S : \A y \in S : f[y] <= f[x]
<1>. DEFINE G == {s \in SUBSET S : s # {} => \E x \in s : \A y \in s : f[y] <= f[x]}
<1>1. {} \in G
  OBVIOUS
<1>2. ASSUME NEW s \in SUBSET S, s # {}, s \ {Pick(s)} \in G PROVE s \in G
  <2>1. Pick(s) \in s /\ \A y \in s : f[y] \in Int
    BY <1>2, Picked
  <2>2. CASE s \ {Pick(s)} = {}
    <3>1. \A y \in s : f[y] <= f[Pick(s)]
      BY <2>1, <2>2
    <3>. QED
      BY <2>1, <3>1
  <2>3. CASE s \ {Pick(s)} # {}
    <3>1. PICK x \in s \ {Pick(s)} : \A y \in s \ {Pick(s)} : f[y] <= f[x]
      BY <1>2, <2>3
    <3>2. CASE f[Pick(s)] <= f[x]
      <4>1. \A y \in s : f[y] <= f[x]
        BY <3>1, <3>2
      <4>. QED
        BY <4>1
    <3>3. CASE ~(f[Pick(s)] <= f[x])
      <4>1. \A y \in s : f[y] <= f[Pick(s)]
        BY <2>1, <3>1, <3>3
      <4>. QED
        BY <2>1, <4>1
    <3>. QED
      BY <3>2, <3>3
  <2>. QED
    BY <2>2, <2>3
<1>3. SUBSET S \subseteq G
  <2>. HIDE DEF G
  <2>. QED
    BY <1>1, <1>2, Growing
<1>. QED
  BY <1>3

\* The sum of whole numbers is one.
LEMMA SumIsNumber ==
    ASSUME NEW S, IsFiniteSet(S), NEW f, NEW T \in {Nat, Int}, \A x \in S : f[x] \in T
    PROVE  SumOver(f, S) \in T
<1>1. PICK g : AddsUp(g, f, S) /\ SumOver(f, S) = g[S]
  BY SumOverIs
<1>. QED
  BY <1>1, SumsAreNumbers

\* How often a value occurs in a sequence.
Occurs(e, s) == Cardinality({i \in DOMAIN s : s[i] = e})

Repeated(x, n) == [i \in 1..n |-> x]

LEMMA OccursRepeated ==
    ASSUME NEW e, NEW x, NEW n \in Nat
    PROVE  Occurs(e, Repeated(x, n)) = IF x = e THEN n ELSE 0
<1>1. Cardinality(1..n) = n
  <2>1. 1 \in Int /\ n \in Int
    OBVIOUS
  <2>2. Cardinality(1..n) = IF 1 > n THEN 0 ELSE n - 1 + 1
    BY <2>1, FS_Interval
  <2>. QED
    BY <2>2
<1>2. {i \in DOMAIN Repeated(x, n) : Repeated(x, n)[i] = e} = IF x = e THEN 1..n ELSE {}
  BY DEF Repeated
<1>. QED
  BY <1>1, <1>2, FS_EmptySet DEF Occurs

LEMMA OccursOne ==
    ASSUME NEW e, NEW x
    PROVE  Occurs(e, <<x>>) = IF x = e THEN 1 ELSE 0
<1>1. {i \in DOMAIN <<x>> : <<x>>[i] = e} = IF x = e THEN {1} ELSE {}
  OBVIOUS
<1>. QED
  BY <1>1, FS_EmptySet, FS_Singleton DEF Occurs

LEMMA OccursNone == ASSUME NEW e PROVE Occurs(e, <<>>) = 0
<1>1. {i \in DOMAIN <<>> : <<>>[i] = e} = {}
  OBVIOUS
<1>. QED
  BY <1>1, FS_EmptySet DEF Occurs

LEMMA OccursConcat ==
    ASSUME NEW E, NEW s \in Seq(E), NEW t \in Seq(E), NEW e
    PROVE  /\ Occurs(e, s) \in Nat /\ Occurs(e, t) \in Nat
           /\ Occurs(e, s \o t) = Occurs(e, s) + Occurs(e, t)
<1>. DEFINE A == {i \in DOMAIN s : s[i] = e}
            B == {i \in DOMAIN t : t[i] = e}
            C == {Len(s) + i : i \in B}
            h == [i \in B |-> Len(s) + i]
<1>1. Len(s) \in Nat /\ Len(t) \in Nat /\ DOMAIN s = 1..Len(s) /\ DOMAIN t = 1..Len(t)
  OBVIOUS
<1>2. IsFiniteSet(A) /\ IsFiniteSet(B)
  <2>1. IsFiniteSet(DOMAIN s) /\ IsFiniteSet(DOMAIN t)
    BY <1>1, FS_Interval
  <2>. QED
    BY <2>1, FS_Subset
<1>3. IsFiniteSet(C) /\ Cardinality(C) = Cardinality(B)
  <2>1. \A i \in B : i \in Nat
    BY <1>1
  <2>2. h \in [B -> C] /\ \A x, y \in B : h[x] = h[y] => x = y
    BY <1>1, <2>1
  <2>3. \A c \in C : \E x \in B : h[x] = c
    OBVIOUS
  <2>. HIDE DEF h, C, B
  <2>4. h \in Injection(B, C) /\ h \in Surjection(B, C)
    BY <2>2, <2>3 DEF Injection, IsInjective, Surjection
  <2>5. h \in Bijection(B, C)
    BY <2>4 DEF Bijection
  <2>6. ExistsBijection(B, C)
    BY <2>5 DEF ExistsBijection
  <2>. QED
    BY <1>2, <2>6, FS_Bijection
<1>4. {i \in DOMAIN (s \o t) : (s \o t)[i] = e} = A \cup C
  <2>1. DOMAIN (s \o t) = 1..(Len(s) + Len(t))
    OBVIOUS
  <2>2. ASSUME NEW i \in DOMAIN (s \o t), (s \o t)[i] = e PROVE i \in A \cup C
    <3>1. CASE i <= Len(s)
      <4>1. i \in 1..Len(s) /\ (s \o t)[i] = s[i]
        BY <1>1, <2>1, <3>1
      <4>. QED
        BY <1>1, <2>2, <4>1
    <3>2. CASE ~(i <= Len(s))
      <4>. DEFINE j == i - Len(s)
      <4>1. j \in 1..Len(t) /\ (s \o t)[i] = t[j] /\ i = Len(s) + j
        BY <1>1, <2>1, <3>2
      <4>2. j \in B
        BY <1>1, <2>2, <4>1
      <4>. HIDE DEF j
      <4>. QED
        BY <4>1, <4>2
    <3>. QED
      BY <3>1, <3>2
  <2>3. ASSUME NEW i \in A PROVE i \in DOMAIN (s \o t) /\ (s \o t)[i] = e
    BY <1>1, <2>1
  <2>4. ASSUME NEW j \in B PROVE Len(s) + j \in DOMAIN (s \o t) /\ (s \o t)[Len(s) + j] = e
    <3>1. j \in 1..Len(t) /\ t[j] = e
      BY <1>1
    <3>2. Len(s) + j \in 1..(Len(s) + Len(t)) /\ (s \o t)[Len(s) + j] = t[j]
      BY <1>1, <3>1
    <3>. QED
      BY <2>1, <3>1, <3>2
  <2>. QED
    BY <2>2, <2>3, <2>4
<1>5. A \cap C = {}
  BY <1>1
<1>6. Cardinality(A \cup C) = Cardinality(A) + Cardinality(C)
  <2>1. Cardinality(A \cup C) = Cardinality(A) + Cardinality(C) - Cardinality(A \cap C)
    BY <1>2, <1>3, FS_Union
  <2>2. Cardinality(A \cap C) = 0 /\ Cardinality(A) \in Nat /\ Cardinality(C) \in Nat
    BY <1>2, <1>3, <1>5, FS_EmptySet, FS_CardinalityType
  <2>. HIDE DEF A, C
  <2>. QED
    BY <2>1, <2>2
<1>7. Occurs(e, s) = Cardinality(A) /\ Occurs(e, t) = Cardinality(B)
        /\ Occurs(e, s \o t) = Cardinality(A \cup C)
  BY <1>4 DEF Occurs
<1>8. Cardinality(A) \in Nat /\ Cardinality(B) \in Nat
  BY <1>2, FS_CardinalityType
<1>. QED
  BY <1>3, <1>6, <1>7, <1>8

-----------------------------------------------------------------------------
(* Sums do not depend on the order they are taken in *)

\* One fold gives the sums over all the subsets.
LEMMA SumOverPart ==
    ASSUME NEW S, IsFiniteSet(S), NEW f, NEW g, AddsUp(g, f, S), NEW T \in SUBSET S
    PROVE  SumOver(f, T) = g[T]
<1>1. IsFiniteSet(T)
  BY FS_Subset
<1>2. PICK h : AddsUp(h, f, T) /\ SumOver(f, T) = h[T]
  BY <1>1, SumOverIs
<1>. DEFINE G == {t \in SUBSET T : h[t] = g[t]}
<1>3. {} \in G
  BY <1>2 DEF AddsUp
<1>4. ASSUME NEW t \in SUBSET T, t # {}, t \ {Pick(t)} \in G PROVE t \in G
  <2>1. h[t] = f[Pick(t)] + h[t \ {Pick(t)}]
    BY <1>2, <1>4 DEF AddsUp
  <2>2. g[t] = f[Pick(t)] + g[t \ {Pick(t)}]
    BY <1>4 DEF AddsUp
  <2>. QED
    BY <1>4, <2>1, <2>2
<1>5. SUBSET T \subseteq G
  <2>. HIDE DEF G
  <2>. QED
    BY <1>1, <1>3, <1>4, Growing
<1>. QED
  BY <1>2, <1>5

LEMMA SumOfNone == ASSUME NEW f PROVE SumOver(f, {}) = 0
<1>1. IsFiniteSet({})
  BY FS_EmptySet
<1>2. PICK g : AddsUp(g, f, {}) /\ SumOver(f, {}) = g[{}]
  BY <1>1, SumOverIs
<1>. QED
  BY <1>2 DEF AddsUp

\* Any member may be taken out first.
LEMMA SumWithout ==
    ASSUME NEW S, IsFiniteSet(S), NEW f, \A x \in S : f[x] \in Int, NEW x \in S
    PROVE  SumOver(f, S) = f[x] + SumOver(f, S \ {x})
<1>1. PICK g : AddsUp(g, f, S)
  BY SumsExist
<1>. DEFINE Upto == {n \in Nat : \A s \in SUBSET S :
                        Cardinality(s) = n => \A y \in s : g[s] = f[y] + g[s \ {y}]}
<1>2. \A s \in SUBSET S : IsFiniteSet(s) /\ Cardinality(s) \in Nat
  BY FS_Subset, FS_CardinalityType
<1>3. \A s \in SUBSET S : g[s] \in Int
  <2>. SUFFICES ASSUME NEW s \in SUBSET S PROVE g[s] \in Int
    OBVIOUS
  <2>1. SumOver(f, s) = g[s] /\ IsFiniteSet(s) /\ \A y \in s : f[y] \in Int
    BY <1>1, <1>2, SumOverPart
  <2>2. SumOver(f, s) \in Int
    BY <2>1, SumIsNumber
  <2>. QED
    BY <2>1, <2>2
<1>4. 0 \in Upto
  <2>1. \A s \in SUBSET S : Cardinality(s) = 0 => s = {}
    BY <1>2, FS_EmptySet
  <2>. QED
    BY <2>1
<1>5. ASSUME NEW n \in Nat, n \in Upto PROVE n + 1 \in Upto
  <2>. SUFFICES ASSUME NEW s \in SUBSET S, Cardinality(s) = n + 1, NEW y \in s
                PROVE  g[s] = f[y] + g[s \ {y}]
    OBVIOUS
  <2>. DEFINE p == Pick(s)
  <2>1. p \in s
    BY Picked
  <2>2. g[s] = f[p] + g[s \ {p}]
    BY <1>1 DEF AddsUp
  <2>. HIDE DEF p
  <2>3. CASE p = y
    BY <2>2, <2>3
  <2>4. CASE p # y
    <3>1. Cardinality(s \ {p}) = n /\ Cardinality(s \ {y}) = n
      <4>1. IsFiniteSet(s) /\ y \in s /\ p \in s
        BY <1>2, <2>1
      <4>2. /\ Cardinality(s \ {p}) = Cardinality(s) - 1
            /\ Cardinality(s \ {y}) = Cardinality(s) - 1
        BY <4>1, FS_RemoveElement
      <4>. QED
        BY <4>2
    <3>2. g[s \ {p}] = f[y] + g[(s \ {p}) \ {y}]
      BY <1>5, <2>4, <3>1
    <3>3. g[s \ {y}] = f[p] + g[(s \ {y}) \ {p}]
      BY <1>5, <2>1, <2>4, <3>1
    <3>4. (s \ {y}) \ {p} = (s \ {p}) \ {y}
      OBVIOUS
    <3>. DEFINE rest == g[(s \ {p}) \ {y}]
    <3>5. rest \in Int /\ f[p] \in Int /\ f[y] \in Int
      BY <1>3, <2>1
    <3>6. g[s] = f[p] + (f[y] + rest) /\ g[s \ {y}] = f[p] + rest
      BY <2>2, <3>2, <3>3, <3>4
    <3>. HIDE DEF rest
    <3>. QED
      BY <3>5, <3>6
  <2>. QED
    BY <2>3, <2>4
<1>6. Nat \subseteq Upto
  <2>. HIDE DEF Upto
  <2>. QED
    BY <1>4, <1>5, Counting
<1>7. g[S] = f[x] + g[S \ {x}]
  BY <1>2, <1>6
<1>. QED
  BY <1>1, <1>7, SumOverPart

\* Two amounts that agree on what is summed have one sum.
LEMMA SumSame ==
    ASSUME NEW S, IsFiniteSet(S), NEW f, NEW f2, \A x \in S : f[x] = f2[x]
    PROVE  SumOver(f, S) = SumOver(f2, S)
<1>1. PICK g : AddsUp(g, f, S) /\ SumOver(f, S) = g[S]
  BY SumOverIs
<1>2. PICK g2 : AddsUp(g2, f2, S) /\ SumOver(f2, S) = g2[S]
  BY SumOverIs
<1>. DEFINE G == {s \in SUBSET S : g[s] = g2[s]}
<1>3. {} \in G
  BY <1>1, <1>2 DEF AddsUp
<1>4. ASSUME NEW s \in SUBSET S, s # {}, s \ {Pick(s)} \in G PROVE s \in G
  <2>1. g[s] = f[Pick(s)] + g[s \ {Pick(s)}] /\ g2[s] = f2[Pick(s)] + g2[s \ {Pick(s)}]
    BY <1>1, <1>2, <1>4 DEF AddsUp
  <2>2. f[Pick(s)] = f2[Pick(s)]
    BY <1>4, Picked
  <2>. QED
    BY <1>4, <2>1, <2>2
<1>5. SUBSET S \subseteq G
  <2>. HIDE DEF G
  <2>. QED
    BY <1>3, <1>4, Growing
<1>. QED
  BY <1>1, <1>2, <1>5

\* The sum over two sets that share nothing.
LEMMA SumApart ==
    ASSUME NEW A, NEW B, IsFiniteSet(A), IsFiniteSet(B), A \cap B = {},
           NEW f, \A x \in A \cup B : f[x] \in Int
    PROVE  SumOver(f, A \cup B) = SumOver(f, A) + SumOver(f, B)
<1>. DEFINE G == {s \in SUBSET B : SumOver(f, A \cup s) = SumOver(f, A) + SumOver(f, s)}
<1>0. SumOver(f, A) \in Int
  BY SumIsNumber
<1>1. {} \in G
  <2>1. A \cup {} = A
    OBVIOUS
  <2>. QED
    BY <1>0, <2>1, SumOfNone
<1>2. ASSUME NEW s \in SUBSET B, s # {}, s \ {Pick(s)} \in G PROVE s \in G
  <2>. DEFINE p == Pick(s)
  <2>1. p \in s
    BY <1>2, Picked
  <2>2. s \ {p} \in G
    BY <1>2
  <2>. HIDE DEF p
  <2>3. IsFiniteSet(s) /\ IsFiniteSet(A \cup s) /\ IsFiniteSet(s \ {p})
    BY FS_Subset, FS_Union
  <2>4. SumOver(f, s) = f[p] + SumOver(f, s \ {p})
    BY <2>1, <2>3, SumWithout
  <2>5. (A \cup s) \ {p} = A \cup (s \ {p})
    BY <2>1
  <2>6. SumOver(f, A \cup s) = f[p] + SumOver(f, (A \cup s) \ {p})
    <3>. DEFINE U == A \cup s
    <3>1. IsFiniteSet(U) /\ p \in U /\ \A x \in U : f[x] \in Int
      BY <2>1, <2>3
    <3>. HIDE DEF U
    <3>2. SumOver(f, U) = f[p] + SumOver(f, U \ {p})
      BY <3>1, SumWithout
    <3>. QED
      BY <3>2 DEF U
  <2>7. SumOver(f, A \cup (s \ {p})) = SumOver(f, A) + SumOver(f, s \ {p})
    BY <2>2
  <2>8. f[p] \in Int /\ SumOver(f, s \ {p}) \in Int
    BY <2>1, <2>3, SumIsNumber
  <2>9. SumOver(f, A \cup s) = SumOver(f, A) + SumOver(f, s)
    <3>. DEFINE a == SumOver(f, A)
                rest == SumOver(f, s \ {p})
                m == f[p]
    <3>1. /\ SumOver(f, A \cup s) = m + (a + rest) /\ SumOver(f, s) = m + rest
          /\ a \in Int /\ rest \in Int /\ m \in Int
      BY <1>0, <2>4, <2>5, <2>6, <2>7, <2>8
    <3>. HIDE DEF a, rest, m
    <3>2. SumOver(f, A \cup s) = a + SumOver(f, s)
      BY <3>1
    <3>. QED
      BY <3>2 DEF a
  <2>. QED
    BY <2>9
<1>3. SUBSET B \subseteq G
  <2>. HIDE DEF G
  <2>. QED
    BY <1>1, <1>2, Growing
<1>. QED
  BY <1>3

\* The members of one class.
OfClass(S, class, k) == {x \in S : class[x] = k}

\* The sums of the classes of a set add up to the sum over the set.
LEMMA SumByClass ==
    ASSUME NEW S, IsFiniteSet(S), NEW f, \A x \in S : f[x] \in Int,
           NEW K, IsFiniteSet(K), NEW class, \A x \in S : class[x] \in K, NEW part,
           \A k \in K : part[k] = SumOver(f, OfClass(S, class, k))
    PROVE  SumOver(part, K) = SumOver(f, S)
<1>. DEFINE In(k) == {x \in S : class[x] \in k}
            Of(k) == OfClass(S, class, k)
            G == {k \in SUBSET K : SumOver(part, k) = SumOver(f, In(k))}
<1>0. \A k : IsFiniteSet(In(k)) /\ IsFiniteSet(Of(k))
  BY FS_Subset DEF OfClass
<1>01. \A k \in K : part[k] \in Int
  <2>. SUFFICES ASSUME NEW k \in K PROVE part[k] \in Int
    OBVIOUS
  <2>. DEFINE T == Of(k)
  <2>1. IsFiniteSet(T) /\ (\A x \in T : f[x] \in Int) /\ part[k] = SumOver(f, T)
    BY <1>0 DEF OfClass
  <2>. HIDE DEF T
  <2>. QED
    BY <2>1, SumIsNumber
<1>1. {} \in G
  <2>1. In({}) = {}
    OBVIOUS
  <2>2. SumOver(f, In({})) = 0 /\ SumOver(part, {}) = 0
    BY <2>1, SumOfNone
  <2>. QED
    BY <2>2
<1>2. ASSUME NEW k \in SUBSET K, k # {}, k \ {Pick(k)} \in G PROVE k \in G
  <2>. DEFINE p == Pick(k)
              rest == k \ {p}
  <2>1. p \in k
    BY <1>2, Picked
  <2>2. SumOver(part, rest) = SumOver(f, In(rest))
    BY <1>2
  <2>. HIDE DEF p
  <2>3. IsFiniteSet(k)
    BY FS_Subset
  <2>4. SumOver(part, k) = part[p] + SumOver(part, rest)
    BY <1>01, <2>1, <2>3, SumWithout
  <2>5. part[p] = SumOver(f, Of(p))
    BY <2>1
  <2>. DEFINE A == Of(p)
              B == In(rest)
  <2>6. /\ In(k) = A \cup B /\ A \cap B = {} /\ IsFiniteSet(A) /\ IsFiniteSet(B)
        /\ \A x \in A \cup B : f[x] \in Int
    BY <1>0, <2>1 DEF OfClass
  <2>. HIDE DEF A, B, rest, In, Of
  <2>7. SumOver(f, A \cup B) = SumOver(f, A) + SumOver(f, B)
    BY <2>6, SumApart
  <2>8. SumOver(part, k) = SumOver(f, In(k))
    BY <2>2, <2>4, <2>5, <2>6, <2>7 DEF A, B
  <2>. QED
    BY <2>8
<1>3. SUBSET K \subseteq G
  <2>. HIDE DEF G
  <2>. QED
    BY <1>1, <1>2, Growing
<1>4. In(K) = S
  OBVIOUS
<1>5. SumOver(part, K) = SumOver(f, In(K))
  BY <1>3
<1>. QED
  BY <1>4, <1>5

\* Summing over rows made one to one from others is summing over those.
LEMMA SumMoved ==
    ASSUME NEW S, IsFiniteSet(S), NEW f, NEW f2, NEW row,
           \A x \in S : f[x] \in Int /\ f2[row[x]] = f[x],
           \A x, y \in S : row[x] = row[y] => x = y
    PROVE  SumOver(f2, {row[x] : x \in S}) = SumOver(f, S)
<1>. DEFINE To(s) == {row[x] : x \in s}
            G == {s \in SUBSET S : SumOver(f2, To(s)) = SumOver(f, s)}
<1>1. {} \in G
  <2>1. To({}) = {}
    OBVIOUS
  <2>. HIDE DEF To
  <2>2. SumOver(f2, To({})) = SumOver(f, {})
    BY <2>1, SumOfNone
  <2>. QED
    BY <2>2
<1>2. ASSUME NEW s \in SUBSET S, s # {}, s \ {Pick(s)} \in G PROVE s \in G
  <2>. DEFINE p == Pick(s)
              rest == s \ {p}
  <2>1. p \in s
    BY <1>2, Picked
  <2>2. SumOver(f2, To(rest)) = SumOver(f, rest)
    BY <1>2
  <2>. HIDE DEF p
  <2>3. IsFiniteSet(s)
    BY FS_Subset
  <2>4. SumOver(f, s) = f[p] + SumOver(f, rest)
    BY <2>1, <2>3, SumWithout
  <2>. DEFINE T == To(s)
              q == row[p]
  <2>5. q \in T /\ T \ {q} = To(rest) /\ f2[q] = f[p] /\ \A y \in T : f2[y] \in Int
    BY <2>1
  <2>6. IsFiniteSet(T)
    <3>. DEFINE h == [x \in s |-> row[x]]
    <3>1. h \in Surjection(s, T)
      BY DEF Surjection
    <3>. HIDE DEF h, T
    <3>. QED
      BY <2>3, <3>1, FS_Surjection
  <2>. HIDE DEF T, q, rest, To
  <2>7. SumOver(f2, T) = f2[q] + SumOver(f2, T \ {q})
    BY <2>5, <2>6, SumWithout
  <2>8. SumOver(f2, To(s)) = SumOver(f, s)
    BY <2>2, <2>4, <2>5, <2>7 DEF T
  <2>. QED
    BY <2>8
<1>3. SUBSET S \subseteq G
  <2>. HIDE DEF G
  <2>. QED
    BY <1>1, <1>2, Growing
<1>. QED
  BY <1>3

\* The same, with the rows they become listed as a set of their own.
LEMMA SumMovedOnto ==
    ASSUME NEW S, IsFiniteSet(S), NEW f, NEW f2, NEW row, NEW T,
           \A x \in S : f[x] \in Int /\ f2[row[x]] = f[x] /\ row[x] \in T,
           \A x, y \in S : row[x] = row[y] => x = y,
           \A t \in T : \E x \in S : row[x] = t
    PROVE  SumOver(f2, T) = SumOver(f, S)
<1>1. T = {row[x] : x \in S}
  OBVIOUS
<1>2. SumOver(f2, {row[x] : x \in S}) = SumOver(f, S)
  BY SumMoved
<1>. QED
  BY <1>1, <1>2

\* Sums keep the order of what they add up, and of its multiples.
LEMMA SumsCompare ==
    ASSUME NEW S, IsFiniteSet(S), NEW f, NEW f2, NEW a \in Nat, NEW b \in Nat,
           \A x \in S : f[x] \in Nat /\ f2[x] \in Nat /\ f[x] * a <= f2[x] * b
    PROVE  SumOver(f, S) * a <= SumOver(f2, S) * b
<1>1. PICK g : AddsUp(g, f, S) /\ SumOver(f, S) = g[S]
  BY SumOverIs
<1>2. PICK g2 : AddsUp(g2, f2, S) /\ SumOver(f2, S) = g2[S]
  BY SumOverIs
<1>3. g[S] * a <= g2[S] * b
  BY <1>1, <1>2, SumsKeepTheOrder
<1>. QED
  BY <1>1, <1>2, <1>3

-----------------------------------------------------------------------------
(* Rows kept by a condition, and rows sorted by a figure *)

\* What a condition keeps of a list is a list of its rows.
LEMMA OnlyIs ==
    ASSUME NEW E, NEW s \in Seq(E), NEW places \in SUBSET (DOMAIN s)
    PROVE  /\ Only(s, places) \in Seq(E)
           /\ Cardinality(places) \in Nat /\ Len(Only(s, places)) = Cardinality(places)
           /\ \A k \in 1..Cardinality(places) : \E i \in places : Only(s, places)[k] = s[i]
<1>1. Len(s) \in Nat /\ DOMAIN s = 1..Len(s) /\ places \in SUBSET (1..Len(s))
  OBVIOUS
<1>. DEFINE n == Cardinality(places)
            Nth(k) == InOrder(places)[k]
<1>2. n \in Nat /\ \A k \in 1..n : Nth(k) \in places
  BY <1>1, InOrderIs
<1>3. Only(s, places) = [k \in 1..n |-> s[Nth(k)]]
  BY DEF Only
<1>. HIDE DEF n, Nth
<1>4. \A k \in 1..n : s[Nth(k)] \in E
  BY <1>1, <1>2
<1>5. Only(s, places) \in [1..n -> E] /\ \A k \in 1..n : Only(s, places)[k] = s[Nth(k)]
  BY <1>3, <1>4
<1>6. Only(s, places) \in Seq(E) /\ Len(Only(s, places)) = n
  BY <1>2, <1>5
<1>. QED
  BY <1>2, <1>5, <1>6 DEF n

\* A sort lists no row twice.
LEMMA SequencedOnce ==
    ASSUME NEW S, IsFiniteSet(S), NEW pairs, Orders(pairs, S),
           NEW k \in 1..Cardinality(S), NEW l \in 1..Cardinality(S),
           Sequenced(S, pairs)[k] = Sequenced(S, pairs)[l]
    PROVE  k = l
<1>. DEFINE n == Cardinality(S)
            s == Sequenced(S, pairs)
            f == [i \in 1..n |-> s[i]]
<1>1. /\ n \in Nat /\ \A i \in 1..n : s[i] \in S
      /\ \A x \in S : \E i \in 1..n : s[i] = x
  BY SequencedIs
<1>2. IsFiniteSet(1..n) /\ Cardinality(1..n) = n
  <2>1. 1 \in Int /\ n \in Int
    BY <1>1
  <2>. HIDE DEF n
  <2>2. IsFiniteSet(1..n) /\ Cardinality(1..n) = IF 1 > n THEN 0 ELSE n - 1 + 1
    BY <2>1, FS_Interval
  <2>. QED
    BY <1>1, <2>2
<1>. HIDE DEF s
<1>3. f \in Surjection(1..n, S)
  <2>1. f \in [1..n -> S] /\ \A x \in S : \E i \in 1..n : f[i] = x
    BY <1>1
  <2>. HIDE DEF f, n
  <2>. QED
    BY <2>1 DEF Surjection
<1>4. f \in Injection(1..n, S)
  <2>. HIDE DEF f
  <2>. QED
    BY <1>2, <1>3, FS_Surjection
<1>5. \A i, j \in 1..n : f[i] = f[j] => i = j
  <2>. HIDE DEF f, n
  <2>. QED
    BY <1>4 DEF Injection, IsInjective
<1>. QED
  BY <1>5 DEF s

\* sorted(..., reverse=True) lists every place once, after those with a larger figure.
LEMMA LargestFirstIs ==
    ASSUME NEW n \in Nat, NEW figure, DOMAIN figure = 1..n, \A i \in 1..n : figure[i] \in Int
    PROVE  /\ DOMAIN LargestFirst(figure) = 1..n
           /\ \A k \in 1..n : LargestFirst(figure)[k] \in 1..n
           /\ \A i \in 1..n : \E k \in 1..n : LargestFirst(figure)[k] = i
           /\ \A k, l \in 1..n : LargestFirst(figure)[k] = LargestFirst(figure)[l] => k = l
           /\ \A k \in 1..n :
                Cardinality({i \in 1..n : figure[i] > figure[LargestFirst(figure)[k]]}) <= k - 1
<1>. DEFINE S == 1..n
            less == [i \in S |-> -figure[i]]
            place == [i \in S |-> i]
            pairs == Keyed(S, less, place)
            here == {p \in S \X S : /\ p[1] # p[2]
                                    /\ \/ figure[p[1]] > figure[p[2]]
                                       \/ figure[p[1]] = figure[p[2]] /\ p[1] < p[2]}
<1>1. IsFiniteSet(S) /\ Cardinality(S) = n
  <2>1. 1 \in Int /\ n \in Int
    OBVIOUS
  <2>2. IsFiniteSet(S) /\ Cardinality(S) = IF 1 > n THEN 0 ELSE n - 1 + 1
    BY <2>1, FS_Interval
  <2>. QED
    BY <2>2
<1>2. /\ \A x \in S : less[x] \in Int /\ place[x] \in Int
      /\ \A x, y \in S : less[x] = less[y] /\ place[x] = place[y] => x = y
  OBVIOUS
<1>3. Orders(pairs, S)
  <2>. HIDE DEF S, less, place
  <2>. QED
    BY <1>2, KeyedOrder
<1>4. pairs = here
  <2>1. ASSUME NEW p \in S \X S
        PROVE  /\ less[p[1]] < less[p[2]] <=> figure[p[1]] > figure[p[2]]
               /\ less[p[1]] = less[p[2]] <=> figure[p[1]] = figure[p[2]]
               /\ place[p[1]] = p[1] /\ place[p[2]] = p[2]
    <3>1. p[1] \in S /\ p[2] \in S
      OBVIOUS
    <3>2. less[p[1]] = -figure[p[1]] /\ less[p[2]] = -figure[p[2]]
          /\ figure[p[1]] \in Int /\ figure[p[2]] \in Int
      BY <3>1
    <3>3. \A a, b \in Int : (-a < -b <=> a > b) /\ (-a = -b <=> a = b)
      OBVIOUS
    <3>. HIDE DEF less
    <3>. QED
      BY <3>1, <3>2, <3>3
  <2>. HIDE DEF less, place, S
  <2>. QED
    BY <2>1 DEF Keyed
<1>5. LargestFirst(figure) = Sequenced(S, here)
  BY DEF LargestFirst, SortedBy
<1>. HIDE DEF pairs, here, S
<1>6. /\ DOMAIN LargestFirst(figure) = 1..n
      /\ \A k \in 1..n : LargestFirst(figure)[k] \in S
      /\ \A i \in S : \E k \in 1..n : LargestFirst(figure)[k] = i
  <2>1. /\ DOMAIN Sequenced(S, here) = 1..n
        /\ \A k \in 1..n : Sequenced(S, here)[k] \in S
        /\ \A i \in S : \E k \in 1..n : Sequenced(S, here)[k] = i
    BY <1>1, <1>3, <1>4, SequencedIs
  <2>. QED
    BY <1>5, <2>1
<1>7. \A k, l \in 1..n : LargestFirst(figure)[k] = LargestFirst(figure)[l] => k = l
  BY <1>1, <1>3, <1>4, <1>5, SequencedOnce
<1>8. ASSUME NEW k \in 1..n
      PROVE  Cardinality({i \in S : figure[i] > figure[LargestFirst(figure)[k]]}) <= k - 1
  <2>. DEFINE x == LargestFirst(figure)[k]
              A == {i \in S : figure[i] > figure[x]}
              B == {i \in S : <<i, x>> \in here}
  <2>1. x \in S /\ Cardinality(B) = k - 1
    <3>1. IsFiniteSet(S) /\ Orders(here, S) /\ k \in 1..Cardinality(S)
      BY <1>1, <1>3, <1>4
    <3>2. \A l \in 1..Cardinality(S) :
            Cardinality({i \in S : <<i, Sequenced(S, here)[l]>> \in here}) = l - 1
      BY <3>1, SequencedIs, Zenon
    <3>3. Cardinality({i \in S : <<i, Sequenced(S, here)[k]>> \in here}) = k - 1
      BY <3>1, <3>2, Zenon
    <3>. QED
      BY <1>5, <1>6, <3>3
  <2>2. figure[x] \in Int
    BY <2>1 DEF S
  <2>3. A \subseteq B
    <3>. SUFFICES ASSUME NEW i \in A PROVE i \in B
      OBVIOUS
    <3>1. i \in S /\ figure[i] > figure[x] /\ figure[i] \in Int
      BY DEF S
    <3>2. i # x
      BY <2>2, <3>1
    <3>. HIDE DEF x
    <3>3. <<i, x>> \in here
      BY <2>1, <3>1, <3>2 DEF here
    <3>. QED
      BY <3>1, <3>3
  <2>4. IsFiniteSet(B)
    BY <1>1, FS_Subset
  <2>. HIDE DEF A, B
  <2>5. Cardinality(A) <= Cardinality(B)
    BY <2>3, <2>4, FS_Subset
  <2>. QED
    BY <2>1, <2>5 DEF A
<1>. QED
  BY <1>6, <1>7, <1>8 DEF S

\* Sums keep the order of what they add up, whatever its sign.
LEMMA SumsInOrder ==
    ASSUME NEW S, IsFiniteSet(S), NEW f, NEW f2,
           \A x \in S : f[x] \in Int /\ f2[x] \in Int /\ f[x] <= f2[x]
    PROVE  SumOver(f, S) <= SumOver(f2, S)
<1>. DEFINE G == {s \in SUBSET S : SumOver(f, s) <= SumOver(f2, s)}
<1>1. {} \in G
  BY SumOfNone
<1>2. ASSUME NEW s \in SUBSET S, s # {}, s \ {Pick(s)} \in G PROVE s \in G
  <2>. DEFINE x == Pick(s)
              t == s \ {x}
  <2>1. x \in s /\ IsFiniteSet(s) /\ IsFiniteSet(t)
    BY <1>2, Picked, FS_Subset
  <2>2. /\ f[x] \in Int /\ f2[x] \in Int /\ f[x] <= f2[x]
        /\ \A y \in s : f[y] \in Int /\ f2[y] \in Int
    BY <2>1
  <2>3. SumOver(f, s) = f[x] + SumOver(f, t) /\ SumOver(f2, s) = f2[x] + SumOver(f2, t)
    BY <2>1, <2>2, SumWithout
  <2>4. SumOver(f, t) \in Int /\ SumOver(f2, t) \in Int
    BY <2>1, <2>2, SumIsNumber
  <2>5. SumOver(f, t) <= SumOver(f2, t)
    BY <1>2
  <2>. HIDE DEF x, t
  <2>. QED
    BY <2>2, <2>3, <2>4, <2>5
<1>3. SUBSET S \subseteq G
  <2>. HIDE DEF G
  <2>. QED
    BY <1>1, <1>2, Growing
<1>. QED
  BY <1>3

\* Adding up two figures per row is adding up each of them.
LEMMA SumPlus ==
    ASSUME NEW S, IsFiniteSet(S), NEW f, NEW f2, NEW h,
           \A x \in S : f[x] \in Int /\ f2[x] \in Int /\ h[x] = f[x] + f2[x]
    PROVE  SumOver(h, S) = SumOver(f, S) + SumOver(f2, S)
<1>. DEFINE G == {s \in SUBSET S : SumOver(h, s) = SumOver(f, s) + SumOver(f2, s)}
<1>1. {} \in G
  BY SumOfNone
<1>2. ASSUME NEW s \in SUBSET S, s # {}, s \ {Pick(s)} \in G PROVE s \in G
  <2>. DEFINE x == Pick(s)
              t == s \ {x}
  <2>1. x \in s /\ IsFiniteSet(s) /\ IsFiniteSet(t)
    BY <1>2, Picked, FS_Subset
  <2>2. /\ f[x] \in Int /\ f2[x] \in Int /\ h[x] = f[x] + f2[x]
        /\ \A y \in s : f[y] \in Int /\ f2[y] \in Int /\ h[y] \in Int
    BY <2>1
  <2>3. /\ SumOver(f, s) = f[x] + SumOver(f, t) /\ SumOver(f2, s) = f2[x] + SumOver(f2, t)
        /\ SumOver(h, s) = h[x] + SumOver(h, t)
    BY <2>1, <2>2, SumWithout
  <2>4. SumOver(f, t) \in Int /\ SumOver(f2, t) \in Int
    BY <2>1, <2>2, SumIsNumber
  <2>5. SumOver(h, t) = SumOver(f, t) + SumOver(f2, t)
    BY <1>2
  <2>. HIDE DEF x, t
  <2>. QED
    BY <2>2, <2>3, <2>4, <2>5
<1>3. SUBSET S \subseteq G
  <2>. HIDE DEF G
  <2>. QED
    BY <1>1, <1>2, Growing
<1>. QED
  BY <1>3

\* Nothing but zeros.
LEMMA SumOfZeros ==
    ASSUME NEW S, IsFiniteSet(S), NEW f, \A x \in S : f[x] = 0
    PROVE  SumOver(f, S) = 0
<1>. DEFINE sum == SumOver(f, S)
<1>1. \A x \in S : f[x] \in Int /\ f[x] = f[x] + f[x]
  OBVIOUS
<1>2. sum = sum + sum
  BY <1>1, SumPlus
<1>3. sum \in Int
  BY <1>1, SumIsNumber
<1>. HIDE DEF sum
<1>4. sum = 0
  BY <1>2, <1>3
<1>. QED
  BY <1>4 DEF sum

\* One for each row counts them.
LEMMA SumOfOnes ==
    ASSUME NEW S, IsFiniteSet(S), NEW f, \A x \in S : f[x] = 1
    PROVE  SumOver(f, S) = Cardinality(S)
<1>. DEFINE G == {s \in SUBSET S : SumOver(f, s) = Cardinality(s)}
<1>1. {} \in G
  BY SumOfNone, FS_EmptySet
<1>2. ASSUME NEW s \in SUBSET S, s # {}, s \ {Pick(s)} \in G PROVE s \in G
  <2>. DEFINE x == Pick(s)
              t == s \ {x}
  <2>1. x \in s /\ IsFiniteSet(s) /\ f[x] = 1 /\ \A y \in s : f[y] \in Int
    BY <1>2, Picked, FS_Subset
  <2>2. SumOver(f, s) = f[x] + SumOver(f, t)
    BY <2>1, SumWithout
  <2>3. Cardinality(t) = Cardinality(s) - 1 /\ Cardinality(s) \in Nat
    BY <2>1, FS_RemoveElement, FS_CardinalityType
  <2>4. SumOver(f, t) = Cardinality(t)
    BY <1>2
  <2>. HIDE DEF x, t
  <2>. QED
    BY <2>1, <2>2, <2>3, <2>4
<1>3. SUBSET S \subseteq G
  <2>. HIDE DEF G
  <2>. QED
    BY <1>1, <1>2, Growing
<1>. QED
  BY <1>3

\* The same figures with the other sign.
LEMMA SumNegated ==
    ASSUME NEW S, IsFiniteSet(S), NEW f, NEW f2, \A x \in S : f[x] \in Int /\ f2[x] = -f[x]
    PROVE  SumOver(f2, S) = -SumOver(f, S)
<1>. DEFINE zero == [x \in S |-> 0]
<1>1. \A x \in S : f2[x] \in Int /\ zero[x] = f[x] + f2[x] /\ zero[x] = 0
  OBVIOUS
<1>. HIDE DEF zero
<1>2. SumOver(zero, S) = SumOver(f, S) + SumOver(f2, S) /\ SumOver(zero, S) = 0
  BY <1>1, SumPlus, SumOfZeros
<1>3. SumOver(f, S) \in Int /\ SumOver(f2, S) \in Int
  BY <1>1, SumIsNumber
<1>. QED
  BY <1>2, <1>3

\* A factor may be taken out of a sum.
LEMMA SumTimes ==
    ASSUME NEW S, IsFiniteSet(S), NEW f, NEW f2, NEW a \in Nat,
           \A x \in S : f[x] \in Nat /\ f2[x] = a * f[x]
    PROVE  SumOver(f2, S) = a * SumOver(f, S) /\ SumOver(f, S) \in Nat
<1>1. \A x \in S : f[x] \in Nat /\ f2[x] \in Nat /\ f2[x] * 1 <= f[x] * a /\ f[x] * a <= f2[x] * 1
  OBVIOUS
<1>2. SumOver(f, S) \in Nat /\ SumOver(f2, S) \in Nat
  BY <1>1, SumIsNumber
<1>3. SumOver(f2, S) * 1 <= SumOver(f, S) * a /\ SumOver(f, S) * a <= SumOver(f2, S) * 1
  BY <1>1, SumsCompare
<1>. QED
  BY <1>2, <1>3
=============================================================================
