--------------------------- MODULE ProjectionProofs ---------------------------
(***************************************************************************)
(* What the projection computes, for all inputs: Project and Reduce, loops *)
(* that adopt one row after the other, choose what the three filters of    *)
(* docs/domain/processing/projection.md choose from the same rows at once. *)
(***************************************************************************)
EXTENDS Projection, Integers, FiniteSetTheorems, WellFoundedInduction, TLAPS

-----------------------------------------------------------------------------
(* Finite data: smallest and largest elements, induction over a finite set,  *)
(* recursion over its subsets, and the numbering of its elements by a key.   *)
(* The induction theorems of the library take a predicate as a parameter;   *)
(* here it is a set, so that they can be cited.                             *)

(* A set of naturals that is not empty has a smallest element, and Min      *)
(* returns it.                                                              *)
LEMMA MinExists ==
  ASSUME NEW T \in SUBSET Nat, T # {}
  PROVE  Min(T) \in T /\ \A y \in T : Min(T) <= y
<1> DEFINE Less == OpToRel(<, Nat)
<1>1. \A x, y \in Nat : y < x => <<y, x>> \in Less
  BY DEF OpToRel
<1>2. IsWellFoundedOn(Less, Nat)
  BY NatLessThanWellFounded
<1> HIDE DEF Less
<1>3. PICK x \in T : \A y \in T : ~ (<<y, x>> \in Less)
  BY <1>2, WFMin
<1>4. ASSUME NEW y \in T, ~ (x <= y)
      PROVE  FALSE
  <2>1. y < x /\ y \in Nat /\ x \in Nat
    BY <1>4
  <2>2. <<y, x>> \in Less
    BY <1>1, <2>1, Zenon
  <2> QED
    BY <1>3, <2>2, Zenon
<1> QED
  BY <1>3, <1>4 DEF Min

(* Max returns an element of a set of naturals that is bounded and not      *)
(* empty: a fold over the indices of a sequence takes out the last.         *)
LEMMA MaxExists ==
  ASSUME NEW n \in Nat, NEW T \in SUBSET (0..n), T # {}
  PROVE  Max(T) \in T
<1> DEFINE U == {k \in 0..n : n - k \in T}
<1>1. \A x \in T : n - x \in U
  OBVIOUS
<1>2. U \in SUBSET Nat /\ U # {}
  <2>1. PICK x \in T : n - x \in U
    BY <1>1
  <2>2. U \subseteq 0..n
    OBVIOUS
  <2> QED
    BY <2>1, <2>2
<1> HIDE DEF U
<1>3. Min(U) \in U /\ \A y \in U : Min(U) <= y
  BY <1>2, MinExists
<1>4. Min(U) \in 0..n /\ n - Min(U) \in T
  BY <1>3 DEF U
<1>5. \A x \in T : n - Min(U) >= x
  BY <1>1, <1>3, <1>4
<1> QED
  BY <1>4, <1>5 DEF Max

-----------------------------------------------------------------------------
(* Induction over the naturals, for a set of them. *)
LEMMA NaturalInduction ==
  ASSUME NEW Good, 0 \in Good, \A n \in Nat : n \in Good => n + 1 \in Good
  PROVE  Nat \subseteq Good
<1> SUFFICES ASSUME Nat \ Good # {}
             PROVE  FALSE
  OBVIOUS
<1>1. /\ Min(Nat \ Good) \in Nat \ Good
      /\ \A y \in Nat \ Good : Min(Nat \ Good) <= y
  BY MinExists
<1>2. PICK n \in Nat \ Good : \A y \in Nat \ Good : n <= y
  BY <1>1
<1>3. n - 1 \in Nat /\ n - 1 \in Good
  BY <1>2
<1> QED
  BY <1>2, <1>3

(* Whatever is not in a set that has {} in it has an element.               *)
LEMMA EmptyApart == \A Good : {} \in Good => \A T : T \notin Good => T # {}
OBVIOUS

(* Induction over a finite set: what holds of the empty set, and of every   *)
(* other subset as soon as it holds of that subset without an element of    *)
(* one's own choice, holds of the set.                                      *)
LEMMA SubsetInduction ==
  ASSUME NEW S, IsFiniteSet(S), NEW Good,
         {} \in Good,
         \A T \in SUBSET S : T # {} => \E x \in T : T \ {x} \in Good => T \in Good
  PROVE  S \in Good
<1> SUFFICES ASSUME S \notin Good
             PROVE  FALSE
  OBVIOUS
<1> DEFINE Bad == (SUBSET S) \ Good
           Less == StrictSubsetOrdering(S)
<1>1. IsWellFoundedOn(Less, SUBSET S)
  <2>1. IsWellFoundedOn(StrictSubsetOrdering(S), FiniteSubsetsOf(S))
    BY FS_StrictSubsetOrderingWellFounded
  <2>2. FiniteSubsetsOf(S) = SUBSET S
    BY FS_FiniteSubsetsOfFinite
  <2> QED
    BY <2>1, <2>2
<1>2. \A T, U \in SUBSET S : U \subseteq T /\ U # T => <<U, T>> \in Less
  BY DEF StrictSubsetOrdering
<1>3. Bad \subseteq SUBSET S /\ Bad # {}
  OBVIOUS
<1> HIDE DEF Less
<1>4. PICK T \in Bad : \A U \in Bad : ~ (<<U, T>> \in Less)
  BY <1>1, <1>3, WFMin
<1>5. T \in SUBSET S /\ T # {}
  <2>1. T \in SUBSET S /\ T \notin Good
    BY <1>4
  <2>2. T # {}
    BY <2>1, EmptyApart
  <2> QED
    BY <2>1, <2>2
<1>6. PICK x \in T : T \ {x} \in Good => T \in Good
  BY <1>5
<1>7. T \ {x} \in Bad /\ T \ {x} # T
  BY <1>4, <1>6
<1> QED
  BY <1>2, <1>4, <1>5, <1>7

\* pick takes an element out of each subset of S, step leads from V to V
Picks(pick, S) == \A T \in SUBSET S : T # {} => pick[T] \in T
StaysIn(step, S, V) == \A x \in S, v \in V : step[<<x, v>>] \in V

\* f is the fold of step over the subsets of S
IsFold(f, step, pick, base, S, V) ==
    /\ f \in [SUBSET S -> V]
    /\ f[{}] = base
    /\ \A T \in SUBSET S : T # {} => f[T] = step[<<pick[T], f[T \ {pick[T]}]>>]

(* Recursion over the subsets of a finite set: the equation of a fold has a *)
(* solution, whichever element of a subset the fold takes out first.        *)
LEMMA SubsetRecursion ==
  ASSUME NEW S, IsFiniteSet(S), NEW V, NEW base \in V,
         NEW pick, Picks(pick, S), NEW step, StaysIn(step, S, V)
  PROVE  \E f : IsFold(f, step, pick, base, S, V)
<1> DEFINE Value(f, T) == IF T = {} THEN base ELSE step[<<pick[T], f[T \ {pick[T]}]>>]
           Solves(n) == \E f \in [SUBSET S -> V] :
                           \A T \in SUBSET S : Cardinality(T) <= n => f[T] = Value(f, T)
           Good == {n \in Nat : Solves(n)}
<1>1. ASSUME NEW T \in SUBSET S
      PROVE  /\ Cardinality(T) \in Nat /\ Cardinality(T) <= Cardinality(S)
             /\ Cardinality(T) = 0 => T = {}
  BY FS_Subset, FS_CardinalityType, FS_EmptySet
<1>0. ASSUME NEW T \in SUBSET S, T # {}
      PROVE  /\ pick[T] \in T
             /\ T \ {pick[T]} \in SUBSET S
             /\ Cardinality(T \ {pick[T]}) = Cardinality(T) - 1
  <2>1. pick[T] \in T
    BY <1>0 DEF Picks
  <2>2. IsFiniteSet(T)
    BY FS_Subset
  <2> QED
    BY <2>1, <2>2, FS_RemoveElement
<1>2. 0 \in Good
  <2>1. [T \in SUBSET S |-> base] \in [SUBSET S -> V]
    OBVIOUS
  <2>2. ASSUME NEW T \in SUBSET S, Cardinality(T) <= 0
        PROVE  [U \in SUBSET S |-> base][T] = Value([U \in SUBSET S |-> base], T)
    <3>1. T = {}
      BY <1>1, <2>2
    <3> QED
      BY <3>1
  <2>3. Solves(0)
    BY <2>1, <2>2
  <2> QED
    BY <2>3
<1>3. ASSUME NEW n \in Good
      PROVE  n + 1 \in Good
  <2>1. PICK f \in [SUBSET S -> V] :
               \A T \in SUBSET S : Cardinality(T) <= n => f[T] = Value(f, T)
    BY <1>3
  <2> DEFINE g == [T \in SUBSET S |-> Value(f, T)]
  <2>2. g \in [SUBSET S -> V]
    BY <1>0 DEF StaysIn
  <2>3. ASSUME NEW T \in SUBSET S, Cardinality(T) <= n + 1
        PROVE  g[T] = Value(g, T)
    <3>1. CASE T = {}
      BY <3>1
    <3>2. CASE T # {}
      <4>1. /\ pick[T] \in T /\ T \ {pick[T]} \in SUBSET S
            /\ Cardinality(T \ {pick[T]}) <= n
        BY <1>0, <1>1, <2>3, <3>2
      <4>2. f[T \ {pick[T]}] = Value(f, T \ {pick[T]})
        BY <2>1, <4>1
      <4>3. g[T \ {pick[T]}] = f[T \ {pick[T]}]
        BY <4>1, <4>2
      <4>4. g[T] = Value(f, T)
        OBVIOUS
      <4> QED
        BY <3>2, <4>3, <4>4
    <3> QED
      BY <3>1, <3>2
  <2> HIDE DEF g
  <2>4. Solves(n + 1)
    BY <2>2, <2>3
  <2>5. n + 1 \in Nat
    OBVIOUS
  <2> HIDE DEF Solves
  <2> QED
    BY <2>4, <2>5
<1>4. Cardinality(S) \in Good
  <2> HIDE DEF Good
  <2>1. Nat \subseteq Good
    BY <1>2, <1>3, NaturalInduction
  <2> QED
    BY <1>1, <2>1
<1>5. PICK f \in [SUBSET S -> V] : \A T \in SUBSET S : Cardinality(T) <= Cardinality(S) => f[T] = Value(f, T)
  BY <1>4
<1>6. \A T \in SUBSET S : f[T] = Value(f, T)
  BY <1>1, <1>5
<1> QED
  BY <1>6 DEF IsFold

(* The folds of sequences take the largest index out first.                 *)
LEMMA MaxOfInterval ==
  ASSUME NEW k \in Nat \ {0}
  PROVE  Max(1..k) = k /\ (1..k) \ {Max(1..k)} = 1..(k - 1) /\ 1..k # {}
<1>1. Max(1..k) \in 1..k /\ \A x \in 1..k : x <= Max(1..k)
  BY DEF Max
<1> QED
  BY <1>1

LEMMA MaxPicks ==
  ASSUME NEW n \in Nat
  PROVE  Picks([T \in SUBSET (1..n) |-> Max(T)], 1..n)
<1>1. ASSUME NEW T \in SUBSET (1..n), T # {}
      PROVE  Max(T) \in T
  <2>1. T \in SUBSET (0..n)
    OBVIOUS
  <2> QED
    BY <1>1, <2>1, MaxExists
<1> QED
  BY <1>1 DEF Picks

-----------------------------------------------------------------------------
(* Numbering the elements of a finite set by a key.                         *)

\* How many elements of S have a smaller key than x
Preceding(x, S, key) == {y \in S : key[y] < key[x]}
Keyed(S, key) == IsFiniteSet(S) /\ key \in [S -> Nat]

(* The rank of an element is less than the size of the set.                 *)
LEMMA RankBound ==
  ASSUME NEW S, NEW key, Keyed(S, key), NEW x \in S
  PROVE  Cardinality(Preceding(x, S, key)) \in 0..(Cardinality(S) - 1)
<1>1. IsFiniteSet(S \ {x}) /\ Cardinality(S \ {x}) = Cardinality(S) - 1
  BY FS_RemoveElement DEF Keyed
<1>2. Preceding(x, S, key) \in SUBSET (S \ {x})
  BY DEF Keyed, Preceding
<1>3. /\ IsFiniteSet(Preceding(x, S, key))
      /\ Cardinality(Preceding(x, S, key)) <= Cardinality(S \ {x})
  BY <1>1, <1>2, FS_Subset
<1>4. Cardinality(Preceding(x, S, key)) \in Nat /\ Cardinality(S) \in Nat
  BY <1>3, FS_CardinalityType DEF Keyed
<1> QED
  BY <1>1, <1>3, <1>4

(* Elements of different keys have different ranks.                         *)
LEMMA RankGrows ==
  ASSUME NEW S, NEW key, Keyed(S, key), NEW x \in S, NEW y \in S, key[x] < key[y]
  PROVE  Cardinality(Preceding(x, S, key)) # Cardinality(Preceding(y, S, key))
<1>1. /\ Preceding(x, S, key) \in SUBSET Preceding(y, S, key)
      /\ x \in Preceding(y, S, key) /\ x \notin Preceding(x, S, key)
  BY DEF Keyed, Preceding
<1>2. IsFiniteSet(Preceding(y, S, key))
  <2>1. Preceding(y, S, key) \in SUBSET S
    BY DEF Preceding
  <2> QED
    BY <2>1, FS_Subset DEF Keyed
<1> QED
  BY <1>1, <1>2, FS_Subset

(* Elements with keys of their own have all the ranks.                      *)
LEMMA RankOnto ==
  ASSUME NEW S, NEW key, Keyed(S, key),
         \A x, y \in S : key[x] = key[y] => x = y
  PROVE  /\ \A x, y \in S : Cardinality(Preceding(x, S, key)) = Cardinality(Preceding(y, S, key)) => x = y
         /\ \A n \in 0..(Cardinality(S) - 1) : \E x \in S : Cardinality(Preceding(x, S, key)) = n
<1>1. ASSUME NEW x \in S, NEW y \in S,
             Cardinality(Preceding(x, S, key)) = Cardinality(Preceding(y, S, key))
      PROVE  x = y
  <2>1. ~ (key[x] < key[y]) /\ ~ (key[y] < key[x])
    BY <1>1, RankGrows
  <2>2. key[x] \in Nat /\ key[y] \in Nat
    BY DEF Keyed
  <2> QED
    BY <2>1, <2>2
<1> DEFINE rank == [x \in S |-> Cardinality(Preceding(x, S, key))]
           ranks == 0..(Cardinality(S) - 1)
<1>2. rank \in [S -> ranks]
  BY RankBound
<1>3. rank \in Injection(S, ranks)
  BY <1>1, <1>2 DEF Injection, IsInjective
<1>4. Cardinality(S) \in Nat /\ IsFiniteSet(ranks) /\ Cardinality(ranks) = Cardinality(S)
  <2>1. Cardinality(S) \in Nat
    BY FS_CardinalityType DEF Keyed
  <2> QED
    BY <2>1, FS_Interval
<1>5. rank \in Surjection(S, ranks)
  <2> HIDE DEF rank, ranks
  <2> QED
    BY <1>3, <1>4, FS_Injection
<1>6. \A n \in ranks : \E x \in S : rank[x] = n
  <2> HIDE DEF rank, ranks
  <2> QED
    BY <1>5 DEF Surjection
<1> QED
  BY <1>1, <1>6

\* The n-th of a set of numbers in their order, as a listing returns its keys
Nth(S, n) == CHOOSE k \in S : Cardinality({j \in S : j < k}) = n - 1

(* Every number from 1 to the size of the set numbers an element, and every *)
(* element has a number.                                                    *)
LEMMA NthOnto ==
  ASSUME NEW S, S \in SUBSET Nat, IsFiniteSet(S)
  PROVE  /\ Cardinality(S) \in Nat
         /\ \A n \in 1..Cardinality(S) : Nth(S, n) \in S
         /\ \A k \in S : \E n \in 1..Cardinality(S) : Nth(S, n) = k
<1> DEFINE key == [k \in S |-> k]
           c == Cardinality(S)
           before(k) == Cardinality({j \in S : j < k})
<1>1. c \in Nat
  BY FS_CardinalityType
<1>2. Keyed(S, key) /\ \A x, y \in S : key[x] = key[y] => x = y
  BY DEF Keyed
<1>3. \A k \in S : Cardinality(Preceding(k, S, key)) = before(k)
  BY DEF Preceding
<1> HIDE DEF key, before, c
<1>4. /\ \A x, y \in S : before(x) = before(y) => x = y
      /\ \A n \in 0..(c - 1) : \E x \in S : before(x) = n
      /\ \A x \in S : before(x) \in 0..(c - 1)
  <2> DEFINE rank(x) == Cardinality(Preceding(x, S, key))
  <2>1. /\ \A x, y \in S : rank(x) = rank(y) => x = y
        /\ \A n \in 0..(Cardinality(S) - 1) : \E x \in S : rank(x) = n
    <3>1. Keyed(S, key)
      BY <1>2
    <3>2. \A x, y \in S : key[x] = key[y] => x = y
      BY <1>2
    <3> QED
      BY ONLY <3>1, <3>2, RankOnto
  <2>2. \A x \in S : Cardinality(Preceding(x, S, key)) \in 0..(c - 1)
    BY <1>2, RankBound, Zenon DEF c
  <2> QED
    BY <1>3, <2>1, <2>2, Zenon DEF c
<1>5. \A n \in 1..c : Nth(S, n) \in S /\ before(Nth(S, n)) = n - 1
  <2> TAKE n \in 1..c
  <2>1. n - 1 \in 0..(c - 1)
    BY <1>1
  <2>2. PICK x \in S : before(x) = n - 1
    BY <1>4, <2>1
  <2> QED
    BY <2>2, Zenon DEF Nth, before
<1>6. \A k \in S : \E n \in 1..c : Nth(S, n) = k
  <2> TAKE k \in S
  <2>1. before(k) + 1 \in 1..c /\ (before(k) + 1) - 1 = before(k)
    BY <1>1, <1>4
  <2>2. Nth(S, before(k) + 1) = k
    BY <1>4, <1>5, <2>1
  <2> QED
    BY <2>1, <2>2
<1> QED
  BY <1>1, <1>5, <1>6 DEF c

(* An element of a set of c cut into groups of n is in one of the groups.   *)
LEMMA GroupExists ==
  ASSUME NEW n \in Nat \ {0}, NEW c \in Nat, NEW r \in 0..(c - 1)
  PROVE  r \div n \in 0..(((c + n - 1) \div n) - 1)
<1> DEFINE q == r \div n
           d == (c + n - 1) \div n
<1>1. q \in Int /\ n * q <= r /\ r < n * q + n
  OBVIOUS
<1>2. d \in Int /\ n * d <= c + n - 1 /\ c + n - 1 < n * d + n
  OBVIOUS
<1> HIDE DEF q, d
<1>3. q >= 0
  <2>1. ASSUME q < 0 PROVE FALSE
    <3>1. q + 1 <= 0
      BY <1>1, <2>1
    <3>2. n * (q + 1) <= 0
      BY <1>1, <3>1
    <3> QED
      BY <1>1, <3>2
  <2> QED
    BY <1>1, <2>1
<1>4. q < d
  <2>1. ASSUME d <= q PROVE FALSE
    <3>1. n * d <= n * q
      BY <1>1, <1>2, <2>1
    <3> QED
      BY <1>1, <1>2, <3>1
  <2> QED
    BY <1>1, <1>2, <2>1
<1> QED
  BY <1>1, <1>2, <1>3, <1>4 DEF q, d

(* The image of a finite set is finite.                                     *)
LEMMA ImageFinite ==
  ASSUME NEW S, IsFiniteSet(S), NEW f
  PROVE  IsFiniteSet({f[x] : x \in S})
<1> DEFINE T == {f[x] : x \in S}
           g == [x \in S |-> f[x]]
<1>1. g \in Surjection(S, T)
  BY DEF Surjection
<1> HIDE DEF g, T
<1>2. IsFiniteSet(T)
  BY <1>1, FS_Surjection
<1> QED
  BY <1>2 DEF T

-----------------------------------------------------------------------------
(* Precedence.                                                              *)

(* Newer orders the rows of one message, strictly and totally.              *)
LEMMA NewerIrreflexive == \A a \in Row : ~ Newer(a, a)
BY UneditedAssumption DEF Newer, EditedAfter, Row, EditTime

LEMMA NewerTransitive ==
  \A a, b, c \in Row : Newer(a, b) /\ Newer(b, c) => Newer(a, c)
BY UneditedAssumption DEF Newer, EditedAfter, Row, EditTime

LEMMA NewerTotal ==
  ASSUME NEW a \in Row, NEW b \in Row, a.message = b.message, ~ Newer(a, b)
  PROVE  a = b \/ Newer(b, a)
<1>1. ASSUME a.edited = b.edited, a.observed = b.observed, a.observation = b.observation
      PROVE  a = b
  BY <1>1 DEF Row
<1> QED
  BY <1>1, UneditedAssumption DEF Newer, EditedAfter, Row, EditTime

-----------------------------------------------------------------------------
(* best holds the newest row of every message that all offers.              *)
IsBest(best, all) ==
    /\ best \subseteq all
    /\ \A e \in all : \E b \in best : b.message = e.message
    /\ \A b \in best, e \in all : b.message = e.message => b = e \/ Newer(b, e)

LEMMA BestOfNothing == IsBest({}, {})
BY DEF IsBest

LEMMA BestIsOnePerMessage ==
  ASSUME NEW all \in SUBSET Row, NEW best, IsBest(best, all),
         NEW a \in best, NEW b \in best, a.message = b.message
  PROVE  a = b
<1>1. a \in Row /\ b \in Row /\ (a = b \/ Newer(a, b)) /\ (b = a \/ Newer(b, a))
  BY DEF IsBest
<1> QED
  BY <1>1, NewerIrreflexive, NewerTransitive

(* One turn of the loop: adopting a candidate (projection.go, keepBest).    *)
LEMMA AdoptKeepsBest ==
  ASSUME NEW all \in SUBSET Row, NEW best, IsBest(best, all), NEW c \in Row
  PROVE  IsBest(Adopt(c, best), all \cup {c})
<1>1. best \subseteq Row
  BY DEF IsBest
<1>2. CASE \A b \in best : b.message = c.message => Newer(c, b)
  <2>1. Adopt(c, best) = {b \in best : b.message # c.message} \cup {c}
    BY <1>2 DEF Adopt
  <2>2. ASSUME NEW e \in all, e.message = c.message
        PROVE  Newer(c, e)
    <3>1. PICK b \in best : b.message = e.message
      BY DEF IsBest
    <3>2. b = e \/ Newer(b, e)
      BY <3>1 DEF IsBest
    <3> QED
      BY <1>1, <1>2, <2>2, <3>1, <3>2, NewerTransitive
  <2> QED
    BY <2>1, <2>2 DEF IsBest
<1>3. CASE ~ \A b \in best : b.message = c.message => Newer(c, b)
  <2>1. Adopt(c, best) = best
    BY <1>3 DEF Adopt
  <2>2. PICK b \in best : b.message = c.message /\ ~ Newer(c, b)
    BY <1>3
  <2>3. b = c \/ Newer(b, c)
    BY <1>1, <2>2, NewerTotal
  <2>4. ASSUME NEW d \in best, d.message = c.message
        PROVE  d = c \/ Newer(d, c)
    BY <2>2, <2>3, <2>4, BestIsOnePerMessage
  <2> QED
    BY <2>1, <2>2, <2>4 DEF IsBest
<1> QED
  BY <1>2, <1>3

(* The best rows are those the reference picks.                             *)
LEMMA BestIsBestKnown ==
  ASSUME NEW all \in SUBSET Row, NEW best, IsBest(best, all)
  PROVE  best = BestKnown(all)
<1> DEFINE Of(m) == {r \in all : r.message = m}
<1>1. ASSUME NEW b \in best
      PROVE  b \in BestOfMessage(Of(b.message))
  <2>1. b \in Of(b.message)
    BY DEF IsBest
  <2>2. ASSUME NEW e \in Of(b.message)
        PROVE  /\ EditKey(e) \in Nat /\ EditKey(b) \in Nat
               /\ EditKey(e) <= EditKey(b)
               /\ EditKey(e) = EditKey(b) => e.observed <= b.observed
               /\ EditKey(e) = EditKey(b) /\ e.observed = b.observed => e.observation <= b.observation
    <3>1. e \in Row /\ b \in Row /\ (b = e \/ Newer(b, e))
      BY DEF IsBest
    <3> QED
      BY <3>1, UneditedAssumption DEF Newer, EditedAfter, EditKey, Row, EditTime
  <2> DEFINE ByEdit == LatestBy(EditKey, Of(b.message))
             ByObserved == LatestBy(LAMBDA r : r.observed, ByEdit)
  <2>3. b \in ByEdit /\ \A e \in ByEdit : e \in Of(b.message) /\ EditKey(e) = EditKey(b)
    BY <2>1, <2>2 DEF LatestBy
  <2> HIDE DEF ByEdit
  <2>4. b \in ByObserved /\ \A e \in ByObserved : e \in ByEdit /\ e.observed = b.observed
    <3>1. \A e \in ByEdit : e.observed \in Nat /\ b.observed \in Nat
      BY <2>3 DEF Row, IsBest
    <3> QED
      BY <2>2, <2>3, <3>1 DEF LatestBy
  <2> HIDE DEF ByObserved
  <2>5. b \in LatestBy(LAMBDA r : r.observation, ByObserved)
    BY <2>2, <2>3, <2>4 DEF LatestBy
  <2> QED
    BY <2>5 DEF ByEdit, ByObserved, BestOfMessage
<1>2. ASSUME NEW m, NEW r \in BestOfMessage(Of(m))
      PROVE  r \in best
  <2>1. r \in all /\ r.message = m
    BY DEF BestOfMessage, LatestBy
  <2>2. PICK b \in best : b.message = m
    BY <2>1 DEF IsBest
  <2>3. b \in BestOfMessage(Of(m))
    BY <1>1, <2>2
  <2>4. /\ EditKey(r) <= EditKey(b) /\ EditKey(b) <= EditKey(r)
        /\ r.observed <= b.observed /\ b.observed <= r.observed
        /\ r.observation <= b.observation /\ b.observation <= r.observation
    BY <2>3 DEF BestOfMessage, LatestBy
  <2>5. b \in Row /\ r \in Row
    BY <2>1 DEF IsBest
  <2>6. r.edited = b.edited /\ r.observed = b.observed /\ r.observation = b.observation
    BY <2>4, <2>5, UneditedAssumption DEF EditKey, Row, EditTime
  <2>7. r = b
    BY <2>1, <2>2, <2>5, <2>6 DEF Row
  <2> QED
    BY <2>7
<1>3. BestKnown(all) = UNION {BestOfMessage(Of(m)) : m \in {r.message : r \in all}}
  BY DEF BestKnown
<1>4. ASSUME NEW b \in best
      PROVE  b \in BestKnown(all)
  BY <1>1, <1>3 DEF IsBest
<1>5. ASSUME NEW r \in BestKnown(all)
      PROVE  r \in best
  BY <1>2, <1>3
<1> QED
  BY <1>4, <1>5

-----------------------------------------------------------------------------
(* A fold is the CHOOSE of a function that solves an equation; SubsetRecursion *)
(* says that there is one.                                                  *)
LEMMA AdoptAllUnfolds ==
  ASSUME NEW S \in SUBSET Row, IsFiniteSet(S), NEW base \in SUBSET Row
  PROVE  \E f : /\ AdoptAll(S, base) = f[S]
                /\ f[{}] = base
                /\ \A T \in SUBSET S : T # {} => \E x \in T : f[T] = Adopt(x, f[T \ {x}])
<1> DEFINE First(T) == CHOOSE x \in T : TRUE
           Value(f, T) == IF T = {} THEN base ELSE Adopt(First(T), f[T \ {First(T)}])
           pick == [T \in SUBSET S |-> First(T)]
           step == [z \in S \X SUBSET Row |-> Adopt(z[1], z[2])]
<1>1. \A T \in SUBSET S : T # {} => pick[T] \in T
  OBVIOUS
<1>2. \A x \in S, v \in SUBSET Row : step[<<x, v>>] = Adopt(x, v) /\ step[<<x, v>>] \in SUBSET Row
  BY DEF Adopt
<1> HIDE DEF step
<1>3. PICK g : IsFold(g, step, pick, base, S, SUBSET Row)
  <2> DEFINE V == SUBSET Row
  <2>1. Picks(pick, S) /\ StaysIn(step, S, V) /\ base \in V
    BY <1>1, <1>2 DEF Picks, StaysIn
  <2> HIDE DEF pick, V
  <2>2. \E g : IsFold(g, step, pick, base, S, V)
    BY <2>1, SubsetRecursion
  <2> QED
    BY <2>2 DEF V
<1>4. ASSUME NEW T \in SUBSET S
      PROVE  g[T] = Value(g, T)
  <2>1. CASE T = {}
    BY <1>3, <2>1 DEF IsFold
  <2>2. CASE T # {}
    <3>1. pick[T] = First(T) /\ First(T) \in S /\ g[T \ {First(T)}] \in SUBSET Row
      BY <1>1, <1>3, <2>2 DEF IsFold
    <3>2. g[T] = step[<<First(T), g[T \ {First(T)}]>>]
      BY <1>3, <2>2, <3>1 DEF IsFold
    <3> QED
      BY <1>2, <2>2, <3>1, <3>2
  <2> QED
    BY <2>1, <2>2
<1>5. g = [T \in SUBSET S |-> Value(g, T)]
  BY <1>3, <1>4 DEF IsFold
<1> DEFINE iter == CHOOSE f : f = [T \in SUBSET S |-> Value(f, T)]
<1>6. iter = [T \in SUBSET S |-> Value(iter, T)]
  BY <1>5
<1>7. AdoptAll(S, base) = iter[S]
  BY DEF AdoptAll, FoldSet, MapThenFoldSet
<1> HIDE DEF iter
<1>8. iter[{}] = base
  BY <1>6
<1>9. ASSUME NEW T \in SUBSET S, T # {}
      PROVE  \E x \in T : iter[T] = Adopt(x, iter[T \ {x}])
  <2>1. First(T) \in T
    BY <1>9
  <2>2. iter[T] = Adopt(First(T), iter[T \ {First(T)}])
    BY <1>6, <1>9
  <2> QED
    BY <2>1, <2>2
<1> QED
  BY <1>7, <1>8, <1>9

(* Whatever the order in which a page's rows are met, they are merged.      *)
LEMMA AdoptAllKeepsBest ==
  ASSUME NEW all \in SUBSET Row, NEW best, IsBest(best, all),
         NEW S \in SUBSET Row, IsFiniteSet(S)
  PROVE  IsBest(AdoptAll(S, best), all \cup S)
<1>1. best \in SUBSET Row
  BY DEF IsBest
<1>2. PICK f : /\ AdoptAll(S, best) = f[S]
               /\ f[{}] = best
               /\ \A T \in SUBSET S : T # {} => \E x \in T : f[T] = Adopt(x, f[T \ {x}])
  BY <1>1, AdoptAllUnfolds
<1> DEFINE Good == {T \in SUBSET S : IsBest(f[T], all \cup T)}
<1>3. {} \in Good
  <2>1. all \cup {} = all
    OBVIOUS
  <2> QED
    BY <1>2, <2>1
<1>4. ASSUME NEW T \in SUBSET S, T # {}
      PROVE  \E x \in T : T \ {x} \in Good => T \in Good
  <2>1. PICK x \in T : f[T] = Adopt(x, f[T \ {x}])
    BY <1>2, <1>4
  <2>2. ASSUME T \ {x} \in Good
        PROVE  T \in Good
    <3>1. IsBest(f[T \ {x}], all \cup (T \ {x}))
      BY <2>2
    <3>2. all \cup (T \ {x}) \in SUBSET Row /\ x \in Row
      OBVIOUS
    <3>3. IsBest(f[T], (all \cup (T \ {x})) \cup {x})
      BY <2>1, <3>1, <3>2, AdoptKeepsBest
    <3>4. (all \cup (T \ {x})) \cup {x} = all \cup T
      OBVIOUS
    <3> QED
      BY <3>3, <3>4
  <2> QED
    BY <2>2
<1>5. S \in Good
  <2> HIDE DEF Good
  <2> QED
    BY <1>3, <1>4, SubsetInduction
<1> QED
  BY <1>2, <1>5

LEMMA AdoptAllType ==
  ASSUME NEW S \in SUBSET Row, IsFiniteSet(S), NEW best \in SUBSET Row
  PROVE  AdoptAll(S, best) \in SUBSET Row
<1>1. PICK f : /\ AdoptAll(S, best) = f[S]
               /\ f[{}] = best
               /\ \A T \in SUBSET S : T # {} => \E x \in T : f[T] = Adopt(x, f[T \ {x}])
  BY AdoptAllUnfolds
<1> DEFINE Good == {T \in SUBSET S : f[T] \in SUBSET Row}
<1>2. {} \in Good
  BY <1>1
<1>3. ASSUME NEW T \in SUBSET S, T # {}
      PROVE  \E x \in T : T \ {x} \in Good => T \in Good
  <2>1. PICK x \in T : f[T] = Adopt(x, f[T \ {x}])
    BY <1>1, <1>3
  <2> QED
    BY <2>1 DEF Adopt
<1>4. S \in Good
  <2> HIDE DEF Good
  <2> QED
    BY <1>2, <1>3, SubsetInduction
<1> QED
  BY <1>1, <1>4

LEMMA CanonicalRows ==
  ASSUME NEW env \in Envelope, IsFiniteSet(env.page)
  PROVE  ToCanonical(env) \in SUBSET Row /\ IsFiniteSet(ToCanonical(env))
<1>1. ToCanonical(env) \in SUBSET Row
  BY DEF ToCanonical, Envelope, Snapshot, Row
<1>2. IsFiniteSet(ToCanonical(env))
  <2> DEFINE Offer(m) == [message |-> m.message, edited |-> m.edited,
                          observed |-> env.observed, observation |-> env.observation]
  <2>1. ToCanonical(env) = {Offer(m) : m \in env.page}
    BY DEF ToCanonical
  <2>2. [m \in env.page |-> Offer(m)] \in Surjection(env.page, {Offer(m) : m \in env.page})
    BY DEF Surjection
  <2> QED
    BY <2>1, <2>2, FS_Surjection
<1> QED
  BY <1>1, <1>2

-----------------------------------------------------------------------------
(* Project.                                                                 *)

\* One turn of its loop
Turn(acc, env) ==
    IF env.observation \in acc.seen THEN acc
    ELSE [seen |-> acc.seen \cup {env.observation},
          best |-> AdoptAll(ToCanonical(env), acc.best)]

LEMMA ProjectUnfolds ==
  ASSUME NEW n \in Nat, NEW envs \in [1..n -> Envelope],
         \A i \in 1..n : IsFiniteSet(envs[i].page)
  PROVE  \E f : /\ Project(envs) = f[1..n].best
                /\ f[{}] = [seen |-> {}, best |-> {}]
                /\ \A k \in 1..n : f[1..k] = Turn(f[1..(k - 1)], envs[k])
<1> DEFINE none == [seen |-> {}, best |-> {}]
           Value(f, T) == IF T = {} THEN none ELSE Turn(f[T \ {Max(T)}], envs[Max(T)])
           pick == [T \in SUBSET (1..n) |-> Max(T)]
           V == [seen : SUBSET Nat, best : SUBSET Row]
           step == [z \in (1..n) \X V |-> Turn(z[2], envs[z[1]])]
<1>1. ASSUME NEW i \in 1..n, NEW acc \in V
      PROVE  step[<<i, acc>>] = Turn(acc, envs[i]) /\ Turn(acc, envs[i]) \in V
  <2>1. AdoptAll(ToCanonical(envs[i]), acc.best) \in SUBSET Row
    BY CanonicalRows, AdoptAllType
  <2>2. envs[i].observation \in Nat
    BY DEF Envelope
  <2>3. Turn(acc, envs[i]) \in V
    BY <2>1, <2>2 DEF Turn
  <2> QED
    BY <2>3
<1> HIDE DEF step
<1>2. PICK g : IsFold(g, step, pick, none, 1..n, V)
  <2>1. Picks(pick, 1..n)
    BY MaxPicks
  <2>2. none \in V
    OBVIOUS
  <2>3. IsFiniteSet(1..n)
    BY FS_Interval
  <2> HIDE DEF pick, V, none
  <2>4. StaysIn(step, 1..n, V)
    BY <1>1 DEF StaysIn
  <2> QED
    BY <2>1, <2>2, <2>3, <2>4, SubsetRecursion
<1>3. ASSUME NEW T \in SUBSET (1..n)
      PROVE  g[T] = Value(g, T)
  <2>1. CASE T = {}
    BY <1>2, <2>1 DEF IsFold
  <2>2. CASE T # {}
    <3>1. pick[T] = Max(T) /\ Max(T) \in 1..n /\ g[T \ {Max(T)}] \in V
      BY <1>2, <2>2, MaxPicks DEF IsFold, Picks
    <3>2. g[T] = step[<<Max(T), g[T \ {Max(T)}]>>]
      BY <1>2, <2>2, <3>1 DEF IsFold
    <3> HIDE DEF V
    <3> QED
      BY <1>1, <2>2, <3>1, <3>2
  <2> QED
    BY <2>1, <2>2
<1>4. g = [T \in SUBSET (1..n) |-> Value(g, T)]
  BY <1>2, <1>3 DEF IsFold
<1> DEFINE iter == CHOOSE f : f = [T \in SUBSET (1..n) |-> Value(f, T)]
<1>5. iter = [T \in SUBSET (1..n) |-> Value(iter, T)]
  BY <1>4
<1>6. Project(envs) = iter[1..n].best
  <2>1. DOMAIN envs = 1..n
    OBVIOUS
  <2>2. Project(envs) = iter[DOMAIN envs].best
    BY <2>1 DEF Project, FoldLeft, MapThenFoldSet, Turn
  <2> QED
    BY <2>1, <2>2
<1> HIDE DEF iter
<1>7. iter[{}] = none
  BY <1>5
<1>8. ASSUME NEW k \in 1..n
      PROVE  iter[1..k] = Turn(iter[1..(k - 1)], envs[k])
  <2>0. k \in Nat \ {0}
    OBVIOUS
  <2>1. 1..k \in SUBSET (1..n) /\ 1..k # {}
    BY <2>0, MaxOfInterval
  <2>2. iter[1..k] = Turn(iter[(1..k) \ {Max(1..k)}], envs[Max(1..k)])
    BY <1>5, <2>1
  <2> QED
    BY <2>0, <2>2, MaxOfInterval
<1> QED
  BY <1>6, <1>7, <1>8

(* One chunk: however often an Observation ID occurs in the listing of its  *)
(* keys, its rows are the best known of all the evidence read.              *)
THEOREM ProjectIsBest ==
  ASSUME NEW n \in Nat, NEW envs \in [1..n -> Envelope],
         \A i \in 1..n : IsFiniteSet(envs[i].page),
         \A i, j \in 1..n : envs[i].observation = envs[j].observation => envs[i] = envs[j]
  PROVE  IsBest(Project(envs), UNION {ToCanonical(envs[i]) : i \in 1..n})
<1>1. PICK f : /\ Project(envs) = f[1..n].best
               /\ f[{}] = [seen |-> {}, best |-> {}]
               /\ \A k \in 1..n : f[1..k] = Turn(f[1..(k - 1)], envs[k])
  BY ProjectUnfolds
<1> DEFINE Rows(k) == UNION {ToCanonical(envs[i]) : i \in 1..k}
           Correct(k) == /\ f[1..k].seen = {envs[i].observation : i \in 1..k}
                         /\ IsBest(f[1..k].best, Rows(k))
           Good == {k \in Nat : k <= n => Correct(k)}
<1>2. 0 \in Good
  <2>1. 1..0 = {}
    OBVIOUS
  <2>2. f[1..0].seen = {} /\ f[1..0].best = {}
    BY <1>1, <2>1
  <2>3. Rows(0) = {} /\ {envs[i].observation : i \in 1..0} = {}
    OBVIOUS
  <2> HIDE DEF Rows
  <2>4. IsBest(f[1..0].best, Rows(0))
    BY <2>2, <2>3, BestOfNothing
  <2>5. Correct(0)
    BY <2>2, <2>3, <2>4
  <2> QED
    BY <2>5
<1>3. ASSUME NEW m \in Nat, m \in Good
      PROVE  m + 1 \in Good
  <2> SUFFICES ASSUME m + 1 <= n
               PROVE  Correct(m + 1)
    OBVIOUS
  <2> DEFINE acc == f[1..m]
             env == envs[m + 1]
  <2>1. Correct(m)
    BY <1>3
  <2>2. f[1..(m + 1)] = Turn(acc, env)
    <3>1. m + 1 \in 1..n /\ (m + 1) - 1 = m
      OBVIOUS
    <3> QED
      BY <1>1, <3>1
  <2>3. env \in Envelope /\ IsFiniteSet(env.page)
    OBVIOUS
  <2>4. ToCanonical(env) \in SUBSET Row /\ IsFiniteSet(ToCanonical(env))
    BY <2>3, CanonicalRows
  <2>5. 1..(m + 1) = (1..m) \cup {m + 1}
    OBVIOUS
  <2>6. Rows(m + 1) = Rows(m) \cup ToCanonical(env)
    BY <2>5
  <2>7. Rows(m) \in SUBSET Row
    <3>1. \A i \in 1..m : i \in 1..n
      OBVIOUS
    <3> QED
      BY <3>1, CanonicalRows
  <2>8. CASE env.observation \in acc.seen
    <3>1. PICK i \in 1..m : envs[i].observation = env.observation
      BY <2>1, <2>8
    <3>2. envs[i] = env
      BY <3>1
    <3>3. Rows(m + 1) = Rows(m)
      BY <2>6, <3>2
    <3>4. f[1..(m + 1)] = acc
      BY <2>2, <2>8 DEF Turn
    <3>5. {envs[j].observation : j \in 1..(m + 1)} = {envs[j].observation : j \in 1..m}
      BY <2>5, <3>1
    <3> HIDE DEF Rows
    <3> QED
      BY <2>1, <3>3, <3>4, <3>5
  <2>9. CASE env.observation \notin acc.seen
    <3>1. f[1..(m + 1)] = [seen |-> acc.seen \cup {env.observation},
                           best |-> AdoptAll(ToCanonical(env), acc.best)]
      BY <2>2, <2>9 DEF Turn
    <3>2. {envs[j].observation : j \in 1..(m + 1)}
            = {envs[j].observation : j \in 1..m} \cup {env.observation}
      BY <2>5
    <3>3. IsBest(AdoptAll(ToCanonical(env), acc.best), Rows(m) \cup ToCanonical(env))
      <4> HIDE DEF Rows, env
      <4> QED
        BY <2>1, <2>4, <2>7, AdoptAllKeepsBest
    <3>4. f[1..(m + 1)].seen = {envs[j].observation : j \in 1..(m + 1)}
      BY <2>1, <3>1, <3>2
    <3>5. IsBest(f[1..(m + 1)].best, Rows(m + 1))
      <4>1. f[1..(m + 1)].best = AdoptAll(ToCanonical(env), acc.best)
        BY <3>1
      <4> HIDE DEF Rows, env, acc
      <4> QED
        BY <2>6, <3>3, <4>1
    <3> HIDE DEF Rows
    <3> QED
      BY <3>4, <3>5
  <2> QED
    BY <2>8, <2>9
<1>4. n \in Good
  <2> HIDE DEF Good
  <2> QED
    BY <1>2, <1>3, NaturalInduction
<1> QED
  BY <1>1, <1>4

(* Projecting the envelopes under a set of keys in the order of the keys    *)
(* chooses the best rows of what is under them (materialize, extractChunk). *)
LEMMA ListingIsBest ==
  ASSUME NEW S \in SUBSET Nat, IsFiniteSet(S), NEW evidence,
         \A k \in S : evidence[k] \in Envelope /\ IsFiniteSet(evidence[k].page),
         \A j, k \in S : evidence[j].observation = evidence[k].observation => evidence[j] = evidence[k]
  PROVE  IsBest(Project([n \in 1..Cardinality(S) |-> evidence[Nth(S, n)]]),
                UNION {ToCanonical(evidence[k]) : k \in S})
<1> DEFINE c == Cardinality(S)
           envs == [n \in 1..c |-> evidence[Nth(S, n)]]
<1>1. /\ c \in Nat
      /\ \A n \in 1..c : Nth(S, n) \in S
      /\ \A k \in S : \E n \in 1..c : Nth(S, n) = k
  BY NthOnto
<1>2. envs \in [1..c -> Envelope] /\ \A n \in 1..c : IsFiniteSet(envs[n].page)
  BY <1>1
<1>3. \A a, b \in 1..c : envs[a].observation = envs[b].observation => envs[a] = envs[b]
  BY <1>1
<1>4. IsBest(Project(envs), UNION {ToCanonical(envs[n]) : n \in 1..c})
  <2> HIDE DEF envs, c
  <2> QED
    BY <1>1, <1>2, <1>3, ProjectIsBest
<1>5. {ToCanonical(envs[n]) : n \in 1..c} = {ToCanonical(evidence[k]) : k \in S}
  BY <1>1
<1> QED
  BY <1>4, <1>5

-----------------------------------------------------------------------------
(* Reduce.                                                                  *)
LEMMA ReduceUnfolds ==
  ASSUME NEW n \in Nat, NEW groups \in [1..n -> SUBSET Row],
         \A i \in 1..n : IsFiniteSet(groups[i])
  PROVE  \E f : /\ Reduce(groups) = f[1..n]
                /\ f[{}] = {}
                /\ \A k \in 1..n : f[1..k] = AdoptAll(groups[k], f[1..(k - 1)])
<1> DEFINE Value(f, T) == IF T = {} THEN {} ELSE AdoptAll(groups[Max(T)], f[T \ {Max(T)}])
           pick == [T \in SUBSET (1..n) |-> Max(T)]
           V == SUBSET Row
           step == [z \in (1..n) \X V |-> AdoptAll(groups[z[1]], z[2])]
<1>1. ASSUME NEW i \in 1..n, NEW best \in V
      PROVE  step[<<i, best>>] = AdoptAll(groups[i], best) /\ AdoptAll(groups[i], best) \in V
  <2>1. AdoptAll(groups[i], best) \in SUBSET Row
    BY AdoptAllType
  <2> QED
    BY <2>1
<1> HIDE DEF step
<1>2. PICK g : IsFold(g, step, pick, {}, 1..n, V)
  <2>1. Picks(pick, 1..n)
    BY MaxPicks
  <2>2. {} \in V
    OBVIOUS
  <2>3. IsFiniteSet(1..n)
    BY FS_Interval
  <2> HIDE DEF pick, V
  <2>4. StaysIn(step, 1..n, V)
    BY <1>1 DEF StaysIn
  <2> QED
    BY <2>1, <2>2, <2>3, <2>4, SubsetRecursion
<1>3. ASSUME NEW T \in SUBSET (1..n)
      PROVE  g[T] = Value(g, T)
  <2>1. CASE T = {}
    BY <1>2, <2>1 DEF IsFold
  <2>2. CASE T # {}
    <3>1. pick[T] = Max(T) /\ Max(T) \in 1..n /\ g[T \ {Max(T)}] \in V
      BY <1>2, <2>2, MaxPicks DEF IsFold, Picks
    <3>2. g[T] = step[<<Max(T), g[T \ {Max(T)}]>>]
      BY <1>2, <2>2, <3>1 DEF IsFold
    <3> HIDE DEF V
    <3> QED
      BY <1>1, <2>2, <3>1, <3>2
  <2> QED
    BY <2>1, <2>2
<1>4. g = [T \in SUBSET (1..n) |-> Value(g, T)]
  BY <1>2, <1>3 DEF IsFold
<1> DEFINE iter == CHOOSE f : f = [T \in SUBSET (1..n) |-> Value(f, T)]
<1>5. iter = [T \in SUBSET (1..n) |-> Value(iter, T)]
  BY <1>4
<1>6. Reduce(groups) = iter[1..n]
  <2>1. DOMAIN groups = 1..n
    OBVIOUS
  <2>2. Reduce(groups) = iter[DOMAIN groups]
    BY <2>1 DEF Reduce, FoldLeft, MapThenFoldSet
  <2> QED
    BY <2>1, <2>2
<1> HIDE DEF iter
<1>7. iter[{}] = {}
  BY <1>5
<1>8. ASSUME NEW k \in 1..n
      PROVE  iter[1..k] = AdoptAll(groups[k], iter[1..(k - 1)])
  <2>0. k \in Nat \ {0}
    OBVIOUS
  <2>1. 1..k \in SUBSET (1..n) /\ 1..k # {}
    BY <2>0, MaxOfInterval
  <2>2. iter[1..k] = AdoptAll(groups[Max(1..k)], iter[(1..k) \ {Max(1..k)}])
    BY <1>5, <2>1
  <2> QED
    BY <2>0, <2>2, MaxOfInterval
<1> QED
  BY <1>6, <1>7, <1>8

(* Choosing among the winners of all groups.                                *)
THEOREM ReduceIsBest ==
  ASSUME NEW n \in Nat, NEW groups \in [1..n -> SUBSET Row],
         \A i \in 1..n : IsFiniteSet(groups[i])
  PROVE  IsBest(Reduce(groups), UNION {groups[i] : i \in 1..n})
<1>1. PICK f : /\ Reduce(groups) = f[1..n]
               /\ f[{}] = {}
               /\ \A k \in 1..n : f[1..k] = AdoptAll(groups[k], f[1..(k - 1)])
  BY ReduceUnfolds
<1> DEFINE Rows(k) == UNION {groups[i] : i \in 1..k}
           Correct(k) == IsBest(f[1..k], Rows(k))
           Good == {k \in Nat : k <= n => Correct(k)}
<1>2. 0 \in Good
  <2>1. 1..0 = {} /\ Rows(0) = {}
    OBVIOUS
  <2>2. Correct(0)
    BY <1>1, <2>1, BestOfNothing
  <2> HIDE DEF Correct
  <2> QED
    BY <2>2
<1>3. ASSUME NEW m \in Nat, m \in Good
      PROVE  m + 1 \in Good
  <2> SUFFICES ASSUME m + 1 <= n
               PROVE  Correct(m + 1)
    <3> HIDE DEF Correct
    <3> QED
      OBVIOUS
  <2>1. Correct(m)
    <3> HIDE DEF Correct
    <3> QED
      BY <1>3
  <2>2. m + 1 \in 1..n /\ (m + 1) - 1 = m /\ 1..(m + 1) = (1..m) \cup {m + 1}
    OBVIOUS
  <2>3. f[1..(m + 1)] = AdoptAll(groups[m + 1], f[1..m])
    BY <1>1, <2>2
  <2>4. Rows(m + 1) = Rows(m) \cup groups[m + 1]
    BY <2>2
  <2>5. Rows(m) \in SUBSET Row
    OBVIOUS
  <2>6. groups[m + 1] \in SUBSET Row /\ IsFiniteSet(groups[m + 1])
    BY <2>2
  <2> HIDE DEF Rows
  <2> QED
    BY <2>1, <2>3, <2>4, <2>5, <2>6, AdoptAllKeepsBest
<1>4. n \in Good
  <2> HIDE DEF Good
  <2> QED
    BY <1>2, <1>3, NaturalInduction
<1> QED
  BY <1>1, <1>4

\* All the rows of some groups
Pooled(groups, I) == UNION {groups[i] : i \in I}

(* The best of the bests of parts is the best of the whole, however the     *)
(* whole is cut and even when the parts overlap.                            *)
LEMMA BestOfBests ==
  ASSUME NEW I, NEW all, NEW best,
         \A i \in I : all[i] \in SUBSET Row /\ IsBest(best[i], all[i]),
         NEW top, IsBest(top, Pooled(best, I))
  PROVE  IsBest(top, Pooled(all, I))
<1> USE DEF Pooled
<1>1. top \subseteq UNION {all[i] : i \in I}
  BY DEF IsBest
<1>2. ASSUME NEW i \in I, NEW e \in all[i]
      PROVE  \E b \in top : b.message = e.message /\ (b = e \/ Newer(b, e))
  <2>1. PICK c \in best[i] : c.message = e.message /\ (c = e \/ Newer(c, e))
    BY DEF IsBest
  <2>2. PICK b \in top : b.message = c.message /\ (b = c \/ Newer(b, c))
    BY DEF IsBest
  <2>3. b \in Row /\ c \in Row /\ e \in Row
    BY <1>1, <2>1 DEF IsBest
  <2> QED
    BY <2>1, <2>2, <2>3, NewerTransitive
<1>3. ASSUME NEW a \in top, NEW b \in top, a.message = b.message
      PROVE  a = b
  <2>1. UNION {best[i] : i \in I} \in SUBSET Row
    BY DEF IsBest
  <2> QED
    BY <1>3, <2>1, BestIsOnePerMessage
<1>4. ASSUME NEW b \in top, NEW i \in I, NEW e \in all[i], b.message = e.message
      PROVE  b = e \/ Newer(b, e)
  <2>1. PICK c \in top : c.message = e.message /\ (c = e \/ Newer(c, e))
    BY <1>2
  <2> QED
    BY <1>3, <1>4, <2>1
<1> QED
  BY <1>1, <1>2, <1>4 DEF IsBest

LEMMA BestOfBest ==
  ASSUME NEW others \in SUBSET Row, NEW all \in SUBSET Row, NEW best, IsBest(best, all),
         NEW top, IsBest(top, others \cup best)
  PROVE  IsBest(top, others \cup all)
<1>1. top \subseteq others \cup all /\ others \cup best \in SUBSET Row
  BY DEF IsBest
<1>2. ASSUME NEW e \in others \cup all
      PROVE  \E b \in top : b.message = e.message /\ (b = e \/ Newer(b, e))
  <2>1. PICK c \in others \cup best : c.message = e.message /\ (c = e \/ Newer(c, e))
    BY DEF IsBest
  <2>2. PICK b \in top : b.message = c.message /\ (b = c \/ Newer(b, c))
    BY DEF IsBest
  <2>3. b \in Row /\ c \in Row /\ e \in Row
    BY <1>1, <2>1
  <2> QED
    BY <2>1, <2>2, <2>3, NewerTransitive
<1>3. ASSUME NEW a \in top, NEW b \in top, a.message = b.message
      PROVE  a = b
  BY <1>1, <1>3, BestIsOnePerMessage
<1>4. ASSUME NEW b \in top, NEW e \in others \cup all, b.message = e.message
      PROVE  b = e \/ Newer(b, e)
  <2>1. PICK c \in top : c.message = e.message /\ (c = e \/ Newer(c, e))
    BY <1>2
  <2> QED
    BY <1>3, <1>4, <2>1
<1> QED
  BY <1>1, <1>2, <1>4 DEF IsBest
===============================================================================
