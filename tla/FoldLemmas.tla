----------------------------- MODULE FoldLemmas -----------------------------
(***************************************************************************)
(* What a sum over a finite set and a fold over a sequence compute, for    *)
(* every set and every sequence.  The induction is over a set of subsets   *)
(* or of numbers, and what is summed or folded is given as a function, so  *)
(* that no lemma takes an operator.                                        *)
(***************************************************************************)
EXTENDS Integers, Sequences, FiniteSets, SequencesExt, FiniteSetsExt,
        FiniteSetTheorems, WellFoundedInduction, TLAPS

-----------------------------------------------------------------------------
(* Induction.                                                               *)

(* A set of numbers has a least one.                                        *)
LEMMA LeastNumber == ASSUME NEW T, T \subseteq Nat, T # {} PROVE \E x \in T : \A y \in T : x <= y
  <1>1. PICK x \in T : \A y \in T : ~(<<y, x>> \in OpToRel(<, Nat))
    BY NatLessThanWellFounded, WFMin
  <1>2. \A y \in T : ~(y < x)
    BY <1>1 DEF OpToRel
  <1> QED
    BY <1>2

(* The numbers up to n, one after the other.                                *)
LEMMA CountUp ==
    ASSUME NEW n \in Nat, NEW P, 0 \in P, \A k \in 0..(n - 1) : k \in P => k + 1 \in P
    PROVE  \A k \in 0..n : k \in P
  <1> SUFFICES ASSUME NEW k \in 0..n, k \notin P PROVE FALSE
    OBVIOUS
  <1> DEFINE T == {j \in 0..n : j \notin P}
  <1>1. PICK x \in T : \A y \in T : x <= y
    <2>1. T \subseteq Nat /\ T # {}
      OBVIOUS
    <2> HIDE DEF T
    <2> QED
      BY <2>1, LeastNumber
  <1>2. x # 0 /\ x - 1 \in 0..(n - 1) /\ x - 1 \notin T
    BY <1>1
  <1> QED
    BY <1>1, <1>2

(* The subsets of a finite set, the smaller ones first.                     *)
LEMMA GrowSubset ==
    ASSUME NEW S, IsFiniteSet(S), NEW P,
           \A s \in SUBSET S : (\A x \in s : s \ {x} \in P) => s \in P
    PROVE  \A s \in SUBSET S : s \in P
  <1> SUFFICES ASSUME NEW z \in SUBSET S, z \notin P PROVE FALSE
    OBVIOUS
  <1> DEFINE T == {s \in SUBSET S : s \notin P}
  <1>1. T # {} /\ T \subseteq FiniteSubsetsOf(S)
    BY FS_FiniteSubsetsOfFinite
  <1>2. PICK s \in T : \A t \in T : <<t, s>> \notin StrictSubsetOrdering(S)
    <2> HIDE DEF T
    <2> QED
      BY <1>1, FS_StrictSubsetOrderingWellFounded, WFMin
  <1>3. PICK x \in s : s \ {x} \in T
    BY <1>2
  <1>4. <<s \ {x}, s>> \in StrictSubsetOrdering(S)
    BY <1>2, <1>3 DEF StrictSubsetOrdering
  <1> QED
    BY <1>2, <1>3, <1>4

-----------------------------------------------------------------------------
(* A recursion over the subsets of a finite set, which takes out the        *)
(* element pick[s] of each s, has a solution.                               *)

Folds(f, base, next, pick, S) ==
    f = [s \in SUBSET S |-> IF s = {} THEN base ELSE next[pick[s]][f[s \ {pick[s]}]]]

(* The size of a subset: what the recursion counts down.                    *)
LEMMA SizeExists ==
    ASSUME NEW S, IsFiniteSet(S)
    PROVE  \E n \in Nat : \E size \in [SUBSET S -> 0..n] :
                \A s \in SUBSET S : \A x \in s : size[s \ {x}] = size[s] - 1
  <1>1. Cardinality(S) \in Nat
    BY FS_CardinalityType
  <1>2. ASSUME NEW s \in SUBSET S
        PROVE  /\ Cardinality(s) \in 0..Cardinality(S)
               /\ \A x \in s : Cardinality(s \ {x}) = Cardinality(s) - 1
    <2>1. IsFiniteSet(s) /\ Cardinality(s) <= Cardinality(S)
      BY FS_Subset
    <2>2. Cardinality(s) \in Nat
      BY <2>1, FS_CardinalityType
    <2>3. \A x \in s : Cardinality(s \ {x}) = Cardinality(s) - 1
      BY <2>1, FS_RemoveElement
    <2> QED
      BY <1>1, <2>1, <2>2, <2>3
  <1>3. PICK size : size = [s \in SUBSET S |-> Cardinality(s)]
    OBVIOUS
  <1>4. size \in [SUBSET S -> 0..Cardinality(S)]
    BY <1>2, <1>3
  <1>5. ASSUME NEW s \in SUBSET S, NEW x \in s PROVE size[s \ {x}] = size[s] - 1
    <2>1. size[s] = Cardinality(s) /\ size[s \ {x}] = Cardinality(s \ {x})
      BY <1>3
    <2> QED
      BY <1>2, <2>1
  <1> QED
    BY <1>1, <1>4, <1>5

LEMMA FoldExists ==
    ASSUME NEW S, IsFiniteSet(S), NEW base, NEW next, NEW pick,
           \A s \in SUBSET S : s # {} => pick[s] \in s
    PROVE  \E f : Folds(f, base, next, pick, S)
  <1>0. PICK n \in Nat : \E size \in [SUBSET S -> 0..n] :
                \A s \in SUBSET S : \A x \in s : size[s \ {x}] = size[s] - 1
    BY SizeExists
  <1>1. PICK size \in [SUBSET S -> 0..n] :
            \A s \in SUBSET S : \A x \in s : size[s \ {x}] = size[s] - 1
    BY <1>0
  <1> DEFINE Step(f, s) == IF s = {} THEN base ELSE next[pick[s]][f[s \ {pick[s]}]]
             Up(f, k) == \A s \in SUBSET S : size[s] <= k => f[s] = Step(f, s)
             P == {k \in 0..n : \E f : Up(f, k)}
  <1>2. ASSUME NEW s \in SUBSET S, s # {}
        PROVE  s \ {pick[s]} \in SUBSET S /\ size[s \ {pick[s]}] < size[s] /\ size[s] > 0
    <2>1. s \ {pick[s]} \in SUBSET S /\ size[s \ {pick[s]}] = size[s] - 1
      BY <1>1, <1>2
    <2>2. size[s] \in 0..n /\ size[s \ {pick[s]}] \in 0..n
      BY <2>1
    <2> QED
      BY <2>1, <2>2
  <1> HIDE DEF Step
  <1>3. 0 \in P
    <2>1. PICK f : f = [s \in SUBSET S |-> base]
      OBVIOUS
    <2>2. ASSUME NEW s \in SUBSET S, size[s] <= 0, s # {} PROVE FALSE
      <3>1. size[s] \in 0..n
        OBVIOUS
      <3>2. size[s] > 0
        BY <1>2, <2>2
      <3> QED
        BY <2>2, <3>1, <3>2
    <2>3. Up(f, 0)
      BY <2>1, <2>2 DEF Step
    <2> QED
      BY <2>3
  <1>4. ASSUME NEW k \in 0..(n - 1), k \in P PROVE k + 1 \in P
    <2>1. PICK f : Up(f, k)
      BY <1>4
    <2>2. PICK g : g = [s \in SUBSET S |-> IF size[s] <= k THEN f[s] ELSE Step(f, s)]
      OBVIOUS
    <2>3. ASSUME NEW s \in SUBSET S, size[s] <= k + 1 PROVE g[s] = Step(g, s)
      <3>1. CASE s = {}
        BY <2>1, <2>2, <3>1 DEF Step
      <3>2. CASE s # {}
        <4>1. s \ {pick[s]} \in SUBSET S /\ size[s \ {pick[s]}] <= k
          <5>1. size[s] \in 0..n /\ size[s \ {pick[s]}] \in 0..n
            BY <1>2, <3>2
          <5> QED
            BY <1>2, <2>3, <3>2, <5>1
        <4>2. g[s \ {pick[s]}] = f[s \ {pick[s]}]
          BY <2>2, <4>1
        <4>3. g[s] = Step(f, s)
          BY <2>1, <2>2
        <4> QED
          BY <3>2, <4>2, <4>3 DEF Step
      <3> QED
        BY <3>1, <3>2
    <2>4. Up(g, k + 1)
      BY <2>3
    <2>5. k + 1 \in 0..n
      OBVIOUS
    <2> QED
      BY <2>4, <2>5
  <1>5. n \in P
    <2> HIDE DEF P
    <2> QED
      BY <1>3, <1>4, CountUp
  <1>6. PICK f : Up(f, n)
    BY <1>5
  <1>7. PICK g : g = [s \in SUBSET S |-> f[s]]
    OBVIOUS
  <1>8. ASSUME NEW s \in SUBSET S PROVE g[s] = Step(g, s)
    <2>1. size[s] <= n /\ size[s] \in 0..n
      OBVIOUS
    <2>2. g[s] = Step(f, s)
      BY <1>6, <1>7, <2>1
    <2>3. s # {} => g[s \ {pick[s]}] = f[s \ {pick[s]}]
      BY <1>2, <1>7
    <2> QED
      BY <2>2, <2>3 DEF Step
  <1>9. g = [s \in SUBSET S |-> Step(g, s)]
    BY <1>7, <1>8
  <1> QED
    BY <1>9 DEF Folds, Step

-----------------------------------------------------------------------------
(* Sums.                                                                    *)

Sum(val, S) == MapThenSumSet(LAMBDA x : val[x], S)

SumsUp(f, val, S) ==
    f = [s \in SUBSET S |->
            IF s = {} THEN 0
            ELSE val[CHOOSE x \in s : TRUE] + f[s \ {CHOOSE x \in s : TRUE}]]

LEMMA SumsUpExists ==
    ASSUME NEW S, IsFiniteSet(S), NEW val, \A x \in S : val[x] \in Int
    PROVE  \E f : SumsUp(f, val, S)
  <1> DEFINE pick == [s \in SUBSET S |-> CHOOSE x \in s : TRUE]
             next == [x \in S |-> [v \in Int |-> val[x] + v]]
  <1>1. \A s \in SUBSET S : s # {} => pick[s] \in s
    OBVIOUS
  <1>2. PICK f : Folds(f, 0, next, pick, S)
    <2> HIDE DEF pick, next
    <2> QED
      BY <1>1, FoldExists
  <1>3. ASSUME NEW s \in SUBSET S
        PROVE  f[s] = IF s = {} THEN 0 ELSE next[pick[s]][f[s \ {pick[s]}]]
    BY <1>2 DEF Folds
  <1> DEFINE P == {s \in SUBSET S : f[s] \in Int}
  <1>4. ASSUME NEW s \in SUBSET S, \A x \in s : s \ {x} \in P PROVE s \in P
    <2>1. CASE s = {}
      <3>1. f[s] = 0
        BY <1>3, <2>1
      <3> QED
        BY <3>1
    <2>2. CASE s # {}
      <3>1. pick[s] \in s /\ pick[s] \in S /\ f[s \ {pick[s]}] \in Int
        BY <1>1, <1>4, <2>2
      <3>2. f[s] = next[pick[s]][f[s \ {pick[s]}]]
        BY <1>3, <2>2
      <3>3. f[s] = val[pick[s]] + f[s \ {pick[s]}]
        <4> HIDE DEF pick
        <4> QED
          BY <3>1, <3>2
      <3>4. f[s] \in Int
        <4> HIDE DEF pick
        <4> QED
          BY <3>1, <3>3
      <3> QED
        BY <3>4
    <2> QED
      BY <2>1, <2>2
  <1>5. \A s \in SUBSET S : s \in P
    <2> HIDE DEF P
    <2> QED
      BY <1>4, GrowSubset
  <1>6. ASSUME NEW s \in SUBSET S
        PROVE  f[s] = IF s = {} THEN 0
                      ELSE val[CHOOSE x \in s : TRUE] + f[s \ {CHOOSE x \in s : TRUE}]
    <2>1. CASE s = {}
      BY <1>3, <2>1
    <2>2. CASE s # {}
      <3>1. pick[s] = (CHOOSE x \in s : TRUE) /\ pick[s] \in S /\ f[s \ {pick[s]}] \in Int
        BY <1>1, <1>5, <2>2
      <3>2. f[s] = val[pick[s]] + f[s \ {pick[s]}]
        BY <1>3, <2>2, <3>1
      <3> QED
        BY <2>2, <3>1, <3>2
    <2> QED
      BY <2>1, <2>2
  <1>7. f = [s \in SUBSET S |-> f[s]]
    BY <1>2 DEF Folds
  <1>8. f = [s \in SUBSET S |->
                IF s = {} THEN 0
                ELSE val[CHOOSE x \in s : TRUE] + f[s \ {CHOOSE x \in s : TRUE}]]
    BY <1>6, <1>7
  <1> QED
    BY <1>8 DEF SumsUp

(* Whichever element is taken out first, the sum is the same.               *)
LEMMA SumsUpAny ==
    ASSUME NEW S, IsFiniteSet(S), NEW val, \A x \in S : val[x] \in Int,
           NEW f, SumsUp(f, val, S)
    PROVE  /\ f[{}] = 0
           /\ \A s \in SUBSET S : f[s] \in Int
           /\ \A s \in SUBSET S : \A x \in s : f[s] = val[x] + f[s \ {x}]
  <1>1. ASSUME NEW s \in SUBSET S, s # {}
        PROVE  \E y \in s : f[s] = val[y] + f[s \ {y}]
    <2>1. (CHOOSE x \in s : TRUE) \in s
      BY <1>1
    <2>2. f[s] = val[CHOOSE x \in s : TRUE] + f[s \ {CHOOSE x \in s : TRUE}]
      BY <1>1 DEF SumsUp
    <2> QED
      BY <2>1, <2>2
  <1>2. f[{}] = 0
    BY DEF SumsUp
  <1>3. \A s \in SUBSET S : f[s] \in Int
    <2> DEFINE P == {s \in SUBSET S : f[s] \in Int}
    <2>1. ASSUME NEW s \in SUBSET S, \A x \in s : s \ {x} \in P PROVE s \in P
      <3>1. CASE s = {}
        BY <1>2, <3>1
      <3>2. CASE s # {}
        <4>1. PICK y \in s : f[s] = val[y] + f[s \ {y}]
          BY <1>1, <3>2
        <4>2. f[s \ {y}] \in Int /\ val[y] \in Int
          BY <2>1
        <4> QED
          BY <4>1, <4>2
      <3> QED
        BY <3>1, <3>2
    <2>2. \A s \in SUBSET S : s \in P
      <3> HIDE DEF P
      <3> QED
        BY <2>1, GrowSubset
    <2> QED
      BY <2>2
  <1> DEFINE P == {s \in SUBSET S : \A x \in s : f[s] = val[x] + f[s \ {x}]}
  <1>4. ASSUME NEW s \in SUBSET S, \A x \in s : s \ {x} \in P, NEW x \in s
        PROVE  f[s] = val[x] + f[s \ {x}]
    <2>1. PICK y \in s : f[s] = val[y] + f[s \ {y}]
      BY <1>1
    <2>2. CASE x # y
      <3>1. PICK r \in SUBSET S : r = (s \ {x}) \ {y} /\ r = (s \ {y}) \ {x}
        OBVIOUS
      <3>2. f[s \ {y}] = val[x] + f[r] /\ f[s \ {x}] = val[y] + f[r]
        BY <1>4, <2>2, <3>1
      <3>3. f[r] \in Int /\ val[x] \in Int /\ val[y] \in Int
        BY <1>3
      <3> QED
        BY <2>1, <3>2, <3>3
    <2> QED
      BY <2>1, <2>2
  <1>5. \A s \in SUBSET S : s \in P
    <2>1. ASSUME NEW s \in SUBSET S, \A x \in s : s \ {x} \in P PROVE s \in P
      BY <1>4, <2>1
    <2> HIDE DEF P
    <2> QED
      BY <2>1, GrowSubset
  <1> QED
    BY <1>2, <1>3, <1>5

(* Two sums of the same terms.                                              *)
LEMMA SumsUpSame ==
    ASSUME NEW S, IsFiniteSet(S), NEW val, \A x \in S : val[x] \in Int,
           NEW T, IsFiniteSet(T), NEW wal, \A x \in T : wal[x] \in Int,
           NEW f, SumsUp(f, val, S), NEW g, SumsUp(g, wal, T),
           NEW U \in SUBSET (S \cap T), \A x \in U : val[x] = wal[x]
    PROVE  f[U] = g[U]
  <1> DEFINE P == {u \in SUBSET U : f[u] = g[u]}
  <1>1. ASSUME NEW u \in SUBSET U, \A x \in u : u \ {x} \in P PROVE u \in P
    <2>1. CASE u = {}
      BY <2>1, SumsUpAny
    <2>2. CASE u # {}
      <3>1. PICK x \in u : TRUE
        BY <2>2
      <3>2. f[u] = val[x] + f[u \ {x}]
        BY SumsUpAny
      <3>3. g[u] = wal[x] + g[u \ {x}]
        BY SumsUpAny
      <3> QED
        BY <1>1, <3>1, <3>2, <3>3
    <2> QED
      BY <2>1, <2>2
  <1>2. IsFiniteSet(U)
    BY FS_Subset
  <1>3. \A u \in SUBSET U : u \in P
    <2> HIDE DEF P
    <2> QED
      BY <1>1, <1>2, GrowSubset
  <1> QED
    BY <1>3

LEMMA SumIs ==
    ASSUME NEW S, IsFiniteSet(S), NEW val, \A x \in S : val[x] \in Int
    PROVE  \E f : SumsUp(f, val, S) /\ Sum(val, S) = f[S]
  <1>1. \E f : SumsUp(f, val, S)
    BY SumsUpExists
  <1> QED
    BY <1>1 DEF SumsUp, Sum, MapThenSumSet, MapThenFoldSet

(* The facts about sums that the proofs use.                                *)
LEMMA SumEmpty == ASSUME NEW val PROVE Sum(val, {}) = 0
  <1>1. PICK f : SumsUp(f, val, {}) /\ Sum(val, {}) = f[{}]
    BY SumIs, FS_EmptySet
  <1> QED
    BY <1>1 DEF SumsUp

LEMMA SumInt ==
    ASSUME NEW S, IsFiniteSet(S), NEW val, \A x \in S : val[x] \in Int
    PROVE  Sum(val, S) \in Int
  <1>1. PICK f : SumsUp(f, val, S) /\ Sum(val, S) = f[S]
    BY SumIs
  <1>2. S \in SUBSET S
    OBVIOUS
  <1> QED
    BY <1>1, <1>2, SumsUpAny

LEMMA SumSame ==
    ASSUME NEW S, IsFiniteSet(S), NEW val, \A x \in S : val[x] \in Int,
           NEW wal, \A x \in S : wal[x] = val[x]
    PROVE  Sum(wal, S) = Sum(val, S)
  <1>1. PICK f : SumsUp(f, val, S) /\ Sum(val, S) = f[S]
    BY SumIs
  <1>2. PICK g : SumsUp(g, wal, S) /\ Sum(wal, S) = g[S]
    BY SumIs
  <1> QED
    BY <1>1, <1>2, SumsUpSame

LEMMA SumWithout ==
    ASSUME NEW S, IsFiniteSet(S), NEW val, \A y \in S : val[y] \in Int, NEW x \in S
    PROVE  Sum(val, S) = val[x] + Sum(val, S \ {x})
  <1>1. PICK f : SumsUp(f, val, S) /\ Sum(val, S) = f[S]
    BY SumIs
  <1>2. IsFiniteSet(S \ {x})
    BY FS_Subset
  <1>3. PICK g : SumsUp(g, val, S \ {x}) /\ Sum(val, S \ {x}) = g[S \ {x}]
    BY <1>2, SumIs
  <1>4. f[S \ {x}] = g[S \ {x}]
    <2>1. S \ {x} \in SUBSET (S \cap (S \ {x}))
      OBVIOUS
    <2> QED
      BY <1>1, <1>2, <1>3, <2>1, SumsUpSame
  <1>5. f[S] = val[x] + f[S \ {x}]
    BY <1>1, SumsUpAny
  <1> QED
    BY <1>1, <1>3, <1>4, <1>5

LEMMA SumNegated ==
    ASSUME NEW S, IsFiniteSet(S), NEW val, \A y \in S : val[y] \in Int,
           NEW neg, \A y \in S : neg[y] = -val[y]
    PROVE  Sum(neg, S) = -Sum(val, S)
  <1> DEFINE P == {s \in SUBSET S : Sum(neg, s) = -Sum(val, s)}
  <1>1. ASSUME NEW s \in SUBSET S, \A x \in s : s \ {x} \in P PROVE s \in P
    <2>1. CASE s = {}
      <3>1. Sum(neg, {}) = 0 /\ Sum(val, {}) = 0
        BY SumEmpty
      <3>2. Sum(neg, s) = -Sum(val, s)
        BY <2>1, <3>1
      <3> QED
        BY <3>2
    <2>2. CASE s # {}
      <3>1. PICK x \in s : TRUE
        BY <2>2
      <3>2. /\ IsFiniteSet(s) /\ IsFiniteSet(s \ {x})
            /\ \A y \in s : val[y] \in Int /\ neg[y] \in Int
        BY FS_Subset
      <3>3. Sum(val, s) = val[x] + Sum(val, s \ {x})
        BY <3>1, <3>2, SumWithout
      <3>4. Sum(neg, s) = neg[x] + Sum(neg, s \ {x})
        BY <3>1, <3>2, SumWithout
      <3>5. Sum(val, s \ {x}) \in Int
        BY <3>2, SumInt
      <3>6. Sum(neg, s \ {x}) = -Sum(val, s \ {x})
        BY <1>1, <3>1
      <3>7. val[x] \in Int /\ neg[x] = -val[x]
        BY <3>1
      <3>8. Sum(neg, s) = -Sum(val, s)
        BY <3>3, <3>4, <3>5, <3>6, <3>7
      <3> QED
        BY <3>8
    <2> QED
      BY <2>1, <2>2
  <1>2. \A s \in SUBSET S : s \in P
    <2> HIDE DEF P
    <2> QED
      BY <1>1, GrowSubset
  <1> QED
    BY <1>2

-----------------------------------------------------------------------------
(* Folds over a sequence, from the left.                                    *)

(* What FoldLeft recurs on: the last of a set of positions is taken out.    *)
FoldsLeft(f, base, next, n) ==
    f = [s \in SUBSET (1..n) |->
            IF s = {} THEN base ELSE next[Max(s)][f[s \ {Max(s)}]]]

LEMMA LargestOf ==
    ASSUME NEW n \in Nat, NEW s \in SUBSET (1..n), s # {}
    PROVE  Max(s) \in s /\ \A y \in s : y <= Max(s)
  <1>1. PICK T : T = {n - y : y \in s}
    OBVIOUS
  <1>2. T \subseteq Nat /\ T # {}
    <2>1. \A y \in s : n - y \in Nat
      OBVIOUS
    <2> QED
      BY <1>1, <2>1
  <1>3. PICK t \in T : \A u \in T : t <= u
    BY <1>2, LeastNumber
  <1>4. PICK x \in s : t = n - x
    BY <1>1, <1>3
  <1>5. ASSUME NEW y \in s PROVE x >= y
    <2>1. n - y \in T
      BY <1>1
    <2> QED
      BY <1>3, <1>4, <2>1
  <1>6. \E m \in s : \A y \in s : m >= y
    BY <1>5
  <1>7. Max(s) \in s /\ \A y \in s : Max(s) >= y
    BY <1>6 DEF Max
  <1> QED
    BY <1>7

LEMMA Prefix ==
    ASSUME NEW n \in Nat, NEW k \in 1..n
    PROVE  /\ 1..k \in SUBSET (1..n) /\ 1..k # {}
           /\ Max(1..k) = k /\ (1..k) \ {Max(1..k)} = 1..(k - 1)
  <1>1. 1..k \in SUBSET (1..n) /\ k \in 1..k
    OBVIOUS
  <1>2. Max(1..k) \in 1..k /\ k <= Max(1..k)
    BY <1>1, LargestOf
  <1>3. Max(1..k) = k
    BY <1>2
  <1> QED
    BY <1>1, <1>3

LEMMA FoldsLeftExists ==
    ASSUME NEW n \in Nat, NEW base, NEW next
    PROVE  \E f : FoldsLeft(f, base, next, n)
  <1>1. PICK pick : pick = [s \in SUBSET (1..n) |-> Max(s)]
    OBVIOUS
  <1>2. \A s \in SUBSET (1..n) : s # {} => pick[s] \in s
    BY <1>1, LargestOf
  <1>3. IsFiniteSet(1..n)
    BY FS_Interval
  <1>4. PICK f : Folds(f, base, next, pick, 1..n)
    BY <1>2, <1>3, FoldExists
  <1>5. FoldsLeft(f, base, next, n)
    BY <1>1, <1>4 DEF Folds, FoldsLeft
  <1> QED
    BY <1>5

LEMMA FoldsLeftType ==
    ASSUME NEW n \in Nat, NEW V, NEW base \in V, NEW next, \A k \in 1..n : next[k] \in [V -> V],
           NEW f, FoldsLeft(f, base, next, n)
    PROVE  \A s \in SUBSET (1..n) : f[s] \in V
  <1> DEFINE P == {s \in SUBSET (1..n) : f[s] \in V}
  <1>1. ASSUME NEW s \in SUBSET (1..n), \A x \in s : s \ {x} \in P PROVE s \in P
    <2>1. CASE s = {}
      <3>1. f[s] = base
        BY <2>1 DEF FoldsLeft
      <3> QED
        BY <3>1
    <2>2. CASE s # {}
      <3>1. Max(s) \in s
        BY <2>2, LargestOf
      <3>2. f[s \ {Max(s)}] \in V /\ next[Max(s)] \in [V -> V]
        BY <1>1, <3>1
      <3>3. f[s] = next[Max(s)][f[s \ {Max(s)}]]
        BY <2>2 DEF FoldsLeft
      <3> QED
        BY <3>2, <3>3
    <2> QED
      BY <2>1, <2>2
  <1>2. IsFiniteSet(1..n)
    BY FS_Interval
  <1>3. \A s \in SUBSET (1..n) : s \in P
    <2> HIDE DEF P
    <2> QED
      BY <1>1, <1>2, GrowSubset
  <1> QED
    BY <1>3

=============================================================================
