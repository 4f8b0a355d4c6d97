----------------------------- MODULE FoldLemmas -----------------------------
(***************************************************************************)
(* Induction over finite sets, stated about sets rather than operators,    *)
(* and what it says of the folds of module Folds: that the recursion they  *)
(* choose a solution of has one, and that a sum over a finite set does not *)
(* depend on the order it is taken in.                                     *)
(***************************************************************************)
EXTENDS Integers, FiniteSets, FiniteSetsExt, FiniteSetTheorems, WellFoundedInduction, TLAPS

\* A set of naturals that is not empty has a least member, and a largest one when
\* it is bounded.
LEMMA SmallestMember ==
    ASSUME NEW S, S \subseteq Nat, S # {}
    PROVE  \E x \in S : \A k \in S : x =< k
  <1>1. PICK x \in S : \A k \in S : <<k, x>> \notin OpToRel(<, Nat)
    BY NatLessThanWellFounded, WFMin, Zenon
  <1>2. \A k \in S : ~(k < x)
    BY <1>1 DEF OpToRel
  <1> QED  BY <1>2

LEMMA LeastBy ==
    ASSUME NEW S, S # {}, NEW f, \A x \in S : f[x] \in Nat
    PROVE  \E x \in S : \A y \in S : f[x] =< f[y]
  <1> DEFINE values == {f[x] : x \in S}
  <1>1. values \subseteq Nat /\ values # {}
    OBVIOUS
  <1>2. PICK k \in values : \A v \in values : k =< v
    <2> HIDE DEF values
    <2> QED  BY <1>1, SmallestMember
  <1>3. PICK x \in S : k = f[x]
    OBVIOUS
  <1>4. \A y \in S : f[y] \in values
    OBVIOUS
  <1> HIDE DEF values
  <1> QED  BY <1>2, <1>3, <1>4

LEMMA LargestMember ==
    ASSUME NEW n \in Nat, NEW S, S \subseteq 0 .. n, S # {}
    PROVE  \E largest \in S : \A k \in S : k =< largest
  <1> DEFINE below == {n - k : k \in S}
  <1>1. below \subseteq Nat /\ below # {}
    <2>1. \A k \in S : n - k \in Nat
      OBVIOUS
    <2> QED  BY <2>1
  <1>2. PICK x \in below : \A k \in below : x =< k
    <2> HIDE DEF below
    <2> QED  BY <1>1, SmallestMember
  <1>3. PICK largest \in S : x = n - largest
    OBVIOUS
  <1>4. \A k \in S : n - k \in below
    OBVIOUS
  <1> HIDE DEF below
  <1>5. \A k \in S : k =< largest
    BY <1>2, <1>3, <1>4
  <1> QED  BY <1>5

\* What holds of 0, and of n + 1 when it holds of n, holds of every natural.
LEMMA CountingUp ==
    ASSUME NEW Good, 0 \in Good, \A n \in Nat : n \in Good => n + 1 \in Good
    PROVE  Nat \subseteq Good
  <1> DEFINE Bad == Nat \ Good
  <1> SUFFICES ASSUME Bad # {} PROVE FALSE
    OBVIOUS
  <1>1. PICK x \in Bad : \A k \in Bad : x =< k
    <2>1. Bad \subseteq Nat
      OBVIOUS
    <2> HIDE DEF Bad
    <2> QED  BY <2>1, SmallestMember
  <1>2. x \in Nat /\ x # 0
    OBVIOUS
  <1>3. x - 1 \in Nat /\ x - 1 \notin Bad
    BY <1>1, <1>2
  <1>4. (x - 1) + 1 \in Good
    BY <1>3
  <1>5. (x - 1) + 1 = x
    BY <1>2
  <1> QED  BY <1>4, <1>5

-----------------------------------------------------------------------------
\* Induction over the subsets of a finite set: what holds of the empty set, and of
\* a set when it holds of that set without any one of its members, holds of all.
LEMMA SubsetInduction ==
    ASSUME NEW S, IsFiniteSet(S), NEW Good, {} \in Good,
           \A s \in SUBSET S : s # {} /\ (\A x \in s : s \ {x} \in Good) => s \in Good
    PROVE  SUBSET S \subseteq Good
  <1> DEFINE Sizes == {n \in Nat : \A s \in SUBSET S : Cardinality(s) = n => s \in Good}
  <1>1. \A s \in SUBSET S : IsFiniteSet(s) /\ Cardinality(s) \in Nat
    BY FS_Subset, FS_CardinalityType
  <1>2. 0 \in Sizes
    <2>1. \A s \in SUBSET S : Cardinality(s) = 0 => s = {}
      BY <1>1, FS_EmptySet
    <2> QED  BY <2>1
  <1>3. ASSUME NEW n \in Nat, n \in Sizes PROVE n + 1 \in Sizes
    <2>1. ASSUME NEW s \in SUBSET S, Cardinality(s) = n + 1 PROVE s \in Good
      <3>1. s # {}
        <4>1. Cardinality({}) = 0
          BY FS_EmptySet
        <4> QED  BY <2>1, <4>1
      <3>2. ASSUME NEW x \in s PROVE s \ {x} \in Good
        <4>1. Cardinality(s \ {x}) = Cardinality(s) - 1
          BY <1>1, FS_RemoveElement
        <4>2. Cardinality(s \ {x}) = n
          BY <2>1, <4>1
        <4> QED  BY <1>3, <4>2
      <3> QED  BY <3>1, <3>2
    <2> QED  BY <2>1
  <1> HIDE DEF Sizes
  <1>4. Nat \subseteq Sizes
    BY <1>2, <1>3, CountingUp
  <1>5. ASSUME NEW s \in SUBSET S PROVE s \in Good
    <2>1. Cardinality(s) \in Sizes
      BY <1>1, <1>4
    <2> QED  BY <2>1 DEF Sizes
  <1> QED  BY <1>5

\* A finite set of naturals is bounded.
LEMMA FiniteBound ==
    ASSUME NEW S, IsFiniteSet(S), S \subseteq Nat
    PROVE  \E n \in Nat : S \subseteq 0 .. n
  <1> DEFINE Good == {s \in SUBSET S : \E n \in Nat : s \subseteq 0 .. n}
  <1>1. {} \in Good
    <2>1. 0 \in Nat /\ {} \subseteq 0 .. 0
      OBVIOUS
    <2> QED  BY <2>1
  <1>2. ASSUME NEW s \in SUBSET S, NEW x \in s, s \ {x} \in Good PROVE s \in Good
    <2>1. PICK n \in Nat : s \ {x} \subseteq 0 .. n
      BY <1>2
    <2>2. PICK k \in Nat : k >= n /\ k >= x
      <3>1. x \in Nat
        BY <1>2
      <3> QED  BY <3>1
    <2>3. s \subseteq 0 .. k
      BY <2>1, <2>2
    <2> QED  BY <2>3
  <1> HIDE DEF Good
  <1>3. \A s \in SUBSET S : s # {} /\ (\A x \in s : s \ {x} \in Good) => s \in Good
    BY <1>2
  <1>4. SUBSET S \subseteq Good
    BY <1>1, <1>3, SubsetInduction
  <1> QED  BY <1>4 DEF Good

\* Max and Min of FiniteSetsExt.
LEMMA MaxIsOne ==
    ASSUME NEW S, IsFiniteSet(S), S \subseteq Nat, S # {}
    PROVE  Max(S) \in S /\ \A k \in S : Max(S) >= k
  <1>1. PICK n \in Nat : S \subseteq 0 .. n
    BY FiniteBound
  <1>2. PICK x \in S : \A k \in S : k =< x
    BY <1>1, LargestMember
  <1>3. \A k \in S : x >= k
    BY <1>2
  <1> QED  BY <1>3 DEF Max

LEMMA MinIsOne ==
    ASSUME NEW S, S \subseteq Nat, S # {}
    PROVE  Min(S) \in S /\ \A k \in S : Min(S) =< k
  BY SmallestMember DEF Min

\* What a function makes of a finite set is finite.
LEMMA ImageIsFinite ==
    ASSUME NEW S, IsFiniteSet(S), NEW f
    PROVE  IsFiniteSet({f[x] : x \in S})
  <1> DEFINE T == {f[x] : x \in S}
             h == [x \in S |-> f[x]]
  <1>1. h \in Surjection(S, T)
    BY DEF Surjection
  <1> HIDE DEF h, T
  <1>2. IsFiniteSet(T)
    BY <1>1, FS_Surjection
  <1> QED  BY <1>2 DEF T

-----------------------------------------------------------------------------
\* The recursion of a fold over the subsets of S, `pick' choosing the member each
\* is taken apart at.
FoldsBy(g, S, pick, step, base) ==
    g = [s \in SUBSET S |-> IF s = {} THEN base ELSE step[<<pick[s], g[s \ {pick[s]}]>>]]

\* It has a solution, whose values are among those the steps give.
LEMMA FoldExists ==
    ASSUME NEW S, IsFiniteSet(S), NEW T, NEW base \in T, NEW step \in [S \X T -> T],
           NEW pick, \A s \in SUBSET S : s # {} => pick[s] \in s
    PROVE  \E g \in [SUBSET S -> T] : FoldsBy(g, S, pick, step, base)
  <1> DEFINE Small(n) == {s \in SUBSET S : Cardinality(s) =< n}
             Value(g, s) == IF s = {} THEN base ELSE step[<<pick[s], g[s \ {pick[s]}]>>]
             Solved == {n \in Nat : \E g \in [Small(n) -> T] : \A s \in Small(n) : g[s] = Value(g, s)}
  <1>1. \A s \in SUBSET S : IsFiniteSet(s) /\ Cardinality(s) \in Nat
    BY FS_Subset, FS_CardinalityType
  <1>2. 0 \in Solved
    <2>1. \A s \in Small(0) : s = {}
      BY <1>1, FS_EmptySet
    <2>2. [s \in Small(0) |-> base] \in [Small(0) -> T]
      OBVIOUS
    <2> QED  BY <2>1, <2>2
  <1>3. ASSUME NEW n \in Nat, n \in Solved PROVE n + 1 \in Solved
    <2>1. PICK g \in [Small(n) -> T] : \A s \in Small(n) : g[s] = Value(g, s)
      BY <1>3
    <2> DEFINE h == [s \in Small(n + 1) |-> Value(g, s)]
    <2>2. ASSUME NEW s \in Small(n + 1), s # {}
          PROVE  /\ pick[s] \in S /\ s \ {pick[s]} \in Small(n) /\ s \ {pick[s]} \in Small(n + 1)
      <3>1. pick[s] \in s /\ s \in SUBSET S /\ Cardinality(s) =< n + 1
        BY <2>2
      <3>2. Cardinality(s \ {pick[s]}) = Cardinality(s) - 1 /\ Cardinality(s) \in Nat
        BY <1>1, <3>1, FS_RemoveElement
      <3> QED  BY <3>1, <3>2
    <2>3. ASSUME NEW s \in Small(n) PROVE s \in Small(n + 1) /\ h[s] = g[s]
      <3>1. s \in Small(n + 1)
        BY <1>1
      <3> QED  BY <2>1, <3>1
    <2>4. h \in [Small(n + 1) -> T]
      <3>1. ASSUME NEW s \in Small(n + 1), s # {} PROVE Value(g, s) \in T
        <4>1. <<pick[s], g[s \ {pick[s]}]>> \in S \X T
          BY <2>2, <3>1
        <4> QED  BY <3>1, <4>1
      <3> QED  BY <3>1
    <2>5. ASSUME NEW s \in Small(n + 1) PROVE h[s] = Value(h, s)
      <3>1. CASE s = {}
        BY <3>1
      <3>2. CASE s # {}
        <4>1. h[s \ {pick[s]}] = g[s \ {pick[s]}]
          BY <2>2, <2>3, <3>2
        <4>2. h[s] = Value(g, s)
          OBVIOUS
        <4> HIDE DEF h
        <4> QED  BY <4>1, <4>2
      <3> QED  BY <3>1, <3>2
    <2> HIDE DEF h, Value, Small
    <2>6. n + 1 \in Nat
      OBVIOUS
    <2> QED  BY <2>4, <2>5, <2>6
  <1>4. Cardinality(S) \in Nat /\ Cardinality(S) \in Solved
    <2>1. Cardinality(S) \in Nat
      BY FS_CardinalityType
    <2> HIDE DEF Solved
    <2>2. Nat \subseteq Solved
      BY <1>2, <1>3, CountingUp
    <2> QED  BY <2>1, <2>2
  <1>5. Small(Cardinality(S)) = SUBSET S
    BY FS_Subset
  <1>6. PICK g \in [SUBSET S -> T] : \A s \in SUBSET S : g[s] = Value(g, s)
    BY <1>4, <1>5
  <1>7. g = [s \in SUBSET S |-> Value(g, s)]
    BY <1>6
  <1> QED  BY <1>7 DEF FoldsBy

-----------------------------------------------------------------------------
\* The sum of f over a finite set, as MapThenSumSet() takes it, and the recursion
\* behind it.
Total(f, S) == MapThenSumSet(LAMBDA x : f[x], S)
Some(s) == CHOOSE x \in s : TRUE
SumsBy(g, S, f) ==
    g = [s \in SUBSET S |-> IF s = {} THEN 0 ELSE f[Some(s)] + g[s \ {Some(s)}]]

LEMMA SumExists ==
    ASSUME NEW S, IsFiniteSet(S), NEW f, \A x \in S : f[x] \in Nat
    PROVE  \E g : SumsBy(g, S, f)
  <1> DEFINE pick == [s \in SUBSET S |-> Some(s)]
             step == [a \in S \X Nat |-> f[a[1]] + a[2]]
  <1>1. \A s \in SUBSET S : s # {} => Some(s) \in s
    BY DEF Some
  <1>2. step \in [S \X Nat -> Nat]
    OBVIOUS
  <1>3. \A s \in SUBSET S : s # {} => pick[s] \in s
    BY <1>1
  <1> HIDE DEF pick, step
  <1>4. PICK g \in [SUBSET S -> Nat] : FoldsBy(g, S, pick, step, 0)
    BY <1>2, <1>3, FoldExists
  <1>5. g = [s \in SUBSET S |-> IF s = {} THEN 0 ELSE step[<<pick[s], g[s \ {pick[s]}]>>]]
    BY <1>4 DEF FoldsBy
  <1>6. ASSUME NEW s \in SUBSET S, s # {}
        PROVE  step[<<pick[s], g[s \ {pick[s]}]>>] = f[Some(s)] + g[s \ {Some(s)}]
    <2>1. pick[s] = Some(s) /\ Some(s) \in S /\ s \ {Some(s)} \in SUBSET S
      BY <1>1, <1>6 DEF pick
    <2>2. <<Some(s), g[s \ {Some(s)}]>> \in S \X Nat
      BY <1>4, <2>1
    <2> QED  BY <2>1, <2>2 DEF step
  <1>7. g = [s \in SUBSET S |-> IF s = {} THEN 0 ELSE f[Some(s)] + g[s \ {Some(s)}]]
    BY <1>5, <1>6
  <1> QED  BY <1>7 DEF SumsBy

\* A sum is the same whichever member is taken out of it first.
LEMMA SumTakesAny ==
    ASSUME NEW S, IsFiniteSet(S), NEW f, \A x \in S : f[x] \in Nat, NEW g, SumsBy(g, S, f)
    PROVE  /\ g[{}] = 0
           /\ \A s \in SUBSET S : g[s] \in Nat /\ \A x \in s : g[s] = f[x] + g[s \ {x}]
  <1> DEFINE Natural == {s \in SUBSET S : g[s] \in Nat}
             Good    == {s \in SUBSET S : \A x \in s : g[s] = f[x] + g[s \ {x}]}
  <1>1. g[{}] = 0 /\ {} \in Natural /\ {} \in Good
    BY DEF SumsBy
  <1>2. ASSUME NEW s \in SUBSET S PROVE g[s] \in Nat
    <2>1. ASSUME NEW r \in SUBSET S, r # {}, \A x \in r : r \ {x} \in Natural PROVE r \in Natural
      <3>1. Some(r) \in r /\ g[r] = f[Some(r)] + g[r \ {Some(r)}]
        BY <2>1 DEF SumsBy, Some
      <3> QED  BY <2>1, <3>1
    <2> HIDE DEF Natural
    <2>2. SUBSET S \subseteq Natural
      BY <1>1, <2>1, SubsetInduction
    <2> QED  BY <2>2 DEF Natural
  <1>3. ASSUME NEW s \in SUBSET S, s # {}, \A x \in s : s \ {x} \in Good PROVE s \in Good
    <2> DEFINE y == Some(s)
    <2>1. y \in s /\ g[s] = f[y] + g[s \ {y}]
      BY <1>3 DEF SumsBy, Some
    <2> HIDE DEF y
    <2>3. ASSUME NEW x \in s PROVE g[s] = f[x] + g[s \ {x}]
      <3>1. CASE x = y
        BY <2>1, <3>1
      <3>2. CASE x # y
        <4>1. (s \ {y}) \ {x} = (s \ {x}) \ {y}
          OBVIOUS
        <4>2. g[s \ {y}] = f[x] + g[(s \ {y}) \ {x}]
          BY <1>3, <2>1, <3>2
        <4>3. g[s \ {x}] = f[y] + g[(s \ {y}) \ {x}]
          BY <1>3, <2>1, <3>2, <4>1
        <4>4. /\ f[x] \in Nat /\ f[y] \in Nat
              /\ g[(s \ {y}) \ {x}] \in Nat /\ g[s \ {x}] \in Nat /\ g[s \ {y}] \in Nat
          BY <1>2, <2>1
        <4> HIDE DEF Good, Natural
        <4> QED  BY <2>1, <4>2, <4>3, <4>4
      <3> QED  BY <3>1, <3>2
    <2> QED  BY <2>3
  <1> HIDE DEF Good
  <1>4. SUBSET S \subseteq Good
    BY <1>1, <1>3, SubsetInduction
  <1> QED  BY <1>1, <1>2, <1>4 DEF Good

\* Two solutions of the recursion, over sets one of which lies in the other, agree
\* when what they add up does.
LEMMA SumsAgree ==
    ASSUME NEW S, IsFiniteSet(S), NEW f, \A x \in S : f[x] \in Nat, NEW g, SumsBy(g, S, f),
           NEW R \in SUBSET S, NEW e, \A x \in R : e[x] = f[x], NEW h, SumsBy(h, R, e)
    PROVE  \A s \in SUBSET R : h[s] = g[s]
  <1> DEFINE Good == {s \in SUBSET R : h[s] = g[s]}
  <1>1. g[{}] = 0 /\ h[{}] = 0
    BY DEF SumsBy
  <1>2. ASSUME NEW s \in SUBSET R, s # {}, \A x \in s : s \ {x} \in Good PROVE s \in Good
    <2>1. /\ Some(s) \in s /\ g[s] = f[Some(s)] + g[s \ {Some(s)}]
          /\ h[s] = e[Some(s)] + h[s \ {Some(s)}]
      BY <1>2 DEF SumsBy, Some
    <2> QED  BY <1>2, <2>1
  <1>3. IsFiniteSet(R) /\ {} \in Good
    BY <1>1, FS_Subset
  <1> HIDE DEF Good
  <1>4. SUBSET R \subseteq Good
    BY <1>2, <1>3, SubsetInduction
  <1> QED  BY <1>4 DEF Good

\* Total() is the value of any solution at the whole set.
LEMMA TotalIsSum ==
    ASSUME NEW S, IsFiniteSet(S), NEW f, \A x \in S : f[x] \in Nat, NEW g, SumsBy(g, S, f)
    PROVE  Total(f, S) = g[S]
  <1> DEFINE h == CHOOSE h : SumsBy(h, S, f)
  <1>1. SumsBy(h, S, f)
    OBVIOUS
  <1>2. Total(f, S) = h[S]
    BY DEF Total, SumsBy, Some, MapThenSumSet, MapThenFoldSet
  <1> HIDE DEF h
  <1>3. \A s \in SUBSET S : h[s] = g[s]
    BY <1>1, SumsAgree
  <1> QED  BY <1>2, <1>3

\* What a sum is, and that only what f says of the set matters.
LEMMA TotalOfNone == ASSUME NEW f PROVE Total(f, {}) = 0
  <1>1. PICK g : SumsBy(g, {}, f)
    BY SumExists, FS_EmptySet
  <1>2. g[{}] = 0
    BY <1>1 DEF SumsBy
  <1>3. Total(f, {}) = g[{}]
    <2>1. IsFiniteSet({}) /\ \A x \in {} : f[x] \in Nat
      BY FS_EmptySet
    <2> QED  BY <1>1, <2>1, TotalIsSum
  <1> QED  BY <1>2, <1>3

LEMMA TotalWithout ==
    ASSUME NEW S, IsFiniteSet(S), NEW f, \A x \in S : f[x] \in Nat
    PROVE  /\ Total(f, S) \in Nat
           /\ \A x \in S : Total(f, S) = f[x] + Total(f, S \ {x})
  <1>1. PICK g : SumsBy(g, S, f)
    BY SumExists
  <1>2. Total(f, S) = g[S] /\ g[S] \in Nat /\ \A x \in S : g[S] = f[x] + g[S \ {x}]
    <2>1. Total(f, S) = g[S]
      BY <1>1, TotalIsSum
    <2>2. \A s \in SUBSET S : g[s] \in Nat /\ \A x \in s : g[s] = f[x] + g[s \ {x}]
      BY <1>1, SumTakesAny
    <2> QED  BY <2>1, <2>2
  <1>3. ASSUME NEW x \in S PROVE Total(f, S \ {x}) = g[S \ {x}]
    <2> DEFINE R == S \ {x}
    <2>1. R \in SUBSET S /\ IsFiniteSet(R) /\ \A y \in R : f[y] \in Nat
      BY FS_Subset
    <2> HIDE DEF R
    <2>2. PICK h : SumsBy(h, R, f)
      BY <2>1, SumExists
    <2>3. h[R] = g[R]
      BY <1>1, <2>1, <2>2, SumsAgree
    <2>4. Total(f, R) = h[R]
      BY <2>1, <2>2, TotalIsSum
    <2> QED  BY <2>3, <2>4 DEF R
  <1> QED  BY <1>2, <1>3

LEMMA TotalAgrees ==
    ASSUME NEW S, IsFiniteSet(S), NEW f, \A x \in S : f[x] \in Nat,
           NEW e, \A x \in S : e[x] = f[x]
    PROVE  Total(e, S) = Total(f, S)
  <1>1. \A x \in S : e[x] \in Nat
    OBVIOUS
  <1>2. PICK g : SumsBy(g, S, f)
    BY SumExists
  <1>3. PICK h : SumsBy(h, S, e)
    BY <1>1, SumExists
  <1>4. h[S] = g[S]
    BY <1>2, <1>3, SumsAgree
  <1>5. Total(f, S) = g[S]
    BY <1>2, TotalIsSum
  <1>6. Total(e, S) = h[S]
    BY <1>1, <1>3, TotalIsSum
  <1> QED  BY <1>4, <1>5, <1>6

\* One more member, one that counts for more, and a part of a sum.
LEMMA TotalWithOneMore ==
    ASSUME NEW S, IsFiniteSet(S), NEW f, \A x \in S : f[x] \in Nat, NEW y, y \notin S, f[y] \in Nat
    PROVE  Total(f, S \cup {y}) = Total(f, S) + f[y]
  <1> DEFINE R == S \cup {y}
  <1>1. IsFiniteSet(R) /\ \A x \in R : f[x] \in Nat
    BY FS_AddElement
  <1>2. y \in R /\ R \ {y} = S
    OBVIOUS
  <1> HIDE DEF R
  <1>3. Total(f, R) = f[y] + Total(f, R \ {y})
    BY <1>1, <1>2, TotalWithout
  <1>4. Total(f, S) \in Nat
    BY TotalWithout
  <1> QED  BY <1>2, <1>3, <1>4 DEF R

LEMMA TotalWithMore ==
    ASSUME NEW S, IsFiniteSet(S), NEW f, \A x \in S : f[x] \in Nat, NEW y, NEW a \in Nat,
           NEW e, e[y] = (IF y \in S THEN f[y] ELSE 0) + a, \A x \in S \ {y} : e[x] = f[x]
    PROVE  Total(e, S \cup {y}) = Total(f, S) + a
  <1> DEFINE R == S \ {y}
             b == IF y \in S THEN f[y] ELSE 0
  <1>1. /\ IsFiniteSet(R) /\ y \notin R /\ R \cup {y} = S \cup {y}
        /\ \A x \in R : f[x] \in Nat /\ e[x] = f[x]
    BY FS_Subset
  <1>2. b \in Nat /\ e[y] = b + a /\ e[y] \in Nat
    OBVIOUS
  <1>3. Total(f, S) = Total(f, R) + b
    <2>1. CASE y \in S
      <3>1. Total(f, S) = f[y] + Total(f, S \ {y})
        BY <2>1, TotalWithout
      <3>2. Total(f, R) \in Nat
        BY <1>1, TotalWithout
      <3> QED  BY <1>2, <2>1, <3>1, <3>2
    <2>2. CASE y \notin S
      <3>1. R = S /\ Total(f, S) \in Nat
        BY <2>2, TotalWithout
      <3> QED  BY <2>2, <3>1
    <2> QED  BY <2>1, <2>2
  <1> HIDE DEF R, b
  <1>4. Total(e, R) = Total(f, R)
    BY <1>1, TotalAgrees
  <1>5. \A x \in R : e[x] \in Nat
    BY <1>1
  <1>6. Total(e, R \cup {y}) = Total(e, R) + e[y]
    BY <1>1, <1>2, <1>5, TotalWithOneMore
  <1>7. Total(f, R) \in Nat
    BY <1>1, TotalWithout
  <1> QED  BY <1>1, <1>2, <1>3, <1>4, <1>6, <1>7

LEMMA PartOfTotal ==
    ASSUME NEW S, IsFiniteSet(S), NEW f, \A x \in S : f[x] \in Nat, NEW y \in S
    PROVE  f[y] =< Total(f, S)
  <1>1. Total(f, S) = f[y] + Total(f, S \ {y})
    BY TotalWithout
  <1>2. IsFiniteSet(S \ {y}) /\ \A x \in S \ {y} : f[x] \in Nat
    BY FS_Subset
  <1>3. Total(f, S \ {y}) \in Nat
    BY <1>2, TotalWithout
  <1> QED  BY <1>1, <1>3
=============================================================================
