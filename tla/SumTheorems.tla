----------------------------- MODULE SumTheorems -----------------------------
(***************************************************************************)
(* Sums over finite sets, for the proofs about what a report adds up.      *)
(*                                                                         *)
(* SumFunction folds over a set in the order in which CHOOSE takes its     *)
(* elements.  Its equation, and induction along that order, are proved     *)
(* here from the least element of a set of numbers, with sets in place of  *)
(* predicates.                                                             *)
(***************************************************************************)
EXTENDS Integers, Functions, FiniteSetTheorems, WellFoundedInduction, TLAPS

First(S) == CHOOSE x \in S : TRUE
Others(S) == S \ {First(S)}

(* What the fold of f over the subsets of I is defined by. *)
IsSum(g, f, D) ==
    g = [S \in D |-> IF S = {} THEN 0 ELSE f[First(S)] + g[Others(S)]]

(* The fold is the value of one function on all subsets. *)
LEMMA SumUnfolds ==
    ASSUME NEW f, NEW I
    PROVE  SumFunctionOnSet(f, I) = (CHOOSE g : IsSum(g, f, SUBSET I))[I]
BY DEF SumFunctionOnSet, FoldFunctionOnSet, MapThenFoldSet, IsSum, First, Others

-----------------------------------------------------------------------------
(* Induction *)

LEMMA NumberInduction ==
    ASSUME NEW G \in SUBSET Nat, 0 \in G, \A n \in G : n + 1 \in G
    PROVE  G = Nat
<1> SUFFICES ASSUME Nat \ G # {} PROVE FALSE
  OBVIOUS
<1>1. PICK m \in Nat \ G : \A n \in Nat \ G : ~ (<<n, m>> \in OpToRel(<, Nat))
  BY NatLessThanWellFounded, WFMin
<1>2. m - 1 \in Nat /\ m - 1 < m
  OBVIOUS
<1>3. m - 1 \notin G
  BY <1>2
<1>4. <<m - 1, m>> \in OpToRel(<, Nat)
  BY <1>2 DEF OpToRel
<1> QED BY <1>1, <1>2, <1>3, <1>4

LEMMA OthersFewer ==
    ASSUME NEW I, IsFiniteSet(I), NEW S \in SUBSET I, S # {}
    PROVE  /\ First(S) \in S /\ Others(S) \in SUBSET I
           /\ IsFiniteSet(S) /\ Cardinality(S) \in Nat /\ Cardinality(Others(S)) \in Nat
           /\ Cardinality(S) = Cardinality(Others(S)) + 1
<1>1. First(S) \in S
  BY DEF First
<1>2. IsFiniteSet(S) /\ IsFiniteSet(Others(S))
  BY FS_Subset DEF Others
<1>3. Cardinality(Others(S)) = Cardinality(S) - 1
  BY <1>1, <1>2, FS_RemoveElement DEF Others
<1> QED BY <1>1, <1>2, <1>3, FS_CardinalityType DEF Others

(* What holds of the empty set, and of a set if it holds of its others, holds
   of every subset of a finite set.                                          *)
LEMMA SubsetInduction ==
    ASSUME NEW I, IsFiniteSet(I), NEW P,
           {} \in P, \A S \in SUBSET I : S # {} /\ Others(S) \in P => S \in P
    PROVE  \A S \in SUBSET I : S \in P
<1> DEFINE G == {n \in Nat : \A S \in SUBSET I : Cardinality(S) = n => S \in P}
<1>1. 0 \in G
  <2>1. ASSUME NEW S \in SUBSET I, Cardinality(S) = 0
        PROVE  S = {}
    BY <2>1, FS_Subset, FS_EmptySet
  <2> QED BY <2>1
<1>2. ASSUME NEW n \in G
      PROVE  n + 1 \in G
  <2> SUFFICES ASSUME NEW S \in SUBSET I, Cardinality(S) = n + 1
               PROVE  S \in P
    OBVIOUS
  <2>1. S # {}
    BY FS_EmptySet
  <2>2. Others(S) \in SUBSET I /\ Cardinality(Others(S)) = n
    BY <2>1, OthersFewer
  <2> QED BY <2>1, <2>2
<1> HIDE DEF G
<1>3. G = Nat
  <2>1. G \in SUBSET Nat
    BY DEF G
  <2> QED BY <1>1, <1>2, <2>1, NumberInduction
<1> QED
  <2> TAKE S \in SUBSET I
  <2>1. Cardinality(S) \in G
    BY <1>3, FS_Subset, FS_CardinalityType
  <2> QED BY <2>1 DEF G

-----------------------------------------------------------------------------
(* The equation of a sum *)

(* The function the fold chooses exists: up to any size of the subsets. *)
LEMMA SumExists ==
    ASSUME NEW f, NEW I, IsFiniteSet(I)
    PROVE  \E g : IsSum(g, f, SUBSET I)
<1> DEFINE Small(n) == {S \in SUBSET I : Cardinality(S) <= n}
           G == {n \in Nat : \E g : IsSum(g, f, Small(n))}
<1>1. 0 \in G
  <2> DEFINE g == [S \in Small(0) |-> 0]
  <2>1. \A S \in Small(0) : S = {}
    BY FS_Subset, FS_EmptySet, FS_CardinalityType
  <2>2. IsSum(g, f, Small(0))
    BY <2>1 DEF IsSum
  <2> QED BY <2>2
<1>2. ASSUME NEW n \in G
      PROVE  n + 1 \in G
  <2>1. n \in Nat /\ n + 1 \in Nat
    OBVIOUS
  <2>2. PICK g : IsSum(g, f, Small(n))
    OBVIOUS
  <2> DEFINE h == [S \in Small(n + 1) |->
                     IF S = {} THEN 0 ELSE f[First(S)] + g[Others(S)]]
  <2>3. \A S \in Small(n + 1) : S # {} => Others(S) \in Small(n)
    BY <2>1, OthersFewer
  <2>4. \A S \in Small(n) : S \in Small(n + 1)
    BY <2>1, FS_Subset, FS_CardinalityType
  <2>5. \A S \in Small(n) : h[S] = g[S]
    BY <2>2, <2>4 DEF IsSum
  <2>6. h = [S \in Small(n + 1) |->
               IF S = {} THEN 0 ELSE f[First(S)] + h[Others(S)]]
    <3> HIDE DEF Small
    <3> QED BY <2>3, <2>5
  <2>7. IsSum(h, f, Small(n + 1))
    BY <2>6 DEF IsSum
  <2> QED BY <2>1, <2>7
<1> HIDE DEF G
<1>3. G = Nat
  <2>1. G \in SUBSET Nat
    BY DEF G
  <2> QED BY <1>1, <1>2, <2>1, NumberInduction
<1>4. Cardinality(I) \in G
  BY <1>3, FS_CardinalityType
<1>5. Small(Cardinality(I)) = SUBSET I
  BY FS_Subset
<1> QED BY <1>4, <1>5 DEF G

(* The sums of f over the subsets of I, as the fold chooses them. *)
Sums(f, I) == CHOOSE g : IsSum(g, f, SUBSET I)

LEMMA SumEquation ==
    ASSUME NEW f, NEW I, IsFiniteSet(I)
    PROVE  /\ SumFunctionOnSet(f, I) = Sums(f, I)[I]
           /\ Sums(f, I)[{}] = 0
           /\ \A S \in SUBSET I : S # {} =>
                 Sums(f, I)[S] = f[First(S)] + Sums(f, I)[Others(S)]
<1>1. IsSum(Sums(f, I), f, SUBSET I)
  BY SumExists DEF Sums
<1>2. \A S \in SUBSET I :
         Sums(f, I)[S] = IF S = {} THEN 0 ELSE f[First(S)] + Sums(f, I)[Others(S)]
  <2> DEFINE g == Sums(f, I)
  <2>1. g = [S \in SUBSET I |-> IF S = {} THEN 0 ELSE f[First(S)] + g[Others(S)]]
    BY <1>1 DEF IsSum
  <2> HIDE DEF g
  <2>2. \A S \in SUBSET I : g[S] = IF S = {} THEN 0 ELSE f[First(S)] + g[Others(S)]
    BY <2>1
  <2> QED BY <2>2 DEF g
<1>3. {} \in SUBSET I
  OBVIOUS
<1> QED BY <1>2, <1>3, SumUnfolds DEF Sums

-----------------------------------------------------------------------------
(* What follows for sums of numbers *)

LEMMA SumsTyped ==
    ASSUME NEW I, IsFiniteSet(I), NEW f \in [I -> Int]
    PROVE  \A S \in SUBSET I : Sums(f, I)[S] \in Int
<1> DEFINE P == {S \in SUBSET I : Sums(f, I)[S] \in Int}
<1>1. {} \in P
  BY SumEquation
<1>2. ASSUME NEW S \in SUBSET I, S # {}, Others(S) \in P
      PROVE  S \in P
  <2>1. f[First(S)] \in Int
    BY <1>2, OthersFewer
  <2>2. Sums(f, I)[S] = f[First(S)] + Sums(f, I)[Others(S)]
    BY <1>2, SumEquation
  <2> QED BY <1>2, <2>1, <2>2
<1> HIDE DEF P
<1>3. \A S \in SUBSET I : S \in P
  BY <1>1, <1>2, SubsetInduction
<1> QED BY <1>3 DEF P

THEOREM SumType ==
    ASSUME NEW I, IsFiniteSet(I), NEW f \in [I -> Int]
    PROVE  SumFunction(f) \in Int
<1>1. SumFunction(f) = Sums(f, I)[I] /\ I \in SUBSET I
  BY SumEquation DEF SumFunction
<1> QED BY <1>1, SumsTyped

(* A sum of positive numbers over a set that is not empty is positive. *)
THEOREM SumPositive ==
    ASSUME NEW I, IsFiniteSet(I), I # {}, NEW f \in [I -> Nat \ {0}]
    PROVE  SumFunction(f) \in Nat /\ SumFunction(f) > 0
<1> DEFINE P == {S \in SUBSET I : Sums(f, I)[S] \in Nat /\ (S # {} => Sums(f, I)[S] > 0)}
<1>1. {} \in P
  BY SumEquation
<1>2. ASSUME NEW S \in SUBSET I, S # {}, Others(S) \in P
      PROVE  S \in P
  <2>1. f[First(S)] \in Nat \ {0}
    BY <1>2, OthersFewer
  <2>2. Sums(f, I)[S] = f[First(S)] + Sums(f, I)[Others(S)]
    BY <1>2, SumEquation
  <2> QED BY <1>2, <2>1, <2>2
<1> HIDE DEF P
<1>3. I \in P
  BY <1>1, <1>2, SubsetInduction
<1>4. SumFunction(f) = Sums(f, I)[I]
  BY SumEquation DEF SumFunction
<1> QED BY <1>3, <1>4 DEF P

(* Two numbers of which a multiple each are everywhere within a bound of one
   another have sums that are within the bound once for every element.      *)
THEOREM SumsWithin ==
    ASSUME NEW I, IsFiniteSet(I), NEW f \in [I -> Int], NEW g \in [I -> Int],
           NEW a \in Int, NEW b \in Int, NEW d \in Nat,
           \A i \in I : -d <= a * f[i] - b * g[i] /\ a * f[i] - b * g[i] <= d
    PROVE  /\ -(d * Cardinality(I)) <= a * SumFunction(f) - b * SumFunction(g)
           /\ a * SumFunction(f) - b * SumFunction(g) <= d * Cardinality(I)
<1> DEFINE F == Sums(f, I)
           H == Sums(g, I)
           P == {S \in SUBSET I : /\ -(d * Cardinality(S)) <= a * F[S] - b * H[S]
                                  /\ a * F[S] - b * H[S] <= d * Cardinality(S)}
<1>1. {} \in P
  <2>1. F[{}] = 0 /\ H[{}] = 0 /\ Cardinality({}) = 0
    BY SumEquation, FS_EmptySet
  <2>2. a * 0 = 0 /\ b * 0 = 0 /\ d * 0 = 0
    OBVIOUS
  <2> HIDE DEF F, H
  <2> QED BY <2>1, <2>2
<1>2. ASSUME NEW S \in SUBSET I, S # {}, Others(S) \in P
      PROVE  S \in P
  <2> DEFINE x == f[First(S)]
             y == g[First(S)]
             X == F[Others(S)]
             Y == H[Others(S)]
             n == Cardinality(Others(S))
  <2>1. First(S) \in I /\ Others(S) \in SUBSET I /\ n \in Nat /\ Cardinality(S) = n + 1
    BY <1>2, OthersFewer
  <2>2. x \in Int /\ y \in Int /\ X \in Int /\ Y \in Int
    BY <2>1, SumsTyped
  <2>3. F[S] = x + X /\ H[S] = y + Y
    BY <1>2, SumEquation
  <2>4. -d <= a * x - b * y /\ a * x - b * y <= d
    BY <2>1
  <2>5. -(d * n) <= a * X - b * Y /\ a * X - b * Y <= d * n
    BY <1>2
  <2> HIDE DEF x, y, X, Y, n, F, H
  <2>6. /\ a * (x + X) = a * x + a * X /\ b * (y + Y) = b * y + b * Y
        /\ d * (n + 1) = d * n + d
    BY <2>1, <2>2
  <2>7. /\ a * x \in Int /\ b * y \in Int /\ a * X \in Int /\ b * Y \in Int /\ d * n \in Int
    BY <2>1, <2>2
  <2> QED BY <1>2, <2>1, <2>3, <2>4, <2>5, <2>6, <2>7
<1> HIDE DEF P, F, H
<1>3. I \in P
  BY <1>1, <1>2, SubsetInduction
<1>4. SumFunction(f) = F[I] /\ SumFunction(g) = H[I]
  BY SumEquation DEF SumFunction, F, H
<1> QED BY <1>3, <1>4 DEF P
=============================================================================
