----------------------------- MODULE FoldLemmas -----------------------------
(***************************************************************************)
(* Induction over finite data, by the smallest counterexample: a set of    *)
(* subsets of a finite set has a minimal one, a set of numbers a least     *)
(* one.  From this, what the folds of the community modules compute.       *)
(*                                                                         *)
(* A fold over the subsets of a set D is a function it such that           *)
(* it[s] = step[c[s]][it[s \ {c[s]}]], where c chooses from s the element  *)
(* that is taken last and step[x][v] is what x makes of v.                 *)
(***************************************************************************)
EXTENDS Integers, Sequences, FiniteSets, WellFoundedInduction, FiniteSetTheorems, TLAPS

(* A set of subsets of a finite set has a minimal one.                     *)
LEMMA MinSubset ==
  ASSUME NEW S, IsFiniteSet(S), NEW T \in SUBSET SUBSET S, T # {}
  PROVE  \E x \in T : \A y \in T : y \subseteq x => y = x
<1>1. IsWellFoundedOn(StrictSubsetOrdering(S), SUBSET S)
  BY FS_StrictSubsetOrderingWellFounded, FS_FiniteSubsetsOfFinite
<1>2. \E x \in T : \A y \in T : ~(<<y, x>> \in StrictSubsetOrdering(S))
  BY <1>1, WFMin
<1> QED BY <1>2 DEF StrictSubsetOrdering

(* A set of numbers has a least one.                                       *)
LEMMA MinNat ==
  ASSUME NEW T \in SUBSET Nat, T # {}
  PROVE  \E x \in T : \A y \in T : x <= y
<1>1. PICK n \in T : TRUE
  OBVIOUS
<1> DEFINE Upto == {0 .. m : m \in {k \in T : k <= n}}
           Base == 0 .. n
<1>2. IsFiniteSet(Base)
  BY FS_Interval
<1>3. Upto \in SUBSET SUBSET Base /\ Upto # {}
  BY <1>1
<1>4. PICK x \in Upto : \A y \in Upto : y \subseteq x => y = x
  <2> HIDE DEF Upto, Base
  <2> QED BY <1>2, <1>3, MinSubset
<1>5. PICK m \in T : m <= n /\ x = 0 .. m
  BY <1>4
<1>6. ASSUME NEW k \in T, k < m PROVE FALSE
  <2>1. 0 .. k \in Upto
    BY <1>5, <1>6, <1>1
  <2>2. 0 .. k \subseteq 0 .. m
    BY <1>6, <1>5
  <2>3. 0 .. k = 0 .. m
    BY <2>1, <2>2, <1>4, <1>5
  <2>4. m \in 0 .. m
    BY <1>5
  <2> QED BY <2>3, <2>4, <1>6
<1> QED BY <1>5, <1>6

(* Induction up to m: the set T stands for the predicate.                  *)
LEMMA UpToInduction ==
  ASSUME NEW m \in Nat, NEW T, 0 \in T, \A n \in 1 .. m : n - 1 \in T => n \in T
  PROVE  0 .. m \subseteq T
<1> DEFINE Bad == (0 .. m) \ T
<1> SUFFICES ASSUME Bad # {} PROVE FALSE
  OBVIOUS
<1>1. PICK n \in Bad : \A k \in Bad : n <= k
  <2>1. Bad \in SUBSET Nat
    OBVIOUS
  <2> HIDE DEF Bad
  <2> QED BY <2>1, MinNat
<1>2. n \in 1 .. m /\ n - 1 \in 0 .. m /\ ~(n <= n - 1)
  BY <1>1
<1> QED BY <1>1, <1>2

(* Induction over the subsets of a finite set, T again a predicate.        *)
LEMMA SubsetInduction ==
  ASSUME NEW D, IsFiniteSet(D), NEW T, {} \in T,
         \A s \in SUBSET D : \A x \in s : s \ {x} \in T => s \in T
  PROVE  SUBSET D \subseteq T
<1> DEFINE Bad == (SUBSET D) \ T
<1> SUFFICES ASSUME Bad # {} PROVE FALSE
  OBVIOUS
<1>1. PICK s \in Bad : \A t \in Bad : t \subseteq s => t = s
  <2>1. Bad \in SUBSET SUBSET D
    OBVIOUS
  <2> HIDE DEF Bad
  <2> QED BY <2>1, MinSubset
<1>2. PICK x \in s : TRUE
  <2>1. s # {}
    BY <1>1
  <2> QED BY <2>1
<1>3. s \ {x} \in SUBSET D /\ s \ {x} \subseteq s /\ s \ {x} # s
  BY <1>1, <1>2
<1> QED BY <1>1, <1>2, <1>3

-----------------------------------------------------------------------------
(* Recursion over the numbers up to m has a result.                        *)
IsRecursion(it, m, base, step) ==
  \A n \in 0 .. m : it[n] = IF n = 0 THEN base ELSE step[n][it[n - 1]]

LEMMA RecursionExists ==
  ASSUME NEW m \in Nat, NEW V, NEW base \in V, NEW step \in [1 .. m -> [V -> V]]
  PROVE  \E it \in [0 .. m -> V] : IsRecursion(it, m, base, step)
<1> USE DEF IsRecursion
<1> DEFINE Is(it, k) == IsRecursion(it, k, base, step)
           Bad == {k \in 0 .. m : ~\E it \in [0 .. k -> V] : Is(it, k)}
<1>1. Bad = {}
  <2> SUFFICES ASSUME Bad # {} PROVE FALSE
    OBVIOUS
  <2>1. Bad \in SUBSET Nat
    OBVIOUS
  <2>2. PICK k \in Bad : \A l \in Bad : k <= l
    <3> HIDE DEF Bad
    <3> QED BY <2>1, MinNat
  <2>3. CASE k = 0
    <3>1. [n \in 0 .. k |-> base] \in [0 .. k -> V] /\ Is([n \in 0 .. k |-> base], k)
      BY <2>3
    <3> QED BY <3>1
  <2>4. CASE k # 0
    <3>1. k \in Nat /\ k - 1 \in 0 .. m /\ ~(k <= k - 1)
      BY <2>2, <2>4
    <3>2. k - 1 \notin Bad
      <4> HIDE DEF Bad
      <4> QED BY <2>2, <3>1
    <3>3. PICK it \in [0 .. k - 1 -> V] : Is(it, k - 1)
      BY <3>1, <3>2
    <3> DEFINE more == [n \in 0 .. k |-> IF n = k THEN step[k][it[k - 1]] ELSE it[n]]
    <3>4. step[k][it[k - 1]] \in V
      BY <2>2, <2>4, <3>3
    <3>5. more \in [0 .. k -> V]
      BY <3>3, <3>4
    <3>6. Is(more, k)
      <4> SUFFICES ASSUME NEW n \in 0 .. k
                   PROVE  more[n] = IF n = 0 THEN base ELSE step[n][more[n - 1]]
        OBVIOUS
      <4>1. CASE n = k
        BY <2>2, <2>4, <4>1
      <4>2. CASE n # k
        <5>1. n \in 0 .. k - 1 /\ (n # 0 => n - 1 \in 0 .. k /\ n - 1 # k)
          BY <2>2, <4>2
        <5> QED BY <3>3, <5>1
      <4> QED BY <4>1, <4>2
    <3> QED BY <3>5, <3>6
  <2> QED BY <2>3, <2>4
<1>2. PICK it \in [0 .. m -> V] : Is(it, m)
  BY <1>1
<1> QED BY <1>2

-----------------------------------------------------------------------------
IsFold(it, D, base, step, c) ==
  \A s \in SUBSET D : it[s] = IF s = {} THEN base ELSE step[c[s]][it[s \ {c[s]}]]

IsChoice(c, D) == \A s \in SUBSET D : s # {} => c[s] \in s

FoldData(D, V, base, step, c) ==
  IsFiniteSet(D) /\ base \in V /\ step \in [D -> [V -> V]] /\ IsChoice(c, D)

Commutes(step, D, V) ==
  \A x, y \in D, v \in V : step[x][step[y][v]] = step[y][step[x][v]]

IsFoldInto(it, D, V, base, step, c) ==
  /\ it[{}] = base
  /\ \A s \in SUBSET D : s # {} /\ it[s \ {c[s]}] \in V => it[s] = step[c[s]][it[s \ {c[s]}]]

(* Two folds agree where both are defined.                                 *)
LEMMA FoldsAgree ==
  ASSUME NEW D, IsFiniteSet(D), NEW E \in SUBSET D, NEW base, NEW step, NEW c, IsChoice(c, D),
         NEW f, NEW g, IsFold(f, D, base, step, c), IsFold(g, E, base, step, c)
  PROVE  \A s \in SUBSET E : f[s] = g[s]
<1> DEFINE Bad == {s \in SUBSET E : f[s] # g[s]}
<1> SUFFICES ASSUME Bad # {} PROVE FALSE
  OBVIOUS
<1>1. Bad \in SUBSET SUBSET D
  OBVIOUS
<1>2. PICK s \in Bad : \A t \in Bad : t \subseteq s => t = s
  <2> HIDE DEF Bad
  <2> QED BY <1>1, MinSubset
<1>3. s # {}
  BY <1>2 DEF IsFold
<1>4. c[s] \in s
  BY <1>2, <1>3 DEF IsChoice
<1>5. s \ {c[s]} \in SUBSET E /\ s \ {c[s]} # s
  BY <1>2, <1>4
<1>6. f[s \ {c[s]}] = g[s \ {c[s]}]
  BY <1>2, <1>5
<1> QED BY <1>2, <1>3, <1>6 DEF IsFold

(* There is a fold.                                                        *)
LEMMA FoldExists ==
  ASSUME NEW D, NEW V, NEW base, NEW step, NEW c, FoldData(D, V, base, step, c)
  PROVE  \E it \in [SUBSET D -> V] : IsFold(it, D, base, step, c)
<1>0. IsFiniteSet(D) /\ base \in V /\ step \in [D -> [V -> V]] /\ IsChoice(c, D)
  BY DEF FoldData
<1> DEFINE Good(S, it) == it \in [SUBSET S -> V] /\ IsFold(it, S, base, step, c)
           Bad == {S \in SUBSET D : ~\E it : Good(S, it)}
<1> SUFFICES ASSUME Bad # {} PROVE FALSE
  BY DEF Bad
<1>1. PICK S \in Bad : \A T \in Bad : T \subseteq S => T = S
  <2>1. Bad \in SUBSET SUBSET D
    OBVIOUS
  <2> HIDE DEF Bad
  <2> QED BY <1>0, <2>1, MinSubset
<1> DEFINE fold(T) == CHOOSE it : Good(T, it)
           last == IF S = {} THEN base ELSE step[c[S]][fold(S \ {c[S]})[S \ {c[S]}]]
           all == [T \in SUBSET S |-> IF T = S THEN last ELSE fold(T)[T]]
<1>2. ASSUME NEW T \in SUBSET S, T # S PROVE Good(T, fold(T))
  BY <1>1, <1>2
<1>3. ASSUME NEW T \in SUBSET S, T # S PROVE fold(T)[T] \in V
  BY <1>2, <1>3
<1>4. S # {} => c[S] \in S /\ S \ {c[S]} \in SUBSET S /\ S \ {c[S]} # S
  BY <1>0, <1>1 DEF IsChoice
<1>5. last \in V
  <2>1. CASE S = {}
    BY <1>0, <2>1
  <2>2. CASE S # {}
    <3>1. fold(S \ {c[S]})[S \ {c[S]}] \in V /\ c[S] \in D
      BY <1>1, <1>3, <1>4, <2>2
    <3> HIDE DEF fold
    <3> QED BY <1>0, <2>2, <3>1
  <2> QED BY <2>1, <2>2
<1>6. all \in [SUBSET S -> V]
  BY <1>3, <1>5
<1>7. IsFold(all, S, base, step, c)
  <2> SUFFICES ASSUME NEW T \in SUBSET S
               PROVE  all[T] = IF T = {} THEN base ELSE step[c[T]][all[T \ {c[T]}]]
    BY DEF IsFold
  <2>1. CASE T = S
    <3> HIDE DEF fold
    <3> QED BY <1>4, <2>1
  <2>2. CASE T # S
    <3>1. all[T] = fold(T)[T] /\ Good(T, fold(T))
      BY <1>2, <2>2
    <3>2. CASE T = {}
      BY <3>1, <3>2 DEF IsFold
    <3>3. CASE T # {}
      <4> DEFINE U == T \ {c[T]}
      <4>1. c[T] \in T /\ U \in SUBSET T /\ U \in SUBSET S /\ U # S
        BY <1>0, <1>1, <2>2, <3>3 DEF IsChoice
      <4>2. Good(U, fold(U)) /\ all[U] = fold(U)[U]
        BY <1>2, <4>1
      <4>3. IsFiniteSet(T) /\ IsChoice(c, T)
        BY <1>0, <1>1, FS_Subset DEF IsChoice
      <4>4. fold(T)[U] = fold(U)[U]
        <5> HIDE DEF fold, U
        <5> QED BY <3>1, <4>1, <4>2, <4>3, FoldsAgree
      <4>5. fold(T)[T] = step[c[T]][fold(T)[U]]
        <5> HIDE DEF fold
        <5> QED BY <3>1, <3>3 DEF IsFold
      <4> HIDE DEF fold, all
      <4> QED BY <3>1, <3>3, <4>2, <4>4, <4>5
    <3> QED BY <3>2, <3>3
  <2> QED BY <2>1, <2>2
<1>8. Good(S, all)
  BY <1>6, <1>7
<1> HIDE DEF all
<1> QED BY <1>1, <1>8

(* What satisfies the equation of a fold, as far as its values are known   *)
(* to be of the right type, has that type, and is one.                     *)
LEMMA FoldHasType ==
  ASSUME NEW D, NEW V, NEW base, NEW step, NEW c, FoldData(D, V, base, step, c),
         NEW it, IsFoldInto(it, D, V, base, step, c)
  PROVE  IsFold(it, D, base, step, c) /\ \A s \in SUBSET D : it[s] \in V
<1>0. IsFiniteSet(D) /\ base \in V /\ step \in [D -> [V -> V]] /\ IsChoice(c, D)
  BY DEF FoldData
<1>1. \A s \in SUBSET D : it[s] \in V
  <2> DEFINE Bad == {s \in SUBSET D : it[s] \notin V}
  <2> SUFFICES ASSUME Bad # {} PROVE FALSE
    OBVIOUS
  <2>1. PICK s \in Bad : \A t \in Bad : t \subseteq s => t = s
    <3>1. Bad \in SUBSET SUBSET D
      OBVIOUS
    <3> HIDE DEF Bad
    <3> QED BY <1>0, <3>1, MinSubset
  <2>2. s # {} /\ c[s] \in s /\ c[s] \in D
    BY <1>0, <2>1 DEF IsChoice, IsFoldInto
  <2>3. s \ {c[s]} \in SUBSET D /\ s \ {c[s]} # s
    BY <2>1, <2>2
  <2>4. it[s \ {c[s]}] \in V
    BY <2>1, <2>3
  <2>5. it[s] = step[c[s]][it[s \ {c[s]}]]
    BY <2>1, <2>2, <2>4 DEF IsFoldInto
  <2>6. it[s] \in V
    <3> DEFINE v == it[s \ {c[s]}]
               h == step[c[s]]
    <3>1. v \in V /\ h \in [V -> V] /\ it[s] = h[v]
      BY <1>0, <2>2, <2>4, <2>5
    <3> HIDE DEF v, h
    <3> QED BY <3>1
  <2> QED BY <2>1, <2>6
<1>2. ASSUME NEW s \in SUBSET D, s # {} PROVE it[s] = step[c[s]][it[s \ {c[s]}]]
  BY <1>1, <1>2 DEF IsFoldInto
<1> QED BY <1>1, <1>2 DEF IsFold, IsFoldInto

(* Where the order of the steps does not matter any element may be the one *)
(* that is taken last.                                                     *)
TakesAny(it, D, step) == \A s \in SUBSET D : \A x \in s : it[s] = step[x][it[s \ {x}]]

LEMMA FoldTakesAny ==
  ASSUME NEW D, NEW V, NEW base, NEW step, NEW c, FoldData(D, V, base, step, c),
         NEW it, IsFold(it, D, base, step, c), Commutes(step, D, V)
  PROVE  TakesAny(it, D, step)
<1> SUFFICES \A s \in SUBSET D : \A x \in s : it[s] = step[x][it[s \ {x}]]
  BY DEF TakesAny
<1>0. IsFiniteSet(D) /\ base \in V /\ step \in [D -> [V -> V]] /\ IsChoice(c, D)
  BY DEF FoldData
<1>n. \A s \in SUBSET D : it[s] \in V
  <2>1. IsFoldInto(it, D, V, base, step, c)
    BY DEF IsFold, IsFoldInto
  <2> QED BY <2>1, FoldHasType
<1> DEFINE Bad == {s \in SUBSET D : \E x \in s : it[s] # step[x][it[s \ {x}]]}
<1> SUFFICES ASSUME Bad # {} PROVE FALSE
  OBVIOUS
<1>1. PICK s \in Bad : \A t \in Bad : t \subseteq s => t = s
  <2>1. Bad \in SUBSET SUBSET D
    OBVIOUS
  <2> HIDE DEF Bad
  <2> QED BY <1>0, <2>1, MinSubset
<1>2. PICK x \in s : it[s] # step[x][it[s \ {x}]]
  BY <1>1
<1> DEFINE y == c[s]
<1>3. y \in s /\ it[s] = step[y][it[s \ {y}]]
  BY <1>0, <1>1, <1>2 DEF IsChoice, IsFold
<1>4. x # y
  BY <1>2, <1>3
<1>5. s \ {x} \notin Bad /\ s \ {y} \notin Bad
  BY <1>1, <1>2, <1>3
<1>6. it[s \ {x}] = step[y][it[(s \ {x}) \ {y}]]
  BY <1>1, <1>3, <1>4, <1>5
<1>7. it[s \ {y}] = step[x][it[(s \ {y}) \ {x}]]
  BY <1>1, <1>2, <1>4, <1>5
<1>8. (s \ {x}) \ {y} = (s \ {y}) \ {x} /\ (s \ {x}) \ {y} \in SUBSET D
  BY <1>1
<1>9. it[(s \ {x}) \ {y}] \in V
  BY <1>n, <1>8
<1>10. x \in D /\ y \in D
  BY <1>1, <1>2, <1>3
<1> DEFINE r == it[(s \ {x}) \ {y}]
<1>11. step[x][step[y][r]] = step[y][step[x][r]]
  <2> HIDE DEF y, r
  <2> QED BY <1>9, <1>10 DEF r, Commutes
<1>12. it[s] = step[y][step[x][r]]
  <2> HIDE DEF y
  <2> QED BY <1>3, <1>7, <1>8
<1>13. step[x][it[s \ {x}]] = step[x][step[y][r]]
  <2> HIDE DEF y
  <2> QED BY <1>6
<1> QED BY <1>2, <1>11, <1>12, <1>13

-----------------------------------------------------------------------------
(* The folds over sets take the elements in some order, those over         *)
(* sequences from left to right take the largest index last.               *)
AnyOf(D) == [s \in SUBSET D |-> CHOOSE x \in s : TRUE]

LEMMA AnyIsChoice == \A D : IsChoice(AnyOf(D), D)
BY DEF IsChoice, AnyOf

-----------------------------------------------------------------------------
(* Sums of integers.                                                       *)
Adding(D, w) == [x \in D |-> [n \in Int |-> w[x] + n]]

SumOver(D, w) ==
  CHOOSE n : \E it \in [SUBSET D -> Int] : IsFold(it, D, 0, Adding(D, w), AnyOf(D)) /\ n = it[D]

IsSum(it, D, w) ==
  it = [s \in SUBSET D |-> IF s = {} THEN 0
                           ELSE w[CHOOSE x \in s : TRUE] + it[s \ {CHOOSE x \in s : TRUE}]]

LEMMA AddingType ==
  ASSUME NEW D, NEW w, \A x \in D : w[x] \in Int
  PROVE  /\ Adding(D, w) \in [D -> [Int -> Int]]
         /\ \A x \in D, n \in Int : Adding(D, w)[x][n] = w[x] + n
BY DEF Adding

LEMMA SumIs ==
  ASSUME NEW D, IsFiniteSet(D), NEW w, \A x \in D : w[x] \in Int,
         NEW it \in [SUBSET D -> Int], IsFold(it, D, 0, Adding(D, w), AnyOf(D))
  PROVE  SumOver(D, w) = it[D]
<1>1. SumOver(D, w) \in {n \in Int : \E f \in [SUBSET D -> Int] :
                           IsFold(f, D, 0, Adding(D, w), AnyOf(D)) /\ n = f[D]}
  BY DEF SumOver
<1>2. PICK f \in [SUBSET D -> Int] : IsFold(f, D, 0, Adding(D, w), AnyOf(D)) /\ SumOver(D, w) = f[D]
  BY <1>1
<1>3. \A s \in SUBSET D : it[s] = f[s]
  BY <1>2, AnyIsChoice, FoldsAgree
<1> QED BY <1>2, <1>3

(* There is a sum ...                                                      *)
LEMMA SumExists ==
  ASSUME NEW D, IsFiniteSet(D), NEW w, \A x \in D : w[x] \in Int
  PROVE  \E it : IsSum(it, D, w)
<1>1. PICK it \in [SUBSET D -> Int] : IsFold(it, D, 0, Adding(D, w), AnyOf(D))
  <2> DEFINE z == 0
             V == Int
  <2>1. FoldData(D, V, z, Adding(D, w), AnyOf(D))
    BY AddingType, AnyIsChoice DEF FoldData
  <2>2. \E f \in [SUBSET D -> V] : IsFold(f, D, z, Adding(D, w), AnyOf(D))
    <3> HIDE DEF z, V
    <3> QED BY <2>1, FoldExists
  <2> QED BY <2>2
<1>2. ASSUME NEW s \in SUBSET D, s # {}
      PROVE  it[s] = w[CHOOSE x \in s : TRUE] + it[s \ {CHOOSE x \in s : TRUE}]
  <2>1. AnyOf(D)[s] = (CHOOSE x \in s : TRUE) /\ AnyOf(D)[s] \in D
    BY <1>2 DEF AnyOf
  <2>2. it[s] = Adding(D, w)[AnyOf(D)[s]][it[s \ {AnyOf(D)[s]}]]
    BY <1>1, <1>2 DEF IsFold
  <2>3. it[s \ {AnyOf(D)[s]}] \in Int
    OBVIOUS
  <2> QED BY <2>1, <2>2, <2>3, AddingType
<1>3. it[{}] = 0
  BY <1>1 DEF IsFold
<1>4. IsSum(it, D, w)
  BY <1>2, <1>3 DEF IsSum
<1> QED BY <1>4

(* ... and it is the only one.                                             *)
LEMMA SumIsUnique ==
  ASSUME NEW D, IsFiniteSet(D), NEW w, \A x \in D : w[x] \in Int, NEW it, IsSum(it, D, w)
  PROVE  it[D] = SumOver(D, w) /\ SumOver(D, w) \in Int
<1> DEFINE c == AnyOf(D)
<1>1. it[{}] = 0
  BY DEF IsSum
<1>2. ASSUME NEW s \in SUBSET D, s # {}, it[s \ {c[s]}] \in Int
      PROVE  it[s] = Adding(D, w)[c[s]][it[s \ {c[s]}]]
  <2>1. c[s] = (CHOOSE x \in s : TRUE) /\ c[s] \in D
    BY <1>2 DEF AnyOf
  <2>2. it[s] = w[c[s]] + it[s \ {c[s]}]
    BY <1>2, <2>1 DEF IsSum
  <2> HIDE DEF c
  <2> QED BY <1>2, <2>1, <2>2, AddingType
<1>3. IsFold(it, D, 0, Adding(D, w), c) /\ \A s \in SUBSET D : it[s] \in Int
  <2> DEFINE z == 0
             V == Int
             a == Adding(D, w)
  <2>1. FoldData(D, V, z, a, c)
    BY AddingType, AnyIsChoice DEF FoldData
  <2>2. IsFoldInto(it, D, V, z, a, c)
    BY <1>1, <1>2 DEF IsFoldInto
  <2> HIDE DEF c, z, V, a
  <2>3. IsFold(it, D, z, a, c) /\ \A s \in SUBSET D : it[s] \in V
    BY <2>1, <2>2, FoldHasType
  <2> QED BY <2>3 DEF z, V, a
<1>4. it \in [SUBSET D -> Int]
  BY <1>3 DEF IsSum
<1> QED BY <1>3, <1>4, SumIs

LEMMA SumType ==
  ASSUME NEW D, IsFiniteSet(D), NEW w, \A x \in D : w[x] \in Int
  PROVE  SumOver(D, w) \in Int
BY SumExists, SumIsUnique

LEMMA SumEmpty == \A w : SumOver({}, w) = 0
<1> TAKE w
<1>1. IsFiniteSet({}) /\ \A x \in {} : w[x] \in Int
  BY FS_EmptySet
<1>2. PICK it : IsSum(it, {}, w)
  BY <1>1, SumExists
<1>3. it[{}] = 0
  BY <1>2 DEF IsSum
<1> QED BY <1>1, <1>2, <1>3, SumIsUnique

(* Sums of equal numbers are equal.                                        *)
LEMMA SumSame ==
  ASSUME NEW D, IsFiniteSet(D), NEW w, NEW u, \A x \in D : w[x] \in Int /\ w[x] = u[x]
  PROVE  SumOver(D, w) = SumOver(D, u)
<1>1. PICK it : IsSum(it, D, w)
  BY SumExists
<1>2. \A s \in SUBSET D : s # {} => w[CHOOSE x \in s : TRUE] = u[CHOOSE x \in s : TRUE]
  OBVIOUS
<1>3. IsSum(it, D, u)
  BY <1>1, <1>2 DEF IsSum
<1> QED BY <1>1, <1>3, SumIsUnique

(* One of the numbers may be added last.                                   *)
LEMMA SumWithout ==
  ASSUME NEW D, IsFiniteSet(D), NEW w, \A x \in D : w[x] \in Int, NEW y \in D
  PROVE  SumOver(D, w) = w[y] + SumOver(D \ {y}, w)
<1> DEFINE a == Adding(D, w)
           c == AnyOf(D)
           E == D \ {y}
<1>1. a \in [D -> [Int -> Int]] /\ IsChoice(c, D) /\ \A x \in D, n \in Int : a[x][n] = w[x] + n
  BY AddingType, AnyIsChoice
<1>2. PICK it \in [SUBSET D -> Int] : IsFold(it, D, 0, a, c)
  <2> DEFINE z == 0
             V == Int
  <2>1. FoldData(D, V, z, Adding(D, w), AnyOf(D))
    BY AddingType, AnyIsChoice DEF FoldData
  <2>2. \E f \in [SUBSET D -> V] : IsFold(f, D, z, Adding(D, w), AnyOf(D))
    <3> HIDE DEF z, V
    <3> QED BY <2>1, FoldExists
  <2> QED BY <2>2
<1>3. \A x, z \in D, n \in Int : a[x][a[z][n]] = a[z][a[x][n]]
  <2> SUFFICES ASSUME NEW x \in D, NEW z \in D, NEW n \in Int PROVE a[x][a[z][n]] = a[z][a[x][n]]
    OBVIOUS
  <2>1. w[x] \in Int /\ w[z] \in Int /\ w[x] + n \in Int /\ w[z] + n \in Int
    OBVIOUS
  <2>2. a[x][w[z] + n] = w[x] + (w[z] + n) /\ a[z][w[x] + n] = w[z] + (w[x] + n)
    <3> HIDE DEF a
    <3> QED BY <1>1, <2>1
  <2>3. a[x][n] = w[x] + n /\ a[z][n] = w[z] + n
    <3> HIDE DEF a
    <3> QED BY <1>1
  <2> HIDE DEF a
  <2> QED BY <2>1, <2>2, <2>3
<1>4. it[D] = a[y][it[E]]
  <2> DEFINE z == 0
             V == Int
  <2>1. IsFold(it, D, z, a, c)
    BY <1>2
  <2> HIDE DEF a, c
  <2>2. FoldData(D, V, z, a, c) /\ Commutes(a, D, V)
    BY <1>1, <1>3 DEF Commutes, FoldData
  <2> HIDE DEF z, V
  <2>3. TakesAny(it, D, a)
    BY <2>1, <2>2, FoldTakesAny
  <2> QED BY <2>3 DEF TakesAny
<1>5. it[D] = SumOver(D, w)
  BY <1>2, SumIs
<1>6. PICK f : IsSum(f, E, w)
  <2>1. IsFiniteSet(E)
    BY FS_Subset
  <2> QED BY <2>1, SumExists
<1>7. \A s \in SUBSET E : it[s] = f[s]
  <2> DEFINE T == {s \in SUBSET E : it[s] = f[s]}
  <2>1. f[E] = SumOver(E, w) /\ \A s \in SUBSET E : TRUE
    BY <1>6, FS_Subset, SumIsUnique
  <2>2. \A s \in SUBSET E : s # {} => c[s] = (CHOOSE x \in s : TRUE) /\ c[s] \in s /\ c[s] \in D
    BY DEF AnyOf
  <2>3. ASSUME NEW s \in SUBSET E, s # {}, it[s \ {c[s]}] = f[s \ {c[s]}] PROVE it[s] = f[s]
    <3>1. it[s] = a[c[s]][it[s \ {c[s]}]]
      <4> HIDE DEF a, c
      <4> QED BY <1>2, <2>3 DEF IsFold
    <3>2. it[s \ {c[s]}] \in Int
      OBVIOUS
    <3>3. it[s] = w[c[s]] + it[s \ {c[s]}]
      <4> HIDE DEF a, c
      <4> QED BY <1>1, <2>2, <2>3, <3>1, <3>2
    <3>4. f[s] = w[c[s]] + f[s \ {c[s]}]
      <4> HIDE DEF c
      <4> QED BY <1>6, <2>2, <2>3 DEF IsSum
    <3> QED BY <2>3, <3>3, <3>4
  <2>4. it[{}] = f[{}]
    BY <1>2, <1>6 DEF IsFold, IsSum
  <2>5. SUBSET E \subseteq T
    <3> DEFINE Bad == (SUBSET E) \ T
    <3> SUFFICES ASSUME Bad # {} PROVE FALSE
      OBVIOUS
    <3>1. PICK s \in Bad : \A t \in Bad : t \subseteq s => t = s
      <4>1. Bad \in SUBSET SUBSET D
        OBVIOUS
      <4> HIDE DEF Bad
      <4> QED BY <4>1, MinSubset
    <3>2. s # {} /\ c[s] \in s /\ s \ {c[s]} \in SUBSET E /\ s \ {c[s]} # s
      <4> HIDE DEF c
      <4> QED BY <2>2, <2>4, <3>1
    <3> HIDE DEF c
    <3> QED BY <2>3, <3>1, <3>2
  <2> QED BY <2>5
<1>8. f[E] = SumOver(E, w) /\ SumOver(E, w) \in Int
  BY <1>6, FS_Subset, SumIsUnique
<1> HIDE DEF a, E
<1>9. it[E] = f[E]
  BY <1>7
<1> QED BY <1>1, <1>4, <1>5, <1>8, <1>9 DEF E

(* If one of the numbers is larger by d, so is the sum.                    *)
RaisedAt(u, w, D, y, d) ==
  /\ y \in D /\ d \in Int /\ \A x \in D : w[x] \in Int
  /\ u[y] = w[y] + d /\ \A x \in D \ {y} : u[x] = w[x]

LEMMA SumRaised ==
  ASSUME NEW D, IsFiniteSet(D), NEW w, NEW u, NEW y, NEW d, RaisedAt(u, w, D, y, d)
  PROVE  SumOver(D, u) = SumOver(D, w) + d
<1> USE DEF RaisedAt
<1>1. \A x \in D : u[x] \in Int
  <2> SUFFICES ASSUME NEW x \in D PROVE u[x] \in Int
    OBVIOUS
  <2>1. CASE x = y
    BY <2>1
  <2>2. CASE x # y
    BY <2>2
  <2> QED BY <2>1, <2>2
<1>2. SumOver(D, w) = w[y] + SumOver(D \ {y}, w)
  BY SumWithout
<1>3. SumOver(D, u) = u[y] + SumOver(D \ {y}, u)
  BY <1>1, SumWithout
<1> DEFINE E == D \ {y}
<1>4. IsFiniteSet(E)
  BY FS_Subset
<1>5. SumOver(E, w) = SumOver(E, u) /\ SumOver(E, w) \in Int
  <2>1. \A x \in E : w[x] \in Int /\ w[x] = u[x]
    OBVIOUS
  <2> HIDE DEF E
  <2> QED BY <1>4, <2>1, SumSame, SumType
<1> HIDE DEF E
<1>6. w[y] \in Int /\ u[y] = w[y] + d
  OBVIOUS
<1>7. SumOver(D, w) = w[y] + SumOver(E, w) /\ SumOver(D, u) = u[y] + SumOver(E, u)
  BY <1>2, <1>3 DEF E
<1> QED BY <1>5, <1>6, <1>7

(* Sums whose steps add the number to what was summed up.                  *)
IsSumR(it, D, w) ==
  it = [s \in SUBSET D |-> IF s = {} THEN 0
                           ELSE it[s \ {CHOOSE x \in s : TRUE}] + w[CHOOSE x \in s : TRUE]]

LEMMA SumFromRight ==
  ASSUME NEW D, IsFiniteSet(D), NEW w, \A x \in D : w[x] \in Int
  PROVE  /\ \E it : IsSumR(it, D, w)
         /\ \A it : IsSumR(it, D, w) => it[D] = SumOver(D, w)
<1> DEFINE c == AnyOf(D)
           z == 0
           V == Int
           a == Adding(D, w)
<1>0. FoldData(D, V, z, a, c)
  BY AddingType, AnyIsChoice DEF FoldData
<1>1. \A s \in SUBSET D : s # {} => c[s] = (CHOOSE x \in s : TRUE) /\ c[s] \in s /\ c[s] \in D
  BY DEF AnyOf
<1>2. \A x \in D, n \in Int : a[x][n] = w[x] + n /\ w[x] + n = n + w[x]
  <2>1. \A x \in D, n \in Int : a[x][n] = w[x] + n
    BY AddingType
  <2> HIDE DEF a
  <2> QED BY <2>1
<1>3. \E it : IsSumR(it, D, w)
  <2>1. PICK it \in [SUBSET D -> V] : IsFold(it, D, z, a, c)
    <3> HIDE DEF V, z, a, c
    <3> QED BY <1>0, FoldExists
  <2>2. ASSUME NEW s \in SUBSET D, s # {}
        PROVE  it[s] = it[s \ {CHOOSE x \in s : TRUE}] + w[CHOOSE x \in s : TRUE]
    <3>1. it[s] = a[c[s]][it[s \ {c[s]}]] /\ c[s] \in D /\ it[s \ {c[s]}] \in Int
      <4> HIDE DEF a, c
      <4> QED BY <1>1, <2>1, <2>2 DEF IsFold
    <3>2. it[s] = it[s \ {c[s]}] + w[c[s]]
      <4> HIDE DEF a, c
      <4> QED BY <1>2, <3>1
    <3> QED BY <1>1, <2>2, <3>2
  <2>3. it[{}] = 0
    BY <2>1 DEF IsFold
  <2>4. IsSumR(it, D, w)
    BY <2>2, <2>3 DEF IsSumR
  <2> QED BY <2>4
<1>4. ASSUME NEW it, IsSumR(it, D, w) PROVE it[D] = SumOver(D, w)
  <2>1. it[{}] = 0
    BY <1>4 DEF IsSumR
  <2>2. ASSUME NEW s \in SUBSET D, s # {}, it[s \ {c[s]}] \in Int PROVE it[s] = a[c[s]][it[s \ {c[s]}]]
    <3>1. it[s] = it[s \ {c[s]}] + w[c[s]] /\ c[s] \in D
      BY <1>1, <1>4, <2>2 DEF IsSumR
    <3> HIDE DEF a, c
    <3> QED BY <1>2, <2>2, <3>1
  <2>3. IsFoldInto(it, D, V, z, a, c)
    <3> HIDE DEF a, c
    <3> QED BY <2>1, <2>2 DEF IsFoldInto
  <2>4. IsFold(it, D, z, a, c) /\ \A s \in SUBSET D : it[s] \in V
    <3> HIDE DEF a, c, z, V
    <3> QED BY <1>0, <2>3, FoldHasType
  <2>5. it \in [SUBSET D -> Int]
    BY <1>4, <2>4 DEF IsSumR
  <2> QED BY <2>4, <2>5, SumIs
<1> QED BY <1>3, <1>4

LEMMA SumOfZeros ==
  ASSUME NEW D, IsFiniteSet(D), NEW w, \A x \in D : w[x] = 0
  PROVE  SumOver(D, w) = 0
<1> DEFINE T == {s \in SUBSET D : SumOver(s, w) = 0}
<1>1. {} \in T
  BY SumEmpty
<1>2. ASSUME NEW s \in SUBSET D, NEW x \in s, s \ {x} \in T PROVE s \in T
  <2>1. IsFiniteSet(s) /\ \A y \in s : w[y] \in Int
    BY FS_Subset
  <2>2. SumOver(s, w) = w[x] + SumOver(s \ {x}, w)
    BY <2>1, SumWithout
  <2>3. w[x] = 0 /\ SumOver(s \ {x}, w) = 0
    BY <1>2
  <2> QED BY <2>2, <2>3
<1>3. SUBSET D \subseteq T
  <2> HIDE DEF T
  <2> QED BY <1>1, <1>2, SubsetInduction
<1> QED BY <1>3

-----------------------------------------------------------------------------
(* Some numbers up to m have a last one.                                   *)
LEMMA LastOfNumbers ==
  ASSUME NEW m \in Nat, NEW T \in SUBSET (1 .. m), T # {}
  PROVE  \E x \in T : \A y \in T : y <= x
<1> DEFINE D == {m - x : x \in T}
<1>1. D \in SUBSET Nat /\ D # {}
  <2>1. \A x \in T : m - x \in Nat
    OBVIOUS
  <2> QED BY <2>1
<1>2. PICK d \in D : \A e \in D : d <= e
  <2> HIDE DEF D
  <2> QED BY <1>1, MinNat
<1>3. PICK x \in T : d = m - x
  BY <1>2
<1>4. ASSUME NEW y \in T PROVE y <= x
  <2>1. m - y \in D
    OBVIOUS
  <2>2. m - x <= m - y
    BY <1>2, <1>3, <2>1
  <2> QED BY <2>2
<1> QED BY <1>4

(* Folds from left to right: of the places up to l the last one is taken   *)
(* last.                                                                   *)
LastOf(l) == [s \in SUBSET (1 .. l) |-> CHOOSE x \in s : \A y \in s : x >= y]

LEMMA LastIsChoice ==
  ASSUME NEW l \in Nat
  PROVE  IsChoice(LastOf(l), 1 .. l) /\ \A n \in 1 .. l : LastOf(l)[1 .. n] = n
<1>1. ASSUME NEW s \in SUBSET (1 .. l), s # {}
      PROVE  LastOf(l)[s] \in s /\ \A y \in s : LastOf(l)[s] >= y
  <2>1. \E x \in s : \A y \in s : x >= y
    <3>1. PICK x \in s : \A y \in s : y <= x
      BY <1>1, LastOfNumbers
    <3>2. \A y \in s : x >= y
      BY <3>1
    <3> QED BY <3>2
  <2> QED BY <2>1 DEF LastOf
<1>2. ASSUME NEW n \in 1 .. l PROVE LastOf(l)[1 .. n] = n
  <2>1. (1 .. n) \in SUBSET (1 .. l) /\ n \in 1 .. n
    OBVIOUS
  <2>2. LastOf(l)[1 .. n] \in 1 .. n /\ LastOf(l)[1 .. n] >= n
    BY <1>1, <2>1
  <2> QED BY <2>2
<1> QED BY <1>1, <1>2 DEF IsChoice

(* Such a fold goes from one place to the next.                            *)
FromLeft(it, l, V, base, step) ==
  /\ it[{}] = base /\ \A n \in 0 .. l : it[1 .. n] \in V
  /\ \A n \in 1 .. l : it[1 .. n] = step[n][it[1 .. n - 1]]

FoldsFromLeft(l, V, base, step) ==
  /\ \E it \in [SUBSET (1 .. l) -> V] : IsFold(it, 1 .. l, base, step, LastOf(l))
  /\ \A it : IsFold(it, 1 .. l, base, step, LastOf(l)) => FromLeft(it, l, V, base, step)

LEMMA FoldFromLeft ==
  ASSUME NEW l \in Nat, NEW V, NEW base \in V, NEW step \in [1 .. l -> [V -> V]]
  PROVE  FoldsFromLeft(l, V, base, step)
<1> DEFINE D == 1 .. l
           c == LastOf(l)
<1>1. FoldData(D, V, base, step, c)
  BY FS_Interval, LastIsChoice DEF FoldData
<1>2. \E it \in [SUBSET D -> V] : IsFold(it, D, base, step, c)
  <2> HIDE DEF D, c
  <2> QED BY <1>1, FoldExists
<1>3. ASSUME NEW it, IsFold(it, D, base, step, c)
      PROVE  /\ it[{}] = base /\ \A n \in 0 .. l : it[1 .. n] \in V
             /\ \A n \in 1 .. l : it[1 .. n] = step[n][it[1 .. n - 1]]
  <2>1. it[{}] = base /\ \A s \in SUBSET D : s # {} => it[s] = step[c[s]][it[s \ {c[s]}]]
    BY <1>3 DEF IsFold
  <2>2. IsFoldInto(it, D, V, base, step, c)
    BY <2>1 DEF IsFoldInto
  <2>3. \A s \in SUBSET D : it[s] \in V
    <3> HIDE DEF D, c
    <3> QED BY <1>1, <2>2, FoldHasType
  <2>4. \A n \in 0 .. l : (1 .. n) \in SUBSET D
    OBVIOUS
  <2>5. ASSUME NEW n \in 1 .. l PROVE it[1 .. n] = step[n][it[1 .. n - 1]]
    <3>1. (1 .. n) \in SUBSET D /\ n \in 1 .. n /\ c[1 .. n] = n
      BY LastIsChoice
    <3>2. (1 .. n) \ {n} = 1 .. n - 1
      OBVIOUS
    <3>3. it[1 .. n] = step[n][it[(1 .. n) \ {n}]]
      <4> HIDE DEF D, c
      <4> QED BY <2>1, <3>1
    <3> QED BY <3>2, <3>3
  <2> QED BY <2>1, <2>3, <2>4, <2>5
<1> QED BY <1>2, <1>3 DEF FoldsFromLeft, FromLeft

-----------------------------------------------------------------------------
(* The elements of a finite set by their ranks in a strict order R.        *)
Below(R, S, x) == {y \in S : <<y, x>> \in R}

Orders(R, S) ==
  /\ \A x \in S : <<x, x>> \notin R
  /\ \A x, y, z \in S : <<x, y>> \in R /\ <<y, z>> \in R => <<x, z>> \in R
  /\ \A x, y \in S : x = y \/ <<x, y>> \in R \/ <<y, x>> \in R

(* What comes earlier has fewer elements before it.                        *)
LEMMA RanksRise ==
  ASSUME NEW S, IsFiniteSet(S), NEW R, Orders(R, S), NEW x \in S, NEW y \in S
  PROVE  /\ Cardinality(Below(R, S, x)) \in 0 .. Cardinality(S) - 1
         /\ <<x, y>> \in R <=> Cardinality(Below(R, S, x)) < Cardinality(Below(R, S, y))
<1>1. \A z \in S : /\ IsFiniteSet(Below(R, S, z)) /\ Cardinality(Below(R, S, z)) \in Nat
                   /\ Cardinality(S) \in Nat /\ Cardinality(Below(R, S, z)) < Cardinality(S)
  <2> SUFFICES ASSUME NEW z \in S
               PROVE  /\ IsFiniteSet(Below(R, S, z)) /\ Cardinality(Below(R, S, z)) \in Nat
                      /\ Cardinality(S) \in Nat /\ Cardinality(Below(R, S, z)) < Cardinality(S)
    OBVIOUS
  <2>1. Below(R, S, z) \in SUBSET S /\ Below(R, S, z) # S
    BY DEF Below, Orders
  <2>2. IsFiniteSet(Below(R, S, z)) /\ Cardinality(Below(R, S, z)) <= Cardinality(S)
        /\ Cardinality(Below(R, S, z)) # Cardinality(S)
    BY <2>1, FS_Subset
  <2> QED BY <2>2, FS_CardinalityType
<1>2. ASSUME NEW a \in S, NEW b \in S, <<a, b>> \in R
      PROVE  Cardinality(Below(R, S, a)) < Cardinality(Below(R, S, b))
  <2>1. Below(R, S, a) \in SUBSET Below(R, S, b) /\ a \in Below(R, S, b) /\ a \notin Below(R, S, a)
    BY <1>2 DEF Below, Orders
  <2>2. /\ Cardinality(Below(R, S, a)) <= Cardinality(Below(R, S, b))
        /\ Cardinality(Below(R, S, a)) # Cardinality(Below(R, S, b))
    <3>1. Below(R, S, a) # Below(R, S, b)
      BY <2>1
    <3> QED BY <1>1, <2>1, <3>1, FS_Subset
  <2> QED BY <1>1, <2>2
<1>3. ASSUME Cardinality(Below(R, S, x)) < Cardinality(Below(R, S, y)) PROVE <<x, y>> \in R
  <2>1. x # y
    BY <1>1, <1>3
  <2>2. <<y, x>> \notin R
    BY <1>1, <1>2, <1>3
  <2> QED BY <2>1, <2>2 DEF Orders
<1> QED BY <1>1, <1>2, <1>3

(* Each rank is that of one element.                                       *)
Ranked(r, R, S) ==
  /\ r \in [1 .. Cardinality(S) -> S]
  /\ \A x \in S : \E n \in 1 .. Cardinality(S) : r[n] = x
  /\ \A m, n \in 1 .. Cardinality(S) : m < n <=> <<r[m], r[n]>> \in R

(* The n-th element is the one that n - 1 come before, so all are there    *)
(* once, in order.                                                         *)
LEMMA RanksOrder ==
  ASSUME NEW S, IsFiniteSet(S), NEW R, Orders(R, S), NEW r,
         r = [n \in 1 .. Cardinality(S) |-> CHOOSE x \in S : Cardinality(Below(R, S, x)) = n - 1]
  PROVE  Ranked(r, R, S)
<1> DEFINE c == Cardinality(S)
           I == 0 .. c - 1
           g == [x \in S |-> Cardinality(Below(R, S, x))]
<1>1. c \in Nat /\ IsFiniteSet(I) /\ Cardinality(I) = c
  <2>1. c \in Nat
    BY FS_CardinalityType
  <2>2. 0 \in Int /\ c - 1 \in Int
    BY <2>1
  <2>3. IsFiniteSet(I) /\ Cardinality(I) = IF 0 > c - 1 THEN 0 ELSE c - 1 - 0 + 1
    <3> HIDE DEF c
    <3> QED BY <2>2, FS_Interval
  <2> HIDE DEF c
  <2> QED BY <2>1, <2>3
<1>2. g \in [S -> I] /\ \A x, y \in S : g[x] = g[y] => x = y
  <2>1. \A x \in S : Cardinality(Below(R, S, x)) \in I
    BY RanksRise
  <2>2. \A x, y \in S : <<x, y>> \in R <=> Cardinality(Below(R, S, x)) < Cardinality(Below(R, S, y))
    BY RanksRise
  <2>3. ASSUME NEW x \in S, NEW y \in S, Cardinality(Below(R, S, x)) = Cardinality(Below(R, S, y)) PROVE x = y
    <3>1. Cardinality(Below(R, S, x)) \in I /\ Cardinality(Below(R, S, y)) \in I
      BY <2>1
    <3>2. <<x, y>> \notin R /\ <<y, x>> \notin R
      <4> HIDE DEF I
      <4>1. ~(Cardinality(Below(R, S, x)) < Cardinality(Below(R, S, y)))
        BY <1>1, <2>3, <3>1 DEF I
      <4>2. ~(Cardinality(Below(R, S, y)) < Cardinality(Below(R, S, x)))
        BY <1>1, <2>3, <3>1 DEF I
      <4> QED BY <2>2, <4>1, <4>2
    <3> QED BY <3>2 DEF Orders
  <2> QED BY <2>1, <2>3
<1>3. g \in Injection(S, I)
  <2> HIDE DEF g, I
  <2> QED BY <1>2 DEF Injection, IsInjective
<1>4. g \in Surjection(S, I)
  <2> HIDE DEF g, I
  <2> QED BY <1>1, <1>3, FS_Injection DEF c
<1>5. ASSUME NEW n \in 1 .. c
      PROVE  r[n] \in S /\ Cardinality(Below(R, S, r[n])) = n - 1
  <2>1. n - 1 \in I
    BY <1>1
  <2>2. \E x \in S : g[x] = n - 1
    <3> HIDE DEF g, I
    <3> QED BY <1>4, <2>1 DEF Surjection
  <2>3. \E x \in S : Cardinality(Below(R, S, x)) = n - 1
    BY <2>2
  <2>4. r[n] = CHOOSE x \in S : Cardinality(Below(R, S, x)) = n - 1
    OBVIOUS
  <2> QED BY <2>3, <2>4
<1>6. \A x \in S : \E n \in 1 .. c : r[n] = x
  <2> SUFFICES ASSUME NEW x \in S PROVE \E n \in 1 .. c : r[n] = x
    OBVIOUS
  <2>1. g[x] \in I
    BY <1>2
  <2>2. PICK n \in 1 .. c : n - 1 = g[x]
    <3> DEFINE j == g[x] + 1
    <3>1. j \in 1 .. c /\ j - 1 = g[x]
      <4> HIDE DEF g
      <4> QED BY <1>1, <2>1
    <3> HIDE DEF g, j, c
    <3> QED BY <3>1
  <2>3. r[n] \in S /\ Cardinality(Below(R, S, r[n])) = n - 1
    BY <1>5
  <2>4. g[r[n]] = g[x]
    BY <2>2, <2>3
  <2>5. r[n] = x
    <3> HIDE DEF g
    <3> QED BY <1>2, <2>3, <2>4
  <2> QED BY <2>5
<1>7. \A m, n \in 1 .. c : m < n <=> <<r[m], r[n]>> \in R
  <2> SUFFICES ASSUME NEW m \in 1 .. c, NEW n \in 1 .. c PROVE m < n <=> <<r[m], r[n]>> \in R
    OBVIOUS
  <2>1. r[m] \in S /\ r[n] \in S /\ Cardinality(Below(R, S, r[m])) = m - 1 /\ Cardinality(Below(R, S, r[n])) = n - 1
    BY <1>5
  <2>2. <<r[m], r[n]>> \in R <=> m - 1 < n - 1
    BY <2>1, RanksRise
  <2> QED BY <1>1, <2>2
<1>8. r \in [1 .. c -> S]
  BY <1>5
<1> QED BY <1>6, <1>7, <1>8 DEF Ranked
=============================================================================
