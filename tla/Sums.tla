-------------------------------- MODULE Sums --------------------------------
(***************************************************************************)
(* Facts about SumFunction, the sum of the values of a function over a     *)
(* finite set, in which the modules state that the parts of a total add up *)
(* to it.  The sum is a fold of the community modules, by a recursive      *)
(* function over the subsets of the set.  What is claimed of it for every  *)
(* set is proved by a smallest counterexample: the strict subsets of a     *)
(* finite set are well founded, so a set of subsets for which a claim      *)
(* fails, unless empty, has one all of whose strict subsets are outside    *)
(* it.                                                                     *)
(***************************************************************************)
EXTENDS Integers, FiniteSets, Functions, FiniteSetTheorems, TLAPS

\* A set of subsets of a finite set has a minimal one.
LEMMA SmallestSubset ==
  ASSUME NEW S, IsFiniteSet(S), NEW Bad \in SUBSET (SUBSET S), Bad # {}
  PROVE  \E T \in Bad : \A U \in SUBSET T : U # T => U \notin Bad
<1>1. IsWellFoundedOn(StrictSubsetOrdering(S), SUBSET S)
  BY FS_StrictSubsetOrderingWellFounded, FS_FiniteSubsetsOfFinite
<1>2. PICK T \in Bad : \A U \in Bad : ~ (<<U, T>> \in StrictSubsetOrdering(S))
  BY <1>1, WFMin
<1>3. ASSUME NEW U \in SUBSET T, U # T, U \in Bad PROVE FALSE
  <2>1. <<U, T>> \in (SUBSET S) \X (SUBSET S)
    OBVIOUS
  <2> QED BY <1>2, <1>3, <2>1 DEF StrictSubsetOrdering
<1> QED BY <1>2, <1>3

-----------------------------------------------------------------------------
(* The recursive function of the fold.                                     *)

Picked(T) == CHOOSE x \in T : TRUE
IsFold(g, f, S) ==
  g = [T \in SUBSET S |-> IF T = {} THEN 0 ELSE f[Picked(T)] + g[T \ {Picked(T)}]]

LEMMA PickedIsIn == ASSUME NEW T, T # {} PROVE Picked(T) \in T
BY DEF Picked

LEMMA SumIsFold ==
  ASSUME NEW f, NEW S
  PROVE  SumFunctionOnSet(f, S) = (CHOOSE g : IsFold(g, f, S))[S]
BY DEF SumFunctionOnSet, FoldFunctionOnSet, MapThenFoldSet, IsFold, Picked

\* What the equation says at a subset.
LEMMA FoldAt ==
  ASSUME NEW S, NEW f, NEW g, IsFold(g, f, S)
  PROVE  /\ g = [T \in SUBSET S |-> g[T]]
         /\ g[{}] = 0
         /\ \A T \in SUBSET S : T # {} => g[T] = f[Picked(T)] + g[T \ {Picked(T)}]
BY DEF IsFold

LEMMA FoldIsUnique ==
  ASSUME NEW S, IsFiniteSet(S), NEW f, NEW g, NEW h,
         IsFold(g, f, S), IsFold(h, f, S)
  PROVE  g = h
<1> DEFINE Bad == {T \in SUBSET S : g[T] # h[T]}
<1>a. /\ g = [T \in SUBSET S |-> g[T]] /\ g[{}] = 0
      /\ \A T \in SUBSET S : T # {} => g[T] = f[Picked(T)] + g[T \ {Picked(T)}]
  BY DEF IsFold
<1>b. /\ h = [T \in SUBSET S |-> h[T]] /\ h[{}] = 0
      /\ \A T \in SUBSET S : T # {} => h[T] = f[Picked(T)] + h[T \ {Picked(T)}]
  BY DEF IsFold
<1>1. Bad = {}
  <2> SUFFICES ASSUME Bad # {} PROVE FALSE
    OBVIOUS
  <2>0. Bad \in SUBSET (SUBSET S)
    OBVIOUS
  <2>1. PICK T \in Bad : \A U \in SUBSET T : U # T => U \notin Bad
    <3> HIDE DEF Bad
    <3> QED  BY <2>0, SmallestSubset
  <2>2. T # {}
    BY <1>a, <1>b
  <2>3. Picked(T) \in T
    BY <2>2, PickedIsIn
  <2>4. g[T \ {Picked(T)}] = h[T \ {Picked(T)}]
    BY <2>1, <2>3
  <2> QED  BY <1>a, <1>b, <2>1, <2>2, <2>4
<1>2. \A T \in SUBSET S : g[T] = h[T]
  BY <1>1
<1>3. [T \in SUBSET S |-> g[T]] = [T \in SUBSET S |-> h[T]]
  BY <1>2
<1> QED  BY <1>3, <1>a, <1>b, Zenon

LEMMA FoldOfPart ==
  ASSUME NEW S, NEW f, NEW g, IsFold(g, f, S), NEW U \in SUBSET S
  PROVE  IsFold([T \in SUBSET U |-> g[T]], f, U)
<1>1. ASSUME NEW T \in SUBSET U, T # {} 
      PROVE  T \ {Picked(T)} \in SUBSET U
  OBVIOUS
<1> QED  BY <1>1, FoldAt DEF IsFold

\* The equation has a solution, so that the sum is what it says.
LEMMA FoldExists ==
  ASSUME NEW S, IsFiniteSet(S), NEW f
  PROVE  \E g : IsFold(g, f, S)
<1> DEFINE Bad == {T \in SUBSET S : ~ \E g : IsFold(g, f, T)}
<1> SUFFICES ASSUME Bad # {} PROVE FALSE
  OBVIOUS
<1>0. Bad \in SUBSET (SUBSET S)
  OBVIOUS
<1>1. PICK T \in Bad : \A U \in SUBSET T : U # T => U \notin Bad
  <2> HIDE DEF Bad
  <2> QED  BY <1>0, SmallestSubset
<1> DEFINE G(U) == CHOOSE g : IsFold(g, f, U)
           less(U) == U \ {Picked(U)}
           h == [U \in SUBSET T |-> IF U = {} THEN 0 ELSE f[Picked(U)] + G(less(U))[less(U)]]
<1> HIDE DEF G
<1>2. ASSUME NEW U \in SUBSET T, U # T PROVE IsFold(G(U), f, U)
  BY <1>1, <1>2 DEF G
<1>3. ASSUME NEW U \in SUBSET T, U # {}
      PROVE  less(U) \in SUBSET T /\ less(U) # T /\ less(U) \in SUBSET S
  BY <1>3, PickedIsIn
<1>4. ASSUME NEW U \in SUBSET T, U # {}
      PROVE  h[less(U)] = G(less(U))[less(U)]
  <2> DEFINE V == less(U)
  <2>1. V \in SUBSET T /\ V # T /\ IsFold(G(V), f, V)
    BY <1>2, <1>3, <1>4
  <2>2. CASE V = {}
    BY <2>1, <2>2, FoldAt
  <2>3. CASE V # {}
    <3> DEFINE W == less(V)
    <3>1. W \in SUBSET T /\ W # T /\ W \in SUBSET V /\ W \in SUBSET S
      BY <2>1, <2>3, <1>3
    <3>2. IsFold(G(W), f, W)
      BY <1>2, <3>1
    <3>3. IsFold([X \in SUBSET W |-> G(V)[X]], f, W)
      <4> HIDE DEF V, W
      <4> QED  BY ONLY <2>1, <3>1, FoldOfPart, Zenon
    <3>4. IsFiniteSet(W)
      BY <3>1, FS_Subset
    <3>5. G(W) = [X \in SUBSET W |-> G(V)[X]]
      BY <3>2, <3>3, <3>4, FoldIsUnique
    <3>6. G(V)[V] = f[Picked(V)] + G(V)[W]
      <4>1. PICK g : g = G(V)
        OBVIOUS
      <4>2. IsFold(g, f, V)
        BY <2>1, <4>1
      <4> HIDE DEF V
      <4>3. g[V] = f[Picked(V)] + g[V \ {Picked(V)}]
        BY <2>3, <4>2 DEF IsFold
      <4> QED  BY <4>1, <4>3
    <3> QED  BY <2>1, <2>3, <3>5, <3>6
  <2> QED  BY <2>2, <2>3
<1>5. IsFold(h, f, T)
  <2>1. ASSUME NEW U \in SUBSET T
        PROVE  h[U] = IF U = {} THEN 0 ELSE f[Picked(U)] + h[less(U)]
    BY <1>4
  <2>2. h = [U \in SUBSET T |-> h[U]]
    OBVIOUS
  <2> HIDE DEF h
  <2> QED  BY <2>1, <2>2 DEF IsFold
<1> QED  BY <1>1, <1>5

-----------------------------------------------------------------------------
(* The sum over a set, one element at a time.                              *)

LEMMA SumOfNothing == ASSUME NEW f PROVE SumFunctionOnSet(f, {}) = 0
<1>1. PICK g : g = CHOOSE h : IsFold(h, f, {})
  OBVIOUS
<1>2. IsFold(g, f, {})
  BY <1>1, FoldExists, FS_EmptySet
<1> QED  BY <1>1, <1>2, SumIsFold DEF IsFold

\* The element the fold takes first.
LEMMA SumFirst ==
  ASSUME NEW f, NEW S, IsFiniteSet(S), S # {}
  PROVE  SumFunctionOnSet(f, S) = f[Picked(S)] + SumFunctionOnSet(f, S \ {Picked(S)})
<1> DEFINE U == S \ {Picked(S)}
<1>1. PICK g : g = CHOOSE h : IsFold(h, f, S)
  OBVIOUS
<1>2. IsFold(g, f, S) /\ SumFunctionOnSet(f, S) = g[S]
  BY <1>1, FoldExists, SumIsFold
<1>3. PICK k : k = CHOOSE h : IsFold(h, f, U)
  OBVIOUS
<1>4. IsFiniteSet(U) /\ U \in SUBSET S
  BY FS_Subset
<1>5. IsFold(k, f, U) /\ SumFunctionOnSet(f, U) = k[U]
  BY <1>3, <1>4, FoldExists, SumIsFold
<1> DEFINE part == [T \in SUBSET U |-> g[T]]
<1>6. IsFold(part, f, U)
  BY <1>2, <1>4, FoldOfPart
<1>7. part = k
  <2> HIDE DEF part, U
  <2> QED  BY <1>4, <1>5, <1>6, FoldIsUnique
<1>8. k[U] = g[U]
  BY <1>7
<1> QED  BY <1>2, <1>5, <1>8 DEF IsFold

LEMMA SumIsInt ==
  ASSUME NEW f, NEW S, IsFiniteSet(S), \A x \in S : f[x] \in Int
  PROVE  SumFunctionOnSet(f, S) \in Int
<1> DEFINE Bad == {T \in SUBSET S : SumFunctionOnSet(f, T) \notin Int}
<1> SUFFICES ASSUME Bad # {} PROVE FALSE
  OBVIOUS
<1>1. Bad \in SUBSET (SUBSET S)
  OBVIOUS
<1>2. PICK T \in Bad : \A U \in SUBSET T : U # T => U \notin Bad
  <2> HIDE DEF Bad
  <2> QED  BY <1>1, SmallestSubset
<1>3. T # {} /\ IsFiniteSet(T)
  <2>1. SumFunctionOnSet(f, {}) = 0
    BY SumOfNothing
  <2>2. ASSUME T = {} PROVE FALSE
    <3>1. SumFunctionOnSet(f, T) = 0
      BY <2>1, <2>2
    <3> QED  BY <1>2, <3>1
  <2>3. IsFiniteSet(T)
    BY <1>2, FS_Subset
  <2> QED  BY <2>2, <2>3
<1>4. Picked(T) \in T
  BY <1>3, PickedIsIn
<1>5. SumFunctionOnSet(f, T) = f[Picked(T)] + SumFunctionOnSet(f, T \ {Picked(T)})
  BY <1>3, SumFirst
<1>6. SumFunctionOnSet(f, T \ {Picked(T)}) \in Int
  BY <1>2, <1>4
<1> QED  BY <1>2, <1>4, <1>5, <1>6

\* Any element may be taken first.
LEMMA SumRemove ==
  ASSUME NEW f, NEW S, IsFiniteSet(S), \A x \in S : f[x] \in Int, NEW x \in S
  PROVE  SumFunctionOnSet(f, S) = f[x] + SumFunctionOnSet(f, S \ {x})
<1> DEFINE sum(T) == SumFunctionOnSet(f, T)
           Bad == {T \in SUBSET S : \E y \in T : sum(T) # f[y] + sum(T \ {y})}
<1>0. Bad = {} => sum(S) = f[x] + sum(S \ {x})
  <2> HIDE DEF sum
  <2> QED  OBVIOUS
<1> SUFFICES ASSUME Bad # {} PROVE FALSE
  BY <1>0
<1>1. Bad \in SUBSET (SUBSET S)
  OBVIOUS
<1>2. PICK T \in Bad : \A U \in SUBSET T : U # T => U \notin Bad
  <2> HIDE DEF Bad
  <2> QED  BY <1>1, SmallestSubset
<1>3. \A U \in SUBSET S : IsFiniteSet(U) /\ sum(U) \in Int
  <2> TAKE U \in SUBSET S
  <2>1. IsFiniteSet(U)
    BY FS_Subset
  <2> QED  BY <2>1, SumIsInt
<1>4. \A U \in SUBSET S : U # {} => Picked(U) \in U /\ sum(U) = f[Picked(U)] + sum(U \ {Picked(U)})
  BY <1>3, PickedIsIn, SumFirst
<1> HIDE DEF sum
<1>5. PICK y \in T : y = Picked(T) /\ sum(T) = f[y] + sum(T \ {y})
  BY <1>2, <1>4
<1>6. PICK z \in T : sum(T) # f[z] + sum(T \ {z})
  BY <1>2
<1>7. z # y
  BY <1>5, <1>6
<1>8. ASSUME NEW a \in T, NEW b \in T, a # b
      PROVE  sum(T \ {a}) = f[b] + sum((T \ {a}) \ {b})
  <2>1. T \ {a} \in SUBSET T /\ T \ {a} # T /\ b \in T \ {a} /\ T \ {a} \in SUBSET S
    BY <1>2, <1>8
  <2> QED  BY <1>2, <2>1
<1>9. /\ sum(T \ {y}) = f[z] + sum((T \ {y}) \ {z})
      /\ sum(T \ {z}) = f[y] + sum((T \ {z}) \ {y})
  BY <1>7, <1>8
<1>10. PICK U \in SUBSET S : U = (T \ {y}) \ {z} /\ U = (T \ {z}) \ {y}
  BY <1>2
<1>11. sum(U) \in Int /\ f[y] \in Int /\ f[z] \in Int
  BY <1>2, <1>3
<1>12. sum(T \ {y}) = f[z] + sum(U) /\ sum(T \ {z}) = f[y] + sum(U)
  BY <1>9, <1>10
<1> HIDE DEF Bad
<1> QED  BY <1>5, <1>6, <1>11, <1>12

-----------------------------------------------------------------------------
(* Sums of several functions over one set.                                 *)

\* A sum is linear; with b = 0 and b = 1 equal functions have equal sums and
\* the sums of two functions add up.
LEMMA SumIsLinear ==
  ASSUME NEW S, IsFiniteSet(S), NEW f, NEW g, NEW h, NEW b \in Int,
         \A x \in S : f[x] \in Int /\ g[x] \in Int /\ h[x] = b * f[x] + g[x]
  PROVE  SumFunctionOnSet(h, S) = b * SumFunctionOnSet(f, S) + SumFunctionOnSet(g, S)
<1> DEFINE sum(e, T) == SumFunctionOnSet(e, T)
           Bad == {T \in SUBSET S : sum(h, T) # b * sum(f, T) + sum(g, T)}
<1>0. Bad = {} => sum(h, S) = b * sum(f, S) + sum(g, S)
  <2> HIDE DEF sum
  <2> QED  OBVIOUS
<1> SUFFICES ASSUME Bad # {} PROVE FALSE
  BY <1>0
<1>1. Bad \in SUBSET (SUBSET S)
  OBVIOUS
<1>2. PICK T \in Bad : \A U \in SUBSET T : U # T => U \notin Bad
  <2> HIDE DEF Bad
  <2> QED  BY <1>1, SmallestSubset
<1>3. \A U \in SUBSET S : sum(f, U) \in Int /\ sum(g, U) \in Int
  <2> TAKE U \in SUBSET S
  <2>1. IsFiniteSet(U)
    BY FS_Subset
  <2> QED  BY <2>1, SumIsInt
<1>4. sum(f, {}) = 0 /\ sum(g, {}) = 0 /\ sum(h, {}) = 0 /\ b * 0 = 0
  BY SumOfNothing
<1>5. IsFiniteSet(T) /\ T \in SUBSET S
  BY <1>2, FS_Subset
<1>6. T # {} => /\ sum(f, T) = f[Picked(T)] + sum(f, T \ {Picked(T)})
                /\ sum(g, T) = g[Picked(T)] + sum(g, T \ {Picked(T)})
                /\ sum(h, T) = h[Picked(T)] + sum(h, T \ {Picked(T)})
  BY <1>5, SumFirst
<1> HIDE DEF sum
<1>7. T # {}
  <2> SUFFICES ASSUME T = {} PROVE FALSE
    OBVIOUS
  <2>1. sum(f, T) = 0 /\ sum(g, T) = 0 /\ sum(h, T) = 0
    BY <1>4, Zenon
  <2> QED  BY <1>2, <1>4, <2>1
<1>8. PICK x \in T : x = Picked(T)
  BY <1>7, PickedIsIn
<1>9. PICK U \in SUBSET S : U = T \ {x}
  BY <1>5
<1>10. sum(h, U) = b * sum(f, U) + sum(g, U)
  BY <1>2, <1>8, <1>9
<1>11. b * (f[x] + sum(f, U)) = b * f[x] + b * sum(f, U)
  BY <1>3, <1>5
<1>12. b * f[x] \in Int /\ b * sum(f, U) \in Int
  BY <1>3, <1>5
<1>13. sum(h, T) = b * sum(f, T) + sum(g, T)
  BY <1>3, <1>5, <1>6, <1>7, <1>8, <1>9, <1>10, <1>11, <1>12
<1> QED  BY <1>2, <1>13

LEMMA SumIsMonotone ==
  ASSUME NEW S, IsFiniteSet(S), NEW f, NEW g,
         \A x \in S : f[x] \in Int /\ g[x] \in Int /\ f[x] <= g[x]
  PROVE  SumFunctionOnSet(f, S) <= SumFunctionOnSet(g, S)
<1> DEFINE sum(e, T) == SumFunctionOnSet(e, T)
           Bad == {T \in SUBSET S : ~(sum(f, T) <= sum(g, T))}
<1>0. Bad = {} => sum(f, S) <= sum(g, S)
  <2> HIDE DEF sum
  <2> QED  OBVIOUS
<1> SUFFICES ASSUME Bad # {} PROVE FALSE
  BY <1>0
<1>1. Bad \in SUBSET (SUBSET S)
  OBVIOUS
<1>2. PICK T \in Bad : \A U \in SUBSET T : U # T => U \notin Bad
  <2> HIDE DEF Bad
  <2> QED  BY <1>1, SmallestSubset
<1>3. \A U \in SUBSET S : sum(f, U) \in Int /\ sum(g, U) \in Int
  <2> TAKE U \in SUBSET S
  <2>1. IsFiniteSet(U)
    BY FS_Subset
  <2> QED  BY <2>1, SumIsInt
<1>4. sum(f, {}) = 0 /\ sum(g, {}) = 0
  BY SumOfNothing
<1>5. IsFiniteSet(T) /\ T \in SUBSET S
  BY <1>2, FS_Subset
<1>6. T # {} => /\ sum(f, T) = f[Picked(T)] + sum(f, T \ {Picked(T)})
                /\ sum(g, T) = g[Picked(T)] + sum(g, T \ {Picked(T)})
  BY <1>5, SumFirst
<1> HIDE DEF sum
<1>7. T # {}
  <2> SUFFICES ASSUME T = {} PROVE FALSE
    OBVIOUS
  <2>1. sum(f, T) = 0 /\ sum(g, T) = 0
    BY <1>4, Zenon
  <2> QED  BY <1>2, <2>1
<1>8. PICK x \in T : x = Picked(T)
  BY <1>7, PickedIsIn
<1>9. PICK U \in SUBSET S : U = T \ {x}
  BY <1>5
<1>10. sum(f, U) <= sum(g, U)
  BY <1>2, <1>8, <1>9
<1>11. sum(f, T) <= sum(g, T)
  BY <1>3, <1>5, <1>6, <1>7, <1>8, <1>9, <1>10
<1> QED  BY <1>2, <1>11

-----------------------------------------------------------------------------
(* SumFunction: the facts the proofs cite.  A function that is summed is   *)
(* one from a finite set to numbers.                                       *)

LEMMA SumOverDomain ==
  ASSUME NEW S, NEW f, DOMAIN f = S
  PROVE  SumFunction(f) = SumFunctionOnSet(f, S)
BY DEF SumFunction

LEMMA SumInt ==
  ASSUME NEW S, IsFiniteSet(S), NEW f \in [S -> Int]
  PROVE  SumFunction(f) \in Int
BY SumOverDomain, SumIsInt

LEMMA SumLinear ==
  ASSUME NEW S, IsFiniteSet(S), NEW f \in [S -> Int], NEW g \in [S -> Int],
         NEW h \in [S -> Int], NEW b \in Int, \A x \in S : h[x] = b * f[x] + g[x]
  PROVE  SumFunction(h) = b * SumFunction(f) + SumFunction(g)
<1>1. SumFunctionOnSet(h, S) = b * SumFunctionOnSet(f, S) + SumFunctionOnSet(g, S)
  BY SumIsLinear
<1> QED  BY <1>1, SumOverDomain

LEMMA SumMonotone ==
  ASSUME NEW S, IsFiniteSet(S), NEW f \in [S -> Int], NEW g \in [S -> Int],
         \A x \in S : f[x] <= g[x]
  PROVE  SumFunction(f) <= SumFunction(g)
<1>1. SumFunctionOnSet(f, S) <= SumFunctionOnSet(g, S)
  BY SumIsMonotone
<1> QED  BY <1>1, SumOverDomain

LEMMA SumPlus ==
  ASSUME NEW S, IsFiniteSet(S), NEW f \in [S -> Int], NEW g \in [S -> Int],
         NEW h \in [S -> Int], \A x \in S : h[x] = f[x] + g[x]
  PROVE  SumFunction(h) = SumFunction(f) + SumFunction(g)
<1>1. \A x \in S : h[x] = 1 * f[x] + g[x]
  OBVIOUS
<1>2. SumFunction(h) = 1 * SumFunction(f) + SumFunction(g)
  BY <1>1, SumLinear
<1>3. SumFunction(f) \in Int
  BY SumInt
<1> QED  BY <1>2, <1>3

LEMMA SumZero ==
  ASSUME NEW S, IsFiniteSet(S), NEW f \in [S -> Int], \A x \in S : f[x] = 0
  PROVE  SumFunction(f) = 0
<1>1. SumFunction(f) = SumFunction(f) + SumFunction(f)
  BY SumPlus
<1>2. SumFunction(f) \in Int
  BY SumInt
<1>3. \A n \in Int : n = n + n => n = 0
  OBVIOUS
<1> QED  BY ONLY <1>1, <1>2, <1>3

\* The sum of natural numbers is at least each of them.
LEMMA SumNat ==
  ASSUME NEW S, IsFiniteSet(S), NEW f \in [S -> Nat]
  PROVE  /\ SumFunction(f) \in Nat
         /\ \A x \in S : f[x] <= SumFunction(f)
<1> DEFINE zero == [x \in S |-> 0]
           only(x) == [y \in S |-> IF y = x THEN f[x] ELSE 0]
<1>1. f \in [S -> Int] /\ zero \in [S -> Int]
  OBVIOUS
<1>2. SumFunction(zero) = 0
  BY <1>1, SumZero
<1>3. SumFunction(zero) <= SumFunction(f)
  BY <1>1, SumMonotone
<1>4. SumFunction(f) \in Int
  BY <1>1, SumInt
<1>5. ASSUME NEW x \in S PROVE f[x] <= SumFunction(f)
  <2> DEFINE T == S \ {x}
  <2>1. IsFiniteSet(T) /\ \A y \in S : f[y] \in Int
    BY FS_Subset
  <2>2. SumFunctionOnSet(f, S) = f[x] + SumFunctionOnSet(f, T)
    BY <2>1, SumRemove
  <2>3. SumFunctionOnSet(zero, T) <= SumFunctionOnSet(f, T)
    <3>1. \A y \in T : zero[y] \in Int /\ f[y] \in Int /\ zero[y] <= f[y]
      OBVIOUS
    <3> HIDE DEF zero, T
    <3> QED  BY <2>1, <3>1, SumIsMonotone
  <2>4. SumFunctionOnSet(zero, T) = 1 * SumFunctionOnSet(zero, T) + SumFunctionOnSet(zero, T)
    <3>1. \A y \in T : zero[y] \in Int /\ zero[y] = 1 * zero[y] + zero[y]
      OBVIOUS
    <3> HIDE DEF zero, T
    <3> QED  BY <2>1, <3>1, SumIsLinear
  <2>5. SumFunctionOnSet(zero, T) \in Int /\ SumFunctionOnSet(f, T) \in Int
    <3>1. \A y \in T : zero[y] \in Int /\ f[y] \in Int
      OBVIOUS
    <3> HIDE DEF zero, T
    <3> QED  BY <2>1, <3>1, SumIsInt
  <2>6. SumFunction(f) = SumFunctionOnSet(f, S)
    BY SumOverDomain
  <2> HIDE DEF zero, T
  <2> QED  BY <2>1, <2>2, <2>3, <2>4, <2>5, <2>6
<1> HIDE DEF zero
<1> QED  BY <1>2, <1>3, <1>4, <1>5

\* One value changes.
LEMMA SumChange ==
  ASSUME NEW S, IsFiniteSet(S), NEW f \in [S -> Int], NEW g \in [S -> Int],
         NEW x \in S, \A y \in S \ {x} : g[y] = f[y]
  PROVE  SumFunction(g) = SumFunction(f) - f[x] + g[x]
<1> DEFINE T == S \ {x}
<1>1. IsFiniteSet(T) /\ \A y \in S : f[y] \in Int /\ g[y] \in Int
  BY FS_Subset
<1>2. /\ SumFunctionOnSet(f, S) = f[x] + SumFunctionOnSet(f, T)
      /\ SumFunctionOnSet(g, S) = g[x] + SumFunctionOnSet(g, T)
  BY <1>1, SumRemove
<1>3. SumFunctionOnSet(g, T) = 0 * SumFunctionOnSet(f, T) + SumFunctionOnSet(f, T)
  <2>1. \A y \in T : f[y] \in Int /\ g[y] = 0 * f[y] + f[y]
    BY <1>1
  <2> HIDE DEF T
  <2> QED  BY <1>1, <2>1, SumIsLinear
<1>4. SumFunctionOnSet(f, T) \in Int
  <2>1. \A y \in T : f[y] \in Int
    BY <1>1
  <2> HIDE DEF T
  <2> QED  BY <1>1, <2>1, SumIsInt
<1>5. SumFunction(f) = SumFunctionOnSet(f, S) /\ SumFunction(g) = SumFunctionOnSet(g, S)
  BY SumOverDomain
<1> HIDE DEF T
<1> QED  BY <1>1, <1>2, <1>3, <1>4, <1>5

LEMMA SumSame ==
  ASSUME NEW S, IsFiniteSet(S), NEW f \in [S -> Int], NEW g \in [S -> Int],
         \A x \in S : g[x] = f[x]
  PROVE  SumFunction(g) = SumFunction(f)
<1>1. f = g
  OBVIOUS
<1> QED  BY <1>1

\* Two values change.
LEMMA SumChangeTwo ==
  ASSUME NEW S, IsFiniteSet(S), NEW f \in [S -> Int], NEW g \in [S -> Int],
         NEW x \in S, NEW y \in S, x # y, \A z \in S \ {x, y} : g[z] = f[z]
  PROVE  SumFunction(g) = SumFunction(f) - f[x] + g[x] - f[y] + g[y]
<1> DEFINE h == [f EXCEPT ![x] = g[x]]
<1>1. /\ h \in [S -> Int] /\ h[x] = g[x] /\ h[y] = f[y]
      /\ \A z \in S \ {x} : h[z] = f[z]
      /\ \A z \in S \ {y} : g[z] = h[z]
  OBVIOUS
<1> HIDE DEF h
<1>2. SumFunction(h) = SumFunction(f) - f[x] + h[x]
  BY <1>1, SumChange
<1>3. SumFunction(g) = SumFunction(h) - h[y] + g[y]
  BY <1>1, SumChange
<1>4. SumFunction(f) \in Int /\ f[x] \in Int /\ g[x] \in Int /\ f[y] \in Int /\ g[y] \in Int
  BY SumInt
<1> QED  BY <1>1, <1>2, <1>3, <1>4

\* A number n for each element of a part.
LEMMA SumOfConstant ==
  ASSUME NEW S, IsFiniteSet(S), NEW P \in SUBSET S, NEW n \in Int
  PROVE  SumFunction([x \in S |-> IF x \in P THEN n ELSE 0]) = n * Cardinality(P)
<1> DEFINE part(T) == [x \in S |-> IF x \in T THEN n ELSE 0]
           Bad == {T \in SUBSET S : SumFunction(part(T)) # n * Cardinality(T)}
<1>0. Bad = {} => SumFunction(part(P)) = n * Cardinality(P)
  OBVIOUS
<1> SUFFICES ASSUME Bad # {} PROVE FALSE
  BY <1>0
<1>1. Bad \in SUBSET (SUBSET S)
  OBVIOUS
<1>2. PICK T \in Bad : \A U \in SUBSET T : U # T => U \notin Bad
  <2> HIDE DEF Bad
  <2> QED  BY <1>1, SmallestSubset
<1>3. \A U \in SUBSET S : IsFiniteSet(U) /\ part(U) \in [S -> Int]
  BY FS_Subset
<1>4. SumFunction(part({})) = n * Cardinality({})
  <2>1. part({}) \in [S -> Int] /\ \A x \in S : part({})[x] = 0
    OBVIOUS
  <2>2. SumFunction(part({})) = 0
    <3> HIDE DEF part
    <3> QED  BY <2>1, SumZero
  <2>3. Cardinality({}) = 0 /\ n * 0 = 0
    BY FS_EmptySet
  <2> HIDE DEF part
  <2> QED  BY <2>2, <2>3
<1>5. T # {}
  <2> HIDE DEF part
  <2> QED  BY <1>2, <1>4
<1>6. PICK x \in T : TRUE
  BY <1>5
<1>7. PICK U \in SUBSET S : U = T \ {x} /\ U \in SUBSET T /\ U # T
  <2>1. T \ {x} \in SUBSET S /\ T \ {x} \in SUBSET T /\ T \ {x} # T
    BY <1>2, <1>6
  <2> QED  BY <2>1
<1>8. SumFunction(part(U)) = n * Cardinality(U)
  <2> HIDE DEF part
  <2> QED  BY <1>2, <1>7
<1>9. part(T)[x] = n /\ part(U)[x] = 0 /\ \A y \in S \ {x} : part(T)[y] = part(U)[y]
  BY <1>2, <1>6, <1>7
<1>10. SumFunction(part(T)) = SumFunction(part(U)) - 0 + n
  <2>1. x \in S /\ part(T) \in [S -> Int] /\ part(U) \in [S -> Int]
    BY <1>2, <1>3
  <2> HIDE DEF part
  <2>2. SumFunction(part(T)) = SumFunction(part(U)) - part(U)[x] + part(T)[x]
    BY <1>9, <2>1, SumChange
  <2> QED  BY <1>9, <2>2
<1>11. Cardinality(U) = Cardinality(T) - 1 /\ Cardinality(U) \in Nat /\ Cardinality(T) \in Nat
  BY <1>2, <1>3, <1>7, FS_RemoveElement, FS_CardinalityType
<1>12. n * Cardinality(T) = n * Cardinality(U) + n /\ n * Cardinality(U) \in Int
  BY <1>11
<1> HIDE DEF part
<1> QED  BY <1>2, <1>8, <1>10, <1>12

\* What is 0 outside a part of the set adds up over that part.
LEMMA SumOfPart ==
  ASSUME NEW S, IsFiniteSet(S), NEW T \in SUBSET S, NEW f \in [S -> Int], NEW g \in [T -> Int],
         \A x \in T : g[x] = f[x], \A x \in S \ T : f[x] = 0
  PROVE  SumFunction(g) = SumFunction(f)
<1> DEFINE sum(A) == SumFunctionOnSet(f, A)
           Bad == {R \in SUBSET (S \ T) : sum(T \cup R) # sum(T)}
<1>1. Bad = {}
  <2> SUFFICES ASSUME Bad # {} PROVE FALSE
    OBVIOUS
  <2>1. Bad \in SUBSET (SUBSET (S \ T)) /\ IsFiniteSet(S \ T)
    BY FS_Subset
  <2>2. PICK R \in Bad : \A U \in SUBSET R : U # R => U \notin Bad
    <3> HIDE DEF Bad
    <3> QED  BY <2>1, SmallestSubset
  <2>3. R \in SUBSET (S \ T) /\ sum(T \cup R) # sum(T)
    OBVIOUS
  <2>4. R # {}
    <3> HIDE DEF sum
    <3>1. T \cup {} = T
      OBVIOUS
    <3> QED  BY <2>3, <3>1, Zenon
  <2>5. PICK x \in R : TRUE
    BY <2>4
  <2>6. PICK U \in SUBSET R : U = R \ {x} /\ U # R /\ (T \cup R) \ {x} = T \cup U
    <3>1. R \ {x} \in SUBSET R /\ R \ {x} # R
      BY <2>5
    <3>2. (T \cup R) \ {x} = T \cup (R \ {x})
      BY <2>3, <2>5
    <3> QED  BY <3>1, <3>2
  <2>7. sum(T \cup U) = sum(T)
    <3>1. U \in SUBSET (S \ T) /\ U \notin Bad
      BY <2>2, <2>3, <2>6
    <3> HIDE DEF sum
    <3> QED  BY <3>1
  <2>8. sum(T \cup R) = f[x] + sum((T \cup R) \ {x})
    <3>1. IsFiniteSet(T \cup R) /\ x \in T \cup R /\ \A y \in T \cup R : f[y] \in Int
      <4>1. T \cup R \subseteq S
        BY <2>3
      <4> QED  BY <4>1, FS_Subset
    <3> QED  BY <3>1, SumRemove
  <2>9. f[x] = 0
    BY <2>3
  <2>10. sum(T) \in Int
    <3>1. IsFiniteSet(T) /\ \A y \in T : f[y] \in Int
      BY FS_Subset
    <3> QED  BY <3>1, SumIsInt
  <2> HIDE DEF sum, Bad
  <2> QED  BY <2>3, <2>6, <2>7, <2>8, <2>9, <2>10
<1>2. sum(S) = sum(T)
  <2>1. T \cup (S \ T) = S /\ S \ T \in SUBSET (S \ T)
    OBVIOUS
  <2>2. S \ T \notin Bad
    BY <1>1
  <2> HIDE DEF sum
  <2> QED  BY <2>1, <2>2
<1>3. SumFunctionOnSet(g, T) = sum(T)
  <2>1. IsFiniteSet(T) /\ \A y \in T : f[y] \in Int /\ g[y] = 0 * f[y] + f[y]
    BY FS_Subset
  <2>2. SumFunctionOnSet(g, T) = 0 * sum(T) + sum(T)
    BY <2>1, SumIsLinear
  <2>3. sum(T) \in Int
    BY <2>1, SumIsInt
  <2> HIDE DEF sum
  <2> QED  BY <2>2, <2>3
<1>4. SumFunction(g) = SumFunctionOnSet(g, T) /\ SumFunction(f) = sum(S)
  BY SumOverDomain
<1> QED  BY <1>2, <1>3, <1>4
=============================================================================
