----------------------------- MODULE FoldLemmas -----------------------------
(***************************************************************************)
(* Sums and largest elements over finite sets: what the folds of the       *)
(* community modules return, for every finite domain.  The induction is    *)
(* over sets of subsets, by the library's theorem that the subsets of a    *)
(* finite set are well-founded under inclusion.                            *)
(***************************************************************************)
EXTENDS FiniteSetTheorems, FiniteSetsExt, TLAPS

(***************************************************************************)
(* The element a fold takes first.                                         *)
(***************************************************************************)
Pick(s) == CHOOSE x \in s : TRUE

LEMMA PickIn ==
    ASSUME NEW s, s # {}
    PROVE  Pick(s) \in s
  BY DEF Pick

(***************************************************************************)
(* A set that has the empty set, and every subset of S of which it has all *)
(* that lack one element, has every subset of S.                           *)
(***************************************************************************)
LEMMA SubsetInduction ==
    ASSUME NEW S, IsFiniteSet(S), NEW T,
           {} \in T,
           \A s \in SUBSET S : s # {} /\ (\A x \in s : s \ {x} \in T) => s \in T
    PROVE  SUBSET S \subseteq T
<1> DEFINE bad == {s \in SUBSET S : s \notin T}
<1> SUFFICES ASSUME bad # {} PROVE FALSE
  OBVIOUS
<1>1. IsWellFoundedOn(StrictSubsetOrdering(S), SUBSET S)
  BY FS_StrictSubsetOrderingWellFounded, FS_FiniteSubsetsOfFinite
<1>2. bad \subseteq SUBSET S
  OBVIOUS
<1> HIDE DEF bad
<1>3. PICK s \in bad : \A t \in bad : ~(<<t, s>> \in StrictSubsetOrdering(S))
  BY <1>1, <1>2, WFMin
<1>4. s \in SUBSET S /\ s \notin T
  BY <1>3 DEF bad
<1>5. PICK x \in s : s \ {x} \notin T
  BY <1>4
<1> DEFINE t == s \ {x}
<1>6. t \in SUBSET S /\ t \subseteq s /\ t # s
  BY <1>4, <1>5
<1>7. t \in bad
  BY <1>5, <1>6 DEF bad
<1>8. <<t, s>> \in StrictSubsetOrdering(S)
  <2> HIDE DEF t
  <2> QED
    BY <1>4, <1>6 DEF StrictSubsetOrdering
<1> QED
  BY <1>3, <1>7, <1>8

(***************************************************************************)
(* For induction it is enough to take off the element that Pick names.     *)
(***************************************************************************)
LEMMA PickInduction ==
    ASSUME NEW S, IsFiniteSet(S), NEW T,
           {} \in T,
           \A s \in SUBSET S : s # {} /\ s \ {Pick(s)} \in T => s \in T
    PROVE  SUBSET S \subseteq T
<1>1. \A s \in SUBSET S : s # {} /\ (\A x \in s : s \ {x} \in T) => s \in T
  BY PickIn
<1> QED
  BY <1>1, SubsetInduction

(***************************************************************************)
(* Recursion: for every way to pick an element of each subset of S and     *)
(* every operation op on a set V of results, there is a function that      *)
(* combines the elements of each subset, one picked element at a time.     *)
(***************************************************************************)
Recurs(it, S, base, pick, op) ==
    /\ it[{}] = base
    /\ \A s \in SUBSET S : s # {} => it[s] = op[<<pick[s], it[s \ {pick[s]}]>>]

(***************************************************************************)
(* A recursion that takes one element off has a solution.                  *)
(***************************************************************************)
LEMMA RecursionExists ==
    ASSUME NEW S, IsFiniteSet(S), NEW V, NEW base \in V,
           NEW pick, \A s \in SUBSET S : s # {} => pick[s] \in s,
           NEW op \in [S \X V -> V]
    PROVE  \E it \in [SUBSET S -> V] : Recurs(it, S, base, pick, op)
<1> DEFINE Closed(R) ==
              /\ <<{}, base>> \in R
              /\ \A s \in SUBSET S, v \in V :
                    s # {} /\ <<s \ {pick[s]}, v>> \in R => <<s, op[<<pick[s], v>>]>> \in R
           G == {p \in (SUBSET S) \X V : \A R \in SUBSET ((SUBSET S) \X V) :
                    Closed(R) => p \in R}
           Only(s, v) == v \in V /\ <<s, v>> \in G /\ \A u \in V : <<s, u>> \in G => u = v
           T == {s \in SUBSET S : \E v \in V : Only(s, v)}
<1>a. ASSUME NEW s \in SUBSET S, s # {}
      PROVE  /\ pick[s] \in S /\ s \ {pick[s]} \in SUBSET S
             /\ \A v \in V : op[<<pick[s], v>>] \in V
  BY <1>a
<1>1. Closed(G)
  <2>1. <<{}, base>> \in G
    OBVIOUS
  <2>2. ASSUME NEW s \in SUBSET S, NEW v \in V, s # {}, <<s \ {pick[s]}, v>> \in G
        PROVE  <<s, op[<<pick[s], v>>]>> \in G
    <3>1. <<s, op[<<pick[s], v>>]>> \in (SUBSET S) \X V
      BY <1>a, <2>2
    <3>2. ASSUME NEW R \in SUBSET ((SUBSET S) \X V), Closed(R)
          PROVE  <<s, op[<<pick[s], v>>]>> \in R
      <4>1. <<s \ {pick[s]}, v>> \in R
        BY <2>2, <3>2
      <4> QED
        BY <2>2, <3>2, <4>1
    <3> HIDE DEF Closed
    <3> QED
      BY <3>1, <3>2
  <2> QED
    BY <2>1, <2>2
<1>2. ASSUME NEW p, p \in G, NEW R \in SUBSET ((SUBSET S) \X V), Closed(R)
      PROVE  p \in R
  BY <1>2
<1>3. G \in SUBSET ((SUBSET S) \X V)
  OBVIOUS
<1> HIDE DEF G
<1>4. {} \in T
  <2>1. <<{}, base>> \in G
    BY <1>1
  <2>2. ASSUME NEW u \in V, <<{}, u>> \in G, u # base
        PROVE  FALSE
    <3> DEFINE R == G \ {<<{}, u>>}
    <3>1. R \in SUBSET ((SUBSET S) \X V)
      BY <1>3
    <3>a. <<{}, base>> \in R
      BY <2>1, <2>2
    <3>b. ASSUME NEW s \in SUBSET S, NEW v \in V, s # {}, <<s \ {pick[s]}, v>> \in R
          PROVE  <<s, op[<<pick[s], v>>]>> \in R
      <4>1. <<s, op[<<pick[s], v>>]>> \in G
        BY <1>1, <3>b
      <4> QED
        BY <3>b, <4>1
    <3>2. Closed(R)
      <4> HIDE DEF R
      <4> QED
        BY <3>a, <3>b
    <3>3. <<{}, u>> \in R
      <4> HIDE DEF R, Closed
      <4> QED
        BY <1>2, <2>2, <3>1, <3>2
    <3> QED
      BY <3>3
  <2>3. Only({}, base)
    BY <2>1, <2>2
  <2>4. {} \in SUBSET S
    OBVIOUS
  <2> HIDE DEF Only
  <2> QED
    BY <2>3, <2>4
<1>5. ASSUME NEW s \in SUBSET S, s # {}, \A x \in s : s \ {x} \in T
      PROVE  s \in T
  <2> DEFINE r == s \ {pick[s]}
  <2>1. PICK v \in V : Only(r, v)
    BY <1>5
  <2> DEFINE w == op[<<pick[s], v>>]
  <2>2. w \in V
    BY <1>a, <1>5
  <2>3. <<s, w>> \in G
    BY <1>1, <1>5, <2>1
  <2>4. ASSUME NEW u \in V, <<s, u>> \in G, u # w
        PROVE  FALSE
    <3> DEFINE R == G \ {<<s, u>>}
    <3>1. R \in SUBSET ((SUBSET S) \X V)
      BY <1>3
    <3>2. <<{}, base>> \in R
      BY <1>1, <1>5
    <3>3. ASSUME NEW t \in SUBSET S, NEW x \in V, t # {}, <<t \ {pick[t]}, x>> \in R
          PROVE  <<t, op[<<pick[t], x>>]>> \in R
      <4>1. <<t, op[<<pick[t], x>>]>> \in G
        BY <1>1, <3>3
      <4>2. CASE t # s
        BY <4>1, <4>2
      <4>3. CASE t = s
        <5>1. x = v
          BY <2>1, <3>3, <4>3
        <5> QED
          BY <2>4, <4>1, <4>3, <5>1
      <4> QED
        BY <4>2, <4>3
    <3>4. Closed(R)
      <4> HIDE DEF R
      <4> QED
        BY <3>2, <3>3
    <3>5. <<s, u>> \in R
      <4> HIDE DEF R, Closed
      <4> QED
        BY <1>2, <2>4, <3>1, <3>4
    <3> QED
      BY <3>5
  <2> HIDE DEF w
  <2> QED
    BY <2>2, <2>3, <2>4
<1>6. SUBSET S \subseteq T
  <2> HIDE DEF T
  <2> QED
    BY <1>4, <1>5, SubsetInduction
<1> DEFINE it == [s \in SUBSET S |-> CHOOSE v \in V : Only(s, v)]
<1>7. \A s \in SUBSET S : it[s] \in V /\ Only(s, it[s])
  <2> SUFFICES ASSUME NEW s \in SUBSET S PROVE it[s] \in V /\ Only(s, it[s])
    OBVIOUS
  <2>1. \E v \in V : Only(s, v)
    BY <1>6
  <2> HIDE DEF Only
  <2> QED
    BY <2>1
<1>8. it \in [SUBSET S -> V]
  <2> DEFINE val(s) == CHOOSE v \in V : Only(s, v)
  <2>1. \A s \in SUBSET S : val(s) \in V
    BY <1>7
  <2> HIDE DEF val
  <2>2. [s \in SUBSET S |-> val(s)] \in [SUBSET S -> V]
    BY <2>1
  <2> QED
    BY <2>2 DEF val
<1> HIDE DEF it
<1>9. it[{}] = base
  <2>1. <<{}, base>> \in G
    BY <1>1
  <2>2. Only({}, it[{}])
    BY <1>7
  <2> QED
    BY <2>1, <2>2
<1>10. ASSUME NEW s \in SUBSET S, s # {}
       PROVE  it[s] = op[<<pick[s], it[s \ {pick[s]}]>>]
  <2> DEFINE r == s \ {pick[s]}
  <2>1. r \in SUBSET S /\ it[r] \in V /\ <<r, it[r]>> \in G
    BY <1>7, <1>10
  <2>2. <<s, op[<<pick[s], it[r]>>]>> \in G
    BY <1>1, <1>10, <2>1
  <2>3. op[<<pick[s], it[r]>>] \in V
    BY <1>a, <1>10, <2>1
  <2> QED
    BY <1>7, <2>2, <2>3
<1>11. Recurs(it, S, base, pick, op)
  BY <1>9, <1>10 DEF Recurs
<1> QED
  BY <1>8, <1>11

(***************************************************************************)
(* So there is a function that adds up f over the subsets of S ...         *)
(***************************************************************************)
Adds(it, f, S) ==
    /\ it \in [SUBSET S -> Int]
    /\ it[{}] = 0
    /\ \A s \in SUBSET S : s # {} => it[s] = f[Pick(s)] + it[s \ {Pick(s)}]

(***************************************************************************)
(* The sum over a set is such a recursion.                                 *)
(***************************************************************************)
LEMMA AddsExists ==
    ASSUME NEW S, IsFiniteSet(S), NEW f \in [S -> Int]
    PROVE  \E it : Adds(it, f, S)
<1> DEFINE pick == [s \in SUBSET S |-> Pick(s)]
           op == [xv \in S \X Int |-> f[xv[1]] + xv[2]]
<1>1. \A s \in SUBSET S : s # {} => pick[s] \in s
  BY PickIn
<1>2. op \in [S \X Int -> Int]
  <2> DEFINE val(xv) == f[xv[1]] + xv[2]
  <2>1. \A xv \in S \X Int : val(xv) \in Int
    OBVIOUS
  <2> HIDE DEF val
  <2>2. [xv \in S \X Int |-> val(xv)] \in [S \X Int -> Int]
    BY <2>1
  <2> QED
    BY <2>2 DEF val
<1>3. \A x \in S, v \in Int : op[<<x, v>>] = f[x] + v
  OBVIOUS
<1>4. \A s \in SUBSET S : pick[s] = Pick(s)
  OBVIOUS
<1> HIDE DEF pick, op
<1>5. PICK it \in [SUBSET S -> Int] : Recurs(it, S, 0, pick, op)
  <2>1. 0 \in Int
    OBVIOUS
  <2> QED
    BY <1>1, <1>2, <2>1, RecursionExists
<1>6. ASSUME NEW s \in SUBSET S, s # {}
      PROVE  it[s] = f[Pick(s)] + it[s \ {Pick(s)}]
  <2>1. Pick(s) \in S /\ it[s \ {Pick(s)}] \in Int
    BY <1>6, PickIn
  <2> QED
    BY <1>3, <1>4, <1>5, <1>6, <2>1 DEF Recurs
<1>7. Adds(it, f, S)
  BY <1>5, <1>6 DEF Adds, Recurs
<1> QED
  BY <1>7

(***************************************************************************)
(* ... and SumFunction is its value for all of S.                          *)
(***************************************************************************)
LEMMA SumAdds ==
    ASSUME NEW S, IsFiniteSet(S), NEW f \in [S -> Int]
    PROVE  \E it : Adds(it, f, S) /\ SumFunction(f) = it[S]
<1> DEFINE Def(g) == [s \in SUBSET S |->
                        IF s = {} THEN 0 ELSE f[Pick(s)] + g[s \ {Pick(s)}]]
<1>1. \E g : g = Def(g)
  <2>1. PICK it : Adds(it, f, S)
    BY AddsExists
  <2>2. it = [s \in SUBSET S |-> it[s]]
    BY <2>1 DEF Adds
  <2>3. \A s \in SUBSET S : it[s] = IF s = {} THEN 0 ELSE f[Pick(s)] + it[s \ {Pick(s)}]
    BY <2>1 DEF Adds
  <2>4. it = Def(it)
    BY <2>2, <2>3
  <2> QED
    BY <2>4
<1> DEFINE iter == CHOOSE g : g = Def(g)
<1>2. iter = Def(iter)
  <2> HIDE DEF Def
  <2> QED
    BY <1>1
<1>3. SumFunction(f) = iter[S]
  BY DEF SumFunction, SumFunctionOnSet, FoldFunctionOnSet, MapThenFoldSet, Pick
<1> HIDE DEF iter
<1>4. iter[{}] = 0
  BY <1>2
<1>5. \A s \in SUBSET S : s # {} => iter[s] = f[Pick(s)] + iter[s \ {Pick(s)}]
  BY <1>2
<1>6. iter \in [SUBSET S -> Int]
  <2> DEFINE T == {s \in SUBSET S : iter[s] \in Int}
  <2>1. {} \in T
    BY <1>4
  <2>2. \A s \in SUBSET S : s # {} /\ s \ {Pick(s)} \in T => s \in T
    <3> SUFFICES ASSUME NEW s \in SUBSET S, s # {}, s \ {Pick(s)} \in T
                 PROVE  iter[s] \in Int
      OBVIOUS
    <3>1. f[Pick(s)] \in Int
      BY PickIn
    <3>2. iter[s \ {Pick(s)}] \in Int
      OBVIOUS
    <3>3. iter[s] = f[Pick(s)] + iter[s \ {Pick(s)}]
      BY <1>5
    <3> QED
      BY ONLY <3>1, <3>2, <3>3
  <2>3. SUBSET S \subseteq T
    <3> HIDE DEF T
    <3> QED
      BY <2>1, <2>2, PickInduction
  <2>4. \A s \in SUBSET S : iter[s] \in Int
    BY <2>3
  <2> DEFINE val(s) == iter[s]
  <2>5. iter = [s \in SUBSET S |-> val(s)]
    BY <1>2
  <2>6. \A s \in SUBSET S : val(s) \in Int
    BY <2>4
  <2> HIDE DEF val
  <2> QED
    BY <2>5, <2>6
<1>7. Adds(iter, f, S)
  BY <1>4, <1>5, <1>6 DEF Adds
<1> QED
  BY <1>3, <1>7

(***************************************************************************)
(* A sum of integers is an integer.                                        *)
(***************************************************************************)
LEMMA SumInt ==
    ASSUME NEW S, IsFiniteSet(S), NEW f \in [S -> Int]
    PROVE  SumFunction(f) \in Int
<1>1. PICK it : Adds(it, f, S) /\ SumFunction(f) = it[S]
  BY SumAdds
<1> QED
  BY <1>1 DEF Adds

(***************************************************************************)
(* A linear bound that holds of every element holds of the sums.           *)
(***************************************************************************)
LEMMA SumBound ==
    ASSUME NEW S, IsFiniteSet(S), NEW f \in [S -> Int], NEW g \in [S -> Int],
           NEW a \in Int, NEW b \in Int, NEW c \in Int,
           \A i \in S : a * f[i] <= b * g[i] + c
    PROVE  a * SumFunction(f) <= b * SumFunction(g) + c * Cardinality(S)
<1>1. PICK F : Adds(F, f, S) /\ SumFunction(f) = F[S]
  BY SumAdds
<1>2. PICK G : Adds(G, g, S) /\ SumFunction(g) = G[S]
  BY SumAdds
<1> DEFINE T == {s \in SUBSET S : a * F[s] <= b * G[s] + c * Cardinality(s)}
<1>3. {} \in T
  <2>1. F[{}] = 0 /\ G[{}] = 0 /\ Cardinality({}) = 0
    BY <1>1, <1>2, FS_EmptySet DEF Adds
  <2>2. a * 0 <= b * 0 + c * 0
    OBVIOUS
  <2> QED
    BY <2>1, <2>2
<1>4. ASSUME NEW s \in SUBSET S, s # {}, s \ {Pick(s)} \in T
      PROVE  s \in T
  <2> DEFINE x == Pick(s)
             r == s \ {x}
             n == Cardinality(r)
  <2>1. x \in s
    BY <1>4, PickIn
  <2>2. F[s] = f[x] + F[r] /\ G[s] = g[x] + G[r]
    BY <1>1, <1>2, <1>4 DEF Adds
  <2>3. IsFiniteSet(s)
    BY FS_Subset
  <2>4. n \in Nat /\ Cardinality(s) = n + 1
    <3>1. IsFiniteSet(r) /\ n = Cardinality(s) - 1 /\ Cardinality(s) \in Nat
      BY <2>1, <2>3, FS_RemoveElement, FS_CardinalityType
    <3>2. n \in Nat
      BY <3>1, FS_CardinalityType
    <3> QED
      BY <3>1, <3>2
  <2>5. f[x] \in Int /\ g[x] \in Int /\ F[r] \in Int /\ G[r] \in Int
    BY <1>1, <1>2, <2>1 DEF Adds
  <2>6. a * F[r] <= b * G[r] + c * n
    BY <1>4
  <2>7. a * f[x] <= b * g[x] + c
    BY <2>1
  <2> HIDE DEF x, r, n
  <2>8. a * F[s] <= b * G[s] + c * Cardinality(s)
    <3>1. /\ a * F[s] = a * f[x] + a * F[r]
          /\ b * G[s] = b * g[x] + b * G[r]
          /\ c * Cardinality(s) = c * n + c
      BY <2>2, <2>4, <2>5
    <3>2. /\ a * f[x] \in Int /\ a * F[r] \in Int /\ b * g[x] \in Int
          /\ b * G[r] \in Int /\ c * n \in Int
      BY <2>4, <2>5
    <3> QED
      BY <2>6, <2>7, <3>1, <3>2
  <2> QED
    BY <2>8
<1>5. SUBSET S \subseteq T
  <2> HIDE DEF T
  <2> QED
    BY <1>3, <1>4, PickInduction
<1>6. S \in T
  BY <1>5
<1> QED
  BY <1>1, <1>2, <1>6

(***************************************************************************)
(* Of numbers that are not negative the sum is not, and it is no less than *)
(* their number when none of them is zero.                                 *)
(***************************************************************************)
LEMMA SumAtLeast ==
    ASSUME NEW S, IsFiniteSet(S), NEW m \in Nat, NEW f \in [S -> Int],
           \A i \in S : f[i] >= m
    PROVE  /\ SumFunction(f) \in Nat
           /\ SumFunction(f) >= m * Cardinality(S)
<1>1. \A i \in S : (-1) * f[i] <= 0 * f[i] + (-m)
  <2> SUFFICES ASSUME NEW i \in S PROVE (-1) * f[i] <= 0 * f[i] + (-m)
    OBVIOUS
  <2>1. f[i] \in Int /\ f[i] >= m
    OBVIOUS
  <2> QED
    BY <2>1
<1>2. (-1) * SumFunction(f) <= 0 * SumFunction(f) + (-m) * Cardinality(S)
  <2>1. -m \in Int /\ -1 \in Int /\ 0 \in Int
    OBVIOUS
  <2> QED
    BY <1>1, <2>1, SumBound
<1>3. SumFunction(f) \in Int /\ Cardinality(S) \in Nat
  BY SumInt, FS_CardinalityType
<1>4. m * Cardinality(S) \in Nat /\ (-m) * Cardinality(S) = -(m * Cardinality(S))
  BY <1>3
<1> QED
  BY <1>2, <1>3, <1>4

(***************************************************************************)
(* A sum of zeros is zero.                                                 *)
(***************************************************************************)
LEMMA SumZero ==
    ASSUME NEW S, IsFiniteSet(S)
    PROVE  SumFunction([i \in S |-> 0]) = 0
<1> DEFINE f == [i \in S |-> 0]
<1>1. f \in [S -> Int] /\ \A i \in S : f[i] = 0
  OBVIOUS
<1> HIDE DEF f
<1>2. SumFunction(f) \in Int /\ Cardinality(S) \in Nat
  BY <1>1, SumInt, FS_CardinalityType
<1>3. SumFunction(f) \in Nat
  BY <1>1, SumAtLeast
<1>4. 1 * SumFunction(f) <= 0 * SumFunction(f) + 0 * Cardinality(S)
  <2>1. \A i \in S : 1 * f[i] <= 0 * f[i] + 0
    BY <1>1
  <2> QED
    BY <1>1, <2>1, SumBound
<1>5. SumFunction(f) = 0
  BY <1>2, <1>3, <1>4
<1> QED
  BY <1>5 DEF f

(***************************************************************************)
(* What is added to one number is added to the sum.                        *)
(***************************************************************************)
LEMMA SumUpdate ==
    ASSUME NEW S, IsFiniteSet(S), NEW f \in [S -> Int], NEW g \in [S -> Int],
           NEW k \in S, NEW n \in Int,
           g[k] = f[k] + n,
           \A i \in S : i # k => g[i] = f[i]
    PROVE  SumFunction(g) = SumFunction(f) + n
<1>1. PICK F : Adds(F, f, S) /\ SumFunction(f) = F[S]
  BY SumAdds
<1>2. PICK G : Adds(G, g, S) /\ SumFunction(g) = G[S]
  BY SumAdds
<1> DEFINE T == {s \in SUBSET S : G[s] = F[s] + (IF k \in s THEN n ELSE 0)}
<1>3. {} \in T
  BY <1>1, <1>2 DEF Adds
<1>4. ASSUME NEW s \in SUBSET S, s # {}, s \ {Pick(s)} \in T
      PROVE  s \in T
  <2> DEFINE x == Pick(s)
             r == s \ {x}
  <2>1. x \in s
    BY <1>4, PickIn
  <2>2. F[s] = f[x] + F[r] /\ G[s] = g[x] + G[r]
    BY <1>1, <1>2, <1>4 DEF Adds
  <2>3. f[x] \in Int /\ g[x] \in Int /\ F[r] \in Int /\ G[r] \in Int
    BY <1>1, <1>2, <2>1 DEF Adds
  <2>4. G[r] = F[r] + (IF k \in r THEN n ELSE 0)
    BY <1>4
  <2>5. k \in r <=> k \in s /\ k # x
    OBVIOUS
  <2>6. x \in S /\ g[x] = f[x] + (IF x = k THEN n ELSE 0)
    BY <2>1, <2>3
  <2> HIDE DEF x, r
  <2>7. G[s] = F[s] + (IF k \in s THEN n ELSE 0)
    BY <2>1, <2>2, <2>3, <2>4, <2>5, <2>6
  <2> QED
    BY <2>7
<1>5. SUBSET S \subseteq T
  <2> HIDE DEF T
  <2> QED
    BY <1>3, <1>4, PickInduction
<1>6. S \in T
  BY <1>5
<1> QED
  BY <1>1, <1>2, <1>6

-----------------------------------------------------------------------------
(***************************************************************************)
(* A finite set of numbers has a largest one.                              *)
(***************************************************************************)
LEMMA GreatestExists ==
    ASSUME NEW S, IsFiniteSet(S), S # {}, S \subseteq Int
    PROVE  \E m \in S : \A x \in S : x <= m
<1> DEFINE Greatest(m, s) == m \in s /\ \A x \in s : x <= m
           T == {s \in SUBSET S : s # {} => \E m : Greatest(m, s)}
<1>1. {} \in T
  OBVIOUS
<1>2. ASSUME NEW s \in SUBSET S, s # {}, s \ {Pick(s)} \in T
      PROVE  s \in T
  <2> DEFINE x == Pick(s)
             r == s \ {x}
  <2>1. x \in s /\ x \in Int
    BY <1>2, PickIn
  <2>2. CASE r = {}
    <3>1. Greatest(x, s)
      BY <2>1, <2>2
    <3> QED
      BY <3>1
  <2>3. CASE r # {}
    <3>1. PICK m : Greatest(m, r)
      BY <1>2, <2>3
    <3>2. m \in Int
      BY <3>1
    <3>3. Greatest(IF m <= x THEN x ELSE m, s)
      BY <2>1, <3>1, <3>2
    <3> QED
      BY <3>3
  <2> QED
    BY <2>2, <2>3
<1>3. SUBSET S \subseteq T
  <2> HIDE DEF T
  <2> QED
    BY <1>1, <1>2, PickInduction
<1>4. S \in T
  BY <1>3
<1> QED
  BY <1>4

(***************************************************************************)
(* A fold over a list takes the greatest of its indices off, again and     *)
(* again.                                                                  *)
(***************************************************************************)
LEMMA MaxIn ==
    ASSUME NEW n \in Nat, NEW s \in SUBSET (1..n), s # {}
    PROVE  Max(s) \in s /\ \A x \in s : Max(s) >= x
<1>1. IsFiniteSet(s) /\ s \subseteq Int
  <2>1. PICK S : S = 1..n /\ IsFiniteSet(S)
    BY FS_Interval
  <2>2. IsFiniteSet(s)
    BY <2>1, FS_Subset
  <2> QED
    BY <2>2
<1>2. PICK m \in s : \A x \in s : x <= m
  BY <1>1, GreatestExists
<1>3. m \in s /\ \A x \in s : m >= x
  BY <1>1, <1>2
<1> QED
  BY <1>3 DEF Max

Folds(it, n, base, op) ==
    /\ it[{}] = base
    /\ \A s \in SUBSET (1..n) : s # {} => it[s] = op[<<Max(s), it[s \ {Max(s)}]>>]

(***************************************************************************)
(* A fold has a value on every subset of the indices.                      *)
(***************************************************************************)
LEMMA FoldExists ==
    ASSUME NEW n \in Nat, NEW V, NEW base \in V, NEW op \in [(1..n) \X V -> V]
    PROVE  \E it \in [SUBSET (1..n) -> V] : Folds(it, n, base, op)
<1> DEFINE pick == [s \in SUBSET (1..n) |-> Max(s)]
<1>1. \A s \in SUBSET (1..n) : pick[s] = Max(s) /\ (s # {} => pick[s] \in s)
  BY MaxIn
<1> HIDE DEF pick
<1>2. PICK S : S = 1..n /\ IsFiniteSet(S)
  BY FS_Interval
<1>3. PICK it \in [SUBSET S -> V] : Recurs(it, S, base, pick, op)
  <2>1. op \in [S \X V -> V] /\ \A s \in SUBSET S : s # {} => pick[s] \in s
    BY <1>1, <1>2
  <2> QED
    BY <1>2, <2>1, RecursionExists
<1>4. Folds(it, n, base, op)
  BY <1>1, <1>2, <1>3 DEF Folds, Recurs
<1> QED
  BY <1>2, <1>3, <1>4

(***************************************************************************)
(* What it comes by is in V when each step stays in V.                     *)
(***************************************************************************)
LEMMA FoldTyped ==
    ASSUME NEW n \in Nat, NEW V, NEW it, it[{}] \in V,
           \A s \in SUBSET (1..n) :
               s # {} /\ Max(s) \in s /\ it[s \ {Max(s)}] \in V => it[s] \in V
    PROVE  it[1..n] \in V
<1> DEFINE T == {s \in SUBSET (1..n) : it[s] \in V}
<1>1. PICK S : S = 1..n /\ IsFiniteSet(S)
  BY FS_Interval
<1>2. ASSUME NEW s \in SUBSET S, s # {}, \A x \in s : s \ {x} \in T
      PROVE  s \in T
  BY <1>1, <1>2, MaxIn
<1>3. {} \in T
  OBVIOUS
<1>4. SUBSET S \subseteq T
  <2> HIDE DEF T
  <2> QED
    BY <1>1, <1>2, <1>3, SubsetInduction
<1> QED
  BY <1>1, <1>4

(***************************************************************************)
(* From one number of an interval to the next.                             *)
(***************************************************************************)
LEMMA IntervalInduction ==
    ASSUME NEW m \in Int, NEW n \in Int, m <= n, NEW T, m \in T,
           \A k \in m..n - 1 : k \in T => k + 1 \in T
    PROVE  n \in T
<1> DEFINE S == {k \in m..n : k \in T}
<1>1. IsFiniteSet(S) /\ S # {} /\ S \subseteq Int
  <2>1. IsFiniteSet(m..n)
    BY FS_Interval
  <2>2. m \in S
    OBVIOUS
  <2> QED
    BY <2>1, <2>2, FS_Subset
<1>2. PICK g \in S : \A x \in S : x <= g
  <2> HIDE DEF S
  <2> QED
    BY <1>1, GreatestExists
<1>3. CASE g < n
  <2>1. g \in m..n - 1 /\ g \in T
    BY <1>3
  <2>2. g + 1 \in S
    BY <2>1
  <2> QED
    BY <1>2, <2>1, <2>2
<1> QED
  BY <1>2, <1>3

(***************************************************************************)
(* A recursive function on an interval exists when each of its values      *)
(* depends on those before it.                                             *)
(***************************************************************************)
Causal(step, m, n, V) ==
    /\ step \in [[m..n -> V] \X (m..n) -> V]
    /\ \A g, h \in [m..n -> V], i \in m..n :
          (\A j \in m..i - 1 : g[j] = h[j]) => step[<<g, i>>] = step[<<h, i>>]

LEMMA IntervalRecursion ==
    ASSUME NEW m \in Int, NEW n \in Int, NEW V, NEW v0 \in V,
           NEW step, Causal(step, m, n, V)
    PROVE  \E f \in [m..n -> V] : \A i \in m..n : f[i] = step[<<f, i>>]
<1> DEFINE Upto(f, k) == f \in [m..n -> V] /\ \A i \in m..k - 1 : f[i] = step[<<f, i>>]
           T == {k \in m..n + 1 : \E f : Upto(f, k)}
<1>1. CASE m > n
  <2>1. m..n = {}
    BY <1>1
  <2>2. [i \in m..n |-> v0] \in [m..n -> V]
    OBVIOUS
  <2> QED
    BY <2>1, <2>2, Zenon
<1>2. CASE m <= n
  <2>1. m \in T
    <3>1. Upto([i \in m..n |-> v0], m)
      OBVIOUS
    <3> QED
      BY <1>2, <3>1
  <2>2. ASSUME NEW k \in m..n, k \in T PROVE k + 1 \in T
    <3>1. PICK f : Upto(f, k)
      BY <2>2
    <3> DEFINE g == [f EXCEPT ![k] = step[<<f, k>>]]
    <3>2. step[<<f, k>>] \in V /\ f \in [m..n -> V]
      BY <3>1 DEF Causal
    <3>3. g \in [m..n -> V] /\ g[k] = step[<<f, k>>] /\ \A j \in m..n \ {k} : g[j] = f[j]
      BY <3>2
    <3> HIDE DEF g
    <3>4. \A i \in m..k : (\A j \in m..i - 1 : g[j] = f[j])
      BY <3>3
    <3>5. ASSUME NEW i \in m..k PROVE step[<<g, i>>] = step[<<f, i>>]
      <4>1. i \in m..n /\ \A j \in m..i - 1 : g[j] = f[j]
        BY <3>4
      <4> QED
        BY <3>2, <3>3, <4>1, Zenon DEF Causal
    <3>6. ASSUME NEW i \in m..k PROVE g[i] = step[<<g, i>>]
      <4>1. step[<<g, i>>] = step[<<f, i>>]
        BY <3>5
      <4>2. CASE i = k
        BY <3>3, <4>1, <4>2, Zenon
      <4>3. CASE i # k
        <5>1. i \in m..k - 1 /\ i \in m..n \ {k}
          BY <4>3
        <5>2. f[i] = step[<<f, i>>] /\ g[i] = f[i]
          BY <3>1, <3>3, <5>1, Zenon
        <5> QED
          BY <4>1, <5>2, Zenon
      <4> QED
        BY <4>2, <4>3
    <3>7. Upto(g, k + 1)
      BY <3>3, <3>6
    <3> QED
      BY <3>7
  <2>3. n + 1 \in T
    <3> HIDE DEF T
    <3> QED
      BY <1>2, <2>1, <2>2, IntervalInduction
  <2> QED
    BY <2>3
<1> QED
  BY <1>1, <1>2

(***************************************************************************)
(* And its values are in V when it solves the equation outside of V, too.  *)
(***************************************************************************)
LEMMA IntervalRecursionType ==
    ASSUME NEW m \in Int, NEW n \in Int, NEW V, NEW f, DOMAIN f = m..n,
           \A i \in m..n : (\A j \in m..i - 1 : f[j] \in V) => f[i] \in V
    PROVE  \A i \in m..n : f[i] \in V
<1> SUFFICES ASSUME m <= n PROVE \A i \in m..n : f[i] \in V
  OBVIOUS
<1> DEFINE T == {k \in m..n + 1 : \A j \in m..k - 1 : f[j] \in V}
<1>1. m \in T
  OBVIOUS
<1>2. ASSUME NEW k \in m..n, k \in T PROVE k + 1 \in T
  <2>1. f[k] \in V
    BY <1>2
  <2> QED
    BY <1>2, <2>1
<1>3. n + 1 \in T
  <2> HIDE DEF T
  <2> QED
    BY <1>1, <1>2, IntervalInduction
<1> QED
  BY <1>3

(***************************************************************************)
(* The values of a function of a finite set are finitely many.             *)
(***************************************************************************)
LEMMA ImageFinite ==
    ASSUME NEW S, IsFiniteSet(S), NEW f, DOMAIN f = S
    PROVE  IsFiniteSet({f[x] : x \in S})
<1> DEFINE T == {f[x] : x \in S}
           g == [x \in S |-> f[x]]
<1>1. g \in [S -> T] /\ \A y \in T : \E x \in S : g[x] = y
  OBVIOUS
<1>2. g \in Surjection(S, T)
  <2> HIDE DEF g, T
  <2> QED
    BY <1>1 DEF Surjection
<1> QED
  BY <1>2, FS_Surjection

(***************************************************************************)
(* Pairs grouped by their first component: there are as many as the sum    *)
(* of the sizes of the groups.                                             *)
(***************************************************************************)
Group(D, s) == UNION {{i} \X D[i] : i \in s}

(***************************************************************************)
(* The pairs grouped by their first component number the sum of the        *)
(* groups.                                                                 *)
(***************************************************************************)
LEMMA GroupCounted ==
    ASSUME NEW S, IsFiniteSet(S), NEW D, \A i \in S : IsFiniteSet(D[i]),
           NEW n \in [S -> Int], \A i \in S : n[i] = Cardinality(D[i])
    PROVE  IsFiniteSet(Group(D, S)) /\ Cardinality(Group(D, S)) = SumFunction(n)
<1>1. PICK F : Adds(F, n, S) /\ SumFunction(n) = F[S]
  BY SumAdds
<1> DEFINE T == {s \in SUBSET S : IsFiniteSet(Group(D, s)) /\ Cardinality(Group(D, s)) = F[s]}
<1>2. {} \in T
  <2>1. Group(D, {}) = {} /\ F[{}] = 0
    BY <1>1 DEF Group, Adds
  <2> QED
    BY <2>1, FS_EmptySet
<1>3. ASSUME NEW s \in SUBSET S, s # {}, s \ {Pick(s)} \in T
      PROVE  s \in T
  <2>1. PICK x, r, A, B : /\ x = Pick(s) /\ r = s \ {x}
                          /\ A = Group(D, r) /\ B = {x} \X D[x]
    OBVIOUS
  <2>2. x \in s /\ x \in S /\ r \in SUBSET S
    BY <1>3, <2>1, PickIn
  <2>3. IsFiniteSet(A) /\ Cardinality(A) = F[r]
    BY <1>3, <2>1
  <2>4. IsFiniteSet({x}) /\ Cardinality({x}) = 1 /\ IsFiniteSet(D[x])
        /\ Cardinality(D[x]) \in Nat
    BY <2>2, FS_Singleton, FS_CardinalityType
  <2>5. IsFiniteSet(B) /\ Cardinality(B) = n[x]
    <3>1. IsFiniteSet(B) /\ Cardinality(B) = Cardinality({x}) * Cardinality(D[x])
      BY <2>1, <2>4, FS_Product
    <3>2. 1 * Cardinality(D[x]) = Cardinality(D[x])
      BY <2>4
    <3> QED
      BY <2>2, <2>4, <3>1, <3>2
  <2>6. Group(D, s) = A \cup B
    <3>1. \A p : p \in Group(D, s) <=> \E i \in s : p \in {i} \X D[i]
      BY DEF Group
    <3>2. \A p : p \in A <=> \E i \in r : p \in {i} \X D[i]
      BY <2>1 DEF Group
    <3>3. \A i : i \in s <=> i \in r \/ i = x
      BY <2>1, <2>2
    <3>4. \A p : p \in B <=> p \in {x} \X D[x]
      BY <2>1
    <3> QED
      BY <3>1, <3>2, <3>3, <3>4
  <2>7. A \cap B = {}
    <3>1. \A p \in A : p[1] \in r
      BY <2>1 DEF Group
    <3>2. \A p \in B : p[1] = x
      BY <2>1
    <3>3. x \notin r
      BY <2>1
    <3> QED
      BY <3>1, <3>2, <3>3
  <2>8. IsFiniteSet(A \cup B) /\ Cardinality(A \cup B) = F[r] + n[x]
    <3>1. /\ IsFiniteSet(A \cup B)
          /\ Cardinality(A \cup B) = Cardinality(A) + Cardinality(B) - Cardinality(A \cap B)
      BY <2>3, <2>5, FS_Union
    <3>2. Cardinality(A \cap B) = 0
      BY <2>7, FS_EmptySet
    <3>3. F[r] \in Int /\ n[x] \in Int
      BY <1>1, <2>2 DEF Adds
    <3> QED
      BY <2>3, <2>5, <3>1, <3>2, <3>3
  <2>9. F[s] = n[x] + F[r] /\ F[r] \in Int /\ n[x] \in Int
    BY <1>1, <1>3, <2>1, <2>2 DEF Adds
  <2>10. F[r] + n[x] = F[s]
    BY <2>9
  <2>11. IsFiniteSet(Group(D, s)) /\ Cardinality(Group(D, s)) = F[s]
    BY <2>6, <2>8, <2>10
  <2> QED
    BY <2>11
<1>4. SUBSET S \subseteq T
  <2> HIDE DEF T
  <2> QED
    BY <1>2, <1>3, PickInduction
<1>5. S \in T
  BY <1>4
<1> QED
  BY <1>1, <1>5
=============================================================================
