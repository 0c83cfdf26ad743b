-------------------------------- MODULE Sums --------------------------------
(***************************************************************************)
(* Lemmas about SumFunctionOnSet(f, S), the sum of f[x] for x in the       *)
(* finite set S, which Functions.tla defines as a fold: its recursion has  *)
(* a solution, the solution is the only one, and so the sum can be taken   *)
(* apart at any element.  Induction over S is by a smallest                *)
(* counterexample among the subsets of S (MinimalSubset).                  *)
(***************************************************************************)
EXTENDS Integers, FiniteSets, Functions, FiniteSetTheorems,
        WellFoundedInduction, TLAPS

LOCAL Pick(s) == CHOOSE x \in s : TRUE

\* What the recursion of the fold computes for a set, from a solution h for
\* the smaller ones.
LOCAL Step(f, h, s) == IF s = {} THEN 0 ELSE f[Pick(s)] + h[s \ {Pick(s)}]

\* h solves the recursion for the subsets of S.
LOCAL Adds(f, h, S) == h = [s \in SUBSET S |-> Step(f, h, s)]

\* The solution the definition takes.
LOCAL Adder(f, S) == CHOOSE h : Adds(f, h, S)

-----------------------------------------------------------------------------
(* Among sets of subsets of a finite set there is a minimal one.            *)
LEMMA MinimalSubset ==
  ASSUME NEW S, IsFiniteSet(S), NEW C \in SUBSET (SUBSET S), C # {}
  PROVE  \E X \in C : \A Y \in C : Y \subseteq X => Y = X
<1>1. IsWellFoundedOn(StrictSubsetOrdering(S), FiniteSubsetsOf(S))
  BY FS_StrictSubsetOrderingWellFounded
<1>2. C \subseteq FiniteSubsetsOf(S)
  BY FS_FiniteSubsetsOfFinite
<1>3. \E X \in C : \A Y \in C : <<Y, X>> \notin StrictSubsetOrdering(S)
  BY <1>1, <1>2, WFMin
<1>. QED BY <1>3 DEF StrictSubsetOrdering

(* Two solutions agree on the sets both are solutions for.                  *)
LEMMA AddsUnique ==
  ASSUME NEW f, NEW S, IsFiniteSet(S), NEW T, NEW g, NEW h,
         Adds(f, g, S), Adds(f, h, T), NEW U \in SUBSET (S \cap T)
  PROVE  g[U] = h[U]
<1>. DEFINE C == {s \in SUBSET (S \cap T) : g[s] # h[s]}
<1>1. SUFFICES ASSUME C # {} PROVE FALSE
  OBVIOUS
<1>2. C \subseteq SUBSET S
  OBVIOUS
<1>3. PICK X \in C : \A Y \in C : Y \subseteq X => Y = X
  <2>. HIDE DEF C
  <2>. QED BY <1>1, <1>2, MinimalSubset
<1>4. g[X] = Step(f, g, X) /\ h[X] = Step(f, h, X)
  BY DEF Adds
<1>5. X # {}
  BY <1>4 DEF Step
<1>6. Pick(X) \in X
  BY <1>5 DEF Pick
<1>7. X \ {Pick(X)} \notin C
  BY <1>3, <1>6
<1>8. g[X \ {Pick(X)}] = h[X \ {Pick(X)}]
  BY <1>7
<1>. QED BY <1>4, <1>8 DEF Step

(* There is a solution.                                                     *)
LEMMA AddsExists ==
  ASSUME NEW f, NEW S, IsFiniteSet(S)
  PROVE  \E h : Adds(f, h, S)
<1>. DEFINE C == {X \in SUBSET S : ~ \E h : Adds(f, h, X)}
<1>1. SUFFICES ASSUME C # {} PROVE FALSE
  OBVIOUS
<1>2. PICK X \in C : \A Y \in C : Y \subseteq X => Y = X
  <2>1. C \subseteq SUBSET S
    OBVIOUS
  <2>. HIDE DEF C
  <2>. QED BY <1>1, <2>1, MinimalSubset
<1>3. ASSUME NEW Y \in SUBSET X, Y # X
      PROVE  Adds(f, Adder(f, Y), Y)
  <2>1. \E h : Adds(f, h, Y)
    BY <1>2, <1>3
  <2>. QED BY <2>1 DEF Adder
<1>. DEFINE Val(s) == Adder(f, s)[s]
            g == [s \in SUBSET X |->
                    IF s = {} THEN 0 ELSE f[Pick(s)] + Val(s \ {Pick(s)})]
<1>4. ASSUME NEW s \in SUBSET X, s # X
      PROVE  g[s] = Val(s)
  <2>1. Val(s) = Step(f, Adder(f, s), s)
    BY <1>3, <1>4 DEF Adds
  <2>2. CASE s = {}
    BY <2>1, <2>2 DEF Step
  <2>3. CASE s # {}
    <3>. DEFINE t == s \ {Pick(s)}
    <3>1. Pick(s) \in s
      BY <2>3 DEF Pick
    <3>2. t \in SUBSET X /\ t # X
      BY <3>1
    <3>3. Adds(f, Adder(f, t), t) /\ Adds(f, Adder(f, s), s)
      BY <1>3, <1>4, <3>2
    <3>4. IsFiniteSet(t) /\ t \in SUBSET (t \cap s)
      BY FS_Subset
    <3>5. Adder(f, t)[t] = Adder(f, s)[t]
      <4>. HIDE DEF t
      <4>. QED BY <3>3, <3>4, AddsUnique
    <3>. QED BY <2>1, <2>3, <3>5 DEF Step
  <2>. QED BY <2>2, <2>3
<1>5. ASSUME NEW s \in SUBSET X
      PROVE  g[s] = Step(f, g, s)
  <2>1. CASE s = {}
    BY <2>1 DEF Step
  <2>2. CASE s # {}
    <3>1. Pick(s) \in s
      BY <2>2 DEF Pick
    <3>2. g[s \ {Pick(s)}] = Val(s \ {Pick(s)})
      <4>1. s \ {Pick(s)} \in SUBSET X /\ s \ {Pick(s)} # X
        BY <3>1
      <4>. HIDE DEF g, Val
      <4>. QED BY <4>1, <1>4
    <3>. QED BY <2>2, <3>2 DEF Step
  <2>. QED BY <2>1, <2>2
<1>6. Adds(f, g, X)
  BY <1>5 DEF Adds
<1>. QED BY <1>6

(* The sum, and those of the subsets, by the same solution.                 *)
LEMMA SumIsAdder ==
  ASSUME NEW f, NEW S, IsFiniteSet(S), NEW T \in SUBSET S
  PROVE  /\ Adds(f, Adder(f, S), S)
         /\ SumFunctionOnSet(f, T) = Adder(f, S)[T]
<1>1. Adds(f, Adder(f, S), S)
  BY AddsExists DEF Adder
<1>2. IsFiniteSet(T)
  BY FS_Subset
<1>3. Adds(f, Adder(f, T), T)
  BY <1>2, AddsExists DEF Adder
<1>4. SumFunctionOnSet(f, T) = Adder(f, T)[T]
  BY DEF SumFunctionOnSet, FoldFunctionOnSet, MapThenFoldSet, Adder, Adds, Step, Pick
<1>5. Adder(f, T)[T] = Adder(f, S)[T]
  BY <1>1, <1>2, <1>3, AddsUnique
<1>. QED BY <1>1, <1>4, <1>5

-----------------------------------------------------------------------------
(* The sum over nothing is zero.                                            *)
LEMMA SumEmpty ==
  ASSUME NEW f
  PROVE  SumFunctionOnSet(f, {}) = 0
<1>1. IsFiniteSet({})
  BY FS_EmptySet
<1>2. /\ Adds(f, Adder(f, {}), {})
      /\ SumFunctionOnSet(f, {}) = Adder(f, {})[{}]
  BY <1>1, SumIsAdder
<1>. QED BY <1>2 DEF Adds, Step

(* The recursion: one element, chosen by the definition, and the rest.      *)
LEMMA SumPick ==
  ASSUME NEW f, NEW S, IsFiniteSet(S), S # {}
  PROVE  /\ Pick(S) \in S
         /\ SumFunctionOnSet(f, S) = f[Pick(S)] + SumFunctionOnSet(f, S \ {Pick(S)})
<1>1. Pick(S) \in S
  BY DEF Pick
<1>2. /\ SumFunctionOnSet(f, S) = Adder(f, S)[S]
      /\ SumFunctionOnSet(f, S \ {Pick(S)}) = Adder(f, S)[S \ {Pick(S)}]
  BY SumIsAdder
<1>3. Adder(f, S)[S] = Step(f, Adder(f, S), S)
  <2>1. Adds(f, Adder(f, S), S)
    BY SumIsAdder
  <2>. QED BY <2>1 DEF Adds
<1>. QED BY <1>1, <1>2, <1>3 DEF Step

(* The sum of integers is an integer.                                       *)
LEMMA SumInt ==
  ASSUME NEW f, NEW S, IsFiniteSet(S), \A x \in S : f[x] \in Int
  PROVE  SumFunctionOnSet(f, S) \in Int
<1>. DEFINE C == {X \in SUBSET S : SumFunctionOnSet(f, X) \notin Int}
<1>1. SUFFICES ASSUME C # {} PROVE FALSE
  OBVIOUS
<1>2. PICK X \in C : \A Y \in C : Y \subseteq X => Y = X
  <2>1. C \subseteq SUBSET S
    OBVIOUS
  <2>. HIDE DEF C
  <2>. QED BY <1>1, <2>1, MinimalSubset
<1>3. IsFiniteSet(X)
  BY FS_Subset
<1>4. X # {}
  BY SumEmpty
<1>5. /\ Pick(X) \in X
      /\ SumFunctionOnSet(f, X) = f[Pick(X)] + SumFunctionOnSet(f, X \ {Pick(X)})
  BY <1>3, <1>4, SumPick
<1>6. SumFunctionOnSet(f, X \ {Pick(X)}) \in Int
  BY <1>2, <1>5
<1>. QED BY <1>5, <1>6

(* Any element can be taken off the sum.                                    *)
LEMMA SumRemove ==
  ASSUME NEW f, NEW S, IsFiniteSet(S), \A x \in S : f[x] \in Int, NEW e \in S
  PROVE  SumFunctionOnSet(f, S) = f[e] + SumFunctionOnSet(f, S \ {e})
<1>. DEFINE Sum(X) == SumFunctionOnSet(f, X)
            C == {X \in SUBSET S : \E x \in X : Sum(X) # f[x] + Sum(X \ {x})}
<1>1. SUFFICES ASSUME C # {} PROVE FALSE
  OBVIOUS
<1>2. PICK X \in C : \A Y \in C : Y \subseteq X => Y = X
  <2>1. C \subseteq SUBSET S
    OBVIOUS
  <2>. HIDE DEF C
  <2>. QED BY <1>1, <2>1, MinimalSubset
<1>3. PICK x \in X : Sum(X) # f[x] + Sum(X \ {x})
  OBVIOUS
<1>. DEFINE p == Pick(X)
<1>4. p \in X /\ Sum(X) = f[p] + Sum(X \ {p})
  <2>1. X # {} /\ IsFiniteSet(X)
    BY FS_Subset
  <2>. QED BY <2>1, SumPick
<1>5. p # x
  BY <1>3, <1>4
<1>6. Sum(X \ {p}) = f[x] + Sum((X \ {p}) \ {x})
  <2>1. X \ {p} \notin C /\ x \in X \ {p} /\ X \ {p} \in SUBSET S
    BY <1>2, <1>4, <1>5
  <2>. QED BY <2>1
<1>7. Sum(X \ {x}) = f[p] + Sum((X \ {x}) \ {p})
  <2>1. X \ {x} \notin C /\ p \in X \ {x} /\ X \ {x} \in SUBSET S
    BY <1>2, <1>4, <1>5
  <2>. QED BY <2>1
<1>8. (X \ {x}) \ {p} = (X \ {p}) \ {x}
  OBVIOUS
<1>9. f[p] \in Int /\ f[x] \in Int /\ Sum((X \ {p}) \ {x}) \in Int
  <2>1. IsFiniteSet((X \ {p}) \ {x}) /\ \A y \in (X \ {p}) \ {x} : f[y] \in Int
    BY FS_Subset
  <2>. QED BY <1>4, <2>1, SumInt
<1>. HIDE DEF C, Sum, p
<1>10. Sum((X \ {x}) \ {p}) = Sum((X \ {p}) \ {x})
  BY <1>8
<1>. QED BY <1>3, <1>4, <1>6, <1>7, <1>9, <1>10

(* An element more, its value more.                                         *)
LEMMA SumAdd ==
  ASSUME NEW f, NEW S, IsFiniteSet(S), NEW e, e \notin S,
         \A x \in S \cup {e} : f[x] \in Int
  PROVE  SumFunctionOnSet(f, S \cup {e}) = f[e] + SumFunctionOnSet(f, S)
<1>1. IsFiniteSet(S \cup {e})
  BY FS_AddElement
<1>2. (S \cup {e}) \ {e} = S /\ e \in S \cup {e}
  OBVIOUS
<1>. QED BY <1>1, <1>2, SumRemove

(* A sum of zeros is zero.                                                  *)
LEMMA SumZero ==
  ASSUME NEW f, NEW S, IsFiniteSet(S), \A x \in S : f[x] = 0
  PROVE  SumFunctionOnSet(f, S) = 0
<1>. DEFINE C == {X \in SUBSET S : SumFunctionOnSet(f, X) # 0}
<1>1. SUFFICES ASSUME C # {} PROVE FALSE
  OBVIOUS
<1>2. PICK X \in C : \A Y \in C : Y \subseteq X => Y = X
  <2>1. C \subseteq SUBSET S
    OBVIOUS
  <2>. HIDE DEF C
  <2>. QED BY <1>1, <2>1, MinimalSubset
<1>3. X # {} /\ IsFiniteSet(X)
  BY SumEmpty, FS_Subset
<1>4. /\ Pick(X) \in X
      /\ SumFunctionOnSet(f, X) = f[Pick(X)] + SumFunctionOnSet(f, X \ {Pick(X)})
  BY <1>3, SumPick
<1>5. SumFunctionOnSet(f, X \ {Pick(X)}) = 0
  BY <1>2, <1>4
<1>. QED BY <1>4, <1>5

(* The sum depends on the values only.                                      *)
LEMMA SumSame ==
  ASSUME NEW f, NEW g, NEW S, IsFiniteSet(S), \A x \in S : f[x] = g[x]
  PROVE  SumFunctionOnSet(f, S) = SumFunctionOnSet(g, S)
<1>. DEFINE C == {X \in SUBSET S : SumFunctionOnSet(f, X) # SumFunctionOnSet(g, X)}
<1>1. SUFFICES ASSUME C # {} PROVE FALSE
  OBVIOUS
<1>2. PICK X \in C : \A Y \in C : Y \subseteq X => Y = X
  <2>1. C \subseteq SUBSET S
    OBVIOUS
  <2>. HIDE DEF C
  <2>. QED BY <1>1, <2>1, MinimalSubset
<1>3. X # {} /\ IsFiniteSet(X)
  BY SumEmpty, FS_Subset
<1>4. /\ Pick(X) \in X
      /\ SumFunctionOnSet(f, X) = f[Pick(X)] + SumFunctionOnSet(f, X \ {Pick(X)})
      /\ SumFunctionOnSet(g, X) = g[Pick(X)] + SumFunctionOnSet(g, X \ {Pick(X)})
  BY <1>3, SumPick
<1>5. SumFunctionOnSet(f, X \ {Pick(X)}) = SumFunctionOnSet(g, X \ {Pick(X)})
  BY <1>2, <1>4
<1>. QED BY <1>4, <1>5

(* One value changed: the sum changes by the difference.                    *)
LEMMA SumUpdate ==
  ASSUME NEW f, NEW g, NEW S, IsFiniteSet(S), NEW e \in S,
         \A x \in S : f[x] \in Int /\ g[x] \in Int,
         \A x \in S \ {e} : f[x] = g[x]
  PROVE  SumFunctionOnSet(g, S) = SumFunctionOnSet(f, S) - f[e] + g[e]
<1>1. IsFiniteSet(S \ {e})
  BY FS_Subset
<1>2. SumFunctionOnSet(f, S \ {e}) = SumFunctionOnSet(g, S \ {e})
  BY <1>1, SumSame
<1>3. SumFunctionOnSet(f, S \ {e}) \in Int
  BY <1>1, SumInt
<1>4. /\ SumFunctionOnSet(f, S) = f[e] + SumFunctionOnSet(f, S \ {e})
      /\ SumFunctionOnSet(g, S) = g[e] + SumFunctionOnSet(g, S \ {e})
  BY SumRemove
<1>. QED BY <1>2, <1>3, <1>4

(* Values that are not negative: neither is the sum, and it is no less than *)
(* any of them.                                                             *)
LEMMA SumNat ==
  ASSUME NEW f, NEW S, IsFiniteSet(S), \A x \in S : f[x] \in Nat
  PROVE  /\ SumFunctionOnSet(f, S) \in Nat
         /\ \A x \in S : f[x] <= SumFunctionOnSet(f, S)
<1>. DEFINE C == {X \in SUBSET S : SumFunctionOnSet(f, X) \notin Nat}
<1>1. C = {}
  <2>1. SUFFICES ASSUME C # {} PROVE FALSE
    OBVIOUS
  <2>2. PICK X \in C : \A Y \in C : Y \subseteq X => Y = X
    <3>1. C \subseteq SUBSET S
      OBVIOUS
    <3>. HIDE DEF C
    <3>. QED BY <2>1, <3>1, MinimalSubset
  <2>3. X # {} /\ IsFiniteSet(X)
    <3>1. SumFunctionOnSet(f, {}) \in Nat
      BY SumEmpty
    <3>. QED BY <3>1, FS_Subset
  <2>4. /\ Pick(X) \in X
        /\ SumFunctionOnSet(f, X) = f[Pick(X)] + SumFunctionOnSet(f, X \ {Pick(X)})
    BY <2>3, SumPick
  <2>5. SumFunctionOnSet(f, X \ {Pick(X)}) \in Nat
    BY <2>2, <2>4
  <2>. QED BY <2>4, <2>5
<1>2. \A X \in SUBSET S : SumFunctionOnSet(f, X) \in Nat
  BY <1>1
<1>3. ASSUME NEW x \in S
      PROVE  f[x] <= SumFunctionOnSet(f, S)
  <2>1. SumFunctionOnSet(f, S) = f[x] + SumFunctionOnSet(f, S \ {x})
    BY SumRemove
  <2>. QED BY <1>2, <2>1
<1>. QED BY <1>2, <1>3

(* Induction over the indices of a sequence: a set of indices that holds 0  *)
(* and with each index the next one holds all of them.                      *)
LEMMA IndexInduction ==
  ASSUME NEW n \in Nat, NEW G \in SUBSET (0..n), 0 \in G,
         \A i \in 0..n : i < n /\ i \in G => i + 1 \in G
  PROVE  G = 0..n
<1>. DEFINE C == {X \in SUBSET (0..n) : \E i \in (0..n) \ G : X = 0..i}
<1>1. SUFFICES ASSUME G # 0..n PROVE FALSE
  OBVIOUS
<1>2. C \in SUBSET (SUBSET (0..n)) /\ C # {}
  <2>1. PICK i \in (0..n) \ G : TRUE
    BY <1>1
  <2>2. 0..i \in C
    BY <2>1
  <2>. QED BY <2>2
<1>3. IsFiniteSet(0..n)
  BY FS_Interval
<1>4. PICK X \in C : \A Y \in C : Y \subseteq X => Y = X
  <2>1. PICK S : S = 0..n
    OBVIOUS
  <2>. HIDE DEF C
  <2>2. IsFiniteSet(S) /\ C \in SUBSET (SUBSET S) /\ C # {}
    BY <1>2, <1>3, <2>1
  <2>. QED BY <2>2, MinimalSubset
<1>5. PICK i \in (0..n) \ G : X = 0..i
  BY <1>4
<1>6. i # 0 /\ i - 1 \in 0..n
  BY <1>5
<1>7. i - 1 \notin G
  BY <1>5, <1>6
<1>8. 0..(i - 1) \in C
  BY <1>6, <1>7
<1>9. 0..(i - 1) = X
  <2>1. 0..(i - 1) \subseteq X
    BY <1>5
  <2>. HIDE DEF C
  <2>. QED BY <1>4, <1>8, <2>1
<1>10. i \in 0..(i - 1)
  BY <1>5, <1>9
<1>. QED BY <1>10, <1>5

(* A sum of natural numbers over a part is no larger.                       *)
LEMMA SumPart ==
  ASSUME NEW f, NEW S, IsFiniteSet(S), \A x \in S : f[x] \in Nat, NEW T \in SUBSET S
  PROVE  SumFunctionOnSet(f, T) <= SumFunctionOnSet(f, S)
<1>. DEFINE C == {X \in SUBSET S : ~(\A Y \in SUBSET X : SumFunctionOnSet(f, Y) <= SumFunctionOnSet(f, X))}
<1>1. SUFFICES ASSUME C # {} PROVE FALSE
  OBVIOUS
<1>2. PICK X \in C : \A Y \in C : Y \subseteq X => Y = X
  <2>1. C \subseteq SUBSET S
    OBVIOUS
  <2>. HIDE DEF C
  <2>. QED BY <1>1, <2>1, MinimalSubset
<1>3. PICK Y \in SUBSET X : ~(SumFunctionOnSet(f, Y) <= SumFunctionOnSet(f, X))
  BY <1>2
<1>4. IsFiniteSet(X) /\ IsFiniteSet(Y)
  BY <1>2, <1>3, FS_Subset
<1>5. SumFunctionOnSet(f, X) \in Nat /\ SumFunctionOnSet(f, Y) \in Nat
  BY <1>2, <1>3, <1>4, SumNat
<1>6. PICK e \in X : e \notin Y
  BY <1>3, <1>5
<1>7. SumFunctionOnSet(f, X) = f[e] + SumFunctionOnSet(f, X \ {e})
  <2>1. \A x \in X : f[x] \in Int
    BY <1>2
  <2>. QED BY <1>4, <1>6, <2>1, SumRemove
<1>8. X \ {e} \notin C
  BY <1>2, <1>6
<1>9. SumFunctionOnSet(f, Y) <= SumFunctionOnSet(f, X \ {e})
  BY <1>8, <1>6, <1>2, <1>3
<1>10. IsFiniteSet(X \ {e})
  BY <1>4, FS_Subset
<1>11. SumFunctionOnSet(f, X \ {e}) \in Nat
  <2>1. \A x \in X \ {e} : f[x] \in Nat
    BY <1>2
  <2>. QED BY <1>10, <2>1, SumNat
<1>12. f[e] \in Nat
  BY <1>2, <1>6
<1>. QED BY <1>3, <1>5, <1>7, <1>9, <1>11, <1>12

(* One value grows.                                                         *)
LEMMA SumGrows ==
  ASSUME NEW S, IsFiniteSet(S), NEW f \in [S -> Int], NEW e \in S, NEW r \in Int
  PROVE  /\ SumFunction([f EXCEPT ![e] = @ + r]) = SumFunction(f) + r
         /\ SumFunction(f) \in Int
<1>1. PICK g : g = [f EXCEPT ![e] = @ + r]
  OBVIOUS
<1>2. /\ DOMAIN g = S /\ g[e] = f[e] + r /\ f[e] \in Int
      /\ \A x \in S : f[x] \in Int /\ g[x] \in Int
      /\ \A x \in S \ {e} : f[x] = g[x]
  BY <1>1
<1>3. SumFunctionOnSet(g, S) = SumFunctionOnSet(f, S) - f[e] + g[e]
  <2>1. \A x \in S : f[x] \in Int /\ g[x] \in Int
    BY <1>2
  <2>2. \A x \in S \ {e} : f[x] = g[x]
    BY <1>2
  <2>. QED BY <2>1, <2>2, SumUpdate
<1>4. SumFunctionOnSet(f, S) \in Int
  <2>1. \A x \in S : f[x] \in Int
    BY <1>2
  <2>. QED BY <2>1, SumInt
<1>5. SumFunction(f) = SumFunctionOnSet(f, S) /\ SumFunction(g) = SumFunctionOnSet(g, S)
  <2>1. DOMAIN f = S
    OBVIOUS
  <2>2. SumFunction(f) = SumFunctionOnSet(f, DOMAIN f) /\ SumFunction(g) = SumFunctionOnSet(g, DOMAIN g)
    BY DEF SumFunction
  <2>. QED BY <1>2, <2>1, <2>2
<1>. QED BY <1>1, <1>2, <1>3, <1>4, <1>5
=============================================================================
