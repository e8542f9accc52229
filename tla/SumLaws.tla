------------------------------- MODULE SumLaws -------------------------------
(* Sums over finite sets: the laws of MapThenSumSet that the proofs need.    *)
(* The induction theorems of the library take a predicate as a parameter;    *)
(* the ones here take the set of subsets that satisfy it.                    *)
EXTENDS Integers, FiniteSets, FiniteSetsExt, FiniteSetTheorems, TLAPS

IsTotal(g, f, S) ==
  g = [s \in SUBSET S |-> IF s = {} THEN 0
                          ELSE LET x == CHOOSE x \in s : TRUE IN f[x] + g[s \ {x}]]

Total(f, S) == LET g == CHOOSE g : IsTotal(g, f, S) IN g[S]

-----------------------------------------------------------------------------
(* Induction over the subsets of a finite set *)

LEMMA SubsetInduction ==
  ASSUME NEW S, IsFiniteSet(S), NEW P,
         \A T \in SUBSET S : (\A U \in SUBSET T : U # T => U \in P) => T \in P
  PROVE  \A T \in SUBSET S : T \in P
<1>. SUFFICES ASSUME NEW B \in SUBSET S, B \notin P
     PROVE  FALSE
  OBVIOUS
<1>. DEFINE Bad == {T \in SUBSET S : T \notin P}
<1>1. Bad # {} /\ Bad \subseteq SUBSET S
  OBVIOUS
<1>2. IsWellFoundedOn(StrictSubsetOrdering(S), SUBSET S)
  <2>1. FiniteSubsetsOf(S) = SUBSET S
    BY FS_FiniteSubsetsOfFinite
  <2>2. IsWellFoundedOn(StrictSubsetOrdering(S), FiniteSubsetsOf(S))
    BY FS_StrictSubsetOrderingWellFounded
  <2>. QED
    BY <2>1, <2>2
<1>3. PICK T \in Bad : \A U \in Bad : ~ (<<U, T>> \in StrictSubsetOrdering(S))
  <2>. HIDE DEF Bad
  <2>. QED
    BY <1>1, <1>2, WFMin
<1>4. \A U \in SUBSET T : U # T => U \in P
  BY <1>3 DEF StrictSubsetOrdering
<1>. QED
  BY <1>3, <1>4

-----------------------------------------------------------------------------
(* The recursion has exactly one solution *)

LEMMA TotalUnique ==
  ASSUME NEW S, IsFiniteSet(S), NEW f, NEW g, NEW h, NEW V \in SUBSET S, NEW W \in SUBSET S,
         IsTotal(g, f, V), IsTotal(h, f, W)
  PROVE  \A s \in SUBSET (V \cap W) : g[s] = h[s]
<1>. DEFINE P == {s \in SUBSET S : s \subseteq V /\ s \subseteq W => g[s] = h[s]}
<1>1. ASSUME NEW s \in SUBSET S, \A u \in SUBSET s : u # s => u \in P
      PROVE  s \in P
  <2>. SUFFICES ASSUME s \subseteq V, s \subseteq W PROVE g[s] = h[s]
    OBVIOUS
  <2>1. CASE s = {}
    BY <2>1 DEF IsTotal
  <2>2. CASE s # {}
    <3>. DEFINE x == CHOOSE x \in s : TRUE
    <3>1. x \in s
      BY <2>2
    <3>. HIDE DEF x
    <3>2. g[s \ {x}] = h[s \ {x}]
      BY <1>1, <3>1
    <3>3. g[s] = f[x] + g[s \ {x}]
      BY <2>2 DEF IsTotal, x
    <3>4. h[s] = f[x] + h[s \ {x}]
      BY <2>2 DEF IsTotal, x
    <3>. QED
      BY <3>2, <3>3, <3>4
  <2>. QED
    BY <2>1, <2>2
<1>2. \A s \in SUBSET S : s \in P
  <2>. HIDE DEF P
  <2>. QED
    BY <1>1, SubsetInduction
<1>. QED
  BY <1>2

LEMMA TotalExists ==
  ASSUME NEW S, IsFiniteSet(S), NEW f
  PROVE  \E g : IsTotal(g, f, S)
<1>. DEFINE P == {T \in SUBSET S : \E g : IsTotal(g, f, T)}
<1>1. ASSUME NEW T \in SUBSET S, \A U \in SUBSET T : U # T => U \in P
      PROVE  T \in P
  <2>. DEFINE G(U) == CHOOSE g : IsTotal(g, f, U)
              h == [s \in SUBSET T |-> IF s = {} THEN 0
                      ELSE LET x == CHOOSE x \in s : TRUE IN f[x] + G(s \ {x})[s \ {x}]]
  <2>1. ASSUME NEW U \in SUBSET T, U # T PROVE IsTotal(G(U), f, U)
    BY <1>1, <2>1
  <2>2. ASSUME NEW U \in SUBSET T, U # T PROVE h[U] = G(U)[U]
    <3>0. IsTotal(G(U), f, U)
      BY <2>1, <2>2
    <3>1. CASE U = {}
      BY <3>0, <3>1 DEF IsTotal
    <3>2. CASE U # {}
      <4>. DEFINE x == CHOOSE x \in U : TRUE
      <4>1. x \in U
        BY <3>2
      <4>2. h[U] = f[x] + G(U \ {x})[U \ {x}]
        BY <3>2
      <4>3. G(U)[U] = f[x] + G(U)[U \ {x}]
        <5>. HIDE DEF G
        <5>. QED
          BY <3>0, <3>2 DEF IsTotal
      <4>4. IsTotal(G(U \ {x}), f, U \ {x})
        <5>. HIDE DEF G, x
        <5>. QED
          BY <2>1, <2>2, <4>1
      <4>5. G(U \ {x})[U \ {x}] = G(U)[U \ {x}]
        <5>. HIDE DEF G, x
        <5>1. \A s \in SUBSET ((U \ {x}) \cap U) : G(U \ {x})[s] = G(U)[s]
          BY <3>0, <4>4, TotalUnique
        <5>. QED
          BY <5>1
      <4>. QED
        BY <4>2, <4>3, <4>5
    <3>. QED
      BY <3>1, <3>2
  <2>3. ASSUME NEW s \in SUBSET T, s # {}
        PROVE  LET x == CHOOSE x \in s : TRUE IN h[s \ {x}] = G(s \ {x})[s \ {x}]
    <3>. DEFINE x == CHOOSE x \in s : TRUE
    <3>1. x \in s
      BY <2>3
    <3>. HIDE DEF h, G, x
    <3>2. h[s \ {x}] = G(s \ {x})[s \ {x}]
      BY <2>2, <3>1
    <3>. QED
      BY <3>2 DEF x
  <2>4. h = [s \in SUBSET T |-> IF s = {} THEN 0
                ELSE LET x == CHOOSE x \in s : TRUE IN f[x] + h[s \ {x}]]
    <3>1. \A s \in SUBSET T : s # {} =>
            (LET x == CHOOSE x \in s : TRUE IN f[x] + h[s \ {x}])
            = (LET x == CHOOSE x \in s : TRUE IN f[x] + G(s \ {x})[s \ {x}])
      <4>. HIDE DEF h, G
      <4>. QED
        BY <2>3
    <3>3. PICK k : k = h
      OBVIOUS
    <3>4. \A s \in SUBSET T : s # {} =>
            (LET x == CHOOSE x \in s : TRUE IN f[x] + k[s \ {x}])
            = (LET x == CHOOSE x \in s : TRUE IN f[x] + G(s \ {x})[s \ {x}])
      <4>. HIDE DEF h, G
      <4>. QED
        BY <3>1, <3>3
    <3>5. k = [s \in SUBSET T |-> IF s = {} THEN 0
                ELSE LET x == CHOOSE x \in s : TRUE IN f[x] + k[s \ {x}]]
      <4>. HIDE DEF G
      <4>. QED
        BY <3>3, <3>4
    <3>. HIDE DEF h, G
    <3>. QED
      BY <3>3, <3>5
  <2>5. IsTotal(h, f, T)
    BY <2>4 DEF IsTotal
  <2>. QED
    BY <2>5
<1>2. \A T \in SUBSET S : T \in P
  <2>. HIDE DEF P
  <2>. QED
    BY <1>1, SubsetInduction
<1>. QED
  BY <1>2

-----------------------------------------------------------------------------
(* The laws *)

LEMMA TotalStep ==
  ASSUME NEW S, IsFiniteSet(S), NEW f
  PROVE  /\ Total(f, {}) = 0
         /\ S # {} => LET x == CHOOSE x \in S : TRUE IN Total(f, S) = f[x] + Total(f, S \ {x})
<1>1. ASSUME NEW U \in SUBSET S PROVE \E g : IsTotal(g, f, U) /\ Total(f, U) = g[U]
  <2>1. IsFiniteSet(U)
    BY FS_Subset
  <2>2. \E g : IsTotal(g, f, U)
    BY <2>1, TotalExists
  <2>. QED
    BY <2>2 DEF Total
<1>2. Total(f, {}) = 0
  BY <1>1 DEF IsTotal
<1>3. ASSUME S # {}
      PROVE  LET x == CHOOSE x \in S : TRUE IN Total(f, S) = f[x] + Total(f, S \ {x})
  <2>. DEFINE x == CHOOSE x \in S : TRUE
  <2>1. x \in S
    BY <1>3
  <2>2. PICK g : IsTotal(g, f, S) /\ Total(f, S) = g[S]
    BY <1>1
  <2>3. g[S] = f[x] + g[S \ {x}]
    BY <1>3, <2>2 DEF IsTotal
  <2>. HIDE DEF x
  <2>4. PICK h : IsTotal(h, f, S \ {x}) /\ Total(f, S \ {x}) = h[S \ {x}]
    BY <1>1
  <2>5. \A s \in SUBSET (S \cap (S \ {x})) : g[s] = h[s]
    BY <2>2, <2>4, TotalUnique
  <2>6. Total(f, S) = f[x] + Total(f, S \ {x})
    BY <2>2, <2>3, <2>4, <2>5
  <2>. QED
    BY <2>6 DEF x
<1>. QED
  BY <1>2, <1>3

LEMMA TotalType ==
  ASSUME NEW S, IsFiniteSet(S), NEW f, \A x \in S : f[x] \in Int
  PROVE  Total(f, S) \in Int
<1>. DEFINE P == {T \in SUBSET S : Total(f, T) \in Int}
<1>1. ASSUME NEW T \in SUBSET S, \A U \in SUBSET T : U # T => U \in P
      PROVE  T \in P
  <2>0. IsFiniteSet(T)
    BY FS_Subset
  <2>1. CASE T = {}
    BY <2>1, TotalStep, <2>0
  <2>2. CASE T # {}
    <3>. DEFINE x == CHOOSE x \in T : TRUE
    <3>1. Total(f, T) = f[x] + Total(f, T \ {x})
      BY <2>0, <2>2, TotalStep
    <3>2. x \in T
      BY <2>2
    <3>. HIDE DEF x
    <3>. QED
      BY <1>1, <3>1, <3>2
  <2>. QED
    BY <2>1, <2>2
<1>2. \A T \in SUBSET S : T \in P
  <2>. HIDE DEF P
  <2>. QED
    BY <1>1, SubsetInduction
<1>. QED
  BY <1>2

(* Any element may be the first. *)
LEMMA TotalRemove ==
  ASSUME NEW S, IsFiniteSet(S), NEW f, \A x \in S : f[x] \in Int, NEW e \in S
  PROVE  Total(f, S) = f[e] + Total(f, S \ {e})
<1>. DEFINE P == {T \in SUBSET S : \A a \in T : Total(f, T) = f[a] + Total(f, T \ {a})}
<1>1. ASSUME NEW T \in SUBSET S, \A U \in SUBSET T : U # T => U \in P
      PROVE  T \in P
  <2>. SUFFICES ASSUME NEW a \in T PROVE Total(f, T) = f[a] + Total(f, T \ {a})
    OBVIOUS
  <2>0. IsFiniteSet(T)
    BY FS_Subset
  <2>. DEFINE x == CHOOSE x \in T : TRUE
  <2>1. Total(f, T) = f[x] + Total(f, T \ {x})
    BY <2>0, TotalStep
  <2>2. x \in T
    OBVIOUS
  <2>. HIDE DEF x
  <2>3. CASE x = a
    BY <2>1, <2>3
  <2>4. CASE x # a
    <3>0. IsFiniteSet(T \ {x, a})
      BY <2>0, FS_Subset
    <3>1. Total(f, T \ {x, a}) \in Int
      BY <3>0, TotalType
    <3>2. Total(f, T \ {x}) = f[a] + Total(f, (T \ {x}) \ {a})
      BY <1>1, <2>2, <2>4
    <3>3. Total(f, T \ {a}) = f[x] + Total(f, (T \ {a}) \ {x})
      BY <1>1, <2>2, <2>4
    <3>4. (T \ {x}) \ {a} = T \ {x, a} /\ (T \ {a}) \ {x} = T \ {x, a}
      OBVIOUS
    <3>5. PICK r \in Int : r = Total(f, T \ {x, a})
      BY <3>1
    <3>6. Total(f, T \ {x}) = f[a] + r /\ Total(f, T \ {a}) = f[x] + r
      BY <3>2, <3>3, <3>4, <3>5
    <3>7. f[x] \in Int /\ f[a] \in Int
      BY <2>2
    <3>. QED
      BY <2>1, <3>6, <3>7
  <2>. QED
    BY <2>3, <2>4
<1>2. \A T \in SUBSET S : T \in P
  <2>. HIDE DEF P
  <2>. QED
    BY <1>1, SubsetInduction
<1>. QED
  BY <1>2

LEMMA TotalAdd ==
  ASSUME NEW S, IsFiniteSet(S), NEW f, NEW e, e \notin S, \A x \in S \cup {e} : f[x] \in Int
  PROVE  Total(f, S \cup {e}) = Total(f, S) + f[e]
<1>1. IsFiniteSet(S \cup {e}) /\ (S \cup {e}) \ {e} = S
  BY FS_AddElement
<1>2. Total(f, S \cup {e}) = f[e] + Total(f, (S \cup {e}) \ {e})
  BY <1>1, TotalRemove
<1>3. PICK T : T = S \cup {e}
  OBVIOUS
<1>4. T \ {e} = S /\ Total(f, T) = f[e] + Total(f, T \ {e})
  BY <1>1, <1>2, <1>3
<1>5. Total(f, S) \in Int
  BY TotalType
<1>6. f[e] \in Int
  OBVIOUS
<1>7. Total(f, T) = f[e] + Total(f, S)
  BY ONLY <1>4
<1>8. Total(f, T) = Total(f, S) + f[e]
  BY ONLY <1>5, <1>6, <1>7
<1>. QED
  BY ONLY <1>3, <1>8

(* A sum of sums, of which equality, order and differences are instances. *)
LEMMA TotalPlus ==
  ASSUME NEW S, IsFiniteSet(S), NEW f, NEW g, NEW h,
         \A x \in S : f[x] \in Int /\ g[x] \in Int /\ h[x] = f[x] + g[x]
  PROVE  Total(h, S) = Total(f, S) + Total(g, S)
<1>. DEFINE P == {T \in SUBSET S : Total(h, T) = Total(f, T) + Total(g, T)}
<1>1. ASSUME NEW T \in SUBSET S, \A U \in SUBSET T : U # T => U \in P
      PROVE  T \in P
  <2>0. IsFiniteSet(T)
    BY FS_Subset
  <2>1. CASE T = {}
    BY <2>0, <2>1, TotalStep
  <2>2. CASE T # {}
    <3>. DEFINE x == CHOOSE x \in T : TRUE
    <3>1. /\ Total(f, T) = f[x] + Total(f, T \ {x})
          /\ Total(g, T) = g[x] + Total(g, T \ {x})
          /\ Total(h, T) = h[x] + Total(h, T \ {x})
      BY <2>0, <2>2, TotalStep
    <3>2. x \in T
      BY <2>2
    <3>. HIDE DEF x
    <3>3. Total(h, T \ {x}) = Total(f, T \ {x}) + Total(g, T \ {x})
      BY <1>1, <3>2
    <3>4. IsFiniteSet(T \ {x})
      BY <2>0, FS_Subset
    <3>5. Total(f, T \ {x}) \in Int /\ Total(g, T \ {x}) \in Int
      BY <3>4, TotalType
    <3>6. f[x] \in Int /\ g[x] \in Int /\ h[x] = f[x] + g[x]
      BY <3>2
    <3>. QED
      BY <3>1, <3>3, <3>5, <3>6
  <2>. QED
    BY <2>1, <2>2
<1>2. \A T \in SUBSET S : T \in P
  <2>. HIDE DEF P
  <2>. QED
    BY <1>1, SubsetInduction
<1>. QED
  BY <1>2

LEMMA TotalBound ==
  ASSUME NEW S, IsFiniteSet(S), NEW f, NEW g,
         \A x \in S : f[x] \in Int /\ g[x] \in Int /\ f[x] <= g[x]
  PROVE  Total(f, S) <= Total(g, S)
<1>. DEFINE P == {T \in SUBSET S : Total(f, T) <= Total(g, T)}
<1>1. ASSUME NEW T \in SUBSET S, \A U \in SUBSET T : U # T => U \in P
      PROVE  T \in P
  <2>0. IsFiniteSet(T)
    BY FS_Subset
  <2>1. CASE T = {}
    <3>1. Total(f, {}) = 0
      BY <2>0, TotalStep
    <3>2. Total(g, {}) = 0
      BY <2>0, TotalStep
    <3>. QED
      BY <2>1, <3>1, <3>2
  <2>2. CASE T # {}
    <3>. DEFINE x == CHOOSE x \in T : TRUE
    <3>1. /\ Total(f, T) = f[x] + Total(f, T \ {x})
          /\ Total(g, T) = g[x] + Total(g, T \ {x})
      BY <2>0, <2>2, TotalStep
    <3>2. x \in T
      BY <2>2
    <3>. HIDE DEF x
    <3>3. Total(f, T \ {x}) <= Total(g, T \ {x})
      BY <1>1, <3>2
    <3>4. IsFiniteSet(T \ {x})
      BY <2>0, FS_Subset
    <3>5. Total(f, T \ {x}) \in Int /\ Total(g, T \ {x}) \in Int
      BY <3>4, TotalType
    <3>6. f[x] \in Int /\ g[x] \in Int /\ f[x] <= g[x]
      BY <3>2
    <3>. QED
      BY <3>1, <3>3, <3>5, <3>6
  <2>. QED
    BY <2>1, <2>2
<1>2. \A T \in SUBSET S : T \in P
  <2>. HIDE DEF P
  <2>. QED
    BY <1>1, SubsetInduction
<1>. QED
  BY <1>2

LEMMA TotalSame ==
  ASSUME NEW S, IsFiniteSet(S), NEW f, NEW g, \A x \in S : f[x] \in Int /\ g[x] = f[x]
  PROVE  Total(g, S) = Total(f, S)
<1>1. \A x \in S : f[x] \in Int /\ g[x] \in Int /\ f[x] <= g[x] /\ g[x] <= f[x]
  OBVIOUS
<1>2. Total(f, S) <= Total(g, S) /\ Total(g, S) <= Total(f, S)
  BY <1>1, TotalBound
<1>3. Total(f, S) \in Int /\ Total(g, S) \in Int
  BY <1>1, TotalType
<1>. QED
  BY <1>2, <1>3

LEMMA TotalChange ==
  ASSUME NEW S, IsFiniteSet(S), NEW f, NEW g, NEW e \in S,
         \A x \in S : f[x] \in Int /\ g[x] \in Int,
         \A x \in S \ {e} : g[x] = f[x]
  PROVE  Total(g, S) = Total(f, S) - f[e] + g[e]
<1>1. IsFiniteSet(S \ {e})
  BY FS_Subset
<1>2. Total(g, S \ {e}) = Total(f, S \ {e}) /\ Total(f, S \ {e}) \in Int
  BY <1>1, TotalSame, TotalType
<1>3. Total(f, S) = f[e] + Total(f, S \ {e}) /\ Total(g, S) = g[e] + Total(g, S \ {e})
  BY TotalRemove
<1>4. f[e] \in Int /\ g[e] \in Int
  OBVIOUS
<1>. QED
  BY <1>2, <1>3, <1>4

LEMMA TotalNat ==
  ASSUME NEW S, IsFiniteSet(S), NEW f, \A x \in S : f[x] \in Nat
  PROVE  /\ Total(f, S) \in Nat
         /\ \A T \in SUBSET S : Total(f, T) <= Total(f, S)
<1>. DEFINE P == {T \in SUBSET S : Total(f, T) \in Nat}
<1>1. ASSUME NEW T \in SUBSET S, \A U \in SUBSET T : U # T => U \in P
      PROVE  T \in P
  <2>0. IsFiniteSet(T)
    BY FS_Subset
  <2>1. CASE T = {}
    BY <2>0, <2>1, TotalStep
  <2>2. CASE T # {}
    <3>. DEFINE x == CHOOSE x \in T : TRUE
    <3>1. Total(f, T) = f[x] + Total(f, T \ {x})
      BY <2>0, <2>2, TotalStep
    <3>2. x \in T
      BY <2>2
    <3>. HIDE DEF x
    <3>. QED
      BY <1>1, <3>1, <3>2
  <2>. QED
    BY <2>1, <2>2
<1>2. \A T \in SUBSET S : T \in P
  <2>. HIDE DEF P
  <2>. QED
    BY <1>1, SubsetInduction
<1>3. ASSUME NEW A \in SUBSET S PROVE Total(f, A) <= Total(f, S)
  <2>. DEFINE Q == {T \in SUBSET S : A \subseteq T => Total(f, A) <= Total(f, T)}
  <2>1. ASSUME NEW T \in SUBSET S, \A U \in SUBSET T : U # T => U \in Q
        PROVE  T \in Q
    <3>. SUFFICES ASSUME A \subseteq T, A # T PROVE Total(f, A) <= Total(f, T)
      BY <1>2
    <3>1. PICK x \in T : x \notin A
      OBVIOUS
    <3>2. IsFiniteSet(T)
      BY FS_Subset
    <3>3. Total(f, T) = f[x] + Total(f, T \ {x})
      BY <3>2, TotalRemove
    <3>4. Total(f, A) <= Total(f, T \ {x})
      BY <2>1, <3>1
    <3>5. Total(f, A) \in Nat /\ Total(f, T \ {x}) \in Nat /\ f[x] \in Nat
      BY <1>2, <3>1
    <3>. QED
      BY <3>3, <3>4, <3>5
  <2>2. \A T \in SUBSET S : T \in Q
    <3>. HIDE DEF Q
    <3>. QED
      BY <2>1, SubsetInduction
  <2>. QED
    BY <2>2
<1>. QED
  BY <1>2, <1>3

LEMMA TotalConstant ==
  ASSUME NEW S, IsFiniteSet(S), NEW f, NEW c \in Int, \A x \in S : f[x] = c
  PROVE  Total(f, S) = c * Cardinality(S)
<1>. DEFINE P == {T \in SUBSET S : Total(f, T) = c * Cardinality(T)}
<1>1. ASSUME NEW T \in SUBSET S, \A U \in SUBSET T : U # T => U \in P
      PROVE  T \in P
  <2>0. IsFiniteSet(T)
    BY FS_Subset
  <2>1. CASE T = {}
    BY <2>0, <2>1, TotalStep, FS_EmptySet
  <2>2. CASE T # {}
    <3>. DEFINE x == CHOOSE x \in T : TRUE
    <3>1. Total(f, T) = f[x] + Total(f, T \ {x})
      BY <2>0, <2>2, TotalStep
    <3>2. x \in T
      BY <2>2
    <3>. HIDE DEF x
    <3>3. PICK n \in Nat : n = Cardinality(T \ {x}) /\ Cardinality(T) = n + 1
      <4>1. /\ IsFiniteSet(T \ {x})
            /\ Cardinality(T \ {x}) = Cardinality(T) - 1
        BY <2>0, <3>2, FS_RemoveElement
      <4>2. Cardinality(T) \in Nat /\ Cardinality(T \ {x}) \in Nat
        BY <2>0, <4>1, FS_CardinalityType
      <4>. QED
        BY <4>1, <4>2
    <3>5. Total(f, T \ {x}) = c * n
      BY <1>1, <3>2, <3>3
    <3>6. c + c * n = c * (n + 1)
      OBVIOUS
    <3>. QED
      BY <3>1, <3>2, <3>3, <3>5, <3>6
  <2>. QED
    BY <2>1, <2>2
<1>2. \A T \in SUBSET S : T \in P
  <2>. HIDE DEF P
  <2>. QED
    BY <1>1, SubsetInduction
<1>. QED
  BY <1>2

LEMMA TotalCounts ==
  ASSUME NEW S, IsFiniteSet(S), NEW f, NEW A, \A x \in S : f[x] = IF x \in A THEN 1 ELSE 0
  PROVE  Total(f, S) = Cardinality({x \in S : x \in A})
<1>. DEFINE In(T) == {x \in T : x \in A}
            P == {T \in SUBSET S : Total(f, T) = Cardinality(In(T))}
<1>1. ASSUME NEW T \in SUBSET S, \A U \in SUBSET T : U # T => U \in P
      PROVE  T \in P
  <2>0. IsFiniteSet(T)
    BY FS_Subset
  <2>1. CASE T = {}
    <3>1. In(T) = {}
      BY <2>1
    <3>2. Cardinality(In(T)) = 0
      <4>. HIDE DEF In
      <4>. QED
        BY <3>1, FS_EmptySet
    <3>3. Total(f, T) = 0
      BY <2>0, <2>1, TotalStep
    <3>. HIDE DEF In
    <3>. QED
      BY <3>2, <3>3
  <2>2. CASE T # {}
    <3>. DEFINE x == CHOOSE x \in T : TRUE
    <3>1. Total(f, T) = f[x] + Total(f, T \ {x})
      BY <2>0, <2>2, TotalStep
    <3>2. x \in T
      BY <2>2
    <3>. HIDE DEF x
    <3>3. Total(f, T \ {x}) = Cardinality(In(T \ {x}))
      BY <1>1, <3>2
    <3>4. IsFiniteSet(In(T))
      BY <2>0, FS_Subset
    <3>5. CASE x \in A
      <4>1. In(T \ {x}) = In(T) \ {x} /\ x \in In(T)
        BY <3>2, <3>5
      <4>2. Cardinality(In(T) \ {x}) = Cardinality(In(T)) - 1
        <5>. HIDE DEF In
        <5>. QED
          BY <3>4, <4>1, FS_RemoveElement
      <4>3. Cardinality(In(T)) \in Nat
        BY <3>4, FS_CardinalityType
      <4>4. f[x] = 1
        BY <3>2, <3>5
      <4>5. PICK n \in Nat : n = Cardinality(In(T))
        BY <4>3
      <4>6. Total(f, T) = n
        <5>. HIDE DEF In
        <5>1. Total(f, T \ {x}) = Cardinality(In(T) \ {x})
          BY ONLY <3>3, <4>1
        <5>2. Total(f, T \ {x}) = n - 1
          BY ONLY <4>2, <4>5, <5>1
        <5>. QED
          BY ONLY <3>1, <4>4, <4>5, <5>2
      <4>. QED
        BY ONLY <4>5, <4>6, T \in SUBSET S
    <3>6. CASE x \notin A
      <4>1. In(T \ {x}) = In(T)
        BY <3>6
      <4>2. f[x] = 0
        BY <3>2, <3>6
      <4>3. Cardinality(In(T)) \in Nat
        BY <3>4, FS_CardinalityType
      <4>5. PICK n \in Nat : n = Cardinality(In(T))
        BY <4>3
      <4>6. Total(f, T) = n
        <5>. HIDE DEF In
        <5>. QED
          BY <3>1, <3>3, <4>1, <4>2, <4>3, <4>5
      <4>. QED
        BY ONLY <4>5, <4>6, T \in SUBSET S
    <3>. QED
      BY <3>5, <3>6
  <2>. QED
    BY <2>1, <2>2
<1>2. \A T \in SUBSET S : T \in P
  <2>. HIDE DEF P
  <2>. QED
    BY <1>1, SubsetInduction
<1>. QED
  BY <1>2

\* Elements that count for nothing may be left out.
LEMMA TotalFilter ==
  ASSUME NEW S, IsFiniteSet(S), NEW A, NEW f, NEW g,
         \A x \in S : f[x] \in Int /\ f[x] = IF x \in A THEN g[x] ELSE 0
  PROVE  Total(f, S) = Total(g, S \cap A)
<1>. DEFINE P == {T \in SUBSET S : Total(f, T) = Total(g, T \cap A)}
<1>1. ASSUME NEW T \in SUBSET S, \A U \in SUBSET T : U # T => U \in P
      PROVE  T \in P
  <2>0. IsFiniteSet(T) /\ IsFiniteSet(T \cap A)
    BY FS_Subset
  <2>1. CASE T = {}
    <3>1. T \cap A = {}
      BY <2>1
    <3>2. Total(g, T \cap A) = 0
      BY <2>0, <3>1, TotalStep
    <3>3. Total(f, T) = 0
      BY <2>0, <2>1, TotalStep
    <3>. QED
      BY <3>2, <3>3
  <2>2. CASE T # {}
    <3>1. PICK x \in T : TRUE
      BY <2>2
    <3>2. \A y \in T : f[y] \in Int
      OBVIOUS
    <3>3. Total(f, T) = f[x] + Total(f, T \ {x})
      BY <2>0, <3>2, TotalRemove
    <3>4. Total(f, T \ {x}) = Total(g, (T \ {x}) \cap A)
      BY <1>1
    <3>5. CASE x \in A
      <4>1. PICK V : V = T \cap A
        OBVIOUS
      <4>2. IsFiniteSet(V) /\ x \in V /\ \A y \in V : g[y] \in Int
        BY <2>0, <3>5, <4>1
      <4>3. Total(g, V) = g[x] + Total(g, V \ {x})
        BY ONLY <4>2, TotalRemove
      <4>4. (T \ {x}) \cap A = V \ {x} /\ f[x] = g[x]
        BY <3>5, <4>1
      <4>. QED
        BY <3>3, <3>4, <4>1, <4>3, <4>4
    <3>6. CASE x \notin A
      <4>1. (T \ {x}) \cap A = T \cap A /\ f[x] = 0
        BY <3>6
      <4>2. Total(f, T \ {x}) \in Int
        <5>1. IsFiniteSet(T \ {x}) /\ \A y \in T \ {x} : f[y] \in Int
          BY <2>0, <3>2, FS_Subset
        <5>. QED
          BY <5>1, TotalType
      <4>3. Total(f, T) = Total(f, T \ {x})
        BY <3>3, <4>1, <4>2
      <4>. QED
        BY <3>4, <4>1, <4>3
    <3>. QED
      BY <3>5, <3>6
  <2>. QED
    BY <2>1, <2>2
<1>2. \A T \in SUBSET S : T \in P
  <2>. HIDE DEF P
  <2>. QED
    BY <1>1, SubsetInduction
<1>. QED
  BY <1>2

=============================================================================
