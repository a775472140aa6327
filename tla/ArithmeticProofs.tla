-------------------------- MODULE ArithmeticProofs --------------------------
(***************************************************************************)
(* What SumOver computes.  It folds over the elements of a set in an order *)
(* that CHOOSE fixes; the lemmas say that the order does not matter, what  *)
(* one element adds, and what a change of one value does to the sum.  Then *)
(* what loans cost.                                                        *)
(***************************************************************************)
EXTENDS Sums, LoanCalculation, FiniteSetTheorems, TLAPS

-----------------------------------------------------------------------------
(* Induction, said of a set instead of a predicate.                        *)

LEMMA Induction ==
  ASSUME NEW A, 0 \in A, \A n \in Nat : n \in A => n + 1 \in A
  PROVE  Nat \subseteq A
<1> SUFFICES ASSUME Nat \ A # {}
             PROVE  FALSE
  OBVIOUS
<1>1. PICK n \in Nat \ A : \A k \in Nat \ A : <<k, n>> \notin OpToRel(<, Nat)
  BY NatLessThanWellFounded, WFMin
<1>2. \A k \in Nat \ A : ~(k < n)
  BY <1>1 DEF OpToRel
<1>3. n # 0 /\ n - 1 \in Nat
  BY SMT
<1>4. n - 1 \in A
  BY <1>2, <1>3, SMT
<1> QED
  BY <1>3, <1>4, SMT

\* A set of subsets of S that has the empty set, and each set that it has
\* without some element, has all finite ones.
LEMMA SetInduction ==
  ASSUME NEW S, IsFiniteSet(S), NEW A,
         {} \in A,
         \A T \in SUBSET S : T # {} /\ (\A x \in T : T \ {x} \in A) => T \in A
  PROVE  SUBSET S \subseteq A
<1> DEFINE B == {n \in Nat : \A T \in SUBSET S : Cardinality(T) = n => T \in A}
<1>1. \A T \in SUBSET S : IsFiniteSet(T) /\ Cardinality(T) \in Nat
  BY FS_Subset, FS_CardinalityType
<1>2. 0 \in B
  BY <1>1, FS_EmptySet
<1>3. ASSUME NEW n \in Nat, n \in B
      PROVE  n + 1 \in B
  <2> SUFFICES ASSUME NEW T \in SUBSET S, Cardinality(T) = n + 1
               PROVE  T \in A
    OBVIOUS
  <2>1. T # {}
    <3>1. Cardinality({}) # n + 1
      BY FS_EmptySet, SMTT(30)
    <3> QED
      BY <3>1
  <2>2. ASSUME NEW x \in T
        PROVE  T \ {x} \in A
    <3>1. Cardinality(T \ {x}) = n
      BY <1>1, FS_RemoveElement, SMT
    <3> QED
      BY <1>3, <3>1
  <2> QED
    BY <2>1, <2>2
<1>4. Nat \subseteq B
  <2> HIDE DEF B
  <2> QED
    BY <1>2, <1>3, Induction
<1> QED
  BY <1>1, <1>4

\* A finite set of integers has a greatest one.
LEMMA MaxOfFinite ==
  ASSUME NEW T \in SUBSET Int, IsFiniteSet(T), T # {}
  PROVE  Max(T) \in T /\ \A y \in T : y <= Max(T)
<1> DEFINE A == {U \in SUBSET T : U = {} \/ \E m \in U : \A y \in U : m >= y}
<1>1. {} \in A
  OBVIOUS
<1>2. ASSUME NEW U \in SUBSET T, U # {}, \A x \in U : U \ {x} \in A
      PROVE  U \in A
  <2>1. PICK x \in U : TRUE
    BY <1>2
  <2>2. CASE U \ {x} = {}
    <3>1. \A y \in U : x >= y
      BY <2>1, <2>2
    <3> QED
      BY <3>1
  <2>3. CASE U \ {x} # {}
    <3>1. PICK m \in U \ {x} : \A y \in U \ {x} : m >= y
      BY <1>2, <2>1, <2>3
    <3>2. CASE m >= x
      <4>1. \A y \in U : m >= y
        BY <3>1, <3>2
      <4> QED
        BY <3>1, <4>1
    <3>3. CASE ~(m >= x)
      <4>1. \A y \in U : x >= y
        BY <3>1, <3>3
      <4> QED
        BY <4>1
    <3> QED
      BY <3>2, <3>3
  <2> QED
    BY <2>2, <2>3
<1>3. SUBSET T \subseteq A
  <2> HIDE DEF A
  <2> QED
    BY <1>1, <1>2, SetInduction
<1>4. \E m \in T : \A y \in T : m >= y
  BY <1>3
<1>5. Max(T) \in T /\ \A y \in T : Max(T) >= y
  BY <1>4 DEF Max
<1> QED
  BY <1>5

-----------------------------------------------------------------------------
(* The fold.                                                               *)

Pick(s) == CHOOSE x \in s : TRUE

LEMMA Picked == \A s : s # {} => Pick(s) \in s
  BY DEF Pick

\* g adds f over the subsets of S.
Adds(g, f, S) ==
  g = [s \in SUBSET S |-> IF s = {} THEN 0 ELSE f[Pick(s)] + g[s \ {Pick(s)}]]

LEMMA SumIsFold ==
  ASSUME NEW f, NEW S
  PROVE  SumOver(f, S) = (CHOOSE g : Adds(g, f, S))[S]
  BY Zenon DEF SumOver, MapThenSumSet, MapThenFoldSet, Adds, Pick

\* The same for the subsets of at most n elements.
Layer(S, n) == {s \in SUBSET S : Cardinality(s) <= n}

AddsUpTo(g, f, S, n) ==
  g = [s \in Layer(S, n) |-> IF s = {} THEN 0 ELSE f[Pick(s)] + g[s \ {Pick(s)}]]

LEMMA LayerBelow ==
  ASSUME NEW S, IsFiniteSet(S), NEW n \in Nat, NEW s \in Layer(S, n + 1), s # {}
  PROVE  s \ {Pick(s)} \in Layer(S, n)
<1>1. IsFiniteSet(s) /\ Cardinality(s) \in Nat
  BY FS_Subset, FS_CardinalityType DEF Layer
<1>2. Cardinality(s \ {Pick(s)}) = Cardinality(s) - 1
  BY <1>1, Picked, FS_RemoveElement
<1>3. Cardinality(s \ {Pick(s)}) <= n
  BY <1>1, <1>2, SMT DEF Layer
<1> QED
  BY <1>3 DEF Layer

LEMMA FoldExists ==
  ASSUME NEW f, NEW S, IsFiniteSet(S)
  PROVE  \E g : Adds(g, f, S)
<1> DEFINE B == {n \in Nat : \E g : AddsUpTo(g, f, S, n)}
<1>1. \A s \in SUBSET S : IsFiniteSet(s) /\ Cardinality(s) \in Nat
  BY FS_Subset, FS_CardinalityType
<1>2. 0 \in B
  <2>1. Layer(S, 0) = {{}}
    <3>1. \A s \in SUBSET S : Cardinality(s) <= 0 <=> s = {}
      BY <1>1, FS_EmptySet, SMT
    <3> QED
      BY <3>1 DEF Layer
  <2>2. AddsUpTo([s \in {{}} |-> 0], f, S, 0)
    BY <2>1 DEF AddsUpTo
  <2> QED
    BY <2>2
<1>3. ASSUME NEW n \in Nat, n \in B
      PROVE  n + 1 \in B
  <2>1. PICK g : AddsUpTo(g, f, S, n)
    BY <1>3
  <2> DEFINE h == [s \in Layer(S, n + 1) |->
                     IF s = {} THEN 0 ELSE f[Pick(s)] + g[s \ {Pick(s)}]]
  <2>2. Layer(S, n) \subseteq Layer(S, n + 1)
    BY <1>1, SMT DEF Layer
  <2>3. \A s \in Layer(S, n) : h[s] = g[s]
    BY <2>1, <2>2 DEF AddsUpTo
  <2>4. \A s \in Layer(S, n + 1) : s # {} => g[s \ {Pick(s)}] = h[s \ {Pick(s)}]
    BY <2>3, LayerBelow
  <2>5. AddsUpTo(h, f, S, n + 1)
    BY <2>4 DEF AddsUpTo
  <2> QED
    BY <2>5
<1>4. Nat \subseteq B
  <2> HIDE DEF B
  <2> QED
    BY <1>2, <1>3, Induction
<1>5. Layer(S, Cardinality(S)) = SUBSET S
  BY FS_Subset DEF Layer
<1>6. Cardinality(S) \in B
  BY <1>1, <1>4
<1> QED
  BY <1>5, <1>6 DEF Adds, AddsUpTo

\* Two folds agree on what both add.
LEMMA FoldsAgree ==
  ASSUME NEW f, NEW e, NEW S, NEW U, IsFiniteSet(U), U \subseteq S,
         \A x \in U : f[x] = e[x], NEW g, Adds(g, f, S), NEW h, Adds(h, e, U)
  PROVE  g[U] = h[U]
<1> DEFINE A == {t \in SUBSET U : g[t] = h[t]}
<1>1. \A t \in SUBSET U : t \in SUBSET S
  OBVIOUS
<1>2. \A t \in SUBSET U : g[t] = IF t = {} THEN 0 ELSE f[Pick(t)] + g[t \ {Pick(t)}]
  BY <1>1 DEF Adds
<1>3. \A t \in SUBSET U : h[t] = IF t = {} THEN 0 ELSE e[Pick(t)] + h[t \ {Pick(t)}]
  BY DEF Adds
<1>4. {} \in A
  BY <1>2, <1>3
<1>5. ASSUME NEW t \in SUBSET U, t # {}, \A x \in t : t \ {x} \in A
      PROVE  t \in A
  <2>1. Pick(t) \in t
    BY <1>5, Picked
  <2>2. g[t \ {Pick(t)}] = h[t \ {Pick(t)}] /\ f[Pick(t)] = e[Pick(t)]
    BY <1>5, <2>1
  <2> QED
    BY <1>2, <1>3, <1>5, <2>2
<1>6. SUBSET U \subseteq A
  <2> HIDE DEF A
  <2> QED
    BY <1>4, <1>5, SetInduction
<1> QED
  BY <1>6

LEMMA SumOfFold ==
  ASSUME NEW f, NEW S, IsFiniteSet(S)
  PROVE  \E g : Adds(g, f, S) /\ SumOver(f, S) = g[S]
<1>1. Adds(CHOOSE g : Adds(g, f, S), f, S)
  BY FoldExists
<1> QED
  BY <1>1, SumIsFold

\* Equal values have equal sums.
LEMMA SumOfEqual ==
  ASSUME NEW f, NEW e, NEW S, IsFiniteSet(S), \A x \in S : f[x] = e[x]
  PROVE  SumOver(f, S) = SumOver(e, S)
<1>1. PICK g : Adds(g, f, S) /\ SumOver(f, S) = g[S]
  BY SumOfFold
<1>2. PICK h : Adds(h, e, S) /\ SumOver(e, S) = h[S]
  BY SumOfFold
<1>3. Adds(g, f, S) /\ Adds(h, e, S)
  BY <1>1, <1>2
<1>4. g[S] = h[S]
  BY <1>3, FoldsAgree
<1> QED
  BY <1>1, <1>2, <1>4

LEMMA SumOfNone == \A f : SumOver(f, {}) = 0
<1> SUFFICES ASSUME NEW f
             PROVE  SumOver(f, {}) = 0
  OBVIOUS
<1>1. PICK g : Adds(g, f, {}) /\ SumOver(f, {}) = g[{}]
  BY SumOfFold, FS_EmptySet
<1> QED
  BY <1>1 DEF Adds

\* The element that is added last.
LEMMA SumPicked ==
  ASSUME NEW f, NEW S, IsFiniteSet(S), S # {}
  PROVE  SumOver(f, S) = f[Pick(S)] + SumOver(f, S \ {Pick(S)})
<1> DEFINE U == S \ {Pick(S)}
<1>1. IsFiniteSet(U) /\ U \subseteq S
  BY FS_RemoveElement
<1>2. PICK g : Adds(g, f, S) /\ SumOver(f, S) = g[S]
  BY SumOfFold
<1>3. g[S] = f[Pick(S)] + g[U]
  BY <1>2 DEF Adds
<1> HIDE DEF U
<1>4. PICK h : Adds(h, f, U) /\ SumOver(f, U) = h[U]
  BY <1>1, SumOfFold
<1>5. g[U] = h[U]
  BY <1>1, <1>2, <1>4, FoldsAgree
<1> QED
  BY <1>2, <1>3, <1>4, <1>5 DEF U

-----------------------------------------------------------------------------
(* What sums are.                                                          *)

LEMMA SumInt ==
  ASSUME NEW f, NEW S, IsFiniteSet(S), \A x \in S : f[x] \in Int
  PROVE  SumOver(f, S) \in Int
<1> DEFINE A == {t \in SUBSET S : SumOver(f, t) \in Int}
<1>1. {} \in A
  BY SumOfNone
<1>2. ASSUME NEW t \in SUBSET S, t # {}, \A x \in t : t \ {x} \in A
      PROVE  t \in A
  <2>1. Pick(t) \in t /\ IsFiniteSet(t)
    BY <1>2, Picked, FS_Subset
  <2>2. SumOver(f, t \ {Pick(t)}) \in Int /\ f[Pick(t)] \in Int
    BY <1>2, <2>1
  <2> QED
    BY <1>2, <2>1, <2>2, SumPicked
<1>3. SUBSET S \subseteq A
  <2> HIDE DEF A
  <2> QED
    BY <1>1, <1>2, SetInduction
<1> QED
  BY <1>3

LEMMA SumNat ==
  ASSUME NEW f, NEW S, IsFiniteSet(S), \A x \in S : f[x] \in Nat
  PROVE  SumOver(f, S) \in Nat
<1> DEFINE A == {t \in SUBSET S : SumOver(f, t) \in Nat}
<1>1. {} \in A
  BY SumOfNone
<1>2. ASSUME NEW t \in SUBSET S, t # {}, \A x \in t : t \ {x} \in A
      PROVE  t \in A
  <2>1. Pick(t) \in t /\ IsFiniteSet(t)
    BY <1>2, Picked, FS_Subset
  <2>2. SumOver(f, t \ {Pick(t)}) \in Nat /\ f[Pick(t)] \in Nat
    BY <1>2, <2>1
  <2> QED
    BY <1>2, <2>1, <2>2, SumPicked
<1>3. SUBSET S \subseteq A
  <2> HIDE DEF A
  <2> QED
    BY <1>1, <1>2, SetInduction
<1> QED
  BY <1>3

\* What every value is at least, as often as there are values.
LEMMA SumAtLeast ==
  ASSUME NEW f, NEW S, IsFiniteSet(S), NEW b \in Int,
         \A x \in S : f[x] \in Int /\ b <= f[x]
  PROVE  Cardinality(S) * b <= SumOver(f, S)
<1> DEFINE A == {t \in SUBSET S : Cardinality(t) * b <= SumOver(f, t)}
<1>1. {} \in A
  <2>1. SumOver(f, {}) = 0 /\ Cardinality({}) = 0
    BY SumOfNone, FS_EmptySet
  <2>2. 0 * b <= 0
    OBVIOUS
  <2> QED
    BY <2>1, <2>2
<1>2. ASSUME NEW t \in SUBSET S, t # {}, \A x \in t : t \ {x} \in A
      PROVE  t \in A
  <2> DEFINE u == t \ {Pick(t)}
  <2>1. Pick(t) \in t /\ IsFiniteSet(t) /\ IsFiniteSet(u)
    BY <1>2, Picked, FS_Subset
  <2>2. Cardinality(u) * b <= SumOver(f, u) /\ SumOver(f, u) \in Int
    BY <1>2, <2>1, SumInt
  <2>3. SumOver(f, t) = f[Pick(t)] + SumOver(f, u)
    BY <1>2, <2>1, SumPicked
  <2>4. Cardinality(t) = Cardinality(u) + 1 /\ Cardinality(u) \in Nat
    <3>1. Cardinality(u) = Cardinality(t) - 1 /\ Cardinality(t) \in Nat
      BY <2>1, FS_RemoveElement, FS_CardinalityType
    <3>2. Cardinality(u) \in Nat
      BY <2>1, FS_CardinalityType
    <3> HIDE DEF u
    <3> QED
      BY <3>1, <3>2
  <2>5. b <= f[Pick(t)] /\ f[Pick(t)] \in Int
    BY <2>1
  <2>6. PICK n \in Nat, x \in Int, y \in Int :
          n = Cardinality(u) /\ x = f[Pick(t)] /\ y = SumOver(f, u)
    BY <2>2, <2>4, <2>5
  <2>7. (n + 1) * b = n * b + b
    BY SMT
  <2>8. n * b \in Int
    BY SMT
  <2>9. (n + 1) * b <= x + y
    <3>1. n * b <= y /\ b <= x
      BY <2>2, <2>5, <2>6
    <3> QED
      BY <2>7, <2>8, <3>1
  <2> QED
    BY <2>3, <2>4, <2>6, <2>9
<1>3. SUBSET S \subseteq A
  <2> HIDE DEF A
  <2> QED
    BY <1>1, <1>2, SetInduction
<1> QED
  BY <1>3

\* Any element may be added last.
LEMMA SumWithout ==
  ASSUME NEW f, NEW S, IsFiniteSet(S), \A x \in S : f[x] \in Int, NEW z \in S
  PROVE  SumOver(f, S) = f[z] + SumOver(f, S \ {z})
<1> DEFINE A == {t \in SUBSET S : \A x \in t : SumOver(f, t) = f[x] + SumOver(f, t \ {x})}
<1>1. {} \in A
  OBVIOUS
<1>2. ASSUME NEW t \in SUBSET S, t # {}, \A x \in t : t \ {x} \in A
      PROVE  t \in A
  <2> SUFFICES ASSUME NEW x \in t, x # Pick(t)
               PROVE  SumOver(f, t) = f[x] + SumOver(f, t \ {x})
    BY <1>2, SumPicked, FS_Subset
  <2> DEFINE y == Pick(t)
             u == t \ {x, y}
  <2>1. y \in t
    BY Picked
  <2>2. (t \ {y}) \ {x} = u /\ (t \ {x}) \ {y} = u /\ x \in t \ {y} /\ y \in t \ {x}
    BY <2>1
  <2>3. SumOver(f, t) = f[y] + SumOver(f, t \ {y})
    BY SumPicked, FS_Subset
  <2>4. SumOver(f, t \ {y}) = f[x] + SumOver(f, u)
    BY <1>2, <2>1, <2>2
  <2>5. SumOver(f, t \ {x}) = f[y] + SumOver(f, u)
    BY <1>2, <2>2
  <2>6. f[x] \in Int /\ f[y] \in Int
    BY <2>1
  <2>7. SumOver(f, u) \in Int
    BY FS_Subset, SumInt
  <2> HIDE DEF y, u
  <2> QED
    BY <2>3, <2>4, <2>5, <2>6, <2>7, SMT DEF y
<1>3. SUBSET S \subseteq A
  <2> HIDE DEF A
  <2> QED
    BY <1>1, <1>2, SetInduction
<1> QED
  BY <1>3

\* One more element.
LEMMA SumWith ==
  ASSUME NEW f, NEW S, IsFiniteSet(S), NEW z, z \notin S, \A x \in S \cup {z} : f[x] \in Int
  PROVE  SumOver(f, S \cup {z}) = f[z] + SumOver(f, S)
<1>1. (S \cup {z}) \ {z} = S /\ IsFiniteSet(S \cup {z})
  BY FS_AddElement
<1> QED
  BY <1>1, SumWithout

\* One value changes.
LEMMA SumChanged ==
  ASSUME NEW f, NEW e, NEW S, IsFiniteSet(S), NEW z \in S,
         \A x \in S : f[x] \in Int, e[z] \in Int,
         \A x \in S \ {z} : e[x] = f[x]
  PROVE  SumOver(e, S) = SumOver(f, S) - f[z] + e[z]
<1>1. IsFiniteSet(S \ {z})
  BY FS_RemoveElement
<1>2. SumOver(e, S) = e[z] + SumOver(e, S \ {z})
  BY SumWithout
<1>3. SumOver(f, S) = f[z] + SumOver(f, S \ {z})
  BY SumWithout
<1>4. SumOver(e, S \ {z}) = SumOver(f, S \ {z})
  BY <1>1, SumOfEqual
<1>5. SumOver(f, S \ {z}) \in Int
  BY <1>1, SumInt
<1> QED
  BY <1>2, <1>3, <1>4, <1>5, SMT

\* A sum of sums.
LEMMA SumAdded ==
  ASSUME NEW f, NEW e, NEW h, NEW S, IsFiniteSet(S),
         \A x \in S : f[x] \in Int /\ e[x] \in Int /\ h[x] = f[x] + e[x]
  PROVE  SumOver(h, S) = SumOver(f, S) + SumOver(e, S)
<1> DEFINE A == {t \in SUBSET S : SumOver(h, t) = SumOver(f, t) + SumOver(e, t)}
<1>1. {} \in A
  <2>1. SumOver(h, {}) = 0 /\ SumOver(f, {}) = 0 /\ SumOver(e, {}) = 0
    BY SumOfNone
  <2> QED
    BY <2>1
<1>2. ASSUME NEW t \in SUBSET S, t # {}, \A x \in t : t \ {x} \in A
      PROVE  t \in A
  <2> DEFINE u == t \ {Pick(t)}
  <2>1. Pick(t) \in t /\ IsFiniteSet(t) /\ IsFiniteSet(u)
    BY <1>2, Picked, FS_Subset
  <2>2. SumOver(h, t) = h[Pick(t)] + SumOver(h, u)
    BY <1>2, <2>1, SumPicked
  <2>3. SumOver(f, t) = f[Pick(t)] + SumOver(f, u)
    BY <1>2, <2>1, SumPicked
  <2>4. SumOver(e, t) = e[Pick(t)] + SumOver(e, u)
    BY <1>2, <2>1, SumPicked
  <2>5. SumOver(h, u) = SumOver(f, u) + SumOver(e, u)
    BY <1>2, <2>1
  <2>6. SumOver(f, u) \in Int /\ SumOver(e, u) \in Int
    BY <2>1, SumInt
  <2>7. f[Pick(t)] \in Int /\ e[Pick(t)] \in Int /\ h[Pick(t)] = f[Pick(t)] + e[Pick(t)]
    BY <2>1
  <2> HIDE DEF u
  <2> QED
    BY <2>2, <2>3, <2>4, <2>5, <2>6, <2>7
<1>3. SUBSET S \subseteq A
  <2> HIDE DEF A
  <2> QED
    BY <1>1, <1>2, SetInduction
<1> QED
  BY <1>3

LEMMA SumZeros ==
  ASSUME NEW S, IsFiniteSet(S), NEW f, \A x \in S : f[x] = 0
  PROVE  SumOver(f, S) = 0
<1> DEFINE A == {t \in SUBSET S : SumOver(f, t) = 0}
<1>1. {} \in A
  BY SumOfNone
<1>2. ASSUME NEW t \in SUBSET S, t # {}, \A x \in t : t \ {x} \in A
      PROVE  t \in A
  <2>1. Pick(t) \in t /\ IsFiniteSet(t)
    BY <1>2, Picked, FS_Subset
  <2>2. SumOver(f, t \ {Pick(t)}) = 0 /\ f[Pick(t)] = 0
    BY <1>2, <2>1
  <2>3. SumOver(f, t) = f[Pick(t)] + SumOver(f, t \ {Pick(t)})
    BY <1>2, <2>1, SumPicked
  <2> QED
    BY <2>2, <2>3
<1>3. SUBSET S \subseteq A
  <2> HIDE DEF A
  <2> QED
    BY <1>1, <1>2, SetInduction
<1> QED
  BY <1>3

\* Two sets with nothing in common.
LEMMA SumUnion ==
  ASSUME NEW f, NEW S, IsFiniteSet(S), NEW T, IsFiniteSet(T), S \cap T = {},
         \A x \in S \cup T : f[x] \in Int
  PROVE  SumOver(f, S \cup T) = SumOver(f, S) + SumOver(f, T)
<1> DEFINE A == {U \in SUBSET T : SumOver(f, S \cup U) = SumOver(f, S) + SumOver(f, U)}
<1>1. {} \in A
  <2>1. SumOver(f, {}) = 0 /\ SumOver(f, S) \in Int
    BY SumOfNone, SumInt
  <2>2. SumOver(f, S \cup {}) = SumOver(f, S)
    <3>1. S \cup {} = S
      OBVIOUS
    <3> QED
      BY <3>1
  <2> QED
    BY <2>1, <2>2
<1>2. ASSUME NEW U \in SUBSET T, U # {}, \A x \in U : U \ {x} \in A
      PROVE  U \in A
  <2>1. PICK x \in U : TRUE
    BY <1>2
  <2>2. PICK V, W : V = U \ {x} /\ W = S \cup V
    OBVIOUS
  <2>3. S \cup U = W \cup {x} /\ U = V \cup {x} /\ x \notin W /\ x \notin V
    BY <2>1, <2>2
  <2>4. IsFiniteSet(V) /\ IsFiniteSet(W)
    BY <2>2, FS_Subset, FS_Union
  <2>5. SumOver(f, W) = SumOver(f, S) + SumOver(f, V)
    BY <1>2, <2>1, <2>2
  <2>6. \A y \in W \cup {x} : f[y] \in Int
    BY <2>1, <2>2
  <2>7. SumOver(f, W \cup {x}) = f[x] + SumOver(f, W)
    BY <2>3, <2>4, <2>6, SumWith
  <2>8. SumOver(f, V \cup {x}) = f[x] + SumOver(f, V)
    BY <2>2, <2>3, <2>4, <2>6, SumWith
  <2>9. SumOver(f, V) \in Int /\ SumOver(f, S) \in Int /\ f[x] \in Int
    BY <2>2, <2>4, <2>6, SumInt
  <2>10. SumOver(f, S \cup U) = SumOver(f, S) + SumOver(f, U)
    <3>1. SumOver(f, S \cup U) = SumOver(f, W \cup {x}) /\ SumOver(f, U) = SumOver(f, V \cup {x})
      BY <2>3
    <3>2. f[x] + (SumOver(f, S) + SumOver(f, V)) = SumOver(f, S) + (f[x] + SumOver(f, V))
      BY <2>9
    <3> QED
      BY <2>5, <2>7, <2>8, <3>1, <3>2
  <2> QED
    BY <2>10
<1>3. SUBSET T \subseteq A
  <2> HIDE DEF A
  <2> QED
    BY <1>1, <1>2, SetInduction
<1> QED
  BY <1>3

\* Values of zero may be left out.
LEMMA SumSupport ==
  ASSUME NEW e, NEW f, NEW S, IsFiniteSet(S), NEW T \in SUBSET S,
         \A x \in S : e[x] \in Int, \A x \in T : f[x] = e[x], \A x \in S \ T : e[x] = 0
  PROVE  SumOver(e, S) = SumOver(f, T)
<1>1. PICK R : R = S \ T
  OBVIOUS
<1>2. IsFiniteSet(T) /\ IsFiniteSet(R) /\ T \cap R = {} /\ S = T \cup R
  BY <1>1, FS_Subset
<1>3. SumOver(e, T \cup R) = SumOver(e, T) + SumOver(e, R)
  BY <1>2, SumUnion
<1>4. SumOver(e, R) = 0 /\ SumOver(e, T) = SumOver(f, T) /\ SumOver(e, T) \in Int
  BY <1>1, <1>2, SumZeros, SumOfEqual, SumInt
<1> QED
  BY <1>2, <1>3, <1>4

-----------------------------------------------------------------------------
(* The same of functions.                                                  *)

LEMMA SumOfInt ==
  ASSUME NEW S, IsFiniteSet(S), NEW f \in [S -> Int]
  PROVE  SumOf(f) \in Int
  BY SumInt DEF SumOf

LEMMA SumOfNat ==
  ASSUME NEW S, IsFiniteSet(S), NEW f \in [S -> Nat]
  PROVE  SumOf(f) \in Nat
  BY SumNat DEF SumOf

LEMMA SumOfAtLeast ==
  ASSUME NEW S, IsFiniteSet(S), NEW b \in Int, NEW f \in [S -> Int], \A x \in S : b <= f[x]
  PROVE  Cardinality(S) * b <= SumOf(f)
<1>1. Cardinality(S) * b <= SumOver(f, S)
  BY SumAtLeast
<1> QED
  BY <1>1 DEF SumOf

\* A function whose values are all zero.
LEMMA SumOfZeros ==
  ASSUME NEW S, IsFiniteSet(S), NEW f, DOMAIN f = S, \A x \in S : f[x] = 0
  PROVE  SumOf(f) = 0
  BY SumZeros DEF SumOf

LEMMA SumOfChanged ==
  ASSUME NEW S, IsFiniteSet(S), NEW f \in [S -> Int], NEW e \in [S -> Int], NEW z \in S,
         \A x \in S \ {z} : e[x] = f[x]
  PROVE  SumOf(e) = SumOf(f) - f[z] + e[z]
<1>1. SumOver(e, S) = SumOver(f, S) - f[z] + e[z]
  BY SumChanged
<1> QED
  BY <1>1 DEF SumOf

\* One more element in the domain.
LEMMA SumOfExtended ==
  ASSUME NEW S, IsFiniteSet(S), NEW z, z \notin S, NEW f \in [S -> Int],
         NEW e \in [S \cup {z} -> Int], \A x \in S : e[x] = f[x]
  PROVE  SumOf(e) = SumOf(f) + e[z]
<1>1. SumOver(e, S \cup {z}) = e[z] + SumOver(e, S)
  BY SumWith
<1>2. SumOver(e, S) = SumOver(f, S)
  BY SumOfEqual
<1>3. SumOver(f, S) \in Int
  BY SumInt
<1> QED
  BY <1>1, <1>2, <1>3 DEF SumOf

\* One element less.
LEMMA SumOfRestricted ==
  ASSUME NEW S, IsFiniteSet(S), NEW z \in S, NEW e \in [S -> Int],
         NEW f \in [S \ {z} -> Int], \A x \in S \ {z} : f[x] = e[x]
  PROVE  SumOf(f) = SumOf(e) - e[z]
<1>1. SumOver(e, S) = e[z] + SumOver(e, S \ {z})
  BY SumWithout
<1>2. IsFiniteSet(S \ {z})
  BY FS_RemoveElement
<1>3. SumOver(e, S \ {z}) = SumOver(f, S \ {z})
  BY <1>2, SumOfEqual
<1>4. SumOver(f, S \ {z}) \in Int
  BY <1>2, SumInt
<1> QED
  BY <1>1, <1>3, <1>4 DEF SumOf

\* One more row at the end of a column.
LEMMA SumOfAppended ==
  ASSUME NEW n \in Nat, NEW f \in [1 .. n -> Int], NEW e \in [1 .. n + 1 -> Int],
         \A i \in 1 .. n : e[i] = f[i]
  PROVE  SumOf(e) = SumOf(f) + e[n + 1]
<1>1. IsFiniteSet(1 .. n)
  BY FS_Interval
<1>2. PICK S, z : S = 1 .. n /\ z = n + 1
  OBVIOUS
<1>3. 1 .. n + 1 = S \cup {z} /\ z \notin S /\ IsFiniteSet(S)
  BY <1>1, <1>2
<1>4. f \in [S -> Int] /\ e \in [S \cup {z} -> Int] /\ \A x \in S : e[x] = f[x]
  BY <1>2, <1>3
<1>5. SumOver(e, S \cup {z}) = e[z] + SumOver(e, S)
  <2>1. \A x \in S \cup {z} : e[x] \in Int
    BY <1>4
  <2> QED
    BY <1>3, <2>1, SumWith
<1>6. SumOver(e, S) = SumOver(f, S) /\ SumOver(f, S) \in Int
  BY <1>3, <1>4, SumOfEqual, SumInt
<1>7. DOMAIN e = S \cup {z} /\ DOMAIN f = S /\ e[z] \in Int
  BY <1>4
<1>8. SumOf(e) = SumOf(f) + e[z]
  BY <1>5, <1>6, <1>7 DEF SumOf
<1> QED
  BY <1>2, <1>8

LEMMA SumOfAdded ==
  ASSUME NEW S, IsFiniteSet(S), NEW f \in [S -> Int], NEW e \in [S -> Int],
         NEW h \in [S -> Int], \A x \in S : h[x] = f[x] + e[x]
  PROVE  SumOf(h) = SumOf(f) + SumOf(e)
<1>1. SumOver(h, S) = SumOver(f, S) + SumOver(e, S)
  BY SumAdded
<1> QED
  BY <1>1 DEF SumOf

\* Values of zero may be left out.
LEMMA SumOfSupport ==
  ASSUME NEW S, IsFiniteSet(S), NEW T \in SUBSET S, NEW e \in [S -> Int], NEW f \in [T -> Int],
         \A x \in T : f[x] = e[x], \A x \in S \ T : e[x] = 0
  PROVE  SumOf(e) = SumOf(f)
<1>1. SumOver(e, S) = SumOver(f, T)
  BY SumSupport
<1> QED
  BY <1>1 DEF SumOf

\* No value is more than what natural numbers add up to.
LEMMA SumOfBounds ==
  ASSUME NEW S, IsFiniteSet(S), NEW f \in [S -> Nat], NEW z \in S
  PROVE  f[z] <= SumOf(f)
<1>1. SumOver(f, S) = f[z] + SumOver(f, S \ {z})
  BY SumWithout
<1>2. SumOver(f, S \ {z}) \in Nat
  BY FS_RemoveElement, SumNat
<1> QED
  BY <1>1, <1>2 DEF SumOf

-----------------------------------------------------------------------------
(* What calculateLoanDetails promises for all amounts, tenors and rates:   *)
(* Math.round is off by a half at most.                                    *)

\* What \div is.
LEMMA Division ==
  ASSUME NEW m \in Int, NEW k \in Nat \ {0}
  PROVE  /\ m \div k \in Int
         /\ k * (m \div k) <= m
         /\ m < k * (m \div k) + k
  BY SMT

\* Math.round of n / d (loan-calculation.service.ts:51) is off by half of d.
LEMMA RoundedQuotientBound ==
  ASSUME NEW n \in Int, NEW d \in Nat \ {0}
  PROVE  /\ RoundedQuotient(n, d) \in Int
         /\ -d <= 2 * (d * RoundedQuotient(n, d) - n)
         /\ 2 * (d * RoundedQuotient(n, d) - n) <= d
  <1> DEFINE m == 2 * n + d
             k == 2 * d
             q == m \div k
  <1>1. m \in Int /\ k \in Nat \ {0}
    BY SMT
  <1>2. q \in Int /\ k * q <= m /\ m < k * q + k
    BY <1>1, Division
  <1> HIDE DEF q
  <1>3. k * q = 2 * (d * q)
    BY <1>2, SMT
  <1>4. d * q \in Int
    BY <1>2, SMT
  <1>5. -d <= 2 * (d * q - n) /\ 2 * (d * q - n) <= d
    BY <1>2, <1>3, <1>4, SMT
  <1> QED
    BY <1>2, <1>5 DEF RoundedQuotient, q

\* What is rounded from a natural number is not negative.
LEMMA RoundedQuotientNat ==
  ASSUME NEW n \in Nat, NEW d \in Nat \ {0}
  PROVE  RoundedQuotient(n, d) \in Nat
  <1> DEFINE q == RoundedQuotient(n, d)
  <1>1. q \in Int /\ -d <= 2 * (d * q - n)
    BY RoundedQuotientBound, SMT
  <1> HIDE DEF q
  <1>2. ASSUME q <= -1
        PROVE  FALSE
    <2>1. d * q <= -d
      BY <1>1, <1>2, SMT
    <2>2. d * q \in Int
      BY <1>1, SMT
    <2> QED
      BY <1>1, <2>1, <2>2, SMT
  <1>3. q \in Nat
    BY <1>1, <1>2, SMT
  <1> QED
    BY <1>3 DEF q

\* calculateLoanDetails: whatever the rates, nobody repays less than the
\* amount, excess loans are free of interest, and all installments together
\* differ from the total by at most half a unit for each month.
THEOREM LoanDetailsExact ==
  ASSUME NEW s, s.rate \in Nat, s.margin \in Nat,
         NEW type \in LoanTypes, NEW amount \in Nat, NEW tenor \in Nat \ {0}
  PROVE  LET terms == LoanDetails(s, type, amount, tenor)
             difference == tenor * terms.installment - terms.total
         IN  /\ terms.total \in Nat
             /\ terms.total >= amount
             /\ type = "EXCESS_LOAN" => terms.total = amount
             /\ terms.installment \in Nat
             /\ -tenor <= 2 * difference
             /\ 2 * difference <= tenor
  <1> DEFINE interest == TotalInterest(amount, tenor, s.rate)
             margin == MarginAmount(amount, s.margin)
             total == TotalRepayment(type, amount, tenor, s.rate, s.margin)
             installment == MonthlyInstallment(total, tenor)
  <1>1. interest \in Nat
    <2>1. amount * s.rate * tenor \in Nat
      BY SMT
    <2> QED
      BY <2>1, RoundedQuotientNat DEF TotalInterest
  <1>2. margin \in Nat
    <2>1. amount * s.margin \in Nat
      BY SMT
    <2> QED
      BY <2>1, RoundedQuotientNat DEF MarginAmount
  <1> HIDE DEF interest, margin
  <1>3. \/ total = amount
        \/ total = amount + margin + interest
        \/ total = amount + interest
    BY DEF TotalRepayment, LoanTypes, interest, margin
  <1>4. total \in Nat /\ total >= amount
    BY <1>1, <1>2, <1>3, SMT
  <1>5. type = "EXCESS_LOAN" => total = amount
    BY DEF TotalRepayment
  <1> HIDE DEF total
  <1>6. /\ installment \in Nat
        /\ -tenor <= 2 * (tenor * installment - total)
        /\ 2 * (tenor * installment - total) <= tenor
    BY <1>4, RoundedQuotientNat, RoundedQuotientBound DEF MonthlyInstallment
  <1> HIDE DEF installment
  <1>7. /\ LoanDetails(s, type, amount, tenor).total = total
        /\ LoanDetails(s, type, amount, tenor).installment = installment
    BY DEF LoanDetails, total, installment
  <1> QED
    BY <1>4, <1>5, <1>6, <1>7

=============================================================================
