----------------------------- MODULE FoldLemmas -----------------------------
(***************************************************************************)
(* Induction, and the folds of the community modules, without theorems     *)
(* that take an operator as a parameter: a predicate is the set of the     *)
(* values it holds of, a step of a fold is a function.  The induction on   *)
(* the naturals comes from the fact that no finite set has an injection    *)
(* into a set with one element less.                                       *)
(***************************************************************************)
EXTENDS Integers, Functions, FiniteSetTheorems, TLAPS

\* Induction on the natural numbers, over a set in place of a predicate.
LEMMA NatSet ==
    ASSUME NEW T, 0 \in T, \A n \in Nat : n \in T => n + 1 \in T
    PROVE  Nat \subseteq T
<1> SUFFICES ASSUME NEW m \in Nat, m \notin T PROVE FALSE
  OBVIOUS
<1> DEFINE S == {i \in 0..m : i \notin T}
           f == [i \in S |-> i - 1]
<1>1. IsFiniteSet(S) /\ IsFiniteSet(S \ {m}) /\ m \in S
  <2>1. IsFiniteSet(0..m) /\ S \in SUBSET (0..m) /\ m \in S
    BY FS_Interval
  <2>2. IsFiniteSet(S)
    BY <2>1, FS_Subset
  <2> QED
    BY <2>1, <2>2, FS_RemoveElement
<1>2. \A i \in S : i - 1 \in S \ {m}
  OBVIOUS
<1>3. f \in Injection(S, S \ {m})
  BY <1>2 DEF Injection, IsInjective
<1>4. Cardinality(S) <= Cardinality(S \ {m})
  BY <1>1, <1>3, FS_Injection
<1>5. Cardinality(S \ {m}) = Cardinality(S) - 1 /\ Cardinality(S) \in Nat
  BY <1>1, FS_RemoveElement, FS_CardinalityType
<1> QED
  BY <1>4, <1>5

\* Induction on the subsets of a finite set, over a family of sets.
LEMMA FinSet ==
    ASSUME NEW S, IsFiniteSet(S), NEW F, {} \in F,
           \A s \in SUBSET S : s # {} /\ (\A x \in s : s \ {x} \in F) => s \in F
    PROVE  SUBSET S \subseteq F
<1> DEFINE T == {n \in Nat : \A s \in SUBSET S : Cardinality(s) = n => s \in F}
<1>0. \A s \in SUBSET S : IsFiniteSet(s) /\ Cardinality(s) \in Nat
  BY FS_Subset, FS_CardinalityType
<1>1. 0 \in T
  BY <1>0, FS_EmptySet
<1>2. ASSUME NEW n \in Nat, n \in T PROVE n + 1 \in T
  <2> SUFFICES ASSUME NEW s \in SUBSET S, Cardinality(s) = n + 1 PROVE s \in F
    OBVIOUS
  <2>1. s # {}
    <3>1. Cardinality({}) = 0 /\ n + 1 # 0
      BY FS_EmptySet
    <3> QED
      BY <3>1
  <2>2. ASSUME NEW x \in s PROVE s \ {x} \in F
    <3>1. IsFiniteSet(s) /\ Cardinality(s \ {x}) = Cardinality(s) - 1
      BY <1>0, FS_RemoveElement
    <3>2. Cardinality(s \ {x}) = n
      BY <3>1
    <3> QED
      BY <1>2, <3>2
  <2> QED
    BY <2>1, <2>2
<1>3. Nat \subseteq T
  <2> HIDE DEF T
  <2> QED
    BY <1>1, <1>2, NatSet
<1> QED
  BY <1>0, <1>3

\* f goes through a set by the elements that c chooses, from base, with a step
\* G[x] for each element x.
Unfolds(f, S, base, c, G) ==
    f = [s \in SUBSET S |-> IF s = {} THEN base ELSE G[c[s]][f[s \ {c[s]}]]]

\* The choice stays in the set, and the steps keep to B.
Foldable(S, B, base, c, G) ==
    /\ IsFiniteSet(S)
    /\ base \in B
    /\ \A s \in SUBSET S : s # {} => c[s] \in s
    /\ G \in [S -> [B -> B]]

\* The fold of every subset of S.
IsFold(f, S, B, base, c, G) ==
    /\ Foldable(S, B, base, c, G)
    /\ f \in [SUBSET S -> B]
    /\ Unfolds(f, S, base, c, G)

\* h satisfies the equations of a fold wherever they are about values in B.
Resembles(h, S, B, base, c, G) ==
    /\ h[{}] = base
    /\ \A s \in SUBSET S : s # {} /\ h[s \ {c[s]}] \in B => h[s] = G[c[s]][h[s \ {c[s]}]]

\* There is a fold.
LEMMA FoldExists ==
    ASSUME NEW S, NEW B, NEW base, NEW c, NEW G, Foldable(S, B, base, c, G)
    PROVE  \E f : IsFold(f, S, B, base, c, G)
<1> USE DEF Foldable
<1> DEFINE level(n) == {s \in SUBSET S : Cardinality(s) <= n}
           Upto(f, n) == f = [s \in level(n) |-> IF s = {} THEN base ELSE G[c[s]][f[s \ {c[s]}]]]
           T == {n \in Nat : \E f \in [level(n) -> B] : Upto(f, n)}
<1>0. \A s \in SUBSET S : /\ IsFiniteSet(s) /\ Cardinality(s) \in Nat /\ Cardinality(s) <= Cardinality(S)
                          /\ (Cardinality(s) = 0 <=> s = {})
  BY FS_Subset, FS_CardinalityType, FS_EmptySet
<1>1. 0 \in T
  <2>1. \A s \in level(0) : s = {}
    BY <1>0
  <2>2. LET f == [s \in level(0) |-> base] IN f \in [level(0) -> B] /\ Upto(f, 0)
    BY <2>1
  <2> QED
    BY <2>2
<1>2. ASSUME NEW n \in Nat, n \in T PROVE n + 1 \in T
  <2>1. PICK f \in [level(n) -> B] : Upto(f, n)
    BY <1>2
  <2> DEFINE g == [s \in level(n + 1) |-> IF s = {} THEN base ELSE G[c[s]][f[s \ {c[s]}]]]
  <2>2. \A s \in level(n + 1) : s # {} => s \ {c[s]} \in level(n) /\ c[s] \in S
    BY SMTT(30), <1>0, FS_RemoveElement
  <2>3. g \in [level(n + 1) -> B]
    <3> HIDE DEF level
    <3> QED
      BY <2>2
  <2>4. level(n) \subseteq level(n + 1)
    BY <1>0
  <2>5. \A s \in level(n) : g[s] = f[s]
    <3> HIDE DEF level
    <3> QED
      BY <2>1, <2>4
  <2>6. Upto(g, n + 1)
    <3> HIDE DEF level
    <3>1. \A s \in level(n + 1) : s # {} => g[s \ {c[s]}] = f[s \ {c[s]}]
      BY <2>2, <2>5
    <3>2. \A s \in level(n + 1) : g[s] = IF s = {} THEN base ELSE G[c[s]][g[s \ {c[s]}]]
      BY <3>1
    <3> QED
      BY <3>2
  <2> HIDE DEF level, Upto, g
  <2>7. \E h \in [level(n + 1) -> B] : Upto(h, n + 1)
    BY <2>3, <2>6
  <2> QED
    BY <2>7
<1>3. Cardinality(S) \in T
  <2> HIDE DEF T
  <2> QED
    BY <1>0, <1>1, <1>2, NatSet
<1>4. level(Cardinality(S)) = SUBSET S
  BY <1>0
<1>5. PICK f \in [level(Cardinality(S)) -> B] : Upto(f, Cardinality(S))
  BY <1>3
<1> HIDE DEF level
<1>6. f \in [SUBSET S -> B] /\ f = [s \in SUBSET S |-> IF s = {} THEN base ELSE G[c[s]][f[s \ {c[s]}]]]
  BY <1>4, <1>5
<1> HIDE DEF Upto, T
<1> QED
  BY <1>6 DEF Unfolds, IsFold

\* And it is the only one.
LEMMA FoldIs ==
    ASSUME NEW S, NEW B, NEW base, NEW c, NEW G, NEW f, IsFold(f, S, B, base, c, G),
           NEW h, Resembles(h, S, B, base, c, G)
    PROVE  \A s \in SUBSET S : h[s] = f[s]
<1> USE DEF IsFold, Foldable, Resembles
<1> DEFINE F == {s \in SUBSET S : h[s] = f[s]}
<1>1. {} \in F
  BY DEF Unfolds
<1>2. ASSUME NEW s \in SUBSET S, s # {}, \A x \in s : s \ {x} \in F PROVE s \in F
  <2>1. h[s \ {c[s]}] = f[s \ {c[s]}] /\ f[s \ {c[s]}] \in B
    BY <1>2
  <2>2. f[s] = G[c[s]][f[s \ {c[s]}]]
    BY <1>2 DEF Unfolds
  <2> QED
    BY <1>2, <2>1, <2>2
<1>3. SUBSET S \subseteq F
  <2> HIDE DEF F
  <2> QED
    BY <1>1, <1>2, FinSet
<1> QED
  BY <1>3

\* Two steps may change places.
Commutes(S, B, G) == \A x, y \in S : \A v \in B : G[x][G[y][v]] = G[y][G[x][v]]

\* Whichever element goes first, the fold is the same.
AnyOrder(f, S, G) == \A s \in SUBSET S : \A x \in s : f[s] = G[x][f[s \ {x}]]

\* A fold with steps that commute goes through a set in any order.
LEMMA FoldCommutes ==
    ASSUME NEW S, NEW B, NEW base, NEW c, NEW G, NEW f, IsFold(f, S, B, base, c, G),
           Commutes(S, B, G)
    PROVE  AnyOrder(f, S, G)
<1> USE DEF IsFold, Foldable, AnyOrder
<1> DEFINE F == {s \in SUBSET S : \A x \in s : f[s] = G[x][f[s \ {x}]]}
<1>1. {} \in F
  OBVIOUS
<1>2. ASSUME NEW s \in SUBSET S, s # {}, \A x \in s : s \ {x} \in F PROVE s \in F
  <2> SUFFICES ASSUME NEW x \in s PROVE f[s] = G[x][f[s \ {x}]]
    OBVIOUS
  <2> DEFINE y == c[s]
  <2>1. y \in s /\ f[s] = G[y][f[s \ {y}]]
    BY <1>2 DEF Unfolds
  <2> HIDE DEF y
  <2>2. CASE x = y
    BY <2>1, <2>2
  <2>3. CASE x # y
    <3>1. f[s \ {y}] = G[x][f[(s \ {y}) \ {x}]] /\ f[s \ {x}] = G[y][f[(s \ {x}) \ {y}]]
      BY <1>2, <2>1, <2>3
    <3>2. (s \ {y}) \ {x} = (s \ {x}) \ {y}
      OBVIOUS
    <3>3. PICK v \in B : v = f[(s \ {x}) \ {y}]
      OBVIOUS
    <3>4. f[s] = G[y][G[x][v]] /\ f[s \ {x}] = G[y][v]
      BY <2>1, <3>1, <3>2, <3>3
    <3>5. G[x][G[y][v]] = G[y][G[x][v]]
      BY <2>1 DEF Commutes
    <3> QED
      BY <3>4, <3>5
  <2> QED
    BY <2>2, <2>3
<1>3. SUBSET S \subseteq F
  <2> HIDE DEF F
  <2> QED
    BY <1>1, <1>2, FinSet
<1> QED
  BY <1>3

\* A finite set of integers has a greatest element.
LEMMA FiniteMax ==
    ASSUME NEW S, IsFiniteSet(S), S \subseteq Int, S # {}
    PROVE  \E m \in S : \A x \in S : x <= m
<1> DEFINE F == {s \in SUBSET S : s # {} => \E m \in s : \A x \in s : x <= m}
<1>1. {} \in F
  OBVIOUS
<1>2. ASSUME NEW s \in SUBSET S, s # {}, \A x \in s : s \ {x} \in F PROVE s \in F
  <2>1. PICK y \in s : TRUE
    BY <1>2
  <2>2. CASE s \ {y} = {}
    BY <2>1, <2>2
  <2>3. CASE s \ {y} # {}
    <3>1. PICK m \in s \ {y} : \A x \in s \ {y} : x <= m
      BY <1>2, <2>1, <2>3
    <3> QED
      BY <2>1, <3>1
  <2> QED
    BY <2>2, <2>3
<1>3. SUBSET S \subseteq F
  <2> HIDE DEF F
  <2> QED
    BY <1>1, <1>2, FinSet
<1> QED
  BY <1>3

\* A finite set of integers has a least element.
LEMMA FiniteMin ==
    ASSUME NEW S, IsFiniteSet(S), S \subseteq Int, S # {}
    PROVE  \E m \in S : \A x \in S : m <= x
<1> DEFINE F == {s \in SUBSET S : s # {} => \E m \in s : \A x \in s : m <= x}
<1>1. {} \in F
  OBVIOUS
<1>2. ASSUME NEW s \in SUBSET S, s # {}, \A x \in s : s \ {x} \in F PROVE s \in F
  <2>1. PICK y \in s : TRUE
    BY <1>2
  <2>2. CASE s \ {y} = {}
    BY <2>1, <2>2
  <2>3. CASE s \ {y} # {}
    <3>1. PICK m \in s \ {y} : \A x \in s \ {y} : m <= x
      BY <1>2, <2>1, <2>3
    <3> QED
      BY <2>1, <3>1
  <2> QED
    BY <2>2, <2>3
<1>3. SUBSET S \subseteq F
  <2> HIDE DEF F
  <2> QED
    BY <1>1, <1>2, FinSet
<1> QED
  BY <1>3

\* The choice that the folds of the community modules make.
AnyOf(S) == [s \in SUBSET S |-> CHOOSE x \in s : TRUE]

\* It is a choice.
LEMMA AnyOfIn == \A S : \A s \in SUBSET S : s # {} => AnyOf(S)[s] \in s
BY DEF AnyOf

\* The steps of a sum.
Adding(w, S) == [x \in S |-> [v \in Int |-> w[x] + v]]

\* SumFunctionOnSet is a fold.
LEMMA SumUnfolds ==
    ASSUME NEW S, IsFiniteSet(S), NEW w, \A x \in S : w[x] \in Int
    PROVE  \E f : /\ IsFold(f, S, Int, 0, AnyOf(S), Adding(w, S))
                  /\ \A s \in SUBSET S : SumFunctionOnSet(w, s) = f[s]
<1> DEFINE It(f, s) == f = [t \in SUBSET s |-> IF t = {} THEN 0 ELSE w[CHOOSE x \in t : TRUE] + f[t \ {CHOOSE x \in t : TRUE}]]
<1>1. \A s : SumFunctionOnSet(w, s) = (CHOOSE f : It(f, s))[s]
  BY DEF SumFunctionOnSet, FoldFunctionOnSet, MapThenFoldSet
<1>2. \A s \in SUBSET S : Foldable(s, Int, 0, AnyOf(s), Adding(w, s))
  <2>1. \A s \in SUBSET S : IsFiniteSet(s) /\ Adding(w, s) \in [s -> [Int -> Int]]
    BY FS_Subset DEF Adding
  <2> QED
    BY <2>1, AnyOfIn DEF Foldable
<1>3. PICK f : IsFold(f, S, Int, 0, AnyOf(S), Adding(w, S))
  BY <1>2, FoldExists
<1>4. ASSUME NEW s \in SUBSET S PROVE SumFunctionOnSet(w, s) = f[s]
  <2> DEFINE h == CHOOSE g : It(g, s)
             k == [t \in SUBSET s |-> f[t]]
  <2>0. \A t \in SUBSET s : t # {} => (CHOOSE x \in t : TRUE) \in t
    OBVIOUS
  <2>1. \A t \in SUBSET s : f[t] = IF t = {} THEN 0 ELSE w[CHOOSE x \in t : TRUE] + f[t \ {CHOOSE x \in t : TRUE}]
    BY <1>3, <2>0 DEF IsFold, Unfolds, AnyOf, Adding
  <2>2. It(k, s)
    BY <2>0, <2>1
  <2>3. It(h, s)
    BY <2>2
  <2>4. k \in [SUBSET s -> Int] /\ Unfolds(k, s, 0, AnyOf(s), Adding(w, s))
    BY <1>3, <2>0, <2>1 DEF IsFold, Unfolds, AnyOf, Adding
  <2>5. h[{}] = 0 /\ \A t \in SUBSET s : t # {} => h[t] = w[AnyOf(s)[t]] + h[t \ {AnyOf(s)[t]}]
    BY <2>3 DEF AnyOf
  <2> HIDE DEF h, k
  <2>6. Resembles(h, s, Int, 0, AnyOf(s), Adding(w, s))
    BY <2>5, AnyOfIn DEF Adding, Resembles
  <2>7. IsFold(k, s, Int, 0, AnyOf(s), Adding(w, s))
    BY <1>2, <2>4 DEF IsFold
  <2>8. \A t \in SUBSET s : h[t] = k[t]
    BY <2>6, <2>7, FoldIs
  <2> QED
    BY <1>1, <2>8 DEF h, k
<1> QED
  BY <1>3, <1>4

\* A sum is its terms, taken one at a time in any order.
LEMMA SumFacts ==
    ASSUME NEW S, IsFiniteSet(S), NEW w, \A x \in S : w[x] \in Int
    PROVE  /\ SumFunctionOnSet(w, {}) = 0
           /\ SumFunctionOnSet(w, S) \in Int
           /\ \A x \in S : SumFunctionOnSet(w, S) = w[x] + SumFunctionOnSet(w, S \ {x})
<1>1. PICK f : /\ IsFold(f, S, Int, 0, AnyOf(S), Adding(w, S))
               /\ \A s \in SUBSET S : SumFunctionOnSet(w, s) = f[s]
  BY SumUnfolds
<1>2. f[{}] = 0 /\ \A s \in SUBSET S : f[s] \in Int
  BY <1>1 DEF IsFold, Unfolds
<1>3. Commutes(S, Int, Adding(w, S))
  BY DEF Adding, Commutes
<1>4. AnyOrder(f, S, Adding(w, S))
  <2>1. IsFold(f, S, Int, 0, AnyOf(S), Adding(w, S))
    BY <1>1
  <2> QED
    BY <1>3, <2>1, FoldCommutes
<1>5. ASSUME NEW x \in S PROVE f[S] = w[x] + f[S \ {x}]
  BY <1>2, <1>4 DEF Adding, AnyOrder
<1>6. S \in SUBSET S /\ {} \in SUBSET S /\ \A x \in S : S \ {x} \in SUBSET S
  OBVIOUS
<1> QED
  BY <1>1, <1>2, <1>5, <1>6

\* A sum with one more term.
LEMMA SumAdd ==
    ASSUME NEW S, IsFiniteSet(S), NEW w, NEW x, x \notin S, \A y \in S \cup {x} : w[y] \in Int
    PROVE  SumFunctionOnSet(w, S \cup {x}) = w[x] + SumFunctionOnSet(w, S)
<1>1. IsFiniteSet(S \cup {x}) /\ x \in S \cup {x} /\ (S \cup {x}) \ {x} = S
  BY FS_AddElement
<1> QED
  BY <1>1, SumFacts

\* Equal terms give equal sums.
LEMMA SumSame ==
    ASSUME NEW S, IsFiniteSet(S), NEW w, NEW v, \A x \in S : w[x] \in Int /\ v[x] = w[x]
    PROVE  SumFunctionOnSet(v, S) = SumFunctionOnSet(w, S)
<1> DEFINE F == {s \in SUBSET S : SumFunctionOnSet(v, s) = SumFunctionOnSet(w, s)}
<1>1. {} \in F
  <2>1. SumFunctionOnSet(v, {}) = 0 /\ SumFunctionOnSet(w, {}) = 0
    BY SumFacts
  <2> QED
    BY <2>1
<1>2. ASSUME NEW s \in SUBSET S, s # {}, \A x \in s : s \ {x} \in F PROVE s \in F
  <2>1. PICK x \in s : TRUE
    BY <1>2
  <2>2. IsFiniteSet(s) /\ \A y \in s : w[y] \in Int /\ v[y] \in Int
    BY FS_Subset
  <2>3. SumFunctionOnSet(v, s) = v[x] + SumFunctionOnSet(v, s \ {x}) /\ SumFunctionOnSet(w, s) = w[x] + SumFunctionOnSet(w, s \ {x})
    BY <2>1, <2>2, SumFacts
  <2>4. SumFunctionOnSet(v, s \ {x}) = SumFunctionOnSet(w, s \ {x}) /\ v[x] = w[x]
    BY <1>2, <2>1
  <2> QED
    BY <2>3, <2>4
<1>3. SUBSET S \subseteq F
  <2> HIDE DEF F
  <2> QED
    BY <1>1, <1>2, FinSet
<1> QED
  BY <1>3

\* Sums of natural numbers are natural, and grow with the set.
LEMMA SumNat ==
    ASSUME NEW S, IsFiniteSet(S), NEW w, \A x \in S : w[x] \in Nat
    PROVE  \A s \in SUBSET S : SumFunctionOnSet(w, s) \in Nat /\ SumFunctionOnSet(w, s) <= SumFunctionOnSet(w, S)
<1> DEFINE F == {t \in SUBSET S : \A s \in SUBSET t : SumFunctionOnSet(w, s) \in Nat /\ SumFunctionOnSet(w, s) <= SumFunctionOnSet(w, t)}
<1>1. {} \in F
  <2>1. SumFunctionOnSet(w, {}) = 0
    BY SumFacts
  <2> QED
    BY <2>1
<1>2. ASSUME NEW t \in SUBSET S, t # {}, \A x \in t : t \ {x} \in F PROVE t \in F
  <2>1. IsFiniteSet(t) /\ \A y \in t : w[y] \in Int
    BY FS_Subset
  <2>2. \A y \in t : w[y] \in Nat /\ SumFunctionOnSet(w, t) = w[y] + SumFunctionOnSet(w, t \ {y}) /\ SumFunctionOnSet(w, t \ {y}) \in Nat
    BY <1>2, <2>1, SumFacts
  <2>3. SumFunctionOnSet(w, t) \in Nat
    <3>1. PICK y \in t : TRUE
      BY <1>2
    <3>2. w[y] \in Nat /\ SumFunctionOnSet(w, t) = w[y] + SumFunctionOnSet(w, t \ {y}) /\ SumFunctionOnSet(w, t \ {y}) \in Nat
      BY <2>2, <3>1
    <3> QED
      BY <3>2
  <2>4. ASSUME NEW s \in SUBSET t, s # t PROVE SumFunctionOnSet(w, s) \in Nat /\ SumFunctionOnSet(w, s) <= SumFunctionOnSet(w, t)
    <3>1. PICK x \in t : x \notin s
      BY <2>4
    <3>2. s \in SUBSET (t \ {x})
      BY <3>1
    <3>3. SumFunctionOnSet(w, s) \in Nat /\ SumFunctionOnSet(w, s) <= SumFunctionOnSet(w, t \ {x})
      BY <1>2, <3>1, <3>2
    <3> QED
      BY <2>2, <3>1, <3>3
  <2> QED
    BY <2>3, <2>4
<1>3. SUBSET S \subseteq F
  <2> HIDE DEF F
  <2> QED
    BY <1>1, <1>2, FinSet
<1> QED
  BY <1>3

\* The sum grows by one where one of its terms does.
LEMMA SumBump ==
    ASSUME NEW S, IsFiniteSet(S), NEW D, S \subseteq D, NEW w \in [D -> Int], NEW x
    PROVE  SumFunctionOnSet([w EXCEPT ![x] = @ + 1], S) = SumFunctionOnSet(w, S) + IF x \in S THEN 1 ELSE 0
<1> DEFINE v == [w EXCEPT ![x] = @ + 1]
<1>0. \A y \in S : w[y] \in Int /\ v[y] \in Int
  OBVIOUS
<1>1. CASE x \in S
  <2>1. SumFunctionOnSet(v, S) = v[x] + SumFunctionOnSet(v, S \ {x}) /\ SumFunctionOnSet(w, S) = w[x] + SumFunctionOnSet(w, S \ {x})
    BY <1>0, <1>1, SumFacts
  <2>2. IsFiniteSet(S \ {x}) /\ \A y \in S \ {x} : w[y] \in Int /\ v[y] = w[y]
    BY FS_RemoveElement
  <2>3. SumFunctionOnSet(v, S \ {x}) = SumFunctionOnSet(w, S \ {x}) /\ SumFunctionOnSet(w, S \ {x}) \in Int
    <3> HIDE DEF v
    <3> QED
      BY <2>2, SumSame, SumFacts
  <2>4. v[x] = w[x] + 1 /\ w[x] \in Int
    BY <1>1
  <2> QED
    BY <1>1, <2>1, <2>3, <2>4
<1>2. CASE x \notin S
  <2>1. \A y \in S : w[y] \in Int /\ v[y] = w[y]
    BY <1>2
  <2>2. SumFunctionOnSet(v, S) = SumFunctionOnSet(w, S) /\ SumFunctionOnSet(w, S) \in Int
    <3> HIDE DEF v
    <3> QED
      BY <2>1, SumSame, SumFacts
  <2> QED
    BY <1>2, <2>2
<1> QED
  BY <1>1, <1>2

\* Terms that are zero may be left out.
LEMMA SumZeros ==
    ASSUME NEW S, IsFiniteSet(S), NEW w, \A x \in S : w[x] \in Int,
           NEW T \in SUBSET S, \A x \in S \ T : w[x] = 0
    PROVE  SumFunctionOnSet(w, S) = SumFunctionOnSet(w, T)
<1> DEFINE F == {s \in SUBSET S : SumFunctionOnSet(w, s) = SumFunctionOnSet(w, s \cap T)}
<1>1. {} \in F
  <2>1. {} \cap T = {}
    OBVIOUS
  <2> QED
    BY <2>1
<1>2. ASSUME NEW s \in SUBSET S, s # {}, \A x \in s : s \ {x} \in F PROVE s \in F
  <2>1. CASE s \subseteq T
    <3>1. s \cap T = s
      BY <2>1
    <3> QED
      BY <3>1
  <2>2. CASE ~(s \subseteq T)
    <3>1. PICK x \in s : x \notin T
      BY <2>2
    <3>2. IsFiniteSet(s) /\ \A y \in s : w[y] \in Int
      BY FS_Subset
    <3>3. SumFunctionOnSet(w, s) = w[x] + SumFunctionOnSet(w, s \ {x}) /\ w[x] = 0
      BY <3>1, <3>2, SumFacts
    <3>4. SumFunctionOnSet(w, s \ {x}) \in Int
      <4>1. IsFiniteSet(s \ {x}) /\ \A y \in s \ {x} : w[y] \in Int
        BY <3>2, FS_RemoveElement
      <4> QED
        BY <4>1, SumFacts
    <3>5. (s \ {x}) \cap T = s \cap T
      BY <3>1
    <3>6. SumFunctionOnSet(w, s \ {x}) = SumFunctionOnSet(w, s \cap T)
      BY <1>2, <3>1, <3>5
    <3> QED
      BY <3>3, <3>4, <3>6
  <2> QED
    BY <2>1, <2>2
<1>3. SUBSET S \subseteq F
  <2> HIDE DEF F
  <2> QED
    BY <1>1, <1>2, FinSet
<1>4. S \cap T = T
  OBVIOUS
<1> QED
  BY <1>3, <1>4
=============================================================================
