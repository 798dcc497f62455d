----------------------------- MODULE SumLemmas -----------------------------
(***************************************************************************)
(* Facts about the sums the Governance model takes over its vote records   *)
(* (MapThenSumSet of FiniteSetsExt, SumFunctionOnSet of Functions).  Both  *)
(* are the fold MapThenFoldSet: a function iter on the subsets of the set, *)
(* iter[s] = f(x) + iter[s \ {x}] for the element x that CHOOSE picks in s.*)
(*                                                                         *)
(* Every proof here is an induction on the size of a subset, written as    *)
(* "a smallest counterexample cannot exist" (MinCard): the library's       *)
(* induction theorems take the induction predicate as an operator          *)
(* argument, which the provers cannot instantiate, while MinCard needs     *)
(* only the set of counterexamples.                                        *)
(***************************************************************************)
EXTENDS Integers, FiniteSets, Functions, FiniteSetsExt, FiniteSetTheorems, TLAPS

\* The element the fold takes out of s first.
Chosen(s) == CHOOSE x \in s : TRUE

\* it is the fold's iter function for the sum of F over S.
SumIter(F, S, it) ==
    it = [s \in SUBSET S |-> IF s = {} THEN 0
                             ELSE F[Chosen(s)] + it[s \ {Chosen(s)}]]

\* The sum of F over S is the value at S of the fold's iter function.
LEMMA SumIsIter ==
    ASSUME NEW F, NEW S
    PROVE  SumFunctionOnSet(F, S) = (CHOOSE it : SumIter(F, S, it))[S]
BY DEF SumFunctionOnSet, FoldFunctionOnSet, MapThenFoldSet, SumIter, Chosen

\* A sum over a set written with an operator is the sum of the function
\* that operator defines on the set.
LEMMA MapSumIsFunctionSum ==
    ASSUME NEW S, NEW e(_)
    PROVE  MapThenSumSet(e, S) = SumFunctionOnSet([x \in S |-> e(x)], S)
BY DEF SumFunctionOnSet, FoldFunctionOnSet, MapThenFoldSet, MapThenSumSet

\* A non-empty family of finite sets has a member of least size.
LEMMA MinCard ==
    ASSUME NEW Bad, Bad # {}, \A T \in Bad : IsFiniteSet(T)
    PROVE  \E T \in Bad : \A U \in Bad : Cardinality(T) <= Cardinality(U)
<1>. DEFINE C == {Cardinality(T) : T \in Bad}
<1>1. C \subseteq Nat /\ C # {}
  BY FS_CardinalityType
<1>2. PICK m \in C : \A y \in C : ~(<<y, m>> \in OpToRel(<, Nat))
  BY <1>1, NatLessThanWellFounded, WFMin
<1>3. ASSUME NEW y \in C, y < m PROVE <<y, m>> \in OpToRel(<, Nat)
  BY <1>1, <1>3, Zenon DEF OpToRel
<1>4. \A y \in C : ~(y < m)
  BY <1>2, <1>3, Zenon
<1>5. \A y \in C : m <= y
  BY <1>1, <1>4
<1>. QED  BY <1>5

\* Inside a subset of S, the element the fold takes out and what is left.
LEMMA ChosenFacts ==
    ASSUME NEW S, IsFiniteSet(S), NEW s \in SUBSET S, s # {}
    PROVE  /\ Chosen(s) \in s
           /\ s \ {Chosen(s)} \in SUBSET S
           /\ IsFiniteSet(s) /\ IsFiniteSet(s \ {Chosen(s)})
           /\ Cardinality(s \ {Chosen(s)}) < Cardinality(s)
<1>1. Chosen(s) \in s
  BY DEF Chosen
<1>2. IsFiniteSet(s) /\ Cardinality(s) \in Nat
  BY FS_Subset, FS_CardinalityType
<1>3. IsFiniteSet(s \ {Chosen(s)}) /\ Cardinality(s \ {Chosen(s)}) = Cardinality(s) - 1
  BY <1>1, <1>2, FS_RemoveElement
<1>. QED  BY <1>1, <1>2, <1>3

\* One step of the fold.
LEMMA IterStep ==
    ASSUME NEW F, NEW S, NEW it, SumIter(F, S, it), NEW s \in SUBSET S
    PROVE  it[s] = IF s = {} THEN 0 ELSE F[Chosen(s)] + it[s \ {Chosen(s)}]
BY DEF SumIter

\* Two iter functions of the same F, on S and on any B, agree on the
\* subsets they share: the fold's value on s does not depend on the set it
\* was defined over.
LEMMA IterAgree ==
    ASSUME NEW F, NEW S, NEW B, IsFiniteSet(S), NEW i, NEW j,
           SumIter(F, S, i), SumIter(F, B, j)
    PROVE  \A s \in SUBSET (S \cap B) : i[s] = j[s]
<1>. DEFINE Bad == {s \in SUBSET (S \cap B) : i[s] # j[s]}
<1>. SUFFICES ASSUME Bad # {} PROVE FALSE
  OBVIOUS
<1>1. \A T \in Bad : IsFiniteSet(T)
  BY FS_Subset
<1>2. PICK s \in Bad : \A U \in Bad : Cardinality(s) <= Cardinality(U)
  BY <1>1, MinCard
<1>3. s # {}
  BY DEF SumIter
<1>. DEFINE x == Chosen(s)
            t == s \ {x}
<1>4. x \in s /\ t \in SUBSET (S \cap B) /\ Cardinality(t) < Cardinality(s)
      /\ Cardinality(t) \in Nat /\ Cardinality(s) \in Nat
  BY <1>3, ChosenFacts, FS_CardinalityType
<1>5. i[t] = j[t]
  BY <1>2, <1>4
<1>6. i[s] = F[x] + i[t] /\ j[s] = F[x] + j[t]
  BY <1>3 DEF SumIter
<1>. QED  BY <1>5, <1>6

\* The fold's iter function exists on every finite set: on a smallest set
\* without one, the functions of the sets one element smaller are glued
\* together, which IterAgree makes consistent.
LEMMA IterExists ==
    ASSUME NEW F, NEW S, IsFiniteSet(S)
    PROVE  \E it : SumIter(F, S, it)
<1>. DEFINE Bad == {T \in SUBSET S : ~\E it : SumIter(F, T, it)}
<1>. SUFFICES ASSUME Bad # {} PROVE FALSE
  OBVIOUS
<1>1. \A T \in Bad : IsFiniteSet(T)
  BY FS_Subset
<1>2. PICK T \in Bad : \A U \in Bad : Cardinality(T) <= Cardinality(U)
  BY <1>1, MinCard
<1>3. T # {}
  <2>1. SumIter(F, {}, [s \in {{}} |-> 0])
    BY DEF SumIter
  <2>. QED  BY <2>1
<1>4. IsFiniteSet(T) /\ Cardinality(T) \in Nat
  BY <1>1, FS_CardinalityType
<1>5. ASSUME NEW y \in T PROVE \E it : SumIter(F, T \ {y}, it)
  <2>1. IsFiniteSet(T \ {y}) /\ Cardinality(T \ {y}) = Cardinality(T) - 1
    BY <1>4, FS_RemoveElement
  <2>2. T \ {y} \notin Bad
    BY <1>2, <1>4, <2>1
  <2>. QED  BY <2>2
<1>. DEFINE Sol(y) == CHOOSE it : SumIter(F, T \ {y}, it)
            Out(s) == CHOOSE y \in T \ s : TRUE
            c == Chosen(T)
            g == [s \in SUBSET T |-> IF s = T THEN F[c] + Sol(c)[T \ {c}]
                                     ELSE Sol(Out(s))[s]]
<1>6. \A y \in T : SumIter(F, T \ {y}, Sol(y))
  BY <1>5
<1>7. \A s \in SUBSET T : s # T => Out(s) \in T \ s
  OBVIOUS
<1>8. ASSUME NEW s \in SUBSET T
      PROVE  g[s] = IF s = {} THEN 0 ELSE F[Chosen(s)] + g[s \ {Chosen(s)}]
  <2>1. CASE s = T
    <3>1. c \in T /\ T \ {c} # T
      BY <1>3 DEF Chosen
    <3>2. Out(T \ {c}) = c
      BY <1>7, <3>1
    <3>3. g[T \ {c}] = Sol(c)[T \ {c}]
      BY <3>1, <3>2
    <3>. QED  BY <1>3, <2>1, <3>3
  <2>2. CASE s # T /\ s = {}
    <3>1. Out(s) \in T /\ {} \in SUBSET (T \ {Out(s)})
      BY <1>7, <2>2
    <3>2. SumIter(F, T \ {Out(s)}, Sol(Out(s)))
      BY <1>6, <3>1
    <3>3. Sol(Out(s))[{}] = 0
      BY <3>1, <3>2, IterStep
    <3>. QED  BY <2>2, <3>3
  <2>3. CASE s # T /\ s # {}
    <3>. DEFINE x == Chosen(s)
                t == s \ {x}
                y == Out(s)
    <3>1. y \in T \ s /\ s \in SUBSET (T \ {y})
      BY <1>7, <2>3
    <3>2. SumIter(F, T \ {y}, Sol(y))
      BY <1>6, <3>1
    <3>3. Sol(y)[s] = F[x] + Sol(y)[t]
      BY <2>3, <3>1, <3>2, IterStep
    <3>4. g[s] = F[x] + Sol(y)[t]
      BY <2>3, <3>3
    <3>5. x \in s /\ t # T /\ t \in SUBSET T
      BY <2>3 DEF Chosen
    <3>6. Out(t) \in T \ t
      BY <1>7, <3>5
    <3>7. SumIter(F, T \ {Out(t)}, Sol(Out(t)))
      BY <1>6, <3>6
    <3>8. t \in SUBSET ((T \ {y}) \cap (T \ {Out(t)}))
      BY <3>1, <3>5, <3>6
    <3>9. IsFiniteSet(T \ {y})
      BY <1>4, FS_RemoveElement
    <3>10. Sol(y)[t] = Sol(Out(t))[t]
      <4>. HIDE DEF Sol, Out, x, t, y
      <4>. QED  BY <3>2, <3>7, <3>8, <3>9, IterAgree
    <3>11. g[t] = Sol(Out(t))[t]
      BY <3>5
    <3>. QED  BY <2>3, <3>4, <3>10, <3>11
  <2>. QED  BY <2>1, <2>2, <2>3
<1>9. SumIter(F, T, g)
  <2>1. DOMAIN g = SUBSET T /\ g = [s \in SUBSET T |-> g[s]]
    OBVIOUS
  <2>. HIDE DEF g
  <2>. QED  BY <1>8, <2>1 DEF SumIter
<1>. QED  BY <1>9

\* The sum of F over a finite S is the value at S of any iter function.
LEMMA SumValue ==
    ASSUME NEW F, NEW S, IsFiniteSet(S), NEW it, SumIter(F, S, it)
    PROVE  SumFunctionOnSet(F, S) = it[S]
<1>1. SumIter(F, S, CHOOSE i : SumIter(F, S, i))
  BY IterExists
<1>2. (CHOOSE i : SumIter(F, S, i))[S] = it[S]
  <2>. HIDE DEF SumIter
  <2>. QED  BY <1>1, IterAgree
<1>. QED  BY <1>2, SumIsIter

\* Every partial sum of values in a set T that holds 0 and is closed
\* under + is in T.
LEMMA IterType ==
    ASSUME NEW F, NEW S, IsFiniteSet(S), NEW it, SumIter(F, S, it),
           NEW T, 0 \in T, \A u, v \in T : u + v \in T, \A x \in S : F[x] \in T
    PROVE  \A s \in SUBSET S : it[s] \in T
<1>. DEFINE Bad == {s \in SUBSET S : it[s] \notin T}
<1>. SUFFICES ASSUME Bad # {} PROVE FALSE
  OBVIOUS
<1>1. \A u \in Bad : IsFiniteSet(u)
  BY FS_Subset
<1>2. PICK s \in Bad : \A U \in Bad : Cardinality(s) <= Cardinality(U)
  BY <1>1, MinCard
<1>3. s # {}
  BY IterStep
<1>4. Chosen(s) \in s /\ s \ {Chosen(s)} \in SUBSET S
      /\ Cardinality(s \ {Chosen(s)}) < Cardinality(s)
      /\ Cardinality(s \ {Chosen(s)}) \in Nat /\ Cardinality(s) \in Nat
  BY <1>3, ChosenFacts, FS_CardinalityType
<1>5. it[s \ {Chosen(s)}] \in T
  BY <1>2, <1>4
<1>6. it[s] = F[Chosen(s)] + it[s \ {Chosen(s)}]
  BY <1>3, IterStep
<1>. QED  BY <1>4, <1>5, <1>6

\* A sum of naturals is a natural.
LEMMA SumType ==
    ASSUME NEW F, NEW S, IsFiniteSet(S), \A x \in S : F[x] \in Nat
    PROVE  SumFunctionOnSet(F, S) \in Nat
<1>1. PICK it : SumIter(F, S, it)
  BY IterExists
<1>2. it[S] \in Nat
  <2>1. 0 \in Nat /\ \A u, v \in Nat : u + v \in Nat
    OBVIOUS
  <2>2. \A s \in SUBSET S : it[s] \in Nat
    BY <1>1, <2>1, IterType, Zenon
  <2>. QED  BY <2>2
<1>. QED  BY <1>1, <1>2, SumValue

\* A sum of integers is an integer.
LEMMA SumInt ==
    ASSUME NEW F, NEW S, IsFiniteSet(S), \A x \in S : F[x] \in Int
    PROVE  SumFunctionOnSet(F, S) \in Int
<1>1. PICK it : SumIter(F, S, it)
  BY IterExists
<1>2. it[S] \in Int
  <2>1. 0 \in Int /\ \A u, v \in Int : u + v \in Int
    OBVIOUS
  <2>2. \A s \in SUBSET S : it[s] \in Int
    BY <1>1, <2>1, IterType, Zenon
  <2>. QED  BY <2>2
<1>. QED  BY <1>1, <1>2, SumValue

\* A sum of zeros is zero.
LEMMA SumZero ==
    ASSUME NEW F, NEW S, IsFiniteSet(S), \A x \in S : F[x] = 0
    PROVE  SumFunctionOnSet(F, S) = 0
<1>1. PICK it : SumIter(F, S, it)
  BY IterExists
<1>2. it[S] \in {0}
  <2>1. 0 \in {0} /\ \A u, v \in {0} : u + v \in {0}
    OBVIOUS
  <2>2. \A x \in S : F[x] \in {0}
    OBVIOUS
  <2>3. \A s \in SUBSET S : it[s] \in {0}
    BY <1>1, <2>1, <2>2, IterType, Zenon
  <2>. QED  BY <2>3
<1>. QED  BY <1>1, <1>2, SumValue

\* The sum depends only on the values on S.
LEMMA SumExt ==
    ASSUME NEW F, NEW G, NEW S, IsFiniteSet(S), \A x \in S : F[x] = G[x]
    PROVE  SumFunctionOnSet(F, S) = SumFunctionOnSet(G, S)
<1>1. PICK it : SumIter(F, S, it)
  BY IterExists
<1>2. \A s \in SUBSET S : s # {} => F[Chosen(s)] = G[Chosen(s)]
  BY DEF Chosen
<1>3. SumIter(G, S, it)
  BY <1>1, <1>2 DEF SumIter
<1>. QED  BY <1>1, <1>3, SumValue

\* Changing the value at one point a of S changes the sum by the
\* difference.  Proved for every partial sum along the fold's own order,
\* so no fact about the order the fold picks elements in is needed.
LEMMA SumUpdate ==
    ASSUME NEW F, NEW G, NEW S, IsFiniteSet(S), NEW a \in S,
           \A x \in S : F[x] \in Int, G[a] \in Int,
           \A x \in S \ {a} : G[x] = F[x]
    PROVE  SumFunctionOnSet(G, S) = SumFunctionOnSet(F, S) - F[a] + G[a]
<1>1. PICK i : SumIter(F, S, i)
  BY IterExists
<1>2. PICK j : SumIter(G, S, j)
  BY IterExists
<1>3. \A s \in SUBSET S : i[s] \in Int
  <2>1. 0 \in Int /\ \A u, v \in Int : u + v \in Int
    OBVIOUS
  <2>. QED  BY <1>1, <2>1, IterType, Zenon
<1>. DEFINE D(s) == IF a \in s THEN G[a] - F[a] ELSE 0
<1>4. \A s \in SUBSET S : j[s] = i[s] + D(s)
  <2>. DEFINE Bad == {s \in SUBSET S : j[s] # i[s] + D(s)}
  <2>. SUFFICES ASSUME Bad # {} PROVE FALSE
    OBVIOUS
  <2>1. \A u \in Bad : IsFiniteSet(u)
    BY FS_Subset
  <2>2. PICK s \in Bad : \A U \in Bad : Cardinality(s) <= Cardinality(U)
    BY <2>1, MinCard
  <2>3. s # {}
    <3>1. i[{}] = 0 /\ j[{}] = 0
      BY <1>1, <1>2, IterStep
    <3>2. D({}) = 0
      OBVIOUS
    <3>3. {} \notin Bad
      BY <3>1, <3>2
    <3>. QED  BY <3>3
  <2>. DEFINE x == Chosen(s)
              t == s \ {x}
  <2>4. x \in s /\ t \in SUBSET S /\ Cardinality(t) < Cardinality(s)
        /\ Cardinality(t) \in Nat /\ Cardinality(s) \in Nat
    BY <2>3, ChosenFacts, FS_CardinalityType
  <2>5. j[t] = i[t] + D(t)
    BY <2>2, <2>4
  <2>6. i[s] = F[x] + i[t] /\ j[s] = G[x] + j[t]
    BY <1>1, <1>2, <2>3, IterStep
  <2>7. i[t] \in Int /\ F[x] \in Int
    BY <1>3, <2>4
  <2>8. CASE x = a
    <3>1. a \notin t /\ a \in s
      BY <2>4, <2>8
    <3>. QED  BY <2>5, <2>6, <2>7, <2>8, <3>1
  <2>9. CASE x # a
    <3>1. G[x] = F[x] /\ (a \in t <=> a \in s)
      BY <2>4, <2>9
    <3>. QED  BY <2>5, <2>6, <2>7, <3>1
  <2>. QED  BY <2>8, <2>9
<1>5. j[S] = i[S] - F[a] + G[a]
  BY <1>3, <1>4
<1>. QED  BY <1>1, <1>2, <1>5, SumValue

\* A sum of naturals is at least each of its terms.
LEMMA SumGeq ==
    ASSUME NEW F, NEW S, IsFiniteSet(S), \A x \in S : F[x] \in Nat, NEW a \in S
    PROVE  F[a] <= SumFunctionOnSet(F, S)
<1>. DEFINE G == [x \in S |-> IF x = a THEN 0 ELSE F[x]]
<1>1. SumFunctionOnSet(G, S) = SumFunctionOnSet(F, S) - F[a] + 0
  BY SumUpdate
<1>2. SumFunctionOnSet(G, S) \in Nat /\ SumFunctionOnSet(F, S) \in Nat
  BY SumType
<1>. QED  BY <1>1, <1>2

\* Any element of S, not only the one the fold takes first, can be taken
\* out of the sum: the fold's value does not depend on its order.
LEMMA SumRemove ==
    ASSUME NEW F, NEW S, IsFiniteSet(S), \A x \in S : F[x] \in Int, NEW a \in S
    PROVE  SumFunctionOnSet(F, S) = F[a] + SumFunctionOnSet(F, S \ {a})
<1>1. PICK i : SumIter(F, S, i)
  BY IterExists
<1>2. \A s \in SUBSET S : i[s] \in Int
  <2>1. 0 \in Int /\ \A u, v \in Int : u + v \in Int
    OBVIOUS
  <2>. QED  BY <1>1, <2>1, IterType, Zenon
<1>3. \A s \in SUBSET S : \A x \in s : i[s] = F[x] + i[s \ {x}]
  <2>. DEFINE Bad == {s \in SUBSET S : \E x \in s : i[s] # F[x] + i[s \ {x}]}
  <2>. SUFFICES ASSUME Bad # {} PROVE FALSE
    OBVIOUS
  <2>1. \A u \in Bad : IsFiniteSet(u)
    BY FS_Subset
  <2>2. PICK s \in Bad : \A U \in Bad : Cardinality(s) <= Cardinality(U)
    BY <2>1, MinCard
  <2>3. PICK x \in s : i[s] # F[x] + i[s \ {x}]
    OBVIOUS
  <2>. DEFINE c == Chosen(s)
  <2>4. c \in s /\ s \ {c} \in SUBSET S /\ Cardinality(s \ {c}) < Cardinality(s)
        /\ Cardinality(s \ {c}) \in Nat /\ Cardinality(s) \in Nat
    BY ChosenFacts, FS_CardinalityType
  <2>5. i[s] = F[c] + i[s \ {c}]
    BY <1>1, <2>4, IterStep
  <2>6. c # x
    BY <2>3, <2>5
  <2>7. IsFiniteSet(s) /\ IsFiniteSet(s \ {x}) /\ Cardinality(s \ {x}) < Cardinality(s)
        /\ Cardinality(s \ {x}) \in Nat
    <3>1. IsFiniteSet(s) /\ Cardinality(s) \in Nat
      BY FS_Subset, FS_CardinalityType
    <3>2. IsFiniteSet(s \ {x}) /\ Cardinality(s \ {x}) = Cardinality(s) - 1
      BY <2>3, <3>1, FS_RemoveElement
    <3>. QED  BY <3>1, <3>2, FS_CardinalityType
  <2>8. i[s \ {c}] = F[x] + i[(s \ {c}) \ {x}]
    <3>1. s \ {c} \notin Bad
      BY <2>2, <2>4
    <3>. QED  BY <2>4, <2>6, <3>1
  <2>9. i[s \ {x}] = F[c] + i[(s \ {x}) \ {c}]
    <3>1. s \ {x} \notin Bad
      BY <2>2, <2>4, <2>7
    <3>. QED  BY <2>4, <2>6, <3>1
  <2>10. (s \ {c}) \ {x} = (s \ {x}) \ {c} /\ (s \ {c}) \ {x} \in SUBSET S
    OBVIOUS
  <2>11. F[c] \in Int /\ F[x] \in Int /\ i[(s \ {c}) \ {x}] \in Int
    BY <1>2, <2>4, <2>10
  <2>12. i[(s \ {x}) \ {c}] = i[(s \ {c}) \ {x}]
    BY <2>10
  <2>. QED  BY <2>3, <2>5, <2>8, <2>9, <2>11, <2>12
<1>. IsFiniteSet(S \ {a})
  BY FS_RemoveElement
<1>4. PICK j : SumIter(F, S \ {a}, j)
  BY IterExists
<1>5. i[S \ {a}] = j[S \ {a}]
  <2>. HIDE DEF SumIter
  <2>. QED  BY <1>1, <1>4, IterAgree
<1>6. SumFunctionOnSet(F, S \ {a}) = j[S \ {a}]
  <2>. HIDE DEF SumIter
  <2>. QED  BY <1>4, SumValue
<1>7. SumFunctionOnSet(F, S) = i[S]
  <2>. HIDE DEF SumIter
  <2>. QED  BY <1>1, SumValue
<1>8. i[S] = F[a] + i[S \ {a}]
  <2>1. S \in SUBSET S
    OBVIOUS
  <2>. HIDE DEF SumIter
  <2>. QED  BY <1>3, <2>1
<1>. QED  BY <1>5, <1>6, <1>7, <1>8

\* Adding the elements of S outside D that have value 0 leaves the sum as
\* it is.
LEMMA SumOnSubset ==
    ASSUME NEW F, NEW S, IsFiniteSet(S), \A x \in S : F[x] \in Int,
           NEW D \in SUBSET S, \A x \in S \ D : F[x] = 0
    PROVE  SumFunctionOnSet(F, S) = SumFunctionOnSet(F, D)
<1>. DEFINE Bad == {s \in SUBSET S : D \subseteq s /\ SumFunctionOnSet(F, s) # SumFunctionOnSet(F, D)}
<1>. SUFFICES ASSUME Bad # {} PROVE FALSE
  OBVIOUS
<1>1. \A u \in Bad : IsFiniteSet(u)
  BY FS_Subset
<1>2. PICK s \in Bad : \A U \in Bad : Cardinality(s) <= Cardinality(U)
  BY <1>1, MinCard
<1>3. PICK x \in s : x \notin D
  OBVIOUS
<1>4. IsFiniteSet(s) /\ Cardinality(s) \in Nat
      /\ Cardinality(s \ {x}) < Cardinality(s) /\ Cardinality(s \ {x}) \in Nat
  <2>1. IsFiniteSet(s) /\ Cardinality(s) \in Nat
    BY FS_Subset, FS_CardinalityType
  <2>2. IsFiniteSet(s \ {x}) /\ Cardinality(s \ {x}) = Cardinality(s) - 1
    BY <1>3, <2>1, FS_RemoveElement
  <2>. QED  BY <2>1, <2>2, FS_CardinalityType
<1>5. SumFunctionOnSet(F, s \ {x}) = SumFunctionOnSet(F, D)
  <2>1. s \ {x} \notin Bad
    BY <1>2, <1>4
  <2>. QED  BY <1>3, <2>1
<1>6. SumFunctionOnSet(F, s) = F[x] + SumFunctionOnSet(F, s \ {x})
  BY <1>3, <1>4, SumRemove
<1>7. F[x] = 0
  BY <1>3
<1>8. SumFunctionOnSet(F, D) \in Int
  BY FS_Subset, SumInt
<1>. QED  BY <1>2, <1>5, <1>6, <1>7, <1>8

\* The sum of a pointwise sum is the sum of the sums.
LEMMA SumAdd ==
    ASSUME NEW F, NEW G, NEW H, NEW S, IsFiniteSet(S),
           \A x \in S : F[x] \in Int /\ G[x] \in Int /\ H[x] = F[x] + G[x]
    PROVE  SumFunctionOnSet(H, S) = SumFunctionOnSet(F, S) + SumFunctionOnSet(G, S)
<1>1. PICK i : SumIter(F, S, i)
  BY IterExists
<1>2. PICK j : SumIter(G, S, j)
  BY IterExists
<1>3. PICK k : SumIter(H, S, k)
  BY IterExists
<1>4. \A s \in SUBSET S : i[s] \in Int /\ j[s] \in Int
  <2>1. 0 \in Int /\ \A u, v \in Int : u + v \in Int
    OBVIOUS
  <2>2. \A x \in S : F[x] \in Int
    OBVIOUS
  <2>3. \A x \in S : G[x] \in Int
    OBVIOUS
  <2>4. \A s \in SUBSET S : i[s] \in Int
    BY <1>1, <2>1, <2>2, IterType, Zenon
  <2>5. \A s \in SUBSET S : j[s] \in Int
    BY <1>2, <2>1, <2>3, IterType, Zenon
  <2>. QED  BY <2>4, <2>5
<1>5. \A s \in SUBSET S : k[s] = i[s] + j[s]
  <2>. DEFINE Bad == {s \in SUBSET S : k[s] # i[s] + j[s]}
  <2>. SUFFICES ASSUME Bad # {} PROVE FALSE
    OBVIOUS
  <2>1. \A u \in Bad : IsFiniteSet(u)
    BY FS_Subset
  <2>2. PICK s \in Bad : \A U \in Bad : Cardinality(s) <= Cardinality(U)
    BY <2>1, MinCard
  <2>3. s # {}
    <3>1. i[{}] = 0 /\ j[{}] = 0 /\ k[{}] = 0
      BY <1>1, <1>2, <1>3, IterStep
    <3>2. {} \notin Bad
      BY <3>1
    <3>. QED  BY <3>2
  <2>. DEFINE x == Chosen(s)
              t == s \ {x}
  <2>4. x \in s /\ t \in SUBSET S /\ Cardinality(t) < Cardinality(s)
        /\ Cardinality(t) \in Nat /\ Cardinality(s) \in Nat
    BY <2>3, ChosenFacts, FS_CardinalityType
  <2>5. k[t] = i[t] + j[t]
    BY <2>2, <2>4
  <2>6. i[s] = F[x] + i[t] /\ j[s] = G[x] + j[t] /\ k[s] = H[x] + k[t]
    <3>1. s \in SUBSET S
      OBVIOUS
    <3>2. i[s] = F[x] + i[t]
      BY <1>1, <2>3, <3>1, IterStep
    <3>3. j[s] = G[x] + j[t]
      <4>1. j[s] = IF s = {} THEN 0 ELSE G[Chosen(s)] + j[s \ {Chosen(s)}]
        BY <1>2, <3>1, IterStep
      <4>. QED  BY <2>3, <4>1
    <3>4. k[s] = H[x] + k[t]
      <4>1. k[s] = IF s = {} THEN 0 ELSE H[Chosen(s)] + k[s \ {Chosen(s)}]
        BY <1>3, <3>1 DEF SumIter
      <4>. QED  BY <2>3, <4>1
    <3>. QED  BY <3>2, <3>3, <3>4
  <2>. QED  BY <1>4, <2>4, <2>5, <2>6
<1>. QED  BY <1>1, <1>2, <1>3, <1>5, SumValue
=============================================================================
