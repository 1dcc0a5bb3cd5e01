---------------------------------- MODULE Sums ----------------------------------
(***************************************************************************)
(* Facts about SumFunctionOnSet of the module Functions, for integers over *)
(* finite sets.  The library defines it by recursion over subsets; that    *)
(* such a function exists, and that the order in which it takes the        *)
(* elements does not matter, is shown by taking a smallest counterexample. *)
(***************************************************************************)
EXTENDS Functions, Integers, FiniteSets, FiniteSetTheorems, WellFoundedInduction, TLAPS

\* The element the recursion takes next, and its equation.
Picked(s) == CHOOSE x \in s : TRUE
Sums(h, f, S) == h = [s \in SUBSET S |-> IF s = {} THEN 0 ELSE f[Picked(s)] + h[s \ {Picked(s)}]]

LEMMA SumIsChosen ==
  ASSUME NEW f, NEW S
  PROVE  SumFunctionOnSet(f, S) = (CHOOSE h : Sums(h, f, S))[S]
BY DEF SumFunctionOnSet, FoldFunctionOnSet, MapThenFoldSet, Sums, Picked

-----------------------------------------------------------------------------
(* Smallest counterexamples. *)

LEMMA SmallestOf ==
  ASSUME NEW T \in SUBSET Nat, T # {}
  PROVE  \E n \in T : \A m \in T : n <= m
<1>1. PICK n \in T : \A m \in T : ~(<<m, n>> \in OpToRel(<, Nat))
  BY NatLessThanWellFounded, WFMin, Zenon
<1>2. \A m \in T : ~(m < n)
  BY <1>1 DEF OpToRel
<1>3. QED
  BY <1>2

\* The element taken, and what is left.
LEMMA PickedType ==
  ASSUME NEW s, IsFiniteSet(s), s # {}
  PROVE  /\ Picked(s) \in s /\ IsFiniteSet(s \ {Picked(s)})
         /\ Cardinality(s) \in Nat \ {0}
         /\ Cardinality(s \ {Picked(s)}) = Cardinality(s) - 1
<1>1. Picked(s) \in s
  BY DEF Picked
<1>2. Cardinality(s) \in Nat /\ Cardinality(s) # 0
  BY FS_CardinalityType, FS_EmptySet
<1>3. IsFiniteSet(s \ {Picked(s)}) /\ Cardinality(s \ {Picked(s)}) = Cardinality(s) - 1
  BY <1>1, FS_RemoveElement
<1>4. QED
  BY <1>1, <1>2, <1>3

\* The subsets of S with at most n elements, and the equation for them.
Small(S, n) == {s \in SUBSET S : Cardinality(s) <= n}
Folded(h, f, s) == IF s = {} THEN 0 ELSE f[Picked(s)] + h[s \ {Picked(s)}]
SumsTo(h, f, S, n) == h = [s \in Small(S, n) |-> Folded(h, f, s)]

LEMMA SumsExist ==
  ASSUME NEW f, NEW S, IsFiniteSet(S)
  PROVE  \E h : Sums(h, f, S)
<1> DEFINE Without == {n \in Nat : ~\E h : SumsTo(h, f, S, n)}
<1>0. \A s \in SUBSET S : IsFiniteSet(s) /\ Cardinality(s) \in Nat
  BY FS_Subset, FS_CardinalityType
<1>1. Without = {}
  <2> SUFFICES ASSUME Without # {} PROVE FALSE
    OBVIOUS
  <2>1. PICK n \in Without : \A m \in Without : n <= m
    BY SmallestOf
  <2>2. CASE n = 0
    <3> DEFINE h == [s \in Small(S, 0) |-> 0]
    <3>1. \A s \in Small(S, 0) : s = {}
      BY <1>0, FS_EmptySet DEF Small
    <3>2. h = [s \in Small(S, 0) |-> Folded(h, f, s)]
      BY <3>1 DEF Folded
    <3>3. QED
      BY <2>1, <2>2, <3>2 DEF SumsTo
  <2>3. CASE n # 0
    <3>1. n - 1 \in Nat /\ n - 1 \notin Without
      BY <2>1, <2>3
    <3>2. PICK g : g = [s \in Small(S, n - 1) |-> Folded(g, f, s)]
      BY <3>1 DEF SumsTo
    <3> DEFINE h == [s \in Small(S, n) |-> Folded(g, f, s)]
    <3>3. ASSUME NEW s \in Small(S, n), s # {}
          PROVE  h[s \ {Picked(s)}] = g[s \ {Picked(s)}]
      <4> DEFINE t == s \ {Picked(s)}
      <4>1. t \in SUBSET S /\ Cardinality(t) <= n - 1 /\ Cardinality(t) <= n
        <5>1. s \in SUBSET S /\ Cardinality(s) \in Nat /\ Cardinality(s) <= n /\ n \in Nat
          BY <1>0 DEF Small
        <5>2. Cardinality(t) = Cardinality(s) - 1
          BY <1>0, <3>3, <5>1, PickedType
        <5>3. QED
          BY <5>1, <5>2
      <4>2. t \in Small(S, n - 1) /\ t \in Small(S, n)
        BY <4>1 DEF Small
      <4>3. h[t] = Folded(g, f, t)
        BY <4>2
      <4>4. g[t] = Folded(g, f, t)
        BY <3>2, <4>2, Zenon
      <4>5. QED
        BY <4>3, <4>4
    <3>4. ASSUME NEW s \in Small(S, n)
          PROVE  Folded(h, f, s) = Folded(g, f, s)
      <4> HIDE DEF h
      <4>1. CASE s = {}
        BY <4>1 DEF Folded
      <4>2. CASE s # {}
        BY <3>3, <4>2, Zenon DEF Folded
      <4>3. QED
        BY <4>1, <4>2
    <3>5. h = [s \in Small(S, n) |-> Folded(h, f, s)]
      BY <3>4
    <3>6. QED
      BY <2>1, <3>5 DEF SumsTo
  <2>4. QED
    BY <2>2, <2>3
<1>2. Cardinality(S) \in Nat
  BY FS_CardinalityType
<1>3. PICK h : SumsTo(h, f, S, Cardinality(S))
  BY <1>1, <1>2
<1>4. Small(S, Cardinality(S)) = SUBSET S
  BY FS_Subset DEF Small
<1>5. QED
  BY <1>3, <1>4, Zenon DEF SumsTo, Sums, Folded

\* A non-empty set of subsets of S has one of which no element can be taken
\* away without leaving it: the smallest counterexample of an induction.
LEMMA LeastSubset ==
  ASSUME NEW S, IsFiniteSet(S), NEW Bad \in SUBSET (SUBSET S), Bad # {}
  PROVE  \E s \in Bad : IsFiniteSet(s) /\ \A x \in s : s \ {x} \notin Bad
<1> DEFINE Sizes == {Cardinality(s) : s \in Bad}
<1>1. \A s \in Bad : IsFiniteSet(s) /\ Cardinality(s) \in Nat
  BY FS_Subset, FS_CardinalityType
<1>2. Sizes \in SUBSET Nat /\ Sizes # {}
  BY <1>1
<1>3. PICK n \in Sizes : \A m \in Sizes : n <= m
  BY <1>2, SmallestOf
<1>4. PICK s \in Bad : Cardinality(s) = n
  BY <1>3
<1>5. ASSUME NEW x \in s, s \ {x} \in Bad
      PROVE  FALSE
  <2>1. Cardinality(s \ {x}) = Cardinality(s) - 1
    BY <1>1, <1>4, FS_RemoveElement
  <2>2. n <= Cardinality(s \ {x})
    BY <1>3, <1>5
  <2>3. QED
    BY <1>1, <1>4, <2>1, <2>2
<1>6. QED
  BY <1>1, <1>4, <1>5

LEMMA SumsUnique ==
  ASSUME NEW f, NEW S, IsFiniteSet(S), NEW h, Sums(h, f, S),
         NEW T \in SUBSET S, NEW g, Sums(g, f, T)
  PROVE  \A s \in SUBSET T : h[s] = g[s]
<1> DEFINE Bad == {s \in SUBSET T : h[s] # g[s]}
<1> SUFFICES ASSUME Bad # {} PROVE FALSE
  OBVIOUS
<1>1. IsFiniteSet(T)
  BY FS_Subset
<1>2. PICK s \in Bad : \A x \in s : s \ {x} \notin Bad
  BY <1>1, LeastSubset
<1>3. \A t \in SUBSET T : /\ h[t] = IF t = {} THEN 0 ELSE f[Picked(t)] + h[t \ {Picked(t)}]
                        /\ g[t] = IF t = {} THEN 0 ELSE f[Picked(t)] + g[t \ {Picked(t)}]
  BY Zenon DEF Sums
<1>4. CASE s = {}
  BY <1>3, <1>4
<1>5. CASE s # {}
  <2>1. Picked(s) \in s
    BY <1>5 DEF Picked
  <2>2. h[s \ {Picked(s)}] = g[s \ {Picked(s)}]
    BY <1>2, <2>1
  <2>3. QED
    BY <1>2, <1>3, <1>5, <2>2
<1>6. QED
  BY <1>4, <1>5

LEMMA SumOfSubset ==
  ASSUME NEW f, NEW S, IsFiniteSet(S), NEW h, Sums(h, f, S), NEW T \in SUBSET S
  PROVE  SumFunctionOnSet(f, T) = h[T]
<1>1. IsFiniteSet(T)
  BY FS_Subset
<1>2. Sums(CHOOSE g : Sums(g, f, T), f, T)
  BY <1>1, SumsExist
<1>3. h[T] = (CHOOSE g : Sums(g, f, T))[T]
  BY <1>2, SumsUnique
<1>4. QED
  BY <1>3, SumIsChosen

-----------------------------------------------------------------------------
(* The facts about sums. *)

LEMMA SumEmpty ==
  ASSUME NEW f
  PROVE  SumFunctionOnSet(f, {}) = 0
<1>1. PICK h : Sums(h, f, {})
  BY SumsExist, FS_EmptySet
<1>2. SumFunctionOnSet(f, {}) = h[{}]
  BY <1>1, SumOfSubset, FS_EmptySet
<1>3. QED
  BY <1>1, <1>2 DEF Sums

\* The equation the library's recursion stands for.
LEMMA SumEquation ==
  ASSUME NEW f, NEW S, IsFiniteSet(S), S # {}
  PROVE  SumFunctionOnSet(f, S) = f[Picked(S)] + SumFunctionOnSet(f, S \ {Picked(S)})
<1>1. PICK h : Sums(h, f, S)
  BY SumsExist
<1>2. SumFunctionOnSet(f, S) = h[S]
  BY <1>1, SumOfSubset
<1>3. SumFunctionOnSet(f, S \ {Picked(S)}) = h[S \ {Picked(S)}]
  BY <1>1, SumOfSubset
<1>4. h[S] = f[Picked(S)] + h[S \ {Picked(S)}]
  BY <1>1 DEF Sums
<1>5. QED
  BY <1>2, <1>3, <1>4

LEMMA SumInt ==
  ASSUME NEW f, NEW S, IsFiniteSet(S), \A x \in S : f[x] \in Int
  PROVE  SumFunctionOnSet(f, S) \in Int
<1> DEFINE Bad == {s \in SUBSET S : SumFunctionOnSet(f, s) \notin Int}
<1> SUFFICES ASSUME Bad # {} PROVE FALSE
  OBVIOUS
<1>1. PICK s \in Bad : IsFiniteSet(s) /\ \A x \in s : s \ {x} \notin Bad
  BY LeastSubset
<1>2. s # {}
  BY <1>1, SumEmpty
<1>3. Picked(s) \in s
  BY <1>2 DEF Picked
<1>4. SumFunctionOnSet(f, s \ {Picked(s)}) \in Int
  BY <1>1, <1>3
<1>5. SumFunctionOnSet(f, s) = f[Picked(s)] + SumFunctionOnSet(f, s \ {Picked(s)})
  BY <1>1, <1>2, SumEquation
<1>6. QED
  BY <1>1, <1>3, <1>4, <1>5

\* Any element may be taken first.
LEMMA SumRemove ==
  ASSUME NEW f, NEW S, IsFiniteSet(S), \A x \in S : f[x] \in Int, NEW e \in S
  PROVE  SumFunctionOnSet(f, S) = f[e] + SumFunctionOnSet(f, S \ {e})
<1> DEFINE First(s, x) == SumFunctionOnSet(f, s) = f[x] + SumFunctionOnSet(f, s \ {x})
           Bad == {s \in SUBSET S : \E x \in s : ~First(s, x)}
<1> SUFFICES ASSUME Bad # {} PROVE FALSE
  OBVIOUS
<1>1. PICK s \in Bad : IsFiniteSet(s) /\ \A x \in s : s \ {x} \notin Bad
  BY LeastSubset
<1>2. PICK x \in s : ~First(s, x)
  BY <1>1
<1> DEFINE p == Picked(s)
<1>3. p \in s
  BY <1>2 DEF Picked
<1>4. First(s, p)
  BY <1>1, <1>2, SumEquation
<1>5. x # p
  BY <1>2, <1>4
<1>6. First(s \ {p}, x) /\ First(s \ {x}, p)
  BY <1>1, <1>2, <1>3, <1>5
<1>7. (s \ {p}) \ {x} = (s \ {x}) \ {p}
  OBVIOUS
<1>8. SumFunctionOnSet(f, (s \ {p}) \ {x}) \in Int
  <2>1. IsFiniteSet((s \ {p}) \ {x})
    BY <1>1, FS_Subset
  <2>2. QED
    BY <2>1, SumInt
<1>9. f[x] \in Int /\ f[p] \in Int
  BY <1>2, <1>3
<1> DEFINE rest == SumFunctionOnSet(f, (s \ {p}) \ {x})
<1>10. SumFunctionOnSet(f, s) = f[p] + (f[x] + rest)
  BY <1>4, <1>6, Zenon
<1>11. SumFunctionOnSet(f, s \ {x}) = f[p] + rest
  BY <1>6, <1>7, Zenon
<1>12. f[p] + (f[x] + rest) = f[x] + (f[p] + rest)
  BY <1>8, <1>9
<1>13. First(s, x)
  BY <1>10, <1>11, <1>12, Zenon
<1>14. QED
  BY <1>2, <1>13

\* The sum depends on the summands of S only.
LEMMA SumEqual ==
  ASSUME NEW f, NEW g, NEW S, IsFiniteSet(S), \A x \in S : f[x] = g[x]
  PROVE  SumFunctionOnSet(f, S) = SumFunctionOnSet(g, S)
<1> DEFINE Bad == {s \in SUBSET S : SumFunctionOnSet(f, s) # SumFunctionOnSet(g, s)}
<1> SUFFICES ASSUME Bad # {} PROVE FALSE
  OBVIOUS
<1>1. PICK s \in Bad : IsFiniteSet(s) /\ \A x \in s : s \ {x} \notin Bad
  BY LeastSubset
<1>2. s # {}
  BY <1>1, SumEmpty
<1>3. Picked(s) \in s
  BY <1>2 DEF Picked
<1>4. SumFunctionOnSet(f, s \ {Picked(s)}) = SumFunctionOnSet(g, s \ {Picked(s)})
  BY <1>1, <1>3
<1>5. /\ SumFunctionOnSet(f, s) = f[Picked(s)] + SumFunctionOnSet(f, s \ {Picked(s)})
      /\ SumFunctionOnSet(g, s) = g[Picked(s)] + SumFunctionOnSet(g, s \ {Picked(s)})
  BY <1>1, <1>2, SumEquation
<1>6. QED
  BY <1>1, <1>3, <1>4, <1>5

LEMMA SumAdd ==
  ASSUME NEW f, NEW S, IsFiniteSet(S), \A x \in S : f[x] \in Int,
         NEW e, e \notin S, f[e] \in Int
  PROVE  SumFunctionOnSet(f, S \cup {e}) = f[e] + SumFunctionOnSet(f, S)
<1>1. IsFiniteSet(S \cup {e}) /\ (S \cup {e}) \ {e} = S
  BY FS_AddElement
<1>2. \A x \in S \cup {e} : f[x] \in Int
  OBVIOUS
<1>3. SumFunctionOnSet(f, S \cup {e}) = f[e] + SumFunctionOnSet(f, (S \cup {e}) \ {e})
  BY <1>1, <1>2, SumRemove
<1>4. QED
  BY <1>1, <1>3

\* When one summand changes, so does the sum.
LEMMA SumChange ==
  ASSUME NEW f, NEW g, NEW S, IsFiniteSet(S), NEW e \in S,
         \A x \in S : f[x] \in Int, g[e] \in Int,
         \A x \in S \ {e} : g[x] = f[x]
  PROVE  SumFunctionOnSet(g, S) = SumFunctionOnSet(f, S) + (g[e] - f[e])
<1>1. \A x \in S : g[x] \in Int
  OBVIOUS
<1>2. IsFiniteSet(S \ {e})
  BY FS_RemoveElement
<1> DEFINE rest == SumFunctionOnSet(f, S \ {e})
<1>3. rest \in Int
  BY <1>2, SumInt
<1>4. SumFunctionOnSet(g, S \ {e}) = rest
  BY <1>2, SumEqual
<1>5. SumFunctionOnSet(f, S) = f[e] + rest /\ SumFunctionOnSet(g, S) = g[e] + SumFunctionOnSet(g, S \ {e})
  BY <1>1, SumRemove
<1>6. QED
  BY <1>3, <1>4, <1>5

\* ... and when at most one changes, wherever it is.
LEMMA SumOneChange ==
  ASSUME NEW f, NEW g, NEW S, IsFiniteSet(S), NEW e,
         \A x \in S : f[x] \in Int /\ g[x] \in Int,
         \A x \in S \ {e} : g[x] = f[x]
  PROVE  SumFunctionOnSet(g, S) =
           IF e \in S THEN SumFunctionOnSet(f, S) + (g[e] - f[e]) ELSE SumFunctionOnSet(f, S)
<1>1. CASE e \in S
  BY <1>1, SumChange
<1>2. CASE e \notin S
  BY <1>2, SumEqual
<1>3. QED
  BY <1>1, <1>2

\* Sums of naturals are naturals; a larger summand or a larger set makes a
\* larger sum.
LEMMA SumAtMost ==
  ASSUME NEW f, NEW g, NEW S, IsFiniteSet(S),
         \A x \in S : f[x] \in Int /\ g[x] \in Int /\ f[x] <= g[x]
  PROVE  SumFunctionOnSet(f, S) <= SumFunctionOnSet(g, S)
<1> DEFINE Bad == {s \in SUBSET S : ~(SumFunctionOnSet(f, s) <= SumFunctionOnSet(g, s))}
<1> SUFFICES ASSUME Bad # {} PROVE FALSE
  OBVIOUS
<1>1. PICK s \in Bad : IsFiniteSet(s) /\ \A x \in s : s \ {x} \notin Bad
  BY LeastSubset
<1>2. s # {}
  BY <1>1, SumEmpty
<1>3. PICK e \in s : TRUE
  BY <1>2
<1>4. IsFiniteSet(s \ {e})
  BY <1>1, FS_RemoveElement
<1>5. SumFunctionOnSet(f, s \ {e}) <= SumFunctionOnSet(g, s \ {e})
  BY <1>1, <1>3
<1>6. SumFunctionOnSet(f, s) = f[e] + SumFunctionOnSet(f, s \ {e})
  BY <1>1, <1>3, SumRemove
<1>7. SumFunctionOnSet(g, s) = g[e] + SumFunctionOnSet(g, s \ {e})
  BY <1>1, <1>3, SumRemove
<1>8. SumFunctionOnSet(f, s \ {e}) \in Int /\ SumFunctionOnSet(g, s \ {e}) \in Int
  BY <1>4, SumInt
<1>9. f[e] \in Int /\ g[e] \in Int /\ f[e] <= g[e]
  BY <1>1, <1>3
<1>10. SumFunctionOnSet(f, s) <= SumFunctionOnSet(g, s)
  BY <1>5, <1>6, <1>7, <1>8, <1>9
<1>11. QED
  BY <1>1, <1>10

LEMMA SumZero ==
  ASSUME NEW f, NEW S, IsFiniteSet(S), \A x \in S : f[x] = 0
  PROVE  SumFunctionOnSet(f, S) = 0
<1> DEFINE Bad == {s \in SUBSET S : SumFunctionOnSet(f, s) # 0}
<1> SUFFICES ASSUME Bad # {} PROVE FALSE
  OBVIOUS
<1>1. PICK s \in Bad : IsFiniteSet(s) /\ \A x \in s : s \ {x} \notin Bad
  BY LeastSubset
<1>2. s # {}
  BY <1>1, SumEmpty
<1>3. Picked(s) \in s
  BY <1>2 DEF Picked
<1>4. SumFunctionOnSet(f, s \ {Picked(s)}) = 0
  BY <1>1, <1>3
<1>5. SumFunctionOnSet(f, s) = f[Picked(s)] + SumFunctionOnSet(f, s \ {Picked(s)})
  BY <1>1, <1>2, SumEquation
<1>6. QED
  BY <1>1, <1>3, <1>4, <1>5

LEMMA SumNat ==
  ASSUME NEW f, NEW S, IsFiniteSet(S), \A x \in S : f[x] \in Nat
  PROVE  SumFunctionOnSet(f, S) \in Nat
<1> DEFINE zero == [x \in S |-> 0]
<1>1. SumFunctionOnSet(zero, S) = 0
  BY SumZero
<1>2. SumFunctionOnSet(zero, S) <= SumFunctionOnSet(f, S)
  BY SumAtMost
<1>3. SumFunctionOnSet(f, S) \in Int
  BY SumInt
<1>4. QED
  BY <1>1, <1>2, <1>3

LEMMA SumElement ==
  ASSUME NEW f, NEW S, IsFiniteSet(S), \A x \in S : f[x] \in Nat, NEW e \in S
  PROVE  f[e] <= SumFunctionOnSet(f, S)
<1>1. SumFunctionOnSet(f, S) = f[e] + SumFunctionOnSet(f, S \ {e})
  BY SumRemove
<1>2. SumFunctionOnSet(f, S \ {e}) \in Nat
  BY FS_RemoveElement, SumNat
<1>3. f[e] \in Nat
  OBVIOUS
<1>4. QED
  BY <1>1, <1>2, <1>3

\* The summands outside of T are 0.
LEMMA SumRestricted ==
  ASSUME NEW f, NEW S, IsFiniteSet(S), NEW T \in SUBSET S,
         \A x \in S : f[x] \in Int, \A x \in S \ T : f[x] = 0
  PROVE  SumFunctionOnSet(f, S) = SumFunctionOnSet(f, T)
<1> DEFINE Bad == {s \in SUBSET S : SumFunctionOnSet(f, s) # SumFunctionOnSet(f, s \cap T)}
<1> SUFFICES ASSUME Bad # {} PROVE FALSE
  <2>1. S \cap T = T
    OBVIOUS
  <2>2. QED
    BY <2>1
<1>1. PICK s \in Bad : IsFiniteSet(s) /\ \A x \in s : s \ {x} \notin Bad
  BY LeastSubset
<1>2. s # {}
  <2>1. {} \cap T = {}
    OBVIOUS
  <2>2. QED
    BY <1>1, <2>1
<1>3. PICK e \in s : TRUE
  BY <1>2
<1>4. IsFiniteSet(s \cap T) /\ IsFiniteSet(s \ {e}) /\ IsFiniteSet((s \ {e}) \cap T)
  BY <1>1, FS_Subset
<1>5. SumFunctionOnSet(f, s \ {e}) = SumFunctionOnSet(f, (s \ {e}) \cap T)
  BY <1>1, <1>3
<1>6. SumFunctionOnSet(f, s) = f[e] + SumFunctionOnSet(f, s \ {e})
  BY <1>1, <1>3, SumRemove
<1>7. f[e] \in Int /\ SumFunctionOnSet(f, (s \ {e}) \cap T) \in Int
  BY <1>1, <1>3, <1>4, SumInt
<1>8. CASE e \in T
  <2>0. e \in s \cap T /\ \A x \in s \cap T : f[x] \in Int
    BY <1>1, <1>3, <1>8
  <2>1. SumFunctionOnSet(f, s \cap T) = f[e] + SumFunctionOnSet(f, (s \cap T) \ {e})
    BY <1>4, <2>0, SumRemove
  <2>2. (s \cap T) \ {e} = (s \ {e}) \cap T
    OBVIOUS
  <2>3. SumFunctionOnSet(f, s \cap T) = f[e] + SumFunctionOnSet(f, (s \ {e}) \cap T)
    BY <2>1, <2>2, Zenon
  <2>4. SumFunctionOnSet(f, s) = f[e] + SumFunctionOnSet(f, (s \ {e}) \cap T)
    BY <1>5, <1>6, Zenon
  <2>5. SumFunctionOnSet(f, s) = SumFunctionOnSet(f, s \cap T)
    BY <2>3, <2>4, Zenon
  <2>6. QED
    BY <1>1, <2>5
<1>9. CASE e \notin T
  <2>1. s \cap T = (s \ {e}) \cap T
    BY <1>9
  <2>2. f[e] = 0
    BY <1>1, <1>3, <1>9
  <2> DEFINE rest == SumFunctionOnSet(f, (s \ {e}) \cap T)
  <2>3. SumFunctionOnSet(f, s) = 0 + rest
    BY <1>5, <1>6, <2>2, Zenon
  <2>4. 0 + rest = rest
    BY <1>7
  <2>5. SumFunctionOnSet(f, s) = SumFunctionOnSet(f, s \cap T)
    BY <2>1, <2>3, <2>4, Zenon
  <2>6. QED
    BY <1>1, <2>5
<1>10. QED
  BY <1>8, <1>9

LEMMA SumSubset ==
  ASSUME NEW f, NEW S, IsFiniteSet(S), NEW T \in SUBSET S, \A x \in S : f[x] \in Nat
  PROVE  SumFunctionOnSet(f, T) <= SumFunctionOnSet(f, S)
<1> DEFINE g == [x \in S |-> IF x \in T THEN f[x] ELSE 0]
<1>1. IsFiniteSet(T)
  BY FS_Subset
<1>2. /\ \A x \in S : g[x] \in Int /\ f[x] \in Int /\ g[x] <= f[x]
      /\ \A x \in S \ T : g[x] = 0
      /\ \A x \in T : g[x] = f[x]
  OBVIOUS
<1> HIDE DEF g
<1>3. SumFunctionOnSet(g, S) = SumFunctionOnSet(g, T)
  BY <1>2, SumRestricted
<1>4. SumFunctionOnSet(g, T) = SumFunctionOnSet(f, T)
  BY <1>1, <1>2, SumEqual
<1>5. SumFunctionOnSet(g, S) <= SumFunctionOnSet(f, S)
  BY <1>2, SumAtMost
<1>6. QED
  BY <1>3, <1>4, <1>5, Zenon

\* Adding two functions point by point adds their sums.
LEMMA SumPlus ==
  ASSUME NEW f, NEW g, NEW h, NEW S, IsFiniteSet(S),
         \A x \in S : f[x] \in Int /\ g[x] \in Int /\ h[x] = f[x] + g[x]
  PROVE  SumFunctionOnSet(h, S) = SumFunctionOnSet(f, S) + SumFunctionOnSet(g, S)
<1> DEFINE Adds(s) == SumFunctionOnSet(h, s) = SumFunctionOnSet(f, s) + SumFunctionOnSet(g, s)
           Bad == {s \in SUBSET S : ~Adds(s)}
<1> SUFFICES ASSUME Bad # {} PROVE FALSE
  OBVIOUS
<1>1. PICK s \in Bad : IsFiniteSet(s) /\ \A x \in s : s \ {x} \notin Bad
  BY LeastSubset
<1>2. s # {}
  <2>1. /\ SumFunctionOnSet(f, {}) = 0 /\ SumFunctionOnSet(g, {}) = 0
        /\ SumFunctionOnSet(h, {}) = 0
    BY SumEmpty
  <2>2. Adds({})
    BY <2>1
  <2>3. ~Adds(s)
    BY <1>1
  <2> HIDE DEF Adds
  <2>4. QED
    BY <2>2, <2>3
<1>3. PICK e \in s : TRUE
  BY <1>2
<1>4. IsFiniteSet(s \ {e})
  BY <1>1, FS_RemoveElement
<1>5. Adds(s \ {e})
  BY <1>1, <1>3
<1>6. \A x \in s : f[x] \in Int /\ g[x] \in Int /\ h[x] \in Int
  BY <1>1
<1>7. /\ SumFunctionOnSet(f, s) = f[e] + SumFunctionOnSet(f, s \ {e})
      /\ SumFunctionOnSet(g, s) = g[e] + SumFunctionOnSet(g, s \ {e})
      /\ SumFunctionOnSet(h, s) = h[e] + SumFunctionOnSet(h, s \ {e})
  BY <1>1, <1>3, <1>6, SumRemove
<1>8. SumFunctionOnSet(f, s \ {e}) \in Int /\ SumFunctionOnSet(g, s \ {e}) \in Int
  BY <1>4, <1>6, SumInt
<1>9. h[e] = f[e] + g[e] /\ f[e] \in Int /\ g[e] \in Int
  BY <1>1, <1>3
<1>10. Adds(s)
  BY <1>5, <1>7, <1>8, <1>9
<1>11. QED
  BY <1>1, <1>10

LEMMA FiniteImage ==
  ASSUME NEW S, IsFiniteSet(S), NEW name
  PROVE  IsFiniteSet({name[x] : x \in S})
<1> DEFINE T == {name[x] : x \in S}
           m == [x \in S |-> name[x]]
<1>1. m \in Surjection(S, T)
  BY DEF Surjection
<1>2. QED
  BY <1>1, FS_Surjection

\* Summing over another set of names of the same summands.
LEMMA SumRenamed ==
  ASSUME NEW f, NEW g, NEW S, IsFiniteSet(S), NEW name,
         \A x, y \in S : name[x] = name[y] => x = y,
         \A x \in S : f[x] \in Int /\ g[name[x]] = f[x]
  PROVE  SumFunctionOnSet(g, {name[x] : x \in S}) = SumFunctionOnSet(f, S)
<1> DEFINE Names(s) == {name[x] : x \in s}
           Same(s) == SumFunctionOnSet(g, Names(s)) = SumFunctionOnSet(f, s)
           Bad == {s \in SUBSET S : ~Same(s)}
<1> SUFFICES ASSUME Bad # {} PROVE FALSE
  OBVIOUS
<1>1. PICK s \in Bad : IsFiniteSet(s) /\ \A x \in s : s \ {x} \notin Bad
  BY LeastSubset
<1>2. s # {}
  <2>1. Names({}) = {}
    OBVIOUS
  <2>2. SumFunctionOnSet(f, {}) = 0 /\ SumFunctionOnSet(g, {}) = 0
    BY SumEmpty
  <2>3. Same({})
    BY <2>1, <2>2, Zenon
  <2>4. ~Same(s)
    BY <1>1
  <2> HIDE DEF Same
  <2>5. QED
    BY <2>3, <2>4
<1>3. PICK e \in s : TRUE
  BY <1>2
<1>4. Same(s \ {e})
  BY <1>1, <1>3
<1>5. SumFunctionOnSet(f, s) = f[e] + SumFunctionOnSet(f, s \ {e})
  BY <1>1, <1>3, SumRemove
<1>6. Names(s) \ {name[e]} = Names(s \ {e})
  BY <1>1, <1>3
<1>7. SumFunctionOnSet(g, Names(s)) = g[name[e]] + SumFunctionOnSet(g, Names(s) \ {name[e]})
  <2>1. IsFiniteSet(Names(s))
    BY <1>1, FiniteImage
  <2>2. name[e] \in Names(s) /\ \A x \in Names(s) : g[x] \in Int
    BY <1>1, <1>3
  <2>3. QED
    BY <2>1, <2>2, SumRemove
<1>8. g[name[e]] = f[e]
  BY <1>1, <1>3
<1>9. Same(s)
  BY <1>4, <1>5, <1>6, <1>7, <1>8, Zenon
<1>10. QED
  BY <1>1, <1>9

\* The sum over two sets that have no element in common.
LEMMA SumDisjoint ==
  ASSUME NEW f, NEW S, NEW T, IsFiniteSet(S), IsFiniteSet(T), S \cap T = {},
         \A x \in S \cup T : f[x] \in Int
  PROVE  SumFunctionOnSet(f, S \cup T) = SumFunctionOnSet(f, S) + SumFunctionOnSet(f, T)
<1> DEFINE U == S \cup T
           g == [x \in U |-> IF x \in S THEN f[x] ELSE 0]
           h == [x \in U |-> IF x \in T THEN f[x] ELSE 0]
<1>1. IsFiniteSet(U) /\ S \in SUBSET U /\ T \in SUBSET U
  BY FS_Union
<1>2. /\ \A x \in U : g[x] \in Int /\ h[x] \in Int /\ f[x] = g[x] + h[x]
      /\ \A x \in S : g[x] = f[x]
      /\ \A x \in T : h[x] = f[x]
      /\ \A x \in U \ S : g[x] = 0
      /\ \A x \in U \ T : h[x] = 0
  OBVIOUS
<1> HIDE DEF U, g, h
<1>3. SumFunctionOnSet(f, U) = SumFunctionOnSet(g, U) + SumFunctionOnSet(h, U)
  BY <1>1, <1>2, SumPlus
<1>4. SumFunctionOnSet(g, U) = SumFunctionOnSet(g, S)
  BY <1>1, <1>2, SumRestricted
<1>5. SumFunctionOnSet(h, U) = SumFunctionOnSet(h, T)
  BY <1>1, <1>2, SumRestricted
<1>6. SumFunctionOnSet(g, S) = SumFunctionOnSet(f, S)
  BY <1>2, SumEqual
<1>7. SumFunctionOnSet(h, T) = SumFunctionOnSet(f, T)
  BY <1>2, SumEqual
<1>8. QED
  BY <1>3, <1>4, <1>5, <1>6, <1>7 DEF U
=============================================================================
