---------------------------- MODULE SumTheorems -----------------------------
(***************************************************************************)
(* What SumFunctionOnSet and SumFunction of the community module Functions *)
(* compute, for every finite domain.  The collector's counts, the time     *)
(* series and the growth of the data set are sums, and the theorems about  *)
(* them rest on these.                                                     *)
(*                                                                         *)
(* SumFunctionOnSet is defined by recursion on the subsets of its domain.  *)
(* The induction is in the form of a smallest counterexample: every        *)
(* nonempty collection of subsets of a finite set has a minimal element.   *)
(***************************************************************************)
EXTENDS Integers, FiniteSets, Functions, FiniteSetTheorems, WellFoundedInduction, TLAPS

LEMMA MinimalSubset ==
  ASSUME NEW S, IsFiniteSet(S), NEW C, C \subseteq SUBSET S, C # {}
  PROVE  \E s \in C : \A t \in C : t \subseteq s => t = s
<1>1. IsWellFoundedOn(StrictSubsetOrdering(S), SUBSET S)
  BY FS_StrictSubsetOrderingWellFounded, FS_FiniteSubsetsOfFinite
<1>2. PICK s \in C : \A t \in C : ~(<<t, s>> \in StrictSubsetOrdering(S))
  BY <1>1, WFMin
<1>3. QED
  BY <1>2 DEF StrictSubsetOrdering

-----------------------------------------------------------------------------
(* The recursion has exactly one solution *)

First(s) == CHOOSE x \in s : TRUE

\* One unfolding of the sum of f over s, g being its values on smaller sets.
Unfolded(g, f, s) == IF s = {} THEN 0 ELSE f[First(s)] + g[s \ {First(s)}]

Solves(g, f, S) == g = [s \in SUBSET S |-> Unfolded(g, f, s)]

LEMMA FirstIn ==
  ASSUME NEW s, s # {}
  PROVE  First(s) \in s
BY DEF First

LEMMA Solution ==
  ASSUME NEW f, NEW S, NEW g, Solves(g, f, S), NEW s \in SUBSET S
  PROVE  g[s] = Unfolded(g, f, s)
<1>1. g = [t \in SUBSET S |-> Unfolded(g, f, t)]
  BY DEF Solves
<1>2. [t \in SUBSET S |-> Unfolded(g, f, t)][s] = Unfolded(g, f, s)
  OBVIOUS
<1>3. QED
  BY <1>1, <1>2, Zenon

LEMMA SolutionUnique ==
  ASSUME NEW f, NEW S, IsFiniteSet(S), NEW T, S \subseteq T,
         NEW g, Solves(g, f, S), NEW h, Solves(h, f, T)
  PROVE  \A s \in SUBSET S : g[s] = h[s]
<1> DEFINE C == {s \in SUBSET S : g[s] # h[s]}
<1>1. SUFFICES ASSUME C # {} PROVE FALSE
  OBVIOUS
<1>2. PICK s \in C : \A t \in C : t \subseteq s => t = s
  <2>1. C \subseteq SUBSET S
    OBVIOUS
  <2> HIDE DEF C
  <2>2. QED
    BY <1>1, <2>1, MinimalSubset
<1>3. s \in SUBSET S /\ s \in SUBSET T /\ g[s] # h[s]
  OBVIOUS
<1>4. g[s] = Unfolded(g, f, s) /\ h[s] = Unfolded(h, f, s)
  BY <1>3, Solution
<1>5. CASE s = {}
  BY <1>3, <1>4, <1>5 DEF Unfolded
<1>6. CASE s # {}
  <2>1. First(s) \in s
    BY <1>6, FirstIn
  <2>2. s \ {First(s)} \notin C /\ s \ {First(s)} \in SUBSET S
    BY <2>1, <1>2, <1>3
  <2>3. g[s \ {First(s)}] = h[s \ {First(s)}]
    BY <2>2
  <2>4. QED
    BY <1>3, <1>4, <1>6, <2>3, Zenon DEF Unfolded
<1>7. QED
  BY <1>5, <1>6

LEMMA SolutionExists ==
  ASSUME NEW f, NEW S, IsFiniteSet(S)
  PROVE  \E g : Solves(g, f, S)
<1> DEFINE C == {s \in SUBSET S : ~\E g : Solves(g, f, s)}
<1>1. SUFFICES ASSUME C # {} PROVE FALSE
  OBVIOUS
<1>2. PICK m \in C : \A t \in C : t \subseteq m => t = m
  <2>1. C \subseteq SUBSET S
    OBVIOUS
  <2> HIDE DEF C
  <2>2. QED
    BY <1>1, <2>1, MinimalSubset
<1> DEFINE G(s) == CHOOSE g : Solves(g, f, s)
<1>3. ASSUME NEW s \in SUBSET m, s # m PROVE Solves(G(s), f, s)
  <2>1. s \notin C /\ s \in SUBSET S
    BY <1>2, <1>3
  <2>2. QED
    BY <2>1
\* Below m the solutions agree, so their values make up one for m.
<1> DEFINE h == [s \in SUBSET m |->
                   IF s = {} THEN 0 ELSE f[First(s)] + G(s \ {First(s)})[s \ {First(s)}]]
<1>4. ASSUME NEW s \in SUBSET m, s # m PROVE h[s] = G(s)[s]
  <2>1. Solves(G(s), f, s) /\ G(s)[s] = Unfolded(G(s), f, s)
    BY <1>3, <1>4, Solution
  <2>2. CASE s = {}
    BY <2>1, <2>2 DEF Unfolded
  <2>3. CASE s # {}
    <3> DEFINE r == s \ {First(s)}
    <3>1. r \in SUBSET m /\ r # m /\ r \subseteq s /\ r \in SUBSET r
      BY <1>4, <2>3, FirstIn
    <3>2. Solves(G(r), f, r) /\ IsFiniteSet(r)
      BY <3>1, <1>2, <1>3, FS_Subset
    <3>3. G(r)[r] = G(s)[r]
      BY <3>1, <3>2, <2>1, SolutionUnique
    <3>4. QED
      BY <2>1, <2>3, <3>3, <1>4, Zenon DEF Unfolded
  <2>4. QED
    BY <2>2, <2>3
<1>5. ASSUME NEW s \in SUBSET m PROVE h[s] = Unfolded(h, f, s)
  <2>1. CASE s = {}
    BY <2>1 DEF Unfolded
  <2>2. CASE s # {}
    <3> DEFINE r == s \ {First(s)}
    <3>1. r \in SUBSET m /\ r # m
      BY <1>5, <2>2, FirstIn
    <3>2. h[r] = G(r)[r]
      BY <3>1, <1>4
    <3>3. h[s] = f[First(s)] + G(r)[r]
      BY <2>2
    <3> HIDE DEF h
    <3>4. QED
      BY <2>2, <3>2, <3>3, Zenon DEF Unfolded
  <2>3. QED
    BY <2>1, <2>2
<1>6. h = [s \in SUBSET m |-> h[s]]
  OBVIOUS
<1> HIDE DEF h
<1>7. Solves(h, f, m)
  BY <1>5, <1>6, Zenon DEF Solves
<1>8. QED
  BY <1>2, <1>7

LEMMA SumSolves ==
  ASSUME NEW f, NEW S, IsFiniteSet(S)
  PROVE  \E g : Solves(g, f, S) /\ SumFunctionOnSet(f, S) = g[S]
<1> DEFINE iter == CHOOSE g : g = [s \in SUBSET S |->
                      IF s = {} THEN 0
                      ELSE f[CHOOSE x \in s : TRUE] + g[s \ {CHOOSE x \in s : TRUE}]]
<1>1. SumFunctionOnSet(f, S) = iter[S]
  BY Zenon DEF SumFunctionOnSet, FoldFunctionOnSet, MapThenFoldSet
<1>2. Solves(iter, f, S)
  <2>1. PICK g : Solves(g, f, S)
    BY SolutionExists
  <2>2. QED
    BY <2>1, Zenon DEF Solves, Unfolded, First
<1>3. QED
  BY <1>1, <1>2

-----------------------------------------------------------------------------
(* Sums over sets *)

LEMMA SumEmpty ==
  ASSUME NEW f
  PROVE  SumFunctionOnSet(f, {}) = 0
<1>1. PICK g : Solves(g, f, {}) /\ SumFunctionOnSet(f, {}) = g[{}]
  BY SumSolves, FS_EmptySet
<1>2. g[{}] = Unfolded(g, f, {})
  BY <1>1, Solution
<1>3. QED
  BY <1>1, <1>2 DEF Unfolded

LEMMA SumFirst ==
  ASSUME NEW f, NEW S, IsFiniteSet(S), S # {}
  PROVE  SumFunctionOnSet(f, S) = f[First(S)] + SumFunctionOnSet(f, S \ {First(S)})
<1> DEFINE R == S \ {First(S)}
<1>1. IsFiniteSet(R) /\ R \subseteq S /\ R \in SUBSET R /\ S \in SUBSET S
  BY FS_Subset
<1>2. PICK g : Solves(g, f, S) /\ SumFunctionOnSet(f, S) = g[S]
  BY SumSolves
<1>3. PICK h : Solves(h, f, R) /\ SumFunctionOnSet(f, R) = h[R]
  BY <1>1, SumSolves
<1>4. h[R] = g[R]
  BY <1>1, <1>2, <1>3, SolutionUnique
<1>5. g[S] = Unfolded(g, f, S)
  BY <1>1, <1>2, Solution
<1>6. QED
  BY <1>2, <1>3, <1>4, <1>5, Zenon DEF Unfolded

\* A sum of integers is one.
LEMMA SumType ==
  ASSUME NEW f, NEW S, IsFiniteSet(S), \A x \in S : f[x] \in Int
  PROVE  SumFunctionOnSet(f, S) \in Int
<1> DEFINE C == {s \in SUBSET S : SumFunctionOnSet(f, s) \notin Int}
<1>1. SUFFICES ASSUME C # {} PROVE FALSE
  OBVIOUS
<1>2. PICK s \in C : \A t \in C : t \subseteq s => t = s
  <2>1. C \subseteq SUBSET S
    OBVIOUS
  <2> HIDE DEF C
  <2>2. QED
    BY <1>1, <2>1, MinimalSubset
<1>3. s # {}
  BY SumEmpty
<1>4. First(s) \in s /\ IsFiniteSet(s)
  BY <1>3, FirstIn, FS_Subset
<1>5. SumFunctionOnSet(f, s \ {First(s)}) \in Int
  BY <1>2, <1>4
<1>6. f[First(s)] \in Int
  BY <1>4
<1>7. SumFunctionOnSet(f, s) = f[First(s)] + SumFunctionOnSet(f, s \ {First(s)})
  BY <1>3, <1>4, SumFirst
<1>8. QED
  BY <1>5, <1>6, <1>7

\* The order in which the elements are chosen does not matter.
LEMMA SumRemove ==
  ASSUME NEW f, NEW S, IsFiniteSet(S), \A x \in S : f[x] \in Int, NEW e \in S
  PROVE  SumFunctionOnSet(f, S) = f[e] + SumFunctionOnSet(f, S \ {e})
<1> DEFINE Sum(s) == SumFunctionOnSet(f, s)
           C == {s \in SUBSET S : \E x \in s : Sum(s) # f[x] + Sum(s \ {x})}
<1>1. SUFFICES ASSUME C # {} PROVE FALSE
  OBVIOUS
<1>2. PICK s \in C : \A t \in C : t \subseteq s => t = s
  <2>1. C \subseteq SUBSET S
    OBVIOUS
  <2> HIDE DEF C
  <2>2. QED
    BY <1>1, <2>1, MinimalSubset
<1>3. PICK x \in s : Sum(s) # f[x] + Sum(s \ {x})
  OBVIOUS
<1> DEFINE c == First(s)
<1>4. c \in s /\ IsFiniteSet(s) /\ s \subseteq S
  BY <1>3, FirstIn, FS_Subset
<1>5. Sum(s) = f[c] + Sum(s \ {c})
  BY <1>4, SumFirst
<1>6. c # x
  BY <1>3, <1>5
<1>7. s \ {c} \notin C /\ s \ {c} \in SUBSET S /\ x \in s \ {c}
  BY <1>2, <1>4, <1>6
<1>8. s \ {x} \notin C /\ s \ {x} \in SUBSET S /\ c \in s \ {x}
  BY <1>2, <1>4, <1>6
<1>9. Sum(s \ {c}) = f[x] + Sum((s \ {c}) \ {x})
  BY <1>7
<1>10. (s \ {x}) \ {c} = (s \ {c}) \ {x}
  OBVIOUS
<1>11. Sum(s \ {x}) = f[c] + Sum((s \ {c}) \ {x})
  BY <1>8, <1>10
<1>12. Sum((s \ {c}) \ {x}) \in Int /\ f[c] \in Int /\ f[x] \in Int
  <2>1. IsFiniteSet((s \ {c}) \ {x})
    BY <1>4, FS_Subset
  <2>2. \A y \in (s \ {c}) \ {x} : f[y] \in Int
    BY <1>4
  <2>3. QED
    BY <2>1, <2>2, <1>3, <1>4, SumType
<1> HIDE DEF c, C, Sum
<1>13. f[c] + (f[x] + Sum((s \ {c}) \ {x})) = f[x] + (f[c] + Sum((s \ {c}) \ {x}))
  BY <1>12
<1>14. QED
  BY <1>3, <1>5, <1>9, <1>11, <1>13, Zenon

\* A sum depends on the values only, and adds up argument by argument.
LEMMA SumPlus ==
  ASSUME NEW S, IsFiniteSet(S), NEW f, NEW g, NEW h,
         \A x \in S : f[x] \in Int /\ g[x] \in Int /\ h[x] = f[x] + g[x]
  PROVE  SumFunctionOnSet(h, S) = SumFunctionOnSet(f, S) + SumFunctionOnSet(g, S)
<1> DEFINE Sum(k, s) == SumFunctionOnSet(k, s)
           C == {s \in SUBSET S : Sum(h, s) # Sum(f, s) + Sum(g, s)}
<1>1. SUFFICES ASSUME C # {} PROVE FALSE
  OBVIOUS
<1>2. PICK s \in C : \A t \in C : t \subseteq s => t = s
  <2>1. C \subseteq SUBSET S
    OBVIOUS
  <2> HIDE DEF C
  <2>2. QED
    BY <1>1, <2>1, MinimalSubset
<1>3. s # {}
  <2>1. Sum(h, s) # Sum(f, s) + Sum(g, s)
    BY <1>2
  <2>2. Sum(h, {}) = 0 /\ Sum(f, {}) = 0 /\ Sum(g, {}) = 0
    BY SumEmpty
  <2> HIDE DEF Sum, C
  <2>3. CASE s = {}
    <3>1. Sum(h, {}) # Sum(f, {}) + Sum(g, {})
      BY <2>1, <2>3
    <3>2. QED
      BY <3>1, <2>2
  <2>4. QED
    BY <2>3
<1> DEFINE c == First(s)
           r == s \ {c}
<1>4. c \in s /\ IsFiniteSet(s) /\ s \subseteq S /\ IsFiniteSet(r) /\ r \subseteq S
  BY <1>3, FirstIn, FS_Subset
<1>5. Sum(h, r) = Sum(f, r) + Sum(g, r)
  BY <1>2, <1>4
<1>6. /\ Sum(h, s) = h[c] + Sum(h, r)
      /\ Sum(f, s) = f[c] + Sum(f, r)
      /\ Sum(g, s) = g[c] + Sum(g, r)
  BY <1>3, <1>4, SumFirst
<1>7. Sum(f, r) \in Int /\ Sum(g, r) \in Int
  BY <1>4, SumType
<1>8. f[c] \in Int /\ g[c] \in Int /\ h[c] = f[c] + g[c]
  BY <1>4
<1>9. Sum(h, s) # Sum(f, s) + Sum(g, s)
  BY <1>2
<1> HIDE DEF c, C, Sum, r
<1>10. QED
  BY <1>5, <1>6, <1>7, <1>8, <1>9

LEMMA SumZero ==
  ASSUME NEW S, IsFiniteSet(S), NEW f, \A x \in S : f[x] = 0
  PROVE  SumFunctionOnSet(f, S) = 0
<1>1. SumFunctionOnSet(f, S) = SumFunctionOnSet(f, S) + SumFunctionOnSet(f, S)
  BY SumPlus
<1>2. SumFunctionOnSet(f, S) \in Int
  BY SumType
<1>3. \A x \in Int : x = x + x => x = 0
  OBVIOUS
<1>4. QED
  BY <1>1, <1>2, <1>3, Zenon

LEMMA SumEqual ==
  ASSUME NEW S, IsFiniteSet(S), NEW f, NEW g, \A x \in S : f[x] \in Int /\ g[x] = f[x]
  PROVE  SumFunctionOnSet(g, S) = SumFunctionOnSet(f, S)
<1> DEFINE z == [x \in S |-> 0]
<1>1. SumFunctionOnSet(z, S) = 0
  BY SumZero
<1>2. \A x \in S : f[x] \in Int /\ z[x] \in Int /\ g[x] = f[x] + z[x]
  OBVIOUS
<1>3. SumFunctionOnSet(g, S) = SumFunctionOnSet(f, S) + SumFunctionOnSet(z, S)
  BY <1>2, SumPlus
<1>4. SumFunctionOnSet(f, S) \in Int
  BY SumType
<1>5. QED
  BY <1>1, <1>3, <1>4

\* A sum of natural numbers is one, and none of them exceeds it.
LEMMA SumNat ==
  ASSUME NEW S, IsFiniteSet(S), NEW f, \A x \in S : f[x] \in Nat
  PROVE  SumFunctionOnSet(f, S) \in Nat /\ \A x \in S : f[x] <= SumFunctionOnSet(f, S)
<1> DEFINE Sum(s) == SumFunctionOnSet(f, s)
           C == {s \in SUBSET S : Sum(s) \notin Nat}
<1>1. ASSUME NEW s \in SUBSET S, NEW x \in s
      PROVE  Sum(s) = f[x] + Sum(s \ {x}) /\ f[x] \in Nat
  <2>1. IsFiniteSet(s) /\ \A y \in s : f[y] \in Int
    BY FS_Subset
  <2>2. QED
    BY <2>1, SumRemove
<1>2. C = {}
  <2>1. SUFFICES ASSUME C # {} PROVE FALSE
    OBVIOUS
  <2>2. PICK s \in C : \A t \in C : t \subseteq s => t = s
    <3>1. C \subseteq SUBSET S
      OBVIOUS
    <3> HIDE DEF C
    <3>2. QED
      BY <2>1, <3>1, MinimalSubset
  <2>3. PICK x \in s : TRUE
    BY SumEmpty
  <2>4. s \ {x} \notin C /\ s \ {x} \in SUBSET S
    BY <2>2, <2>3
  <2>5. Sum(s \ {x}) \in Nat
    BY <2>4
  <2>6. Sum(s) = f[x] + Sum(s \ {x}) /\ f[x] \in Nat
    BY <1>1, <2>3
  <2>7. Sum(s) \notin Nat
    BY <2>2
  <2> HIDE DEF Sum, C
  <2>8. QED
    BY <2>5, <2>6, <2>7
<1>3. \A s \in SUBSET S : Sum(s) \in Nat
  BY <1>2
<1>4. ASSUME NEW x \in S PROVE f[x] <= Sum(S)
  <2>1. Sum(S) = f[x] + Sum(S \ {x}) /\ f[x] \in Nat
    BY <1>1
  <2>2. Sum(S \ {x}) \in Nat
    BY <1>3
  <2> HIDE DEF Sum
  <2>3. QED
    BY <2>1, <2>2
<1>5. QED
  BY <1>3, <1>4

\* A sum grows with its terms.
LEMMA SumMonotone ==
  ASSUME NEW S, IsFiniteSet(S), NEW f, NEW g,
         \A x \in S : f[x] \in Int /\ g[x] \in Int /\ f[x] <= g[x]
  PROVE  SumFunctionOnSet(f, S) <= SumFunctionOnSet(g, S)
<1> DEFINE d == [x \in S |-> g[x] - f[x]]
<1>1. \A x \in S : d[x] \in Nat /\ d[x] \in Int /\ f[x] \in Int /\ g[x] = f[x] + d[x]
  OBVIOUS
<1>2. SumFunctionOnSet(d, S) \in Nat /\ SumFunctionOnSet(f, S) \in Int
  BY <1>1, SumNat, SumType
<1>3. SumFunctionOnSet(g, S) = SumFunctionOnSet(f, S) + SumFunctionOnSet(d, S)
  BY <1>1, SumPlus
<1> HIDE DEF d
<1>4. QED
  BY <1>2, <1>3

\* A common factor comes out of the sum.
LEMMA SumScale ==
  ASSUME NEW S, IsFiniteSet(S), NEW f, NEW g, NEW a \in Int,
         \A x \in S : f[x] \in Int /\ g[x] = a * f[x]
  PROVE  SumFunctionOnSet(g, S) = a * SumFunctionOnSet(f, S)
<1> DEFINE Sum(k, s) == SumFunctionOnSet(k, s)
           C == {s \in SUBSET S : Sum(g, s) # a * Sum(f, s)}
<1>1. SUFFICES ASSUME C # {} PROVE FALSE
  OBVIOUS
<1>2. PICK s \in C : \A t \in C : t \subseteq s => t = s
  <2>1. C \subseteq SUBSET S
    OBVIOUS
  <2> HIDE DEF C
  <2>2. QED
    BY <1>1, <2>1, MinimalSubset
<1>3. s # {}
  <2>1. Sum(g, {}) = 0 /\ Sum(f, {}) = 0 /\ a * 0 = 0
    BY SumEmpty
  <2>2. Sum(g, s) # a * Sum(f, s)
    BY <1>2
  <2> HIDE DEF Sum, C
  <2>3. QED
    BY <2>1, <2>2, Zenon
<1> DEFINE c == First(s)
           r == s \ {c}
<1>4. c \in s /\ IsFiniteSet(s) /\ s \subseteq S /\ IsFiniteSet(r) /\ r \subseteq S
  BY <1>3, FirstIn, FS_Subset
<1>5. Sum(g, r) = a * Sum(f, r)
  BY <1>2, <1>4
<1>6. Sum(g, s) = g[c] + Sum(g, r) /\ Sum(f, s) = f[c] + Sum(f, r)
  BY <1>3, <1>4, SumFirst
<1>7. Sum(f, r) \in Int
  BY <1>4, SumType
<1>8. f[c] \in Int /\ g[c] = a * f[c]
  BY <1>4
<1>9. Sum(g, s) # a * Sum(f, s)
  BY <1>2
<1>10. \A x, y \in Int : a * x + a * y = a * (x + y)
  OBVIOUS
<1> HIDE DEF c, C, Sum, r
<1>11. a * f[c] + a * Sum(f, r) = a * (f[c] + Sum(f, r))
  BY <1>7, <1>8, <1>10, Zenon
<1>12. QED
  BY <1>5, <1>6, <1>8, <1>9, <1>11, Zenon

-----------------------------------------------------------------------------
(* Sums of sequences *)

\* One more element.
LEMMA SumAppend ==
  ASSUME NEW n \in Nat, NEW f, DOMAIN f = 1..n, \A i \in 1..n : f[i] \in Int,
         NEW g, DOMAIN g = 1..(n + 1), \A i \in 1..n : g[i] = f[i], g[n + 1] \in Int
  PROVE  SumFunction(g) = SumFunction(f) + g[n + 1]
<1>1. IsFiniteSet(1..n) /\ IsFiniteSet(1..(n + 1))
  BY FS_Interval
<1>2. n + 1 \in 1..(n + 1) /\ (1..(n + 1)) \ {n + 1} = 1..n
  OBVIOUS
<1>3. \A i \in 1..(n + 1) : g[i] \in Int
  <2>1. \A i \in 1..(n + 1) : i \in 1..n \/ i = n + 1
    OBVIOUS
  <2>2. QED
    BY <2>1
<1>4. SumFunctionOnSet(g, 1..(n + 1)) = g[n + 1] + SumFunctionOnSet(g, 1..n)
  BY <1>1, <1>2, <1>3, SumRemove
<1>5. SumFunctionOnSet(g, 1..n) = SumFunctionOnSet(f, 1..n)
  BY <1>1, SumEqual
<1>6. SumFunctionOnSet(f, 1..n) \in Int
  BY <1>1, SumType
<1>7. QED
  BY <1>4, <1>5, <1>6 DEF SumFunction

\* One element replaced.
LEMMA SumReplace ==
  ASSUME NEW S, IsFiniteSet(S), NEW f, DOMAIN f = S, NEW g, DOMAIN g = S, NEW e \in S,
         \A x \in S : f[x] \in Int, g[e] \in Int, \A x \in S \ {e} : g[x] = f[x]
  PROVE  SumFunction(g) = SumFunction(f) + g[e] - f[e]
<1> DEFINE R == S \ {e}
<1>1. IsFiniteSet(R) /\ \A x \in R : f[x] \in Int /\ g[x] = f[x]
  BY FS_Subset
<1>2. SumFunctionOnSet(g, R) = SumFunctionOnSet(f, R) /\ SumFunctionOnSet(f, R) \in Int
  BY <1>1, SumEqual, SumType
<1>3. SumFunctionOnSet(f, S) = f[e] + SumFunctionOnSet(f, R)
  BY SumRemove
<1>4. \A x \in S : g[x] \in Int
  BY <1>1
<1>5. SumFunctionOnSet(g, S) = g[e] + SumFunctionOnSet(g, R)
  BY <1>4, SumRemove
<1>6. QED
  BY <1>2, <1>3, <1>5 DEF SumFunction
=============================================================================
