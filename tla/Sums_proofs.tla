----------------------------- MODULE Sums_proofs -----------------------------
(***************************************************************************)
(* Lemmas about sums over finite sets, for the models whose balances are   *)
(* sums over a journal.  Induction over a set is a minimal counterexample  *)
(* under strict inclusion.                                                 *)
(***************************************************************************)
EXTENDS Integers, FiniteSets, Functions, FiniteSetTheorems, WellFoundedInduction, TLAPS

\* g sums f over the subsets of S, taking elements out in the order of c.
Adds(g, f, c, S) ==
    g = [t \in SUBSET S |-> IF t = {} THEN 0 ELSE f[c[t]] + g[t \ {c[t]}]]

Chooser(S) == [t \in SUBSET S |-> CHOOSE x \in t : TRUE]

\* A nonempty set of subsets of a finite set has a minimal one.
LEMMA MinimalSubset ==
    ASSUME NEW S, IsFiniteSet(S), NEW T \in SUBSET (SUBSET S), T # {}
    PROVE  \E m \in T : \A y \in T : y \subseteq m => y = m
<1>1. IsWellFoundedOn(StrictSubsetOrdering(S), FiniteSubsetsOf(S))
  BY FS_StrictSubsetOrderingWellFounded
<1>2. FiniteSubsetsOf(S) = SUBSET S
  BY FS_FiniteSubsetsOfFinite
<1>3. IsWellFoundedOn(StrictSubsetOrdering(S), SUBSET S)
  BY <1>1, <1>2
<1>4. PICK m \in T : \A y \in T : ~ (<<y, m>> \in StrictSubsetOrdering(S))
  BY <1>3, WFMin
<1>5. \A y \in T : y \subseteq m => y = m
  BY <1>4 DEF StrictSubsetOrdering
<1> QED BY <1>5

\* Two sums over the same summands agree on common subsets.
LEMMA AddsAgree ==
    ASSUME NEW S, NEW R, IsFiniteSet(S), NEW f, NEW c, NEW g, Adds(g, f, c, S),
           NEW e, NEW d, NEW h, Adds(h, e, d, R),
           \A t \in SUBSET S : t # {} => c[t] \in t,
           \A t \in SUBSET S : t \in SUBSET R /\ t # {} => d[t] = c[t] /\ e[c[t]] = f[c[t]]
    PROVE  \A t \in SUBSET S : t \in SUBSET R => g[t] = h[t]
<1> DEFINE Bad == {t \in SUBSET S : t \in SUBSET R /\ g[t] # h[t]}
<1>1. SUFFICES ASSUME Bad # {} PROVE FALSE
  OBVIOUS
<1>2. Bad \in SUBSET (SUBSET S)
  OBVIOUS
<1> HIDE DEF Bad
<1>3. PICK m \in Bad : \A y \in Bad : y \subseteq m => y = m
  BY <1>1, <1>2, MinimalSubset
<1> USE DEF Bad
<1>4. m \in SUBSET S /\ m \in SUBSET R /\ g[m] # h[m]
  BY <1>3
<1>5. /\ g[m] = IF m = {} THEN 0 ELSE f[c[m]] + g[m \ {c[m]}]
      /\ h[m] = IF m = {} THEN 0 ELSE e[d[m]] + h[m \ {d[m]}]
  BY <1>4 DEF Adds
<1>6. m # {}
  BY <1>4, <1>5
<1>7. c[m] \in m
  BY <1>4, <1>6
<1>8. m \ {c[m]} \subseteq m /\ m \ {c[m]} # m
  BY <1>7
<1>9. g[m \ {c[m]}] = h[m \ {c[m]}]
  BY <1>3, <1>4, <1>8
<1>10. d[m] = c[m] /\ e[c[m]] = f[c[m]]
  BY <1>4, <1>6
<1> QED BY <1>4, <1>5, <1>9, <1>10

\* There is such a sum.
LEMMA AddsExists ==
    ASSUME NEW S, IsFiniteSet(S), NEW f, NEW c, \A t \in SUBSET S : t # {} => c[t] \in t
    PROVE  \E g : Adds(g, f, c, S)
<1> DEFINE Bad == {t \in SUBSET S : ~ \E g : Adds(g, f, c, t)}
<1>1. SUFFICES ASSUME Bad # {} PROVE FALSE
  <2>1. S \in SUBSET S
    OBVIOUS
  <2> QED BY <2>1
<1>2. Bad \in SUBSET (SUBSET S)
  OBVIOUS
<1>3. PICK m \in Bad : \A y \in Bad : y \subseteq m => y = m
  <2> HIDE DEF Bad
  <2> QED BY <1>1, <1>2, MinimalSubset
<1>4. m \in SUBSET S /\ ~ \E g : Adds(g, f, c, m)
  BY <1>3
<1>5. \A t \in SUBSET m : t # m => \E g : Adds(g, f, c, t)
  BY <1>3, <1>4
<1> HIDE DEF Bad
<1> DEFINE G(t) == CHOOSE g : Adds(g, f, c, t)
<1> DEFINE H(t) == IF t = {} THEN 0 ELSE f[c[t]] + G(t \ {c[t]})[t \ {c[t]}]
<1> DEFINE h == [t \in SUBSET m |-> H(t)]
<1>6. \A t \in SUBSET m : t # m => Adds(G(t), f, c, t)
  BY <1>5, Zenon
<1> HIDE DEF G
<1>7. \A t \in SUBSET m : IsFiniteSet(t) /\ t \in SUBSET S
  BY <1>4, FS_Subset
<1>8. \A t \in SUBSET m : t # m => G(t)[t] = H(t)
  <2> TAKE t \in SUBSET m
  <2> HAVE t # m
  <2> HIDE DEF H
  <2>1. Adds(G(t), f, c, t)
    BY <1>6
  <2>2. G(t)[t] = IF t = {} THEN 0 ELSE f[c[t]] + G(t)[t \ {c[t]}]
    BY <2>1 DEF Adds
  <2>3. CASE t = {}
    BY <2>2, <2>3 DEF H
  <2>4. CASE t # {}
    <3> DEFINE u == t \ {c[t]}
    <3>1. c[t] \in t
      BY <1>7, <2>4
    <3>2. u \in SUBSET m /\ u # m /\ u \in SUBSET t /\ u \in SUBSET u
      BY <3>1
    <3>3. Adds(G(u), f, c, u)
      BY <1>6, <3>2
    <3>4. IsFiniteSet(u) /\ \A v \in SUBSET u : v # {} => c[v] \in v
      BY <1>7, <3>2
    <3>5. G(u)[u] = G(t)[u]
      <4> HIDE DEF u
      <4> QED BY <2>1, <3>2, <3>3, <3>4, AddsAgree
    <3> QED BY <2>2, <2>4, <3>5 DEF H
  <2> QED BY <2>3, <2>4
<1>9. \A t \in SUBSET m : H(t) = IF t = {} THEN 0 ELSE f[c[t]] + h[t \ {c[t]}]
  <2> TAKE t \in SUBSET m
  <2>1. CASE t = {}
    BY <2>1
  <2>2. CASE t # {}
    <3> DEFINE u == t \ {c[t]}
    <3>1. c[t] \in t
      BY <1>7, <2>2
    <3>2. u \in SUBSET m /\ u # m
      BY <3>1
    <3>3. h[u] = H(u)
      BY <3>2
    <3>4. G(u)[u] = H(u)
      BY <1>8, <3>2
    <3>5. H(t) = f[c[t]] + G(u)[u]
      BY <2>2
    <3> HIDE DEF H
    <3> QED BY <2>2, <3>3, <3>4, <3>5
  <2> QED BY <2>1, <2>2
<1>10. h = [t \in SUBSET m |-> IF t = {} THEN 0 ELSE f[c[t]] + h[t \ {c[t]}]]
  <2> HIDE DEF H
  <2>1. h = [t \in SUBSET m |-> H(t)]
    OBVIOUS
  <2> HIDE DEF h
  <2> QED BY <1>9, <2>1
<1>11. Adds(h, f, c, m)
  <2> HIDE DEF h
  <2> QED BY <1>10 DEF Adds
<1> QED BY <1>4, <1>11

\* The order does not matter.
LEMMA AddsAnyOrder ==
    ASSUME NEW S, IsFiniteSet(S), NEW f \in [S -> Int], NEW c, NEW g, Adds(g, f, c, S),
           \A t \in SUBSET S : t # {} => c[t] \in t
    PROVE  \A t \in SUBSET S : g[t] \in Int /\ \A x \in t : g[t] = f[x] + g[t \ {x}]
<1> DEFINE Good(t) == g[t] \in Int /\ \A x \in t : g[t] = f[x] + g[t \ {x}]
<1> DEFINE Bad == {t \in SUBSET S : ~ Good(t)}
<1>1. SUFFICES ASSUME Bad # {} PROVE FALSE
  OBVIOUS
<1>2. Bad \in SUBSET (SUBSET S)
  OBVIOUS
<1>3. PICK m \in Bad : \A y \in Bad : y \subseteq m => y = m
  <2> HIDE DEF Bad
  <2> QED BY <1>1, <1>2, MinimalSubset
<1>4. m \in SUBSET S /\ ~ Good(m) /\ \A t \in SUBSET m : t # m => Good(t)
  BY <1>3
<1> HIDE DEF Bad
<1>5. g[m] = IF m = {} THEN 0 ELSE f[c[m]] + g[m \ {c[m]}]
  BY <1>4 DEF Adds
<1>6. CASE m = {}
  BY <1>4, <1>5, <1>6
<1>7. CASE m # {}
  <2>1. PICK d \in m : c[m] = d
    BY <1>4, <1>7
  <2>2. g[m] = f[d] + g[m \ {d}] /\ f[d] \in Int
    BY <1>4, <1>5, <1>7, <2>1
  <2>3. Good(m \ {d})
    BY <1>4
  <2>4. g[m] \in Int
    BY <2>2, <2>3
  <2>5. ASSUME NEW x \in m, x # d PROVE g[m] = f[x] + g[m \ {x}]
    <3>1. Good(m \ {x})
      BY <1>4
    <3>2. g[m \ {x}] = f[d] + g[(m \ {x}) \ {d}]
      BY <2>5, <3>1
    <3>3. g[m \ {d}] = f[x] + g[(m \ {d}) \ {x}]
      BY <2>3, <2>5
    <3>4. (m \ {x}) \ {d} = (m \ {d}) \ {x} /\ (m \ {x}) \ {d} \in SUBSET m /\ (m \ {x}) \ {d} # m
      OBVIOUS
    <3>5. g[(m \ {x}) \ {d}] \in Int /\ f[x] \in Int
      BY <1>4, <3>4
    <3>6. \A a, b, k \in Int : a + (b + k) = b + (a + k)
      OBVIOUS
    <3>7. PICK k \in Int : k = g[(m \ {x}) \ {d}]
      BY <3>5
    <3>8. g[m \ {x}] = f[d] + k /\ g[m \ {d}] = f[x] + k
      BY <3>2, <3>3, <3>4, <3>7
    <3>9. f[d] + (f[x] + k) = f[x] + (f[d] + k)
      BY <2>2, <3>5, <3>6
    <3> QED BY <2>2, <3>8, <3>9
  <2> QED BY <1>4, <2>2, <2>4, <2>5
<1> QED BY <1>6, <1>7

---------------------------------------------------------------------------
\* Sums of a function's values

LEMMA ChooserChooses ==
    \A S : \A t \in SUBSET S : t # {} => Chooser(S)[t] \in t /\ Chooser(S)[t] = (CHOOSE x \in t : TRUE)
<1>1. \A t : t # {} => (CHOOSE x \in t : TRUE) \in t
  BY Zenon
<1> QED BY <1>1 DEF Chooser

\* SumFunctionOnSet is such a sum.
LEMMA SumAdds ==
    ASSUME NEW S, IsFiniteSet(S), NEW f
    PROVE  \E g : Adds(g, f, Chooser(S), S) /\ SumFunctionOnSet(f, S) = g[S]
<1> DEFINE Eq(it) == it = [t \in SUBSET S |-> IF t = {} THEN 0
                           ELSE f[CHOOSE x \in t : TRUE] + it[t \ {CHOOSE x \in t : TRUE}]]
<1> DEFINE c == Chooser(S)
<1>1. SumFunctionOnSet(f, S) = (CHOOSE it : Eq(it))[S]
  BY Zenon DEF SumFunctionOnSet, FoldFunctionOnSet, MapThenFoldSet
<1>2. \A t \in SUBSET S : t # {} => c[t] \in t /\ c[t] = (CHOOSE x \in t : TRUE)
  BY ChooserChooses
<1> HIDE DEF c
<1>3. \A it : Adds(it, f, c, S) <=> Eq(it)
  <2> TAKE it
  <2> DEFINE L == [t \in SUBSET S |-> IF t = {} THEN 0 ELSE f[c[t]] + it[t \ {c[t]}]]
  <2> DEFINE R == [t \in SUBSET S |-> IF t = {} THEN 0
                           ELSE f[CHOOSE x \in t : TRUE] + it[t \ {CHOOSE x \in t : TRUE}]]
  <2>1. L = R
    BY <1>2
  <2>2. Adds(it, f, c, S) <=> it = L
    BY DEF Adds
  <2>3. Eq(it) <=> it = R
    BY DEF Eq
  <2> HIDE DEF L, R, Eq
  <2> QED BY <2>1, <2>2, <2>3
<1>4. \E it : Adds(it, f, c, S)
  BY <1>2, AddsExists
<1> HIDE DEF Eq
<1>5. Eq(CHOOSE it : Eq(it))
  BY <1>3, <1>4, Zenon
<1>6. Adds(CHOOSE it : Eq(it), f, c, S)
  BY <1>3, <1>5
<1> QED BY <1>1, <1>6 DEF c

\* The sum depends on the values over the set only.
LEMMA SumSame ==
    ASSUME NEW S, IsFiniteSet(S), NEW f, NEW h, \A x \in S : f[x] = h[x]
    PROVE  SumFunctionOnSet(f, S) = SumFunctionOnSet(h, S)
<1>1. PICK g : Adds(g, f, Chooser(S), S) /\ SumFunctionOnSet(f, S) = g[S]
  BY SumAdds
<1>2. PICK k : Adds(k, h, Chooser(S), S) /\ SumFunctionOnSet(h, S) = k[S]
  BY SumAdds
<1>3. PICK c : c = Chooser(S)
  OBVIOUS
<1>4. \A t \in SUBSET S : t # {} => c[t] \in t /\ h[c[t]] = f[c[t]]
  BY <1>3, ChooserChooses
<1>5. Adds(g, f, c, S) /\ Adds(k, h, c, S) /\ S \in SUBSET S
  BY <1>1, <1>2, <1>3
<1>6. g[S] = k[S]
  BY <1>4, <1>5, AddsAgree
<1> QED BY <1>1, <1>2, <1>6

LEMMA AddsLast ==
    ASSUME NEW T, IsFiniteSet(T), NEW p \in [T -> Int], NEW d, NEW h, Adds(h, p, d, T),
           \A t \in SUBSET T : t # {} => d[t] \in t, NEW z \in T
    PROVE  h[T] = p[z] + h[T \ {z}]
<1>1. \A t \in SUBSET T : h[t] \in Int /\ \A y \in t : h[t] = p[y] + h[t \ {y}]
  BY AddsAnyOrder
<1> QED BY <1>1

\* Adding an element adds its value.
LEMMA SumExtends ==
    ASSUME NEW S, IsFiniteSet(S), NEW f, \A x \in S : f[x] \in Int
    PROVE  /\ SumFunctionOnSet(f, S) \in Int /\ (S = {} => SumFunctionOnSet(f, S) = 0)
           /\ \A x : x \notin S /\ f[x] \in Int => SumFunctionOnSet(f, S \cup {x}) = SumFunctionOnSet(f, S) + f[x]
<1> DEFINE Whole(T, r, c, g) == Adds(g, r, c, T) /\ SumFunctionOnSet(f, T) = g[T]
                               /\ r \in [T -> Int] /\ (\A x \in T : r[x] = f[x])
                               /\ c = Chooser(T) /\ (\A t \in SUBSET T : t # {} => c[t] \in t)
<1>1. ASSUME NEW T, IsFiniteSet(T), \A x \in T : f[x] \in Int
      PROVE  \E r, c, g : Whole(T, r, c, g)
  <2>1. PICK r : r = [x \in T |-> f[x]]
    OBVIOUS
  <2>2. r \in [T -> Int] /\ \A x \in T : r[x] = f[x]
    BY <1>1, <2>1
  <2>3. PICK g : Adds(g, r, Chooser(T), T) /\ SumFunctionOnSet(r, T) = g[T]
    BY <1>1, SumAdds
  <2>4. SumFunctionOnSet(f, T) = SumFunctionOnSet(r, T)
    BY <1>1, <2>2, SumSame
  <2>5. Whole(T, r, Chooser(T), g)
    BY <2>2, <2>3, <2>4, ChooserChooses
  <2> QED BY <2>5
<1>2. PICK r, c, g : Whole(S, r, c, g)
  BY <1>1
<1>3. \A t \in SUBSET S : g[t] \in Int
  BY <1>2, AddsAnyOrder
<1>4. SumFunctionOnSet(f, S) \in Int /\ (S = {} => SumFunctionOnSet(f, S) = 0)
  <2>1. S \in SUBSET S
    OBVIOUS
  <2>2. S = {} => g[S] = 0
    BY <1>2, <2>1 DEF Adds
  <2> QED BY <1>2, <1>3, <2>1, <2>2
<1>5. ASSUME NEW x, x \notin S, f[x] \in Int
      PROVE  SumFunctionOnSet(f, S \cup {x}) = SumFunctionOnSet(f, S) + f[x]
  <2>1. PICK T : T = S \cup {x}
    OBVIOUS
  <2>2. IsFiniteSet(T) /\ \A y \in T : f[y] \in Int
    BY <1>5, <2>1, FS_AddElement
  <2>3. PICK p, d, h : Whole(T, p, d, h)
    BY <1>1, <2>2
  <2>12. /\ Adds(h, p, d, T) 
         /\ \A t \in SUBSET T : t # {} => d[t] \in t
         /\ d = Chooser(T)
    BY <2>3
  <2>13. /\ Adds(g, r, c, S) 
         /\ \A t \in SUBSET S : t # {} => c[t] \in t
         /\ c = Chooser(S)
    BY <1>2
  <2>4. T \in SUBSET T /\ S \in SUBSET T /\ S \in SUBSET S /\ x \in T /\ T \ {x} = S
    BY <1>5, <2>1
  <2>14. /\ IsFiniteSet(T) /\ p \in [T -> Int] /\ Adds(h, p, d, T)
         /\ \A t \in SUBSET T : t # {} => d[t] \in t
    BY <2>2, <2>3, <2>12
  <2>5. \A t \in SUBSET T : h[t] \in Int
    BY <2>14, AddsAnyOrder
  <2>6. h[T] = p[x] + h[S] /\ p[x] = f[x]
    <3>1. x \in T
      BY <2>4
    <3>2. h[T] = p[x] + h[T \ {x}]
      BY <2>14, <3>1, AddsLast
    <3> QED BY <2>3, <2>4, <3>2
  <2>7. \A t \in SUBSET S : t \in SUBSET T /\ t # {} => d[t] = c[t] /\ p[c[t]] = r[c[t]]
    <3>1. \A t \in SUBSET S : t \in SUBSET T /\ t # {} => d[t] = c[t] /\ c[t] \in S
      <4>1. \A t \in SUBSET S : t # {} => c[t] = (CHOOSE y \in t : TRUE) /\ c[t] \in t
        BY <2>13, ChooserChooses
      <4>2. \A t \in SUBSET T : t # {} => d[t] = (CHOOSE y \in t : TRUE)
        BY <2>12, ChooserChooses
      <4> QED BY <4>1, <4>2
    <3>2. \A y \in S : p[y] = r[y]
      BY <1>2, <2>1, <2>3
    <3> QED BY <3>1, <3>2
  <2>8. g[S] = h[S]
    <3>1. Adds(h, p, d, T)
      BY <2>12
    <3>2. Adds(g, r, c, S)
      BY <2>13
    <3>3. \A t \in SUBSET S : t # {} => c[t] \in t
      BY <2>13
    <3> QED BY <2>4, <2>7, <3>1, <3>2, <3>3, AddsAgree
  <2>9. h[S] \in Int
    BY <2>4, <2>5
  <2>10. SumFunctionOnSet(f, S) = h[S] /\ SumFunctionOnSet(f, T) = f[x] + h[S]
    BY <1>2, <2>3, <2>6, <2>8
  <2>11. \A a, b \in Int : a + b = b + a
    OBVIOUS
  <2> QED BY <1>5, <2>1, <2>9, <2>10, <2>11
<1> QED BY <1>4, <1>5
==============================================================================
