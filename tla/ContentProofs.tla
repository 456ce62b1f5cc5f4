--------------------------- MODULE ContentProofs ----------------------------
(***************************************************************************)
(* Facts about tables, grids, scopes and charts, for every dataset: what   *)
(* xarray's selections keep of a grid, what its table contains, which rows *)
(* a scope selects of a table, how many each extractor counts, how series  *)
(* and averages are merged, which positions and places a map reads, and    *)
(* what a preview, a profile or a box of a content holds.                  *)
(*                                                                         *)
(* They rest on facts about finite sets that come first: sums and products *)
(* as the module Functions folds them, greatest and least elements, and    *)
(* sets ranked by a total order.  A fold is a recursive function over      *)
(* subsets, so each fact is shown of a smallest subset for which it would  *)
(* fail.                                                                   *)
(***************************************************************************)
EXTENDS Scopes, Charts, FiniteSetTheorems, TLAPS

-----------------------------------------------------------------------------
(* Finite sets                                                             *)

First(s) == CHOOSE x \in s : TRUE

\* g adds up f over the subsets of S.
Adds(g, f, S) ==
    g = [s \in SUBSET S |-> IF s = {} THEN 0 ELSE f[First(s)] + g[s \ {First(s)}]]

\* Induction over the subsets of a finite set: among those with a flaw there is a
\* minimal one.
LEMMA MinimalSubset ==
    ASSUME NEW S, IsFiniteSet(S), NEW B, B \subseteq SUBSET S, B # {}
    PROVE  \E T \in B : \A U \in B : ~(U \subseteq T /\ U # T)
<1>1. B \subseteq FiniteSubsetsOf(S)
  BY FS_FiniteSubsetsOfFinite
<1>2. IsWellFoundedOn(StrictSubsetOrdering(S), FiniteSubsetsOf(S))
  BY FS_StrictSubsetOrderingWellFounded
<1>3. PICK T \in B : \A U \in B : ~(<<U, T>> \in StrictSubsetOrdering(S))
  BY <1>1, <1>2, WFMin
<1> QED
  BY <1>3 DEF StrictSubsetOrdering

LEMMA FirstIn == ASSUME NEW s, s # {} PROVE First(s) \in s
BY DEF First

LEMMA AddsUnique ==
    ASSUME NEW f, NEW S, NEW T, IsFiniteSet(S), NEW g, NEW h, Adds(g, f, S), Adds(h, f, T)
    PROVE  \A s \in SUBSET (S \cap T) : g[s] = h[s]
<1>0. PICK B : B = {s \in SUBSET (S \cap T) : g[s] # h[s]}
  OBVIOUS
<1> SUFFICES ASSUME B # {} PROVE FALSE
  BY <1>0
<1>1. PICK s \in B : \A u \in B : ~(u \subseteq s /\ u # s)
  <2>1. IsFiniteSet(S \cap T) /\ B \subseteq SUBSET (S \cap T)
    BY <1>0, FS_Subset
  <2> QED
    BY <2>1, MinimalSubset
<1>2. s \in SUBSET S /\ s \in SUBSET T /\ g[s] # h[s]
  BY <1>0, <1>1
<1>3. CASE s = {}
  BY <1>2, <1>3 DEF Adds
<1>4. CASE s # {}
  <2>1. PICK x, u : x = First(s) /\ u = s \ {x}
    OBVIOUS
  <2>2. x \in s
    BY <1>4, <2>1, FirstIn
  <2>3. u \in SUBSET (S \cap T) /\ u \subseteq s /\ u # s
    BY <1>2, <2>1, <2>2
  <2>4. g[u] = h[u]
    BY <1>0, <1>1, <2>3
  <2>5. g[s] = f[x] + g[u]
    BY <1>2, <1>4, <2>1 DEF Adds
  <2>6. h[s] = f[x] + h[u]
    BY <1>2, <1>4, <2>1 DEF Adds
  <2> QED
    BY <1>2, <2>4, <2>5, <2>6
<1> QED
  BY <1>3, <1>4

LEMMA AddsExists ==
    ASSUME NEW f, NEW S, IsFiniteSet(S)
    PROVE  \E g : Adds(g, f, S)
<1>0. PICK B : B = {T \in SUBSET S : ~\E g : Adds(g, f, T)}
  OBVIOUS
<1> SUFFICES ASSUME B # {} PROVE FALSE
  BY <1>0
<1>1. PICK T \in B : \A U \in B : ~(U \subseteq T /\ U # T)
  <2>1. B \subseteq SUBSET S
    BY <1>0
  <2> QED
    BY <2>1, MinimalSubset
<1>2. T \in SUBSET S /\ IsFiniteSet(T) /\ ~\E g : Adds(g, f, T)
  BY <1>0, <1>1, FS_Subset
<1> DEFINE G(u) == CHOOSE g : Adds(g, f, u)
<1>3. ASSUME NEW u \in SUBSET T, u # T PROVE Adds(G(u), f, u) /\ IsFiniteSet(u)
  <2>1. u \notin B /\ u \in SUBSET S
    BY <1>1, <1>2, <1>3
  <2> QED
    BY <1>0, <1>2, <2>1, FS_Subset
<1> DEFINE sum(s) == IF s = {} THEN 0 ELSE f[First(s)] + G(s \ {First(s)})[s \ {First(s)}]
           h == [s \in SUBSET T |-> sum(s)]
<1> HIDE DEF G
<1>4. ASSUME NEW s \in SUBSET T, s # {}, NEW u, u = s \ {First(s)}
      PROVE  h[u] = G(u)[u]
  <2>1. First(s) \in s /\ u \in SUBSET T /\ u # T
    BY <1>4, FirstIn
  <2>2. Adds(G(u), f, u)
    BY <1>3, <2>1
  <2>3. CASE u = {}
    BY <2>1, <2>2, <2>3 DEF Adds
  <2>4. CASE u # {}
    <3>1. PICK x, v : x = First(u) /\ v = u \ {x}
      OBVIOUS
    <3>2. x \in u /\ v \in SUBSET T /\ v # T /\ v \in SUBSET u
      BY <2>1, <2>4, <3>1, FirstIn
    <3>3. G(u)[u] = f[x] + G(u)[v]
      BY <2>2, <2>4, <3>1 DEF Adds
    <3>4. G(u)[v] = G(v)[v]
      <4>1. Adds(G(v), f, v) /\ IsFiniteSet(u) /\ v \in SUBSET (u \cap v)
        BY <1>3, <2>1, <3>2
      <4> QED
        BY <2>2, <4>1, AddsUnique
    <3>5. h[u] = f[x] + G(v)[v]
      BY <2>1, <2>4, <3>1
    <3> QED
      BY <3>3, <3>4, <3>5
  <2> QED
    BY <2>3, <2>4
<1>5. \A s \in SUBSET T : h[s] = IF s = {} THEN 0 ELSE f[First(s)] + h[s \ {First(s)}]
  BY <1>4
<1>6. Adds(h, f, T)
  <2>1. h = [s \in SUBSET T |-> h[s]]
    OBVIOUS
  <2> QED
    BY <1>5, <2>1 DEF Adds
<1> QED
  BY <1>2, <1>6

\* What the community module's sum is.
LEMMA SumAdds ==
    ASSUME NEW f, NEW S, IsFiniteSet(S)
    PROVE  \E g : Adds(g, f, S) /\ SumFunctionOnSet(f, S) = g[S]
<1> DEFINE g == CHOOSE g : Adds(g, f, S)
<1>1. Adds(g, f, S)
  BY AddsExists
<1>2. SumFunctionOnSet(f, S) = g[S]
  BY DEF SumFunctionOnSet, FoldFunctionOnSet, MapThenFoldSet, Adds, First
<1> QED
  BY <1>1, <1>2
-----------------------------------------------------------------------------
(* Sums of numbers                                                         *)

LEMMA AddsInt ==
    ASSUME NEW f, NEW S, IsFiniteSet(S), NEW g, Adds(g, f, S), \A x \in S : f[x] \in Int
    PROVE  \A s \in SUBSET S : g[s] \in Int
<1>0. PICK B : B = {s \in SUBSET S : g[s] \notin Int}
  OBVIOUS
<1> SUFFICES ASSUME B # {} PROVE FALSE
  BY <1>0
<1>1. PICK s \in B : \A u \in B : ~(u \subseteq s /\ u # s)
  <2>1. B \subseteq SUBSET S
    BY <1>0
  <2> QED
    BY <2>1, MinimalSubset
<1>2. s \in SUBSET S /\ g[s] \notin Int
  BY <1>0, <1>1
<1>3. CASE s = {}
  BY <1>2, <1>3 DEF Adds
<1>4. CASE s # {}
  <2>1. PICK x, u : x = First(s) /\ u = s \ {x}
    OBVIOUS
  <2>2. x \in s /\ u \in SUBSET S /\ u \subseteq s /\ u # s
    BY <1>2, <1>4, <2>1, FirstIn
  <2>3. f[x] \in Int /\ g[u] \in Int
    BY <1>0, <1>1, <1>2, <2>2
  <2>4. g[s] = f[x] + g[u]
    BY <1>2, <1>4, <2>1 DEF Adds
  <2> QED
    BY <1>2, <2>3, <2>4
<1> QED
  BY <1>3, <1>4

\* Any element may come first.
LEMMA AddsRemove ==
    ASSUME NEW f, NEW S, IsFiniteSet(S), NEW g, Adds(g, f, S), \A x \in S : f[x] \in Int
    PROVE  \A s \in SUBSET S : \A x \in s : g[s] = f[x] + g[s \ {x}]
<1>0. PICK B : B = {s \in SUBSET S : \E x \in s : g[s] # f[x] + g[s \ {x}]}
  OBVIOUS
<1> SUFFICES ASSUME B # {} PROVE FALSE
  BY <1>0
<1>1. PICK s \in B : \A u \in B : ~(u \subseteq s /\ u # s)
  <2>1. B \subseteq SUBSET S
    BY <1>0
  <2> QED
    BY <2>1, MinimalSubset
<1>2. s \in SUBSET S
  BY <1>0, <1>1
<1>3. PICK x \in s : g[s] # f[x] + g[s \ {x}]
  BY <1>0, <1>1
<1>4. PICK y, u, v, w : y = First(s) /\ u = s \ {y} /\ v = s \ {x} /\ w = u \ {x}
  OBVIOUS
<1>5. y \in s
  BY <1>3, <1>4, FirstIn
<1>6. g[s] = f[y] + g[u]
  BY <1>2, <1>3, <1>4 DEF Adds
<1>7. y # x
  BY <1>3, <1>4, <1>6
<1>8. g[u] = f[x] + g[w]
  <2>1. u \in SUBSET S /\ u \subseteq s /\ u # s /\ x \in u
    BY <1>2, <1>4, <1>5, <1>7
  <2> QED
    BY <1>0, <1>1, <1>4, <2>1
<1>9. g[v] = f[y] + g[w]
  <2>1. v \in SUBSET S /\ v \subseteq s /\ v # s /\ y \in v /\ w = v \ {y}
    BY <1>2, <1>4, <1>5, <1>7
  <2> QED
    BY <1>0, <1>1, <2>1
<1>10. f[x] \in Int /\ f[y] \in Int /\ g[w] \in Int
  BY <1>2, <1>4, <1>5, AddsInt
<1> QED
  BY <1>3, <1>4, <1>6, <1>8, <1>9, <1>10

-----------------------------------------------------------------------------
(* The sum of the module Functions                                         *)

\* It is what every g that adds up f gives.
LEMMA SumOfAdds ==
    ASSUME NEW f, NEW S, IsFiniteSet(S), NEW g, Adds(g, f, S)
    PROVE  \A s \in SUBSET S : SumFunctionOnSet(f, s) = g[s]
<1> TAKE s \in SUBSET S
<1>1. IsFiniteSet(s)
  BY FS_Subset
<1>2. PICK h : Adds(h, f, s) /\ SumFunctionOnSet(f, s) = h[s]
  BY <1>1, SumAdds
<1> QED
  BY <1>1, <1>2, AddsUnique

LEMMA SumEmpty == ASSUME NEW f PROVE SumFunctionOnSet(f, {}) = 0
<1>1. IsFiniteSet({})
  BY FS_EmptySet
<1>2. PICK g : Adds(g, f, {}) /\ SumFunctionOnSet(f, {}) = g[{}]
  BY <1>1, SumAdds
<1> QED
  BY <1>2 DEF Adds

LEMMA SumInt ==
    ASSUME NEW f, NEW S, IsFiniteSet(S), \A x \in S : f[x] \in Int
    PROVE  SumFunctionOnSet(f, S) \in Int
<1>1. PICK g : Adds(g, f, S) /\ SumFunctionOnSet(f, S) = g[S]
  BY SumAdds
<1> QED
  BY <1>1, AddsInt

LEMMA SumRemove ==
    ASSUME NEW f, NEW S, IsFiniteSet(S), \A x \in S : f[x] \in Int, NEW x \in S
    PROVE  SumFunctionOnSet(f, S) = f[x] + SumFunctionOnSet(f, S \ {x})
<1>1. PICK g : Adds(g, f, S)
  BY AddsExists
<1>2. SumFunctionOnSet(f, S) = g[S]
  BY <1>1, SumOfAdds
<1>3. SumFunctionOnSet(f, S \ {x}) = g[S \ {x}]
  BY <1>1, SumOfAdds
<1>4. g[S] = f[x] + g[S \ {x}]
  BY <1>1, AddsRemove
<1> QED
  BY <1>2, <1>3, <1>4

LEMMA SumNat ==
    ASSUME NEW f, NEW S, IsFiniteSet(S), \A x \in S : f[x] \in Nat
    PROVE  SumFunctionOnSet(f, S) \in Nat
<1>0. PICK B : B = {s \in SUBSET S : SumFunctionOnSet(f, s) \notin Nat}
  OBVIOUS
<1> SUFFICES ASSUME B # {} PROVE FALSE
  BY <1>0
<1>1. PICK s \in B : \A u \in B : ~(u \subseteq s /\ u # s)
  <2>1. B \subseteq SUBSET S
    BY <1>0
  <2> QED
    BY <2>1, MinimalSubset
<1>2. s \in SUBSET S /\ IsFiniteSet(s) /\ SumFunctionOnSet(f, s) \notin Nat
  BY <1>0, <1>1, FS_Subset
<1>3. s # {}
  BY <1>2, SumEmpty
<1>4. PICK x, u : x \in s /\ u = s \ {x}
  BY <1>3
<1>5. SumFunctionOnSet(f, u) \in Nat
  BY <1>0, <1>1, <1>2, <1>4
<1>6. SumFunctionOnSet(f, s) = f[x] + SumFunctionOnSet(f, u)
  BY <1>2, <1>4, SumRemove
<1> QED
  BY <1>2, <1>4, <1>5, <1>6

-----------------------------------------------------------------------------
(* The same terms under other names                                        *)

LEMMA SumRenamed ==
    ASSUME NEW S, NEW T, IsFiniteSet(S), NEW b \in Bijection(S, T), NEW f, NEW g,
           \A x \in S : f[x] \in Int /\ g[b[x]] = f[x]
    PROVE  SumFunctionOnSet(f, S) = SumFunctionOnSet(g, T)
<1> DEFINE Image(s) == {b[x] : x \in s}
<1>0. PICK B : B = {s \in SUBSET S : SumFunctionOnSet(f, s) # SumFunctionOnSet(g, Image(s))}
  OBVIOUS
<1>b. /\ b \in [S -> T]
      /\ \A x, y \in S : b[x] = b[y] => x = y
      /\ \A y \in T : \E x \in S : b[x] = y
  BY DEF Bijection, Injection, Surjection, IsInjective
<1>i. Image(S) = T
  BY <1>b
<1>f. IsFiniteSet(T)
  BY FS_Bijection DEF ExistsBijection
<1> SUFFICES ASSUME B # {} PROVE FALSE
  BY <1>0, <1>i
<1>1. PICK s \in B : \A u \in B : ~(u \subseteq s /\ u # s)
  <2>1. B \subseteq SUBSET S
    BY <1>0
  <2> QED
    BY <2>1, MinimalSubset
<1>2. s \in SUBSET S /\ IsFiniteSet(s) /\ SumFunctionOnSet(f, s) # SumFunctionOnSet(g, Image(s))
  BY <1>0, <1>1, FS_Subset
<1>3. s # {}
  BY <1>2, SumEmpty
<1>4. PICK x, u : x \in s /\ u = s \ {x}
  BY <1>3
<1>5. SumFunctionOnSet(f, u) = SumFunctionOnSet(g, Image(u))
  BY <1>0, <1>1, <1>2, <1>4
<1>6. SumFunctionOnSet(f, s) = f[x] + SumFunctionOnSet(f, u)
  BY <1>2, <1>4, SumRemove
<1>7. PICK t : t = Image(s)
  OBVIOUS
<1>8. t \subseteq T /\ b[x] \in t /\ Image(u) = t \ {b[x]} /\ IsFiniteSet(t)
  <2>1. t \subseteq T /\ b[x] \in t
    BY <1>b, <1>2, <1>4, <1>7
  <2>2. Image(u) = t \ {b[x]}
    BY <1>b, <1>2, <1>4, <1>7
  <2> QED
    BY <1>f, <2>1, <2>2, FS_Subset
<1>9. \A y \in t : g[y] \in Int
  BY <1>2, <1>7
<1>10. SumFunctionOnSet(g, t) = g[b[x]] + SumFunctionOnSet(g, t \ {b[x]})
  BY <1>8, <1>9, SumRemove
<1> QED
  BY <1>2, <1>4, <1>5, <1>6, <1>7, <1>8, <1>10

\* Smaller terms.
LEMMA SumMonotone ==
    ASSUME NEW f, NEW g, NEW S, IsFiniteSet(S), \A x \in S : f[x] \in Int /\ g[x] \in Int /\ f[x] <= g[x]
    PROVE  SumFunctionOnSet(f, S) <= SumFunctionOnSet(g, S)
<1>0. PICK B : B = {s \in SUBSET S : ~(SumFunctionOnSet(f, s) <= SumFunctionOnSet(g, s))}
  OBVIOUS
<1> SUFFICES ASSUME B # {} PROVE FALSE
  BY <1>0
<1>1. PICK s \in B : \A u \in B : ~(u \subseteq s /\ u # s)
  <2>1. B \subseteq SUBSET S
    BY <1>0
  <2> QED
    BY <2>1, MinimalSubset
<1>2. s \in SUBSET S /\ IsFiniteSet(s) /\ ~(SumFunctionOnSet(f, s) <= SumFunctionOnSet(g, s))
  BY <1>0, <1>1, FS_Subset
<1>3. s # {}
  BY <1>2, SumEmpty
<1>4. PICK x, u : x \in s /\ u = s \ {x}
  BY <1>3
<1>5. SumFunctionOnSet(f, u) <= SumFunctionOnSet(g, u)
  BY <1>0, <1>1, <1>2, <1>4
<1>6. /\ SumFunctionOnSet(f, s) = f[x] + SumFunctionOnSet(f, u)
      /\ SumFunctionOnSet(g, s) = g[x] + SumFunctionOnSet(g, u)
  BY <1>2, <1>4, SumRemove
<1>7. SumFunctionOnSet(f, u) \in Int /\ SumFunctionOnSet(g, u) \in Int
  <2>1. IsFiniteSet(u) /\ u \subseteq S
    BY <1>2, <1>4, FS_Subset
  <2> QED
    BY <2>1, SumInt
<1> QED
  BY <1>2, <1>4, <1>5, <1>6, <1>7

\* Fewer and smaller terms.
LEMMA SumWithin ==
    ASSUME NEW f, NEW g, NEW T, IsFiniteSet(T), NEW S, S \subseteq T,
           \A x \in S : f[x] \in Nat /\ f[x] <= g[x],
           \A x \in T : g[x] \in Nat
    PROVE  SumFunctionOnSet(f, S) <= SumFunctionOnSet(g, T)
<1>0. PICK B : B = {t \in SUBSET T : ~(SumFunctionOnSet(f, S \cap t) <= SumFunctionOnSet(g, t))}
  OBVIOUS
<1>1. ASSUME B # {} PROVE FALSE
  <2>1. PICK t \in B : \A u \in B : ~(u \subseteq t /\ u # t)
    <3>1. B \subseteq SUBSET T
      BY <1>0
    <3> QED
      BY <1>1, <3>1, MinimalSubset
  <2>2. /\ t \in SUBSET T /\ IsFiniteSet(t) /\ IsFiniteSet(S \cap t)
        /\ ~(SumFunctionOnSet(f, S \cap t) <= SumFunctionOnSet(g, t))
    BY <1>0, <2>1, FS_Subset
  <2>3. t # {}
    <3>1. ASSUME t = {} PROVE FALSE
      <4>1. S \cap t = {}
        BY <3>1
      <4> QED
        BY <2>2, <3>1, <4>1, SumEmpty
    <3> QED
      BY <3>1
  <2>4. PICK x, u : x \in t /\ u = t \ {x}
    BY <2>3
  <2>5. SumFunctionOnSet(f, S \cap u) <= SumFunctionOnSet(g, u)
    BY <1>0, <2>1, <2>2, <2>4
  <2>6. /\ SumFunctionOnSet(g, t) = g[x] + SumFunctionOnSet(g, u)
        /\ g[x] \in Nat /\ SumFunctionOnSet(g, u) \in Nat /\ SumFunctionOnSet(f, S \cap u) \in Nat
    <3>1. \A y \in t : g[y] \in Nat
      BY <2>2
    <3>2. IsFiniteSet(u) /\ IsFiniteSet(S \cap u) /\ u \subseteq t
      BY <2>2, <2>4, FS_Subset
    <3> QED
      BY <2>2, <2>4, <3>1, <3>2, SumRemove, SumNat
  <2>7. CASE x \in S
    <3>1. (S \cap t) \ {x} = S \cap u /\ x \in S \cap t
      BY <2>4, <2>7
    <3>2. SumFunctionOnSet(f, S \cap t) = f[x] + SumFunctionOnSet(f, S \cap u)
      BY <2>2, <3>1, SumRemove
    <3> QED
      BY <2>2, <2>5, <2>6, <2>7, <3>2
  <2>8. CASE x \notin S
    <3>1. S \cap t = S \cap u
      BY <2>4, <2>8
    <3>2. SumFunctionOnSet(f, S \cap t) = SumFunctionOnSet(f, S \cap u)
      BY <3>1
    <3> QED
      BY <2>2, <2>5, <2>6, <3>2
  <2> QED
    BY <2>7, <2>8
<1>2. S \cap T = S
  OBVIOUS
<1> QED
  BY <1>0, <1>1, <1>2

\* Terms added one by one.
LEMMA SumPlus ==
    ASSUME NEW f, NEW g, NEW h, NEW S, IsFiniteSet(S),
           \A x \in S : f[x] \in Int /\ g[x] \in Int /\ h[x] = f[x] + g[x]
    PROVE  SumFunctionOnSet(h, S) = SumFunctionOnSet(f, S) + SumFunctionOnSet(g, S)
<1>0. PICK B : B = {s \in SUBSET S : SumFunctionOnSet(h, s) # SumFunctionOnSet(f, s) + SumFunctionOnSet(g, s)}
  OBVIOUS
<1> SUFFICES ASSUME B # {} PROVE FALSE
  BY <1>0
<1>1. PICK s \in B : \A u \in B : ~(u \subseteq s /\ u # s)
  <2>1. B \subseteq SUBSET S
    BY <1>0
  <2> QED
    BY <2>1, MinimalSubset
<1>2. /\ s \in SUBSET S /\ IsFiniteSet(s)
      /\ SumFunctionOnSet(h, s) # SumFunctionOnSet(f, s) + SumFunctionOnSet(g, s)
  BY <1>0, <1>1, FS_Subset
<1>3. s # {}
  <2>1. /\ SumFunctionOnSet(f, {}) = 0 /\ SumFunctionOnSet(g, {}) = 0
        /\ SumFunctionOnSet(h, {}) = 0
    BY SumEmpty
  <2> QED
    BY <1>2, <2>1
<1>4. PICK x, u : x \in s /\ u = s \ {x}
  BY <1>3
<1>5. SumFunctionOnSet(h, u) = SumFunctionOnSet(f, u) + SumFunctionOnSet(g, u)
  BY <1>0, <1>1, <1>2, <1>4
<1>6. \A y \in s : f[y] \in Int /\ g[y] \in Int /\ h[y] \in Int /\ h[y] = f[y] + g[y]
  BY <1>2
<1>7. /\ SumFunctionOnSet(h, s) = h[x] + SumFunctionOnSet(h, u)
      /\ SumFunctionOnSet(f, s) = f[x] + SumFunctionOnSet(f, u)
      /\ SumFunctionOnSet(g, s) = g[x] + SumFunctionOnSet(g, u)
  BY <1>2, <1>4, <1>6, SumRemove
<1>8. SumFunctionOnSet(f, u) \in Int /\ SumFunctionOnSet(g, u) \in Int
  <2>1. IsFiniteSet(u) /\ \A y \in u : f[y] \in Int /\ g[y] \in Int
    BY <1>2, <1>4, <1>6, FS_Subset
  <2> QED
    BY <2>1, SumInt
<1> QED
  BY <1>2, <1>4, <1>5, <1>6, <1>7, <1>8

\* Terms of two disjoint sets.
LEMMA SumUnion ==
    ASSUME NEW f, NEW S, NEW T, IsFiniteSet(S), IsFiniteSet(T), S \cap T = {},
           \A x \in S \cup T : f[x] \in Int
    PROVE  SumFunctionOnSet(f, S \cup T) = SumFunctionOnSet(f, S) + SumFunctionOnSet(f, T)
<1>0. PICK B : B = {s \in SUBSET S : SumFunctionOnSet(f, s \cup T) # SumFunctionOnSet(f, s) + SumFunctionOnSet(f, T)}
  OBVIOUS
<1> SUFFICES ASSUME B # {} PROVE FALSE
  BY <1>0
<1>1. PICK s \in B : \A u \in B : ~(u \subseteq s /\ u # s)
  <2>1. B \subseteq SUBSET S
    BY <1>0
  <2> QED
    BY <2>1, MinimalSubset
<1>2. /\ s \in SUBSET S /\ IsFiniteSet(s) /\ IsFiniteSet(s \cup T)
      /\ SumFunctionOnSet(f, s \cup T) # SumFunctionOnSet(f, s) + SumFunctionOnSet(f, T)
  BY <1>0, <1>1, FS_Subset, FS_Union
<1>3. SumFunctionOnSet(f, T) \in Int
  BY SumInt
<1>4. s # {}
  <2>1. ASSUME s = {} PROVE FALSE
    <3>1. s \cup T = T
      BY <2>1
    <3> QED
      BY <1>2, <1>3, <2>1, <3>1, SumEmpty
  <2> QED
    BY <2>1
<1>5. PICK x, u : x \in s /\ u = s \ {x}
  BY <1>4
<1>6. SumFunctionOnSet(f, u \cup T) = SumFunctionOnSet(f, u) + SumFunctionOnSet(f, T)
  BY <1>0, <1>1, <1>2, <1>5
<1>7. SumFunctionOnSet(f, s) = f[x] + SumFunctionOnSet(f, u)
  BY <1>2, <1>5, SumRemove
<1>8. SumFunctionOnSet(f, s \cup T) = f[x] + SumFunctionOnSet(f, u \cup T)
  <2>1. x \in s \cup T /\ (s \cup T) \ {x} = u \cup T
    BY <1>2, <1>5
  <2>2. \A y \in s \cup T : f[y] \in Int
    BY <1>2
  <2> QED
    BY <1>2, <2>1, <2>2, SumRemove
<1>9. f[x] \in Int /\ SumFunctionOnSet(f, u) \in Int
  <2>1. IsFiniteSet(u) /\ \A y \in u : f[y] \in Int
    BY <1>2, <1>5, FS_Subset
  <2> QED
    BY <1>2, <1>5, <2>1, SumInt
<1> QED
  BY <1>2, <1>3, <1>6, <1>7, <1>8, <1>9

\* The elements of disjoint parts of a set are no more than the set's.
LEMMA SumOfParts ==
    ASSUME NEW R, IsFiniteSet(R), NEW S, IsFiniteSet(S), NEW n,
           \A x \in S : \E part \in SUBSET R : n[x] = Cardinality(part) /\ \A r \in part : r.file = x
    PROVE  SumFunctionOnSet(n, S) <= Cardinality({r \in R : r.file \in S})
<1> DEFINE OfFiles(s) == {r \in R : r.file \in s}
<1>n. ASSUME NEW s \in SUBSET S, NEW x \in s, NEW u, u = s \ {x}
      PROVE  /\ n[x] \in Nat /\ IsFiniteSet(OfFiles(u)) /\ IsFiniteSet(OfFiles(s))
             /\ n[x] + Cardinality(OfFiles(u)) <= Cardinality(OfFiles(s))
  <2>1. PICK part \in SUBSET R : n[x] = Cardinality(part) /\ \A r \in part : r.file = x
    OBVIOUS
  <2>2. PICK U, V : U = OfFiles(u) /\ V = OfFiles(s)
    OBVIOUS
  <2>3. U \subseteq R /\ V \subseteq R /\ part \cup U \subseteq V /\ part \cap U = {}
    BY <1>n, <2>1, <2>2
  <2>4. IsFiniteSet(part) /\ IsFiniteSet(U) /\ IsFiniteSet(V)
    BY <2>1, <2>3, FS_Subset
  <2>5. Cardinality(part \cup U) = Cardinality(part) + Cardinality(U) - 0
    BY <2>3, <2>4, FS_Union, FS_EmptySet
  <2>6. Cardinality(part) \in Nat /\ Cardinality(U) \in Nat /\ Cardinality(V) \in Nat
    BY <2>4, FS_CardinalityType
  <2>7. Cardinality(part \cup U) <= Cardinality(V)
    BY <2>3, <2>4, FS_Subset
  <2> HIDE DEF OfFiles
  <2> QED
    BY <2>1, <2>2, <2>4, <2>5, <2>6, <2>7
<1>e. OfFiles({}) = {}
  OBVIOUS
<1> HIDE DEF OfFiles
<1>0. PICK B : B = {s \in SUBSET S : ~(SumFunctionOnSet(n, s) <= Cardinality(OfFiles(s)))}
  OBVIOUS
<1>1. ASSUME B # {} PROVE FALSE
  <2>1. PICK s \in B : \A u \in B : ~(u \subseteq s /\ u # s)
    <3>1. B \subseteq SUBSET S
      BY <1>0
    <3> QED
      BY <1>1, <3>1, MinimalSubset
  <2>2. s \in SUBSET S /\ IsFiniteSet(s) /\ ~(SumFunctionOnSet(n, s) <= Cardinality(OfFiles(s)))
    BY <1>0, <2>1, FS_Subset
  <2>3. s # {}
    BY <1>e, <2>2, SumEmpty, FS_EmptySet
  <2>4. PICK x, u : x \in s /\ u = s \ {x}
    BY <2>3
  <2>5. SumFunctionOnSet(n, u) <= Cardinality(OfFiles(u))
    BY <1>0, <2>1, <2>2, <2>4
  <2>6. \A y \in s : n[y] \in Nat
    BY <1>n, <2>2
  <2>7. SumFunctionOnSet(n, s) = n[x] + SumFunctionOnSet(n, u) /\ SumFunctionOnSet(n, u) \in Nat
    <3>1. IsFiniteSet(u) /\ u \subseteq s
      BY <2>2, <2>4, FS_Subset
    <3> QED
      BY <2>2, <2>4, <2>6, <3>1, SumRemove, SumNat
  <2>8. n[x] + Cardinality(OfFiles(u)) <= Cardinality(OfFiles(s)) /\ IsFiniteSet(OfFiles(u)) /\ IsFiniteSet(OfFiles(s))
    BY <1>n, <2>2, <2>4
  <2>9. Cardinality(OfFiles(u)) \in Nat /\ Cardinality(OfFiles(s)) \in Nat
    BY <2>8, FS_CardinalityType
  <2> QED
    BY <2>2, <2>4, <2>5, <2>6, <2>7, <2>8, <2>9
<1>2. S \in SUBSET S
  OBVIOUS
<1>3. SumFunctionOnSet(n, S) <= Cardinality(OfFiles(S))
  BY <1>0, <1>1, <1>2
<1> QED
  BY <1>3 DEF OfFiles

-----------------------------------------------------------------------------
(* Products                                                                *)

\* g multiplies f over the subsets of S.
Multiplies(g, f, S) ==
    g = [s \in SUBSET S |-> IF s = {} THEN 1 ELSE f[First(s)] * g[s \ {First(s)}]]

\* As for sums.
LEMMA MultipliesUnique ==
    ASSUME NEW f, NEW S, NEW T, IsFiniteSet(S), NEW g, NEW h, Multiplies(g, f, S), Multiplies(h, f, T)
    PROVE  \A s \in SUBSET (S \cap T) : g[s] = h[s]
<1>0. PICK B : B = {s \in SUBSET (S \cap T) : g[s] # h[s]}
  OBVIOUS
<1> SUFFICES ASSUME B # {} PROVE FALSE
  BY <1>0
<1>1. PICK s \in B : \A u \in B : ~(u \subseteq s /\ u # s)
  <2>1. IsFiniteSet(S \cap T) /\ B \subseteq SUBSET (S \cap T)
    BY <1>0, FS_Subset
  <2> QED
    BY <2>1, MinimalSubset
<1>2. s \in SUBSET S /\ s \in SUBSET T /\ g[s] # h[s]
  BY <1>0, <1>1
<1>3. CASE s = {}
  BY <1>2, <1>3 DEF Multiplies
<1>4. CASE s # {}
  <2>1. PICK x, u : x = First(s) /\ u = s \ {x}
    OBVIOUS
  <2>2. x \in s
    BY <1>4, <2>1, FirstIn
  <2>3. u \in SUBSET (S \cap T) /\ u \subseteq s /\ u # s
    BY <1>2, <2>1, <2>2
  <2>4. g[u] = h[u]
    BY <1>0, <1>1, <2>3
  <2>5. g[s] = f[x] * g[u]
    BY <1>2, <1>4, <2>1 DEF Multiplies
  <2>6. h[s] = f[x] * h[u]
    BY <1>2, <1>4, <2>1 DEF Multiplies
  <2> QED
    BY <1>2, <2>4, <2>5, <2>6
<1> QED
  BY <1>3, <1>4

LEMMA MultipliesExists ==
    ASSUME NEW f, NEW S, IsFiniteSet(S)
    PROVE  \E g : Multiplies(g, f, S)
<1>0. PICK B : B = {T \in SUBSET S : ~\E g : Multiplies(g, f, T)}
  OBVIOUS
<1> SUFFICES ASSUME B # {} PROVE FALSE
  BY <1>0
<1>1. PICK T \in B : \A U \in B : ~(U \subseteq T /\ U # T)
  <2>1. B \subseteq SUBSET S
    BY <1>0
  <2> QED
    BY <2>1, MinimalSubset
<1>2. T \in SUBSET S /\ IsFiniteSet(T) /\ ~\E g : Multiplies(g, f, T)
  BY <1>0, <1>1, FS_Subset
<1> DEFINE G(u) == CHOOSE g : Multiplies(g, f, u)
<1>3. ASSUME NEW u \in SUBSET T, u # T PROVE Multiplies(G(u), f, u) /\ IsFiniteSet(u)
  <2>1. u \notin B /\ u \in SUBSET S
    BY <1>1, <1>2, <1>3
  <2> QED
    BY <1>0, <1>2, <2>1, FS_Subset
<1> DEFINE product(s) == IF s = {} THEN 1 ELSE f[First(s)] * G(s \ {First(s)})[s \ {First(s)}]
           h == [s \in SUBSET T |-> product(s)]
<1> HIDE DEF G
<1>4. ASSUME NEW s \in SUBSET T, s # {}, NEW u, u = s \ {First(s)}
      PROVE  h[u] = G(u)[u]
  <2>1. First(s) \in s /\ u \in SUBSET T /\ u # T
    BY <1>4, FirstIn
  <2>2. Multiplies(G(u), f, u)
    BY <1>3, <2>1
  <2>3. CASE u = {}
    BY <2>1, <2>2, <2>3 DEF Multiplies
  <2>4. CASE u # {}
    <3>1. PICK x, v : x = First(u) /\ v = u \ {x}
      OBVIOUS
    <3>2. x \in u /\ v \in SUBSET T /\ v # T /\ v \in SUBSET u
      BY <2>1, <2>4, <3>1, FirstIn
    <3>3. G(u)[u] = f[x] * G(u)[v]
      BY <2>2, <2>4, <3>1 DEF Multiplies
    <3>4. G(u)[v] = G(v)[v]
      <4>1. Multiplies(G(v), f, v) /\ IsFiniteSet(u) /\ v \in SUBSET (u \cap v)
        BY <1>3, <2>1, <3>2
      <4> QED
        BY <2>2, <4>1, MultipliesUnique
    <3>5. h[u] = f[x] * G(v)[v]
      BY <2>1, <2>4, <3>1
    <3> QED
      BY <3>3, <3>4, <3>5
  <2> QED
    BY <2>3, <2>4
<1>5. \A s \in SUBSET T : h[s] = IF s = {} THEN 1 ELSE f[First(s)] * h[s \ {First(s)}]
  BY <1>4
<1>6. Multiplies(h, f, T)
  <2>1. h = [s \in SUBSET T |-> h[s]]
    OBVIOUS
  <2> QED
    BY <1>5, <2>1 DEF Multiplies
<1> QED
  BY <1>2, <1>6

LEMMA MultipliesInt ==
    ASSUME NEW f, NEW S, IsFiniteSet(S), NEW g, Multiplies(g, f, S), \A x \in S : f[x] \in Int
    PROVE  \A s \in SUBSET S : g[s] \in Int
<1>0. PICK B : B = {s \in SUBSET S : g[s] \notin Int}
  OBVIOUS
<1> SUFFICES ASSUME B # {} PROVE FALSE
  BY <1>0
<1>1. PICK s \in B : \A u \in B : ~(u \subseteq s /\ u # s)
  <2>1. B \subseteq SUBSET S
    BY <1>0
  <2> QED
    BY <2>1, MinimalSubset
<1>2. s \in SUBSET S /\ g[s] \notin Int
  BY <1>0, <1>1
<1>3. CASE s = {}
  BY <1>2, <1>3 DEF Multiplies
<1>4. CASE s # {}
  <2>1. PICK x, u : x = First(s) /\ u = s \ {x}
    OBVIOUS
  <2>2. x \in s /\ u \in SUBSET S /\ u \subseteq s /\ u # s
    BY <1>2, <1>4, <2>1, FirstIn
  <2>3. f[x] \in Int /\ g[u] \in Int
    BY <1>0, <1>1, <1>2, <2>2
  <2>4. g[s] = f[x] * g[u]
    BY <1>2, <1>4, <2>1 DEF Multiplies
  <2> QED
    BY <1>2, <2>3, <2>4
<1> QED
  BY <1>3, <1>4

\* Any element may come first.
LEMMA MultipliesRemove ==
    ASSUME NEW f, NEW S, IsFiniteSet(S), NEW g, Multiplies(g, f, S), \A x \in S : f[x] \in Int
    PROVE  \A s \in SUBSET S : \A x \in s : g[s] = f[x] * g[s \ {x}]
<1>0. PICK B : B = {s \in SUBSET S : \E x \in s : g[s] # f[x] * g[s \ {x}]}
  OBVIOUS
<1> SUFFICES ASSUME B # {} PROVE FALSE
  BY <1>0
<1>1. PICK s \in B : \A u \in B : ~(u \subseteq s /\ u # s)
  <2>1. B \subseteq SUBSET S
    BY <1>0
  <2> QED
    BY <2>1, MinimalSubset
<1>2. s \in SUBSET S
  BY <1>0, <1>1
<1>3. PICK x \in s : g[s] # f[x] * g[s \ {x}]
  BY <1>0, <1>1
<1>4. PICK y, u, v, w : y = First(s) /\ u = s \ {y} /\ v = s \ {x} /\ w = u \ {x}
  OBVIOUS
<1>5. y \in s
  BY <1>3, <1>4, FirstIn
<1>6. g[s] = f[y] * g[u]
  BY <1>2, <1>3, <1>4 DEF Multiplies
<1>7. y # x
  BY <1>3, <1>4, <1>6
<1>8. g[u] = f[x] * g[w]
  <2>1. u \in SUBSET S /\ u \subseteq s /\ u # s /\ x \in u
    BY <1>2, <1>4, <1>5, <1>7
  <2> QED
    BY <1>0, <1>1, <1>4, <2>1
<1>9. g[v] = f[y] * g[w]
  <2>1. v \in SUBSET S /\ v \subseteq s /\ v # s /\ y \in v /\ w = v \ {y}
    BY <1>2, <1>4, <1>5, <1>7
  <2> QED
    BY <1>0, <1>1, <2>1
<1>10. f[x] \in Int /\ f[y] \in Int /\ g[w] \in Int
  BY <1>2, <1>4, <1>5, MultipliesInt
<1> QED
  BY <1>3, <1>4, <1>6, <1>8, <1>9, <1>10

\* The product of f over S.
Product(f, S) == FoldFunctionOnSet(LAMBDA x, n : x * n, 1, f, S)

LEMMA ProductMultiplies ==
    ASSUME NEW f, NEW S, IsFiniteSet(S)
    PROVE  \E g : Multiplies(g, f, S) /\ Product(f, S) = g[S]
<1> DEFINE g == CHOOSE g : Multiplies(g, f, S)
<1>1. Multiplies(g, f, S)
  BY MultipliesExists
<1>2. Product(f, S) = g[S]
  BY DEF Product, FoldFunctionOnSet, MapThenFoldSet, Multiplies, First
<1> QED
  BY <1>1, <1>2

LEMMA ProductOf ==
    ASSUME NEW f, NEW S, IsFiniteSet(S), NEW g, Multiplies(g, f, S)
    PROVE  \A s \in SUBSET S : Product(f, s) = g[s]
<1> TAKE s \in SUBSET S
<1>1. IsFiniteSet(s)
  BY FS_Subset
<1>2. PICK h : Multiplies(h, f, s) /\ Product(f, s) = h[s]
  BY <1>1, ProductMultiplies
<1> QED
  BY <1>1, <1>2, MultipliesUnique

LEMMA ProductEmpty == ASSUME NEW f PROVE Product(f, {}) = 1
<1>1. IsFiniteSet({})
  BY FS_EmptySet
<1>2. PICK g : Multiplies(g, f, {}) /\ Product(f, {}) = g[{}]
  BY <1>1, ProductMultiplies
<1> QED
  BY <1>2 DEF Multiplies

LEMMA ProductRemove ==
    ASSUME NEW f, NEW S, IsFiniteSet(S), \A x \in S : f[x] \in Int, NEW x \in S
    PROVE  Product(f, S) = f[x] * Product(f, S \ {x})
<1>1. PICK g : Multiplies(g, f, S)
  BY MultipliesExists
<1>2. Product(f, S) = g[S]
  BY <1>1, ProductOf
<1>3. Product(f, S \ {x}) = g[S \ {x}]
  BY <1>1, ProductOf
<1>4. g[S] = f[x] * g[S \ {x}]
  BY <1>1, MultipliesRemove
<1> QED
  BY <1>2, <1>3, <1>4

\* Fewer and smaller factors, none below one.
LEMMA ProductMonotone ==
    ASSUME NEW f, NEW g, NEW S, NEW T, IsFiniteSet(T), S \subseteq T,
           \A x \in S : f[x] \in Nat \ {0} /\ f[x] <= g[x],
           \A x \in T : g[x] \in Nat \ {0}
    PROVE  /\ Product(f, S) \in Nat \ {0}
           /\ Product(g, T) \in Nat \ {0}
           /\ Product(f, S) <= Product(g, T)
<1> DEFINE Good(a, b) == a \in Nat \ {0} /\ b \in Nat \ {0} /\ a <= b
<1>0. PICK B : B = {s \in SUBSET T : ~Good(Product(f, S \cap s), Product(g, s))}
  OBVIOUS
<1>a. S \cap T = S
  OBVIOUS
<1> SUFFICES ASSUME B # {} PROVE FALSE
  BY <1>0, <1>a
<1>1. PICK s \in B : \A u \in B : ~(u \subseteq s /\ u # s)
  <2>1. B \subseteq SUBSET T
    BY <1>0
  <2> QED
    BY <2>1, MinimalSubset
<1>2. s \in SUBSET T /\ IsFiniteSet(s) /\ ~Good(Product(f, S \cap s), Product(g, s))
  <2>1. s \in SUBSET T /\ ~Good(Product(f, S \cap s), Product(g, s))
    BY <1>0, <1>1
  <2> QED
    BY <2>1, FS_Subset
<1>3. s # {}
  <2>1. ASSUME s = {} PROVE FALSE
    <3>1. S \cap s = {}
      BY <2>1
    <3> QED
      BY <1>2, <2>1, <3>1, ProductEmpty
  <2> QED
    BY <2>1
<1>4. PICK x, u : x \in s /\ u = s \ {x}
  BY <1>3
<1>5. PICK a, b : a = Product(f, S \cap u) /\ b = Product(g, u)
  OBVIOUS
<1>6. Good(a, b)
  BY <1>0, <1>1, <1>2, <1>4, <1>5
<1>7. Product(g, s) = g[x] * b
  BY <1>2, <1>4, <1>5, ProductRemove
<1>8. g[x] \in Nat \ {0}
  BY <1>2, <1>4
<1>p. \A m, n \in Nat \ {0} : m * n \in Nat \ {0}
  BY SMTT(30)
<1>9. CASE x \in S
  <2>1. x \in S \cap s /\ (S \cap s) \ {x} = S \cap u /\ IsFiniteSet(S \cap s)
    BY <1>2, <1>4, <1>9, FS_Intersection
  <2>2. Product(f, S \cap s) = f[x] * a
    <3>1. \A y \in S \cap s : f[y] \in Int
      OBVIOUS
    <3> QED
      BY <1>5, <2>1, <3>1, ProductRemove
  <2>3. f[x] \in Nat \ {0} /\ f[x] <= g[x]
    BY <1>9
  <2>4. f[x] * a <= g[x] * b
    <3>1. \A k, l, m, n \in Nat : k <= l /\ m <= n => k * m <= l * n
      <4> TAKE k, l, m, n \in Nat
      <4> HAVE k <= l /\ m <= n
      <4>1. (l - k) \in Nat /\ (n - m) \in Nat
        OBVIOUS
      <4>2. (l - k) * n \in Nat /\ k * (n - m) \in Nat
        BY <4>1, SMTT(30)
      <4>3. l * n - k * m = (l - k) * n + k * (n - m)
        BY SMTT(30)
      <4>4. l * n \in Int /\ k * m \in Int
        OBVIOUS
      <4> QED
        BY <4>2, <4>3, <4>4
    <3> QED
      BY <1>6, <1>8, <2>3, <3>1
  <2> QED
    BY <1>2, <1>6, <1>7, <1>8, <1>p, <2>2, <2>3, <2>4
<1>10. CASE x \notin S
  <2>1. S \cap s = S \cap u
    BY <1>4, <1>10
  <2>2. b <= g[x] * b
    <3>1. \A m, n \in Nat \ {0} : n <= m * n
      <4> TAKE m, n \in Nat \ {0}
      <4>1. (m - 1) \in Nat
        OBVIOUS
      <4>2. (m - 1) * n \in Nat
        BY <4>1, SMTT(30)
      <4>3. m * n = (m - 1) * n + n
        BY SMTT(30)
      <4> QED
        BY <4>2, <4>3
    <3> QED
      BY <1>6, <1>8, <3>1
  <2>3. a <= g[x] * b /\ g[x] * b \in Nat \ {0}
    BY <1>6, <1>8, <1>p, <2>2
  <2> QED
    BY <1>2, <1>5, <1>6, <1>7, <2>1, <2>3
<1> QED
  BY <1>9, <1>10

-----------------------------------------------------------------------------
(* Finite sets                                                             *)

\* The functions from one finite set to another.
LEMMA FiniteFunctions ==
    ASSUME NEW D, NEW R, IsFiniteSet(D), IsFiniteSet(R)
    PROVE  IsFiniteSet([D -> R])
<1> DEFINE graph == [p \in [D -> R] |-> {<<d, p[d]>> : d \in D}]
<1>1. IsFiniteSet(SUBSET (D \X R))
  BY FS_Product, FS_SUBSET
<1>2. graph \in [[D -> R] -> SUBSET (D \X R)]
  OBVIOUS
<1>3. ASSUME NEW p \in [D -> R], NEW q \in [D -> R], graph[p] = graph[q] PROVE p = q
  <2>1. ASSUME NEW d \in D PROVE p[d] = q[d]
    <3>1. <<d, p[d]>> \in graph[q]
      BY <1>3
    <3>2. PICK e \in D : <<d, p[d]>> = <<e, q[e]>>
      BY <3>1
    <3> QED
      BY <3>2
  <2> QED
    BY <2>1
<1> HIDE DEF graph
<1>4. graph \in Injection([D -> R], SUBSET (D \X R))
  BY <1>2, <1>3 DEF Injection, IsInjective
<1> QED
  BY <1>1, <1>4, FS_Injection

\* A set of naturals has a least.
LEMMA LeastOf ==
    ASSUME NEW K, K \subseteq Nat, K # {}
    PROVE  \E k \in K : \A j \in K : k <= j
<1>1. PICK k \in K : \A j \in K : ~(<<j, k>> \in OpToRel(<, Nat))
  BY NatLessThanWellFounded, WFMin
<1>2. ASSUME NEW j \in K PROVE k <= j
  <2>1. j \in Nat /\ k \in Nat /\ ~(j < k)
    BY <1>1 DEF OpToRel
  <2> QED
    BY <2>1
<1> QED
  BY <1>2

HasGreatest(s) == \E k \in s : \A j \in s : j <= k

\* A finite set of numbers has a greatest.
LEMMA GreatestOf ==
    ASSUME NEW S, IsFiniteSet(S), S # {}
    PROVE  S \subseteq Int => HasGreatest(S)
<1>0. PICK B : B = {s \in SUBSET S : s # {} /\ s \subseteq Int /\ ~HasGreatest(s)}
  OBVIOUS
<1> SUFFICES ASSUME B # {} PROVE FALSE
  BY <1>0
<1>1. PICK s \in B : \A u \in B : ~(u \subseteq s /\ u # s)
  <2>1. B \subseteq SUBSET S
    BY <1>0
  <2> QED
    BY <2>1, MinimalSubset
<1>2. s # {} /\ s \subseteq Int /\ s \in SUBSET S /\ ~HasGreatest(s)
  BY <1>0, <1>1
<1>3. PICK x, u : x \in s /\ u = s \ {x}
  BY <1>2
<1>4. CASE u = {}
  <2>1. s = {x} /\ x \in Int
    BY <1>2, <1>3, <1>4
  <2> QED
    BY <1>2, <2>1 DEF HasGreatest
<1>5. CASE u # {}
  <2>1. HasGreatest(u)
    BY <1>0, <1>1, <1>2, <1>3, <1>5
  <2>2. PICK k \in u : \A j \in u : j <= k
    BY <2>1 DEF HasGreatest
  <2>3. x \in Int /\ k \in Int /\ u \subseteq Int
    BY <1>2, <1>3, <2>2
  <2>4. PICK m \in {x, k} : \A j \in s : j <= m
    BY <1>3, <2>2, <2>3
  <2> QED
    BY <1>2, <1>3, <2>2, <2>4 DEF HasGreatest
<1> QED
  BY <1>4, <1>5

-----------------------------------------------------------------------------
(* Orders.  below[x] are the elements that come before x.                  *)

Orders(below, S) ==
    /\ below \in [S -> SUBSET S]
    /\ \A x \in S : x \notin below[x]
    /\ \A x \in S : \A y \in below[x] : below[y] \subseteq below[x]
    /\ \A x, y \in S : x = y \/ x \in below[y] \/ y \in below[x]

\* Each place of a total order is taken, by one element.
LEMMA Ranks ==
    ASSUME NEW S, IsFiniteSet(S), NEW below, Orders(below, S)
    PROVE  /\ \A i \in 1..Cardinality(S) : \E x \in S : Cardinality(below[x]) = i - 1
           /\ \A x \in S : Cardinality(below[x]) + 1 \in 1..Cardinality(S)
           /\ \A x, y \in S : Cardinality(below[x]) = Cardinality(below[y]) => x = y
<1>1. PICK n : n = Cardinality(S)
  OBVIOUS
<1>2. n \in Nat
  BY <1>1, FS_CardinalityType
<1>3. PICK rank : rank = [x \in S |-> Cardinality(below[x]) + 1]
  OBVIOUS
<1>4. ASSUME NEW x \in S PROVE IsFiniteSet(below[x]) /\ Cardinality(below[x]) \in Nat /\ rank[x] \in 1..n
  <2>1. below[x] \in SUBSET S /\ below[x] # S
    BY DEF Orders
  <2>2. IsFiniteSet(below[x]) /\ Cardinality(below[x]) <= n /\ Cardinality(below[x]) # n
    BY <1>1, <2>1, FS_Subset
  <2>3. Cardinality(below[x]) \in Nat
    BY <2>2, FS_CardinalityType
  <2> QED
    BY <1>2, <1>3, <2>2, <2>3
<1>5. ASSUME NEW x \in S, NEW y \in S, x \in below[y] PROVE Cardinality(below[x]) < Cardinality(below[y])
  <2>1. below[x] \in SUBSET below[y] /\ below[x] # below[y]
    BY <1>5 DEF Orders
  <2>2. IsFiniteSet(below[y]) /\ Cardinality(below[x]) \in Nat /\ Cardinality(below[y]) \in Nat
    BY <1>4
  <2>3. Cardinality(below[x]) <= Cardinality(below[y]) /\ Cardinality(below[x]) # Cardinality(below[y])
    BY <2>1, <2>2, FS_Subset
  <2> QED
    BY <2>2, <2>3
<1>6. ASSUME NEW x \in S, NEW y \in S, Cardinality(below[x]) = Cardinality(below[y]) PROVE x = y
  <2>1. Cardinality(below[x]) \in Nat
    BY <1>4
  <2>2. ~(x \in below[y]) /\ ~(y \in below[x])
    BY <1>5, <1>6, <2>1
  <2> QED
    BY <2>2 DEF Orders
<1>7. rank \in Injection(S, 1..n)
  <2>1. rank \in [S -> 1..n]
    BY <1>3, <1>4
  <2>2. \A x, y \in S : rank[x] = rank[y] => x = y
    BY <1>3, <1>4, <1>6
  <2> QED
    BY <2>1, <2>2, <1>3 DEF Injection, IsInjective
<1>8. rank \in Surjection(S, 1..n)
  <2>1. IsFiniteSet(1..n) /\ Cardinality(1..n) = n
    BY <1>2, FS_Interval
  <2> QED
    BY <1>1, <1>7, <2>1, FS_Injection
<1>9. ASSUME NEW i \in 1..n PROVE \E x \in S : Cardinality(below[x]) = i - 1
  <2>1. PICK x \in S : rank[x] = i
    BY <1>8 DEF Surjection
  <2> QED
    BY <1>2, <1>3, <1>4, <2>1
<1> QED
  BY <1>1, <1>3, <1>4, <1>6, <1>9

-----------------------------------------------------------------------------
(* Grids                                                                   *)

LEMMA InNames ==
    ASSUME NEW D, NEW names \in Seq(D)
    PROVE  /\ Len(names) \in Nat /\ DOMAIN names = 1..Len(names)
           /\ \A i \in DOMAIN names : names[i] \in D
           /\ ToSet(names) \subseteq D /\ IsFiniteSet(ToSet(names))
<1>1. Len(names) \in Nat /\ DOMAIN names = 1..Len(names) /\ \A i \in DOMAIN names : names[i] \in D
  OBVIOUS
<1>2. ToSet(names) \subseteq D
  BY <1>1 DEF ToSet
<1>3. IsFiniteSet(ToSet(names))
  <2>1. IsFiniteSet(1..Len(names))
    BY <1>1, FS_Interval
  <2>2. PICK g : g = [i \in 1..Len(names) |-> names[i]]
    OBVIOUS
  <2>3. g \in Surjection(1..Len(names), ToSet(names))
    BY <1>1, <2>2 DEF Surjection, ToSet
  <2> QED
    BY <2>1, <2>3, FS_Surjection
<1> QED
  BY <1>1, <1>2, <1>3

\* The first name found is one of the names.
LEMMA FirstKnownIs ==
    ASSUME NEW names, DOMAIN names \subseteq Nat, NEW S
    PROVE  FirstKnown(names, S) # None => FirstKnown(names, S) \in S
<1> DEFINE known == {i \in DOMAIN names : names[i] \in S}
<1>1. CASE known = {}
  BY <1>1 DEF FirstKnown
<1>2. CASE known # {}
  <2>1. known \subseteq Nat
    OBVIOUS
  <2>2. \E k \in known : \A j \in known : k <= j
    BY <1>2, <2>1, LeastOf
  <2>3. Min(known) \in known
    BY <2>2 DEF Min
  <2> QED
    BY <1>2, <2>3 DEF FirstKnown
<1> QED
  BY <1>1, <1>2

LEMMA PositionsFinite ==
    ASSUME NEW ds, IsGrid(ds), NEW D, D \subseteq DOMAIN ds.index
    PROVE  IsFiniteSet(Positions(ds, D)) /\ Cardinality(Positions(ds, D)) \in Nat
<1>1. PICK F, R : F = {ds.index[d] : d \in D} /\ R = UNION F
  OBVIOUS
<1>2. IsFiniteSet(D)
  BY FS_Subset DEF IsGrid
<1>3. IsFiniteSet(F)
  <2>1. PICK g : g = [d \in D |-> ds.index[d]]
    OBVIOUS
  <2>2. g \in Surjection(D, F)
    BY <1>1, <2>1 DEF Surjection
  <2> QED
    BY <1>2, <2>2, FS_Surjection
<1>4. IsFiniteSet(R)
  <2>1. \A T \in F : IsFiniteSet(T)
    BY <1>1 DEF IsGrid
  <2> QED
    BY <1>1, <1>3, <2>1, FS_UNION
<1>5. IsFiniteSet([D -> R])
  BY <1>2, <1>4, FiniteFunctions
<1>6. Positions(ds, D) \in SUBSET [D -> R]
  BY <1>1 DEF Positions
<1> QED
  BY <1>5, <1>6, FS_Subset, FS_CardinalityType

LEMMA OrderedIs ==
    ASSUME NEW S, IsFiniteSet(S), NEW below, Orders(below, S)
    PROVE  /\ Cardinality(S) \in Nat
           /\ Ordered(S, below) \in Seq(S)
           /\ DOMAIN Ordered(S, below) = 1..Cardinality(S)
           /\ ToSet(Ordered(S, below)) = S
<1>1. PICK n, s : n = Cardinality(S) /\ s = Ordered(S, below)
  OBVIOUS
<1>2. n \in Nat
  BY <1>1, FS_CardinalityType
<1>3. ASSUME NEW i \in 1..n PROVE s[i] \in S /\ Cardinality(below[s[i]]) = i - 1
  <2>1. \E x \in S : Cardinality(below[x]) = i - 1
    BY <1>1, Ranks
  <2>2. s[i] = CHOOSE x \in S : Cardinality(below[x]) = i - 1
    BY <1>1 DEF Ordered
  <2> QED
    BY <2>1, <2>2
<1>4. s \in [1..n -> S]
  <2>1. s = [i \in 1..n |-> CHOOSE x \in S : Cardinality(below[x]) = i - 1]
    BY <1>1 DEF Ordered
  <2> QED
    BY <1>3, <2>1
<1>5. s \in Seq(S) /\ DOMAIN s = 1..n
  BY <1>2, <1>4
<1>6. ASSUME NEW x \in S PROVE \E i \in 1..n : s[i] = x
  <2>1. PICK i : i = Cardinality(below[x]) + 1
    OBVIOUS
  <2>2. i \in 1..n
    BY <1>1, <2>1, Ranks
  <2>3. s[i] \in S /\ Cardinality(below[s[i]]) = i - 1
    BY <1>3, <2>2
  <2>4. Cardinality(below[x]) = i - 1
    <3>1. IsFiniteSet(below[x])
      BY FS_Subset DEF Orders
    <3>2. Cardinality(below[x]) \in Nat
      BY <3>1, FS_CardinalityType
    <3> QED
      BY <2>1, <3>2
  <2> QED
    BY <2>2, <2>3, <2>4, Ranks
<1>7. ToSet(s) = S
  BY <1>4, <1>5, <1>6 DEF ToSet
<1> QED
  BY <1>1, <1>2, <1>5, <1>7

LEMMA TogetherIs ==
    ASSUME NEW D, NEW dims \in Seq(D), NEW more \in Seq(D)
    PROVE  /\ Together(dims, more) \in Seq(D)
           /\ ToSet(Together(dims, more)) = ToSet(dims) \cup ToSet(more)
<1> DEFINE Place(d) == CHOOSE i \in DOMAIN more : more[i] = d
<1>1. PICK S, below, rest : /\ S = ToSet(more) \ ToSet(dims)
                            /\ below = [d \in S |-> {c \in S : Place(c) < Place(d)}]
                            /\ rest = Ordered(S, below)
  OBVIOUS
<1>2. ASSUME NEW d \in S PROVE Place(d) \in Nat /\ more[Place(d)] = d
  <2>1. \E i \in DOMAIN more : more[i] = d
    BY <1>1 DEF ToSet
  <2>2. Place(d) \in DOMAIN more /\ more[Place(d)] = d
    BY <2>1
  <2> QED
    BY <2>2, InNames
<1>3. IsFiniteSet(S)
  BY <1>1, InNames, FS_Difference
<1>4. Together(dims, more) = dims \o rest
  BY <1>1 DEF Together, InOrder
<1> HIDE DEF Place
<1>5. Orders(below, S)
  <2>1. below \in [S -> SUBSET S]
    BY <1>1
  <2>2. \A x, y \in S : y \in below[x] <=> Place(y) < Place(x)
    BY <1>1
  <2>3. \A x, y \in S : x = y \/ Place(x) < Place(y) \/ Place(y) < Place(x)
    BY <1>2
  <2>4. \A x \in S : x \notin below[x]
    BY <1>2, <2>2
  <2>5. ASSUME NEW x \in S, NEW y \in below[x] PROVE below[y] \subseteq below[x]
    <3>1. y \in S /\ Place(y) < Place(x)
      BY <2>1, <2>2, <2>5
    <3>2. \A z \in below[y] : z \in S /\ Place(z) < Place(y)
      BY <2>1, <2>2, <3>1
    <3>3. \A z \in below[y] : z \in S /\ Place(z) < Place(x)
      BY <1>2, <3>1, <3>2
    <3> QED
      BY <2>2, <3>3
  <2> QED
    BY <2>1, <2>2, <2>3, <2>4, <2>5 DEF Orders
<1>6. rest \in Seq(S) /\ ToSet(rest) = S
  BY <1>1, <1>3, <1>5, OrderedIs
<1>7. rest \in Seq(D)
  <2>1. S \subseteq D
    BY <1>1, InNames
  <2> QED
    BY <1>6, <2>1
<1>8. ToSet(dims \o rest) = ToSet(dims) \cup ToSet(rest)
  <2>1. PICK m, n, c : m = Len(dims) /\ n = Len(rest) /\ c = dims \o rest
    OBVIOUS
  <2>2. /\ m \in Nat /\ n \in Nat /\ DOMAIN c = 1..(m + n)
        /\ DOMAIN dims = 1..m /\ DOMAIN rest = 1..n
    BY <1>7, <2>1
  <2>3. \A i \in 1..(m + n) : c[i] = IF i <= m THEN dims[i] ELSE rest[i - m]
    BY <1>7, <2>1, <2>2
  <2>4. ASSUME NEW x \in ToSet(c) PROVE x \in ToSet(dims) \cup ToSet(rest)
    <3>1. PICK i \in 1..(m + n) : x = c[i]
      BY <2>2 DEF ToSet
    <3>2. CASE i <= m
      BY <2>2, <2>3, <3>1, <3>2 DEF ToSet
    <3>3. CASE ~(i <= m)
      <4>1. i - m \in 1..n
        BY <2>2, <3>3
      <4> QED
        BY <2>2, <2>3, <3>1, <3>3, <4>1 DEF ToSet
    <3> QED
      BY <3>2, <3>3
  <2>5. ASSUME NEW x \in ToSet(dims) PROVE x \in ToSet(c)
    <3>1. PICK i \in 1..m : x = dims[i]
      BY <2>2 DEF ToSet
    <3>2. i \in 1..(m + n) /\ c[i] = x
      BY <2>2, <2>3, <3>1
    <3> QED
      BY <2>2, <3>2 DEF ToSet
  <2>6. ASSUME NEW x \in ToSet(rest) PROVE x \in ToSet(c)
    <3>1. PICK i \in 1..n : x = rest[i]
      BY <2>2 DEF ToSet
    <3>2. i + m \in 1..(m + n) /\ c[i + m] = x
      BY <2>2, <2>3, <3>1
    <3> QED
      BY <2>2, <3>2 DEF ToSet
  <2> QED
    BY <2>1, <2>4, <2>5, <2>6
<1>9. dims \o rest \in Seq(D)
  BY <1>7
<1>10. ToSet(dims) \cup ToSet(rest) = ToSet(dims) \cup ToSet(more)
  BY <1>1, <1>6
<1> QED
  BY <1>4, <1>8, <1>9, <1>10

\* g is ds with fewer positions and other cells.
GridCut(g, ds) ==
    /\ IsGrid(g)
    /\ DOMAIN g.index = DOMAIN ds.index
    /\ \A d \in DOMAIN ds.index : g.index[d] \subseteq ds.index[d]
    /\ g.coords = ds.coords
    /\ DOMAIN g.vars = DOMAIN ds.vars

LEMMA CutOfCut ==
    ASSUME NEW ds, NEW g, NEW h, GridCut(g, ds), GridCut(h, g)
    PROVE  GridCut(h, ds)
BY DEF GridCut

LEMMA CutOfItself == ASSUME NEW ds, IsGrid(ds) PROVE GridCut(ds, ds)
BY DEF GridCut

LEMMA PositionIs ==
    ASSUME NEW ds, NEW D, NEW p
    PROVE  p \in Positions(ds, D) <=> p = [d \in D |-> p[d]] /\ \A d \in D : p[d] \in ds.index[d]
<1>1. ASSUME p \in Positions(ds, D) PROVE p = [d \in D |-> p[d]] /\ \A d \in D : p[d] \in ds.index[d]
  BY <1>1 DEF Positions
<1>2. ASSUME p = [d \in D |-> p[d]], \A d \in D : p[d] \in ds.index[d] PROVE p \in Positions(ds, D)
  <2>1. \A d \in D : p[d] \in UNION {ds.index[e] : e \in D}
    BY <1>2
  <2>2. p \in [D -> UNION {ds.index[e] : e \in D}]
    BY <1>2, <2>1
  <2> QED
    BY <1>2, <2>2 DEF Positions
<1> QED
  BY <1>1, <1>2

\* A position along more dimensions, or of a grid cut smaller, gives one along few.
LEMMA Narrowed ==
    ASSUME NEW ds, NEW g, NEW D, D \subseteq DOMAIN ds.index, NEW E, E \subseteq D,
           \A d \in D : g.index[d] \subseteq ds.index[d], NEW p \in Positions(g, D)
    PROVE  [d \in E |-> p[d]] \in Positions(ds, E)
<1>1. \A d \in D : p[d] \in ds.index[d]
  BY PositionIs
<1>2. PICK q : q = [d \in E |-> p[d]]
  OBVIOUS
<1>3. q = [d \in E |-> q[d]] /\ \A d \in E : q[d] \in ds.index[d]
  BY <1>1, <1>2
<1> QED
  BY <1>2, <1>3, PositionIs

\* A selection along one dimension.
LEMMA SelectionCuts ==
    ASSUME NEW ds, IsGrid(ds), NEW name, NEW K, name \in DOMAIN ds.index => K \subseteq ds.index[name],
           NEW g, g = [ds EXCEPT !.index[name] = K]
    PROVE  GridCut(g, ds) /\ g.vars = ds.vars
<1>1. /\ DOMAIN g = DOMAIN ds /\ g.coords = ds.coords /\ g.vars = ds.vars
      /\ g.index = [ds.index EXCEPT ![name] = K]
  BY DEF IsGrid
<1>2. DOMAIN g.index = DOMAIN ds.index
  BY <1>1
<1>3. ASSUME NEW d \in DOMAIN ds.index PROVE g.index[d] \subseteq ds.index[d]
  BY <1>1
<1>4. ASSUME NEW d \in DOMAIN ds.index PROVE IsFiniteSet(g.index[d]) /\ g.index[d] \subseteq Int
  BY <1>3, FS_Subset DEF IsGrid
<1>5. IsGrid(g)
  BY <1>1, <1>2, <1>4 DEF IsGrid
<1> QED
  BY <1>1, <1>2, <1>3, <1>5 DEF GridCut

\* What where leaves of an array, Masked of Where.
MaskedAs(ds, v, masked, inside) ==
    LET dims == Together(v.dims, masked) IN
    [dims |-> dims,
     at |-> [p \in Positions(ds, ToSet(dims)) |->
                IF [d \in ToSet(masked) |-> p[d]] \in inside THEN Cell(v, p) ELSE None]]

LEMMA WhereIs ==
    ASSUME NEW ds, IsGrid(ds), NEW masked, NEW inside, NEW g, g = Where(ds, masked, inside)
    PROVE  /\ DOMAIN g = DOMAIN ds /\ g.coords = ds.coords
           /\ g.index = [d \in DOMAIN ds.index |->
                            IF d \in ToSet(masked) THEN {p[d] : p \in inside} ELSE ds.index[d]]
           /\ DOMAIN g.vars = DOMAIN ds.vars
           /\ \A v \in DOMAIN ds.vars : g.vars[v] = MaskedAs(ds, ds.vars[v], masked, inside)
<1>1. PICK index, vs :
        /\ index = [d \in DOMAIN ds.index |->
                       IF d \in ToSet(masked) THEN {p[d] : p \in inside} ELSE ds.index[d]]
        /\ vs = [v \in DOMAIN ds.vars |-> MaskedAs(ds, ds.vars[v], masked, inside)]
  OBVIOUS
<1>2. g = [ds EXCEPT !.index = index, !.vars = vs]
  BY <1>1 DEF Where, MaskedAs
<1>3. DOMAIN g = DOMAIN ds /\ g.coords = ds.coords /\ g.index = index /\ g.vars = vs
  BY <1>2 DEF IsGrid
<1> QED
  BY <1>1, <1>3

\* A mask cuts the grid and leaves no value outside.
LEMMA WhereCuts ==
    ASSUME NEW ds, IsGrid(ds), NEW masked \in Seq(DOMAIN ds.index),
           NEW inside, inside \subseteq Positions(ds, ToSet(masked)),
           NEW g, g = Where(ds, masked, inside)
    PROVE  /\ GridCut(g, ds)
           /\ \A v \in DOMAIN ds.vars :
                /\ Dims(g.vars[v]) = Dims(ds.vars[v]) \cup ToSet(masked)
                /\ \A p \in Positions(ds, Dims(g.vars[v])) :
                     g.vars[v].at[p] # None => [d \in ToSet(masked) |-> p[d]] \in inside
<1>1. /\ DOMAIN g = DOMAIN ds /\ g.coords = ds.coords
      /\ g.index = [d \in DOMAIN ds.index |->
                       IF d \in ToSet(masked) THEN {p[d] : p \in inside} ELSE ds.index[d]]
      /\ DOMAIN g.vars = DOMAIN ds.vars
      /\ \A v \in DOMAIN ds.vars : g.vars[v] = MaskedAs(ds, ds.vars[v], masked, inside)
  BY WhereIs
<1>2. ASSUME NEW d \in DOMAIN ds.index PROVE g.index[d] \subseteq ds.index[d]
  <2>1. CASE d \in ToSet(masked)
    <3>1. ASSUME NEW k \in g.index[d] PROVE k \in ds.index[d]
      <4>1. PICK p \in inside : k = p[d]
        BY <1>1, <2>1
      <4>2. p \in Positions(ds, ToSet(masked))
        BY <4>1
      <4> QED
        BY <2>1, <4>1, <4>2, PositionIs
    <3> QED
      BY <3>1
  <2>2. CASE d \notin ToSet(masked)
    BY <1>1, <2>2
  <2> QED
    BY <2>1, <2>2
<1>3. ASSUME NEW v \in DOMAIN ds.vars
      PROVE  /\ g.vars[v].dims \in Seq(DOMAIN ds.index)
             /\ Dims(g.vars[v]) = Dims(ds.vars[v]) \cup ToSet(masked)
             /\ \A p \in Positions(ds, Dims(g.vars[v])) :
                  g.vars[v].at[p] # None => [d \in ToSet(masked) |-> p[d]] \in inside
  <2>1. PICK x, dims : x = ds.vars[v] /\ dims = Together(x.dims, masked)
    OBVIOUS
  <2>2. x.dims \in Seq(DOMAIN ds.index)
    BY <2>1 DEF IsGrid
  <2>3. dims \in Seq(DOMAIN ds.index) /\ ToSet(dims) = ToSet(x.dims) \cup ToSet(masked)
    BY <2>1, <2>2, TogetherIs
  <2>4. PICK at, w : /\ at = [p \in Positions(ds, ToSet(dims)) |->
                                IF [d \in ToSet(masked) |-> p[d]] \in inside THEN Cell(x, p) ELSE None]
                     /\ w = MaskedAs(ds, x, masked, inside)
    OBVIOUS
  <2>5. g.vars[v].dims = dims /\ g.vars[v].at = at
    <3>1. w = [dims |-> dims, at |-> at]
      BY <2>1, <2>4 DEF MaskedAs
    <3>2. g.vars[v] = w
      BY <1>1, <2>1, <2>4
    <3> QED
      BY <3>1, <3>2
  <2>6. Dims(g.vars[v]) = ToSet(dims)
    BY <2>5 DEF Dims
  <2>7. \A p \in Positions(ds, ToSet(dims)) :
          g.vars[v].at[p] # None => [d \in ToSet(masked) |-> p[d]] \in inside
    BY <2>4, <2>5
  <2>8. Dims(g.vars[v]) = Dims(ds.vars[v]) \cup ToSet(masked)
    <3>1. Dims(ds.vars[v]) = ToSet(x.dims)
      BY <2>1 DEF Dims
    <3> QED
      BY <2>3, <2>6, <3>1
  <2>9. g.vars[v].dims \in Seq(DOMAIN ds.index)
    BY <2>3, <2>5
  <2> QED
    BY <2>6, <2>7, <2>8, <2>9
<1>4. IsGrid(g)
  <2>1. \A d \in DOMAIN g.index : IsFiniteSet(g.index[d]) /\ g.index[d] \subseteq Int
    BY <1>1, <1>2, FS_Subset DEF IsGrid
  <2>2. DOMAIN g.index = DOMAIN ds.index
    BY <1>1
  <2>3. \A v \in DOMAIN g.vars : g.vars[v].dims \in Seq(DOMAIN g.index)
    BY <1>1, <1>3, <2>2
  <2> QED
    BY <1>1, <2>1, <2>2, <2>3 DEF IsGrid
<1>5. GridCut(g, ds)
  BY <1>1, <1>2, <1>4 DEF GridCut
<1> QED
  BY <1>3, <1>5

LEMMA CoordAt ==
    ASSUME NEW ds, IsGrid(ds), NEW names, DOMAIN names \subseteq Nat, FirstCoord(ds, names) # None
    PROVE  /\ FirstCoord(ds, names) \in DOMAIN ds.coords
           /\ ds.coords[FirstCoord(ds, names)].dims \in Seq(DOMAIN ds.index)
<1>1. FirstCoord(ds, names) \in DOMAIN ds.coords
  BY FirstKnownIs DEF FirstCoord
<1> QED
  BY <1>1 DEF IsGrid

\* The mask of a box: the positions of the two coordinates that lie in it.
InsideBox(ds, f, lat, lon, masked) ==
    {p \in Positions(ds, ToSet(masked)) : InBox(f, Cell(lat, p), Cell(lon, p))}

LEMMA BboxIs ==
    ASSUME NEW ds, IsGrid(ds), NEW f, HasBox(f), HasPlace(ds)
    PROVE  \E lat, lon, masked :
             /\ lat = ds.coords[LatName(ds)] /\ lon = ds.coords[LonName(ds)]
             /\ LatName(ds) \in DOMAIN ds.coords /\ LonName(ds) \in DOMAIN ds.coords
             /\ masked \in Seq(DOMAIN ds.index)
             /\ ToSet(masked) = Dims(lat) \cup Dims(lon)
             /\ ApplyBbox(ds, f) = Where(ds, masked, InsideBox(ds, f, lat, lon, masked))
<1>1. PICK lat, lon, masked : /\ lat = ds.coords[LatName(ds)] /\ lon = ds.coords[LonName(ds)]
                              /\ masked = Together(lat.dims, lon.dims)
  OBVIOUS
<1>2. DOMAIN <<"lat", "latitude", "y">> \subseteq Nat /\ DOMAIN <<"lon", "longitude", "x">> \subseteq Nat
  OBVIOUS
<1>3. LatName(ds) \in DOMAIN ds.coords /\ lat.dims \in Seq(DOMAIN ds.index)
  BY <1>1, <1>2, CoordAt DEF LatName, HasPlace
<1>4. LonName(ds) \in DOMAIN ds.coords /\ lon.dims \in Seq(DOMAIN ds.index)
  BY <1>1, <1>2, CoordAt DEF LonName, HasPlace
<1>5. masked \in Seq(DOMAIN ds.index) /\ ToSet(masked) = Dims(lat) \cup Dims(lon)
  BY <1>1, <1>3, <1>4, TogetherIs DEF Dims
<1>6. ApplyBbox(ds, f) = Where(ds, masked, InsideBox(ds, f, lat, lon, masked))
  BY <1>1 DEF ApplyBbox, InsideBox
<1> QED
  BY <1>1, <1>3, <1>4, <1>5, <1>6

LEMMA BboxCuts ==
    ASSUME NEW ds, IsGrid(ds), NEW f
    PROVE  GridCut(ApplyBbox(ds, f), ds)
<1>1. CASE HasBox(f) /\ HasPlace(ds)
  <2>1. PICK lat, lon, masked : /\ masked \in Seq(DOMAIN ds.index)
                                /\ ApplyBbox(ds, f) = Where(ds, masked, InsideBox(ds, f, lat, lon, masked))
    BY <1>1, BboxIs
  <2>2. InsideBox(ds, f, lat, lon, masked) \subseteq Positions(ds, ToSet(masked))
    BY DEF InsideBox
  <2> QED
    BY <2>1, <2>2, WhereCuts
<1>2. CASE ~(HasBox(f) /\ HasPlace(ds))
  BY <1>2, CutOfItself DEF ApplyBbox
<1> QED
  BY <1>1, <1>2

LEMMA DatesCut ==
    ASSUME NEW ds, IsGrid(ds), NEW f
    PROVE  GridCut(ApplyDateRange(ds, f), ds)
<1>1. CASE HasTime(ds)
  <2>1. PICK K : K = {k \in ds.index["time"] : Within(Day(TimeAt(ds, k)), f.from, f.to)}
    OBVIOUS
  <2>2. ApplyDateRange(ds, f) = [ds EXCEPT !.index["time"] = K]
    BY <1>1, <2>1 DEF ApplyDateRange
  <2>3. K \subseteq ds.index["time"]
    BY <2>1
  <2> QED
    BY <2>2, <2>3, SelectionCuts
<1>2. CASE ~HasTime(ds)
  BY <1>2, CutOfItself DEF ApplyDateRange
<1> QED
  BY <1>1, <1>2

LEMMA FilteredCuts ==
    ASSUME NEW ds, IsGrid(ds), NEW f
    PROVE  GridCut(Filtered(ds, f), ds)
<1>1. PICK b : b = ApplyBbox(ds, f)
  OBVIOUS
<1>2. GridCut(b, ds) /\ GridCut(ApplyDateRange(b, f), b)
  BY <1>1, BboxCuts, DatesCut DEF GridCut
<1> QED
  BY <1>1, <1>2, CutOfCut DEF Filtered

\* What a grid has and what it matches are numbers.
LEMMA GridCounts ==
    ASSUME NEW ds, IsGrid(ds), NEW variables, NEW f
    PROVE  GridTotal(ds, variables) \in Nat /\ GridMatching(ds, variables, f) \in Nat
<1>1. ASSUME NEW g, GridCut(g, ds), NEW v \in DOMAIN ds.vars
      PROVE  /\ Cardinality(Positions(g, Dims(g.vars[v]))) \in Nat
             /\ Cardinality(Cells(g, g.vars[v])) \in Nat
  <2>1. Dims(g.vars[v]) \subseteq DOMAIN g.index
    <3>1. g.vars[v].dims \in Seq(DOMAIN g.index)
      BY <1>1 DEF GridCut, IsGrid
    <3> QED
      BY <3>1, InNames DEF Dims
  <2>2. IsFiniteSet(Positions(g, Dims(g.vars[v]))) /\ Cardinality(Positions(g, Dims(g.vars[v]))) \in Nat
    BY <1>1, <2>1, PositionsFinite DEF GridCut
  <2>3. Cells(g, g.vars[v]) \subseteq Positions(g, Dims(g.vars[v]))
    BY DEF Cells
  <2> QED
    BY <2>2, <2>3, FS_Subset, FS_CardinalityType
<1>2. ASSUME NEW S, S \subseteq DOMAIN ds.vars PROVE IsFiniteSet(S)
  BY <1>2, FS_Subset DEF IsGrid
<1>3. GridTotal(ds, variables) \in Nat
  <2>1. PICK S, s : /\ S = ToSet(variables) \cap DOMAIN ds.vars
                    /\ s = [v \in S |-> Cardinality(Positions(ds, Dims(ds.vars[v])))]
    OBVIOUS
  <2>2. IsFiniteSet(S) /\ \A v \in S : s[v] \in Nat
    BY <1>1, <1>2, <2>1, CutOfItself
  <2>3. GridTotal(ds, variables) = SumFunctionOnSet(s, S)
    BY <2>1 DEF GridTotal, SumFunction
  <2> QED
    BY <2>2, <2>3, SumNat
<1>4. GridMatching(ds, variables, f) \in Nat
  <2>1. PICK g, S, s : /\ g = Filtered(ds, f)
                       /\ S = {v \in ToSet(variables) \cap DOMAIN ds.vars : Selects(f, v)}
                       /\ s = [v \in S |-> Cardinality(Cells(g, g.vars[v]))]
    OBVIOUS
  <2>2. IsFiniteSet(S) /\ \A v \in S : s[v] \in Nat
    BY <1>1, <1>2, <2>1, FilteredCuts
  <2>3. GridMatching(ds, variables, f) = SumFunctionOnSet(s, S)
    BY <2>1 DEF GridMatching, SumFunction
  <2> QED
    BY <2>2, <2>3, SumNat
<1> QED
  BY <1>3, <1>4

-----------------------------------------------------------------------------
(* Tables                                                                  *)

\* Days and the ticks of their ends.
LEMMA DayBounds ==
    ASSUME NEW x \in Int, NEW d \in Int
    PROVE  /\ x \div TicksPerDay \in Int
           /\ x \div TicksPerDay >= d <=> x >= d * TicksPerDay
           /\ x \div TicksPerDay <= d <=> x < (d + 1) * TicksPerDay
<1>1. PICK n \in Nat \ {0} : n = TicksPerDay
  BY ObservationsAssumption
<1>2. PICK q \in Int, r \in 0..(n - 1) : q = x \div n /\ x = n * q + r
  BY <1>1
<1>3. q >= d <=> n * q + r >= d * n
  BY <1>1, <1>2
<1>4. q <= d <=> n * q + r < (d + 1) * n
  BY <1>1, <1>2
<1> QED
  BY <1>1, <1>2, <1>3, <1>4

\* The observation of variable v in row i.
MeltedAs(t, i, v) ==
    [row |-> i, parameter |-> v, value |-> t.rows[i][v],
     cell |-> [c \in ViewColumns(t) |-> CoordinateAlias(t, t.rows[i], c)]]

LEMMA MeltedIs ==
    ASSUME NEW t
    PROVE  \A m : m \in BaseMelted(t) <=>
               \E i \in DOMAIN t.rows, v \in VariableColumns(t) : t.rows[i][v] # None /\ m = MeltedAs(t, i, v)
BY DEF BaseMelted, MeltedAs

\* A table has finitely many observations.
LEMMA BaseMeltedFinite ==
    ASSUME NEW t, IsTable(t)
    PROVE  IsFiniteSet(BaseMelted(t))
<1>1. PICK S, P, g : /\ S = BaseMelted(t)
                     /\ P = (DOMAIN t.rows) \X VariableColumns(t)
                     /\ g = [m \in S |-> <<m.row, m.parameter>>]
  OBVIOUS
<1>2. IsFiniteSet(P)
  <2>1. IsFiniteSet(DOMAIN t.rows)
    <3>1. DOMAIN t.rows = 1..Len(t.rows) /\ Len(t.rows) \in Int
      BY DEF IsTable
    <3> QED
      BY <3>1, FS_Interval
  <2>2. IsFiniteSet(VariableColumns(t))
    <3>1. VariableColumns(t) \subseteq t.columns
      BY DEF IsTable, VariableColumns
    <3>2. IsFiniteSet(t.columns)
      BY DEF IsTable
    <3> QED
      BY <3>1, <3>2, FS_Subset
  <2> QED
    BY <1>1, <2>1, <2>2, FS_Product
<1>3. \A m \in S : \E i \in DOMAIN t.rows, v \in VariableColumns(t) : m = MeltedAs(t, i, v)
  BY <1>1, MeltedIs
<1>4. \A m \in S : m.row \in DOMAIN t.rows /\ m.parameter \in VariableColumns(t) /\ m = MeltedAs(t, m.row, m.parameter)
  BY <1>3 DEF MeltedAs
<1>5. g \in Injection(S, P)
  <2>1. g \in [S -> P]
    BY <1>1, <1>4
  <2>2. \A m, n \in S : g[m] = g[n] => m = n
    BY <1>1, <1>4
  <2> QED
    BY <1>1, <2>1, <2>2 DEF Injection, IsInjective
<1> QED
  BY <1>1, <1>2, <1>5, FS_Injection

LEMMA TableCounts ==
    ASSUME NEW t, IsTable(t), NEW f
    PROVE  TableTotal(t) \in Nat /\ TableMatching(t, f) \in Nat
<1>1. IsFiniteSet(BaseMelted(t)) /\ Matching(t, f) \subseteq BaseMelted(t)
  BY BaseMeltedFinite DEF Matching
<1> QED
  BY <1>1, FS_Subset, FS_CardinalityType DEF TableTotal, TableMatching

-----------------------------------------------------------------------------
(* What a download contains: tables                                        *)

Knows(t, aliases) == FindColumn(t.columns, aliases) # None

CellOf(t, i, aliases) == t.rows[i][FindColumn(t.columns, aliases)]

TimeOf(t, i) == ToDatetime(t, FindColumn(t.columns, TimeAliases), CellOf(t, i, TimeAliases))

\* Row i of the table is in the scope, as ApplyScopeMask compares it.
InScope(t, i, s) ==
    /\ Knows(t, TimeAliases) => InDates(s, TimeOf(t, i))
    /\ HasBox(s) =>
         /\ Knows(t, LatAliases) =>
              CellOf(t, i, LatAliases) # None /\ Within(CellOf(t, i, LatAliases), s.latMin, s.latMax)
         /\ Knows(t, LonAliases) =>
              CellOf(t, i, LonAliases) # None /\ Within(CellOf(t, i, LonAliases), s.lonMin, s.lonMax)
    /\ Knows(t, DepthAliases) => Within(CellOf(t, i, DepthAliases), s.depthMin, s.depthMax)
    /\ \A l \in Labels : Knows(t, LabelAliases(l)) => s.label[l] \in {None, CellOf(t, i, LabelAliases(l))}
    /\ Knows(t, <<"parameter", "variable">>) => Selects(s, CellOf(t, i, <<"parameter", "variable">>))

LEMMA ScopeMask ==
    ASSUME NEW t, NEW s
    PROVE  ApplyScopeMask(t, s) = {i \in DOMAIN t.rows : InScope(t, i, s)}
<1>1. ASSUME NEW i PROVE i \in ApplyScopeMask(t, s) <=> i \in DOMAIN t.rows /\ InScope(t, i, s)
  BY DEF ApplyScopeMask, InScope, Knows, CellOf, TimeOf
<1> QED
  BY <1>1

\* What is compared with a number is one.
LEMMA CoercedCells ==
    ASSUME NEW t, IsCoerced(t), NEW i \in DOMAIN t.rows,
           NEW aliases \in {LatAliases, LonAliases, TimeAliases, DepthAliases},
           Knows(t, aliases)
    PROVE  CellOf(t, i, aliases) \in OrNone(Int)
<1>1. PICK c : c = FindColumn(t.columns, aliases)
  OBVIOUS
<1>2. DOMAIN aliases \subseteq Nat
  BY DEF LatAliases, LonAliases, TimeAliases, DepthAliases
<1>3. c \in t.columns /\ c \in ToSet(aliases)
  <2>1. PICK K : K = {k \in DOMAIN aliases : aliases[k] \in t.columns}
    OBVIOUS
  <2>2. K # {} /\ c = aliases[Min(K)]
    BY <1>1, <2>1 DEF Knows, FindColumn, FirstKnown
  <2>3. \E k \in K : \A j \in K : k <= j
    BY <1>2, <2>1, <2>2, LeastOf
  <2>4. Min(K) \in K
    BY <2>3 DEF Min
  <2> QED
    BY <2>1, <2>2, <2>4 DEF ToSet
<1>4. c \in t.columns \cap UNION {ToSet(names) : names \in {LatAliases, LonAliases, TimeAliases, DepthAliases}}
  BY <1>3
<1> QED
  BY <1>1, <1>4 DEF IsCoerced, CellOf

LEMMA TimeCells ==
    ASSUME NEW t, IsCoerced(t), NEW i \in DOMAIN t.rows, Knows(t, TimeAliases)
    PROVE  TimeOf(t, i) \in OrNone(Int)
BY CoercedCells DEF TimeOf, ToDatetime, OrNone

\* A day from from to to, for a time from its midnight to that of to.
LEMMA InDatesWithin ==
    ASSUME NEW s \in Filter, NEW x \in OrNone(Int), InDates(s, x)
    PROVE  Within(Day(x), s.from, s.to)
<1>1. s.from \in OrNone(Int) /\ s.to \in OrNone(Int) /\ TicksPerDay \in Nat \ {0} /\ None \notin Int
  BY ObservationsAssumption DEF Filter
<1>2. CASE x = None
  BY <1>2 DEF InDates, Within, AtLeast, AtMost
<1>3. CASE x # None
  <2>1. x \in Int /\ Day(x) = x \div TicksPerDay /\ Day(x) \in Int /\ Day(x) # None
    <3>1. x \in Int
      BY <1>3 DEF OrNone
    <3> QED
      BY <1>1, <1>3, <3>1, DayBounds DEF Day
  <2>2. AtLeast(Day(x), s.from)
    <3>1. CASE s.from # None
      <4>1. s.from \in Int /\ x >= s.from * TicksPerDay
        BY <1>1, <3>1 DEF OrNone, InDates
      <4> QED
        BY <2>1, <4>1, DayBounds DEF AtLeast
    <3> QED
      BY <3>1 DEF AtLeast
  <2>3. AtMost(Day(x), s.to)
    <3>1. CASE s.to # None
      <4>1. s.to \in Int /\ x <= s.to * TicksPerDay
        BY <1>1, <3>1 DEF OrNone, InDates
      <4>2. x < (s.to + 1) * TicksPerDay
        <5>1. PICK n \in Nat \ {0}, d \in Int : n = TicksPerDay /\ d = s.to
          BY <1>1, <4>1
        <5>2. x \in Int /\ x <= d * n
          BY <2>1, <4>1, <5>1
        <5>3. d * n < (d + 1) * n
          BY <5>1
        <5> QED
          BY <5>1, <5>2, <5>3
      <4> QED
        BY <2>1, <4>1, <4>2, DayBounds DEF AtMost
    <3> QED
      BY <3>1 DEF AtMost
  <2> QED
    BY <2>2, <2>3 DEF Within
<1> QED
  BY <1>2, <1>3

LEMMA SidesOfBox ==
    ASSUME NEW s \in Filter, HasBox(s)
    PROVE  s.latMin \in Int /\ s.latMax \in Int /\ s.lonMin \in Int /\ s.lonMax \in Int
BY ObservationsAssumption DEF Filter, HasBox, OrNone

LEMMA BoxWithin ==
    ASSUME NEW s \in Filter, HasBox(s), NEW lat \in OrNone(Int), NEW lon \in OrNone(Int),
           lat # None, Within(lat, s.latMin, s.latMax), lon # None, Within(lon, s.lonMin, s.lonMax)
    PROVE  InBox(s, lat, lon)
<1>1. /\ s.latMin \in Int /\ s.latMax \in Int /\ s.lonMin \in Int /\ s.lonMax \in Int
      /\ lat \in Int /\ lon \in Int /\ None \notin Int
  BY SidesOfBox, ObservationsAssumption DEF OrNone
<1>2. lat >= s.latMin /\ lat <= s.latMax /\ lon >= s.lonMin /\ lon <= s.lonMax
  BY <1>1 DEF Within, AtLeast, AtMost
<1> QED
  BY <1>1, <1>2 DEF InBox

LEMMA TableWithin ==
    ASSUME NEW t, IsTable(t), IsCoerced(t), NEW s \in Filter, NEW i \in ApplyScopeMask(t, s)
    PROVE  RowWithin(t, i, s)
<1>1. i \in DOMAIN t.rows /\ InScope(t, i, s)
  BY ScopeMask
<1>2. ASSUME t.named["time"] # None, FindColumn(t.columns, TimeAliases) = t.named["time"],
             t.named["time"] \notin t.numeric
      PROVE  Within(Day(t.rows[i][t.named["time"]]), s.from, s.to)
  <2>1. Knows(t, TimeAliases) /\ CellOf(t, i, TimeAliases) = t.rows[i][t.named["time"]]
    BY <1>2 DEF Knows, CellOf
  <2>2. InDates(s, TimeOf(t, i)) /\ TimeOf(t, i) \in OrNone(Int)
    BY <1>1, <2>1, TimeCells DEF InScope
  <2>3. TimeOf(t, i) = t.rows[i][t.named["time"]]
    BY <1>2, <2>1 DEF TimeOf, ToDatetime
  <2> QED
    BY <2>2, <2>3, InDatesWithin
<1>3. ASSUME t.named["depth_m"] # None, FindColumn(t.columns, DepthAliases) = t.named["depth_m"]
      PROVE  Within(t.rows[i][t.named["depth_m"]], s.depthMin, s.depthMax)
  BY <1>1, <1>3 DEF InScope, Knows, CellOf
<1>4. ASSUME HasBox(s), t.named["lat"] # None, FindColumn(t.columns, LatAliases) = t.named["lat"],
             t.named["lon"] # None, FindColumn(t.columns, LonAliases) = t.named["lon"]
      PROVE  InBox(s, t.rows[i][t.named["lat"]], t.rows[i][t.named["lon"]])
  <2>1. PICK lat, lon : lat = t.rows[i][t.named["lat"]] /\ lon = t.rows[i][t.named["lon"]]
    OBVIOUS
  <2>2. Knows(t, LatAliases) /\ CellOf(t, i, LatAliases) = lat
    BY <1>4, <2>1 DEF Knows, CellOf
  <2>3. Knows(t, LonAliases) /\ CellOf(t, i, LonAliases) = lon
    BY <1>4, <2>1 DEF Knows, CellOf
  <2>4. lat \in OrNone(Int) /\ lon \in OrNone(Int)
    BY <1>1, <2>2, <2>3, CoercedCells
  <2>5. lat # None /\ Within(lat, s.latMin, s.latMax) /\ lon # None /\ Within(lon, s.lonMin, s.lonMax)
    BY <1>1, <1>4, <2>2, <2>3 DEF InScope
  <2> QED
    BY <1>4, <2>1, <2>4, <2>5, BoxWithin
<1> QED
  BY <1>2, <1>3, <1>4 DEF RowWithin

\* Of two scopes the one inside the other has the narrower dates.
LEMMA NarrowerDates ==
    ASSUME NEW r \in Filter, NEW g \in Filter, NEW x \in OrNone(Int),
           g.from # None => r.from # None /\ r.from >= g.from,
           g.to # None => r.to # None /\ r.to <= g.to,
           InDates(r, x)
    PROVE  InDates(g, x)
<1>1. /\ r.from \in OrNone(Int) /\ r.to \in OrNone(Int) /\ g.from \in OrNone(Int) /\ g.to \in OrNone(Int)
      /\ None \notin Int
  BY ObservationsAssumption DEF Filter
<1>2. PICK n \in Nat \ {0} : n = TicksPerDay
  BY ObservationsAssumption
<1>3. \A a, b \in Int : a <= b => a * n <= b * n
  BY <1>2
<1>4. ASSUME g.from # None PROVE x # None /\ x >= g.from * TicksPerDay
  <2>1. PICK a \in Int, b \in Int : a = g.from /\ b = r.from /\ a <= b
    BY <1>1, <1>4 DEF OrNone
  <2>2. x \in Int /\ x # None /\ x >= b * n
    BY <1>1, <1>2, <1>4, <2>1 DEF InDates, OrNone
  <2>3. a * n <= b * n /\ a * n \in Int /\ b * n \in Int
    BY <1>2, <1>3, <2>1
  <2> QED
    BY <1>2, <2>1, <2>2, <2>3
<1>5. ASSUME g.to # None PROVE x # None /\ x <= g.to * TicksPerDay
  <2>1. PICK a \in Int, b \in Int : a = r.to /\ b = g.to /\ a <= b
    BY <1>1, <1>5 DEF OrNone
  <2>2. x \in Int /\ x # None /\ x <= a * n
    BY <1>1, <1>2, <1>5, <2>1 DEF InDates, OrNone
  <2>3. a * n <= b * n /\ a * n \in Int /\ b * n \in Int
    BY <1>2, <1>3, <2>1
  <2> QED
    BY <1>2, <2>1, <2>2, <2>3
<1> QED
  BY <1>4, <1>5 DEF InDates

LEMMA NarrowerWithin ==
    ASSUME NEW x \in OrNone(Int), NEW rl \in OrNone(Int), NEW rh \in OrNone(Int),
           NEW gl \in OrNone(Int), NEW gh \in OrNone(Int),
           gl # None => rl # None /\ rl >= gl, gh # None => rh # None /\ rh <= gh,
           Within(x, rl, rh)
    PROVE  Within(x, gl, gh)
<1>1. None \notin Int
  BY ObservationsAssumption
<1>2. AtLeast(x, gl)
  BY <1>1 DEF Within, AtLeast, OrNone
<1>3. AtMost(x, gh)
  BY <1>1 DEF Within, AtMost, OrNone
<1> QED
  BY <1>2, <1>3 DEF Within

\* What ScopeWithinGrant and SetsAllOf say together.
LEMMA NarrowerFields ==
    ASSUME NEW r \in Filter, NEW g \in Filter, g # None, ScopeWithinGrant(r, g), SetsAllOf(r, g)
    PROVE  /\ g.from # None => r.from # None /\ r.from >= g.from
           /\ g.to # None => r.to # None /\ r.to <= g.to
           /\ g.depthMin # None => r.depthMin # None /\ r.depthMin >= g.depthMin
           /\ g.depthMax # None => r.depthMax # None /\ r.depthMax <= g.depthMax
           /\ \A l \in Labels : g.label[l] # None => r.label[l] = g.label[l]
           /\ g.parameters # {} => r.parameters # {} /\ r.parameters \subseteq g.parameters
           /\ HasBox(g) => /\ HasBox(r)
                           /\ r.latMin >= g.latMin /\ r.latMax <= g.latMax
                           /\ r.lonMin >= g.lonMin /\ r.lonMax <= g.lonMax
<1>1. /\ \A c \in Labels : g.label[c] # None /\ r.label[c] # None => r.label[c] = g.label[c]
      /\ g.parameters # {} => r.parameters \subseteq g.parameters
      /\ \A low \in {"from", "depthMin"} : g[low] # None /\ r[low] # None => r[low] >= g[low]
      /\ \A high \in {"to", "depthMax"} : g[high] # None /\ r[high] # None => r[high] <= g[high]
      /\ HasBox(g) /\ HasBox(r) =>
           /\ \A low \in {"latMin", "lonMin"} : r[low] >= g[low]
           /\ \A high \in {"latMax", "lonMax"} : r[high] <= g[high]
  BY DEF ScopeWithinGrant, Grants
<1>2. /\ FilterColumns(g) \subseteq FilterColumns(r)
      /\ \A field \in {"from", "to", "depthMin", "depthMax"} : r[field] = None => g[field] = None
      /\ g.parameters # {} => r.parameters # {}
  BY DEF SetsAllOf
<1>3. ASSUME NEW l \in Labels, g.label[l] # None PROVE r.label[l] # None
  <2>1. l \in FilterColumns(r)
    BY <1>2, <1>3 DEF FilterColumns
  <2> QED
    BY <2>1 DEF FilterColumns, Labels
<1>4. HasBox(g) => HasBox(r)
  <2>1. HasBox(g) => "lat" \in FilterColumns(r)
    BY <1>2 DEF FilterColumns
  <2> QED
    BY <2>1 DEF FilterColumns, Labels
<1>5. \A l \in Labels : g.label[l] # None => r.label[l] = g.label[l]
  BY <1>1, <1>3
<1> QED
  BY <1>1, <1>2, <1>4, <1>5

LEMMA TableNarrower ==
    ASSUME NEW t, IsCoerced(t), NEW r \in Filter, NEW g \in Filter, g # None,
           ScopeWithinGrant(r, g), SetsAllOf(r, g)
    PROVE  ApplyScopeMask(t, r) \subseteq ApplyScopeMask(t, g)
<1> SUFFICES ASSUME NEW i \in DOMAIN t.rows, InScope(t, i, r) PROVE InScope(t, i, g)
  BY ScopeMask
<1>1. /\ g.from # None => r.from # None /\ r.from >= g.from
      /\ g.to # None => r.to # None /\ r.to <= g.to
      /\ g.depthMin # None => r.depthMin # None /\ r.depthMin >= g.depthMin
      /\ g.depthMax # None => r.depthMax # None /\ r.depthMax <= g.depthMax
      /\ \A l \in Labels : g.label[l] # None => r.label[l] = g.label[l]
      /\ g.parameters # {} => r.parameters # {} /\ r.parameters \subseteq g.parameters
      /\ HasBox(g) => /\ HasBox(r)
                      /\ r.latMin >= g.latMin /\ r.latMax <= g.latMax
                      /\ r.lonMin >= g.lonMin /\ r.lonMax <= g.lonMax
  BY NarrowerFields
<1>2. \A s \in {r, g} : /\ s.depthMin \in OrNone(Int) /\ s.depthMax \in OrNone(Int)
                        /\ s.latMin \in OrNone(Int) /\ s.latMax \in OrNone(Int)
                        /\ s.lonMin \in OrNone(Int) /\ s.lonMax \in OrNone(Int)
  BY DEF Filter
<1>3. Knows(t, TimeAliases) => InDates(g, TimeOf(t, i))
  BY <1>1, TimeCells, NarrowerDates DEF InScope
<1>4. Knows(t, DepthAliases) => Within(CellOf(t, i, DepthAliases), g.depthMin, g.depthMax)
  <2> SUFFICES ASSUME Knows(t, DepthAliases)
               PROVE  Within(CellOf(t, i, DepthAliases), g.depthMin, g.depthMax)
    OBVIOUS
  <2>1. CellOf(t, i, DepthAliases) \in OrNone(Int) /\ Within(CellOf(t, i, DepthAliases), r.depthMin, r.depthMax)
    BY CoercedCells DEF InScope
  <2> QED
    BY <1>1, <1>2, <2>1, NarrowerWithin
<1>5. ASSUME HasBox(g), Knows(t, LatAliases)
      PROVE  CellOf(t, i, LatAliases) # None /\ Within(CellOf(t, i, LatAliases), g.latMin, g.latMax)
  <2>1. CellOf(t, i, LatAliases) \in OrNone(Int)
    BY <1>5, CoercedCells
  <2>2. CellOf(t, i, LatAliases) # None /\ Within(CellOf(t, i, LatAliases), r.latMin, r.latMax)
    BY <1>1, <1>5 DEF InScope
  <2>3. r.latMin # None /\ r.latMax # None
    BY <1>1, <1>5 DEF HasBox
  <2> QED
    BY <1>1, <1>2, <1>5, <2>1, <2>2, <2>3, NarrowerWithin
<1>6. ASSUME HasBox(g), Knows(t, LonAliases)
      PROVE  CellOf(t, i, LonAliases) # None /\ Within(CellOf(t, i, LonAliases), g.lonMin, g.lonMax)
  <2>1. CellOf(t, i, LonAliases) \in OrNone(Int)
    BY <1>6, CoercedCells
  <2>2. CellOf(t, i, LonAliases) # None /\ Within(CellOf(t, i, LonAliases), r.lonMin, r.lonMax)
    BY <1>1, <1>6 DEF InScope
  <2>3. r.lonMin # None /\ r.lonMax # None
    BY <1>1, <1>6 DEF HasBox
  <2> QED
    BY <1>1, <1>2, <1>6, <2>1, <2>2, <2>3, NarrowerWithin
<1>7. \A l \in Labels : Knows(t, LabelAliases(l)) => g.label[l] \in {None, CellOf(t, i, LabelAliases(l))}
  BY <1>1 DEF InScope
<1>8. \A x : Selects(r, x) => Selects(g, x)
  BY <1>1 DEF Selects
<1> QED
  BY <1>3, <1>4, <1>5, <1>6, <1>7, <1>8 DEF InScope

-----------------------------------------------------------------------------
(* What a download contains: grids                                         *)

LEMMA SetToSeqIs ==
    ASSUME NEW S, IsFiniteSet(S)
    PROVE  /\ SetToSeq(S) \in Seq(S)
           /\ ToSet(SetToSeq(S)) = S
           /\ DOMAIN SetToSeq(S) = 1..Cardinality(S)
           /\ SetToSeq(S) \in Bijection(1..Cardinality(S), S)
<1>1. PICK n, s : n = Cardinality(S) /\ s = SetToSeq(S)
  OBVIOUS
<1>2. n \in Nat
  BY <1>1, FS_CardinalityType
<1>3. s \in Injection(1..n, S)
  <2>1. \E f \in [1..n -> S] : IsInjective(f)
    <3>1. PICK f : f \in Bijection(1..n, S)
      BY <1>1, FS_CardinalityType DEF ExistsBijection
    <3> QED
      BY <3>1 DEF Bijection, Injection
  <2>2. s = CHOOSE f \in [1..n -> S] : IsInjective(f)
    BY <1>1 DEF SetToSeq
  <2> QED
    BY <2>1, <2>2 DEF Injection
<1>4. s \in Surjection(1..n, S)
  <2>1. IsFiniteSet(1..n) /\ Cardinality(1..n) = n
    BY <1>2, FS_Interval
  <2> QED
    BY <1>1, <1>3, <2>1, FS_Injection
<1>5. s \in [1..n -> S]
  BY <1>3 DEF Injection
<1>6. ToSet(s) = S
  BY <1>4, <1>5 DEF ToSet, Surjection
<1>7. s \in Seq(S) /\ DOMAIN s = 1..n
  BY <1>2, <1>5
<1>8. s \in Bijection(1..n, S)
  BY <1>3, <1>4 DEF Bijection
<1> QED
  BY <1>1, <1>6, <1>7, <1>8

\* p comes before q along dims: they differ, and first where p is the lesser.
Precedes(dims, p, q) ==
    \E k \in DOMAIN dims :
        /\ p[dims[k]] < q[dims[k]]
        /\ \A j \in 1..(k - 1) : p[dims[j]] = q[dims[j]]

LEMMA RavelOrders ==
    ASSUME NEW ds, IsGrid(ds), NEW dims \in Seq(DOMAIN ds.index),
           NEW P, P = Positions(ds, ToSet(dims)),
           NEW below, below = [q \in P |-> {p \in P : Precedes(dims, p, q)}]
    PROVE  Orders(below, P)
<1>1. PICK n \in Nat : n = Len(dims) /\ DOMAIN dims = 1..n
  BY InNames
<1>2. ASSUME NEW p \in P, NEW k \in 1..n PROVE p[dims[k]] \in Int
  <2>1. dims[k] \in ToSet(dims) /\ dims[k] \in DOMAIN ds.index
    BY <1>1 DEF ToSet
  <2>2. p[dims[k]] \in ds.index[dims[k]]
    BY <2>1, PositionIs
  <2> QED
    BY <2>1, <2>2 DEF IsGrid
<1>3. below \in [P -> SUBSET P]
  OBVIOUS
<1>4. \A p, q \in P : p \in below[q] <=> Precedes(dims, p, q)
  OBVIOUS
<1>5. ASSUME NEW p \in P PROVE ~Precedes(dims, p, p)
  BY <1>1, <1>2 DEF Precedes
<1>6. ASSUME NEW p \in P, NEW q \in P, NEW r \in P, Precedes(dims, p, q), Precedes(dims, q, r)
      PROVE  Precedes(dims, p, r)
  <2>1. PICK k \in 1..n : p[dims[k]] < q[dims[k]] /\ \A j \in 1..(k - 1) : p[dims[j]] = q[dims[j]]
    BY <1>1, <1>6 DEF Precedes
  <2>2. PICK m \in 1..n : q[dims[m]] < r[dims[m]] /\ \A j \in 1..(m - 1) : q[dims[j]] = r[dims[j]]
    BY <1>1, <1>6 DEF Precedes
  <2>3. PICK l \in {k, m} : l <= k /\ l <= m
    OBVIOUS
  <2>4. \A j \in 1..(l - 1) : p[dims[j]] = r[dims[j]]
    BY <2>1, <2>2, <2>3
  <2>5. p[dims[l]] < r[dims[l]]
    <3>1. p[dims[l]] \in Int /\ q[dims[l]] \in Int /\ r[dims[l]] \in Int
      BY <1>2, <2>3
    <3>2. CASE k = m
      BY <2>1, <2>2, <2>3, <3>1, <3>2
    <3>3. CASE k < m
      BY <2>1, <2>2, <2>3, <3>1, <3>3
    <3>4. CASE m < k
      BY <2>1, <2>2, <2>3, <3>1, <3>4
    <3> QED
      BY <3>2, <3>3, <3>4
  <2> QED
    BY <1>1, <2>3, <2>4, <2>5 DEF Precedes
<1>7. ASSUME NEW p \in P, NEW q \in P, p # q PROVE Precedes(dims, p, q) \/ Precedes(dims, q, p)
  <2>1. PICK K : K = {k \in 1..n : p[dims[k]] # q[dims[k]]}
    OBVIOUS
  <2>2. K # {}
    <3>1. p = [d \in ToSet(dims) |-> p[d]] /\ q = [d \in ToSet(dims) |-> q[d]]
      BY PositionIs
    <3>2. PICK d \in ToSet(dims) : p[d] # q[d]
      BY <1>7, <3>1
    <3> QED
      BY <1>1, <2>1, <3>2 DEF ToSet
  <2>3. PICK k \in K : \A j \in K : k <= j
    <3>1. K \subseteq Nat
      BY <1>1, <2>1
    <3> QED
      BY <2>2, <3>1, LeastOf
  <2>4. \A j \in 1..(k - 1) : p[dims[j]] = q[dims[j]]
    <3>1. ASSUME NEW j \in 1..(k - 1) PROVE p[dims[j]] = q[dims[j]]
      <4>1. j \in 1..n /\ ~(k <= j)
        BY <2>1, <2>3
      <4> QED
        BY <2>1, <2>3, <4>1
    <3> QED
      BY <3>1
  <2>5. p[dims[k]] < q[dims[k]] \/ q[dims[k]] < p[dims[k]]
    BY <1>2, <2>1, <2>3
  <2> QED
    BY <1>1, <2>1, <2>3, <2>4, <2>5 DEF Precedes
<1>8. \A q \in P : \A p \in below[q] : below[p] \subseteq below[q]
  <2>1. ASSUME NEW q \in P, NEW p \in below[q], NEW o \in below[p] PROVE o \in below[q]
    <3>1. p \in P /\ o \in P
      BY <1>3
    <3> QED
      BY <1>4, <1>6, <3>1
  <2> QED
    BY <2>1
<1> QED
  BY <1>3, <1>4, <1>5, <1>7, <1>8 DEF Orders

LEMMA RavelIs ==
    ASSUME NEW ds, IsGrid(ds), NEW dims \in Seq(DOMAIN ds.index)
    PROVE  /\ Cardinality(Positions(ds, ToSet(dims))) \in Nat
           /\ DOMAIN Ravel(ds, dims) = 1..Cardinality(Positions(ds, ToSet(dims)))
           /\ \A i \in DOMAIN Ravel(ds, dims) : Ravel(ds, dims)[i] \in Positions(ds, ToSet(dims))
<1>1. PICK P, below : /\ P = Positions(ds, ToSet(dims))
                      /\ below = [q \in P |-> {p \in P : Precedes(dims, p, q)}]
  OBVIOUS
<1>2. Orders(below, P)
  BY <1>1, RavelOrders
<1>3. IsFiniteSet(P)
  <2>1. ToSet(dims) \subseteq DOMAIN ds.index
    BY InNames
  <2> QED
    BY <1>1, <2>1, PositionsFinite
<1>4. Ravel(ds, dims) = Ordered(P, below)
  BY <1>1 DEF Ravel, InOrder, Precedes
<1>5. Cardinality(P) \in Nat /\ Ordered(P, below) \in Seq(P) /\ DOMAIN Ordered(P, below) = 1..Cardinality(P)
  BY <1>2, <1>3, OrderedIs
<1>6. \A i \in DOMAIN Ordered(P, below) : Ordered(P, below)[i] \in P
  BY <1>5, InNames
<1> QED
  BY <1>1, <1>4, <1>5, <1>6

\* A row per position.
LEMMA DataframeIs ==
    ASSUME NEW ds, IsGrid(ds)
    PROVE  /\ DOMAIN ToDataframe(ds).rows = 1..Cardinality(Positions(ds, DOMAIN ds.index))
           /\ Cardinality(Positions(ds, DOMAIN ds.index)) \in Nat
           /\ \A i \in DOMAIN ToDataframe(ds).rows : \E p \in Positions(ds, DOMAIN ds.index) :
                LET row == ToDataframe(ds).rows[i] IN
                /\ DOMAIN row = DOMAIN ds.coords \cup DOMAIN ds.vars \cup DOMAIN ds.index
                /\ \A c \in DOMAIN ds.coords : row[c] = Cell(ds.coords[c], p)
                /\ \A v \in DOMAIN ds.vars \ DOMAIN ds.coords : row[v] = Cell(ds.vars[v], p)
<1>1. PICK dims, order, columns : /\ dims = SetToSeq(DOMAIN ds.index) /\ order = Ravel(ds, dims)
                                  /\ columns = DOMAIN ds.coords \cup DOMAIN ds.vars \cup DOMAIN ds.index
  OBVIOUS
<1>2. dims \in Seq(DOMAIN ds.index) /\ ToSet(dims) = DOMAIN ds.index
  BY <1>1, SetToSeqIs DEF IsGrid
<1>3. /\ Cardinality(Positions(ds, DOMAIN ds.index)) \in Nat
      /\ DOMAIN order = 1..Cardinality(Positions(ds, DOMAIN ds.index))
      /\ \A i \in DOMAIN order : order[i] \in Positions(ds, DOMAIN ds.index)
  BY <1>1, <1>2, RavelIs
<1>4. PICK rows :
        rows = [i \in DOMAIN order |->
                  [c \in columns |->
                     IF c \in DOMAIN ds.coords THEN Cell(ds.coords[c], order[i])
                     ELSE IF c \in DOMAIN ds.vars THEN Cell(ds.vars[c], order[i]) ELSE order[i][c]]]
  OBVIOUS
<1>5. ToDataframe(ds).rows = rows
  BY <1>1, <1>4 DEF ToDataframe
<1>6. ASSUME NEW i \in DOMAIN rows
      PROVE  \E p \in Positions(ds, DOMAIN ds.index) :
                /\ DOMAIN rows[i] = columns
                /\ \A c \in DOMAIN ds.coords : rows[i][c] = Cell(ds.coords[c], p)
                /\ \A v \in DOMAIN ds.vars \ DOMAIN ds.coords : rows[i][v] = Cell(ds.vars[v], p)
  <2>1. order[i] \in Positions(ds, DOMAIN ds.index)
    BY <1>3, <1>4
  <2>2. DOMAIN rows[i] = columns
    BY <1>4
  <2>3. \A c \in DOMAIN ds.coords : rows[i][c] = Cell(ds.coords[c], order[i])
    BY <1>1, <1>4
  <2>4. \A v \in DOMAIN ds.vars \ DOMAIN ds.coords : rows[i][v] = Cell(ds.vars[v], order[i])
    BY <1>1, <1>4
  <2> QED
    BY <2>1, <2>2, <2>3, <2>4
<1> QED
  BY <1>1, <1>3, <1>4, <1>5, <1>6

\* What a selection of variables leaves of g.
PartOf(s, g) ==
    /\ IsGrid(s)
    /\ DOMAIN s.index \subseteq DOMAIN g.index /\ \A d \in DOMAIN s.index : s.index[d] = g.index[d]
    /\ DOMAIN s.coords \subseteq DOMAIN g.coords /\ \A c \in DOMAIN s.coords : s.coords[c] = g.coords[c]
    /\ DOMAIN s.vars \subseteq DOMAIN g.vars /\ \A v \in DOMAIN s.vars : s.vars[v] = g.vars[v]
    /\ \A c \in DOMAIN g.coords : Dims(g.coords[c]) \subseteq DOMAIN s.index => c \in DOMAIN s.coords

LEMMA SelectionIsPart ==
    ASSUME NEW g, IsGrid(g), NEW scope
    PROVE  PartOf(SelectVariables(g, scope), g)
<1>1. PICK chosen, used, s : /\ chosen = scope.parameters \cap DOMAIN g.vars
                             /\ used = UNION {Dims(g.vars[v]) : v \in chosen}
                             /\ s = SelectVariables(g, scope)
  OBVIOUS
<1>2. CASE chosen = {}
  BY <1>1, <1>2 DEF SelectVariables, PartOf
<1>3. CASE chosen # {}
  <2>1. PICK kept : kept = {x \in DOMAIN g.coords : Dims(g.coords[x]) \subseteq used}
    OBVIOUS
  <2>2. s = [index |-> [d \in used |-> g.index[d]],
             coords |-> [c \in kept |-> g.coords[c]],
             vars |-> [v \in chosen |-> g.vars[v]]]
    BY <1>1, <1>3, <2>1 DEF SelectVariables
  <2>3. used \subseteq DOMAIN g.index
    <3>1. \A v \in chosen : Dims(g.vars[v]) \subseteq DOMAIN g.index
      BY <1>1, InNames DEF IsGrid, Dims
    <3> QED
      BY <1>1, <3>1
  <2>4. \A c \in kept : g.coords[c].dims \in Seq(used)
    <3>1. ASSUME NEW c \in kept PROVE g.coords[c].dims \in Seq(used)
      <4>1. g.coords[c].dims \in Seq(DOMAIN g.index) /\ ToSet(g.coords[c].dims) \subseteq used
        BY <2>1 DEF IsGrid, Dims
      <4> QED
        BY <4>1 DEF ToSet
    <3> QED
      BY <3>1
  <2>5. \A v \in chosen : g.vars[v].dims \in Seq(used)
    <3>1. ASSUME NEW v \in chosen PROVE g.vars[v].dims \in Seq(used)
      <4>1. g.vars[v].dims \in Seq(DOMAIN g.index) /\ ToSet(g.vars[v].dims) \subseteq used
        BY <1>1 DEF IsGrid, Dims
      <4> QED
        BY <4>1 DEF ToSet
    <3> QED
      BY <3>1
  <2>6. IsGrid(s)
    <3>1. DOMAIN s = {"index", "coords", "vars"}
      BY <2>2
    <3>2. DOMAIN s.index = used /\ DOMAIN s.coords = kept /\ DOMAIN s.vars = chosen
      BY <2>2
    <3>3. IsFiniteSet(used) /\ IsFiniteSet(chosen)
      BY <1>1, <2>3, FS_Subset DEF IsGrid
    <3>4. \A d \in used : IsFiniteSet(s.index[d]) /\ s.index[d] \subseteq Int
      BY <2>2, <2>3 DEF IsGrid
    <3>5. \A c \in kept : s.coords[c].dims \in Seq(used)
      BY <2>2, <2>4
    <3>6. \A v \in chosen : s.vars[v].dims \in Seq(used)
      BY <2>2, <2>5
    <3>7. chosen \cap (kept \cup used) = {}
      BY <1>1, <2>1, <2>3 DEF IsGrid
    <3>8. "time" \in kept => s.coords["time"].dims = <<"time">>
      BY <2>1, <2>2 DEF IsGrid
    <3> QED
      BY <3>1, <3>2, <3>3, <3>4, <3>5, <3>6, <3>7, <3>8 DEF IsGrid
  <2>7. /\ DOMAIN s.index = used /\ DOMAIN s.coords = kept /\ DOMAIN s.vars = chosen
        /\ \A d \in used : s.index[d] = g.index[d]
        /\ \A c \in kept : s.coords[c] = g.coords[c]
        /\ \A v \in chosen : s.vars[v] = g.vars[v]
    BY <2>2
  <2>8. kept \subseteq DOMAIN g.coords /\ chosen \subseteq DOMAIN g.vars
    BY <1>1, <2>1
  <2>9. \A c \in DOMAIN g.coords : Dims(g.coords[c]) \subseteq used => c \in kept
    BY <2>1
  <2> QED
    BY <1>1, <2>3, <2>6, <2>7, <2>8, <2>9 DEF PartOf
<1> QED
  BY <1>2, <1>3

\* One axis of a box.
LEMMA AxisCuts ==
    ASSUME NEW ds, IsGrid(ds), NEW names, DOMAIN names \subseteq Nat, NEW low, NEW high
    PROVE  GridCut(WhereAxis(ds, FirstCoord(ds, names), low, high), ds)
<1>1. PICK name : name = FirstCoord(ds, names)
  OBVIOUS
<1>2. CASE name = None
  BY <1>1, <1>2, CutOfItself DEF WhereAxis
<1>3. CASE name # None
  <2>1. PICK axis, inside :
          /\ axis = ds.coords[name]
          /\ inside = {p \in Positions(ds, Dims(axis)) :
                         Cell(axis, p) # None /\ Within(Cell(axis, p), low, high)}
    OBVIOUS
  <2>2. WhereAxis(ds, name, low, high) = Where(ds, axis.dims, inside)
    BY <1>3, <2>1 DEF WhereAxis
  <2>3. axis.dims \in Seq(DOMAIN ds.index)
    BY <1>1, <1>3, <2>1, CoordAt
  <2>4. inside \subseteq Positions(ds, ToSet(axis.dims))
    BY <2>1 DEF Dims
  <2> QED
    BY <1>1, <2>2, <2>3, <2>4, WhereCuts
<1> QED
  BY <1>2, <1>3

\* The grid's selection of times keeps those whose day is in the range.
SelDays(ds, f) ==
    SelTime(ds, IF HasTime(ds) THEN "time" ELSE None, LAMBDA t : Within(Day(t), f.from, f.to))

LEMMA SelDaysIs ==
    ASSUME NEW ds, IsGrid(ds), NEW f, NEW g, g = SelDays(ds, f)
    PROVE  /\ GridCut(g, ds)
           /\ HasTime(ds) => \A k \in g.index["time"] : Within(Day(TimeAt(ds, k)), f.from, f.to)
<1>1. CASE HasTime(ds)
  <2>1. PICK K : K = {k \in ds.index["time"] : Within(Day(TimeAt(ds, k)), f.from, f.to)}
    OBVIOUS
  <2>2. "time" # None
    BY ObservationsAssumption DEF Roles
  <2>3. g = [ds EXCEPT !.index["time"] = K]
    BY <1>1, <2>1, <2>2 DEF SelDays, SelTime, TimeAt
  <2>4. K \subseteq ds.index["time"]
    BY <2>1
  <2>5. GridCut(g, ds)
    BY <2>3, <2>4, SelectionCuts
  <2>6. "time" \in DOMAIN ds.index
    <3>1. <<"time">> \in Seq(DOMAIN ds.index)
      BY <1>1 DEF HasTime, IsGrid
    <3> QED
      BY <3>1
  <2>7. g.index["time"] = K
    BY <2>3, <2>6 DEF IsGrid
  <2> QED
    BY <2>1, <2>5, <2>7
<1>2. CASE ~HasTime(ds)
  BY <1>2, CutOfItself DEF SelDays, SelTime
<1> QED
  BY <1>1, <1>2

\* What is made a table: the dates, then the box, then the variables.
LEMMA MaterializedIs ==
    ASSUME NEW ds, IsGrid(ds), NEW scope
    PROVE  \E dated, boxed, s :
             /\ MaterializeZarrToParquet(ds, scope) = ToDataframe(s)
             /\ GridCut(dated, ds)
             /\ HasTime(ds) => \A k \in dated.index["time"] : Within(Day(TimeAt(ds, k)), scope.from, scope.to)
             /\ GridCut(boxed, dated)
             /\ HasBox(scope) /\ HasPlace(ds) => boxed = ApplyBbox(dated, scope)
             /\ ~HasBox(scope) => boxed = dated
             /\ s = SelectVariables(boxed, scope)
             /\ PartOf(s, boxed)
<1>1. PICK dated, boxed, s :
        /\ dated = SelDays(ds, scope)
        /\ boxed = IF ~HasBox(scope) THEN dated
                   ELSE IF HasPlace(ds) THEN ApplyBbox(dated, scope)
                   ELSE WhereAxis(WhereAxis(dated, LatName(ds), scope.latMin, scope.latMax),
                                  LonName(ds), scope.lonMin, scope.lonMax)
        /\ s = SelectVariables(boxed, scope)
  OBVIOUS
<1>2. MaterializeZarrToParquet(ds, scope) = ToDataframe(s)
  BY <1>1 DEF MaterializeZarrToParquet, SelDays
<1>3. /\ GridCut(dated, ds)
      /\ HasTime(ds) => \A k \in dated.index["time"] : Within(Day(TimeAt(ds, k)), scope.from, scope.to)
  BY <1>1, SelDaysIs
<1>4. IsGrid(dated) /\ dated.coords = ds.coords
  BY <1>3 DEF GridCut
<1>5. GridCut(boxed, dated)
  <2>1. CASE ~HasBox(scope)
    BY <1>1, <1>4, <2>1, CutOfItself
  <2>2. CASE HasBox(scope) /\ HasPlace(ds)
    BY <1>1, <1>4, <2>2, BboxCuts
  <2>3. CASE HasBox(scope) /\ ~HasPlace(ds)
    <3>1. PICK half : half = WhereAxis(dated, LatName(ds), scope.latMin, scope.latMax)
      OBVIOUS
    <3>2. PICK lats, lons : lats = <<"lat", "latitude", "y">> /\ lons = <<"lon", "longitude", "x">>
      OBVIOUS
    <3>3. DOMAIN lats \subseteq Nat /\ DOMAIN lons \subseteq Nat
      BY <3>2
    <3>4. LatName(ds) = FirstCoord(dated, lats)
      BY <1>4, <3>2 DEF LatName, FirstCoord
    <3>5. GridCut(half, dated)
      BY <1>4, <3>1, <3>3, <3>4, AxisCuts
    <3>6. IsGrid(half) /\ half.coords = ds.coords
      BY <1>4, <3>5 DEF GridCut
    <3>7. LonName(ds) = FirstCoord(half, lons)
      BY <3>2, <3>6 DEF LonName, FirstCoord
    <3>8. boxed = WhereAxis(half, LonName(ds), scope.lonMin, scope.lonMax)
      BY <1>1, <2>3, <3>1
    <3>9. GridCut(boxed, half)
      BY <3>3, <3>6, <3>7, <3>8, AxisCuts
    <3> QED
      BY <3>5, <3>9, CutOfCut
  <2> QED
    BY <2>1, <2>2, <2>3
<1>6. PartOf(s, boxed)
  BY <1>1, <1>5, SelectionIsPart DEF GridCut
<1> QED
  BY <1>1, <1>2, <1>3, <1>5, <1>6

\* The times of the table's rows are those of its grid.
LEMMA GridTimes ==
    ASSUME NEW ds, IsGrid(ds), HasTime(ds), NEW dated, GridCut(dated, ds),
           NEW boxed, GridCut(boxed, dated), NEW s, PartOf(s, boxed),
           NEW p \in Positions(s, DOMAIN s.index), "time" \in DOMAIN s.coords \cup DOMAIN s.vars \cup DOMAIN s.index
    PROVE  /\ "time" \in DOMAIN s.coords
           /\ p["time"] \in dated.index["time"]
           /\ Cell(s.coords["time"], p) = TimeAt(ds, p["time"])
<1>1. /\ boxed.coords = ds.coords /\ DOMAIN boxed.vars = DOMAIN ds.vars
      /\ \A d \in DOMAIN ds.index : boxed.index[d] \subseteq dated.index[d]
      /\ DOMAIN boxed.index = DOMAIN ds.index
  BY DEF GridCut
<1>2. ds.coords["time"].dims = <<"time">> /\ "time" \in DOMAIN ds.coords
  BY DEF HasTime, IsGrid
<1>3. Dims(ds.coords["time"]) = {"time"}
  BY <1>2 DEF Dims, ToSet
<1>4. "time" \in DOMAIN s.coords
  <2>1. "time" \notin DOMAIN s.vars
    BY <1>1, <1>2 DEF PartOf, IsGrid
  <2>2. CASE "time" \in DOMAIN s.index
    BY <1>1, <1>2, <1>3, <2>2 DEF PartOf
  <2> QED
    BY <2>1, <2>2
<1>5. s.coords["time"] = ds.coords["time"]
  BY <1>1, <1>4 DEF PartOf
<1>6. "time" \in DOMAIN s.index
  <2>1. <<"time">> \in Seq(DOMAIN s.index)
    BY <1>2, <1>4, <1>5 DEF PartOf, IsGrid
  <2> QED
    BY <2>1
<1>7. p["time"] \in dated.index["time"]
  <2>1. p["time"] \in s.index["time"]
    BY <1>6, PositionIs
  <2> QED
    BY <1>1, <1>6, <2>1 DEF PartOf
<1>8. Cell(s.coords["time"], p) = TimeAt(ds, p["time"])
  BY <1>3, <1>5 DEF Cell, TimeAt
<1> QED
  BY <1>4, <1>7, <1>8

\* A variable of a masked grid has a value only inside the mask.
FilledInside(ds, g, v, masked, inside) ==
    /\ Dims(g.vars[v]) = Dims(ds.vars[v]) \cup ToSet(masked)
    /\ \A p \in Positions(ds, Dims(g.vars[v])) :
         g.vars[v].at[p] # None => [d \in ToSet(masked) |-> p[d]] \in inside

LEMMA WhereFills ==
    ASSUME NEW ds, IsGrid(ds), NEW masked \in Seq(DOMAIN ds.index),
           NEW inside, inside \subseteq Positions(ds, ToSet(masked)),
           NEW g, g = Where(ds, masked, inside), NEW v \in DOMAIN ds.vars
    PROVE  FilledInside(ds, g, v, masked, inside)
BY WhereCuts DEF FilledInside

\* A row that has a value has a place in the box.
LEMMA GridPlaces ==
    ASSUME NEW ds, IsGrid(ds), NEW scope, HasBox(scope), HasPlace(ds),
           NEW dated, GridCut(dated, ds), NEW boxed, boxed = ApplyBbox(dated, scope), GridCut(boxed, dated),
           NEW s, PartOf(s, boxed), NEW p \in Positions(s, DOMAIN s.index),
           NEW v \in DOMAIN s.vars, Cell(s.vars[v], p) # None
    PROVE  /\ LatName(ds) \in DOMAIN s.coords /\ LonName(ds) \in DOMAIN s.coords
           /\ InBox(scope, Cell(s.coords[LatName(ds)], p), Cell(s.coords[LonName(ds)], p))
<1>1. IsGrid(dated) /\ dated.coords = ds.coords /\ boxed.coords = ds.coords /\ DOMAIN boxed.vars = DOMAIN dated.vars
  BY DEF GridCut
<1>2. LatName(dated) = LatName(ds) /\ LonName(dated) = LonName(ds) /\ HasPlace(dated)
  BY <1>1 DEF LatName, LonName, FirstCoord, HasPlace
<1>3. PICK lat, lon, masked :
        /\ lat = ds.coords[LatName(ds)] /\ lon = ds.coords[LonName(ds)]
        /\ LatName(ds) \in DOMAIN ds.coords /\ LonName(ds) \in DOMAIN ds.coords
        /\ masked \in Seq(DOMAIN dated.index)
        /\ ToSet(masked) = Dims(lat) \cup Dims(lon)
        /\ boxed = Where(dated, masked, InsideBox(dated, scope, lat, lon, masked))
  BY <1>1, <1>2, BboxIs
<1>4. PICK inside : inside = InsideBox(dated, scope, lat, lon, masked)
  OBVIOUS
<1>5. inside \subseteq Positions(dated, ToSet(masked))
  BY <1>4 DEF InsideBox
<1>6. PICK x, D : x = s.vars[v] /\ D = Dims(x)
  OBVIOUS
<1>7. v \in DOMAIN dated.vars /\ x = boxed.vars[v]
  BY <1>1, <1>6 DEF PartOf
<1>8. /\ ToSet(masked) \subseteq D
      /\ \A q \in Positions(dated, D) : x.at[q] # None => [d \in ToSet(masked) |-> q[d]] \in inside
  <2>1. boxed = Where(dated, masked, inside)
    BY <1>3, <1>4
  <2>2. FilledInside(dated, boxed, v, masked, inside)
    BY <1>1, <1>3, <1>5, <1>7, <2>1, WhereFills
  <2>3. /\ Dims(x) = Dims(dated.vars[v]) \cup ToSet(masked)
        /\ \A q \in Positions(dated, Dims(x)) :
             x.at[q] # None => [d \in ToSet(masked) |-> q[d]] \in inside
    BY <1>7, <2>2 DEF FilledInside
  <2> QED
    BY <1>6, <2>3
<1>9. D \subseteq DOMAIN s.index
  <2>1. x.dims \in Seq(DOMAIN s.index)
    BY <1>6 DEF PartOf, IsGrid
  <2> QED
    BY <1>6, <2>1, InNames DEF Dims
<1>10. PICK q : q = [d \in D |-> p[d]]
  OBVIOUS
<1>11. q \in Positions(dated, D)
  <2>1. DOMAIN s.index \subseteq DOMAIN dated.index /\ \A d \in DOMAIN s.index : s.index[d] \subseteq dated.index[d]
    BY DEF PartOf, GridCut
  <2> QED
    BY <1>9, <1>10, <2>1, Narrowed
<1>12. x.at[q] # None
  BY <1>6, <1>10 DEF Cell
<1>13. PICK r : r = [d \in ToSet(masked) |-> q[d]]
  OBVIOUS
<1>14. InBox(scope, Cell(lat, r), Cell(lon, r))
  BY <1>4, <1>8, <1>11, <1>12, <1>13 DEF InsideBox
<1>15. Cell(lat, r) = Cell(lat, p) /\ Cell(lon, r) = Cell(lon, p)
  <2>1. ASSUME NEW array, Dims(array) \subseteq ToSet(masked) PROVE Cell(array, r) = Cell(array, p)
    <3>1. \A d \in Dims(array) : r[d] = p[d]
      BY <1>8, <1>10, <1>13, <2>1
    <3>2. [d \in Dims(array) |-> r[d]] = [d \in Dims(array) |-> p[d]]
      BY <3>1
    <3> QED
      BY <3>2 DEF Cell
  <2> QED
    BY <1>3, <2>1
<1>16. LatName(ds) \in DOMAIN s.coords /\ LonName(ds) \in DOMAIN s.coords
  <2>1. Dims(lat) \subseteq DOMAIN s.index /\ Dims(lon) \subseteq DOMAIN s.index
    BY <1>3, <1>8, <1>9
  <2> QED
    BY <1>1, <1>3, <2>1 DEF PartOf
<1>17. s.coords[LatName(ds)] = lat /\ s.coords[LonName(ds)] = lon
  BY <1>1, <1>3, <1>16 DEF PartOf
<1> QED
  BY <1>14, <1>15, <1>16, <1>17

LEMMA GridWithin ==
    ASSUME NEW ds, IsGrid(ds), NEW scope,
           NEW rows, rows = MaterializeZarrToParquet(ds, scope).rows, NEW i \in DOMAIN rows
    PROVE  GridRowWithin(ds, rows[i], scope)
<1>1. PICK dated, boxed, s :
        /\ MaterializeZarrToParquet(ds, scope) = ToDataframe(s)
        /\ GridCut(dated, ds)
        /\ HasTime(ds) => \A k \in dated.index["time"] : Within(Day(TimeAt(ds, k)), scope.from, scope.to)
        /\ GridCut(boxed, dated)
        /\ HasBox(scope) /\ HasPlace(ds) => boxed = ApplyBbox(dated, scope)
        /\ PartOf(s, boxed)
  BY MaterializedIs
<1>2. PICK p \in Positions(s, DOMAIN s.index) :
        /\ DOMAIN rows[i] = DOMAIN s.coords \cup DOMAIN s.vars \cup DOMAIN s.index
        /\ \A c \in DOMAIN s.coords : rows[i][c] = Cell(s.coords[c], p)
        /\ \A v \in DOMAIN s.vars \ DOMAIN s.coords : rows[i][v] = Cell(s.vars[v], p)
  BY <1>1, DataframeIs DEF PartOf
<1>3. ASSUME HasTime(ds), "time" \in DOMAIN rows[i]
      PROVE  Within(Day(rows[i]["time"]), scope.from, scope.to)
  <2>1. /\ "time" \in DOMAIN s.coords /\ p["time"] \in dated.index["time"]
        /\ Cell(s.coords["time"], p) = TimeAt(ds, p["time"])
    BY <1>1, <1>2, <1>3, GridTimes
  <2> QED
    BY <1>1, <1>2, <1>3, <2>1
<1>4. ASSUME HasPlace(ds), HasBox(scope), NEW v \in DOMAIN ds.vars \cap DOMAIN rows[i], rows[i][v] # None
      PROVE  InBox(scope, rows[i][LatName(ds)], rows[i][LonName(ds)])
  <2>1. v \in DOMAIN s.vars \ DOMAIN s.coords
    <3>1. /\ DOMAIN s.coords \subseteq DOMAIN ds.coords /\ DOMAIN s.index \subseteq DOMAIN ds.index
      BY <1>1 DEF PartOf, GridCut
    <3>2. v \notin DOMAIN ds.coords /\ v \notin DOMAIN ds.index
      BY <1>4 DEF IsGrid
    <3> QED
      BY <1>2, <1>4, <3>1, <3>2
  <2>2. Cell(s.vars[v], p) # None
    BY <1>2, <1>4, <2>1
  <2>3. /\ LatName(ds) \in DOMAIN s.coords /\ LonName(ds) \in DOMAIN s.coords
        /\ InBox(scope, Cell(s.coords[LatName(ds)], p), Cell(s.coords[LonName(ds)], p))
    BY <1>1, <1>4, <2>1, <2>2, GridPlaces
  <2> QED
    BY <1>2, <2>3
<1> QED
  BY <1>3, <1>4 DEF GridRowWithin

-----------------------------------------------------------------------------
(* What a download counts                                                  *)

\* No bound, no label and no parameter is set.
LEMMA NothingSet ==
    /\ NoFilter.from = None /\ NoFilter.to = None
    /\ NoFilter.depthMin = None /\ NoFilter.depthMax = None
    /\ ~HasBox(NoFilter) /\ NoFilter.parameters = {}
    /\ \A l \in Labels : NoFilter.label[l] = None
BY DEF NoFilter, HasBox

\* Without a scope every row of a table is delivered.
LEMMA MaskOfAll ==
    ASSUME NEW t
    PROVE  ApplyScopeMask(t, NoFilter) = DOMAIN t.rows
<1>1. ASSUME NEW i PROVE InScope(t, i, NoFilter)
  BY NothingSet DEF InScope, InDates, Within, AtLeast, AtMost, Selects
<1> QED
  BY <1>1, ScopeMask

LEMMA MaskCounts ==
    ASSUME NEW t, NEW n \in Nat, DOMAIN t.rows = 1..n, NEW s
    PROVE  /\ Cardinality(ApplyScopeMask(t, s)) \in Nat
           /\ Cardinality(ApplyScopeMask(t, s)) <= n
           /\ Cardinality(ApplyScopeMask(t, NoFilter)) = n
<1>1. IsFiniteSet(1..n) /\ Cardinality(1..n) = n
  BY FS_Interval
<1>2. ApplyScopeMask(t, s) \subseteq 1..n
  BY ScopeMask
<1>3. /\ IsFiniteSet(ApplyScopeMask(t, s))
      /\ Cardinality(ApplyScopeMask(t, s)) <= n
  BY <1>1, <1>2, FS_Subset
<1>4. Cardinality(ApplyScopeMask(t, s)) \in Nat
  BY <1>3, FS_CardinalityType
<1> QED
  BY <1>1, <1>3, <1>4, MaskOfAll

\* A cut grid that drops no position: g has the positions of ds.
Whole(g, ds) == GridCut(g, ds) /\ \A d \in DOMAIN ds.index : g.index[d] = ds.index[d]

LEMMA WholeSelection ==
    ASSUME NEW ds, IsGrid(ds), NEW name, NEW K, name \in DOMAIN ds.index => K = ds.index[name],
           NEW g, g = [ds EXCEPT !.index[name] = K]
    PROVE  Whole(g, ds)
<1>1. GridCut(g, ds)
  BY SelectionCuts
<1>2. g.index = [ds.index EXCEPT ![name] = K]
  BY DEF IsGrid
<1> QED
  BY <1>1, <1>2 DEF Whole

LEMMA SelectNothing ==
    ASSUME NEW ds
    PROVE  SelectVariables(ds, NoFilter) = ds
BY NothingSet DEF SelectVariables

LEMMA SelDaysWhole ==
    ASSUME NEW ds, IsGrid(ds), NEW g, g = SelDays(ds, NoFilter)
    PROVE  Whole(g, ds)
<1>1. CASE HasTime(ds)
  <2>1. PICK K : K = {k \in ds.index["time"] : Within(Day(TimeAt(ds, k)), NoFilter.from, NoFilter.to)}
    OBVIOUS
  <2>2. "time" # None
    BY ObservationsAssumption DEF Roles
  <2>3. g = [ds EXCEPT !.index["time"] = K]
    BY <1>1, <2>1, <2>2 DEF SelDays, SelTime, TimeAt
  <2>4. K = ds.index["time"]
    BY <2>1, NothingSet DEF Within, AtLeast, AtMost
  <2> QED
    BY <2>3, <2>4, WholeSelection
<1>2. CASE ~HasTime(ds)
  BY <1>2, CutOfItself DEF SelDays, SelTime, Whole
<1> QED
  BY <1>1, <1>2

LEMMA MaterializedWhole ==
    ASSUME NEW ds, IsGrid(ds)
    PROVE  \E g : Whole(g, ds) /\ MaterializeZarrToParquet(ds, NoFilter) = ToDataframe(g)
<1>1. PICK g : g = SelDays(ds, NoFilter)
  OBVIOUS
<1>2. MaterializeZarrToParquet(ds, NoFilter) = ToDataframe(SelectVariables(g, NoFilter))
  BY <1>1, NothingSet DEF MaterializeZarrToParquet, SelDays
<1> QED
  BY <1>1, <1>2, SelectNothing, SelDaysWhole

\* A position of a part of a grid that has rows is part of a position of the grid.
LEMMA FewerPositions ==
    ASSUME NEW ds, IsGrid(ds), HasRows(ds), NEW D, D \subseteq DOMAIN ds.index,
           NEW s, DOMAIN s.index = D, \A d \in D : s.index[d] \subseteq ds.index[d]
    PROVE  Cardinality(Positions(s, D)) <= Cardinality(Positions(ds, DOMAIN ds.index))
<1>1. PICK E, P, Q : E = DOMAIN ds.index /\ P = Positions(s, D) /\ Q = Positions(ds, E)
  OBVIOUS
<1>2. IsFiniteSet(Q)
  BY <1>1, PositionsFinite
<1>3. PICK any : any = [d \in E |-> CHOOSE k \in ds.index[d] : TRUE]
  OBVIOUS
<1>4. \A d \in E : any[d] \in ds.index[d]
  BY <1>1, <1>3 DEF HasRows
<1>5. PICK wider : wider = [p \in P |-> [d \in E |-> IF d \in D THEN p[d] ELSE any[d]]]
  OBVIOUS
<1>6. ASSUME NEW p \in P PROVE wider[p] \in Q
  <2>1. PICK q : q = [d \in E |-> IF d \in D THEN p[d] ELSE any[d]]
    OBVIOUS
  <2>2. \A d \in D : p[d] \in s.index[d]
    BY <1>1, <1>6, PositionIs
  <2>3. \A d \in E : q[d] \in ds.index[d]
    BY <1>1, <1>4, <2>1, <2>2
  <2>4. q = [d \in E |-> q[d]]
    BY <2>1
  <2>5. q \in Q
    BY <1>1, <2>3, <2>4, PositionIs
  <2> QED
    BY <1>5, <2>1, <2>5
<1>7. ASSUME NEW p \in P, NEW q \in P, wider[p] = wider[q] PROVE p = q
  <2>1. p = [d \in D |-> p[d]] /\ q = [d \in D |-> q[d]]
    BY <1>1, PositionIs
  <2>2. ASSUME NEW d \in D PROVE p[d] = q[d]
    <3>1. d \in E /\ wider[p][d] = wider[q][d]
      BY <1>1, <1>7
    <3> QED
      BY <1>5, <3>1
  <2> QED
    BY <2>1, <2>2
<1>8. wider \in Injection(P, Q)
  <2>1. wider \in [P -> Q]
    BY <1>5, <1>6
  <2> QED
    BY <1>7, <2>1 DEF Injection, IsInjective
<1> QED
  BY <1>1, <1>2, <1>8, FS_Injection

\* A grid's table counts as many rows without a scope.
LEMMA GridDelivers ==
    ASSUME NEW ds, IsGrid(ds), HasRows(ds), NEW scope
    PROVE  /\ Cardinality(ApplyScopeMask(MaterializeZarrToParquet(ds, scope), scope)) \in Nat
           /\ Cardinality(ApplyScopeMask(MaterializeZarrToParquet(ds, NoFilter), NoFilter)) \in Nat
           /\ Cardinality(ApplyScopeMask(MaterializeZarrToParquet(ds, scope), scope))
                <= Cardinality(ApplyScopeMask(MaterializeZarrToParquet(ds, NoFilter), NoFilter))
<1>1. PICK t, u : t = MaterializeZarrToParquet(ds, scope) /\ u = MaterializeZarrToParquet(ds, NoFilter)
  OBVIOUS
<1>2. PICK dated, boxed, s :
        t = ToDataframe(s) /\ GridCut(dated, ds) /\ GridCut(boxed, dated) /\ PartOf(s, boxed)
  BY <1>1, MaterializedIs
<1>3. PICK n : /\ n = Cardinality(Positions(s, DOMAIN s.index))
               /\ n \in Nat /\ DOMAIN t.rows = 1..n
  BY <1>2, DataframeIs DEF PartOf
<1>4. PICK g : Whole(g, ds) /\ u = ToDataframe(g)
  BY <1>1, MaterializedWhole
<1>5. PICK m : /\ m = Cardinality(Positions(g, DOMAIN g.index))
               /\ m \in Nat /\ DOMAIN u.rows = 1..m
  BY <1>4, DataframeIs DEF Whole, GridCut
<1>6. n <= m
  <2>1. /\ DOMAIN s.index \subseteq DOMAIN ds.index
        /\ \A d \in DOMAIN s.index : s.index[d] \subseteq ds.index[d]
    BY <1>2 DEF PartOf, GridCut
  <2>2. n <= Cardinality(Positions(ds, DOMAIN ds.index))
    BY <1>3, <2>1, FewerPositions
  <2>3. Positions(g, DOMAIN g.index) = Positions(ds, DOMAIN ds.index)
    <3>1. PICK D : D = DOMAIN ds.index /\ DOMAIN g.index = D
      BY <1>4 DEF Whole, GridCut
    <3>2. \A d \in D : g.index[d] = ds.index[d]
      BY <1>4, <3>1 DEF Whole
    <3>3. \A p : p \in Positions(g, D) <=> p \in Positions(ds, D)
      BY <3>2, PositionIs
    <3> QED
      BY <3>1, <3>3
  <2> QED
    BY <1>5, <2>2, <2>3
<1>7. Cardinality(ApplyScopeMask(t, scope)) \in Nat /\ Cardinality(ApplyScopeMask(t, scope)) <= n
  BY <1>3, MaskCounts
<1>8. Cardinality(ApplyScopeMask(u, NoFilter)) = m
  BY <1>5, MaskCounts
<1>9. Cardinality(ApplyScopeMask(t, scope)) <= Cardinality(ApplyScopeMask(u, NoFilter))
  BY <1>3, <1>5, <1>6, <1>7, <1>8
<1> QED
  BY <1>1, <1>5, <1>7, <1>8, <1>9

\* The selection of times of a raw grid.
SelDates(ds, name, scope) == SelTime(ds, name, LAMBDA t : InDates(scope, t))

LEMMA SelDatesIs ==
    ASSUME NEW ds, IsGrid(ds), NEW name, NEW scope, NEW g, g = SelDates(ds, name, scope)
    PROVE  GridCut(g, ds) /\ (scope = NoFilter => Whole(g, ds))
<1>1. CASE name = None
  BY <1>1, CutOfItself DEF SelDates, SelTime, Whole
<1>2. CASE name # None
  <2>1. PICK K : K = {k \in ds.index[name] : InDates(scope, ds.coords[name].at[[d \in {name} |-> k]])}
    OBVIOUS
  <2>2. g = [ds EXCEPT !.index[name] = K]
    BY <1>2, <2>1 DEF SelDates, SelTime
  <2>3. GridCut(g, ds)
    BY <2>1, <2>2, SelectionCuts
  <2>4. ASSUME scope = NoFilter PROVE K = ds.index[name]
    BY <2>1, <2>4, NothingSet DEF InDates
  <2> QED
    BY <2>2, <2>3, <2>4, WholeSelection
<1> QED
  BY <1>1, <1>2

LEMMA NetcdfFilterIs ==
    ASSUME NEW ds, IsGrid(ds), NEW scope
    PROVE  \E boxed : GridCut(boxed, ds) /\ PartOf(NetcdfFilter(ds, scope), boxed)
<1>1. PICK lats, lons, times : /\ lats = LatAliases
                               /\ lons = <<"lon", "long", "longitude", "x">>
                               /\ times = <<"time", "date", "datetime">>
  OBVIOUS
<1>2. DOMAIN lats \subseteq Nat /\ DOMAIN lons \subseteq Nat
  BY <1>1 DEF LatAliases
<1>3. PICK dated : dated = SelDates(ds, FirstCoord(ds, times), scope)
  OBVIOUS
<1>4. GridCut(dated, ds)
  BY <1>3, SelDatesIs
<1>5. IsGrid(dated) /\ dated.coords = ds.coords
  BY <1>4 DEF GridCut
<1>6. PICK half : half = WhereAxis(dated, FirstCoord(ds, lats), scope.latMin, scope.latMax)
  OBVIOUS
<1>7. PICK boxed : boxed = IF ~HasBox(scope) THEN dated
                           ELSE WhereAxis(half, FirstCoord(ds, lons), scope.lonMin, scope.lonMax)
  OBVIOUS
<1>8. NetcdfFilter(ds, scope) = SelectVariables(boxed, scope)
  BY <1>1, <1>3, <1>6, <1>7 DEF NetcdfFilter, SelDates
<1>9. GridCut(boxed, ds)
  <2>1. CASE ~HasBox(scope)
    BY <1>4, <1>7, <2>1
  <2>2. CASE HasBox(scope)
    <3>1. FirstCoord(ds, lats) = FirstCoord(dated, lats)
      BY <1>5 DEF FirstCoord
    <3>2. GridCut(half, dated)
      BY <1>2, <1>5, <1>6, <3>1, AxisCuts
    <3>3. IsGrid(half) /\ half.coords = ds.coords
      BY <1>5, <3>2 DEF GridCut
    <3>4. FirstCoord(ds, lons) = FirstCoord(half, lons)
      BY <3>3 DEF FirstCoord
    <3>5. GridCut(boxed, half)
      BY <1>2, <1>7, <2>2, <3>3, <3>4, AxisCuts
    <3> QED
      BY <1>4, <3>2, <3>5, CutOfCut
  <2> QED
    BY <2>1, <2>2
<1>10. PartOf(NetcdfFilter(ds, scope), boxed)
  BY <1>8, <1>9, SelectionIsPart DEF GridCut
<1> QED
  BY <1>9, <1>10

LEMMA NetcdfWhole ==
    ASSUME NEW ds, IsGrid(ds)
    PROVE  Whole(NetcdfFilter(ds, NoFilter), ds)
<1>1. PICK times : times = <<"time", "date", "datetime">>
  OBVIOUS
<1>2. PICK dated : dated = SelDates(ds, FirstCoord(ds, times), NoFilter)
  OBVIOUS
<1>3. NetcdfFilter(ds, NoFilter) = SelectVariables(dated, NoFilter)
  BY <1>1, <1>2, NothingSet DEF NetcdfFilter, SelDates
<1> QED
  BY <1>2, <1>3, SelectNothing, SelDatesIs

\* The length of a dimension, as the count of a raw grid takes it.
Length(ds, d) == Max({Cardinality(ds.index[d]), 1})

LEMMA GreaterOf ==
    ASSUME NEW n \in Nat
    PROVE  Max({n, 1}) = IF n >= 1 THEN n ELSE 1
<1>1. PICK m : m = IF n >= 1 THEN n ELSE 1
  OBVIOUS
<1>2. m \in {n, 1} /\ \A y \in {n, 1} : m >= y
  BY <1>1
<1>3. \A x \in {n, 1} : (\A y \in {n, 1} : x >= y) => x = m
  BY <1>1
<1> QED
  BY <1>1, <1>2, <1>3 DEF Max

LEMMA LengthIs ==
    ASSUME NEW ds, IsGrid(ds), NEW d \in DOMAIN ds.index
    PROVE  /\ Cardinality(ds.index[d]) \in Nat
           /\ Length(ds, d) = IF Cardinality(ds.index[d]) >= 1 THEN Cardinality(ds.index[d]) ELSE 1
<1>1. Cardinality(ds.index[d]) \in Nat
  BY FS_CardinalityType DEF IsGrid
<1> QED
  BY <1>1, GreaterOf DEF Length

LEMMA RecordsAreProduct ==
    ASSUME NEW ds, NEW f, f = [d \in DOMAIN ds.index |-> Length(ds, d)]
    PROVE  NetcdfRecordCount(ds) = Product(f, DOMAIN ds.index)
BY DEF NetcdfRecordCount, Product, FoldFunction, Length

LEMMA NetcdfDelivers ==
    ASSUME NEW ds, IsGrid(ds), NEW scope
    PROVE  /\ NetcdfRecordCount(NetcdfFilter(ds, scope)) \in Nat
           /\ NetcdfRecordCount(NetcdfFilter(ds, NoFilter)) \in Nat
           /\ NetcdfRecordCount(NetcdfFilter(ds, scope)) <= NetcdfRecordCount(NetcdfFilter(ds, NoFilter))
<1>1. PICK s, g : s = NetcdfFilter(ds, scope) /\ g = NetcdfFilter(ds, NoFilter)
  OBVIOUS
<1>2. /\ IsGrid(s) /\ DOMAIN s.index \subseteq DOMAIN ds.index
      /\ \A d \in DOMAIN s.index : s.index[d] \subseteq ds.index[d]
  BY <1>1, NetcdfFilterIs DEF PartOf, GridCut
<1>3. /\ IsGrid(g) /\ DOMAIN g.index = DOMAIN ds.index
      /\ \A d \in DOMAIN ds.index : g.index[d] = ds.index[d]
  BY <1>1, NetcdfWhole DEF Whole, GridCut
<1>4. PICK S, T, p, q : /\ S = DOMAIN s.index /\ T = DOMAIN g.index
                        /\ p = [d \in S |-> Length(s, d)] /\ q = [d \in T |-> Length(g, d)]
  OBVIOUS
<1>5. NetcdfRecordCount(s) = Product(p, S) /\ NetcdfRecordCount(g) = Product(q, T)
  BY <1>4, RecordsAreProduct
<1>6. IsFiniteSet(T) /\ S \subseteq T
  BY <1>2, <1>3, <1>4 DEF IsGrid
<1>7. ASSUME NEW d \in T PROVE q[d] \in Nat \ {0}
  BY <1>3, <1>4, LengthIs
<1>8. ASSUME NEW d \in S PROVE p[d] \in Nat \ {0} /\ p[d] <= q[d]
  <2>1. s.index[d] \subseteq g.index[d] /\ IsFiniteSet(g.index[d])
    BY <1>2, <1>3, <1>4 DEF IsGrid
  <2>2. Cardinality(s.index[d]) <= Cardinality(g.index[d])
    BY <2>1, FS_Subset
  <2>3. /\ Cardinality(s.index[d]) \in Nat
        /\ p[d] = IF Cardinality(s.index[d]) >= 1 THEN Cardinality(s.index[d]) ELSE 1
    BY <1>2, <1>4, LengthIs
  <2>4. /\ Cardinality(g.index[d]) \in Nat
        /\ q[d] = IF Cardinality(g.index[d]) >= 1 THEN Cardinality(g.index[d]) ELSE 1
    BY <1>3, <1>4, <1>6, LengthIs
  <2> QED
    BY <2>2, <2>3, <2>4
<1>9. Product(p, S) \in Nat \ {0} /\ Product(q, T) \in Nat \ {0} /\ Product(p, S) <= Product(q, T)
  BY <1>6, <1>7, <1>8, ProductMonotone
<1> QED
  BY <1>1, <1>5, <1>9

LEMMA MatDelivers ==
    ASSUME NEW arrays, IsArrays(arrays), NEW scope
    PROVE  /\ MatExtract(arrays, scope).count \in Nat
           /\ MatExtract(arrays, NoFilter).count \in Nat
           /\ MatExtract(arrays, scope).count <= MatExtract(arrays, NoFilter).count
<1>1. PICK lengths, n : lengths = {Len(arrays[v]) : v \in DOMAIN arrays} /\ n = Max(lengths)
  OBVIOUS
<1>2. n \in Nat
  <2>1. lengths # {} /\ lengths \subseteq Nat /\ lengths \subseteq Int
    BY <1>1 DEF IsArrays
  <2>2. IsFiniteSet(lengths)
    <3>1. PICK len : len = [v \in DOMAIN arrays |-> Len(arrays[v])]
      OBVIOUS
    <3>2. len \in Surjection(DOMAIN arrays, lengths)
      BY <1>1, <3>1 DEF Surjection
    <3>3. IsFiniteSet(DOMAIN arrays)
      BY DEF IsArrays
    <3> QED
      BY <3>2, <3>3, FS_Surjection
  <2>3. HasGreatest(lengths)
    BY <2>1, <2>2, GreatestOf
  <2>4. PICK k \in lengths : \A j \in lengths : j <= k
    BY <2>3 DEF HasGreatest
  <2>5. \A j \in lengths : k >= j
    BY <2>1, <2>4
  <2>6. n \in lengths
    BY <1>1, <2>5 DEF Max
  <2> QED
    BY <2>1, <2>6
<1>3. IsFiniteSet(1..n) /\ Cardinality(1..n) = n
  BY <1>2, FS_Interval
<1>4. PICK part \in SUBSET (1..n) : MatExtract(arrays, scope).count = Cardinality(part)
  BY <1>1 DEF MatExtract
<1>5. PICK whole : /\ MatExtract(arrays, NoFilter).count = Cardinality(whole)
                   /\ \A i : i \in whole <=> i \in 1..n
  BY <1>1, NothingSet DEF MatExtract, InDates
<1>6. MatExtract(arrays, NoFilter).count = n
  <2>1. whole = 1..n
    BY <1>5
  <2> QED
    BY <1>3, <1>5, <2>1
<1>7. IsFiniteSet(part) /\ Cardinality(part) <= n
  BY <1>3, <1>4, FS_Subset
<1>8. Cardinality(part) \in Nat
  BY <1>7, FS_CardinalityType
<1> QED
  BY <1>2, <1>4, <1>6, <1>7, <1>8

-----------------------------------------------------------------------------
(* How much a filter finds                                                 *)

\* The coordinates of a box vary along no dimension that the array v lacks.
AlongBox(ds, v) ==
    HasPlace(ds) =>
        Dims(ds.coords[LatName(ds)]) \cup Dims(ds.coords[LonName(ds)]) \subseteq Dims(ds.vars[v])

\* The filter leaves such an array its dimensions.
LEMMA FilteredDims ==
    ASSUME NEW ds, IsGrid(ds), NEW f, NEW v \in DOMAIN ds.vars, AlongBox(ds, v),
           NEW g, g = Filtered(ds, f)
    PROVE  Dims(g.vars[v]) = Dims(ds.vars[v])
<1>1. PICK b : b = ApplyBbox(ds, f)
  OBVIOUS
<1>2. g.vars = b.vars
  <2>1. CASE HasTime(b)
    <3>1. PICK K : g = [b EXCEPT !.index["time"] = K]
      BY <1>1, <2>1 DEF Filtered, ApplyDateRange
    <3>2. DOMAIN b = {"index", "coords", "vars"}
      BY <1>1, BboxCuts DEF GridCut, IsGrid
    <3> QED
      BY <3>1, <3>2
  <2>2. CASE ~HasTime(b)
    BY <1>1, <2>2 DEF Filtered, ApplyDateRange
  <2> QED
    BY <2>1, <2>2
<1>3. CASE HasBox(f) /\ HasPlace(ds)
  <2>1. PICK lat, lon, masked :
          /\ lat = ds.coords[LatName(ds)] /\ lon = ds.coords[LonName(ds)]
          /\ masked \in Seq(DOMAIN ds.index)
          /\ ToSet(masked) = Dims(lat) \cup Dims(lon)
          /\ b = Where(ds, masked, InsideBox(ds, f, lat, lon, masked))
    BY <1>1, <1>3, BboxIs
  <2>2. PICK inside : inside = InsideBox(ds, f, lat, lon, masked)
    OBVIOUS
  <2>3. Dims(b.vars[v]) = Dims(ds.vars[v]) \cup ToSet(masked)
    <3>1. inside \subseteq Positions(ds, ToSet(masked)) /\ b = Where(ds, masked, inside)
      BY <2>1, <2>2 DEF InsideBox
    <3>2. FilledInside(ds, b, v, masked, inside)
      BY <2>1, <3>1, WhereFills
    <3> QED
      BY <3>2 DEF FilledInside
  <2>4. ToSet(masked) \subseteq Dims(ds.vars[v])
    BY <1>3, <2>1 DEF AlongBox
  <2> QED
    BY <1>2, <2>3, <2>4
<1>4. CASE ~(HasBox(f) /\ HasPlace(ds))
  BY <1>1, <1>2, <1>4 DEF ApplyBbox
<1> QED
  BY <1>3, <1>4

\* No filter finds more in a grid than there is, if no array is repeated.
LEMMA GridBounded ==
    ASSUME NEW ds, IsGrid(ds), NEW variables, NEW f, \A v \in DOMAIN ds.vars : AlongBox(ds, v)
    PROVE  GridMatching(ds, variables, f) <= GridTotal(ds, variables)
<1>1. PICK g, S, T, s, t : /\ g = Filtered(ds, f)
                           /\ T = ToSet(variables) \cap DOMAIN ds.vars
                           /\ S = {v \in T : Selects(f, v)}
                           /\ s = [v \in S |-> Cardinality(Cells(g, g.vars[v]))]
                           /\ t = [v \in T |-> Cardinality(Positions(ds, Dims(ds.vars[v])))]
  OBVIOUS
<1>2. IsFiniteSet(T) /\ S \subseteq T
  BY <1>1, FS_Subset DEF IsGrid
<1>3. ASSUME NEW v \in T
      PROVE  /\ Cardinality(Cells(g, g.vars[v])) \in Nat
             /\ Cardinality(Positions(ds, Dims(ds.vars[v]))) \in Nat
             /\ Cardinality(Cells(g, g.vars[v])) <= Cardinality(Positions(ds, Dims(ds.vars[v])))
  <2>1. PICK D, P, C : D = Dims(ds.vars[v]) /\ P = Positions(ds, D) /\ C = Cells(g, g.vars[v])
    OBVIOUS
  <2>2. D \subseteq DOMAIN ds.index
    <3>1. ds.vars[v].dims \in Seq(DOMAIN ds.index)
      BY <1>1 DEF IsGrid
    <3> QED
      BY <2>1, <3>1, InNames DEF Dims
  <2>3. IsFiniteSet(P) /\ Cardinality(P) \in Nat
    BY <2>1, <2>2, PositionsFinite
  <2>4. C \subseteq Positions(g, D)
    <3>1. Dims(g.vars[v]) = D
      BY <1>1, <2>1, FilteredDims
    <3> QED
      BY <2>1, <3>1 DEF Cells
  <2>5. \A d \in D : g.index[d] \subseteq ds.index[d]
    BY <1>1, <2>2, FilteredCuts DEF GridCut
  <2>6. ASSUME NEW p \in Positions(g, D) PROVE p \in P
    BY <2>1, <2>5, PositionIs
  <2>7. C \in SUBSET P
    BY <2>4, <2>6
  <2> QED
    BY <2>1, <2>3, <2>7, FS_Subset, FS_CardinalityType
<1>4. SumFunctionOnSet(s, S) <= SumFunctionOnSet(t, T)
  <2>1. \A v \in S : s[v] \in Nat /\ s[v] <= t[v]
    BY <1>1, <1>2, <1>3
  <2>2. \A v \in T : t[v] \in Nat
    BY <1>1, <1>3
  <2> QED
    BY <1>2, <2>1, <2>2, SumWithin
<1>5. GridMatching(ds, variables, f) = SumFunctionOnSet(s, S)
  BY <1>1 DEF GridMatching, SumFunction
<1>6. GridTotal(ds, variables) = SumFunctionOnSet(t, T)
  BY <1>1 DEF GridTotal, SumFunction
<1> QED
  BY <1>4, <1>5, <1>6

LEMMA TableBounded ==
    ASSUME NEW t, IsTable(t), NEW f
    PROVE  TableMatching(t, f) <= TableTotal(t)
<1>1. IsFiniteSet(BaseMelted(t)) /\ Matching(t, f) \in SUBSET BaseMelted(t)
  BY BaseMeltedFinite DEF Matching
<1> QED
  BY <1>1, FS_Subset DEF TableTotal, TableMatching

-----------------------------------------------------------------------------
(* Images and least elements                                               *)

LEMMA ImageFinite ==
    ASSUME NEW S, IsFiniteSet(S), NEW g
    PROVE  IsFiniteSet({g[x] : x \in S})
<1>1. PICK T, h : T = {g[x] : x \in S} /\ h = [x \in S |-> g[x]]
  OBVIOUS
<1>2. h \in Surjection(S, T)
  <2>1. h \in [S -> T] /\ \A y \in T : \E x \in S : h[x] = y
    BY <1>1
  <2> QED
    BY <2>1 DEF Surjection
<1> QED
  BY <1>1, <1>2, FS_Surjection

LEMMA LeastIn ==
    ASSUME NEW S, IsFiniteSet(S), S \subseteq Int, S # {}
    PROVE  Min(S) \in S /\ \A j \in S : Min(S) <= j
<1>1. PICK N, g : N = {g[x] : x \in S} /\ g = [x \in S |-> 0 - x]
  OBVIOUS
<1>2. IsFiniteSet(N)
  <2>1. IsFiniteSet({g[x] : x \in S})
    BY ImageFinite
  <2> QED
    BY <1>1, <2>1
<1>3. N # {} /\ N \subseteq Int
  <2>1. \A x \in S : g[x] \in N /\ g[x] \in Int
    BY <1>1
  <2> QED
    BY <1>1, <2>1
<1>4. PICK k \in N : \A j \in N : j <= k
  BY <1>2, <1>3, GreatestOf DEF HasGreatest
<1>5. PICK x \in S : k = 0 - x
  BY <1>1, <1>4
<1>6. \A j \in S : x <= j
  <2>1. ASSUME NEW j \in S PROVE x <= j
    <3>1. 0 - j \in N /\ j \in Int /\ x \in Int
      BY <1>1
    <3>2. 0 - j <= 0 - x
      BY <1>4, <1>5, <3>1
    <3> QED
      BY <3>1, <3>2
  <2> QED
    BY <2>1
<1> QED
  BY <1>5, <1>6 DEF Min

-----------------------------------------------------------------------------
(* A map, and the job that draws a large one                               *)

\* What a job keeps of its filter.
Kept(f) == [NoFilter EXCEPT !.label["station"] = f.label["station"], !.from = f.from, !.to = f.to]

\* By station and dates the job selects the records that the request does.
LEMMA JobRecords ==
    ASSUME NEW records_, NEW p, NEW f \in Filter, FilterColumns(f) \subseteq {"station", "time"}
    PROVE  ApplyVizFilters(records_, p, f) = ApplyVizFilters(records_, p, Kept(f))
<1>k. PICK kept : kept = Kept(f)
  OBVIOUS
<1>1. PICK v, w : v = VizFilterToRecordsFilter(f) /\ w = VizFilterToRecordsFilter(kept)
  OBVIOUS
<1>2. /\ f.depthMin = None /\ f.depthMax = None /\ ~HasBox(f)
  BY DEF FilterColumns
<1>3. /\ kept.label = [NoFilter.label EXCEPT !["station"] = f.label["station"]]
      /\ kept.from = f.from /\ kept.to = f.to /\ kept.parameters = {}
      /\ kept.depthMin = None /\ kept.depthMax = None /\ kept.latMin = None
  BY <1>k DEF NoFilter, Kept
<1>4. /\ v.parameters = {} /\ v.from = f.from /\ v.to = f.to
      /\ v.depthMin = f.depthMin /\ v.depthMax = f.depthMax
      /\ v.latMin = f.latMin /\ v.latMax = f.latMax /\ v.lonMin = f.lonMin /\ v.lonMax = f.lonMax
      /\ v.label = [c \in Labels |-> IF c = "station" THEN f.label[c] ELSE None]
  BY <1>1 DEF VizFilterToRecordsFilter, Filter
<1>5. /\ w.parameters = {} /\ w.from = f.from /\ w.to = f.to
      /\ w.depthMin = None /\ w.depthMax = None /\ w.latMin = None
      /\ w.label = [c \in Labels |-> IF c = "station" THEN kept.label[c] ELSE None]
  BY <1>1, <1>3 DEF VizFilterToRecordsFilter, NoFilter
<1>6. ~HasBox(v) /\ ~HasBox(w)
  BY <1>2, <1>4, <1>5 DEF HasBox
<1>7. kept.label["station"] = f.label["station"]
  BY <1>3 DEF NoFilter, Labels
<1>8. v.label = w.label
  BY <1>4, <1>5, <1>7
<1>9. ASSUME NEW r PROVE RecordMatches(r, v) <=> RecordMatches(r, w)
  BY <1>2, <1>4, <1>5, <1>6, <1>8 DEF RecordMatches, Selects
<1> QED
  BY <1>k, <1>1, <1>9 DEF ApplyVizFilters, RecordsMatching

-----------------------------------------------------------------------------
(* Pairs                                                                   *)

\* An observation is that of its row and parameter.
LEMMA MeltedOnce ==
    ASSUME NEW t, NEW m \in BaseMelted(t), NEW n \in BaseMelted(t),
           m.row = n.row, m.parameter = n.parameter
    PROVE  m = n
<1>1. PICK i \in DOMAIN t.rows, v \in VariableColumns(t) : m = MeltedAs(t, i, v)
  BY MeltedIs
<1>2. PICK j \in DOMAIN t.rows, w \in VariableColumns(t) : n = MeltedAs(t, j, w)
  BY MeltedIs
<1>3. m.row = i /\ m.parameter = v /\ n.row = j /\ n.parameter = w
  BY <1>1, <1>2 DEF MeltedAs
<1> QED
  BY <1>1, <1>2, <1>3

PairOf(t, a, b) ==
    [rows |-> <<a.row, b.row>>, depth_m |-> Coord(t, a, "depth_m"), time |-> Date(t, a),
     temperature |-> a.value, salinity |-> b.value]

\* A pair joins a temperature and a salinity of one key.
LEMMA PairIs ==
    ASSUME NEW t, NEW u, NEW s, NEW f, NEW x \in TableTsPairs(t, u, s, f)
    PROVE  \E a \in Of(t, u, f), b \in Of(t, s, f) :
             PairKey(t, a) = PairKey(t, b) /\ x = PairOf(t, a, b)
BY DEF TableTsPairs, PairOf

SlotColumns(t) == (CoordColumns(t) \cap {"time"}) \cup ({"station"} \cap t.columns)

SameSlot(t, a, b) == \A c \in SlotColumns(t) : a.cell[c] = b.cell[c]

\* Observations that join with a dated one have its time and its station.
LEMMA JoinedAlike ==
    ASSUME NEW t, "time" \in CoordColumns(t), NEW a, NEW b, PairKey(t, a) = PairKey(t, b)
    PROVE  SameSlot(t, a, b)
<1>0. PICK by : by = SlotColumns(t)
  OBVIOUS
<1>1. PICK having : having = (CoordColumns(t) \cap {"time", "depth_m"}) \cup ({"station"} \cap t.columns)
  OBVIOUS
<1>2. by \subseteq having /\ having # {}
  BY <1>0, <1>1 DEF SlotColumns
<1>3. [c \in having |-> a.cell[c]] = [c \in having |-> b.cell[c]]
  BY <1>1, <1>2 DEF PairKey
<1> SUFFICES ASSUME NEW c \in by PROVE a.cell[c] = b.cell[c]
  BY <1>0 DEF SameSlot
<1>4. c \in having
  BY <1>2
<1>5. [x \in having |-> a.cell[x]][c] = a.cell[c] /\ [x \in having |-> b.cell[x]][c] = b.cell[c]
  BY <1>4
<1> QED
  BY <1>3, <1>5

\* Without duplicates a dated temperature has one salinity.
LEMMA PairsOfTable ==
    ASSUME NEW t, ~TableHasDuplicates(t), NEW u, NEW s, NEW f,
           NEW x \in TableTsPairs(t, u, s, f), NEW y \in TableTsPairs(t, u, s, f),
           x.rows[1] = y.rows[1], x.time # None
    PROVE  x = y
<1>1. PICK a \in Of(t, u, f), b \in Of(t, s, f) : PairKey(t, a) = PairKey(t, b) /\ x = PairOf(t, a, b)
  BY PairIs
<1>2. PICK e \in Of(t, u, f), g \in Of(t, s, f) : PairKey(t, e) = PairKey(t, g) /\ y = PairOf(t, e, g)
  BY PairIs
<1>3. /\ a \in BaseMelted(t) /\ b \in BaseMelted(t) /\ e \in BaseMelted(t) /\ g \in BaseMelted(t)
      /\ a.parameter = u /\ e.parameter = u /\ b.parameter = s /\ g.parameter = s
  BY DEF Of, Matching
<1>4. a = e
  <2>1. a.row = e.row
    BY <1>1, <1>2 DEF PairOf
  <2> QED
    BY <1>3, <2>1, MeltedOnce
<1>5. "time" \in CoordColumns(t) /\ a.cell["time"] # None
  <2>1. Date(t, a) # None
    BY <1>1 DEF PairOf
  <2> QED
    BY <2>1 DEF Date, Day, Coord
<1>6. PICK by : by = SlotColumns(t)
  OBVIOUS
<1>7. (\A c \in by : a.cell[c] = b.cell[c]) /\ (\A c \in by : a.cell[c] = g.cell[c])
  <2>1. PairKey(t, a) = PairKey(t, b) /\ PairKey(t, a) = PairKey(t, g)
    BY <1>1, <1>2, <1>4
  <2>2. SameSlot(t, a, b) /\ SameSlot(t, a, g)
    BY <1>5, <2>1, JoinedAlike
  <2> QED
    BY <1>6, <2>2 DEF SameSlot
<1>8. b.row = g.row
  <2>1. SUFFICES ASSUME b.row # g.row PROVE TableHasDuplicates(t)
    OBVIOUS
  <2>2. by = (CoordColumns(t) \cap {"time"}) \cup ({"station"} \cap t.columns)
    BY <1>6 DEF SlotColumns
  <2>3. [c \in by |-> b.cell[c]] = [c \in by |-> g.cell[c]]
    BY <1>7
  <2>4. "time" \in by /\ b.cell["time"] # None
    BY <1>5, <1>7, <2>2
  <2> QED
    BY <1>3, <2>1, <2>2, <2>3, <2>4 DEF TableHasDuplicates
<1> QED
  BY <1>1, <1>2, <1>3, <1>4, <1>8, MeltedOnce

-----------------------------------------------------------------------------
(* Times of a table                                                        *)

\* The chosen names of a chart's filter.
LEMMA VizIs ==
    ASSUME NEW f \in Filter, NEW v, v = VizFilterToRecordsFilter(f)
    PROVE  /\ v \in Filter
           /\ v.parameters = {} /\ v.from = f.from /\ v.to = f.to
           /\ v.depthMin = f.depthMin /\ v.depthMax = f.depthMax
           /\ v.latMin = f.latMin /\ v.latMax = f.latMax /\ v.lonMin = f.lonMin /\ v.lonMax = f.lonMax
           /\ HasBox(v) <=> HasBox(f)
<1>1. /\ v.parameters = {} /\ v.from = f.from /\ v.to = f.to
      /\ v.depthMin = f.depthMin /\ v.depthMax = f.depthMax
      /\ v.latMin = f.latMin /\ v.latMax = f.latMax /\ v.lonMin = f.lonMin /\ v.lonMax = f.lonMax
  BY DEF VizFilterToRecordsFilter, Filter
<1>2. v \in Filter
  <2>1. f.label \in [Labels -> OrNone(STRING)]
    BY DEF Filter
  <2>2. [c \in Labels |-> IF c = "station" THEN f.label[c] ELSE None] \in [Labels -> OrNone(STRING)]
    BY <2>1 DEF OrNone
  <2> QED
    BY <2>2 DEF VizFilterToRecordsFilter, Filter
<1> QED
  BY <1>1, <1>2 DEF HasBox

\* The time of an observation is a number.
LEMMA TimeOfObservation ==
    ASSUME NEW t, IsTable(t), Binds(t, CoordColumns(t)), "time" \in CoordColumns(t), NEW m \in BaseMelted(t)
    PROVE  /\ m.cell["time"] \in OrNone(Int)
           /\ m.cell["time"] # None => Date(t, m) \in Int /\ Date(t, m) # None
<1>1. PICK i \in DOMAIN t.rows, v \in VariableColumns(t) : m = MeltedAs(t, i, v)
  BY MeltedIs
<1>2. "time" \in ViewColumns(t)
  BY DEF Binds
<1>3. PICK c : c = ResolveCoordCol(t, "time") /\ c # None
  BY DEF CoordColumns
<1>4. t.rows[i][c] \in OrNone(Int)
  BY <1>3 DEF IsTable
<1>5. m.cell["time"] = CoordinateAlias(t, t.rows[i], "time")
  BY <1>1, <1>2 DEF MeltedAs
<1>6. TicksPerDay \in Int /\ EpochDatenum \in Int
  BY ObservationsAssumption, TablesAssumption
<1>7. m.cell["time"] \in OrNone(Int)
  BY <1>3, <1>4, <1>5, <1>6 DEF CoordinateAlias, OrNone
<1>8. m.cell["time"] # None => Date(t, m) \in Int /\ Date(t, m) # None
  <2>1. SUFFICES ASSUME m.cell["time"] # None PROVE Date(t, m) \in Int /\ Date(t, m) # None
    OBVIOUS
  <2>2. Date(t, m) = m.cell["time"] \div TicksPerDay
    BY <2>1 DEF Date, Day, Coord
  <2>3. m.cell["time"] \in Int
    BY <1>7, <2>1 DEF OrNone
  <2>4. Date(t, m) \in Int
    BY <2>2, <2>3, DayBounds, ObservationsAssumption
  <2> QED
    BY <2>4, ObservationsAssumption
<1> QED
  BY <1>7, <1>8

\* What a query of dates selects is of those dates.
LEMMA DatesOfTable ==
    ASSUME NEW t, IsTable(t), Binds(t, CoordColumns(t)), "time" \in CoordColumns(t),
           NEW v \in Filter, NEW m \in Matching(t, v)
    PROVE  Within(Date(t, m), v.from, v.to)
<1>1. m \in BaseMelted(t) /\ BuildWhere(t, m, v)
  BY DEF Matching
<1>2. PICK x : x = m.cell["time"]
  OBVIOUS
<1>3. /\ x \in OrNone(Int)
      /\ x # None => Date(t, m) \in Int /\ Date(t, m) # None
  BY <1>1, <1>2, TimeOfObservation
<1>4. "time" \in MeltedColumns(t)
  BY DEF MeltedColumns
<1>5. /\ v.from # None => x # None /\ x >= v.from * TicksPerDay
      /\ v.to # None => x # None /\ x < (v.to + 1) * TicksPerDay
  BY <1>1, <1>2, <1>4 DEF BuildWhere
<1>6. x # None => Date(t, m) = x \div TicksPerDay
  BY <1>2 DEF Date, Day, Coord
<1>7. v.from \in OrNone(Int) /\ v.to \in OrNone(Int)
  BY DEF Filter
<1>8. v.from # None => Date(t, m) # None /\ Date(t, m) >= v.from
  BY <1>3, <1>5, <1>6, <1>7, DayBounds DEF OrNone
<1>9. v.to # None => Date(t, m) # None /\ Date(t, m) <= v.to
  BY <1>3, <1>5, <1>6, <1>7, DayBounds DEF OrNone
<1> QED
  BY <1>8, <1>9 DEF Within, AtLeast, AtMost

-----------------------------------------------------------------------------
(* Profiles                                                                *)

Deep(t, p, v) == {m \in Of(t, p, v) : m.cell["depth_m"] # None}

\* The day and the depths of a profile are those of observations.
LEMMA ProfileIs ==
    ASSUME NEW t, NEW p, NEW v, NEW profile \in TableProfiles(t, p, v)
    PROVE  /\ "depth_m" \in CoordColumns(t)
           /\ \E m \in Deep(t, p, v) : profile.key = ProfileKey(t, m)
           /\ \A depth \in DOMAIN profile.points : \E m \in Deep(t, p, v) : depth = m.cell["depth_m"]
<1>1. "depth_m" \in CoordColumns(t)
  BY DEF TableProfiles
<1>2. PICK deep : deep = Deep(t, p, v)
  OBVIOUS
<1>3. PICK n \in deep : \E S :
        /\ S = {m \in deep : ProfileKey(t, m) = ProfileKey(t, n)}
        /\ profile.key = ProfileKey(t, CHOOSE m \in S : TRUE)
        /\ DOMAIN profile.points = {m.cell["depth_m"] : m \in S}
  <2>1. PICK n \in deep : profile = Profile(t, {m \in deep : ProfileKey(t, m) = ProfileKey(t, n)})
    BY <1>1, <1>2 DEF TableProfiles, Deep
  <2>2. PICK S : S = {m \in deep : ProfileKey(t, m) = ProfileKey(t, n)}
    OBVIOUS
  <2>3. /\ profile.key = ProfileKey(t, CHOOSE m \in S : TRUE)
        /\ DOMAIN profile.points = {m.cell["depth_m"] : m \in S}
    BY <2>1, <2>2 DEF Profile
  <2> QED
    BY <2>2, <2>3
<1>4. PICK S :
        /\ S = {m \in deep : ProfileKey(t, m) = ProfileKey(t, n)}
        /\ profile.key = ProfileKey(t, CHOOSE m \in S : TRUE)
        /\ DOMAIN profile.points = {m.cell["depth_m"] : m \in S}
  BY <1>3
<1>5. n \in S /\ S \subseteq deep
  BY <1>4
<1>6. PICK m : m = CHOOSE x \in S : TRUE
  OBVIOUS
<1>7. m \in S /\ profile.key = ProfileKey(t, m)
  BY <1>4, <1>5, <1>6
<1>8. \E x \in Deep(t, p, v) : profile.key = ProfileKey(t, x)
  BY <1>2, <1>5, <1>7
<1>9. \A depth \in DOMAIN profile.points : \E x \in Deep(t, p, v) : depth = x.cell["depth_m"]
  BY <1>2, <1>4, <1>5
<1> QED
  BY <1>1, <1>8, <1>9

\* DuckDB's filter applies to every observation of a profile.
LEMMA ProfileWithin ==
    ASSUME NEW t, IsTable(t), Binds(t, CoordColumns(t)), "time" \in CoordColumns(t), NEW p,
           NEW v \in Filter, NEW profile \in TableProfiles(t, p, v), NEW depth \in DOMAIN profile.points
    PROVE  /\ Within(profile.key[2], v.from, v.to)
           /\ Within(depth, v.depthMin, v.depthMax)
<1>1. /\ "depth_m" \in CoordColumns(t)
      /\ \E m \in Deep(t, p, v) : profile.key = ProfileKey(t, m)
      /\ \E m \in Deep(t, p, v) : depth = m.cell["depth_m"]
  BY ProfileIs
<1>2. PICK m \in Matching(t, v) : profile.key = ProfileKey(t, m)
  BY <1>1 DEF Deep, Of
<1>3. profile.key[2] = Date(t, m)
  BY <1>2 DEF ProfileKey
<1>4. Within(profile.key[2], v.from, v.to)
  BY <1>2, <1>3, DatesOfTable
<1>5. PICK n \in Matching(t, v) : depth = n.cell["depth_m"]
  BY <1>1 DEF Deep, Of
<1>6. "depth_m" \in MeltedColumns(t)
  BY <1>1 DEF MeltedColumns
<1>7. BuildWhere(t, n, v)
  BY DEF Matching
<1>8. Within(depth, v.depthMin, v.depthMax)
  BY <1>5, <1>6, <1>7 DEF BuildWhere
<1> QED
  BY <1>4, <1>8

ProfilePoint(i, p, depth) == [key |-> p.key, depth_m |-> depth, from |-> <<"table", i, p.points[depth]>>]

\* A profile is drawn of the rows, or is that of a table.
LEMMA ProfilesAre ==
    ASSUME NEW d, NEW p, NEW f, NEW profiles, profiles = Profiles(d, p, f), profiles # None,
           NEW key \in DOMAIN profiles, NEW e \in profiles[key]
    PROVE  /\ e.key = key
           /\ \/ \E r \in RecordsMatching(d.records, VizFilterToRecordsFilter(f)) :
                   e.key = <<r.label["station"], r.time>> /\ e.depth_m = r.depth_m
              \/ \E i \in DOMAIN d.tables :
                   \E profile \in TableProfiles(d.tables[i], p, VizFilterToRecordsFilter(f)) :
                     \E depth \in DOMAIN profile.points : e.key = profile.key /\ e.depth_m = depth
<1>1. PICK viz, rows : viz = VizFilterToRecordsFilter(f) /\ rows = RecordProfileRows(d.records, p, viz)
  OBVIOUS
<1>2. PICK records_, tables :
        /\ records_ = {[key |-> <<r.label["station"], r.time>>, depth_m |-> r.depth_m,
                        from |-> <<"record", r>>] : r \in rows}
        /\ tables = UNION {UNION {{ProfilePoint(i, q, depth) : depth \in DOMAIN q.points} :
                                     q \in TableProfiles(d.tables[i], p, viz)} : i \in DOMAIN d.tables}
  OBVIOUS
<1>3. profiles = IF rows = None THEN None ELSE ByKey(records_ \cup tables)
  BY <1>1, <1>2 DEF Profiles, ProfilePoint
<1>4. e \in records_ \cup tables /\ e.key = key
  BY <1>3 DEF ByKey
<1>5. rows \subseteq RecordsMatching(d.records, viz)
  BY <1>1, <1>3 DEF RecordProfileRows
<1>6. CASE e \in records_
  BY <1>1, <1>2, <1>4, <1>5, <1>6
<1>7. CASE e \in tables
  <2>0. PICK i \in DOMAIN d.tables : \E q \in TableProfiles(d.tables[i], p, viz) :
          \E depth \in DOMAIN q.points : e = ProfilePoint(i, q, depth)
    BY <1>2, <1>7
  <2>1. PICK q \in TableProfiles(d.tables[i], p, viz) : \E depth \in DOMAIN q.points : e = ProfilePoint(i, q, depth)
    BY <2>0
  <2>d. PICK depth \in DOMAIN q.points : e = ProfilePoint(i, q, depth)
    BY <2>1
  <2>2. e.key = q.key /\ e.depth_m = depth
    BY <2>d DEF ProfilePoint
  <2> QED
    BY <1>1, <1>4, <2>2
<1> QED
  BY <1>4, <1>6, <1>7

-----------------------------------------------------------------------------
(* Boxes                                                                   *)

SizesOf(boxes) == MapThenSumSet(LAMBDA name : Cardinality(boxes[name]), DOMAIN boxes)

SumsSizes(g, boxes, S) ==
    g = [s \in SUBSET S |-> IF s = {} THEN 0 ELSE Cardinality(boxes[First(s)]) + g[s \ {First(s)}]]

LEMMA SizesAre ==
    ASSUME NEW boxes, IsFiniteSet(DOMAIN boxes), NEW f, f = [name \in DOMAIN boxes |-> Cardinality(boxes[name])]
    PROVE  SizesOf(boxes) = SumFunctionOnSet(f, DOMAIN boxes)
<1>1. PICK S : S = DOMAIN boxes
  OBVIOUS
<1>2. ASSUME NEW g PROVE SumsSizes(g, boxes, S) <=> Adds(g, f, S)
  <2>1. ASSUME NEW s \in SUBSET S, s # {} PROVE f[First(s)] = Cardinality(boxes[First(s)])
    BY <1>1, <2>1, FirstIn
  <2>2. [s \in SUBSET S |-> IF s = {} THEN 0 ELSE Cardinality(boxes[First(s)]) + g[s \ {First(s)}]]
          = [s \in SUBSET S |-> IF s = {} THEN 0 ELSE f[First(s)] + g[s \ {First(s)}]]
    BY <2>1
  <2> QED
    BY <2>2 DEF SumsSizes, Adds
<1> DEFINE G == CHOOSE g : SumsSizes(g, boxes, S)
<1>3. SumsSizes(G, boxes, S)
  <2>1. \E g : Adds(g, f, S)
    BY <1>1, AddsExists
  <2> QED
    BY <1>2, <2>1
<1>4. SizesOf(boxes) = G[S]
  BY <1>1 DEF SizesOf, MapThenSumSet, MapThenFoldSet, SumsSizes, First
<1> HIDE DEF G
<1>5. Adds(G, f, S)
  BY <1>2, <1>3
<1>6. SumFunctionOnSet(f, S) = G[S]
  BY <1>1, <1>5, SumOfAdds
<1> QED
  BY <1>1, <1>4, <1>6

SizesBy(f, U, key, N) == f = [n \in N |-> Cardinality({u \in U : key[u] = n})]

\* What is sorted into boxes is counted once.
LEMMA BoxesCount ==
    ASSUME NEW U, IsFiniteSet(U), NEW key, NEW N, IsFiniteSet(N), \A u \in U : key[u] \in N,
           NEW f, SizesBy(f, U, key, N)
    PROVE  SumFunctionOnSet(f, N) = Cardinality(U)
<1> DEFINE In(T) == {u \in U : key[u] \in T}
           Counted(T) == SumFunctionOnSet(f, T) = Cardinality(In(T))
<1>0. PICK B : B = {T \in SUBSET N : ~Counted(T)}
  OBVIOUS
<1> SUFFICES ASSUME B # {} PROVE FALSE
  <2>1. In(N) = U
    OBVIOUS
  <2>2. B = {} => Counted(N)
    BY <1>0
  <2> QED
    BY <2>1, <2>2
<1>1. PICK T \in B : \A V \in B : ~(V \subseteq T /\ V # T)
  <2>1. B \subseteq SUBSET N
    BY <1>0
  <2> QED
    BY <2>1, MinimalSubset
<1>2. T \in SUBSET N /\ IsFiniteSet(T) /\ ~Counted(T)
  BY <1>0, <1>1, FS_Subset
<1>3. \A n \in N : f[n] \in Int
  <2>1. ASSUME NEW n \in N PROVE f[n] \in Int
    <3>1. IsFiniteSet({u \in U : key[u] = n})
      BY FS_Subset
    <3> QED
      BY <3>1, FS_CardinalityType DEF SizesBy
  <2> QED
    BY <2>1
<1>4. T # {}
  <2>1. In({}) = {}
    OBVIOUS
  <2>2. Counted({})
    BY <2>1, SumEmpty, FS_EmptySet
  <2> QED
    BY <1>2, <2>2
<1>5. PICK n, V : n \in T /\ V = T \ {n}
  BY <1>4
<1>6. Counted(V)
  BY <1>0, <1>1, <1>2, <1>5
<1>7. SumFunctionOnSet(f, T) = f[n] + SumFunctionOnSet(f, V)
  <2>1. \A x \in T : f[x] \in Int
    BY <1>2, <1>3
  <2> QED
    BY <1>2, <1>5, <2>1, SumRemove
<1>8. PICK X, Y, Z : X = In(T) /\ Y = In(V) /\ Z = {u \in U : key[u] = n}
  OBVIOUS
<1>9. X = Y \cup Z /\ Y \cap Z = {} /\ IsFiniteSet(Y) /\ IsFiniteSet(Z)
  <2>1. X = Y \cup Z /\ Y \cap Z = {}
    BY <1>5, <1>8
  <2> QED
    BY <1>8, <2>1, FS_Subset
<1>10. Cardinality(X) = Cardinality(Y) + Cardinality(Z)
  <2>1. Cardinality(Y \cup Z) = Cardinality(Y) + Cardinality(Z) - Cardinality(Y \cap Z)
    BY <1>9, FS_Union
  <2>2. Cardinality(Y \cap Z) = 0
    BY <1>9, FS_EmptySet
  <2>3. Cardinality(Y) \in Nat /\ Cardinality(Z) \in Nat
    BY <1>9, FS_CardinalityType
  <2> QED
    BY <1>9, <2>1, <2>2, <2>3
<1>11. f[n] = Cardinality(Z)
  BY <1>2, <1>5, <1>8 DEF SizesBy
<1>12. Cardinality(Y) \in Nat /\ Cardinality(Z) \in Nat
  BY <1>9, FS_CardinalityType
<1>13. SumFunctionOnSet(f, V) = Cardinality(Y)
  BY <1>6, <1>8
<1>14. SumFunctionOnSet(f, T) = Cardinality(X)
  BY <1>7, <1>10, <1>11, <1>12, <1>13
<1> QED
  BY <1>2, <1>8, <1>14

WithTag(tag, S) == {<<tag, x>> : x \in S}

\* As many tagged values as values.
LEMMA TaggedCount ==
    ASSUME NEW S, IsFiniteSet(S), NEW tag
    PROVE  IsFiniteSet(WithTag(tag, S)) /\ Cardinality(WithTag(tag, S)) = Cardinality(S)
<1>0. PICK T : T = WithTag(tag, S)
  OBVIOUS
<1>1. PICK b : b = [x \in S |-> <<tag, x>>]
  OBVIOUS
<1>2. b \in Bijection(S, T)
  BY <1>0, <1>1 DEF Bijection, Injection, Surjection, IsInjective, WithTag
<1> QED
  BY <1>0, <1>2, FS_Bijection DEF ExistsBijection

BoxName(v) == IF v.station = None THEN <<"table", v.table>> ELSE <<"station", v.station>>

\* The box of a tagged value.
BoxOf(u) ==
    IF u[1] = "record" THEN <<"station", u[2].label["station"]>>
    ELSE IF u[1] = "table" THEN BoxName(u[2])
    ELSE <<"grid", u[2].grid>>

Stationed(d, p, f) == {r \in ApplyVizFilters(d.records, p, f) : r.label["station"] # None}

Boxed(d, p, f) ==
    WithTag("record", Stationed(d, p, f)) \cup WithTag("table", RawOfTables(d, p, f))
        \cup WithTag("grid", RawOfGrids(d, p, f))

\* U is sorted into boxes.
Sorts(boxes, U) ==
    /\ DOMAIN boxes = {BoxOf(u) : u \in U}
    /\ \A name \in DOMAIN boxes : boxes[name] = {u \in U : BoxOf(u) = name}

\* Every value is in the box of its station or of its table.
LEMMA BoxesAre ==
    ASSUME NEW d, NEW p, NEW f
    PROVE  Sorts(BoxPlot(d, p, f), Boxed(d, p, f))
<1>0. PICK boxes : boxes = BoxPlot(d, p, f)
  OBVIOUS
<1>1. PICK R, T, G : R = Stationed(d, p, f) /\ T = RawOfTables(d, p, f) /\ G = RawOfGrids(d, p, f)
  OBVIOUS
<1>2. PICK names : names = {<<"station", r.label["station"]>> : r \in R}
                               \cup {BoxName(v) : v \in T} \cup {<<"grid", v.grid>> : v \in G}
  OBVIOUS
<1>3. boxes = [name \in names |->
                 {<<"record", r>> : r \in {q \in R : <<"station", q.label["station"]>> = name}}
                     \cup {<<"table", v>> : v \in {w \in T : BoxName(w) = name}}
                     \cup {<<"grid", v>> : v \in {w \in G : <<"grid", w.grid>> = name}}]
  BY <1>0, <1>1, <1>2 DEF BoxPlot, Stationed, BoxName
<1>4. PICK A, B, C : A = {<<"record", r>> : r \in R} /\ B = {<<"table", v>> : v \in T} /\ C = {<<"grid", v>> : v \in G}
  OBVIOUS
<1>5. Boxed(d, p, f) = A \cup B \cup C
  BY <1>1, <1>4 DEF Boxed, WithTag
<1>6. \A r \in R : <<"record", r>> \in A /\ BoxOf(<<"record", r>>) = <<"station", r.label["station"]>>
  BY <1>4 DEF BoxOf
<1>7. \A v \in T : <<"table", v>> \in B /\ BoxOf(<<"table", v>>) = BoxName(v)
  BY <1>4 DEF BoxOf
<1>8. \A v \in G : <<"grid", v>> \in C /\ BoxOf(<<"grid", v>>) = <<"grid", v.grid>>
  BY <1>4 DEF BoxOf
<1>9. /\ \A u \in A : \E r \in R : u = <<"record", r>>
      /\ \A u \in B : \E v \in T : u = <<"table", v>>
      /\ \A u \in C : \E v \in G : u = <<"grid", v>>
  BY <1>4
<1>10. names = {BoxOf(u) : u \in A \cup B \cup C}
  <2>1. ASSUME NEW u \in A \cup B \cup C PROVE BoxOf(u) \in names
    <3>1. CASE u \in A
      <4>1. PICK r \in R : u = <<"record", r>>
        BY <1>9, <3>1
      <4>2. BoxOf(u) = <<"station", r.label["station"]>>
        BY <1>6, <4>1
      <4> QED
        BY <1>2, <4>2
    <3>2. CASE u \in B
      <4>1. PICK v \in T : u = <<"table", v>>
        BY <1>9, <3>2
      <4>2. BoxOf(u) = BoxName(v)
        BY <1>7, <4>1
      <4> QED
        BY <1>2, <4>2
    <3>3. CASE u \in C
      <4>1. PICK v \in G : u = <<"grid", v>>
        BY <1>9, <3>3
      <4>2. BoxOf(u) = <<"grid", v.grid>>
        BY <1>8, <4>1
      <4> QED
        BY <1>2, <4>2
    <3> QED
      BY <3>1, <3>2, <3>3
  <2>2. ASSUME NEW name \in names PROVE \E u \in A \cup B \cup C : name = BoxOf(u)
    <3>1. CASE name \in {<<"station", r.label["station"]>> : r \in R}
      <4>1. PICK r \in R : name = <<"station", r.label["station"]>>
        BY <3>1
      <4>2. <<"record", r>> \in A /\ BoxOf(<<"record", r>>) = name
        BY <1>6, <4>1
      <4> QED
        BY <4>2
    <3>2. CASE name \in {BoxName(v) : v \in T}
      <4>1. PICK v \in T : name = BoxName(v)
        BY <3>2
      <4>2. <<"table", v>> \in B /\ BoxOf(<<"table", v>>) = name
        BY <1>7, <4>1
      <4> QED
        BY <4>2
    <3>3. CASE name \in {<<"grid", v.grid>> : v \in G}
      <4>1. PICK v \in G : name = <<"grid", v.grid>>
        BY <3>3
      <4>2. <<"grid", v>> \in C /\ BoxOf(<<"grid", v>>) = name
        BY <1>8, <4>1
      <4> QED
        BY <4>2
    <3> QED
      BY <1>2, <3>1, <3>2, <3>3
  <2> QED
    BY <2>1, <2>2
<1>11. ASSUME NEW name \in names
       PROVE  boxes[name] = {u \in A \cup B \cup C : BoxOf(u) = name}
  <2>1. {<<"record", r>> : r \in {q \in R : <<"station", q.label["station"]>> = name}} = {u \in A : BoxOf(u) = name}
    BY <1>6, <1>9
  <2>2. {<<"table", v>> : v \in {w \in T : BoxName(w) = name}} = {u \in B : BoxOf(u) = name}
    BY <1>7, <1>9
  <2>3. {<<"grid", v>> : v \in {w \in G : <<"grid", w.grid>> = name}} = {u \in C : BoxOf(u) = name}
    BY <1>8, <1>9
  <2>4. boxes[name] = {u \in A : BoxOf(u) = name} \cup {u \in B : BoxOf(u) = name} \cup {u \in C : BoxOf(u) = name}
    BY <1>3, <2>1, <2>2, <2>3
  <2> QED
    BY <2>4
<1>12. DOMAIN boxes = names
  BY <1>3
<1> QED
  BY <1>0, <1>5, <1>10, <1>11, <1>12 DEF Sorts

-----------------------------------------------------------------------------
(* Means of means: quotients added up, as sums are above                   *)

Quotient == [sum : Int, n : Int]

NoMeans == [sum |-> 0, n |-> 1]

\* What MeanOfMeans adds up of values that have a field value.
Total(S) == MapThenFoldSet(Plus, NoMeans, LAMBDA x : x.value, LAMBDA T : CHOOSE x \in T : TRUE, S)

Totals(g, S) ==
    g = [s \in SUBSET S |-> IF s = {} THEN NoMeans ELSE Plus(First(s).value, g[s \ {First(s)}])]

\* Quotients are added in any order.
LEMMA PlusIs ==
    ASSUME NEW a \in Quotient, NEW b \in Quotient, NEW c \in Quotient
    PROVE  /\ Plus(a, b) \in Quotient
           /\ Plus(a, b) = Plus(b, a)
           /\ Plus(a, Plus(b, c)) = Plus(b, Plus(a, c))
           /\ Plus(a, Plus(b, c)) = Plus(Plus(a, b), c)
<1>1. PICK p \in Int, q \in Int, r \in Int, s \in Int, t \in Int, u \in Int :
        a = [sum |-> p, n |-> q] /\ b = [sum |-> r, n |-> s] /\ c = [sum |-> t, n |-> u]
  BY DEF Quotient
<1>2. Plus(a, b) = [sum |-> p * s + r * q, n |-> q * s]
  BY <1>1 DEF Plus
<1>3. Plus(b, a) = [sum |-> r * q + p * s, n |-> s * q]
  BY <1>1 DEF Plus
<1>4. Plus(b, c) = [sum |-> r * u + t * s, n |-> s * u]
  BY <1>1 DEF Plus
<1>5. Plus(a, c) = [sum |-> p * u + t * q, n |-> q * u]
  BY <1>1 DEF Plus
<1>6. Plus(a, Plus(b, c)) = [sum |-> p * (s * u) + (r * u + t * s) * q, n |-> q * (s * u)]
  BY <1>1, <1>4 DEF Plus
<1>7. Plus(b, Plus(a, c)) = [sum |-> r * (q * u) + (p * u + t * q) * s, n |-> s * (q * u)]
  BY <1>1, <1>5 DEF Plus
<1>8. Plus(Plus(a, b), c) = [sum |-> (p * s + r * q) * u + t * (q * s), n |-> (q * s) * u]
  BY <1>1, <1>2 DEF Plus
<1>9. /\ p * s + r * q \in Int /\ q * s \in Int /\ q * s = s * q
      /\ p * s + r * q = r * q + p * s
  OBVIOUS
<1>10. /\ p * (s * u) + (r * u + t * s) * q = r * (q * u) + (p * u + t * q) * s
       /\ q * (s * u) = s * (q * u)
  OBVIOUS
<1>11. /\ p * (s * u) + (r * u + t * s) * q = (p * s + r * q) * u + t * (q * s)
       /\ q * (s * u) = (q * s) * u
  OBVIOUS
<1>12. Plus(a, b) \in Quotient
  BY <1>2, <1>9 DEF Quotient
<1> QED
  BY <1>2, <1>3, <1>6, <1>7, <1>8, <1>9, <1>10, <1>11, <1>12

LEMMA TotalsUnique ==
    ASSUME NEW S, NEW T, IsFiniteSet(S), NEW g, NEW h, Totals(g, S), Totals(h, T)
    PROVE  \A s \in SUBSET (S \cap T) : g[s] = h[s]
<1>0. PICK B : B = {s \in SUBSET (S \cap T) : g[s] # h[s]}
  OBVIOUS
<1> SUFFICES ASSUME B # {} PROVE FALSE
  BY <1>0
<1>1. PICK s \in B : \A u \in B : ~(u \subseteq s /\ u # s)
  <2>1. IsFiniteSet(S \cap T) /\ B \subseteq SUBSET (S \cap T)
    BY <1>0, FS_Subset
  <2> QED
    BY <2>1, MinimalSubset
<1>2. s \in SUBSET S /\ s \in SUBSET T /\ g[s] # h[s]
  BY <1>0, <1>1
<1>3. CASE s = {}
  BY <1>2, <1>3 DEF Totals
<1>4. CASE s # {}
  <2>1. PICK x, u : x = First(s) /\ u = s \ {x}
    OBVIOUS
  <2>2. x \in s
    BY <1>4, <2>1, FirstIn
  <2>3. u \in SUBSET (S \cap T) /\ u \subseteq s /\ u # s
    BY <1>2, <2>1, <2>2
  <2>4. g[u] = h[u]
    BY <1>0, <1>1, <2>3
  <2>5. g[s] = Plus(x.value, g[u])
    BY <1>2, <1>4, <2>1 DEF Totals
  <2>6. h[s] = Plus(x.value, h[u])
    BY <1>2, <1>4, <2>1 DEF Totals
  <2> QED
    BY <1>2, <2>4, <2>5, <2>6
<1> QED
  BY <1>3, <1>4

LEMMA TotalsExists ==
    ASSUME NEW S, IsFiniteSet(S)
    PROVE  \E g : Totals(g, S)
<1>0. PICK B : B = {T \in SUBSET S : ~\E g : Totals(g, T)}
  OBVIOUS
<1> SUFFICES ASSUME B # {} PROVE FALSE
  BY <1>0
<1>1. PICK T \in B : \A U \in B : ~(U \subseteq T /\ U # T)
  <2>1. B \subseteq SUBSET S
    BY <1>0
  <2> QED
    BY <2>1, MinimalSubset
<1>2. T \in SUBSET S /\ IsFiniteSet(T) /\ ~\E g : Totals(g, T)
  BY <1>0, <1>1, FS_Subset
<1> DEFINE G(u) == CHOOSE g : Totals(g, u)
<1>3. ASSUME NEW u \in SUBSET T, u # T PROVE Totals(G(u), u) /\ IsFiniteSet(u)
  <2>1. u \notin B /\ u \in SUBSET S
    BY <1>1, <1>2, <1>3
  <2> QED
    BY <1>0, <1>2, <2>1, FS_Subset
<1> DEFINE total(s) == IF s = {} THEN NoMeans ELSE Plus(First(s).value, G(s \ {First(s)})[s \ {First(s)}])
           h == [s \in SUBSET T |-> total(s)]
<1> HIDE DEF G
<1>4. ASSUME NEW s \in SUBSET T, s # {}, NEW u, u = s \ {First(s)}
      PROVE  h[u] = G(u)[u]
  <2>1. First(s) \in s /\ u \in SUBSET T /\ u # T
    BY <1>4, FirstIn
  <2>2. Totals(G(u), u)
    BY <1>3, <2>1
  <2>3. CASE u = {}
    BY <2>1, <2>2, <2>3 DEF Totals
  <2>4. CASE u # {}
    <3>1. PICK x, v : x = First(u) /\ v = u \ {x}
      OBVIOUS
    <3>2. x \in u /\ v \in SUBSET T /\ v # T /\ v \in SUBSET u
      BY <2>1, <2>4, <3>1, FirstIn
    <3>3. G(u)[u] = Plus(x.value, G(u)[v])
      BY <2>2, <2>4, <3>1 DEF Totals
    <3>4. G(u)[v] = G(v)[v]
      <4>1. Totals(G(v), v) /\ IsFiniteSet(u) /\ v \in SUBSET (u \cap v)
        BY <1>3, <2>1, <3>2
      <4> QED
        BY <2>2, <4>1, TotalsUnique
    <3>5. h[u] = Plus(x.value, G(v)[v])
      BY <2>1, <2>4, <3>1
    <3> QED
      BY <3>3, <3>4, <3>5
  <2> QED
    BY <2>3, <2>4
<1>5. \A s \in SUBSET T : h[s] = IF s = {} THEN NoMeans ELSE Plus(First(s).value, h[s \ {First(s)}])
  BY <1>4
<1>6. Totals(h, T)
  <2>1. h = [s \in SUBSET T |-> h[s]]
    OBVIOUS
  <2> QED
    BY <1>5, <2>1 DEF Totals
<1> QED
  BY <1>2, <1>6

LEMMA TotalTotals ==
    ASSUME NEW S, IsFiniteSet(S)
    PROVE  \E g : Totals(g, S) /\ Total(S) = g[S]
<1> DEFINE g == CHOOSE g : Totals(g, S)
<1>1. Totals(g, S)
  BY TotalsExists
<1>2. Total(S) = g[S]
  BY DEF Total, MapThenFoldSet, Totals, First, NoMeans
<1> QED
  BY <1>1, <1>2

LEMMA TotalsQuotient ==
    ASSUME NEW S, IsFiniteSet(S), NEW g, Totals(g, S), \A x \in S : x.value \in Quotient
    PROVE  \A s \in SUBSET S : g[s] \in Quotient
<1>0. PICK B : B = {s \in SUBSET S : g[s] \notin Quotient}
  OBVIOUS
<1> SUFFICES ASSUME B # {} PROVE FALSE
  BY <1>0
<1>1. PICK s \in B : \A u \in B : ~(u \subseteq s /\ u # s)
  <2>1. B \subseteq SUBSET S
    BY <1>0
  <2> QED
    BY <2>1, MinimalSubset
<1>2. s \in SUBSET S /\ g[s] \notin Quotient
  BY <1>0, <1>1
<1>3. CASE s = {}
  BY <1>2, <1>3 DEF Totals, NoMeans, Quotient
<1>4. CASE s # {}
  <2>1. PICK x, u : x = First(s) /\ u = s \ {x}
    OBVIOUS
  <2>2. x \in s /\ u \in SUBSET S /\ u \subseteq s /\ u # s
    BY <1>2, <1>4, <2>1, FirstIn
  <2>3. x.value \in Quotient /\ g[u] \in Quotient
    BY <1>0, <1>1, <1>2, <2>2
  <2>4. g[s] = Plus(x.value, g[u])
    BY <1>2, <1>4, <2>1 DEF Totals
  <2> QED
    BY <1>2, <2>3, <2>4, PlusIs
<1> QED
  BY <1>3, <1>4

LEMMA TotalsRemove ==
    ASSUME NEW S, IsFiniteSet(S), NEW g, Totals(g, S), \A x \in S : x.value \in Quotient
    PROVE  \A s \in SUBSET S : \A x \in s : g[s] = Plus(x.value, g[s \ {x}])
<1>0. PICK B : B = {s \in SUBSET S : \E x \in s : g[s] # Plus(x.value, g[s \ {x}])}
  OBVIOUS
<1> SUFFICES ASSUME B # {} PROVE FALSE
  BY <1>0
<1>1. PICK s \in B : \A u \in B : ~(u \subseteq s /\ u # s)
  <2>1. B \subseteq SUBSET S
    BY <1>0
  <2> QED
    BY <2>1, MinimalSubset
<1>2. s \in SUBSET S
  BY <1>0, <1>1
<1>3. PICK x \in s : g[s] # Plus(x.value, g[s \ {x}])
  BY <1>0, <1>1
<1>4. PICK y, u, v, w : y = First(s) /\ u = s \ {y} /\ v = s \ {x} /\ w = u \ {x}
  OBVIOUS
<1>5. y \in s
  BY <1>3, <1>4, FirstIn
<1>6. g[s] = Plus(y.value, g[u])
  BY <1>2, <1>3, <1>4 DEF Totals
<1>7. y # x
  BY <1>3, <1>4, <1>6
<1>8. g[u] = Plus(x.value, g[w])
  <2>1. u \in SUBSET S /\ u \subseteq s /\ u # s /\ x \in u
    BY <1>2, <1>4, <1>5, <1>7
  <2> QED
    BY <1>0, <1>1, <1>4, <2>1
<1>9. g[v] = Plus(y.value, g[w])
  <2>1. v \in SUBSET S /\ v \subseteq s /\ v # s /\ y \in v /\ w = v \ {y}
    BY <1>2, <1>4, <1>5, <1>7
  <2> QED
    BY <1>0, <1>1, <2>1
<1>10. x.value \in Quotient /\ y.value \in Quotient /\ g[w] \in Quotient
  BY <1>2, <1>4, <1>5, TotalsQuotient
<1> QED
  BY <1>3, <1>4, <1>6, <1>8, <1>9, <1>10, PlusIs

LEMMA TotalOfTotals ==
    ASSUME NEW S, IsFiniteSet(S), NEW g, Totals(g, S)
    PROVE  \A s \in SUBSET S : Total(s) = g[s]
<1> TAKE s \in SUBSET S
<1>1. IsFiniteSet(s)
  BY FS_Subset
<1>2. PICK h : Totals(h, s) /\ Total(s) = h[s]
  BY <1>1, TotalTotals
<1>3. s \in SUBSET (S \cap s)
  OBVIOUS
<1>4. \A u \in SUBSET (S \cap s) : g[u] = h[u]
  BY <1>2, TotalsUnique
<1> QED
  BY <1>2, <1>3, <1>4

LEMMA TotalEmpty == Total({}) = NoMeans
<1>1. IsFiniteSet({})
  BY FS_EmptySet
<1>2. PICK g : Totals(g, {}) /\ Total({}) = g[{}]
  BY <1>1, TotalTotals
<1> QED
  BY <1>2 DEF Totals

LEMMA TotalQuotient ==
    ASSUME NEW S, IsFiniteSet(S), \A x \in S : x.value \in Quotient
    PROVE  Total(S) \in Quotient
<1>1. PICK g : Totals(g, S) /\ Total(S) = g[S]
  BY TotalTotals
<1> QED
  BY <1>1, TotalsQuotient

\* A total is that of the others and one value.
LEMMA TotalRemove ==
    ASSUME NEW S, IsFiniteSet(S), \A x \in S : x.value \in Quotient, NEW x \in S
    PROVE  Total(S) = Plus(x.value, Total(S \ {x}))
<1>1. PICK g : Totals(g, S)
  BY TotalsExists
<1>2. Total(S) = g[S]
  BY <1>1, TotalOfTotals
<1>3. Total(S \ {x}) = g[S \ {x}]
  BY <1>1, TotalOfTotals
<1>4. g[S] = Plus(x.value, g[S \ {x}])
  BY <1>1, TotalsRemove
<1> QED
  BY <1>2, <1>3, <1>4

\* A total depends on the values only.
LEMMA TotalRenamed ==
    ASSUME NEW S, NEW T, IsFiniteSet(S), NEW b \in Bijection(S, T),
           \A x \in S : x.value \in Quotient /\ b[x].value = x.value
    PROVE  Total(S) = Total(T)
<1> DEFINE Image(s) == {b[x] : x \in s}
<1>0. PICK B : B = {s \in SUBSET S : Total(s) # Total(Image(s))}
  OBVIOUS
<1>b. /\ b \in [S -> T]
      /\ \A x, y \in S : b[x] = b[y] => x = y
      /\ \A y \in T : \E x \in S : b[x] = y
  BY DEF Bijection, Injection, Surjection, IsInjective
<1>i. Image(S) = T
  BY <1>b
<1>f. IsFiniteSet(T)
  BY FS_Bijection DEF ExistsBijection
<1> SUFFICES ASSUME B # {} PROVE FALSE
  BY <1>0, <1>i
<1>1. PICK s \in B : \A u \in B : ~(u \subseteq s /\ u # s)
  <2>1. B \subseteq SUBSET S
    BY <1>0
  <2> QED
    BY <2>1, MinimalSubset
<1>2. s \in SUBSET S /\ IsFiniteSet(s) /\ Total(s) # Total(Image(s))
  BY <1>0, <1>1, FS_Subset
<1>3. s # {}
  BY <1>2, TotalEmpty
<1>4. PICK x, u : x \in s /\ u = s \ {x}
  BY <1>3
<1>5. Total(u) = Total(Image(u))
  BY <1>0, <1>1, <1>2, <1>4
<1>6. Total(s) = Plus(x.value, Total(u))
  BY <1>2, <1>4, TotalRemove
<1>7. PICK t : t = Image(s)
  OBVIOUS
<1>8. t \subseteq T /\ b[x] \in t /\ Image(u) = t \ {b[x]} /\ IsFiniteSet(t)
  <2>1. t \subseteq T /\ b[x] \in t
    BY <1>b, <1>2, <1>4, <1>7
  <2>2. Image(u) = t \ {b[x]}
    BY <1>b, <1>2, <1>4, <1>7
  <2> QED
    BY <1>f, <2>1, <2>2, FS_Subset
<1>9. \A y \in t : y.value \in Quotient
  BY <1>2, <1>7
<1>10. Total(t) = Plus(b[x].value, Total(t \ {b[x]}))
  BY <1>8, <1>9, TotalRemove
<1> QED
  BY <1>2, <1>4, <1>5, <1>6, <1>7, <1>8, <1>10

-----------------------------------------------------------------------------
(* Series merged one after the other                                       *)

SameOn(g, h, S) == \A s \in SUBSET S : g[s] = h[s]

Places(S) == IsFiniteSet(S) /\ S \subseteq Int

\* The fold over a list of series, as a function of the sets of its positions.
Merging(g, list, S) ==
    g = [s \in SUBSET S |-> IF s = {} THEN <<>> ELSE MergeWeighted(g[s \ {Max(s)}], list[Max(s)])]

LEMMA LastIn ==
    ASSUME NEW s, IsFiniteSet(s), s \subseteq Int, s # {}
    PROVE  Max(s) \in s /\ \A j \in s : j <= Max(s)
<1>1. \E k \in s : \A j \in s : k >= j
  BY GreatestOf DEF HasGreatest
<1>2. Max(s) \in s /\ \A j \in s : Max(s) >= j
  BY <1>1 DEF Max
<1> QED
  BY <1>2

\* Two ways to merge the same series agree on what both have merged.
LEMMA MergingUnique ==
    ASSUME NEW list, NEW S, Places(S), NEW T, NEW g, NEW h,
           Merging(g, list, S), Merging(h, list, T)
    PROVE  SameOn(g, h, S \cap T)
<1>p. IsFiniteSet(S) /\ S \subseteq Int
  BY DEF Places
<1>0. PICK B : B = {s \in SUBSET (S \cap T) : g[s] # h[s]}
  OBVIOUS
<1> SUFFICES ASSUME B # {} PROVE FALSE
  BY <1>0 DEF SameOn
<1>1. PICK s \in B : \A u \in B : ~(u \subseteq s /\ u # s)
  <2>1. PICK R : R = S \cap T
    OBVIOUS
  <2>2. IsFiniteSet(R) /\ B \subseteq SUBSET R
    BY <1>p, <1>0, <2>1, FS_Subset
  <2> HIDE <1>0, <2>1
  <2> QED
    BY <2>2, MinimalSubset
<1>2. s \in SUBSET S /\ s \in SUBSET T /\ s \subseteq Int /\ IsFiniteSet(s) /\ g[s] # h[s]
  BY <1>p, <1>0, <1>1, FS_Subset
<1>3. CASE s = {}
  BY <1>2, <1>3 DEF Merging
<1>4. CASE s # {}
  <2>1. PICK x, u : x = Max(s) /\ u = s \ {x}
    OBVIOUS
  <2>2. x \in s
    BY <1>2, <1>4, <2>1, LastIn
  <2>3. u \in SUBSET (S \cap T) /\ u \subseteq s /\ u # s
    BY <1>2, <2>1, <2>2
  <2>4. g[u] = h[u]
    BY <1>0, <1>1, <2>3
  <2>5. g[s] = MergeWeighted(g[u], list[x])
    BY <1>2, <1>4, <2>1 DEF Merging
  <2>6. h[s] = MergeWeighted(h[u], list[x])
    BY <1>2, <1>4, <2>1 DEF Merging
  <2> QED
    BY <1>2, <2>4, <2>5, <2>6
<1> QED
  BY <1>3, <1>4

LEMMA MergingAgree ==
    ASSUME NEW list, NEW u, IsFiniteSet(u), u \subseteq Int, NEW v \in SUBSET u, NEW k, NEW l,
           Merging(k, list, u), Merging(l, list, v)
    PROVE  k[v] = l[v]
<1>1. SameOn(k, l, u \cap v)
  <2>1. Places(u)
    BY DEF Places
  <2> QED
    BY <2>1, MergingUnique
<1>2. v \in SUBSET (u \cap v)
  OBVIOUS
<1> QED
  BY <1>1, <1>2 DEF SameOn

LEMMA MergingExists ==
    ASSUME NEW list, NEW S, IsFiniteSet(S), S \subseteq Int
    PROVE  \E g : Merging(g, list, S)
<1>0. PICK B : B = {T \in SUBSET S : ~\E g : Merging(g, list, T)}
  OBVIOUS
<1> SUFFICES ASSUME B # {} PROVE FALSE
  BY <1>0
<1>1. PICK T \in B : \A U \in B : ~(U \subseteq T /\ U # T)
  <2>1. PICK R : R = S
    OBVIOUS
  <2>2. IsFiniteSet(R) /\ B \subseteq SUBSET R
    BY <1>0, <2>1
  <2> HIDE <1>0, <2>1
  <2> QED
    BY <2>2, MinimalSubset
<1>2. T \in SUBSET S /\ T \subseteq Int /\ IsFiniteSet(T) /\ ~\E g : Merging(g, list, T)
  BY <1>0, <1>1, FS_Subset
<1> DEFINE G(u) == CHOOSE g : Merging(g, list, u)
<1>3. ASSUME NEW u \in SUBSET T, u # T PROVE Merging(G(u), list, u)
  <2>1. u \notin B /\ u \in SUBSET S
    BY <1>1, <1>2, <1>3
  <2> QED
    BY <1>0, <1>2, <2>1
<1> DEFINE merge(s) == IF s = {} THEN <<>> ELSE MergeWeighted(G(s \ {Max(s)})[s \ {Max(s)}], list[Max(s)])
           h == [s \in SUBSET T |-> merge(s)]
<1> HIDE DEF G
<1>4. ASSUME NEW s \in SUBSET T, s # {}, NEW u, u = s \ {Max(s)}
      PROVE  h[u] = G(u)[u]
  <2>0. IsFiniteSet(s) /\ s \subseteq Int /\ IsFiniteSet(u) /\ u \subseteq Int
    BY <1>2, <1>4, FS_Subset
  <2>1. Max(s) \in s /\ u \in SUBSET T /\ u # T
    BY <1>4, <2>0, LastIn
  <2>2. Merging(G(u), list, u)
    BY <1>3, <2>1
  <2>3. CASE u = {}
    BY <2>1, <2>2, <2>3 DEF Merging
  <2>4. CASE u # {}
    <3>1. PICK x, v : x = Max(u) /\ v = u \ {x}
      OBVIOUS
    <3>2. x \in u /\ v \in SUBSET T /\ v # T /\ v \in SUBSET u
      BY <2>0, <2>1, <2>4, <3>1, LastIn
    <3>3. G(u)[u] = MergeWeighted(G(u)[v], list[x])
      BY <2>2, <2>4, <3>1 DEF Merging
    <3>4. G(u)[v] = G(v)[v]
      <4>1. Merging(G(v), list, v)
        BY <1>3, <3>2
      <4>2. PICK k, l : k = G(u) /\ l = G(v)
        OBVIOUS
      <4>3. Merging(k, list, u) /\ Merging(l, list, v)
        BY <2>2, <4>1, <4>2
      <4>4. v \in SUBSET u
        BY <3>2
      <4>5. k[v] = l[v]
        BY <2>0, <4>3, <4>4, MergingAgree
      <4> QED
        BY <4>2, <4>5
    <3>5. h[u] = MergeWeighted(G(v)[v], list[x])
      BY <2>1, <2>4, <3>1
    <3> QED
      BY <3>3, <3>4, <3>5
  <2> QED
    BY <2>3, <2>4
<1>5. \A s \in SUBSET T : h[s] = IF s = {} THEN <<>> ELSE MergeWeighted(h[s \ {Max(s)}], list[Max(s)])
  BY <1>4
<1>6. Merging(h, list, T)
  <2>1. h = [s \in SUBSET T |-> h[s]]
    OBVIOUS
  <2> QED
    BY <1>5, <2>1 DEF Merging
<1> QED
  BY <1>2, <1>6

MergedSeries(list) == FoldLeft(MergeWeighted, <<>>, list)

\* m[i] is what the first i series of a list are merged to.
Merged(m, list, n) == m[0] = <<>> /\ \A i \in 1..n : m[i] = MergeWeighted(m[i - 1], list[i])

\* The left fold of a list, element by element.
LEMMA FoldIs ==
    ASSUME NEW list, NEW n \in Nat, DOMAIN list = 1..n
    PROVE  \E m : Merged(m, list, n) /\ MergedSeries(list) = m[n]
<1> DEFINE g == CHOOSE g : Merging(g, list, 1..n)
<1>1. Merging(g, list, 1..n)
  <2>1. IsFiniteSet(1..n) /\ 1..n \subseteq Int
    BY FS_Interval
  <2> QED
    BY <2>1, MergingExists
<1>2. MergedSeries(list) = g[1..n]
  BY DEF MergedSeries, FoldLeft, MapThenFoldSet, Merging
<1> HIDE DEF g
<1>3. PICK m : m = [i \in 0..n |-> g[1..i]]
  OBVIOUS
<1>4. m[0] = <<>>
  BY <1>1, <1>3 DEF Merging
<1>5. ASSUME NEW i \in 1..n PROVE m[i] = MergeWeighted(m[i - 1], list[i])
  <2>1. 1..i \subseteq 1..n /\ 1..i # {} /\ i \in 1..i
    OBVIOUS
  <2>2. Max(1..i) = i
    <3>1. PICK k : k = Max(1..i)
      OBVIOUS
    <3>2. IsFiniteSet(1..i) /\ 1..i \subseteq Int
      BY FS_Interval
    <3>3. k \in 1..i /\ \A j \in 1..i : j <= k
      BY <2>1, <3>1, <3>2, LastIn
    <3>4. i <= k
      BY <2>1, <3>3
    <3> QED
      BY <3>1, <3>3, <3>4
  <2>3. (1..i) \ {i} = 1..(i - 1)
    OBVIOUS
  <2>4. g[1..i] = MergeWeighted(g[(1..i) \ {i}], list[i])
    BY <1>1, <2>1, <2>2 DEF Merging
  <2>5. i \in 0..n /\ i - 1 \in 0..n
    OBVIOUS
  <2>6. m[i] = g[1..i] /\ m[i - 1] = g[1..(i - 1)]
    BY <1>3, <2>5
  <2> QED
    BY <2>3, <2>4, <2>6
<1>6. n \in 0..n /\ m[n] = g[1..n]
  BY <1>3
<1>7. Merged(m, list, n)
  BY <1>4, <1>5 DEF Merged
<1> QED
  BY <1>2, <1>6, <1>7

\* The buckets of what is merged.
LEMMA FoldBuckets ==
    ASSUME NEW list, NEW n \in Nat, DOMAIN list = 1..n
    PROVE  DOMAIN MergedSeries(list) = UNION {DOMAIN list[i] : i \in 1..n}
<1>1. PICK m : Merged(m, list, n) /\ MergedSeries(list) = m[n]
  BY FoldIs
<1> DEFINE Right(k) == DOMAIN m[k] = UNION {DOMAIN list[i] : i \in 1..k}
<1>2. SUFFICES ASSUME NEW B, B = {k \in 0..n : ~Right(k)}, B # {} PROVE FALSE
  <2>1. n \in 0..n
    OBVIOUS
  <2>2. PICK B : B = {k \in 0..n : ~Right(k)}
    OBVIOUS
  <2>3. B = {}
    BY <2>2
  <2>4. Right(n)
    BY <2>1, <2>2, <2>3
  <2> QED
    BY <1>1, <2>4
<1>3. PICK k \in B : \A j \in B : k <= j
  <2>1. B \subseteq Nat
    BY <1>2
  <2> QED
    BY <1>2, <2>1, LeastOf
<1>4. k \in 0..n /\ ~Right(k)
  BY <1>2
<1>5. k # 0
  <2>1. Right(0)
    BY <1>1 DEF Merged
  <2> QED
    BY <1>4, <2>1
<1>6. Right(k - 1)
  <2>1. PICK j \in 0..n : j = k - 1 /\ ~(k <= j)
    BY <1>4, <1>5
  <2>2. j \notin B
    BY <1>3, <2>1
  <2> QED
    BY <1>2, <2>1, <2>2
<1>7. m[k] = MergeWeighted(m[k - 1], list[k])
  BY <1>1, <1>4, <1>5 DEF Merged
<1>8. DOMAIN m[k] = DOMAIN m[k - 1] \cup DOMAIN list[k]
  BY <1>7 DEF MergeWeighted
<1>9. 1..k = 1..(k - 1) \cup {k}
  BY <1>4, <1>5
<1>10. Right(k)
  BY <1>6, <1>8, <1>9
<1> QED
  BY <1>4, <1>10

\* One more series at the end is merged last.
LEMMA FoldOneMore ==
    ASSUME NEW list, NEW n \in Nat, DOMAIN list = 1..n,
           NEW more, DOMAIN more = 1..(n + 1), \A i \in 1..n : more[i] = list[i]
    PROVE  MergedSeries(more) = MergeWeighted(MergedSeries(list), more[n + 1])
<1>1. PICK m : Merged(m, list, n) /\ MergedSeries(list) = m[n]
  BY FoldIs
<1>2. PICK o : Merged(o, more, n + 1) /\ MergedSeries(more) = o[n + 1]
  BY FoldIs
<1>3. \A k \in 0..n : o[k] = m[k]
  <2>0. PICK B : B = {k \in 0..n : o[k] # m[k]}
    OBVIOUS
  <2>1. SUFFICES ASSUME B # {} PROVE FALSE
    BY <2>0
  <2>2. PICK k \in B : \A j \in B : k <= j
    <3>1. B \subseteq Nat
      BY <2>0
    <3> QED
      BY <2>1, <3>1, LeastOf
  <2>3. k \in 0..n /\ o[k] # m[k]
    BY <2>0
  <2>4. k # 0
    BY <1>1, <1>2, <2>3 DEF Merged
  <2>5. o[k - 1] = m[k - 1]
    BY <2>0, <2>2, <2>3, <2>4
  <2>6. o[k] = MergeWeighted(o[k - 1], list[k]) /\ m[k] = MergeWeighted(m[k - 1], list[k])
    BY <1>1, <1>2, <2>3, <2>4 DEF Merged
  <2> QED
    BY <2>3, <2>5, <2>6
<1>4. o[n + 1] = MergeWeighted(o[n], more[n + 1])
  BY <1>2 DEF Merged
<1> QED
  BY <1>1, <1>2, <1>3, <1>4

-----------------------------------------------------------------------------
(* What is merged                                                          *)

Contribution == [total : Quotient, weight : Int]

IsSeries(s) == s = [b \in DOMAIN s |-> s[b]] /\ \A b \in DOMAIN s : s[b] \in Contribution

\* The weighted means of two series are combined in any grouping.
LEMMA WeightedIs ==
    ASSUME NEW x \in Contribution, NEW y \in Contribution, NEW z \in Contribution
    PROVE  /\ Weighted(x, y) \in Contribution
           /\ Weighted(x, Weighted(y, z)) = Weighted(Weighted(x, y), z)
<1>1. PICK p \in Quotient, q \in Quotient, r \in Quotient, i \in Int, j \in Int, k \in Int :
        x = [total |-> p, weight |-> i] /\ y = [total |-> q, weight |-> j] /\ z = [total |-> r, weight |-> k]
  BY DEF Contribution
<1>2. Plus(p, q) \in Quotient /\ Plus(p, Plus(q, r)) = Plus(Plus(p, q), r)
  BY PlusIs
<1>3. Weighted(x, y) = [total |-> Plus(p, q), weight |-> i + j]
  BY <1>1 DEF Weighted
<1>4. Weighted(y, z) = [total |-> Plus(q, r), weight |-> j + k]
  BY <1>1 DEF Weighted
<1>5. Weighted(x, Weighted(y, z)) = [total |-> Plus(p, Plus(q, r)), weight |-> i + (j + k)]
  BY <1>1, <1>4 DEF Weighted
<1>6. Weighted(Weighted(x, y), z) = [total |-> Plus(Plus(p, q), r), weight |-> (i + j) + k]
  BY <1>1, <1>3 DEF Weighted
<1>7. i + (j + k) = (i + j) + k /\ i + j \in Int
  OBVIOUS
<1>8. Weighted(x, y) \in Contribution
  BY <1>2, <1>3, <1>7 DEF Contribution
<1> QED
  BY <1>2, <1>5, <1>6, <1>7, <1>8

\* What is merged has the buckets of both series.
LEMMA MergedIs ==
    ASSUME NEW r, IsSeries(r), NEW s, IsSeries(s)
    PROVE  IsSeries(MergeWeighted(r, s)) /\ DOMAIN MergeWeighted(r, s) = DOMAIN r \cup DOMAIN s
<1>1. PICK m : m = MergeWeighted(r, s)
  OBVIOUS
<1>2. /\ m = [b \in DOMAIN r \cup DOMAIN s |->
                 IF b \notin DOMAIN s THEN r[b] ELSE IF b \notin DOMAIN r THEN s[b] ELSE Weighted(r[b], s[b])]
  BY <1>1 DEF MergeWeighted
<1>3. DOMAIN m = DOMAIN r \cup DOMAIN s
  BY <1>2
<1>4. m = [b \in DOMAIN m |-> m[b]]
  BY <1>2
<1>5. ASSUME NEW b \in DOMAIN m PROVE m[b] \in Contribution
  <2>1. CASE b \notin DOMAIN s
    BY <1>2, <1>3, <2>1 DEF IsSeries
  <2>2. CASE b \notin DOMAIN r
    BY <1>2, <1>3, <2>2 DEF IsSeries
  <2>3. CASE b \in DOMAIN r /\ b \in DOMAIN s
    <3>1. m[b] = Weighted(r[b], s[b])
      BY <1>2, <2>3
    <3>2. r[b] \in Contribution /\ s[b] \in Contribution
      BY <2>3 DEF IsSeries
    <3> QED
      BY <3>1, <3>2, WeightedIs
  <2> QED
    BY <1>3, <2>1, <2>2, <2>3
<1> QED
  BY <1>1, <1>3, <1>4, <1>5 DEF IsSeries

LEMMA MergeEmpty ==
    ASSUME NEW r, IsSeries(r), NEW s, DOMAIN s = {}
    PROVE  MergeWeighted(r, s) = r /\ MergeWeighted(s, r) = r
<1>1. r = [b \in DOMAIN r |-> r[b]]
  BY DEF IsSeries
<1>2. MergeWeighted(r, s) = [b \in DOMAIN r |-> r[b]]
  BY DEF MergeWeighted
<1>3. MergeWeighted(s, r) = [b \in DOMAIN r |-> r[b]]
  BY DEF MergeWeighted
<1> QED
  BY <1>1, <1>2, <1>3

\* The order of merging makes no difference.
LEMMA MergeAssociates ==
    ASSUME NEW r, IsSeries(r), NEW s, IsSeries(s), NEW t, IsSeries(t)
    PROVE  MergeWeighted(MergeWeighted(r, s), t) = MergeWeighted(r, MergeWeighted(s, t))
<1>1. PICK rs, st, x, y :
        /\ rs = MergeWeighted(r, s) /\ st = MergeWeighted(s, t)
        /\ x = MergeWeighted(rs, t) /\ y = MergeWeighted(r, st)
  OBVIOUS
<1>2. IsSeries(rs) /\ IsSeries(st) /\ DOMAIN rs = DOMAIN r \cup DOMAIN s /\ DOMAIN st = DOMAIN s \cup DOMAIN t
  BY <1>1, MergedIs
<1>3. PICK D : D = DOMAIN r \cup DOMAIN s \cup DOMAIN t
  OBVIOUS
<1>4. IsSeries(x) /\ IsSeries(y) /\ DOMAIN x = D /\ DOMAIN y = D
  <2>1. IsSeries(x) /\ IsSeries(y) /\ DOMAIN x = DOMAIN rs \cup DOMAIN t /\ DOMAIN y = DOMAIN r \cup DOMAIN st
    BY <1>1, <1>2, MergedIs
  <2> QED
    BY <1>2, <1>3, <2>1
<1>5. ASSUME NEW b \in D PROVE x[b] = y[b]
  <2>1. x[b] = IF b \notin DOMAIN t THEN rs[b] ELSE IF b \notin DOMAIN rs THEN t[b] ELSE Weighted(rs[b], t[b])
    BY <1>1, <1>2, <1>3 DEF MergeWeighted
  <2>2. y[b] = IF b \notin DOMAIN st THEN r[b] ELSE IF b \notin DOMAIN r THEN st[b] ELSE Weighted(r[b], st[b])
    BY <1>1, <1>2, <1>3 DEF MergeWeighted
  <2>3. b \in DOMAIN rs => rs[b] = IF b \notin DOMAIN s THEN r[b] ELSE IF b \notin DOMAIN r THEN s[b] ELSE Weighted(r[b], s[b])
    BY <1>1, <1>2 DEF MergeWeighted
  <2>4. b \in DOMAIN st => st[b] = IF b \notin DOMAIN t THEN s[b] ELSE IF b \notin DOMAIN s THEN t[b] ELSE Weighted(s[b], t[b])
    BY <1>1, <1>2 DEF MergeWeighted
  <2>5. b \in DOMAIN r /\ b \in DOMAIN s /\ b \in DOMAIN t
          => Weighted(r[b], Weighted(s[b], t[b])) = Weighted(Weighted(r[b], s[b]), t[b])
    BY WeightedIs DEF IsSeries
  <2> QED
    BY <1>2, <1>3, <2>1, <2>2, <2>3, <2>4, <2>5
<1>6. x = [b \in D |-> x[b]] /\ y = [b \in D |-> y[b]]
  BY <1>4 DEF IsSeries
<1>7. x = y
  BY <1>5, <1>6
<1> QED
  BY <1>1, <1>7

\* A fold of series is one.
LEMMA FoldSeries ==
    ASSUME NEW list, NEW n \in Nat, DOMAIN list = 1..n, \A i \in 1..n : IsSeries(list[i])
    PROVE  IsSeries(MergedSeries(list))
<1>1. PICK m : Merged(m, list, n) /\ MergedSeries(list) = m[n]
  BY FoldIs
<1>2. PICK B : B = {k \in 0..n : ~IsSeries(m[k])}
  OBVIOUS
<1>3. SUFFICES ASSUME B # {} PROVE FALSE
  BY <1>1, <1>2
<1>4. PICK k \in B : \A j \in B : k <= j
  <2>1. B \subseteq Nat
    BY <1>2
  <2> QED
    BY <1>3, <2>1, LeastOf
<1>5. k \in 0..n /\ ~IsSeries(m[k])
  BY <1>2
<1>6. IsSeries(<<>>)
  BY DEF IsSeries
<1>7. k # 0
  BY <1>1, <1>5, <1>6 DEF Merged
<1>8. IsSeries(m[k - 1])
  BY <1>2, <1>4, <1>5, <1>7
<1>9. m[k] = MergeWeighted(m[k - 1], list[k]) /\ IsSeries(list[k])
  BY <1>1, <1>5, <1>7 DEF Merged
<1> QED
  BY <1>5, <1>8, <1>9, MergedIs

-----------------------------------------------------------------------------
(* Lists                                                                   *)

IsList(s, n) == n \in Nat /\ s = [i \in 1..n |-> s[i]]

\* c is s, then t.
IsJoined(c, s, n, t, m) ==
    /\ IsList(c, n + m)
    /\ \A i \in 1..n : c[i] = s[i]
    /\ \A i \in 1..m : c[n + i] = t[i]

LEMMA ConcatIs ==
    ASSUME NEW s, NEW n, IsList(s, n), NEW t, NEW m, IsList(t, m)
    PROVE  IsJoined(s \o t, s, n, t, m)
<1>0. n \in Nat /\ m \in Nat
  BY DEF IsList
<1>1. PICK S : S = {s[i] : i \in 1..n} \cup {t[i] : i \in 1..m}
  OBVIOUS
<1>2. s \in Seq(S) /\ Len(s) = n
  <2>1. s \in [1..n -> S]
    BY <1>1 DEF IsList
  <2> QED
    BY <1>0, <2>1
<1>3. t \in Seq(S) /\ Len(t) = m
  <2>1. t \in [1..m -> S]
    BY <1>1 DEF IsList
  <2> QED
    BY <1>0, <2>1
<1>4. PICK c : c = s \o t
  OBVIOUS
<1>5. c \in Seq(S) /\ Len(c) = n + m
  <2>1. s \o t \in Seq(S)
    BY <1>2, <1>3
  <2>2. Len(s \o t) = Len(s) + Len(t)
    BY <1>2, <1>3
  <2> QED
    BY <1>2, <1>3, <1>4, <2>1, <2>2
<1>6. c = [i \in 1..(n + m) |-> c[i]]
  BY <1>0, <1>5
<1>7. \A i \in 1..n : c[i] = s[i]
  BY <1>0, <1>2, <1>3, <1>4
<1>8. \A i \in 1..m : c[n + i] = t[i]
  BY <1>0, <1>2, <1>3, <1>4
<1> QED
  BY <1>0, <1>4, <1>6, <1>7, <1>8 DEF IsList, IsJoined

LEMMA NoList == IsList(<<>>, 0)
BY DEF IsList

-----------------------------------------------------------------------------
(* The days that have a value                                              *)

RecordDays(records_, p, f) == {r.time : r \in {q \in ApplyVizFilters(records_, p, f) : q.time # None}}

TableDays(t, p, v) == IF "time" \notin CoordColumns(t) THEN {} ELSE {Date(t, m) : m \in Of(t, p, v)}

GridDays(ds, p, v) == {x.time : x \in GridRawValues(ds, p, v)}

Days(d, p, f) ==
    RecordDays(d.records, p, f)
        \cup (UNION {TableDays(d.tables[i], p, VizFilterToRecordsFilter(f)) : i \in DOMAIN d.tables})
        \cup (UNION {GridDays(d.grids[i].ds, p, VizFilterToRecordsFilter(f)) : i \in DOMAIN d.grids})

Buckets(resolution, days) == {BucketOf(resolution, day) : day \in days}

LEMMA DailyBuckets == ASSUME NEW S PROVE Buckets("daily", S) = S
BY DEF Buckets, BucketOf

LEMMA BucketsUnion ==
    ASSUME NEW resolution, NEW S, NEW T
    PROVE  Buckets(resolution, S \cup T) = Buckets(resolution, S) \cup Buckets(resolution, T)
BY DEF Buckets

LEMMA RecordBuckets ==
    ASSUME NEW d, NEW p, NEW f, NEW resolution
    PROVE  DOMAIN ByCount(RecordSeries(d, p, f, resolution)) = Buckets(resolution, RecordDays(d.records, p, f))
<1>1. PICK S : S = {r \in ApplyVizFilters(d.records, p, f) : r.time # None}
  OBVIOUS
<1>2. DOMAIN RecordSeries(d, p, f, resolution) = {BucketOf(resolution, r.time) : r \in S}
  BY <1>1 DEF RecordSeries, MeansBy
<1>3. RecordDays(d.records, p, f) = {r.time : r \in S}
  BY <1>1 DEF RecordDays
<1> QED
  BY <1>2, <1>3 DEF ByCount, Buckets

\* The buckets of a table's averages are those of its days.
LEMMA TableBuckets ==
    ASSUME NEW t, IsTable(t), Binds(t, CoordColumns(t)),
           "time" \in CoordColumns(t) => \A m \in BaseMelted(t) : m.cell["time"] # None,
           NEW p, NEW v, NEW resolution
    PROVE  DOMAIN ByCount(TableTimeseries(t, p, v, resolution)) = Buckets(resolution, TableDays(t, p, v))
<1>1. CASE "time" \notin CoordColumns(t)
  BY <1>1 DEF TableTimeseries, TableDays, ByCount, Buckets
<1>2. CASE "time" \in CoordColumns(t)
  <2>1. ASSUME NEW m \in Of(t, p, v) PROVE Date(t, m) # None
    <3>1. m \in BaseMelted(t)
      BY DEF Of, Matching
    <3> QED
      BY <1>2, <3>1, TimeOfObservation
  <2>2. DOMAIN TableTimeseries(t, p, v, resolution)
          = {IF Date(t, m) = None THEN None ELSE BucketOf(resolution, Date(t, m)) : m \in Of(t, p, v)}
    BY <1>2 DEF TableTimeseries, MeansBy
  <2>3. DOMAIN TableTimeseries(t, p, v, resolution) = {BucketOf(resolution, Date(t, m)) : m \in Of(t, p, v)}
    BY <2>1, <2>2
  <2>4. TableDays(t, p, v) = {Date(t, m) : m \in Of(t, p, v)}
    BY <1>2 DEF TableDays
  <2> QED
    BY <2>3, <2>4 DEF ByCount, Buckets
<1> QED
  BY <1>1, <1>2

\* The buckets of a grid's averages are those of its days.
LEMMA GridBuckets ==
    ASSUME NEW ds, NEW p, NEW v, NEW resolution \in Resolutions
    PROVE  DOMAIN AsOne(GridTimeseries(ds, p, v, resolution)) = Buckets(resolution, GridDays(ds, p, v))
<1>1. PICK values : values = GridRawValues(ds, p, v)
  OBVIOUS
<1>2. GridTimeseries(ds, p, v, resolution) = BucketMeans(values, resolution)
  BY <1>1 DEF GridTimeseries
<1>3. PICK days : days = SeriesOf(values, LAMBDA x : x.time, LAMBDA x : x.value)
  OBVIOUS
<1>4. DOMAIN days = {x.time : x \in values}
  BY <1>3 DEF SeriesOf
<1>5. CASE resolution = "seasonal"
  <2>1. BucketMeans(values, resolution) = SeriesOf(DOMAIN days, SeasonBucketDate, LAMBDA y : days[y])
    BY <1>3, <1>5 DEF BucketMeans
  <2>2. DOMAIN BucketMeans(values, resolution) = {SeasonBucketDate(y) : y \in DOMAIN days}
    BY <2>1 DEF SeriesOf
  <2>3. \A y : BucketOf(resolution, y) = SeasonBucketDate(y)
    BY <1>5 DEF BucketOf
  <2> QED
    BY <1>1, <1>2, <1>4, <2>2, <2>3 DEF AsOne, Buckets, GridDays
<1>6. CASE resolution # "seasonal"
  <2>1. BucketMeans(values, resolution) = SeriesOf(values, LAMBDA x : BucketOf(resolution, x.time), LAMBDA x : x.value)
    BY <1>6 DEF BucketMeans
  <2>2. DOMAIN BucketMeans(values, resolution) = {BucketOf(resolution, x.time) : x \in values}
    BY <2>1 DEF SeriesOf
  <2> QED
    BY <1>1, <1>2, <2>2 DEF AsOne, Buckets, GridDays
<1> QED
  BY <1>5, <1>6

\* What the tables and the grids bring to a series.
TableParts(d, p, f, resolution) ==
    [i \in DOMAIN d.tables |->
        ByCount(TableTimeseries(d.tables[i], p, VizFilterToRecordsFilter(f), resolution))]

GridParts(d, p, f, resolution) ==
    [i \in DOMAIN d.grids |->
        AsOne(GridTimeseries(d.grids[i].ds, p, VizFilterToRecordsFilter(f), resolution))]

\* A chart of a series merges the rows with the tables and the grids.
LEMMA TimeseriesIs ==
    ASSUME NEW d, NEW p, NEW f, NEW resolution
    PROVE  /\ Timeseries(d, p, f, resolution)
                = MergeWeighted(ByCount(RecordSeries(d, p, f, resolution)),
                                MergedSeries(TableParts(d, p, f, resolution) \o GridParts(d, p, f, resolution)))
           /\ MergedTimeseries(d, p, f, resolution, FALSE)
                = MergedSeries(TableParts(d, p, f, resolution) \o <<>>)
BY DEF Timeseries, MergedTimeseries, MergedSeries, TableParts, GridParts

-----------------------------------------------------------------------------
(* Comparison                                                              *)

TimesOf(S) == {x.time : x \in S}

\* The values that a comparison averages by their dates.
DayValue(days, day) == [from |-> <<"records", day>>, time |-> day, value |-> days[day]]

TableValue(v) == [from |-> <<"table", v>>, time |-> v.time, value |-> [sum |-> v.value, n |-> 1]]

GridValue(v) == [from |-> <<"grid", v>>, time |-> v.time, value |-> v.value]

DayValues(days) == {DayValue(days, day) : day \in DOMAIN days}

TableValues(S) == {TableValue(v) : v \in S}

GridValues(S) == {GridValue(v) : v \in S}

LEMMA TimesOfValues ==
    /\ \A days : TimesOf(DayValues(days)) = DOMAIN days
    /\ \A S : TimesOf(TableValues(S)) = TimesOf(S) /\ TimesOf(GridValues(S)) = TimesOf(S)
<1>1. \A days, day : DayValue(days, day).time = day
  BY DEF DayValue
<1>2. \A v : TableValue(v).time = v.time
  BY DEF TableValue
<1>3. \A v : GridValue(v).time = v.time
  BY DEF GridValue
<1>4. ASSUME NEW days PROVE TimesOf(DayValues(days)) = DOMAIN days
  BY <1>1 DEF TimesOf, DayValues
<1>5. ASSUME NEW S PROVE TimesOf(TableValues(S)) = TimesOf(S)
  BY <1>2 DEF TimesOf, TableValues
<1>6. ASSUME NEW S PROVE TimesOf(GridValues(S)) = TimesOf(S)
  BY <1>3 DEF TimesOf, GridValues
<1> QED
  BY <1>4, <1>5, <1>6

-----------------------------------------------------------------------------
(* The extent of the dates                                                 *)

Spanned(range, S) ==
    /\ range[1] = None <=> S = {}
    /\ range[2] = None <=> S = {}
    /\ \A x \in S : /\ range[1] \in Int /\ range[2] \in Int
                    /\ range[1] <= x /\ x <= range[2]

LEMMA DayIs ==
    ASSUME NEW x \in Int
    PROVE  Day(x) \in Int /\ Day(x) = x \div TicksPerDay
<1>1. x # None
  BY ObservationsAssumption
<1>2. x \div TicksPerDay \in Int
  BY DayBounds
<1> QED
  BY <1>1, <1>2 DEF Day

\* The times of a grid are numbers, and its time is a dimension.
LEMMA GridTimeAt ==
    ASSUME NEW ds, IsGrid(ds), HasNumbers(ds), HasTime(ds)
    PROVE  /\ "time" \in DOMAIN ds.index
           /\ \A k \in ds.index["time"] : TimeAt(ds, k) \in Int
<1>1. <<"time">> \in Seq(DOMAIN ds.index)
  BY DEF HasTime, IsGrid
<1>2. "time" \in DOMAIN ds.index
  BY <1>1
<1>3. \A k \in ds.index["time"] : TimeAt(ds, k) \in Int
  BY DEF HasTime, HasNumbers, TimeAt
<1> QED
  BY <1>2, <1>3

\* A grid has finitely many days.
LEMMA GridExtentDays ==
    ASSUME NEW ds, IsGrid(ds), HasNumbers(ds), HasTime(ds),
           NEW S, S = {Day(TimeAt(ds, k)) : k \in ds.index["time"]}
    PROVE  IsFiniteSet(S) /\ S \subseteq Int
<1>1. /\ "time" \in DOMAIN ds.index
      /\ \A k \in ds.index["time"] : TimeAt(ds, k) \in Int
  BY GridTimeAt
<1>2. PICK K, g : K = ds.index["time"] /\ g = [k \in K |-> Day(TimeAt(ds, k))]
  OBVIOUS
<1>3. IsFiniteSet(K)
  BY <1>1, <1>2 DEF IsGrid
<1>4. S = {g[k] : k \in K}
  BY <1>2
<1>5. IsFiniteSet(S)
  BY <1>3, <1>4, ImageFinite
<1>6. S \subseteq Int
  BY <1>1, DayIs
<1> QED
  BY <1>5, <1>6

FormedAs(p) ==
    /\ p.kind = "table" => IsTable(p.table)
    /\ p.kind = "grid" => IsGrid(p.ds) /\ HasNumbers(p.ds)

\* A selection of dates changes no array.
LEMMA FilteredArrays ==
    ASSUME NEW ds, IsGrid(ds), NEW f
    PROVE  Filtered(ds, f).vars = ApplyBbox(ds, f).vars
<1>1. PICK b, g : b = ApplyBbox(ds, f) /\ g = Filtered(ds, f)
  OBVIOUS
<1>2. CASE HasTime(b)
  <2>1. PICK K : g = [b EXCEPT !.index["time"] = K]
    BY <1>1, <1>2 DEF Filtered, ApplyDateRange
  <2>2. DOMAIN b = {"index", "coords", "vars"}
    BY <1>1, BboxCuts DEF GridCut, IsGrid
  <2> QED
    BY <1>1, <2>1, <2>2
<1>3. CASE ~HasTime(b)
  BY <1>1, <1>3 DEF Filtered, ApplyDateRange
<1> QED
  BY <1>2, <1>3

\* A filter leaves an array its dimensions, and may repeat it along others.
LEMMA FilteredKeeps ==
    ASSUME NEW ds, IsGrid(ds), NEW f, NEW v \in DOMAIN ds.vars
    PROVE  Dims(ds.vars[v]) \subseteq Dims(Filtered(ds, f).vars[v])
<1>1. PICK b : b = ApplyBbox(ds, f) /\ Filtered(ds, f).vars = b.vars
  BY FilteredArrays
<1>2. CASE HasBox(f) /\ HasPlace(ds)
  <2>1. PICK lat, lon, masked :
          /\ lat = ds.coords[LatName(ds)] /\ lon = ds.coords[LonName(ds)]
          /\ masked \in Seq(DOMAIN ds.index)
          /\ b = Where(ds, masked, InsideBox(ds, f, lat, lon, masked))
    BY <1>1, <1>2, BboxIs
  <2>2. PICK inside : inside = InsideBox(ds, f, lat, lon, masked)
    OBVIOUS
  <2>3. inside \subseteq Positions(ds, ToSet(masked)) /\ b = Where(ds, masked, inside)
    BY <2>1, <2>2 DEF InsideBox
  <2>4. FilledInside(ds, b, v, masked, inside)
    BY <2>1, <2>3, WhereFills
  <2> QED
    BY <1>1, <2>4 DEF FilledInside
<1>3. CASE ~(HasBox(f) /\ HasPlace(ds))
  BY <1>1, <1>3 DEF ApplyBbox
<1> QED
  BY <1>2, <1>3

\* The days of a grid's values are among those of its axis.
LEMMA GridDaysOnAxis ==
    ASSUME NEW ds, IsGrid(ds), NEW p, NEW v, NEW day \in GridDays(ds, p, v)
    PROVE  HasTime(ds) /\ day \in {Day(TimeAt(ds, k)) : k \in ds.index["time"]}
<1>1. PICK g, array : g = Filtered(ds, v) /\ array = g.vars[p]
  OBVIOUS
<1>2. Timed(ds, p) /\ \E k \in Steps(g, array) : day = Day(TimeAt(g, k))
  BY <1>1 DEF GridDays, GridRawValues, ValuesOf, StepValues
<1>3. PICK k \in Steps(g, array) : day = Day(TimeAt(g, k))
  BY <1>2
<1>4. PICK q \in Positions(g, Dims(array)) : k = q["time"]
  BY <1>3 DEF Steps, Cells
<1>5. GridCut(g, ds)
  BY <1>1, FilteredCuts
<1>6. "time" \in DOMAIN ds.index /\ "time" \in DOMAIN ds.coords
  <2>1. "time" \in DOMAIN ds.coords
    BY <1>2 DEF Timed, HasTime
  <2>2. <<"time">> \in Seq(DOMAIN ds.index)
    BY <2>1 DEF IsGrid
  <2>3. "time" \in DOMAIN ds.index
    BY <2>2
  <2> QED
    BY <2>1, <2>3
<1>7. "time" \in Dims(array)
  BY <1>1, <1>2, FilteredKeeps DEF Timed
<1>8. k \in g.index["time"]
  BY <1>4, <1>7, PositionIs
<1>9. k \in ds.index["time"] /\ TimeAt(g, k) = TimeAt(ds, k)
  BY <1>5, <1>6, <1>8 DEF GridCut, TimeAt
<1> QED
  BY <1>3, <1>6, <1>9 DEF HasTime

-----------------------------------------------------------------------------
(* Sums of the values of observations, and of the cells of an array        *)

ValueSum(S) == MapThenSumSet(LAMBDA x : x.value, S)

SumsValues(g, S) ==
    g = [s \in SUBSET S |-> IF s = {} THEN 0 ELSE First(s).value + g[s \ {First(s)}]]

LEMMA ValueSumInt ==
    ASSUME NEW S, IsFiniteSet(S), \A x \in S : x.value \in Int
    PROVE  ValueSum(S) \in Int
<1>1. PICK f : f = [x \in S |-> x.value]
  OBVIOUS
<1>2. ASSUME NEW g PROVE SumsValues(g, S) <=> Adds(g, f, S)
  <2>1. ASSUME NEW s \in SUBSET S, s # {} PROVE f[First(s)] = First(s).value
    BY <1>1, <2>1, FirstIn
  <2>2. [s \in SUBSET S |-> IF s = {} THEN 0 ELSE First(s).value + g[s \ {First(s)}]]
          = [s \in SUBSET S |-> IF s = {} THEN 0 ELSE f[First(s)] + g[s \ {First(s)}]]
    BY <2>1
  <2> QED
    BY <2>2 DEF SumsValues, Adds
<1> DEFINE G == CHOOSE g : SumsValues(g, S)
<1>3. SumsValues(G, S)
  <2>1. \E g : Adds(g, f, S)
    BY AddsExists
  <2> QED
    BY <1>2, <2>1
<1>4. ValueSum(S) = G[S]
  BY DEF ValueSum, MapThenSumSet, MapThenFoldSet, SumsValues, First
<1> HIDE DEF G
<1>5. Adds(G, f, S)
  BY <1>2, <1>3
<1>6. \A x \in S : f[x] \in Int
  BY <1>1
<1>7. \A s \in SUBSET S : G[s] \in Int
  BY <1>5, <1>6, AddsInt
<1> QED
  BY <1>4, <1>7

CellSum(array, S) == MapThenSumSet(LAMBDA p : Cell(array, p), S)

SumsCells(g, array, S) ==
    g = [s \in SUBSET S |-> IF s = {} THEN 0 ELSE Cell(array, First(s)) + g[s \ {First(s)}]]

LEMMA CellSumInt ==
    ASSUME NEW array, NEW S, IsFiniteSet(S), \A p \in S : Cell(array, p) \in Int
    PROVE  CellSum(array, S) \in Int
<1>1. PICK f : f = [p \in S |-> Cell(array, p)]
  OBVIOUS
<1>2. ASSUME NEW g PROVE SumsCells(g, array, S) <=> Adds(g, f, S)
  <2>1. ASSUME NEW s \in SUBSET S, s # {} PROVE f[First(s)] = Cell(array, First(s))
    BY <1>1, <2>1, FirstIn
  <2>2. [s \in SUBSET S |-> IF s = {} THEN 0 ELSE Cell(array, First(s)) + g[s \ {First(s)}]]
          = [s \in SUBSET S |-> IF s = {} THEN 0 ELSE f[First(s)] + g[s \ {First(s)}]]
    BY <2>1
  <2> QED
    BY <2>2 DEF SumsCells, Adds
<1> DEFINE G == CHOOSE g : SumsCells(g, array, S)
<1>3. SumsCells(G, array, S)
  <2>1. \E g : Adds(g, f, S)
    BY AddsExists
  <2> QED
    BY <1>2, <2>1
<1>4. CellSum(array, S) = G[S]
  BY DEF CellSum, MapThenSumSet, MapThenFoldSet, SumsCells, First
<1> HIDE DEF G
<1>5. Adds(G, f, S)
  BY <1>2, <1>3
<1>6. \A p \in S : f[p] \in Int
  BY <1>1
<1>7. \A s \in SUBSET S : G[s] \in Int
  BY <1>5, <1>6, AddsInt
<1> QED
  BY <1>4, <1>7

-----------------------------------------------------------------------------
(* The numbers of a filtered grid                                          *)

\* The cells of a position are those of its restriction.
LEMMA CellNarrowed ==
    ASSUME NEW array, NEW D, Dims(array) \subseteq D, NEW p, NEW q, q = [d \in D |-> p[d]]
    PROVE  Cell(array, q) = Cell(array, p)
<1>1. PICK x, y : x = [d \in Dims(array) |-> p[d]] /\ y = [d \in Dims(array) |-> q[d]]
  OBVIOUS
<1>2. x = y
  BY <1>1
<1> QED
  BY <1>1, <1>2 DEF Cell

CellsAreNumbers(g, array) == \A p \in Positions(g, Dims(array)) : Cell(array, p) \in OrNone(Int)

\* A mask leaves numbers or nothing.
LEMMA WhereNumbers ==
    ASSUME NEW ds, IsGrid(ds), NEW v \in DOMAIN ds.vars, CellsAreNumbers(ds, ds.vars[v]),
           NEW masked \in Seq(DOMAIN ds.index), NEW inside, NEW b, b = Where(ds, masked, inside)
    PROVE  CellsAreNumbers(ds, b.vars[v])
<1>1. PICK x, dims, w : /\ x = ds.vars[v] /\ dims = Together(x.dims, masked)
                        /\ w = MaskedAs(ds, x, masked, inside)
  OBVIOUS
<1>2. b.vars[v] = w
  <2>1. /\ DOMAIN b = DOMAIN ds /\ b.coords = ds.coords
        /\ b.index = [d \in DOMAIN ds.index |->
                         IF d \in ToSet(masked) THEN {p[d] : p \in inside} ELSE ds.index[d]]
        /\ DOMAIN b.vars = DOMAIN ds.vars
        /\ \A u \in DOMAIN ds.vars : b.vars[u] = MaskedAs(ds, ds.vars[u], masked, inside)
    BY WhereIs
  <2> QED
    BY <1>1, <2>1
<1>3. PICK D, E : D = ToSet(dims) /\ E = Dims(x)
  OBVIOUS
<1>4. D \subseteq DOMAIN ds.index /\ E \subseteq D
  <2>1. x.dims \in Seq(DOMAIN ds.index)
    BY <1>1 DEF IsGrid
  <2>2. dims \in Seq(DOMAIN ds.index) /\ ToSet(dims) = ToSet(x.dims) \cup ToSet(masked)
    BY <1>1, <2>1, TogetherIs
  <2> QED
    BY <1>3, <2>2, InNames DEF Dims
<1>5. PICK at : /\ at = [p \in Positions(ds, D) |->
                           IF [d \in ToSet(masked) |-> p[d]] \in inside THEN Cell(x, p) ELSE None]
                /\ w = [dims |-> dims, at |-> at]
  BY <1>1, <1>3 DEF MaskedAs
<1>6. Dims(w) = D
  BY <1>3, <1>5 DEF Dims
<1>7. ASSUME NEW p \in Positions(ds, D) PROVE Cell(w, p) \in OrNone(Int)
  <2>1. p = [d \in D |-> p[d]]
    BY PositionIs
  <2>2. Cell(w, p) = at[p]
    BY <1>5, <1>6, <2>1 DEF Cell
  <2>3. at[p] \in {Cell(x, p), None}
    BY <1>5
  <2>4. PICK r : r = [d \in E |-> p[d]]
    OBVIOUS
  <2>5. r \in Positions(ds, E)
    <3>1. [d \in E |-> p[d]] \in Positions(ds, E)
      BY <1>4, Narrowed
    <3> QED
      BY <2>4, <3>1
  <2>6. Cell(x, r) = Cell(x, p)
    <3>1. Cell(x, [d \in E |-> p[d]]) = Cell(x, p)
      BY <1>3, CellNarrowed
    <3> QED
      BY <2>4, <3>1
  <2>7. Cell(x, r) \in OrNone(Int)
    BY <1>1, <1>3, <2>5 DEF CellsAreNumbers
  <2> QED
    BY <2>2, <2>3, <2>6, <2>7 DEF OrNone
<1> QED
  BY <1>2, <1>6, <1>7 DEF CellsAreNumbers

\* The variables of a filtered grid hold numbers or nothing.
LEMMA FilteredNumbers ==
    ASSUME NEW ds, IsGrid(ds), HasNumbers(ds), NEW f, NEW v \in DOMAIN ds.vars, NEW g, g = Filtered(ds, f)
    PROVE  CellsAreNumbers(g, g.vars[v])
<1>1. PICK b : b = ApplyBbox(ds, f) /\ g.vars = b.vars
  BY FilteredArrays
<1>2. CellsAreNumbers(ds, ds.vars[v])
  BY DEF HasNumbers, CellsAreNumbers
<1>3. CellsAreNumbers(ds, b.vars[v])
  <2>1. CASE HasBox(f) /\ HasPlace(ds)
    <3>1. PICK lat, lon, masked :
            /\ masked \in Seq(DOMAIN ds.index)
            /\ b = Where(ds, masked, InsideBox(ds, f, lat, lon, masked))
      BY <1>1, <2>1, BboxIs
    <3> QED
      BY <1>2, <3>1, WhereNumbers
  <2>2. CASE ~(HasBox(f) /\ HasPlace(ds))
    BY <1>1, <1>2, <2>2 DEF ApplyBbox
  <2> QED
    BY <2>1, <2>2
<1>4. PICK x, D : x = g.vars[v] /\ D = Dims(x)
  OBVIOUS
<1>5. GridCut(g, ds)
  BY FilteredCuts
<1>6. D \subseteq DOMAIN ds.index
  <2>1. v \in DOMAIN g.vars /\ IsGrid(g) /\ DOMAIN g.index = DOMAIN ds.index
    BY <1>5 DEF GridCut
  <2>2. x.dims \in Seq(DOMAIN ds.index)
    BY <1>4, <2>1 DEF IsGrid
  <2> QED
    BY <1>4, <2>2, InNames DEF Dims
<1>7. ASSUME NEW p \in Positions(g, D) PROVE Cell(x, p) \in OrNone(Int)
  <2>1. \A d \in D : g.index[d] \subseteq ds.index[d]
    BY <1>5, <1>6 DEF GridCut
  <2>2. p = [d \in D |-> p[d]] /\ \A d \in D : p[d] \in ds.index[d]
    BY <2>1, PositionIs
  <2>3. p \in Positions(ds, D)
    BY <2>2, PositionIs
  <2> QED
    BY <1>1, <1>3, <1>4, <2>3 DEF CellsAreNumbers
<1> QED
  BY <1>4, <1>7 DEF CellsAreNumbers

-----------------------------------------------------------------------------
(* The values of the tables and of the grids are finitely many             *)

LEMMA TableValuesFinite ==
    ASSUME NEW t, IsTable(t), NEW p, NEW v
    PROVE  IsFiniteSet(Of(t, p, v)) /\ IsFiniteSet(TableRawValues(t, p, v))
<1>1. IsFiniteSet(Of(t, p, v))
  <2>1. Of(t, p, v) \subseteq BaseMelted(t)
    BY DEF Of, Matching
  <2> QED
    BY <2>1, BaseMeltedFinite, FS_Subset
<1>2. PICK g : g = [m \in Of(t, p, v) |->
                      [row |-> m.row, station |-> Station(t, m), time |-> Date(t, m), value |-> m.value]]
  OBVIOUS
<1>3. IsFiniteSet({g[m] : m \in Of(t, p, v)})
  BY <1>1, ImageFinite
<1>4. TableRawValues(t, p, v) = {g[m] : m \in Of(t, p, v)}
  BY <1>2 DEF TableRawValues
<1> QED
  BY <1>1, <1>3, <1>4

\* The means over a grid are quotients, of finitely many days.
IsValues(S) == IsFiniteSet(S) /\ \A x \in S : x.value \in Quotient

\* The averages of the steps of a grid are finitely many quotients.
LEMMA GridValuesAre ==
    ASSUME NEW ds, IsGrid(ds), HasNumbers(ds), NEW p, NEW v
    PROVE  IsValues(GridRawValues(ds, p, v))
<1>1. CASE ~Timed(ds, p)
  BY <1>1, FS_EmptySet DEF GridRawValues, IsValues
<1>2. CASE Timed(ds, p)
  <2>1. PICK g, array, C : g = Filtered(ds, v) /\ array = g.vars[p] /\ C = Cells(g, array)
    OBVIOUS
  <2>2. p \in DOMAIN ds.vars
    BY <1>2 DEF Timed
  <2>3. IsGrid(g) /\ p \in DOMAIN g.vars
    BY <2>1, <2>2, FilteredCuts DEF GridCut
  <2>4. IsFiniteSet(C)
    <3>1. Dims(array) \subseteq DOMAIN g.index
      <4>1. array.dims \in Seq(DOMAIN g.index)
        BY <2>1, <2>3 DEF IsGrid
      <4> QED
        BY <4>1, InNames DEF Dims
    <3>2. IsFiniteSet(Positions(g, Dims(array)))
      BY <2>3, <3>1, PositionsFinite
    <3>3. C \subseteq Positions(g, Dims(array))
      BY <2>1 DEF Cells
    <3> QED
      BY <3>2, <3>3, FS_Subset
  <2>5. ASSUME NEW q \in C PROVE Cell(array, q) \in Int
    <3>1. CellsAreNumbers(g, array)
      BY <2>1, <2>2, FilteredNumbers
    <3> QED
      BY <2>1, <3>1 DEF Cells, CellsAreNumbers, OrNone
  <2>6. ASSUME NEW k PROVE StepMean(g, array, k) \in Quotient
    <3>1. PICK filled : filled = {q \in C : q["time"] = k}
      OBVIOUS
    <3>2. IsFiniteSet(filled) /\ \A q \in filled : Cell(array, q) \in Int
      BY <2>4, <2>5, <3>1, FS_Subset
    <3>3. StepMean(g, array, k) = [sum |-> CellSum(array, filled), n |-> Cardinality(filled)]
      BY <2>1, <3>1 DEF StepMean, MeanOf, CellSum
    <3>4. CellSum(array, filled) \in Int /\ Cardinality(filled) \in Int
      BY <3>2, CellSumInt, FS_CardinalityType
    <3> QED
      BY <3>3, <3>4 DEF Quotient
  <2>7. PICK K, h : /\ K = Steps(g, array)
                    /\ h = [k \in K |-> [time |-> Day(TimeAt(g, k)), step |-> k, value |-> StepMean(g, array, k)]]
    OBVIOUS
  <2>8. IsFiniteSet(K)
    <3>1. PICK s : s = [q \in C |-> q["time"]]
      OBVIOUS
    <3>2. IsFiniteSet({s[q] : q \in C})
      BY <2>4, ImageFinite
    <3>3. K = {s[q] : q \in C}
      BY <2>1, <2>7, <3>1 DEF Steps
    <3> QED
      BY <3>2, <3>3
  <2>9. GridRawValues(ds, p, v) = {h[k] : k \in K}
    BY <1>2, <2>1, <2>7 DEF GridRawValues, ValuesOf, StepValues
  <2>10. IsFiniteSet({h[k] : k \in K})
    BY <2>8, ImageFinite
  <2>11. \A k \in K : h[k].value \in Quotient
    BY <2>6, <2>7
  <2> QED
    BY <2>9, <2>10, <2>11 DEF IsValues
<1> QED
  BY <1>1, <1>2

-----------------------------------------------------------------------------
(* What is merged are series                                               *)

\* Sums of numbers, counted.
IsMeans(series) ==
    /\ series = [b \in DOMAIN series |-> series[b]]
    /\ \A b \in DOMAIN series : series[b].sum \in Int /\ series[b].n \in Nat

LEMMA CountedSeries ==
    ASSUME NEW series, IsMeans(series)
    PROVE  IsSeries(ByCount(series))
BY DEF IsMeans, ByCount, IsSeries, Contribution, Quotient

LEMMA RecordMeans ==
    ASSUME NEW d, IsFiniteSet(d.records), \A r \in d.records : r.value \in Int, NEW p, NEW f, NEW resolution
    PROVE  IsMeans(RecordSeries(d, p, f, resolution))
<1>1. PICK S : S = {r \in ApplyVizFilters(d.records, p, f) : r.time # None}
  OBVIOUS
<1>2. IsFiniteSet(S) /\ \A r \in S : r.value \in Int
  <2>1. S \subseteq d.records
    BY <1>1 DEF ApplyVizFilters, RecordsMatching
  <2> QED
    BY <2>1, FS_Subset
<1>3. PICK B, part : /\ B = {BucketOf(resolution, r.time) : r \in S}
                     /\ part = [b \in B |-> {r \in S : BucketOf(resolution, r.time) = b}]
  OBVIOUS
<1>4. RecordSeries(d, p, f, resolution) = [b \in B |-> [sum |-> ValueSum(part[b]), n |-> Cardinality(part[b])]]
  BY <1>1, <1>3 DEF RecordSeries, MeansBy, MeanOf, ValueSum
<1>5. ASSUME NEW b \in B PROVE ValueSum(part[b]) \in Int /\ Cardinality(part[b]) \in Nat
  <2>1. part[b] \subseteq S
    BY <1>3
  <2>2. IsFiniteSet(part[b]) /\ \A r \in part[b] : r.value \in Int
    BY <1>2, <2>1, FS_Subset
  <2> QED
    BY <2>2, ValueSumInt, FS_CardinalityType
<1> QED
  BY <1>4, <1>5 DEF IsMeans

\* A table's averages are quotients, each of at least one value.
LEMMA TableMeans ==
    ASSUME NEW t, IsTable(t), NEW p, NEW v, NEW resolution
    PROVE  IsMeans(TableTimeseries(t, p, v, resolution))
<1>1. CASE "time" \notin CoordColumns(t)
  BY <1>1 DEF TableTimeseries, IsMeans
<1>2. CASE "time" \in CoordColumns(t)
  <2>1. PICK S, bucket : /\ S = Of(t, p, v)
                         /\ bucket = [m \in S |-> IF Date(t, m) = None THEN None ELSE BucketOf(resolution, Date(t, m))]
    OBVIOUS
  <2>2. IsFiniteSet(S) /\ \A m \in S : m.value \in Int
    <3>1. IsFiniteSet(S)
      BY <2>1, TableValuesFinite
    <3>2. ASSUME NEW m \in S PROVE m.value \in Int
      <4>1. m \in BaseMelted(t)
        BY <2>1 DEF Of, Matching
      <4>2. PICK i \in DOMAIN t.rows, w \in VariableColumns(t) : t.rows[i][w] # None /\ m = MeltedAs(t, i, w)
        BY <4>1, MeltedIs
      <4>3. m.value = t.rows[i][w] /\ w \in t.numeric
        BY <4>2 DEF MeltedAs, VariableColumns
      <4> QED
        BY <4>2, <4>3 DEF IsTable, OrNone
    <3> QED
      BY <3>1, <3>2
  <2>3. PICK B, part : /\ B = {bucket[m] : m \in S}
                       /\ part = [b \in B |-> {m \in S : bucket[m] = b}]
    OBVIOUS
  <2>4. TableTimeseries(t, p, v, resolution) = [b \in B |-> [sum |-> ValueSum(part[b]), n |-> Cardinality(part[b])]]
    <3>1. B = {IF Date(t, m) = None THEN None ELSE BucketOf(resolution, Date(t, m)) : m \in S}
      BY <2>1, <2>3
    <3>2. ASSUME NEW b \in B
          PROVE  part[b] = {m \in S : (IF Date(t, m) = None THEN None ELSE BucketOf(resolution, Date(t, m))) = b}
      BY <2>1, <2>3
    <3>3. TableTimeseries(t, p, v, resolution)
            = [b \in B |->
                 [sum |-> ValueSum({m \in S : (IF Date(t, m) = None THEN None ELSE BucketOf(resolution, Date(t, m))) = b}),
                  n |-> Cardinality({m \in S : (IF Date(t, m) = None THEN None ELSE BucketOf(resolution, Date(t, m))) = b})]]
      BY <1>2, <2>1, <3>1 DEF TableTimeseries, MeansBy, MeanOf, ValueSum
    <3> QED
      BY <3>2, <3>3
  <2>5. ASSUME NEW b \in B PROVE ValueSum(part[b]) \in Int /\ Cardinality(part[b]) \in Nat
    <3>1. part[b] \subseteq S
      BY <2>3
    <3>2. IsFiniteSet(part[b]) /\ \A m \in part[b] : m.value \in Int
      BY <2>2, <3>1, FS_Subset
    <3> QED
      BY <3>2, ValueSumInt, FS_CardinalityType
  <2> QED
    BY <2>4, <2>5 DEF IsMeans
<1> QED
  BY <1>1, <1>2

-----------------------------------------------------------------------------
(* Statistics                                                              *)

\* What MeanOfMeans makes of S.
ValueMean(S) == [sum |-> Total(S).sum, n |-> Total(S).n * Cardinality(S)]

At(S, day) == {x \in S : x.time = day}

DayMeans(S) == [day \in TimesOf(S) |-> ValueMean(At(S, day))]

\* The daily averages are the averages by day.
LEMMA DailyMeans ==
    ASSUME NEW S
    PROVE  /\ SeriesOf(S, LAMBDA x : x.time, LAMBDA x : x.value) = DayMeans(S)
           /\ BucketMeans(S, "daily") = DayMeans(S)
<1>1. SeriesOf(S, LAMBDA x : x.time, LAMBDA x : x.value) = DayMeans(S)
  BY DEF SeriesOf, MeanOfMeans, DayMeans, ValueMean, Total, NoMeans, TimesOf, At
<1>2. BucketMeans(S, "daily") = SeriesOf(S, LAMBDA x : BucketOf("daily", x.time), LAMBDA x : x.value)
  BY DEF BucketMeans
<1>3. \A x : BucketOf("daily", x.time) = x.time
  BY DEF BucketOf
<1>4. BucketMeans(S, "daily") = SeriesOf(S, LAMBDA x : x.time, LAMBDA x : x.value)
  BY <1>2, <1>3, Zenon DEF SeriesOf
<1> QED
  BY <1>1, <1>4

LEMMA ValueMeanQuotient ==
    ASSUME NEW S, IsValues(S)
    PROVE  ValueMean(S) \in Quotient
<1>1. Total(S) \in Quotient /\ Cardinality(S) \in Int
  BY TotalQuotient, FS_CardinalityType DEF IsValues
<1>2. Total(S).sum \in Int /\ Total(S).n \in Int
  BY <1>1 DEF Quotient
<1>3. Total(S).n * Cardinality(S) \in Int
  BY <1>1, <1>2
<1> QED
  BY <1>2, <1>3 DEF ValueMean, Quotient

LEMMA DayMeansSeries ==
    ASSUME NEW S, IsValues(S)
    PROVE  IsSeries(AsOne(DayMeans(S)))
<1>1. ASSUME NEW day PROVE ValueMean(At(S, day)) \in Quotient
  <2>1. IsValues(At(S, day))
    BY FS_Subset DEF IsValues, At
  <2> QED
    BY <2>1, ValueMeanQuotient
<1>2. PICK s : s = DayMeans(S) /\ s = [day \in TimesOf(S) |-> ValueMean(At(S, day))]
  BY DEF DayMeans
<1>3. \A day \in DOMAIN s : s[day] \in Quotient
  BY <1>1, <1>2
<1> QED
  BY <1>2, <1>3 DEF AsOne, IsSeries, Contribution

\* A value of a grid, with the grid.
OfGrid(i, x) == [grid |-> i, time |-> x.time, step |-> x.step, value |-> x.value]

WithGrid(i, S) == {OfGrid(i, x) : x \in S}

\* The mean of a day does not depend on whose values they are said to be.
LEMMA MeansWithGrid ==
    ASSUME NEW S, IsValues(S), \A x \in S : x = [time |-> x.time, step |-> x.step, value |-> x.value], NEW i
    PROVE  DayMeans(WithGrid(i, S)) = DayMeans(S)
<1>1. TimesOf(WithGrid(i, S)) = TimesOf(S)
  <2>1. \A x : OfGrid(i, x).time = x.time
    BY DEF OfGrid
  <2> QED
    BY <2>1 DEF TimesOf, WithGrid
<1>2. ASSUME NEW day PROVE ValueMean(At(WithGrid(i, S), day)) = ValueMean(At(S, day))
  <2>1. PICK A, B, b : A = At(S, day) /\ B = At(WithGrid(i, S), day) /\ b = [x \in A |-> OfGrid(i, x)]
    OBVIOUS
  <2>2. IsFiniteSet(A) /\ A \subseteq S
    BY <2>1, FS_Subset DEF IsValues, At
  <2>3. \A x \in A : b[x].value = x.value /\ x.value \in Quotient
    BY <2>1, <2>2 DEF OfGrid, IsValues
  <2>4. b \in Bijection(A, B)
    <3>1. \A x \in A : b[x] \in B
      BY <2>1 DEF At, WithGrid, OfGrid
    <3>2. ASSUME NEW y \in B PROVE \E x \in A : b[x] = y
      <4>1. PICK x \in S : y = OfGrid(i, x) /\ y.time = day
        BY <2>1 DEF At, WithGrid
      <4>2. x \in A
        BY <2>1, <4>1 DEF At, OfGrid
      <4> QED
        BY <2>1, <4>1, <4>2
    <3>3. ASSUME NEW x \in A, NEW y \in A, b[x] = b[y] PROVE x = y
      <4>1. OfGrid(i, x) = OfGrid(i, y)
        BY <2>1, <3>3
      <4>2. x.time = y.time /\ x.step = y.step /\ x.value = y.value
        BY <4>1 DEF OfGrid
      <4>3. x = [time |-> x.time, step |-> x.step, value |-> x.value]
        BY <2>2
      <4>4. y = [time |-> y.time, step |-> y.step, value |-> y.value]
        BY <2>2
      <4> QED
        BY <4>2, <4>3, <4>4
    <3>4. b \in [A -> B]
      BY <2>1, <3>1
    <3>5. b \in Injection(A, B)
      BY <3>3, <3>4 DEF Injection, IsInjective
    <3>6. b \in Surjection(A, B)
      BY <3>2, <3>4 DEF Surjection
    <3> QED
      BY <3>5, <3>6 DEF Bijection
  <2>5. Total(A) = Total(B)
    BY <2>2, <2>3, <2>4, TotalRenamed
  <2>6. Cardinality(A) = Cardinality(B)
    BY <2>2, <2>4, FS_Bijection DEF ExistsBijection
  <2> QED
    BY <2>1, <2>5, <2>6 DEF ValueMean
<1> QED
  BY <1>1, <1>2 DEF DayMeans

LEMMA GridValuesRecords ==
    ASSUME NEW ds, NEW p, NEW v
    PROVE  \A x \in GridRawValues(ds, p, v) : x = [time |-> x.time, step |-> x.step, value |-> x.value]
BY DEF GridRawValues, ValuesOf, StepValues

\* The values of one grid are those of all.
LEMMA RawOfOneGrid ==
    ASSUME NEW d, DOMAIN d.grids = 1..1, NEW p, NEW f
    PROVE  RawOfGrids(d, p, f) = WithGrid(1, GridRawValues(d.grids[1].ds, p, VizFilterToRecordsFilter(f)))
<1>1. DOMAIN d.grids = {1}
  OBVIOUS
<1> QED
  BY <1>1 DEF RawOfGrids, WithGrid, OfGrid

SameAsItself(s) == SameSeries(s, s)

LEMMA SeriesItself == ASSUME NEW s PROVE SameAsItself(s)
BY DEF SameAsItself, SameSeries, SameMean

\* Three tiers of numbers.
Numbered(d) ==
    /\ IsFiniteSet(d.records) /\ \A r \in d.records : r.value \in Int
    /\ \A i \in DOMAIN d.grids : HasNumbers(d.grids[i].ds)

-----------------------------------------------------------------------------
(* Orders that correspond                                                  *)

\* x comes before y where b[x] comes before b[y].
Follows(b, S, below, above) == \A x, y \in S : x \in below[y] <=> b[x] \in above[b[y]]

\* Two sets in corresponding orders are listed alike.
LEMMA OrderedAlike ==
    ASSUME NEW S, IsFiniteSet(S), NEW below, Orders(below, S),
           NEW T, NEW above, Orders(above, T), NEW b \in Bijection(S, T), Follows(b, S, below, above)
    PROVE  /\ Cardinality(T) = Cardinality(S)
           /\ \A i \in 1..Cardinality(S) : Ordered(S, below)[i] \in S /\ b[Ordered(S, below)[i]] = Ordered(T, above)[i]
<1>1. IsFiniteSet(T) /\ Cardinality(T) = Cardinality(S)
  BY FS_Bijection DEF ExistsBijection
<1>2. /\ b \in [S -> T]
      /\ \A x, y \in S : b[x] = b[y] => x = y
      /\ \A z \in T : \E x \in S : b[x] = z
  BY DEF Bijection, Injection, Surjection, IsInjective
<1>3. ASSUME NEW y \in S PROVE Cardinality(above[b[y]]) = Cardinality(below[y])
  <2>1. PICK A, B, c : A = below[y] /\ B = above[b[y]] /\ c = [x \in A |-> b[x]]
    OBVIOUS
  <2>2. A \subseteq S /\ B \subseteq T
    BY <1>2, <2>1 DEF Orders
  <2>3. \A x \in S : x \in A <=> b[x] \in B
    BY <2>1 DEF Follows
  <2>4. c \in [A -> B]
    BY <2>1, <2>2, <2>3
  <2>5. c \in Injection(A, B)
    BY <1>2, <2>1, <2>2, <2>4 DEF Injection, IsInjective
  <2>6. \A z \in B : \E x \in A : c[x] = z
    BY <1>2, <2>1, <2>2, <2>3
  <2>7. c \in Surjection(A, B)
    BY <2>4, <2>6 DEF Surjection
  <2>8. c \in Bijection(A, B) /\ IsFiniteSet(A)
    BY <2>2, <2>5, <2>7, FS_Subset DEF Bijection
  <2> QED
    BY <2>1, <2>8, FS_Bijection DEF ExistsBijection
<1>4. ASSUME NEW i \in 1..Cardinality(S)
      PROVE  Ordered(S, below)[i] \in S /\ b[Ordered(S, below)[i]] = Ordered(T, above)[i]
  <2>1. PICK x : x = Ordered(S, below)[i]
    OBVIOUS
  <2>2. x \in S /\ Cardinality(below[x]) = i - 1
    <3>1. \E z \in S : Cardinality(below[z]) = i - 1
      BY Ranks
    <3>2. x = CHOOSE z \in S : Cardinality(below[z]) = i - 1
      BY <2>1 DEF Ordered
    <3> QED
      BY <3>1, <3>2
  <2>3. PICK y : y = Ordered(T, above)[i]
    OBVIOUS
  <2>4. y \in T /\ Cardinality(above[y]) = i - 1
    <3>1. i \in 1..Cardinality(T)
      BY <1>1
    <3>2. \E z \in T : Cardinality(above[z]) = i - 1
      BY <1>1, <3>1, Ranks
    <3>3. y = CHOOSE z \in T : Cardinality(above[z]) = i - 1
      BY <2>3, <3>1 DEF Ordered
    <3> QED
      BY <3>2, <3>3
  <2>5. b[x] \in T /\ Cardinality(above[b[x]]) = Cardinality(above[y])
    BY <1>2, <1>3, <2>2, <2>4
  <2>6. b[x] = y
    BY <1>1, <2>4, <2>5, Ranks
  <2> QED
    BY <2>1, <2>2, <2>3, <2>6
<1> QED
  BY <1>1, <1>4

-----------------------------------------------------------------------------
(* The positions of one timestep                                           *)

\* A step before the other dimensions does not change their order.
LEMMA PrecedesAlike ==
    ASSUME NEW D, NEW L \in Seq(D), NEW M, M = <<"time">> \o L, "time" \in D,
           NEW p, NEW q, p["time"] = q["time"], p["time"] \in Int, NEW r, NEW s,
           \A d \in ToSet(L) : r[d] = p[d] /\ s[d] = q[d]
    PROVE  Precedes(M, p, q) <=> Precedes(L, r, s)
<1>1. PICK n \in Nat : n = Len(L) /\ DOMAIN L = 1..n
  BY InNames
<1>2. DOMAIN M = 1..(n + 1) /\ M[1] = "time" /\ \A j \in 1..n : M[j + 1] = L[j]
  <2>1. <<"time">> \in Seq(D) /\ Len(<<"time">>) = 1
    OBVIOUS
  <2>2. M \in Seq(D)
    BY <2>1
  <2>3. Len(M) = Len(<<"time">>) + Len(L)
    BY <2>1
  <2>4. DOMAIN M = 1..(n + 1)
    BY <1>1, <2>1, <2>2, <2>3
  <2> QED
    BY <1>1, <2>1, <2>4
<1>3. \A j \in 1..n : r[L[j]] = p[M[j + 1]] /\ s[L[j]] = q[M[j + 1]]
  BY <1>1, <1>2 DEF ToSet
<1>4. ASSUME Precedes(M, p, q) PROVE Precedes(L, r, s)
  <2>1. PICK k \in 1..(n + 1) : p[M[k]] < q[M[k]] /\ \A j \in 1..(k - 1) : p[M[j]] = q[M[j]]
    BY <1>2, <1>4 DEF Precedes
  <2>2. k # 1
    BY <1>2, <2>1
  <2>3. PICK l \in 1..n : k = l + 1
    <3>1. k - 1 \in 1..n /\ k = (k - 1) + 1
      BY <1>1, <2>2
    <3> QED
      BY <3>1
  <2>4. r[L[l]] < s[L[l]]
    BY <1>3, <2>1, <2>3
  <2>5. ASSUME NEW j \in 1..(l - 1) PROVE r[L[j]] = s[L[j]]
    <3>1. j \in 1..n /\ j + 1 \in 1..(k - 1)
      BY <1>1, <2>3
    <3>2. PICK i : i = j + 1 /\ i \in 1..(k - 1)
      BY <3>1
    <3>3. p[M[i]] = q[M[i]]
      BY <2>1, <3>2
    <3> QED
      BY <1>3, <3>1, <3>2, <3>3
  <2> QED
    BY <1>1, <2>3, <2>4, <2>5 DEF Precedes
<1>5. ASSUME Precedes(L, r, s) PROVE Precedes(M, p, q)
  <2>1. PICK l \in 1..n : r[L[l]] < s[L[l]] /\ \A j \in 1..(l - 1) : r[L[j]] = s[L[j]]
    BY <1>1, <1>5 DEF Precedes
  <2>2. PICK k : k = l + 1 /\ k \in 1..(n + 1)
    BY <1>1
  <2>3. p[M[k]] < q[M[k]]
    BY <1>3, <2>1, <2>2
  <2>4. ASSUME NEW j \in 1..(k - 1) PROVE p[M[j]] = q[M[j]]
    <3>1. CASE j = 1
      BY <1>2, <3>1
    <3>2. CASE j # 1
      <4>1. PICK i \in 1..(l - 1) : j = i + 1
        <5>1. j - 1 \in 1..(l - 1) /\ j = (j - 1) + 1
          BY <1>1, <2>2, <3>2
        <5> QED
          BY <5>1
      <4>2. i \in 1..n
        BY <1>1
      <4> QED
        BY <1>3, <2>1, <4>1, <4>2
    <3> QED
      BY <3>1, <3>2
  <2> QED
    BY <1>2, <2>2, <2>3, <2>4 DEF Precedes
<1> QED
  BY <1>4, <1>5

StepOf(g, k) == [g EXCEPT !.index["time"] = {k}]

\* A position of the step, without its time.
Placed(p, L) == [d \in ToSet(L) |-> p[d]]

\* The positions of one timestep are those of the place.
LEMMA StepPositions ==
    ASSUME NEW g, IsGrid(g), "time" \in DOMAIN g.index, NEW k \in g.index["time"], NEW h, h = StepOf(g, k),
           NEW L \in Seq(DOMAIN g.index), "time" \notin ToSet(L),
           NEW b, b = [p \in Positions(h, {"time"} \cup ToSet(L)) |-> Placed(p, L)]
    PROVE  b \in Bijection(Positions(h, {"time"} \cup ToSet(L)), Positions(g, ToSet(L)))
<1>1. PICK D, P, Q : D = ToSet(L) /\ P = Positions(h, {"time"} \cup D) /\ Q = Positions(g, D)
  OBVIOUS
<1>2. h.index = [g.index EXCEPT !["time"] = {k}]
  BY DEF StepOf, IsGrid
<1>3. h.index["time"] = {k} /\ \A d \in D : h.index[d] = g.index[d]
  BY <1>1, <1>2, InNames
<1>4. ASSUME NEW p \in P PROVE p["time"] = k /\ Placed(p, L) \in Q
  <2>1. p["time"] \in h.index["time"] /\ \A d \in D : p[d] \in h.index[d]
    BY <1>1, PositionIs
  <2>2. PICK q : q = Placed(p, L) /\ q = [d \in D |-> p[d]]
    BY <1>1 DEF Placed
  <2>3. q = [d \in D |-> q[d]] /\ \A d \in D : q[d] \in g.index[d]
    BY <1>3, <2>1, <2>2
  <2>4. q \in Q
    BY <1>1, <2>3, PositionIs
  <2> QED
    BY <1>3, <2>1, <2>2, <2>4
<1>5. ASSUME NEW p \in P, NEW q \in P, Placed(p, L) = Placed(q, L) PROVE p = q
  <2>1. p = [d \in {"time"} \cup D |-> p[d]] /\ q = [d \in {"time"} \cup D |-> q[d]]
    BY <1>1, PositionIs
  <2>2. p["time"] = q["time"]
    BY <1>4
  <2>3. \A d \in D : p[d] = q[d]
    BY <1>1, <1>5 DEF Placed
  <2> QED
    BY <2>1, <2>2, <2>3
<1>6. ASSUME NEW q \in Q PROVE \E p \in P : Placed(p, L) = q
  <2>1. q = [d \in D |-> q[d]] /\ \A d \in D : q[d] \in g.index[d]
    BY <1>1, PositionIs
  <2>2. PICK p : p = [d \in {"time"} \cup D |-> IF d = "time" THEN k ELSE q[d]]
    OBVIOUS
  <2>3. \A d \in {"time"} \cup D : p[d] \in h.index[d]
    BY <1>3, <2>1, <2>2
  <2>4. p = [d \in {"time"} \cup D |-> p[d]]
    BY <2>2
  <2>5. p \in P
    BY <1>1, <2>3, <2>4, PositionIs
  <2>6. \A d \in D : p[d] = q[d]
    BY <1>1, <2>2
  <2>7. Placed(p, L) = q
    BY <1>1, <2>1, <2>6 DEF Placed
  <2> QED
    BY <2>5, <2>7
<1>7. b = [p \in P |-> Placed(p, L)]
  BY <1>1
<1>8. b \in [P -> Q]
  BY <1>4, <1>7
<1>9. b \in Injection(P, Q)
  <2>1. \A p \in P : b[p] = Placed(p, L)
    BY <1>7
  <2>2. \A p, q \in P : b[p] = b[q] => p = q
    BY <1>5, <2>1
  <2>3. DOMAIN b = P
    BY <1>7
  <2>4. IsInjective(b)
    BY <2>2, <2>3 DEF IsInjective
  <2> QED
    BY <1>8, <2>4 DEF Injection
<1>10. b \in Surjection(P, Q)
  BY <1>6, <1>7, <1>8 DEF Surjection
<1> QED
  BY <1>1, <1>9, <1>10 DEF Bijection

LEMMA Single == ASSUME NEW D, NEW x \in D PROVE <<x>> \in Seq(D) /\ Len(<<x>>) = 1
OBVIOUS

\* A time before other dimensions.
LEMMA StepDims ==
    ASSUME NEW g, "time" \in DOMAIN g.index, NEW L \in Seq(DOMAIN g.index), NEW M, M = <<"time">> \o L
    PROVE  M \in Seq(DOMAIN g.index) /\ ToSet(M) = {"time"} \cup ToSet(L)
<1>1. PICK n \in Nat : n = Len(L) /\ DOMAIN L = 1..n
  BY InNames
<1>2. <<"time">> \in Seq(DOMAIN g.index) /\ Len(<<"time">>) = 1
  <2>1. PICK x : x = "time" /\ x \in DOMAIN g.index
    OBVIOUS
  <2>2. <<x>> \in Seq(DOMAIN g.index) /\ Len(<<x>>) = 1
    BY <2>1, Single
  <2> QED
    BY <2>1, <2>2
<1>3. M \in Seq(DOMAIN g.index)
  BY <1>2
<1>4. Len(M) = Len(<<"time">>) + Len(L)
  BY <1>2
<1>5. DOMAIN M = 1..(n + 1) /\ M[1] = "time" /\ \A j \in 1..n : M[j + 1] = L[j]
  BY <1>1, <1>2, <1>3, <1>4
<1>6. ASSUME NEW i \in 1..(n + 1) PROVE M[i] \in {"time"} \cup ToSet(L)
  <2>1. CASE i = 1
    BY <1>5, <2>1
  <2>2. CASE i # 1
    <3>1. i - 1 \in 1..n /\ M[(i - 1) + 1] = L[i - 1] /\ (i - 1) + 1 = i
      BY <1>1, <1>5, <2>2
    <3> QED
      BY <1>1, <3>1 DEF ToSet
  <2> QED
    BY <2>1, <2>2
<1>7. ASSUME NEW j \in 1..n PROVE L[j] \in ToSet(M)
  <2>1. j + 1 \in DOMAIN M /\ M[j + 1] = L[j]
    BY <1>1, <1>5
  <2> QED
    BY <2>1 DEF ToSet
<1>8. "time" \in ToSet(M)
  <2>1. 1 \in DOMAIN M /\ M[1] = "time"
    BY <1>1, <1>5
  <2> QED
    BY <2>1 DEF ToSet
<1>9. ToSet(M) \subseteq {"time"} \cup ToSet(L)
  BY <1>5, <1>6 DEF ToSet
<1>10. ToSet(L) \subseteq ToSet(M)
  <2>1. ASSUME NEW d \in ToSet(L) PROVE d \in ToSet(M)
    <3>1. PICK j \in 1..n : d = L[j]
      BY <1>1 DEF ToSet
    <3> QED
      BY <1>7, <3>1
  <2> QED
    BY <2>1
<1> QED
  BY <1>3, <1>8, <1>9, <1>10

\* The cells of a step lie in the order of the places.
RavelsAlike(h, M, g, L) ==
    /\ DOMAIN Ravel(h, M) = DOMAIN Ravel(g, L)
    /\ \A i \in DOMAIN Ravel(g, L) : /\ Ravel(h, M)[i] \in Positions(h, ToSet(M))
                                     /\ Placed(Ravel(h, M)[i], L) = Ravel(g, L)[i]

\* One timestep is flattened as a variable without a time is.
LEMMA RavelOfStep ==
    ASSUME NEW g, IsGrid(g), "time" \in DOMAIN g.index, NEW k \in g.index["time"], NEW h, h = StepOf(g, k),
           NEW L \in Seq(DOMAIN g.index), "time" \notin ToSet(L), NEW M, M = <<"time">> \o L
    PROVE  RavelsAlike(h, M, g, L)
<1>1. M \in Seq(DOMAIN g.index) /\ ToSet(M) = {"time"} \cup ToSet(L)
  BY StepDims
<1>2. GridCut(h, g)
  <2>1. {k} \subseteq g.index["time"]
    OBVIOUS
  <2> QED
    BY <2>1, SelectionCuts DEF StepOf
<1>3. IsGrid(h) /\ DOMAIN h.index = DOMAIN g.index
  BY <1>2 DEF GridCut
<1>4. PICK S, T, below, above, b :
        /\ S = Positions(h, ToSet(M)) /\ T = Positions(g, ToSet(L))
        /\ below = [q \in S |-> {p \in S : Precedes(M, p, q)}]
        /\ above = [q \in T |-> {p \in T : Precedes(L, p, q)}]
        /\ b = [p \in S |-> Placed(p, L)]
  OBVIOUS
<1>5. Orders(below, S) /\ Orders(above, T)
  <2>1. IsGrid(h) /\ M \in Seq(DOMAIN h.index)
    BY <1>1, <1>3
  <2>2. Orders([q \in Positions(h, ToSet(M)) |-> {p \in Positions(h, ToSet(M)) : Precedes(M, p, q)}], Positions(h, ToSet(M)))
    <3>1. PICK z, N : z = h /\ N = M
      OBVIOUS
    <3>2. IsGrid(z) /\ N \in Seq(DOMAIN z.index)
      BY <2>1, <3>1
    <3>3. Orders([q \in Positions(z, ToSet(N)) |-> {p \in Positions(z, ToSet(N)) : Precedes(N, p, q)}], Positions(z, ToSet(N)))
      BY <3>2, RavelOrders
    <3> QED
      BY <3>1, <3>3
  <2>3. Orders([q \in Positions(g, ToSet(L)) |-> {p \in Positions(g, ToSet(L)) : Precedes(L, p, q)}], Positions(g, ToSet(L)))
    BY RavelOrders
  <2> QED
    BY <1>4, <2>2, <2>3
<1>6. IsFiniteSet(S)
  <2>1. ToSet(M) \subseteq DOMAIN h.index
    BY <1>1, <1>3, InNames
  <2> QED
    BY <1>3, <1>4, <2>1, PositionsFinite
<1>7. b \in Bijection(S, T)
  <2>1. S = Positions(h, {"time"} \cup ToSet(L)) /\ b = [p \in Positions(h, {"time"} \cup ToSet(L)) |-> Placed(p, L)]
    BY <1>1, <1>4
  <2>2. b \in Bijection(Positions(h, {"time"} \cup ToSet(L)), Positions(g, ToSet(L)))
    BY <2>1, StepPositions
  <2> QED
    BY <1>4, <2>1, <2>2
<1>8. Follows(b, S, below, above)
  <2>1. ASSUME NEW x \in S, NEW y \in S PROVE x \in below[y] <=> b[x] \in above[b[y]]
    <3>1. b[x] \in T /\ b[y] \in T
      BY <1>7 DEF Bijection, Injection
    <3>2. h.index["time"] = {k} /\ k \in Int
      BY DEF StepOf, IsGrid
    <3>3. x["time"] = k /\ y["time"] = k
      BY <1>1, <1>4, <3>2, PositionIs
    <3>4. \A d \in ToSet(L) : b[x][d] = x[d] /\ b[y][d] = y[d]
      BY <1>4 DEF Placed
    <3>5. Precedes(M, x, y) <=> Precedes(L, b[x], b[y])
      <4>1. PICK D : D = DOMAIN g.index /\ L \in Seq(D) /\ "time" \in D
        OBVIOUS
      <4>2. PICK r, s : r = b[x] /\ s = b[y]
        OBVIOUS
      <4>3. x["time"] = y["time"] /\ x["time"] \in Int
        BY <3>2, <3>3
      <4>4. \A d \in ToSet(L) : r[d] = x[d] /\ s[d] = y[d]
        BY <3>4, <4>2
      <4>5. Precedes(M, x, y) <=> Precedes(L, r, s)
        BY <4>1, <4>3, <4>4, PrecedesAlike
      <4> QED
        BY <4>2, <4>5
    <3> QED
      BY <1>4, <3>1, <3>5
  <2> QED
    BY <2>1 DEF Follows
<1>9. Ravel(h, M) = Ordered(S, below) /\ Ravel(g, L) = Ordered(T, above)
  BY <1>4 DEF Ravel, InOrder, Precedes
<1>10. /\ Cardinality(T) = Cardinality(S)
       /\ \A i \in 1..Cardinality(S) : Ordered(S, below)[i] \in S /\ b[Ordered(S, below)[i]] = Ordered(T, above)[i]
  BY <1>5, <1>6, <1>7, <1>8, OrderedAlike
<1>11. DOMAIN Ordered(S, below) = 1..Cardinality(S) /\ DOMAIN Ordered(T, above) = 1..Cardinality(T)
  BY DEF Ordered
<1> QED
  BY <1>4, <1>9, <1>10, <1>11 DEF RavelsAlike

-----------------------------------------------------------------------------
(* What a map reads of a grid                                              *)

LEMMA SampledIn == ASSUME NEW n, NEW stride PROVE Sampled(n, stride) \subseteq 1..n
BY DEF Sampled

\* A point of a plane has a latitude and a longitude that were read.
LEMMA PlaneShape ==
    ASSUME NEW values, NEW lats, NEW lons, NEW ny, NEW nx, NEW stride,
           NEW S, S = PlanePoints(values, lats, lons, ny, nx, stride), S # None, NEW point \in S
    PROVE  \E i \in 1..Len(lats) : \E j \in 1..Len(lons) : point.lat = lats[i] /\ point.lon = lons[j]
<1>1. PICK read : read = Sampled(Len(lats), stride) \X Sampled(Len(lons), stride)
  OBVIOUS
<1>2. PICK T : T = {[lat |-> lats[ij[1]], lon |-> lons[ij[2]],
                     value |-> values[(ij[1] - 1) * nx + ij[2]]] : ij \in read}
  OBVIOUS
<1>3. S = ValidPoints(T)
  BY <1>1, <1>2 DEF PlanePoints
<1>4. point \in T
  BY <1>3 DEF ValidPoints
<1>5. PICK ij \in read : point = [lat |-> lats[ij[1]], lon |-> lons[ij[2]],
                                  value |-> values[(ij[1] - 1) * nx + ij[2]]]
  BY <1>2, <1>4
<1>6. ij[1] \in 1..Len(lats) /\ ij[2] \in 1..Len(lons)
  BY <1>1, SampledIn
<1> QED
  BY <1>5, <1>6

\* A point of a line has the three cells of one position.
LEMMA LineShape ==
    ASSUME NEW values, NEW lats, NEW lons, NEW stride, Len(lats) \in Nat, Len(lons) \in Nat, Len(values) \in Nat,
           NEW S, S = LinePoints(values, lats, lons, stride), S # None, NEW point \in S
    PROVE  \E i \in 1..Len(lats) : /\ i <= Len(lons) /\ i <= Len(values)
                                   /\ point.lat = lats[i] /\ point.lon = lons[i] /\ values[i] # None
<1>1. PICK read : read = Sampled(Len(lats), stride)
  OBVIOUS
<1>2. PICK T : T = {[lat |-> lats[i], lon |-> lons[i], value |-> values[i]] : i \in read}
  OBVIOUS
<1>3. S = ValidPoints(T) /\ \A i \in read : ~(i > Len(lons) \/ i > Len(values))
  BY <1>1, <1>2 DEF LinePoints
<1>4. point \in T /\ point.value # None
  BY <1>3 DEF ValidPoints
<1>5. PICK i \in read : point = [lat |-> lats[i], lon |-> lons[i], value |-> values[i]]
  BY <1>2, <1>4
<1>6. i \in 1..Len(lats)
  BY <1>1, SampledIn
<1>7. i <= Len(lons) /\ i <= Len(values)
  BY <1>3, <1>6
<1> QED
  BY <1>4, <1>5, <1>6, <1>7

\* The cells of an array in their order.
LEMMA FlatIs ==
    ASSUME NEW g, IsGrid(g), NEW array, array.dims \in Seq(DOMAIN g.index)
    PROVE  /\ Len(Flat(g, array)) \in Nat
           /\ DOMAIN Flat(g, array) = 1..Len(Flat(g, array))
           /\ DOMAIN Flat(g, array) = DOMAIN Ravel(g, array.dims)
           /\ \A i \in DOMAIN Flat(g, array) :
                /\ Ravel(g, array.dims)[i] \in Positions(g, Dims(array))
                /\ Flat(g, array)[i] = Cell(array, Ravel(g, array.dims)[i])
<1>1. PICK order, n, s : /\ order = Ravel(g, array.dims) /\ n = Cardinality(Positions(g, ToSet(array.dims)))
                         /\ s = [i \in DOMAIN order |-> Cell(array, order[i])]
  OBVIOUS
<1>2. n \in Nat /\ DOMAIN order = 1..n /\ \A i \in DOMAIN order : order[i] \in Positions(g, ToSet(array.dims))
  BY <1>1, RavelIs
<1>3. Flat(g, array) = s
  BY <1>1 DEF Flat
<1>4. DOMAIN s = 1..n /\ Len(s) = n
  BY <1>1, <1>2
<1> QED
  BY <1>1, <1>2, <1>3, <1>4 DEF Dims

\* Along d, g has only indices of the positions inside.
Spanning(inside, g, d) == \A a \in g.index[d] : \E p \in inside : a = p[d]

AxisSpans(inside, g, array) == \A d \in Dims(array) : Spanning(inside, g, d)

\* A box has been cut out of g: its axes are those of positions inside.
BoxCut(g, ds, f, lat, lon, masked, inside) ==
    /\ IsGrid(g) /\ g.coords = ds.coords
    /\ DOMAIN g.index = DOMAIN ds.index
    /\ \A d \in DOMAIN ds.index : g.index[d] \subseteq ds.index[d]
    /\ DOMAIN g.vars = DOMAIN ds.vars
    /\ lat = ds.coords[LatName(ds)] /\ lon = ds.coords[LonName(ds)]
    /\ lat.dims \in Seq(DOMAIN ds.index) /\ lon.dims \in Seq(DOMAIN ds.index)
    /\ masked \in Seq(DOMAIN ds.index) /\ ToSet(masked) = Dims(lat) \cup Dims(lon)
    /\ inside = InsideBox(ds, f, lat, lon, masked)
    /\ \A d \in ToSet(masked) : Spanning(inside, g, d)
    /\ \A v \in DOMAIN ds.vars : g.vars[v] = MaskedAs(ds, ds.vars[v], masked, inside)

\* The filter on a box is a mask over the dimensions of its two axes.
LEMMA FilteredBoxCut ==
    ASSUME NEW ds, IsGrid(ds), NEW f, HasBox(f), HasPlace(ds), NEW g, g = Filtered(ds, f)
    PROVE  \E lat, lon, masked, inside : BoxCut(g, ds, f, lat, lon, masked, inside)
<1>1. PICK b : b = ApplyBbox(ds, f)
  OBVIOUS
<1>2. g.vars = b.vars
  BY <1>1, FilteredArrays
<1>3. PICK lat, lon, masked :
        /\ lat = ds.coords[LatName(ds)] /\ lon = ds.coords[LonName(ds)]
        /\ LatName(ds) \in DOMAIN ds.coords /\ LonName(ds) \in DOMAIN ds.coords
        /\ masked \in Seq(DOMAIN ds.index)
        /\ ToSet(masked) = Dims(lat) \cup Dims(lon)
        /\ b = Where(ds, masked, InsideBox(ds, f, lat, lon, masked))
  BY <1>1, BboxIs
<1>4. PICK inside : inside = InsideBox(ds, f, lat, lon, masked)
  OBVIOUS
<1>5. /\ DOMAIN b = DOMAIN ds /\ b.coords = ds.coords
      /\ b.index = [d \in DOMAIN ds.index |->
                       IF d \in ToSet(masked) THEN {p[d] : p \in inside} ELSE ds.index[d]]
      /\ DOMAIN b.vars = DOMAIN ds.vars
      /\ \A v \in DOMAIN ds.vars : b.vars[v] = MaskedAs(ds, ds.vars[v], masked, inside)
  <2>1. b = Where(ds, masked, inside)
    BY <1>3, <1>4
  <2> QED
    BY <2>1, WhereIs
<1>6. GridCut(b, ds) /\ GridCut(g, b) /\ GridCut(g, ds)
  <2>1. GridCut(b, ds)
    BY <1>1, BboxCuts
  <2>2. GridCut(ApplyDateRange(b, f), b)
    BY <2>1, DatesCut DEF GridCut
  <2>3. g = ApplyDateRange(b, f)
    BY <1>1 DEF Filtered
  <2>4. GridCut(g, ds)
    BY FilteredCuts
  <2> QED
    BY <2>1, <2>2, <2>3, <2>4
<1>7. \A d \in ToSet(masked) : Spanning(inside, g, d)
  <2>1. ASSUME NEW d \in ToSet(masked) PROVE Spanning(inside, g, d)
    <3>1. d \in DOMAIN ds.index
      BY <1>3, InNames
    <3>2. b.index[d] = {p[d] : p \in inside}
      BY <1>5, <3>1
    <3>3. g.index[d] \subseteq b.index[d]
      BY <1>5, <1>6, <3>1 DEF GridCut
    <3> QED
      BY <3>2, <3>3 DEF Spanning
  <2> QED
    BY <2>1
<1>8. lat.dims \in Seq(DOMAIN ds.index) /\ lon.dims \in Seq(DOMAIN ds.index)
  BY <1>3 DEF IsGrid
<1>9. /\ IsGrid(g) /\ g.coords = ds.coords /\ DOMAIN g.index = DOMAIN ds.index
      /\ \A d \in DOMAIN ds.index : g.index[d] \subseteq ds.index[d]
      /\ DOMAIN g.vars = DOMAIN ds.vars
  BY <1>6 DEF GridCut
<1>10. \A v \in DOMAIN ds.vars : g.vars[v] = MaskedAs(ds, ds.vars[v], masked, inside)
  BY <1>2, <1>5
<1>11. BoxCut(g, ds, f, lat, lon, masked, inside)
  BY <1>3, <1>4, <1>7, <1>8, <1>9, <1>10 DEF BoxCut
<1> QED
  BY <1>11

\* Each value of an axis of latitudes is one of the box, and so is one of longitudes.
LatIn(f, x) == x # None /\ f.latMin <= x /\ x <= f.latMax

LonIn(f, x) == x # None /\ f.lonMin <= x /\ x <= f.lonMax

LEMMA OneDim ==
    ASSUME NEW D, NEW dims \in Seq(D), Len(dims) = 1
    PROVE  \E d \in D : ToSet(dims) = {d}
<1>1. DOMAIN dims = {1} /\ dims[1] \in D
  OBVIOUS
<1>2. ToSet(dims) = {dims[1]}
  BY <1>1 DEF ToSet
<1> QED
  BY <1>1, <1>2

\* After the cut, each value of an axis is one of a position inside.
LEMMA AxisCells ==
    ASSUME NEW g, IsGrid(g), NEW array, array.dims \in Seq(DOMAIN g.index), Len(array.dims) = 1,
           NEW inside, AxisSpans(inside, g, array), NEW i \in 1..Len(Flat(g, array))
    PROVE  \E p \in inside : Flat(g, array)[i] = Cell(array, p)
<1>1. PICK q : q \in Positions(g, Dims(array)) /\ Flat(g, array)[i] = Cell(array, q)
  BY FlatIs
<1>2. PICK d : Dims(array) = {d}
  BY OneDim DEF Dims
<1>3. q[d] \in g.index[d] /\ Spanning(inside, g, d)
  BY <1>1, <1>2, PositionIs DEF AxisSpans
<1>4. PICK p \in inside : q[d] = p[d]
  BY <1>3 DEF Spanning
<1>5. PICK x, y : x = [e \in Dims(array) |-> q[e]] /\ y = [e \in Dims(array) |-> p[e]]
  OBVIOUS
<1>6. x = y
  BY <1>2, <1>4, <1>5
<1>7. Cell(array, q) = Cell(array, p)
  BY <1>5, <1>6 DEF Cell
<1> QED
  BY <1>1, <1>7

\* Two axes of places are in the box.
LEMMA AxesInside ==
    ASSUME NEW ds, NEW f, NEW g, NEW lat, NEW lon, NEW masked, NEW inside,
           BoxCut(g, ds, f, lat, lon, masked, inside), Len(lat.dims) = 1, Len(lon.dims) = 1
    PROVE  /\ \A i \in 1..Len(Flat(g, lat)) : LatIn(f, Flat(g, lat)[i])
           /\ \A i \in 1..Len(Flat(g, lon)) : LonIn(f, Flat(g, lon)[i])
<1>1. /\ IsGrid(g) /\ lat.dims \in Seq(DOMAIN g.index) /\ lon.dims \in Seq(DOMAIN g.index)
      /\ AxisSpans(inside, g, lat) /\ AxisSpans(inside, g, lon)
  BY DEF BoxCut, AxisSpans
<1>2. \A p \in inside : LatIn(f, Cell(lat, p)) /\ LonIn(f, Cell(lon, p))
  BY DEF BoxCut, InsideBox, InBox, LatIn, LonIn
<1>3. ASSUME NEW i \in 1..Len(Flat(g, lat)) PROVE LatIn(f, Flat(g, lat)[i])
  <2>1. PICK p \in inside : Flat(g, lat)[i] = Cell(lat, p)
    BY <1>1, AxisCells
  <2> QED
    BY <1>2, <2>1
<1>4. ASSUME NEW i \in 1..Len(Flat(g, lon)) PROVE LonIn(f, Flat(g, lon)[i])
  <2>1. PICK p \in inside : Flat(g, lon)[i] = Cell(lon, p)
    BY <1>1, AxisCells
  <2> QED
    BY <1>2, <2>1
<1> QED
  BY <1>3, <1>4

LEMMA TogetherSame ==
    ASSUME NEW D, NEW dims \in Seq(D), NEW more \in Seq(D), ToSet(more) \subseteq ToSet(dims)
    PROVE  Together(dims, more) = dims
<1> DEFINE Place(d) == CHOOSE i \in DOMAIN more : more[i] = d
<1>1. PICK S, below, rest : /\ S = ToSet(more) \ ToSet(dims)
                            /\ below = [d \in S |-> {c \in S : Place(c) < Place(d)}]
                            /\ rest = Ordered(S, below)
  OBVIOUS
<1>2. S = {} /\ Cardinality(S) = 0
  BY <1>1, FS_EmptySet
<1>3. Together(dims, more) = dims \o rest
  BY <1>1 DEF Together, InOrder
<1> HIDE DEF Place
<1>4. rest = [i \in 1..0 |-> CHOOSE x \in S : Cardinality(below[x]) = i - 1]
  BY <1>1, <1>2 DEF Ordered
<1>5. rest = <<>>
  BY <1>4
<1>6. dims \o <<>> = dims
  OBVIOUS
<1> QED
  BY <1>3, <1>5, <1>6

\* The latest step is one of the steps.
LEMMA LastStepIn ==
    ASSUME NEW g, IsGrid(g), "time" \in DOMAIN g.index, g.index["time"] # {}
    PROVE  LastStep(g) \in g.index["time"]
<1>1. PICK S : S = g.index["time"] /\ IsFiniteSet(S) /\ S \subseteq Int /\ S # {}
  BY DEF IsGrid
<1>2. \E k \in S : \A j \in S : j <= k
  <2>1. PICK N, m : N = {m[x] : x \in S} /\ m = [x \in S |-> 0 - x]
    OBVIOUS
  <2>2. IsFiniteSet(N)
    <3>1. IsFiniteSet({m[x] : x \in S})
      BY <1>1, ImageFinite
    <3> QED
      BY <2>1, <3>1
  <2>3. N \subseteq Int /\ N # {} /\ \A x \in S : 0 - x \in N
    BY <1>1, <2>1
  <2>4. PICK n \in N : \A j \in N : n <= j
    BY <2>2, <2>3, LeastIn
  <2>5. PICK k \in S : n = 0 - k
    BY <2>1, <2>4
  <2>6. \A j \in S : j <= k
    <3>1. ASSUME NEW j \in S PROVE j <= k
      <4>1. PICK x : x = 0 - j /\ x \in N
        BY <2>3
      <4>2. n <= x /\ j \in Int /\ k \in Int
        BY <1>1, <2>4, <4>1
      <4> QED
        BY <2>5, <4>1, <4>2
    <3> QED
      BY <3>1
  <2> QED
    BY <2>6
<1>3. LastStep(g) = CHOOSE k \in S : \A j \in S : j <= k
  BY <1>1 DEF LastStep
<1> QED
  BY <1>1, <1>2, <1>3

\* A masked array has a value only where the box is.
LEMMA ValueInside ==
    ASSUME NEW ds, IsGrid(ds), NEW f, NEW g, NEW lat, NEW lon, NEW masked, NEW inside,
           BoxCut(g, ds, f, lat, lon, masked, inside), NEW v \in DOMAIN ds.vars,
           ToSet(masked) \subseteq Dims(ds.vars[v]), NEW q, \A d \in Dims(ds.vars[v]) : q[d] \in g.index[d],
           Cell(g.vars[v], q) # None
    PROVE  [d \in ToSet(masked) |-> q[d]] \in inside
<1>1. PICK x, w, D : x = ds.vars[v] /\ w = g.vars[v] /\ D = Dims(x)
  OBVIOUS
<1>2. /\ w = MaskedAs(ds, x, masked, inside) /\ masked \in Seq(DOMAIN ds.index)
      /\ \A d \in DOMAIN ds.index : g.index[d] \subseteq ds.index[d]
  BY <1>1 DEF BoxCut
<1>3. x.dims \in Seq(DOMAIN ds.index)
  BY <1>1 DEF IsGrid
<1>4. ToSet(masked) \subseteq ToSet(x.dims) /\ D = ToSet(x.dims) /\ D \subseteq DOMAIN ds.index
  BY <1>1, <1>3, InNames DEF Dims
<1>5. Together(x.dims, masked) = x.dims
  BY <1>2, <1>3, <1>4, TogetherSame
<1>6. PICK at : at = [p \in Positions(ds, D) |->
                        IF [d \in ToSet(masked) |-> p[d]] \in inside THEN Cell(x, p) ELSE None]
  OBVIOUS
<1>7. w = [dims |-> x.dims, at |-> at]
  BY <1>2, <1>4, <1>5, <1>6 DEF MaskedAs
<1>8. PICK r : r = [d \in D |-> q[d]]
  OBVIOUS
<1>9. Cell(w, q) = at[r]
  BY <1>4, <1>7, <1>8 DEF Cell, Dims
<1>10. r \in Positions(ds, D)
  <2>1. \A d \in D : r[d] \in ds.index[d]
    BY <1>1, <1>2, <1>4, <1>8
  <2>2. r = [d \in D |-> r[d]]
    BY <1>8
  <2> QED
    BY <2>1, <2>2, PositionIs
<1>11. [d \in ToSet(masked) |-> r[d]] \in inside
  BY <1>1, <1>6, <1>9, <1>10
<1>12. [d \in ToSet(masked) |-> r[d]] = [d \in ToSet(masked) |-> q[d]]
  BY <1>4, <1>8
<1> QED
  BY <1>11, <1>12

\* A box of axes that an array has keeps the order of its dimensions.
LEMMA BoxKeepsDims ==
    ASSUME NEW ds, IsGrid(ds), NEW f, NEW g, NEW lat, NEW lon, NEW masked, NEW inside,
           BoxCut(g, ds, f, lat, lon, masked, inside), NEW v \in DOMAIN ds.vars,
           ToSet(masked) \subseteq Dims(ds.vars[v])
    PROVE  g.vars[v].dims = ds.vars[v].dims
<1>1. g.vars[v] = MaskedAs(ds, ds.vars[v], masked, inside) /\ masked \in Seq(DOMAIN ds.index)
  BY DEF BoxCut
<1>2. ds.vars[v].dims \in Seq(DOMAIN ds.index)
  BY DEF IsGrid
<1>3. Together(ds.vars[v].dims, masked) = ds.vars[v].dims
  BY <1>1, <1>2, TogetherSame DEF Dims
<1> QED
  BY <1>1, <1>3 DEF MaskedAs

\* The i-th value that a map reads lies at the i-th place.
ReadAt(g, L, h, array, i) ==
    \E q : /\ \A d \in Dims(array) : q[d] \in g.index[d]
           /\ Flat(h, array)[i] = Cell(array, q)
           /\ [d \in ToSet(L) |-> q[d]] = Ravel(g, L)[i]

\* Of a variable without a time, the value beside a place is the value at the place.
LEMMA ReadPlain ==
    ASSUME NEW g, IsGrid(g), NEW L \in Seq(DOMAIN g.index), NEW array, array.dims = L,
           NEW i \in 1..Len(Flat(g, array))
    PROVE  ReadAt(g, L, g, array, i) /\ i \in DOMAIN Ravel(g, L)
<1>1. PICK q : q = Ravel(g, L)[i]
  OBVIOUS
<1>2. q \in Positions(g, ToSet(L)) /\ Flat(g, array)[i] = Cell(array, q) /\ i \in DOMAIN Ravel(g, L)
  <2>1. array.dims \in Seq(DOMAIN g.index)
    OBVIOUS
  <2> QED
    BY <1>1, <2>1, FlatIs DEF Dims
<1>3. q = [d \in ToSet(L) |-> q[d]] /\ \A d \in ToSet(L) : q[d] \in g.index[d]
  BY <1>2, PositionIs
<1> QED
  BY <1>1, <1>2, <1>3 DEF ReadAt, Dims

\* So it is of one timestep of a variable with one.
LEMMA ReadStep ==
    ASSUME NEW g, IsGrid(g), "time" \in DOMAIN g.index, NEW k \in g.index["time"], NEW h, h = StepOf(g, k),
           NEW L \in Seq(DOMAIN g.index), "time" \notin ToSet(L), NEW array, array.dims = <<"time">> \o L,
           array.dims \in Seq(DOMAIN g.index), NEW i \in 1..Len(Flat(h, array))
    PROVE  ReadAt(g, L, h, array, i) /\ i \in DOMAIN Ravel(g, L)
<1>1. GridCut(h, g)
  <2>1. {k} \subseteq g.index["time"]
    OBVIOUS
  <2> QED
    BY <2>1, SelectionCuts DEF StepOf
<1>2. PICK M, q : M = array.dims /\ q = Ravel(h, M)[i]
  OBVIOUS
<1>3. i \in DOMAIN Ravel(h, M) /\ q \in Positions(h, ToSet(M)) /\ Flat(h, array)[i] = Cell(array, q)
  <2>1. IsGrid(h) /\ array.dims \in Seq(DOMAIN h.index)
    BY <1>1 DEF GridCut
  <2> QED
    BY <1>2, <2>1, FlatIs DEF Dims
<1>4. i \in DOMAIN Ravel(g, L) /\ Placed(q, L) = Ravel(g, L)[i]
  <2>1. RavelsAlike(h, M, g, L)
    BY <1>2, RavelOfStep
  <2> QED
    BY <1>2, <1>3, <2>1 DEF RavelsAlike
<1>5. \A d \in ToSet(M) : q[d] \in g.index[d]
  <2>1. \A d \in ToSet(M) : q[d] \in h.index[d] /\ d \in DOMAIN g.index
    BY <1>2, <1>3, PositionIs, InNames
  <2> QED
    BY <1>1, <2>1 DEF GridCut
<1> QED
  BY <1>2, <1>3, <1>4, <1>5 DEF ReadAt, Placed, Dims

\* A value that is read side by side with its place has a place in the box.
LEMMA LineInside ==
    ASSUME NEW ds, IsGrid(ds), NEW f, NEW g, NEW lat, NEW lon, NEW masked, NEW inside,
           BoxCut(g, ds, f, lat, lon, masked, inside), NEW p \in DOMAIN ds.vars,
           lat.dims = lon.dims, NEW array, array = g.vars[p], ToSet(masked) \subseteq Dims(ds.vars[p]),
           NEW h, NEW i, ReadAt(g, lat.dims, h, array, i), i \in DOMAIN Ravel(g, lat.dims),
           Flat(h, array)[i] # None
    PROVE  InBox(f, Flat(g, lat)[i], Flat(g, lon)[i])
<1>1. PICK L, D : L = lat.dims /\ L = lon.dims /\ D = ToSet(L)
  OBVIOUS
<1>2. /\ IsGrid(g) /\ L \in Seq(DOMAIN g.index) /\ Dims(lat) = D /\ Dims(lon) = D /\ ToSet(masked) = D
      /\ inside = InsideBox(ds, f, lat, lon, masked)
  BY <1>1 DEF BoxCut, Dims
<1>3. PICK q : /\ \A d \in Dims(array) : q[d] \in g.index[d]
               /\ Flat(h, array)[i] = Cell(array, q)
               /\ [d \in D |-> q[d]] = Ravel(g, L)[i]
  BY <1>1 DEF ReadAt
<1>4. PICK r : r = Ravel(g, L)[i]
  OBVIOUS
<1>5. r \in inside
  <2>1. Cell(g.vars[p], q) # None
    BY <1>3
  <2>2. \A d \in Dims(ds.vars[p]) : q[d] \in g.index[d]
    BY <1>3, BoxKeepsDims DEF Dims
  <2>3. [d \in ToSet(masked) |-> q[d]] \in inside
    BY <2>1, <2>2, ValueInside
  <2> QED
    BY <1>2, <1>3, <1>4, <2>3
<1>6. InBox(f, Cell(lat, r), Cell(lon, r))
  BY <1>2, <1>5 DEF InsideBox
<1>7. Flat(g, lat)[i] = Cell(lat, r)
  <2>1. IsGrid(g) /\ lat.dims \in Seq(DOMAIN g.index)
    BY <1>1, <1>2
  <2>2. /\ DOMAIN Flat(g, lat) = DOMAIN Ravel(g, lat.dims)
        /\ \A j \in DOMAIN Flat(g, lat) : Flat(g, lat)[j] = Cell(lat, Ravel(g, lat.dims)[j])
    BY <2>1, FlatIs
  <2> QED
    BY <1>1, <1>4, <2>2
<1>8. Flat(g, lon)[i] = Cell(lon, r)
  <2>1. IsGrid(g) /\ lon.dims \in Seq(DOMAIN g.index)
    BY <1>1, <1>2
  <2>2. /\ DOMAIN Flat(g, lon) = DOMAIN Ravel(g, lon.dims)
        /\ \A j \in DOMAIN Flat(g, lon) : Flat(g, lon)[j] = Cell(lon, Ravel(g, lon.dims)[j])
    BY <2>1, FlatIs
  <2> QED
    BY <1>1, <1>4, <2>2
<1> QED
  BY <1>6, <1>7, <1>8

-----------------------------------------------------------------------------
(* Points and places                                                       *)

\* Each observation that a box selects of a table with places lies in it.
LEMMA TablePlaceInside ==
    ASSUME NEW t, {"lat", "lon"} \subseteq CoordColumns(t), NEW v, HasBox(v), NEW p, NEW m \in Of(t, p, v)
    PROVE  InBox(v, m.cell["lat"], m.cell["lon"])
<1>1. BuildWhere(t, m, v)
  BY DEF Of, Matching
<1>2. {"lat", "lon"} \subseteq MeltedColumns(t)
  BY DEF MeltedColumns
<1> QED
  BY <1>1, <1>2 DEF BuildWhere

\* The points of a table lie in the box.
LEMMA TablePointInside ==
    ASSUME NEW t, NEW v, HasBox(v), NEW p, NEW point \in TablePoints(t, p, v)
    PROVE  InBox(v, point.lat, point.lon)
<1>1. {"lat", "lon"} \subseteq CoordColumns(t)
  BY DEF TablePoints
<1>2. PICK S : S = {o \in LatestPerPlace(t, Of(t, p, v)) : ValidCoordinate(o.cell["lat"], o.cell["lon"])}
  OBVIOUS
<1>3. TablePoints(t, p, v) = {[lat |-> m.cell["lat"], lon |-> m.cell["lon"], value |-> m.value] : m \in S}
  BY <1>1, <1>2 DEF TablePoints
<1>4. PICK m \in S : point = [lat |-> m.cell["lat"], lon |-> m.cell["lon"], value |-> m.value]
  BY <1>3
<1>5. m \in Of(t, p, v)
  BY <1>2 DEF LatestPerPlace
<1>6. InBox(v, m.cell["lat"], m.cell["lon"])
  BY <1>1, <1>5, TablePlaceInside
<1> QED
  BY <1>4, <1>6

LEMMA TableLocationInside ==
    ASSUME NEW t, NEW v, HasBox(v), NEW p, NEW x \in TableRawValuesWithLocation(t, p, v)
    PROVE  InBox(v, x.lat, x.lon)
<1>1. {"lat", "lon"} \subseteq CoordColumns(t)
  BY DEF TableRawValuesWithLocation
<1>2. PICK m \in Of(t, p, v) : x.lat = m.cell["lat"] /\ x.lon = m.cell["lon"]
  BY <1>1 DEF TableRawValuesWithLocation
<1>3. InBox(v, m.cell["lat"], m.cell["lon"])
  BY <1>1, TablePlaceInside
<1> QED
  BY <1>2, <1>3

\* The explorer's filter has the box of the filter that it is made of.
SameBox(v, f) == HasBox(v) /\ \A lat, lon : InBox(v, lat, lon) => InBox(f, lat, lon)

\* The box of a chart's filter is that of the query.
LEMMA VizBox ==
    ASSUME NEW f \in Filter, HasBox(f)
    PROVE  SameBox(VizFilterToRecordsFilter(f), f)
<1>1. PICK v : v = VizFilterToRecordsFilter(f)
  OBVIOUS
<1>2. /\ v.latMin = f.latMin /\ v.latMax = f.latMax /\ v.lonMin = f.lonMin /\ v.lonMax = f.lonMax
      /\ HasBox(v)
  BY <1>1, VizIs
<1> QED
  BY <1>1, <1>2 DEF InBox, SameBox

\* The places of tagged points.
TaggedAs(kind, i, S) == {[from |-> <<kind, i, v>>, at |-> <<v.lat, v.lon>>, value |-> v.value] : v \in S}

-----------------------------------------------------------------------------
(* Previews                                                                *)

Lesser(a, b) == IF a <= b THEN a ELSE b

LEMMA LesserIs == ASSUME NEW a \in Nat, NEW b \in Nat PROVE Min({a, b}) = Lesser(a, b)
<1>1. PICK S : S = {a, b}
  OBVIOUS
<1>2. IsFiniteSet(S) /\ S \subseteq Int /\ S # {}
  <2>1. IsFiniteSet({a}) /\ IsFiniteSet({b})
    BY FS_Singleton
  <2>2. S = {a} \cup {b}
    BY <1>1
  <2>3. IsFiniteSet(S)
    BY <2>1, <2>2, FS_Union
  <2> QED
    BY <1>1, <2>3
<1>3. Min(S) \in S /\ \A j \in S : Min(S) <= j
  BY <1>2, LeastIn
<1>4. PICK x : x = Min(S) /\ x \in {a, b} /\ x <= a /\ x <= b
  BY <1>1, <1>3
<1> QED
  BY <1>1, <1>4 DEF Lesser

\* A list cut to a limit.
LEMMA FirstRowsIs ==
    ASSUME NEW rows, NEW n, IsList(rows, n), NEW limit \in Nat
    PROVE  IsList(FirstRows(rows, limit), Lesser(limit, n))
<1>1. PICK S : S = {rows[i] : i \in 1..n}
  OBVIOUS
<1>2. n \in Nat /\ rows \in [1..n -> S]
  BY <1>1 DEF IsList
<1>3. rows \in Seq(S) /\ Len(rows) = n
  BY <1>2
<1>4. PICK m : m = Lesser(limit, n) /\ m \in Nat /\ m <= n
  BY <1>2 DEF Lesser
<1>5. PICK s : s = SubSeq(rows, 1, m)
  OBVIOUS
<1>6. FirstRows(rows, limit) = s
  <2>1. Min({limit, Len(rows)}) = m
    BY <1>2, <1>3, <1>4, LesserIs
  <2> QED
    BY <1>5, <2>1 DEF FirstRows
<1>7. s \in Seq(S) /\ Len(s) = m
  BY <1>3, <1>4, <1>5
<1>8. s = [i \in 1..m |-> s[i]]
  BY <1>4, <1>7
<1> QED
  BY <1>4, <1>6, <1>8 DEF IsList

LEMMA OrderedLength ==
    ASSUME NEW S, IsFiniteSet(S), NEW below
    PROVE  DOMAIN Ordered(S, below) = 1..Cardinality(S)
BY DEF Ordered

LEMMA RangeCount == ASSUME NEW n \in Nat PROVE IsFiniteSet(1..n) /\ Cardinality(1..n) = n
BY FS_Interval

\* A preview of a table has the observations that match, as far as the limit allows.
LEMMA TablePreviewIs ==
    ASSUME NEW t, IsTable(t), NEW f, NEW limit \in Nat
    PROVE  /\ TableMatching(t, f) \in Nat
           /\ IsList(TablePreview(t, f, limit), Lesser(limit, TableMatching(t, f)))
<1>1. PICK S, n, list : S = Matching(t, f) /\ n = Cardinality(S) /\ list = SetToSeq(S)
  OBVIOUS
<1>2. IsFiniteSet(S) /\ n \in Nat
  BY <1>1, BaseMeltedFinite, FS_Subset, FS_CardinalityType DEF Matching
<1>3. DOMAIN list = 1..n
  BY <1>1, <1>2, SetToSeqIs
<1>4. PICK below :
        below = [x \in DOMAIN list |->
                   {y \in DOMAIN list :
                       \/ (Coord(t, list[y], "time") # None
                             /\ (Coord(t, list[x], "time") = None
                                   \/ Coord(t, list[y], "time") > Coord(t, list[x], "time")))
                       \/ (~(Coord(t, list[x], "time") # None
                               /\ (Coord(t, list[y], "time") = None
                                     \/ Coord(t, list[x], "time") > Coord(t, list[y], "time"))) /\ y < x)}]
  OBVIOUS
<1>5. PICK order, melted, rows : /\ order = Ordered(DOMAIN list, below)
                                 /\ melted = [k \in DOMAIN order |-> list[order[k]]]
                                 /\ rows = PreviewRows(t, melted)
  OBVIOUS
<1>6. TablePreview(t, f, limit) = FirstRows(rows, limit)
  BY <1>1, <1>4, <1>5 DEF TablePreview, Sorted, SortedPositions, InOrder
<1>7. DOMAIN order = 1..n
  BY <1>2, <1>3, <1>5, OrderedLength, RangeCount
<1>8. IsList(rows, n)
  BY <1>2, <1>5, <1>7 DEF PreviewRows, IsList
<1>9. TableMatching(t, f) = n
  BY <1>1 DEF TableMatching
<1> QED
  BY <1>2, <1>6, <1>8, <1>9, FirstRowsIs

\* A preview of the rows has those that match, to the limit.
LEMMA RecordPreviewIs ==
    ASSUME NEW rows, IsFiniteSet(rows), NEW f, NEW limit \in Nat
    PROVE  /\ Cardinality(RecordsMatching(rows, f)) \in Nat
           /\ IsList(RecordPreview(rows, f, limit), Lesser(limit, Cardinality(RecordsMatching(rows, f))))
<1>1. PICK S, n, list : S = RecordsMatching(rows, f) /\ n = Cardinality(S) /\ list = SetToSeq(S)
  OBVIOUS
<1>2. IsFiniteSet(S) /\ n \in Nat
  BY <1>1, FS_Subset, FS_CardinalityType DEF RecordsMatching
<1>3. DOMAIN list = 1..n
  BY <1>1, <1>2, SetToSeqIs
<1>4. PICK below :
        below = [x \in DOMAIN list |->
                   {y \in DOMAIN list :
                       \/ (list[y].time # None /\ (list[x].time = None \/ list[y].time > list[x].time))
                       \/ (~(list[x].time # None /\ (list[y].time = None \/ list[x].time > list[y].time))
                             /\ y < x)}]
  OBVIOUS
<1>5. PICK order, s : order = Ordered(DOMAIN list, below) /\ s = [k \in DOMAIN order |-> list[order[k]]]
  OBVIOUS
<1>6. RecordPreview(rows, f, limit) = FirstRows(s, limit)
  BY <1>1, <1>4, <1>5 DEF RecordPreview, Sorted, SortedPositions, InOrder
<1>7. DOMAIN order = 1..n
  BY <1>2, <1>3, <1>5, OrderedLength, RangeCount
<1>8. IsList(s, n)
  BY <1>2, <1>5, <1>7 DEF IsList
<1> QED
  BY <1>1, <1>2, <1>6, <1>8, FirstRowsIs

-----------------------------------------------------------------------------
(* Lists of lists                                                          *)

Flattens(F, seqs, k) == F = [i \in 1..k |-> IF i = 1 THEN seqs[i] ELSE F[i-1] \o seqs[i]]

LEMMA FlattensNext ==
    ASSUME NEW seqs, NEW k \in Nat, NEW F, Flattens(F, seqs, k)
    PROVE  \E G : Flattens(G, seqs, k + 1)
<1>1. PICK G : G = [i \in 1..(k + 1) |-> IF i = k + 1 THEN (IF i = 1 THEN seqs[i] ELSE F[k] \o seqs[i]) ELSE F[i]]
  OBVIOUS
<1>2. \A i \in 1..k : F[i] = IF i = 1 THEN seqs[i] ELSE F[i-1] \o seqs[i]
  BY DEF Flattens
<1>3. \A i \in 1..k : G[i] = F[i]
  BY <1>1
<1>4. ASSUME NEW i \in 1..(k + 1) PROVE G[i] = IF i = 1 THEN seqs[i] ELSE G[i-1] \o seqs[i]
  <2>1. CASE i = k + 1
    <3>1. CASE i = 1
      BY <1>1, <2>1, <3>1
    <3>2. CASE i # 1
      <4>1. i - 1 = k /\ k \in 1..k
        BY <2>1, <3>2
      <4>2. G[k] = F[k]
        BY <1>3, <4>1
      <4>3. G[i] = F[k] \o seqs[i]
        BY <1>1, <2>1, <3>2
      <4> QED
        BY <3>2, <4>1, <4>2, <4>3
    <3> QED
      BY <3>1, <3>2
  <2>2. CASE i # k + 1
    <3>1. i \in 1..k
      BY <2>2
    <3>2. CASE i = 1
      BY <1>2, <1>3, <3>1, <3>2
    <3>3. CASE i # 1
      <4>1. i - 1 \in 1..k
        BY <3>1, <3>3
      <4> QED
        BY <1>2, <1>3, <3>1, <3>3, <4>1
    <3> QED
      BY <3>2, <3>3
  <2> QED
    BY <2>1, <2>2
<1>5. G = [i \in 1..(k + 1) |-> G[i]]
  BY <1>1
<1>6. G = [i \in 1..(k + 1) |-> IF i = 1 THEN seqs[i] ELSE G[i-1] \o seqs[i]]
  BY <1>4, <1>5
<1> QED
  BY <1>6 DEF Flattens

LEMMA FlattensExists ==
    ASSUME NEW seqs, NEW n \in Nat
    PROVE  \E F : Flattens(F, seqs, n)
<1>1. PICK K : K = {k \in Nat : ~\E F : Flattens(F, seqs, k)}
  OBVIOUS
<1>2. SUFFICES ASSUME K # {} PROVE FALSE
  BY <1>1
<1>3. PICK k \in K : \A j \in K : k <= j
  BY <1>1, <1>2, LeastOf
<1>4. CASE k = 0
  <2>1. PICK F : F = [i \in 1..k |-> seqs[i]]
    OBVIOUS
  <2>2. F = [i \in 1..k |-> IF i = 1 THEN seqs[i] ELSE F[i-1] \o seqs[i]]
    BY <1>4, <2>1
  <2>3. Flattens(F, seqs, k)
    BY <2>2 DEF Flattens
  <2> QED
    BY <1>1, <2>3
<1>5. CASE k # 0
  <2>1. PICK j \in Nat : k = j + 1
    <3>1. k - 1 \in Nat /\ k = (k - 1) + 1
      BY <1>1, <1>5
    <3> QED
      BY <3>1
  <2>2. PICK F : Flattens(F, seqs, j)
    BY <1>1, <1>3, <2>1
  <2>3. \E G : Flattens(G, seqs, j + 1)
    BY <2>2, FlattensNext
  <2> QED
    BY <1>1, <2>1, <2>3
<1> QED
  BY <1>4, <1>5

\* The lists of a list, one after the other.
LEMMA FlattenIs ==
    ASSUME NEW seqs, NEW n, IsList(seqs, n), n # 0
    PROVE  \E F : Flattens(F, seqs, n) /\ FlattenSeq(seqs) = F[n]
<1>1. Len(seqs) = n /\ n \in Nat
  BY DEF IsList
<1>2. PICK F : F = CHOOSE G : Flattens(G, seqs, n)
  OBVIOUS
<1>3. Flattens(F, seqs, n)
  BY <1>1, <1>2, FlattensExists
<1>4. F = CHOOSE G : G = [i \in 1..Len(seqs) |-> IF i = 1 THEN seqs[i] ELSE G[i-1] \o seqs[i]]
  BY <1>1, <1>2 DEF Flattens
<1>5. FlattenSeq(seqs) = F[n]
  BY <1>1, <1>4 DEF FlattenSeq
<1> QED
  BY <1>3, <1>5

\* s has as many rows as the counts of the first k, as far as the limit allows.
RowsUpTo(s, c, k, limit) ==
    \E m \in Nat : IsList(s, m) /\ Lesser(limit, m) = Lesser(limit, SumFunctionOnSet(c, 1..k))

\* Each list has the rows that its count allows.
Limited(seqs, c, n, limit) ==
    \A i \in 1..n : c[i] \in Nat /\ IsList(seqs[i], Lesser(limit, c[i]))

\* A sum over a range, from its last term.
LEMMA SumUpTo ==
    ASSUME NEW c, NEW n \in Nat, \A i \in 1..n : c[i] \in Nat, NEW k \in 1..n
    PROVE  /\ SumFunctionOnSet(c, 1..k) = c[k] + SumFunctionOnSet(c, 1..(k - 1))
           /\ SumFunctionOnSet(c, 1..(k - 1)) \in Nat
<1>1. PICK S, T : S = 1..k /\ T = 1..(k - 1) /\ T = S \ {k} /\ S \subseteq 1..n /\ T \subseteq 1..n
  OBVIOUS
<1>2. IsFiniteSet(S) /\ IsFiniteSet(T) /\ k \in S
  BY <1>1, FS_Interval
<1>3. \A i \in S : c[i] \in Int
  BY <1>1
<1>4. SumFunctionOnSet(c, S) = c[k] + SumFunctionOnSet(c, S \ {k})
  BY <1>2, <1>3, SumRemove, Zenon
<1>5. \A i \in T : c[i] \in Nat
  BY <1>1
<1>6. SumFunctionOnSet(c, T) \in Nat
  BY <1>2, <1>5, SumNat
<1> QED
  BY <1>1, <1>4, <1>6

\* One more list.
LEMMA RowsNext ==
    ASSUME NEW seqs, NEW c, NEW n \in Nat, NEW limit \in Nat, Limited(seqs, c, n, limit),
           NEW k \in 1..n, NEW s, RowsUpTo(s, c, k - 1, limit)
    PROVE  RowsUpTo(s \o seqs[k], c, k, limit)
<1>1. PICK m \in Nat : IsList(s, m) /\ Lesser(limit, m) = Lesser(limit, SumFunctionOnSet(c, 1..(k - 1)))
  BY DEF RowsUpTo
<1>2. PICK x, l : x = c[k] /\ x \in Nat /\ l = Lesser(limit, x) /\ l \in Nat /\ IsList(seqs[k], l)
  BY DEF Limited, Lesser
<1>3. IsList(s \o seqs[k], m + l)
  <2>1. IsJoined(s \o seqs[k], s, m, seqs[k], l)
    BY <1>1, <1>2, ConcatIs
  <2> QED
    BY <2>1 DEF IsJoined
<1>4. PICK a, b : /\ a = SumFunctionOnSet(c, 1..(k - 1)) /\ b = SumFunctionOnSet(c, 1..k)
                  /\ a \in Nat /\ b = x + a
  <2>1. \A i \in 1..n : c[i] \in Nat
    BY DEF Limited
  <2>2. /\ SumFunctionOnSet(c, 1..k) = c[k] + SumFunctionOnSet(c, 1..(k - 1))
        /\ SumFunctionOnSet(c, 1..(k - 1)) \in Nat
    BY <2>1, SumUpTo
  <2> QED
    BY <1>2, <2>2
<1>5. Lesser(limit, m + l) = Lesser(limit, b)
  BY <1>1, <1>2, <1>4 DEF Lesser
<1>6. m + l \in Nat
  BY <1>2
<1> QED
  BY <1>3, <1>4, <1>5, <1>6 DEF RowsUpTo

\* Lists that are each cut to a limit, joined and cut again, are as long as uncut ones.
LEMMA FlattenRows ==
    ASSUME NEW seqs, NEW n, IsList(seqs, n), NEW c, NEW limit \in Nat, Limited(seqs, c, n, limit)
    PROVE  RowsUpTo(FlattenSeq(seqs), c, n, limit)
<1>1. n \in Nat
  BY DEF IsList
<1>2. RowsUpTo(<<>>, c, 0, limit)
  <2>1. 1..0 = {}
    OBVIOUS
  <2>2. SumFunctionOnSet(c, 1..0) = 0
    BY <2>1, SumEmpty
  <2>3. IsList(<<>>, 0)
    BY NoList
  <2> QED
    BY <2>2, <2>3 DEF RowsUpTo
<1>3. CASE n = 0
  <2>1. Len(seqs) = 0 /\ seqs = <<>>
    BY <1>3 DEF IsList
  <2>2. FlattenSeq(seqs) = seqs
    BY <2>1 DEF FlattenSeq
  <2> QED
    BY <1>2, <1>3, <2>1, <2>2
<1>4. CASE n # 0
  <2>1. PICK F : Flattens(F, seqs, n) /\ FlattenSeq(seqs) = F[n]
    BY <1>4, FlattenIs
  <2>2. \A i \in 1..n : F[i] = IF i = 1 THEN seqs[i] ELSE F[i-1] \o seqs[i]
    BY <2>1 DEF Flattens
  <2>3. PICK K : K = {k \in 1..n : ~RowsUpTo(F[k], c, k, limit)}
    OBVIOUS
  <2>4. ASSUME K # {} PROVE FALSE
    <3>1. PICK k \in K : \A j \in K : k <= j
      <4>1. K \subseteq Nat
        BY <2>3
      <4> QED
        BY <2>4, <4>1, LeastOf
    <3>2. k \in 1..n /\ ~RowsUpTo(F[k], c, k, limit)
      BY <2>3
    <3>3. CASE k = 1
      <4>1. RowsUpTo(<<>> \o seqs[k], c, k, limit)
        <5>1. RowsUpTo(<<>>, c, k - 1, limit)
          BY <1>2, <3>3
        <5> QED
          BY <1>1, <3>2, <5>1, RowsNext
      <4>2. <<>> \o seqs[k] = seqs[k]
        <5>1. PICK m : m = Lesser(limit, c[k]) /\ IsList(seqs[k], m)
          BY <3>2 DEF Limited
        <5>2. PICK S : S = {seqs[k][i] : i \in 1..m}
          OBVIOUS
        <5>3. seqs[k] \in [1..m -> S] /\ m \in Nat
          BY <5>1, <5>2 DEF IsList
        <5>4. seqs[k] \in Seq(S)
          BY <5>3
        <5> QED
          BY <5>4
      <4>3. F[k] = seqs[k]
        BY <2>2, <3>2, <3>3
      <4> QED
        BY <3>2, <4>1, <4>2, <4>3
    <3>4. CASE k # 1
      <4>1. k - 1 \in 1..n /\ ~(k <= k - 1)
        BY <1>1, <3>2, <3>4
      <4>2. RowsUpTo(F[k - 1], c, k - 1, limit)
        BY <2>3, <3>1, <4>1
      <4>3. RowsUpTo(F[k - 1] \o seqs[k], c, k, limit)
        BY <1>1, <3>2, <4>2, RowsNext
      <4>4. F[k] = F[k - 1] \o seqs[k]
        BY <2>2, <3>2, <3>4
      <4> QED
        BY <3>2, <4>3, <4>4
    <3> QED
      BY <3>3, <3>4
  <2>5. n \in 1..n
    BY <1>1, <1>4
  <2>6. RowsUpTo(F[n], c, n, limit)
    BY <2>3, <2>4, <2>5
  <2> QED
    BY <2>1, <2>6
<1> QED
  BY <1>3, <1>4
=============================================================================
