------------------------------- MODULE SumLemmas -------------------------------
(***************************************************************************)
(* The sum of a function over a finite set, as the community modules fold  *)
(* it, does not depend on the order of the elements.  Each proof is by the *)
(* minimal counterexample: were there a subset for which the claim fails,  *)
(* there would be one none of whose proper subsets fails.                  *)
(***************************************************************************)
EXTENDS Integers, FiniteSets, Functions, FiniteSetTheorems, WellFoundedInduction, TLAPS

\* A family of subsets of a finite set has a minimal member.
LEMMA MinimalMember ==
  ASSUME NEW S, IsFiniteSet(S), NEW F, F \subseteq SUBSET S, F # {}
  PROVE  \E t \in F : \A u \in F : u \subseteq t => u = t
<1>1. IsWellFoundedOn(StrictSubsetOrdering(S), SUBSET S)
  BY FS_StrictSubsetOrderingWellFounded, FS_FiniteSubsetsOfFinite
<1>2. PICK t \in F : \A u \in F : ~(<<u, t>> \in StrictSubsetOrdering(S))
  BY <1>1, WFMin
<1> QED BY <1>2 DEF StrictSubsetOrdering

-----------------------------------------------------------------------------
(* The fold, and its equation.                                             *)

Pick(s) == CHOOSE x \in s : TRUE

\* g adds up f over each subset of S, one picked element at a time.
Adds(g, f, S) ==
  g = [s \in SUBSET S |-> IF s = {} THEN 0 ELSE f[Pick(s)] + g[s \ {Pick(s)}]]

Adder(f, S) == CHOOSE g : Adds(g, f, S)

LEMMA SumIsAdder ==
  ASSUME NEW f, NEW S
  PROVE  SumFunctionOnSet(f, S) = Adder(f, S)[S]
  BY DEF SumFunctionOnSet, FoldFunctionOnSet, MapThenFoldSet, Adder, Adds, Pick

LEMMA PickIn ==
  ASSUME NEW s, s # {}
  PROVE  Pick(s) \in s
  BY DEF Pick

LEMMA AddsEquation ==
  ASSUME NEW g, NEW f, NEW S, Adds(g, f, S), NEW s \in SUBSET S
  PROVE  g[s] = IF s = {} THEN 0 ELSE f[Pick(s)] + g[s \ {Pick(s)}]
<1> DEFINE h == [t \in SUBSET S |-> IF t = {} THEN 0 ELSE f[Pick(t)] + g[t \ {Pick(t)}]]
<1>1. g = h
  BY DEF Adds
<1>2. h[s] = IF s = {} THEN 0 ELSE f[Pick(s)] + g[s \ {Pick(s)}]
  OBVIOUS
<1> HIDE DEF h
<1> QED BY <1>1, <1>2

\* Two such functions agree wherever both are defined.
LEMMA AddsAgree ==
  ASSUME NEW f, NEW S, NEW T, IsFiniteSet(S), NEW g, NEW h, Adds(g, f, S), Adds(h, f, T),
         NEW s \in SUBSET S, s \in SUBSET T
  PROVE  g[s] = h[s]
<1> DEFINE Bad == {u \in SUBSET S : u \in SUBSET T /\ g[u] # h[u]}
<1>1. SUFFICES ASSUME Bad # {} PROVE FALSE
  OBVIOUS
<1>2. PICK u \in Bad : \A v \in Bad : v \subseteq u => v = u
  <2>1. Bad \subseteq SUBSET S
    OBVIOUS
  <2> HIDE DEF Bad
  <2> QED BY <1>1, <2>1, MinimalMember
<1>3. CASE u = {}
  BY <1>3, <1>2, AddsEquation
<1>4. CASE u # {}
  <2>1. Pick(u) \in u
    BY <1>4, PickIn
  <2>2. u \ {Pick(u)} \notin Bad
    BY <1>2, <2>1
  <2>3. g[u \ {Pick(u)}] = h[u \ {Pick(u)}]
    BY <2>2, <1>2
  <2>4. g[u] = f[Pick(u)] + g[u \ {Pick(u)}] /\ h[u] = f[Pick(u)] + h[u \ {Pick(u)}]
    BY <1>2, <1>4, AddsEquation
  <2> QED BY <2>3, <2>4, <1>2
<1> QED BY <1>3, <1>4

\* There is such a function for every finite set, so the fold is one.
LEMMA AdderAdds ==
  ASSUME NEW f, NEW S, IsFiniteSet(S)
  PROVE  Adds(Adder(f, S), f, S)
<1> DEFINE Bad == {u \in SUBSET S : ~ \E g : Adds(g, f, u)}
<1>1. SUFFICES ASSUME Bad # {} PROVE FALSE
  <2>1. Bad = {} => \E g : Adds(g, f, S)
    OBVIOUS
  <2> QED BY <2>1 DEF Adder
<1>2. PICK t \in Bad : \A u \in Bad : u \subseteq t => u = t
  <2>1. Bad \subseteq SUBSET S
    OBVIOUS
  <2> HIDE DEF Bad
  <2> QED BY <1>1, <2>1, MinimalMember
<1>3. ASSUME NEW u \in SUBSET t, u # t PROVE Adds(Adder(f, u), f, u) /\ IsFiniteSet(u)
  <2>1. u \notin Bad /\ u \in SUBSET S
    BY <1>2, <1>3
  <2>2. PICK g : Adds(g, f, u)
    BY <2>1
  <2>3. IsFiniteSet(u)
    BY <2>1, FS_Subset
  <2> QED BY <2>2, <2>3 DEF Adder
<1> DEFINE total(u) == Adder(f, u)[u]
           g == [s \in SUBSET t |-> IF s = {} THEN 0 ELSE f[Pick(s)] + total(s \ {Pick(s)})]
<1>4. ASSUME NEW u \in SUBSET t, u # t PROVE g[u] = total(u)
  <2>1. Adds(Adder(f, u), f, u) /\ IsFiniteSet(u)
    BY <1>3, <1>4
  <2>2. total(u) = IF u = {} THEN 0 ELSE f[Pick(u)] + Adder(f, u)[u \ {Pick(u)}]
    BY <2>1, AddsEquation
  <2>3. CASE u # {}
    <3>1. Pick(u) \in u /\ u \ {Pick(u)} \in SUBSET t /\ u \ {Pick(u)} # t
      BY <2>3, PickIn, <1>4
    <3>2. Adds(Adder(f, u \ {Pick(u)}), f, u \ {Pick(u)})
      BY <3>1, <1>3
    <3>3. Adder(f, u)[u \ {Pick(u)}] = total(u \ {Pick(u)})
      BY <2>1, <3>2, AddsAgree
    <3> QED BY <2>2, <2>3, <3>3
  <2> QED BY <2>2, <2>3
<1>5. ASSUME NEW s \in SUBSET t
      PROVE  g[s] = IF s = {} THEN 0 ELSE f[Pick(s)] + g[s \ {Pick(s)}]
  <2>1. CASE s # {}
    <3>1. s \ {Pick(s)} \in SUBSET t /\ s \ {Pick(s)} # t
      BY <2>1, PickIn
    <3>2. g[s \ {Pick(s)}] = total(s \ {Pick(s)})
      BY <3>1, <1>4
    <3> HIDE DEF total
    <3> QED BY <2>1, <3>2
  <2> QED BY <2>1
<1>6. g = [s \in SUBSET t |-> g[s]]
  OBVIOUS
<1> HIDE DEF g
<1>7. Adds(g, f, t)
  BY <1>5, <1>6 DEF Adds
<1> QED BY <1>2, <1>7

LEMMA SumEmpty ==
  ASSUME NEW f
  PROVE  SumFunctionOnSet(f, {}) = 0
  BY SumIsAdder, AdderAdds, AddsEquation, FS_EmptySet

LEMMA SumPick ==
  ASSUME NEW f, NEW S, IsFiniteSet(S), S # {}
  PROVE  SumFunctionOnSet(f, S) = f[Pick(S)] + SumFunctionOnSet(f, S \ {Pick(S)})
<1> DEFINE R == S \ {Pick(S)}
<1>1. IsFiniteSet(R) /\ R \in SUBSET S
  BY FS_Subset
<1>2. Adds(Adder(f, S), f, S) /\ Adds(Adder(f, R), f, R)
  BY <1>1, AdderAdds
<1>3. Adder(f, S)[S] = f[Pick(S)] + Adder(f, S)[R]
  BY <1>2, AddsEquation
<1>4. Adder(f, S)[R] = Adder(f, R)[R]
  BY <1>1, <1>2, AddsAgree
<1> QED BY <1>3, <1>4, SumIsAdder

-----------------------------------------------------------------------------
(* What a sum of natural numbers obeys.                                    *)

NaturalOn(f, S) == \A x \in S : f[x] \in Nat

LEMMA SumType ==
  ASSUME NEW f, NEW S, IsFiniteSet(S), NaturalOn(f, S)
  PROVE  SumFunctionOnSet(f, S) \in Nat
<1> DEFINE Bad == {u \in SUBSET S : SumFunctionOnSet(f, u) \notin Nat}
<1>1. SUFFICES ASSUME Bad # {} PROVE FALSE
  OBVIOUS
<1>2. PICK u \in Bad : \A v \in Bad : v \subseteq u => v = u
  <2>1. Bad \subseteq SUBSET S
    OBVIOUS
  <2> HIDE DEF Bad
  <2> QED BY <1>1, <2>1, MinimalMember
<1>3. u # {}
  <2>1. SumFunctionOnSet(f, u) \notin Nat
    BY <1>2
  <2> HIDE DEF Bad
  <2> QED BY <2>1, SumEmpty
<1>4. Pick(u) \in u /\ IsFiniteSet(u)
  BY <1>2, <1>3, PickIn, FS_Subset
<1>5. SumFunctionOnSet(f, u \ {Pick(u)}) \in Nat
  BY <1>2, <1>4
<1>6. SumFunctionOnSet(f, u) = f[Pick(u)] + SumFunctionOnSet(f, u \ {Pick(u)})
  BY <1>3, <1>4, SumPick
<1>7. f[Pick(u)] \in Nat
  BY <1>2, <1>4 DEF NaturalOn
<1>8. SumFunctionOnSet(f, u) \in Nat
  BY <1>5, <1>6, <1>7
<1> QED BY <1>2, <1>8

\* Any element may be taken out first.
LEMMA SumAny ==
  ASSUME NEW f, NEW S, IsFiniteSet(S), NaturalOn(f, S), NEW y \in S
  PROVE  SumFunctionOnSet(f, S) = f[y] + SumFunctionOnSet(f, S \ {y})
<1> DEFINE total(u) == SumFunctionOnSet(f, u)
           Bad == {u \in SUBSET S : \E x \in u : total(u) # f[x] + total(u \ {x})}
<1>1. SUFFICES ASSUME Bad # {} PROVE FALSE
  OBVIOUS
<1>2. PICK u \in Bad : \A v \in Bad : v \subseteq u => v = u
  <2>1. Bad \subseteq SUBSET S
    OBVIOUS
  <2> HIDE DEF Bad
  <2> QED BY <1>1, <2>1, MinimalMember
<1>3. PICK x \in u : total(u) # f[x] + total(u \ {x})
  BY <1>2
<1> DEFINE p == Pick(u)
<1>4. p \in u /\ u \in SUBSET S /\ IsFiniteSet(u)
  BY <1>2, <1>3, PickIn, FS_Subset
<1>5. \A v \in SUBSET S : v \subseteq u /\ v # u => \A z \in v : total(v) = f[z] + total(v \ {z})
  BY <1>2
<1> HIDE DEF Bad
<1>6. total(u) = f[p] + total(u \ {p})
  BY <1>4, SumPick
<1>7. CASE p = x
  BY <1>3, <1>6, <1>7
<1>8. CASE p # x
  <2>1. total(u \ {p}) = f[x] + total((u \ {p}) \ {x})
    BY <1>3, <1>4, <1>5, <1>8
  <2>2. total(u \ {x}) = f[p] + total((u \ {x}) \ {p})
    BY <1>3, <1>4, <1>5, <1>8
  <2>3. (u \ {x}) \ {p} = (u \ {p}) \ {x}
    OBVIOUS
  <2>4. f[x] \in Nat /\ f[p] \in Nat /\ total((u \ {p}) \ {x}) \in Nat
    <3>1. IsFiniteSet((u \ {p}) \ {x}) /\ NaturalOn(f, (u \ {p}) \ {x})
      BY <1>4, FS_Subset DEF NaturalOn
    <3> QED BY <1>3, <1>4, <3>1, SumType DEF NaturalOn
  <2>5. total(u \ {x}) = f[p] + total((u \ {p}) \ {x})
    BY <2>2, <2>3
  <2> DEFINE rest == total((u \ {p}) \ {x})
  <2>6. total(u) = f[p] + (f[x] + rest) /\ f[x] + total(u \ {x}) = f[x] + (f[p] + rest)
    BY <1>6, <2>1, <2>5
  <2>7. f[p] + (f[x] + rest) = f[x] + (f[p] + rest)
    <3> HIDE DEF rest, p
    <3> QED BY <2>4 DEF rest
  <2> QED BY <1>3, <2>6, <2>7
<1> QED BY <1>7, <1>8

LEMMA SumAgree ==
  ASSUME NEW f, NEW g, NEW S, IsFiniteSet(S), \A x \in S : f[x] = g[x]
  PROVE  SumFunctionOnSet(f, S) = SumFunctionOnSet(g, S)
<1> DEFINE Bad == {u \in SUBSET S : SumFunctionOnSet(f, u) # SumFunctionOnSet(g, u)}
<1>1. SUFFICES ASSUME Bad # {} PROVE FALSE
  OBVIOUS
<1>2. PICK u \in Bad : \A v \in Bad : v \subseteq u => v = u
  <2>1. Bad \subseteq SUBSET S
    OBVIOUS
  <2> HIDE DEF Bad
  <2> QED BY <1>1, <2>1, MinimalMember
<1>3. u \in SUBSET S /\ SumFunctionOnSet(f, u) # SumFunctionOnSet(g, u)
  BY <1>2
<1>4. \A v \in SUBSET S : v \subseteq u /\ v # u => SumFunctionOnSet(f, v) = SumFunctionOnSet(g, v)
  BY <1>2
<1> HIDE DEF Bad
<1>5. u # {}
  BY <1>3, SumEmpty
<1>6. Pick(u) \in u /\ IsFiniteSet(u)
  BY <1>3, <1>5, PickIn, FS_Subset
<1>7. /\ SumFunctionOnSet(f, u) = f[Pick(u)] + SumFunctionOnSet(f, u \ {Pick(u)})
      /\ SumFunctionOnSet(g, u) = g[Pick(u)] + SumFunctionOnSet(g, u \ {Pick(u)})
  BY <1>5, <1>6, SumPick
<1> QED BY <1>3, <1>4, <1>6, <1>7

\* The sum over a set is the sum over a part of it and over the rest.
LEMMA SumSplit ==
  ASSUME NEW f, NEW S, IsFiniteSet(S), NaturalOn(f, S), NEW A \in SUBSET S
  PROVE  SumFunctionOnSet(f, S) = SumFunctionOnSet(f, A) + SumFunctionOnSet(f, S \ A)
<1> DEFINE total(u) == SumFunctionOnSet(f, u)
           Bad == {u \in SUBSET S : A \subseteq u /\ total(u) # total(A) + total(u \ A)}
<1>1. SUFFICES ASSUME Bad # {} PROVE FALSE
  OBVIOUS
<1>2. PICK u \in Bad : \A v \in Bad : v \subseteq u => v = u
  <2>1. Bad \subseteq SUBSET S
    OBVIOUS
  <2> HIDE DEF Bad
  <2> QED BY <1>1, <2>1, MinimalMember
<1>3. u \in SUBSET S /\ A \subseteq u /\ total(u) # total(A) + total(u \ A)
  BY <1>2
<1>4. \A v \in SUBSET S : v \subseteq u /\ v # u /\ A \subseteq v => total(v) = total(A) + total(v \ A)
  BY <1>2
<1> HIDE DEF Bad
<1>5. \A v \in SUBSET S : total(v) \in Nat /\ \A z \in v : total(v) = f[z] + total(v \ {z})
  <2> SUFFICES ASSUME NEW v \in SUBSET S
               PROVE  total(v) \in Nat /\ \A z \in v : total(v) = f[z] + total(v \ {z})
    OBVIOUS
  <2>1. IsFiniteSet(v) /\ NaturalOn(f, v)
    BY FS_Subset DEF NaturalOn
  <2> QED BY <2>1, SumType, SumAny
<1>6. u # A
  <2>1. total({}) = 0 /\ A \ A = {}
    BY SumEmpty
  <2>2. total(A) \in Nat
    BY <1>5
  <2> HIDE DEF total
  <2> QED BY <1>3, <2>1, <2>2
<1>7. PICK x \in u : x \notin A
  BY <1>3, <1>6
<1>8. total(u) = f[x] + total(u \ {x}) /\ total(u \ A) = f[x] + total((u \ A) \ {x})
  BY <1>3, <1>5, <1>7
<1>9. total(u \ {x}) = total(A) + total((u \ {x}) \ A)
  BY <1>3, <1>4, <1>7
<1>10. (u \ {x}) \ A = (u \ A) \ {x}
  OBVIOUS
<1>11. f[x] \in Nat /\ total(A) \in Nat /\ total((u \ A) \ {x}) \in Nat
  BY <1>3, <1>5, <1>7 DEF NaturalOn
<1> HIDE DEF total
<1> QED BY <1>3, <1>8, <1>9, <1>10, <1>11

LEMMA SumMonotone ==
  ASSUME NEW f, NEW S, IsFiniteSet(S), NaturalOn(f, S), NEW A \in SUBSET S
  PROVE  SumFunctionOnSet(f, A) <= SumFunctionOnSet(f, S)
<1>1. /\ IsFiniteSet(A) /\ NaturalOn(f, A)
      /\ IsFiniteSet(S \ A) /\ NaturalOn(f, S \ A)
  BY FS_Subset DEF NaturalOn
<1>2. SumFunctionOnSet(f, A) \in Nat /\ SumFunctionOnSet(f, S \ A) \in Nat
  BY <1>1, SumType
<1> QED BY <1>2, SumSplit

LEMMA SumZero ==
  ASSUME NEW f, NEW S, IsFiniteSet(S), \A x \in S : f[x] = 0
  PROVE  SumFunctionOnSet(f, S) = 0
<1> DEFINE Bad == {u \in SUBSET S : SumFunctionOnSet(f, u) # 0}
<1>1. SUFFICES ASSUME Bad # {} PROVE FALSE
  OBVIOUS
<1>2. PICK u \in Bad : \A v \in Bad : v \subseteq u => v = u
  <2>1. Bad \subseteq SUBSET S
    OBVIOUS
  <2> HIDE DEF Bad
  <2> QED BY <1>1, <2>1, MinimalMember
<1>3. u \in SUBSET S /\ SumFunctionOnSet(f, u) # 0
  BY <1>2
<1>4. \A v \in SUBSET S : v \subseteq u /\ v # u => SumFunctionOnSet(f, v) = 0
  BY <1>2
<1> HIDE DEF Bad
<1>5. u # {}
  BY <1>3, SumEmpty
<1>6. Pick(u) \in u /\ IsFiniteSet(u)
  BY <1>3, <1>5, PickIn, FS_Subset
<1>7. SumFunctionOnSet(f, u) = f[Pick(u)] + SumFunctionOnSet(f, u \ {Pick(u)})
  BY <1>5, <1>6, SumPick
<1>8. f[Pick(u)] = 0 /\ SumFunctionOnSet(f, u \ {Pick(u)}) = 0
  BY <1>3, <1>4, <1>6
<1> QED BY <1>3, <1>7, <1>8
=============================================================================
