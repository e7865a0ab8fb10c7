----------------------------- MODULE SetInduction ------------------------------
(***************************************************************************)
(* Induction and sums, for the proofs of this project.                     *)
(*                                                                         *)
(* An induction is carried out as the choice of a smallest counterexample: *)
(* the least number or a smallest set of which something fails.  The sums  *)
(* are those of the community module Functions, SumFunctionOnSet, which    *)
(* adds a function's values up in an order nothing is known of.            *)
(***************************************************************************)
EXTENDS Integers, FiniteSetsExt, FiniteSetTheorems, WellFoundedInduction, TLAPS

LEMMA LeastNatural ==
    ASSUME NEW T \in SUBSET Nat, T # {}
    PROVE  \E x \in T : \A y \in T : x <= y
<1> DEFINE less == {ss \in Nat \X Nat : ss[1] < ss[2]}
<1>1. IsWellFoundedOn(less, Nat)
  BY NatLessThanWellFounded DEF OpToRel
<1>2. \A x, y \in Nat : <<x, y>> \in less <=> x < y
  OBVIOUS
<1> HIDE DEF less
<1>3. PICK x \in T : \A y \in T : <<y, x>> \notin less
  BY <1>1, WFMin
<1>4. ASSUME NEW y \in T PROVE x <= y
  <2>1. x \in Nat /\ y \in Nat
    OBVIOUS
  <2>2. ~(y < x)
    BY <1>2, <1>3, <2>1
  <2> QED BY <2>1, <2>2
<1> QED BY <1>4

LEMMA WithoutElement ==
    ASSUME NEW S, IsFiniteSet(S), NEW s \in SUBSET S
    PROVE  /\ IsFiniteSet(s) /\ Cardinality(s) \in Nat
           /\ Cardinality(s) <= Cardinality(S)
           /\ Cardinality(s) = 0 <=> s = {}
           /\ \A x \in s : /\ s \ {x} \in SUBSET S
                           /\ Cardinality(s \ {x}) = Cardinality(s) - 1
<1>1. IsFiniteSet(s) /\ Cardinality(s) <= Cardinality(S)
  BY FS_Subset
<1>2. Cardinality(s) \in Nat
  BY <1>1, FS_CardinalityType
<1>3. Cardinality(s) = 0 <=> s = {}
  BY <1>1, FS_EmptySet
<1>4. ASSUME NEW x \in s PROVE Cardinality(s \ {x}) = Cardinality(s) - 1
  BY <1>1, FS_RemoveElement
<1> QED BY <1>1, <1>2, <1>3, <1>4

\* Of the sets something fails of, one loses the failure with any element.
LEMMA SmallestSet ==
    ASSUME NEW S, IsFiniteSet(S), NEW Bad \in SUBSET (SUBSET S), Bad # {}
    PROVE  \E s \in Bad : \A x \in s : s \ {x} \notin Bad
<1> DEFINE sizes == {Cardinality(s) : s \in Bad}
<1>1. \A s \in Bad : s \in SUBSET S
  OBVIOUS
<1>2. sizes \in SUBSET Nat /\ sizes # {}
  BY <1>1, WithoutElement
<1>3. PICK n \in sizes : \A m \in sizes : n <= m
  BY <1>2, LeastNatural
<1>4. PICK s \in Bad : Cardinality(s) = n
  BY <1>3
<1>5. ASSUME NEW x \in s, s \ {x} \in Bad PROVE FALSE
  <2>1. Cardinality(s) \in Nat /\ Cardinality(s \ {x}) = Cardinality(s) - 1
    BY <1>1, WithoutElement
  <2>2. n <= Cardinality(s \ {x})
    BY <1>3, <1>5
  <2> QED BY <1>4, <2>1, <2>2
<1> QED BY <1>4, <1>5

--------------------------------------------------------------------------------
(* The sum of a function's values on a set.  Its definition recurs on the
   subsets of the set: first that the recursion has a solution, then that all
   solutions agree, then what does not depend on the order *)

Pick(s) == CHOOSE x \in s : TRUE

\* g solves the recursion on the sets D.
AddsUp(f, D, g) ==
    g = [s \in D |-> IF s = {} THEN 0 ELSE f[Pick(s)] + g[s \ {Pick(s)}]]

UpTo(S, n) == {s \in SUBSET S : Cardinality(s) <= n}

LEMMA Solvable ==
    ASSUME NEW S, IsFiniteSet(S), NEW f
    PROVE  \E g : AddsUp(f, SUBSET S, g)
<1> DEFINE unsolved == {n \in Nat : ~\E g : AddsUp(f, UpTo(S, n), g)}
<1>1. unsolved = {}
  <2>1. SUFFICES ASSUME unsolved # {} PROVE FALSE
    OBVIOUS
  <2>2. PICK n \in unsolved : \A m \in unsolved : n <= m
    BY <2>1, LeastNatural
  <2>3. n \in Nat /\ ~\E g : AddsUp(f, UpTo(S, n), g)
    OBVIOUS
  <2>4. CASE n = 0
    <3> DEFINE g == [s \in UpTo(S, n) |-> 0]
    <3>1. \A s \in UpTo(S, n) : s = {}
      BY <2>4, WithoutElement DEF UpTo
    <3>2. AddsUp(f, UpTo(S, n), g)
      BY <3>1 DEF AddsUp
    <3> QED BY <2>3, <3>2
  <2>5. CASE n # 0
    <3>1. n - 1 \in Nat /\ n - 1 \notin unsolved
      BY <2>2, <2>3, <2>5
    <3>2. PICK h : AddsUp(f, UpTo(S, n - 1), h)
      BY <3>1
    <3> DEFINE g == [s \in UpTo(S, n) |->
                       IF s = {} THEN 0 ELSE f[Pick(s)] + h[s \ {Pick(s)}]]
    <3>3. ASSUME NEW s \in UpTo(S, n), s # {}
          PROVE  g[s \ {Pick(s)}] = h[s \ {Pick(s)}]
      <4> DEFINE t == s \ {Pick(s)}
      <4>1. Pick(s) \in s
        BY <3>3 DEF Pick
      <4>2. t \in SUBSET S /\ Cardinality(t) = Cardinality(s) - 1
            /\ Cardinality(s) \in Nat
        BY <4>1, WithoutElement DEF UpTo
      <4>3. t \in UpTo(S, n - 1) /\ t \in UpTo(S, n)
        BY <2>3, <4>2 DEF UpTo
      <4>4. h[t] = IF t = {} THEN 0 ELSE f[Pick(t)] + h[t \ {Pick(t)}]
        BY <3>2, <4>3 DEF AddsUp
      <4> QED BY <4>3, <4>4
    <3>4. AddsUp(f, UpTo(S, n), g)
      BY <3>3 DEF AddsUp
    <3> QED BY <2>3, <3>4
  <2> QED BY <2>4, <2>5
<1>2. Cardinality(S) \in Nat /\ UpTo(S, Cardinality(S)) = SUBSET S
  BY WithoutElement DEF UpTo
<1>3. \E g : AddsUp(f, UpTo(S, Cardinality(S)), g)
  BY <1>1, <1>2
<1> QED BY <1>2, <1>3

LEMMA SolutionsAgree ==
    ASSUME NEW S, IsFiniteSet(S), NEW f, \A x \in S : f[x] \in Int,
           NEW g, AddsUp(f, SUBSET S, g),
           NEW T \in SUBSET S, NEW h, AddsUp(f, SUBSET T, h)
    PROVE  g[T] \in Int /\ g[T] = h[T]
<1> DEFINE bad == {s \in SUBSET T : ~(g[s] \in Int /\ g[s] = h[s])}
<1>0. \A s \in SUBSET T :
        /\ g[s] = IF s = {} THEN 0 ELSE f[Pick(s)] + g[s \ {Pick(s)}]
        /\ h[s] = IF s = {} THEN 0 ELSE f[Pick(s)] + h[s \ {Pick(s)}]
  BY DEF AddsUp
<1>1. bad = {}
  <2>1. SUFFICES ASSUME bad # {} PROVE FALSE
    OBVIOUS
  <2>2. IsFiniteSet(T) /\ bad \in SUBSET (SUBSET T)
    BY WithoutElement
  <2>3. PICK s \in bad : \A x \in s : s \ {x} \notin bad
    BY <2>1, <2>2, SmallestSet
  <2>4. s \in SUBSET T /\ ~(g[s] \in Int /\ g[s] = h[s])
    OBVIOUS
  <2>5. s # {}
    BY <1>0, <2>4
  <2> DEFINE x == Pick(s)
             t == s \ {x}
  <2>6. x \in s
    BY <2>5 DEF Pick
  <2>7. g[s] = f[x] + g[t] /\ h[s] = f[x] + h[t]
    BY <1>0, <2>4, <2>5
  <2> HIDE DEF x
  <2>8. t \in SUBSET T /\ t \notin bad
    BY <2>3, <2>4, <2>6
  <2>9. g[t] \in Int /\ g[t] = h[t] /\ f[x] \in Int
    BY <2>4, <2>6, <2>8
  <2> QED BY <2>4, <2>7, <2>9
<1> QED BY <1>1

LEMMA SumIs ==
    ASSUME NEW S, IsFiniteSet(S), NEW f
    PROVE  \E g : AddsUp(f, SUBSET S, g) /\ SumFunctionOnSet(f, S) = g[S]
<1> DEFINE g == CHOOSE g : AddsUp(f, SUBSET S, g)
<1>1. AddsUp(f, SUBSET S, g)
  BY Solvable
<1>2. SumFunctionOnSet(f, S) = g[S]
  BY DEF AddsUp, Pick, SumFunctionOnSet, FoldFunctionOnSet, MapThenFoldSet
<1> QED BY <1>1, <1>2

LEMMA SumRecurs ==
    ASSUME NEW S, IsFiniteSet(S), NEW f, \A x \in S : f[x] \in Int
    PROVE  /\ SumFunctionOnSet(f, S) \in Int
           /\ S = {} => SumFunctionOnSet(f, S) = 0
           /\ S # {} => /\ Pick(S) \in S
                        /\ SumFunctionOnSet(f, S) =
                             f[Pick(S)] + SumFunctionOnSet(f, S \ {Pick(S)})
<1>1. PICK g : AddsUp(f, SUBSET S, g) /\ SumFunctionOnSet(f, S) = g[S]
  BY SumIs
<1>2. g[S] \in Int
  BY <1>1, SolutionsAgree
<1>3. g[S] = IF S = {} THEN 0 ELSE f[Pick(S)] + g[S \ {Pick(S)}]
  BY <1>1 DEF AddsUp
<1>4. ASSUME S # {}
      PROVE  Pick(S) \in S /\ g[S \ {Pick(S)}] = SumFunctionOnSet(f, S \ {Pick(S)})
  <2> DEFINE T == S \ {Pick(S)}
  <2>1. T \in SUBSET S /\ IsFiniteSet(T)
    BY WithoutElement
  <2>2. PICK h : AddsUp(f, SUBSET T, h) /\ SumFunctionOnSet(f, T) = h[T]
    BY <2>1, SumIs
  <2>3. g[T] = h[T]
    BY <1>1, <2>1, <2>2, SolutionsAgree
  <2> QED BY <1>4, <2>2, <2>3 DEF Pick
<1> QED BY <1>1, <1>2, <1>3, <1>4

\* Any element may be added last.
LEMMA SumTakesOut ==
    ASSUME NEW S, IsFiniteSet(S), NEW f, \A x \in S : f[x] \in Int, NEW x \in S
    PROVE  SumFunctionOnSet(f, S) = f[x] + SumFunctionOnSet(f, S \ {x})
<1> DEFINE Out(s) == \A y \in s :
                       SumFunctionOnSet(f, s) = f[y] + SumFunctionOnSet(f, s \ {y})
           bad == {s \in SUBSET S : ~Out(s)}
<1>0. ASSUME NEW s \in SUBSET S
      PROVE  /\ SumFunctionOnSet(f, s) \in Int
             /\ s # {} => /\ Pick(s) \in s
                          /\ SumFunctionOnSet(f, s) =
                               f[Pick(s)] + SumFunctionOnSet(f, s \ {Pick(s)})
  <2>1. IsFiniteSet(s) /\ \A y \in s : f[y] \in Int
    BY WithoutElement
  <2> QED BY <2>1, SumRecurs
<1>1. bad = {}
  <2>1. SUFFICES ASSUME bad # {} PROVE FALSE
    OBVIOUS
  <2>2. bad \in SUBSET (SUBSET S)
    OBVIOUS
  <2>3. PICK s \in bad : \A y \in s : s \ {y} \notin bad
    BY <2>1, <2>2, SmallestSet
  <2>4. PICK y \in s : SumFunctionOnSet(f, s) # f[y] + SumFunctionOnSet(f, s \ {y})
    OBVIOUS
  <2> DEFINE z == Pick(s)
  <2>5. /\ s \in SUBSET S /\ z \in s
        /\ SumFunctionOnSet(f, s) = f[z] + SumFunctionOnSet(f, s \ {z})
    BY <1>0, <2>4
  <2> HIDE DEF z
  <2>6. z # y
    BY <2>4, <2>5
  <2>7. Out(s \ {z}) /\ Out(s \ {y})
    BY <2>3, <2>5
  <2> DEFINE both == SumFunctionOnSet(f, (s \ {z}) \ {y})
  <2>8. /\ SumFunctionOnSet(f, s \ {z}) = f[y] + both
        /\ SumFunctionOnSet(f, s \ {y}) = f[z] + both
    <3>1. (s \ {z}) \ {y} = (s \ {y}) \ {z}
      OBVIOUS
    <3>2. y \in s \ {z} /\ z \in s \ {y}
      BY <2>5, <2>6
    <3> QED BY <2>7, <3>1, <3>2
  <2>9. f[y] \in Int /\ f[z] \in Int /\ both \in Int
    BY <1>0, <2>5
  <2> QED BY <2>4, <2>5, <2>8, <2>9
<1> QED BY <1>1

LEMMA SumsAgree ==
    ASSUME NEW S, IsFiniteSet(S), NEW f, NEW g,
           \A x \in S : f[x] \in Int, \A x \in S : g[x] = f[x]
    PROVE  SumFunctionOnSet(g, S) = SumFunctionOnSet(f, S)
<1> DEFINE bad == {s \in SUBSET S : SumFunctionOnSet(g, s) # SumFunctionOnSet(f, s)}
<1>0. ASSUME NEW s \in SUBSET S
      PROVE  /\ SumFunctionOnSet(f, s) \in Int /\ SumFunctionOnSet(g, s) \in Int
             /\ s = {} => SumFunctionOnSet(f, s) = 0 /\ SumFunctionOnSet(g, s) = 0
             /\ s # {} => /\ Pick(s) \in s
                          /\ SumFunctionOnSet(f, s) =
                               f[Pick(s)] + SumFunctionOnSet(f, s \ {Pick(s)})
                          /\ SumFunctionOnSet(g, s) =
                               g[Pick(s)] + SumFunctionOnSet(g, s \ {Pick(s)})
  <2>1. /\ IsFiniteSet(s)
        /\ \A y \in s : f[y] \in Int
        /\ \A y \in s : g[y] \in Int
    BY WithoutElement
  <2> QED BY <2>1, SumRecurs
<1>1. bad = {}
  <2>1. SUFFICES ASSUME bad # {} PROVE FALSE
    OBVIOUS
  <2>2. bad \in SUBSET (SUBSET S)
    OBVIOUS
  <2>3. PICK s \in bad : \A y \in s : s \ {y} \notin bad
    BY <2>1, <2>2, SmallestSet
  <2>4. s \in SUBSET S /\ s # {}
    BY <1>0
  <2>5. Pick(s) \in s
    BY <1>0, <2>4
  <2>6. SumFunctionOnSet(g, s \ {Pick(s)}) = SumFunctionOnSet(f, s \ {Pick(s)})
    BY <2>3, <2>4, <2>5
  <2>7. g[Pick(s)] = f[Pick(s)]
    BY <2>4, <2>5
  <2> QED BY <1>0, <2>4, <2>6, <2>7
<1> QED BY <1>1

\* The values of f on S are integers; f and g have the same values on S.
Integral(f, S) == \A x \in S : f[x] \in Int
Alike(f, g, S) == \A x \in S : g[x] = f[x]

LEMMA SumType ==
    ASSUME NEW S, IsFiniteSet(S), NEW f, Integral(f, S)
    PROVE  SumFunctionOnSet(f, S) \in Int
BY SumRecurs DEF Integral

LEMMA SumDomain == \A f : SumFunction(f) = SumFunctionOnSet(f, DOMAIN f)
BY Zenon DEF SumFunction, SumFunctionOnSet, FoldFunction, FoldFunctionOnSet

LEMMA SumOfNone ==
    ASSUME NEW f
    PROVE  SumFunctionOnSet(f, {}) = 0
BY SumRecurs, FS_EmptySet

LEMMA SumsOfAlike ==
    ASSUME NEW S, IsFiniteSet(S), NEW f, NEW g, Integral(f, S), Alike(f, g, S)
    PROVE  SumFunctionOnSet(g, S) = SumFunctionOnSet(f, S)
BY SumsAgree DEF Integral, Alike

\* A new element adds its value.
ExtendsBy(f, g, S, x) ==
    IsFiniteSet(S) /\ Integral(f, S) /\ Alike(f, g, S) /\ x \notin S /\ g[x] \in Int

LEMMA SumAdds ==
    ASSUME NEW f, NEW g, NEW S, NEW x, ExtendsBy(f, g, S, x)
    PROVE  SumFunctionOnSet(g, S \cup {x}) = SumFunctionOnSet(f, S) + g[x]
<1> USE DEF ExtendsBy
<1>1. IsFiniteSet(S \cup {x})
  BY FS_AddElement
<1>2. \A y \in S \cup {x} : g[y] \in Int
  BY DEF Integral, Alike
<1>3. SumFunctionOnSet(g, S \cup {x}) = g[x] + SumFunctionOnSet(g, (S \cup {x}) \ {x})
  BY <1>1, <1>2, SumTakesOut
<1>4. (S \cup {x}) \ {x} = S
  OBVIOUS
<1>5. SumFunctionOnSet(g, S) = SumFunctionOnSet(f, S)
  BY SumsOfAlike
<1>6. SumFunctionOnSet(f, S) \in Int
  BY SumType
<1>7. SumFunctionOnSet(g, S \cup {x}) = g[x] + SumFunctionOnSet(f, S)
  BY <1>3, <1>4, <1>5
<1> QED BY <1>6, <1>7

\* A value that changes changes the sum by as much.
LEMMA SumChanges ==
    ASSUME NEW S, IsFiniteSet(S), NEW f, NEW g, NEW x \in S,
           Integral(f, S), Alike(f, g, S \ {x}), g[x] \in Int
    PROVE  SumFunctionOnSet(g, S) = SumFunctionOnSet(f, S) + (g[x] - f[x])
<1> DEFINE rest == S \ {x}
<1>1. IsFiniteSet(rest)
  BY FS_RemoveElement
<1>2. \A y \in S : f[y] \in Int /\ g[y] \in Int
  BY DEF Integral, Alike
<1>3. SumFunctionOnSet(f, S) = f[x] + SumFunctionOnSet(f, rest)
  BY <1>2, SumTakesOut
<1>4. SumFunctionOnSet(g, S) = g[x] + SumFunctionOnSet(g, rest)
  BY <1>2, SumTakesOut
<1>5. Integral(f, rest)
  BY DEF Integral
<1>6. SumFunctionOnSet(g, rest) = SumFunctionOnSet(f, rest)
  BY <1>1, <1>5, SumsOfAlike
<1>7. SumFunctionOnSet(f, rest) \in Int
  BY <1>1, <1>5, SumType
<1>8. f[x] \in Int
  BY <1>2
<1> QED BY <1>3, <1>4, <1>6, <1>7, <1>8
================================================================================
