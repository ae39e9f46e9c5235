-------------------------------- MODULE Sums --------------------------------
(***************************************************************************)
(* Sums over finite sets, as the invariants about money need them: the sum  *)
(* of the library, SumFunctionOnSet, starts at zero, grows by what is added *)
(* and moves with each of its summands.                                    *)
(*                                                                         *)
(* The sum is a recursive function on the subsets of its set.  That such a *)
(* function exists, and that it does not depend on the order in which the  *)
(* elements are picked, are inductions over the subsets; they are made by  *)
(* looking at a smallest subset of which the claim would fail.             *)
(***************************************************************************)
EXTENDS Integers, FiniteSets, Functions, FiniteSetTheorems, TLAPS

(* A set of subsets of a finite set has a smallest member.                  *)
LEMMA SmallestSubset ==
    ASSUME NEW S, IsFiniteSet(S), NEW C \in SUBSET SUBSET S, C # {}
    PROVE  \E s \in C : \A t \in SUBSET s : t # s => t \notin C
<1>1. IsWellFoundedOn(StrictSubsetOrdering(S), SUBSET S)
  BY FS_StrictSubsetOrderingWellFounded, FS_FiniteSubsetsOfFinite
<1>2. PICK s \in C : \A t \in C : <<t, s>> \notin StrictSubsetOrdering(S)
  BY <1>1, WFMin
<1>3. ASSUME NEW t \in SUBSET s, t # s PROVE t \notin C
  <2>1. t \in SUBSET S /\ s \in SUBSET S OBVIOUS
  <2>2. <<t, s>> \in StrictSubsetOrdering(S) BY <2>1, <1>3 DEF StrictSubsetOrdering
  <2> QED BY <2>2, <1>2
<1> QED BY <1>3
-----------------------------------------------------------------------------
(* The function that the sum of f over S recurs along, g.                   *)
Pick(s) == CHOOSE x \in s : TRUE
Adds(f, S, g) == g = [s \in SUBSET S |-> IF s = {} THEN 0 ELSE f[Pick(s)] + g[s \ {Pick(s)}]]
Along(f, S) == CHOOSE g : Adds(f, S, g)

LEMMA SumIsAlong == ASSUME NEW f, NEW S PROVE SumFunctionOnSet(f, S) = Along(f, S)[S]
  BY DEF SumFunctionOnSet, FoldFunctionOnSet, MapThenFoldSet, Along, Adds, Pick

LEMMA Picked == ASSUME NEW s, s # {} PROVE Pick(s) \in s
  BY DEF Pick

(* Two such functions agree where both are defined.                         *)
LEMMA AlongIsUnique ==
    ASSUME NEW S, IsFiniteSet(S), NEW T, NEW f, NEW g, NEW h, Adds(f, S, g), Adds(f, T, h)
    PROVE  \A s \in SUBSET (S \cap T) : g[s] = h[s]
<1> DEFINE C == {s \in SUBSET (S \cap T) : g[s] # h[s]}
<1>1. ASSUME C # {} PROVE FALSE
  <2>1. C \in SUBSET SUBSET S OBVIOUS
  <2> HIDE DEF C
  <2>2. PICK s \in C : \A t \in SUBSET s : t # s => t \notin C
    BY <1>1, <2>1, SmallestSubset
  <2> USE DEF C
  <2>3. s \in SUBSET S /\ s \in SUBSET T /\ g[s] # h[s] OBVIOUS
  <2>4. g[s] = IF s = {} THEN 0 ELSE f[Pick(s)] + g[s \ {Pick(s)}] BY <2>3 DEF Adds
  <2>5. h[s] = IF s = {} THEN 0 ELSE f[Pick(s)] + h[s \ {Pick(s)}] BY <2>3 DEF Adds
  <2>6. s # {} BY <2>3, <2>4, <2>5
  <2>7. s \ {Pick(s)} \in SUBSET s /\ s \ {Pick(s)} # s BY <2>6, Picked
  <2>8. g[s \ {Pick(s)}] = h[s \ {Pick(s)}] BY <2>2, <2>3, <2>7
  <2> QED BY <2>3, <2>4, <2>5, <2>8
<1> QED BY <1>1

LEMMA AlongExists == ASSUME NEW f, NEW S, IsFiniteSet(S) PROVE Adds(f, S, Along(f, S))
<1> DEFINE C == {s \in SUBSET S : ~\E g : Adds(f, s, g)}
<1>1. ASSUME C # {} PROVE FALSE
  <2>0. C \in SUBSET SUBSET S OBVIOUS
  <2> HIDE DEF C
  <2>1. PICK s \in C : \A t \in SUBSET s : t # s => t \notin C
    BY <1>1, <2>0, SmallestSubset
  <2> USE DEF C
  <2>2. s \in SUBSET S /\ ~\E g : Adds(f, s, g) OBVIOUS
  <2>3. ASSUME NEW t \in SUBSET s, t # s PROVE Adds(f, t, Along(f, t))
    <3>1. \E g : Adds(f, t, g) BY <2>1, <2>2, <2>3
    <3> QED BY <3>1 DEF Along
  <2> DEFINE rest == s \ {Pick(s)}
             g == [t \in SUBSET s |->
                     IF t = s THEN IF s = {} THEN 0 ELSE f[Pick(s)] + Along(f, rest)[rest]
                              ELSE Along(f, t)[t]]
  <2>4. ASSUME NEW t \in SUBSET s
        PROVE  g[t] = IF t = {} THEN 0 ELSE f[Pick(t)] + g[t \ {Pick(t)}]
    <3>1. CASE t = s
      <4>1. CASE s = {} BY <3>1, <4>1
      <4>2. CASE s # {}
        <5>1. rest \in SUBSET s /\ rest # s BY <4>2, Picked
        <5>2. g[rest] = Along(f, rest)[rest] BY <5>1
        <5> QED BY <3>1, <4>2, <5>2
      <4> QED BY <4>1, <4>2
    <3>2. CASE t # s
      <4>1. g[t] = Along(f, t)[t] BY <3>2
      <4>2. Along(f, t)[t] = IF t = {} THEN 0
                             ELSE f[Pick(t)] + Along(f, t)[t \ {Pick(t)}]
        BY <2>3, <3>2 DEF Adds
      <4>3. ASSUME t # {} PROVE Along(f, t)[t \ {Pick(t)}] = g[t \ {Pick(t)}]
        <5> DEFINE u == t \ {Pick(t)}
        <5>1. u \in SUBSET s /\ u # s /\ u \in SUBSET (t \cap u) BY <4>3, Picked
        <5>2. Adds(f, t, Along(f, t)) /\ Adds(f, u, Along(f, u)) BY <2>3, <3>2, <5>1
        <5>3. IsFiniteSet(t) BY FS_Subset, <2>2
        <5>4. Along(f, t)[u] = Along(f, u)[u] BY <5>1, <5>2, <5>3, AlongIsUnique
        <5>5. g[u] = Along(f, u)[u] BY <5>1
        <5> QED BY <5>4, <5>5
      <4> QED BY <4>1, <4>2, <4>3
    <3> QED BY <3>1, <3>2
  <2>5. Adds(f, s, g) BY <2>4 DEF Adds
  <2> QED BY <2>2, <2>5
<1>2. \E g : Adds(f, S, g) BY <1>1
<1> QED BY <1>2 DEF Along

LEMMA SumRecurs ==
    ASSUME NEW f, NEW S, IsFiniteSet(S)
    PROVE  SumFunctionOnSet(f, S) =
              IF S = {} THEN 0 ELSE f[Pick(S)] + SumFunctionOnSet(f, S \ {Pick(S)})
<1>1. Adds(f, S, Along(f, S)) BY AlongExists
<1>2. Along(f, S)[S] = IF S = {} THEN 0 ELSE f[Pick(S)] + Along(f, S)[S \ {Pick(S)}]
  BY <1>1 DEF Adds
<1>3. ASSUME S # {} PROVE Along(f, S)[S \ {Pick(S)}] = SumFunctionOnSet(f, S \ {Pick(S)})
  <2> DEFINE T == S \ {Pick(S)}
  <2>1. IsFiniteSet(T) BY FS_RemoveElement
  <2>2. Adds(f, T, Along(f, T)) BY <2>1, AlongExists
  <2>3. T \in SUBSET (S \cap T) OBVIOUS
  <2>4. Along(f, S)[T] = Along(f, T)[T] BY <1>1, <2>2, <2>3, AlongIsUnique
  <2> QED BY <2>4, SumIsAlong
<1> QED BY <1>2, <1>3, SumIsAlong
-----------------------------------------------------------------------------
(* The facts that are used elsewhere.                                       *)
LEMMA SumOfNothing == ASSUME NEW f PROVE SumFunctionOnSet(f, {}) = 0
  BY SumRecurs, FS_EmptySet

LEMMA SumIsInt ==
    ASSUME NEW f, NEW S, IsFiniteSet(S), \A x \in S : f[x] \in Int
    PROVE  SumFunctionOnSet(f, S) \in Int
<1> DEFINE C == {s \in SUBSET S : SumFunctionOnSet(f, s) \notin Int}
<1>1. ASSUME C # {} PROVE FALSE
  <2>1. C \in SUBSET SUBSET S OBVIOUS
  <2> HIDE DEF C
  <2>2. PICK s \in C : \A t \in SUBSET s : t # s => t \notin C
    BY <1>1, <2>1, SmallestSubset
  <2> USE DEF C
  <2>3. s \in SUBSET S /\ SumFunctionOnSet(f, s) \notin Int OBVIOUS
  <2>4. IsFiniteSet(s) BY <2>3, FS_Subset
  <2>5. s # {} BY <2>3, SumOfNothing
  <2>6. Pick(s) \in s BY <2>5, Picked
  <2>7. SumFunctionOnSet(f, s \ {Pick(s)}) \in Int BY <2>2, <2>3, <2>6
  <2> QED BY <2>3, <2>4, <2>5, <2>6, <2>7, SumRecurs
<1> QED BY <1>1

(* The sum does not depend on which summand is taken out.                   *)
LEMMA SumWithout ==
    ASSUME NEW f, NEW S, IsFiniteSet(S), \A x \in S : f[x] \in Int, NEW x \in S
    PROVE  SumFunctionOnSet(f, S) = f[x] + SumFunctionOnSet(f, S \ {x})
<1> DEFINE Sum(s) == SumFunctionOnSet(f, s)
           Splits(s) == \A y \in s : Sum(s) = f[y] + Sum(s \ {y})
           C == {s \in SUBSET S : ~Splits(s)}
<1>1. ASSUME C # {} PROVE FALSE
  <2>1. C \in SUBSET SUBSET S OBVIOUS
  <2> HIDE DEF C
  <2>2. PICK s \in C : \A t \in SUBSET s : t # s => t \notin C
    BY <1>1, <2>1, SmallestSubset
  <2> USE DEF C
  <2>3. PICK y \in s : Sum(s) # f[y] + Sum(s \ {y}) OBVIOUS
  <2> DEFINE z == Pick(s)
  <2>4. s \in SUBSET S /\ IsFiniteSet(s) /\ z \in s BY FS_Subset, Picked
  <2>5. Sum(s) = f[z] + Sum(s \ {z}) BY <2>3, <2>4, SumRecurs
  <2>6. y # z BY <2>3, <2>5
  <2>7. \A t \in SUBSET s : t # s => Splits(t) BY <2>2
  <2> HIDE DEF Splits, Sum, z, C
  <2>8. Splits(s \ {z}) /\ Splits(s \ {y}) BY <2>4, <2>7
  <2>9. Sum(s \ {z}) = f[y] + Sum((s \ {z}) \ {y}) BY <2>6, <2>8 DEF Splits
  <2>10. Sum(s \ {y}) = f[z] + Sum((s \ {y}) \ {z}) BY <2>4, <2>6, <2>8 DEF Splits
  <2> DEFINE u == (s \ {y}) \ {z}
  <2>11. Sum(s \ {z}) = f[y] + Sum(u) /\ Sum(s \ {y}) = f[z] + Sum(u)
    <3>1. (s \ {z}) \ {y} = u OBVIOUS
    <3> QED BY <2>9, <2>10, <3>1
  <2>12. IsFiniteSet(u) /\ \A w \in u : f[w] \in Int BY <2>4, FS_RemoveElement
  <2>13. Sum(u) \in Int BY <2>12, SumIsInt DEF Sum
  <2> HIDE DEF u
  <2>14. f[y] \in Int /\ f[z] \in Int BY <2>4
  <2> QED BY <2>3, <2>5, <2>11, <2>13, <2>14
<1>2. Splits(S) BY <1>1
<1> QED BY <1>2

LEMMA SumWith ==
    ASSUME NEW f, NEW S, IsFiniteSet(S), NEW x, x \notin S, \A y \in S \cup {x} : f[y] \in Int
    PROVE  SumFunctionOnSet(f, S \cup {x}) = f[x] + SumFunctionOnSet(f, S)
<1>1. IsFiniteSet(S \cup {x}) BY FS_AddElement
<1>2. (S \cup {x}) \ {x} = S OBVIOUS
<1> QED BY <1>1, <1>2, SumWithout

LEMMA SumOfSame ==
    ASSUME NEW S, IsFiniteSet(S), NEW f, NEW g, \A x \in S : f[x] = g[x]
    PROVE  SumFunctionOnSet(f, S) = SumFunctionOnSet(g, S)
<1>1. Adds(f, S, Along(f, S)) BY AlongExists
<1>2. \A s \in SUBSET S : s # {} => f[Pick(s)] = g[Pick(s)] BY Picked
<1>3. Adds(g, S, Along(f, S)) BY <1>1, <1>2 DEF Adds
<1>4. Adds(g, S, Along(g, S)) BY AlongExists
<1>5. Along(f, S)[S] = Along(g, S)[S] BY <1>3, <1>4, AlongIsUnique
<1> QED BY <1>5, SumIsAlong

(* One summand changes.                                                     *)
LEMMA SumChanges ==
    ASSUME NEW S, IsFiniteSet(S), NEW f, NEW g, NEW x \in S,
           \A y \in S : f[y] \in Int /\ g[y] \in Int,
           \A y \in S \ {x} : f[y] = g[y]
    PROVE  SumFunctionOnSet(g, S) = SumFunctionOnSet(f, S) - f[x] + g[x]
<1>1. IsFiniteSet(S \ {x}) BY FS_RemoveElement
<1>2. SumFunctionOnSet(f, S \ {x}) = SumFunctionOnSet(g, S \ {x}) BY <1>1, SumOfSame
<1>3. SumFunctionOnSet(f, S) = f[x] + SumFunctionOnSet(f, S \ {x}) BY SumWithout
<1>4. SumFunctionOnSet(g, S) = g[x] + SumFunctionOnSet(g, S \ {x}) BY SumWithout
<1>5. SumFunctionOnSet(f, S \ {x}) \in Int BY <1>1, SumIsInt
<1> QED BY <1>2, <1>3, <1>4, <1>5

(* The sum over two sets that share nothing.                                *)
LEMMA SumOfUnion ==
    ASSUME NEW S, IsFiniteSet(S), NEW T, IsFiniteSet(T), S \cap T = {},
           NEW f, \A x \in S \cup T : f[x] \in Int
    PROVE  SumFunctionOnSet(f, S \cup T) = SumFunctionOnSet(f, S) + SumFunctionOnSet(f, T)
<1> DEFINE Over(s) == SumFunctionOnSet(f, s)
           Splits(t) == Over(S \cup t) = Over(S) + Over(t)
           C == {t \in SUBSET T : ~Splits(t)}
<1>1. ASSUME C # {} PROVE FALSE
  <2>1. C \in SUBSET SUBSET T OBVIOUS
  <2> HIDE DEF C
  <2>2. PICK t \in C : \A u \in SUBSET t : u # t => u \notin C
    BY <1>1, <2>1, SmallestSubset
  <2> USE DEF C
  <2>3. t \in SUBSET T /\ ~Splits(t) OBVIOUS
  <2>4. \A u \in SUBSET t : u # t => Splits(u) BY <2>2
  <2>5. IsFiniteSet(t) /\ IsFiniteSet(S \cup t) BY <2>3, FS_Subset, FS_Union
  <2>6. Over(S) \in Int BY SumIsInt
  <2> HIDE DEF C
  <2>7. ASSUME t = {} PROVE FALSE
    <3>1. S \cup {} = S OBVIOUS
    <3>2. Over({}) = 0 BY SumOfNothing
    <3> HIDE DEF Over
    <3> QED BY <2>3, <2>6, <2>7, <3>1, <3>2
  <2>8. PICK x : x \in t BY <2>7
  <2>9. x \in T /\ x \notin S /\ f[x] \in Int BY <2>3, <2>8
  <2>10. Splits(t \ {x}) BY <2>4, <2>8
  <2>11. Over(t) = f[x] + Over(t \ {x})
    <3>1. \A y \in t : f[y] \in Int BY <2>3
    <3> QED BY <3>1, <2>5, <2>8, SumWithout
  <2>12. Over(S \cup t) = f[x] + Over(S \cup (t \ {x}))
    <3>1. \A y \in S \cup t : f[y] \in Int BY <2>3
    <3>2. x \in S \cup t /\ (S \cup t) \ {x} = S \cup (t \ {x}) BY <2>8, <2>9
    <3>3. Over(S \cup t) = f[x] + Over((S \cup t) \ {x}) BY <3>1, <3>2, <2>5, SumWithout
    <3> HIDE DEF Over
    <3> QED BY <3>2, <3>3
  <2>13. Over(t \ {x}) \in Int
    <3>1. IsFiniteSet(t \ {x}) /\ \A y \in t \ {x} : f[y] \in Int
      BY <2>3, <2>5, FS_RemoveElement
    <3> QED BY <3>1, SumIsInt
  <2> HIDE DEF Over
  <2> QED BY <2>3, <2>6, <2>9, <2>10, <2>11, <2>12, <2>13
<1>2. Splits(T) BY <1>1
<1> QED BY <1>2

LEMMA SumOfZeros ==
    ASSUME NEW S, IsFiniteSet(S), NEW f, \A x \in S : f[x] = 0
    PROVE  SumFunctionOnSet(f, S) = 0
<1> DEFINE C == {s \in SUBSET S : SumFunctionOnSet(f, s) # 0}
<1>1. ASSUME C # {} PROVE FALSE
  <2>1. C \in SUBSET SUBSET S OBVIOUS
  <2> HIDE DEF C
  <2>2. PICK s \in C : \A t \in SUBSET s : t # s => t \notin C
    BY <1>1, <2>1, SmallestSubset
  <2> USE DEF C
  <2>3. s \in SUBSET S /\ SumFunctionOnSet(f, s) # 0 OBVIOUS
  <2>4. IsFiniteSet(s) BY <2>3, FS_Subset
  <2>5. s # {} BY <2>3, SumOfNothing
  <2>6. Pick(s) \in s BY <2>5, Picked
  <2>7. SumFunctionOnSet(f, s \ {Pick(s)}) = 0 BY <2>2, <2>3, <2>6
  <2> QED BY <2>3, <2>4, <2>5, <2>6, <2>7, SumRecurs
<1> QED BY <1>1
=============================================================================
