----------------------------- MODULE SumLemmas -----------------------------
(***************************************************************************)
(* Sums and folds over finite sets, for the proofs about money: what       *)
(* SumFunctionOnSet returns and how it changes with its set and its terms, *)
(* and Max of a finite set of integers.                                    *)
(*                                                                         *)
(* The library defines a sum by a recursive function on the subsets of the *)
(* set, chosen with CHOOSE.  Instead of the induction theorems, which take *)
(* an operator, the lemmas use LeastSubset: a fact that fails for a subset *)
(* of a finite set fails for a least one, and one element less is smaller. *)
(***************************************************************************)
EXTENDS FiniteSetsExt, FiniteSetTheorems, TLAPS

\* g folds the subsets of T: base for none, H of the element that choice takes
\* and of the rest.
FoldsSubsets(g, T, base, choice, H) ==
  g = [s \in SUBSET T |-> IF s = {} THEN base ELSE H[<<choice[s], g[s \ {choice[s]}]>>]]

Choosing(choice, S) == \A s \in SUBSET S : s # {} => choice[s] \in s

\* A set of subsets of a finite set has a member that includes no other one.
LEMMA LeastSubset ==
  ASSUME NEW S, IsFiniteSet(S), NEW B \in SUBSET (SUBSET S), B # {}
  PROVE  \E T \in B : \A U \in B : U \subseteq T => U = T
<1>1. IsWellFoundedOn(StrictSubsetOrdering(S), SUBSET S)
  BY FS_FiniteSubsetsOfFinite, FS_StrictSubsetOrderingWellFounded
<1>2. PICK T \in B : \A U \in B : <<U, T>> \notin StrictSubsetOrdering(S)
  BY <1>1, WFMin
<1>3. QED
  BY <1>2 DEF StrictSubsetOrdering

\* Two folds agree where both are defined.
LEMMA FoldUnique ==
  ASSUME NEW S, IsFiniteSet(S), NEW choice, Choosing(choice, S), NEW base, NEW H,
         NEW T1 \in SUBSET S, NEW T2 \in SUBSET S, NEW g, NEW h,
         FoldsSubsets(g, T1, base, choice, H), FoldsSubsets(h, T2, base, choice, H),
         NEW U \in SUBSET (T1 \cap T2)
  PROVE  g[U] = h[U]
<1> DEFINE B == {V \in SUBSET (T1 \cap T2) : g[V] # h[V]}
<1> SUFFICES ASSUME B # {} PROVE FALSE
  OBVIOUS
<1>0. B \in SUBSET (SUBSET S) /\ B # {}
  OBVIOUS
<1>1. PICK V \in B : \A W \in B : W \subseteq V => W = V
  <2> HIDE DEF B
  <2>1. QED
    BY <1>0, LeastSubset
<1>2. V \in SUBSET T1 /\ V \in SUBSET T2 /\ V \in SUBSET S /\ g[V] # h[V]
  BY <1>1
<1>3. /\ g[V] = IF V = {} THEN base ELSE H[<<choice[V], g[V \ {choice[V]}]>>]
      /\ h[V] = IF V = {} THEN base ELSE H[<<choice[V], h[V \ {choice[V]}]>>]
  BY <1>2 DEF FoldsSubsets
<1>4. V # {}
  BY <1>2, <1>3
<1>5. choice[V] \in V
  BY <1>2, <1>4 DEF Choosing
<1>6. V \ {choice[V]} \notin B
  BY <1>1, <1>5
<1>7. V \ {choice[V]} \in SUBSET (T1 \cap T2)
  BY <1>2
<1>8. g[V \ {choice[V]}] = h[V \ {choice[V]}]
  BY <1>6, <1>7
<1>9. QED
  BY <1>2, <1>3, <1>8

\* The fold of the subsets of a finite set exists.
LEMMA FoldExists ==
  ASSUME NEW S, IsFiniteSet(S), NEW choice, Choosing(choice, S), NEW base, NEW H
  PROVE  \E g : FoldsSubsets(g, S, base, choice, H)
<1> DEFINE F(g, T) == FoldsSubsets(g, T, base, choice, H)
           Bad == {T \in SUBSET S : ~ \E g : F(g, T)}
<1> SUFFICES ASSUME Bad # {} PROVE FALSE
  OBVIOUS
<1>0. Bad \in SUBSET (SUBSET S) /\ Bad # {}
  OBVIOUS
<1>1. PICK T \in Bad : \A U \in Bad : U \subseteq T => U = T
  <2> HIDE DEF Bad
  <2>1. QED
    BY <1>0, LeastSubset
<1>2. T \in SUBSET S /\ (\A g : ~F(g, T))
  BY <1>1
<1>3. \A U \in SUBSET T : U # T => \E g : F(g, U)
  BY <1>1
<1> DEFINE G(U) == CHOOSE g : F(g, U)
           x(U) == choice[U]
           v(U) == G(U)[U]
           g0 == [U \in SUBSET T |-> IF U # T THEN v(U) ELSE IF T = {} THEN base
                                     ELSE H[<<x(T), v(T \ {x(T)})>>]]
<1>4. \A U \in SUBSET T : U # T => F(G(U), U)
  BY <1>3, Zenon
<1> HIDE DEF G, F
<1>5. ASSUME NEW U \in SUBSET T
      PROVE  g0[U] = IF U = {} THEN base ELSE H[<<x(U), g0[U \ {x(U)}]>>]
  <2>1. U # {} => x(U) \in U /\ U \ {x(U)} \in SUBSET T /\ U \ {x(U)} # T /\ U \ {x(U)} # U
    BY <1>2 DEF Choosing
  <2>2. CASE U = T
    BY <2>1, <2>2
  <2>3. CASE U # T
    <3>1. F(G(U), U)
      BY <1>4, <2>3
    <3>2. G(U) = [s \in SUBSET U |-> IF s = {} THEN base ELSE H[<<x(s), G(U)[s \ {x(s)}]>>]]
      BY <3>1 DEF F, FoldsSubsets
    <3>3. v(U) = IF U = {} THEN base ELSE H[<<x(U), G(U)[U \ {x(U)}]>>]
      <4> DEFINE gu == G(U)
      <4>1. gu = [s \in SUBSET U |-> IF s = {} THEN base ELSE H[<<x(s), gu[s \ {x(s)}]>>]]
        BY <3>2
      <4> HIDE DEF gu
      <4>2. gu[U] = IF U = {} THEN base ELSE H[<<x(U), gu[U \ {x(U)}]>>]
        BY <4>1
      <4>3. QED
        BY <4>2 DEF gu
    <3>4. ASSUME U # {} PROVE G(U)[U \ {x(U)}] = v(U \ {x(U)})
      <4> DEFINE W == U \ {x(U)}
      <4>1. W \in SUBSET T /\ W # T /\ W \in SUBSET S /\ W \in SUBSET (U \cap W) /\ U \in SUBSET S
        BY <2>1, <3>4, <1>2
      <4>2. F(G(W), W)
        BY <1>4, <4>1, Zenon
      <4> HIDE DEF W
      <4>3. G(U)[W] = G(W)[W]
        <5> DEFINE gu == G(U)
                   gw == G(W)
        <5>1. FoldsSubsets(gu, U, base, choice, H) /\ FoldsSubsets(gw, W, base, choice, H)
          BY <3>1, <4>2 DEF F
        <5> HIDE DEF gu, gw
        <5>2. gu[W] = gw[W]
          BY <4>1, <5>1, FoldUnique
        <5>3. QED
          BY <5>2 DEF gu, gw
      <4>4. QED
        BY <4>3 DEF W
    <3>5. g0[U] = v(U) /\ (U # {} => g0[U \ {x(U)}] = v(U \ {x(U)}))
      BY <2>1, <2>3
    <3>6. QED
      BY <3>3, <3>4, <3>5
  <2>4. QED
    BY <2>2, <2>3
<1> DEFINE g1 == g0
<1>6. g1 = [U \in SUBSET T |-> g1[U]] /\ \A U \in SUBSET T : g1[U] = IF U = {} THEN base ELSE H[<<choice[U], g1[U \ {choice[U]}]>>]
  BY <1>5
<1> HIDE DEF g1, g0
<1>7. g1 = [U \in SUBSET T |-> IF U = {} THEN base ELSE H[<<choice[U], g1[U \ {choice[U]}]>>]]
  BY <1>6
<1>8. F(g1, T)
  BY <1>7 DEF F, FoldsSubsets
<1>9. QED
  BY <1>2, <1>8
-----------------------------------------------------------------------------
(* Sums                                                                    *)

First(s) == CHOOSE x \in s : TRUE

\* g sums f over the subsets of T, as SumFunctionOnSet does.
SumsSubsets(g, f, T) ==
  g = [s \in SUBSET T |-> IF s = {} THEN 0 ELSE f[First(s)] + g[s \ {First(s)}]]

\* What SumFunctionOnSet is: the value at the whole set of a function on its subsets.
LEMMA SumUnfolded ==
  ASSUME NEW f, NEW S
  PROVE  SumFunctionOnSet(f, S) = (CHOOSE g : SumsSubsets(g, f, S))[S]
BY DEF SumFunctionOnSet, FoldFunctionOnSet, MapThenFoldSet, SumsSubsets, First

Choice(S)  == [s \in SUBSET S |-> First(s)]
Plus(f, S) == [p \in S \X Int |-> f[p[1]] + p[2]]
Summable(f, S) == IsFiniteSet(S) /\ \A x \in S : f[x] \in Int

\* The first element of a set is one of it.
LEMMA FirstIn ==
  ASSUME NEW S, S # {}
  PROVE  First(S) \in S
BY DEF First

\* Taking the first element is a choice.
LEMMA ChoiceChooses ==
  ASSUME NEW S
  PROVE  Choosing(Choice(S), S)
BY FirstIn DEF Choosing, Choice

\* A fold with addition has integers as its values.
LEMMA FoldTyped ==
  ASSUME NEW f, NEW S, Summable(f, S), NEW g, FoldsSubsets(g, S, 0, Choice(S), Plus(f, S))
  PROVE  \A T \in SUBSET S : g[T] \in Int
<1> DEFINE B == {T \in SUBSET S : g[T] \notin Int}
<1> SUFFICES ASSUME B # {} PROVE FALSE
  OBVIOUS
<1>0. B \in SUBSET (SUBSET S) /\ B # {}
  OBVIOUS
<1>1. PICK T \in B : \A U \in B : U \subseteq T => U = T
  <2> HIDE DEF B
  <2>1. QED
    BY <1>0, LeastSubset DEF Summable
<1>2. g[T] = IF T = {} THEN 0 ELSE Plus(f, S)[<<Choice(S)[T], g[T \ {Choice(S)[T]}]>>]
  BY <1>1 DEF FoldsSubsets
<1>3. T # {}
  BY <1>1, <1>2
<1>4. Choice(S)[T] \in T /\ Choice(S)[T] \in S
  BY <1>1, <1>3, ChoiceChooses DEF Choosing
<1>5. g[T \ {Choice(S)[T]}] \in Int
  BY <1>1, <1>4
<1>6. QED
  BY <1>1, <1>2, <1>3, <1>4, <1>5 DEF Plus, Summable

\* A function that sums integers has integers as its values.
LEMMA SumTyped ==
  ASSUME NEW f, NEW S, Summable(f, S), NEW g, SumsSubsets(g, f, S)
  PROVE  \A T \in SUBSET S : g[T] \in Int
<1> DEFINE B == {T \in SUBSET S : g[T] \notin Int}
<1> SUFFICES ASSUME B # {} PROVE FALSE
  OBVIOUS
<1>0. B \in SUBSET (SUBSET S) /\ B # {}
  OBVIOUS
<1>1. PICK T \in B : \A U \in B : U \subseteq T => U = T
  <2> HIDE DEF B
  <2>1. QED
    BY <1>0, LeastSubset DEF Summable
<1>2. g[T] = IF T = {} THEN 0 ELSE f[First(T)] + g[T \ {First(T)}]
  BY <1>1 DEF SumsSubsets
<1>3. T # {}
  BY <1>1, <1>2
<1>4. First(T) \in T /\ First(T) \in S
  BY <1>1, <1>3, FirstIn
<1>5. g[T \ {First(T)}] \in Int
  BY <1>1, <1>4
<1>6. QED
  BY <1>1, <1>2, <1>3, <1>4, <1>5 DEF Summable

\* Over integers the two say the same.
LEMMA SumIsFold ==
  ASSUME NEW f, NEW S, Summable(f, S), NEW T \in SUBSET S, NEW g, \A U \in SUBSET T : g[U] \in Int
  PROVE  SumsSubsets(g, f, T) <=> FoldsSubsets(g, T, 0, Choice(S), Plus(f, S))
<1>1. \A s \in SUBSET T : s # {} =>
        Plus(f, S)[<<Choice(S)[s], g[s \ {Choice(S)[s]}]>>] = f[First(s)] + g[s \ {First(s)}]
  <2> SUFFICES ASSUME NEW s \in SUBSET T, s # {}
               PROVE  Plus(f, S)[<<Choice(S)[s], g[s \ {Choice(S)[s]}]>>] = f[First(s)] + g[s \ {First(s)}]
    OBVIOUS
  <2>1. Choice(S)[s] = First(s) /\ First(s) \in S
    BY FirstIn DEF Choice
  <2>2. g[s \ {First(s)}] \in Int
    OBVIOUS
  <2>3. QED
    BY <2>1, <2>2 DEF Plus
<1>2. [s \in SUBSET T |-> IF s = {} THEN 0 ELSE f[First(s)] + g[s \ {First(s)}]]
        = [s \in SUBSET T |-> IF s = {} THEN 0
                               ELSE Plus(f, S)[<<Choice(S)[s], g[s \ {Choice(S)[s]}]>>]]
  BY <1>1
<1>3. QED
  BY <1>2 DEF SumsSubsets, FoldsSubsets

\* The sum over the subsets of S: the function behind SumFunctionOnSet.
LEMMA SumFunctionExists ==
  ASSUME NEW f, NEW S, Summable(f, S)
  PROVE  \E g : SumsSubsets(g, f, S) /\ \A T \in SUBSET S : g[T] = SumFunctionOnSet(f, T) /\ g[T] \in Int
<1>1. ASSUME NEW T \in SUBSET S
      PROVE  \E g : SumsSubsets(g, f, T)
  <2>1. Summable(f, T)
    BY FS_Subset DEF Summable
  <2>2. PICK g : FoldsSubsets(g, T, 0, Choice(T), Plus(f, T))
    BY <2>1, FoldExists, ChoiceChooses DEF Summable
  <2>3. \A U \in SUBSET T : g[U] \in Int
    BY <2>1, <2>2, FoldTyped
  <2>4. QED
    BY <2>1, <2>2, <2>3, SumIsFold
<1>2. PICK g : SumsSubsets(g, f, S)
  BY <1>1
<1>3. ASSUME NEW T \in SUBSET S
      PROVE  g[T] = SumFunctionOnSet(f, T) /\ g[T] \in Int
  <2> DEFINE h == CHOOSE h : SumsSubsets(h, f, T)
  <2>1. SumsSubsets(h, f, T)
    BY <1>1
  <2>2. SumFunctionOnSet(f, T) = h[T]
    BY SumUnfolded
  <2> HIDE DEF h
  <2>3. Summable(f, T)
    BY FS_Subset DEF Summable
  <2>4. \A U \in SUBSET T : h[U] \in Int
    BY <2>1, <2>3, SumTyped
  <2>5. \A U \in SUBSET S : g[U] \in Int
    BY <1>2, SumTyped
  <2>6. FoldsSubsets(h, T, 0, Choice(S), Plus(f, S)) /\ FoldsSubsets(g, S, 0, Choice(S), Plus(f, S))
    BY <1>2, <2>1, <2>4, <2>5, SumIsFold
  <2>7. T \in SUBSET (S \cap T) /\ S \in SUBSET S
    OBVIOUS
  <2>8. g[T] = h[T]
    BY <2>6, <2>7, ChoiceChooses, FoldUnique DEF Summable
  <2>9. QED
    BY <2>2, <2>5, <2>8
<1>4. QED
  BY <1>2, <1>3

\* A sum of integers is an integer.
LEMMA SumType ==
  ASSUME NEW f, NEW S, Summable(f, S)
  PROVE  SumFunctionOnSet(f, S) \in Int
BY SumFunctionExists

\* The sum over nothing is zero.
LEMMA SumEmpty == \A f : SumFunctionOnSet(f, {}) = 0
<1> SUFFICES ASSUME NEW f PROVE SumFunctionOnSet(f, {}) = 0
  OBVIOUS
<1>1. Summable(f, {})
  BY FS_EmptySet DEF Summable
<1>2. PICK g : SumsSubsets(g, f, {}) /\ g[{}] = SumFunctionOnSet(f, {})
  BY <1>1, SumFunctionExists
<1>3. QED
  BY <1>2 DEF SumsSubsets

\* Some element can be taken out ...
LEMMA SumFirst ==
  ASSUME NEW f, NEW S, Summable(f, S), S # {}
  PROVE  \E x \in S : SumFunctionOnSet(f, S) = f[x] + SumFunctionOnSet(f, S \ {x})
<1>1. PICK g : SumsSubsets(g, f, S) /\ \A T \in SUBSET S : g[T] = SumFunctionOnSet(f, T)
  BY SumFunctionExists
<1>2. g[S] = f[First(S)] + g[S \ {First(S)}]
  BY <1>1 DEF SumsSubsets
<1>3. QED
  BY <1>1, <1>2, FirstIn

\* ... and then any element can.
LEMMA SumTake ==
  ASSUME NEW f, NEW S, Summable(f, S), NEW z \in S
  PROVE  SumFunctionOnSet(f, S) = f[z] + SumFunctionOnSet(f, S \ {z})
<1> DEFINE Fails(T, x) == SumFunctionOnSet(f, T) # f[x] + SumFunctionOnSet(f, T \ {x})
           B == {T \in SUBSET S : \E x \in T : Fails(T, x)}
<1> SUFFICES ASSUME B # {} PROVE FALSE
  OBVIOUS
<1>0. B \in SUBSET (SUBSET S) /\ B # {}
  OBVIOUS
<1>1. PICK T \in B : \A U \in B : U \subseteq T => U = T
  <2> HIDE DEF B
  <2>1. QED
    BY <1>0, LeastSubset DEF Summable
<1>2. \A U \in SUBSET S : Summable(f, U) /\ SumFunctionOnSet(f, U) \in Int
  BY FS_Subset, SumType DEF Summable
<1>3. PICK x \in T : Fails(T, x)
  BY <1>1
<1>4. T \in SUBSET S /\ x \in S
  BY <1>1
<1>5. PICK y \in T : ~Fails(T, y)
  BY <1>2, <1>3, <1>4, SumFirst
<1>6. y # x
  BY <1>3, <1>5
<1>7. ~Fails(T \ {y}, x) /\ ~Fails(T \ {x}, y)
  <2>1. T \ {y} \in SUBSET S /\ T \ {y} \subseteq T /\ T \ {y} # T
    BY <1>4
  <2>2. T \ {x} \in SUBSET S /\ T \ {x} \subseteq T /\ T \ {x} # T
    BY <1>4
  <2>3. T \ {y} \notin B /\ T \ {x} \notin B
    <3> HIDE DEF B
    <3>1. QED
      BY <1>1, <2>1, <2>2
  <2>4. x \in T \ {y} /\ y \in T \ {x}
    BY <1>6
  <2>5. QED
    <3> HIDE DEF Fails
    <3>1. QED
      BY <2>1, <2>2, <2>3, <2>4
<1>8. (T \ {y}) \ {x} = (T \ {x}) \ {y} /\ (T \ {x}) \ {y} \in SUBSET S /\ y \in S
  BY <1>4
<1>9. f[x] \in Int /\ f[y] \in Int /\ SumFunctionOnSet(f, (T \ {x}) \ {y}) \in Int
  BY <1>2, <1>4, <1>8 DEF Summable
<1>10. /\ SumFunctionOnSet(f, T) = f[y] + SumFunctionOnSet(f, T \ {y})
       /\ SumFunctionOnSet(f, T \ {y}) = f[x] + SumFunctionOnSet(f, (T \ {x}) \ {y})
       /\ SumFunctionOnSet(f, T \ {x}) = f[y] + SumFunctionOnSet(f, (T \ {x}) \ {y})
  BY <1>5, <1>7, <1>8
<1>11. SumFunctionOnSet(f, T) = f[x] + SumFunctionOnSet(f, T \ {x})
  BY <1>9, <1>10
<1>12. QED
  BY <1>3, <1>11

\* A sum grows with its terms.
LEMMA SumMonotone ==
  ASSUME NEW f, NEW g, NEW S, Summable(f, S), Summable(g, S), \A x \in S : f[x] <= g[x]
  PROVE  SumFunctionOnSet(f, S) <= SumFunctionOnSet(g, S)
<1> DEFINE B == {T \in SUBSET S : ~(SumFunctionOnSet(f, T) <= SumFunctionOnSet(g, T))}
<1> SUFFICES ASSUME B # {} PROVE FALSE
  OBVIOUS
<1>0. B \in SUBSET (SUBSET S) /\ B # {}
  OBVIOUS
<1>1. PICK T \in B : \A U \in B : U \subseteq T => U = T
  <2> HIDE DEF B
  <2>1. QED
    BY <1>0, LeastSubset DEF Summable
<1>2. ASSUME T = {} PROVE FALSE
  <2>1. SumFunctionOnSet(f, T) = 0 /\ SumFunctionOnSet(g, T) = 0
    BY <1>2, SumEmpty
  <2>2. ~(SumFunctionOnSet(f, T) <= SumFunctionOnSet(g, T))
    BY <1>1
  <2>3. QED
    BY <2>1, <2>2
<1>3. PICK x \in T : TRUE
  BY <1>2
<1>4. x \in S /\ Summable(f, T) /\ Summable(g, T) /\ Summable(f, T \ {x}) /\ Summable(g, T \ {x})
  BY <1>1, FS_Subset DEF Summable
<1>5. SumFunctionOnSet(f, T \ {x}) <= SumFunctionOnSet(g, T \ {x})
  BY <1>1
<1>6. /\ SumFunctionOnSet(f, T) = f[x] + SumFunctionOnSet(f, T \ {x})
      /\ SumFunctionOnSet(g, T) = g[x] + SumFunctionOnSet(g, T \ {x})
  BY <1>4, SumTake
<1>7. /\ f[x] \in Int /\ g[x] \in Int /\ f[x] <= g[x]
      /\ SumFunctionOnSet(f, T \ {x}) \in Int /\ SumFunctionOnSet(g, T \ {x}) \in Int
  BY <1>4, SumType DEF Summable
<1>8. SumFunctionOnSet(f, T) <= SumFunctionOnSet(g, T)
  BY <1>5, <1>6, <1>7
<1>9. QED
  BY <1>1, <1>8

\* Only the terms count.
LEMMA SumSame ==
  ASSUME NEW f, NEW g, NEW S, Summable(f, S), \A x \in S : f[x] = g[x]
  PROVE  SumFunctionOnSet(f, S) = SumFunctionOnSet(g, S)
<1>1. Summable(g, S) /\ (\A x \in S : f[x] <= g[x] /\ g[x] <= f[x])
  BY DEF Summable
<1>2. SumFunctionOnSet(f, S) <= SumFunctionOnSet(g, S) /\ SumFunctionOnSet(g, S) <= SumFunctionOnSet(f, S)
  BY <1>1, SumMonotone
<1>3. SumFunctionOnSet(f, S) \in Int /\ SumFunctionOnSet(g, S) \in Int
  BY <1>1, SumType
<1>4. QED
  BY <1>2, <1>3

\* One term changes: the sum changes by as much.
LEMMA SumChange ==
  ASSUME NEW f, NEW g, NEW S, Summable(f, S), NEW x \in S, g[x] \in Int,
         \A y \in S \ {x} : g[y] = f[y]
  PROVE  SumFunctionOnSet(g, S) = SumFunctionOnSet(f, S) + g[x] - f[x]
<1>1. Summable(g, S) /\ Summable(f, S \ {x})
  BY FS_Subset DEF Summable
<1>2. SumFunctionOnSet(f, S \ {x}) = SumFunctionOnSet(g, S \ {x}) /\ SumFunctionOnSet(f, S \ {x}) \in Int
  BY <1>1, SumSame, SumType
<1>3. /\ SumFunctionOnSet(f, S) = f[x] + SumFunctionOnSet(f, S \ {x})
      /\ SumFunctionOnSet(g, S) = g[x] + SumFunctionOnSet(g, S \ {x})
  BY <1>1, SumTake
<1>4. QED
  BY <1>2, <1>3 DEF Summable

\* A sum of zeros is zero.
LEMMA SumZero ==
  ASSUME NEW f, NEW S, IsFiniteSet(S), \A x \in S : f[x] = 0
  PROVE  SumFunctionOnSet(f, S) = 0
<1> DEFINE B == {T \in SUBSET S : SumFunctionOnSet(f, T) # 0}
<1> SUFFICES ASSUME B # {} PROVE FALSE
  OBVIOUS
<1>0. B \in SUBSET (SUBSET S) /\ B # {}
  OBVIOUS
<1>1. PICK T \in B : \A U \in B : U \subseteq T => U = T
  <2> HIDE DEF B
  <2>1. QED
    BY <1>0, LeastSubset
<1>2. Summable(f, T)
  BY <1>1, FS_Subset DEF Summable
<1>3. PICK x \in T : SumFunctionOnSet(f, T) = f[x] + SumFunctionOnSet(f, T \ {x})
  BY <1>1, <1>2, SumEmpty, SumFirst
<1>4. SumFunctionOnSet(f, T \ {x}) = 0
  BY <1>1
<1>5. QED
  BY <1>1, <1>3, <1>4

\* A sum of natural numbers is one.
LEMMA SumNat ==
  ASSUME NEW f, NEW S, IsFiniteSet(S), \A x \in S : f[x] \in Nat
  PROVE  SumFunctionOnSet(f, S) \in Nat
<1> DEFINE z == [x \in S |-> 0]
<1>1. Summable(f, S) /\ Summable(z, S) /\ (\A x \in S : z[x] <= f[x])
  BY DEF Summable
<1>2. SumFunctionOnSet(z, S) = 0
  BY SumZero
<1> HIDE DEF z
<1>3. 0 <= SumFunctionOnSet(f, S) /\ SumFunctionOnSet(f, S) \in Int
  BY <1>1, <1>2, SumMonotone, SumType
<1>4. QED
  BY <1>3

\* A sum splits into those over two parts.
LEMMA SumSplit ==
  ASSUME NEW f, NEW S, Summable(f, S), NEW R \in SUBSET S
  PROVE  SumFunctionOnSet(f, S) = SumFunctionOnSet(f, R) + SumFunctionOnSet(f, S \ R)
<1> DEFINE B == {T \in SUBSET S : R \subseteq T /\ SumFunctionOnSet(f, T) # SumFunctionOnSet(f, R) + SumFunctionOnSet(f, T \ R)}
<1> SUFFICES ASSUME B # {} PROVE FALSE
  OBVIOUS
<1>0. B \in SUBSET (SUBSET S) /\ B # {}
  OBVIOUS
<1>1. PICK T \in B : \A U \in B : U \subseteq T => U = T
  <2> HIDE DEF B
  <2>1. QED
    BY <1>0, LeastSubset DEF Summable
<1>2. \A U \in SUBSET S : Summable(f, U) /\ SumFunctionOnSet(f, U) \in Int
  BY FS_Subset, SumType DEF Summable
<1>3. T \in SUBSET S /\ R \subseteq T
  BY <1>1
<1>4. ASSUME T = R PROVE FALSE
  <2>1. T \ R = {} /\ SumFunctionOnSet(f, T) \in Int
    BY <1>2, <1>3, <1>4
  <2>2. SumFunctionOnSet(f, T \ R) = 0 /\ SumFunctionOnSet(f, T) = SumFunctionOnSet(f, R)
    BY <1>4, <2>1, SumEmpty
  <2>3. SumFunctionOnSet(f, T) # SumFunctionOnSet(f, R) + SumFunctionOnSet(f, T \ R)
    BY <1>1
  <2>4. QED
    BY <2>1, <2>2, <2>3
<1>5. PICK x \in T : x \notin R
  BY <1>3, <1>4
<1>6. SumFunctionOnSet(f, T \ {x}) = SumFunctionOnSet(f, R) + SumFunctionOnSet(f, (T \ {x}) \ R)
  BY <1>1, <1>3, <1>5
<1>7. SumFunctionOnSet(f, T) = f[x] + SumFunctionOnSet(f, T \ {x})
  BY <1>2, <1>3, SumTake
<1>8. SumFunctionOnSet(f, T \ R) = f[x] + SumFunctionOnSet(f, (T \ R) \ {x})
  BY <1>2, <1>3, <1>5, SumTake
<1>9. (T \ R) \ {x} = (T \ {x}) \ R /\ (T \ {x}) \ R \in SUBSET S /\ R \in SUBSET S /\ x \in S
  BY <1>3
<1>10. /\ f[x] \in Int /\ SumFunctionOnSet(f, R) \in Int /\ SumFunctionOnSet(f, (T \ {x}) \ R) \in Int
       /\ SumFunctionOnSet(f, T \ R) = f[x] + SumFunctionOnSet(f, (T \ {x}) \ R)
  BY <1>2, <1>8, <1>9 DEF Summable
<1>11. SumFunctionOnSet(f, T) = SumFunctionOnSet(f, R) + SumFunctionOnSet(f, T \ R)
  BY <1>6, <1>7, <1>10
<1>12. QED
  BY <1>1, <1>11

\* A part of natural numbers sums to no more than all of them.
LEMMA SumOfPart ==
  ASSUME NEW f, NEW S, IsFiniteSet(S), \A x \in S : f[x] \in Nat, NEW R \in SUBSET S
  PROVE  SumFunctionOnSet(f, R) <= SumFunctionOnSet(f, S)
<1>1. Summable(f, S) /\ IsFiniteSet(R) /\ IsFiniteSet(S \ R)
  BY FS_Subset DEF Summable
<1>2. SumFunctionOnSet(f, R) \in Nat /\ SumFunctionOnSet(f, S \ R) \in Nat
  BY <1>1, SumNat
<1>3. QED
  BY <1>1, <1>2, SumSplit

\* Sums over disjoint parts of a set make at most the sum over the set.
LEMMA SumOfParts ==
  ASSUME NEW f, NEW U, IsFiniteSet(U), \A x \in U : f[x] \in Nat,
         NEW S, IsFiniteSet(S), NEW C, \A p \in S : C[p] \subseteq U,
         \A p \in S, q \in S : p # q => C[p] \cap C[q] = {}
  PROVE  SumFunctionOnSet([p \in S |-> SumFunctionOnSet(f, C[p])], S) <= SumFunctionOnSet(f, U)
<1> DEFINE g == [p \in S |-> SumFunctionOnSet(f, C[p])]
           Within(T) == {x \in U : \E p \in T : x \in C[p]}
           Exceeds(T) == ~(SumFunctionOnSet(g, T) <= SumFunctionOnSet(f, Within(T)))
           B == {T \in SUBSET S : Exceeds(T)}
<1>1. ASSUME NEW T \in SUBSET S
      PROVE  /\ IsFiniteSet(Within(T)) /\ Summable(f, Within(T)) /\ IsFiniteSet(T)
             /\ \A x \in Within(T) : f[x] \in Nat
  BY FS_Subset DEF Summable
<1>2. \A p \in S : g[p] \in Nat
  <2> SUFFICES ASSUME NEW p \in S PROVE SumFunctionOnSet(f, C[p]) \in Nat
    OBVIOUS
  <2>1. IsFiniteSet(C[p]) /\ \A x \in C[p] : f[x] \in Nat
    BY FS_Subset
  <2>2. QED
    BY <2>1, SumNat
<1>3. ASSUME B # {} PROVE FALSE
  <2>0. B \in SUBSET (SUBSET S) /\ B # {}
    BY <1>3
  <2>1. PICK T \in B : \A V \in B : V \subseteq T => V = T
    <3> HIDE DEF B
    <3>1. QED
      BY <2>0, LeastSubset
  <2>2. T \in SUBSET S /\ Exceeds(T)
    BY <2>1
  <2>3. SumFunctionOnSet(f, Within(T)) \in Nat
    <3> HIDE DEF Within
    <3>1. QED
      BY <1>1, <2>2, SumNat
  <2>4. T # {}
    <3> SUFFICES ASSUME T = {} PROVE FALSE
      OBVIOUS
    <3>1. SumFunctionOnSet(g, T) = 0
      <4> HIDE DEF g
      <4>1. QED
        BY SumEmpty
    <3>2. ~(SumFunctionOnSet(g, T) <= SumFunctionOnSet(f, Within(T)))
      BY <2>2
    <3> HIDE DEF g, Within
    <3>3. QED
      BY ONLY <2>3, <3>1, <3>2
  <2>5. PICK p \in T : TRUE
    BY <2>4
  <2> DEFINE R == T \ {p}
  <2>6. R \in SUBSET S /\ R \subseteq T /\ R # T /\ p \in S
    BY <2>2, <2>5
  <2>7. ~Exceeds(R)
    <3>1. R \notin B
      BY <2>1, <2>6
    <3>2. QED
      BY <2>6, <3>1
  <2>8. SumFunctionOnSet(g, T) = g[p] + SumFunctionOnSet(g, R)
    <3> HIDE DEF g, B, Within, Exceeds
    <3>1. IsFiniteSet(T) /\ T \subseteq S
      BY <1>1, <2>2
    <3>2. \A x \in T : g[x] \in Int
      BY <1>2, <3>1
    <3>3. Summable(g, T)
      BY <3>1, <3>2 DEF Summable
    <3>4. QED
      BY <2>5, <3>3, SumTake
  <2>9. C[p] \in SUBSET Within(T) /\ Within(T) \ C[p] = Within(R)
    BY <2>2, <2>5, <2>6
  <2>10. SumFunctionOnSet(f, Within(T)) = SumFunctionOnSet(f, C[p]) + SumFunctionOnSet(f, Within(T) \ C[p])
    <3>1. Summable(f, Within(T))
      BY <1>1, <2>2
    <3> HIDE DEF Within
    <3>2. QED
      BY <2>9, <3>1, SumSplit
  <2>11. g[p] = SumFunctionOnSet(f, C[p]) /\ g[p] \in Nat
    BY <1>2, <2>6
  <2>12. SumFunctionOnSet(g, R) <= SumFunctionOnSet(f, Within(R))
    BY <2>7
  <2>13. SumFunctionOnSet(f, Within(T) \ C[p]) = SumFunctionOnSet(f, Within(R))
    <3> HIDE DEF Within
    <3>1. QED
      BY <2>9
  <2>14. SumFunctionOnSet(f, Within(R)) \in Nat
    <3> HIDE DEF Within, R
    <3>1. QED
      BY <1>1, <2>6, SumNat
  <2>15. SumFunctionOnSet(g, R) \in Nat
    <3>1. IsFiniteSet(R) /\ \A x \in R : g[x] \in Nat
      BY <1>1, <1>2, <2>6
    <3> HIDE DEF g, R
    <3>2. QED
      BY <3>1, SumNat
  <2> HIDE DEF g, R, Within
  <2>16. SumFunctionOnSet(g, T) <= SumFunctionOnSet(f, Within(T))
    BY <2>8, <2>10, <2>11, <2>12, <2>13, <2>14, <2>15
  <2>17. QED
    BY <2>2, <2>16
<1>4. ~Exceeds(S)
  BY <1>3
<1>5. SumFunctionOnSet(f, Within(S)) <= SumFunctionOnSet(f, U)
  <2>1. Within(S) \in SUBSET U
    OBVIOUS
  <2> HIDE DEF Within
  <2>2. QED
    BY <2>1, SumOfPart
<1>6. SumFunctionOnSet(f, Within(S)) \in Nat /\ SumFunctionOnSet(g, S) \in Nat /\ SumFunctionOnSet(f, U) \in Nat
  <2>1. IsFiniteSet(Within(S)) /\ \A x \in Within(S) : f[x] \in Nat
    BY <1>1
  <2> HIDE DEF Within, g
  <2>2. QED
    BY <1>2, <2>1, SumNat
<1>7. SumFunctionOnSet(g, S) <= SumFunctionOnSet(f, Within(S))
  BY <1>4
<1> HIDE DEF g, Within
<1>8. SumFunctionOnSet(g, S) <= SumFunctionOnSet(f, U)
  BY <1>5, <1>6, <1>7
<1>9. QED
  BY <1>8 DEF g

\* The sum over one element.
LEMMA SumOne ==
  ASSUME NEW f, NEW x, f[x] \in Int
  PROVE  SumFunctionOnSet(f, {x}) = f[x]
<1>1. Summable(f, {x}) /\ {x} \ {x} = {}
  BY FS_Singleton DEF Summable
<1>2. SumFunctionOnSet(f, {x}) = f[x] + SumFunctionOnSet(f, {})
  BY <1>1, SumTake
<1>3. QED
  BY <1>2, SumEmpty

-----------------------------------------------------------------------------
(* Greatest and least elements                                             *)

\* Max of a finite set of integers is its greatest element.
LEMMA MaxIsGreatest ==
  ASSUME NEW S, IsFiniteSet(S), S # {}, S \subseteq Int
  PROVE  Max(S) \in S /\ \A y \in S : y <= Max(S)
<1> DEFINE Topped(T) == \E x \in T : \A y \in T : y <= x
           B == {T \in SUBSET S : T # {} /\ ~Topped(T)}
<1>1. ASSUME B # {} PROVE FALSE
  <2>0. B \in SUBSET (SUBSET S) /\ B # {}
    BY <1>1
  <2>1. PICK T \in B : \A U \in B : U \subseteq T => U = T
    <3> HIDE DEF B
    <3>1. QED
      BY ONLY IsFiniteSet(S), <2>0, LeastSubset
  <2>2. T \in SUBSET S /\ T # {} /\ ~Topped(T)
    BY <2>1
  <2>3. PICK x \in T : TRUE
    BY <2>2
  <2>4. x \in Int /\ T \subseteq Int
    BY <2>2
  <2>5. PICK y \in T : ~(y <= x)
    BY <2>2
  <2>6. y # x
    BY <2>4, <2>5
  <2>7. T \ {x} \in SUBSET S /\ T \ {x} # {} /\ T \ {x} \subseteq T /\ T \ {x} # T
    BY <2>2, <2>3, <2>6
  <2>8. Topped(T \ {x})
    <3>1. T \ {x} \notin B
      <4> HIDE DEF B
      <4>1. QED
        BY <2>1, <2>7
    <3>2. QED
      BY <2>7, <3>1
  <2>9. PICK m \in T \ {x} : \A z \in T \ {x} : z <= m
    BY <2>8
  <2>10. x <= m
    BY <2>4, <2>5, <2>6, <2>9
  <2>11. \A z \in T : z <= m
    BY <2>9, <2>10
  <2>12. QED
    BY <2>2, <2>11
<1>2. Topped(S)
  <2>1. S \notin B
    BY <1>1
  <2>2. QED
    BY <2>1
<1>3. \E x \in S : \A y \in S : x >= y
  BY <1>2
<1>4. QED
  BY <1>3 DEF Max

\* The values of a function on a finite set: finite, and no more of them.
LEMMA FiniteImage ==
  ASSUME NEW S, IsFiniteSet(S), NEW f
  PROVE  /\ IsFiniteSet({f[x] : x \in S})
         /\ Cardinality({f[x] : x \in S}) <= Cardinality(S)
<1> DEFINE T == {f[x] : x \in S}
           g == [x \in S |-> f[x]]
<1>1. g \in Surjection(S, T)
  BY DEF Surjection
<1> HIDE DEF g, T
<1>2. IsFiniteSet(T) /\ Cardinality(T) <= Cardinality(S)
  BY <1>1, FS_Surjection
<1>3. QED
  BY <1>2 DEF T

\* A finite set of integers has a least one.
LEMMA LeastExists ==
  ASSUME NEW S, IsFiniteSet(S), S # {}, S \subseteq Int
  PROVE  \E x \in S : \A y \in S : x <= y
<1> DEFINE minus == [x \in S |-> 0 - x]
           N == {minus[x] : x \in S}
<1>1. IsFiniteSet(N) /\ N # {} /\ N \subseteq Int
  <2>1. IsFiniteSet(N)
    <3> HIDE DEF minus
    <3>1. QED
      BY FiniteImage
  <2>2. \A x \in S : minus[x] \in N /\ minus[x] \in Int
    OBVIOUS
  <2>3. N # {}
    BY <2>2
  <2>4. N \subseteq Int
    <3>1. \A n \in N : \E x \in S : n = minus[x]
      OBVIOUS
    <3> HIDE DEF minus, N
    <3>2. QED
      BY <2>2, <3>1
  <2> HIDE DEF N
  <2>5. QED
    BY <2>1, <2>3, <2>4
<1>2. Max(N) \in N /\ \A n \in N : n <= Max(N)
  <2> HIDE DEF N
  <2>1. QED
    BY <1>1, MaxIsGreatest
<1>3. PICK x \in S : Max(N) = 0 - x
  BY <1>2
<1>4. ASSUME NEW y \in S PROVE x <= y
  <2>1. 0 - y <= 0 - x /\ x \in Int /\ y \in Int
    BY <1>2, <1>3
  <2>2. QED
    BY <2>1
<1>5. QED
  BY <1>4
=============================================================================
