---------------------------- MODULE SumTheorems ----------------------------
(* The sum of a function over a finite set, SumFunctionOnSet of the community
   modules, and what is needed of it: its order does not matter, a change of
   one value changes it by as much, and it grows with its terms. *)
EXTENDS Integers, FiniteSets, Functions, FiniteSetTheorems, WellFoundedInduction, TLAPS

-----------------------------------------------------------------------------
(* Induction: of the subsets that have a property some is smallest. *)

\* Among subsets of a finite set there is one that has no other below it.
LEMMA SmallestSubset ==
  ASSUME NEW S, IsFiniteSet(S), NEW B, B \subseteq SUBSET S, B # {}
  PROVE  \E T \in B : \A U \in B : U \subseteq T => U = T
<1>1. IsWellFoundedOn(StrictSubsetOrdering(S), SUBSET S)
  BY FS_StrictSubsetOrderingWellFounded, FS_FiniteSubsetsOfFinite
<1>2. PICK T \in B : \A U \in B : <<U, T>> \notin StrictSubsetOrdering(S)
  BY <1>1, WFMin
<1>3. \A U \in B : U \subseteq T => U = T
  BY <1>2 DEF StrictSubsetOrdering
<1> QED
  BY <1>3

-----------------------------------------------------------------------------
(* The recursive function behind a sum *)

\* The element that is added last
LastAdded(s) == CHOOSE x \in s : TRUE

\* The sums over the subsets of S
SubsetSums(g, f, S) ==
  g = [s \in SUBSET S |-> IF s = {} THEN 0 ELSE f[LastAdded(s)] + g[s \ {LastAdded(s)}]]

\* The element that is added last is one of the set.
LEMMA LastAddedIsIn == \A s : s # {} => LastAdded(s) \in s
  BY DEF LastAdded

\* What a sum over subsets says of one of them.
LEMMA SumsAt ==
  ASSUME NEW S, NEW f, NEW g, SubsetSums(g, f, S), NEW s \in SUBSET S
  PROVE  /\ s = {} => g[s] = 0
         /\ s # {} => g[s] = f[LastAdded(s)] + g[s \ {LastAdded(s)}]
  BY DEF SubsetSums

\* The sums over the subsets of a set are those over the subsets of a larger one.
LEMMA SumsAgree ==
  ASSUME NEW S, IsFiniteSet(S), NEW T \in SUBSET S, NEW f, NEW g, NEW h,
         SubsetSums(g, f, S), SubsetSums(h, f, T)
  PROVE  \A s \in SUBSET T : g[s] = h[s]
<1> DEFINE B == {s \in SUBSET T : g[s] # h[s]}
<1> SUFFICES ASSUME B # {} PROVE FALSE
  OBVIOUS
<1>1. IsFiniteSet(T)
  BY FS_Subset
<1>2. PICK s \in B : \A u \in B : u \subseteq s => u = s
  <2> HIDE DEF B
  <2>1. B \subseteq SUBSET T
    BY DEF B
  <2> QED
    BY <1>1, <2>1, SmallestSubset
<1>3. s \in SUBSET T /\ s \in SUBSET S /\ g[s] # h[s]
  OBVIOUS
<1>4. CASE s = {}
  BY <1>3, <1>4, SumsAt
<1>5. CASE s # {}
  <2> DEFINE u == s \ {LastAdded(s)}
  <2>1. u \subseteq s /\ u # s
    BY <1>5, LastAddedIsIn
  <2>2. g[u] = h[u]
    BY <1>2, <1>3, <2>1
  <2>3. g[s] = f[LastAdded(s)] + g[u] /\ h[s] = f[LastAdded(s)] + h[u]
    BY <1>3, <1>5, SumsAt
  <2> QED
    BY <1>3, <2>2, <2>3
<1> QED
  BY <1>4, <1>5

\* The recursion has a solution.
LEMMA SumsExist ==
  ASSUME NEW S, IsFiniteSet(S), NEW f
  PROVE  \E g : SubsetSums(g, f, S)
<1> DEFINE B == {T \in SUBSET S : ~ \E g : SubsetSums(g, f, T)}
<1> SUFFICES ASSUME B # {} PROVE FALSE
  OBVIOUS
<1>1. PICK T \in B : \A U \in B : U \subseteq T => U = T
  <2> HIDE DEF B
  <2>1. B \subseteq SUBSET S
    BY DEF B
  <2> QED
    BY <2>1, SmallestSubset
<1>2. T \in SUBSET S /\ \A g : ~SubsetSums(g, f, T)
  BY <1>1
<1> DEFINE sums(s) == CHOOSE h : SubsetSums(h, f, s)
<1>3. ASSUME NEW s \in SUBSET T, s # T
      PROVE  SubsetSums(sums(s), f, s)
  BY <1>1, <1>2, <1>3
<1> DEFINE part(s) == s \ {LastAdded(s)}
           g == [s \in SUBSET T |-> IF s = {} THEN 0 ELSE f[LastAdded(s)] + sums(part(s))[part(s)]]
<1>4. ASSUME NEW s \in SUBSET T, s # {}
      PROVE  part(s) \in SUBSET s /\ part(s) # s
  BY <1>4, LastAddedIsIn
<1>5. ASSUME NEW s \in SUBSET T, s # T
      PROVE  g[s] = sums(s)[s]
  <2>0. SubsetSums(sums(s), f, s) /\ s \in SUBSET s
    BY <1>3, <1>5
  <2>1. CASE s = {}
    <3>1. sums(s)[s] = 0
      BY <2>0, <2>1, SumsAt
    <3> QED
      BY <2>1, <3>1
  <2>2. CASE s # {}
    <3>1. part(s) \in SUBSET s /\ part(s) # T /\ part(s) \in SUBSET T
      BY <1>4, <1>5, <2>2
    <3>2. SubsetSums(sums(part(s)), f, part(s))
      BY <1>3, <3>1
    <3>3. IsFiniteSet(s)
      BY <1>2, <1>5, FS_Subset
    <3>4. sums(s)[part(s)] = sums(part(s))[part(s)]
      <4> HIDE DEF sums, part
      <4> QED
        BY <2>0, <3>1, <3>2, <3>3, SumsAgree
    <3>5. sums(s)[s] = f[LastAdded(s)] + sums(s)[part(s)]
      <4> HIDE DEF sums
      <4> QED
        BY <2>0, <2>2, SumsAt
    <3> QED
      BY <1>5, <2>2, <3>4, <3>5
  <2> QED
    BY <2>1, <2>2
<1>6. ASSUME NEW s \in SUBSET T, s # {}
      PROVE  g[s] = f[LastAdded(s)] + g[part(s)]
  <2>1. part(s) \in SUBSET T /\ part(s) # T
    BY <1>4, <1>6
  <2>2. g[part(s)] = sums(part(s))[part(s)]
    <3> HIDE DEF g, sums, part
    <3> QED
      BY <1>5, <2>1
  <2>3. g[s] = f[LastAdded(s)] + sums(part(s))[part(s)]
    <3> HIDE DEF sums, part
    <3> QED
      BY <1>6
  <2> QED
    BY <2>2, <2>3
<1>7. g = [s \in SUBSET T |-> IF s = {} THEN 0 ELSE f[LastAdded(s)] + g[part(s)]]
  <2>1. \A s \in SUBSET T : g[s] = IF s = {} THEN 0 ELSE f[LastAdded(s)] + g[part(s)]
    <3>1. \A s \in SUBSET T : s = {} => g[s] = 0
      OBVIOUS
    <3> HIDE DEF g, part
    <3> QED
      BY <1>6, <3>1
  <2>2. g = [s \in SUBSET T |-> g[s]]
    OBVIOUS
  <2> HIDE DEF g, part
  <2> QED
    BY <2>1, <2>2
<1>8. SubsetSums(g, f, T)
  <2> HIDE DEF g
  <2> QED
    BY <1>7 DEF SubsetSums
<1> QED
  BY <1>2, <1>8

-----------------------------------------------------------------------------
(* The sum *)

\* The sum over a set is the last of the sums over its subsets.
LEMMA SumIsLast ==
  ASSUME NEW S, IsFiniteSet(S), NEW f, NEW g, SubsetSums(g, f, S)
  PROVE  SumFunctionOnSet(f, S) = g[S]
<1> DEFINE iter == CHOOSE h : h = [s \in SUBSET S |->
                     IF s = {} THEN 0 ELSE f[CHOOSE x \in s : TRUE] + h[s \ {CHOOSE x \in s : TRUE}]]
<1>1. SumFunctionOnSet(f, S) = iter[S]
  BY DEF SumFunctionOnSet, FoldFunctionOnSet, MapThenFoldSet
<1>2. SubsetSums(iter, f, S)
  BY DEF SubsetSums, LastAdded
<1> HIDE DEF iter
<1>3. iter[S] = g[S]
  BY <1>2, SumsAgree
<1> QED
  BY <1>1, <1>3

\* Nothing adds up to zero.
LEMMA SumEmpty ==
  ASSUME NEW f
  PROVE  SumFunctionOnSet(f, {}) = 0
<1>1. IsFiniteSet({})
  BY FS_EmptySet
<1>2. PICK g : SubsetSums(g, f, {})
  BY <1>1, SumsExist
<1> QED
  BY <1>1, <1>2, SumIsLast, SumsAt

\* The sums over the subsets of a set are the sums of the subsets.
LEMMA SumsAreSums ==
  ASSUME NEW S, IsFiniteSet(S), NEW f, NEW g, SubsetSums(g, f, S)
  PROVE  \A T \in SUBSET S : SumFunctionOnSet(f, T) = g[T]
<1> SUFFICES ASSUME NEW T \in SUBSET S PROVE SumFunctionOnSet(f, T) = g[T]
  OBVIOUS
<1>1. IsFiniteSet(T)
  BY FS_Subset
<1>2. PICK h : SubsetSums(h, f, T)
  BY <1>1, SumsExist
<1>3. g[T] = h[T]
  BY <1>2, SumsAgree
<1> QED
  BY <1>1, <1>2, <1>3, SumIsLast

\* One element is taken out of a sum that is not empty.
LEMMA SumTakesOne ==
  ASSUME NEW S, IsFiniteSet(S), S # {}, NEW f
  PROVE  SumFunctionOnSet(f, S) = f[LastAdded(S)] + SumFunctionOnSet(f, S \ {LastAdded(S)})
<1>1. PICK g : SubsetSums(g, f, S)
  BY SumsExist
<1>2. g[S] = f[LastAdded(S)] + g[S \ {LastAdded(S)}]
  BY <1>1, SumsAt
<1> QED
  BY <1>1, <1>2, SumsAreSums

\* The sum of integers is an integer.
LEMMA SumIsInt ==
  ASSUME NEW S, IsFiniteSet(S), NEW f, \A x \in S : f[x] \in Int
  PROVE  SumFunctionOnSet(f, S) \in Int
<1> DEFINE B == {T \in SUBSET S : SumFunctionOnSet(f, T) \notin Int}
<1> SUFFICES ASSUME B # {} PROVE FALSE
  OBVIOUS
<1>1. PICK T \in B : \A U \in B : U \subseteq T => U = T
  <2> HIDE DEF B
  <2>1. B \subseteq SUBSET S
    BY DEF B
  <2> QED
    BY <2>1, SmallestSubset
<1>2. T \in SUBSET S /\ SumFunctionOnSet(f, T) \notin Int
  OBVIOUS
<1>3. T # {}
  BY <1>2, SumEmpty
<1>4. IsFiniteSet(T)
  BY <1>2, FS_Subset
<1>5. LastAdded(T) \in T
  BY <1>3, LastAddedIsIn
<1>6. SumFunctionOnSet(f, T \ {LastAdded(T)}) \in Int
  BY <1>1, <1>2, <1>5
<1>7. SumFunctionOnSet(f, T) = f[LastAdded(T)] + SumFunctionOnSet(f, T \ {LastAdded(T)})
  BY <1>3, <1>4, SumTakesOne
<1> QED
  BY <1>2, <1>5, <1>6, <1>7

\* Any element may be taken out of a sum, not only the last.
LEMMA SumRemove ==
  ASSUME NEW S, IsFiniteSet(S), NEW f, \A x \in S : f[x] \in Int, NEW e \in S
  PROVE  SumFunctionOnSet(f, S) = f[e] + SumFunctionOnSet(f, S \ {e})
<1> DEFINE Sum(T) == SumFunctionOnSet(f, T)
           B == {T \in SUBSET S : \E x \in T : Sum(T) # f[x] + Sum(T \ {x})}
<1> SUFFICES ASSUME B # {} PROVE FALSE
  OBVIOUS
<1>1. PICK T \in B : \A U \in B : U \subseteq T => U = T
  <2> HIDE DEF B
  <2>1. B \subseteq SUBSET S
    BY DEF B
  <2> QED
    BY <2>1, SmallestSubset
<1>2. PICK x \in T : Sum(T) # f[x] + Sum(T \ {x})
  BY <1>1
<1>3. T \in SUBSET S
  BY <1>1
<1> DEFINE l == LastAdded(T)
<1>4. \A U \in SUBSET S : IsFiniteSet(U) /\ Sum(U) \in Int
  BY FS_Subset, SumIsInt
<1>5. l \in T
  BY <1>2, LastAddedIsIn
<1>6. Sum(T) = f[l] + Sum(T \ {l})
  BY <1>2, <1>3, <1>4, SumTakesOne
<1>7. l # x
  BY <1>2, <1>6
<1> HIDE DEF l
<1>8. ASSUME NEW U \in SUBSET T, U # T, NEW y \in U
      PROVE  Sum(U) = f[y] + Sum(U \ {y})
  BY <1>1, <1>3, <1>8
<1> HIDE DEF B, Sum
<1>9. Sum(T \ {l}) = f[x] + Sum((T \ {l}) \ {x}) /\ Sum(T \ {x}) = f[l] + Sum((T \ {x}) \ {l})
  BY <1>2, <1>5, <1>7, <1>8
<1>10. Sum((T \ {x}) \ {l}) = Sum((T \ {l}) \ {x})
  <2>1. (T \ {l}) \ {x} = (T \ {x}) \ {l}
    OBVIOUS
  <2> QED
    BY <2>1
<1>11. f[l] \in Int /\ f[x] \in Int /\ Sum((T \ {l}) \ {x}) \in Int
  BY <1>2, <1>3, <1>4, <1>5
<1>12. Sum(T) = f[l] + (f[x] + Sum((T \ {l}) \ {x}))
  BY <1>6, <1>9
<1>13. Sum(T \ {x}) = f[l] + Sum((T \ {l}) \ {x})
  BY <1>9, <1>10
<1> QED
  BY <1>2, <1>11, <1>12, <1>13

\* A sum that gets another term grows by it.
LEMMA SumAdd ==
  ASSUME NEW S, IsFiniteSet(S), NEW f, NEW e, e \notin S, \A x \in S \cup {e} : f[x] \in Int
  PROVE  SumFunctionOnSet(f, S \cup {e}) = SumFunctionOnSet(f, S) + f[e]
<1>1. IsFiniteSet(S \cup {e}) /\ (S \cup {e}) \ {e} = S /\ e \in S \cup {e}
  BY FS_AddElement
<1>2. SumFunctionOnSet(f, S \cup {e}) = f[e] + SumFunctionOnSet(f, S)
  BY <1>1, SumRemove
<1>3. SumFunctionOnSet(f, S) \in Int
  BY SumIsInt
<1> QED
  BY <1>2, <1>3

\* A sum is as large as its terms make it: terms that are smaller or equal have a smaller or
\* equal sum.
LEMMA SumGrows ==
  ASSUME NEW S, IsFiniteSet(S), NEW f, NEW g,
         \A x \in S : f[x] \in Int /\ g[x] \in Int /\ f[x] <= g[x]
  PROVE  SumFunctionOnSet(f, S) <= SumFunctionOnSet(g, S)
<1> DEFINE Sf(T) == SumFunctionOnSet(f, T)
           Sg(T) == SumFunctionOnSet(g, T)
           B == {T \in SUBSET S : ~(Sf(T) <= Sg(T))}
<1> SUFFICES ASSUME B # {} PROVE FALSE
  OBVIOUS
<1>1. PICK T \in B : \A U \in B : U \subseteq T => U = T
  <2> HIDE DEF B
  <2>1. B \subseteq SUBSET S
    BY DEF B
  <2> QED
    BY <2>1, SmallestSubset
<1>2. T \in SUBSET S /\ ~(Sf(T) <= Sg(T))
  OBVIOUS
<1>3. IsFiniteSet(T)
  BY <1>2, FS_Subset
<1>4. T # {}
  BY <1>2, SumEmpty
<1>5. PICK e : e \in T
  BY <1>4
<1>6. Sf(T) = f[e] + Sf(T \ {e}) /\ Sg(T) = g[e] + Sg(T \ {e})
  BY <1>2, <1>3, <1>5, SumRemove
<1>7. Sf(T \ {e}) \in Int /\ Sg(T \ {e}) \in Int
  BY <1>2, <1>3, FS_Subset, SumIsInt
<1>8. Sf(T \ {e}) <= Sg(T \ {e})
  BY <1>1, <1>2, <1>5
<1> HIDE DEF Sf, Sg
<1> QED
  BY <1>2, <1>5, <1>6, <1>7, <1>8

\* Equal terms have an equal sum.
LEMMA SumEqual ==
  ASSUME NEW S, IsFiniteSet(S), NEW f, NEW g, \A x \in S : f[x] \in Int /\ f[x] = g[x]
  PROVE  SumFunctionOnSet(f, S) = SumFunctionOnSet(g, S)
<1>1. /\ SumFunctionOnSet(f, S) <= SumFunctionOnSet(g, S)
      /\ SumFunctionOnSet(g, S) <= SumFunctionOnSet(f, S)
  BY SumGrows
<1>2. SumFunctionOnSet(f, S) \in Int /\ SumFunctionOnSet(g, S) \in Int
  BY SumIsInt
<1> QED
  BY <1>1, <1>2

\* A change of one term changes the sum by as much.
LEMMA SumChange ==
  ASSUME NEW S, IsFiniteSet(S), NEW f, NEW g, NEW e \in S,
         \A x \in S : f[x] \in Int /\ g[x] \in Int, \A x \in S \ {e} : g[x] = f[x]
  PROVE  SumFunctionOnSet(g, S) = SumFunctionOnSet(f, S) + (g[e] - f[e])
<1>1. IsFiniteSet(S \ {e})
  BY FS_RemoveElement
<1>2. SumFunctionOnSet(f, S \ {e}) = SumFunctionOnSet(g, S \ {e})
  BY <1>1, SumEqual
<1>3. /\ SumFunctionOnSet(f, S) = f[e] + SumFunctionOnSet(f, S \ {e})
      /\ SumFunctionOnSet(g, S) = g[e] + SumFunctionOnSet(g, S \ {e})
  BY SumRemove
<1>4. SumFunctionOnSet(f, S \ {e}) \in Int
  BY <1>1, SumIsInt
<1> QED
  BY <1>2, <1>3, <1>4

\* Zeros add up to nothing.
LEMMA SumOfZeros ==
  ASSUME NEW S, IsFiniteSet(S), NEW f, \A x \in S : f[x] = 0
  PROVE  SumFunctionOnSet(f, S) = 0
<1> DEFINE B == {T \in SUBSET S : SumFunctionOnSet(f, T) # 0}
<1> SUFFICES ASSUME B # {} PROVE FALSE
  OBVIOUS
<1>1. PICK T \in B : \A U \in B : U \subseteq T => U = T
  <2> HIDE DEF B
  <2>1. B \subseteq SUBSET S
    BY DEF B
  <2> QED
    BY <2>1, SmallestSubset
<1>2. T \in SUBSET S /\ SumFunctionOnSet(f, T) # 0
  OBVIOUS
<1>3. IsFiniteSet(T)
  BY <1>2, FS_Subset
<1>4. PICK e : e \in T
  BY <1>2, SumEmpty
<1>5. SumFunctionOnSet(f, T) = f[e] + SumFunctionOnSet(f, T \ {e})
  BY <1>2, <1>3, <1>4, SumRemove
<1>6. SumFunctionOnSet(f, T \ {e}) = 0
  BY <1>1, <1>2, <1>4
<1> QED
  BY <1>2, <1>4, <1>5, <1>6

\* Terms that are not negative make a sum larger.
LEMMA SumOfPart ==
  ASSUME NEW S, IsFiniteSet(S), NEW f, \A x \in S : f[x] \in Int,
         NEW T \in SUBSET S, \A x \in S \ T : f[x] >= 0
  PROVE  SumFunctionOnSet(f, T) <= SumFunctionOnSet(f, S)
<1> DEFINE Sum(U) == SumFunctionOnSet(f, U)
           B == {U \in SUBSET S : T \subseteq U /\ ~(Sum(T) <= Sum(U))}
<1> SUFFICES ASSUME B # {} PROVE FALSE
  OBVIOUS
<1>1. PICK U \in B : \A V \in B : V \subseteq U => V = U
  <2> HIDE DEF B
  <2>1. B \subseteq SUBSET S
    BY DEF B
  <2> QED
    BY <2>1, SmallestSubset
<1>2. U \in SUBSET S /\ T \subseteq U /\ ~(Sum(T) <= Sum(U))
  OBVIOUS
<1>3. IsFiniteSet(U) /\ IsFiniteSet(T) /\ Sum(U) \in Int /\ Sum(T) \in Int
  BY <1>2, FS_Subset, SumIsInt
<1>4. PICK e : e \in U \ T
  <2>1. U # T
    BY <1>2, <1>3
  <2> QED
    BY <1>2, <2>1
<1>5. Sum(U) = f[e] + Sum(U \ {e})
  BY <1>2, <1>3, <1>4, SumRemove
<1>6. Sum(U \ {e}) \in Int
  BY <1>2, <1>3, FS_Subset, SumIsInt
<1>7. Sum(T) <= Sum(U \ {e})
  BY <1>1, <1>2, <1>4
<1> HIDE DEF Sum
<1> QED
  BY <1>2, <1>3, <1>4, <1>5, <1>6, <1>7

\* The sum over two sets without a common element
LEMMA SumOfBoth ==
  ASSUME NEW S, IsFiniteSet(S), NEW T, IsFiniteSet(T), S \cap T = {}, NEW f,
         \A x \in S \cup T : f[x] \in Int
  PROVE  SumFunctionOnSet(f, S \cup T) = SumFunctionOnSet(f, S) + SumFunctionOnSet(f, T)
<1> DEFINE Sum(U) == SumFunctionOnSet(f, U)
           B == {U \in SUBSET T : Sum(S \cup U) # Sum(S) + Sum(U)}
<1> SUFFICES ASSUME B # {} PROVE FALSE
  OBVIOUS
<1>1. PICK U \in B : \A V \in B : V \subseteq U => V = U
  <2> HIDE DEF B
  <2>1. B \subseteq SUBSET T
    BY DEF B
  <2> QED
    BY <2>1, SmallestSubset
<1>2. U \in SUBSET T /\ Sum(S \cup U) # Sum(S) + Sum(U)
  OBVIOUS
<1>3. IsFiniteSet(U) /\ IsFiniteSet(S \cup U)
  BY <1>2, FS_Subset, FS_Union
<1>4. Sum(S) \in Int
  BY SumIsInt
<1>5. PICK e : e \in U
  <2>1. U # {}
    <3>1. CASE U = {}
      <4>1. S \cup U = S /\ Sum(U) = 0
        BY <3>1, SumEmpty
      <4> QED
        BY <1>2, <1>4, <4>1
    <3> QED
      BY <3>1
  <2> QED
    BY <2>1
<1> DEFINE V == U \ {e}
<1>6. V \in SUBSET T /\ V \subseteq U /\ V # U /\ e \notin S /\ (S \cup U) \ {e} = S \cup V
  BY <1>2, <1>5
<1>7. Sum(S \cup V) = Sum(S) + Sum(V)
  BY <1>1, <1>6
<1>8. Sum(U) = f[e] + Sum(V)
  BY <1>2, <1>3, <1>5, SumRemove
<1>9. Sum(S \cup U) = f[e] + Sum(S \cup V)
  <2>1. Sum(S \cup U) = f[e] + Sum((S \cup U) \ {e})
    BY <1>2, <1>3, <1>5, SumRemove
  <2> QED
    BY <1>6, <2>1
<1>10. Sum(V) \in Int /\ f[e] \in Int
  BY <1>2, <1>3, <1>5, <1>6, FS_Subset, SumIsInt
<1> HIDE DEF Sum, V
<1> QED
  BY <1>2, <1>4, <1>7, <1>8, <1>9, <1>10
=============================================================================
