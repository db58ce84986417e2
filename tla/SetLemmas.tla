----------------------------- MODULE SetLemmas -----------------------------
(***************************************************************************)
(* What the proofs use of the operators of the community modules on finite *)
(* sets of numbers: SumFunction and SumFunctionOnSet, Max and Min.         *)
(*                                                                         *)
(* The sum of a function over a set is defined by recursion: a CHOOSE of a *)
(* table that gives each subset the term of one element, picked by another *)
(* CHOOSE, and the sum of the rest.  Such a table exists over every finite *)
(* set, and any two agree (SumsExist, SumsAgree); that the elements can be *)
(* added in any order, in parts or term by term follows.  Every one of     *)
(* these facts is shown on a smallest counterexample: strict inclusion is  *)
(* well founded on the subsets of a finite set.                            *)
(***************************************************************************)
EXTENDS Sequences, Functions, FiniteSetsExt, FiniteSetTheorems, WellFoundedInduction, TLAPS

\* The element that the definition of a sum takes first.
Pick(T) == CHOOSE x \in T : TRUE

\* A table of partial sums, of all subsets of S.
AddsUp(sums, f, S) ==
    sums = [T \in SUBSET S |-> IF T = {} THEN 0 ELSE f[Pick(T)] + sums[T \ {Pick(T)}]]

\* The element picked is one.
LEMMA PickIsIn == ASSUME NEW T, T # {} PROVE Pick(T) \in T
BY DEF Pick

\* A sum is the last entry of a table of partial sums.
LEMMA Unfolds ==
    ASSUME NEW f, NEW S
    PROVE  SumFunctionOnSet(f, S) = (CHOOSE sums : AddsUp(sums, f, S))[S]
BY DEF SumFunctionOnSet, FoldFunctionOnSet, MapThenFoldSet, AddsUp, Pick

\* Induction on finite sets: among the counterexamples there is a smallest one.
LEMMA SmallestSubset ==
    ASSUME NEW S, IsFiniteSet(S), NEW B, B \subseteq SUBSET S, B # {}
    PROVE  \E T \in B : \A U \in SUBSET T : U \in B => U = T
<1>1. B \subseteq FiniteSubsetsOf(S)
  BY FS_FiniteSubsetsOfFinite
<1>2. IsWellFoundedOn(StrictSubsetOrdering(S), FiniteSubsetsOf(S))
  BY FS_StrictSubsetOrderingWellFounded
<1>3. PICK T \in B : \A U \in B : ~ (<<U, T>> \in StrictSubsetOrdering(S))
  BY <1>1, <1>2, WFMin
<1>4. \A U \in SUBSET T : U \in B => U = T
  BY <1>3 DEF StrictSubsetOrdering
<1> QED
  BY <1>4

\* Two tables of partial sums agree where both are defined.
LEMMA SumsAgree ==
    ASSUME NEW f, NEW S, IsFiniteSet(S), NEW T \in SUBSET S, NEW g, NEW h,
           AddsUp(g, f, S), AddsUp(h, f, T)
    PROVE  \A U \in SUBSET T : g[U] = h[U]
<1> DEFINE B == {U \in SUBSET T : g[U] # h[U]}
<1> SUFFICES ASSUME B # {} PROVE FALSE
  OBVIOUS
<1>1. IsFiniteSet(T)
  BY FS_Subset
<1>2. PICK U \in B : \A V \in SUBSET U : V \in B => V = U
  <2> HIDE DEF B
  <2>1. B \subseteq SUBSET T
    BY DEF B
  <2> QED
    BY <1>1, <2>1, SmallestSubset
<1>3. U # {}
  BY DEF AddsUp
<1>4. Pick(U) \in U /\ U \ {Pick(U)} \in SUBSET T /\ U \ {Pick(U)} # U
  BY <1>3, PickIsIn
<1>5. g[U \ {Pick(U)}] = h[U \ {Pick(U)}]
  BY <1>2, <1>4
<1>6. g[U] = f[Pick(U)] + g[U \ {Pick(U)}] /\ h[U] = f[Pick(U)] + h[U \ {Pick(U)}]
  BY <1>3 DEF AddsUp
<1> QED
  BY <1>5, <1>6

\* Every finite set has a table of partial sums.
LEMMA SumsExist ==
    ASSUME NEW f, NEW S, IsFiniteSet(S)
    PROVE  \E sums : AddsUp(sums, f, S)
<1> DEFINE B == {T \in SUBSET S : ~\E sums : AddsUp(sums, f, T)}
<1> SUFFICES ASSUME B # {} PROVE FALSE
  OBVIOUS
<1>1. PICK T \in B : \A U \in SUBSET T : U \in B => U = T
  <2> HIDE DEF B
  <2>1. B \subseteq SUBSET S
    BY DEF B
  <2> QED
    BY <2>1, SmallestSubset
<1> DEFINE part(U) == CHOOSE sums : AddsUp(sums, f, U)
           value(U) == IF U = T THEN f[Pick(T)] + part(T \ {Pick(T)})[T \ {Pick(T)}]
                       ELSE part(U)[U]
           sums == [U \in SUBSET T |-> IF U = {} THEN 0 ELSE value(U)]
<1>2. \A U \in SUBSET T : U # T => AddsUp(part(U), f, U)
  BY <1>1
<1>3. \A U \in SUBSET T : IsFiniteSet(U)
  BY FS_Subset
<1>4. ASSUME NEW U \in SUBSET T, U # {}
      PROVE  sums[U] = f[Pick(U)] + sums[U \ {Pick(U)}]
  <2> DEFINE V == U \ {Pick(U)}
  <2>1. Pick(U) \in U /\ V \in SUBSET T /\ V \in SUBSET U /\ V # T /\ V # U
    BY <1>4, PickIsIn
  <2>2. sums[V] = part(V)[V]
    <3>1. CASE V = {}
      <4>1. AddsUp(part(V), f, V)
        BY <1>2, <2>1
      <4>2. part(V)[V] = 0
        BY <3>1, <4>1 DEF AddsUp
      <4> QED
        BY <3>1, <4>2
    <3>2. CASE V # {}
      BY <2>1, <3>2
    <3> QED
      BY <3>1, <3>2
  <2>3. CASE U = T
    BY <1>4, <2>2, <2>3
  <2>4. CASE U # T
    <3>1. AddsUp(part(U), f, U) /\ AddsUp(part(V), f, V)
      BY <1>2, <2>1, <2>4
    <3>2. part(U)[V] = part(V)[V]
      <4> HIDE DEF part
      <4> QED
      BY <1>3, <2>1, <3>1, SumsAgree
    <3>3. part(U)[U] = f[Pick(U)] + part(U)[V]
      BY <1>4, <3>1 DEF AddsUp
    <3> QED
      BY <1>4, <2>2, <2>4, <3>2, <3>3
  <2> QED
    BY <2>3, <2>4
<1>5. AddsUp(sums, f, T)
  <2>1. sums = [U \in SUBSET T |-> sums[U]]
    OBVIOUS
  <2>2. \A U \in SUBSET T : sums[U] = IF U = {} THEN 0 ELSE f[Pick(U)] + sums[U \ {Pick(U)}]
    <3>1. sums[{}] = 0
      OBVIOUS
    <3> HIDE DEF sums
    <3> QED
      BY <1>4, <3>1
  <2> HIDE DEF sums
  <2> QED
    BY <2>1, <2>2 DEF AddsUp
<1> QED
  BY <1>1, <1>5

\* Any table of partial sums tells the sum.
LEMMA SumIsLast ==
    ASSUME NEW f, NEW S, IsFiniteSet(S), NEW sums, AddsUp(sums, f, S)
    PROVE  SumFunctionOnSet(f, S) = sums[S]
<1>1. AddsUp(CHOOSE g : AddsUp(g, f, S), f, S)
  BY SumsExist
<1>2. (CHOOSE g : AddsUp(g, f, S))[S] = sums[S]
  BY <1>1, SumsAgree
<1> QED
  BY <1>2, Unfolds

\* The sum of no terms.
LEMMA SumOfNone == ASSUME NEW f PROVE SumFunctionOnSet(f, {}) = 0
<1>1. IsFiniteSet({})
  BY FS_EmptySet
<1>2. PICK sums : AddsUp(sums, f, {})
  BY <1>1, SumsExist
<1> QED
  BY <1>1, <1>2, SumIsLast DEF AddsUp

\* One step of the definition.
LEMMA SumFromPick ==
    ASSUME NEW f, NEW S, IsFiniteSet(S), S # {}
    PROVE  SumFunctionOnSet(f, S) = f[Pick(S)] + SumFunctionOnSet(f, S \ {Pick(S)})
<1> DEFINE T == S \ {Pick(S)}
<1>1. PICK sums : AddsUp(sums, f, S)
  BY SumsExist
<1>2. PICK part : AddsUp(part, f, T)
  BY SumsExist, FS_Subset
<1>3. SumFunctionOnSet(f, S) = sums[S] /\ SumFunctionOnSet(f, T) = part[T]
  BY <1>1, <1>2, SumIsLast, FS_Subset
<1>4. sums[T] = part[T]
  <2>1. T \in SUBSET S /\ T \in SUBSET T
    OBVIOUS
  <2> HIDE DEF T
  <2> QED
    BY <1>1, <1>2, <2>1, SumsAgree
<1>5. sums[S] = f[Pick(S)] + sums[T]
  BY <1>1 DEF AddsUp
<1> QED
  BY <1>3, <1>4, <1>5

\* A sum of integers is one.
LEMMA SumInInt ==
    ASSUME NEW f, NEW S, IsFiniteSet(S), \A x \in S : f[x] \in Int
    PROVE  SumFunctionOnSet(f, S) \in Int
<1> DEFINE B == {T \in SUBSET S : SumFunctionOnSet(f, T) \notin Int}
<1> SUFFICES ASSUME B # {} PROVE FALSE
  OBVIOUS
<1>1. PICK T \in B : \A U \in SUBSET T : U \in B => U = T
  <2> HIDE DEF B
  <2>1. B \subseteq SUBSET S
    BY DEF B
  <2> QED
    BY <2>1, SmallestSubset
<1>2. T # {} /\ IsFiniteSet(T)
  <2>1. SumFunctionOnSet(f, {}) \in Int
    BY SumOfNone
  <2>2. T \in SUBSET S /\ SumFunctionOnSet(f, T) \notin Int
    OBVIOUS
  <2> HIDE DEF B
  <2> QED
    BY <2>1, <2>2, FS_Subset
<1>3. Pick(T) \in T
  BY <1>2, PickIsIn
<1>4. SumFunctionOnSet(f, T \ {Pick(T)}) \in Int
  BY <1>1, <1>3
<1>5. f[Pick(T)] \in Int
  BY <1>3
<1> QED
  BY <1>2, <1>4, <1>5, SumFromPick

\* The order does not matter: any element may be added last.
LEMMA SumFrom ==
    ASSUME NEW f, NEW S, IsFiniteSet(S), \A x \in S : f[x] \in Int, NEW a \in S
    PROVE  SumFunctionOnSet(f, S) = f[a] + SumFunctionOnSet(f, S \ {a})
<1> DEFINE B == {T \in SUBSET S : \E x \in T : SumFunctionOnSet(f, T) # f[x] + SumFunctionOnSet(f, T \ {x})}
<1> SUFFICES ASSUME B # {} PROVE FALSE
  OBVIOUS
<1>1. PICK T \in B : \A U \in SUBSET T : U \in B => U = T
  <2> HIDE DEF B
  <2>1. B \subseteq SUBSET S
    BY DEF B
  <2> QED
    BY <2>1, SmallestSubset
<1>2. PICK x \in T : SumFunctionOnSet(f, T) # f[x] + SumFunctionOnSet(f, T \ {x})
  OBVIOUS
<1> DEFINE p == Pick(T)
<1>3. p \in T /\ SumFunctionOnSet(f, T) = f[p] + SumFunctionOnSet(f, T \ {p})
  BY <1>2, PickIsIn, SumFromPick, FS_Subset
<1>4. p # x
  BY <1>2, <1>3
<1> DEFINE rest == T \ {p, x}
<1> HIDE DEF p
<1>5. SumFunctionOnSet(f, T \ {p}) = f[x] + SumFunctionOnSet(f, rest)
  <2>1. T \ {p} \in SUBSET T /\ T \ {p} # T /\ x \in T \ {p} /\ (T \ {p}) \ {x} = rest
    BY <1>3, <1>4
  <2>2. T \ {p} \notin B
    <3> HIDE DEF B
    <3> QED
      BY <1>1, <2>1
  <2>3. T \ {p} \in SUBSET S
    OBVIOUS
  <2>4. \A y \in T \ {p} : SumFunctionOnSet(f, T \ {p}) = f[y] + SumFunctionOnSet(f, (T \ {p}) \ {y})
    BY <2>2, <2>3
  <2> QED
    BY <2>1, <2>4
<1>6. SumFunctionOnSet(f, T \ {x}) = f[p] + SumFunctionOnSet(f, rest)
  <2>1. T \ {x} \in SUBSET T /\ T \ {x} # T /\ p \in T \ {x} /\ (T \ {x}) \ {p} = rest
    BY <1>3, <1>4
  <2>2. T \ {x} \notin B
    <3> HIDE DEF B
    <3> QED
      BY <1>1, <2>1
  <2>3. T \ {x} \in SUBSET S
    OBVIOUS
  <2>4. \A y \in T \ {x} : SumFunctionOnSet(f, T \ {x}) = f[y] + SumFunctionOnSet(f, (T \ {x}) \ {y})
    BY <2>2, <2>3
  <2> QED
    BY <2>1, <2>4
<1>7. f[p] \in Int /\ f[x] \in Int /\ SumFunctionOnSet(f, rest) \in Int
  <2>1. IsFiniteSet(rest)
    BY FS_Subset
  <2> QED
    BY <1>3, <2>1, SumInInt
<1>8. SumFunctionOnSet(f, T) = f[x] + SumFunctionOnSet(f, T \ {x})
  <2> HIDE DEF rest, B
  <2> QED
    BY <1>3, <1>5, <1>6, <1>7
<1> QED
  BY <1>2, <1>8

-----------------------------------------------------------------------------
\* A sum depends on its terms only.
LEMMA SumsEqual ==
    ASSUME NEW f, NEW g, NEW S, IsFiniteSet(S), \A x \in S : f[x] = g[x]
    PROVE  SumFunctionOnSet(f, S) = SumFunctionOnSet(g, S)
<1> DEFINE B == {T \in SUBSET S : SumFunctionOnSet(f, T) # SumFunctionOnSet(g, T)}
<1> SUFFICES ASSUME B # {} PROVE FALSE
  OBVIOUS
<1>1. PICK T \in B : \A U \in SUBSET T : U \in B => U = T
  <2> HIDE DEF B
  <2>1. B \subseteq SUBSET S
    BY DEF B
  <2> QED
    BY <2>1, SmallestSubset
<1>2. T \in SUBSET S /\ IsFiniteSet(T) /\ SumFunctionOnSet(f, T) # SumFunctionOnSet(g, T)
  <2>1. T \in SUBSET S /\ SumFunctionOnSet(f, T) # SumFunctionOnSet(g, T)
    OBVIOUS
  <2> QED
    BY <2>1, FS_Subset
<1>3. T # {}
  BY <1>2, SumOfNone
<1> DEFINE a == Pick(T)
<1>4. a \in T
  BY <1>3, PickIsIn
<1>5. SumFunctionOnSet(f, T) = f[a] + SumFunctionOnSet(f, T \ {a})
      /\ SumFunctionOnSet(g, T) = g[a] + SumFunctionOnSet(g, T \ {a})
  BY <1>2, <1>3, SumFromPick
<1>6. T \ {a} \in SUBSET T /\ T \ {a} # T /\ T \ {a} \in SUBSET S
  BY <1>2, <1>4
<1> HIDE DEF a
<1>7. SumFunctionOnSet(f, T \ {a}) = SumFunctionOnSet(g, T \ {a})
  BY <1>1, <1>6
<1> QED
  BY <1>2, <1>4, <1>5, <1>7

\* A sum changes by what one of its terms changes.
LEMMA SumChanges ==
    ASSUME NEW f, NEW g, NEW S, IsFiniteSet(S), NEW a \in S,
           \A x \in S : f[x] \in Int /\ g[x] \in Int, \A x \in S \ {a} : f[x] = g[x]
    PROVE  SumFunctionOnSet(g, S) = SumFunctionOnSet(f, S) + g[a] - f[a]
<1>1. IsFiniteSet(S \ {a})
  BY FS_RemoveElement
<1>2. SumFunctionOnSet(f, S \ {a}) = SumFunctionOnSet(g, S \ {a})
  BY <1>1, SumsEqual
<1>3. SumFunctionOnSet(f, S) = f[a] + SumFunctionOnSet(f, S \ {a})
      /\ SumFunctionOnSet(g, S) = g[a] + SumFunctionOnSet(g, S \ {a})
  BY SumFrom
<1>4. SumFunctionOnSet(f, S \ {a}) \in Int
  BY <1>1, SumInInt
<1> QED
  BY <1>2, <1>3, <1>4

\* Sums are compared term by term.
LEMMA SumsCompare ==
    ASSUME NEW f, NEW g, NEW S, IsFiniteSet(S),
           \A x \in S : f[x] \in Int /\ g[x] \in Int /\ f[x] <= g[x]
    PROVE  SumFunctionOnSet(f, S) <= SumFunctionOnSet(g, S)
<1> DEFINE B == {T \in SUBSET S : ~ (SumFunctionOnSet(f, T) <= SumFunctionOnSet(g, T))}
<1> SUFFICES ASSUME B # {} PROVE FALSE
  OBVIOUS
<1>1. PICK T \in B : \A U \in SUBSET T : U \in B => U = T
  <2> HIDE DEF B
  <2>1. B \subseteq SUBSET S
    BY DEF B
  <2> QED
    BY <2>1, SmallestSubset
<1>2. T \in SUBSET S /\ IsFiniteSet(T) /\ ~ (SumFunctionOnSet(f, T) <= SumFunctionOnSet(g, T))
  <2>1. T \in SUBSET S /\ ~ (SumFunctionOnSet(f, T) <= SumFunctionOnSet(g, T))
    OBVIOUS
  <2> QED
    BY <2>1, FS_Subset
<1>3. PICK a \in T : TRUE
  BY <1>2, SumOfNone
<1>4. T \ {a} \in SUBSET T /\ T \ {a} # T /\ T \ {a} \in SUBSET S
  BY <1>2
<1>5. SumFunctionOnSet(f, T) = f[a] + SumFunctionOnSet(f, T \ {a})
      /\ SumFunctionOnSet(g, T) = g[a] + SumFunctionOnSet(g, T \ {a})
  BY <1>2, SumFrom
<1>6. SumFunctionOnSet(f, T \ {a}) <= SumFunctionOnSet(g, T \ {a})
  BY <1>1, <1>4
<1>7. SumFunctionOnSet(f, T \ {a}) \in Int /\ SumFunctionOnSet(g, T \ {a}) \in Int
  <2>1. IsFiniteSet(T \ {a})
    BY <1>4, FS_Subset
  <2> QED
    BY <1>2, <2>1, SumInInt
<1>8. f[a] \in Int /\ g[a] \in Int /\ f[a] <= g[a]
  BY <1>2
<1> HIDE DEF B
<1> QED
  BY <1>2, <1>5, <1>6, <1>7, <1>8

\* The terms of two sums may be added first.
LEMMA SumsAdd ==
    ASSUME NEW f, NEW g, NEW h, NEW S, IsFiniteSet(S),
           \A x \in S : f[x] \in Int /\ g[x] \in Int /\ h[x] = f[x] + g[x]
    PROVE  SumFunctionOnSet(h, S) = SumFunctionOnSet(f, S) + SumFunctionOnSet(g, S)
<1> DEFINE Bad(T) == SumFunctionOnSet(h, T) # SumFunctionOnSet(f, T) + SumFunctionOnSet(g, T)
           B == {T \in SUBSET S : Bad(T)}
<1> SUFFICES ASSUME B # {} PROVE FALSE
  OBVIOUS
<1>1. PICK T \in B : \A U \in SUBSET T : U \in B => U = T
  <2> HIDE DEF B
  <2>1. B \subseteq SUBSET S
    BY DEF B
  <2> QED
    BY <2>1, SmallestSubset
<1>2. T \in SUBSET S /\ IsFiniteSet(T) /\ Bad(T)
  <2>1. T \in SUBSET S /\ Bad(T)
    OBVIOUS
  <2> QED
    BY <2>1, FS_Subset
<1>3. T # {}
  <2>1. ~Bad({})
    BY SumOfNone
  <2> HIDE DEF Bad
  <2> QED
    BY <1>2, <2>1
<1> DEFINE a == Pick(T)
<1>4. a \in T
  BY <1>3, PickIsIn
<1>5. SumFunctionOnSet(f, T) = f[a] + SumFunctionOnSet(f, T \ {a})
      /\ SumFunctionOnSet(g, T) = g[a] + SumFunctionOnSet(g, T \ {a})
      /\ SumFunctionOnSet(h, T) = h[a] + SumFunctionOnSet(h, T \ {a})
  BY <1>2, <1>3, SumFromPick
<1>6. T \ {a} \in SUBSET T /\ T \ {a} # T /\ T \ {a} \in SUBSET S
  BY <1>2, <1>4
<1> HIDE DEF a
<1>7. ~Bad(T \ {a})
  BY <1>1, <1>6
<1>8. SumFunctionOnSet(f, T \ {a}) \in Int /\ SumFunctionOnSet(g, T \ {a}) \in Int
  <2>1. IsFiniteSet(T \ {a})
    BY <1>6, FS_Subset
  <2> QED
    BY <1>2, <2>1, SumInInt
<1>9. f[a] \in Int /\ g[a] \in Int /\ h[a] = f[a] + g[a]
  BY <1>2, <1>4
<1> HIDE DEF B
<1> QED
  BY <1>2, <1>5, <1>7, <1>8, <1>9

\* A sum of nothing but zeros.
LEMMA SumOfZeros ==
    ASSUME NEW f, NEW S, IsFiniteSet(S), \A x \in S : f[x] = 0
    PROVE  SumFunctionOnSet(f, S) = 0
<1> DEFINE twice == SumFunctionOnSet(f, S) + SumFunctionOnSet(f, S)
<1>1. SumFunctionOnSet(f, S) = twice
  BY SumsAdd
<1>2. SumFunctionOnSet(f, S) \in Int
  BY SumInInt
<1> QED
  BY <1>1, <1>2

\* A sum of natural numbers is one, and no term exceeds it.
LEMMA SumInNat ==
    ASSUME NEW f, NEW S, IsFiniteSet(S), \A x \in S : f[x] \in Nat
    PROVE  SumFunctionOnSet(f, S) \in Nat /\ \A x \in S : f[x] <= SumFunctionOnSet(f, S)
<1> DEFINE zero == [x \in S |-> 0]
<1>1. \A T \in SUBSET S : SumFunctionOnSet(zero, T) = 0 /\ SumFunctionOnSet(f, T) \in Nat
  <2> SUFFICES ASSUME NEW T \in SUBSET S
               PROVE  SumFunctionOnSet(zero, T) = 0 /\ SumFunctionOnSet(f, T) \in Nat
    OBVIOUS
  <2>1. IsFiniteSet(T)
    BY FS_Subset
  <2>2. SumFunctionOnSet(zero, T) = 0
    BY <2>1, SumOfZeros
  <2>3. \A x \in T : zero[x] \in Int /\ f[x] \in Int /\ zero[x] <= f[x]
    OBVIOUS
  <2> HIDE DEF zero
  <2>4. SumFunctionOnSet(zero, T) <= SumFunctionOnSet(f, T)
    BY <2>1, <2>3, SumsCompare
  <2>5. SumFunctionOnSet(f, T) \in Int
    BY <2>1, SumInInt
  <2> QED
    BY <2>2, <2>4, <2>5
<1>2. \A x \in S : f[x] <= SumFunctionOnSet(f, S)
  <2> SUFFICES ASSUME NEW x \in S PROVE f[x] <= SumFunctionOnSet(f, S)
    OBVIOUS
  <2>1. SumFunctionOnSet(f, S) = f[x] + SumFunctionOnSet(f, S \ {x})
    BY SumFrom
  <2>2. SumFunctionOnSet(f, S \ {x}) \in Nat /\ f[x] \in Nat
    BY <1>1
  <2> QED
    BY <2>1, <2>2
<1> QED
  BY <1>1, <1>2

\* Elements that add nothing may be left out.
LEMMA SumOnPart ==
    ASSUME NEW f, NEW S, IsFiniteSet(S), NEW T \in SUBSET S, \A x \in S : f[x] \in Int,
           \A x \in S \ T : f[x] = 0
    PROVE  SumFunctionOnSet(f, S) = SumFunctionOnSet(f, T)
<1> DEFINE Bad(U) == SumFunctionOnSet(f, T \union U) # SumFunctionOnSet(f, T)
           B == {U \in SUBSET (S \ T) : Bad(U)}
<1>1. T \union (S \ T) = S
  OBVIOUS
<1>2. IsFiniteSet(S \ T)
  BY FS_Subset
<1> SUFFICES ASSUME B # {} PROVE FALSE
  <2>1. Bad(S \ T) => B # {}
    OBVIOUS
  <2>2. ~Bad(S \ T) => SumFunctionOnSet(f, S) = SumFunctionOnSet(f, T)
    BY <1>1
  <2> HIDE DEF B, Bad
  <2> QED
    BY <2>1, <2>2
<1>3. PICK U \in B : \A V \in SUBSET U : V \in B => V = U
  <2> HIDE DEF B
  <2>1. B \subseteq SUBSET (S \ T)
    BY DEF B
  <2> QED
    BY <1>2, <2>1, SmallestSubset
<1>4. U \subseteq S \ T /\ Bad(U)
  OBVIOUS
<1>5. U # {}
  <2>1. T \union {} = T
    OBVIOUS
  <2> QED
    BY <1>4, <2>1
<1>6. PICK a \in U : TRUE
  BY <1>5
<1>7. ~Bad(U \ {a})
  <2>1. U \ {a} \in SUBSET U /\ U \ {a} # U
    BY <1>6
  <2>2. U \ {a} \in SUBSET (S \ T)
    BY <1>4
  <2> HIDE DEF Bad
  <2> QED
    BY <1>3, <2>1, <2>2
<1>8. /\ T \union U \in SUBSET S
      /\ a \in T \union U
      /\ (T \union U) \ {a} = T \union (U \ {a})
      /\ f[a] = 0
  BY <1>4, <1>6
<1>9. IsFiniteSet(T \union U) /\ \A x \in T \union U : f[x] \in Int
  BY <1>8, FS_Subset
<1>10. SumFunctionOnSet(f, T \union U) = f[a] + SumFunctionOnSet(f, T \union (U \ {a}))
  BY <1>8, <1>9, SumFrom
<1>11. SumFunctionOnSet(f, T) \in Int
  BY FS_Subset, SumInInt
<1> QED
  BY <1>4, <1>7, <1>8, <1>10, <1>11

\* Disjoint parts are added one by one.
LEMMA SumOfUnion ==
    ASSUME NEW f, NEW S, NEW T, IsFiniteSet(S), IsFiniteSet(T),
           \A x \in S \union T : f[x] \in Int, S \intersect T = {}
    PROVE  SumFunctionOnSet(f, S \union T) = SumFunctionOnSet(f, S) + SumFunctionOnSet(f, T)
<1> DEFINE all == S \union T
           left == [x \in all |-> IF x \in S THEN f[x] ELSE 0]
           right == [x \in all |-> IF x \in T THEN f[x] ELSE 0]
<1>1. IsFiniteSet(all) /\ S \in SUBSET all /\ T \in SUBSET all
  BY FS_Union
<1>2. \A x \in all : left[x] \in Int /\ right[x] \in Int /\ f[x] = left[x] + right[x]
  OBVIOUS
<1>3. /\ \A x \in all \ S : left[x] = 0
      /\ \A x \in all \ T : right[x] = 0
      /\ \A x \in S : left[x] = f[x]
      /\ \A x \in T : right[x] = f[x]
  OBVIOUS
<1> HIDE DEF left, right, all
<1>4. SumFunctionOnSet(f, all) = SumFunctionOnSet(left, all) + SumFunctionOnSet(right, all)
  BY <1>1, <1>2, SumsAdd
<1>5. SumFunctionOnSet(left, all) = SumFunctionOnSet(left, S)
  BY <1>1, <1>2, <1>3, SumOnPart
<1>6. SumFunctionOnSet(right, all) = SumFunctionOnSet(right, T)
  BY <1>1, <1>2, <1>3, SumOnPart
<1>7. /\ SumFunctionOnSet(left, S) = SumFunctionOnSet(f, S)
      /\ SumFunctionOnSet(right, T) = SumFunctionOnSet(f, T)
  BY <1>3, SumsEqual
<1> QED
  BY <1>4, <1>5, <1>6, <1>7 DEF all

\* The values of a function on a set: finitely many, if the set is finite.
ImageOf(h, S) == {h[x] : x \in S}

LEMMA FiniteImage ==
    ASSUME NEW h, NEW S, IsFiniteSet(S)
    PROVE  IsFiniteSet(ImageOf(h, S))
<1> DEFINE T == {h[x] : x \in S}
           onto == [x \in S |-> h[x]]
<1>1. onto \in [S -> T] /\ \A y \in T : \E x \in S : onto[x] = y
  OBVIOUS
<1> HIDE DEF T, onto
<1>2. onto \in Surjection(S, T)
  BY <1>1 DEF Surjection
<1>3. IsFiniteSet(T)
  BY <1>2, FS_Surjection
<1> QED
  BY <1>3 DEF T, ImageOf

\* Elements may be renamed.
LEMMA SumMapped ==
    ASSUME NEW f, NEW g, NEW h, NEW S, IsFiniteSet(S),
           \A x \in S : g[x] \in Int /\ g[x] = f[h[x]],
           \A x \in S, y \in S : h[x] = h[y] => x = y
    PROVE  SumFunctionOnSet(f, ImageOf(h, S)) = SumFunctionOnSet(g, S)
<1> DEFINE Bad(T) == SumFunctionOnSet(f, ImageOf(h, T)) # SumFunctionOnSet(g, T)
           B == {T \in SUBSET S : Bad(T)}
<1> SUFFICES ASSUME B # {} PROVE FALSE
  OBVIOUS
<1>1. PICK T \in B : \A U \in SUBSET T : U \in B => U = T
  <2> HIDE DEF B
  <2>1. B \subseteq SUBSET S
    BY DEF B
  <2> QED
    BY <2>1, SmallestSubset
<1>2. T \in SUBSET S /\ IsFiniteSet(T) /\ Bad(T)
  <2>1. T \in SUBSET S /\ Bad(T)
    OBVIOUS
  <2> QED
    BY <2>1, FS_Subset
<1>3. T # {}
  <2>1. ImageOf(h, {}) = {}
    BY DEF ImageOf
  <2>2. ~Bad({})
    BY <2>1, SumOfNone
  <2> HIDE DEF Bad
  <2> QED
    BY <1>2, <2>2
<1>4. PICK a \in T : TRUE
  BY <1>3
<1>5. ~Bad(T \ {a})
  <2>1. T \ {a} \in SUBSET T /\ T \ {a} # T
    BY <1>4
  <2>2. T \ {a} \in SUBSET S
    BY <1>2
  <2> HIDE DEF Bad
  <2> QED
    BY <1>1, <2>1, <2>2
<1>6. IsFiniteSet(ImageOf(h, T))
  BY <1>2, FiniteImage
<1>7. /\ \A y \in ImageOf(h, T) : f[y] \in Int
      /\ h[a] \in ImageOf(h, T)
      /\ ImageOf(h, T) \ {h[a]} = ImageOf(h, T \ {a})
  BY <1>2, <1>4 DEF ImageOf
<1>8. SumFunctionOnSet(f, ImageOf(h, T)) = f[h[a]] + SumFunctionOnSet(f, ImageOf(h, T) \ {h[a]})
  BY <1>6, <1>7, SumFrom
<1>9. SumFunctionOnSet(g, T) = g[a] + SumFunctionOnSet(g, T \ {a})
  BY <1>2, <1>4, SumFrom
<1>10. g[a] = f[h[a]]
  BY <1>2, <1>4
<1> QED
  BY <1>2, <1>5, <1>7, <1>8, <1>9, <1>10

\* The sum of a sequence of numbers is that of its parts.
LEMMA SumOfConcat ==
    ASSUME NEW s \in Seq(Int), NEW t \in Seq(Int)
    PROVE  SumFunction(s \o t) = SumFunction(s) + SumFunction(t)
<1> DEFINE m == Len(s)
           n == Len(t)
           both == s \o t
           h == [k \in 1..n |-> m + k]
<1>1. /\ m \in Nat /\ n \in Nat
      /\ DOMAIN s = 1..m /\ DOMAIN t = 1..n /\ DOMAIN both = 1..(m + n)
      /\ \A k \in 1..m : both[k] = s[k] /\ s[k] \in Int
      /\ \A k \in 1..n : both[m + k] = t[k] /\ t[k] \in Int
  OBVIOUS
<1> HIDE DEF m, n, both
<1>2. IsFiniteSet(1..m) /\ IsFiniteSet(1..n)
  BY <1>1, FS_Interval
<1> DEFINE rest == ImageOf(h, 1..n)
<1>3. /\ 1..(m + n) = (1..m) \union rest
      /\ (1..m) \intersect rest = {}
      /\ \A k \in (1..m) \union rest : both[k] \in Int
  <2>1. \A k \in 1..n : h[k] = m + k /\ h[k] \in Int /\ h[k] > m /\ h[k] <= m + n
    BY <1>1
  <2>2. \A k \in 1..(m + n) : k \notin 1..m => k - m \in 1..n /\ h[k - m] = k
    BY <1>1
  <2>3. \A k \in (1..m) \union rest : both[k] \in Int
    BY <1>1, <2>1 DEF ImageOf
  <2>4. rest \subseteq 1..(m + n) /\ (1..m) \intersect rest = {}
    BY <1>1, <2>1 DEF ImageOf
  <2>5. 1..(m + n) \subseteq (1..m) \union rest
    BY <2>2 DEF ImageOf
  <2>6. 1..m \subseteq 1..(m + n)
    BY <1>1
  <2> HIDE DEF rest
  <2> QED
    BY <2>3, <2>4, <2>5, <2>6
<1>4. IsFiniteSet(rest)
  <2> HIDE DEF h
  <2> QED
    BY <1>2, FiniteImage
<1>5. SumFunctionOnSet(both, rest) = SumFunctionOnSet(t, 1..n)
  <2>1. /\ \A k \in 1..n : t[k] \in Int /\ t[k] = both[h[k]]
        /\ \A k \in 1..n, j \in 1..n : h[k] = h[j] => k = j
    BY <1>1
  <2>2. PICK D : D = 1..n
    OBVIOUS
  <2>3. /\ IsFiniteSet(D)
        /\ \A k \in D : t[k] \in Int /\ t[k] = both[h[k]]
        /\ \A k \in D, j \in D : h[k] = h[j] => k = j
    BY <1>2, <2>1, <2>2
  <2> HIDE DEF h, rest
  <2>4. SumFunctionOnSet(both, ImageOf(h, D)) = SumFunctionOnSet(t, D)
    BY <2>3, SumMapped
  <2> QED
    BY <2>2, <2>4 DEF rest
<1>6. SumFunctionOnSet(both, 1..m) = SumFunctionOnSet(s, 1..m)
  BY <1>1, <1>2, SumsEqual
<1> HIDE DEF rest
<1>7. SumFunctionOnSet(both, (1..m) \union rest)
        = SumFunctionOnSet(both, 1..m) + SumFunctionOnSet(both, rest)
  BY <1>2, <1>3, <1>4, SumOfUnion
<1> QED
  BY <1>1, <1>3, <1>5, <1>6, <1>7 DEF SumFunction, both

\* A set of numbers up to a bound has a greatest one.
LEMMA Greatest ==
    ASSUME NEW N \in Nat, NEW T \in SUBSET (1..N), T # {}
    PROVE  \E n \in T : \A m \in T : m <= n
<1> DEFINE U == {N - n : n \in T}
<1>1. U \subseteq Nat /\ U # {}
  <2>1. \A n \in T : N - n \in Nat
    <3>1. \A n \in T : n \in Nat /\ n <= N
      OBVIOUS
    <3> QED
      BY <3>1
  <2> QED
    BY <2>1
<1>2. IsWellFoundedOn(OpToRel(<, Nat), Nat)
  BY NatLessThanWellFounded
<1>3. PICK u \in U : \A v \in U : ~ (<<v, u>> \in OpToRel(<, Nat))
  <2> HIDE DEF U
  <2> QED
    BY <1>1, <1>2, WFMin
<1>4. \A v \in U : u <= v
  <2> SUFFICES ASSUME NEW v \in U PROVE u <= v
    OBVIOUS
  <2>1. u \in Nat /\ v \in Nat
    BY <1>1
  <2>2. ~ (v < u)
    <3> HIDE DEF U
    <3> QED
      BY <1>3, <2>1 DEF OpToRel
  <2> QED
    BY <2>1, <2>2
<1>5. PICK n \in T : u = N - n
  OBVIOUS
<1>6. ASSUME NEW m \in T PROVE m <= n
  <2>1. N - m \in U
    OBVIOUS
  <2> QED
    BY <1>4, <1>5, <2>1
<1> QED
  BY <1>6

\* What Max is of a set with a greatest number.
LEMMA MaxIsLast ==
    ASSUME NEW S \in SUBSET Int, NEW n \in S, \A m \in S : m <= n
    PROVE  Max(S) = n
<1>1. n >= n /\ \A y \in S : n >= y
  OBVIOUS
<1>2. Max(S) \in S /\ \A y \in S : Max(S) >= y
  BY <1>1 DEF Max
<1>3. Max(S) >= n /\ n >= Max(S) /\ Max(S) \in Int
  BY <1>1, <1>2
<1> QED
  BY <1>3

\* What Min is of a set with a least number.
LEMMA MinIsFirst ==
    ASSUME NEW S \in SUBSET Int, NEW n \in S, \A m \in S : n <= m
    PROVE  Min(S) = n
<1>1. n =< n /\ \A y \in S : n =< y
  OBVIOUS
<1>2. Min(S) \in S /\ \A y \in S : Min(S) =< y
  BY <1>1 DEF Min
<1>3. Min(S) =< n /\ n =< Min(S) /\ Min(S) \in Int
  BY <1>1, <1>2
<1> QED
  BY <1>3

\* The greater of two numbers.
LEMMA MaxOfTwo ==
    ASSUME NEW a \in Int, NEW b \in Int
    PROVE  Max({a, b}) = IF a <= b THEN b ELSE a
<1>1. CASE a <= b
  <2>1. {a, b} \in SUBSET Int /\ b \in {a, b} /\ \A m \in {a, b} : m <= b
    BY <1>1
  <2> QED
    BY <1>1, <2>1, MaxIsLast
<1>2. CASE ~(a <= b)
  <2>1. {a, b} \in SUBSET Int /\ a \in {a, b} /\ \A m \in {a, b} : m <= a
    BY <1>2
  <2>2. Max({a, b}) = a
    BY <2>1, MaxIsLast
  <2> QED
    BY <1>2, <2>2
<1> QED
  BY <1>1, <1>2

\* The lesser of two numbers.
LEMMA MinOfTwo ==
    ASSUME NEW a \in Int, NEW b \in Int
    PROVE  Min({a, b}) = IF a <= b THEN a ELSE b
<1>1. CASE a <= b
  <2>1. {a, b} \in SUBSET Int /\ a \in {a, b} /\ \A m \in {a, b} : a <= m
    BY <1>1
  <2> QED
    BY <1>1, <2>1, MinIsFirst
<1>2. CASE ~(a <= b)
  <2>1. {a, b} \in SUBSET Int /\ b \in {a, b} /\ \A m \in {a, b} : b <= m
    BY <1>2
  <2>2. Min({a, b}) = b
    BY <2>1, MinIsFirst
  <2> QED
    BY <1>2, <2>2
<1> QED
  BY <1>1, <1>2

\* A finite set of integers has a greatest one, which is its Max.
LEMMA HasGreatest ==
    ASSUME NEW S, IsFiniteSet(S), S # {}, \A x \in S : x \in Int
    PROVE  \E n \in S : \A m \in S : m <= n
<1> DEFINE Has(T) == \E n \in T : \A m \in T : m <= n
           B == {T \in SUBSET S : T # {} /\ ~Has(T)}
<1> SUFFICES ASSUME B # {} PROVE FALSE
  OBVIOUS
<1>1. PICK T \in B : \A U \in SUBSET T : U \in B => U = T
  <2> HIDE DEF B
  <2>1. B \subseteq SUBSET S
    BY DEF B
  <2> QED
    BY <2>1, SmallestSubset
<1>2. T \subseteq S /\ T # {} /\ ~Has(T)
  OBVIOUS
<1>3. PICK a \in T : TRUE
  BY <1>2
<1> DEFINE U == T \ {a}
<1>4. U \in SUBSET T /\ U # T
  BY <1>3
<1>5. U \notin B
  BY <1>1, <1>4
<1>6. CASE U = {}
  <2>1. T = {a} /\ a \in Int
    BY <1>2, <1>3, <1>6
  <2> QED
    BY <1>2, <2>1
<1>7. CASE U # {}
  <2>1. Has(U)
    BY <1>2, <1>4, <1>5, <1>7
  <2>2. PICK n \in U : \A m \in U : m <= n
    BY <2>1
  <2>3. n \in T /\ n \in Int /\ a \in Int
    BY <1>2, <1>3, <2>2
  <2>4. \A m \in T : m \in Int /\ (m = a \/ m <= n)
    BY <1>2, <2>2
  <2>5. CASE a <= n
    <3>1. \A m \in T : m <= n
      BY <2>4, <2>5
    <3> QED
      BY <1>2, <2>3, <3>1
  <2>6. CASE ~(a <= n)
    <3>1. \A m \in T : m <= a
      BY <2>3, <2>4, <2>6
    <3> QED
      BY <1>2, <1>3, <3>1
  <2> QED
    BY <2>5, <2>6
<1> QED
  BY <1>6, <1>7

\* The Max of a finite set of integers is its greatest.
LEMMA MaxOf ==
    ASSUME NEW S \in SUBSET Int, IsFiniteSet(S), S # {}
    PROVE  Max(S) \in S /\ \A m \in S : m <= Max(S)
<1>1. PICK n \in S : \A m \in S : m <= n
  BY HasGreatest
<1>2. Max(S) = n
  BY <1>1, MaxIsLast
<1> QED
  BY <1>1, <1>2

\* Disjoint sets are counted one by one; sets that overlap, at least once.
Joined(part, R) == UNION {part[p] : p \in R}

LEMMA CountOfParts ==
    ASSUME NEW part, NEW R, IsFiniteSet(R), \A p \in R : IsFiniteSet(part[p]),
           NEW count, \A p \in R : count[p] = Cardinality(part[p])
    PROVE  /\ IsFiniteSet(Joined(part, R))
           /\ Cardinality(Joined(part, R)) <= SumFunctionOnSet(count, R)
           /\ (\A p \in R, r \in R : p # r => part[p] \intersect part[r] = {})
                 => Cardinality(Joined(part, R)) = SumFunctionOnSet(count, R)
<1> DEFINE Apart(T) == \A p \in T, r \in T : p # r => part[p] \intersect part[r] = {}
           Good(T) == /\ IsFiniteSet(Joined(part, T))
                      /\ Cardinality(Joined(part, T)) <= SumFunctionOnSet(count, T)
                      /\ Apart(R) => Cardinality(Joined(part, T)) = SumFunctionOnSet(count, T)
           B == {T \in SUBSET R : ~Good(T)}
<1> SUFFICES ASSUME B # {} PROVE FALSE
  <2>1. R \notin B => Good(R)
    OBVIOUS
  <2> QED
    BY <2>1
<1>1. PICK T \in B : \A U \in SUBSET T : U \in B => U = T
  <2> HIDE DEF B
  <2>1. B \subseteq SUBSET R
    BY DEF B
  <2> QED
    BY <2>1, SmallestSubset
<1>2. T \in SUBSET R /\ IsFiniteSet(T) /\ ~Good(T)
  <2>1. T \in SUBSET R /\ ~Good(T)
    OBVIOUS
  <2> QED
    BY <2>1, FS_Subset
<1>3. T # {}
  <2>1. Joined(part, {}) = {} /\ SumFunctionOnSet(count, {}) = 0
    BY SumOfNone DEF Joined
  <2>2. Good({})
    BY <2>1, FS_EmptySet
  <2> HIDE DEF Good
  <2> QED
    BY <1>2, <2>2
<1>4. PICK a \in T : TRUE
  BY <1>3
<1> DEFINE U == T \ {a}
<1>5. U \in SUBSET T /\ U # T /\ U \in SUBSET R
  BY <1>2, <1>4
<1>6. Good(U)
  <2> HIDE DEF Good, U
  <2> QED
    BY <1>1, <1>5
<1>7. Joined(part, T) = Joined(part, U) \union part[a]
  BY <1>4 DEF Joined
<1>8. /\ IsFiniteSet(part[a]) /\ IsFiniteSet(Joined(part, U))
      /\ count[a] = Cardinality(part[a])
  BY <1>2, <1>4, <1>6
<1>9. SumFunctionOnSet(count, T) = count[a] + SumFunctionOnSet(count, U)
  <2>1. \A p \in T : count[p] \in Int
    BY <1>2, FS_CardinalityType
  <2> QED
    BY <1>2, <1>4, <2>1, SumFrom
<1>10. SumFunctionOnSet(count, U) \in Int
  <2>1. IsFiniteSet(U) /\ \A p \in U : count[p] \in Int
    BY <1>2, <1>5, FS_Subset, FS_CardinalityType
  <2> HIDE DEF U
  <2> QED
    BY <2>1, SumInInt
<1>11. /\ IsFiniteSet(Joined(part, T))
       /\ Cardinality(Joined(part, T))
            = Cardinality(Joined(part, U)) + Cardinality(part[a])
              - Cardinality(Joined(part, U) \intersect part[a])
  <2> HIDE DEF U, Good, B
  <2>1. PICK X, Y : X = Joined(part, U) /\ Y = part[a]
    OBVIOUS
  <2>2. IsFiniteSet(X \union Y)
        /\ Cardinality(X \union Y) = Cardinality(X) + Cardinality(Y) - Cardinality(X \intersect Y)
    BY <1>8, <2>1, FS_Union
  <2> QED
    BY <1>7, <2>1, <2>2
<1>12. IsFiniteSet(Joined(part, U) \intersect part[a])
  BY <1>8, FS_Intersection
<1>13. /\ Cardinality(Joined(part, U)) \in Nat /\ Cardinality(part[a]) \in Nat
       /\ Cardinality(Joined(part, U) \intersect part[a]) \in Nat
  BY <1>8, <1>12, FS_CardinalityType
<1>14. Apart(R) => Cardinality(Joined(part, U) \intersect part[a]) = 0
  <2>1. Apart(R) => Joined(part, U) \intersect part[a] = {}
    BY <1>2, <1>4 DEF Joined
  <2> QED
    BY <2>1, FS_EmptySet
<1> HIDE DEF U, Apart, B
<1> QED
  BY <1>2, <1>6, <1>8, <1>9, <1>10, <1>11, <1>13, <1>14

\* A finite set of integers has a least one, which is its Min.
LEMMA MinOf ==
    ASSUME NEW S \in SUBSET Int, IsFiniteSet(S), S # {}
    PROVE  Min(S) \in S /\ \A m \in S : Min(S) <= m
<1> DEFINE minus == [x \in S |-> -x]
<1>1. \A x \in S : minus[x] = -x /\ minus[x] \in Int /\ x \in Int
  OBVIOUS
<1>2. ImageOf(minus, S) # {} /\ \A y \in ImageOf(minus, S) : y \in Int
  BY <1>1 DEF ImageOf
<1> HIDE DEF minus
<1>3. IsFiniteSet(ImageOf(minus, S))
  BY FiniteImage
<1>4. PICK y \in ImageOf(minus, S) : \A z \in ImageOf(minus, S) : z <= y
  BY <1>2, <1>3, HasGreatest
<1>5. PICK n \in S : y = minus[n]
  BY <1>4 DEF ImageOf
<1>6. \A m \in S : n <= m
  <2> SUFFICES ASSUME NEW m \in S PROVE n <= m
    OBVIOUS
  <2>1. minus[m] <= minus[n]
    BY <1>4, <1>5 DEF ImageOf
  <2> QED
    BY <1>1, <2>1
<1>7. Min(S) = n
  BY <1>6, MinIsFirst
<1> QED
  BY <1>6, <1>7
=============================================================================
