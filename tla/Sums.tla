-------------------------------- MODULE Sums --------------------------------
(***************************************************************************)
(* What the proofs need of the sums the components take over finite sets   *)
(* of rows, events and reservations.  SumFunctionOnSet is defined by       *)
(* recursion over the subsets of its set, picking one element at a time;   *)
(* the lemmas show that the recursion has a solution on a finite set and   *)
(* that the order of picking does not matter.  Induction is stated over    *)
(* sets of naturals, as the provers take no operator as a parameter.       *)
(***************************************************************************)
EXTENDS Integers, FiniteSets, Functions, FiniteSetTheorems,
        WellFoundedInduction, TLAPS

\* A set of naturals that is not empty has a least element.
LEMMA LeastNatural ==
    ASSUME NEW B, B \subseteq Nat, B # {}
    PROVE  \E n \in B : \A m \in B : n <= m
<1>1. PICK n \in B : \A m \in B : ~(<<m, n>> \in OpToRel(<, Nat))
  BY WFMin, NatLessThanWellFounded
<1>2. ASSUME NEW m \in B PROVE n <= m
  <2>1. m \in Nat /\ n \in Nat
    OBVIOUS
  <2>2. ~(m < n)
    BY <2>1, <1>1 DEF OpToRel
  <2> QED BY <2>1, <2>2
<1> QED BY <1>2

\* Induction, over the set of naturals for which something holds.
LEMMA Induction ==
    ASSUME NEW G, 0 \in G, \A n \in Nat : n \in G => n + 1 \in G
    PROVE  \A n \in Nat : n \in G
<1> DEFINE B == {n \in Nat : n \notin G}
<1> SUFFICES ASSUME B # {} PROVE FALSE
  OBVIOUS
<1>1. B \subseteq Nat
  OBVIOUS
<1>2. PICK n \in B : \A m \in B : n <= m
  <2> HIDE DEF B
  <2> QED BY <1>1, LeastNatural
<1>3. n \in Nat /\ n # 0 /\ n \notin G
  OBVIOUS
<1>4. n - 1 \in Nat /\ ~(n <= n - 1) /\ n = (n - 1) + 1
  BY <1>3
<1>5. n - 1 \in G
  BY <1>2, <1>4
<1> QED BY <1>3, <1>4, <1>5

-----------------------------------------------------------------------------
(* The recursion.                                                          *)

\* The element a sum takes out of a set next.
Pick(s) == CHOOSE x \in s : TRUE

\* What remains to be summed.
Rest(s) == s \ {Pick(s)}

\* g sums f over every set of D.
Sums(g, f, D) ==
    g = [s \in D |-> IF s = {} THEN 0 ELSE f[Pick(s)] + g[s \ {Pick(s)}]]

\* g sums f over every subset of S.
Solves(g, f, S) == Sums(g, f, SUBSET S)

\* A sum is the recursion's value at the whole set.
LEMMA Unfold ==
    ASSUME NEW f, NEW S
    PROVE  SumFunctionOnSet(f, S) = (CHOOSE g : Solves(g, f, S))[S]
  BY DEF SumFunctionOnSet, FoldFunctionOnSet, MapThenFoldSet, Sums, Solves, Pick

\* A set that is not empty shrinks by the element picked.
LEMMA RestSmaller ==
    ASSUME NEW s, IsFiniteSet(s), s # {}
    PROVE  /\ Pick(s) \in s
           /\ Rest(s) \subseteq s /\ IsFiniteSet(Rest(s))
           /\ Cardinality(s) \in Nat /\ Cardinality(Rest(s)) \in Nat
           /\ Cardinality(s) = Cardinality(Rest(s)) + 1
<1>1. Pick(s) \in s
  BY DEF Pick
<1>2. /\ IsFiniteSet(Rest(s))
      /\ Cardinality(Rest(s)) = Cardinality(s) - 1
  BY <1>1, FS_RemoveElement DEF Rest
<1>3. Cardinality(s) \in Nat /\ Cardinality(Rest(s)) \in Nat
  BY <1>2, FS_CardinalityType
<1> QED BY <1>1, <1>2, <1>3 DEF Rest

\* The recursion has a solution on the subsets of a finite set.
LEMMA Solvable ==
    ASSUME NEW f, NEW S, IsFiniteSet(S)
    PROVE  \E g : Solves(g, f, S)
<1> DEFINE Low(n) == {s \in SUBSET S : Cardinality(s) <= n}
           G == {n \in Nat : \E g : Sums(g, f, Low(n))}
<1>1. \A s \in SUBSET S : IsFiniteSet(s) /\ Cardinality(s) \in Nat
  BY FS_Subset, FS_CardinalityType
<1>2. 0 \in G
  <2> DEFINE g == [s \in Low(0) |-> 0]
  <2>1. \A s \in Low(0) : s = {}
    BY <1>1, FS_EmptySet
  <2>2. Sums(g, f, Low(0))
    BY <2>1 DEF Sums
  <2> QED BY <2>2
<1>3. ASSUME NEW n \in Nat, n \in G PROVE n + 1 \in G
  <2>1. PICK g : Sums(g, f, Low(n))
    BY <1>3
  <2> DEFINE h == [s \in Low(n + 1) |->
                     IF s = {} THEN 0 ELSE f[Pick(s)] + g[Rest(s)]]
  <2>2. \A s \in Low(n) : s \in Low(n + 1) /\ h[s] = g[s]
    <3>1. \A s \in Low(n) : s \in Low(n + 1)
      BY <1>1
    <3>2. \A s \in Low(n) :
             g[s] = IF s = {} THEN 0 ELSE f[Pick(s)] + g[Rest(s)]
      <4> HIDE DEF Low
      <4> QED BY <2>1 DEF Sums, Rest
    <3>3. \A s \in Low(n + 1) :
             h[s] = IF s = {} THEN 0 ELSE f[Pick(s)] + g[Rest(s)]
      OBVIOUS
    <3> HIDE DEF Low, h
    <3> QED BY <3>1, <3>2, <3>3
  <2>3. \A s \in Low(n + 1) : s # {} => Rest(s) \in Low(n)
    BY <1>1, RestSmaller
  <2>4. Sums(h, f, Low(n + 1))
    <3>1. \A s \in Low(n + 1) : s # {} => h[Rest(s)] = g[Rest(s)]
      BY <2>2, <2>3
    <3>2. h = [s \in Low(n + 1) |->
                 IF s = {} THEN 0 ELSE f[Pick(s)] + h[Rest(s)]]
      <4> HIDE DEF Low
      <4> QED BY <3>1
    <3> QED BY <3>2 DEF Sums, Rest
  <2> HIDE DEF h, Low
  <2> QED BY <2>4
<1>4. \A n \in Nat : n \in G
  <2> HIDE DEF G
  <2> QED BY <1>2, <1>3, Induction
<1>5. Cardinality(S) \in G
  BY <1>1, <1>4
<1>6. Low(Cardinality(S)) = SUBSET S
  BY <1>1, FS_Subset
<1> HIDE DEF Low
<1> QED BY <1>5, <1>6 DEF Solves

\* Two solutions agree wherever both are defined.
LEMMA Agree ==
    ASSUME NEW f, NEW S, IsFiniteSet(S), NEW T, T \subseteq S
    PROVE  \A g, h : Solves(g, f, S) /\ Solves(h, f, T)
                       => \A s \in SUBSET T : g[s] = h[s]
<1> SUFFICES ASSUME NEW g, Solves(g, f, S),
                    NEW h, Solves(h, f, T)
             PROVE  \A s \in SUBSET T : g[s] = h[s]
  OBVIOUS
<1> DEFINE G == {n \in Nat : \A s \in SUBSET T :
                                Cardinality(s) = n => g[s] = h[s]}
<1>1. \A s \in SUBSET T : IsFiniteSet(s) /\ Cardinality(s) \in Nat
  BY FS_Subset, FS_CardinalityType
<1>2. g[{}] = 0 /\ h[{}] = 0
  BY DEF Solves, Sums
<1>3. 0 \in G
  BY <1>1, <1>2, FS_EmptySet
<1>4. ASSUME NEW n \in Nat, n \in G PROVE n + 1 \in G
  <2> SUFFICES ASSUME NEW s \in SUBSET T, Cardinality(s) = n + 1
               PROVE  g[s] = h[s]
    OBVIOUS
  <2>1. s # {} /\ IsFiniteSet(s)
    BY <1>1, FS_EmptySet
  <2>2. Rest(s) \in SUBSET T /\ Cardinality(Rest(s)) = n
    BY <2>1, RestSmaller
  <2>3. g[Rest(s)] = h[Rest(s)]
    BY <1>4, <2>2
  <2>4. g[s] = f[Pick(s)] + g[Rest(s)] /\ h[s] = f[Pick(s)] + h[Rest(s)]
    BY <2>1 DEF Solves, Sums, Rest
  <2> QED BY <2>3, <2>4
<1>5. \A n \in Nat : n \in G
  <2> HIDE DEF G
  <2> QED BY <1>3, <1>4, Induction
<1> QED BY <1>1, <1>5

-----------------------------------------------------------------------------
(* Sums.                                                                   *)

\* A sum over nothing is nothing.
LEMMA SumEmpty == ASSUME NEW f PROVE SumFunctionOnSet(f, {}) = 0
<1>1. PICK g : Solves(g, f, {})
  BY Solvable, FS_EmptySet
<1>2. Solves((CHOOSE h : Solves(h, f, {})), f, {})
  BY <1>1
<1> QED BY <1>2, Unfold DEF Solves, Sums

\* A sum is its picked element and the sum of the rest.
LEMMA SumPick ==
    ASSUME NEW f, NEW S, IsFiniteSet(S), S # {}
    PROVE  SumFunctionOnSet(f, S)
             = f[Pick(S)] + SumFunctionOnSet(f, Rest(S))
<1> DEFINE g == CHOOSE h : Solves(h, f, S)
           k == CHOOSE h : Solves(h, f, Rest(S))
<1>1. Rest(S) \in SUBSET S /\ IsFiniteSet(Rest(S))
  BY RestSmaller
<1>2. Solves(g, f, S)
  BY Solvable
<1>3. Solves(k, f, Rest(S))
  BY <1>1, Solvable
<1>4. SumFunctionOnSet(f, S) = g[S]
  BY Unfold
<1>5. SumFunctionOnSet(f, Rest(S)) = k[Rest(S)]
  BY Unfold
<1> HIDE DEF g, k
<1>6. g[S] = f[Pick(S)] + g[Rest(S)]
  BY <1>2 DEF Solves, Sums, Rest
<1>7. g[Rest(S)] = k[Rest(S)]
  BY <1>1, <1>2, <1>3, Agree
<1> QED BY <1>4, <1>5, <1>6, <1>7

\* A set of numbers that has 0 and the sum of any two of its members has every
\* sum of its members.
LEMMA SumClosed ==
    ASSUME NEW f, NEW S, IsFiniteSet(S), NEW D, 0 \in D,
           \A a, b \in D : a + b \in D, \A x \in S : f[x] \in D
    PROVE  SumFunctionOnSet(f, S) \in D
<1> DEFINE G == {n \in Nat : \A T \in SUBSET S :
                    Cardinality(T) = n => SumFunctionOnSet(f, T) \in D}
<1>1. \A T \in SUBSET S : IsFiniteSet(T) /\ Cardinality(T) \in Nat
  BY FS_Subset, FS_CardinalityType
<1>2. 0 \in G
  BY <1>1, SumEmpty, FS_EmptySet
<1>3. ASSUME NEW n \in Nat, n \in G PROVE n + 1 \in G
  <2> SUFFICES ASSUME NEW T \in SUBSET S, Cardinality(T) = n + 1
               PROVE  SumFunctionOnSet(f, T) \in D
    OBVIOUS
  <2>1. T # {} /\ IsFiniteSet(T)
    BY <1>1, FS_EmptySet
  <2>2. /\ Rest(T) \in SUBSET S /\ Cardinality(Rest(T)) = n
        /\ Pick(T) \in S
    BY <2>1, RestSmaller
  <2>3. SumFunctionOnSet(f, Rest(T)) \in D /\ f[Pick(T)] \in D
    BY <1>3, <2>2
  <2> QED BY <2>1, <2>3, SumPick
<1>4. \A n \in Nat : n \in G
  <2> HIDE DEF G
  <2> QED BY <1>2, <1>3, Induction
<1> QED BY <1>1, <1>4

\* A sum of integers is an integer, one of naturals a natural.
LEMMA SumType ==
    ASSUME NEW f, NEW S, IsFiniteSet(S), NEW D \in {Nat, Int},
           \A x \in S : f[x] \in D
    PROVE  SumFunctionOnSet(f, S) \in D
<1>1. 0 \in D /\ \A a, b \in D : a + b \in D
  OBVIOUS
<1> QED BY <1>1, SumClosed

\* Any element may be the one taken out.
LEMMA SumSplit ==
    ASSUME NEW f, NEW S, IsFiniteSet(S), \A x \in S : f[x] \in Int,
           NEW e \in S
    PROVE  SumFunctionOnSet(f, S) = f[e] + SumFunctionOnSet(f, S \ {e})
<1> DEFINE Split(T, x) == SumFunctionOnSet(f, T)
                            = f[x] + SumFunctionOnSet(f, T \ {x})
           G == {n \in Nat : \A T \in SUBSET S :
                    Cardinality(T) = n => \A x \in T : Split(T, x)}
<1>1. \A T \in SUBSET S : IsFiniteSet(T) /\ Cardinality(T) \in Nat
  BY FS_Subset, FS_CardinalityType
<1>2. 0 \in G
  BY <1>1, FS_EmptySet
<1>3. ASSUME NEW n \in Nat, n \in G PROVE n + 1 \in G
  <2> SUFFICES ASSUME NEW T \in SUBSET S, Cardinality(T) = n + 1, NEW x \in T
               PROVE  Split(T, x)
    OBVIOUS
  <2>1. T # {} /\ IsFiniteSet(T)
    BY <1>1
  <2>2. Split(T, Pick(T))
    BY <2>1, SumPick DEF Rest
  <2> SUFFICES ASSUME x # Pick(T) PROVE Split(T, x)
    BY <2>2
  <2> DEFINE p == Pick(T)
             Both == (T \ {p}) \ {x}
  <2>3. p \in T
    BY <2>1, RestSmaller
  <2>4. /\ T \ {p} \in SUBSET S /\ Cardinality(T \ {p}) = n /\ x \in T \ {p}
        /\ T \ {x} \in SUBSET S /\ Cardinality(T \ {x}) = n /\ p \in T \ {x}
    <3>1. \A y \in T : Cardinality(T \ {y}) = Cardinality(T) - 1
      BY <2>1, FS_RemoveElement
    <3>2. \A y \in T : Cardinality(T \ {y}) = n
      BY <3>1
    <3> QED BY <2>3, <3>2
  <2>5. Split(T \ {p}, x) /\ Split(T \ {x}, p)
    BY <1>3, <2>4
  <2>6. Both = (T \ {x}) \ {p}
    OBVIOUS
  <2>7. f[p] \in Int /\ f[x] \in Int /\ SumFunctionOnSet(f, Both) \in Int
    <3>1. Both \in SUBSET S
      OBVIOUS
    <3>2. IsFiniteSet(Both)
      BY <1>1, <3>1
    <3>3. \A y \in Both : f[y] \in Int
      BY <3>1
    <3> HIDE DEF Both
    <3>4. SumFunctionOnSet(f, Both) \in Int
      BY <3>2, <3>3, SumType
    <3> QED BY <2>3, <3>4
  <2> HIDE DEF p
  <2>8. SumFunctionOnSet(f, T) = f[p] + (f[x] + SumFunctionOnSet(f, Both))
    BY <2>2, <2>5 DEF p
  <2>9. SumFunctionOnSet(f, T \ {x}) = f[p] + SumFunctionOnSet(f, Both)
    BY <2>5, <2>6
  <2> HIDE DEF Both
  <2> QED BY <2>7, <2>8, <2>9
<1>4. \A n \in Nat : n \in G
  <2> HIDE DEF G
  <2> QED BY <1>2, <1>3, Induction
<1>5. Cardinality(S) \in G /\ S \in SUBSET S
  BY <1>1, <1>4
<1> QED BY <1>5

\* One more element is one more term.
LEMMA SumAdd ==
    ASSUME NEW f, NEW S, IsFiniteSet(S), \A x \in S : f[x] \in Int,
           NEW e, e \notin S, f[e] \in Int,
           NEW T, T = S \cup {e}
    PROVE  SumFunctionOnSet(f, T) = f[e] + SumFunctionOnSet(f, S)
<1>1. IsFiniteSet(T) /\ T \ {e} = S
  BY FS_AddElement
<1>2. \A x \in T : f[x] \in Int
  OBVIOUS
<1> QED BY <1>1, <1>2, SumSplit

\* Terms that are no greater sum to no more.
LEMMA SumGrows ==
    ASSUME NEW f, NEW h, NEW S, IsFiniteSet(S),
           \A x \in S : f[x] \in Int /\ h[x] \in Int /\ f[x] <= h[x]
    PROVE  SumFunctionOnSet(f, S) <= SumFunctionOnSet(h, S)
<1> DEFINE G == {n \in Nat : \A T \in SUBSET S : Cardinality(T) = n =>
                    SumFunctionOnSet(f, T) <= SumFunctionOnSet(h, T)}
<1>1. \A T \in SUBSET S : IsFiniteSet(T) /\ Cardinality(T) \in Nat
  BY FS_Subset, FS_CardinalityType
<1>2. 0 \in G
  BY <1>1, SumEmpty, FS_EmptySet
<1>3. ASSUME NEW n \in Nat, n \in G PROVE n + 1 \in G
  <2> SUFFICES ASSUME NEW T \in SUBSET S, Cardinality(T) = n + 1
               PROVE  SumFunctionOnSet(f, T) <= SumFunctionOnSet(h, T)
    OBVIOUS
  <2>1. T # {} /\ IsFiniteSet(T)
    BY <1>1, FS_EmptySet
  <2>2. /\ Rest(T) \in SUBSET S /\ Cardinality(Rest(T)) = n
        /\ Pick(T) \in S
    BY <2>1, RestSmaller
  <2>3. SumFunctionOnSet(f, Rest(T)) <= SumFunctionOnSet(h, Rest(T))
    BY <1>3, <2>2
  <2>4. /\ SumFunctionOnSet(f, Rest(T)) \in Int
        /\ SumFunctionOnSet(h, Rest(T)) \in Int
    BY <1>1, <2>2, SumType
  <2>5. /\ SumFunctionOnSet(f, T) = f[Pick(T)] + SumFunctionOnSet(f, Rest(T))
        /\ SumFunctionOnSet(h, T) = h[Pick(T)] + SumFunctionOnSet(h, Rest(T))
    BY <2>1, SumPick
  <2> QED BY <2>2, <2>3, <2>4, <2>5
<1>4. \A n \in Nat : n \in G
  <2> HIDE DEF G
  <2> QED BY <1>2, <1>3, Induction
<1> QED BY <1>1, <1>4

\* Equal terms have equal sums.
LEMMA SumSame ==
    ASSUME NEW f, NEW h, NEW S, IsFiniteSet(S),
           \A x \in S : f[x] \in Int /\ h[x] = f[x]
    PROVE  SumFunctionOnSet(h, S) = SumFunctionOnSet(f, S)
<1>1. /\ SumFunctionOnSet(f, S) <= SumFunctionOnSet(h, S)
      /\ SumFunctionOnSet(h, S) <= SumFunctionOnSet(f, S)
  BY SumGrows
<1>2. /\ SumFunctionOnSet(f, S) \in Int
      /\ SumFunctionOnSet(h, S) \in Int
  BY SumType
<1> QED BY <1>1, <1>2

\* Fewer naturals sum to no more: the terms left out may be counted as zero.
LEMMA SumSubset ==
    ASSUME NEW f, NEW S, IsFiniteSet(S), \A x \in S : f[x] \in Nat,
           NEW T \in SUBSET S
    PROVE  SumFunctionOnSet(f, T) <= SumFunctionOnSet(f, S)
<1> DEFINE Over(n) == \A U \in SUBSET S :
                         Cardinality(U) = n => SumFunctionOnSet(f, U \cap T)
                                                 <= SumFunctionOnSet(f, U)
           G == {n \in Nat : Over(n)}
<1>1. \A U \in SUBSET S : IsFiniteSet(U) /\ Cardinality(U) \in Nat
  BY FS_Subset, FS_CardinalityType
<1>2. 0 \in G
  BY <1>1, SumEmpty, FS_EmptySet
<1>3. ASSUME NEW n \in Nat, n \in G PROVE n + 1 \in G
  <2> SUFFICES ASSUME NEW U \in SUBSET S, Cardinality(U) = n + 1
               PROVE  SumFunctionOnSet(f, U \cap T) <= SumFunctionOnSet(f, U)
    OBVIOUS
  <2>1. U # {} /\ IsFiniteSet(U)
    BY <1>1, FS_EmptySet
  <2> DEFINE p == Pick(U)  R == Rest(U)
  <2>2. /\ R \in SUBSET S /\ Cardinality(R) = n /\ p \in U
        /\ R = U \ {p}
    <3>1. R \subseteq U /\ Cardinality(R) = n /\ p \in U
      BY <2>1, RestSmaller
    <3> QED BY <3>1 DEF Rest
  <2>3. SumFunctionOnSet(f, R \cap T) <= SumFunctionOnSet(f, R)
    BY <1>3, <2>2
  <2>4. SumFunctionOnSet(f, U) = f[p] + SumFunctionOnSet(f, R)
    BY <2>1, SumPick
  <2> HIDE DEF p, R
  <2>5. R \cap T \in SUBSET S /\ U \cap T \in SUBSET S
    BY <2>2
  <2>6. /\ SumFunctionOnSet(f, R) \in Nat
        /\ SumFunctionOnSet(f, R \cap T) \in Nat
        /\ f[p] \in Nat
    <3>1. \A V \in SUBSET S : SumFunctionOnSet(f, V) \in Nat
      BY <1>1, SumType
    <3> QED BY <2>2, <2>5, <3>1
  <2>7. SumFunctionOnSet(f, U \cap T) \in
           {SumFunctionOnSet(f, R \cap T), f[p] + SumFunctionOnSet(f, R \cap T)}
    <3>1. CASE p \in T
      <4>1. (U \cap T) \ {p} = R \cap T /\ p \in U \cap T
        BY <2>2, <3>1
      <4>2. \A x \in U \cap T : f[x] \in Int
        OBVIOUS
      <4>3. IsFiniteSet(U \cap T)
        BY <1>1, <2>5
      <4> QED BY <4>1, <4>2, <4>3, SumSplit
    <3>2. CASE p \notin T
      <4>1. U \cap T = R \cap T
        BY <2>2, <3>2
      <4> QED BY <4>1
    <3> QED BY <3>1, <3>2
  <2> QED BY <2>3, <2>4, <2>6, <2>7
<1>4. \A n \in Nat : n \in G
  <2> HIDE DEF G
  <2> QED BY <1>2, <1>3, Induction
<1>5. Over(Cardinality(S)) /\ S \in SUBSET S /\ S \cap T = T
  BY <1>1, <1>4
<1> QED BY <1>5

\* Zero terms may be left out.
LEMMA SumZeros ==
    ASSUME NEW f, NEW S, IsFiniteSet(S), \A x \in S : f[x] = 0
    PROVE  SumFunctionOnSet(f, S) = 0
<1> DEFINE G == {n \in Nat : \A T \in SUBSET S :
                    Cardinality(T) = n => SumFunctionOnSet(f, T) = 0}
<1>1. \A T \in SUBSET S : IsFiniteSet(T) /\ Cardinality(T) \in Nat
  BY FS_Subset, FS_CardinalityType
<1>2. 0 \in G
  BY <1>1, SumEmpty, FS_EmptySet
<1>3. ASSUME NEW n \in Nat, n \in G PROVE n + 1 \in G
  <2> SUFFICES ASSUME NEW T \in SUBSET S, Cardinality(T) = n + 1
               PROVE  SumFunctionOnSet(f, T) = 0
    OBVIOUS
  <2>1. T # {} /\ IsFiniteSet(T)
    BY <1>1, FS_EmptySet
  <2>2. /\ Rest(T) \in SUBSET S /\ Cardinality(Rest(T)) = n
        /\ Pick(T) \in S
    BY <2>1, RestSmaller
  <2>3. SumFunctionOnSet(f, Rest(T)) = 0 /\ f[Pick(T)] = 0
    BY <1>3, <2>2
  <2> QED BY <2>1, <2>3, SumPick
<1>4. \A n \in Nat : n \in G
  <2> HIDE DEF G
  <2> QED BY <1>2, <1>3, Induction
<1> QED BY <1>1, <1>4

-----------------------------------------------------------------------------
(* Sums over one fixed set, whatever part of it counts.                    *)

\* f where it counts, nothing elsewhere.
Padded(f, S, R) == [x \in R |-> IF x \in S THEN f[x] ELSE 0]

\* What does not count may be summed as nothing.
LEMMA SumPadded ==
    ASSUME NEW R, IsFiniteSet(R), NEW S \in SUBSET R, NEW f,
           \A x \in S : f[x] \in Int
    PROVE  SumFunctionOnSet(f, S) = SumFunctionOnSet(Padded(f, S, R), R)
<1> DEFINE h == Padded(f, S, R)
           Over(U) == SumFunctionOnSet(f, U \cap S) = SumFunctionOnSet(h, U)
           G == {n \in Nat : \A U \in SUBSET R : Cardinality(U) = n => Over(U)}
<1>1. \A U \in SUBSET R : IsFiniteSet(U) /\ Cardinality(U) \in Nat
  BY FS_Subset, FS_CardinalityType
<1>2. \A x \in R : h[x] \in Int /\ (h[x] = IF x \in S THEN f[x] ELSE 0)
  BY DEF Padded
<1> HIDE DEF h
<1>3. 0 \in G
  BY <1>1, SumEmpty, FS_EmptySet
<1>4. ASSUME NEW n \in Nat, n \in G PROVE n + 1 \in G
  <2> SUFFICES ASSUME NEW U \in SUBSET R, Cardinality(U) = n + 1
               PROVE  Over(U)
    OBVIOUS
  <2>1. U # {} /\ IsFiniteSet(U)
    BY <1>1, FS_EmptySet
  <2> DEFINE p == Pick(U)  V == Rest(U)
  <2>2. /\ V \in SUBSET R /\ Cardinality(V) = n /\ p \in U
        /\ V = U \ {p}
    <3>1. V \subseteq U /\ Cardinality(V) = n /\ p \in U
      BY <2>1, RestSmaller
    <3> QED BY <3>1 DEF Rest
  <2>3. Over(V)
    BY <1>4, <2>2
  <2>4. SumFunctionOnSet(h, U) = h[p] + SumFunctionOnSet(h, V)
    BY <2>1, SumPick
  <2> HIDE DEF p, V
  <2>5. SumFunctionOnSet(h, V) \in Int
    BY <1>1, <1>2, <2>2, SumType
  <2>6. SumFunctionOnSet(f, U \cap S) = h[p] + SumFunctionOnSet(f, V \cap S)
    <3>1. CASE p \in S
      <4>1. (U \cap S) \ {p} = V \cap S /\ p \in U \cap S
        BY <2>2, <3>1
      <4>2. \A x \in U \cap S : f[x] \in Int
        OBVIOUS
      <4>3. IsFiniteSet(U \cap S)
        BY <1>1
      <4>4. h[p] = f[p]
        BY <1>2, <2>2, <3>1
      <4> QED BY <4>1, <4>2, <4>3, <4>4, SumSplit
    <3>2. CASE p \notin S
      <4>1. U \cap S = V \cap S
        BY <2>2, <3>2
      <4>2. h[p] = 0
        BY <1>2, <2>2, <3>2
      <4> QED BY <2>3, <2>5, <4>1, <4>2
    <3> QED BY <3>1, <3>2
  <2> QED BY <2>3, <2>4, <2>6
<1>5. \A n \in Nat : n \in G
  <2> HIDE DEF G
  <2> QED BY <1>3, <1>4, Induction
<1>6. Over(R) /\ R \cap S = S
  BY <1>1, <1>5
<1> QED BY <1>6 DEF h

\* A set's members counted one by one.
LEMMA SumOnes ==
    ASSUME NEW R, IsFiniteSet(R), NEW f \in [R -> {0, 1}]
    PROVE  Cardinality({x \in R : f[x] = 1}) = SumFunctionOnSet(f, R)
<1> DEFINE Of(U) == {x \in U : f[x] = 1}
           Over(U) == Cardinality(Of(U)) = SumFunctionOnSet(f, U)
           G == {n \in Nat : \A U \in SUBSET R : Cardinality(U) = n => Over(U)}
<1>1. \A U \in SUBSET R : IsFiniteSet(U) /\ Cardinality(U) \in Nat
  BY FS_Subset, FS_CardinalityType
<1>2. 0 \in G
  BY <1>1, SumEmpty, FS_EmptySet
<1>3. ASSUME NEW n \in Nat, n \in G PROVE n + 1 \in G
  <2> SUFFICES ASSUME NEW U \in SUBSET R, Cardinality(U) = n + 1
               PROVE  Over(U)
    OBVIOUS
  <2>1. U # {} /\ IsFiniteSet(U)
    BY <1>1, FS_EmptySet
  <2> DEFINE p == Pick(U)  V == Rest(U)
  <2>2. /\ V \in SUBSET R /\ Cardinality(V) = n /\ p \in U
        /\ V = U \ {p}
    <3>1. V \subseteq U /\ Cardinality(V) = n /\ p \in U
      BY <2>1, RestSmaller
    <3> QED BY <3>1 DEF Rest
  <2>3. Over(V)
    BY <1>3, <2>2
  <2>4. SumFunctionOnSet(f, U) = f[p] + SumFunctionOnSet(f, V)
    BY <2>1, SumPick
  <2> HIDE DEF p, V
  <2>5. IsFiniteSet(Of(V)) /\ p \notin Of(V)
    <3>1. Of(V) \subseteq R
      BY <2>2
    <3> QED BY <1>1, <2>2, <3>1
  <2>6. CASE f[p] = 1
    <3>1. Of(U) = Of(V) \cup {p}
      BY <2>2, <2>6
    <3>2. Cardinality(Of(U)) = Cardinality(Of(V)) + 1
      BY <2>5, <3>1, FS_AddElement
    <3>3. Cardinality(Of(V)) \in Nat
      BY <2>5, FS_CardinalityType
    <3> QED BY <2>3, <2>4, <2>6, <3>2, <3>3
  <2>7. CASE f[p] = 0
    <3>1. Of(U) = Of(V)
      BY <2>2, <2>7
    <3>2. Cardinality(Of(V)) \in Nat
      BY <2>5, FS_CardinalityType
    <3> QED BY <2>3, <2>4, <2>7, <3>1, <3>2
  <2> QED BY <2>2, <2>6, <2>7
<1>4. \A n \in Nat : n \in G
  <2> HIDE DEF G
  <2> QED BY <1>2, <1>3, Induction
<1>5. Over(R)
  BY <1>1, <1>4
<1> QED BY <1>5

\* A sum of sums.
LEMMA SumPlus ==
    ASSUME NEW R, IsFiniteSet(R), NEW f \in [R -> Int], NEW g \in [R -> Int],
           NEW h, \A x \in R : h[x] = f[x] + g[x]
    PROVE  SumFunctionOnSet(h, R)
             = SumFunctionOnSet(f, R) + SumFunctionOnSet(g, R)
<1> DEFINE Over(U) == SumFunctionOnSet(h, U)
                        = SumFunctionOnSet(f, U) + SumFunctionOnSet(g, U)
           G == {n \in Nat : \A U \in SUBSET R : Cardinality(U) = n => Over(U)}
<1>1. \A U \in SUBSET R : IsFiniteSet(U) /\ Cardinality(U) \in Nat
  BY FS_Subset, FS_CardinalityType
<1>2. 0 \in G
  <2>1. /\ SumFunctionOnSet(f, {}) = 0
        /\ SumFunctionOnSet(h, {}) = 0
        /\ SumFunctionOnSet(g, {}) = 0
    BY SumEmpty
  <2>2. Over({})
    BY <2>1
  <2>3. \A U \in SUBSET R : Cardinality(U) = 0 => U = {}
    BY <1>1, FS_EmptySet
  <2> QED BY <2>2, <2>3
<1>3. ASSUME NEW n \in Nat, n \in G PROVE n + 1 \in G
  <2> SUFFICES ASSUME NEW U \in SUBSET R, Cardinality(U) = n + 1
               PROVE  Over(U)
    OBVIOUS
  <2>1. U # {} /\ IsFiniteSet(U)
    BY <1>1, FS_EmptySet
  <2>2. /\ Rest(U) \in SUBSET R /\ Cardinality(Rest(U)) = n
        /\ Pick(U) \in R
    <3>1. /\ Rest(U) \subseteq U /\ Cardinality(Rest(U)) = n
          /\ Pick(U) \in U
      BY <2>1, RestSmaller
    <3> QED BY <3>1
  <2>3. Over(Rest(U))
    BY <1>3, <2>2
  <2>4. /\ SumFunctionOnSet(f, Rest(U)) \in Int
        /\ SumFunctionOnSet(g, Rest(U)) \in Int
    BY <1>1, <2>2, SumType
  <2>5. /\ SumFunctionOnSet(f, U) = f[Pick(U)] + SumFunctionOnSet(f, Rest(U))
        /\ SumFunctionOnSet(g, U) = g[Pick(U)] + SumFunctionOnSet(g, Rest(U))
        /\ SumFunctionOnSet(h, U) = h[Pick(U)] + SumFunctionOnSet(h, Rest(U))
    BY <2>1, SumPick
  <2>6. f[Pick(U)] \in Int /\ g[Pick(U)] \in Int
    BY <2>2
  <2> QED BY <2>2, <2>3, <2>4, <2>5, <2>6
<1>4. \A n \in Nat : n \in G
  <2> HIDE DEF G
  <2> QED BY <1>2, <1>3, Induction
<1>5. Over(R)
  BY <1>1, <1>4
<1> QED BY <1>5

\* A sum of multiples.
LEMMA SumTimes ==
    ASSUME NEW R, IsFiniteSet(R), NEW f \in [R -> Int], NEW c \in Int,
           NEW h, \A x \in R : h[x] = c * f[x]
    PROVE  SumFunctionOnSet(h, R) = c * SumFunctionOnSet(f, R)
<1> DEFINE Over(U) == SumFunctionOnSet(h, U) = c * SumFunctionOnSet(f, U)
           G == {n \in Nat : \A U \in SUBSET R : Cardinality(U) = n => Over(U)}
<1>1. \A U \in SUBSET R : IsFiniteSet(U) /\ Cardinality(U) \in Nat
  BY FS_Subset, FS_CardinalityType
<1>2. 0 \in G
  <2>1. /\ SumFunctionOnSet(f, {}) = 0
        /\ SumFunctionOnSet(h, {}) = 0
    BY SumEmpty
  <2>2. Over({})
    BY <2>1
  <2>3. \A U \in SUBSET R : Cardinality(U) = 0 => U = {}
    BY <1>1, FS_EmptySet
  <2> QED BY <2>2, <2>3
<1>3. ASSUME NEW n \in Nat, n \in G PROVE n + 1 \in G
  <2> SUFFICES ASSUME NEW U \in SUBSET R, Cardinality(U) = n + 1
               PROVE  Over(U)
    OBVIOUS
  <2>1. U # {} /\ IsFiniteSet(U)
    BY <1>1, FS_EmptySet
  <2>2. /\ Rest(U) \in SUBSET R /\ Cardinality(Rest(U)) = n
        /\ Pick(U) \in R
    <3>1. /\ Rest(U) \subseteq U /\ Cardinality(Rest(U)) = n
          /\ Pick(U) \in U
      BY <2>1, RestSmaller
    <3> QED BY <3>1
  <2>3. Over(Rest(U))
    BY <1>3, <2>2
  <2>4. SumFunctionOnSet(f, Rest(U)) \in Int /\ f[Pick(U)] \in Int
    BY <1>1, <2>2, SumType
  <2>5. /\ SumFunctionOnSet(f, U) = f[Pick(U)] + SumFunctionOnSet(f, Rest(U))
        /\ SumFunctionOnSet(h, U) = h[Pick(U)] + SumFunctionOnSet(h, Rest(U))
    BY <2>1, SumPick
  <2>6. \A a, b \in Int : c * (a + b) = c * a + c * b
    OBVIOUS
  <2> QED BY <2>2, <2>3, <2>4, <2>5, <2>6
<1>4. \A n \in Nat : n \in G
  <2> HIDE DEF G
  <2> QED BY <1>2, <1>3, Induction
<1>5. Over(R)
  BY <1>1, <1>4
<1> QED BY <1>5

\* Of two sums that differ in one term, so much is the difference.
LEMMA SumChange ==
    ASSUME NEW R, IsFiniteSet(R), NEW f \in [R -> Int], NEW g \in [R -> Int],
           NEW e \in R, \A x \in R : x # e => g[x] = f[x]
    PROVE  SumFunctionOnSet(g, R) = SumFunctionOnSet(f, R) + (g[e] - f[e])
<1> DEFINE T == R \ {e}
<1>1. IsFiniteSet(T)
  BY FS_RemoveElement
<1>2. /\ SumFunctionOnSet(f, R) = f[e] + SumFunctionOnSet(f, T)
      /\ SumFunctionOnSet(g, R) = g[e] + SumFunctionOnSet(g, T)
  BY SumSplit
<1>3. \A x \in T : f[x] \in Int /\ g[x] = f[x]
  OBVIOUS
<1> HIDE DEF T
<1>4. SumFunctionOnSet(g, T) = SumFunctionOnSet(f, T)
  BY <1>1, <1>3, SumSame
<1>5. SumFunctionOnSet(f, T) \in Int
  BY <1>1, <1>3, SumType
<1> QED BY <1>2, <1>4, <1>5

\* A sum over a function's whole domain, as one over a fixed set.
LEMMA SumWhole ==
    ASSUME NEW R, IsFiniteSet(R), NEW g, DOMAIN g \subseteq R,
           \A x \in DOMAIN g : g[x] \in Int,
           NEW h, h = Padded(g, DOMAIN g, R)
    PROVE  SumFunction(g) = SumFunctionOnSet(h, R)
<1> DEFINE D == DOMAIN g
<1>1. SumFunction(g) = SumFunctionOnSet(g, D)
  BY DEF SumFunction
<1>2. D \in SUBSET R /\ \A x \in D : g[x] \in Int
  OBVIOUS
<1>3. h = Padded(g, D, R)
  OBVIOUS
<1> HIDE DEF D
<1> QED BY <1>1, <1>2, <1>3, SumPadded

\* Of naturals the whole sum is one.
LEMMA SumWholeType ==
    ASSUME NEW R, IsFiniteSet(R), NEW g, DOMAIN g \subseteq R,
           \A x \in DOMAIN g : g[x] \in Nat
    PROVE  SumFunction(g) \in Nat
<1> DEFINE D == DOMAIN g
<1>1. IsFiniteSet(D)
  BY FS_Subset
<1>2. \A x \in D : g[x] \in Nat
  OBVIOUS
<1>3. SumFunction(g) = SumFunctionOnSet(g, D)
  BY DEF SumFunction
<1> HIDE DEF D
<1> QED BY <1>1, <1>2, <1>3, SumType

\* A sum is no more than another that has a term as large for each of its own
\* that is not zero.
LEMMA SumDominated ==
    ASSUME NEW R, IsFiniteSet(R),
           NEW g, DOMAIN g \subseteq R, NEW h, DOMAIN h \subseteq R,
           \A x \in DOMAIN h : h[x] \in Nat,
           \A x \in DOMAIN g :
              g[x] \in Nat /\ (g[x] = 0 \/ (x \in DOMAIN h /\ g[x] <= h[x]))
    PROVE  SumFunction(g) <= SumFunction(h)
<1> DEFINE G == Padded(g, DOMAIN g, R)
           H == Padded(h, DOMAIN h, R)
<1>1. \A x \in R : G[x] \in Int /\ H[x] \in Int /\ G[x] <= H[x]
  BY DEF Padded
<1>2. SumFunction(g) = SumFunctionOnSet(G, R)
  <2> HIDE DEF G
  <2> QED BY SumWhole DEF G
<1>3. SumFunction(h) = SumFunctionOnSet(H, R)
  <2> HIDE DEF H
  <2> QED BY SumWhole DEF H
<1> HIDE DEF G, H
<1> QED BY <1>1, <1>2, <1>3, SumGrows

-----------------------------------------------------------------------------
(* Least and greatest.                                                     *)

\* A finite set of integers that is not empty has a greatest element.
LEMMA Greatest ==
    ASSUME NEW S, IsFiniteSet(S), S \subseteq Int, S # {}
    PROVE  \E x \in S : \A y \in S : x >= y
<1> DEFINE Has(U) == \E x \in U : \A y \in U : x >= y
           G == {n \in Nat : \A U \in SUBSET S :
                    Cardinality(U) = n => U = {} \/ Has(U)}
<1>1. \A U \in SUBSET S : IsFiniteSet(U) /\ Cardinality(U) \in Nat
  BY FS_Subset, FS_CardinalityType
<1>2. 0 \in G
  BY <1>1, FS_EmptySet
<1>3. ASSUME NEW n \in Nat, n \in G PROVE n + 1 \in G
  <2> SUFFICES ASSUME NEW U \in SUBSET S, Cardinality(U) = n + 1, U # {}
               PROVE  Has(U)
    OBVIOUS
  <2>1. PICK e \in U : TRUE
    OBVIOUS
  <2> DEFINE V == U \ {e}
  <2>2. V \in SUBSET S /\ Cardinality(V) = n
    <3>1. IsFiniteSet(U) /\ e \in U
      BY <1>1, <2>1
    <3>2. Cardinality(V) = Cardinality(U) - 1
      BY <3>1, FS_RemoveElement
    <3> QED BY <3>2
  <2>3. V = {} \/ Has(V)
    BY <1>3, <2>2
  <2>4. CASE V = {}
    <3>1. U = {e} /\ e \in Int
      BY <2>4
    <3> QED BY <3>1
  <2>5. CASE Has(V)
    <3>1. PICK x \in V : \A y \in V : x >= y
      BY <2>5
    <3>2. x \in Int /\ e \in Int /\ x \in U
      OBVIOUS
    <3>3. CASE x >= e
      BY <3>1, <3>2, <3>3
    <3>4. CASE ~(x >= e)
      <4>1. \A y \in V : e >= y
        <5>1. \A y \in V : y \in Int
          OBVIOUS
        <5> QED BY <3>1, <3>2, <3>4, <5>1
      <4> QED BY <3>2, <4>1
    <3> QED BY <3>3, <3>4
  <2> QED BY <2>3, <2>4, <2>5
<1>4. \A n \in Nat : n \in G
  <2> HIDE DEF G
  <2> QED BY <1>2, <1>3, Induction
<1>5. Cardinality(S) \in G /\ S \in SUBSET S
  BY <1>1, <1>4
<1> QED BY <1>5

\* What a function takes on a finite set is finite.
LEMMA FiniteImage ==
    ASSUME NEW S, IsFiniteSet(S), NEW f
    PROVE  IsFiniteSet({f[x] : x \in S})
<1> DEFINE T == {f[x] : x \in S}
           g == [x \in S |-> f[x]]
<1>1. g \in Surjection(S, T)
  BY DEF Surjection
<1> HIDE DEF g, T
<1>2. IsFiniteSet(T)
  BY <1>1, FS_Surjection
<1> QED BY <1>2 DEF T

=============================================================================
