---------------------------- MODULE SumTheorems ----------------------------
(***************************************************************************)
(* What MapThenSumSet computes, for finite sets: the facts about sums that *)
(* the proofs about the quota need.  MapThenSumSet is a recursive function *)
(* that takes one element after the other; that it exists, and that the    *)
(* order does not matter, is shown with a smallest counterexample.         *)
(***************************************************************************)
EXTENDS FiniteSetsExt, FiniteSetTheorems, TLAPS

\* The element a sum takes next.
Some(S) == CHOOSE x \in S : TRUE

\* Function g gives the sum of f over every subset of S.
SumsUp(g, f, S) ==
    g = [s \in SUBSET S |-> IF s = {} THEN 0 ELSE f[Some(s)] + g[s \ {Some(s)}]]

Sum(f, S) == (CHOOSE g : SumsUp(g, f, S))[S]

\* A nonempty collection of subsets of a finite set has a smallest one.
LEMMA SmallestSubset ==
    ASSUME NEW S, IsFiniteSet(S), NEW T \in SUBSET (SUBSET S), T # {}
    PROVE  \E s \in T : IsFiniteSet(s) /\ \A t \in T : t \subseteq s => t = s
  <1>1. FiniteSubsetsOf(S) = SUBSET S
    BY FS_FiniteSubsetsOfFinite
  <1>2. IsWellFoundedOn(StrictSubsetOrdering(S), SUBSET S)
    BY <1>1, FS_StrictSubsetOrderingWellFounded
  <1>3. PICK s \in T : \A t \in T : <<t, s>> \notin StrictSubsetOrdering(S)
    BY <1>2, WFMin
  <1>4. IsFiniteSet(s)
    BY FS_Subset
  <1>5. ASSUME NEW t \in T, t \subseteq s PROVE t = s
    BY <1>3, <1>5 DEF StrictSubsetOrdering
  <1>6. QED
    BY <1>4, <1>5

LEMMA SomeIsIn == ASSUME NEW S, S # {} PROVE Some(S) \in S
  BY DEF Some

\* The sum over a set does not depend on what it is a subset of.
LEMMA SumsAgree ==
    ASSUME NEW S, IsFiniteSet(S), NEW A, NEW B, S \subseteq A, S \subseteq B, NEW f, NEW g, NEW h,
           SumsUp(g, f, A), SumsUp(h, f, B)
    PROVE  g[S] = h[S]
  <1> DEFINE Bad == {s \in SUBSET S : g[s] # h[s]}
  <1>1. \A s \in SUBSET S : /\ g[s] = IF s = {} THEN 0 ELSE f[Some(s)] + g[s \ {Some(s)}]
                            /\ h[s] = IF s = {} THEN 0 ELSE f[Some(s)] + h[s \ {Some(s)}]
    <2>1. \A s \in SUBSET S : s \in SUBSET A /\ s \in SUBSET B
      OBVIOUS
    <2>2. QED
      BY <2>1 DEF SumsUp
  <1>2. SUFFICES ASSUME Bad # {} PROVE FALSE
    OBVIOUS
  <1>3. PICK s \in Bad : \A t \in Bad : t \subseteq s => t = s
    <2>1. Bad \in SUBSET (SUBSET S)
      OBVIOUS
    <2> HIDE DEF Bad
    <2>2. QED
      BY <1>2, <2>1, SmallestSubset
  <1>4. s # {}
    BY <1>1, <1>3
  <1>5. Some(s) \in s
    BY <1>4, SomeIsIn
  <1>6. s \ {Some(s)} \in SUBSET S /\ s \ {Some(s)} \notin Bad
    BY <1>3, <1>5
  <1>7. g[s \ {Some(s)}] = h[s \ {Some(s)}]
    BY <1>6
  <1>8. g[s] = h[s]
    BY <1>1, <1>3, <1>4, <1>7
  <1>9. QED
    BY <1>3, <1>8

\* The recursive function exists.
LEMMA SumExists ==
    ASSUME NEW S, IsFiniteSet(S), NEW f
    PROVE  \E g : SumsUp(g, f, S)
  <1> DEFINE Bad == {s \in SUBSET S : ~ \E g : SumsUp(g, f, s)}
  <1>1. SUFFICES ASSUME Bad # {} PROVE FALSE
    OBVIOUS
  <1>2. PICK T \in Bad : IsFiniteSet(T) /\ \A t \in Bad : t \subseteq T => t = T
    <2>1. Bad \in SUBSET (SUBSET S)
      OBVIOUS
    <2> HIDE DEF Bad
    <2>2. QED
      BY <1>1, <2>1, SmallestSubset
  <1>3. \A s \in SUBSET T : s # T => \E g : SumsUp(g, f, s)
    BY <1>2
  <1> DEFINE G(s) == CHOOSE g : SumsUp(g, f, s)
             h == [s \in SUBSET T |-> G(s)[s]]
             k == [s \in SUBSET T |-> IF s = {} THEN 0 ELSE f[Some(s)] + h[s \ {Some(s)}]]
  <1>4. \A s \in SUBSET T : s # T => SumsUp(G(s), f, s)
    BY <1>3
  <1> HIDE DEF G
  <1>5. ASSUME NEW s \in SUBSET T, s # T PROVE k[s] = h[s]
    <2>1. SumsUp(G(s), f, s)
      BY <1>4, <1>5
    <2>2. G(s)[s] = IF s = {} THEN 0 ELSE f[Some(s)] + G(s)[s \ {Some(s)}]
      BY <2>1 DEF SumsUp
    <2>3. CASE s = {}
      BY <2>2, <2>3
    <2>4. CASE s # {}
      <3> DEFINE r == s \ {Some(s)}
      <3>1. r \in SUBSET T /\ r # T /\ r \subseteq s /\ IsFiniteSet(r)
        BY <1>2, <1>5, <2>4, SomeIsIn, FS_Subset
      <3>2. SumsUp(G(r), f, r)
        BY <1>4, <3>1
      <3> HIDE DEF r
      <3>3. G(s)[r] = G(r)[r]
        BY <2>1, <3>1, <3>2, SumsAgree
      <3>4. G(r)[r] = h[r]
        BY <3>1
      <3>5. QED
        BY <2>2, <2>4, <3>3, <3>4 DEF r
    <2>5. QED
      BY <2>3, <2>4
  <1>6. ASSUME NEW s \in SUBSET T, s # {} PROVE h[s \ {Some(s)}] = k[s \ {Some(s)}]
    <2>1. s \ {Some(s)} \in SUBSET T /\ s \ {Some(s)} # T
      BY <1>6, SomeIsIn
    <2> HIDE DEF h, k
    <2>2. QED
      BY <1>5, <2>1
  <1>7. k = [s \in SUBSET T |-> IF s = {} THEN 0 ELSE f[Some(s)] + k[s \ {Some(s)}]]
    <2>1. \A s \in SUBSET T : (IF s = {} THEN 0 ELSE f[Some(s)] + h[s \ {Some(s)}])
                                = IF s = {} THEN 0 ELSE f[Some(s)] + k[s \ {Some(s)}]
      <3> HIDE DEF h, k
      <3>1. QED
        BY <1>6
    <2> DEFINE k2 == [s \in SUBSET T |-> IF s = {} THEN 0 ELSE f[Some(s)] + k[s \ {Some(s)}]]
    <2>2. k = k2
      BY <2>1
    <2>3. QED
      BY <2>2
  <1>8. SumsUp(k, f, T)
    BY <1>7 DEF SumsUp
  <1>9. QED
    BY <1>2, <1>8


\* Sum is defined by its equations.
LEMMA SumUnique ==
    ASSUME NEW S, IsFiniteSet(S), NEW A, S \subseteq A, NEW f, NEW g, SumsUp(g, f, A)
    PROVE  Sum(f, S) = g[S]
  <1> DEFINE h == CHOOSE h : SumsUp(h, f, S)
  <1>1. SumsUp(h, f, S)
    BY SumExists
  <1>2. Sum(f, S) = h[S]
    BY DEF Sum
  <1> HIDE DEF h
  <1>3. QED
    BY <1>1, <1>2, SumsAgree

LEMMA SumStep ==
    ASSUME NEW S, IsFiniteSet(S), NEW f
    PROVE  Sum(f, S) = IF S = {} THEN 0 ELSE f[Some(S)] + Sum(f, S \ {Some(S)})
  <1>1. PICK g : SumsUp(g, f, S)
    BY SumExists
  <1>2. Sum(f, S) = g[S] /\ Sum(f, S \ {Some(S)}) = g[S \ {Some(S)}]
    <2>1. S \ {Some(S)} \subseteq S /\ IsFiniteSet(S \ {Some(S)})
      BY FS_Subset
    <2>2. QED
      BY <1>1, <2>1, SumUnique
  <1>3. QED
    BY <1>1, <1>2 DEF SumsUp

\* A sum of integers is one, and of naturals too.
LEMMA SumType ==
    ASSUME NEW S, IsFiniteSet(S), NEW f, NEW N \in {Int, Nat}, \A x \in S : f[x] \in N
    PROVE  Sum(f, S) \in N
  <1> DEFINE Bad == {s \in SUBSET S : Sum(f, s) \notin N}
  <1>1. SUFFICES ASSUME Bad # {} PROVE FALSE
    OBVIOUS
  <1>2. PICK s \in Bad : IsFiniteSet(s) /\ \A t \in Bad : t \subseteq s => t = s
    <2>1. Bad \in SUBSET (SUBSET S)
      OBVIOUS
    <2> HIDE DEF Bad
    <2>2. QED
      BY <1>1, <2>1, SmallestSubset
  <1>3. Sum(f, s) = IF s = {} THEN 0 ELSE f[Some(s)] + Sum(f, s \ {Some(s)})
    BY <1>2, SumStep
  <1>4. s # {}
    BY <1>2, <1>3
  <1>5. Some(s) \in s
    BY <1>4, SomeIsIn
  <1>6. Sum(f, s \ {Some(s)}) \in N
    BY <1>2, <1>5
  <1>7. f[Some(s)] \in N /\ Sum(f, s) = f[Some(s)] + Sum(f, s \ {Some(s)})
    BY <1>2, <1>3, <1>4, <1>5
  <1>8. QED
    BY <1>2, <1>6, <1>7

\* The order does not matter: any element may be taken first.
LEMMA SumTakes ==
    ASSUME NEW S, IsFiniteSet(S), NEW f, \A x \in S : f[x] \in Int, NEW x \in S
    PROVE  Sum(f, S) = f[x] + Sum(f, S \ {x})
  <1> DEFINE Bad == {s \in SUBSET S : \E y \in s : Sum(f, s) # f[y] + Sum(f, s \ {y})}
  <1>1. SUFFICES ASSUME Bad # {} PROVE FALSE
    OBVIOUS
  <1>2. PICK s \in Bad : IsFiniteSet(s) /\ \A t \in Bad : t \subseteq s => t = s
    <2>1. Bad \in SUBSET (SUBSET S)
      OBVIOUS
    <2> HIDE DEF Bad
    <2>2. QED
      BY <1>1, <2>1, SmallestSubset
  <1>3. PICK y \in s : Sum(f, s) # f[y] + Sum(f, s \ {y})
    BY <1>2
  <1> DEFINE c == Some(s)
  <1>4. c \in s
    BY <1>3, SomeIsIn
  <1>5. Sum(f, s) = f[c] + Sum(f, s \ {c})
    BY <1>2, <1>3, SumStep
  <1> HIDE DEF c
  <1>6. c # y
    BY <1>3, <1>5
  <1>7. s \ {c} \notin Bad /\ s \ {y} \notin Bad
    BY <1>2, <1>3, <1>4
  <1>8. /\ Sum(f, s \ {c}) = f[y] + Sum(f, (s \ {c}) \ {y})
        /\ Sum(f, s \ {y}) = f[c] + Sum(f, (s \ {y}) \ {c})
    BY <1>2, <1>3, <1>4, <1>6, <1>7
  <1>9. (s \ {c}) \ {y} = (s \ {y}) \ {c}
    OBVIOUS
  <1>10. Sum(f, (s \ {y}) \ {c}) \in Int /\ f[c] \in Int /\ f[y] \in Int
    <2>1. IsFiniteSet((s \ {y}) \ {c})
      BY <1>2, FS_Subset
    <2>2. \A z \in (s \ {y}) \ {c} : f[z] \in Int
      BY <1>2
    <2>3. QED
      BY <1>2, <1>3, <1>4, <2>1, <2>2, SumType
  <1>11. \A m, n, k \in Int : m + (n + k) = n + (m + k)
    OBVIOUS
  <1>12. f[c] + (f[y] + Sum(f, (s \ {y}) \ {c})) = f[y] + (f[c] + Sum(f, (s \ {y}) \ {c}))
    BY <1>10, <1>11
  <1>13. QED
    BY <1>3, <1>5, <1>8, <1>9, <1>12, Zenon

LEMMA SumAdds ==
    ASSUME NEW S, IsFiniteSet(S), NEW f, NEW x, x \notin S, \A y \in S \cup {x} : f[y] \in Int
    PROVE  Sum(f, S \cup {x}) = f[x] + Sum(f, S)
  <1>1. IsFiniteSet(S \cup {x}) /\ (S \cup {x}) \ {x} = S
    BY FS_AddElement
  <1>2. Sum(f, S \cup {x}) = f[x] + Sum(f, (S \cup {x}) \ {x})
    BY <1>1, SumTakes
  <1>3. QED
    BY <1>1, <1>2

\* Only the summands count.
LEMMA SumSame ==
    ASSUME NEW S, IsFiniteSet(S), NEW f, NEW g, \A x \in S : f[x] = g[x]
    PROVE  Sum(f, S) = Sum(g, S)
  <1>1. PICK h : SumsUp(h, f, S)
    BY SumExists
  <1>2. SumsUp(h, g, S)
    <2>1. \A s \in SUBSET S : (IF s = {} THEN 0 ELSE f[Some(s)] + h[s \ {Some(s)}])
                                = IF s = {} THEN 0 ELSE g[Some(s)] + h[s \ {Some(s)}]
      BY SomeIsIn
    <2>2. QED
      BY <1>1, <2>1 DEF SumsUp
  <1>3. QED
    BY <1>1, <1>2, SumUnique

\* The sum over two disjoint sets.
LEMMA SumUnion ==
    ASSUME NEW S, IsFiniteSet(S), NEW T, IsFiniteSet(T), S \cap T = {}, NEW f,
           \A x \in S \cup T : f[x] \in Int
    PROVE  Sum(f, S \cup T) = Sum(f, S) + Sum(f, T)
  <1> DEFINE Bad == {s \in SUBSET S : Sum(f, s \cup T) # Sum(f, s) + Sum(f, T)}
  <1>1. SUFFICES ASSUME Bad # {} PROVE FALSE
    OBVIOUS
  <1>2. PICK s \in Bad : IsFiniteSet(s) /\ \A t \in Bad : t \subseteq s => t = s
    <2>1. Bad \in SUBSET (SUBSET S)
      OBVIOUS
    <2> HIDE DEF Bad
    <2>2. QED
      BY <1>1, <2>1, SmallestSubset
  <1>3. Sum(f, T) \in Int
    BY SumType
  <1>4. CASE s = {}
    <2>1. Sum(f, s) = 0 /\ s \cup T = T
      BY <1>2, <1>4, SumStep
    <2>2. 0 + Sum(f, T) = Sum(f, T)
      BY <1>3
    <2>3. QED
      BY <1>2, <2>1, <2>2, Zenon
  <1>5. CASE s # {}
    <2>1. PICK x \in s : TRUE
      BY <1>5
    <2> DEFINE r == s \ {x}
    <2>2. r \notin Bad /\ r \in SUBSET S /\ IsFiniteSet(r) /\ IsFiniteSet(r \cup T)
      BY <1>2, <2>1, FS_Subset, FS_Union
    <2>3. Sum(f, r \cup T) = Sum(f, r) + Sum(f, T)
      BY <2>2
    <2>4. s = r \cup {x} /\ x \notin r /\ s \cup T = (r \cup T) \cup {x} /\ x \notin r \cup T
      BY <1>2, <2>1
    <2>5. \A y \in (r \cup T) \cup {x} : f[y] \in Int
      BY <2>1, <2>2
    <2> HIDE DEF r
    <2>6. Sum(f, (r \cup T) \cup {x}) = f[x] + Sum(f, r \cup T)
      BY <2>2, <2>4, <2>5, SumAdds
    <2>7. Sum(f, r \cup {x}) = f[x] + Sum(f, r)
      BY <2>2, <2>4, <2>5, SumAdds
    <2>8. Sum(f, r) \in Int /\ f[x] \in Int
      BY <2>2, <2>5, SumType
    <2>9. QED
      BY <1>2, <1>3, <2>3, <2>4, <2>6, <2>7, <2>8
  <1>6. QED
    BY <1>4, <1>5

\* MapThenSumSet computes the sum.
LEMMA MapThenSumSetIsSum ==
    ASSUME NEW S, IsFiniteSet(S), NEW f
    PROVE  MapThenSumSet(LAMBDA x : f[x], S) = Sum(f, S)
  <1> DEFINE g == CHOOSE g : g = [s \in SUBSET S |-> IF s = {} THEN 0 ELSE f[CHOOSE x \in s : TRUE]
                                                           + g[s \ {CHOOSE x \in s : TRUE}]]
  <1>1. MapThenSumSet(LAMBDA x : f[x], S) = g[S]
    BY DEF MapThenSumSet, MapThenFoldSet
  <1>2. \E h : h = [s \in SUBSET S |-> IF s = {} THEN 0 ELSE f[CHOOSE x \in s : TRUE]
                                                           + h[s \ {CHOOSE x \in s : TRUE}]]
    <2>1. PICK h : SumsUp(h, f, S)
      BY SumExists
    <2>2. QED
      BY <2>1 DEF SumsUp, Some
  <1>3. SumsUp(g, f, S)
    BY <1>2 DEF SumsUp, Some
  <1> HIDE DEF g
  <1>4. QED
    BY <1>1, <1>3, SumUnique
=============================================================================
