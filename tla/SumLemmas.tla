----------------------------- MODULE SumLemmas -----------------------------
(***************************************************************************)
(* Sums of a function's values over a finite set, as SumFunctionOnSet of   *)
(* the community modules computes them: one element after another, in an   *)
(* order that a CHOOSE decides.  The lemmas say that there is such a sum,  *)
(* that the order does not matter, and how a sum follows a change.         *)
(*                                                                         *)
(* The proofs go by a smallest counterexample: a set of numbers, or of     *)
(* subsets, takes the place of the predicate of an induction.              *)
(***************************************************************************)
EXTENDS FiniteSetTheorems, TLAPS

\* A set of natural numbers that is not empty has a least element.
LEMMA LeastNumber ==
  ASSUME NEW N, N \subseteq Nat, N # {}
  PROVE  \E n \in N : \A m \in N : n <= m
<1>1. PICK n \in N : \A m \in N : <<m, n>> \notin OpToRel(<, Nat)
  BY NatLessThanWellFounded, WFMin
<1>2. \A m \in N : ~ (m < n)
  BY <1>1 DEF OpToRel
<1> QED
  BY <1>2

\* A set has every subset of S if it has each one whose proper subsets it has.
LEMMA SubsetInduction ==
  ASSUME NEW S, IsFiniteSet(S), NEW G,
         \A t \in SUBSET S : (\A u \in SUBSET t : u # t => u \in G) => t \in G
  PROVE  SUBSET S \subseteq G
<1> DEFINE Bad == (SUBSET S) \ G
<1> SUFFICES ASSUME Bad # {} PROVE FALSE
  OBVIOUS
<1>1. Bad \subseteq FiniteSubsetsOf(S) /\ Bad \subseteq SUBSET S
  BY FS_FiniteSubsetsOfFinite
<1> HIDE DEF Bad
<1>2. PICK t \in Bad : \A u \in Bad : <<u, t>> \notin StrictSubsetOrdering(S)
  BY <1>1, FS_StrictSubsetOrderingWellFounded, WFMin
<1>3. \A u \in Bad : u \subseteq t => u = t
  BY <1>1, <1>2 DEF StrictSubsetOrdering
<1> QED
  BY <1>3 DEF Bad

-----------------------------------------------------------------------------
(***************************************************************************)
(* The table of partial sums                                               *)
(***************************************************************************)

\* The element that is added next.
First(s) == CHOOSE x \in s : TRUE

\* What a table g of partial sums of f must have at s.
Partial(f, g, s) == IF s = {} THEN 0 ELSE f[First(s)] + g[s \ {First(s)}]

SumTable(f, S) == CHOOSE g : g = [s \in SUBSET S |-> Partial(f, g, s)]

\* The sum over S is the table's entry for all of S.
LEMMA SumIsInTable ==
  ASSUME NEW f, NEW S
  PROVE  SumFunctionOnSet(f, S) = SumTable(f, S)[S]
BY DEF SumFunctionOnSet, FoldFunctionOnSet, MapThenFoldSet, SumTable, Partial, First

\* A recursive definition defines something: the table is made size by size.
LEMMA SumTableExists ==
  ASSUME NEW f, NEW S, IsFiniteSet(S)
  PROVE  SumTable(f, S) = [s \in SUBSET S |-> Partial(f, SumTable(f, S), s)]
<1> DEFINE Upto(g, n) == \A s \in SUBSET S : Cardinality(s) <= n => g[s] = Partial(f, g, s)
           Missing == {n \in Nat : ~ \E g : g = [s \in SUBSET S |-> g[s]] /\ Upto(g, n)}
<1>1. \A s \in SUBSET S : IsFiniteSet(s) /\ Cardinality(s) \in Nat
                          /\ Cardinality(s) <= Cardinality(S)
  BY FS_Subset, FS_CardinalityType
<1>2. 0 \notin Missing
  <2> DEFINE g == [s \in SUBSET S |-> 0]
  <2>1. \A s \in SUBSET S : Cardinality(s) <= 0 => g[s] = Partial(f, g, s)
    BY <1>1, FS_EmptySet DEF Partial
  <2> QED
    BY <2>1
<1>3. ASSUME NEW n \in Nat, n # 0, n - 1 \notin Missing
      PROVE  n \notin Missing
  <2>1. PICK g : g = [s \in SUBSET S |-> g[s]] /\ Upto(g, n - 1)
    <3>1. n - 1 \in Nat
      BY <1>3
    <3> HIDE DEF Upto
    <3> QED
      BY <3>1, <1>3
  <2> DEFINE h == [s \in SUBSET S |-> IF Cardinality(s) <= n - 1 THEN g[s] ELSE Partial(f, g, s)]
  <2>2. ASSUME NEW s \in SUBSET S, Cardinality(s) <= n
        PROVE  h[s] = Partial(f, h, s)
    <3>1. h[s] = Partial(f, g, s)
      BY <2>1
    <3>2. CASE s = {}
      BY <3>1, <3>2 DEF Partial
    <3>3. CASE s # {}
      <4>1. First(s) \in s
        BY <3>3 DEF First
      <4>2. s \ {First(s)} \in SUBSET S /\ Cardinality(s \ {First(s)}) <= n - 1
        BY <1>1, <2>2, <4>1, FS_RemoveElement
      <4>3. h[s \ {First(s)}] = g[s \ {First(s)}]
        BY <4>2
      <4> QED
        BY <3>1, <4>3 DEF Partial
    <3> QED
      BY <3>2, <3>3
  <2>3. h = [s \in SUBSET S |-> h[s]]
    OBVIOUS
  <2>4. Upto(h, n)
    BY <2>2
  <2> HIDE DEF h
  <2> QED
    BY <2>3, <2>4
<1>4. Cardinality(S) \notin Missing
  <2> SUFFICES ASSUME Missing # {} PROVE FALSE
    BY FS_CardinalityType
  <2>1. PICK n \in Missing : \A m \in Missing : n <= m
    BY LeastNumber
  <2>2. n \in Nat
    OBVIOUS
  <2>3. n # 0
    BY <1>2
  <2> HIDE DEF Missing
  <2>4. n - 1 \notin Missing
    BY <2>1, <2>2, <2>3
  <2> QED
    BY <1>3, <2>2, <2>3, <2>4
<1>5. PICK g : g = [s \in SUBSET S |-> g[s]] /\ Upto(g, Cardinality(S))
  BY <1>4, FS_CardinalityType
<1>6. g = [s \in SUBSET S |-> Partial(f, g, s)]
  <2>1. \A s \in SUBSET S : g[s] = Partial(f, g, s)
    BY <1>1, <1>5
  <2> QED
    BY <1>5, <2>1
<1> QED
  BY <1>6 DEF SumTable

\* Each entry follows from a smaller one.
LEMMA SumTableStep ==
  ASSUME NEW f, NEW S, IsFiniteSet(S), NEW s \in SUBSET S
  PROVE  SumTable(f, S)[s] = Partial(f, SumTable(f, S), s)
<1> DEFINE g == SumTable(f, S)
<1>1. g = [t \in SUBSET S |-> Partial(f, g, t)]
  BY SumTableExists
<1> HIDE DEF g
<1>2. g[s] = Partial(f, g, s)
  BY <1>1
<1> QED
  BY <1>2 DEF g

\* Whichever element is added last, a partial sum is the same integer.
LEMMA SumTableSplit ==
  ASSUME NEW f, NEW S, IsFiniteSet(S), \A x \in S : f[x] \in Int
  PROVE  \A s \in SUBSET S :
           /\ SumTable(f, S)[s] \in Int
           /\ \A x \in s : SumTable(f, S)[s] = f[x] + SumTable(f, S)[s \ {x}]
<1> DEFINE g == SumTable(f, S)
           Good == {t \in SUBSET S : g[t] \in Int /\ \A x \in t : g[t] = f[x] + g[t \ {x}]}
<1>1. \A t \in SUBSET S : g[t] = Partial(f, g, t)
  BY SumTableStep
<1> HIDE DEF g
<1>2. ASSUME NEW t \in SUBSET S, \A u \in SUBSET t : u # t => u \in Good
      PROVE  t \in Good
  <2>1. CASE t = {}
    <3>1. g[t] = 0
      BY <1>1, <2>1 DEF Partial
    <3> QED
      BY <2>1, <3>1
  <2>2. CASE t # {}
    <3> DEFINE c == First(t)
    <3>1. c \in t
      BY <2>2 DEF First
    <3>2. g[t] = f[c] + g[t \ {c}]
      BY <1>1, <2>2 DEF Partial
    <3> HIDE DEF c
    <3>3. f[c] \in Int /\ t \ {c} \in Good
      BY <1>2, <3>1
    <3>4. g[t] \in Int
      BY <3>2, <3>3
    <3>5. ASSUME NEW x \in t, x # c
          PROVE  g[t] = f[x] + g[t \ {x}]
      <4> DEFINE r == (t \ {x}) \ {c}
      <4>1. f[x] \in Int /\ t \ {x} \in Good /\ r \in Good
        BY <1>2, <3>5
      <4>2. g[t \ {x}] = f[c] + g[r]
        BY <3>1, <3>5, <4>1
      <4>3. r = (t \ {c}) \ {x}
        OBVIOUS
      <4>4. g[t \ {c}] = f[x] + g[r]
        BY <3>3, <3>5, <4>3
      <4>5. g[r] \in Int
        BY <4>1
      <4> HIDE DEF r
      <4> QED
        BY <3>2, <3>3, <4>1, <4>2, <4>4, <4>5
    <3> QED
      BY <3>2, <3>4, <3>5
  <2> QED
    BY <2>1, <2>2
<1> HIDE DEF Good
<1>3. SUBSET S \subseteq Good
  BY <1>2, SubsetInduction
<1> QED
  BY <1>3 DEF Good, g

\* Two tables agree on what they share, when the functions do.
LEMMA SumTablesAgree ==
  ASSUME NEW f, NEW h, NEW S, NEW T, IsFiniteSet(S), IsFiniteSet(T), NEW s,
         s \subseteq S, s \subseteq T, \A x \in s : f[x] = h[x]
  PROVE  SumTable(f, S)[s] = SumTable(h, T)[s]
<1> DEFINE a == SumTable(f, S)
           b == SumTable(h, T)
           Good == {t \in SUBSET s : a[t] = b[t]}
<1>1. \A t \in SUBSET s : a[t] = Partial(f, a, t) /\ b[t] = Partial(h, b, t)
  BY SumTableStep
<1> HIDE DEF a, b
<1>2. ASSUME NEW t \in SUBSET s, \A u \in SUBSET t : u # t => u \in Good
      PROVE  t \in Good
  <2>1. CASE t = {}
    BY <1>1, <2>1 DEF Partial
  <2>2. CASE t # {}
    <3>1. First(t) \in t
      BY <2>2 DEF First
    <3>2. a[t \ {First(t)}] = b[t \ {First(t)}]
      BY <1>2, <3>1
    <3>3. a[t] = b[t]
      BY <1>1, <2>2, <3>1, <3>2 DEF Partial
    <3> QED
      BY <3>3
  <2> QED
    BY <2>1, <2>2
<1> HIDE DEF Good
<1>3. IsFiniteSet(s)
  BY FS_Subset
<1>4. SUBSET s \subseteq Good
  BY <1>2, <1>3, SubsetInduction
<1> QED
  BY <1>4 DEF Good, a, b

-----------------------------------------------------------------------------
(***************************************************************************)
(* Facts about sums                                                        *)
(***************************************************************************)

\* Nothing to add.
LEMMA SumEmpty ==
  ASSUME NEW f
  PROVE  SumFunctionOnSet(f, {}) = 0
BY SumIsInTable, SumTableStep, FS_EmptySet DEF Partial

\* A sum of integers is one.
LEMMA SumType ==
  ASSUME NEW f, NEW S, IsFiniteSet(S), \A x \in S : f[x] \in Int
  PROVE  SumFunctionOnSet(f, S) \in Int
BY SumIsInTable, SumTableSplit

\* One element can be set aside.
LEMMA SumSplit ==
  ASSUME NEW f, NEW S, IsFiniteSet(S), \A x \in S : f[x] \in Int, NEW x \in S
  PROVE  SumFunctionOnSet(f, S) = f[x] + SumFunctionOnSet(f, S \ {x})
<1>1. SumTable(f, S)[S] = f[x] + SumTable(f, S)[S \ {x}]
  BY SumTableSplit
<1>2. SumTable(f, S)[S \ {x}] = SumTable(f, S \ {x})[S \ {x}]
  BY SumTablesAgree, FS_RemoveElement
<1> QED
  BY <1>1, <1>2, SumIsInTable

\* Equal functions have equal sums.
LEMMA SumSame ==
  ASSUME NEW f, NEW h, NEW S, IsFiniteSet(S), \A x \in S : f[x] = h[x]
  PROVE  SumFunctionOnSet(f, S) = SumFunctionOnSet(h, S)
BY SumIsInTable, SumTablesAgree

\* A change in one place changes the sum by as much.
LEMMA SumChange ==
  ASSUME NEW f, NEW h, NEW S, IsFiniteSet(S), \A y \in S : f[y] \in Int /\ h[y] \in Int,
         NEW x \in S, \A y \in S \ {x} : f[y] = h[y]
  PROVE  SumFunctionOnSet(h, S) = SumFunctionOnSet(f, S) + (h[x] - f[x])
<1>1. /\ SumFunctionOnSet(f, S) = f[x] + SumFunctionOnSet(f, S \ {x})
      /\ SumFunctionOnSet(h, S) = h[x] + SumFunctionOnSet(h, S \ {x})
  BY SumSplit
<1>2. IsFiniteSet(S \ {x})
  BY FS_RemoveElement
<1>3. SumFunctionOnSet(f, S \ {x}) = SumFunctionOnSet(h, S \ {x})
  BY <1>2, SumSame
<1>4. SumFunctionOnSet(f, S \ {x}) \in Int
  BY <1>2, SumType
<1>5. f[x] \in Int /\ h[x] \in Int
  OBVIOUS
<1> QED
  BY <1>1, <1>3, <1>4, <1>5

\* Nothing sums up to nothing.
LEMMA SumZeros ==
  ASSUME NEW f, NEW S, IsFiniteSet(S), \A x \in S : f[x] = 0
  PROVE  SumFunctionOnSet(f, S) = 0
<1> DEFINE Good == {t \in SUBSET S : SumFunctionOnSet(f, t) = 0}
<1>1. ASSUME NEW t \in SUBSET S, \A u \in SUBSET t : u # t => u \in Good
      PROVE  t \in Good
  <2>1. CASE t = {}
    BY <2>1, SumEmpty
  <2>2. CASE t # {}
    <3>1. PICK x \in t : TRUE
      BY <2>2
    <3>2. SumFunctionOnSet(f, t) = f[x] + SumFunctionOnSet(f, t \ {x})
      <4>1. IsFiniteSet(t)
        BY FS_Subset
      <4>2. \A y \in t : f[y] \in Int
        OBVIOUS
      <4> QED
        BY <4>1, <4>2, SumSplit
    <3>3. SumFunctionOnSet(f, t \ {x}) = 0
      BY <1>1
    <3> QED
      BY <3>2, <3>3
  <2> QED
    BY <2>1, <2>2
<1> HIDE DEF Good
<1>2. SUBSET S \subseteq Good
  BY <1>1, SubsetInduction
<1> QED
  BY <1>2 DEF Good

=============================================================================
