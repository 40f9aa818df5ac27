------------------------------- MODULE Data_proofs -------------------------------
(***************************************************************************)
(* Lemmas about the data that several components are built from: induction *)
(* as a fact about sets, the sum of a function (SumFunction of the         *)
(* community modules), and lists in an order (Ordered).                    *)
(***************************************************************************)
EXTENDS Ordered, SequencesExt, FiniteSetTheorems, WellFoundedInduction, TLAPS

-----------------------------------------------------------------------------
(***************************************************************************)
(* Induction: sets of natural numbers, and of subsets of a finite set.     *)
(***************************************************************************)

\* A set of natural numbers that is not empty has a least element.
LEMMA LeastExists ==
  ASSUME NEW T \in SUBSET Nat, T # {}
  PROVE  \E n \in T : \A m \in T : n <= m
<1>1. IsWellFoundedOn(OpToRel(<, Nat), Nat)
  BY NatLessThanWellFounded
<1>2. \E x \in T : \A y \in T : ~ (<<y, x>> \in OpToRel(<, Nat))
  BY <1>1, WFMin
<1>3. \A x, y \in Nat : y < x => <<y, x>> \in OpToRel(<, Nat)
  BY DEF OpToRel
<1>4. PICK R : /\ \E x \in T : \A y \in T : ~ (<<y, x>> \in R)
               /\ \A x, y \in Nat : y < x => <<y, x>> \in R
  BY <1>2, <1>3, Zenon
<1>5. PICK x \in T : \A y \in T : ~ (<<y, x>> \in R)
  BY <1>4
<1>6. ASSUME NEW y \in T PROVE x <= y
  <2>1. ~ (y < x)
    BY <1>4, <1>5, Zenon
  <2> QED
    BY <2>1
<1> QED
  BY <1>5, <1>6

\* The element that a fold takes from a set first.
Picked(s) == CHOOSE x \in s : TRUE

\* Taking out the element leaves a smaller set.
LEMMA PickedIsIn == \A s : s # {} => Picked(s) \in s
BY DEF Picked

LEMMA PickedLess ==
  ASSUME NEW S, IsFiniteSet(S), NEW s \in SUBSET S, s # {}
  PROVE  /\ s \ {Picked(s)} \in SUBSET S /\ IsFiniteSet(s) /\ IsFiniteSet(s \ {Picked(s)})
         /\ Cardinality(s) \in Nat \ {0} /\ Cardinality(s \ {Picked(s)}) = Cardinality(s) - 1
<1>1. IsFiniteSet(s)
  BY FS_Subset
<1>2. Picked(s) \in s
  BY PickedIsIn
<1>3. IsFiniteSet(s \ {Picked(s)}) /\ Cardinality(s \ {Picked(s)}) = Cardinality(s) - 1
  BY <1>1, <1>2, FS_RemoveElement
<1>4. Cardinality(s) \in Nat /\ Cardinality(s \ {Picked(s)}) \in Nat
  BY <1>1, <1>3, FS_CardinalityType
<1> QED
  BY <1>1, <1>3, <1>4

\* Induction over the natural numbers, and over the subsets of a finite set, for sets.
LEMMA NatsByInduction ==
  ASSUME NEW P \in SUBSET Nat, 0 \in P, \A n \in P : n + 1 \in P
  PROVE  P = Nat
<1> SUFFICES ASSUME Nat \ P # {} PROVE FALSE
  OBVIOUS
<1>1. PICK n \in Nat \ P : \A m \in Nat \ P : n <= m
  BY LeastExists
<1>2. n - 1 \in Nat /\ n - 1 \notin Nat \ P /\ n - 1 + 1 = n
  BY <1>1
<1> QED
  BY <1>1, <1>2

LEMMA SubsetsByInduction ==
  ASSUME NEW S, IsFiniteSet(S), NEW P \in SUBSET SUBSET S, {} \in P,
         \A s \in SUBSET S : s # {} /\ s \ {Picked(s)} \in P => s \in P
  PROVE  P = SUBSET S
<1> DEFINE N == {n \in Nat : \A s \in SUBSET S : Cardinality(s) = n => s \in P}
<1>1. 0 \in N
  <2> SUFFICES ASSUME NEW s \in SUBSET S, Cardinality(s) = 0 PROVE s \in P
    OBVIOUS
  <2>1. IsFiniteSet(s)
    BY FS_Subset
  <2>2. s = {}
    BY <2>1, FS_EmptySet
  <2> QED
    BY <2>2
<1>2. ASSUME NEW n \in N PROVE n + 1 \in N
  <2> SUFFICES ASSUME NEW s \in SUBSET S, Cardinality(s) = n + 1 PROVE s \in P
    OBVIOUS
  <2>1. s # {}
    BY FS_EmptySet
  <2>2. s \ {Picked(s)} \in SUBSET S /\ Cardinality(s \ {Picked(s)}) = n
    BY <2>1, PickedLess
  <2> QED
    BY <2>1, <2>2
<1>3. N = Nat
  <2> HIDE DEF N
  <2>1. N \in SUBSET Nat
    BY DEF N
  <2> QED
    BY <1>1, <1>2, <2>1, NatsByInduction
<1>4. \A s \in SUBSET S : Cardinality(s) \in Nat
  BY FS_Subset, FS_CardinalityType
<1>5. \A s \in SUBSET S : Cardinality(s) \in N => s \in P
  OBVIOUS
<1> QED
  BY <1>3, <1>4, <1>5

-----------------------------------------------------------------------------
(***************************************************************************)
(* Sums.                                                                   *)
(***************************************************************************)

\* The recursion that SumFunctionOnSet is made of.
Sums(g, f, S) ==
  g = [s \in SUBSET S |-> IF s = {} THEN 0 ELSE f[Picked(s)] + g[s \ {Picked(s)}]]

\* The recursion has a solution: one for the sets of n elements at most extends to those
\* of n + 1.
LEMMA SumsExist ==
  ASSUME NEW f, NEW S, IsFiniteSet(S)
  PROVE  \E g : Sums(g, f, S)
<1> DEFINE Small(n) == {s \in SUBSET S : Cardinality(s) <= n}
           Next(g, s) == IF s = {} THEN 0 ELSE f[Picked(s)] + g[s \ {Picked(s)}]
           Sol(n) == \E g : g = [s \in Small(n) |-> Next(g, s)]
           Good == {n \in Nat : Sol(n)}
<1>1. \A s \in SUBSET S : Cardinality(s) \in Nat /\ Cardinality(s) <= Cardinality(S)
  BY FS_Subset, FS_CardinalityType
<1>2. Cardinality(S) \in Nat
  BY FS_CardinalityType
<1>3. Sol(0)
  <2>1. \A s \in Small(0) : s = {}
    <3> SUFFICES ASSUME NEW s \in Small(0) PROVE s = {}
      OBVIOUS
    <3>1. Cardinality(s) = 0 /\ IsFiniteSet(s)
      BY <1>1, FS_Subset
    <3> QED
      BY <3>1, FS_EmptySet
  <2> DEFINE g == [s \in Small(0) |-> 0]
  <2>2. \A s \in Small(0) : Next(g, s) = 0
    BY <2>1
  <2>3. g = [s \in Small(0) |-> Next(g, s)]
    BY <2>2
  <2> QED
    BY <2>3
<1>4. ASSUME NEW n \in Nat, Sol(n) PROVE Sol(n + 1)
  <2>1. PICK g : g = [s \in Small(n) |-> Next(g, s)]
    BY <1>4
  <2> DEFINE h == [s \in Small(n + 1) |-> Next(g, s)]
  <2>2. ASSUME NEW s \in Small(n + 1) PROVE Next(h, s) = h[s]
    <3>1. CASE s = {}
      BY <3>1
    <3>2. CASE s # {}
      <4> DEFINE r == s \ {Picked(s)}
      <4>1. r \in SUBSET S /\ Cardinality(s) \in Nat /\ Cardinality(r) = Cardinality(s) - 1
        BY <3>2, PickedLess
      <4>2. r \in Small(n) /\ r \in Small(n + 1)
        BY <4>1
      <4> HIDE DEF r
      <4>3. h[r] = Next(g, r) /\ g[r] = Next(g, r)
        <5> HIDE DEF Small, Next
        <5> QED
          BY <2>1, <4>2
      <4> QED
        BY <3>2, <4>3 DEF r
    <3> QED
      BY <3>1, <3>2
  <2>3. h = [s \in Small(n + 1) |-> Next(h, s)]
    <3> DEFINE k == [s \in Small(n + 1) |-> Next(h, s)]
    <3> HIDE DEF Small, Next
    <3> QED
      BY <2>2
  <2> QED
    BY <2>3
<1>5. Good = Nat
  <2> HIDE DEF Sol
  <2>1. Good \in SUBSET Nat /\ 0 \in Good /\ \A n \in Good : n + 1 \in Good
    BY <1>3, <1>4
  <2> HIDE DEF Good
  <2> QED
    BY <2>1, NatsByInduction
<1>6. Sol(Cardinality(S))
  <2> HIDE DEF Sol
  <2> QED
    BY <1>2, <1>5
<1>7. Small(Cardinality(S)) = SUBSET S
  BY <1>1
<1> QED
  BY <1>6, <1>7 DEF Sums

\* SumFunctionOnSet is the value of a solution.
LEMMA SumIsSums ==
  ASSUME NEW f, NEW S, IsFiniteSet(S)
  PROVE  \E g : Sums(g, f, S) /\ SumFunctionOnSet(f, S) = g[S]
<1> DEFINE G == CHOOSE g : Sums(g, f, S)
<1>1. Sums(G, f, S)
  BY SumsExist, Zenon
<1>2. SumFunctionOnSet(f, S) = G[S]
  BY DEF SumFunctionOnSet, FoldFunctionOnSet, MapThenFoldSet, Sums, Picked
<1> QED
  BY <1>1, <1>2
LEMMA SumStep ==
  ASSUME NEW f, NEW S, IsFiniteSet(S), NEW g, Sums(g, f, S)
  PROVE  /\ g[{}] = 0
         /\ \A s \in SUBSET S : s # {} => g[s] = f[Picked(s)] + g[s \ {Picked(s)}]
BY DEF Sums

\* Integers add up to an integer, naturals to a natural.
LEMMA SumType ==
  ASSUME NEW S, IsFiniteSet(S), NEW f
  PROVE  /\ f \in [S -> Int] => SumFunction(f) \in Int
         /\ f \in [S -> Nat] => SumFunction(f) \in Nat
<1>1. PICK g : Sums(g, f, S) /\ SumFunctionOnSet(f, S) = g[S]
  BY SumIsSums
<1>2. ASSUME NEW T \in {Nat, Int}, f \in [S -> T] PROVE SumFunction(f) \in T
  <2> DEFINE P == {s \in SUBSET S : g[s] \in T}
  <2>1. {} \in P
    BY <1>1, SumStep
  <2>2. ASSUME NEW s \in SUBSET S, s # {}, s \ {Picked(s)} \in P PROVE s \in P
    <3>1. Picked(s) \in S
      BY <2>2, PickedIsIn
    <3>2. f[Picked(s)] \in T /\ g[s \ {Picked(s)}] \in T
      BY <1>2, <2>2, <3>1
    <3>3. g[s] = f[Picked(s)] + g[s \ {Picked(s)}]
      BY <1>1, <2>2, SumStep
    <3> QED
      BY <3>2, <3>3
  <2>3. P = SUBSET S
    <3>1. P \in SUBSET SUBSET S
      OBVIOUS
    <3> HIDE DEF P
    <3> QED
      BY <2>1, <2>2, <3>1, SubsetsByInduction
  <2>4. SumFunction(f) = g[S]
    BY <1>1, <1>2 DEF SumFunction
  <2> QED
    BY <2>3, <2>4
<1> QED
  BY <1>2

\* A sum changes by what one element changes by.
LEMMA SumChange ==
  ASSUME NEW S, IsFiniteSet(S), NEW f \in [S -> Int], NEW h \in [S -> Int], NEW x \in S,
         \A y \in S : y # x => h[y] = f[y]
  PROVE  SumFunction(h) = SumFunction(f) + (h[x] - f[x])
<1>1. PICK g : Sums(g, f, S) /\ SumFunctionOnSet(f, S) = g[S]
  BY SumIsSums
<1>2. PICK k : Sums(k, h, S) /\ SumFunctionOnSet(h, S) = k[S]
  BY SumIsSums
<1> DEFINE P == {s \in SUBSET S : g[s] \in Int /\ k[s] = g[s] + (IF x \in s THEN h[x] - f[x] ELSE 0)}
<1>3. {} \in P
  BY <1>1, <1>2, SumStep
<1>4. ASSUME NEW s \in SUBSET S, s # {}, s \ {Picked(s)} \in P PROVE s \in P
  <2>1. Picked(s) \in s /\ Picked(s) \in S
    BY <1>4, PickedIsIn
  <2>2. /\ g[s] = f[Picked(s)] + g[s \ {Picked(s)}]
        /\ k[s] = h[Picked(s)] + k[s \ {Picked(s)}]
    <3>1. g[s] = f[Picked(s)] + g[s \ {Picked(s)}]
      BY <1>1, <1>4, SumStep
    <3>2. k[s] = h[Picked(s)] + k[s \ {Picked(s)}]
      BY <1>2, <1>4, SumStep
    <3> QED
      BY <3>1, <3>2
  <2>3. /\ f[Picked(s)] \in Int /\ h[Picked(s)] \in Int /\ h[x] \in Int /\ f[x] \in Int
        /\ g[s \ {Picked(s)}] \in Int
    BY <1>4, <2>1
  <2>4. CASE Picked(s) = x
    <3>1. k[s \ {Picked(s)}] = g[s \ {Picked(s)}]
      BY <1>4, <2>3, <2>4
    <3> QED
      BY <2>1, <2>2, <2>3, <2>4, <3>1
  <2>5. CASE Picked(s) # x
    <3>1. h[Picked(s)] = f[Picked(s)] /\ (x \in s \ {Picked(s)} <=> x \in s)
      BY <2>1, <2>5
    <3> QED
      BY <1>4, <2>2, <2>3, <3>1
  <2> QED
    BY <2>4, <2>5
<1>5. P = SUBSET S
  <2>1. P \in SUBSET SUBSET S
    OBVIOUS
  <2> HIDE DEF P
  <2> QED
    BY <1>3, <1>4, <2>1, SubsetsByInduction
<1>6. SumFunction(f) = g[S] /\ SumFunction(h) = k[S]
  BY <1>1, <1>2 DEF SumFunction
<1>7. S \in P
  BY <1>5
<1> QED
  BY <1>6, <1>7

\* One element of a function grows by d.
Grows(f, h, S, x, d) ==
  /\ f \in [S -> Int] /\ h \in [S -> Int] /\ h[x] = f[x] + d
  /\ \A y \in S : y # x => h[y] = f[y]

LEMMA SumGrows ==
  ASSUME NEW S, IsFiniteSet(S), NEW x \in S, NEW d \in Int, NEW f, NEW h, Grows(f, h, S, x, d)
  PROVE  SumFunction(h) = SumFunction(f) + d
<1>1. /\ f \in [S -> Int] /\ h \in [S -> Int] /\ h[x] = f[x] + d
      /\ \A y \in S : y # x => h[y] = f[y]
  BY DEF Grows
<1>2. SumFunction(h) = SumFunction(f) + (h[x] - f[x])
  BY <1>1, SumChange
<1>3. SumFunction(f) \in Int /\ f[x] \in Int
  BY <1>1, SumType
<1> QED
  BY <1>1, <1>2, <1>3

\* What the members of a set hold if each holds d and the others nothing.
LEMMA SumOfEqual ==
  ASSUME NEW S, IsFiniteSet(S), NEW T \in SUBSET S, NEW d \in Int
  PROVE  SumFunction([x \in S |-> IF x \in T THEN d ELSE 0]) = d * Cardinality(T)
<1> DEFINE f == [x \in S |-> IF x \in T THEN d ELSE 0]
<1>1. PICK g : Sums(g, f, S) /\ SumFunctionOnSet(f, S) = g[S]
  BY SumIsSums
<1> DEFINE P == {s \in SUBSET S : g[s] = d * Cardinality(s \cap T)}
<1>2. {} \in P
  <2>1. Cardinality({} \cap T) = 0
    BY FS_EmptySet
  <2> QED
    BY <1>1, <2>1, SumStep
<1>3. ASSUME NEW s \in SUBSET S, s # {}, s \ {Picked(s)} \in P PROVE s \in P
  <2> DEFINE r == s \ {Picked(s)}
  <2>1. Picked(s) \in s /\ Picked(s) \in S
    BY <1>3, PickedIsIn
  <2>2. g[s] = f[Picked(s)] + g[r]
    BY <1>1, <1>3, SumStep
  <2>3. IsFiniteSet(r \cap T) /\ Cardinality(r \cap T) \in Nat
    BY FS_Subset, FS_CardinalityType
  <2>4. g[r] = d * Cardinality(r \cap T)
    BY <1>3
  <2>5. CASE Picked(s) \in T
    <3>1. s \cap T = (r \cap T) \cup {Picked(s)} /\ Picked(s) \notin r \cap T
      BY <2>1, <2>5
    <3>2. Cardinality(s \cap T) = Cardinality(r \cap T) + 1
      BY <2>3, <3>1, FS_AddElement
    <3>3. f[Picked(s)] = d
      BY <2>1, <2>5
    <3>4. \A n \in Nat : d + d * n = d * (n + 1)
      OBVIOUS
    <3> HIDE DEF r, f
    <3> QED
      BY <2>2, <2>3, <2>4, <3>2, <3>3, <3>4
  <2>6. CASE Picked(s) \notin T
    <3>1. s \cap T = r \cap T
      BY <2>1, <2>6
    <3>2. f[Picked(s)] = 0
      BY <2>1, <2>6
    <3>3. \A n \in Nat : 0 + d * n = d * n
      OBVIOUS
    <3> HIDE DEF r, f
    <3> QED
      BY <2>2, <2>3, <2>4, <3>1, <3>2, <3>3
  <2> QED
    BY <2>5, <2>6
<1>4. P = SUBSET S
  <2>1. P \in SUBSET SUBSET S
    OBVIOUS
  <2> HIDE DEF P
  <2> QED
    BY <1>2, <1>3, <2>1, SubsetsByInduction
<1>5. SumFunction(f) = g[S]
  BY <1>1 DEF SumFunction
<1>6. S \in P /\ S \cap T = T
  BY <1>4
<1> QED
  BY <1>5, <1>6

-----------------------------------------------------------------------------
(***************************************************************************)
(* Lists in an order.                                                      *)
(***************************************************************************)

\* R orders S, and no member comes before itself.
Orders(R, S) ==
  /\ \A x \in S : <<x, x>> \notin R
  /\ \A x, y \in S : x = y \/ <<x, y>> \in R \/ <<y, x>> \in R
  /\ \A x, y, z \in S : <<x, y>> \in R /\ <<y, z>> \in R => <<x, z>> \in R

Earlier(x, R, S) == {y \in S : <<y, x>> \in R}

LEMMA BeforeCounts ==
  ASSUME NEW S, IsFiniteSet(S), NEW R, Orders(R, S)
  PROVE  /\ \A x \in S : Cardinality(Earlier(x, R, S)) \in 0 .. (Cardinality(S) - 1)
         /\ \A x, y \in S :
              <<x, y>> \in R => Cardinality(Earlier(x, R, S)) < Cardinality(Earlier(y, R, S))
<1>1. \A x \in S : IsFiniteSet(Earlier(x, R, S)) /\ Cardinality(Earlier(x, R, S)) \in Nat
  BY FS_Subset, FS_CardinalityType DEF Earlier
<1>2. Cardinality(S) \in Nat
  BY FS_CardinalityType
<1>3. ASSUME NEW x \in S PROVE Cardinality(Earlier(x, R, S)) <= Cardinality(S) - 1
  <2>1. Earlier(x, R, S) \in SUBSET (S \ {x})
    BY DEF Earlier, Orders
  <2>2. IsFiniteSet(S \ {x}) /\ Cardinality(S \ {x}) = Cardinality(S) - 1
    BY FS_RemoveElement
  <2> QED
    BY <2>1, <2>2, FS_Subset
<1>4. ASSUME NEW x \in S, NEW y \in S, <<x, y>> \in R
      PROVE  Cardinality(Earlier(x, R, S)) < Cardinality(Earlier(y, R, S))
  <2>1. Earlier(x, R, S) \cup {x} \in SUBSET Earlier(y, R, S) /\ x \notin Earlier(x, R, S)
    BY <1>4 DEF Earlier, Orders
  <2>2. Cardinality(Earlier(x, R, S) \cup {x}) = Cardinality(Earlier(x, R, S)) + 1
    BY <1>1, <2>1, FS_AddElement
  <2>3. Cardinality(Earlier(x, R, S) \cup {x}) <= Cardinality(Earlier(y, R, S))
    BY <1>1, <2>1, FS_Subset
  <2> QED
    BY <1>1, <2>2, <2>3
<1> QED
  BY <1>1, <1>2, <1>3, <1>4

\* InOrder lists every member once, and none before one that the order puts before it.
LEMMA InOrderLists ==
  ASSUME NEW S, IsFiniteSet(S), NEW R, Orders(R, S)
  PROVE  LET f == InOrder(S, R) IN
         /\ Cardinality(S) \in Nat /\ f \in [1 .. Cardinality(S) -> S]
         /\ \A x \in S : \E n \in 1 .. Cardinality(S) : f[n] = x
         /\ \A i, j \in 1 .. Cardinality(S) : i < j => <<f[i], f[j]>> \in R
<1> DEFINE f == InOrder(S, R)
           N == 1 .. Cardinality(S)
           rank == [x \in S |-> Cardinality(Earlier(x, R, S)) + 1]
<1>1. Cardinality(S) \in Nat
  BY FS_CardinalityType
<1>2. rank \in [S -> N]
  BY <1>1, BeforeCounts
<1>3. IsInjective(rank)
  <2> SUFFICES ASSUME NEW x \in S, NEW y \in S, rank[x] = rank[y] PROVE x = y
    BY DEF IsInjective
  <2>1. /\ Cardinality(Earlier(x, R, S)) \in Int /\ Cardinality(Earlier(y, R, S)) \in Int
        /\ <<x, y>> \in R => Cardinality(Earlier(x, R, S)) < Cardinality(Earlier(y, R, S))
        /\ <<y, x>> \in R => Cardinality(Earlier(y, R, S)) < Cardinality(Earlier(x, R, S))
    BY BeforeCounts
  <2> QED
    BY <2>1 DEF Orders
<1>4. IsFiniteSet(N) /\ Cardinality(N) = Cardinality(S)
  BY <1>1, FS_Interval
<1>5. rank \in Surjection(S, N)
  <2>1. rank \in Injection(S, N)
    BY <1>2, <1>3 DEF Injection
  <2> HIDE DEF rank, N
  <2> QED
    BY <1>4, <2>1, FS_Injection
<1>6. \A n \in N : \E x \in S : Cardinality(Earlier(x, R, S)) = n - 1
  <2> SUFFICES ASSUME NEW n \in N PROVE \E x \in S : Cardinality(Earlier(x, R, S)) = n - 1
    OBVIOUS
  <2>1. PICK x \in S : rank[x] = n
    BY <1>5 DEF Surjection
  <2>2. Cardinality(Earlier(x, R, S)) \in Int
    BY BeforeCounts
  <2> QED
    BY <2>1, <2>2
<1>7. \A n \in N : f[n] \in S /\ Cardinality(Earlier(f[n], R, S)) = n - 1
  <2> SUFFICES ASSUME NEW n \in N PROVE f[n] \in S /\ Cardinality(Earlier(f[n], R, S)) = n - 1
    OBVIOUS
  <2>1. f[n] = CHOOSE x \in S : Cardinality(Earlier(x, R, S)) = n - 1
    BY DEF InOrder, Earlier
  <2> QED
    BY <1>6, <2>1
<1>8. f \in [N -> S]
  BY <1>7 DEF InOrder
<1>9. ASSUME NEW x \in S PROVE \E n \in N : f[n] = x
  <2>1. rank[x] \in N /\ rank[x] - 1 = Cardinality(Earlier(x, R, S))
    BY <1>2, BeforeCounts
  <2>2. f[rank[x]] \in S /\ Cardinality(Earlier(f[rank[x]], R, S)) = rank[x] - 1
    BY <1>7, <2>1
  <2>3. rank[f[rank[x]]] = rank[x]
    BY <1>1, <2>1, <2>2
  <2> QED
    BY <1>3, <2>1, <2>2, <2>3 DEF IsInjective
<1>10. ASSUME NEW i \in N, NEW j \in N, i < j PROVE <<f[i], f[j]>> \in R
  <2>1. /\ f[i] \in S /\ Cardinality(Earlier(f[i], R, S)) = i - 1
        /\ f[j] \in S /\ Cardinality(Earlier(f[j], R, S)) = j - 1
    BY <1>7
  <2>2. <<f[j], f[i]>> \notin R /\ f[i] # f[j]
    BY <1>1, <1>10, <2>1, BeforeCounts
  <2> QED
    BY <2>1, <2>2 DEF Orders
<1> QED
  BY <1>1, <1>8, <1>9, <1>10

\* Those takes the items of a sequence that are in a set, each as often as it is there.
LEMMA ThoseList ==
  ASSUME NEW X, NEW s \in Seq(X), NEW S
  PROVE  /\ Those(s, S) \in Seq(X) /\ ToSet(Those(s, S)) = ToSet(s) \cap S
         /\ Len(Those(s, S)) = Cardinality({i \in DOMAIN s : s[i] \in S})
         /\ IsInjective(s) => IsInjective(Those(s, S))
<1> DEFINE its == {i \in DOMAIN s : s[i] \in S}
           R == {e \in its \X its : e[1] < e[2]}
           f == InOrder(its, R)
           n == Cardinality(its)
<1>1. DOMAIN s = 1 .. Len(s) /\ Len(s) \in Nat
  OBVIOUS
<1>2. IsFiniteSet(its)
  <2>1. IsFiniteSet(1 .. Len(s))
    BY <1>1, FS_Interval
  <2>2. its \in SUBSET (1 .. Len(s))
    BY <1>1
  <2> QED
    BY <2>1, <2>2, FS_Subset
<1>3. its \in SUBSET Nat
  BY <1>1
<1>4. Orders(R, its)
  BY <1>3 DEF Orders
<1>5. /\ n \in Nat /\ f \in [1 .. n -> its]
      /\ \A x \in its : \E i \in 1 .. n : f[i] = x
      /\ \A i, j \in 1 .. n : i < j => <<f[i], f[j]>> \in R
  <2> HIDE DEF its, R
  <2> QED
    BY <1>2, <1>4, InOrderLists
<1>6. Those(s, S) = [i \in 1 .. n |-> s[f[i]]]
  BY DEF Those
<1>7. \A i, j \in 1 .. n : i < j => f[i] < f[j]
  BY <1>5
<1>8. \A x \in its : x \in 1 .. Len(s) /\ s[x] \in S /\ s[x] \in X
  BY <1>1
<1>9. \A x \in 1 .. Len(s) : s[x] \in S => x \in its
  BY <1>1
<1> HIDE DEF its, R, f, n
<1>10. Those(s, S) \in Seq(X) /\ Len(Those(s, S)) = n /\ DOMAIN Those(s, S) = 1 .. n
  BY <1>5, <1>6, <1>8
<1>11. ToSet(Those(s, S)) = ToSet(s) \cap S
  <2>1. ASSUME NEW x \in ToSet(Those(s, S)) PROVE x \in ToSet(s) \cap S
    BY <1>1, <1>5, <1>6, <1>8, <1>10 DEF ToSet
  <2>2. ASSUME NEW x \in ToSet(s) \cap S PROVE x \in ToSet(Those(s, S))
    <3>1. PICK i \in 1 .. Len(s) : s[i] = x
      BY <1>1 DEF ToSet
    <3>2. PICK k \in 1 .. n : f[k] = i
      BY <1>5, <1>9, <3>1
    <3> QED
      BY <1>6, <1>10, <3>1, <3>2 DEF ToSet
  <2> QED
    BY <2>1, <2>2
<1>12. ASSUME IsInjective(s) PROVE IsInjective(Those(s, S))
  <2> SUFFICES ASSUME NEW i \in 1 .. n, NEW j \in 1 .. n, s[f[i]] = s[f[j]] PROVE i = j
    BY <1>6, <1>10 DEF IsInjective
  <2>1. f[i] = f[j] /\ f[i] \in Nat
    BY <1>1, <1>5, <1>8, <1>12 DEF IsInjective
  <2> QED
    BY <1>5, <1>7, <2>1
<1> QED
  BY <1>10, <1>11, <1>12 DEF n, its

\* Taking out an item that is there once makes a sequence shorter by one.
LEMMA ThoseButOne ==
  ASSUME NEW X, NEW s \in Seq(X), IsInjective(s), NEW x \in ToSet(s)
  PROVE  Len(Those(s, X \ {x})) = Len(s) - 1
<1>1. DOMAIN s = 1 .. Len(s) /\ Len(s) \in Nat
  OBVIOUS
<1>2. PICK k \in 1 .. Len(s) : s[k] = x
  BY <1>1 DEF ToSet
<1>3. {i \in DOMAIN s : s[i] \in X \ {x}} = (1 .. Len(s)) \ {k}
  BY <1>1, <1>2 DEF IsInjective
<1>4. IsFiniteSet(1 .. Len(s)) /\ Cardinality(1 .. Len(s)) = Len(s)
  BY <1>1, FS_Interval
<1>5. Cardinality((1 .. Len(s)) \ {k}) = Len(s) - 1
  BY <1>4, FS_RemoveElement
<1> QED
  BY <1>3, <1>5, ThoseList

\* Appending an item that is not there.
LEMMA AppendOne ==
  ASSUME NEW X, NEW s \in Seq(X), IsInjective(s), NEW x \in X, x \notin ToSet(s)
  PROVE  /\ Append(s, x) \in Seq(X) /\ Len(Append(s, x)) = Len(s) + 1
         /\ ToSet(Append(s, x)) = ToSet(s) \union {x} /\ IsInjective(Append(s, x))
<1>1. /\ Append(s, x) \in Seq(X) /\ Len(Append(s, x)) = Len(s) + 1 /\ Len(s) \in Nat
      /\ DOMAIN s = 1 .. Len(s) /\ DOMAIN Append(s, x) = 1 .. Len(s) + 1
      /\ \A k \in 1 .. Len(s) + 1 : Append(s, x)[k] = IF k <= Len(s) THEN s[k] ELSE x
  OBVIOUS
<1>2. \A k \in 1 .. Len(s) : s[k] # x
  BY <1>1 DEF ToSet
<1>3. IsInjective(Append(s, x))
  <2>1. ASSUME NEW i \in 1 .. Len(s) + 1, NEW j \in 1 .. Len(s) + 1, Append(s, x)[i] = Append(s, x)[j]
        PROVE  i = j
    BY <1>1, <1>2, <2>1 DEF IsInjective
  <2> QED
    BY <1>1, <2>1 DEF IsInjective
<1>4. ToSet(Append(s, x)) = ToSet(s) \union {x}
  <2>1. \A y \in ToSet(s) \union {x} : \E k \in 1 .. Len(s) + 1 : Append(s, x)[k] = y
    <3>1. \A k \in 1 .. Len(s) : k \in 1 .. Len(s) + 1 /\ Append(s, x)[k] = s[k]
      BY <1>1
    <3>2. Len(s) + 1 \in 1 .. Len(s) + 1 /\ Append(s, x)[Len(s) + 1] = x
      BY <1>1
    <3> QED
      BY <1>1, <3>1, <3>2 DEF ToSet
  <2>2. \A k \in 1 .. Len(s) + 1 : Append(s, x)[k] \in ToSet(s) \union {x}
    BY <1>1 DEF ToSet
  <2> QED
    BY <1>1, <2>1, <2>2 DEF ToSet
<1> QED
  BY <1>1, <1>3, <1>4

\* The items of a part of a sequence.
LEMMA SubSeqItems ==
  ASSUME NEW X, NEW s \in Seq(X), NEW a \in Nat \ {0}, NEW b \in Nat, b <= Len(s)
  PROVE  ToSet(SubSeq(s, a, b)) = {s[i] : i \in a .. b}
<1>1. Len(s) \in Nat
  OBVIOUS
<1>2. CASE a <= b
  <2>1. /\ DOMAIN SubSeq(s, a, b) = 1 .. b - a + 1
        /\ \A i \in 1 .. b - a + 1 : SubSeq(s, a, b)[i] = s[a + i - 1]
    BY <1>1, <1>2
  <2>2. \A i \in a .. b : i - a + 1 \in 1 .. b - a + 1 /\ a + (i - a + 1) - 1 = i
    OBVIOUS
  <2>3. \A i \in 1 .. b - a + 1 : a + i - 1 \in a .. b
    OBVIOUS
  <2>4. \A i \in a .. b : s[i] \in ToSet(SubSeq(s, a, b))
    BY <2>1, <2>2 DEF ToSet
  <2>5. \A x \in ToSet(SubSeq(s, a, b)) : \E i \in a .. b : s[i] = x
    BY <2>1, <2>3 DEF ToSet
  <2> QED
    BY <2>4, <2>5
<1>3. CASE b < a
  BY <1>1, <1>3 DEF ToSet
<1> QED
  BY <1>2, <1>3

\* Reverse keeps the items.
LEMMA ReverseList ==
  ASSUME NEW X, NEW s \in Seq(X)
  PROVE  /\ Reverse(s) \in Seq(X) /\ ToSet(Reverse(s)) = ToSet(s)
         /\ IsInjective(s) => IsInjective(Reverse(s))
<1>1. DOMAIN s = 1 .. Len(s) /\ Len(s) \in Nat
  OBVIOUS
<1>2. /\ Reverse(s) \in Seq(X) /\ DOMAIN Reverse(s) = 1 .. Len(s)
      /\ \A i \in 1 .. Len(s) : Reverse(s)[i] = s[Len(s) - i + 1] /\ Len(s) - i + 1 \in 1 .. Len(s)
  BY <1>1 DEF Reverse
<1>3. ToSet(Reverse(s)) \subseteq ToSet(s)
  BY <1>1, <1>2 DEF ToSet
<1>4. ASSUME NEW i \in 1 .. Len(s) PROVE s[i] \in ToSet(Reverse(s))
  <2>1. Len(s) - i + 1 \in 1 .. Len(s) /\ Reverse(s)[Len(s) - i + 1] = s[i]
    BY <1>1, <1>2
  <2> QED
    BY <1>2, <2>1 DEF ToSet
<1>5. IsInjective(s) => IsInjective(Reverse(s))
  BY <1>1, <1>2 DEF IsInjective
<1>6. ToSet(s) \subseteq ToSet(Reverse(s))
  BY <1>1, <1>4 DEF ToSet
<1> QED
  BY <1>2, <1>3, <1>5, <1>6

=============================================================================
