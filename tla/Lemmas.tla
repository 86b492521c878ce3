-------------------------------- MODULE Lemmas --------------------------------
(***************************************************************************)
(* Facts about natural numbers and finite sums that the proofs share.  The *)
(* library states induction for an operator; here it is stated for sets,   *)
(* as a consequence of the least element of a set, so that the provers can *)
(* instantiate it with the set of the numbers that have the property.      *)
(***************************************************************************)
EXTENDS Integers, Sequences, FiniteSets, Functions, FiniteSetTheorems,
        NaturalsInduction, WellFoundedInduction, TLAPS

\* A function on 1 .. m whose values are in C is a sequence of them.
LEMMA SequenceIs ==
    ASSUME NEW C, NEW m \in Nat, NEW o, DOMAIN o = 1 .. m,
           o = [k \in 1 .. m |-> o[k]], \A k \in 1 .. m : o[k] \in C
    PROVE  o \in Seq(C) /\ Len(o) = m
<1>1. o \in [1 .. m -> C]
  OBVIOUS
<1>2. QED
  BY <1>1

\* A set of natural numbers that is not empty has a least element: induction, for the proofs of this project.
LEMMA LeastElement ==
    ASSUME NEW T, T \subseteq Nat, T # {}
    PROVE  \E x \in T : \A y \in T : x <= y
<1> DEFINE R == OpToRel(<, Nat)
<1>1. IsWellFoundedOn(R, Nat)
  BY NatLessThanWellFounded
<1>2. R = {ss \in Nat \X Nat : ss[1] < ss[2]}
  BY DEF OpToRel
<1>3. \A x \in Nat, y \in Nat : y < x => <<y, x>> \in R
  BY <1>2
<1> HIDE DEF R
<1>4. PICK x \in T : \A y \in T : ~ (<<y, x>> \in R)
  BY <1>1, WFMin
<1>5. ASSUME NEW y \in T PROVE x <= y
  <2>1. x \in Nat /\ y \in Nat
    OBVIOUS
  <2>2. ~ (y < x)
    BY <1>3, <1>4, <2>1
  <2>3. QED
    BY <2>1, <2>2
<1>6. QED
  BY <1>5

\* Induction over a set: what holds zero and every successor holds all natural numbers.
LEMMA NaturalsInSet ==
    ASSUME NEW S, 0 \in S, \A n \in Nat : n \in S => n + 1 \in S
    PROVE  Nat \subseteq S
<1> DEFINE T == Nat \ S
<1>1. SUFFICES ASSUME T # {} PROVE FALSE
  OBVIOUS
<1>2. T \subseteq Nat
  OBVIOUS
<1> HIDE DEF T
<1>3. PICK x \in T : \A y \in T : x <= y
  BY <1>1, <1>2, LeastElement
<1>4. x \in Nat /\ x # 0 /\ x - 1 \in Nat /\ x - 1 \notin T
  BY <1>2, <1>3 DEF T
<1>5. QED
  BY <1>3, <1>4 DEF T

\* The same up to a number.
LEMMA StepsInSet ==
    ASSUME NEW m \in Nat, NEW S, 0 \in S, \A n \in 1 .. m : n - 1 \in S => n \in S
    PROVE  0 .. m \subseteq S
<1> DEFINE T == {n \in Nat : n <= m => n \in S}
<1>1. 0 \in T
  OBVIOUS
<1>2. ASSUME NEW n \in Nat, n \in T PROVE n + 1 \in T
  <2>1. n + 1 <= m => n + 1 \in 1 .. m /\ n <= m /\ (n + 1) - 1 = n
    OBVIOUS
  <2>2. QED
    BY <1>2, <2>1
<1>3. Nat \subseteq T
  <2> HIDE DEF T
  <2>1. QED
    BY <1>1, <1>2, NaturalsInSet
<1>4. QED
  BY <1>3

\* An element is put in front of a sequence.
LEMMA PrependIs ==
    ASSUME NEW S, NEW p \in Seq(S), NEW x \in S
    PROVE  /\ <<x>> \o p \in Seq(S) /\ DOMAIN (<<x>> \o p) = 1 .. Len(p) + 1
           /\ DOMAIN p = 1 .. Len(p) /\ Len(p) \in Nat /\ (<<x>> \o p)[1] = x
           /\ \A i \in DOMAIN p : (<<x>> \o p)[i + 1] = p[i]
           /\ \A i \in DOMAIN (<<x>> \o p) : i = 1 \/ (i - 1 \in DOMAIN p /\ (<<x>> \o p)[i] = p[i - 1])
OBVIOUS

\* A function on the natural numbers that is defined by its first value and by a step
\* from each value to the next exists.
LEMMA Iterates ==
    ASSUME NEW D, NEW step \in [D -> D], NEW a \in D
    PROVE  \E f \in [Nat -> D] : f[0] = a /\ \A k \in Nat : f[k + 1] = step[f[k]]
<1> DEFINE UpTo(n, g) == /\ g \in [0 .. n -> D] /\ g[0] = a
                         /\ \A k \in 0 .. n - 1 : g[k + 1] = step[g[k]]
           N == {n \in Nat : \E g : UpTo(n, g)}
           table(n) == CHOOSE g : UpTo(n, g)
           f == [n \in Nat |-> table(n)[n]]
<1>1. 0 \in N
  <2>1. UpTo(0, [k \in 0 .. 0 |-> a])
    OBVIOUS
  <2>2. QED
    BY <2>1
<1>2. ASSUME NEW n \in Nat, n \in N PROVE n + 1 \in N
  <2>1. PICK g : UpTo(n, g)
    BY <1>2
  <2> DEFINE h == [k \in 0 .. n + 1 |-> IF k = n + 1 THEN step[g[n]] ELSE g[k]]
  <2>2. g[n] \in D /\ h[0] = a /\ h \in [0 .. n + 1 -> D]
    BY <2>1
  <2>3. ASSUME NEW k \in 0 .. n PROVE h[k + 1] = step[h[k]]
    BY <2>1
  <2>4. UpTo(n + 1, h)
    BY <2>2, <2>3
  <2> HIDE DEF UpTo, h
  <2>5. QED
    BY <2>4
<1>3. Nat \subseteq N
  <2> HIDE DEF N
  <2>1. QED
    BY <1>1, <1>2, NaturalsInSet
<1>4. ASSUME NEW n \in Nat PROVE UpTo(n, table(n))
  <2>1. \E g : UpTo(n, g)
    BY <1>3
  <2> HIDE DEF UpTo
  <2>2. QED
    BY <2>1
<1> HIDE DEF table
<1>5. ASSUME NEW n \in Nat PROVE table(n + 1)[n] = table(n)[n]
  <2> DEFINE K == {k \in Nat : k <= n => table(n + 1)[k] = table(n)[k]}
  <2>1. UpTo(n, table(n)) /\ UpTo(n + 1, table(n + 1))
    BY <1>4
  <2>2. 0 \in K
    BY <2>1
  <2>3. ASSUME NEW k \in Nat, k \in K PROVE k + 1 \in K
    <3>1. SUFFICES ASSUME k + 1 <= n PROVE table(n + 1)[k + 1] = table(n)[k + 1]
      OBVIOUS
    <3>2. table(n + 1)[k] = table(n)[k]
      BY <2>3, <3>1
    <3>3. table(n)[k + 1] = step[table(n)[k]]
      BY <2>1, <3>1
    <3>4. table(n + 1)[k + 1] = step[table(n + 1)[k]]
      BY <2>1, <3>1
    <3>5. QED
      BY <3>2, <3>3, <3>4
  <2>4. Nat \subseteq K
    <3> HIDE DEF K
    <3>1. QED
      BY <2>2, <2>3, NaturalsInSet
  <2>5. QED
    BY <2>4
<1>6. ASSUME NEW n \in Nat PROVE f[n] \in D /\ f[n + 1] = step[f[n]]
  <2>1. f[n] = table(n)[n] /\ f[n + 1] = table(n + 1)[n + 1]
    OBVIOUS
  <2>2. table(n)[n] \in D /\ table(n + 1)[n + 1] = step[table(n + 1)[n]]
    BY <1>4
  <2>3. QED
    BY <1>5, <2>1, <2>2
<1>7. f[0] = a
  BY <1>4
<1>8. f \in [Nat -> D]
  BY <1>6
<1>9. QED
  BY <1>6, <1>7, <1>8
-----------------------------------------------------------------------------
\* Remainders.
LEMMA Quotient ==
    ASSUME NEW a \in Int, NEW m \in Nat, m > 0
    PROVE  (a \div m) \in Int /\ a % m \in 0 .. m - 1 /\ a = m * (a \div m) + (a % m)
BY SMTT(60)

\* f is the sequence of the iterates of step from a.
Iteration(f, D, step, a) ==
    f \in [Nat -> D] /\ f[0] = a /\ \A k \in Nat : f[k + 1] = step[f[k]]

\* A step that stays in a set can be repeated any number of times from a place in it.
LEMMA IterationExists ==
    ASSUME NEW D, NEW step \in [D -> D], NEW a \in D
    PROVE  \E f : Iteration(f, D, step, a)
BY Iterates, SMTT(120) DEF Iteration

\* What the n-th of m steps makes of what the one before it made.
Stepping(f, D, m, F, a) == /\ f \in [0 .. m -> D] /\ f[0] = a
                           /\ \A n \in 1 .. m : f[n] = F[n][f[n - 1]]

\* The results of m steps one after the other exist, each step of its own kind.
LEMMA StepsExist ==
    ASSUME NEW D, NEW m \in Nat, NEW F \in [1 .. m -> [D -> D]], NEW a \in D
    PROVE  \E f : Stepping(f, D, m, F, a)
<1> DEFINE E == Nat \X D
           step == [e \in E |-> <<e[1] + 1, IF e[1] < m THEN F[e[1] + 1][e[2]] ELSE e[2]>>]
<1>1. step \in [E -> E]
  <2>1. ASSUME NEW e \in E
        PROVE  <<e[1] + 1, IF e[1] < m THEN F[e[1] + 1][e[2]] ELSE e[2]>> \in E
    <3>1. e[1] \in Nat /\ e[2] \in D /\ e[1] + 1 \in Nat
      OBVIOUS
    <3>2. e[1] < m => F[e[1] + 1][e[2]] \in D
      <4>1. e[1] < m => e[1] + 1 \in 1 .. m
        BY <3>1
      <4>2. QED
        BY <3>1, <4>1
    <3>3. QED
      BY <3>1, <3>2
  <2>2. QED
    BY <2>1
<1>2. <<0, a>> \in E
  OBVIOUS
<1>3. \A e \in E : step[e] = <<e[1] + 1, IF e[1] < m THEN F[e[1] + 1][e[2]] ELSE e[2]>>
  OBVIOUS
<1> HIDE DEF step
<1>4. PICK h : Iteration(h, E, step, <<0, a>>)
  <2> HIDE DEF E
  <2>1. QED
    BY <1>1, <1>2, IterationExists
<1>5. h \in [Nat -> E] /\ h[0] = <<0, a>> /\ \A k \in Nat : h[k + 1] = step[h[k]]
  BY <1>4 DEF Iteration
<1>6. \A k \in Nat : h[k][1] = k
  <2> DEFINE K == {k \in Nat : h[k][1] = k}
  <2>1. 0 \in K
    BY <1>5
  <2>2. ASSUME NEW k \in Nat, k \in K PROVE k + 1 \in K
    <3>1. h[k] \in E /\ h[k + 1] = step[h[k]]
      BY <1>5
    <3>2. h[k + 1][1] = h[k][1] + 1
      BY <1>3, <3>1
    <3>3. QED
      BY <2>2, <3>2
  <2> HIDE DEF K
  <2>3. Nat \subseteq K
    BY <2>1, <2>2, NaturalsInSet
  <2>4. QED
    BY <2>3 DEF K
<1> DEFINE f == [n \in 0 .. m |-> h[n][2]]
<1>7. f \in [0 .. m -> D]
  <2>1. ASSUME NEW n \in 0 .. m PROVE h[n][2] \in D
    <3>1. n \in Nat
      OBVIOUS
    <3>2. h[n] \in E
      BY <1>5, <3>1
    <3>3. QED
      BY <3>2
  <2>2. QED
    BY <2>1
<1>8. f[0] = a
  BY <1>5
<1>9. ASSUME NEW n \in 1 .. m PROVE f[n] = F[n][f[n - 1]]
  <2>1. PICK k \in Nat : k = n - 1 /\ n = k + 1 /\ k < m /\ k \in 0 .. m /\ n \in 0 .. m
    OBVIOUS
  <2>2. h[k] \in E /\ h[k][1] = k /\ h[k + 1] = step[h[k]]
    BY <1>5, <1>6
  <2>3. h[k + 1][2] = F[k + 1][h[k][2]]
    BY <1>3, <2>1, <2>2
  <2>4. f[n] = h[k + 1][2] /\ f[k] = h[k][2]
    BY <2>1
  <2>5. QED
    BY <2>1, <2>3, <2>4
<1> HIDE DEF f
<1>10. Stepping(f, D, m, F, a)
  BY <1>7, <1>8, <1>9 DEF Stepping
<1>11. QED
  BY <1>10

\* A number below the modulus is its own remainder.
LEMMA SmallRemainder ==
    ASSUME NEW a \in Nat, NEW m \in Nat, a < m
    PROVE  a % m = a
OBVIOUS

\* Two congruent numbers that both lie below the modulus are equal.
LEMMA CloseCongruent ==
    ASSUME NEW a \in Int, NEW b \in Int, NEW k \in Int, NEW m \in Nat,
           0 <= a, 0 <= b, a < m, b < m, a = b + m * k
    PROVE  a = b
OBVIOUS

\* Numbers that differ by a multiple of the modulus have one remainder.
LEMMA Congruent ==
    ASSUME NEW a \in Int, NEW b \in Int, NEW m \in Nat, m > 0,
           \E k \in Int : a = b + m * k
    PROVE  a % m = b % m
<1>0. PICK k \in Int : a = b + m * k
  OBVIOUS
<1> DEFINE r == a % m
           s == b % m
           p == a \div m
           q == b \div m
<1>1. /\ r \in 0 .. m - 1 /\ s \in 0 .. m - 1 /\ p \in Int /\ q \in Int
      /\ a = m * p + r /\ b = m * q + s
  BY Quotient
<1> HIDE DEF r, s, p, q
<1>2. r = s + m * (k + q - p) /\ k + q - p \in Int
  BY <1>0, <1>1
<1>3. r = s
  BY <1>1, <1>2, CloseCongruent
<1>4. QED
  BY <1>3 DEF r, s
-----------------------------------------------------------------------------
\* Sums of a function over a finite set: SumFunctionOnSet is a fold whose table of
\* partial sums is shown to exist first.
Chosen(s) == CHOOSE x \in s : TRUE
IsSumTable(f, S, g) == g = [s \in SUBSET S |-> IF s = {} THEN 0 ELSE f[Chosen(s)] + g[s \ {Chosen(s)}]]

\* The sum of the library is the last entry of the table it chooses.
LEMMA SumIsChosen ==
    ASSUME NEW f, NEW S
    PROVE  SumFunctionOnSet(f, S) = (CHOOSE g : IsSumTable(f, S, g))[S]
BY DEF SumFunctionOnSet, FoldFunctionOnSet, MapThenFoldSet, IsSumTable, Chosen

\* A table of the sums over the subsets of a finite set exists: over those of up to n
\* elements for every n.
SubsetsUpTo(S, n) == {s \in SUBSET S : Cardinality(s) <= n}
IsPartialTable(f, S, n, g) ==
    g = [s \in SubsetsUpTo(S, n) |-> IF s = {} THEN 0 ELSE f[Chosen(s)] + g[s \ {Chosen(s)}]]

\* Without its chosen element a finite set is finite and smaller by one.
LEMMA Smaller ==
    ASSUME NEW S, IsFiniteSet(S), S # {}
    PROVE  /\ Chosen(S) \in S /\ IsFiniteSet(S \ {Chosen(S)})
           /\ Cardinality(S) \in Nat \ {0}
           /\ Cardinality(S \ {Chosen(S)}) = Cardinality(S) - 1
<1>1. Chosen(S) \in S
  BY DEF Chosen
<1>2. QED
  BY <1>1, FS_RemoveElement, FS_CardinalityType, FS_EmptySet

\* There is a table of the sums of all subsets of up to n elements.
LEMMA TablesExist ==
    ASSUME NEW f, NEW S, IsFiniteSet(S), NEW n \in Nat
    PROVE  \E g : IsPartialTable(f, S, n, g)
<1> DEFINE N == {m \in Nat : \E g : IsPartialTable(f, S, m, g)}
<1>0. \A s \in SUBSET S : IsFiniteSet(s) /\ Cardinality(s) \in Nat
  BY FS_Subset, FS_CardinalityType
<1>1. 0 \in N
  <2> DEFINE g == [s \in SubsetsUpTo(S, 0) |-> 0]
  <2>1. \A s \in SubsetsUpTo(S, 0) : s = {}
    BY <1>0, FS_EmptySet DEF SubsetsUpTo
  <2>2. IsPartialTable(f, S, 0, g)
    BY <2>1 DEF IsPartialTable
  <2>3. QED
    BY <2>2
<1>2. ASSUME NEW m \in Nat, m \in N PROVE m + 1 \in N
  <2>1. PICK g : IsPartialTable(f, S, m, g)
    BY <1>2
  <2> DEFINE h == [s \in SubsetsUpTo(S, m + 1) |->
                     IF s \in SubsetsUpTo(S, m) THEN g[s] ELSE f[Chosen(s)] + g[s \ {Chosen(s)}]]
  <2>2. ASSUME NEW s \in SubsetsUpTo(S, m + 1)
        PROVE  h[s] = IF s = {} THEN 0 ELSE f[Chosen(s)] + h[s \ {Chosen(s)}]
    <3>1. CASE s = {}
      <4>1. s \in SubsetsUpTo(S, m)
        BY <3>1, FS_EmptySet DEF SubsetsUpTo
      <4>2. g[s] = 0
        BY <2>1, <3>1, <4>1 DEF IsPartialTable
      <4>3. QED
        BY <3>1, <4>1, <4>2
    <3>2. CASE s # {}
      <4> DEFINE t == s \ {Chosen(s)}
      <4>1. /\ Cardinality(s) \in Nat \ {0} /\ Cardinality(t) = Cardinality(s) - 1
            /\ t \in SUBSET S /\ Cardinality(s) <= m + 1
        BY <1>0, <3>2, Smaller DEF SubsetsUpTo
      <4>2. t \in SubsetsUpTo(S, m) /\ t \in SubsetsUpTo(S, m + 1)
        BY <4>1 DEF SubsetsUpTo
      <4>3. h[t] = g[t]
        BY <4>2
      <4>4. s \in SubsetsUpTo(S, m) => g[s] = f[Chosen(s)] + g[t]
        BY <2>1, <3>2 DEF IsPartialTable
      <4>5. h[s] = f[Chosen(s)] + g[t]
        BY <4>4
      <4>6. QED
        BY <3>2, <4>3, <4>5
    <3>3. QED
      BY <3>1, <3>2
  <2>3. IsPartialTable(f, S, m + 1, h)
    <3> HIDE DEF h
    <3>1. h = [s \in SubsetsUpTo(S, m + 1) |-> h[s]]
      BY DEF h
    <3>2. QED
      BY <2>2, <3>1 DEF IsPartialTable
  <2>4. QED
    BY <2>3
<1> HIDE DEF N
<1>3. Nat \subseteq N
  BY <1>1, <1>2, NaturalsInSet
<1>4. QED
  BY <1>3 DEF N

\* There is a table of the sums of all subsets, so the one that is chosen is a table.
LEMMA SumsExist ==
    ASSUME NEW f, NEW S, IsFiniteSet(S)
    PROVE  IsSumTable(f, S, CHOOSE g : IsSumTable(f, S, g))
<1> DEFINE n == Cardinality(S)
<1>1. n \in Nat
  BY FS_CardinalityType
<1>2. SubsetsUpTo(S, n) = SUBSET S
  BY FS_Subset DEF SubsetsUpTo
<1>3. PICK g : IsPartialTable(f, S, n, g)
  BY <1>1, TablesExist
<1>4. IsSumTable(f, S, g)
  BY <1>2, <1>3 DEF IsSumTable, IsPartialTable
<1>5. QED
  BY <1>4

\* Two tables agree where both are defined.
LEMMA SumsAgree ==
    ASSUME NEW f, NEW S, IsFiniteSet(S), NEW T \in SUBSET S,
           NEW g, IsSumTable(f, S, g), NEW h, IsSumTable(f, T, h)
    PROVE  g[T] = h[T]
<1> DEFINE N == {m \in Nat : \A s \in SUBSET T : Cardinality(s) = m => g[s] = h[s]}
<1>0. \A s \in SUBSET T : IsFiniteSet(s) /\ Cardinality(s) \in Nat /\ s \in SUBSET S
  BY FS_Subset, FS_CardinalityType
<1>1. 0 \in N
  <2>1. ASSUME NEW s \in SUBSET T, Cardinality(s) = 0 PROVE g[s] = h[s]
    <3>1. s = {}
      BY <1>0, <2>1, FS_EmptySet
    <3>2. QED
      BY <1>0, <3>1 DEF IsSumTable
  <2>2. QED
    BY <2>1
<1>2. ASSUME NEW m \in Nat, m \in N PROVE m + 1 \in N
  <2>1. ASSUME NEW s \in SUBSET T, Cardinality(s) = m + 1 PROVE g[s] = h[s]
    <3> DEFINE t == s \ {Chosen(s)}
    <3>1. s # {}
      BY <2>1, FS_EmptySet
    <3>2. t \in SUBSET T /\ Cardinality(t) = m
      BY <1>0, <2>1, <3>1, Smaller
    <3>3. g[t] = h[t]
      BY <1>2, <3>2
    <3>4. g[s] = f[Chosen(s)] + g[t] /\ h[s] = f[Chosen(s)] + h[t]
      BY <1>0, <3>1 DEF IsSumTable
    <3>5. QED
      BY <3>3, <3>4
  <2>2. QED
    BY <2>1
<1> HIDE DEF N
<1>3. Nat \subseteq N
  BY <1>1, <1>2, NaturalsInSet
<1>4. Cardinality(T) \in N
  BY <1>0, <1>3
<1>5. QED
  BY <1>4 DEF N

\* A sum is its chosen term and the sum of the others.
LEMMA SumUnfolds ==
    ASSUME NEW f, NEW S, IsFiniteSet(S), S # {}
    PROVE  SumFunctionOnSet(f, S) = f[Chosen(S)] + SumFunctionOnSet(f, S \ {Chosen(S)})
<1> DEFINE T == S \ {Chosen(S)}
           g == CHOOSE x : IsSumTable(f, S, x)
           h == CHOOSE x : IsSumTable(f, T, x)
<1>1. IsFiniteSet(T) /\ T \in SUBSET S
  BY Smaller
<1>2. IsSumTable(f, S, g) /\ IsSumTable(f, T, h)
  BY <1>1, SumsExist
<1>3. SumFunctionOnSet(f, S) = g[S] /\ SumFunctionOnSet(f, T) = h[T]
  BY SumIsChosen
<1> HIDE DEF g, h
<1>4. g[T] = h[T]
  BY <1>1, <1>2, SumsAgree
<1>5. g[S] = f[Chosen(S)] + g[T]
  BY <1>2 DEF IsSumTable
<1>6. QED
  BY <1>3, <1>4, <1>5

\* The sum of no terms is zero.
LEMMA SumOfNone == ASSUME NEW f PROVE SumFunctionOnSet(f, {}) = 0
BY FS_EmptySet, SumIsChosen, SumsExist DEF IsSumTable

\* Induction on the number of elements, for a set of subsets.
LEMMA SubsetInduction ==
    ASSUME NEW S, IsFiniteSet(S), NEW P, {} \in P,
           \A T \in SUBSET S : T # {} /\ T \ {Chosen(T)} \in P => T \in P
    PROVE  S \in P
<1> DEFINE N == {m \in Nat : \A s \in SUBSET S : Cardinality(s) = m => s \in P}
<1>0. \A s \in SUBSET S : IsFiniteSet(s) /\ Cardinality(s) \in Nat
  BY FS_Subset, FS_CardinalityType
<1>1. 0 \in N
  BY <1>0, FS_EmptySet
<1>2. ASSUME NEW m \in Nat, m \in N PROVE m + 1 \in N
  <2>1. ASSUME NEW s \in SUBSET S, Cardinality(s) = m + 1 PROVE s \in P
    <3>1. s # {}
      BY <2>1, FS_EmptySet
    <3>2. s \ {Chosen(s)} \in SUBSET S /\ Cardinality(s \ {Chosen(s)}) = m
      BY <1>0, <2>1, <3>1, Smaller
    <3>3. QED
      BY <1>2, <3>1, <3>2
  <2>2. QED
    BY <2>1
<1> HIDE DEF N
<1>3. Nat \subseteq N
  BY <1>1, <1>2, NaturalsInSet
<1>4. Cardinality(S) \in N
  BY <1>0, <1>3
<1>5. QED
  BY <1>4 DEF N

\* A sum of integers is an integer.
LEMMA SumInt ==
    ASSUME NEW S, IsFiniteSet(S), NEW f, \A x \in S : f[x] \in Int
    PROVE  SumFunctionOnSet(f, S) \in Int
<1> DEFINE P == {T \in SUBSET S : SumFunctionOnSet(f, T) \in Int}
<1>1. {} \in P
  BY SumOfNone
<1>2. ASSUME NEW T \in SUBSET S, T # {}, T \ {Chosen(T)} \in P PROVE T \in P
  <2>1. IsFiniteSet(T) /\ Chosen(T) \in T
    BY <1>2, FS_Subset DEF Chosen
  <2>2. SumFunctionOnSet(f, T) = f[Chosen(T)] + SumFunctionOnSet(f, T \ {Chosen(T)})
    BY <1>2, <2>1, SumUnfolds
  <2>3. QED
    BY <1>2, <2>1, <2>2
<1> HIDE DEF P
<1>3. S \in P
  BY <1>1, <1>2, SubsetInduction
<1>4. QED
  BY <1>3 DEF P

\* A sum of natural numbers is a natural number.
LEMMA SumNat ==
    ASSUME NEW S, IsFiniteSet(S), NEW f, \A x \in S : f[x] \in Nat
    PROVE  SumFunctionOnSet(f, S) \in Nat
<1> DEFINE P == {T \in SUBSET S : SumFunctionOnSet(f, T) \in Nat}
<1>1. {} \in P
  BY SumOfNone
<1>2. ASSUME NEW T \in SUBSET S, T # {}, T \ {Chosen(T)} \in P PROVE T \in P
  <2>1. IsFiniteSet(T) /\ Chosen(T) \in T
    BY <1>2, FS_Subset DEF Chosen
  <2>2. SumFunctionOnSet(f, T) = f[Chosen(T)] + SumFunctionOnSet(f, T \ {Chosen(T)})
    BY <1>2, <2>1, SumUnfolds
  <2>3. QED
    BY <1>2, <2>1, <2>2
<1> HIDE DEF P
<1>3. S \in P
  BY <1>1, <1>2, SubsetInduction
<1>4. QED
  BY <1>3 DEF P

\* A sum depends on the terms over its set only.
LEMMA SumSame ==
    ASSUME NEW S, IsFiniteSet(S), NEW f, NEW g, \A x \in S : f[x] = g[x]
    PROVE  SumFunctionOnSet(f, S) = SumFunctionOnSet(g, S)
<1> DEFINE P == {T \in SUBSET S : SumFunctionOnSet(f, T) = SumFunctionOnSet(g, T)}
<1>1. {} \in P
  BY SumOfNone
<1>2. ASSUME NEW T \in SUBSET S, T # {}, T \ {Chosen(T)} \in P PROVE T \in P
  <2>1. IsFiniteSet(T) /\ Chosen(T) \in S
    BY <1>2, FS_Subset DEF Chosen
  <2>2. /\ SumFunctionOnSet(f, T) = f[Chosen(T)] + SumFunctionOnSet(f, T \ {Chosen(T)})
        /\ SumFunctionOnSet(g, T) = g[Chosen(T)] + SumFunctionOnSet(g, T \ {Chosen(T)})
    BY <1>2, <2>1, SumUnfolds
  <2>3. QED
    BY <1>2, <2>1, <2>2
<1> HIDE DEF P
<1>3. S \in P
  BY <1>1, <1>2, SubsetInduction
<1>4. QED
  BY <1>3 DEF P

\* A sum of zeros is zero.
LEMMA SumOfZeros ==
    ASSUME NEW S, IsFiniteSet(S), NEW f, \A x \in S : f[x] = 0
    PROVE  SumFunctionOnSet(f, S) = 0
<1> DEFINE P == {T \in SUBSET S : SumFunctionOnSet(f, T) = 0}
<1>1. {} \in P
  BY SumOfNone
<1>2. ASSUME NEW T \in SUBSET S, T # {}, T \ {Chosen(T)} \in P PROVE T \in P
  <2>1. IsFiniteSet(T) /\ Chosen(T) \in S
    BY <1>2, FS_Subset DEF Chosen
  <2>2. SumFunctionOnSet(f, T) = f[Chosen(T)] + SumFunctionOnSet(f, T \ {Chosen(T)})
    BY <1>2, <2>1, SumUnfolds
  <2>3. QED
    BY <1>2, <2>1, <2>2
<1> HIDE DEF P
<1>3. S \in P
  BY <1>1, <1>2, SubsetInduction
<1>4. QED
  BY <1>3 DEF P

\* Any term may be taken out of a sum, whichever is chosen first.
LEMMA SumRemove ==
    ASSUME NEW S, IsFiniteSet(S), NEW f, \A x \in S : f[x] \in Int, NEW a \in S
    PROVE  SumFunctionOnSet(f, S) = f[a] + SumFunctionOnSet(f, S \ {a})
<1> DEFINE P == {T \in SUBSET S :
                   \A x \in T : SumFunctionOnSet(f, T) = f[x] + SumFunctionOnSet(f, T \ {x})}
           N == {m \in Nat : \A T \in SUBSET S : Cardinality(T) = m => T \in P}
<1>0. \A s \in SUBSET S : /\ IsFiniteSet(s) /\ Cardinality(s) \in Nat
                          /\ SumFunctionOnSet(f, s) \in Int
  BY FS_Subset, FS_CardinalityType, SumInt
<1>1. 0 \in N
  BY <1>0, FS_EmptySet
<1>2. ASSUME NEW m \in Nat, m \in N PROVE m + 1 \in N
  <2>1. ASSUME NEW T \in SUBSET S, Cardinality(T) = m + 1, NEW x \in T
        PROVE  SumFunctionOnSet(f, T) = f[x] + SumFunctionOnSet(f, T \ {x})
    <3> DEFINE c == Chosen(T)
    <3>1. c \in T
      BY DEF Chosen
    <3>2. SumFunctionOnSet(f, T) = f[c] + SumFunctionOnSet(f, T \ {c})
      BY <1>0, SumUnfolds
    <3> HIDE DEF c
    <3>3. CASE x = c
      BY <3>2, <3>3
    <3>4. CASE x # c
      <4>1. /\ T \ {c} \in SUBSET S /\ Cardinality(T \ {c}) = m
            /\ T \ {x} \in SUBSET S /\ Cardinality(T \ {x}) = m
        <5>1. IsFiniteSet(T) /\ Cardinality(T) = m + 1
          BY <1>0, <2>1
        <5>2. /\ Cardinality(T \ {c}) = Cardinality(T) - 1
              /\ Cardinality(T \ {x}) = Cardinality(T) - 1
          BY <3>1, <5>1, FS_RemoveElement
        <5>3. QED
          BY <5>1, <5>2
      <4>2. T \ {c} \in P /\ T \ {x} \in P
        BY <1>2, <4>1
      <4>3. SumFunctionOnSet(f, T \ {c}) = f[x] + SumFunctionOnSet(f, (T \ {c}) \ {x})
        BY <3>4, <4>2
      <4>4. SumFunctionOnSet(f, T \ {x}) = f[c] + SumFunctionOnSet(f, (T \ {x}) \ {c})
        BY <3>1, <3>4, <4>2
      <4>5. (T \ {x}) \ {c} = (T \ {c}) \ {x}
        OBVIOUS
      <4> DEFINE rest == SumFunctionOnSet(f, (T \ {c}) \ {x})
                 less == SumFunctionOnSet(f, T \ {c})
      <4>6. rest \in Int /\ f[x] \in Int /\ f[c] \in Int
        BY <1>0, <3>1
      <4>7. /\ SumFunctionOnSet(f, T) = f[c] + less /\ less = f[x] + rest
            /\ SumFunctionOnSet(f, T \ {x}) = f[c] + rest
        BY <3>2, <4>3, <4>4, <4>5
      <4> HIDE DEF rest, less
      <4>8. QED
        BY <4>6, <4>7
    <3>5. QED
      BY <3>3, <3>4
  <2>2. QED
    BY <2>1
<1> HIDE DEF N
<1>3. Nat \subseteq N
  BY <1>1, <1>2, NaturalsInSet
<1>4. Cardinality(S) \in N
  BY <1>0, <1>3
<1>5. S \in P
  BY <1>4 DEF N
<1>6. QED
  BY <1>5

\* A further element adds its term.
LEMMA SumAdd ==
    ASSUME NEW S, IsFiniteSet(S), NEW a, a \notin S, NEW f, \A x \in S \cup {a} : f[x] \in Int
    PROVE  SumFunctionOnSet(f, S \cup {a}) = f[a] + SumFunctionOnSet(f, S)
<1>1. IsFiniteSet(S \cup {a}) /\ (S \cup {a}) \ {a} = S
  BY FS_AddElement
<1>2. QED
  BY <1>1, SumRemove

\* The sum over two disjoint sets is the sum of both sums.
LEMMA SumUnion ==
    ASSUME NEW S, IsFiniteSet(S), NEW T, IsFiniteSet(T), S \cap T = {},
           NEW f, \A x \in S \cup T : f[x] \in Int
    PROVE  SumFunctionOnSet(f, S \cup T) = SumFunctionOnSet(f, S) + SumFunctionOnSet(f, T)
<1> DEFINE P == {U \in SUBSET T : SumFunctionOnSet(f, S \cup U)
                                     = SumFunctionOnSet(f, S) + SumFunctionOnSet(f, U)}
<1>0. SumFunctionOnSet(f, S) \in Int
  BY SumInt
<1>1. {} \in P
  <2>1. S \cup {} = S
    OBVIOUS
  <2>2. QED
    BY <1>0, <2>1, SumOfNone
<1>2. ASSUME NEW U \in SUBSET T, U # {}, U \ {Chosen(U)} \in P PROVE U \in P
  <2> DEFINE c == Chosen(U)
             V == U \ {c}
  <2>1. c \in U /\ c \notin S
    BY <1>2 DEF Chosen
  <2> HIDE DEF c
  <2>2. V \in P
    BY <1>2 DEF c
  <2>3. IsFiniteSet(U) /\ IsFiniteSet(V) /\ IsFiniteSet(S \cup V) /\ SumFunctionOnSet(f, V) \in Int
    BY FS_Subset, FS_Union, SumInt
  <2>4. SumFunctionOnSet(f, U) = f[c] + SumFunctionOnSet(f, V)
    BY <2>1, <2>3, SumRemove
  <2>5. S \cup U = (S \cup V) \cup {c} /\ c \notin S \cup V /\ \A x \in (S \cup V) \cup {c} : f[x] \in Int
    BY <2>1
  <2>6. SumFunctionOnSet(f, S \cup U) = f[c] + SumFunctionOnSet(f, S \cup V)
    BY <2>3, <2>5, SumAdd
  <2>7. QED
    BY <1>0, <2>1, <2>2, <2>3, <2>4, <2>6
<1> HIDE DEF P
<1>3. T \in P
  BY <1>1, <1>2, SubsetInduction
<1>4. QED
  BY <1>3 DEF P

\* One value changes.
LEMMA SumExcept ==
    ASSUME NEW S, IsFiniteSet(S), NEW f, NEW g, NEW a \in S,
           \A x \in S : f[x] \in Int, g[a] \in Int, \A x \in S \ {a} : g[x] = f[x]
    PROVE  SumFunctionOnSet(g, S) = SumFunctionOnSet(f, S) - f[a] + g[a]
<1>1. IsFiniteSet(S \ {a}) /\ SumFunctionOnSet(f, S \ {a}) \in Int
  BY FS_RemoveElement, SumInt
<1>2. SumFunctionOnSet(f, S \ {a}) = SumFunctionOnSet(g, S \ {a})
  BY <1>1, SumSame
<1>3. SumFunctionOnSet(f, S) = f[a] + SumFunctionOnSet(f, S \ {a})
  BY SumRemove
<1>4. SumFunctionOnSet(g, S) = g[a] + SumFunctionOnSet(g, S \ {a})
  BY SumRemove
<1>5. QED
  BY <1>1, <1>2, <1>3, <1>4
=============================================================================
