----------------------------- MODULE LabelsProofs -----------------------------
(***************************************************************************)
(* For any names, functions and numbers of directives and labels, in any   *)
(* order: equivalent names denote one object, unless the module fails at   *)
(* its end because it misled a name, and a module that is accepted is      *)
(* linked as it was written.                                               *)
(***************************************************************************)
EXTENDS Labels, Lemmas

Marks == {"defined", "entry", "placed", "extern"}
Kinds == {"function", "specifier"}
Ops == {"EMPTY", "SWAP", "SPEC", "CLL", "WSPC", "BLF", "SJUMP", "FAIL"}
Info == [is : {"label"}, value : Label] \cup [is : {"address", "import"}, value : Nat]
Item == [op : Ops, to : Label \cup {None}]
Tables == [mode : [Label -> SUBSET Marks], info : [Label -> Info], code : Seq(Item)]
-----------------------------------------------------------------------------
(* What the object code writers do to a table *)

\* The labels are finitely many, and neither of the two values that are no labels is one.
LEMMA LabelsAre == /\ IsFiniteSet(Label) /\ Cardinality(Label) \in Nat
                   /\ None \notin Label /\ Wild \notin Label
                   /\ Name \subseteq Label /\ 1 .. MaxInfo \subseteq Label
                   /\ Name \cap 1 .. MaxInfo = {} /\ MaxInfo \in Nat
<1>1. IsFiniteSet(1 .. MaxInfo)
  BY LabelsAssumption, FS_Interval
<1>2. IsFiniteSet(Label)
  BY <1>1, LabelsAssumption, FS_Union DEF Label
<1>3. Cardinality(Label) \in Nat
  BY <1>2, FS_CardinalityType
<1>4. QED
  BY <1>2, <1>3, LabelsAssumption DEF Label

\* The parts of a table.
LEMMA TableIs ==
    ASSUME NEW t \in Tables
    PROVE  /\ t.mode \in [Label -> SUBSET Marks] /\ t.info \in [Label -> Info]
           /\ t.code \in Seq(Item) /\ Len(t.code) \in Nat
           /\ t = [mode |-> t.mode, info |-> t.info, code |-> t.code]
BY DEF Tables

\* An operator is written behind the code.
LEMMA EmitIs ==
    ASSUME NEW t \in Tables, NEW op \in Ops, NEW to \in Label \cup {None}
    PROVE  /\ Emit(t, op, to) \in Tables
           /\ Emit(t, op, to).mode = t.mode /\ Emit(t, op, to).info = t.info
           /\ Emit(t, op, to).code = Append(t.code, [op |-> op, to |-> to])
<1> DEFINE c == Append(t.code, [op |-> op, to |-> to])
<1>1. c \in Seq(Item)
  <2>1. [op |-> op, to |-> to] \in Item
    BY DEF Item
  <2>2. QED
    BY <2>1, TableIs
<1>2. Emit(t, op, to) = [mode |-> t.mode, info |-> t.info, code |-> c]
  <2>1. t = [mode |-> t.mode, info |-> t.info, code |-> t.code]
    BY TableIs
  <2>2. QED
    BY <2>1, SMTT(20) DEF Emit
<1> HIDE DEF c
<1>3. [mode |-> t.mode, info |-> t.info, code |-> c] \in Tables
  BY <1>1, TableIs DEF Tables
<1>4. QED
  BY <1>2, <1>3 DEF c

\* A label is given a new mode and a new meaning.
Changed(t, l, m, i) == [t EXCEPT !.mode[l] = @ \cup m, !.info[l] = i]

\* What it changes, and that the rest stays.
LEMMA ChangedIs ==
    ASSUME NEW t \in Tables, NEW l \in Label, NEW m, NEW i \in Info, m \subseteq Marks
    PROVE  /\ Changed(t, l, m, i) \in Tables /\ Changed(t, l, m, i).code = t.code
           /\ Changed(t, l, m, i).mode[l] = t.mode[l] \cup m
           /\ Changed(t, l, m, i).info[l] = i
           /\ \A x \in Label \ {l} : /\ Changed(t, l, m, i).mode[x] = t.mode[x]
                                     /\ Changed(t, l, m, i).info[x] = t.info[x]
<1> DEFINE a == [t.mode EXCEPT ![l] = t.mode[l] \cup m]
           b == [t.info EXCEPT ![l] = i]
<1>1. /\ a \in [Label -> SUBSET Marks] /\ a[l] = t.mode[l] \cup m
      /\ \A x \in Label \ {l} : a[x] = t.mode[x]
  BY TableIs
<1>2. b \in [Label -> Info] /\ b[l] = i /\ \A x \in Label \ {l} : b[x] = t.info[x]
  BY TableIs
<1>3. Changed(t, l, m, i) \in Tables
  BY <1>1, <1>2 DEF Changed, Tables
<1>4. /\ Changed(t, l, m, i).code = t.code
      /\ Changed(t, l, m, i).mode = a /\ Changed(t, l, m, i).info = b
  BY DEF Changed, Tables
<1> HIDE DEF a, b
<1>5. QED
  BY <1>1, <1>2, <1>3, <1>4

\* The code that follows belongs to a label.
LEMMA PlaceIs ==
    ASSUME NEW t \in Tables, NEW l \in Label
    PROVE  /\ Place(t, l) \in Tables /\ Place(t, l).code = t.code
           /\ Place(t, l).mode[l] = t.mode[l] \cup {"defined", "placed"}
           /\ Place(t, l).info[l] = Address(Len(t.code) + 1)
           /\ \A x \in Label \ {l} : /\ Place(t, l).mode[x] = t.mode[x]
                                     /\ Place(t, l).info[x] = t.info[x]
<1>1. Address(Len(t.code) + 1) \in Info
  BY TableIs DEF Address, Info
<1>2. Place(t, l) = Changed(t, l, {"defined", "placed"}, Address(Len(t.code) + 1))
  BY DEF Place, Changed
<1>3. PICK m, i : m = {"defined", "placed"} /\ i = Address(Len(t.code) + 1)
  OBVIOUS
<1>4. m \subseteq Marks /\ i \in Info
  BY <1>1, <1>3 DEF Marks
<1>5. /\ Changed(t, l, m, i) \in Tables /\ Changed(t, l, m, i).code = t.code
      /\ Changed(t, l, m, i).mode[l] = t.mode[l] \cup m
      /\ Changed(t, l, m, i).info[l] = i
      /\ \A x \in Label \ {l} : /\ Changed(t, l, m, i).mode[x] = t.mode[x]
                                /\ Changed(t, l, m, i).info[x] = t.info[x]
  BY <1>4, ChangedIs
<1>6. QED
  BY <1>2, <1>3, <1>5

\* A label is made another name of a second one.
LEMMA EquateIs ==
    ASSUME NEW t \in Tables, NEW l \in Label, NEW m \in Label
    PROVE  /\ Equate(t, l, m) \in Tables /\ Equate(t, l, m).code = t.code
           /\ Equate(t, l, m).mode[l] = t.mode[l] \cup {"defined", "placed", "extern"}
           /\ Equate(t, l, m).info[l] = Pointer(m)
           /\ \A x \in Label \ {l} : /\ Equate(t, l, m).mode[x] = t.mode[x]
                                     /\ Equate(t, l, m).info[x] = t.info[x]
<1>1. Pointer(m) \in Info
  BY DEF Pointer, Info
<1>2. Equate(t, l, m) = Changed(t, l, {"defined", "placed", "extern"}, Pointer(m))
  BY DEF Equate, Changed
<1>3. PICK k, i : k = {"defined", "placed", "extern"} /\ i = Pointer(m)
  OBVIOUS
<1>4. k \subseteq Marks /\ i \in Info
  BY <1>1, <1>3 DEF Marks
<1>5. /\ Changed(t, l, k, i) \in Tables /\ Changed(t, l, k, i).code = t.code
      /\ Changed(t, l, k, i).mode[l] = t.mode[l] \cup k
      /\ Changed(t, l, k, i).info[l] = i
      /\ \A x \in Label \ {l} : /\ Changed(t, l, k, i).mode[x] = t.mode[x]
                                /\ Changed(t, l, k, i).info[x] = t.info[x]
  BY <1>4, ChangedIs
<1>6. QED
  BY <1>2, <1>3, <1>5
-----------------------------------------------------------------------------
(* Chains of aliases *)

\* A chain of aliases comes to its end: every label has a distance from it.
Aliases(t) == {l \in Label : IsAlias(t, l)}
Ranked(t, r) == \A l \in Label :
    IF IsAlias(t, l)
    THEN /\ t.info[l].is = "label" /\ t.info[l].value \in Label
         /\ r[t.info[l].value] < r[l] /\ r[l] <= Cardinality(Aliases(t))
    ELSE r[l] = 0
Sound(t) == t \in Tables /\ \E r \in [Label -> Nat] : Ranked(t, r)

\* The table that resolve_label_alias() follows.
Follows(t, f) == f = [n \in Nat |->
                        [l \in Label |-> IF ~IsAlias(t, l) THEN l
                                        ELSE IF t.info[l].is # "label" \/ n = 0 THEN Wild
                                        ELSE f[n - 1][t.info[l].value]]]
WayOf(t) == CHOOSE f : Follows(t, f)

\* Resolution looks into that table.
LEMMA ResolveLooks ==
    ASSUME NEW t, NEW l
    PROVE  Resolve(t, l) = WayOf(t)[Cardinality(Label)][l]
BY DEF Resolve, WayOf, Follows

\* An alias leads to a label or else astray.
LEMMA InfoIs ==
    ASSUME NEW t \in Tables, NEW l \in Label
    PROVE  /\ t.info[l] \in Info /\ t.mode[l] \subseteq Marks
           /\ t.info[l].is = "label" => t.info[l].value \in Label
           /\ t.info[l].is # "label" => t.info[l].value \in Nat
<1>1. t.info[l] \in Info /\ t.mode[l] \subseteq Marks
  BY TableIs
<1>2. QED
  BY <1>1 DEF Info

\* There is such a table.
LEMMA WayExists ==
    ASSUME NEW t \in Tables
    PROVE  Follows(t, WayOf(t))
<1> DEFINE D == [Label -> Label \cup {Wild}]
           b == [l \in Label |-> IF ~IsAlias(t, l) THEN l ELSE Wild]
           step == [g \in D |-> [l \in Label |-> IF ~IsAlias(t, l) THEN l
                                                 ELSE IF t.info[l].is # "label" THEN Wild
                                                 ELSE g[t.info[l].value]]]
<1>1. b \in D
  OBVIOUS
<1>2. step \in [D -> D]
  <2>1. ASSUME NEW g \in D, NEW l \in Label
        PROVE  (IF ~IsAlias(t, l) THEN l ELSE IF t.info[l].is # "label" THEN Wild
                ELSE g[t.info[l].value]) \in Label \cup {Wild}
    BY InfoIs
  <2>2. QED
    BY <2>1
<1>3. \A g \in D : \A l \in Label :
         step[g][l] = IF ~IsAlias(t, l) THEN l ELSE IF t.info[l].is # "label" THEN Wild
                      ELSE g[t.info[l].value]
  OBVIOUS
<1>4. \A l \in Label : b[l] = IF ~IsAlias(t, l) THEN l ELSE Wild
  OBVIOUS
<1> HIDE DEF D, b, step
<1>5. PICK h : Iteration(h, D, step, b)
  BY <1>1, <1>2, IterationExists
<1>6. h \in [Nat -> D] /\ h[0] = b /\ \A k \in Nat : h[k + 1] = step[h[k]]
  BY <1>5 DEF Iteration
<1> DEFINE f == [n \in Nat |-> [l \in Label |-> h[n][l]]]
<1>7. ASSUME NEW l \in Label, NEW n \in Nat
      PROVE  h[n][l] = IF ~IsAlias(t, l) THEN l
                       ELSE IF t.info[l].is # "label" \/ n = 0 THEN Wild
                       ELSE f[n - 1][t.info[l].value]
  <2>1. CASE n = 0
    BY <1>4, <1>6, <2>1
  <2>2. CASE n # 0
    <3>1. PICK k \in Nat : k = n - 1 /\ n = k + 1
      BY <2>2
    <3>2. h[n][l] = step[h[k]][l] /\ h[k] \in D
      BY <1>6, <3>1
    <3>3. h[n][l] = IF ~IsAlias(t, l) THEN l ELSE IF t.info[l].is # "label" THEN Wild
                    ELSE h[k][t.info[l].value]
      BY <1>3, <3>2
    <3>4. t.info[l].is = "label" => f[k][t.info[l].value] = h[k][t.info[l].value]
      BY InfoIs
    <3>5. QED
      BY <2>2, <3>1, <3>3, <3>4
  <2>3. QED
    BY <2>1, <2>2
<1>8. Follows(t, f)
  BY <1>7 DEF Follows
<1> HIDE DEF f
<1>9. QED
  BY <1>8 DEF WayOf

\* What it says of one label.
LEMMA WayIs ==
    ASSUME NEW t \in Tables, NEW l \in Label, NEW n \in Nat
    PROVE  /\ ~IsAlias(t, l) => WayOf(t)[n][l] = l
           /\ IsAlias(t, l) /\ t.info[l].is = "label" /\ n > 0
                 => WayOf(t)[n][l] = WayOf(t)[n - 1][t.info[l].value]
           /\ IsAlias(t, l) /\ t.info[l].is # "label" => WayOf(t)[n][l] = Wild
<1> DEFINE w == WayOf(t)
<1>1. w = [k \in Nat |-> [x \in Label |-> IF ~IsAlias(t, x) THEN x
                                      ELSE IF t.info[x].is # "label" \/ k = 0 THEN Wild
                                      ELSE w[k - 1][t.info[x].value]]]
  BY WayExists DEF Follows
<1> HIDE DEF w
<1>2. w[n][l] = IF ~IsAlias(t, l) THEN l ELSE IF t.info[l].is # "label" \/ n = 0 THEN Wild
                ELSE w[n - 1][t.info[l].value]
  <2>1. w[n] = [x \in Label |-> IF ~IsAlias(t, x) THEN x
                               ELSE IF t.info[x].is # "label" \/ n = 0 THEN Wild
                               ELSE w[n - 1][t.info[x].value]]
    BY <1>1
  <2>2. QED
    BY <2>1
<1>3. QED
  BY <1>2 DEF w

\* Labels whose distance is not more than n are resolved in n steps.
LEMMA Reaches ==
    ASSUME NEW t \in Tables, NEW r \in [Label -> Nat], Ranked(t, r)
    PROVE  \A n \in Nat : \A l \in Label : r[l] <= n =>
              /\ WayOf(t)[n][l] \in Label /\ ~IsAlias(t, WayOf(t)[n][l])
              /\ WayOf(t)[n + 1][l] = WayOf(t)[n][l]
<1> DEFINE Good(l, n) == /\ WayOf(t)[n][l] \in Label /\ ~IsAlias(t, WayOf(t)[n][l])
                         /\ WayOf(t)[n + 1][l] = WayOf(t)[n][l]
           K == {n \in Nat : \A l \in Label : r[l] <= n => Good(l, n)}
<1>1. ASSUME NEW l \in Label, NEW n \in Nat, ~IsAlias(t, l) PROVE Good(l, n)
  <2>1. WayOf(t)[n][l] = l /\ WayOf(t)[n + 1][l] = l
    BY <1>1, WayIs
  <2>2. QED
    BY <1>1, <2>1
<1>2. 0 \in K
  <2>1. ASSUME NEW l \in Label, r[l] <= 0 PROVE ~IsAlias(t, l)
    <3>1. SUFFICES ASSUME IsAlias(t, l) PROVE FALSE
      OBVIOUS
    <3>2. t.info[l].value \in Label /\ r[t.info[l].value] < r[l]
      BY <3>1 DEF Ranked
    <3>3. r[t.info[l].value] \in Nat /\ r[l] \in Nat
      BY <3>2
    <3>4. QED
      BY <2>1, <3>2, <3>3
  <2> HIDE DEF Good
  <2>2. QED
    BY <1>1, <2>1
<1>3. ASSUME NEW n \in Nat, n \in K PROVE n + 1 \in K
  <2>1. ASSUME NEW l \in Label, r[l] <= n + 1, IsAlias(t, l) PROVE Good(l, n + 1)
    <3>1. PICK v \in Label : v = t.info[l].value /\ t.info[l].is = "label" /\ r[v] < r[l]
      BY <2>1 DEF Ranked
    <3>2. r[v] <= n
      <4>1. r[v] \in Nat /\ r[l] \in Nat
        OBVIOUS
      <4>2. QED
        BY <2>1, <3>1, <4>1
    <3>3. Good(v, n)
      BY <1>3, <3>2
    <3>4. WayOf(t)[n + 1][l] = WayOf(t)[n][v]
      <4>1. n + 1 \in Nat /\ n + 1 > 0 /\ (n + 1) - 1 = n
        OBVIOUS
      <4>2. QED
        BY <2>1, <3>1, <4>1, WayIs
    <3>5. WayOf(t)[(n + 1) + 1][l] = WayOf(t)[n + 1][v]
      <4>1. (n + 1) + 1 \in Nat /\ (n + 1) + 1 > 0 /\ ((n + 1) + 1) - 1 = n + 1
        OBVIOUS
      <4>2. QED
        BY <2>1, <3>1, <4>1, WayIs
    <3>6. QED
      BY <3>3, <3>4, <3>5
  <2> HIDE DEF Good
  <2>2. n + 1 \in Nat
    OBVIOUS
  <2>3. QED
    BY <1>1, <2>1, <2>2
<1>4. Nat \subseteq K
  <2> HIDE DEF K
  <2>1. QED
    BY <1>2, <1>3, NaturalsInSet
<1>5. QED
  BY <1>4

\* Resolution ends at a label that is no alias, and does not depend on where in the chain
\* of aliases it begins.
Resolves(t, f) == \A l \in Label : f[l] = IF IsAlias(t, l) THEN f[t.info[l].value] ELSE l
Roots(t) == [l \in Label |-> Resolve(t, l)]

\* resolve_label_alias() follows a sound table to such an end.
LEMMA ResolveIs ==
    ASSUME NEW t, Sound(t)
    PROVE  /\ Roots(t) \in [Label -> Label] /\ Resolves(t, Roots(t))
           /\ \A l \in Label : ~IsAlias(t, Roots(t)[l])
           /\ \A l \in Label : IsAlias(t, l) => t.info[l].is = "label" /\ t.info[l].value \in Label
<1>1. PICK r \in [Label -> Nat] : Ranked(t, r)
  BY DEF Sound
<1>2. t \in Tables
  BY DEF Sound
<1> DEFINE c == Cardinality(Label)
<1>3. c \in Nat /\ Cardinality(Aliases(t)) \in Nat /\ Cardinality(Aliases(t)) <= c
  <2>1. Aliases(t) \subseteq Label
    BY DEF Aliases
  <2>2. QED
    BY <2>1, LabelsAre, FS_Subset, FS_CardinalityType
<1>4. \A l \in Label : r[l] <= c
  <2>1. ASSUME NEW l \in Label PROVE r[l] <= c
    <3>1. r[l] \in Nat /\ (r[l] = 0 \/ r[l] <= Cardinality(Aliases(t)))
      BY <1>1 DEF Ranked
    <3>2. QED
      BY <1>3, <3>1
  <2>2. QED
    BY <2>1
<1>5. \A l \in Label : Roots(t)[l] = WayOf(t)[c][l]
  BY ResolveLooks DEF Roots
<1> HIDE DEF c
<1>6. \A l \in Label : /\ WayOf(t)[c][l] \in Label /\ ~IsAlias(t, WayOf(t)[c][l])
  BY <1>1, <1>2, <1>3, <1>4, Reaches
<1>7. ASSUME NEW l \in Label, IsAlias(t, l)
      PROVE  /\ t.info[l].is = "label" /\ t.info[l].value \in Label
             /\ WayOf(t)[c][l] = WayOf(t)[c][t.info[l].value]
  <2>1. PICK v \in Label : v = t.info[l].value /\ t.info[l].is = "label" /\ r[v] < r[l]
    BY <1>1, <1>7 DEF Ranked
  <2>2. r[v] \in Nat /\ r[l] \in Nat /\ r[l] <= c
    BY <1>4
  <2>3. PICK k \in Nat : c = k + 1 /\ k = c - 1 /\ r[v] <= k
    BY <1>3, <2>1, <2>2
  <2>4. WayOf(t)[c][l] = WayOf(t)[k][v]
    BY <1>2, <1>3, <1>7, <2>1, <2>3, WayIs
  <2>5. WayOf(t)[k + 1][v] = WayOf(t)[k][v]
    BY <1>1, <1>2, <2>3, Reaches
  <2>6. QED
    BY <2>1, <2>3, <2>4, <2>5
<1>8. \A l \in Label : ~IsAlias(t, l) => WayOf(t)[c][l] = l
  BY <1>2, <1>3, WayIs
<1>9. Roots(t) \in [Label -> Label]
  BY <1>5, <1>6 DEF Roots
<1>10. Resolves(t, Roots(t))
  BY <1>5, <1>7, <1>8 DEF Resolves
<1>11. QED
  BY <1>5, <1>6, <1>7, <1>9, <1>10

\* Nothing else resolves all labels.
LEMMA OnlyRoots ==
    ASSUME NEW t, Sound(t), NEW f, f \in [Label -> Label], Resolves(t, f)
    PROVE  f = Roots(t)
<1>1. PICK r \in [Label -> Nat] : Ranked(t, r)
  BY DEF Sound
<1> DEFINE g == Roots(t)
           K == {n \in Nat : \A l \in Label : r[l] <= n => f[l] = g[l]}
<1>2. /\ g \in [Label -> Label]
      /\ \A l \in Label : g[l] = IF IsAlias(t, l) THEN g[t.info[l].value] ELSE l
      /\ \A l \in Label : f[l] = IF IsAlias(t, l) THEN f[t.info[l].value] ELSE l
  BY ResolveIs DEF Resolves
<1> HIDE DEF g
<1>3. \A l \in Label : IsAlias(t, l) => t.info[l].value \in Label /\ r[t.info[l].value] < r[l]
  BY <1>1 DEF Ranked
<1>4. 0 \in K
  <2>1. ASSUME NEW l \in Label, r[l] <= 0 PROVE ~IsAlias(t, l)
    <3>1. SUFFICES ASSUME IsAlias(t, l) PROVE FALSE
      OBVIOUS
    <3>2. t.info[l].value \in Label /\ r[t.info[l].value] < r[l]
      BY <1>3, <3>1
    <3>3. r[t.info[l].value] \in Nat /\ r[l] \in Nat
      BY <3>2
    <3>4. QED
      BY <2>1, <3>2, <3>3
  <2>2. QED
    BY <1>2, <2>1
<1>5. ASSUME NEW n \in Nat, n \in K PROVE n + 1 \in K
  <2>1. ASSUME NEW l \in Label, r[l] <= n + 1, IsAlias(t, l) PROVE f[l] = g[l]
    <3>1. PICK v \in Label : v = t.info[l].value /\ r[v] < r[l]
      BY <1>3, <2>1
    <3>2. r[v] \in Nat /\ r[l] \in Nat
      OBVIOUS
    <3>3. r[v] <= n
      BY <2>1, <3>1, <3>2
    <3>4. f[v] = g[v]
      BY <1>5, <3>3
    <3>5. QED
      BY <1>2, <2>1, <3>1, <3>4
  <2>2. QED
    BY <1>2, <2>1
<1>6. Nat \subseteq K
  <2> HIDE DEF K
  <2>1. QED
    BY <1>4, <1>5, NaturalsInSet
<1>7. \A l \in Label : f[l] = g[l]
  <2>1. ASSUME NEW l \in Label PROVE f[l] = g[l]
    <3>1. PICK n \in Nat : n = r[l]
      OBVIOUS
    <3>2. n \in K
      BY <1>6
    <3>3. QED
      BY <3>1, <3>2
  <2>2. QED
    BY <2>1
<1>8. QED
  BY <1>2, <1>7 DEF g

\* Only the aliases count.
LEMMA SameAliases ==
    ASSUME NEW t, NEW u, Sound(t), u \in Tables,
           \A l \in Label : IsAlias(u, l) <=> IsAlias(t, l),
           \A l \in Label : IsAlias(t, l) => u.info[l] = t.info[l]
    PROVE  Sound(u) /\ Roots(u) = Roots(t)
<1>1. PICK r \in [Label -> Nat] : Ranked(t, r)
  BY DEF Sound
<1>2. Aliases(u) = Aliases(t)
  BY DEF Aliases
<1>3. Ranked(u, r)
  BY <1>1, <1>2 DEF Ranked
<1>4. Sound(u)
  BY <1>3 DEF Sound
<1>5. Roots(u) \in [Label -> Label] /\ Resolves(u, Roots(u))
  BY <1>4, ResolveIs
<1>6. Resolves(t, Roots(u))
  BY <1>5 DEF Resolves
<1>7. Roots(u) = Roots(t)
  BY <1>5, <1>6, OnlyRoots
<1>8. QED
  BY <1>4, <1>7

\* An alias has two of the marks.
LEMMA AliasIs ==
    ASSUME NEW t, NEW l
    PROVE  /\ IsAlias(t, l) <=> {"placed", "extern"} \subseteq t.mode[l]
           /\ Kind(t, l) = {} <=> "placed" \notin t.mode[l] /\ "extern" \notin t.mode[l]
           /\ Kind(t, l) = {"placed"} <=> "placed" \in t.mode[l] /\ "extern" \notin t.mode[l]
           /\ Kind(t, l) = {"extern"} <=> "placed" \notin t.mode[l] /\ "extern" \in t.mode[l]
BY DEF IsAlias, Kind

\* Two labels that are no aliases can be made one: what led to the first leads to the second.
LEMMA EquateJoins ==
    ASSUME NEW t, Sound(t), NEW l \in Label, NEW m \in Label, l # m,
           ~IsAlias(t, l), ~IsAlias(t, m)
    PROVE  /\ Sound(Equate(t, l, m))
           /\ Roots(Equate(t, l, m)) = [x \in Label |-> IF Roots(t)[x] = l THEN m ELSE Roots(t)[x]]
           /\ \A x \in Label : IsAlias(Equate(t, l, m), x) <=> x = l \/ IsAlias(t, x)
<1>1. PICK r \in [Label -> Nat] : Ranked(t, r)
  BY DEF Sound
<1>2. t \in Tables
  BY DEF Sound
<1> DEFINE u == Equate(t, l, m)
           g == Roots(t)
           f == [x \in Label |-> IF g[x] = l THEN m ELSE g[x]]
           s == [x \in Label |-> IF g[x] = l THEN r[x] + 1 ELSE r[x]]
<1>3. /\ g \in [Label -> Label]
      /\ \A x \in Label : g[x] = IF IsAlias(t, x) THEN g[t.info[x].value] ELSE x
      /\ \A x \in Label : IsAlias(t, x) => t.info[x].is = "label" /\ t.info[x].value \in Label
  BY ResolveIs DEF Resolves
<1>4. /\ u \in Tables /\ u.mode[l] = t.mode[l] \cup {"defined", "placed", "extern"}
      /\ u.info[l] = Pointer(m)
      /\ \A x \in Label \ {l} : u.mode[x] = t.mode[x] /\ u.info[x] = t.info[x]
  BY <1>2, EquateIs
<1> HIDE DEF u, g
<1>5. ASSUME NEW x \in Label PROVE IsAlias(u, x) <=> x = l \/ IsAlias(t, x)
  BY <1>4, AliasIs
<1>6. u.info[l].is = "label" /\ u.info[l].value = m
  BY <1>4 DEF Pointer
<1>7. Cardinality(Aliases(u)) = Cardinality(Aliases(t)) + 1 /\ Cardinality(Aliases(t)) \in Nat
  <2>1. Aliases(u) = Aliases(t) \cup {l} /\ l \notin Aliases(t) /\ Aliases(t) \subseteq Label
    BY <1>5 DEF Aliases
  <2>2. IsFiniteSet(Aliases(t))
    BY <2>1, LabelsAre, FS_Subset
  <2>3. QED
    BY <2>1, <2>2, FS_AddElement, FS_CardinalityType
<1>8. s \in [Label -> Nat] /\ \A x \in Label : s[x] = IF g[x] = l THEN r[x] + 1 ELSE r[x]
  OBVIOUS
<1>9. f \in [Label -> Label] /\ \A x \in Label : f[x] = IF g[x] = l THEN m ELSE g[x]
  BY <1>3
<1> HIDE DEF f, s
<1>10. g[l] = l /\ g[m] = m /\ r[l] = 0 /\ r[m] = 0
  BY <1>1, <1>3 DEF Ranked
<1>11. Ranked(u, s)
  <2>1. ASSUME NEW x \in Label, IsAlias(u, x)
        PROVE  /\ u.info[x].is = "label" /\ u.info[x].value \in Label
               /\ s[u.info[x].value] < s[x] /\ s[x] <= Cardinality(Aliases(u))
    <3>1. CASE x = l
      <4>1. s[l] = 1 /\ s[m] = 0
        BY <1>8, <1>10
      <4>2. QED
        BY <1>6, <1>7, <3>1, <4>1
    <3>2. CASE x # l
      <4>1. IsAlias(t, x) /\ u.info[x] = t.info[x]
        BY <1>4, <1>5, <2>1, <3>2
      <4>2. PICK v \in Label : v = t.info[x].value /\ t.info[x].is = "label" /\ r[v] < r[x]
                               /\ r[x] <= Cardinality(Aliases(t))
        BY <1>1, <4>1 DEF Ranked
      <4>3. g[x] = g[v]
        BY <1>3, <4>1, <4>2
      <4>4. r[v] \in Nat /\ r[x] \in Nat
        OBVIOUS
      <4>5. s[v] < s[x] /\ s[x] <= Cardinality(Aliases(u))
        BY <1>7, <1>8, <4>2, <4>3, <4>4
      <4>6. QED
        BY <4>1, <4>2, <4>5
    <3>3. QED
      BY <3>1, <3>2
  <2>2. ASSUME NEW x \in Label, ~IsAlias(u, x) PROVE s[x] = 0
    <3>1. x # l /\ ~IsAlias(t, x)
      BY <1>5, <2>2
    <3>2. g[x] = x /\ r[x] = 0
      BY <1>1, <1>3, <3>1 DEF Ranked
    <3>3. QED
      BY <1>8, <3>1, <3>2
  <2>3. QED
    BY <2>1, <2>2 DEF Ranked
<1>12. Sound(u)
  BY <1>4, <1>8, <1>11 DEF Sound
<1>13. Resolves(u, f)
  <2>1. ASSUME NEW x \in Label PROVE f[x] = IF IsAlias(u, x) THEN f[u.info[x].value] ELSE x
    <3>1. CASE x = l
      <4>1. f[l] = m /\ f[m] = m
        BY <1>9, <1>10
      <4>2. QED
        BY <1>5, <1>6, <3>1, <4>1
    <3>2. CASE x # l /\ IsAlias(t, x)
      <4>1. u.info[x] = t.info[x] /\ t.info[x].value \in Label /\ g[x] = g[t.info[x].value]
        BY <1>3, <1>4, <3>2
      <4>2. f[x] = f[t.info[x].value]
        BY <1>9, <4>1
      <4>3. QED
        BY <1>5, <3>2, <4>1, <4>2
    <3>3. CASE x # l /\ ~IsAlias(t, x)
      <4>1. g[x] = x
        BY <1>3, <3>3
      <4>2. f[x] = x
        BY <1>9, <3>3, <4>1
      <4>3. QED
        BY <1>5, <3>3, <4>2
    <3>4. QED
      BY <3>1, <3>2, <3>3
  <2>2. QED
    BY <2>1 DEF Resolves
<1>14. f = Roots(u)
  BY <1>9, <1>12, <1>13, OnlyRoots
<1>15. QED
  BY <1>5, <1>12, <1>14 DEF f, g, u
-----------------------------------------------------------------------------
(* What is true of the code, whatever part of it has been written *)

\* What code is judged by: how names were used, which labels belong to specifiers and to
\* sentences, and what each label stands for.
SpecifierLabels == {specifiers[i].label : i \in DOMAIN specifiers}
SentenceLabels == {l \in Label : \E i \in DOMAIN functions :
                      \E n \in DOMAIN functions[i].sentences : l = functions[i].sentences[n].label}
Context == [type |-> type, used |-> used, externs |-> Len(externs), root |-> Roots(table),
            specifiers |-> SpecifierLabels, sentences |-> SentenceLabels]

\* Every operator names what it may name: a call a name that was used as a function, a
\* specifier one that was used as a specifier.
ItemOK(item, c) ==
    /\ item.op \in {"EMPTY", "SWAP", "SPEC", "FAIL"} => item.to = None
    /\ item.op \in {"CLL", "BLF"} => item.to \in c.used
    /\ item.op = "CLL" => "specifier" \in c.type[c.root[item.to]]
    /\ item.op = "BLF" => "function" \in c.type[c.root[item.to]]
    /\ item.op = "WSPC" => item.to \in c.specifiers
    /\ item.op = "SJUMP" => item.to \in c.sentences

\* The operator at a name agrees with how it was used.
Suits(l, op, c) ==
    /\ l \in Name => \/ op \in {"EMPTY", "SWAP", "SJUMP"} /\ "function" \in c.type[l]
                     \/ op \in {"SPEC", "CLL"} /\ "specifier" \in c.type[l]
    /\ l \in c.specifiers => op = "CLL"

\* Addresses are inside, and lead to what suits them.
PlacedOK(t, l, c) == /\ t.info[l].is = "address" /\ t.info[l].value \in DOMAIN t.code
                     /\ Suits(l, t.code[t.info[l].value].op, c)
ExternOK(t, l, c) == t.info[l].is = "import" /\ t.info[l].value \in 1 .. c.externs
Coded(t, c) == /\ \A l \in Label : Kind(t, l) = {"placed"} => PlacedOK(t, l, c)
               /\ \A l \in Label : Kind(t, l) = {"extern"} => ExternOK(t, l, c)
               /\ \A i \in DOMAIN t.code : ItemOK(t.code[i], c)

\* Writing leaves the code before it and all labels but those in W.
Extends(t, u, W) ==
    /\ u \in Tables
    /\ \A i \in DOMAIN t.code : i \in DOMAIN u.code /\ u.code[i] = t.code[i]
    /\ \A l \in Label : /\ t.mode[l] \subseteq u.mode[l] /\ (IsAlias(u, l) <=> IsAlias(t, l))
                        /\ l \notin W \/ IsAlias(t, l)
                              => u.mode[l] = t.mode[l] /\ u.info[l] = t.info[l]

\* At the place of a label there is this operator.
Linked(t, l, item) == /\ Kind(t, l) = {"placed"} /\ t.info[l].value \in DOMAIN t.code
                      /\ t.code[t.info[l].value] = item

\* One after the other.
LEMMA ExtendsOn ==
    ASSUME NEW t \in Tables, NEW u, NEW v, NEW W, NEW X, Extends(t, u, W), Extends(u, v, X)
    PROVE  Extends(t, v, W \cup X)
<1>1. v \in Tables
  BY DEF Extends
<1>2. \A i \in DOMAIN t.code : i \in DOMAIN v.code /\ v.code[i] = t.code[i]
  BY DEF Extends
<1>3. ASSUME NEW l \in Label
      PROVE  /\ t.mode[l] \subseteq v.mode[l] /\ (IsAlias(v, l) <=> IsAlias(t, l))
             /\ l \notin W \cup X \/ IsAlias(t, l)
                   => v.mode[l] = t.mode[l] /\ v.info[l] = t.info[l]
  <2>1. /\ t.mode[l] \subseteq u.mode[l] /\ (IsAlias(u, l) <=> IsAlias(t, l))
        /\ l \notin W \/ IsAlias(t, l) => u.mode[l] = t.mode[l] /\ u.info[l] = t.info[l]
    BY DEF Extends
  <2>2. /\ u.mode[l] \subseteq v.mode[l] /\ (IsAlias(v, l) <=> IsAlias(u, l))
        /\ l \notin X \/ IsAlias(u, l) => v.mode[l] = u.mode[l] /\ v.info[l] = u.info[l]
    BY DEF Extends
  <2>3. QED
    BY <2>1, <2>2
<1>4. QED
  BY <1>1, <1>2, <1>3 DEF Extends

\* A table extends itself.
LEMMA ExtendsNot == ASSUME NEW t \in Tables PROVE Extends(t, t, {})
BY DEF Extends

\* What is extended is resolved as before.
LEMMA ExtendsRoots ==
    ASSUME NEW t, NEW u, NEW W, Sound(t), Extends(t, u, W)
    PROVE  Sound(u) /\ Roots(u) = Roots(t)
BY SameAliases DEF Extends

\* What is linked stays so.
LEMMA LinkedStays ==
    ASSUME NEW t, NEW u, NEW W, NEW l \in Label \ W, NEW item,
           Extends(t, u, W), Linked(t, l, item)
    PROVE  Linked(u, l, item)
<1>1. u.mode[l] = t.mode[l] /\ u.info[l] = t.info[l]
  BY DEF Extends
<1>2. Kind(u, l) = Kind(t, l)
  BY <1>1 DEF Kind
<1>3. QED
  BY <1>1, <1>2 DEF Extends, Linked

\* The code of a table is indexed from 1.
LEMMA CodeIs ==
    ASSUME NEW t \in Tables
    PROVE  DOMAIN t.code = 1 .. Len(t.code) /\ \A i \in DOMAIN t.code : t.code[i] \in Item
BY TableIs

\* An operator that may be written is written behind the code.
LEMMA Emitted ==
    ASSUME NEW t, NEW c, NEW op \in Ops, NEW to \in Label \cup {None},
           Sound(t), Coded(t, c), ItemOK([op |-> op, to |-> to], c)
    PROVE  /\ Sound(Emit(t, op, to)) /\ Coded(Emit(t, op, to), c)
           /\ Extends(t, Emit(t, op, to), {})
<1> DEFINE u == Emit(t, op, to)
           item == [op |-> op, to |-> to]
<1>1. t \in Tables
  BY DEF Sound
<1>2. u \in Tables /\ u.mode = t.mode /\ u.info = t.info /\ u.code = Append(t.code, item)
  BY <1>1, EmitIs
<1>3. ItemOK(item, c) /\ item \in Item
  BY DEF Item
<1> HIDE DEF u, item
<1>4. t.code \in Seq(Item) /\ Len(t.code) \in Nat /\ DOMAIN t.code = 1 .. Len(t.code)
  BY <1>1, TableIs
<1>5. /\ DOMAIN u.code = 1 .. Len(t.code) + 1 /\ u.code[Len(t.code) + 1] = item
      /\ \A i \in DOMAIN t.code : i \in DOMAIN u.code /\ u.code[i] = t.code[i]
  BY <1>2, <1>3, <1>4
<1>6. \A l \in Label : Kind(u, l) = Kind(t, l)
  BY <1>2 DEF Kind
<1>7. \A l \in Label : IsAlias(u, l) <=> IsAlias(t, l)
  BY <1>6 DEF IsAlias
<1>8. Extends(t, u, {})
  BY <1>2, <1>5, <1>7 DEF Extends
<1>9. Sound(u)
  BY <1>8, ExtendsRoots
<1>10. \A i \in DOMAIN u.code : ItemOK(u.code[i], c)
  <2>1. \A i \in DOMAIN u.code : i \in DOMAIN t.code \/ i = Len(t.code) + 1
    BY <1>4, <1>5
  <2>2. \A i \in DOMAIN t.code : ItemOK(t.code[i], c)
    BY DEF Coded
  <2>3. QED
    BY <1>3, <1>5, <2>1, <2>2
<1>11. ASSUME NEW l \in Label, Kind(u, l) = {"placed"} PROVE PlacedOK(u, l, c)
  <2>1. PlacedOK(t, l, c)
    BY <1>6, <1>11 DEF Coded
  <2>2. QED
    BY <1>2, <1>5, <2>1 DEF PlacedOK
<1>12. ASSUME NEW l \in Label, Kind(u, l) = {"extern"} PROVE ExternOK(u, l, c)
  <2>1. ExternOK(t, l, c)
    BY <1>6, <1>12 DEF Coded
  <2>2. QED
    BY <1>2, <2>1 DEF ExternOK
<1>13. QED
  BY <1>8, <1>9, <1>10, <1>11, <1>12 DEF Coded, u

\* A label that means nothing outside is put before an operator that suits it, wherever it
\* was before.
LEMMA Relabelled ==
    ASSUME NEW t, NEW c, NEW l \in Label, NEW op \in Ops, NEW to \in Label \cup {None},
           Sound(t), Coded(t, c), "extern" \notin t.mode[l],
           ItemOK([op |-> op, to |-> to], c), Suits(l, op, c)
    PROVE  /\ Sound(Emit(Place(t, l), op, to)) /\ Coded(Emit(Place(t, l), op, to), c)
           /\ Extends(t, Emit(Place(t, l), op, to), {l})
           /\ Linked(Emit(Place(t, l), op, to), l, [op |-> op, to |-> to])
           /\ IsDefined(Emit(Place(t, l), op, to), l)
<1> DEFINE p == Place(t, l)
           u == Emit(p, op, to)
           item == [op |-> op, to |-> to]
<1>1. t \in Tables
  BY DEF Sound
<1>2. /\ p \in Tables /\ p.code = t.code /\ p.mode[l] = t.mode[l] \cup {"defined", "placed"}
      /\ p.info[l] = Address(Len(t.code) + 1)
      /\ \A x \in Label \ {l} : p.mode[x] = t.mode[x] /\ p.info[x] = t.info[x]
  BY <1>1, PlaceIs
<1> HIDE DEF p
<1>3. u \in Tables /\ u.mode = p.mode /\ u.info = p.info /\ u.code = Append(p.code, item)
  BY <1>2, EmitIs
<1>4. ItemOK(item, c) /\ item \in Item /\ item.op = op
  BY DEF Item
<1> HIDE DEF u, item
<1>5. t.code \in Seq(Item) /\ Len(t.code) \in Nat /\ DOMAIN t.code = 1 .. Len(t.code)
  BY <1>1, TableIs
<1>6. /\ DOMAIN u.code = 1 .. Len(t.code) + 1 /\ u.code[Len(t.code) + 1] = item
      /\ \A i \in DOMAIN t.code : i \in DOMAIN u.code /\ u.code[i] = t.code[i]
  BY <1>2, <1>3, <1>4, <1>5
<1>7. \A x \in Label \ {l} : Kind(u, x) = Kind(t, x) /\ u.info[x] = t.info[x] /\ u.mode[x] = t.mode[x]
  BY <1>2, <1>3 DEF Kind
<1>8. Kind(u, l) = {"placed"} /\ t.mode[l] \subseteq u.mode[l]
  <2>1. u.mode[l] = t.mode[l] \cup {"defined", "placed"}
    BY <1>2, <1>3
  <2>2. QED
    BY <2>1 DEF Kind
<1>9. u.info[l].is = "address" /\ u.info[l].value = Len(t.code) + 1
  BY <1>2, <1>3 DEF Address
<1>10. ~IsAlias(t, l) /\ ~IsAlias(u, l)
  BY <1>8 DEF IsAlias, Kind
<1>11. \A x \in Label : IsAlias(u, x) <=> IsAlias(t, x)
  BY <1>7, <1>10 DEF IsAlias
<1>12. Extends(t, u, {l})
  <2>1. \A x \in Label : t.mode[x] \subseteq u.mode[x]
    BY <1>7, <1>8
  <2>2. QED
    BY <1>3, <1>6, <1>7, <1>10, <1>11, <2>1 DEF Extends
<1>13. Sound(u)
  BY <1>12, ExtendsRoots
<1>14. \A i \in DOMAIN u.code : ItemOK(u.code[i], c)
  <2>1. \A i \in DOMAIN u.code : i \in DOMAIN t.code \/ i = Len(t.code) + 1
    BY <1>5, <1>6
  <2>2. \A i \in DOMAIN t.code : ItemOK(t.code[i], c)
    BY DEF Coded
  <2>3. QED
    BY <1>4, <1>6, <2>1, <2>2
<1>15. Len(t.code) + 1 \in DOMAIN u.code
  BY <1>5, <1>6
<1>16. ASSUME NEW x \in Label, Kind(u, x) = {"placed"} PROVE PlacedOK(u, x, c)
  <2>1. CASE x = l
    BY <1>4, <1>6, <1>9, <1>15, <2>1 DEF PlacedOK
  <2>2. CASE x # l
    <3>1. PlacedOK(t, x, c)
      BY <1>7, <1>16, <2>2 DEF Coded
    <3>2. QED
      BY <1>6, <1>7, <2>2, <3>1 DEF PlacedOK
  <2>3. QED
    BY <2>1, <2>2
<1>17. ASSUME NEW x \in Label, Kind(u, x) = {"extern"} PROVE ExternOK(u, x, c)
  <2>1. x # l
    BY <1>8, <1>17
  <2>2. ExternOK(t, x, c)
    BY <1>7, <1>17, <2>1 DEF Coded
  <2>3. QED
    BY <1>7, <2>1, <2>2 DEF ExternOK
<1>18. Linked(u, l, item)
  BY <1>6, <1>8, <1>9, <1>15 DEF Linked
<1>19. IsDefined(u, l)
  BY <1>2, <1>3 DEF IsDefined
<1>20. QED
  BY <1>12, <1>13, <1>14, <1>16, <1>17, <1>18, <1>19 DEF Coded, u, p, item

\* So is a label that stands for nothing yet.
LEMMA Labelled ==
    ASSUME NEW t, NEW c, NEW l \in Label, NEW op \in Ops, NEW to \in Label \cup {None},
           Sound(t), Coded(t, c), Kind(t, l) = {}, ItemOK([op |-> op, to |-> to], c),
           Suits(l, op, c)
    PROVE  /\ Sound(Emit(Place(t, l), op, to)) /\ Coded(Emit(Place(t, l), op, to), c)
           /\ Extends(t, Emit(Place(t, l), op, to), {l})
           /\ Linked(Emit(Place(t, l), op, to), l, [op |-> op, to |-> to])
           /\ IsDefined(Emit(Place(t, l), op, to), l)
<1>1. "extern" \notin t.mode[l]
  BY DEF Kind
<1>2. QED
  BY <1>1, Relabelled

\* More names and labels do not spoil the code, if how a label was used is not forgotten.
Grown(c, d) == /\ c.used \subseteq d.used /\ c.specifiers \subseteq d.specifiers
               /\ c.sentences \subseteq d.sentences
               /\ c.externs \in Nat /\ d.externs \in Nat /\ c.externs <= d.externs
               /\ \A n \in Name : c.type[n] \subseteq d.type[n]
               /\ \A n \in c.used : c.type[c.root[n]] \subseteq d.type[d.root[n]]

\* Code that means something still does when the table and the uses only grow.
LEMMA CodedStays ==
    ASSUME NEW t \in Tables, NEW u \in Tables, NEW c, NEW d, Coded(t, c), Grown(c, d),
           u.code = t.code,
           \A l \in Label : Kind(u, l) = {"placed"} =>
               Kind(t, l) = {"placed"} /\ u.info[l] = t.info[l]
               /\ (l \in d.specifiers => l \in c.specifiers),
           \A l \in Label : Kind(u, l) = {"extern"} =>
               Kind(t, l) = {"extern"} /\ u.info[l] = t.info[l]
    PROVE  Coded(u, d)
<1>1. ASSUME NEW l \in Label, Kind(u, l) = {"placed"} PROVE PlacedOK(u, l, d)
  <2>1. PlacedOK(t, l, c)
    BY <1>1 DEF Coded
  <2>2. u.info[l] = t.info[l]
    BY <1>1
  <2>3. ASSUME NEW op, Suits(l, op, c) PROVE Suits(l, op, d)
    <3>1. l \in d.specifiers => l \in c.specifiers
      BY <1>1
    <3>2. l \in Name => c.type[l] \subseteq d.type[l]
      BY DEF Grown
    <3>3. QED
      BY <2>3, <3>1, <3>2 DEF Suits
  <2>4. QED
    BY <2>1, <2>2, <2>3 DEF PlacedOK
<1>2. ASSUME NEW l \in Label, Kind(u, l) = {"extern"} PROVE ExternOK(u, l, d)
  <2>1. ExternOK(t, l, c) /\ u.info[l] = t.info[l]
    BY <1>2 DEF Coded
  <2>2. \A k \in 1 .. c.externs : k \in 1 .. d.externs
    BY DEF Grown
  <2>3. QED
    BY <2>1, <2>2 DEF ExternOK
<1>3. ASSUME NEW i \in DOMAIN u.code PROVE ItemOK(u.code[i], d)
  <2>1. ItemOK(t.code[i], c)
    BY DEF Coded
  <2>2. ASSUME NEW item, ItemOK(item, c) PROVE ItemOK(item, d)
    BY <2>2 DEF ItemOK, Grown
  <2>3. QED
    BY <2>1, <2>2
<1>4. QED
  BY <1>1, <1>2, <1>3 DEF Coded
-----------------------------------------------------------------------------
(* The invariant of a module that is being read *)

Typing == /\ type \in [Name -> SUBSET Kinds] /\ used \subseteq Name /\ errors \in Nat
          /\ allocated \in 0 .. MaxInfo
          /\ entries \in Seq([label : Name, external : External]) /\ externs \in Seq(External)

\* A name stands for a name that is in use, or for itself.
Named == \A n \in Name : /\ Roots(table)[n] \in Name
                         /\ Roots(table)[n] = n \/ Roots(table)[n] \in used

\* What stands for something is marked as described.
Described == \A l \in Label : Kind(table, l) # {} => IsDefined(table, l)

\* Labels without a name stand for nothing before the end of the module, but for the last
\* sentences of functions, which stand for that of the function that ended first.
Nameless == /\ fail \in 1 .. allocated \cup {None}
            /\ fail # None => Kind(table, fail) = {} /\ fail \notin SpecifierLabels
            /\ \A i \in 1 .. MaxInfo :
                  /\ i > allocated => Kind(table, i) = {}
                  /\ \/ Kind(table, i) = {}
                     \/ IsAlias(table, i) /\ fail # None /\ table.info[i].value = fail

\* The pool of specifiers.
Specified == /\ specifiers \in Seq([label : Nat, address : Name])
             /\ \A i \in DOMAIN specifiers :
                   /\ specifiers[i].label \in 1 .. allocated
                   /\ Kind(table, specifiers[i].label) = {}
                   /\ specifiers[i].address \in used
                   /\ "specifier" \in type[Roots(table)[specifiers[i].address]]
             /\ \A i, j \in DOMAIN specifiers :
                   specifiers[i].label = specifiers[j].label => i = j

\* The pool of functions: their names may be taken by something else, their sentences not.
Sentence == [label : Nat, call : Name, spec : Nat \cup {None}]
SentenceOK(s) == /\ s.label \in 1 .. allocated /\ s.label \notin SpecifierLabels
                 /\ s.call \in used /\ "function" \in type[Roots(table)[s.call]]
                 /\ s.spec \in SpecifierLabels \cup {None}
Pending == /\ functions \in Seq([label : Name, sentences : Seq(Sentence)])
           /\ \A i \in DOMAIN functions :
                 /\ functions[i].label \in used /\ "function" \in type[functions[i].label]
                 /\ functions[i].sentences # <<>>
                 /\ \A n \in DOMAIN functions[i].sentences :
                       /\ SentenceOK(functions[i].sentences[n])
                       /\ \/ Kind(table, functions[i].sentences[n].label) = {}
                          \/ n = Len(functions[i].sentences)
                 /\ LET l == functions[i].sentences[Len(functions[i].sentences)].label
                    IN  l = fail \/ IsAlias(table, l)
Apart == \A i, j \in DOMAIN functions :
             \A n \in DOMAIN functions[i].sentences, k \in DOMAIN functions[j].sentences :
                functions[i].sentences[n].label = functions[j].sentences[k].label
                   => i = j /\ n = k
FirstFails == errors = 0 =>
    /\ functions = <<>> <=> fail = None
    /\ functions # <<>> =>
          fail = functions[1].sentences[Len(functions[1].sentences)].label

\* Entry points are marked.
Entered == \A i \in DOMAIN entries : /\ entries[i].label \in used
                                     /\ "entry" \in table.mode[entries[i].label]

Equated == equated \subseteq Name \X Name
           /\ \A p \in equated : Roots(table)[p[1]] = Roots(table)[p[2]]
ModuleInv == /\ Typing /\ Named /\ Described /\ Coded(table, Context) /\ Nameless /\ Specified
             /\ Pending /\ Apart /\ FirstFails /\ Entered
Inv == /\ phase \in {"module", "accepted", "rejected", "crashed"}
       /\ phase # "crashed" => Sound(table) /\ Equated
       /\ phase = "crashed" <=> phase # "module" /\ errors = 0 /\ Misled
       /\ phase = "module" => ModuleInv
       /\ phase = "accepted" => CodeLinked /\ KindsChecked
-----------------------------------------------------------------------------
(* The directives *)

\* The type of a function in the pool.
LEMMA FunctionIs ==
    ASSUME Pending, NEW i \in DOMAIN functions
    PROVE  /\ functions[i].label \in Name /\ functions[i].sentences \in Seq(Sentence)
           /\ Len(functions[i].sentences) \in Nat /\ Len(functions[i].sentences) > 0
           /\ DOMAIN functions[i].sentences = 1 .. Len(functions[i].sentences)
           /\ Len(functions[i].sentences) \in DOMAIN functions[i].sentences
           /\ \A n \in DOMAIN functions[i].sentences : functions[i].sentences[n] \in Sentence
<1> DEFINE F == [label : Name, sentences : Seq(Sentence)]
<1>1. functions \in Seq(F) /\ functions[i].sentences # <<>>
  BY DEF Pending
<1>2. functions[i] \in F
  <2> HIDE DEF F
  <2>1. QED
    BY <1>1
<1>3. PICK q : q = functions[i].sentences
  OBVIOUS
<1>4. q \in Seq(Sentence) /\ q # <<>> /\ functions[i].label \in Name
  BY <1>1, <1>2, <1>3
<1>5. /\ Len(q) \in Nat /\ Len(q) > 0 /\ DOMAIN q = 1 .. Len(q) /\ Len(q) \in DOMAIN q
      /\ \A n \in DOMAIN q : q[n] \in Sentence
  BY <1>4
<1>6. QED
  BY <1>3, <1>4, <1>5

\* A directive that leaves the pools and the labels they wait for leaves what is said of
\* them, if no use of a name is forgotten.
Quiet == /\ UNCHANGED pools /\ used \subseteq used' /\ used' \subseteq Name
         /\ type' \in [Name -> SUBSET Kinds] /\ errors' \in Nat /\ (errors' = 0 => errors = 0)
         /\ \A n \in Name : type[n] \subseteq type'[n]
         /\ \A n \in Name : type[Roots(table)[n]] \subseteq type'[Roots(table')[n]]
         /\ \A l \in 1 .. MaxInfo : Kind(table', l) = Kind(table, l) /\ table'.info[l] = table.info[l]

\* The pools are left alone.
LEMMA QuietPools ==
    ASSUME ModuleInv, Quiet
    PROVE  Nameless' /\ Specified' /\ Pending' /\ Apart' /\ FirstFails'
<1>1. /\ allocated' = allocated /\ functions' = functions /\ specifiers' = specifiers
      /\ fail' = fail
  BY DEF Quiet, pools
<1>2. SpecifierLabels' = SpecifierLabels
  BY <1>1 DEF SpecifierLabels
<1>3. \A l \in 1 .. MaxInfo : Kind(table', l) = Kind(table, l) /\ table'.info[l] = table.info[l]
  BY DEF Quiet
<1>4. \A l \in Label : Kind(table', l) = Kind(table, l) => (IsAlias(table', l) <=> IsAlias(table, l))
  BY DEF IsAlias
<1>5. 1 .. allocated \subseteq 1 .. MaxInfo /\ 1 .. MaxInfo \subseteq Label /\ Name \subseteq Label
  BY LabelsAre DEF ModuleInv, Typing
<1>6. /\ used \subseteq used' /\ used \subseteq Name /\ \A n \in Name : type[n] \subseteq type'[n]
      /\ \A n \in Name : type[Roots(table)[n]] \subseteq type'[Roots(table')[n]]
  BY DEF Quiet, ModuleInv, Typing
<1>7. Nameless'
  <2>1. Nameless
    BY DEF ModuleInv
  <2>2. fail # None => Kind(table', fail) = {} /\ fail \notin SpecifierLabels
    BY <1>3, <1>5, <2>1 DEF Nameless
  <2>3. ASSUME NEW i \in 1 .. MaxInfo
        PROVE  /\ i > allocated => Kind(table', i) = {}
               /\ \/ Kind(table', i) = {}
                  \/ IsAlias(table', i) /\ fail # None /\ table'.info[i].value = fail
    <3>1. Kind(table', i) = Kind(table, i) /\ table'.info[i] = table.info[i] /\ i \in Label
      BY <1>3, <1>5
    <3>2. QED
      BY <1>4, <2>1, <3>1 DEF Nameless
  <2>4. QED
    BY <1>1, <1>2, <2>1, <2>2, <2>3 DEF Nameless
<1>8. Specified'
  <2>1. Specified
    BY DEF ModuleInv
  <2>2. ASSUME NEW i \in DOMAIN specifiers
        PROVE  /\ Kind(table', specifiers[i].label) = {}
               /\ specifiers[i].address \in used'
               /\ "specifier" \in type'[Roots(table')[specifiers[i].address]]
    <3>1. /\ specifiers[i].label \in 1 .. allocated /\ Kind(table, specifiers[i].label) = {}
          /\ specifiers[i].address \in used
          /\ "specifier" \in type[Roots(table)[specifiers[i].address]]
      BY <2>1 DEF Specified
    <3>2. Kind(table', specifiers[i].label) = {}
      BY <1>3, <1>5, <3>1
    <3>3. QED
      BY <1>6, <3>1, <3>2
  <2>3. QED
    BY <1>1, <2>1, <2>2 DEF Specified
<1>9. ASSUME NEW s, SentenceOK(s) PROVE SentenceOK(s)'
  BY <1>1, <1>2, <1>6, <1>9 DEF SentenceOK
<1>10. Pending'
  <2>1. Pending
    BY DEF ModuleInv
  <2>2. ASSUME NEW i \in DOMAIN functions
        PROVE  functions[i].label \in used' /\ "function" \in type'[functions[i].label]
    <3>1. functions[i].label \in used /\ "function" \in type[functions[i].label]
      BY <2>1 DEF Pending
    <3>2. QED
      BY <1>6, <3>1
  <2>3. ASSUME NEW i \in DOMAIN functions, NEW n \in DOMAIN functions[i].sentences
        PROVE  /\ SentenceOK(functions[i].sentences[n])'
               /\ \/ Kind(table', functions[i].sentences[n].label) = {}
                  \/ n = Len(functions[i].sentences)
    <3>1. PICK s : s = functions[i].sentences[n]
      OBVIOUS
    <3>2. SentenceOK(s) /\ (Kind(table, s.label) = {} \/ n = Len(functions[i].sentences))
      BY <2>1, <3>1 DEF Pending
    <3>3. s.label \in 1 .. MaxInfo /\ s.label \in Label
      BY <1>5, <3>2 DEF SentenceOK
    <3>4. SentenceOK(s)'
      BY <1>9, <3>2
    <3>5. Kind(table', s.label) = Kind(table, s.label)
      BY <1>3, <3>3
    <3>6. SentenceOK(functions[i].sentences[n])'
      BY <1>1, <3>1, <3>4 DEF SentenceOK
    <3>7. QED
      BY <3>1, <3>2, <3>5, <3>6
  <2>4. ASSUME NEW i \in DOMAIN functions,
               NEW l, l = functions[i].sentences[Len(functions[i].sentences)].label
        PROVE  l = fail \/ IsAlias(table', l)
    <3>1. l = fail \/ IsAlias(table, l)
      BY <2>1, <2>4 DEF Pending
    <3>2. Len(functions[i].sentences) \in DOMAIN functions[i].sentences
      BY <2>1, FunctionIs
    <3>3. SentenceOK(functions[i].sentences[Len(functions[i].sentences)])
      BY <2>1, <3>2 DEF Pending
    <3>4. l \in 1 .. MaxInfo /\ l \in Label
      BY <1>5, <2>4, <3>3 DEF SentenceOK
    <3>5. QED
      BY <1>3, <1>4, <3>1, <3>4
  <2>5. QED
    BY <1>1, <2>1, <2>2, <2>3, <2>4 DEF Pending
<1>11. Apart' /\ FirstFails'
  BY <1>1 DEF ModuleInv, Apart, FirstFails, Quiet
<1>12. QED
  BY <1>7, <1>8, <1>10, <1>11

\* The root of a name.
LEMMA RootIs ==
    ASSUME Sound(table), ModuleInv, NEW name \in Name
    PROVE  /\ Root(name) = Roots(table)[name] /\ Root(name) \in Name /\ Root(name) \in Label
           /\ Root(name) = name \/ Root(name) \in used
           /\ ~IsAlias(table, Root(name)) /\ Roots(table)[Root(name)] = Root(name)
<1>1. name \in Label /\ Name \subseteq Label
  BY LabelsAre
<1>2. Root(name) = Roots(table)[name]
  BY <1>1 DEF Root, Roots
<1>3. Named
  BY DEF ModuleInv
<1>4. Root(name) \in Name /\ Root(name) \in Label /\ (Root(name) = name \/ Root(name) \in used)
  BY <1>1, <1>2, <1>3 DEF Named
<1>5. ~IsAlias(table, Root(name))
  BY <1>1, <1>2, ResolveIs
<1>6. Roots(table)[Root(name)] = Root(name)
  BY <1>4, <1>5, ResolveIs DEF Resolves
<1>7. QED
  BY <1>2, <1>4, <1>5, <1>6

\* What code is judged by after a directive that joins no names and fills no pool.
New == [type |-> type', used |-> used', externs |-> Len(externs'), root |-> Roots(table),
        specifiers |-> SpecifierLabels, sentences |-> SentenceLabels]
Uncounted == /\ used \subseteq used' /\ Len(externs) <= Len(externs')
             /\ \A n \in Name : type[n] \subseteq type'[n]
             /\ errors' = 0 => errors = 0

\* Then what code means it means anew.
LEMMA CodedAnew ==
    ASSUME Sound(table), ModuleInv, Typing', Uncounted
    PROVE  Coded(table, New)
<1>1. /\ used \subseteq Name /\ Len(externs) \in Nat /\ Len(externs') \in Nat
      /\ \A n \in Name : Roots(table)[n] \in Name
  BY DEF ModuleInv, Typing, Named
<1>2. Grown(Context, New)
  BY <1>1 DEF Grown, Context, New, Uncounted
<1>3. table \in Tables /\ Coded(table, Context) /\ Context.specifiers = New.specifiers
  BY DEF Sound, ModuleInv, Context, New
<1>4. QED
  BY <1>2, <1>3, CodedStays

\* Such a directive keeps the invariant, if it describes only names.
LEMMA DirectiveKeeps ==
    ASSUME Inv, phase = "module", UNCHANGED <<phase, pools, equated>>, Typing', Uncounted,
           NEW W, Extends(table, table', W), Coded(table', New), Entered',
           W \cap 1 .. MaxInfo = {},
           \A l \in Label : l \in W /\ Kind(table', l) # {} => IsDefined(table', l)
    PROVE  Inv'
<1>1. ModuleInv /\ Sound(table) /\ Equated
  BY DEF Inv
<1>2. Sound(table') /\ Roots(table') = Roots(table)
  BY <1>1, ExtendsRoots
<1>3. \A l \in Label \ W : table'.mode[l] = table.mode[l] /\ table'.info[l] = table.info[l]
  BY DEF Extends
<1>4. \A l \in Label \ W : Kind(table', l) = Kind(table, l)
  BY <1>3 DEF Kind
<1>5. \A n \in Name : Roots(table)[n] \in Name
  BY <1>1 DEF ModuleInv, Named
<1>6. Quiet
  <2>1. /\ UNCHANGED pools /\ used \subseteq used' /\ used' \subseteq Name
        /\ type' \in [Name -> SUBSET Kinds] /\ errors' \in Nat /\ (errors' = 0 => errors = 0)
        /\ \A n \in Name : type[n] \subseteq type'[n]
    BY DEF Typing, Uncounted
  <2>2. \A n \in Name : type[Roots(table)[n]] \subseteq type'[Roots(table')[n]]
    BY <1>2, <1>5, <2>1
  <2>3. ASSUME NEW l \in 1 .. MaxInfo
        PROVE  Kind(table', l) = Kind(table, l) /\ table'.info[l] = table.info[l]
    BY <1>3, <1>4, LabelsAre
  <2>4. QED
    BY <2>1, <2>2, <2>3 DEF Quiet
<1>7. Nameless' /\ Specified' /\ Pending' /\ Apart' /\ FirstFails'
  BY <1>1, <1>6, QuietPools
<1>8. Named'
  BY <1>1, <1>2 DEF ModuleInv, Named, Uncounted
<1>9. Described'
  <2>1. ASSUME NEW l \in Label, Kind(table', l) # {} PROVE IsDefined(table', l)
    <3>1. CASE l \in W
      BY <2>1, <3>1
    <3>2. CASE l \notin W
      <4>1. IsDefined(table, l)
        BY <1>1, <1>4, <2>1, <3>2 DEF ModuleInv, Described
      <4>2. QED
        BY <1>3, <3>2, <4>1 DEF IsDefined
    <3>3. QED
      BY <3>1, <3>2
  <2>2. QED
    BY <2>1 DEF Described
<1>10. Coded(table', Context')
  <2>1. Context' = New
    BY <1>2 DEF Context, New, SpecifierLabels, SentenceLabels, pools
  <2>2. QED
    BY <2>1
<1>11. ModuleInv'
  BY <1>7, <1>8, <1>9, <1>10 DEF ModuleInv
<1>12. Equated'
  BY <1>1, <1>2 DEF Equated
<1>13. QED
  BY <1>2, <1>11, <1>12 DEF Inv

\* The kinds of use are added to the names that are used.
LEMMA TypedIs ==
    ASSUME type \in [Name -> SUBSET Kinds], NEW labels, NEW kind \in Kinds
    PROVE  /\ Typed(labels, kind) \in [Name -> SUBSET Kinds]
           /\ \A n \in Name : type[n] \subseteq Typed(labels, kind)[n]
           /\ \A n \in Name : n \in labels => kind \in Typed(labels, kind)[n]
BY DEF Typed

\* Marks stay.
LEMMA EnteredStays ==
    ASSUME ModuleInv, NEW W, Extends(table, table', W), UNCHANGED entries, used \subseteq used'
    PROVE  Entered'
<1>1. ASSUME NEW i \in DOMAIN entries
      PROVE  entries[i].label \in used' /\ "entry" \in table'.mode[entries[i].label]
  <2>1. entries[i].label \in used /\ "entry" \in table.mode[entries[i].label]
    BY DEF ModuleInv, Entered
  <2>2. entries[i].label \in Label
    BY <2>1, LabelsAre DEF ModuleInv, Typing
  <2>3. QED
    BY <2>1, <2>2 DEF Extends
<1>2. QED
  BY <1>1 DEF Entered

\* Names are no labels of specifiers.
LEMMA NamesApart == ASSUME ModuleInv, NEW n \in Name PROVE n \notin SpecifierLabels /\ n \notin 1 .. MaxInfo
BY LabelsAre DEF SpecifierLabels, ModuleInv, Specified, Typing

\* $EMPTY and $SWAP: the operator is the whole code of the function.
LEMMA EmptyOrSwapStep ==
    ASSUME Inv, NEW name \in Name, NEW op \in {"EMPTY", "SWAP"},
           EmptyOrSwap(name, op)
    PROVE  Inv'
<1> DEFINE label == Root(name)
<1>1. ModuleInv /\ Sound(table) /\ phase = "module" /\ Typing /\ table \in Tables
  BY DEF Inv, EmptyOrSwap, Directive, ModuleInv, Sound
<1>2. label \in Name /\ label \in Label /\ (label = name \/ label \in used)
  BY <1>1, RootIs
<1> HIDE DEF label
<1>3. /\ UNCHANGED <<phase, pools, equated, entries, externs>>
      /\ used' = used \cup {name} /\ type' = Typed({label}, "function")
      /\ IF IsDefined(table, label)
         THEN errors' = errors + 1 /\ UNCHANGED table
         ELSE table' = Emit(Place(table, label), op, None) /\ UNCHANGED errors
  BY DEF EmptyOrSwap, Directive, Uses, tables, label
<1>4. /\ type' \in [Name -> SUBSET Kinds] /\ \A n \in Name : type[n] \subseteq type'[n]
      /\ "function" \in type'[label]
  BY <1>1, <1>2, <1>3, TypedIs DEF Typing, Kinds
<1>5. Typing' /\ Uncounted
  <2>1. errors' \in Nat /\ (errors' = 0 => errors = 0)
    BY <1>1, <1>3 DEF Typing
  <2>2. used' \subseteq Name /\ used \subseteq used' /\ allocated' = allocated
    BY <1>1, <1>3 DEF Typing, pools
  <2>3. Len(externs') = Len(externs) /\ Len(externs) \in Nat
    BY <1>1, <1>3 DEF Typing
  <2>4. entries' = entries /\ externs' = externs
    BY <1>3
  <2>5. Typing'
    BY <1>1, <1>4, <2>1, <2>2, <2>4 DEF Typing
  <2>6. Uncounted
    BY <1>4, <2>1, <2>2, <2>3 DEF Uncounted
  <2>7. QED
    BY <2>5, <2>6
<1>6. Coded(table, New)
  BY <1>1, <1>5, CodedAnew
<1>7. CASE IsDefined(table, label)
  <2>1. table' = table
    BY <1>3, <1>7
  <2>2. Extends(table, table', {}) /\ Coded(table', New)
    BY <1>1, <1>6, <2>1, ExtendsNot
  <2>3. Entered'
    BY <1>1, <1>3, <2>2, EnteredStays
  <2>4. QED
    BY <1>1, <1>3, <1>5, <2>2, <2>3, DirectiveKeeps
<1>8. CASE ~IsDefined(table, label)
  <2>1. table' = Emit(Place(table, label), op, None)
    BY <1>3, <1>8
  <2>2. Kind(table, label) = {}
    BY <1>1, <1>2, <1>8 DEF ModuleInv, Described
  <2>3. ItemOK([op |-> op, to |-> None], New) /\ op \in Ops
    BY DEF ItemOK, Ops
  <2>4. Suits(label, op, New)
    BY <1>1, <1>2, <1>4, NamesApart DEF Suits, New
  <2>5. /\ Extends(table, table', {label}) /\ Coded(table', New) /\ IsDefined(table', label)
    BY <1>1, <1>2, <1>6, <2>1, <2>2, <2>3, <2>4, Labelled
  <2>6. Entered'
    BY <1>1, <1>3, <2>5, EnteredStays
  <2>7. label \notin 1 .. MaxInfo
    BY <1>2, LabelsAre
  <2>8. QED
    BY <1>1, <1>3, <1>5, <2>5, <2>6, <2>7, DirectiveKeeps
<1>9. QED
  BY <1>7, <1>8

\* A label is given one more mark.
Marked(t, l, m) == [t EXCEPT !.mode[l] = @ \cup m]

\* What a mark changes.
LEMMA MarkIs ==
    ASSUME NEW t \in Tables, NEW l \in Label, NEW m, m \subseteq Marks
    PROVE  /\ Marked(t, l, m) \in Tables /\ Marked(t, l, m).code = t.code
           /\ Marked(t, l, m).info = t.info /\ Marked(t, l, m).mode[l] = t.mode[l] \cup m
           /\ \A x \in Label \ {l} : Marked(t, l, m).mode[x] = t.mode[x]
<1> DEFINE a == [t.mode EXCEPT ![l] = t.mode[l] \cup m]
           u == Marked(t, l, m)
<1>1. /\ a \in [Label -> SUBSET Marks] /\ a[l] = t.mode[l] \cup m
      /\ \A x \in Label \ {l} : a[x] = t.mode[x]
  BY TableIs
<1>2. u \in Tables /\ u.code = t.code /\ u.info = t.info /\ u.mode = a
  BY <1>1 DEF Marked, Tables
<1> HIDE DEF a, u
<1>3. /\ u \in Tables /\ u.code = t.code /\ u.info = t.info
      /\ u.mode[l] = t.mode[l] \cup m /\ \A x \in Label \ {l} : u.mode[x] = t.mode[x]
  BY <1>1, <1>2
<1>4. QED
  BY <1>3 DEF u

\* $EXTERN: the number is that of an external reference.
LEMMA ExternStep ==
    ASSUME Inv, NEW name \in Name, NEW external \in External, Extern(name, external)
    PROVE  Inv'
<1> DEFINE label == Root(name)
           As(n) == Changed(table, label, {"defined", "extern"}, Import(n))
<1>1. ModuleInv /\ Sound(table) /\ phase = "module" /\ Typing /\ table \in Tables
  BY DEF Inv, Extern, Directive, ModuleInv, Sound
<1>2. label \in Name /\ label \in Label /\ (label = name \/ label \in used)
  BY <1>1, RootIs
<1>3. /\ UNCHANGED <<phase, pools, equated, entries, type>>
      /\ used' = used \cup {name}
      /\ \/ errors' = errors + 1 /\ UNCHANGED <<table, externs>>
         \/ /\ ~IsDefined(table, label) /\ UNCHANGED errors
            /\ \/ \E n \in DOMAIN externs : table' = As(n) /\ UNCHANGED externs
               \/ externs' = Append(externs, external) /\ table' = As(Len(externs'))
  <2>1. /\ UNCHANGED <<phase, pools, equated, entries, type>>
        /\ used' = used \cup {name}
    BY DEF Extern, Directive, Uses
  <2>2. \/ errors' = errors + 1 /\ UNCHANGED <<table, externs>>
        \/ /\ ~IsDefined(table, label) /\ UNCHANGED errors
           /\ \/ \E n \in DOMAIN externs : table' = As(n) /\ UNCHANGED externs
              \/ externs' = Append(externs, external) /\ table' = As(Len(externs'))
    BY DEF Extern, Changed
  <2>3. QED
    BY <2>1, <2>2
<1> HIDE DEF label, As
<1>4. /\ errors' \in Nat /\ (errors' = 0 => errors = 0)
      /\ externs' \in Seq(External) /\ Len(externs) <= Len(externs')
      /\ table' = table \/ \E n \in 1 .. Len(externs') : ~IsDefined(table, label) /\ table' = As(n)
  <2>1. externs \in Seq(External) /\ errors \in Nat
    BY <1>1 DEF Typing
  <2>2. /\ DOMAIN externs = 1 .. Len(externs) /\ Len(externs) \in Nat
        /\ Append(externs, external) \in Seq(External)
        /\ Len(Append(externs, external)) = Len(externs) + 1
    BY <2>1
  <2>3. errors' \in Nat /\ (errors' = 0 => errors = 0)
    BY <1>3, <2>1
  <2>4. CASE errors' = errors + 1 /\ UNCHANGED <<table, externs>>
    BY <2>1, <2>2, <2>3, <2>4
  <2>5. ASSUME NEW n \in DOMAIN externs, ~IsDefined(table, label), table' = As(n), UNCHANGED externs
        PROVE  /\ externs' \in Seq(External) /\ Len(externs) <= Len(externs')
               /\ n \in 1 .. Len(externs')
    BY <2>1, <2>2, <2>5
  <2>6. CASE externs' = Append(externs, external)
    <3>1. /\ externs' \in Seq(External) /\ Len(externs) <= Len(externs')
          /\ Len(externs') \in 1 .. Len(externs')
      BY <2>2, <2>6
    <3>2. (~IsDefined(table, label) /\ table' = As(Len(externs'))) \/ table' = table
      <4>1. externs' # externs
        <5>1. Len(externs') = Len(externs) + 1 /\ Len(externs) \in Nat
          BY <2>2, <2>6
        <5>2. Len(externs') # Len(externs)
          BY <5>1
        <5>3. QED
          BY <5>2
      <4>2. QED
        <5>1. ~UNCHANGED externs
          BY <4>1
        <5>2. QED
          BY <1>3, <5>1
    <3>3. QED
      BY <2>3, <3>1, <3>2
  <2>7. QED
    BY <1>3, <2>3, <2>4, <2>5, <2>6
<1>5. used' \subseteq Name /\ used \subseteq used' /\ allocated' = allocated
  BY <1>1, <1>3 DEF Typing, pools
<1>6. Typing' /\ Uncounted
  <2>1. Typing'
    BY <1>1, <1>3, <1>4, <1>5 DEF Typing
  <2>2. Uncounted
    BY <1>3, <1>4, <1>5 DEF Uncounted
  <2>3. QED
    BY <2>1, <2>2
<1>7. Coded(table, New)
  BY <1>1, <1>6, CodedAnew
<1>8. CASE table' = table
  <2>1. Extends(table, table', {}) /\ Coded(table', New)
    BY <1>1, <1>7, <1>8, ExtendsNot
  <2>2. Entered'
    BY <1>1, <1>3, <1>5, <2>1, EnteredStays
  <2>3. QED
    BY <1>1, <1>3, <1>6, <2>1, <2>2, DirectiveKeeps
<1>9. CASE table' # table
  <2>1. PICK n \in 1 .. Len(externs') : ~IsDefined(table, label) /\ table' = As(n)
    BY <1>4, <1>9
  <2>2. Kind(table, label) = {}
    BY <1>1, <1>2, <2>1 DEF ModuleInv, Described
  <2>3. Import(n) \in Info /\ {"defined", "extern"} \subseteq Marks
    BY DEF Import, Info, Marks
  <2>4. /\ table' \in Tables /\ table'.code = table.code
        /\ table'.mode[label] = table.mode[label] \cup {"defined", "extern"}
        /\ table'.info[label] = Import(n)
        /\ \A x \in Label \ {label} : /\ table'.mode[x] = table.mode[x]
                                      /\ table'.info[x] = table.info[x]
    BY <1>1, <1>2, <2>1, <2>3, ChangedIs DEF As
  <2>5. \A x \in Label \ {label} : Kind(table', x) = Kind(table, x)
    BY <2>4 DEF Kind
  <2>6. Kind(table', label) = {"extern"} /\ IsDefined(table', label)
    BY <2>2, <2>4, AliasIs DEF IsDefined
  <2>7. \A x \in Label : IsAlias(table', x) <=> IsAlias(table, x)
    BY <2>2, <2>5, <2>6 DEF IsAlias
  <2>8. Extends(table, table', {label})
    <3>1. \A x \in Label : table.mode[x] \subseteq table'.mode[x]
      BY <2>4
    <3>2. ~IsAlias(table, label)
      BY <2>2 DEF IsAlias
    <3>3. QED
      BY <2>4, <2>7, <3>1, <3>2 DEF Extends
  <2>9. Coded(table', New)
    <3>1. ASSUME NEW x \in Label, Kind(table', x) = {"placed"} PROVE PlacedOK(table', x, New)
      <4>1. x # label
        BY <2>6, <3>1
      <4>2. PlacedOK(table, x, New)
        BY <1>7, <2>5, <3>1, <4>1 DEF Coded
      <4>3. QED
        BY <2>4, <4>1, <4>2 DEF PlacedOK
    <3>2. ASSUME NEW x \in Label, Kind(table', x) = {"extern"} PROVE ExternOK(table', x, New)
      <4>1. CASE x = label
        BY <2>1, <2>4, <4>1 DEF ExternOK, Import, New
      <4>2. CASE x # label
        <5>1. ExternOK(table, x, New)
          BY <1>7, <2>5, <3>2, <4>2 DEF Coded
        <5>2. QED
          BY <2>4, <4>2, <5>1 DEF ExternOK
      <4>3. QED
        BY <4>1, <4>2
    <3>3. QED
      BY <1>7, <2>4, <3>1, <3>2 DEF Coded
  <2>10. Entered'
    BY <1>1, <1>3, <1>5, <2>8, EnteredStays
  <2>11. label \notin 1 .. MaxInfo
    BY <1>1, <1>2, NamesApart
  <2>12. QED
    BY <1>1, <1>3, <1>6, <2>6, <2>8, <2>9, <2>10, <2>11, DirectiveKeeps
<1>10. QED
  BY <1>8, <1>9

\* $ENTRY: the name is marked and nothing else.
LEMMA EntryStep ==
    ASSUME Inv, NEW name \in Name, NEW external \in External, Entry(name, external)
    PROVE  Inv'
<1> DEFINE label == Root(name)
<1>1. ModuleInv /\ Sound(table) /\ phase = "module" /\ Typing /\ table \in Tables
  BY DEF Inv, Entry, Directive, ModuleInv, Sound
<1>2. label \in Name /\ label \in Label /\ (label = name \/ label \in used)
  BY <1>1, RootIs
<1> HIDE DEF label
<1>3. /\ UNCHANGED <<phase, pools, equated, externs, type>> /\ used' = used \cup {name}
      /\ \/ errors' = errors + 1 /\ UNCHANGED <<table, entries>>
         \/ /\ entries' = Append(entries, [label |-> label, external |-> external])
            /\ table' = [table EXCEPT !.mode[label] = @ \cup {"entry"}] /\ UNCHANGED errors
  BY DEF Entry, Directive, Uses, label
<1>4. /\ used' \subseteq Name /\ used \subseteq used' /\ allocated' = allocated /\ externs' = externs
      /\ errors' \in Nat /\ (errors' = 0 => errors = 0) /\ Len(externs) \in Nat /\ type' = type
  BY <1>1, <1>3 DEF Typing, pools
<1>5. entries' \in Seq([label : Name, external : External])
  <2>1. entries \in Seq([label : Name, external : External])
    BY <1>1 DEF Typing
  <2>2. PICK e : e = [label |-> label, external |-> external]
    OBVIOUS
  <2>3. e \in [label : Name, external : External]
    BY <1>2, <2>2
  <2>4. entries' = entries \/ entries' = Append(entries, e)
    BY <1>3, <2>2
  <2>5. PICK S : S = [label : Name, external : External]
    OBVIOUS
  <2>6. entries \in Seq(S) /\ e \in S
    BY <2>1, <2>3, <2>5
  <2>7. entries' \in Seq(S)
    BY <2>4, <2>6
  <2>8. QED
    BY <2>5, <2>7
<1>6. Typing' /\ Uncounted
  <2>1. Typing'
    BY <1>1, <1>4, <1>5 DEF Typing
  <2>2. Uncounted
    BY <1>4 DEF Uncounted
  <2>3. QED
    BY <2>1, <2>2
<1>7. Coded(table, New)
  BY <1>1, <1>6, CodedAnew
<1>8. CASE errors' = errors + 1 /\ UNCHANGED <<table, entries>>
  <2>1. Extends(table, table', {}) /\ Coded(table', New)
    BY <1>1, <1>7, <1>8, ExtendsNot
  <2>2. Entered'
    BY <1>1, <1>4, <1>8, <2>1, EnteredStays
  <2>3. QED
    BY <1>1, <1>3, <1>6, <2>1, <2>2, DirectiveKeeps
<1>9. CASE /\ entries' = Append(entries, [label |-> label, external |-> external])
           /\ table' = [table EXCEPT !.mode[label] = @ \cup {"entry"}] /\ UNCHANGED errors
  <2>1. /\ table' \in Tables /\ table'.code = table.code /\ table'.info = table.info
        /\ table'.mode[label] = table.mode[label] \cup {"entry"}
        /\ \A x \in Label \ {label} : table'.mode[x] = table.mode[x]
    <3>1. {"entry"} \subseteq Marks
      BY DEF Marks
    <3>2. PICK m : m = {"entry"}
      OBVIOUS
    <3>3. table' = Marked(table, label, m) /\ m \subseteq Marks
      BY <1>9, <3>1, <3>2 DEF Marked
    <3>4. /\ table' \in Tables /\ table'.code = table.code /\ table'.info = table.info
          /\ table'.mode[label] = table.mode[label] \cup m
          /\ \A x \in Label \ {label} : table'.mode[x] = table.mode[x]
      BY <1>1, <1>2, <3>3, MarkIs
    <3>5. QED
      BY <3>2, <3>4
  <2>2. /\ \A x \in Label : Kind(table', x) = Kind(table, x) /\ table'.info[x] = table.info[x]
        /\ \A x \in Label : table.mode[x] \subseteq table'.mode[x]
    <3>1. Kind(table', label) = Kind(table, label)
      BY <2>1 DEF Kind
    <3>2. QED
      BY <2>1, <3>1 DEF Kind
  <2>3. \A x \in Label : IsAlias(table', x) <=> IsAlias(table, x)
    BY <2>2 DEF IsAlias
  <2>4. ~IsAlias(table, label)
    BY <1>1, RootIs DEF label
  <2>5. Extends(table, table', {label})
    BY <2>1, <2>2, <2>3, <2>4 DEF Extends
  <2>6. Coded(table', New)
    <3>1. Grown(New, New)
      BY <1>4 DEF Grown, New
    <3>2. QED
      BY <1>1, <1>7, <2>1, <2>2, <3>1, CodedStays
  <2>7. ASSUME NEW i \in DOMAIN entries'
        PROVE  entries'[i].label \in used' /\ "entry" \in table'.mode[entries'[i].label]
    <3>1. entries \in Seq([label : Name, external : External])
      BY <1>1 DEF Typing
    <3>2. /\ i \in DOMAIN entries /\ entries'[i] = entries[i]
          \/ entries'[i] = [label |-> label, external |-> external]
      BY <1>9, <3>1
    <3>3. CASE i \in DOMAIN entries /\ entries'[i] = entries[i]
      <4>1. entries[i].label \in used /\ "entry" \in table.mode[entries[i].label]
        BY <1>1, <3>3 DEF ModuleInv, Entered
      <4>2. entries[i].label \in Label
        BY <1>1, <4>1, LabelsAre DEF Typing
      <4>3. QED
        BY <1>4, <2>2, <3>3, <4>1, <4>2
    <3>4. CASE entries'[i] = [label |-> label, external |-> external]
      BY <1>2, <1>3, <2>1, <3>4
    <3>5. QED
      BY <3>2, <3>3, <3>4
  <2>8. Entered'
    BY <2>7 DEF Entered
  <2>9. Kind(table', label) # {} => IsDefined(table', label)
    <3>1. Kind(table, label) # {} => IsDefined(table, label)
      BY <1>1, <1>2 DEF ModuleInv, Described
    <3>2. QED
      BY <1>2, <2>2, <3>1 DEF IsDefined
  <2>10. label \notin 1 .. MaxInfo
    BY <1>1, <1>2, NamesApart
  <2>11. QED
    BY <1>1, <1>3, <1>6, <2>5, <2>6, <2>8, <2>9, <2>10, DirectiveKeeps
<1>10. QED
  BY <1>3, <1>8, <1>9

\* $SPEC: the operators follow the label, unless it was described already.
LEMMA SpecifierStep ==
    ASSUME Inv, NEW name \in Name, NEW reference \in Name \cup {None},
           Specifier(name, reference)
    PROVE  Inv'
<1> DEFINE label == Root(name)
           other == Root(reference)
           placed == IF IsDefined(table, label) THEN table
                     ELSE Emit(Place(table, label), "SPEC", None)
<1>1. ModuleInv /\ Sound(table) /\ phase = "module" /\ Typing /\ table \in Tables
  BY DEF Inv, Specifier, Directive, ModuleInv, Sound
<1>2. /\ label \in Name /\ label \in Label /\ (label = name \/ label \in used)
      /\ reference # None => /\ other \in Name /\ other \in Label /\ Roots(table)[other] = other
                             /\ other = reference \/ other \in used
  BY <1>1, RootIs
<1>3. /\ UNCHANGED <<phase, pools, equated, entries, externs>>
      /\ used' = used \cup ({name, reference} \ {None})
      /\ IF reference = None THEN type' = Typed({label}, "specifier") /\ table' = placed
         ELSE type' = Typed({label, other}, "specifier") /\ table' = Emit(placed, "CLL", other)
  BY DEF Specifier, Directive, Uses, tables
<1>4. errors' \in Nat /\ (errors' = 0 => errors = 0)
  <2>1. PICK a, b, c : /\ errors' = errors + a + b + c /\ a \in {0, 1} /\ b \in {0, 1} /\ c \in {0, 1}
    <3>1. /\ (IF IsDefined(table, label) THEN 1 ELSE 0) \in {0, 1}
          /\ (IF reference = name THEN 1 ELSE 0) \in {0, 1}
          /\ (IF reference # None /\ ~IsDefined(placed, other) THEN 1 ELSE 0) \in {0, 1}
      OBVIOUS
    <3>2. errors' = errors + (IF IsDefined(table, label) THEN 1 ELSE 0)
                       + (IF reference = name THEN 1 ELSE 0)
                       + (IF reference # None /\ ~IsDefined(placed, other) THEN 1 ELSE 0)
      BY DEF Specifier
    <3> HIDE DEF placed, label, other
    <3>3. QED
      BY <3>1, <3>2
  <2>2. errors \in Nat
    BY <1>1 DEF Typing
  <2>3. QED
    BY <2>1, <2>2
<1> HIDE DEF label, other, placed
<1>5. /\ type' \in [Name -> SUBSET Kinds] /\ \A n \in Name : type[n] \subseteq type'[n]
      /\ "specifier" \in type'[label] /\ (reference # None => "specifier" \in type'[other])
  BY <1>1, <1>2, <1>3, TypedIs DEF Typing, Kinds
<1>6. Typing' /\ Uncounted
  <2>1. /\ used' \subseteq Name /\ used \subseteq used' /\ allocated' = allocated
        /\ entries' = entries /\ externs' = externs
    BY <1>1, <1>3 DEF Typing, pools
  <2>2. Len(externs') = Len(externs) /\ Len(externs) \in Nat
    BY <1>1, <2>1 DEF Typing
  <2>3. Typing'
    BY <1>1, <1>4, <1>5, <2>1 DEF Typing
  <2>4. Uncounted
    BY <1>4, <1>5, <2>1, <2>2 DEF Uncounted
  <2>5. QED
    BY <2>3, <2>4
<1>7. Coded(table, New)
  BY <1>1, <1>6, CodedAnew
<1>8. PICK W : /\ Extends(table, placed, W) /\ Coded(placed, New) /\ Sound(placed)
               /\ W \subseteq {label} /\ (W # {} => IsDefined(placed, label))
  <2>1. CASE IsDefined(table, label)
    <3>1. placed = table
      BY <2>1 DEF placed
    <3>2. Extends(table, placed, {})
      BY <1>1, <3>1, ExtendsNot
    <3>3. QED
      BY <1>1, <1>7, <3>1, <3>2
  <2>2. CASE ~IsDefined(table, label)
    <3>1. placed = Emit(Place(table, label), "SPEC", None)
      BY <2>2 DEF placed
    <3>2. Kind(table, label) = {}
      BY <1>1, <1>2, <2>2 DEF ModuleInv, Described
    <3>3. ItemOK([op |-> "SPEC", to |-> None], New) /\ "SPEC" \in Ops
      BY DEF ItemOK, Ops
    <3>4. Suits(label, "SPEC", New)
      BY <1>1, <1>2, <1>5, NamesApart DEF Suits, New
    <3>5. /\ Extends(table, placed, {label}) /\ Coded(placed, New) /\ Sound(placed)
          /\ IsDefined(placed, label)
      BY <1>1, <1>2, <1>7, <3>1, <3>2, <3>3, <3>4, Labelled
    <3>6. QED
      BY <3>5
  <2>3. QED
    BY <2>1, <2>2
<1>9. PICK X : /\ Extends(table, table', X) /\ Coded(table', New) /\ X \subseteq {label}
               /\ (X # {} => IsDefined(table', label))
  <2>1. CASE reference = None
    BY <1>3, <1>8, <2>1
  <2>2. CASE reference # None
    <3>1. table' = Emit(placed, "CLL", other)
      BY <1>3, <2>2
    <3>2. ItemOK([op |-> "CLL", to |-> other], New) /\ "CLL" \in Ops
      BY <1>2, <1>3, <1>5, <2>2 DEF ItemOK, Ops, New
    <3>3. Coded(table', New) /\ Extends(placed, table', {})
      BY <1>2, <1>8, <2>2, <3>1, <3>2, Emitted
    <3>4. Extends(table, table', W \cup {})
      <4>1. placed \in Tables
        BY <1>8 DEF Sound
      <4>2. QED
        BY <1>1, <1>8, <3>3, <4>1, ExtendsOn
    <3>5. IsDefined(placed, label) => IsDefined(table', label)
      BY <1>2, <3>3 DEF Extends, IsDefined
    <3>6. QED
      BY <1>8, <3>3, <3>4, <3>5
  <2>3. QED
    BY <2>1, <2>2
<1>10. Entered'
  BY <1>1, <1>3, <1>9, EnteredStays
<1>11. label \notin 1 .. MaxInfo
  BY <1>1, <1>2, NamesApart
<1>12. QED
  BY <1>1, <1>3, <1>6, <1>9, <1>10, <1>11, DirectiveKeeps

\* Two names are joined: what was said of the first is said of the second.
LEMMA JoinKeeps ==
    ASSUME NEW l \in Name, NEW m \in Name, NEW a \in Name, NEW b \in Name,
           Inv, phase = "module", UNCHANGED <<phase, pools, entries, externs, errors>>,
           l # m, Kind(table, l) = {}, ~IsAlias(table, m),
           used \subseteq used', used' \subseteq Name, m \in used',
           table' = Equate(table, l, m), type' = [type EXCEPT ![m] = @ \cup type[l]],
           equated' = equated \cup {<<a, b>>},
           Roots(table)[a] \in {l, m}, Roots(table)[b] \in {l, m}
    PROVE  Inv'
<1> DEFINE g == Roots(table)
           h == Roots(table')
<1>1. ModuleInv /\ Sound(table) /\ Typing /\ table \in Tables /\ Equated
  BY DEF Inv, ModuleInv, Sound
<1>2. l \in Label /\ m \in Label /\ Name \subseteq Label /\ l \notin 1 .. MaxInfo
  BY <1>1, LabelsAre, NamesApart
<1>3. ~IsAlias(table, l)
  BY DEF IsAlias
<1>4. /\ Sound(table') /\ h = [x \in Label |-> IF g[x] = l THEN m ELSE g[x]]
      /\ \A x \in Label : IsAlias(table', x) <=> x = l \/ IsAlias(table, x)
  BY <1>1, <1>2, <1>3, EquateJoins
<1>5. /\ table' \in Tables /\ table'.code = table.code
      /\ table'.mode[l] = table.mode[l] \cup {"defined", "placed", "extern"}
      /\ \A x \in Label \ {l} : /\ table'.mode[x] = table.mode[x]
                                /\ table'.info[x] = table.info[x]
  <2>1. PICK t : t = table
    OBVIOUS
  <2>2. t \in Tables /\ l \in Label /\ m \in Label
    BY <1>1, <1>2, <2>1
  <2>3. /\ Equate(t, l, m) \in Tables /\ Equate(t, l, m).code = t.code
        /\ Equate(t, l, m).mode[l] = t.mode[l] \cup {"defined", "placed", "extern"}
        /\ \A x \in Label \ {l} : /\ Equate(t, l, m).mode[x] = t.mode[x]
                                  /\ Equate(t, l, m).info[x] = t.info[x]
    BY ONLY <2>2, EquateIs
  <2>4. QED
    BY <2>1, <2>3
<1>6. \A x \in Label \ {l} : Kind(table', x) = Kind(table, x)
  BY <1>5 DEF Kind
<1>7. g \in [Label -> Label] /\ \A n \in Name : g[n] \in Name /\ (g[n] = n \/ g[n] \in used)
  BY <1>1, ResolveIs DEF ModuleInv, Named
<1>8. \A n \in Name : h[n] = IF g[n] = l THEN m ELSE g[n]
  BY <1>2, <1>4
<1> HIDE DEF g, h
<1>9. /\ type' \in [Name -> SUBSET Kinds] /\ \A n \in Name : type[n] \subseteq type'[n]
      /\ type[l] \subseteq type'[m]
  BY <1>1 DEF Typing
<1>10. \A n \in Name : type[g[n]] \subseteq type'[h[n]]
  BY <1>7, <1>8, <1>9
<1>11. UNCHANGED pools /\ allocated' = allocated /\ functions' = functions
       /\ specifiers' = specifiers /\ errors' = errors /\ entries' = entries /\ externs' = externs
  BY DEF pools
<1>12. Typing'
  BY <1>1, <1>9, <1>11 DEF Typing
<1>13. Quiet
  <2>1. \A x \in 1 .. MaxInfo : Kind(table', x) = Kind(table, x) /\ table'.info[x] = table.info[x]
    BY <1>2, <1>5, <1>6, LabelsAre
  <2>2. type' \in [Name -> SUBSET Kinds] /\ errors' \in Nat /\ (errors' = 0 => errors = 0)
    BY <1>12, <1>11 DEF Typing
  <2>3. \A n \in Name : type[Roots(table)[n]] \subseteq type'[Roots(table')[n]]
    BY <1>10 DEF g, h
  <2>4. QED
    BY <1>9, <1>11, <2>1, <2>2, <2>3 DEF Quiet
<1>14. Nameless' /\ Specified' /\ Pending' /\ Apart' /\ FirstFails'
  BY <1>1, <1>13, QuietPools
<1>15. Named'
  <2>1. \A n \in Name : h[n] \in Name /\ (h[n] = n \/ h[n] \in used')
    BY <1>7, <1>8
  <2>2. QED
    BY <2>1 DEF Named, h
<1>16. Described'
  <2>1. IsDefined(table', l)
    BY <1>5 DEF IsDefined
  <2>2. ASSUME NEW x \in Label \ {l}, Kind(table', x) # {} PROVE IsDefined(table', x)
    <3>1. IsDefined(table, x)
      BY <1>1, <1>6, <2>2 DEF ModuleInv, Described
    <3>2. QED
      BY <1>5, <3>1 DEF IsDefined
  <2>3. QED
    BY <2>1, <2>2 DEF Described
<1>17. Coded(table', Context')
  <2>1. /\ Context'.used = used' /\ Context'.type = type' /\ Context'.externs = Len(externs)
        /\ Context'.root = h /\ Context'.specifiers = SpecifierLabels
        /\ Context'.sentences = SentenceLabels
    BY <1>11 DEF Context, h, SpecifierLabels, SentenceLabels
  <2>2. /\ Context.used = used /\ Context.type = type /\ Context.externs = Len(externs)
        /\ Context.root = g /\ Context.specifiers = SpecifierLabels
        /\ Context.sentences = SentenceLabels
    BY DEF Context, g
  <2>3. Len(externs) \in Nat /\ used \subseteq Name
    BY <1>1 DEF Typing
  <2>4. PICK c, d : c = Context /\ d = Context'
    OBVIOUS
  <2>5. Grown(c, d) /\ d.specifiers = c.specifiers
    <3>1. /\ c.used = used /\ c.type = type /\ c.externs = Len(externs) /\ c.root = g
          /\ c.specifiers = SpecifierLabels /\ c.sentences = SentenceLabels
      BY <2>2, <2>4
    <3>2. /\ d.used = used' /\ d.type = type' /\ d.externs = Len(externs) /\ d.root = h
          /\ d.specifiers = SpecifierLabels /\ d.sentences = SentenceLabels
      BY <2>1, <2>4
    <3>3. \A n \in used : type[g[n]] \subseteq type'[h[n]]
      BY <1>10, <2>3
    <3>4. QED
      BY <1>9, <2>3, <3>1, <3>2, <3>3 DEF Grown
  <2>6. Coded(table, c)
    BY <1>1, <2>4 DEF ModuleInv
  <2>7. Kind(table', l) = {"placed", "extern"}
    BY <1>4, <1>2 DEF IsAlias
  <2>8. Coded(table', d)
    BY <1>1, <1>5, <1>6, <2>5, <2>6, <2>7, CodedStays, SMTT(30)
  <2>9. QED
    BY <2>4, <2>8
<1>18. Entered'
  <2>1. ASSUME NEW i \in DOMAIN entries
        PROVE  entries[i].label \in used' /\ "entry" \in table'.mode[entries[i].label]
    <3>1. entries[i].label \in used /\ "entry" \in table.mode[entries[i].label]
      BY <1>1 DEF ModuleInv, Entered
    <3>2. entries[i].label \in Label
      BY <1>1, <1>2, <3>1 DEF Typing
    <3>3. QED
      BY <1>5, <3>1, <3>2
  <2>2. QED
    BY <1>11, <2>1 DEF Entered
<1>19. Equated'
  <2>1. /\ equated \subseteq Name \X Name
        /\ \A p \in equated : g[p[1]] = g[p[2]]
    BY <1>1 DEF Equated, g
  <2>2. ASSUME NEW p \in equated' PROVE p \in Name \X Name /\ h[p[1]] = h[p[2]]
    <3>1. CASE p \in equated
      <4>1. p[1] \in Name /\ p[2] \in Name /\ g[p[1]] = g[p[2]]
        BY <2>1, <3>1
      <4>2. QED
        BY <1>8, <2>1, <3>1, <4>1
    <3>2. CASE p = <<a, b>>
      <4>1. h[a] = m /\ h[b] = m
        BY <1>8 DEF g
      <4>2. QED
        BY <3>2, <4>1
    <3>3. QED
      BY <3>1, <3>2
  <2>3. QED
    BY <2>2 DEF Equated, h
<1>20. ModuleInv'
  BY <1>12, <1>14, <1>15, <1>16, <1>17, <1>18 DEF ModuleInv
<1>21. QED
  BY <1>4, <1>19, <1>20 DEF Inv

\* $EQU: the label that is not described yet becomes another name of the other one.
LEMMA EquStep ==
    ASSUME Inv, NEW name1 \in Name, NEW name2 \in Name, Equ(name1, name2)
    PROVE  Inv'
<1> DEFINE l1 == Root(name1)
           l2 == Root(name2)
           Join(l, m) == /\ table' = Equate(table, l, m)
                         /\ type' = [type EXCEPT ![m] = @ \cup type[l]]
                         /\ equated' = equated \cup {<<name1, name2>>}
                         /\ UNCHANGED errors
<1>1. ModuleInv /\ Sound(table) /\ phase = "module" /\ Typing /\ table \in Tables
  BY DEF Inv, Equ, Directive, ModuleInv, Sound
<1>2. /\ l1 \in Name /\ l1 \in Label /\ (l1 = name1 \/ l1 \in used) /\ ~IsAlias(table, l1)
      /\ l2 \in Name /\ l2 \in Label /\ (l2 = name2 \/ l2 \in used) /\ ~IsAlias(table, l2)
      /\ Roots(table)[name1] = l1 /\ Roots(table)[name2] = l2
  BY <1>1, RootIs
<1>3. /\ UNCHANGED <<phase, pools, entries, externs>> /\ used' = used \cup {name1, name2}
      /\ IF l1 = l2 THEN UNCHANGED <<table, type, equated, errors>>
         ELSE IF Kind(table, l1) = {} THEN Join(l1, l2)
         ELSE IF Kind(table, l2) = {} THEN Join(l2, l1)
         ELSE errors' = errors + 2 /\ UNCHANGED <<table, type, equated>>
  BY DEF Equ, Directive, Uses, tables
<1> HIDE DEF l1, l2
<1>4. used \subseteq used' /\ used' \subseteq Name /\ l1 \in used' /\ l2 \in used'
  BY <1>1, <1>2, <1>3 DEF Typing
<1>5. CASE UNCHANGED <<table, type, equated>> /\ (errors' = errors \/ errors' = errors + 2)
  <2>1. /\ errors' \in Nat /\ (errors' = 0 => errors = 0) /\ type' = type /\ allocated' = allocated
        /\ entries' = entries /\ externs' = externs /\ Len(externs) \in Nat
    BY <1>1, <1>3, <1>5 DEF Typing, pools
  <2>2. Typing'
    BY <1>1, <1>4, <2>1 DEF Typing
  <2>3. Uncounted
    BY <1>4, <2>1 DEF Uncounted
  <2>4. Extends(table, table', {}) /\ Coded(table', New)
    BY <1>1, <1>5, <2>2, <2>3, CodedAnew, ExtendsNot
  <2>5. Entered'
    BY <1>1, <1>4, <2>1, <2>4, EnteredStays
  <2>6. QED
    BY <1>1, <1>3, <1>5, <2>2, <2>3, <2>4, <2>5, DirectiveKeeps
<1>6. CASE l1 # l2 /\ Kind(table, l1) = {} /\ Join(l1, l2)
  BY <1>1, <1>2, <1>3, <1>4, <1>6, JoinKeeps
<1>7. CASE l1 # l2 /\ Kind(table, l1) # {} /\ Kind(table, l2) = {} /\ Join(l2, l1)
  BY <1>1, <1>2, <1>3, <1>4, <1>7, JoinKeeps
<1>8. QED
  BY <1>3, <1>5, <1>6, <1>7
-----------------------------------------------------------------------------
(* $FUNC: the specifiers of its sentences go into their pool *)

\* What specifier_pool_find_or_create() does for the n-th sentence.
PoolStep(body, n, s) ==
    LET root == Root(body[n].spec)
    IN  IF body[n].spec = None \/ \E p \in Range(s.pool) : p.address = root
        THEN s
        ELSE [pool |-> <<[label |-> s.next + 1, address |-> root]>> \o s.pool,
              next |-> s.next + 1]
PoolSteps(body, f) ==
    f = [n \in 0 .. Len(body) |-> IF n = 0 THEN [pool |-> specifiers, next |-> allocated]
                                  ELSE PoolStep(body, n, f[n - 1])]
PoolWay(body) == CHOOSE f : PoolSteps(body, f)
SpecifierOf == [label : Nat, address : Name]
PoolStates == [pool : Seq(SpecifierOf), next : Nat]

\* The pool after the first n sentences: what was there, and a specifier with a new label
\* for each that was not.
PoolIs(body, n, s) ==
    /\ s \in PoolStates /\ allocated <= s.next
    /\ \A i \in DOMAIN s.pool :
          /\ s.pool[i].label \in 1 .. s.next
          /\ \/ \E j \in DOMAIN specifiers : s.pool[i] = specifiers[j]
             \/ /\ s.pool[i].label > allocated
                /\ \E k \in 1 .. n : body[k].spec # None /\ s.pool[i].address = Root(body[k].spec)
    /\ \A i, j \in DOMAIN s.pool : s.pool[i].label = s.pool[j].label => i = j
    /\ \A j \in DOMAIN specifiers : \E i \in DOMAIN s.pool : s.pool[i] = specifiers[j]
    /\ \A k \in 1 .. n : body[k].spec # None =>
          \E i \in DOMAIN s.pool : s.pool[i].address = Root(body[k].spec)

\* The parts of a pool.
LEMMA PoolStateIs ==
    ASSUME NEW s \in PoolStates
    PROVE  /\ s.pool \in Seq(SpecifierOf) /\ s.next \in Nat
           /\ DOMAIN s.pool = 1 .. Len(s.pool) /\ Len(s.pool) \in Nat
           /\ \A i \in DOMAIN s.pool : s.pool[i] \in SpecifierOf
<1>1. s.pool \in Seq(SpecifierOf) /\ s.next \in Nat
  BY DEF PoolStates
<1>2. PICK S, p : S = SpecifierOf /\ p = s.pool
  OBVIOUS
<1>3. p \in Seq(S)
  BY <1>1, <1>2
<1>4. DOMAIN p = 1 .. Len(p) /\ Len(p) \in Nat /\ \A i \in DOMAIN p : p[i] \in S
  BY <1>3
<1>5. QED
  BY <1>1, <1>2, <1>4

\* One sentence.
LEMMA PoolStepIs ==
    ASSUME Sound(table), ModuleInv, NEW body \in Seq([call : Name, spec : Name \cup {None}]),
           NEW n \in 1 .. Len(body), NEW s \in PoolStates
    PROVE  /\ PoolStep(body, n, s) \in PoolStates
           /\ PoolIs(body, n - 1, s) => PoolIs(body, n, PoolStep(body, n, s))
<1> DEFINE root == Root(body[n].spec)
           x == [label |-> s.next + 1, address |-> root]
           p == <<x>> \o s.pool
           u == PoolStep(body, n, s)
<1>1. body[n] \in [call : Name, spec : Name \cup {None}]
  <2>1. PICK S : S = [call : Name, spec : Name \cup {None}]
    OBVIOUS
  <2>2. body \in Seq(S)
    BY <2>1
  <2>3. body[n] \in S
    BY <2>2
  <2>4. QED
    BY <2>1, <2>3
<1>2. body[n].spec # None => root \in Name
  BY <1>1, RootIs
<1>3. /\ s.pool \in Seq(SpecifierOf) /\ s.next \in Nat
      /\ DOMAIN s.pool = 1 .. Len(s.pool) /\ Len(s.pool) \in Nat
  BY PoolStateIs
<1>4. \/ u = s /\ (body[n].spec # None => \E i \in DOMAIN s.pool : s.pool[i].address = root)
      \/ body[n].spec # None /\ u = [pool |-> p, next |-> s.next + 1]
  BY DEF PoolStep, Range
<1>5. body[n].spec # None =>
          /\ p \in Seq(SpecifierOf) /\ DOMAIN p = 1 .. Len(s.pool) + 1 /\ p[1] = x
          /\ \A i \in DOMAIN s.pool : i + 1 \in DOMAIN p /\ p[i + 1] = s.pool[i]
          /\ \A i \in DOMAIN p : i = 1 \/ (i - 1 \in DOMAIN s.pool /\ p[i] = s.pool[i - 1])
  <2>1. SUFFICES ASSUME body[n].spec # None
                 PROVE  /\ p \in Seq(SpecifierOf) /\ DOMAIN p = 1 .. Len(s.pool) + 1 /\ p[1] = x
                        /\ \A i \in DOMAIN s.pool : i + 1 \in DOMAIN p /\ p[i + 1] = s.pool[i]
                        /\ \A i \in DOMAIN p : \/ i = 1
                                               \/ i - 1 \in DOMAIN s.pool /\ p[i] = s.pool[i - 1]
    OBVIOUS
  <2>2. x \in SpecifierOf
    BY <1>2, <1>3, <2>1 DEF SpecifierOf
  <2>3. PICK q, y : q = s.pool /\ y = x
    OBVIOUS
  <2>4. q \in Seq(SpecifierOf) /\ y \in SpecifierOf
    BY <1>3, <2>2, <2>3
  <2>5. /\ <<y>> \o q \in Seq(SpecifierOf) /\ DOMAIN (<<y>> \o q) = 1 .. Len(q) + 1
        /\ DOMAIN q = 1 .. Len(q) /\ Len(q) \in Nat /\ (<<y>> \o q)[1] = y
        /\ \A i \in DOMAIN q : (<<y>> \o q)[i + 1] = q[i]
        /\ \A i \in DOMAIN (<<y>> \o q) : \/ i = 1
                                          \/ i - 1 \in DOMAIN q /\ (<<y>> \o q)[i] = q[i - 1]
    BY <2>4, PrependIs
  <2>6. p = <<y>> \o q
    BY <2>3
  <2>7. \A i \in DOMAIN q : i + 1 \in DOMAIN (<<y>> \o q)
    BY <2>5
  <2> HIDE DEF p, x
  <2>8. QED
    BY <2>3, <2>5, <2>6, <2>7
<1> HIDE DEF p, u, root
<1>6. u \in PoolStates
  BY <1>3, <1>4, <1>5 DEF PoolStates
<1>7. ASSUME PoolIs(body, n - 1, s) PROVE PoolIs(body, n, u)
  <2>1. CASE u = s /\ (body[n].spec # None => \E i \in DOMAIN s.pool : s.pool[i].address = root)
    <3>1. \A k \in 1 .. n - 1 : k \in 1 .. n
      OBVIOUS
    <3>2. \A k \in 1 .. n : k \in 1 .. n - 1 \/ k = n
      OBVIOUS
    <3>3. \A k \in 1 .. n : body[k].spec # None =>
              \E i \in DOMAIN s.pool : s.pool[i].address = Root(body[k].spec)
      BY <1>7, <2>1, <3>2 DEF PoolIs, root
    <3>4. \A i \in DOMAIN s.pool :
             /\ s.pool[i].label \in 1 .. s.next
             /\ \/ \E j \in DOMAIN specifiers : s.pool[i] = specifiers[j]
                \/ /\ s.pool[i].label > allocated
                   /\ \E k \in 1 .. n : /\ body[k].spec # None
                                        /\ s.pool[i].address = Root(body[k].spec)
      BY <1>7, <3>1 DEF PoolIs
    <3>5. PoolIs(body, n, s)
      BY <1>7, <3>3, <3>4 DEF PoolIs
    <3>6. QED
      BY <2>1, <3>5
  <2>2. CASE body[n].spec # None /\ u = [pool |-> p, next |-> s.next + 1]
    <3>1. u.pool = p /\ u.next = s.next + 1
      BY <2>2
    <3>2. x.label = s.next + 1 /\ x.address = root
      OBVIOUS
    <3> HIDE DEF x
    <3>3. allocated <= s.next /\ allocated \in Nat
      BY <1>7 DEF PoolIs, ModuleInv, Typing
    <3>4. \A i \in DOMAIN s.pool : s.pool[i].label \in 1 .. s.next
      BY <1>7 DEF PoolIs
    <3>5. ASSUME NEW i \in DOMAIN p
          PROVE  /\ p[i].label \in 1 .. s.next + 1
                 /\ \/ \E j \in DOMAIN specifiers : p[i] = specifiers[j]
                    \/ /\ p[i].label > allocated
                       /\ \E k \in 1 .. n : body[k].spec # None /\ p[i].address = Root(body[k].spec)
      <4>1. CASE i = 1
        <5>1. p[i] = x
          BY <1>5, <2>2, <4>1
        <5>2. n \in 1 .. n
          OBVIOUS
        <5>3. p[i].label > allocated /\ p[i].label \in 1 .. s.next + 1
          BY <1>3, <3>2, <3>3, <5>1
        <5>4. \E k \in 1 .. n : body[k].spec # None /\ p[i].address = Root(body[k].spec)
          BY <2>2, <3>2, <5>1, <5>2 DEF root
        <5>5. QED
          BY <5>3, <5>4
      <4>2. CASE i # 1
        <5>1. PICK h \in DOMAIN s.pool : p[i] = s.pool[h]
          BY <1>5, <2>2, <4>2
        <5>2. p[i].label \in 1 .. s.next + 1
          BY <1>3, <3>4, <5>1
        <5>3. \A k \in 1 .. n - 1 : k \in 1 .. n
          OBVIOUS
        <5>4. \/ \E j \in DOMAIN specifiers : p[i] = specifiers[j]
              \/ /\ p[i].label > allocated
                 /\ \E k \in 1 .. n : body[k].spec # None /\ p[i].address = Root(body[k].spec)
          BY <1>7, <5>1, <5>3 DEF PoolIs
        <5>5. QED
          BY <5>2, <5>4
      <4>3. QED
        BY <4>1, <4>2
    <3>6. ASSUME NEW i \in DOMAIN p, NEW j \in DOMAIN p, p[i].label = p[j].label PROVE i = j
      <4>1. \A h \in DOMAIN s.pool : s.pool[h].label # s.next + 1
        BY <1>3, <3>4
      <4>2. \A h, k \in DOMAIN s.pool : s.pool[h].label = s.pool[k].label => h = k
        BY <1>7 DEF PoolIs
      <4>3. i \in Int /\ j \in Int
        BY <1>5, <2>2, <1>3
      <4>4. /\ p[1].label = s.next + 1
            /\ \A h \in DOMAIN p : h # 1 => h - 1 \in DOMAIN s.pool /\ p[h] = s.pool[h - 1]
        <5>1. p[1] = x
          BY <1>5, <2>2
        <5>2. p[1].label = s.next + 1
          BY <3>2, <5>1
        <5>3. QED
          BY <1>5, <2>2, <5>2
      <4>5. i = 1 => j = 1
        BY <3>6, <4>1, <4>4
      <4>6. j = 1 => i = 1
        BY <3>6, <4>1, <4>4
      <4>7. i # 1 /\ j # 1 => i - 1 = j - 1
        BY <3>6, <4>2, <4>4
      <4>8. QED
        BY <4>3, <4>5, <4>6, <4>7
    <3>7. \A j \in DOMAIN specifiers : \E i \in DOMAIN p : p[i] = specifiers[j]
      <4>1. \A j \in DOMAIN specifiers : \E i \in DOMAIN s.pool : s.pool[i] = specifiers[j]
        BY <1>7 DEF PoolIs
      <4>2. QED
        BY <1>5, <2>2, <4>1
    <3>8. ASSUME NEW k \in 1 .. n, body[k].spec # None
          PROVE  \E i \in DOMAIN p : p[i].address = Root(body[k].spec)
      <4>1. CASE k = n
        BY <1>3, <1>5, <2>2, <3>2, <4>1 DEF root
      <4>2. CASE k # n
        <5>1. k \in 1 .. n - 1
          BY <4>2
        <5>2. \E i \in DOMAIN s.pool : s.pool[i].address = Root(body[k].spec)
          BY <1>7, <3>8, <5>1 DEF PoolIs
        <5>3. QED
          BY <1>5, <2>2, <5>2
      <4>3. QED
        BY <4>1, <4>2
    <3>9. allocated <= u.next
      BY <1>3, <3>1, <3>3
    <3>10. QED
      BY <1>6, <3>1, <3>5, <3>6, <3>7, <3>8, <3>9 DEF PoolIs
  <2>3. QED
    BY <1>4, <2>1, <2>2
<1>8. QED
  BY <1>6, <1>7 DEF u

\* The pool after all sentences.
LEMMA PooledIs ==
    ASSUME Sound(table), ModuleInv, NEW body \in Seq([call : Name, spec : Name \cup {None}])
    PROVE  PoolIs(body, Len(body), Pooled(body))
<1> DEFINE m == Len(body)
           a == [pool |-> specifiers, next |-> allocated]
           F == [n \in 1 .. m |-> [s \in PoolStates |-> PoolStep(body, n, s)]]
           g == PoolWay(body)
<1>1. m \in Nat
  OBVIOUS
<1>2. specifiers \in Seq(SpecifierOf) /\ allocated \in Nat
  BY LabelsAssumption DEF ModuleInv, Specified, SpecifierOf, Typing
<1>3. a \in PoolStates
  BY <1>2 DEF PoolStates
<1>4. F \in [1 .. m -> [PoolStates -> PoolStates]]
  BY PoolStepIs
<1>5. \A n \in 1 .. m : \A s \in PoolStates : F[n][s] = PoolStep(body, n, s)
  OBVIOUS
<1> HIDE DEF m, F
<1>6. PICK f : /\ f \in [0 .. m -> PoolStates] /\ f[0] = a
               /\ \A n \in 1 .. m : f[n] = F[n][f[n - 1]]
  <2> HIDE DEF a
  <2>1. PICK f : Stepping(f, PoolStates, m, F, a)
    BY <1>1, <1>3, <1>4, StepsExist
  <2>2. QED
    BY <2>1 DEF Stepping
<1>7. PoolSteps(body, f)
  <2>1. ASSUME NEW n \in 0 .. m
        PROVE  f[n] = IF n = 0 THEN a ELSE PoolStep(body, n, f[n - 1])
    <3>1. CASE n = 0
      BY <1>6, <3>1
    <3>2. CASE n # 0
      <4>1. n \in 1 .. m /\ n - 1 \in 0 .. m
        BY <1>1, <3>2
      <4>2. QED
        BY <1>5, <1>6, <3>2, <4>1
    <3>3. QED
      BY <3>1, <3>2
  <2>2. f = [n \in 0 .. m |-> IF n = 0 THEN a ELSE PoolStep(body, n, f[n - 1])]
    BY <1>6, <2>1
  <2>3. QED
    BY <2>2 DEF PoolSteps, m
<1>8. PoolSteps(body, g)
  BY <1>7 DEF PoolWay
<1>9. g[0] = a /\ \A n \in 1 .. m : g[n] = PoolStep(body, n, g[n - 1])
  <2>1. g = [n \in 0 .. m |-> IF n = 0 THEN a ELSE PoolStep(body, n, g[n - 1])]
    BY <1>8 DEF PoolSteps, m
  <2>2. PICK h : h = g
    OBVIOUS
  <2>3. h = [n \in 0 .. m |-> IF n = 0 THEN a ELSE PoolStep(body, n, h[n - 1])]
    BY <2>1, <2>2
  <2>4. 0 \in 0 .. m /\ \A n \in 1 .. m : n \in 0 .. m /\ n # 0
    BY <1>1
  <2> HIDE DEF a, g
  <2>5. h[0] = a /\ \A n \in 1 .. m : h[n] = PoolStep(body, n, h[n - 1])
    BY <2>3, <2>4
  <2>6. QED
    BY <2>2, <2>5
<1> HIDE DEF g
<1>10. Pooled(body) = g[m]
  BY DEF Pooled, g, PoolWay, PoolSteps, PoolStep, m
<1> DEFINE K == {n \in 0 .. m : PoolIs(body, n, g[n])}
<1>11. 0 \in K
  <2>1. /\ a.pool = specifiers /\ a.next = allocated
        /\ \A k \in 1 .. 0 : FALSE /\ 0 \in 0 .. m
    BY <1>1
  <2>2. /\ \A i \in DOMAIN specifiers : specifiers[i].label \in 1 .. allocated
        /\ \A i, j \in DOMAIN specifiers : specifiers[i].label = specifiers[j].label => i = j
        /\ allocated <= allocated
    BY <1>2 DEF ModuleInv, Specified
  <2>3. PoolIs(body, 0, a)
    <3> HIDE DEF a
    <3>1. QED
      BY <1>3, <2>1, <2>2 DEF PoolIs
  <2>4. 0 \in 0 .. m
    BY <1>1
  <2>5. QED
    BY <1>9, <2>3, <2>4
<1>12. ASSUME NEW n \in 1 .. m, n - 1 \in K PROVE n \in K
  <2>1. PoolIs(body, n - 1, g[n - 1])
    BY <1>12
  <2>2. g[n - 1] \in PoolStates
    BY <2>1 DEF PoolIs
  <2>3. PoolIs(body, n, g[n])
    BY <1>9, <2>1, <2>2, PoolStepIs DEF m
  <2>4. n \in 0 .. m
    BY <1>1
  <2>5. QED
    BY <2>3, <2>4
<1> HIDE DEF K
<1>13. 0 .. m \subseteq K
  BY <1>1, <1>11, <1>12, StepsInSet
<1>14. m \in 0 .. m
  BY <1>1
<1>15. PoolIs(body, m, g[m])
  BY <1>13, <1>14 DEF K
<1>16. QED
  BY <1>10, <1>15 DEF m

\* What a function that was read leaves: its sentences have the labels behind those of the
\* specifiers, and the label of its last sentence is that of all sentences that fail, or
\* another name of it.
FunctionRead(label, q, next) ==
    /\ phase = "module" /\ UNCHANGED <<phase, entries, externs, equated>>
    /\ label \in Name /\ label \in used' /\ "function" \in type'[label]
    /\ next \in Nat /\ allocated <= next /\ next + Len(q) <= MaxInfo /\ allocated' = next + Len(q)
    /\ used \subseteq used' /\ used' \subseteq Name
    /\ type' \in [Name -> SUBSET Kinds] /\ \A n \in Name : type[n] \subseteq type'[n]
    /\ IF IsDefined(table, label)
       THEN errors' = errors + 1 /\ UNCHANGED functions
       ELSE functions' = Append(functions, [label |-> label, sentences |-> q]) /\ UNCHANGED errors
    /\ IF fail = None THEN fail' = next + Len(q) /\ UNCHANGED table
       ELSE table' = Equate(table, next + Len(q), fail) /\ UNCHANGED fail
PoolRead(next) ==
    /\ specifiers' \in Seq(SpecifierOf)
    /\ \A i \in DOMAIN specifiers' :
          /\ specifiers'[i].label \in 1 .. next
          /\ \/ \E j \in DOMAIN specifiers : specifiers'[i] = specifiers[j]
             \/ /\ specifiers'[i].label > allocated /\ specifiers'[i].address \in used'
                /\ Roots(table)[specifiers'[i].address] = specifiers'[i].address
                /\ "specifier" \in type'[specifiers'[i].address]
    /\ \A i, j \in DOMAIN specifiers' : specifiers'[i].label = specifiers'[j].label => i = j
    /\ \A j \in DOMAIN specifiers : \E i \in DOMAIN specifiers' : specifiers'[i] = specifiers[j]
SentencesRead(q, next) ==
    /\ q \in Seq(Sentence) /\ q # <<>>
    /\ \A n \in DOMAIN q :
          /\ q[n].label = next + n /\ q[n].call \in used'
          /\ Roots(table)[q[n].call] = q[n].call /\ "function" \in type'[q[n].call]
          /\ q[n].spec # None => \E i \in DOMAIN specifiers' : q[n].spec = specifiers'[i].label

\* $FUNC does this.
LEMMA FunctionReads ==
    ASSUME Inv, NEW name \in Name, NEW body \in Body, Function(name, body)
    PROVE  \E label, q, next :
               FunctionRead(label, q, next) /\ PoolRead(next) /\ SentencesRead(q, next)
<1> DEFINE label == Root(name)
           pooled == Pooled(body)
           Inline(n) == IF body[n].spec = None THEN None
                        ELSE (CHOOSE p \in Range(pooled.pool) :
                                  p.address = Root(body[n].spec)).label
           sentence == [n \in DOMAIN body |->
                           [label |-> pooled.next + n, call |-> Root(body[n].call),
                            spec |-> Inline(n)]]
           names == {body[n].call : n \in DOMAIN body}
           specs == {body[n].spec : n \in DOMAIN body} \ {None}
           m == Len(body)
<1>1. ModuleInv /\ Sound(table) /\ phase = "module" /\ Typing
  BY DEF Inv, Function, Directive, ModuleInv
<1>2. label \in Name /\ (label = name \/ label \in used)
  BY <1>1, RootIs
<1>3. /\ body \in Seq([call : Name, spec : Name \cup {None}]) /\ body # <<>>
      /\ m \in Nat /\ m > 0 /\ DOMAIN body = 1 .. m
      /\ \A n \in DOMAIN body : body[n].call \in Name /\ body[n].spec \in Name \cup {None}
  <2>1. body \in Seq([call : Name, spec : Name \cup {None}]) /\ body # <<>>
    BY LabelsAssumption
  <2>2. PICK S : S = [call : Name, spec : Name \cup {None}]
    OBVIOUS
  <2>3. body \in Seq(S)
    BY <2>1, <2>2
  <2>4. m \in Nat /\ m > 0 /\ DOMAIN body = 1 .. m /\ \A n \in DOMAIN body : body[n] \in S
    BY <2>1, <2>3
  <2>5. QED
    BY <2>1, <2>2, <2>4
<1>4. PoolIs(body, m, pooled)
  BY <1>1, <1>3, PooledIs
<1>5. /\ UNCHANGED <<phase, entries, externs, equated>>
      /\ pooled.next + m <= MaxInfo /\ allocated' = pooled.next + m /\ specifiers' = pooled.pool
      /\ used' = used \cup ({name} \cup names \cup specs)
      /\ type' = [n \in Name |->
                     type[n] \cup (IF n \in {label} \cup {Root(c) : c \in names}
                                   THEN {"function"} ELSE {})
                             \cup (IF n \in {Root(c) : c \in specs} THEN {"specifier"} ELSE {})]
      /\ IF IsDefined(table, label)
         THEN errors' = errors + 1 /\ UNCHANGED functions
         ELSE /\ functions' = Append(functions, [label |-> label, sentences |-> sentence])
              /\ UNCHANGED errors
      /\ IF fail = None THEN fail' = pooled.next + m /\ UNCHANGED table
         ELSE table' = Equate(table, pooled.next + m, fail) /\ UNCHANGED fail
  BY DEF Function, Directive, Uses, tables
<1>6. names \subseteq Name /\ specs \subseteq Name
  BY <1>3
<1>7. /\ type' \in [Name -> SUBSET Kinds] /\ \A n \in Name : type[n] \subseteq type'[n]
      /\ "function" \in type'[label]
      /\ \A c \in names : Root(c) \in Name /\ "function" \in type'[Root(c)]
      /\ \A c \in specs : Root(c) \in Name /\ "specifier" \in type'[Root(c)]
  <2>1. \A c \in names \cup specs : Root(c) \in Name
    BY <1>1, <1>6, RootIs
  <2>2. type \in [Name -> SUBSET Kinds]
    BY <1>1 DEF Typing
  <2> HIDE DEF names, specs, label
  <2>3. /\ type' \in [Name -> SUBSET Kinds] /\ \A n \in Name : type[n] \subseteq type'[n]
        /\ \A n \in Name : n \in {label} \cup {Root(c) : c \in names} => "function" \in type'[n]
        /\ \A n \in Name : n \in {Root(c) : c \in specs} => "specifier" \in type'[n]
    BY <1>5, <2>2 DEF Kinds
  <2>4. QED
    BY <1>2, <2>1, <2>3
<1>8. used \subseteq used' /\ used' \subseteq Name /\ label \in used'
  BY <1>1, <1>2, <1>5, <1>6 DEF Typing
<1>9. \A c \in names \cup specs : /\ Root(c) \in used' /\ Roots(table)[Root(c)] = Root(c)
  <2>1. \A c \in names \cup specs : /\ Root(c) = c \/ Root(c) \in used
                                    /\ Roots(table)[Root(c)] = Root(c)
    BY <1>1, <1>6, RootIs
  <2>2. QED
    BY <1>5, <2>1
<1>10. pooled \in PoolStates /\ allocated <= pooled.next /\ pooled.next \in Nat
  BY <1>4, PoolStateIs DEF PoolIs
<1>11. \A n \in DOMAIN body : body[n].call \in names /\ (body[n].spec # None => body[n].spec \in specs)
  OBVIOUS
<1> HIDE DEF names, specs, pooled
<1>12. PoolRead(pooled.next)
  <2>1. specifiers' \in Seq(SpecifierOf)
    BY <1>5, <1>10, PoolStateIs
  <2>2. ASSUME NEW i \in DOMAIN pooled.pool
        PROVE  /\ pooled.pool[i].label \in 1 .. pooled.next
               /\ \/ \E j \in DOMAIN specifiers : pooled.pool[i] = specifiers[j]
                  \/ /\ pooled.pool[i].label > allocated /\ pooled.pool[i].address \in used'
                     /\ Roots(table)[pooled.pool[i].address] = pooled.pool[i].address
                     /\ "specifier" \in type'[pooled.pool[i].address]
    <3>1. /\ pooled.pool[i].label \in 1 .. pooled.next
          /\ \/ \E j \in DOMAIN specifiers : pooled.pool[i] = specifiers[j]
             \/ /\ pooled.pool[i].label > allocated
                /\ \E k \in 1 .. m : /\ body[k].spec # None
                                     /\ pooled.pool[i].address = Root(body[k].spec)
      BY <1>4 DEF PoolIs
    <3>2. \A k \in 1 .. m : body[k].spec # None => body[k].spec \in specs
      BY <1>3, <1>11
    <3>3. QED
      BY <1>7, <1>9, <3>1, <3>2
  <2>3. /\ \A i, j \in DOMAIN pooled.pool : pooled.pool[i].label = pooled.pool[j].label => i = j
        /\ \A j \in DOMAIN specifiers : \E i \in DOMAIN pooled.pool : pooled.pool[i] = specifiers[j]
    BY <1>4 DEF PoolIs
  <2>4. PICK p : p = pooled.pool
    OBVIOUS
  <2>5. QED
    BY <1>5, <2>1, <2>2, <2>3, <2>4 DEF PoolRead
<1>13. SentencesRead(sentence, pooled.next)
  <2>1. ASSUME NEW n \in DOMAIN body
        PROVE  /\ Inline(n) \in Nat \cup {None}
               /\ Inline(n) # None => \E i \in DOMAIN pooled.pool : Inline(n) = pooled.pool[i].label
    <3>1. CASE body[n].spec = None
      BY <3>1
    <3>2. CASE body[n].spec # None
      <4>1. \E i \in DOMAIN pooled.pool : pooled.pool[i].address = Root(body[n].spec)
        BY <1>3, <1>4, <3>2 DEF PoolIs
      <4>2. \E p \in Range(pooled.pool) : p.address = Root(body[n].spec)
        BY <4>1 DEF Range
      <4>3. PICK p \in Range(pooled.pool) : Inline(n) = p.label
        BY <3>2, <4>2
      <4>4. PICK i \in DOMAIN pooled.pool : p = pooled.pool[i]
        BY <4>3 DEF Range
      <4>5. pooled.pool[i] \in SpecifierOf
        BY <1>10, PoolStateIs
      <4>6. p.label \in Nat
        BY <4>4, <4>5 DEF SpecifierOf
      <4> HIDE DEF Inline
      <4>7. QED
        BY <4>3, <4>4, <4>6
    <3>3. QED
      BY <3>1, <3>2
  <2> HIDE DEF Inline
  <2>2. ASSUME NEW n \in DOMAIN body
        PROVE  /\ sentence[n] \in Sentence
               /\ sentence[n].label = pooled.next + n /\ sentence[n].call = Root(body[n].call)
               /\ sentence[n].spec = Inline(n)
    <3>1. Root(body[n].call) \in Name /\ pooled.next + n \in Nat
      BY <1>3, <1>7, <1>10, <1>11
    <3>2. sentence[n] = [label |-> pooled.next + n, call |-> Root(body[n].call), spec |-> Inline(n)]
      OBVIOUS
    <3> HIDE DEF sentence
    <3>3. QED
      BY <2>1, <3>1, <3>2 DEF Sentence
  <2>3. DOMAIN sentence = 1 .. m
    BY <1>3
  <2>4. sentence \in Seq(Sentence) /\ Len(sentence) = m /\ sentence # <<>>
    <3>1. sentence = [n \in 1 .. m |-> sentence[n]]
      BY <1>3
    <3> HIDE DEF sentence, m
    <3>2. PICK q : q = sentence
      OBVIOUS
    <3>3. q = [n \in 1 .. m |-> q[n]] /\ DOMAIN q = 1 .. m /\ \A n \in 1 .. m : q[n] \in Sentence
      BY <1>3, <2>2, <2>3, <3>1, <3>2
    <3>4. q \in Seq(Sentence) /\ Len(q) = m
      BY <1>3, <3>3, SequenceIs
    <3>5. q # <<>>
      BY <1>3, <3>4
    <3>6. QED
      BY <3>2, <3>4, <3>5
  <2> HIDE DEF sentence
  <2>5. ASSUME NEW n \in DOMAIN sentence
        PROVE  /\ sentence[n].label = pooled.next + n /\ sentence[n].call \in used'
               /\ Roots(table)[sentence[n].call] = sentence[n].call
               /\ "function" \in type'[sentence[n].call]
               /\ sentence[n].spec # None =>
                     \E i \in DOMAIN specifiers' : sentence[n].spec = specifiers'[i].label
    <3>1. n \in DOMAIN body /\ body[n].call \in names
      BY <1>3, <1>11, <2>3
    <3>2. /\ sentence[n].label = pooled.next + n /\ sentence[n].call = Root(body[n].call)
          /\ sentence[n].spec = Inline(n)
      BY <2>2, <3>1
    <3>3. /\ Root(body[n].call) \in used' /\ "function" \in type'[Root(body[n].call)]
          /\ Roots(table)[Root(body[n].call)] = Root(body[n].call)
      BY <1>7, <1>9, <3>1
    <3>4. Inline(n) # None => \E i \in DOMAIN specifiers' : Inline(n) = specifiers'[i].label
      <4>1. specifiers' = pooled.pool
        BY <1>5
      <4>2. QED
        BY <2>1, <3>1, <4>1
    <3>5. QED
      BY <3>2, <3>3, <3>4
  <2>6. QED
    BY <2>4, <2>5 DEF SentencesRead
<1>14. Len(sentence) = m
  <2>1. DOMAIN sentence = 1 .. m
    BY <1>3
  <2>2. sentence \in Seq(Sentence)
    BY <1>13 DEF SentencesRead
  <2> HIDE DEF sentence
  <2>3. QED
    BY <1>3, <2>1, <2>2
<1>15. FunctionRead(label, sentence, pooled.next)
  <2> HIDE DEF label, sentence
  <2>1. QED
    BY <1>1, <1>2, <1>5, <1>7, <1>8, <1>10, <1>14 DEF FunctionRead
<1>16. QED
  BY <1>12, <1>13, <1>15

\* The table: only the label of the last sentence may have become another name.
LEMMA ReadTable ==
    ASSUME NEW label, NEW q, NEW next, NEW last, last = next + Len(q), Inv,
           FunctionRead(label, q, next), PoolRead(next), SentencesRead(q, next)
    PROVE  /\ last \in 1 .. MaxInfo /\ last > next /\ last > allocated /\ last \in Label
           /\ Len(q) \in Nat /\ Len(q) > 0 /\ DOMAIN q = 1 .. Len(q) /\ next \in Nat
           /\ Sound(table') /\ table' \in Tables /\ table'.code = table.code
           /\ \A x \in Label \ {last} : /\ table'.mode[x] = table.mode[x]
                                        /\ table'.info[x] = table.info[x]
                                        /\ Kind(table', x) = Kind(table, x)
                                        /\ IsAlias(table', x) <=> IsAlias(table, x)
           /\ \A n \in Name : Roots(table')[n] = Roots(table)[n] /\ n # last
           /\ fail' = IF fail = None THEN last ELSE fail
           /\ fail' \in 1 .. last /\ Kind(table', fail') = {}
           /\ \/ fail' = last /\ Kind(table', last) = {}
              \/ fail # None /\ IsAlias(table', last) /\ table'.info[last].value = fail /\ IsDefined(table', last)
<1>1. /\ ModuleInv /\ Sound(table) /\ Typing /\ table \in Tables /\ allocated \in Nat
      /\ Nameless /\ Named
  BY DEF Inv, ModuleInv, Sound, FunctionRead, Typing
<1>2. /\ next \in Nat /\ allocated <= next /\ last <= MaxInfo
      /\ IF fail = None THEN fail' = last /\ UNCHANGED table
         ELSE table' = Equate(table, last, fail) /\ UNCHANGED fail
  BY DEF FunctionRead
<1>3. Len(q) \in Nat /\ Len(q) > 0 /\ DOMAIN q = 1 .. Len(q)
  BY DEF SentencesRead
<1>4. /\ last \in 1 .. MaxInfo /\ last > next /\ last > allocated /\ last \in Label
      /\ \A n \in Name : n # last
  BY <1>1, <1>2, <1>3, LabelsAre
<1>5. Kind(table, last) = {} /\ ~IsAlias(table, last)
  BY <1>1, <1>4 DEF Nameless, IsAlias
<1>6. CASE fail = None
  <2>1. fail' = last /\ table' = table
    BY <1>2, <1>6
  <2>2. fail' \in 1 .. last
    BY <1>4, <2>1
  <2>3. QED
    BY <1>1, <1>2, <1>3, <1>4, <1>5, <1>6, <2>1, <2>2
<1>7. CASE fail # None
  <2>1. fail' = fail /\ table' = Equate(table, last, fail)
    BY <1>2, <1>7
  <2>2. fail \in 1 .. allocated /\ Kind(table, fail) = {} /\ fail \in Label /\ fail # last
    BY <1>1, <1>4, <1>7, LabelsAre DEF Nameless, Typing
  <2>3. ~IsAlias(table, fail)
    BY <2>2 DEF IsAlias
  <2>4. PICK t, f : t = table /\ f = fail
    OBVIOUS
  <2>5. t \in Tables /\ last \in Label /\ f \in Label /\ Sound(t) /\ last # f
        /\ ~IsAlias(t, last) /\ ~IsAlias(t, f)
    BY <1>1, <1>4, <1>5, <2>2, <2>3, <2>4
  <2>6. /\ Equate(t, last, f) \in Tables /\ Equate(t, last, f).code = t.code
        /\ Equate(t, last, f).mode[last] = t.mode[last] \cup {"defined", "placed", "extern"}
        /\ Equate(t, last, f).info[last] = Pointer(f)
        /\ \A x \in Label \ {last} : /\ Equate(t, last, f).mode[x] = t.mode[x]
                                     /\ Equate(t, last, f).info[x] = t.info[x]
    BY ONLY <2>5, EquateIs
  <2>7. /\ Sound(Equate(t, last, f))
        /\ Roots(Equate(t, last, f)) =
               [x \in Label |-> IF Roots(t)[x] = last THEN f ELSE Roots(t)[x]]
        /\ \A x \in Label : IsAlias(Equate(t, last, f), x) <=> x = last \/ IsAlias(t, x)
    BY ONLY <2>5, EquateJoins
  <2>8. table' = Equate(t, last, f)
    BY <2>1, <2>4
  <2>9. /\ table'.mode[last] = table.mode[last] \cup {"defined", "placed", "extern"}
        /\ table'.info[last].value = fail /\ IsAlias(table', last) /\ IsDefined(table', last)
    BY <1>4, <2>4, <2>6, <2>7, <2>8 DEF Pointer, IsDefined
  <2>10. ASSUME NEW x \in Label \ {last}
         PROVE  /\ table'.mode[x] = table.mode[x] /\ table'.info[x] = table.info[x]
                /\ Kind(table', x) = Kind(table, x) /\ (IsAlias(table', x) <=> IsAlias(table, x))
    <3>1. table'.mode[x] = table.mode[x] /\ table'.info[x] = table.info[x]
      BY <2>4, <2>6, <2>8
    <3>2. QED
      BY <2>4, <2>7, <2>8, <3>1 DEF Kind
  <2>11. ASSUME NEW n \in Name PROVE Roots(table')[n] = Roots(table)[n]
    <3>1. n \in Label /\ Roots(table)[n] # last
      BY <1>1, <1>4, LabelsAre DEF Named
    <3>2. Roots(table') = [x \in Label |-> IF Roots(table)[x] = last THEN fail ELSE Roots(table)[x]]
      BY <2>4, <2>7, <2>8
    <3>3. QED
      BY <3>1, <3>2
  <2>12. Kind(table', fail') = {}
    BY <2>1, <2>2, <2>10
  <2>13. fail' \in 1 .. last
    BY <1>1, <1>4, <2>1, <2>2
  <2>14. Sound(table') /\ table' \in Tables /\ table'.code = table.code
    BY <2>4, <2>6, <2>7, <2>8
  <2>15. QED
    BY <1>2, <1>3, <1>4, <1>7, <2>1, <2>9, <2>10, <2>11, <2>12, <2>13, <2>14
<1>8. QED
  BY <1>6, <1>7

\* The names mean what they meant, and the code is as it was.
LEMMA ReadCode ==
    ASSUME NEW label, NEW q, NEW next, Inv,
           FunctionRead(label, q, next), PoolRead(next), SentencesRead(q, next)
    PROVE  /\ Typing' /\ Named' /\ Described' /\ Entered' /\ Equated' /\ Coded(table', Context')
           /\ SpecifierLabels \subseteq SpecifierLabels'
           /\ \A l \in SpecifierLabels' : l \in 1 .. next /\ (l \in SpecifierLabels \/ l > allocated)
<1> DEFINE last == next + Len(q)
<1>1. /\ ModuleInv /\ Sound(table) /\ Typing /\ table \in Tables /\ Equated /\ Named
      /\ Name \subseteq Label /\ Coded(table, Context) /\ used \subseteq Name
  BY LabelsAre DEF Inv, ModuleInv, Sound, FunctionRead, Typing
<1>2. /\ last \in 1 .. MaxInfo /\ last \in Label /\ next \in Nat /\ table' \in Tables
      /\ table'.code = table.code /\ last > next
      /\ \A x \in Label \ {last} : /\ table'.mode[x] = table.mode[x]
                                   /\ table'.info[x] = table.info[x]
                                   /\ Kind(table', x) = Kind(table, x)
      /\ \A n \in Name : Roots(table')[n] = Roots(table)[n] /\ n # last
      /\ \/ Kind(table', last) = {}
         \/ IsAlias(table', last) /\ IsDefined(table', last)
  BY ReadTable
<1>3. /\ UNCHANGED <<phase, entries, externs, equated>>
      /\ allocated' = last /\ used \subseteq used' /\ used' \subseteq Name
      /\ type' \in [Name -> SUBSET Kinds] /\ \A n \in Name : type[n] \subseteq type'[n]
      /\ \/ errors' = errors + 1 /\ UNCHANGED functions
         \/ functions' = Append(functions, [label |-> label, sentences |-> q]) /\ UNCHANGED errors
  BY DEF FunctionRead
<1> HIDE DEF last
<1>4. Typing'
  <2>1. errors' \in Nat
    BY <1>1, <1>3 DEF Typing
  <2>2. last \in 0 .. MaxInfo
    BY <1>2
  <2>3. entries' = entries /\ externs' = externs
    BY <1>3
  <2>4. QED
    BY <1>1, <1>3, <2>1, <2>2, <2>3 DEF Typing
<1>5. Named'
  BY <1>1, <1>2, <1>3 DEF Named
<1>6. Described'
  <2>1. ASSUME NEW x \in Label \ {last}, Kind(table', x) # {} PROVE IsDefined(table', x)
    <3>1. IsDefined(table, x)
      BY <1>1, <1>2, <2>1 DEF ModuleInv, Described
    <3>2. QED
      BY <1>2, <3>1 DEF IsDefined
  <2>2. QED
    BY <1>2, <2>1 DEF Described
<1>7. Entered'
  <2>1. ASSUME NEW i \in DOMAIN entries
        PROVE  entries[i].label \in used' /\ "entry" \in table'.mode[entries[i].label]
    <3>1. entries[i].label \in used /\ "entry" \in table.mode[entries[i].label]
      BY <1>1 DEF ModuleInv, Entered
    <3>2. entries[i].label \in Label \ {last}
      BY <1>1, <1>2, <3>1
    <3>3. QED
      BY <1>2, <1>3, <3>1, <3>2
  <2>2. QED
    BY <1>3, <2>1 DEF Entered
<1>8. Equated'
  <2>1. ASSUME NEW p \in equated
        PROVE  p \in Name \X Name /\ Roots(table')[p[1]] = Roots(table')[p[2]]
    <3>1. p \in Name \X Name /\ Roots(table)[p[1]] = Roots(table)[p[2]]
      BY <1>1 DEF Equated
    <3>2. p[1] \in Name /\ p[2] \in Name
      BY <3>1
    <3>3. QED
      BY <1>2, <3>1, <3>2
  <2>2. QED
    BY <1>3, <2>1 DEF Equated
<1>9. SpecifierLabels \subseteq SpecifierLabels'
  BY DEF PoolRead, SpecifierLabels
<1>10. \A l \in SpecifierLabels' : l \in 1 .. next /\ (l \in SpecifierLabels \/ l > allocated)
  BY DEF PoolRead, SpecifierLabels
<1>11. SentenceLabels \subseteq SentenceLabels'
  <2>1. Pending
    BY <1>1 DEF ModuleInv
  <2>2. PICK F, f : F = [label : Name, sentences : Seq(Sentence)]
                    /\ f = [label |-> label, sentences |-> q]
    OBVIOUS
  <2>3. functions \in Seq(F)
    BY <2>1, <2>2 DEF Pending
  <2>4. functions' = functions \/ functions' = Append(functions, f)
    BY <1>3, <2>2
  <2>5. \A i \in DOMAIN functions : i \in DOMAIN functions' /\ functions'[i] = functions[i]
    BY <2>3, <2>4
  <2>6. QED
    BY <2>5 DEF SentenceLabels
<1>12. Coded(table', Context')
  <2>1. PICK c, d : c = Context /\ d = Context'
    OBVIOUS
  <2>2. /\ d.used = used' /\ d.type = type' /\ d.externs = Len(externs) /\ d.root = Roots(table')
        /\ d.specifiers = SpecifierLabels' /\ d.sentences = SentenceLabels'
    BY <1>3, <2>1 DEF Context
  <2>3. /\ c.used = used /\ c.type = type /\ c.externs = Len(externs) /\ c.root = Roots(table)
        /\ c.specifiers = SpecifierLabels /\ c.sentences = SentenceLabels
    BY <2>1 DEF Context
  <2>4. Len(externs) \in Nat
    BY <1>1 DEF Typing
  <2>5. \A n \in used : type[Roots(table)[n]] \subseteq type'[Roots(table')[n]]
    BY <1>1, <1>2, <1>3 DEF Named
  <2>6. Grown(c, d)
    BY <1>3, <1>9, <1>11, <2>2, <2>3, <2>4, <2>5 DEF Grown
  <2>7. ASSUME NEW l \in Label, Kind(table', l) = {"placed"} \/ Kind(table', l) = {"extern"}
        PROVE  /\ Kind(table, l) = Kind(table', l) /\ table'.info[l] = table.info[l]
               /\ l \notin SpecifierLabels'
    <3>1. l # last
      BY <1>2, <2>7 DEF IsAlias
    <3>2. Kind(table, l) = Kind(table', l) /\ table'.info[l] = table.info[l]
      BY <1>2, <3>1
    <3>3. l \notin 1 .. MaxInfo
      BY <1>1, <2>7, <3>2 DEF ModuleInv, Nameless, IsAlias
    <3>4. l \notin SpecifierLabels'
      <4>1. 1 .. next \subseteq 1 .. MaxInfo
        BY <1>2, LabelsAre
      <4>2. QED
        BY <1>10, <3>3, <4>1
    <3>5. QED
      BY <3>2, <3>4
  <2>8. Coded(table, c)
    BY <1>1, <2>1
  <2>9. /\ \A l \in Label : Kind(table', l) = {"placed"} =>
               Kind(table, l) = {"placed"} /\ table'.info[l] = table.info[l]
               /\ (l \in d.specifiers => l \in c.specifiers)
        /\ \A l \in Label : Kind(table', l) = {"extern"} =>
               Kind(table, l) = {"extern"} /\ table'.info[l] = table.info[l]
    BY <2>2, <2>7
  <2>10. PICK t, u : t = table /\ u = table'
    OBVIOUS
  <2>11. t \in Tables /\ u \in Tables /\ Coded(t, c) /\ u.code = t.code
    BY <1>1, <1>2, <2>8, <2>10
  <2>12. /\ \A l \in Label : Kind(u, l) = {"placed"} =>
                Kind(t, l) = {"placed"} /\ u.info[l] = t.info[l]
                /\ (l \in d.specifiers => l \in c.specifiers)
         /\ \A l \in Label : Kind(u, l) = {"extern"} =>
                Kind(t, l) = {"extern"} /\ u.info[l] = t.info[l]
    BY <2>9, <2>10
  <2>13. Coded(u, d)
    BY ONLY <2>6, <2>11, <2>12, CodedStays
  <2>14. QED
    BY <2>1, <2>10, <2>13
<1>13. QED
  BY <1>4, <1>5, <1>6, <1>7, <1>8, <1>9, <1>10, <1>12

\* The labels without a name and the specifiers.
LEMMA ReadNameless ==
    ASSUME NEW label, NEW q, NEW next, Inv,
           FunctionRead(label, q, next), PoolRead(next), SentencesRead(q, next)
    PROVE  Nameless' /\ Specified'
<1> DEFINE last == next + Len(q)
<1>1. ModuleInv /\ Nameless /\ Specified /\ Typing
  BY DEF Inv, ModuleInv, FunctionRead
<1>2. /\ last \in 1 .. MaxInfo /\ last \in Label /\ next \in Nat /\ last > next /\ last > allocated
      /\ \A x \in Label \ {last} : /\ table'.info[x] = table.info[x]
                                   /\ Kind(table', x) = Kind(table, x)
                                   /\ IsAlias(table', x) <=> IsAlias(table, x)
      /\ \A n \in Name : Roots(table')[n] = Roots(table)[n] /\ n # last
      /\ fail' = IF fail = None THEN last ELSE fail
      /\ fail' \in 1 .. last /\ Kind(table', fail') = {}
      /\ \/ fail' = last /\ Kind(table', last) = {}
         \/ fail # None /\ IsAlias(table', last) /\ table'.info[last].value = fail
  BY ReadTable
<1>3. /\ allocated' = last /\ used \subseteq used' /\ used' \subseteq Name
      /\ \A n \in Name : type[n] \subseteq type'[n]
  BY DEF FunctionRead
<1>4. \A l \in SpecifierLabels' : l \in 1 .. next /\ (l \in SpecifierLabels \/ l > allocated)
  BY ReadCode
<1>5. 1 .. MaxInfo \subseteq Label /\ None \notin Label /\ allocated \in 0 .. MaxInfo
  BY <1>1, LabelsAre DEF Typing
<1> HIDE DEF last
<1>6. Nameless'
  <2>1. fail' \in 1 .. allocated' /\ fail' # None
    BY <1>2, <1>3, <1>5
  <2>2. fail' \notin SpecifierLabels'
    <3>1. CASE fail = None
      BY <1>2, <1>4, <3>1
    <3>2. CASE fail # None
      <4>1. fail \in 1 .. allocated /\ fail \notin SpecifierLabels /\ fail' = fail
        BY <1>1, <1>2, <3>2 DEF Nameless
      <4>2. ~(fail > allocated)
        BY <1>5, <4>1
      <4>3. QED
        BY <1>4, <4>1, <4>2
    <3>3. QED
      BY <3>1, <3>2
  <2>3. ASSUME NEW i \in 1 .. MaxInfo
        PROVE  /\ i > last => Kind(table', i) = {}
               /\ \/ Kind(table', i) = {}
                  \/ IsAlias(table', i) /\ table'.info[i].value = fail'
    <3>1. CASE i = last
      BY <1>2, <3>1
    <3>2. CASE i # last
      <4>1. /\ Kind(table', i) = Kind(table, i) /\ table'.info[i] = table.info[i]
            /\ IsAlias(table', i) <=> IsAlias(table, i)
        BY <1>2, <1>5, <3>2
      <4>2. i > last => i > allocated
        BY <1>2, <1>5
      <4>3. /\ i > allocated => Kind(table, i) = {}
            /\ \/ Kind(table, i) = {}
               \/ IsAlias(table, i) /\ fail # None /\ table.info[i].value = fail
        BY <1>1 DEF Nameless
      <4>4. QED
        BY <1>2, <4>1, <4>2, <4>3
    <3>3. QED
      BY <3>1, <3>2
  <2>4. QED
    BY <1>2, <1>3, <2>1, <2>2, <2>3 DEF Nameless
<1>7. Specified'
  <2>1. specifiers' \in Seq(SpecifierOf)
    BY DEF PoolRead
  <2>2. ASSUME NEW i \in DOMAIN specifiers'
        PROVE  /\ specifiers'[i].label \in 1 .. last
               /\ Kind(table', specifiers'[i].label) = {}
               /\ specifiers'[i].address \in used'
               /\ "specifier" \in type'[Roots(table')[specifiers'[i].address]]
    <3>1. PICK s : s = specifiers'[i]
      OBVIOUS
    <3>2. s.label \in 1 .. next /\ s.label \in 1 .. last /\ s.label # last
      <4>1. s.label \in 1 .. next
        BY <3>1 DEF PoolRead
      <4>2. next \in Nat /\ last \in Nat /\ last > next
        BY <1>2
      <4>3. QED
        BY <4>1, <4>2
    <3>3. s.label \in 1 .. MaxInfo /\ s.label \in Label \ {last}
      <4>1. last \in 1 .. MaxInfo /\ MaxInfo \in Nat
        BY <1>2, LabelsAre
      <4>2. s.label \in 1 .. MaxInfo
        BY <3>2, <4>1
      <4>3. QED
        BY <1>5, <3>2, <4>2
    <3>4. \/ \E j \in DOMAIN specifiers : s = specifiers[j]
          \/ /\ s.label > allocated /\ s.address \in used'
             /\ Roots(table)[s.address] = s.address /\ "specifier" \in type'[s.address]
      BY <3>1 DEF PoolRead
    <3>5. CASE \E j \in DOMAIN specifiers : s = specifiers[j]
      <4>1. /\ Kind(table, s.label) = {} /\ s.address \in used
            /\ "specifier" \in type[Roots(table)[s.address]]
        BY <1>1, <3>5 DEF Specified
      <4>2. s.address \in Name /\ Roots(table)[s.address] \in Name
        BY <1>1, <1>3, <4>1 DEF ModuleInv, Named
      <4>3. QED
        BY <1>2, <1>3, <3>1, <3>2, <3>3, <4>1, <4>2
    <3>6. CASE /\ s.label > allocated /\ s.address \in used'
               /\ Roots(table)[s.address] = s.address /\ "specifier" \in type'[s.address]
      <4>1. Kind(table, s.label) = {}
        BY <1>1, <3>3, <3>6 DEF Nameless
      <4>2. s.address \in Name
        BY <1>3, <3>6
      <4>3. QED
        BY <1>2, <3>1, <3>2, <3>3, <3>6, <4>1, <4>2
    <3>7. QED
      BY <3>4, <3>5, <3>6
  <2>3. \A i, j \in DOMAIN specifiers' : specifiers'[i].label = specifiers'[j].label => i = j
    BY DEF PoolRead
  <2>4. QED
    BY <1>3, <2>1, <2>2, <2>3 DEF Specified, SpecifierOf
<1>8. QED
  BY <1>6, <1>7

\* The functions that wait for the end of the module.
SentenceNew(s) == /\ s.label \in 1 .. allocated' /\ s.label \notin SpecifierLabels'
                  /\ s.call \in used' /\ "function" \in type'[Roots(table')[s.call]]
                  /\ s.spec \in SpecifierLabels' \cup {None}
Waits(g) == /\ g.label \in used' /\ "function" \in type'[g.label] /\ g.sentences # <<>>
            /\ \A n \in DOMAIN g.sentences :
                  /\ SentenceNew(g.sentences[n])
                  /\ \/ Kind(table', g.sentences[n].label) = {}
                     \/ n = Len(g.sentences)
            /\ \/ g.sentences[Len(g.sentences)].label = fail'
               \/ IsAlias(table', g.sentences[Len(g.sentences)].label)

\* Functions that waited still do, and the new one does.
LEMMA ReadPending ==
    ASSUME NEW label, NEW q, NEW next, Inv,
           FunctionRead(label, q, next), PoolRead(next), SentencesRead(q, next)
    PROVE  Pending'
<1> DEFINE last == next + Len(q)
           F == [label : Name, sentences : Seq(Sentence)]
           f == [label |-> label, sentences |-> q]
<1>1. ModuleInv /\ Nameless /\ Specified /\ Typing /\ Pending /\ Named
  BY DEF Inv, ModuleInv, FunctionRead
<1>2. /\ last \in 1 .. MaxInfo /\ last \in Label /\ next \in Nat /\ last > next /\ last > allocated
      /\ Len(q) \in Nat /\ Len(q) > 0 /\ DOMAIN q = 1 .. Len(q)
      /\ \A x \in Label \ {last} : /\ Kind(table', x) = Kind(table, x)
                                   /\ IsAlias(table', x) <=> IsAlias(table, x)
      /\ \A n \in Name : Roots(table')[n] = Roots(table)[n] /\ n # last
      /\ fail' = IF fail = None THEN last ELSE fail
      /\ fail' = last \/ IsAlias(table', last)
  BY ReadTable
<1>3. /\ allocated' = last /\ used \subseteq used' /\ used' \subseteq Name
      /\ \A n \in Name : type[n] \subseteq type'[n]
      /\ label \in Name /\ label \in used' /\ "function" \in type'[label] /\ allocated <= next
      /\ \/ functions' = functions
         \/ ~IsDefined(table, label) /\ functions' = Append(functions, f)
  BY DEF FunctionRead
<1>4. /\ SpecifierLabels \subseteq SpecifierLabels'
      /\ \A l \in SpecifierLabels' : l \in 1 .. next /\ (l \in SpecifierLabels \/ l > allocated)
  BY ReadCode
<1>5. /\ 1 .. MaxInfo \subseteq Label /\ None \notin Label /\ allocated \in 0 .. MaxInfo
      /\ Name \subseteq Label
  BY <1>1, LabelsAre DEF Typing
<1> HIDE DEF last, F, f
<1>6. functions \in Seq(F)
  BY <1>1 DEF Pending, F
<1>7. ASSUME NEW i \in DOMAIN functions PROVE Waits(functions[i])
  <2>1. PICK g : g = functions[i]
    OBVIOUS
  <2>2. g.label \in used /\ "function" \in type[g.label] /\ g.sentences # <<>>
    BY <1>1, <2>1 DEF Pending
  <2>3. g.label \in Name
    BY <1>1, <2>2 DEF Typing
  <2>4. g.label \in used' /\ "function" \in type'[g.label]
    BY <1>3, <2>2, <2>3
  <2>5. ASSUME NEW n \in DOMAIN g.sentences
        PROVE  /\ SentenceNew(g.sentences[n])
               /\ Kind(table', g.sentences[n].label) = {} \/ n = Len(g.sentences)
               /\ g.sentences[n].label \in Label \ {last} /\ g.sentences[n].label \in 1 .. MaxInfo
    <3>1. PICK s : s = g.sentences[n]
      OBVIOUS
    <3>2. SentenceOK(s) /\ (Kind(table, s.label) = {} \/ n = Len(g.sentences))
      BY <1>1, <2>1, <3>1 DEF Pending
    <3>3. /\ s.label \in 1 .. last /\ s.label \in Label \ {last} /\ s.label \in 1 .. MaxInfo
          /\ ~(s.label > allocated)
      <4>1. s.label \in 1 .. allocated
        BY <3>2 DEF SentenceOK
      <4>2. s.label \in 1 .. MaxInfo
        <5>1. allocated \in 0 .. MaxInfo /\ MaxInfo \in Nat
          BY <1>5, LabelsAre
        <5>2. QED
          BY <4>1, <5>1
      <4>3. s.label \in 1 .. last /\ s.label # last /\ ~(s.label > allocated)
        BY <1>2, <1>5, <4>1
      <4>4. QED
        BY <1>5, <4>2, <4>3
    <3>4. s.label \notin SpecifierLabels'
      BY <1>4, <3>2, <3>3 DEF SentenceOK
    <3>5. s.call \in Name /\ Roots(table)[s.call] \in Name
      BY <1>1, <3>2 DEF SentenceOK, Typing, Named
    <3>6. s.call \in used' /\ "function" \in type'[Roots(table')[s.call]]
      BY <1>2, <1>3, <3>2, <3>5 DEF SentenceOK
    <3>7. SentenceNew(s)
      <4>1. s.spec \in SpecifierLabels' \cup {None}
        BY <1>4, <3>2 DEF SentenceOK
      <4>2. QED
        BY <1>3, <3>3, <3>4, <3>6, <4>1 DEF SentenceNew
    <3>8. QED
      BY <1>2, <3>1, <3>2, <3>3, <3>7
  <2>6. \/ g.sentences[Len(g.sentences)].label = fail'
        \/ IsAlias(table', g.sentences[Len(g.sentences)].label)
    <3>1. PICK l : l = g.sentences[Len(g.sentences)].label
      OBVIOUS
    <3>2. l = fail \/ IsAlias(table, l)
      BY <1>1, <2>1, <3>1 DEF Pending
    <3>3. Len(g.sentences) \in DOMAIN g.sentences
      BY <1>1, <2>1, FunctionIs
    <3>4. l \in Label \ {last} /\ l \in 1 .. MaxInfo
      BY <2>5, <3>1, <3>3
    <3>5. IsAlias(table', l) <=> IsAlias(table, l)
      BY <1>2, <3>4
    <3>6. l # None
      BY <1>5, <3>4
    <3>7. QED
      BY <1>2, <3>1, <3>2, <3>5, <3>6
  <2>7. Waits(g)
    BY <2>2, <2>4, <2>5, <2>6 DEF Waits
  <2>8. QED
    BY <2>1, <2>7
<1>8. ASSUME ~IsDefined(table, label) PROVE Waits(f) /\ f \in F
  <2>1. f.label = label /\ f.sentences = q
    BY DEF f
  <2>2. q \in Seq(Sentence) /\ q # <<>>
    BY DEF SentencesRead
  <2>4. ASSUME NEW n \in DOMAIN q
        PROVE  SentenceNew(q[n]) /\ (Kind(table', q[n].label) = {} \/ n = Len(q))
    <3>1. PICK s : s = q[n]
      OBVIOUS
    <3>2. /\ s.label = next + n /\ s.call \in used' /\ Roots(table)[s.call] = s.call
          /\ "function" \in type'[s.call]
          /\ s.spec # None => \E i \in DOMAIN specifiers' : s.spec = specifiers'[i].label
      BY <3>1 DEF SentencesRead
    <3>3. /\ s.label \in 1 .. last /\ s.label > next /\ s.label > allocated
          /\ (s.label = last => n = Len(q)) /\ s.label \in 1 .. MaxInfo
      <4>1. /\ n \in 1 .. Len(q) /\ Len(q) \in Nat /\ next \in Nat /\ last \in 1 .. MaxInfo
            /\ allocated \in 0 .. MaxInfo /\ allocated <= next /\ MaxInfo \in Nat
        BY <1>2, <1>3, <1>5, LabelsAre
      <4>2. s.label = next + n /\ last = next + Len(q)
        BY <3>2 DEF last
      <4>3. QED
        BY <4>1, <4>2
    <3>4. s.label \notin SpecifierLabels'
      BY <1>2, <1>4, <3>3
    <3>5. s.spec \in SpecifierLabels' \cup {None}
      BY <3>2 DEF SpecifierLabels
    <3>6. "function" \in type'[Roots(table')[s.call]]
      BY <1>2, <1>3, <3>2
    <3>7. SentenceNew(s)
      BY <1>3, <3>2, <3>3, <3>4, <3>5, <3>6 DEF SentenceNew
    <3>8. s.label # last => Kind(table', s.label) = {}
      <4>1. Kind(table, s.label) = {}
        BY <1>1, <3>3 DEF Nameless
      <4>2. QED
        BY <1>2, <1>5, <3>3, <4>1
    <3>9. QED
      BY <3>1, <3>3, <3>7, <3>8
  <2>5. q[Len(q)].label = last
    <3>1. Len(q) \in DOMAIN q
      BY <1>2
    <3>2. QED
      BY <3>1 DEF SentencesRead, last
  <2>6. f \in F
    BY <1>3, <2>2 DEF f, F
  <2>7. QED
    BY <1>2, <1>3, <2>1, <2>2, <2>4, <2>5, <2>6 DEF Waits
<1>9. functions' \in Seq(F) /\ \A i \in DOMAIN functions' : Waits(functions'[i])
    <2>1. CASE functions' = functions
    BY <1>6, <1>7, <2>1
  <2>2. CASE ~IsDefined(table, label) /\ functions' = Append(functions, f)
    BY <1>6, <1>7, <1>8, <2>2
  <2>3. QED
    BY <1>3, <2>1, <2>2
<1>10. functions' \in Seq([label : Name, sentences : Seq(Sentence)])
  BY <1>9 DEF F
<1>11. QED
  BY <1>9, <1>10 DEF Pending, SentenceOK, SentenceNew, Waits

\* No two sentences have one label.
LEMMA ReadApart ==
    ASSUME NEW label, NEW q, NEW next, Inv,
           FunctionRead(label, q, next), PoolRead(next), SentencesRead(q, next)
    PROVE  Apart'
<1> DEFINE f == [label |-> label, sentences |-> q]
           k == Len(functions) + 1
<1>1. ModuleInv /\ Pending /\ Apart /\ allocated \in Nat
  BY DEF Inv, ModuleInv, FunctionRead, Typing
<1>2. /\ next \in Nat /\ allocated <= next
      /\ functions' = functions \/ functions' = Append(functions, f)
  BY DEF FunctionRead
<1>3. /\ f.label = label /\ f.sentences = q /\ \A n \in DOMAIN q : q[n].label = next + n
      /\ Len(q) \in Nat /\ DOMAIN q = 1 .. Len(q)
  BY DEF SentencesRead
<1> HIDE DEF f
<1>4. CASE functions' = functions
  BY <1>1, <1>4 DEF Apart
<1>5. CASE functions' = Append(functions, f)
  <2>1. /\ DOMAIN functions' = DOMAIN functions \cup {k} /\ k \notin DOMAIN functions
        /\ functions'[k] = f /\ \A i \in DOMAIN functions : functions'[i] = functions[i]
    <3>1. PICK F : F = [label : Name, sentences : Seq(Sentence)]
      OBVIOUS
    <3>2. functions \in Seq(F)
      BY <1>1, <3>1 DEF Pending
    <3>3. QED
      BY <1>5, <3>2
  <2> HIDE DEF k
  <2>3. ASSUME NEW i \in DOMAIN functions, NEW n \in DOMAIN functions[i].sentences,
               NEW j \in DOMAIN q
        PROVE  functions[i].sentences[n].label # q[j].label
    <3>1. functions[i].sentences[n].label \in 1 .. allocated
      BY <1>1 DEF Pending, SentenceOK
    <3>2. q[j].label = next + j /\ j \in Nat /\ j > 0
      BY <1>3
    <3>3. QED
      BY <1>1, <1>2, <3>1, <3>2
  <2>4. \A n, j \in DOMAIN q : q[n].label = q[j].label => n = j
    BY <1>2, <1>3
  <2>6. ASSUME NEW i \in DOMAIN functions', NEW j \in DOMAIN functions',
               NEW n \in DOMAIN functions'[i].sentences, NEW h \in DOMAIN functions'[j].sentences,
               functions'[i].sentences[n].label = functions'[j].sentences[h].label
        PROVE  i = j /\ n = h
    <3>1. CASE i \in DOMAIN functions /\ j \in DOMAIN functions
      <4>1. functions'[i] = functions[i] /\ functions'[j] = functions[j]
        BY <2>1, <3>1
      <4>2. functions[i].sentences[n].label = functions[j].sentences[h].label
        BY <2>6, <4>1
      <4>3. n \in DOMAIN functions[i].sentences /\ h \in DOMAIN functions[j].sentences
        BY <4>1
      <4>4. QED
        BY <1>1, <3>1, <4>2, <4>3 DEF Apart
    <3>2. CASE i \in DOMAIN functions /\ j = k
      <4>1. functions'[i] = functions[i] /\ functions'[j].sentences = q
        BY <1>3, <2>1, <3>2
      <4>2. QED
        BY <2>3, <2>6, <3>2, <4>1
    <3>3. CASE i = k /\ j \in DOMAIN functions
      <4>1. functions'[j] = functions[j] /\ functions'[i].sentences = q
        BY <1>3, <2>1, <3>3
      <4>2. QED
        BY <2>3, <2>6, <3>3, <4>1
    <3>4. CASE i = k /\ j = k
      <4>1. functions'[j].sentences = q /\ functions'[i].sentences = q
        BY <1>3, <2>1, <3>4
      <4>2. QED
        BY <2>4, <2>6, <3>4, <4>1
    <3>5. QED
      BY <2>1, <3>1, <3>2, <3>3, <3>4
  <2>7. QED
    BY <2>6 DEF Apart
<1>6. QED
  BY <1>2, <1>4, <1>5

\* $FUNC and its sentences.
LEMMA FunctionStep ==
    ASSUME Inv, NEW name \in Name, NEW body \in Body, Function(name, body)
    PROVE  Inv'
<1>1. PICK label, q, next : FunctionRead(label, q, next) /\ PoolRead(next) /\ SentencesRead(q, next)
  BY FunctionReads
<1> DEFINE last == next + Len(q)
           f == [label |-> label, sentences |-> q]
<1>2. ModuleInv /\ Pending /\ FirstFails /\ errors \in Nat
  BY <1>1 DEF Inv, ModuleInv, FunctionRead, Typing
<1>3. /\ phase = "module" /\ phase' = phase
      /\ \/ errors' = errors + 1 /\ UNCHANGED functions
         \/ functions' = Append(functions, f) /\ UNCHANGED errors
  BY <1>1 DEF FunctionRead
<1>4. fail' = (IF fail = None THEN last ELSE fail) /\ Sound(table') /\ last # None
  <2>1. /\ fail' = (IF fail = None THEN last ELSE fail) /\ Sound(table') /\ last \in Label
    BY <1>1, ReadTable
  <2>2. QED
    BY <2>1, LabelsAre
<1>5. /\ f.sentences = q /\ q[Len(q)].label = last
  <2>1. Len(q) \in DOMAIN q
    BY <1>1 DEF SentencesRead
  <2>2. q[Len(q)].label = last
    BY <1>1, <2>1 DEF SentencesRead
  <2>3. QED
    BY <2>2
<1> HIDE DEF last, f
<1>6. FirstFails'
  <2>1. CASE errors' = errors + 1
    BY <1>2, <2>1 DEF FirstFails
  <2>2. CASE functions' = Append(functions, f) /\ UNCHANGED errors
    <3>1. PICK F : F = [label : Name, sentences : Seq(Sentence)]
      OBVIOUS
    <3>2. functions \in Seq(F)
      BY <1>2, <3>1 DEF Pending
    <3>3. functions' # <<>> /\ functions'[1] = IF functions = <<>> THEN f ELSE functions[1]
      BY <2>2, <3>2
    <3>4. fail' # None
      BY <1>4
    <3>5. CASE functions = <<>> /\ errors' = 0
      <4>1. fail = None
        BY <1>2, <2>2, <3>5 DEF FirstFails
      <4>2. functions'[1].sentences[Len(functions'[1].sentences)].label = last
        BY <1>5, <3>3, <3>5
      <4>3. QED
        BY <1>4, <3>3, <3>4, <4>1, <4>2 DEF FirstFails
    <3>6. CASE functions # <<>> /\ errors' = 0
      <4>1. fail # None /\ fail = functions[1].sentences[Len(functions[1].sentences)].label
        BY <1>2, <2>2, <3>6 DEF FirstFails
      <4>2. QED
        BY <1>4, <3>3, <3>4, <3>6, <4>1 DEF FirstFails
    <3>7. CASE errors' # 0
      BY <3>7 DEF FirstFails
    <3>8. QED
      BY <3>5, <3>6, <3>7
  <2>3. QED
    BY <1>3, <2>1, <2>2
<1>7. /\ Typing' /\ Named' /\ Described' /\ Entered' /\ Equated' /\ Coded(table', Context')
      /\ Nameless' /\ Specified' /\ Pending' /\ Apart'
  BY <1>1, ReadCode, ReadNameless, ReadPending, ReadApart
<1>8. QED
  BY <1>3, <1>4, <1>6, <1>7 DEF Inv, ModuleInv
-----------------------------------------------------------------------------
(* The end of the module: the specifiers *)

\* Every specifier has a first one that means the same.
LEMMA FirstIs ==
    ASSUME Specified, NEW t, NEW i \in DOMAIN specifiers
    PROVE  /\ FirstEqual(t, i) \in DOMAIN specifiers
           /\ SpecifierAddress(t, FirstEqual(t, i)) = SpecifierAddress(t, i)
           /\ IsFirst(t, FirstEqual(t, i))
<1> DEFINE Same(k) == {j \in DOMAIN specifiers : SpecifierAddress(t, j) = SpecifierAddress(t, k)}
           Is(j, k) == /\ SpecifierAddress(t, j) = SpecifierAddress(t, k)
                       /\ \A h \in 1 .. j - 1 : SpecifierAddress(t, h) # SpecifierAddress(t, k)
<1>1. DOMAIN specifiers = 1 .. Len(specifiers) /\ Len(specifiers) \in Nat
  <2>1. specifiers \in Seq([label : Nat, address : Name])
    BY DEF Specified
  <2>2. QED
    BY <2>1
<1>2. ASSUME NEW k \in DOMAIN specifiers PROVE \E j \in DOMAIN specifiers : Is(j, k)
  <2>1. k \in Same(k) /\ Same(k) \subseteq Nat
    BY <1>1
  <2>2. PICK S : S = Same(k)
    OBVIOUS
  <2>3. S \subseteq Nat /\ S # {}
    BY <2>1, <2>2
  <2>4. PICK j \in S : \A h \in S : j <= h
    BY <2>3, LeastElement
  <2>5. j \in DOMAIN specifiers /\ SpecifierAddress(t, j) = SpecifierAddress(t, k)
    BY <2>2
  <2>6. ASSUME NEW h \in 1 .. j - 1 PROVE SpecifierAddress(t, h) # SpecifierAddress(t, k)
    <3>1. h \in DOMAIN specifiers /\ h < j /\ h \in Nat /\ j \in Nat
      BY <1>1, <2>5
    <3>2. h \notin S
      BY <2>4, <3>1
    <3>3. QED
      BY <2>2, <3>1, <3>2
  <2>7. QED
    BY <2>5, <2>6
<1>3. \A k \in DOMAIN specifiers : FirstEqual(t, k) = CHOOSE j \in DOMAIN specifiers : Is(j, k)
  BY DEF FirstEqual
<1>4. ASSUME NEW k \in DOMAIN specifiers
      PROVE  FirstEqual(t, k) \in DOMAIN specifiers /\ Is(FirstEqual(t, k), k)
  <2> HIDE DEF Is
  <2>1. QED
    BY <1>2, <1>3
<1> DEFINE a == FirstEqual(t, i)
           b == FirstEqual(t, a)
<1>5. a \in DOMAIN specifiers /\ Is(a, i)
  BY <1>4
<1>6. b \in DOMAIN specifiers /\ Is(b, a)
  BY <1>4, <1>5
<1> HIDE DEF a, b
<1>7. b = a
  <2>1. a \in Nat /\ b \in Nat /\ a > 0 /\ b > 0
    BY <1>1, <1>5, <1>6
  <2>2. SpecifierAddress(t, b) = SpecifierAddress(t, i)
    BY <1>5, <1>6
  <2>3. ~(b < a)
    <3>1. b < a => b \in 1 .. a - 1
      BY <2>1
    <3>2. QED
      BY <1>5, <2>2, <3>1
  <2>4. ~(a < b)
    <3>1. a < b => a \in 1 .. b - 1
      BY <2>1
    <3>2. QED
      BY <1>6, <3>1
  <2>5. QED
    BY <2>1, <2>3, <2>4
<1>8. IsFirst(t, a)
  BY <1>7 DEF IsFirst, b
<1>9. QED
  BY <1>5, <1>8 DEF a

\* The labels of the specifiers.
LEMMA SpecifierIs ==
    ASSUME ModuleInv, NEW i \in DOMAIN specifiers
    PROVE  /\ specifiers[i].label \in Label /\ specifiers[i].label \in 1 .. MaxInfo
           /\ specifiers[i].label \in SpecifierLabels /\ specifiers[i].label # fail
           /\ specifiers[i].label \notin Name /\ Kind(table, specifiers[i].label) = {}
           /\ specifiers[i].address \in Name /\ specifiers[i].address \in used
           /\ DOMAIN specifiers = 1 .. Len(specifiers) /\ Len(specifiers) \in Nat
<1>1. Specified /\ Nameless /\ Typing
  BY DEF ModuleInv
<1>2. /\ specifiers[i].label \in 1 .. allocated /\ Kind(table, specifiers[i].label) = {}
      /\ specifiers[i].address \in used
  BY <1>1 DEF Specified
<1>3. specifiers[i].label \in 1 .. MaxInfo
  <2>1. allocated \in 0 .. MaxInfo /\ MaxInfo \in Nat
    BY <1>1, LabelsAre DEF Typing
  <2>2. QED
    BY <1>2, <2>1
<1>4. specifiers[i].label \in SpecifierLabels /\ SpecifierLabels \subseteq 1 .. allocated
  BY <1>1 DEF SpecifierLabels, Specified
<1>5. specifiers[i].label # fail
  BY <1>1, <1>2, <1>4, LabelsAre DEF Nameless, Typing
<1>6. DOMAIN specifiers = 1 .. Len(specifiers) /\ Len(specifiers) \in Nat
  <2>1. specifiers \in Seq([label : Nat, address : Name])
    BY <1>1 DEF Specified
  <2>2. QED
    BY <2>1
<1>7. QED
  BY <1>1, <1>2, <1>3, <1>4, <1>5, <1>6, LabelsAre DEF Typing

\* A specifier that has become equal to an earlier one is made another name of it.
MergeStep(t, i, u) ==
    IF IsFirst(t, i) THEN u
    ELSE Equate(u, specifiers[i].label, specifiers[FirstEqual(t, i)].label)
MergeSteps(t, f) == f = [i \in 0 .. Len(specifiers) |-> IF i = 0 THEN t ELSE MergeStep(t, i, f[i - 1])]
MergeWay(t) == CHOOSE f : MergeSteps(t, f)

\* The way from one merge to the next.
LEMMA MergeWayIs ==
    ASSUME ModuleInv, NEW t \in Tables, DOMAIN specifiers = 1 .. Len(specifiers),
           Len(specifiers) \in Nat
    PROVE  /\ MergeSpecifiers(t) = MergeWay(t)[Len(specifiers)] /\ MergeWay(t)[0] = t
           /\ \A i \in 1 .. Len(specifiers) : MergeWay(t)[i] = MergeStep(t, i, MergeWay(t)[i - 1])
<1> DEFINE m == Len(specifiers)
           F == [i \in 1 .. m |-> [u \in Tables |-> MergeStep(t, i, u)]]
           g == MergeWay(t)
<1>1. ASSUME NEW i \in 1 .. m, NEW u \in Tables PROVE MergeStep(t, i, u) \in Tables
  <2>1. i \in DOMAIN specifiers /\ FirstEqual(t, i) \in DOMAIN specifiers
    BY FirstIs DEF ModuleInv
  <2>2. specifiers[i].label \in Label /\ specifiers[FirstEqual(t, i)].label \in Label
    BY <2>1, SpecifierIs
  <2>3. QED
    BY <2>2, EquateIs DEF MergeStep
<1>2. F \in [1 .. m -> [Tables -> Tables]]
  BY <1>1
<1>3. \A i \in 1 .. m : \A u \in Tables : F[i][u] = MergeStep(t, i, u)
  OBVIOUS
<1>4. m \in Nat
  OBVIOUS
<1> HIDE DEF m, F
<1>5. PICK f : Stepping(f, Tables, m, F, t)
  BY <1>2, <1>4, StepsExist
<1>6. MergeSteps(t, f)
  <2>1. f \in [0 .. m -> Tables] /\ f[0] = t /\ \A i \in 1 .. m : f[i] = F[i][f[i - 1]]
    BY <1>5 DEF Stepping
  <2>2. ASSUME NEW i \in 1 .. m PROVE f[i] = MergeStep(t, i, f[i - 1])
    <3>1. i - 1 \in 0 .. m
      BY <1>4
    <3>2. QED
      BY <1>3, <2>1, <3>1
  <2>3. \A i \in 0 .. m : i # 0 => i \in 1 .. m
    BY <1>4
  <2>4. f = [i \in 0 .. m |-> IF i = 0 THEN t ELSE MergeStep(t, i, f[i - 1])]
    BY <2>1, <2>2, <2>3
  <2>5. QED
    BY <2>4 DEF MergeSteps, m
<1>7. MergeSteps(t, g)
  BY <1>6 DEF MergeWay
<1>8. g[0] = t /\ \A i \in 1 .. m : g[i] = MergeStep(t, i, g[i - 1])
  <2>1. PICK h : h = g
    OBVIOUS
  <2>2. h = [i \in 0 .. m |-> IF i = 0 THEN t ELSE MergeStep(t, i, h[i - 1])]
    BY <1>7, <2>1 DEF MergeSteps, m
  <2>3. 0 \in 0 .. m /\ \A i \in 1 .. m : i \in 0 .. m /\ i # 0
    BY <1>4
  <2> HIDE DEF g
  <2>4. h[0] = t /\ \A i \in 1 .. m : h[i] = MergeStep(t, i, h[i - 1])
    BY <2>2, <2>3
  <2>5. QED
    BY <2>1, <2>4
<1>9. MergeSpecifiers(t) = g[m]
  BY DEF MergeSpecifiers, MergeWay, MergeSteps, MergeStep, m
<1>10. QED
  BY <1>8, <1>9 DEF m

\* What stands for something else than a specifier stands for no specifier.
LEMMA RootsApart ==
    ASSUME ModuleInv, Sound(table), NEW x \in Label
    PROVE  /\ x \notin SpecifierLabels => Roots(table)[x] \notin SpecifierLabels
           /\ ~IsAlias(table, x) => Roots(table)[x] = x
           /\ x \in 1 .. MaxInfo => \/ Roots(table)[x] = x /\ Kind(table, x) = {}
                                    \/ IsAlias(table, x) /\ fail # None /\ Roots(table)[x] = fail
<1>1. /\ \A l \in Label : Roots(table)[l] = IF IsAlias(table, l) THEN Roots(table)[table.info[l].value]
                                            ELSE l
      /\ Nameless /\ Named
  BY ResolveIs DEF Resolves, ModuleInv
<1>2. ~IsAlias(table, x) => Roots(table)[x] = x
  BY <1>1
<1>3. CASE x \in 1 .. MaxInfo
  <2>1. Kind(table, x) = {} => Roots(table)[x] = x
    BY <1>2 DEF IsAlias
  <2>2. ASSUME Kind(table, x) # {}
        PROVE  /\ IsAlias(table, x) /\ fail # None /\ Roots(table)[x] = fail
               /\ fail \notin SpecifierLabels
    <3>1. IsAlias(table, x) /\ fail # None /\ table.info[x].value = fail
      BY <1>1, <1>3, <2>2 DEF Nameless
    <3>2. fail \in 1 .. MaxInfo /\ Kind(table, fail) = {} /\ fail \notin SpecifierLabels
      <4>1. /\ fail \in 1 .. allocated /\ allocated \in 0 .. MaxInfo /\ MaxInfo \in Nat
            /\ Kind(table, fail) = {} /\ fail \notin SpecifierLabels
        BY <1>1, <3>1, LabelsAre DEF Nameless, ModuleInv, Typing
      <4>2. QED
        BY <4>1
    <3>3. fail \in Label /\ ~IsAlias(table, fail)
      BY <3>2, LabelsAre DEF IsAlias
    <3>4. Roots(table)[x] = Roots(table)[fail] /\ Roots(table)[fail] = fail
      BY <1>1, <3>1, <3>3
    <3>5. QED
      BY <3>1, <3>2, <3>4
  <2>3. QED
    BY <1>2, <2>1, <2>2
<1>4. CASE x \in Name
  <2>1. Roots(table)[x] \in Name
    BY <1>1, <1>4 DEF Named
  <2>2. QED
    BY <1>2, <1>4, <2>1, NamesApart
<1>5. QED
  BY <1>3, <1>4 DEF Label

\* What the table is after the first i specifiers.
Merged(u, i) ==
    /\ Sound(u) /\ u.code = table.code
    /\ \A x \in Label \ SpecifierLabels :
          u.mode[x] = table.mode[x] /\ u.info[x] = table.info[x] /\ Roots(u)[x] = Roots(table)[x]
    /\ \A x \in Label : table.mode[x] \subseteq u.mode[x]
    /\ \A j \in DOMAIN specifiers :
          IF j <= i /\ ~IsFirst(table, j)
          THEN /\ IsAlias(u, specifiers[j].label)
               /\ Roots(u)[specifiers[j].label] = specifiers[FirstEqual(table, j)].label
          ELSE Kind(u, specifiers[j].label) = {}

\* One specifier.
LEMMA MergedOn ==
    ASSUME ModuleInv, Sound(table), NEW i \in DOMAIN specifiers, NEW u, Merged(u, i - 1)
    PROVE  Merged(MergeStep(table, i, u), i)
<1> DEFINE l == specifiers[i].label
           k == FirstEqual(table, i)
           m == specifiers[k].label
           v == Equate(u, l, m)
           g == Roots(u)
           Is(w, j) == IF j <= i /\ ~IsFirst(table, j)
                       THEN /\ IsAlias(w, specifiers[j].label)
                            /\ Roots(w)[specifiers[j].label] = specifiers[FirstEqual(table, j)].label
                       ELSE Kind(w, specifiers[j].label) = {}
<1>1. Sound(u) /\ u.code = table.code /\ u \in Tables
  BY DEF Merged, Sound
<1>2. /\ \A x \in Label \ SpecifierLabels :
            u.mode[x] = table.mode[x] /\ u.info[x] = table.info[x] /\ g[x] = Roots(table)[x]
      /\ \A x \in Label : table.mode[x] \subseteq u.mode[x]
  BY DEF Merged
<1>3. \A j \in DOMAIN specifiers :
          IF j <= i - 1 /\ ~IsFirst(table, j)
          THEN /\ IsAlias(u, specifiers[j].label)
               /\ g[specifiers[j].label] = specifiers[FirstEqual(table, j)].label
          ELSE Kind(u, specifiers[j].label) = {}
  BY DEF Merged
<1>4. \A j \in DOMAIN specifiers :
         /\ j \in Nat /\ specifiers[j].label \in Label /\ specifiers[j].label \in SpecifierLabels
         /\ FirstEqual(table, j) \in DOMAIN specifiers /\ IsFirst(table, FirstEqual(table, j))
         /\ \A h \in DOMAIN specifiers : specifiers[h].label = specifiers[j].label => h = j
  <2>1. Specified
    BY DEF ModuleInv
  <2>2. ASSUME NEW j \in DOMAIN specifiers
        PROVE  /\ FirstEqual(table, j) \in DOMAIN specifiers
               /\ IsFirst(table, FirstEqual(table, j))
    BY <2>1, FirstIs
  <2>3. QED
    BY <2>1, <2>2, SpecifierIs DEF Specified
<1>5. k \in DOMAIN specifiers /\ IsFirst(table, k) /\ l \in Label /\ m \in Label /\ i \in Nat
      /\ l \in SpecifierLabels
  BY <1>4
<1> HIDE DEF l, m, v, k, g
<1>6. CASE IsFirst(table, i)
  <2>1. MergeStep(table, i, u) = u
    BY <1>6 DEF MergeStep
  <2>2. ASSUME NEW j \in DOMAIN specifiers PROVE Is(u, j)
    <3>1. (j <= i /\ ~IsFirst(table, j)) <=> (j <= i - 1 /\ ~IsFirst(table, j))
      <4>1. j \in Nat /\ i \in Nat /\ (j = i => IsFirst(table, j))
        BY <1>4, <1>5, <1>6
      <4>2. QED
        BY <4>1
    <3>2. QED
      BY <1>3, <3>1 DEF g
  <2>3. Merged(u, i)
    BY <1>1, <1>2, <2>2 DEF Merged, g
  <2>4. QED
    BY <2>1, <2>3
<1>7. CASE ~IsFirst(table, i)
  <2>1. MergeStep(table, i, u) = v
    BY <1>7 DEF MergeStep, v, l, m, k
  <2>2. l # m
    BY <1>4, <1>5, <1>7 DEF l, m
  <2>3. Kind(u, l) = {} /\ Kind(u, m) = {}
    <3>1. ~(i <= i - 1)
      BY <1>5
    <3>2. QED
      BY <1>3, <1>5, <3>1 DEF l, m
  <2>4. ~IsAlias(u, l) /\ ~IsAlias(u, m)
    BY <2>3 DEF IsAlias
  <2>5. /\ Sound(v) /\ Roots(v) = [x \in Label |-> IF g[x] = l THEN m ELSE g[x]]
        /\ \A x \in Label : IsAlias(v, x) <=> x = l \/ IsAlias(u, x)
    BY <1>1, <1>5, <2>2, <2>4, EquateJoins DEF v, g
  <2>6. /\ v.code = u.code /\ v.mode[l] = u.mode[l] \cup {"defined", "placed", "extern"}
        /\ \A x \in Label \ {l} : v.mode[x] = u.mode[x] /\ v.info[x] = u.info[x]
    BY <1>1, <1>5, EquateIs DEF v
  <2>7. ASSUME NEW x \in Label \ SpecifierLabels
        PROVE  v.mode[x] = table.mode[x] /\ v.info[x] = table.info[x] /\ Roots(v)[x] = Roots(table)[x]
    <3>1. x # l /\ g[x] = Roots(table)[x]
      BY <1>2, <1>5
    <3>2. Roots(table)[x] # l
      BY <1>5, RootsApart
    <3>3. QED
      BY <1>2, <2>5, <2>6, <3>1, <3>2
  <2>8. ASSUME NEW j \in DOMAIN specifiers PROVE Is(v, j)
    <3>1. CASE j = i
      <4>1. g[l] = l
        BY <1>1, <1>5, <2>4, ResolveIs DEF Resolves, g
      <4>2. IsAlias(v, l) /\ Roots(v)[l] = m
        BY <1>5, <2>5, <4>1
      <4>3. QED
        BY <1>5, <1>7, <3>1, <4>2 DEF l, m, k
    <3>2. CASE j # i /\ j <= i /\ ~IsFirst(table, j)
      <4>1. j <= i - 1
        BY <1>4, <1>5, <3>2
      <4>2. /\ IsAlias(u, specifiers[j].label)
            /\ g[specifiers[j].label] = specifiers[FirstEqual(table, j)].label
        BY <1>3, <3>2, <4>1
      <4>3. FirstEqual(table, j) # i
        BY <1>4, <1>7
      <4>4. specifiers[FirstEqual(table, j)].label # l
        BY <1>4, <4>3 DEF l
      <4>5. specifiers[j].label \in Label
        BY <1>4
      <4>6. QED
        BY <2>5, <3>2, <4>2, <4>4, <4>5
    <3>3. CASE j # i /\ ~(j <= i /\ ~IsFirst(table, j))
      <4>1. ~(j <= i - 1 /\ ~IsFirst(table, j))
        BY <1>4, <1>5, <3>3
      <4>2. Kind(u, specifiers[j].label) = {}
        BY <1>3, <4>1
      <4>3. specifiers[j].label \in Label \ {l}
        BY <1>4, <3>3 DEF l
      <4>4. Kind(v, specifiers[j].label) = {}
        BY <2>6, <4>2, <4>3 DEF Kind
      <4>5. QED
        BY <3>3, <4>4
    <3>4. QED
      BY <3>1, <3>2, <3>3
  <2>9. \A x \in Label : table.mode[x] \subseteq v.mode[x]
    BY <1>2, <1>5, <2>6
  <2>10. Merged(v, i)
    BY <1>1, <2>5, <2>6, <2>7, <2>8, <2>9 DEF Merged
  <2>11. QED
    BY <2>1, <2>10
<1>8. QED
  BY <1>6, <1>7

\* All of them: no code has been written, and no name has changed its meaning.
LEMMA MergedIs ==
    ASSUME ModuleInv, Sound(table)
    PROVE  /\ Merged(MergeSpecifiers(table), Len(specifiers))
           /\ Coded(MergeSpecifiers(table), Context)
<1> DEFINE m == Len(specifiers)
           g == MergeWay(table)
           K == {i \in 0 .. m : Merged(g[i], i)}
<1>1. m \in Nat /\ DOMAIN specifiers = 1 .. m /\ table \in Tables
  <2>1. specifiers \in Seq([label : Nat, address : Name])
    BY DEF ModuleInv, Specified
  <2>2. QED
    BY <2>1 DEF Sound
<1>2. /\ MergeSpecifiers(table) = g[m] /\ g[0] = table
      /\ \A i \in 1 .. m : g[i] = MergeStep(table, i, g[i - 1])
  BY <1>1, MergeWayIs
<1> HIDE DEF g
<1>3. 0 \in K
  <2>1. ASSUME NEW j \in DOMAIN specifiers PROVE ~(j <= 0) /\ Kind(table, specifiers[j].label) = {}
    <3>1. j \in 1 .. m /\ Kind(table, specifiers[j].label) = {}
      BY <1>1, SpecifierIs
    <3>2. QED
      BY <1>1, <3>1
  <2>2. Merged(table, 0)
    BY <2>1 DEF Merged
  <2>3. QED
    BY <1>1, <1>2, <2>2
<1>4. ASSUME NEW i \in 1 .. m, i - 1 \in K PROVE i \in K
  <2>1. Merged(g[i - 1], i - 1)
    BY <1>4
  <2>2. Merged(g[i], i)
    BY <1>1, <1>2, <2>1, MergedOn
  <2>3. QED
    BY <1>1, <2>2
<1> HIDE DEF K, m
<1>5. 0 .. m \subseteq K
  BY <1>1, <1>3, <1>4, StepsInSet
<1>6. m \in 0 .. m
  BY <1>1
<1>7. Merged(g[m], m)
  BY <1>5, <1>6 DEF K
<1>8. ASSUME NEW u, u = g[m] PROVE Coded(u, Context)
  <2>1. /\ Sound(u) /\ u \in Tables /\ u.code = table.code
        /\ \A x \in Label \ SpecifierLabels : u.mode[x] = table.mode[x] /\ u.info[x] = table.info[x]
    BY <1>7, <1>8 DEF Merged, Sound
  <2>2. ASSUME NEW l \in SpecifierLabels PROVE Kind(u, l) = {} \/ Kind(u, l) = {"placed", "extern"}
    <3>1. PICK j \in DOMAIN specifiers : l = specifiers[j].label
      BY DEF SpecifierLabels
    <3>2. QED
      BY <1>7, <1>8, <3>1 DEF Merged, IsAlias
  <2>3. ASSUME NEW l \in Label, Kind(u, l) = {"placed"} \/ Kind(u, l) = {"extern"}
        PROVE  Kind(table, l) = Kind(u, l) /\ u.info[l] = table.info[l]
    <3>1. l \notin SpecifierLabels
      BY <2>2, <2>3
    <3>2. QED
      BY <2>1, <3>1 DEF Kind
  <2>4. PICK c : c = Context
    OBVIOUS
  <2>5. Grown(c, c) /\ Coded(table, c)
    BY <2>4 DEF Grown, Context, ModuleInv, Typing
  <2>6. PICK t : t = table
    OBVIOUS
  <2>7. /\ t \in Tables /\ u \in Tables /\ Coded(t, c) /\ Grown(c, c) /\ u.code = t.code
        /\ \A l \in Label : Kind(u, l) = {"placed"} =>
              Kind(t, l) = {"placed"} /\ u.info[l] = t.info[l]
              /\ (l \in c.specifiers => l \in c.specifiers)
        /\ \A l \in Label : Kind(u, l) = {"extern"} =>
              Kind(t, l) = {"extern"} /\ u.info[l] = t.info[l]
    BY <1>1, <2>1, <2>3, <2>5, <2>6
  <2>8. Coded(u, c)
    BY ONLY <2>7, CodedStays
  <2>9. QED
    BY <2>4, <2>8
<1>9. QED
  BY <1>2, <1>7, <1>8 DEF m

\* The address of a specifier is a name that is used and described as one.
LEMMA AddressIs ==
    ASSUME ModuleInv, Sound(table), NEW i \in DOMAIN specifiers
    PROVE  /\ SpecifierAddress(table, i) = Roots(table)[specifiers[i].address]
           /\ SpecifierAddress(table, i) \in Name /\ SpecifierAddress(table, i) \in Label
           /\ SpecifierAddress(table, i) \in used
           /\ "specifier" \in type[SpecifierAddress(table, i)]
           /\ Roots(table)[SpecifierAddress(table, i)] = SpecifierAddress(table, i)
<1>1. specifiers[i].address \in Name /\ specifiers[i].address \in used
  BY SpecifierIs
<1>2. "specifier" \in type[Roots(table)[specifiers[i].address]]
  BY DEF ModuleInv, Specified
<1>3. SpecifierAddress(table, i) = Root(specifiers[i].address)
  BY DEF SpecifierAddress, Root
<1>4. QED
  BY <1>1, <1>2, <1>3, RootIs

\* The first of equal specifiers is written.
WriteStep(t, i, u) ==
    IF ~IsFirst(t, i) THEN u
    ELSE Emit(Place(u, specifiers[i].label), "CLL", SpecifierAddress(t, i))
WriteSteps(t, f) == f = [i \in 0 .. Len(specifiers) |-> IF i = 0 THEN MergeSpecifiers(t)
                                                        ELSE WriteStep(t, i, f[i - 1])]
WriteWay(t) == CHOOSE f : WriteSteps(t, f)

\* The way from one specifier to the next.
LEMMA WriteWayIs ==
    ASSUME ModuleInv, Sound(table), DOMAIN specifiers = 1 .. Len(specifiers),
           Len(specifiers) \in Nat
    PROVE  /\ WriteSpecifiers(table) = WriteWay(table)[Len(specifiers)]
           /\ WriteWay(table)[0] = MergeSpecifiers(table)
           /\ \A i \in 1 .. Len(specifiers) :
                 WriteWay(table)[i] = WriteStep(table, i, WriteWay(table)[i - 1])
<1> DEFINE m == Len(specifiers)
           F == [i \in 1 .. m |-> [u \in Tables |-> WriteStep(table, i, u)]]
           t == MergeSpecifiers(table)
           g == WriteWay(table)
<1>1. ASSUME NEW i \in 1 .. m, NEW u \in Tables PROVE WriteStep(table, i, u) \in Tables
  <2>1. i \in DOMAIN specifiers
    OBVIOUS
  <2>2. specifiers[i].label \in Label /\ SpecifierAddress(table, i) \in Label \cup {None}
    BY <2>1, SpecifierIs, AddressIs
  <2>3. Place(u, specifiers[i].label) \in Tables /\ "CLL" \in Ops
    BY <2>2, PlaceIs DEF Ops
  <2>4. QED
    BY <2>2, <2>3, EmitIs DEF WriteStep
<1>2. F \in [1 .. m -> [Tables -> Tables]]
  BY <1>1
<1>3. \A i \in 1 .. m : \A u \in Tables : F[i][u] = WriteStep(table, i, u)
  OBVIOUS
<1>4. m \in Nat /\ t \in Tables
  BY MergedIs DEF Merged, Sound
<1> HIDE DEF m, F, t
<1>5. PICK f : Stepping(f, Tables, m, F, t)
  BY <1>2, <1>4, StepsExist
<1>6. WriteSteps(table, f)
  <2>1. f \in [0 .. m -> Tables] /\ f[0] = t /\ \A i \in 1 .. m : f[i] = F[i][f[i - 1]]
    BY <1>5 DEF Stepping
  <2>2. ASSUME NEW i \in 1 .. m PROVE f[i] = WriteStep(table, i, f[i - 1])
    <3>1. i - 1 \in 0 .. m
      BY <1>4
    <3>2. QED
      BY <1>3, <2>1, <3>1
  <2>3. \A i \in 0 .. m : i # 0 => i \in 1 .. m
    BY <1>4
  <2>4. f = [i \in 0 .. m |-> IF i = 0 THEN t ELSE WriteStep(table, i, f[i - 1])]
    BY <2>1, <2>2, <2>3
  <2>5. QED
    BY <2>4 DEF WriteSteps, m, t
<1>7. WriteSteps(table, g)
  BY <1>6 DEF WriteWay
<1>8. g[0] = t /\ \A i \in 1 .. m : g[i] = WriteStep(table, i, g[i - 1])
  <2>1. PICK h : h = g
    OBVIOUS
  <2>2. h = [i \in 0 .. m |-> IF i = 0 THEN t ELSE WriteStep(table, i, h[i - 1])]
    BY <1>7, <2>1 DEF WriteSteps, m, t
  <2>3. 0 \in 0 .. m /\ \A i \in 1 .. m : i \in 0 .. m /\ i # 0
    BY <1>4
  <2> HIDE DEF g
  <2>4. h[0] = t /\ \A i \in 1 .. m : h[i] = WriteStep(table, i, h[i - 1])
    BY <2>2, <2>3
  <2>5. QED
    BY <2>1, <2>4
<1>9. WriteSpecifiers(table) = g[m]
  BY DEF WriteSpecifiers, WriteWay, WriteSteps, WriteStep, m
<1>10. QED
  BY <1>8, <1>9 DEF m, t

\* What the table is when the first i specifiers are written.
Called(j) == [op |-> "CLL", to |-> SpecifierAddress(table, j)]
Written(t, u, i) ==
    /\ Sound(u) /\ Coded(u, Context)
    /\ Extends(t, u, {specifiers[j].label : j \in {j \in DOMAIN specifiers : j <= i}})
    /\ \A j \in DOMAIN specifiers :
          j <= i /\ IsFirst(table, j) => Linked(u, specifiers[j].label, Called(j))

\* One specifier.
LEMMA WrittenOn ==
    ASSUME NEW t, NEW i \in DOMAIN specifiers, NEW u, ModuleInv, Sound(table),
           Merged(t, Len(specifiers)), Written(t, u, i - 1)
    PROVE  Written(t, WriteStep(table, i, u), i)
<1> DEFINE l == specifiers[i].label
           to == SpecifierAddress(table, i)
           v == Emit(Place(u, l), "CLL", to)
           W(n) == {specifiers[j].label : j \in {j \in DOMAIN specifiers : j <= n}}
<1>1. /\ Sound(u) /\ Coded(u, Context) /\ Extends(t, u, W(i - 1)) /\ t \in Tables
      /\ \A j \in DOMAIN specifiers :
            j <= i - 1 /\ IsFirst(table, j) => Linked(u, specifiers[j].label, Called(j))
  BY DEF Written, Merged, Sound
<1>2. /\ i \in Nat /\ l \in Label /\ l \notin Name /\ l \in SpecifierLabels
      /\ \A j \in DOMAIN specifiers :
            j \in Nat /\ specifiers[j].label \in Label /\ (specifiers[j].label = l => j = i)
  <2>1. \A j \in DOMAIN specifiers : specifiers[j].label = l => j = i
    BY DEF ModuleInv, Specified
  <2>2. \A j \in DOMAIN specifiers : /\ j \in Nat /\ specifiers[j].label \in Label
                                     /\ specifiers[j].label \notin Name
                                     /\ specifiers[j].label \in SpecifierLabels
    BY SpecifierIs
  <2>3. QED
    BY <2>1, <2>2
<1>3. /\ to \in Label /\ to \in used /\ "specifier" \in type[to] /\ Roots(table)[to] = to
  BY AddressIs
<1> HIDE DEF l, to, v
<1>4. \A j \in DOMAIN specifiers : j <= i <=> j <= i - 1 \/ j = i
  <2>1. ASSUME NEW j \in DOMAIN specifiers PROVE j <= i <=> j <= i - 1 \/ j = i
    <3>1. j \in Nat /\ i \in Nat
      BY <1>2
    <3>2. QED
      BY <3>1
  <2>2. QED
    BY <2>1
<1>5. W(i) = W(i - 1) \cup {l}
  BY <1>4 DEF l
<1>6. l \notin W(i - 1)
  <2>1. ~(i <= i - 1)
    BY <1>2
  <2>2. QED
    BY <1>2, <2>1
<1> HIDE DEF W
<1>7. CASE ~IsFirst(table, i)
  <2>1. WriteStep(table, i, u) = u
    BY <1>7 DEF WriteStep
  <2>2. Extends(t, u, W(i))
    BY <1>1, <1>5 DEF Extends
  <2>3. Written(t, u, i)
    BY <1>1, <1>4, <1>7, <2>2 DEF Written, W
  <2>4. QED
    BY <2>1, <2>3
<1>8. CASE IsFirst(table, i)
  <2>1. WriteStep(table, i, u) = v
    BY <1>8 DEF WriteStep, v, l, to
  <2>2. Kind(u, l) = {}
    <3>1. Kind(t, l) = {}
      BY <1>8 DEF Merged, l
    <3>2. u.mode[l] = t.mode[l]
      BY <1>1, <1>2, <1>6 DEF Extends
    <3>3. QED
      BY <3>1, <3>2 DEF Kind
  <2>3. PICK c : c = Context
    OBVIOUS
  <2>4. c.used = used /\ c.type = type /\ c.root = Roots(table)
    BY <2>3 DEF Context
  <2>5. ItemOK([op |-> "CLL", to |-> to], c) /\ "CLL" \in Ops
    BY <1>3, <2>4 DEF ItemOK, Ops
  <2>6. Suits(l, "CLL", c)
    BY <1>2 DEF Suits
  <2>7. /\ Sound(v) /\ Coded(v, c) /\ Extends(u, v, {l}) /\ Linked(v, l, [op |-> "CLL", to |-> to])
    BY <1>1, <1>2, <1>3, <2>2, <2>3, <2>5, <2>6, Labelled DEF v
  <2>8. Extends(t, v, W(i))
    <3>1. u \in Tables
      BY <1>1 DEF Sound
    <3>2. QED
      BY <1>1, <1>5, <2>7, <3>1, ExtendsOn
  <2>9. ASSUME NEW j \in DOMAIN specifiers, j <= i, IsFirst(table, j)
        PROVE  Linked(v, specifiers[j].label, Called(j))
    <3>1. CASE j = i
      BY <2>7, <3>1 DEF l, to, Called
    <3>2. CASE j # i
      <4>1. Linked(u, specifiers[j].label, Called(j))
        BY <1>1, <1>4, <2>9, <3>2
      <4>2. specifiers[j].label \in Label \ {l}
        BY <1>2, <3>2
      <4>3. QED
        BY <2>7, <4>1, <4>2, LinkedStays
    <3>3. QED
      BY <3>1, <3>2
  <2>10. Written(t, v, i)
    BY <2>3, <2>7, <2>8, <2>9 DEF Written, W
  <2>11. QED
    BY <2>1, <2>10
<1>9. QED
  BY <1>7, <1>8

\* All specifiers.
LEMMA WrittenIs ==
    ASSUME ModuleInv, Sound(table)
    PROVE  /\ Merged(MergeSpecifiers(table), Len(specifiers))
           /\ Written(MergeSpecifiers(table), WriteSpecifiers(table), Len(specifiers))
<1> DEFINE m == Len(specifiers)
           t == MergeSpecifiers(table)
           g == WriteWay(table)
           K == {i \in 0 .. m : Written(t, g[i], i)}
<1>1. m \in Nat /\ DOMAIN specifiers = 1 .. m
  <2>1. specifiers \in Seq([label : Nat, address : Name])
    BY DEF ModuleInv, Specified
  <2>2. QED
    BY <2>1
<1>2. WriteSpecifiers(table) = g[m] /\ g[0] = t /\ \A i \in 1 .. m : g[i] = WriteStep(table, i, g[i - 1])
  BY <1>1, WriteWayIs
<1>3. Merged(t, m) /\ Coded(t, Context) /\ Sound(t) /\ t \in Tables
  BY MergedIs DEF Merged, Sound
<1> HIDE DEF g, t
<1>4. 0 \in K
  <2>1. \A j \in DOMAIN specifiers : ~(j <= 0)
    BY <1>1
  <2>2. Extends(t, t, {})
    BY <1>3, ExtendsNot
  <2>3. {specifiers[j].label : j \in {j \in DOMAIN specifiers : j <= 0}} = {}
    BY <2>1
  <2>4. Written(t, t, 0)
    BY <1>3, <2>1, <2>2, <2>3 DEF Written
  <2>5. QED
    BY <1>1, <1>2, <2>4
<1>5. ASSUME NEW i \in 1 .. m, i - 1 \in K PROVE i \in K
  <2>1. Written(t, g[i - 1], i - 1)
    BY <1>5
  <2>2. Written(t, g[i], i)
    BY <1>1, <1>2, <1>3, <2>1, WrittenOn
  <2>3. QED
    BY <1>1, <2>2
<1> HIDE DEF K, m
<1>6. 0 .. m \subseteq K
  BY <1>1, <1>4, <1>5, StepsInSet
<1>7. m \in 0 .. m
  BY <1>1
<1>8. Written(t, g[m], m)
  BY <1>6, <1>7 DEF K
<1>9. QED
  BY <1>2, <1>3, <1>8 DEF m, t
-----------------------------------------------------------------------------
(* The end of the module: the functions *)

\* More labels may be written.
LEMMA ExtendsMore ==
    ASSUME NEW t, NEW u, NEW W, NEW X, Extends(t, u, W), W \subseteq X
    PROVE  Extends(t, u, X)
BY DEF Extends

\* A sentence in the pool.
LEMMA SentenceIs ==
    ASSUME NEW i \in DOMAIN functions, NEW n \in DOMAIN functions[i].sentences,
           NEW s, s = functions[i].sentences[n], ModuleInv
    PROVE  /\ s.label \in Label /\ s.label \in 1 .. MaxInfo /\ s.label \notin Name
           /\ s.label \notin SpecifierLabels /\ s.label \in SentenceLabels
           /\ s.call \in Label /\ s.call \in used /\ "function" \in type[Roots(table)[s.call]]
           /\ s.spec \in Label \cup {None} /\ (s.spec # None => s.spec \in SpecifierLabels)
           /\ Kind(table, s.label) = {} \/ IsAlias(table, s.label)
<1>1. Pending /\ Typing /\ Specified /\ Nameless
  BY DEF ModuleInv
<1>2. SentenceOK(s)
  BY <1>1 DEF Pending
<1>3. allocated \in 0 .. MaxInfo /\ MaxInfo \in Nat
  BY <1>1, LabelsAre DEF Typing
<1>4. s.label \in 1 .. allocated
  BY <1>2 DEF SentenceOK
<1>5. s.label \in 1 .. MaxInfo
  BY <1>3, <1>4
<1>6. Kind(table, s.label) = {} \/ IsAlias(table, s.label)
  BY <1>1, <1>5 DEF Nameless
<1>7. SpecifierLabels \subseteq 1 .. MaxInfo
  BY SpecifierIs DEF SpecifierLabels
<1>8. s.label \in Label /\ s.label \notin Name
  BY <1>5, LabelsAre
<1>9. s.label \in SentenceLabels
  BY <1>8 DEF SentenceLabels
<1>10. s.call \in Label /\ s.call \in used /\ "function" \in type[Roots(table)[s.call]]
  BY <1>1, <1>2, LabelsAre DEF SentenceOK, Typing
<1>11. /\ s.spec \in Label \cup {None} /\ (s.spec # None => s.spec \in SpecifierLabels)
       /\ s.label \notin SpecifierLabels
  BY <1>2, <1>7, LabelsAre DEF SentenceOK
<1>12. QED
  BY <1>5, <1>6, <1>8, <1>9, <1>10, <1>11

\* The labels of a function, and the operators they are put before.
Labels(i) == {functions[i].sentences[n].label : n \in DOMAIN functions[i].sentences}
Own(i) == {functions[i].label} \cup Labels(i)
Begins(i) == [op |-> "SJUMP", to |-> functions[i].sentences[1].label]
Fails(i, n) == IF n < Len(functions[i].sentences)
               THEN [op |-> "SJUMP", to |-> functions[i].sentences[n + 1].label]
               ELSE [op |-> "FAIL", to |-> None]

\* The operator behind a sentence may be written.
LEMMA FailsIs ==
    ASSUME ModuleInv, NEW i \in DOMAIN functions, NEW n \in DOMAIN functions[i].sentences
    PROVE  /\ Fails(i, n).op \in Ops /\ Fails(i, n).to \in Label \cup {None}
           /\ Fails(i, n) = [op |-> Fails(i, n).op, to |-> Fails(i, n).to]
           /\ ItemOK(Fails(i, n), Context)
<1> DEFINE m == Len(functions[i].sentences)
<1>1. m \in Nat /\ DOMAIN functions[i].sentences = 1 .. m /\ m > 0
  <2>1. Pending
    BY DEF ModuleInv
  <2>2. \A j \in DOMAIN functions :
           /\ Len(functions[j].sentences) \in Nat /\ Len(functions[j].sentences) > 0
           /\ DOMAIN functions[j].sentences = 1 .. Len(functions[j].sentences)
    BY ONLY <2>1, FunctionIs
  <2>3. QED
    BY <2>2
<1>2. PICK c : c = Context /\ c.sentences = SentenceLabels
  <2>1. Context.sentences = SentenceLabels
    BY DEF Context
  <2>2. QED
    BY <2>1
<1>3. CASE n < m
  <2>1. n + 1 \in DOMAIN functions[i].sentences
    BY <1>1, <1>3
  <2>2. PICK l : l = functions[i].sentences[n + 1].label
    OBVIOUS
  <2>3. l \in Label /\ l \in SentenceLabels
    BY <2>1, <2>2, SentenceIs
  <2>4. Fails(i, n) = [op |-> "SJUMP", to |-> l]
    BY <1>3, <2>2 DEF Fails
  <2>5. ItemOK([op |-> "SJUMP", to |-> l], c)
    BY <1>2, <2>3 DEF ItemOK
  <2>6. QED
    BY <1>2, <2>3, <2>4, <2>5 DEF Ops
<1>4. CASE ~(n < m)
  <2>1. Fails(i, n) = [op |-> "FAIL", to |-> None]
    BY <1>4 DEF Fails
  <2>2. ItemOK([op |-> "FAIL", to |-> None], c)
    BY DEF ItemOK
  <2>3. QED
    BY <1>2, <2>1, <2>2 DEF Ops
<1>5. QED
  BY <1>3, <1>4

\* The body of a sentence.
BodyOf(u, s) == Emit(IF s.spec = None THEN u ELSE Emit(u, "WSPC", s.spec), "BLF", s.call)

\* It refers to what the sentence was read with.
LEMMA BodyIs ==
    ASSUME NEW u, Sound(u), Coded(u, Context), NEW i \in DOMAIN functions,
           NEW n \in DOMAIN functions[i].sentences, NEW s, s = functions[i].sentences[n],
           ModuleInv
    PROVE  /\ Sound(BodyOf(u, s)) /\ Coded(BodyOf(u, s), Context) /\ Extends(u, BodyOf(u, s), {})
<1>1. PICK c : c = Context
  OBVIOUS
<1>2. /\ c.used = used /\ c.type = type /\ c.root = Roots(table) /\ c.specifiers = SpecifierLabels
  BY <1>1 DEF Context
<1>3. /\ s.call \in Label /\ s.call \in used /\ "function" \in type[Roots(table)[s.call]]
      /\ s.spec \in Label \cup {None} /\ (s.spec # None => s.spec \in SpecifierLabels)
  BY SentenceIs
<1> DEFINE a == IF s.spec = None THEN u ELSE Emit(u, "WSPC", s.spec)
<1>4. u \in Tables
  BY DEF Sound
<1>5. Sound(a) /\ Coded(a, c) /\ Extends(u, a, {})
  <2>1. CASE s.spec = None
    BY <1>1, <1>4, <2>1, ExtendsNot
  <2>2. CASE s.spec # None
    <3>1. ItemOK([op |-> "WSPC", to |-> s.spec], c) /\ "WSPC" \in Ops
      BY <1>2, <1>3, <2>2 DEF ItemOK, Ops
    <3>2. /\ Sound(Emit(u, "WSPC", s.spec)) /\ Coded(Emit(u, "WSPC", s.spec), c)
          /\ Extends(u, Emit(u, "WSPC", s.spec), {})
      BY <1>1, <1>3, <3>1, Emitted
    <3>3. QED
      BY <2>2, <3>2
  <2>3. QED
    BY <2>1, <2>2
<1> HIDE DEF a
<1>6. ItemOK([op |-> "BLF", to |-> s.call], c) /\ "BLF" \in Ops
  BY <1>2, <1>3 DEF ItemOK, Ops
<1>7. /\ Sound(Emit(a, "BLF", s.call)) /\ Coded(Emit(a, "BLF", s.call), c)
      /\ Extends(a, Emit(a, "BLF", s.call), {})
  BY <1>3, <1>5, <1>6, Emitted
<1>8. Extends(u, Emit(a, "BLF", s.call), {})
  <2>1. a \in Tables
    BY <1>5 DEF Sound
  <2>2. Extends(u, Emit(a, "BLF", s.call), {} \cup {})
    BY <1>4, <1>5, <1>7, <2>1, ExtendsOn
  <2>3. {} \cup {} = {}
    OBVIOUS
  <2>4. QED
    BY <2>2, <2>3
<1>9. QED
  BY <1>1, <1>7, <1>8 DEF BodyOf, a

\* What the table is when the first n sentences of a function are written.
Part(b, u, i, n) ==
    /\ Sound(u) /\ Coded(u, Context)
    /\ Extends(b, u, {functions[i].label} \cup {functions[i].sentences[k].label :
                         k \in {k \in DOMAIN functions[i].sentences : k <= n}})
    /\ Linked(u, functions[i].label, Begins(i))
    /\ \A k \in DOMAIN functions[i].sentences : k <= n =>
          \/ IsAlias(b, functions[i].sentences[k].label)
          \/ Linked(u, functions[i].sentences[k].label, Fails(i, k))

\* One sentence.
LEMMA PartOn ==
    ASSUME NEW b, NEW u, NEW i \in DOMAIN functions, NEW n \in DOMAIN functions[i].sentences,
           ModuleInv, b \in Tables,
           \A x \in Labels(i) : Kind(b, x) = {} \/ IsAlias(b, x), Part(b, u, i, n - 1)
    PROVE  Part(b, WriteSentence(u, functions[i], n), i, n)
<1>1. PICK q, s : q = functions[i].sentences /\ s = q[n]
  OBVIOUS
<1> DEFINE l == s.label
           f == functions[i].label
           v == WriteSentence(u, functions[i], n)
           p == BodyOf(u, s)
           W(h) == {f} \cup {q[k].label : k \in {k \in DOMAIN q : k <= h}}
<1>2. /\ Sound(u) /\ Coded(u, Context) /\ Extends(b, u, W(n - 1)) /\ u \in Tables
      /\ Linked(u, f, Begins(i))
      /\ \A k \in DOMAIN q : k <= n - 1 => IsAlias(b, q[k].label) \/ Linked(u, q[k].label, Fails(i, k))
  BY <1>1 DEF Part, Sound
<1>3. /\ Pending /\ DOMAIN q = 1 .. Len(q) /\ Len(q) \in Nat /\ n \in DOMAIN q
      /\ f \in Name /\ f \in Label
      /\ \A k \in DOMAIN q : q[k].label = l => k = n
      /\ \A k \in DOMAIN q : q[k].label \in Label /\ q[k].label \notin Name
                             /\ q[k].label \notin SpecifierLabels
  <2>1. Pending
    BY DEF ModuleInv
  <2>2. /\ DOMAIN q = 1 .. Len(q) /\ Len(q) \in Nat /\ f \in Name
    BY <1>1, <2>1, FunctionIs
  <2>3. \A k \in DOMAIN q : q[k].label = l => k = n
    BY <1>1 DEF ModuleInv, Apart
  <2>4. \A k \in DOMAIN q : q[k].label \in Label /\ q[k].label \notin Name
                            /\ q[k].label \notin SpecifierLabels
    BY <1>1, SentenceIs
  <2>5. QED
    BY <1>1, <2>1, <2>2, <2>3, <2>4, LabelsAre
<1>4. /\ Sound(p) /\ Coded(p, Context) /\ Extends(u, p, {})
  BY <1>1, <1>2, BodyIs
<1>5. \A k \in DOMAIN q : k <= n <=> k <= n - 1 \/ k = n
  <2>1. ASSUME NEW k \in DOMAIN q PROVE k <= n <=> k <= n - 1 \/ k = n
    <3>1. k \in Nat /\ n \in Nat
      BY <1>3
    <3>2. QED
      BY <3>1
  <2>2. QED
    BY <2>1
<1>6. W(n) = W(n - 1) \cup {l}
  BY <1>1, <1>3, <1>5
<1>7. l \notin W(n - 1) /\ l # f
  <2>1. n \in Nat /\ ~(n <= n - 1)
    BY <1>3
  <2>2. l # f
    BY <1>1, <1>3
  <2>3. QED
    BY <1>3, <2>1, <2>2
<1>8. v = IF IsAlias(p, l) THEN p
          ELSE IF n < Len(q) THEN Emit(Place(p, l), "SJUMP", q[n + 1].label)
          ELSE Emit(Place(p, l), "FAIL", None)
  BY <1>1 DEF WriteSentence, BodyOf
<1>9. l \in Label
  BY <1>1, <1>3
<1>10. Extends(b, p, W(n - 1))
  <2>1. Extends(b, p, W(n - 1) \cup {})
    <3> HIDE DEF W, p
    <3>1. QED
      BY <1>2, <1>4, ExtendsOn
  <2>2. W(n - 1) \cup {} = W(n - 1)
    OBVIOUS
  <2>3. QED
    BY <2>1, <2>2
<1>11. /\ Linked(p, f, Begins(i))
       /\ \A k \in DOMAIN q : k <= n - 1 => IsAlias(b, q[k].label) \/ Linked(p, q[k].label, Fails(i, k))
  <2> HIDE DEF p
  <2>1. \A x \in Label : x \in Label \ {}
    OBVIOUS
  <2>2. QED
    BY <1>2, <1>3, <1>4, <2>1, LinkedStays
<1>12. Kind(b, l) = {} \/ IsAlias(b, l)
  <2>1. l \in Labels(i)
    BY <1>1 DEF Labels
  <2>2. QED
    BY <2>1
<1>13. IsAlias(p, l) <=> IsAlias(b, l)
  BY <1>9, <1>10 DEF Extends
<1> HIDE DEF v, p, W, l, f
<1>14. CASE IsAlias(p, l)
  <2>1. v = p
    BY <1>8, <1>14
  <2>2. Extends(b, p, W(n))
    BY <1>6, <1>10, ExtendsMore
  <2>3. \A k \in DOMAIN q : k <= n => IsAlias(b, q[k].label) \/ Linked(p, q[k].label, Fails(i, k))
    BY <1>1, <1>5, <1>11, <1>13, <1>14 DEF l
  <2>4. Part(b, p, i, n)
    BY <1>1, <1>4, <1>11, <2>2, <2>3 DEF Part, W, f
  <2>5. QED
    BY <2>1, <2>4 DEF v
<1>15. CASE ~IsAlias(p, l)
  <2>1. PICK e : e = Fails(i, n)
    OBVIOUS
  <2>2. e.op \in Ops /\ e.to \in Label \cup {None} /\ e = [op |-> e.op, to |-> e.to] /\ ItemOK(e, Context)
    BY <2>1, FailsIs
  <2>3. v = Emit(Place(p, l), e.op, e.to)
    BY <1>1, <1>8, <1>15, <2>1 DEF Fails
  <2>4. Kind(p, l) = {}
    <3>1. Kind(b, l) = {} /\ p.mode[l] = b.mode[l]
      BY <1>7, <1>9, <1>10, <1>12, <1>13, <1>15 DEF Extends
    <3>2. QED
      BY <3>1 DEF Kind
  <2>5. PICK c : c = Context
    OBVIOUS
  <2>6. Suits(l, e.op, c)
    BY <1>1, <1>3, <2>5 DEF Suits, Context, l
  <2>7. ItemOK([op |-> e.op, to |-> e.to], c)
    BY <2>2, <2>5
  <2>8. /\ Sound(v) /\ Coded(v, c) /\ Extends(p, v, {l}) /\ Linked(v, l, [op |-> e.op, to |-> e.to])
    BY <1>4, <1>9, <2>2, <2>3, <2>4, <2>5, <2>6, <2>7, Labelled
  <2>9. Extends(b, v, W(n))
    <3>1. p \in Tables
      BY <1>4 DEF Sound
    <3>2. QED
      BY <1>6, <1>10, <2>8, <3>1, ExtendsOn
  <2>10. Linked(v, f, Begins(i))
    BY <1>3, <1>7, <1>11, <2>8, LinkedStays
  <2>11. ASSUME NEW k \in DOMAIN q, k <= n
         PROVE  IsAlias(b, q[k].label) \/ Linked(v, q[k].label, Fails(i, k))
    <3>1. CASE k = n
      <4>1. Linked(v, l, e)
        BY <2>2, <2>8
      <4>2. QED
        BY <1>1, <2>1, <3>1, <4>1 DEF l
    <3>2. CASE k # n
      <4>1. k <= n - 1 /\ q[k].label \in Label \ {l}
        BY <1>3, <1>5, <2>11, <3>2
      <4>2. QED
        BY <1>11, <2>8, <4>1, LinkedStays
    <3>3. QED
      BY <3>1, <3>2
  <2>12. Part(b, v, i, n)
    BY <1>1, <2>5, <2>8, <2>9, <2>10, <2>11 DEF Part, W, f
  <2>13. QED
    BY <2>12 DEF v
<1>16. QED
  BY <1>14, <1>15

\* The sentences of a function are written one after the other.
SentenceSteps(t, f, g) ==
    g = [n \in 0 .. Len(f.sentences) |->
            IF n = 0 THEN Emit(Place(t, f.label), "SJUMP", f.sentences[1].label)
            ELSE WriteSentence(g[n - 1], f, n)]
SentenceWay(t, f) == CHOOSE g : SentenceSteps(t, f, g)

\* A sentence or the beginning of a function is written into any table.
LEMMA SentenceWrites ==
    ASSUME ModuleInv, NEW u \in Tables, NEW i \in DOMAIN functions
    PROVE  /\ \A n \in DOMAIN functions[i].sentences : WriteSentence(u, functions[i], n) \in Tables
           /\ Emit(Place(u, functions[i].label), "SJUMP", functions[i].sentences[1].label) \in Tables
           /\ functions[i].label \in Label /\ functions[i].label \in Name
           /\ functions[i].sentences[1].label \in SentenceLabels
           /\ functions[i].sentences[1].label \in Label
           /\ DOMAIN functions[i].sentences = 1 .. Len(functions[i].sentences)
           /\ Len(functions[i].sentences) \in Nat /\ Len(functions[i].sentences) > 0
<1>1. PICK f : f = functions[i]
  OBVIOUS
<1>2. /\ f.label \in Name /\ DOMAIN f.sentences = 1 .. Len(f.sentences)
      /\ Len(f.sentences) \in Nat /\ Len(f.sentences) > 0 /\ f.label \in Label
  <2>1. Pending
    BY DEF ModuleInv
  <2>2. QED
    BY <1>1, <2>1, FunctionIs, LabelsAre
<1>3. \A n \in DOMAIN f.sentences : /\ f.sentences[n].label \in Label
                                    /\ f.sentences[n].label \in SentenceLabels
                                    /\ f.sentences[n].call \in Label
                                    /\ f.sentences[n].spec \in Label \cup {None}
  BY <1>1, SentenceIs
<1>4. 1 \in DOMAIN f.sentences
  BY <1>2
<1>5. Emit(Place(u, f.label), "SJUMP", f.sentences[1].label) \in Tables
  <2>1. Place(u, f.label) \in Tables /\ "SJUMP" \in Ops
    BY <1>2, PlaceIs DEF Ops
  <2>2. f.sentences[1].label \in Label \cup {None}
    BY <1>3, <1>4
  <2>3. QED
    BY <2>1, <2>2, EmitIs
<1>6. ASSUME NEW n \in DOMAIN f.sentences
      PROVE  WriteSentence(u, f, n) \in Tables
  <2>1. PICK s : s = f.sentences[n]
    OBVIOUS
  <2>2. /\ s.label \in Label /\ s.call \in Label /\ s.spec \in Label \cup {None}
    BY <1>3, <2>1
  <2> DEFINE a == IF s.spec = None THEN u ELSE Emit(u, "WSPC", s.spec)
             p == Emit(a, "BLF", s.call)
  <2>3. {"WSPC", "BLF", "SJUMP", "FAIL"} \subseteq Ops
    BY DEF Ops
  <2>4. a \in Tables
    BY <2>2, <2>3, EmitIs
  <2> HIDE DEF a
  <2>5. p \in Tables
    BY <2>2, <2>3, <2>4, EmitIs
  <2> HIDE DEF p
  <2>6. Place(p, s.label) \in Tables
    BY <2>2, <2>5, PlaceIs
  <2>7. n < Len(f.sentences) => f.sentences[n + 1].label \in Label \cup {None}
    <3>1. n < Len(f.sentences) => n + 1 \in DOMAIN f.sentences
      BY <1>2
    <3>2. QED
      BY <1>3, <3>1
  <2>8. n < Len(f.sentences) => Emit(Place(p, s.label), "SJUMP", f.sentences[n + 1].label) \in Tables
    BY <2>3, <2>6, <2>7, EmitIs
  <2>9. Emit(Place(p, s.label), "FAIL", None) \in Tables
    BY <2>3, <2>6, EmitIs
  <2>10. WriteSentence(u, f, n) = IF IsAlias(p, s.label) THEN p
            ELSE IF n < Len(f.sentences) THEN Emit(Place(p, s.label), "SJUMP", f.sentences[n + 1].label)
            ELSE Emit(Place(p, s.label), "FAIL", None)
    BY <2>1 DEF WriteSentence, p, a
  <2>11. QED
    BY <2>5, <2>8, <2>9, <2>10
<1>7. QED
  BY <1>1, <1>2, <1>3, <1>4, <1>5, <1>6

\* The way from one sentence to the next.
LEMMA SentenceWayIs ==
    ASSUME ModuleInv, NEW t \in Tables, NEW i \in DOMAIN functions, NEW f, f = functions[i]
    PROVE  /\ WriteFunction(t, f) = SentenceWay(t, f)[Len(f.sentences)]
           /\ SentenceWay(t, f)[0] = Emit(Place(t, f.label), "SJUMP", f.sentences[1].label)
           /\ \A n \in 1 .. Len(f.sentences) :
                 SentenceWay(t, f)[n] = WriteSentence(SentenceWay(t, f)[n - 1], f, n)
<1> DEFINE m == Len(f.sentences)
           F == [n \in 1 .. m |-> [u \in Tables |-> WriteSentence(u, f, n)]]
           a == Emit(Place(t, f.label), "SJUMP", f.sentences[1].label)
           g == SentenceWay(t, f)
<1>1. ASSUME NEW n \in 1 .. m, NEW u \in Tables PROVE WriteSentence(u, f, n) \in Tables
  BY SentenceWrites
<1>2. F \in [1 .. m -> [Tables -> Tables]]
  BY <1>1
<1>3. \A n \in 1 .. m : \A u \in Tables : F[n][u] = WriteSentence(u, f, n)
  OBVIOUS
<1>4. m \in Nat /\ a \in Tables
  BY SentenceWrites
<1> HIDE DEF m, F, a
<1>5. PICK h : Stepping(h, Tables, m, F, a)
  BY <1>2, <1>4, StepsExist
<1>6. SentenceSteps(t, f, h)
  <2>1. h \in [0 .. m -> Tables] /\ h[0] = a /\ \A n \in 1 .. m : h[n] = F[n][h[n - 1]]
    BY <1>5 DEF Stepping
  <2>2. ASSUME NEW n \in 1 .. m PROVE h[n] = WriteSentence(h[n - 1], f, n)
    <3>1. n - 1 \in 0 .. m
      BY <1>4
    <3>2. QED
      BY <1>3, <2>1, <3>1
  <2>3. \A n \in 0 .. m : n # 0 => n \in 1 .. m
    BY <1>4
  <2>4. h = [n \in 0 .. m |-> IF n = 0 THEN a ELSE WriteSentence(h[n - 1], f, n)]
    BY <2>1, <2>2, <2>3
  <2>5. QED
    BY <2>4 DEF SentenceSteps, m, a
<1>7. SentenceSteps(t, f, g)
  BY <1>6 DEF SentenceWay
<1>8. g[0] = a /\ \A n \in 1 .. m : g[n] = WriteSentence(g[n - 1], f, n)
  <2>1. PICK y : y = g
    OBVIOUS
  <2>2. y = [n \in 0 .. m |-> IF n = 0 THEN a ELSE WriteSentence(y[n - 1], f, n)]
    BY <1>7, <2>1 DEF SentenceSteps, m, a
  <2>3. 0 \in 0 .. m /\ \A n \in 1 .. m : n \in 0 .. m /\ n # 0
    BY <1>4
  <2> HIDE DEF g
  <2>4. y[0] = a /\ \A n \in 1 .. m : y[n] = WriteSentence(y[n - 1], f, n)
    BY <2>2, <2>3
  <2>5. QED
    BY <2>1, <2>4
<1>9. WriteFunction(t, f) = g[m]
  BY DEF WriteFunction, SentenceWay, SentenceSteps, m
<1>10. QED
  BY <1>8, <1>9 DEF m, a

\* A whole function.
LEMMA FunctionWritten ==
    ASSUME ModuleInv, NEW b, Sound(b), Coded(b, Context), NEW i \in DOMAIN functions,
           "extern" \notin b.mode[functions[i].label],
           \A x \in Labels(i) : Kind(b, x) = {} \/ IsAlias(b, x)
    PROVE  Part(b, WriteFunction(b, functions[i]), i, Len(functions[i].sentences))
<1>1. PICK f, m : f = functions[i] /\ m = Len(f.sentences)
  OBVIOUS
<1> DEFINE g == SentenceWay(b, f)
           a == Emit(Place(b, f.label), "SJUMP", f.sentences[1].label)
           K == {n \in 0 .. m : Part(b, g[n], i, n)}
<1>2. b \in Tables
  BY DEF Sound
<1>3. /\ m \in Nat /\ m > 0 /\ DOMAIN f.sentences = 1 .. m /\ f.label \in Label /\ f.label \in Name
      /\ f.sentences[1].label \in SentenceLabels /\ f.sentences[1].label \in Label
  BY <1>1, <1>2, SentenceWrites
<1>4. /\ WriteFunction(b, f) = g[m] /\ g[0] = a
      /\ \A n \in 1 .. m : g[n] = WriteSentence(g[n - 1], f, n)
  BY <1>1, <1>2, SentenceWayIs
<1>5. Part(b, a, i, 0)
  <2>1. PICK c, l : c = Context /\ l = f.sentences[1].label
    OBVIOUS
  <2>2. c.type = type /\ c.sentences = SentenceLabels /\ c.specifiers = SpecifierLabels
    BY <2>1 DEF Context
  <2>3. ItemOK([op |-> "SJUMP", to |-> l], c) /\ "SJUMP" \in Ops
    BY <1>3, <2>1, <2>2 DEF ItemOK, Ops
  <2>4. Suits(f.label, "SJUMP", c)
    <3>1. "function" \in type[f.label]
      BY <1>1 DEF ModuleInv, Pending
    <3>2. f.label \notin SpecifierLabels
      <4>1. \A x \in SpecifierLabels : x \notin Name
        BY SpecifierIs DEF SpecifierLabels
      <4>2. QED
        BY <1>3, <4>1
    <3>3. QED
      BY <2>2, <3>1, <3>2 DEF Suits
  <2>5. /\ Sound(a) /\ Coded(a, c) /\ Extends(b, a, {f.label})
        /\ Linked(a, f.label, [op |-> "SJUMP", to |-> l])
    <3>1. l \in Label \cup {None} /\ a = Emit(Place(b, f.label), "SJUMP", l) /\ Coded(b, c)
          /\ "extern" \notin b.mode[f.label]
      BY <1>1, <1>3, <2>1
    <3> HIDE DEF a
    <3>2. QED
      BY <1>3, <2>3, <2>4, <3>1, Relabelled
  <2>6. \A k \in DOMAIN f.sentences : ~(k <= 0)
    BY <1>3
  <2>7. {f.label} \cup {f.sentences[k].label : k \in {k \in DOMAIN f.sentences : k <= 0}} = {f.label}
    BY <2>6
  <2> HIDE DEF a
  <2>8. QED
    BY <1>1, <2>1, <2>5, <2>6, <2>7 DEF Part, Begins
<1> HIDE DEF g, a
<1>6. 0 \in K
  BY <1>3, <1>4, <1>5
<1>7. ASSUME NEW n \in 1 .. m, n - 1 \in K PROVE n \in K
  <2>1. Part(b, g[n - 1], i, n - 1)
    BY <1>7
  <2>2. n \in DOMAIN functions[i].sentences /\ g[n] = WriteSentence(g[n - 1], functions[i], n)
    BY <1>1, <1>3, <1>4
  <2>3. Part(b, g[n], i, n)
    BY <1>2, <2>1, <2>2, PartOn
  <2>4. QED
    BY <1>3, <2>3
<1> HIDE DEF K
<1>8. 0 .. m \subseteq K
  BY <1>3, <1>6, <1>7, StepsInSet
<1>9. m \in 0 .. m
  BY <1>3
<1>10. Part(b, g[m], i, m)
  BY <1>8, <1>9 DEF K
<1>11. QED
  BY <1>1, <1>4, <1>10

\* The table when the specifiers are written: other labels are as they were, and every label
\* of a specifier stands for a call of what the specifier is.
SpecifiersWritten(w) ==
    /\ Sound(w) /\ Coded(w, Context)
    /\ \A x \in Label \ SpecifierLabels :
          w.mode[x] = table.mode[x] /\ w.info[x] = table.info[x] /\ Roots(w)[x] = Roots(table)[x]
    /\ \A x \in Label : table.mode[x] \subseteq w.mode[x]
    /\ \A j \in DOMAIN specifiers :
          LET first == FirstEqual(table, j)
          IN  /\ Roots(w)[specifiers[j].label] = specifiers[first].label
              /\ Linked(w, specifiers[first].label, Called(first))

\* specifier_pool_finalize() leaves such a table.
LEMMA SpecifiersAreWritten ==
    ASSUME ModuleInv, Sound(table)
    PROVE  SpecifiersWritten(WriteSpecifiers(table))
<1>1. PICK w, t, m : w = WriteSpecifiers(table) /\ t = MergeSpecifiers(table) /\ m = Len(specifiers)
  OBVIOUS
<1>2. Merged(t, m) /\ Written(t, w, m)
  BY <1>1, WrittenIs
<1> DEFINE W == {specifiers[j].label : j \in {j \in DOMAIN specifiers : j <= m}}
<1>3. Sound(w) /\ Coded(w, Context) /\ Extends(t, w, W) /\ Sound(t)
  BY <1>2 DEF Written, Merged
<1>4. W \subseteq SpecifierLabels
  BY DEF SpecifierLabels
<1> HIDE DEF W
<1>5. Roots(w) = Roots(t)
  BY <1>3, ExtendsRoots
<1>6. ASSUME NEW x \in Label \ SpecifierLabels
      PROVE  w.mode[x] = table.mode[x] /\ w.info[x] = table.info[x] /\ Roots(w)[x] = Roots(table)[x]
  <2>1. x \notin W
    BY <1>4
  <2>2. w.mode[x] = t.mode[x] /\ w.info[x] = t.info[x]
    BY <1>3, <2>1 DEF Extends
  <2>3. t.mode[x] = table.mode[x] /\ t.info[x] = table.info[x] /\ Roots(t)[x] = Roots(table)[x]
    BY <1>2 DEF Merged
  <2>4. QED
    BY <1>5, <2>2, <2>3
<1>7. ASSUME NEW x \in Label PROVE table.mode[x] \subseteq w.mode[x]
  <2>1. table.mode[x] \subseteq t.mode[x]
    BY <1>2 DEF Merged
  <2>2. t.mode[x] \subseteq w.mode[x]
    BY <1>3 DEF Extends
  <2>3. QED
    BY <2>1, <2>2
<1>8. DOMAIN specifiers = 1 .. m /\ m \in Nat
  <2>1. specifiers \in Seq([label : Nat, address : Name])
    BY DEF ModuleInv, Specified
  <2>2. QED
    BY <1>1, <2>1
<1>9. ASSUME NEW j \in DOMAIN specifiers, NEW first, first = FirstEqual(table, j)
      PROVE  /\ Roots(w)[specifiers[j].label] = specifiers[first].label
             /\ Linked(w, specifiers[first].label, Called(first))
  <2>1. first \in DOMAIN specifiers /\ IsFirst(table, first)
    BY <1>9, FirstIs DEF ModuleInv
  <2>2. first <= m /\ j <= m
    BY <1>8, <2>1
  <2>3. Linked(w, specifiers[first].label, Called(first))
    BY <1>2, <2>1, <2>2 DEF Written
  <2>4. CASE IsFirst(table, j)
    <3>1. first = j
      BY <1>9, <2>4 DEF IsFirst
    <3>2. ~IsAlias(w, specifiers[j].label) /\ specifiers[j].label \in Label
      BY <2>3, <3>1, SpecifierIs DEF Linked, IsAlias
    <3>3. Roots(w)[specifiers[j].label] = specifiers[j].label
      BY <1>3, <3>2, ResolveIs DEF Resolves
    <3>4. QED
      BY <2>3, <3>1, <3>3
  <2>5. CASE ~IsFirst(table, j)
    <3>1. Roots(t)[specifiers[j].label] = specifiers[first].label
      BY <1>2, <1>9, <2>2, <2>5 DEF Merged
    <3>2. QED
      BY <1>5, <2>3, <3>1
  <2>6. QED
    BY <2>4, <2>5
<1>10. SpecifiersWritten(w)
  BY <1>3, <1>6, <1>7, <1>9 DEF SpecifiersWritten
<1>11. QED
  BY <1>1, <1>10

\* The functions that are written when the first i of them are; of several functions that
\* have one name it is that of the last.
Finished(w, u, i) ==
    /\ Sound(u) /\ Coded(u, Context)
    /\ Extends(w, u, UNION {Own(j) : j \in {j \in DOMAIN functions : j <= i}})
    /\ \A j \in DOMAIN functions : "extern" \notin u.mode[functions[j].label]
    /\ \A j \in DOMAIN functions : j <= i =>
          /\ (\A k \in j + 1 .. i : functions[k].label # functions[j].label)
                => Linked(u, functions[j].label, Begins(j))
          /\ \A n \in DOMAIN functions[j].sentences :
                \/ IsAlias(w, functions[j].sentences[n].label)
                \/ Linked(u, functions[j].sentences[n].label, Fails(j, n))

\* No sentence belongs to two functions, and none is the name of one.
LEMMA OwnApart ==
    ASSUME ModuleInv, NEW i \in DOMAIN functions
    PROVE  /\ functions[i].label \in Name /\ functions[i].label \in Label
           /\ Own(i) \subseteq Label \ SpecifierLabels
           /\ \A x \in Labels(i) : Kind(table, x) = {} \/ IsAlias(table, x)
           /\ \A j \in DOMAIN functions : functions[j].label \notin Labels(i)
           /\ \A j \in DOMAIN functions : j # i =>
                 Own(i) \cap Labels(j) = {} /\ Own(j) \cap Labels(i) = {}
<1>1. \A j \in DOMAIN functions : functions[j].label \in Name
  <2>1. Pending
    BY DEF ModuleInv
  <2>2. QED
    BY <2>1, FunctionIs
<1>2. \A j \in DOMAIN functions : \A n \in DOMAIN functions[j].sentences :
         /\ functions[j].sentences[n].label \in Label \ SpecifierLabels
         /\ functions[j].sentences[n].label \notin Name
         /\ \/ Kind(table, functions[j].sentences[n].label) = {}
            \/ IsAlias(table, functions[j].sentences[n].label)
  BY SentenceIs
<1>3. functions[i].label \in Label \ SpecifierLabels
  <2>1. \A x \in SpecifierLabels : x \notin Name
    BY SpecifierIs DEF SpecifierLabels
  <2>2. QED
    BY <1>1, <2>1, LabelsAre
<1>4. ASSUME NEW j \in DOMAIN functions, j # i
      PROVE  Own(i) \cap Labels(j) = {} /\ Own(j) \cap Labels(i) = {}
  <2>1. \A n \in DOMAIN functions[i].sentences, k \in DOMAIN functions[j].sentences :
           functions[i].sentences[n].label # functions[j].sentences[k].label
    BY <1>4 DEF ModuleInv, Apart
  <2>2. Labels(i) \cap Labels(j) = {}
    BY <2>1 DEF Labels
  <2>3. functions[i].label \notin Labels(j) /\ functions[j].label \notin Labels(i)
    BY <1>1, <1>2 DEF Labels
  <2>4. QED
    BY <2>2, <2>3 DEF Own
<1>5. QED
  BY <1>1, <1>2, <1>3, <1>4 DEF Own, Labels

\* One more function.
LEMMA FinishedOn ==
    ASSUME ModuleInv, NEW w, NEW u, NEW i \in DOMAIN functions, SpecifiersWritten(w),
           Finished(w, u, i - 1), DOMAIN functions = 1 .. Len(functions), Len(functions) \in Nat
    PROVE  Finished(w, WriteFunction(u, functions[i]), i)
<1>1. PICK v, q : v = WriteFunction(u, functions[i]) /\ q = functions[i].sentences
  OBVIOUS
<1> DEFINE W(h) == UNION {Own(j) : j \in {j \in DOMAIN functions : j <= h}}
<1>2. Sound(u) /\ Coded(u, Context) /\ Extends(w, u, W(i - 1)) /\ u \in Tables
  BY DEF Finished, Sound
<1>3. \A j \in DOMAIN functions : j <= i <=> j <= i - 1 \/ j = i
  <2>1. ASSUME NEW j \in DOMAIN functions PROVE j <= i <=> j <= i - 1 \/ j = i
    <3>1. j \in Nat /\ i \in Nat
      OBVIOUS
    <3>2. QED
      BY <3>1
  <2>2. QED
    BY <2>1
<1>4. W(i) = W(i - 1) \cup Own(i)
  BY <1>3
<1>5. /\ \A x \in Own(i) : x \in Label \ SpecifierLabels
      /\ \A x \in Labels(i) : x \in Own(i) /\ x \notin W(i - 1)
  <2>1. ~(i <= i - 1)
    OBVIOUS
  <2>2. \A j \in DOMAIN functions : j <= i - 1 => j # i
    BY <2>1
  <2>3. QED
    BY <2>2, OwnApart DEF Own
<1> HIDE DEF W
<1>6. ASSUME NEW x \in Labels(i) PROVE Kind(u, x) = Kind(table, x)
  <2>1. u.mode[x] = w.mode[x]
    BY <1>2, <1>5 DEF Extends
  <2>2. w.mode[x] = table.mode[x]
    BY <1>5 DEF SpecifiersWritten
  <2>3. QED
    BY <2>1, <2>2 DEF Kind
<1>7. Part(u, v, i, Len(q))
  <2>1. "extern" \notin u.mode[functions[i].label]
    BY DEF Finished
  <2>2. \A x \in Labels(i) : Kind(u, x) = {} \/ IsAlias(u, x)
    BY <1>6, OwnApart DEF IsAlias
  <2>3. QED
    BY <1>1, <1>2, <2>1, <2>2, FunctionWritten
<1>8. DOMAIN q = 1 .. Len(q) /\ Len(q) \in Nat
  BY <1>1, <1>2, SentenceWrites
<1>9. \A n \in DOMAIN q : n <= Len(q)
  BY <1>8
<1>10. /\ Sound(v) /\ Coded(v, Context) /\ Extends(u, v, Own(i))
       /\ Linked(v, functions[i].label, Begins(i))
       /\ \A n \in DOMAIN q : IsAlias(u, q[n].label) \/ Linked(v, q[n].label, Fails(i, n))
  <2>1. {functions[i].label} \cup {q[k].label : k \in {k \in DOMAIN q : k <= Len(q)}} = Own(i)
    BY <1>1, <1>9 DEF Own, Labels
  <2>2. QED
    BY <1>1, <1>7, <1>9, <2>1 DEF Part
<1>11. Extends(w, v, W(i))
  <2>1. w \in Tables
    BY DEF SpecifiersWritten, Sound
  <2>2. QED
    BY <1>2, <1>4, <1>10, <2>1, ExtendsOn
<1>12. ASSUME NEW j \in DOMAIN functions, j <= i
       PROVE  /\ (\A k \in j + 1 .. i : functions[k].label # functions[j].label)
                    => Linked(v, functions[j].label, Begins(j))
              /\ \A n \in DOMAIN functions[j].sentences :
                    \/ IsAlias(w, functions[j].sentences[n].label)
                    \/ Linked(v, functions[j].sentences[n].label, Fails(j, n))
  <2>1. CASE j = i
    <3>1. \A n \in DOMAIN q : IsAlias(u, q[n].label) => IsAlias(w, q[n].label)
      <4>1. \A n \in DOMAIN q : q[n].label \in Label
        BY <1>1, <1>5 DEF Labels
      <4>2. QED
        BY <1>2, <4>1 DEF Extends
    <3>2. QED
      BY <1>1, <1>10, <2>1, <3>1
  <2>2. CASE j # i
    <3>1. j <= i - 1
      BY <1>3, <1>12, <2>2
    <3>2. /\ (\A k \in j + 1 .. i - 1 : functions[k].label # functions[j].label)
                => Linked(u, functions[j].label, Begins(j))
          /\ \A n \in DOMAIN functions[j].sentences :
                    \/ IsAlias(w, functions[j].sentences[n].label)
                    \/ Linked(u, functions[j].sentences[n].label, Fails(j, n))
      BY <3>1 DEF Finished
    <3>3. \A n \in DOMAIN functions[j].sentences :
             functions[j].sentences[n].label \in Label \ Own(i)
      <4>1. Own(j) \subseteq Label /\ Own(i) \cap Labels(j) = {}
        BY <2>2, OwnApart
      <4>2. QED
        BY <4>1 DEF Own, Labels
    <3>4. ASSUME \A k \in j + 1 .. i : functions[k].label # functions[j].label
          PROVE  Linked(v, functions[j].label, Begins(j))
      <4>1. j \in Nat /\ i \in Nat
        OBVIOUS
      <4>2. i \in j + 1 .. i /\ j + 1 .. i - 1 \subseteq j + 1 .. i
        BY <3>1, <4>1
      <4>3. Linked(u, functions[j].label, Begins(j)) /\ functions[j].label # functions[i].label
        BY <3>2, <3>4, <4>2
      <4>4. functions[j].label \in Label \ Own(i)
        BY <4>3, OwnApart DEF Own
      <4>5. QED
        BY <1>10, <4>3, <4>4, LinkedStays
    <3>5. QED
      BY <1>10, <3>2, <3>3, <3>4, LinkedStays
  <2>3. QED
    BY <2>1, <2>2
<1>13. ASSUME NEW j \in DOMAIN functions PROVE "extern" \notin v.mode[functions[j].label]
  <2>1. CASE functions[j].label = functions[i].label
    BY <1>10, <2>1 DEF Linked, Kind
  <2>2. CASE functions[j].label # functions[i].label
    <3>1. functions[j].label \in Label \ Own(i)
      BY <2>2, OwnApart DEF Own
    <3>2. v.mode[functions[j].label] = u.mode[functions[j].label]
      BY <1>10, <3>1 DEF Extends
    <3>3. QED
      BY <3>2 DEF Finished
  <2>3. QED
    BY <2>1, <2>2
<1>14. Finished(w, v, i)
  BY <1>10, <1>11, <1>12, <1>13 DEF Finished, W
<1>15. QED
  BY <1>1, <1>14

\* The functions are written one after the other.
FunctionSteps(t, g) ==
    g = [i \in 0 .. Len(functions) |-> IF i = 0 THEN t ELSE WriteFunction(g[i - 1], functions[i])]
FunctionWay(t) == CHOOSE g : FunctionSteps(t, g)

\* The way from one function to the next.
LEMMA FunctionWayIs ==
    ASSUME ModuleInv, NEW t \in Tables, DOMAIN functions = 1 .. Len(functions),
           Len(functions) \in Nat
    PROVE  /\ WriteFunctions(t) = FunctionWay(t)[Len(functions)] /\ FunctionWay(t)[0] = t
           /\ \A i \in 1 .. Len(functions) :
                 FunctionWay(t)[i] = WriteFunction(FunctionWay(t)[i - 1], functions[i])
<1> DEFINE m == Len(functions)
           F == [i \in 1 .. m |-> [u \in Tables |-> WriteFunction(u, functions[i])]]
           g == FunctionWay(t)
<1>1. ASSUME NEW i \in 1 .. m, NEW u \in Tables PROVE WriteFunction(u, functions[i]) \in Tables
  <2>1. PICK f, k, h : f = functions[i] /\ k = Len(f.sentences) /\ h = SentenceWay(u, f)
    OBVIOUS
  <2>2. /\ DOMAIN f.sentences = 1 .. k /\ k \in Nat
        /\ Emit(Place(u, f.label), "SJUMP", f.sentences[1].label) \in Tables
    BY <2>1, SentenceWrites
  <2>3. /\ WriteFunction(u, f) = h[k]
        /\ h[0] = Emit(Place(u, f.label), "SJUMP", f.sentences[1].label)
        /\ \A n \in 1 .. k : h[n] = WriteSentence(h[n - 1], f, n)
    <3>1. /\ WriteFunction(u, f) = SentenceWay(u, f)[Len(f.sentences)]
          /\ SentenceWay(u, f)[0] = Emit(Place(u, f.label), "SJUMP", f.sentences[1].label)
          /\ \A n \in 1 .. Len(f.sentences) :
                SentenceWay(u, f)[n] = WriteSentence(SentenceWay(u, f)[n - 1], f, n)
      BY <2>1, SentenceWayIs
    <3>2. QED
      BY <2>1, <3>1
  <2>4. \A z \in Tables : \A n \in 1 .. k : WriteSentence(z, f, n) \in Tables
    BY <2>1, <2>2, SentenceWrites
  <2> DEFINE K == {n \in 0 .. k : h[n] \in Tables}
  <2>5. 0 \in K
    BY <2>2, <2>3
  <2>6. \A n \in 1 .. k : n - 1 \in K => n \in K
    <3>1. \A n \in 1 .. k : n \in 0 .. k
      BY <2>2
    <3>2. QED
      BY <2>3, <2>4, <3>1
  <2> HIDE DEF K
  <2>7. 0 .. k \subseteq K
    BY <2>2, <2>5, <2>6, StepsInSet
  <2>8. k \in 0 .. k
    BY <2>2
  <2>9. h[k] \in Tables
    BY <2>7, <2>8 DEF K
  <2>10. QED
    BY <2>1, <2>3, <2>9
<1>2. F \in [1 .. m -> [Tables -> Tables]]
  BY <1>1
<1>3. \A i \in 1 .. m : \A u \in Tables : F[i][u] = WriteFunction(u, functions[i])
  OBVIOUS
<1>4. m \in Nat
  OBVIOUS
<1> HIDE DEF m, F
<1>5. PICK h : Stepping(h, Tables, m, F, t)
  BY <1>2, <1>4, StepsExist
<1>6. FunctionSteps(t, h)
  <2>1. h \in [0 .. m -> Tables] /\ h[0] = t /\ \A i \in 1 .. m : h[i] = F[i][h[i - 1]]
    BY <1>5 DEF Stepping
  <2>2. ASSUME NEW i \in 1 .. m PROVE h[i] = WriteFunction(h[i - 1], functions[i])
    <3>1. i - 1 \in 0 .. m
      BY <1>4
    <3>2. QED
      BY <1>3, <2>1, <3>1
  <2>3. \A i \in 0 .. m : i # 0 => i \in 1 .. m
    BY <1>4
  <2>4. h = [i \in 0 .. m |-> IF i = 0 THEN t ELSE WriteFunction(h[i - 1], functions[i])]
    BY <2>1, <2>2, <2>3
  <2>5. QED
    BY <2>4 DEF FunctionSteps, m
<1>7. FunctionSteps(t, g)
  BY <1>6 DEF FunctionWay
<1>8. g[0] = t /\ \A i \in 1 .. m : g[i] = WriteFunction(g[i - 1], functions[i])
  <2>1. PICK y : y = g
    OBVIOUS
  <2>2. y = [i \in 0 .. m |-> IF i = 0 THEN t ELSE WriteFunction(y[i - 1], functions[i])]
    BY <1>7, <2>1 DEF FunctionSteps, m
  <2>3. 0 \in 0 .. m /\ \A i \in 1 .. m : i \in 0 .. m /\ i # 0
    BY <1>4
  <2> HIDE DEF g
  <2>4. y[0] = t /\ \A i \in 1 .. m : y[i] = WriteFunction(y[i - 1], functions[i])
    BY <2>2, <2>3
  <2>5. QED
    BY <2>1, <2>4
<1>9. WriteFunctions(t) = g[m]
  BY DEF WriteFunctions, FunctionWay, FunctionSteps, m
<1>10. QED
  BY <1>8, <1>9 DEF m

\* The table when the module is written.
LEMMA ModuleWritten ==
    ASSUME ModuleInv, Sound(table), ~Misled, NEW w, w = WriteSpecifiers(table)
    PROVE  /\ SpecifiersWritten(w) /\ Finished(w, WriteFunctions(w), Len(functions))
           /\ DOMAIN functions = 1 .. Len(functions) /\ Len(functions) \in Nat
<1>1. SpecifiersWritten(w)
  BY SpecifiersAreWritten
<1>2. PICK m : m = Len(functions)
  OBVIOUS
<1>3. m \in Nat /\ DOMAIN functions = 1 .. m
  <2>1. functions \in Seq([label : Name, sentences : Seq(Sentence)])
    BY DEF ModuleInv, Pending
  <2>2. PICK S : functions \in Seq(S)
    BY <2>1
  <2>3. QED
    BY <1>2, <2>2
<1> DEFINE g == FunctionWay(w)
           K == {i \in 0 .. m : Finished(w, g[i], i)}
<1>4. Sound(w) /\ Coded(w, Context) /\ w \in Tables
  BY <1>1 DEF SpecifiersWritten, Sound
<1>5. /\ WriteFunctions(w) = g[m] /\ g[0] = w
      /\ \A i \in 1 .. m : g[i] = WriteFunction(g[i - 1], functions[i])
  BY <1>2, <1>3, <1>4, FunctionWayIs
<1> HIDE DEF g
<1>6. 0 \in K
  <2>1. \A j \in DOMAIN functions : ~(j <= 0)
    BY <1>3
  <2>2. UNION {Own(j) : j \in {j \in DOMAIN functions : j <= 0}} = {}
    BY <2>1
  <2>3. Extends(w, w, {})
    BY <1>4, ExtendsNot
  <2>4. ASSUME NEW j \in DOMAIN functions PROVE "extern" \notin w.mode[functions[j].label]
    <3>1. functions[j].label \in Label \ SpecifierLabels
      BY OwnApart DEF Own
    <3>2. w.mode[functions[j].label] = table.mode[functions[j].label]
      BY <1>1, <3>1 DEF SpecifiersWritten
    <3>3. QED
      BY <3>2 DEF Misled, Range
  <2>5. Finished(w, w, 0)
    BY <1>4, <2>1, <2>2, <2>3, <2>4 DEF Finished
  <2>6. QED
    BY <1>3, <1>5, <2>5
<1>7. ASSUME NEW i \in 1 .. m, i - 1 \in K PROVE i \in K
  <2>1. Finished(w, g[i - 1], i - 1)
    BY <1>7
  <2>2. Finished(w, WriteFunction(g[i - 1], functions[i]), i)
    BY <1>1, <1>2, <1>3, <2>1, FinishedOn
  <2>3. QED
    BY <1>3, <1>5, <2>2
<1> HIDE DEF K
<1>8. 0 .. m \subseteq K
  BY <1>3, <1>6, <1>7, StepsInSet
<1>9. m \in 0 .. m
  BY <1>3
<1>10. Finished(w, g[m], m)
  BY <1>8, <1>9 DEF K
<1>11. QED
  BY <1>1, <1>2, <1>3, <1>5, <1>10

\* The table of the written module: names mean what they meant before, and every label of
\* the pools has its place.
Final(u) ==
    /\ Sound(u) /\ Coded(u, Context)
    /\ \A x \in Label \ SpecifierLabels : Roots(u)[x] = Roots(table)[x]
    /\ \A x \in Label : table.mode[x] \subseteq u.mode[x]
    /\ \A j \in DOMAIN specifiers :
          LET first == FirstEqual(table, j)
          IN  /\ Roots(u)[specifiers[j].label] = specifiers[first].label
              /\ Linked(u, specifiers[first].label, Called(first))
    /\ \A j \in DOMAIN functions :
          /\ "extern" \notin u.mode[functions[j].label]
          /\ IsLatest(j) => Linked(u, functions[j].label, Begins(j))
          /\ \A n \in DOMAIN functions[j].sentences :
                \/ IsAlias(table, functions[j].sentences[n].label)
                \/ Linked(u, functions[j].sentences[n].label, Fails(j, n))

\* The two pools leave such a table.
LEMMA FinalIs ==
    ASSUME ModuleInv, Sound(table), ~Misled
    PROVE  Final(WriteFunctions(WriteSpecifiers(table)))
<1>1. PICK w, u, m : w = WriteSpecifiers(table) /\ u = WriteFunctions(w) /\ m = Len(functions)
  OBVIOUS
<1>2. /\ SpecifiersWritten(w) /\ Finished(w, u, m)
      /\ DOMAIN functions = 1 .. m /\ m \in Nat
  BY <1>1, ModuleWritten
<1> DEFINE W == UNION {Own(j) : j \in {j \in DOMAIN functions : j <= m}}
<1>3. Sound(u) /\ Coded(u, Context) /\ Extends(w, u, W) /\ Sound(w)
  BY <1>2 DEF Finished, SpecifiersWritten
<1>4. W \cap SpecifierLabels = {}
  BY OwnApart
<1> HIDE DEF W
<1>5. Roots(u) = Roots(w)
  BY <1>3, ExtendsRoots
<1>6. \A x \in Label \ SpecifierLabels : Roots(u)[x] = Roots(table)[x]
  BY <1>2, <1>5 DEF SpecifiersWritten
<1>7. \A x \in Label : table.mode[x] \subseteq u.mode[x]
  <2>1. \A x \in Label : table.mode[x] \subseteq w.mode[x]
    BY <1>2 DEF SpecifiersWritten
  <2>2. \A x \in Label : w.mode[x] \subseteq u.mode[x]
    BY <1>3 DEF Extends
  <2>3. QED
    BY <2>1, <2>2
<1>8. ASSUME NEW j \in DOMAIN specifiers, NEW first, first = FirstEqual(table, j)
      PROVE  /\ Roots(u)[specifiers[j].label] = specifiers[first].label
             /\ Linked(u, specifiers[first].label, Called(first))
  <2>1. /\ Roots(w)[specifiers[j].label] = specifiers[first].label
        /\ Linked(w, specifiers[first].label, Called(first))
    BY <1>2, <1>8 DEF SpecifiersWritten
  <2>2. first \in DOMAIN specifiers
    BY <1>8, FirstIs DEF ModuleInv
  <2>3. specifiers[first].label \in Label \ W
    BY <1>4, <2>2, SpecifierIs
  <2>4. Linked(u, specifiers[first].label, Called(first))
    BY <1>3, <2>1, <2>3, LinkedStays
  <2>5. QED
    BY <1>5, <2>1, <2>4
<1>9. ASSUME NEW j \in DOMAIN functions
      PROVE  /\ "extern" \notin u.mode[functions[j].label]
             /\ IsLatest(j) => Linked(u, functions[j].label, Begins(j))
             /\ \A n \in DOMAIN functions[j].sentences :
                   \/ IsAlias(table, functions[j].sentences[n].label)
                   \/ Linked(u, functions[j].sentences[n].label, Fails(j, n))
  <2>1. j <= m
    BY <1>2
  <2>2. /\ "extern" \notin u.mode[functions[j].label]
        /\ IsLatest(j) => Linked(u, functions[j].label, Begins(j))
        /\ \A n \in DOMAIN functions[j].sentences :
                   \/ IsAlias(w, functions[j].sentences[n].label)
                   \/ Linked(u, functions[j].sentences[n].label, Fails(j, n))
    BY <1>1, <1>2, <2>1 DEF Finished, IsLatest
  <2>3. ASSUME NEW n \in DOMAIN functions[j].sentences,
               IsAlias(w, functions[j].sentences[n].label)
        PROVE  IsAlias(table, functions[j].sentences[n].label)
    <3>1. functions[j].sentences[n].label \in Label \ SpecifierLabels
      BY SentenceIs
    <3>2. w.mode[functions[j].sentences[n].label] = table.mode[functions[j].sentences[n].label]
      BY <1>2, <3>1 DEF SpecifiersWritten
    <3>3. QED
      BY <2>3, <3>2 DEF IsAlias, Kind
  <2>4. QED
    BY <2>2, <2>3
<1>10. Final(u)
  BY <1>3, <1>6, <1>7, <1>8, <1>9 DEF Final
<1>11. QED
  BY <1>1, <1>10

\* A name of an accepted module is something that was described, and entry points are inside.
LEMMA UsedIs ==
    ASSUME ModuleInv, Sound(table), NEW u, Final(u), \A x \in used : ~IsFaulty(u, x),
           NEW n \in used
    PROVE  /\ n \in Label /\ Roots(u)[n] \in Name /\ Roots(u)[n] = Roots(table)[n]
           /\ type[Roots(u)[n]] \subseteq Kinds /\ type[Roots(u)[n]] # Kinds
           /\ Kind(u, Roots(u)[n]) = {"placed"} \/ Kind(u, Roots(u)[n]) = {"extern"}
           /\ "entry" \in table.mode[n] => Kind(u, Roots(u)[n]) = {"placed"}
<1>1. PICK r : r = Roots(u)[n]
  OBVIOUS
<1>2. n \in Name /\ n \in Label /\ Typing /\ Named
  BY LabelsAre DEF ModuleInv, Typing
<1>3. n \notin SpecifierLabels
  BY <1>2, SpecifierIs DEF SpecifierLabels
<1>4. r = Roots(table)[n] /\ r = Resolve(u, n)
  BY <1>1, <1>2, <1>3 DEF Final, Roots
<1>5. r \in Name /\ r \in used /\ r \in Label
  BY <1>2, <1>4, LabelsAre DEF Named
<1>6. ~IsAlias(u, r)
  BY <1>1, <1>2, ResolveIs DEF Final
<1>7. ~IsFaulty(u, n) /\ ~IsFaulty(u, r)
  BY <1>5
<1>8. Kind(u, r) # {} /\ type[r] # {"function", "specifier"}
      /\ ~("entry" \in u.mode[n] /\ Kind(u, r) = {"extern"})
  BY <1>4, <1>7 DEF IsFaulty
<1>9. Kind(u, r) = {"placed"} \/ Kind(u, r) = {"extern"}
  <2>1. Kind(u, r) \subseteq {"placed", "extern"} /\ Kind(u, r) # {"placed", "extern"}
    BY <1>6 DEF IsAlias, Kind
  <2>2. QED
    BY <1>8, <2>1
<1>10. "entry" \in table.mode[n] => "entry" \in u.mode[n]
  BY <1>2 DEF Final
<1>11. type[r] \subseteq Kinds /\ type[r] # Kinds
  BY <1>2, <1>5, <1>8 DEF Typing, Kinds
<1>12. QED
  BY <1>1, <1>2, <1>4, <1>5, <1>8, <1>9, <1>10, <1>11

\* A label that an operator stands behind is its own meaning.
LEMMA LinkedRoot ==
    ASSUME NEW u, Sound(u), NEW l \in Label, NEW item, Linked(u, l, item)
    PROVE  Roots(u)[l] = l
<1>1. ~IsAlias(u, l)
  BY DEF Linked, IsAlias
<1>2. QED
  BY <1>1, ResolveIs DEF Resolves

\* A sentence that fails leads to the next one, and the last one to the common end.
LEMMA SentenceFails ==
    ASSUME ModuleInv, Sound(table), errors = 0, NEW u, Final(u), NEW i \in DOMAIN functions,
           NEW n \in DOMAIN functions[i].sentences, NEW l, l = functions[i].sentences[n].label
    PROVE  Linked(u, Roots(u)[l], Fails(i, n))
<1>1. /\ l \in Label /\ l \notin SpecifierLabels /\ l \in 1 .. MaxInfo
  BY SentenceIs
<1>2. Sound(u)
  BY DEF Final
<1>3. CASE ~IsAlias(table, l)
  <2>1. Linked(u, l, Fails(i, n))
    BY <1>3 DEF Final
  <2>2. QED
    BY <1>1, <1>2, <2>1, LinkedRoot
<1>4. CASE IsAlias(table, l)
  <2>1. fail # None /\ Roots(table)[l] = fail
    <3>1. Kind(table, l) # {}
      BY <1>4 DEF IsAlias
    <3>2. QED
      BY <1>1, <3>1, RootsApart
  <2>2. Roots(u)[l] = fail
    BY <1>1, <2>1 DEF Final
  <2>3. Nameless /\ FirstFails /\ Pending
    BY DEF ModuleInv
  <2>4. 1 \in DOMAIN functions
    <3>1. functions \in Seq([label : Name, sentences : Seq(Sentence)])
      BY <2>3 DEF Pending
    <3>2. PICK S : functions \in Seq(S)
      BY <3>1
    <3>3. QED
      BY <3>2
  <2>5. functions # <<>>
    BY <2>4
  <2>6. PICK q, m : q = functions[1].sentences /\ m = Len(q)
    OBVIOUS
  <2>7. fail = q[m].label
    BY <2>3, <2>5, <2>6 DEF FirstFails
  <2>8. m \in DOMAIN q
    BY <2>3, <2>4, <2>6, FunctionIs
  <2>9. ~IsAlias(table, fail)
    BY <2>1, <2>3 DEF Nameless, IsAlias
  <2>10. Linked(u, fail, Fails(1, m))
    BY <2>4, <2>6, <2>7, <2>8, <2>9 DEF Final
  <2>11. Fails(1, m) = [op |-> "FAIL", to |-> None]
    <3>1. m \in Nat
      BY <2>3, <2>4, <2>6, FunctionIs
    <3>2. ~(m < m)
      BY <3>1
    <3>3. QED
      BY <2>6, <3>2 DEF Fails
  <2>12. n = Len(functions[i].sentences)
    <3>1. Kind(table, l) # {}
      BY <1>4 DEF IsAlias
    <3>2. QED
      BY <2>3, <3>1 DEF Pending
  <2>13. Fails(i, n) = [op |-> "FAIL", to |-> None]
    <3>1. n \in Nat
      BY <2>3, <2>12, FunctionIs
    <3>2. ~(n < n)
      BY <3>1
    <3>3. QED
      BY <2>12, <3>2 DEF Fails
  <2>14. QED
    BY <2>2, <2>10, <2>11, <2>13
<1>5. QED
  BY <1>3, <1>4

\* Every address that is written leads to a place in the code or to an external reference.
\* A call leads to a function and the name of a specifier to a specifier.
Leads(u, l) ==
    LET root == Roots(u)[l]
    IN  \/ Kind(u, root) = {"placed"} /\ u.info[root].value \in DOMAIN u.code
        \/ Kind(u, root) = {"extern"} /\ u.info[root].value \in DOMAIN externs
Meets(u, item) ==
    LET root == Roots(u)[item.to]
        met == u.code[u.info[root].value].op
    IN  Kind(u, root) = {"placed"} =>
            /\ item.op = "BLF" => met \in {"SJUMP", "EMPTY", "SWAP"}
            /\ item.op \in {"WSPC", "CLL"} => met \in {"SPEC", "CLL"}

\* So it is with every address of an accepted module.
LEMMA CodeLeads ==
    ASSUME ModuleInv, Sound(table), errors = 0, NEW u, Final(u), \A x \in used : ~IsFaulty(u, x),
           NEW i \in DOMAIN u.code, u.code[i].to # None
    PROVE  u.code[i].to \in Label /\ Leads(u, u.code[i].to) /\ Meets(u, u.code[i])
<1>1. PICK item, c : item = u.code[i] /\ c = Context
  OBVIOUS
<1>2. /\ c.used = used /\ c.type = type /\ c.root = Roots(table) /\ c.externs = Len(externs)
      /\ c.specifiers = SpecifierLabels /\ c.sentences = SentenceLabels
  BY <1>1 DEF Context
<1>3. Sound(u) /\ Coded(u, c) /\ u \in Tables
  BY <1>1 DEF Final, Sound
<1>4. item \in Item /\ item.to \in Label /\ item.op \in Ops
  <2>1. item \in Item
    BY <1>1, <1>3, CodeIs
  <2>2. QED
    BY <1>1, <2>1 DEF Item
<1>5. ItemOK(item, c)
  BY <1>1, <1>3 DEF Coded
<1>6. CASE item.op \in {"CLL", "BLF"}
  <2>1. item.to \in used
    BY <1>2, <1>5, <1>6 DEF ItemOK
  <2>2. PICK r : r = Roots(u)[item.to]
    OBVIOUS
  <2>3. /\ r \in Name /\ r = Roots(table)[item.to] /\ type[r] \subseteq Kinds /\ type[r] # Kinds
        /\ Kind(u, r) = {"placed"} \/ Kind(u, r) = {"extern"}
    BY <2>1, <2>2, UsedIs
  <2>4. r \in Label
    BY <2>3, LabelsAre
  <2>5. /\ item.op = "CLL" => "specifier" \in type[r]
        /\ item.op = "BLF" => "function" \in type[r]
    BY <1>2, <1>5, <2>3 DEF ItemOK
  <2>6. CASE Kind(u, r) = {"placed"}
    <3>1. PlacedOK(u, r, c)
      BY <1>3, <2>4, <2>6 DEF Coded
    <3>2. PICK op : op = u.code[u.info[r].value].op
      OBVIOUS
    <3>3. /\ u.info[r].value \in DOMAIN u.code
          /\ \/ op \in {"EMPTY", "SWAP", "SJUMP"} /\ "function" \in type[r]
             \/ op \in {"SPEC", "CLL"} /\ "specifier" \in type[r]
      BY <1>2, <2>3, <3>1, <3>2 DEF PlacedOK, Suits
    <3>4. ~("function" \in type[r] /\ "specifier" \in type[r])
      BY <2>3 DEF Kinds
    <3>5. Leads(u, item.to)
      BY <2>2, <2>6, <3>3 DEF Leads
    <3>6. /\ item.op = "BLF" => op \in {"SJUMP", "EMPTY", "SWAP"}
          /\ item.op \in {"WSPC", "CLL"} => op \in {"SPEC", "CLL"}
      BY <1>6, <2>5, <3>3, <3>4
    <3>7. Meets(u, item)
      BY <2>2, <3>2, <3>6 DEF Meets
    <3>8. QED
      BY <1>1, <1>4, <3>5, <3>7
  <2>7. CASE Kind(u, r) = {"extern"}
    <3>1. ExternOK(u, r, c)
      BY <1>3, <2>4, <2>7 DEF Coded
    <3>2. externs \in Seq(External)
      BY DEF ModuleInv, Typing
    <3>3. u.info[r].value \in DOMAIN externs
      BY <1>2, <3>1, <3>2 DEF ExternOK
    <3>4. Leads(u, item.to)
      BY <2>2, <2>7, <3>3 DEF Leads
    <3>5. Meets(u, item)
      BY <2>2, <2>7 DEF Meets
    <3>6. QED
      BY <1>1, <1>4, <3>4, <3>5
  <2>8. QED
    BY <2>3, <2>6, <2>7
<1>7. CASE item.op = "WSPC"
  <2>1. item.to \in SpecifierLabels
    BY <1>2, <1>5, <1>7 DEF ItemOK
  <2>2. PICK j \in DOMAIN specifiers : item.to = specifiers[j].label
    BY <2>1 DEF SpecifierLabels
  <2>3. PICK first, r : first = FirstEqual(table, j) /\ r = specifiers[first].label
    OBVIOUS
  <2>4. Roots(u)[item.to] = r /\ Linked(u, r, Called(first))
    BY <2>2, <2>3 DEF Final
  <2>5. /\ Kind(u, r) = {"placed"} /\ u.info[r].value \in DOMAIN u.code
        /\ u.code[u.info[r].value].op = "CLL"
    BY <2>4 DEF Linked, Called
  <2>6. Leads(u, item.to) /\ Meets(u, item)
    BY <1>7, <2>4, <2>5 DEF Leads, Meets
  <2>7. QED
    BY <1>1, <1>4, <2>6
<1>8. CASE item.op = "SJUMP"
  <2>1. item.to \in SentenceLabels
    BY <1>2, <1>5, <1>8 DEF ItemOK
  <2>2. PICK j \in DOMAIN functions : \E n \in DOMAIN functions[j].sentences :
                                         item.to = functions[j].sentences[n].label
    BY <2>1 DEF SentenceLabels
  <2>3. PICK n \in DOMAIN functions[j].sentences : item.to = functions[j].sentences[n].label
    BY <2>2
  <2>4. Linked(u, Roots(u)[item.to], Fails(j, n))
    BY <2>3, SentenceFails
  <2>5. Leads(u, item.to) /\ Meets(u, item)
    BY <1>8, <2>4 DEF Leads, Meets, Linked
  <2>6. QED
    BY <1>1, <1>4, <2>5
<1>9. CASE item.op \in {"EMPTY", "SWAP", "SPEC", "FAIL"}
  BY <1>1, <1>5, <1>9 DEF ItemOK
<1>10. QED
  BY <1>4, <1>6, <1>7, <1>8, <1>9 DEF Ops

\* Equal specifiers are shared by what they mean.
LEMMA SpecifierMeans ==
    ASSUME ModuleInv, Sound(table), NEW u, Final(u), NEW i \in DOMAIN specifiers
    PROVE  LET item == u.code[u.info[Roots(u)[specifiers[i].label]].value]
           IN  /\ item.op = "CLL" /\ item.to \in Label /\ specifiers[i].address \in Label
               /\ Roots(u)[item.to] = Roots(u)[specifiers[i].address]
<1>1. PICK first, l, a, b : /\ first = FirstEqual(table, i) /\ l = specifiers[first].label
                            /\ a = SpecifierAddress(table, first) /\ b = specifiers[i].address
  OBVIOUS
<1>2. Roots(u)[specifiers[i].label] = l /\ Linked(u, l, Called(first))
  BY <1>1 DEF Final
<1>3. first \in DOMAIN specifiers /\ a = SpecifierAddress(table, i)
  BY <1>1, FirstIs DEF ModuleInv
<1>4. /\ a \in Name /\ a \in Label /\ b \in Name /\ a = Roots(table)[b] /\ b \in Label
  BY <1>1, <1>3, AddressIs, SpecifierIs, LabelsAre
<1>5. a \notin SpecifierLabels /\ b \notin SpecifierLabels
  <2>1. \A x \in SpecifierLabels : x \notin Name
    BY SpecifierIs DEF SpecifierLabels
  <2>2. QED
    BY <1>4, <2>1
<1>6. Roots(table)[a] = a
  BY <1>1, <1>4, RootIs
<1>7. Roots(u)[a] = a /\ Roots(u)[b] = a
  BY <1>4, <1>5, <1>6 DEF Final
<1>8. u.code[u.info[l].value] = [op |-> "CLL", to |-> a]
  BY <1>1, <1>2 DEF Linked, Called
<1>9. QED
  BY <1>1, <1>2, <1>4, <1>7, <1>8

\* The end of a module that has no errors and misled no name.
LEMMA WrittenStep ==
    ASSUME ModuleInv, Sound(table), ~Misled, errors = 0, End
    PROVE  /\ Final(table') /\ phase' \in {"accepted", "rejected"}
           /\ phase' = "accepted" => \A x \in used : ~IsFaulty(table', x)
<1>1. PICK u : u = table'
  OBVIOUS
<1>2. Final(u) /\ Sound(u) /\ u \in Tables
  <2>1. u = WriteFunctions(WriteSpecifiers(table))
    BY <1>1 DEF End
  <2>2. QED
    BY <2>1, FinalIs DEF Final, Sound
<1> DEFINE L == used \cup (({u.code[i].to : i \in DOMAIN u.code} \ {None})
                              \cup {entries[i].label : i \in DOMAIN entries})
<1>3. L \subseteq Label
  <2>1. used \subseteq Label
    BY LabelsAre DEF ModuleInv, Typing
  <2>2. \A i \in DOMAIN u.code : u.code[i].to \in Label \cup {None}
    BY <1>2, CodeIs DEF Item
  <2>3. \A i \in DOMAIN entries : entries[i].label \in used
    BY DEF ModuleInv, Entered
  <2>4. QED
    BY <2>1, <2>2, <2>3
<1>4. \A l \in L : Resolve(u, l) # Wild
  <2>1. \A l \in Label : Resolve(u, l) = Roots(u)[l]
    BY DEF Roots
  <2>2. Roots(u) \in [Label -> Label]
    BY <1>2, ResolveIs
  <2> HIDE DEF L
  <2>3. QED
    BY <1>3, <2>1, <2>2, LabelsAre
<1>5. phase' = IF \E l \in L : Resolve(u, l) = Wild THEN "crashed"
               ELSE IF errors # 0 \/ \E n \in used : IsFaulty(u, n) THEN "rejected"
               ELSE "accepted"
  BY <1>1 DEF End
<1>6. QED
  BY <1>1, <1>2, <1>4, <1>5

\* In a module that is accepted the code is linked.
LEMMA LinkedStep ==
    ASSUME ModuleInv, Sound(table), errors = 0, UNCHANGED <<functions, specifiers, entries, externs>>,
           Final(table'), \A x \in used : ~IsFaulty(table', x)
    PROVE  CodeLinked' /\ KindsChecked'
<1>1. PICK u : u = table'
  OBVIOUS
<1>2. Final(u) /\ Sound(u) /\ \A x \in used : ~IsFaulty(u, x)
  BY <1>1 DEF Final
<1>3. \A l \in Label : Resolve(u, l) = Roots(u)[l]
  BY DEF Roots
<1> DEFINE To(l) == u.code[u.info[Resolve(u, l)].value]
<1>4. ASSUME NEW i \in DOMAIN u.code, u.code[i].to # None, NEW root, root = Resolve(u, u.code[i].to)
      PROVE  CASE Kind(u, root) = {"placed"} -> u.info[root].value \in DOMAIN u.code
               [] Kind(u, root) = {"extern"} -> u.info[root].value \in DOMAIN externs
               [] OTHER -> FALSE
  <2>1. u.code[i].to \in Label /\ Leads(u, u.code[i].to)
    BY <1>2, <1>4, CodeLeads
  <2>2. root = Roots(u)[u.code[i].to]
    BY <1>3, <1>4, <2>1
  <2>3. \/ Kind(u, root) = {"placed"} /\ u.info[root].value \in DOMAIN u.code
        \/ Kind(u, root) = {"extern"} /\ u.info[root].value \in DOMAIN externs
    BY <2>1, <2>2 DEF Leads
  <2>4. {"placed"} # {"extern"}
    OBVIOUS
  <2>5. QED
    BY <2>3, <2>4
<1>5. ASSUME NEW j \in DOMAIN functions
      PROVE  /\ IsLatest(j) => To(functions[j].label) =
                    [op |-> "SJUMP", to |-> functions[j].sentences[1].label]
             /\ \A n \in DOMAIN functions[j].sentences :
                   To(functions[j].sentences[n].label) =
                       IF n = Len(functions[j].sentences) THEN [op |-> "FAIL", to |-> None]
                       ELSE [op |-> "SJUMP", to |-> functions[j].sentences[n + 1].label]
  <2>1. functions[j].label \in Label
    BY OwnApart
  <2>2. ASSUME IsLatest(j) PROVE To(functions[j].label) = Begins(j)
    <3>1. Linked(u, functions[j].label, Begins(j))
      BY <1>2, <2>2 DEF Final
    <3>2. Resolve(u, functions[j].label) = functions[j].label
      BY <1>2, <1>3, <2>1, <3>1, LinkedRoot
    <3>3. QED
      BY <3>1, <3>2 DEF Linked
  <2>4. ASSUME NEW n \in DOMAIN functions[j].sentences, NEW l, l = functions[j].sentences[n].label
        PROVE  To(l) = IF n = Len(functions[j].sentences) THEN [op |-> "FAIL", to |-> None]
                       ELSE [op |-> "SJUMP", to |-> functions[j].sentences[n + 1].label]
    <3>1. l \in Label
      BY <2>4, SentenceIs
    <3>2. Linked(u, Roots(u)[l], Fails(j, n))
      BY <1>2, <2>4, SentenceFails
    <3>3. To(l) = Fails(j, n)
      BY <1>3, <3>1, <3>2 DEF Linked
    <3>4. n < Len(functions[j].sentences) <=> n # Len(functions[j].sentences)
      <4>1. Pending
        BY DEF ModuleInv
      <4>2. PICK k \in Nat : k = Len(functions[j].sentences) /\ DOMAIN functions[j].sentences = 1 .. k
        BY <4>1, FunctionIs
      <4>3. QED
        BY <4>2
    <3>5. QED
      BY <3>3, <3>4 DEF Fails
  <2>5. QED
    BY <2>2, <2>4 DEF Begins
<1>6. ASSUME NEW i \in DOMAIN specifiers
      PROVE  /\ To(specifiers[i].label).op = "CLL"
             /\ Resolve(u, To(specifiers[i].label).to) = Resolve(u, specifiers[i].address)
  <2>1. PICK item : item = u.code[u.info[Roots(u)[specifiers[i].label]].value]
    OBVIOUS
  <2>2. /\ item.op = "CLL" /\ item.to \in Label /\ specifiers[i].address \in Label
        /\ Roots(u)[item.to] = Roots(u)[specifiers[i].address]
    BY <1>2, <2>1, SpecifierMeans
  <2>3. Resolve(u, specifiers[i].label) = Roots(u)[specifiers[i].label]
    BY <1>3, SpecifierIs
  <2>4. To(specifiers[i].label) = item
    BY <2>1, <2>3
  <2> HIDE DEF To
  <2>5. QED
    BY <1>3, <2>2, <2>4
<1>7. ASSUME NEW i \in DOMAIN entries
      PROVE  Kind(u, Resolve(u, entries[i].label)) = {"placed"}
  <2>1. entries[i].label \in used /\ "entry" \in table.mode[entries[i].label]
    BY DEF ModuleInv, Entered
  <2>2. entries[i].label \in Label /\ Kind(u, Roots(u)[entries[i].label]) = {"placed"}
    BY <1>2, <2>1, UsedIs
  <2>3. QED
    BY <1>3, <2>2
<1>8. ASSUME NEW i \in DOMAIN u.code, NEW item, item = u.code[i], item.to # None,
             Kind(u, Resolve(u, item.to)) = {"placed"}
      PROVE  /\ item.op = "BLF" => To(item.to).op \in {"SJUMP", "EMPTY", "SWAP"}
             /\ item.op \in {"WSPC", "CLL"} => To(item.to).op \in {"SPEC", "CLL"}
  <2>1. item.to \in Label /\ Meets(u, item)
    BY <1>2, <1>8, CodeLeads
  <2>2. Resolve(u, item.to) = Roots(u)[item.to]
    BY <1>3, <2>1
  <2>3. QED
    BY <1>8, <2>1, <2>2 DEF Meets
<1>9. CodeLinked'
  <2>1. \A l : Target(l)' = To(l)
    BY <1>1 DEF Target
  <2>2. \A j : IsLatest(j)' <=> IsLatest(j)
    BY DEF IsLatest
  <2>3. \A p \in Range(specifiers) : \E j \in DOMAIN specifiers : p = specifiers[j]
    BY DEF Range
  <2>4. \A i \in DOMAIN functions :
           LET f == functions[i]
           IN  /\ IsLatest(i) =>
                      To(f.label) = [op |-> "SJUMP", to |-> f.sentences[1].label]
               /\ \A n \in DOMAIN f.sentences :
                     To(f.sentences[n].label) =
                         IF n = Len(f.sentences) THEN [op |-> "FAIL", to |-> None]
                         ELSE [op |-> "SJUMP", to |-> f.sentences[n + 1].label]
    <3> HIDE DEF To
    <3>1. QED
      BY <1>5
  <2>5. \A p \in Range(specifiers) :
           /\ To(p.label).op = "CLL"
           /\ Resolve(u, To(p.label).to) = Resolve(u, p.address)
    <3> HIDE DEF To
    <3>1. QED
      BY <1>6, <2>3
  <2>6. \A i \in DOMAIN u.code :
           u.code[i].to # None =>
               LET root == Resolve(u, u.code[i].to)
               IN  CASE Kind(u, root) = {"placed"} -> u.info[root].value \in DOMAIN u.code
                     [] Kind(u, root) = {"extern"} -> u.info[root].value \in DOMAIN externs
                     [] OTHER -> FALSE
    BY <1>4
  <2> HIDE DEF To
  <2>7. (\A i \in DOMAIN table.code :
            table.code[i].to # None =>
                LET root == Resolve(table, table.code[i].to)
                IN  CASE Kind(table, root) = {"placed"} -> table.info[root].value \in DOMAIN table.code
                      [] Kind(table, root) = {"extern"} -> table.info[root].value \in DOMAIN externs
                      [] OTHER -> FALSE)'
    BY <1>1, <2>6
  <2>8. (\A i \in DOMAIN functions :
            LET f == functions[i]
            IN  /\ IsLatest(i) =>
                       Target(f.label) = [op |-> "SJUMP", to |-> f.sentences[1].label]
                /\ \A n \in DOMAIN f.sentences :
                      Target(f.sentences[n].label) =
                          IF n = Len(f.sentences) THEN [op |-> "FAIL", to |-> None]
                          ELSE [op |-> "SJUMP", to |-> f.sentences[n + 1].label])'
    BY <2>1, <2>2, <2>4
  <2>9. (\A p \in Range(specifiers) :
            /\ Target(p.label).op = "CLL"
            /\ Resolve(table, Target(p.label).to) = Resolve(table, p.address))'
    BY <1>1, <2>1, <2>5
  <2>10. (\A i \in DOMAIN entries : Kind(table, Resolve(table, entries[i].label)) = {"placed"})'
    BY <1>1, <1>7
  <2>11. QED
    BY <2>7, <2>8, <2>9, <2>10 DEF CodeLinked
<1>10. KindsChecked'
  <2>1. \A l : Target(l)' = To(l)
    BY <1>1 DEF Target
  <2> HIDE DEF To
  <2>2. QED
    BY <1>1, <1>8, <2>1 DEF KindsChecked
<1>11. QED
  BY <1>9, <1>10

-----------------------------------------------------------------------------
(* The end of a module that misled a name *)

\* Writing adds marks, and what it puts to a label is an address.
Writes(t, u) == /\ u \in Tables
                /\ \A x \in Label : /\ t.mode[x] \subseteq u.mode[x]
                                    /\ u.info[x] = t.info[x] \/ u.info[x].is = "address"

\* One after the other.
LEMMA WritesOn ==
    ASSUME NEW t, NEW u, NEW v, Writes(t, u), Writes(u, v)
    PROVE  Writes(t, v)
BY DEF Writes

\* The two ways to write.
LEMMA WritesAre ==
    ASSUME NEW t \in Tables, NEW l \in Label, NEW op \in Ops, NEW to \in Label \cup {None}
    PROVE  /\ Writes(t, Emit(t, op, to)) /\ Writes(t, Emit(Place(t, l), op, to))
           /\ "placed" \in Emit(Place(t, l), op, to).mode[l]
           /\ Emit(Place(t, l), op, to).info[l].is = "address"
<1>1. PICK p : p = Place(t, l)
  OBVIOUS
<1>2. /\ p \in Tables /\ p.mode[l] = t.mode[l] \cup {"defined", "placed"}
      /\ p.info[l] = Address(Len(t.code) + 1)
      /\ \A x \in Label \ {l} : p.mode[x] = t.mode[x] /\ p.info[x] = t.info[x]
  BY <1>1, PlaceIs
<1>3. p.info[l].is = "address" /\ "placed" \in p.mode[l] /\ t.mode[l] \subseteq p.mode[l]
  BY <1>2 DEF Address
<1>4. PICK a, b : a = Emit(t, op, to) /\ b = Emit(p, op, to)
  OBVIOUS
<1>5. /\ a \in Tables /\ a.mode = t.mode /\ a.info = t.info
      /\ b \in Tables /\ b.mode = p.mode /\ b.info = p.info
  BY <1>2, <1>4, EmitIs
<1>6. Writes(t, a) /\ Writes(t, b)
  BY <1>2, <1>3, <1>5 DEF Writes
<1>7. "placed" \in b.mode[l] /\ b.info[l].is = "address"
  BY <1>3, <1>5
<1>8. QED
  BY <1>1, <1>4, <1>6, <1>7

\* A sentence is written so.
LEMMA SentenceAdds ==
    ASSUME ModuleInv, NEW u \in Tables, NEW i \in DOMAIN functions,
           NEW n \in DOMAIN functions[i].sentences
    PROVE  Writes(u, WriteSentence(u, functions[i], n))
<1>1. PICK q, s : q = functions[i].sentences /\ s = q[n]
  OBVIOUS
<1>2. s.label \in Label /\ s.call \in Label /\ s.spec \in Label \cup {None}
  BY <1>1, SentenceIs
<1>3. n < Len(q) => q[n + 1].label \in Label \cup {None}
  <2>1. DOMAIN q = 1 .. Len(q) /\ Len(q) \in Nat
    BY <1>1, SentenceWrites
  <2>2. n < Len(q) => n + 1 \in DOMAIN q
    BY <1>1, <2>1
  <2>3. \A k \in DOMAIN q : q[k].label \in Label
    BY <1>1, SentenceIs
  <2>4. QED
    BY <2>2, <2>3
<1>4. {"WSPC", "BLF", "SJUMP", "FAIL"} \subseteq Ops
  BY DEF Ops
<1> DEFINE a == IF s.spec = None THEN u ELSE Emit(u, "WSPC", s.spec)
           p == Emit(a, "BLF", s.call)
<1>5. Writes(u, a)
  <2>1. Writes(u, u)
    BY DEF Writes
  <2>2. Writes(u, Emit(u, "WSPC", s.spec))
    BY <1>2, <1>4, WritesAre
  <2>3. QED
    BY <2>1, <2>2
<1> HIDE DEF a
<1>6. Writes(a, p)
  <2>1. a \in Tables
    BY <1>5 DEF Writes
  <2>2. QED
    BY <1>2, <1>4, <2>1, WritesAre
<1> HIDE DEF p
<1>7. p \in Tables /\ Writes(u, p)
  BY <1>5, <1>6, WritesOn DEF Writes
<1>8. n < Len(q) => Writes(p, Emit(Place(p, s.label), "SJUMP", q[n + 1].label))
  BY <1>2, <1>3, <1>4, <1>7, WritesAre
<1>9. Writes(p, Emit(Place(p, s.label), "FAIL", None))
  BY <1>2, <1>4, <1>7, WritesAre
<1>10. WriteSentence(u, functions[i], n) =
          IF IsAlias(p, s.label) THEN p
          ELSE IF n < Len(q) THEN Emit(Place(p, s.label), "SJUMP", q[n + 1].label)
          ELSE Emit(Place(p, s.label), "FAIL", None)
  BY <1>1 DEF WriteSentence, p, a
<1>11. QED
  BY <1>7, <1>8, <1>9, <1>10, WritesOn

\* A function is written so, and its name is given an address.
Stands(u, l) == "placed" \in u.mode[l] /\ u.info[l].is = "address"

LEMMA FunctionStands ==
    ASSUME ModuleInv, NEW b \in Tables, NEW i \in DOMAIN functions
    PROVE  /\ Writes(b, WriteFunction(b, functions[i]))
           /\ Stands(WriteFunction(b, functions[i]), functions[i].label)
<1>1. PICK f, m : f = functions[i] /\ m = Len(f.sentences)
  OBVIOUS
<1> DEFINE g == SentenceWay(b, f)
           a == Emit(Place(b, f.label), "SJUMP", f.sentences[1].label)
           K == {n \in 0 .. m : Writes(a, g[n])}
<1>2. /\ m \in Nat /\ DOMAIN f.sentences = 1 .. m /\ f.label \in Label
      /\ f.sentences[1].label \in Label
  BY <1>1, SentenceWrites
<1>3. /\ WriteFunction(b, f) = g[m] /\ g[0] = a
      /\ \A n \in 1 .. m : g[n] = WriteSentence(g[n - 1], f, n)
  BY <1>1, SentenceWayIs
<1>4. Writes(b, a) /\ Stands(a, f.label)
  <2>1. "SJUMP" \in Ops
    BY DEF Ops
  <2>2. QED
    BY <1>2, <2>1, WritesAre DEF Stands
<1> HIDE DEF g, a
<1>5. 0 \in K
  BY <1>2, <1>3, <1>4 DEF Writes
<1>6. ASSUME NEW n \in 1 .. m, n - 1 \in K PROVE n \in K
  <2>1. g[n - 1] \in Tables /\ Writes(a, g[n - 1])
    BY <1>6 DEF Writes
  <2>2. Writes(g[n - 1], WriteSentence(g[n - 1], f, n))
    BY <1>1, <1>2, <2>1, SentenceAdds
  <2>3. Writes(a, g[n])
    BY <1>3, <2>1, <2>2, WritesOn
  <2>4. QED
    BY <1>2, <2>3
<1> HIDE DEF K
<1>7. 0 .. m \subseteq K
  BY <1>2, <1>5, <1>6, StepsInSet
<1>8. m \in 0 .. m
  BY <1>2
<1>9. Writes(a, g[m])
  BY <1>7, <1>8 DEF K
<1>10. Writes(b, g[m]) /\ Stands(g[m], f.label)
  BY <1>2, <1>4, <1>9, WritesOn DEF Writes, Stands
<1>11. QED
  BY <1>1, <1>3, <1>10

\* The names of all functions are given addresses.
LEMMA FunctionsStand ==
    ASSUME ModuleInv, NEW w \in Tables
    PROVE  /\ Writes(w, WriteFunctions(w))
           /\ \A j \in DOMAIN functions : Stands(WriteFunctions(w), functions[j].label)
<1>1. PICK m : m = Len(functions)
  OBVIOUS
<1>2. m \in Nat /\ DOMAIN functions = 1 .. m
  <2>1. functions \in Seq([label : Name, sentences : Seq(Sentence)])
    BY DEF ModuleInv, Pending
  <2>2. PICK S : functions \in Seq(S)
    BY <2>1
  <2>3. QED
    BY <1>1, <2>2
<1> DEFINE g == FunctionWay(w)
           Done(u, i) == /\ Writes(w, u)
                         /\ \A j \in DOMAIN functions : j <= i => Stands(u, functions[j].label)
           K == {i \in 0 .. m : Done(g[i], i)}
<1>3. /\ WriteFunctions(w) = g[m] /\ g[0] = w
      /\ \A i \in 1 .. m : g[i] = WriteFunction(g[i - 1], functions[i])
  BY <1>1, <1>2, FunctionWayIs
<1> HIDE DEF g
<1>4. 0 \in K
  <2>1. \A j \in DOMAIN functions : ~(j <= 0)
    BY <1>2
  <2>2. Writes(w, w)
    BY DEF Writes
  <2>3. QED
    BY <1>2, <1>3, <2>1, <2>2
<1>5. ASSUME NEW i \in 1 .. m, i - 1 \in K PROVE i \in K
  <2>1. Done(g[i - 1], i - 1) /\ g[i - 1] \in Tables
    BY <1>5 DEF Writes
  <2>2. i \in DOMAIN functions
    BY <1>2
  <2>3. Writes(g[i - 1], g[i]) /\ Stands(g[i], functions[i].label)
    BY <1>3, <2>1, <2>2, FunctionStands
  <2>4. Writes(w, g[i])
    BY <2>1, <2>3, WritesOn
  <2>5. ASSUME NEW j \in DOMAIN functions, j <= i PROVE Stands(g[i], functions[j].label)
    <3>1. CASE j = i
      BY <2>3, <3>1
    <3>2. CASE j # i
      <4>1. j <= i - 1
        BY <1>2, <2>5, <3>2
      <4>2. Stands(g[i - 1], functions[j].label)
        BY <2>1, <4>1
      <4>3. functions[j].label \in Label
        BY OwnApart
      <4>4. QED
        BY <2>3, <4>2, <4>3 DEF Writes, Stands
    <3>3. QED
      BY <3>1, <3>2
  <2>6. QED
    BY <1>2, <2>4, <2>5
<1> HIDE DEF K
<1>6. 0 .. m \subseteq K
  BY <1>2, <1>4, <1>5, StepsInSet
<1>7. m \in 0 .. m
  BY <1>2
<1>8. Done(g[m], m)
  BY <1>6, <1>7 DEF K
<1>9. QED
  BY <1>2, <1>3, <1>8

\* Then the name that was misled is an alias with an address, which is looked at.
LEMMA MisledStep ==
    ASSUME ModuleInv, Sound(table), Misled, errors = 0, End
    PROVE  phase' = "crashed" /\ Misled'
<1>1. PICK w, u : w = WriteSpecifiers(table) /\ u = WriteFunctions(w)
  OBVIOUS
<1>2. table' = u /\ functions' = functions
  BY <1>1 DEF End, pools
<1>3. SpecifiersWritten(w) /\ w \in Tables
  BY <1>1, SpecifiersAreWritten DEF SpecifiersWritten, Sound
<1>4. /\ Writes(w, u) /\ u \in Tables
      /\ \A j \in DOMAIN functions : Stands(u, functions[j].label)
  BY <1>1, <1>3, FunctionsStand DEF Writes
<1>5. PICK j \in DOMAIN functions : "extern" \in table.mode[functions[j].label]
  BY DEF Misled, Range
<1>6. PICK l : l = functions[j].label
  OBVIOUS
<1>7. l \in Label \ SpecifierLabels /\ l \in used
  BY <1>6, OwnApart DEF Own, ModuleInv, Pending
<1>8. "extern" \in u.mode[l]
  <2>1. w.mode[l] = table.mode[l]
    BY <1>3, <1>7 DEF SpecifiersWritten
  <2>2. QED
    BY <1>4, <1>5, <1>6, <1>7, <2>1 DEF Writes
<1>9. IsAlias(u, l) /\ u.info[l].is # "label"
  <2>1. "placed" \in u.mode[l] /\ u.info[l].is = "address"
    BY <1>4, <1>6 DEF Stands
  <2>2. QED
    BY <1>8, <2>1 DEF IsAlias, Kind
<1>10. Resolve(u, l) = Wild
  <2>1. Resolve(u, l) = WayOf(u)[Cardinality(Label)][l]
    BY ResolveLooks
  <2>2. QED
    BY <1>4, <1>7, <1>9, <2>1, WayIs, LabelsAre
<1>11. phase' = "crashed"
  BY <1>2, <1>7, <1>10 DEF End
<1>12. Misled'
  BY <1>2, <1>6, <1>8 DEF Misled, Range
<1>13. QED
  BY <1>11, <1>12

\* The end of a module.
LEMMA EndStep ==
    ASSUME Inv, End
    PROVE  Inv'
<1>1. /\ ModuleInv /\ Sound(table) /\ errors \in Nat /\ phase = "module"
      /\ UNCHANGED <<type, used, pools, tables, errors, directives, equated>>
  BY DEF Inv, End, ModuleInv, Typing
<1>2. equated \subseteq Name \X Name /\ \A p \in equated : Roots(table)[p[1]] = Roots(table)[p[2]]
  BY <1>1 DEF Inv, Equated
<1>3. functions' = functions /\ errors' = errors
  BY <1>1 DEF pools
<1>4. CASE errors = 0 /\ ~Misled
  <2>1. PICK u : u = table'
    OBVIOUS
  <2>2. /\ Final(u) /\ phase' \in {"accepted", "rejected"}
        /\ phase' = "accepted" => \A x \in used : ~IsFaulty(u, x)
    BY <1>1, <1>4, <2>1, WrittenStep
  <2>3. phase' = "accepted" => CodeLinked' /\ KindsChecked'
    <3>1. UNCHANGED <<functions, specifiers, entries, externs>>
      BY <1>1 DEF pools, tables
    <3>2. QED
      BY <1>1, <1>4, <2>1, <2>2, <3>1, LinkedStep
  <2>4. Equated'
    <3>1. \A n \in Name : n \in Label \ SpecifierLabels
      BY <1>1, SpecifierIs, LabelsAre DEF SpecifierLabels
    <3>2. \A n \in Name : Roots(u)[n] = Roots(table)[n]
      BY <2>2, <3>1 DEF Final
    <3>3. \A p \in equated : p[1] \in Name /\ p[2] \in Name
      BY <1>2
    <3>4. \A p \in equated : Roots(u)[p[1]] = Roots(u)[p[2]]
      BY <1>2, <3>2, <3>3
    <3>5. QED
      BY <1>1, <1>2, <2>1, <3>4 DEF Equated
  <2>5. Sound(table')
    BY <2>1, <2>2 DEF Final
  <2>6. ~Misled'
    <3>1. \A j \in DOMAIN functions : "extern" \notin u.mode[functions[j].label]
      BY <2>2 DEF Final
    <3>2. QED
      BY <1>3, <2>1, <3>1 DEF Misled, Range
  <2>7. QED
    BY <2>2, <2>3, <2>4, <2>5, <2>6 DEF Inv
<1>5. CASE errors = 0 /\ Misled
  <2>1. phase' = "crashed" /\ Misled'
    BY <1>1, <1>5, MisledStep
  <2>2. QED
    BY <1>3, <1>5, <2>1 DEF Inv
<1>6. CASE errors # 0
  <2>1. table' = table
    BY <1>6 DEF End
  <2>2. phase' = IF \E l \in used : Resolve(table, l) = Wild THEN "crashed" ELSE "rejected"
    <3>1. used \cup {} = used
      OBVIOUS
    <3>2. QED
      BY <1>6, <2>1, <3>1 DEF End
  <2>3. \A l \in used : Resolve(table, l) # Wild
    <3>1. used \subseteq Label
      BY <1>1, LabelsAre DEF ModuleInv, Typing
    <3>2. \A l \in Label : Resolve(table, l) = Roots(table)[l]
      BY DEF Roots
    <3>3. Roots(table) \in [Label -> Label]
      BY <1>1, ResolveIs
    <3>4. QED
      BY <3>1, <3>2, <3>3, LabelsAre
  <2>4. phase' = "rejected" /\ errors' # 0
    BY <1>3, <1>6, <2>2, <2>3
  <2>5. Sound(table') /\ Equated'
    BY <1>1, <1>2, <2>1 DEF Equated
  <2>6. QED
    BY <2>4, <2>5 DEF Inv
<1>7. QED
  BY <1>4, <1>5, <1>6
-----------------------------------------------------------------------------
(* The whole module *)

\* A module begins with labels that mean nothing.
LEMMA InvInit == Init => Inv
<1>1. SUFFICES ASSUME Init PROVE Inv
  OBVIOUS
<1>2. /\ table.mode = [l \in Label |-> {}] /\ table.info = [l \in Label |-> Address(0)]
      /\ table.code = <<>>
      /\ table = [mode |-> table.mode, info |-> table.info, code |-> table.code]
  BY <1>1 DEF Init
<1>3. table \in Tables
  <2>1. Address(0) \in Info
    BY DEF Address, Info
  <2>2. table.mode \in [Label -> SUBSET Marks] /\ table.info \in [Label -> Info]
    BY <1>2, <2>1
  <2>3. table.code \in Seq(Item)
    BY <1>2
  <2>4. QED
    BY <1>2, <2>2, <2>3 DEF Tables
<1>4. \A l \in Label : Kind(table, l) = {} /\ ~IsAlias(table, l)
  BY <1>2 DEF Kind, IsAlias
<1>5. Sound(table)
  <2>1. PICK r : r = [l \in Label |-> 0]
    OBVIOUS
  <2>2. r \in [Label -> Nat] /\ Ranked(table, r)
    BY <1>4, <2>1 DEF Ranked
  <2>3. QED
    BY <1>3, <2>2 DEF Sound
<1>6. \A l \in Label : Roots(table)[l] = l
  BY <1>4, <1>5, ResolveIs DEF Resolves
<1>7. /\ type = [n \in Name |-> {}] /\ used = {} /\ allocated = 0 /\ functions = <<>>
      /\ specifiers = <<>> /\ fail = None /\ entries = <<>> /\ externs = <<>> /\ errors = 0
      /\ equated = {} /\ phase = "module"
  BY <1>1 DEF Init
<1>8. Typing
  BY <1>7, LabelsAre DEF Typing
<1>9. Named
  BY <1>6, LabelsAre DEF Named
<1>10. Described
  BY <1>4 DEF Described
<1>11. Coded(table, Context)
  <2>1. \A i \in DOMAIN table.code : FALSE
    BY <1>2
  <2>2. QED
    BY <1>4, <2>1 DEF Coded
<1>12. Nameless
  BY <1>4, <1>7, LabelsAre DEF Nameless
<1>13. Specified
  BY <1>7 DEF Specified
<1>14. Pending
  BY <1>7 DEF Pending
<1>15. Apart
  BY <1>7 DEF Apart
<1>16. FirstFails
  BY <1>7 DEF FirstFails
<1>17. Entered
  BY <1>7 DEF Entered
<1>18. Equated
  BY <1>7 DEF Equated
<1>19. QED
  BY <1>5, <1>7, <1>8, <1>9, <1>10, <1>11, <1>12, <1>13, <1>14, <1>15, <1>16, <1>17, <1>18
     DEF Inv, ModuleInv

\* When nothing happens, nothing changes.
LEMMA InvStutter ==
    ASSUME Inv, UNCHANGED vars
    PROVE  Inv'
<1>1. UNCHANGED <<table, type, used, allocated, functions, specifiers, fail, entries, externs,
                  errors, directives, equated, phase>>
  BY DEF vars, pools, tables
<1>2. Context' = Context /\ SpecifierLabels' = SpecifierLabels
  BY <1>1 DEF Context, SpecifierLabels, SentenceLabels
<1>3. /\ (Typing <=> Typing') /\ (Named <=> Named') /\ (Described <=> Described')
      /\ (Nameless <=> Nameless') /\ (Specified <=> Specified') /\ (Apart <=> Apart')
  BY <1>1, <1>2 DEF Typing, Named, Described, Nameless, Specified, Apart
<1>4. (Pending <=> Pending') /\ (FirstFails <=> FirstFails') /\ (Entered <=> Entered')
  BY <1>1, <1>2 DEF Pending, SentenceOK, FirstFails, Entered
<1>5. Coded(table', Context') <=> Coded(table, Context)
  <2>1. PICK t, c : t = table' /\ c = Context'
    OBVIOUS
  <2>2. t = table /\ c = Context
    BY <1>1, <1>2, <2>1
  <2>3. Coded(t, c) <=> Coded(table, Context)
    BY ONLY <2>2
  <2>4. Coded(t, c) <=> Coded(table', Context')
    BY ONLY <2>1
  <2>5. QED
    BY <2>3, <2>4
<1>6. ModuleInv' <=> ModuleInv
  BY <1>3, <1>4, <1>5 DEF ModuleInv
<1>7. Equated' <=> Equated
  BY <1>1 DEF Equated
<1>8. (CodeLinked' <=> CodeLinked) /\ (KindsChecked' <=> KindsChecked)
  BY <1>1 DEF CodeLinked, KindsChecked, Target, IsLatest
<1>9. Misled' <=> Misled
  BY <1>1 DEF Misled
<1>10. QED
  BY <1>1, <1>6, <1>7, <1>8, <1>9 DEF Inv

\* Every directive of a module and its end keep the invariant.
LEMMA InvNext ==
    ASSUME Inv, [Next]_vars
    PROVE  Inv'
<1>1. CASE \E n \in Name : EmptyOrSwap(n, "EMPTY") \/ EmptyOrSwap(n, "SWAP")
  BY <1>1, EmptyOrSwapStep
<1>2. CASE \E n \in Name, x \in External : Extern(n, x)
  BY <1>2, ExternStep
<1>3. CASE \E n \in Name, x \in External : Entry(n, x)
  BY <1>3, EntryStep
<1>4. CASE \E n \in Name, r \in Name \cup {None} : Specifier(n, r)
  BY <1>4, SpecifierStep
<1>5. CASE \E n \in Name, m \in Name : Equ(n, m)
  BY <1>5, EquStep
<1>6. CASE \E n \in Name, b \in Body : Function(n, b)
  BY <1>6, FunctionStep
<1>7. CASE End
  BY <1>7, EndStep
<1>8. CASE UNCHANGED vars
  BY <1>8, InvStutter
<1>9. QED
  BY <1>1, <1>2, <1>3, <1>4, <1>5, <1>6, <1>7, <1>8 DEF Next

\* The invariant of the label table and of the two pools, for any directives in any order.
THEOREM LabelsKeepInvariant ==
    Spec => []Inv
BY InvInit, InvNext, PTL DEF Spec

\* Names that set_equ() has made equivalent resolve to one object, whatever is described
\* afterwards and when the module is written, and resolve_label_alias() never follows a
\* closed chain or a place that is not a pointer; but the end of a module without errors
\* fails if and only if it misled a name.
THEOREM EquivalentNamesMeanOne ==
    Spec => []EquivalentNames
<1>1. Inv => EquivalentNames
  <2>1. SUFFICES ASSUME Inv PROVE EquivalentNames
    OBVIOUS
  <2>2. ASSUME phase # "crashed"
        PROVE  \A p \in equated : Root(p[1]) = Root(p[2]) /\ Root(p[1]) # Wild
    <3>1. Sound(table) /\ Equated
      BY <2>1, <2>2 DEF Inv
    <3>2. Roots(table) \in [Label -> Label] /\ \A n \in Name : n \in Label /\ Root(n) = Roots(table)[n]
      BY <3>1, ResolveIs, LabelsAre DEF Root, Roots
    <3>3. \A p \in equated : /\ Roots(table)[p[1]] = Roots(table)[p[2]]
                             /\ p[1] \in Name /\ p[2] \in Name
      BY <3>1 DEF Equated
    <3>4. QED
      BY <3>2, <3>3, LabelsAre
  <2>3. phase = "crashed" <=> phase # "module" /\ errors = 0 /\ Misled
    BY <2>1 DEF Inv
  <2>4. QED
    BY <2>2, <2>3 DEF EquivalentNames
<1>2. QED
  BY <1>1, LabelsKeepInvariant, PTL

\* In a module that module_end() accepts every address is one of a place in the code or of
\* an external reference; functions, sentences, specifiers and entry points are linked.
THEOREM AcceptedCodeIsLinked ==
    Spec => []CodeLinked
<1>1. Inv => CodeLinked
  BY DEF Inv, CodeLinked
<1>2. QED
  BY <1>1, LabelsKeepInvariant, PTL

\* In a module that check_identifier() lets pass no call enters a specifier and no
\* specifier calls a function.
THEOREM KindsAreChecked ==
    Spec => []KindsChecked
<1>1. Inv => KindsChecked
  BY DEF Inv, KindsChecked
<1>2. QED
  BY <1>1, LabelsKeepInvariant, PTL
=============================================================================
