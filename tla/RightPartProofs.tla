--------------------------- MODULE RightPartProofs ---------------------------
(***************************************************************************)
(* For every view field, every argument and every size of the free list: a *)
(* right side that is given up for lack of cells has left no trace outside *)
(* the free list; and when a step is over the view field, the boxes and    *)
(* the free list are rings again, from the same heads, that share no cell  *)
(* and have lost none.                                                     *)
(***************************************************************************)
EXTENDS RightPart, RingsProofs

Lists == BoxLists \cup {Field, Free}

\* The cell c is what the info of a bracket written at the place i of the free list is
\* while it is open: the bracket around it, the last of those at the places O before it.
EnclosedBy(O, i, c) == \/ c = Null /\ \A j \in O : j >= i
                       \/ \E j \in O : j < i /\ c = Free[j] /\ \A m \in O : m < i => m <= j

\* The brackets that are open at the places O, up to the place k, are chained.
Chained(O, k) == /\ k \in 1 .. Len(Free) /\ current = Free[k] /\ O \subseteq 1 .. k
                 /\ EnclosedBy(O, k + 1, left)
                 /\ \A i \in O : EnclosedBy(O, i, code[Free[i]])

\* The < that was closed last is not open, and it may be there is none.
ActedClosed(O, k) == acted = Quasi \/ \E a \in (1 .. k) \ O : acted = Free[a]

\* d[i] brackets of a part s are open before its cell i.
Change(t) == IF t = "LB" THEN 1 ELSE IF t = "RB" THEN -1 ELSE 0
Deep(s, d) == /\ d \in [1 .. Len(s) + 1 -> Nat]
              /\ \A i \in 1 .. Len(s) : d[i + 1] = d[i] + Change(Tag[s[i]])

\* What has still to be copied closes no bracket that was not opened by the right side.
CopyDeep(O) == \E d : Deep(copying, d) /\ d[1] <= Cardinality(O)

Writing == /\ copying \in Seq(Used)
           /\ \E k, O : Chained(O, k) /\ ActedClosed(O, k) /\ CopyDeep(O)

Untouched == \A c \in Used : tag[c] = Tag[c] /\ code[c] = Code[c]

\* The inductive invariant: until its end a right side writes only into cells of the
\* free list, and the chain of the brackets it has opened stays inside what it has written.
Inv == /\ scene \in Scenes
       /\ phase \in {"start", "build", "done", "lack"}
       /\ DOMAIN tag = Cell \cup {Quasi} /\ tag = [c \in Cell \cup {Quasi} |-> tag[c]]
       /\ DOMAIN code = Cell \cup {Quasi} /\ code = [c \in Cell \cup {Quasi} |-> code[c]]
       /\ phase # "done" => heap = Original /\ Untouched
       /\ phase \in {"start", "lack"} => code[Quasi] = RightD
       /\ phase = "start" => copying = <<>>
       /\ phase = "build" => Writing
-----------------------------------------------------------------------------
(* The lists of the memory a step begins in *)

\* What a scene says of the free list and of the cells in use.
LEMMA SceneFacts ==
    ASSUME scene \in Scenes
    PROVE  /\ Free \in Seq(Cell) /\ Len(Free) \in Nat /\ Len(Free) > 0
           /\ \A i \in 1 .. Len(Free) : Free[i] \in Cell \ Used
           /\ \A i, j \in 1 .. Len(Free) : Free[i] = Free[j] => i = j
           /\ Field \in Seq(Cell) /\ Range(Field) \subseteq Used /\ Used \subseteq Cell
           /\ Quasi \notin Cell /\ Null \notin Cell \cup {Quasi}
<1>1. /\ Free \notin BoxLists \cup {Field}
      /\ \A w \in Lists : w \in Seq(Cell) /\ w # <<>> /\ IsInjective(w)
      /\ \A w, z \in Lists : w = z \/ Range(w) \cap Range(z) = {}
  BY RightPartAssumption DEF Lists, BoxLists, Field, Free
<1>2. Free \in Lists /\ Field \in Lists /\ BoxLists \subseteq Lists
  BY DEF Lists
<1> HIDE DEF Free, Field, BoxLists, Lists
<1>3. \A w \in Lists : Range(w) \subseteq Cell
  <2>1. \A w \in Lists : \A i \in DOMAIN w : w[i] \in Cell
    BY <1>1
  <2>2. QED
    BY <2>1 DEF Range
<1>4. Used \subseteq Cell /\ Range(Field) \subseteq Used
  BY <1>2, <1>3 DEF Used
<1>5. Free \in Seq(Cell) /\ Free # <<>> /\ IsInjective(Free) /\ Field \in Seq(Cell)
  BY <1>1, <1>2
<1>6. Len(Free) \in Nat /\ Len(Free) > 0 /\ DOMAIN Free = 1 .. Len(Free)
  BY <1>5
<1>7. \A i, j \in 1 .. Len(Free) : Free[i] = Free[j] => i = j
  BY <1>5, <1>6 DEF IsInjective
<1>8. Range(Free) \cap Used = {}
  <2>1. \A w \in BoxLists \cup {Field} : w \in Lists /\ w # Free
    BY <1>1, <1>2
  <2>2. \A w \in BoxLists \cup {Field} : Range(w) \cap Range(Free) = {}
    BY <1>1, <1>2, <2>1
  <2>3. QED
    BY <2>2 DEF Used
<1>9. \A i \in 1 .. Len(Free) : Free[i] \in Range(Free) /\ Free[i] \in Cell
  BY <1>5, <1>6 DEF Range
<1>10. QED
  BY <1>4, <1>5, <1>6, <1>7, <1>8, <1>9, RightPartAssumption

\* The free list is a ring as long as the right side is written.
LEMMA NextFree ==
    ASSUME scene \in Scenes, heap = Original, NEW k \in 1 .. Len(Free)
    PROVE  heap.next[Free[k]] = IF k = Len(Free) THEN Free[1] ELSE Free[k + 1]
<1> DEFINE others == Cell \ (Used \cup Range(Free))
           lists == BoxLists \cup {Field, Free} \cup {<<c>> : c \in others}
           list(c) == CHOOSE s \in lists : c \in Range(s)
           Turn(c, by) == LET s == list(c)
                              i == CHOOSE i \in DOMAIN s : s[i] = c
                          IN  s[((i - 1 + by) % Len(s)) + 1]
           c == Free[k]
<1>1. heap.next = [e \in Cell |-> Turn(e, 1)]
  BY DEF Original
<1>2. c \in Cell \ Used /\ c \in Range(Free) /\ DOMAIN Free = 1 .. Len(Free)
  BY SceneFacts DEF Range
<1>3. Range(Free) \cap Used = {}
  BY SceneFacts DEF Range
<1>4. \A s \in lists : c \in Range(s) => s = Free
  <2>1. \A s \in BoxLists \cup {Field} : c \notin Range(s)
    BY <1>2 DEF Used
  <2>2. \A e \in others : Range(<<e>>) = {e} /\ e # c
    BY <1>2 DEF Range
  <2>3. QED
    BY <2>1, <2>2
<1>5. list(c) = Free
  <2>1. Free \in lists
    OBVIOUS
  <2> HIDE DEF lists
  <2>2. QED
    BY <1>2, <1>4, <2>1
<1>6. (CHOOSE i \in DOMAIN Free : Free[i] = c) = k
  <2>1. \A i \in DOMAIN Free : Free[i] = c => i = k
    BY <1>2, SceneFacts
  <2>2. k \in DOMAIN Free /\ Free[k] = c
    BY <1>2
  <2> HIDE DEF c
  <2>3. QED
    BY <2>1, <2>2
<1>7. heap.next[c] = Free[((k - 1 + 1) % Len(Free)) + 1]
  <2>1. heap.next[c] = Turn(c, 1)
    BY <1>1, <1>2
  <2> HIDE DEF c, list
  <2>2. QED
    BY <1>5, <1>6, <2>1
<1> DEFINE l == Len(Free)
<1>8. l \in Nat /\ l > 0 /\ k \in 1 .. l
  BY SceneFacts
<1> HIDE DEF l
<1>9. (k - 1 + 1) % l = IF k = l THEN 0 ELSE k
  <2>1. k - 1 + 1 = k
    BY <1>8
  <2>2. CASE k = l
    BY <1>8, <2>1, <2>2
  <2>3. CASE k # l
    BY <1>8, <2>1, <2>3
  <2>4. QED
    BY <2>2, <2>3
<1>10. QED
  <2>1. (0 + 1) = 1
    OBVIOUS
  <2>2. QED
    BY <1>7, <1>9, <2>1 DEF c, l
-----------------------------------------------------------------------------
(* The chain of the open brackets *)

\* Places behind i do not change what encloses i.
LEMMA EnclosedStays ==
    ASSUME NEW O, O \subseteq Nat, NEW i \in Nat, NEW c, EnclosedBy(O, i, c),
           NEW a \in Nat, a >= i
    PROVE  EnclosedBy(O \cup {a}, i, c) /\ EnclosedBy(O \ {a}, i, c)
<1>1. CASE c = Null /\ \A j \in O : j >= i
  BY <1>1 DEF EnclosedBy
<1>2. CASE \E j \in O : j < i /\ c = Free[j] /\ \A m \in O : m < i => m <= j
  <2>1. PICK j \in O : j < i /\ c = Free[j] /\ \A m \in O : m < i => m <= j
    BY <1>2
  <2>2. ~(a < i) /\ j # a
    BY <2>1
  <2>3. QED
    BY <2>1, <2>2 DEF EnclosedBy
<1>3. QED
  BY <1>1, <1>2 DEF EnclosedBy

\* Behind the last open bracket the place does not matter.
LEMMA EnclosedBehind ==
    ASSUME NEW k \in Nat, NEW O, O \subseteq 1 .. k, NEW c, EnclosedBy(O, k + 1, c),
           NEW n \in Nat, k < n
    PROVE  EnclosedBy(O, n, c)
<1>1. \A j \in O : j < k + 1 /\ j < n /\ ~(j >= k + 1)
  OBVIOUS
<1>2. QED
  BY <1>1 DEF EnclosedBy

\* A bracket that is opened is the innermost one.
LEMMA EnclosedByLast ==
    ASSUME NEW k \in Nat, NEW O, O \subseteq 1 .. k, NEW n \in Nat, k + 1 < n
    PROVE  EnclosedBy(O \cup {k + 1}, n, Free[k + 1])
<1>1. \A m \in O \cup {k + 1} : m <= k + 1
  OBVIOUS
<1>2. QED
  BY <1>1 DEF EnclosedBy

\* The innermost bracket is the last one; the one around it becomes the innermost.
LEMMA Innermost ==
    ASSUME NEW k \in Nat, NEW O, O \subseteq 1 .. k, NEW c, EnclosedBy(O, k + 1, c), c # Null
    PROVE  \E j \in O : /\ c = Free[j] /\ \A m \in O : m <= j
                        /\ \A e : EnclosedBy(O, j, e) => EnclosedBy(O \ {j}, k + 2, e)
<1>1. PICK j \in O : j < k + 1 /\ c = Free[j] /\ \A m \in O : m < k + 1 => m <= j
  BY DEF EnclosedBy
<1>2. \A m \in O : m <= j
  <2>1. \A m \in O : m < k + 1
    OBVIOUS
  <2>2. QED
    BY <1>1, <2>1
<1>3. ASSUME NEW e, EnclosedBy(O, j, e) PROVE EnclosedBy(O \ {j}, k + 2, e)
  <2>1. \A m \in O \ {j} : m < j /\ m < k + 2 /\ ~(m >= j)
    BY <1>2
  <2>2. CASE e = Null /\ \A m \in O : m >= j
    <3>1. O \ {j} = {}
      BY <2>1, <2>2
    <3>2. QED
      BY <2>2, <3>1 DEF EnclosedBy
  <2>3. CASE \E i \in O : i < j /\ e = Free[i] /\ \A m \in O : m < j => m <= i
    <3>1. PICK i \in O : i < j /\ e = Free[i] /\ \A m \in O : m < j => m <= i
      BY <2>3
    <3>2. i \in O \ {j} /\ i < k + 2 /\ \A m \in O \ {j} : m < k + 2 => m <= i
      BY <2>1, <3>1
    <3>3. QED
      BY <3>1, <3>2 DEF EnclosedBy
  <2>4. QED
    BY <1>3, <2>2, <2>3 DEF EnclosedBy
<1>4. QED
  BY <1>1, <1>2, <1>3

\* A part with its brackets closes none that it has not opened.
LEMMA Depths ==
    ASSUME NEW C, NEW s \in Seq(C), Balanced(s, Tag)
    PROVE  \E d : Deep(s, d) /\ d[1] = 0
<1> DEFINE l == Len(s)
           L(n) == Tagged(s, Tag, "LB", n)
           R(n) == Tagged(s, Tag, "RB", n)
           a == [n \in 0 .. l |-> Cardinality(L(n))]
           b == [n \in 0 .. l |-> Cardinality(R(n))]
           d == [i \in 1 .. l + 1 |-> a[i - 1] - b[i - 1]]
<1>1. l \in Nat /\ DOMAIN s = 1 .. l
  OBVIOUS
<1>2. \A n \in Nat : /\ IsFiniteSet(L(n)) /\ Cardinality(L(n)) \in Nat
                     /\ IsFiniteSet(R(n)) /\ Cardinality(R(n)) \in Nat
  <2>1. TAKE n \in Nat
  <2>2. IsFiniteSet(1 .. n)
    BY FS_Interval
  <2>3. L(n) \subseteq 1 .. n /\ R(n) \subseteq 1 .. n
    BY DEF Tagged
  <2> HIDE DEF L, R
  <2>4. QED
    BY <2>2, <2>3, FS_Subset, FS_CardinalityType
<1>3. \A n \in 1 .. l : Cardinality(R(n)) <= Cardinality(L(n))
  BY <1>1 DEF Balanced
<1>4. L(0) = {} /\ R(0) = {}
  BY DEF Tagged
<1>5. ASSUME NEW i \in 1 .. l
      PROVE  /\ i \notin L(i - 1) /\ i \notin R(i - 1) /\ i - 1 \in Nat
             /\ L(i) = IF Tag[s[i]] = "LB" THEN L(i - 1) \cup {i} ELSE L(i - 1)
             /\ R(i) = IF Tag[s[i]] = "RB" THEN R(i - 1) \cup {i} ELSE R(i - 1)
  <2>1. i - 1 \in Nat /\ i \notin 1 .. i - 1 /\ 1 .. i = (1 .. i - 1) \cup {i}
    BY <1>1
  <2>2. QED
    BY <2>1 DEF Tagged
<1> HIDE DEF L, R, l
<1>6. /\ \A n \in 0 .. l : a[n] \in Nat /\ b[n] \in Nat
      /\ a[0] = 0 /\ b[0] = 0 /\ \A n \in 1 .. l : b[n] <= a[n]
  <2>1. 0 \in 0 .. l /\ Cardinality({}) = 0 /\ \A n \in 1 .. l : n \in 0 .. l
    BY <1>1, FS_EmptySet
  <2>2. \A n \in 0 .. l : n \in Nat
    BY <1>1
  <2>3. \A n \in 0 .. l : a[n] = Cardinality(L(n)) /\ b[n] = Cardinality(R(n))
    OBVIOUS
  <2> HIDE DEF a, b
  <2>4. QED
    BY <1>2, <1>3, <1>4, <2>1, <2>2, <2>3, Zenon
<1>7. ASSUME NEW i \in 1 .. l
      PROVE  /\ a[i] = IF Tag[s[i]] = "LB" THEN a[i - 1] + 1 ELSE a[i - 1]
             /\ b[i] = IF Tag[s[i]] = "RB" THEN b[i - 1] + 1 ELSE b[i - 1]
  <2>1. i \in 0 .. l /\ i - 1 \in 0 .. l
    BY <1>1
  <2>2. /\ a[i] = Cardinality(L(i)) /\ b[i] = Cardinality(R(i))
        /\ a[i - 1] = Cardinality(L(i - 1)) /\ b[i - 1] = Cardinality(R(i - 1))
    BY <2>1
  <2> HIDE DEF a, b
  <2>3. IsFiniteSet(L(i - 1)) /\ IsFiniteSet(R(i - 1))
    BY <1>2, <1>5
  <2>4. /\ Cardinality(L(i - 1) \cup {i}) = Cardinality(L(i - 1)) + 1
        /\ Cardinality(R(i - 1) \cup {i}) = Cardinality(R(i - 1)) + 1
    BY <1>5, <2>3, FS_AddElement, Zenon
  <2>5. QED
    BY <1>5, <2>2, <2>4, Zenon
<1> HIDE DEF a, b
<1>8. \A i \in 1 .. l + 1 : i - 1 \in 0 .. l /\ a[i - 1] - b[i - 1] \in Nat
  <2>1. TAKE i \in 1 .. l + 1
  <2>2. i - 1 \in 0 .. l /\ (i - 1 = 0 \/ i - 1 \in 1 .. l)
    BY <1>1
  <2>3. QED
    BY <1>6, <2>2
<1>9. d \in [1 .. l + 1 -> Nat]
  BY <1>8
<1>10. \A i \in 1 .. l : d[i + 1] = d[i] + Change(Tag[s[i]])
  <2>1. TAKE i \in 1 .. l
  <2>2. i \in 1 .. l + 1 /\ i + 1 \in 1 .. l + 1 /\ (i + 1) - 1 = i
    BY <1>1
  <2>3. d[i] = a[i - 1] - b[i - 1] /\ d[i + 1] = a[i] - b[i]
    BY <2>2
  <2> HIDE DEF d
  <2> DEFINE t == Tag[s[i]]
  <2>4. /\ a[i] = IF t = "LB" THEN a[i - 1] + 1 ELSE a[i - 1]
        /\ b[i] = IF t = "RB" THEN b[i - 1] + 1 ELSE b[i - 1]
    BY <1>7
  <2>5. a[i - 1] \in Nat /\ b[i - 1] \in Nat
    BY <1>1, <1>6
  <2> HIDE DEF t
  <2>6. d[i + 1] = d[i] + Change(t)
    BY <2>3, <2>4, <2>5 DEF Change
  <2>7. QED
    BY <2>6 DEF t
<1>11. d[1] = 0
  <2>1. 1 \in 1 .. l + 1 /\ 1 - 1 = 0
    BY <1>1
  <2>2. QED
    BY <1>6, <2>1
<1>12. QED
  <2> HIDE DEF d
  <2>1. Deep(s, d)
    BY <1>9, <1>10 DEF Deep, l
  <2>2. QED
    BY <1>11, <2>1

\* A variable stands for cells in use.
LEMMA PartIs ==
    ASSUME scene \in Scenes, NEW v \in Variable
    PROVE  Part(v) \in Seq(Used) /\ \E d : Deep(Part(v), d) /\ d[1] = 0
<1>1. /\ {v[1], v[2]} \subseteq Range(Field)
      /\ \A i, j \in DOMAIN Field : Field[i] = v[1] /\ Field[j] = v[2]
                                       => Balanced(SubSeq(Field, i, j), Tag)
  BY RightPartAssumption DEF Variable, Field, Tag
<1> DEFINE i == Place(v[1])
           j == Place(v[2])
<1>2. i \in DOMAIN Field /\ Field[i] = v[1] /\ j \in DOMAIN Field /\ Field[j] = v[2]
  BY <1>1 DEF Range, Place
<1>3. Part(v) = SubSeq(Field, i, j)
  BY DEF Part
<1>4. Field \in Seq(Used) /\ DOMAIN Field = 1 .. Len(Field)
  <2>1. Field \in Seq(Cell) /\ Range(Field) \subseteq Used
    BY SceneFacts
  <2>2. \A n \in 1 .. Len(Field) : Field[n] \in Used
    BY <2>1 DEF Range
  <2> HIDE DEF Field
  <2>3. Len(Field) \in Nat /\ Field = [n \in 1 .. Len(Field) |-> Field[n]]
    BY <2>1
  <2>4. QED
    BY <2>1, <2>2, <2>3, SequenceIs
<1> HIDE DEF i, j, Part, Field, Used
<1>5. SubSeq(Field, i, j) \in Seq(Used)
  <2>1. \A n \in i .. j : Field[n] \in Used
    BY <1>2, <1>4
  <2>2. QED
    BY <1>2, <1>4, <2>1
<1>6. Balanced(Part(v), Tag)
  BY <1>1, <1>2, <1>3
<1>7. QED
  BY <1>3, <1>5, <1>6, Depths
-----------------------------------------------------------------------------
(* The steps *)

\* A step that begins has written nothing.
LEMMA InitStep == Init => Inv
<1> SUFFICES ASSUME Init PROVE Inv
  OBVIOUS
<1>1. Quasi \notin Cell /\ Used \subseteq Cell
  BY SceneFacts DEF Init
<1>2. Untouched
  BY <1>1 DEF Init, Untouched
<1>3. code[Quasi] = RightD
  BY DEF Init
<1>4. /\ DOMAIN tag = Cell \cup {Quasi} /\ tag = [c \in Cell \cup {Quasi} |-> tag[c]]
      /\ DOMAIN code = Cell \cup {Quasi} /\ code = [c \in Cell \cup {Quasi} |-> code[c]]
  BY DEF Init
<1>5. QED
  BY <1>2, <1>3, <1>4 DEF Init, Inv

\* The free cell to be written next, and where the free list ends.
LEMMA NewIs ==
    ASSUME Inv, phase = "build", NEW k \in 1 .. Len(Free), current = Free[k]
    PROVE  /\ New = FreeHead => k = Len(Free)
           /\ New # FreeHead => k + 1 \in 1 .. Len(Free) /\ New = Free[k + 1]
<1>1. heap.next[Free[k]] = IF k = Len(Free) THEN Free[1] ELSE Free[k + 1]
  BY NextFree DEF Inv
<1> DEFINE l == Len(Free)
<1>2. l \in Nat /\ l > 0 /\ \A i, j \in 1 .. l : Free[i] = Free[j] => i = j
  BY SceneFacts DEF Inv
<1>3. New = IF k = l THEN Free[1] ELSE Free[k + 1]
  BY <1>1 DEF New
<1> HIDE DEF l
<1>4. k \in 1 .. l
  BY DEF l
<1>5. k # l => k + 1 \in 1 .. l /\ 1 \in 1 .. l /\ k + 1 # 1
  BY <1>2, <1>4
<1>6. QED
  BY <1>2, <1>3, <1>5 DEF FreeHead, l

\* The steps of a right side write in the free list and in quasi_k only.
OnlyFree == /\ tag' = [c \in Cell \cup {Quasi} |-> tag'[c]] /\ DOMAIN tag' = Cell \cup {Quasi}
            /\ code' = [c \in Cell \cup {Quasi} |-> code'[c]] /\ DOMAIN code' = Cell \cup {Quasi}
            /\ \A c \in Cell \ Range(Free) : tag'[c] = tag[c] /\ code'[c] = code[c]

\* A step that writes into the free list only, and keeps the chain of brackets there,
\* preserves the invariant.
LEMMA Stays ==
    ASSUME Inv, phase = "build", OnlyFree, UNCHANGED <<scene, heap>>,
           phase' \in {"build", "lack"}, phase' = "lack" => code'[Quasi] = RightD,
           phase' = "build" => Writing'
    PROVE  Inv'
<1>1. \A c \in Used : c \in Cell \ Range(Free)
  BY SceneFacts DEF Inv, Range
<1>2. Used' = Used /\ Tag' = Tag /\ Code' = Code /\ RightD' = RightD /\ Original' = Original
  BY DEF Used, Tag, Code, RightD, Original, Free, Field, BoxLists, Argument, Place
<1>3. Untouched'
  BY <1>1, <1>2 DEF Inv, Untouched, OnlyFree
<1>4. QED
  BY <1>2, <1>3 DEF Inv, OnlyFree

\* The step is given up.
LEMMA LackStep == ASSUME Inv, phase = "build", Lack, UNCHANGED scene PROVE Inv'
<1>1. Quasi \notin Cell
  BY RightPartAssumption
<1>2. OnlyFree /\ code'[Quasi] = RightD
  BY <1>1 DEF Lack, OnlyFree, Inv
<1>3. QED
  BY <1>2, Stays DEF Lack

\* What the scene gives stays.
LEMMA Same ==
    ASSUME UNCHANGED scene
    PROVE  /\ Free' = Free /\ Used' = Used
           /\ \A O, i, c : EnclosedBy(O, i, c)' <=> EnclosedBy(O, i, c)
           /\ \A s, d : Deep(s, d)' <=> Deep(s, d)
BY DEF Free, Used, BoxLists, Field, EnclosedBy, Deep, Tag

\* The chain of the open brackets after each way to write a cell: a cell that is no
\* bracket, an opening bracket, a closing one, and a closing one that makes a call.
LEMMA PlainWritten ==
    ASSUME Inv, phase = "build", UNCHANGED <<scene, left, acted>>,
           NEW k, NEW O, Chained(O, k), ActedClosed(O, k),
           New # FreeHead, current' = New, \A c \in Range(Free) \ {New} : code'[c] = code[c]
    PROVE  Chained(O, k + 1)' /\ ActedClosed(O, k + 1)'
<1>1. k \in 1 .. Len(Free) /\ current = Free[k] /\ O \subseteq 1 .. k /\ EnclosedBy(O, k + 1, left)
  BY DEF Chained
<1>2. /\ k + 1 \in 1 .. Len(Free) /\ New = Free[k + 1]
      /\ k \in Nat /\ (k + 1) + 1 \in Nat /\ k < (k + 1) + 1
  BY <1>1, NewIs
<1>3. O \subseteq 1 .. k + 1 /\ \A i \in O : Free[i] \in Range(Free) /\ Free[i] # New
  <2>1. \A i \in O : i \in 1 .. Len(Free) /\ i # k + 1 /\ i \in 1 .. k + 1
    BY <1>1
  <2>2. \A i \in O : Free[i] \in Range(Free)
    BY <2>1, SceneFacts DEF Inv, Range
  <2>3. QED
    BY <1>2, <2>1, <2>2, SceneFacts DEF Inv
<1>4. EnclosedBy(O, (k + 1) + 1, left)
  BY <1>1, <1>2, EnclosedBehind
<1>5. \A i \in O : EnclosedBy(O, i, code'[Free[i]])
  BY <1>3 DEF Chained
<1>6. Chained(O, k + 1)'
  BY <1>2, <1>3, <1>4, <1>5, Same DEF Chained
<1>7. (1 .. k) \ O \subseteq (1 .. k + 1) \ O
  BY <1>2
<1>8. QED
  BY <1>6, <1>7, Same DEF ActedClosed

\* A left bracket that is written is chained to the brackets around it.
LEMMA OpenWritten ==
    ASSUME Inv, phase = "build", UNCHANGED <<scene, acted>>,
           NEW k, NEW O, Chained(O, k), ActedClosed(O, k),
           New # FreeHead, current' = New, left' = New, code'[New] = left,
           \A c \in Range(Free) \ {New} : code'[c] = code[c]
    PROVE  Chained(O \cup {k + 1}, k + 1)' /\ ActedClosed(O \cup {k + 1}, k + 1)'
<1>1. k \in 1 .. Len(Free) /\ current = Free[k] /\ O \subseteq 1 .. k /\ EnclosedBy(O, k + 1, left)
  BY DEF Chained
<1>2. /\ k + 1 \in 1 .. Len(Free) /\ New = Free[k + 1] /\ k \in Nat /\ k + 1 \in Nat
      /\ k + 1 < (k + 1) + 1 /\ (k + 1) + 1 \in Nat /\ k + 1 >= k + 1
  <2>1. k + 1 \in 1 .. Len(Free) /\ New = Free[k + 1]
    BY <1>1, NewIs
  <2>2. k \in Nat
    BY <1>1
  <2>3. QED
    BY <2>1, <2>2
<1>3. \A i \in O : /\ Free[i] \in Range(Free) /\ Free[i] # New
                   /\ i \in Nat /\ k + 1 >= i /\ i \in 1 .. k + 1
  <2>1. \A i \in O : i \in 1 .. Len(Free) /\ i # k + 1 /\ i \in 1 .. k + 1 /\ k + 1 >= i
    BY <1>1
  <2>2. \A i \in O : Free[i] \in Range(Free)
    BY <2>1, SceneFacts DEF Inv, Range
  <2>3. QED
    BY <1>2, <2>1, <2>2, SceneFacts DEF Inv
<1>4. EnclosedBy(O \cup {k + 1}, (k + 1) + 1, New)
  BY <1>1, <1>2, EnclosedByLast
<1>5. ASSUME NEW i \in O PROVE EnclosedBy(O \cup {k + 1}, i, code'[Free[i]])
  <2>1. EnclosedBy(O, i, code'[Free[i]])
    BY <1>3 DEF Chained
  <2>2. O \subseteq Nat
    BY <1>3
  <2>3. QED
    BY <1>2, <1>3, <2>1, <2>2, EnclosedStays
<1>6. EnclosedBy(O \cup {k + 1}, k + 1, code'[Free[k + 1]])
  BY <1>1, <1>2, <1>3, EnclosedStays
<1>7. Chained(O \cup {k + 1}, k + 1)'
  <2>1. O \cup {k + 1} \subseteq 1 .. k + 1
    BY <1>2, <1>3
  <2>2. QED
    BY <1>2, <1>4, <1>5, <1>6, <2>1, Same DEF Chained
<1>8. (1 .. k) \ O \subseteq (1 .. k + 1) \ (O \cup {k + 1})
  BY <1>2
<1>9. QED
  BY <1>7, <1>8, Same DEF ActedClosed

\* An opening bracket and the label behind it.
LEMMA CallWritten ==
    ASSUME Inv, phase = "build", UNCHANGED <<scene, acted>>,
           NEW k, NEW O, Chained(O, k), ActedClosed(O, k), k + 1 \in 1 .. Len(Free),
           (k + 1) + 1 \in 1 .. Len(Free), New = Free[k + 1],
           current' = Free[(k + 1) + 1], left' = New, code'[New] = left,
           \A c \in Range(Free) \ {New, current'} : code'[c] = code[c]
    PROVE  Chained(O \cup {k + 1}, (k + 1) + 1)' /\ ActedClosed(O \cup {k + 1}, (k + 1) + 1)'
<1>1. k \in 1 .. Len(Free) /\ current = Free[k] /\ O \subseteq 1 .. k /\ EnclosedBy(O, k + 1, left)
  BY DEF Chained
<1> DEFINE l == Len(Free)
           n == k + 1
<1>2. /\ k \in 1 .. l /\ n \in 1 .. l /\ n + 1 \in 1 .. l /\ k \in Nat /\ n \in Nat /\ n >= n
      /\ (n + 1) + 1 \in Nat /\ n < (n + 1) + 1 /\ n # n + 1 /\ n \in 1 .. n + 1
      /\ \A i \in O : i \in 1 .. l /\ i # n /\ i # n + 1 /\ i \in 1 .. n + 1 /\ i \in Nat /\ n >= i
      /\ (1 .. k) \ O \subseteq (1 .. n + 1) \ (O \cup {n})
  BY <1>1
<1>3. \A i \in 1 .. l : /\ Free[i] \in Range(Free)
                        /\ i # n => Free[i] # New
                        /\ i # n + 1 => Free[i] # current'
  BY <1>2, SceneFacts DEF Inv, Range
<1> HIDE DEF l
<1>4. EnclosedBy(O \cup {n}, (n + 1) + 1, New)
  BY <1>1, <1>2, EnclosedByLast
<1>5. ASSUME NEW i \in O PROVE EnclosedBy(O \cup {n}, i, code'[Free[i]])
  <2>1. code'[Free[i]] = code[Free[i]]
    BY <1>2, <1>3
  <2>2. EnclosedBy(O, i, code'[Free[i]])
    BY <2>1 DEF Chained
  <2>3. O \subseteq Nat
    BY <1>2
  <2>4. QED
    BY <1>2, <2>2, <2>3, EnclosedStays
<1>6. EnclosedBy(O \cup {n}, n, code'[Free[n]])
  <2>1. O \subseteq Nat
    BY <1>2
  <2>2. QED
    BY <1>1, <1>2, <2>1, EnclosedStays
<1>7. Chained(O \cup {n}, n + 1)'
  <2>1. O \cup {n} \subseteq 1 .. n + 1
    BY <1>2
  <2>2. QED
    BY <1>4, <1>5, <1>6, <2>1, Same DEF Chained
<1>8. ActedClosed(O \cup {n}, n + 1)'
  BY <1>2, Same DEF ActedClosed
<1>9. QED
  BY <1>7, <1>8

\* Closing takes the last place j of O away.
LEMMA ClosedChain ==
    ASSUME Inv, phase = "build", UNCHANGED scene,
           NEW k, NEW O, Chained(O, k), left # Null,
           New # FreeHead, current' = New, left' = code[left]
    PROVE  \E j \in O :
              /\ left = Free[j]
              /\ (\A i \in O \ {j} : code'[Free[i]] = code[Free[i]]) => Chained(O \ {j}, k + 1)'
<1>1. k \in 1 .. Len(Free) /\ current = Free[k] /\ O \subseteq 1 .. k /\ EnclosedBy(O, k + 1, left)
  BY DEF Chained
<1>2. k + 1 \in 1 .. Len(Free) /\ New = Free[k + 1] /\ k \in Nat /\ (k + 1) + 1 = k + 2
  BY <1>1, NewIs
<1>3. PICK j \in O : /\ left = Free[j] /\ \A m \in O : m <= j
                     /\ \A e : EnclosedBy(O, j, e) => EnclosedBy(O \ {j}, k + 2, e)
  BY <1>1, <1>2, Innermost
<1>4. ASSUME \A i \in O \ {j} : code'[Free[i]] = code[Free[i]]
      PROVE  Chained(O \ {j}, k + 1)'
  <2>1. EnclosedBy(O \ {j}, (k + 1) + 1, left')
    BY <1>2, <1>3 DEF Chained
  <2>2. ASSUME NEW i \in O \ {j} PROVE EnclosedBy(O \ {j}, i, code'[Free[i]])
    <3>1. i \in Nat /\ j \in Nat /\ j >= i /\ O \subseteq Nat
      BY <1>1, <1>3
    <3>2. EnclosedBy(O, i, code'[Free[i]])
      BY <1>4 DEF Chained
    <3>3. QED
      BY <3>1, <3>2, EnclosedStays
  <2>3. O \ {j} \subseteq 1 .. k + 1
    BY <1>1, <1>2
  <2>4. QED
    BY <1>2, <2>1, <2>2, <2>3, Same DEF Chained
<1>5. QED
  BY <1>3, <1>4

\* A right bracket closes the last of the open brackets and leaves the others chained.
LEMMA CloseWritten ==
    ASSUME Inv, phase = "build", UNCHANGED <<scene, acted>>,
           NEW k, NEW O, Chained(O, k), ActedClosed(O, k), left # Null,
           New # FreeHead, current' = New, left' = code[left],
           \A c \in Range(Free) \ {New, left} : code'[c] = code[c]
    PROVE  \E j \in O : Chained(O \ {j}, k + 1)' /\ ActedClosed(O \ {j}, k + 1)'
<1>1. PICK j \in O :
         /\ left = Free[j]
         /\ (\A i \in O \ {j} : code'[Free[i]] = code[Free[i]]) => Chained(O \ {j}, k + 1)'
  BY ClosedChain
<1>2. k \in 1 .. Len(Free) /\ current = Free[k] /\ O \subseteq 1 .. k
  BY DEF Chained
<1>3. k + 1 \in 1 .. Len(Free) /\ New = Free[k + 1] /\ k \in Nat
  BY <1>2, NewIs
<1>4. \A i \in O \ {j} : Free[i] \in Range(Free) \ {New, left}
  <2>1. \A i \in O \ {j} : i \in 1 .. Len(Free) /\ i # k + 1 /\ i # j /\ j \in 1 .. Len(Free)
    BY <1>2
  <2>2. \A i \in O : Free[i] \in Range(Free)
    BY <1>2, SceneFacts DEF Inv, Range
  <2>3. QED
    BY <1>1, <1>3, <2>1, <2>2, SceneFacts DEF Inv
<1>5. Chained(O \ {j}, k + 1)'
  BY <1>1, <1>4
<1>6. (1 .. k) \ O \subseteq (1 .. k + 1) \ (O \ {j})
  BY <1>3
<1>7. ActedClosed(O \ {j}, k + 1)'
  BY <1>6, Same DEF ActedClosed
<1>8. QED
  BY <1>5, <1>7

\* So does the > of a call, which makes its < the last one that was closed.
LEMMA ActivateWritten ==
    ASSUME Inv, phase = "build", UNCHANGED scene,
           NEW k, NEW O, Chained(O, k), ActedClosed(O, k), left # Null,
           New # FreeHead, current' = New, left' = code[left], acted' = left,
           \A c \in Range(Free) \ {New, acted} : code'[c] = code[c]
    PROVE  \E j \in O : Chained(O \ {j}, k + 1)' /\ ActedClosed(O \ {j}, k + 1)'
<1>1. PICK j \in O :
         /\ left = Free[j]
         /\ (\A i \in O \ {j} : code'[Free[i]] = code[Free[i]]) => Chained(O \ {j}, k + 1)'
  BY ClosedChain
<1>2. k \in 1 .. Len(Free) /\ current = Free[k] /\ O \subseteq 1 .. k
  BY DEF Chained
<1>3. k + 1 \in 1 .. Len(Free) /\ New = Free[k + 1] /\ k \in Nat
  BY <1>2, NewIs
<1>4. \A i \in O : Free[i] \in Range(Free) /\ Free[i] # New
  <2>1. \A i \in O : i \in 1 .. Len(Free) /\ i # k + 1
    BY <1>2
  <2>2. QED
    BY <1>3, <2>1, SceneFacts DEF Inv, Range
<1>5. \A i \in O : Free[i] # acted
  <2>1. CASE acted = Quasi
    BY <1>2, <2>1, SceneFacts DEF Inv
  <2>2. CASE \E a \in (1 .. k) \ O : acted = Free[a]
    <3>1. PICK a \in (1 .. k) \ O : acted = Free[a]
      BY <2>2
    <3>2. \A i \in O : i \in 1 .. Len(Free) /\ a \in 1 .. Len(Free) /\ i # a
      BY <1>2
    <3>3. QED
      BY <3>1, <3>2, SceneFacts DEF Inv
  <2>3. QED
    BY <2>1, <2>2 DEF ActedClosed
<1>6. Chained(O \ {j}, k + 1)'
  BY <1>1, <1>4, <1>5
<1>7. j \in (1 .. k + 1) \ (O \ {j})
  BY <1>2
<1>8. ActedClosed(O \ {j}, k + 1)'
  BY <1>1, <1>7, Same DEF ActedClosed
<1>9. QED
  BY <1>6, <1>8

\* The places of the open brackets are finitely many.
LEMMA PlacesFinite ==
    ASSUME NEW k \in Nat, NEW O, O \subseteq 1 .. k
    PROVE  IsFiniteSet(O) /\ Cardinality(O) \in Nat
<1>1. IsFiniteSet(1 .. k)
  BY FS_Interval
<1>2. IsFiniteSet(O)
  BY <1>1, FS_Subset
<1>3. QED
  BY <1>2, FS_CardinalityType

\* What is left to copy while nothing is copied, and when a copy begins.
LEMMA NothingDeep ==
    ASSUME UNCHANGED scene, NEW k \in Nat, NEW O, O \subseteq 1 .. k, copying' = <<>>
    PROVE  copying' \in Seq(Used') /\ CopyDeep(O)'
<1> DEFINE d == [i \in 1 .. 1 |-> 0]
<1>1. Deep(<<>>, d) /\ d[1] = 0
  <2>1. Len(<<>>) = 0 /\ Len(<<>>) + 1 = 1 /\ 1 .. Len(<<>>) = {} /\ 1 \in 1 .. 1
    OBVIOUS
  <2>2. d \in [1 .. 1 -> Nat] /\ d[1] = 0
    BY <2>1
  <2> HIDE DEF d
  <2>3. QED
    BY <2>1, <2>2 DEF Deep
<1>2. Cardinality(O) \in Nat
  BY PlacesFinite
<1> HIDE DEF d
<1>3. Deep(<<>>, d)' /\ d[1] <= Cardinality(O)
  BY <1>1, <1>2, Same
<1>4. QED
  BY <1>3 DEF CopyDeep

\* The invariant after a cell was written while nothing is copied.
LEMMA WrittenStep ==
    ASSUME Inv, phase = "build", phase' = "build", OnlyFree, UNCHANGED <<scene, heap>>,
           copying' = <<>>, NEW k, NEW O, Chained(O, k)', ActedClosed(O, k)'
    PROVE  Inv'
<1>1. k \in Nat /\ O \subseteq 1 .. k
  BY DEF Chained
<1>2. copying' \in Seq(Used') /\ CopyDeep(O)'
  BY <1>1, NothingDeep
<1>3. Writing'
  BY <1>2 DEF Writing
<1>4. QED
  BY <1>3, Stays

\* One lemma for each operation of a right side: it preserves the invariant.
LEMMA BeginStep == ASSUME Inv, BeginRightPart, UNCHANGED scene PROVE Inv'
<1>1. /\ phase = "start" /\ current' = FreeHead /\ acted' = Quasi /\ left' = Null
      /\ phase' = "build" /\ UNCHANGED <<heap, tag, code, stack, copying>>
  BY DEF BeginRightPart
<1>2. copying' = <<>>
  BY <1>1 DEF Inv
<1>3. 1 \in 1 .. Len(Free) /\ current' = Free[1]
  BY <1>1, SceneFacts DEF Inv, FreeHead
<1>4. Chained({}, 1)'
  <2>1. EnclosedBy({}, 1 + 1, Null)
    BY DEF EnclosedBy
  <2>2. QED
    BY <1>1, <1>3, <2>1, Same DEF Chained
<1>5. ActedClosed({}, 1)'
  BY <1>1 DEF ActedClosed
<1>6. copying' \in Seq(Used') /\ CopyDeep({})'
  <2>1. 1 \in Nat /\ {} \subseteq 1 .. 1
    OBVIOUS
  <2>2. QED
    BY <1>2, <2>1, NothingDeep
<1>7. Writing'
  BY <1>4, <1>5, <1>6 DEF Writing
<1>8. Used' = Used /\ Tag' = Tag /\ Code' = Code /\ Original' = Original
  BY DEF Used, Tag, Code, Original, Free, Field, BoxLists
<1>9. Untouched'
  BY <1>1, <1>8 DEF Inv, Untouched
<1>10. QED
  BY <1>1, <1>7, <1>8, <1>9 DEF Inv

\* The places of the cells a step of the right side deals with.
LEMMA Building1 ==
    ASSUME Inv, phase = "build"
    PROVE  \E k, O : /\ Chained(O, k) /\ ActedClosed(O, k) /\ CopyDeep(O)
                     /\ k \in 1 .. Len(Free) /\ current = Free[k]
BY DEF Inv, Writing, Chained

\* A cell that is written is a free one.
LEMMA NewFree ==
    ASSUME Inv, phase = "build", New # FreeHead
    PROVE  New \in Range(Free) /\ New \in Cell
<1>1. PICK k, O : k \in 1 .. Len(Free) /\ current = Free[k]
  BY Building1
<1>2. k + 1 \in 1 .. Len(Free) /\ New = Free[k + 1]
  BY <1>1, NewIs
<1>3. QED
  BY <1>2, SceneFacts DEF Inv, Range

\* So are the brackets that are open.
LEMMA LeftFree ==
    ASSUME Inv, phase = "build", left # Null
    PROVE  left \in Range(Free) /\ left \in Cell
<1>1. PICK k, O : Chained(O, k)
  BY Building1
<1>2. PICK j \in O : left = Free[j]
  BY <1>1 DEF Chained, EnclosedBy
<1>3. j \in 1 .. Len(Free)
  BY <1>1 DEF Chained
<1>4. QED
  BY <1>2, <1>3, SceneFacts DEF Inv, Range

\* The < that was closed last is a cell of the free list or there is none.
LEMMA ActedFree ==
    ASSUME Inv, phase = "build"
    PROVE  acted \in Range(Free) \cup {Quasi} /\ acted \in Cell \cup {Quasi}
<1>1. PICK k, O : ActedClosed(O, k) /\ k \in 1 .. Len(Free)
  BY Building1
<1>2. \A a \in 1 .. k : a \in 1 .. Len(Free)
  BY <1>1
<1>3. QED
  BY <1>1, <1>2, SceneFacts DEF Inv, Range, ActedClosed

\* Writing a symbol preserves the invariant.
LEMMA WriteStep == ASSUME Inv, Write, UNCHANGED scene PROVE Inv'
<1>1. phase = "build" /\ copying = <<>>
  BY DEF Write, Building
<1>2. CASE New = FreeHead
  BY <1>1, <1>2, LackStep DEF Write
<1>3. CASE New # FreeHead
  <2>1. PICK s : Put(s.tag, s.code) /\ UNCHANGED <<left, copying>>
    BY <1>3 DEF Write
  <2>2. New \in Range(Free) /\ New \in Cell
    BY <1>1, <1>3, NewFree
  <2>3. /\ tag' = [tag EXCEPT ![New] = s.tag] /\ code' = [code EXCEPT ![New] = s.code]
        /\ current' = New /\ UNCHANGED <<heap, acted, phase>>
    BY <2>1 DEF Put
  <2>4. OnlyFree
    BY <2>2, <2>3 DEF OnlyFree, Inv
  <2>5. PICK k, O : Chained(O, k) /\ ActedClosed(O, k)
    BY <1>1, Building1
  <2>6. \A c \in Range(Free) \ {New} : code'[c] = code[c]
    BY <2>3 DEF Inv
  <2>7. Chained(O, k + 1)' /\ ActedClosed(O, k + 1)'
    BY <1>1, <1>3, <2>1, <2>3, <2>5, <2>6, PlainWritten
  <2>8. QED
    BY <1>1, <2>1, <2>3, <2>4, <2>7, WrittenStep
<1>4. QED
  BY <1>2, <1>3

\* Opening a bracket preserves it.
LEMMA OpenStep == ASSUME Inv, Open, UNCHANGED scene PROVE Inv'
<1>1. phase = "build" /\ copying = <<>>
  BY DEF Open, Building
<1>2. CASE New = FreeHead
  BY <1>1, <1>2, LackStep DEF Open
<1>3. CASE New # FreeHead
  <2>1. Put(tag[New], left) /\ left' = New /\ UNCHANGED copying
    BY <1>3 DEF Open
  <2>2. New \in Range(Free) /\ New \in Cell
    BY <1>1, <1>3, NewFree
  <2>3. /\ tag' = [tag EXCEPT ![New] = tag[New]] /\ code' = [code EXCEPT ![New] = left]
        /\ current' = New /\ UNCHANGED <<heap, acted, phase>>
    BY <2>1 DEF Put
  <2>4. OnlyFree
    BY <2>2, <2>3 DEF OnlyFree, Inv
  <2>5. PICK k, O : Chained(O, k) /\ ActedClosed(O, k)
    BY <1>1, Building1
  <2>6. code'[New] = left /\ \A c \in Range(Free) \ {New} : code'[c] = code[c]
    BY <2>2, <2>3 DEF Inv
  <2>7. Chained(O \cup {k + 1}, k + 1)' /\ ActedClosed(O \cup {k + 1}, k + 1)'
    BY <1>1, <1>3, <2>1, <2>3, <2>5, <2>6, OpenWritten
  <2>8. QED
    BY <1>1, <2>1, <2>3, <2>4, <2>7, WrittenStep
<1>4. QED
  BY <1>2, <1>3

\* Closing a bracket preserves it.
LEMMA CloseStep == ASSUME Inv, Close, UNCHANGED scene PROVE Inv'
<1>1. phase = "build" /\ copying = <<>> /\ left # Null
  BY DEF Close, Building
<1>2. CASE New = FreeHead
  BY <1>1, <1>2, LackStep DEF Close
<1>3. CASE New # FreeHead
  <2>1. /\ tag' = [tag EXCEPT ![left] = "LB", ![New] = "RB"]
        /\ code' = [code EXCEPT ![left] = New, ![New] = left]
        /\ left' = code[left] /\ current' = New
        /\ UNCHANGED <<heap, acted, stack, copying, phase>>
    BY <1>3 DEF Close
  <2>2. New \in Range(Free) /\ New \in Cell /\ left \in Range(Free) /\ left \in Cell
    BY <1>1, <1>3, NewFree, LeftFree
  <2>3. OnlyFree
    BY <2>1, <2>2 DEF OnlyFree, Inv
  <2>4. PICK k, O : Chained(O, k) /\ ActedClosed(O, k)
    BY <1>1, Building1
  <2>5. \A c \in Range(Free) \ {New, left} : code'[c] = code[c]
    <3>1. code = [c \in Cell \cup {Quasi} |-> code[c]] /\ Range(Free) \subseteq Cell
      BY SceneFacts DEF Inv, Range
    <3>2. QED
      BY <2>1, <3>1
  <2>6. PICK j \in O : Chained(O \ {j}, k + 1)' /\ ActedClosed(O \ {j}, k + 1)'
    BY <1>1, <1>3, <2>1, <2>4, <2>5, CloseWritten
  <2>7. QED
    BY <1>1, <2>1, <2>3, <2>6, WrittenStep
<1>4. QED
  BY <1>2, <1>3

\* Closing a call preserves it.
LEMMA ActivateStep == ASSUME Inv, Activate, UNCHANGED scene PROVE Inv'
<1>1. phase = "build" /\ copying = <<>> /\ left # Null
  BY DEF Activate, Building
<1>2. CASE New = FreeHead
  BY <1>1, <1>2, LackStep DEF Activate
<1>3. CASE New # FreeHead
  <2>1. /\ tag' = [tag EXCEPT ![New] = "D", ![acted] = "K"]
        /\ code' = [code EXCEPT ![New] = left, ![acted] = New]
        /\ acted' = left /\ left' = code[left] /\ current' = New
        /\ UNCHANGED <<heap, stack, copying, phase>>
    BY <1>3 DEF Activate
  <2>2. /\ New \in Range(Free) /\ New \in Cell
        /\ acted \in Range(Free) \cup {Quasi} /\ acted \in Cell \cup {Quasi}
    BY <1>1, <1>3, NewFree, ActedFree
  <2>3. OnlyFree
    <3>1. Quasi \notin Cell
      BY RightPartAssumption
    <3>2. QED
      BY <2>1, <2>2, <3>1 DEF OnlyFree, Inv
  <2>4. PICK k, O : Chained(O, k) /\ ActedClosed(O, k)
    BY <1>1, Building1
  <2>5. \A c \in Range(Free) \ {New, acted} : code'[c] = code[c]
    <3>1. code = [c \in Cell \cup {Quasi} |-> code[c]] /\ Range(Free) \subseteq Cell
      BY SceneFacts DEF Inv, Range
    <3>2. QED
      BY <2>1, <3>1
  <2>6. PICK j \in O : Chained(O \ {j}, k + 1)' /\ ActedClosed(O \ {j}, k + 1)'
    BY <1>1, <1>3, <2>1, <2>4, <2>5, ActivateWritten
  <2>7. QED
    BY <1>1, <2>1, <2>3, <2>6, WrittenStep
<1>4. QED
  BY <1>2, <1>3

\* Opening a call preserves it.
LEMMA OpenCallStep == ASSUME Inv, OpenCall, UNCHANGED scene PROVE Inv'
<1> DEFINE label == heap.next[New]
<1>1. phase = "build" /\ copying = <<>>
  BY DEF OpenCall, Building
<1>2. CASE New = FreeHead
  BY <1>1, <1>2, LackStep DEF OpenCall
<1>3. PICK k, O : /\ Chained(O, k) /\ ActedClosed(O, k)
                  /\ k \in 1 .. Len(Free) /\ current = Free[k]
  BY <1>1, Building1
<1>4. ASSUME New # FreeHead
      PROVE  /\ New \in Range(Free) /\ New \in Cell /\ k + 1 \in 1 .. Len(Free) /\ New = Free[k + 1]
             /\ label = IF k + 1 = Len(Free) THEN Free[1] ELSE Free[(k + 1) + 1]
  <2>1. k + 1 \in 1 .. Len(Free) /\ New = Free[k + 1]
    BY <1>1, <1>3, <1>4, NewIs
  <2>2. heap.next[Free[k + 1]] = IF k + 1 = Len(Free) THEN Free[1] ELSE Free[(k + 1) + 1]
    BY <1>1, <2>1, NextFree DEF Inv
  <2>3. QED
    BY <1>1, <1>4, <2>1, <2>2, NewFree
<1>5. CASE New # FreeHead /\ label = FreeHead
  <2>1. /\ phase' = "lack"
        /\ code' = [[code EXCEPT ![New] = left] EXCEPT ![Quasi] = RightD]
        /\ UNCHANGED <<heap, tag>>
    BY <1>5 DEF OpenCall
  <2>2. code = [c \in Cell \cup {Quasi} |-> code[c]] /\ DOMAIN code = Cell \cup {Quasi}
        /\ tag = [c \in Cell \cup {Quasi} |-> tag[c]] /\ DOMAIN tag = Cell \cup {Quasi}
        /\ Quasi \notin Cell
    BY RightPartAssumption DEF Inv
  <2>3. OnlyFree /\ code'[Quasi] = RightD
    BY <1>4, <1>5, <2>1, <2>2 DEF OnlyFree
  <2>4. QED
    BY <1>1, <2>1, <2>3, Stays
<1>6. CASE New # FreeHead /\ label # FreeHead
  <2>1. PICK s : /\ code' = [[code EXCEPT ![New] = left] EXCEPT ![label] = s]
                 /\ tag' = [tag EXCEPT ![label] = "F"]
                 /\ left' = New /\ current' = label
                 /\ UNCHANGED <<heap, acted, stack, copying, phase>>
    BY <1>6 DEF OpenCall
  <2>2. (k + 1) + 1 \in 1 .. Len(Free) /\ label = Free[(k + 1) + 1] /\ k + 1 # (k + 1) + 1
    <3> DEFINE l == Len(Free)
               n == k + 1
    <3>1. n \in 1 .. l /\ l \in Nat
      BY <1>4, <1>6, SceneFacts DEF Inv
    <3>2. n # l
      BY <1>4, <1>6 DEF FreeHead
    <3> HIDE DEF l, n
    <3>3. n + 1 \in 1 .. l /\ n # n + 1
      BY <3>1, <3>2
    <3>4. QED
      BY <1>4, <1>6, <3>2, <3>3 DEF l, n
  <2>3. label \in Range(Free) /\ label \in Cell /\ label # New
    BY <1>4, <1>6, <2>2, SceneFacts DEF Inv, Range
  <2>4. /\ code = [c \in Cell \cup {Quasi} |-> code[c]] /\ DOMAIN code = Cell \cup {Quasi}
        /\ tag = [c \in Cell \cup {Quasi} |-> tag[c]] /\ DOMAIN tag = Cell \cup {Quasi}
        /\ Range(Free) \subseteq Cell
    BY SceneFacts DEF Inv, Range
  <2> HIDE DEF label
  <2>5. OnlyFree
    BY <1>4, <1>6, <2>1, <2>3, <2>4 DEF OnlyFree
  <2>6. code'[New] = left /\ \A c \in Range(Free) \ {New, label} : code'[c] = code[c]
    BY <1>4, <1>6, <2>1, <2>3, <2>4
  <2>7. Chained(O \cup {k + 1}, (k + 1) + 1)' /\ ActedClosed(O \cup {k + 1}, (k + 1) + 1)'
    BY <1>1, <1>3, <1>4, <1>6, <2>1, <2>2, <2>6, CallWritten
  <2>8. QED
    BY <1>1, <2>1, <2>5, <2>7, WrittenStep
<1>7. QED
  BY <1>2, <1>5, <1>6

\* A transplantation is only planned.
LEMMA TransplantStep == ASSUME Inv, Transplant, UNCHANGED scene PROVE Inv'
<1>1. /\ phase = "build" /\ copying = <<>>
      /\ UNCHANGED <<phase, heap, tag, code, current, acted, left, copying>>
  BY DEF Transplant, Building
<1>2. OnlyFree
  BY <1>1 DEF OnlyFree, Inv
<1>3. PICK k, O : Chained(O, k) /\ ActedClosed(O, k)
  BY <1>1, Building1
<1>4. Chained(O, k)' /\ ActedClosed(O, k)'
  BY <1>1, <1>3, Same DEF Chained, ActedClosed
<1>5. QED
  BY <1>1, <1>2, <1>4, WrittenStep

\* Beginning a copy of a part of the argument preserves it.
LEMMA CopyStep == ASSUME Inv, Copy, UNCHANGED scene PROVE Inv'
<1>1. PICK v \in Variable : copying' = Part(v)
  BY DEF Copy
<1>2. phase = "build" /\ UNCHANGED <<phase, heap, tag, code, current, acted, left>>
  BY DEF Copy, Building
<1>3. OnlyFree
  BY <1>2 DEF OnlyFree, Inv
<1>4. PICK k, O : Chained(O, k) /\ ActedClosed(O, k)
  BY <1>2, Building1
<1>5. Chained(O, k)' /\ ActedClosed(O, k)'
  BY <1>2, <1>4, Same DEF Chained, ActedClosed
<1>6. copying' \in Seq(Used') /\ CopyDeep(O)'
  <2>1. Part(v) \in Seq(Used) /\ \E d : Deep(Part(v), d) /\ d[1] = 0
    BY PartIs DEF Inv
  <2>2. PICK d : Deep(Part(v), d) /\ d[1] = 0
    BY <2>1
  <2>3. Cardinality(O) \in Nat
    BY <1>4, PlacesFinite DEF Chained
  <2>4. Tag' = Tag
    BY DEF Tag
  <2>5. Deep(copying, d)'
    BY <1>1, <2>2, <2>4 DEF Deep
  <2>6. copying' \in Seq(Used')
    BY <1>1, <2>1, Same
  <2>7. QED
    BY <2>2, <2>3, <2>5, <2>6 DEF CopyDeep
<1>7. Writing'
  BY <1>5, <1>6 DEF Writing
<1>8. QED
  BY <1>2, <1>3, <1>7, Stays

\* What is left to copy when a cell of the part has been copied, n being the number of
\* brackets that are open then.
LEMMA DeepTail ==
    ASSUME NEW C, NEW s \in Seq(C), s # <<>>, NEW d, Deep(s, d),
           NEW a \in Nat, d[1] <= a
    PROVE  /\ Head(s) \in C /\ Tail(s) \in Seq(C) /\ Tag[Head(s)] = "RB" => a > 0
           /\ \A n \in Nat : n = a + Change(Tag[Head(s)])
                                => \E e : Deep(Tail(s), e) /\ e[1] <= n
<1> DEFINE l == Len(s)
           w == Tail(s)
           e == [i \in 1 .. (l - 1) + 1 |-> d[i + 1]]
           t == Tag[Head(s)]
<1>1. l \in Nat /\ l > 0 /\ Len(w) = l - 1 /\ Head(s) = s[1] /\ Head(s) \in C /\ w \in Seq(C)
      /\ \A i \in 1 .. l - 1 : w[i] = s[i + 1]
  OBVIOUS
<1>2. d \in [1 .. l + 1 -> Nat] /\ \A i \in 1 .. l : d[i + 1] = d[i] + Change(Tag[s[i]])
  BY DEF Deep
<1> HIDE DEF l, w
<1>3. /\ 1 \in 1 .. l /\ 1 \in 1 .. l + 1 /\ 1 + 1 \in 1 .. l + 1 /\ 1 \in 1 .. (l - 1) + 1
      /\ \A i \in 1 .. (l - 1) + 1 : i + 1 \in 1 .. l + 1
      /\ \A i \in 1 .. l - 1 : /\ i + 1 \in 1 .. l /\ i \in 1 .. (l - 1) + 1
                               /\ i + 1 \in 1 .. (l - 1) + 1
  BY <1>1
<1>4. d[1] \in Nat /\ d[1 + 1] \in Nat /\ d[1 + 1] = d[1] + Change(t)
  BY <1>1, <1>2, <1>3
<1>5. e \in [1 .. (l - 1) + 1 -> Nat] /\ e[1] = d[1 + 1]
  BY <1>2, <1>3
<1>6. \A i \in 1 .. l - 1 : e[i + 1] = e[i] + Change(Tag[w[i]])
  BY <1>1, <1>2, <1>3
<1> HIDE DEF e
<1>7. Deep(w, e)
  BY <1>1, <1>5, <1>6 DEF Deep
<1> HIDE DEF t
<1>8. t = "RB" => a > 0
  BY <1>4 DEF Change
<1>9. \A n \in Nat : n = a + Change(t) => e[1] <= n
  BY <1>4, <1>5 DEF Change
<1>10. QED
  BY <1>1, <1>7, <1>8, <1>9 DEF w, t

\* Copying a cell preserves it.
LEMMA CopyCellStep == ASSUME Inv, CopyCell, UNCHANGED scene PROVE Inv'
<1> DEFINE c == Head(copying)
<1>1. phase = "build" /\ copying # <<>>
  BY DEF CopyCell
<1>2. CASE New = FreeHead
  BY <1>1, <1>2, LackStep DEF CopyCell
<1>3. CASE New # FreeHead
  <2>1. /\ CASE tag[c] = "LB" -> code' = [code EXCEPT ![New] = left] /\ left' = New /\ UNCHANGED tag
             [] tag[c] = "RB" -> /\ code' = [code EXCEPT ![New] = left, ![left] = New]
                                 /\ tag' = [tag EXCEPT ![New] = "RB", ![left] = "LB"]
                                 /\ left' = code[left]
             [] OTHER -> /\ code' = [code EXCEPT ![New] = code[c]]
                         /\ tag' = [tag EXCEPT ![New] = tag[c]] /\ UNCHANGED left
        /\ current' = New /\ copying' = Tail(copying)
        /\ UNCHANGED <<heap, acted, stack, phase>>
    BY <1>3 DEF CopyCell
  <2>2. PICK k, O : Chained(O, k) /\ ActedClosed(O, k) /\ CopyDeep(O)
    BY <1>1, Building1
  <2>3. O \subseteq 1 .. k /\ k \in Nat /\ k \in 1 .. Len(Free) /\ current = Free[k]
    BY <2>2 DEF Chained
  <2>4. IsFiniteSet(O) /\ Cardinality(O) \in Nat
    BY <2>3, PlacesFinite
  <2>5. PICK d : Deep(copying, d) /\ d[1] <= Cardinality(O)
    BY <2>2 DEF CopyDeep
  <2>6. copying \in Seq(Used)
    BY <1>1 DEF Inv, Writing
  <2>7. c \in Used /\ Tail(copying) \in Seq(Used) /\ (Tag[c] = "RB" => Cardinality(O) > 0)
    BY <1>1, <2>4, <2>5, <2>6, DeepTail
  <2>8. \A n \in Nat : n = Cardinality(O) + Change(Tag[c])
                          => \E e : Deep(Tail(copying), e) /\ e[1] <= n
    BY <1>1, <2>4, <2>5, <2>6, DeepTail, Zenon
  <2>9. tag[c] = Tag[c]
    BY <1>1, <2>7 DEF Inv, Untouched
  <2>10. /\ code = [e \in Cell \cup {Quasi} |-> code[e]] /\ DOMAIN code = Cell \cup {Quasi}
        /\ tag = [e \in Cell \cup {Quasi} |-> tag[e]] /\ DOMAIN tag = Cell \cup {Quasi}
        /\ Range(Free) \subseteq Cell /\ New \in Range(Free) /\ New \in Cell
    BY <1>1, <1>3, NewFree, SceneFacts DEF Inv, Range
  <2>11. ASSUME NEW P, NEW n, Chained(P, n)', ActedClosed(P, n)', OnlyFree,
                Cardinality(P) \in Nat, Cardinality(P) = Cardinality(O) + Change(Tag[c])
         PROVE  Inv'
    <3>1. PICK e : Deep(Tail(copying), e) /\ e[1] <= Cardinality(P)
      BY <2>8, <2>11
    <3>2. Tag' = Tag
      BY DEF Tag
    <3>3. Deep(copying, e)'
      <4> DEFINE w == Tail(copying)
      <4>1. Deep(w, e) /\ copying' = w
        BY <2>1, <3>1
      <4> HIDE DEF w
      <4>2. QED
        BY <3>2, <4>1 DEF Deep
    <3>4. copying' \in Seq(Used')
      BY <2>1, <2>7, Same
    <3>5. Writing'
      BY <2>11, <3>1, <3>3, <3>4 DEF CopyDeep, Writing
    <3>6. QED
      BY <1>1, <2>1, <2>11, <3>5, Stays
  <2> HIDE DEF c
  <2>12. CASE tag[c] = "LB"
    <3>1. code' = [code EXCEPT ![New] = left] /\ left' = New /\ UNCHANGED tag
      BY <2>1, <2>12
    <3>2. OnlyFree
      BY <2>10, <3>1 DEF OnlyFree
    <3>3. code'[New] = left /\ \A e \in Range(Free) \ {New} : code'[e] = code[e]
      BY <2>10, <3>1
    <3>4. Chained(O \cup {k + 1}, k + 1)' /\ ActedClosed(O \cup {k + 1}, k + 1)'
      BY <1>1, <1>3, <2>1, <2>2, <3>1, <3>3, OpenWritten
    <3>5. Cardinality(O \cup {k + 1}) = Cardinality(O) + 1
      <4>1. k + 1 \notin O
        BY <2>3
      <4>2. QED
        BY <2>4, <4>1, FS_AddElement
    <3>6. Cardinality(O \cup {k + 1}) \in Nat /\ Change(Tag[c]) = 1
      BY <2>4, <2>9, <2>12, <3>5 DEF Change
    <3>7. QED
      BY <2>11, <3>2, <3>4, <3>5, <3>6
  <2>13. CASE tag[c] = "RB"
    <3>1. /\ code' = [code EXCEPT ![New] = left, ![left] = New]
          /\ tag' = [tag EXCEPT ![New] = "RB", ![left] = "LB"] /\ left' = code[left]
      BY <2>1, <2>13
    <3>2. O # {}
      <4>1. Tag[c] = "RB"
        BY <2>9, <2>13
      <4>2. Cardinality(O) > 0
        BY <2>7, <4>1 DEF c
      <4>3. O = {} => Cardinality(O) = 0
        BY FS_EmptySet, Zenon
      <4>4. QED
        BY <4>2, <4>3
    <3>3. left # Null
      <4>1. \A i \in O : ~(i >= k + 1) /\ i \in 1 .. Len(Free)
        BY <2>3
      <4>2. \A i \in O : Free[i] # Null
        BY <4>1, SceneFacts DEF Inv
      <4>3. EnclosedBy(O, k + 1, left)
        BY <2>2 DEF Chained
      <4>4. QED
        BY <3>2, <4>1, <4>2, <4>3 DEF EnclosedBy
    <3>4. left \in Range(Free) /\ left \in Cell
      BY <1>1, <3>3, LeftFree
    <3>5. OnlyFree
      BY <2>10, <3>1, <3>4 DEF OnlyFree
    <3>6. \A e \in Range(Free) \ {New, left} : code'[e] = code[e]
      BY <2>10, <3>1
    <3>7. PICK j \in O : Chained(O \ {j}, k + 1)' /\ ActedClosed(O \ {j}, k + 1)'
      BY <1>1, <1>3, <2>1, <2>2, <3>1, <3>3, <3>6, CloseWritten
    <3>8. Cardinality(O \ {j}) = Cardinality(O) - 1
      <4>1. j \in O
        BY <3>7
      <4>2. QED
        BY <2>4, <4>1, FS_RemoveElement, Zenon
    <3>9. Cardinality(O) > 0 /\ Change(Tag[c]) = -1
      BY <2>7, <2>9, <2>13 DEF Change
    <3>10. Cardinality(O \ {j}) \in Nat /\ Cardinality(O \ {j}) = Cardinality(O) + Change(Tag[c])
      BY <2>4, <3>8, <3>9
    <3>11. QED
      BY <2>11, <3>5, <3>7, <3>10
  <2>14. CASE tag[c] # "LB" /\ tag[c] # "RB"
    <3>1. /\ code' = [code EXCEPT ![New] = code[c]] /\ tag' = [tag EXCEPT ![New] = tag[c]]
          /\ UNCHANGED left
      BY <2>1, <2>14
    <3>2. OnlyFree
      BY <2>10, <3>1 DEF OnlyFree
    <3>3. \A e \in Range(Free) \ {New} : code'[e] = code[e]
      BY <2>10, <3>1
    <3>4. Chained(O, k + 1)' /\ ActedClosed(O, k + 1)'
      BY <1>1, <1>3, <2>1, <2>2, <3>1, <3>3, PlainWritten
    <3>5. Change(Tag[c]) = 0 /\ Cardinality(O) = Cardinality(O) + 0
      BY <2>4, <2>9, <2>14 DEF Change
    <3>6. QED
      BY <2>4, <2>11, <3>2, <3>4, <3>5
  <2>15. QED
    BY <2>12, <2>13, <2>14
<1>4. QED
  BY <1>2, <1>3

\* The step ends: from here on nothing is claimed but that the infos are those of cells.
LEMMA EndStep == ASSUME Inv, EndOfSentence \/ SwapReference, UNCHANGED scene PROVE Inv'
<1>1. phase' = "done"
  BY DEF EndOfSentence, SwapReference
<1>2. \E a, b, e, f : /\ code' = [code EXCEPT ![a] = b]
                      /\ tag' = [tag EXCEPT ![e] = f] \/ UNCHANGED tag
  BY DEF EndOfSentence, SwapReference
<1>3. QED
  BY <1>1, <1>2 DEF Inv

\* Every step preserves the invariant.
LEMMA InvStep == Inv /\ [Next]_vars => Inv'
<1> SUFFICES ASSUME Inv, [Next]_vars PROVE Inv'
  OBVIOUS
<1>1. CASE UNCHANGED vars
  <2>1. \/ phase # "build"
        \/ /\ phase = "build"
           /\ OnlyFree /\ UNCHANGED <<scene, heap, phase, current, left, acted, copying, code>>
    BY <1>1 DEF vars, OnlyFree, Inv
  <2>2. UNCHANGED <<scene, heap, phase, current, left, acted, copying, code, tag>>
    BY <1>1 DEF vars
  <2>3. Used' = Used /\ Tag' = Tag /\ Code' = Code /\ RightD' = RightD /\ Original' = Original
    BY <2>2 DEF Used, Tag, Code, RightD, Original, Free, Field, BoxLists, Argument, Place
  <2>4. Untouched' <=> Untouched
    BY <2>2, <2>3 DEF Untouched
  <2>5. Writing' <=> Writing
    BY <2>2, <2>3, Same DEF Writing, Chained, ActedClosed, CopyDeep
  <2>6. QED
    BY <2>2, <2>3, <2>4, <2>5 DEF Inv
<1>2. CASE Next
  BY <1>2, BeginStep, WriteStep, OpenStep, OpenCallStep, CloseStep, ActivateStep,
     TransplantStep, CopyStep, CopyCellStep, EndStep DEF Next
<1>3. QED
  BY <1>1, <1>2

\* LACK: a right side that finds no free cell, however much of its result it had written,
\* leaves the view field, the boxes and the chain of calls as they were, for every memory
\* a step may begin in (refal_run()).
THEOREM NothingLeftBehind == Spec => []LackHarmless
<1>1. Inv => LackHarmless
  BY DEF Inv, Untouched, LackHarmless
<1>2. QED
  BY <1>1, InitStep, InvStep, PTL DEF Spec
-----------------------------------------------------------------------------
(* The lists that a step of a right side finds, and those that it leaves *)

\* The lists of a scene with the cells that are in none of them, each a list of its own.
Alone == {<<c>> : c \in Cell \ (Used \cup Range(Free))}
AllLists == BoxLists \cup {Field, Free} \cup Alone

\* Every cell is in just one of these.
LEMMA AllListsAre ==
    ASSUME scene \in Scenes
    PROVE  /\ \A w \in AllLists : /\ w \in Seq(Cell) /\ Len(w) \in Nat /\ Len(w) > 0
                                  /\ DOMAIN w = 1 .. Len(w)
                                  /\ \A i, j \in 1 .. Len(w) : w[i] = w[j] => i = j
           /\ \A w, z \in AllLists : \A i \in 1 .. Len(w), j \in 1 .. Len(z) :
                 w[i] = z[j] => w = z
           /\ \A c \in Cell : \E w \in AllLists : \E i \in 1 .. Len(w) : w[i] = c
           /\ Free \notin BoxLists \cup {Field} /\ Field \notin BoxLists
<1>1. /\ Free \notin BoxLists \cup {Field} /\ Field \notin BoxLists
      /\ \A w \in Lists : w \in Seq(Cell) /\ w # <<>> /\ IsInjective(w)
      /\ \A w, z \in Lists : w = z \/ Range(w) \cap Range(z) = {}
  BY RightPartAssumption DEF Lists, BoxLists, Field, Free
<1> DEFINE O == Cell \ (Used \cup Range(Free))
<1>2. AllLists = Lists \cup Alone /\ Alone = {<<c>> : c \in O} /\ O \subseteq Cell
  BY DEF AllLists, Lists, Alone
<1>3. \A w \in Lists : Range(w) \subseteq Used \cup Range(Free)
  BY DEF Used, Lists
<1>4. \A c \in Used \cup Range(Free) : \E w \in Lists : c \in Range(w)
  BY DEF Used, Lists
<1>5. \A c \in O : \A w \in Lists : c \notin Range(w)
  BY <1>3
<1> HIDE DEF O
<1>6. \A w \in Alone : Len(w) = 1 /\ w \in Seq(Cell) /\ w[1] \in O /\ DOMAIN w = 1 .. 1 /\ w = <<w[1]>>
  <2>1. ASSUME NEW w \in Alone
        PROVE  Len(w) = 1 /\ w \in Seq(Cell) /\ w[1] \in O /\ DOMAIN w = 1 .. 1 /\ w = <<w[1]>>
    <3>1. PICK c \in O : w = <<c>>
      BY <1>2
    <3>2. c \in Cell
      BY <1>2
    <3>3. QED
      BY <3>1, <3>2
  <2>2. QED
    BY <2>1
<1>7. \A w \in Lists : Len(w) \in Nat /\ Len(w) > 0 /\ DOMAIN w = 1 .. Len(w)
  BY <1>1
<1>8. ASSUME NEW w \in AllLists
      PROVE  /\ w \in Seq(Cell) /\ Len(w) \in Nat /\ Len(w) > 0 /\ DOMAIN w = 1 .. Len(w)
             /\ \A i, j \in 1 .. Len(w) : w[i] = w[j] => i = j
  <2>1. CASE w \in Lists
    <3>1. w \in Seq(Cell) /\ Len(w) \in Nat /\ Len(w) > 0 /\ DOMAIN w = 1 .. Len(w)
      BY <1>1, <1>7, <2>1
    <3>2. IsInjective(w)
      BY <1>1, <2>1
    <3>3. \A i, j \in 1 .. Len(w) : w[i] = w[j] => i = j
      BY <3>1, <3>2 DEF IsInjective
    <3>4. QED
      BY <3>1, <3>3
  <2>2. CASE w \in Alone
    BY <1>6, <2>2
  <2>3. QED
    BY <1>2, <2>1, <2>2
<1>9. ASSUME NEW w \in AllLists, NEW z \in AllLists,
             NEW i \in 1 .. Len(w), NEW j \in 1 .. Len(z), w[i] = z[j]
      PROVE  w = z
  <2>1. w[i] \in Range(w) /\ z[j] \in Range(z)
    BY <1>8 DEF Range
  <2>2. CASE w \in Lists /\ z \in Lists
    BY <1>1, <1>9, <2>1, <2>2
  <2>3. CASE w \in Lists /\ z \in Alone
    <3>1. z[j] \in O
      BY <1>6, <2>3
    <3>2. QED
      BY <1>5, <1>9, <2>1, <2>3, <3>1
  <2>4. CASE w \in Alone /\ z \in Lists
    <3>1. w[i] \in O
      BY <1>6, <2>4
    <3>2. QED
      BY <1>5, <1>9, <2>1, <2>4, <3>1
  <2>5. CASE w \in Alone /\ z \in Alone
    <3>1. Len(w) = 1 /\ Len(z) = 1 /\ w = <<w[1]>> /\ z = <<z[1]>>
      BY <1>6, <2>5
    <3>2. i = 1 /\ j = 1
      BY <3>1
    <3>3. w[1] = z[1]
      BY <1>9, <3>2
    <3>4. QED
      BY <3>1, <3>3
  <2>6. QED
    BY <1>2, <2>2, <2>3, <2>4, <2>5
<1>10. ASSUME NEW c \in Cell PROVE \E w \in AllLists : \E i \in 1 .. Len(w) : w[i] = c
  <2>1. CASE c \in Used \cup Range(Free)
    <3>1. PICK w \in Lists : c \in Range(w)
      BY <1>4, <2>1
    <3>2. \E i \in 1 .. Len(w) : w[i] = c
      BY <1>7, <3>1 DEF Range
    <3>3. QED
      BY <1>2, <3>2
  <2>2. CASE c \notin Used \cup Range(Free)
    <3>1. <<c>> \in Alone
      BY <2>2 DEF Alone
    <3>2. PICK w : w = <<c>>
      OBVIOUS
    <3>3. w \in AllLists /\ Len(w) = 1 /\ w[1] = c
      BY <1>2, <3>1, <3>2
    <3>4. 1 \in 1 .. Len(w)
      BY <3>3
    <3>5. QED
      BY <3>3, <3>4
  <2>3. QED
    BY <2>1, <2>2
<1>11. QED
  BY <1>1, <1>8, <1>9, <1>10

\* The memory at the beginning: every list is a ring in both directions.
LEMMA OriginalTurns ==
    ASSUME scene \in Scenes, NEW w \in AllLists, NEW k \in 1 .. Len(w)
    PROVE  /\ Original.next[w[k]] = IF k = Len(w) THEN w[1] ELSE w[k + 1]
           /\ Original.previous[w[k]] = IF k = 1 THEN w[Len(w)] ELSE w[k - 1]
<1> DEFINE list(c) == CHOOSE s \in AllLists : c \in Range(s)
           Turn(c, by) == LET s == list(c)
                              i == CHOOSE i \in DOMAIN s : s[i] = c
                          IN  s[((i - 1 + by) % Len(s)) + 1]
           c == w[k]
           l == Len(w)
<1>1. Original = [next |-> [e \in Cell |-> Turn(e, 1)],
                  previous |-> [e \in Cell |-> Turn(e, Len(list(e)) - 1)]]
  BY DEF Original, AllLists, Alone
<1>2. c \in Cell /\ c \in Range(w) /\ DOMAIN w = 1 .. l /\ l \in Nat /\ l > 0
  <2>1. w \in Seq(Cell) /\ DOMAIN w = 1 .. l /\ l \in Nat /\ l > 0
    BY AllListsAre
  <2>2. QED
    BY <2>1 DEF Range
<1>3. \A s \in AllLists : c \in Range(s) => s = w
  <2>1. ASSUME NEW s \in AllLists, c \in Range(s) PROVE s = w
    <3>1. PICK i \in 1 .. Len(s) : s[i] = w[k]
      BY <2>1, AllListsAre DEF Range
    <3>2. QED
      BY <3>1, AllListsAre
  <2>2. QED
    BY <2>1
<1>4. list(c) = w
  <2> HIDE DEF c
  <2>1. QED
    BY <1>2, <1>3
<1>5. (CHOOSE i \in DOMAIN w : w[i] = c) = k
  <2>1. \A i \in DOMAIN w : w[i] = c => i = k
    BY <1>2, AllListsAre
  <2>2. k \in DOMAIN w /\ w[k] = c
    BY <1>2
  <2> HIDE DEF c
  <2>3. QED
    BY <2>1, <2>2
<1>6. \A by : Turn(c, by) = w[((k - 1 + by) % l) + 1]
  <2> HIDE DEF c, list
  <2>1. QED
    BY <1>4, <1>5 DEF l
<1>7. /\ Original.next[c] = w[((k - 1 + 1) % l) + 1]
      /\ Original.previous[c] = w[((k - 1 + (l - 1)) % l) + 1]
  <2>1. /\ Original.next[c] = Turn(c, 1)
        /\ Original.previous[c] = Turn(c, Len(list(c)) - 1)
    <3> HIDE DEF c, list, Turn
    <3>1. QED
      BY <1>1, <1>2
  <2> HIDE DEF c, list, Turn
  <2>2. QED
    BY <1>4, <1>6, <2>1 DEF l
<1>8. k \in 1 .. l
  OBVIOUS
<1> HIDE DEF l, c
<1>9. (k - 1 + 1) % l = IF k = l THEN 0 ELSE k
  <2>1. k - 1 + 1 = k
    BY <1>8
  <2>2. CASE k = l
    BY <1>2, <1>8, <2>1, <2>2
  <2>3. CASE k # l
    BY <1>2, <1>8, <2>1, <2>3
  <2>4. QED
    BY <2>2, <2>3
<1>10. (k - 1 + (l - 1)) % l = IF k = 1 THEN l - 1 ELSE k - 2
  <2>1. CASE k = 1
    <3>1. k - 1 + (l - 1) = l - 1 /\ l - 1 \in Nat /\ l - 1 < l
      BY <1>2, <2>1
    <3>2. QED
      BY <1>2, <2>1, <3>1, SmallRemainder
  <2>2. CASE k # 1
    <3>1. /\ k - 2 \in Nat /\ k - 2 < l /\ k - 1 + (l - 1) = (k - 2) + l * 1
          /\ k - 1 + (l - 1) \in Int /\ k - 2 \in Int
      BY <1>2, <1>8, <2>2
    <3>2. (k - 1 + (l - 1)) % l = (k - 2) % l
      BY <1>2, <3>1, Congruent
    <3>3. QED
      BY <1>2, <2>2, <3>1, <3>2, SmallRemainder
  <2>3. QED
    BY <2>1, <2>2
<1>11. 0 + 1 = 1 /\ (l - 1) + 1 = l /\ (k - 2) + 1 = k - 1
  BY <1>2, <1>8
<1>12. QED
  BY <1>7, <1>9, <1>10, <1>11 DEF c, l

\* The heads of the lists of a scene, their cells, and the lists by their heads.
Tops == {w[1] : w \in Lists}
Listed == Used \cup Range(Free)
FirstLists == [h \in Tops |-> CHOOSE w \in Lists : w[1] = h]

\* What is said of a list is found by its head.
LEMMA FirstListsAre ==
    ASSUME scene \in Scenes
    PROVE  /\ \A w \in Lists : w[1] \in Tops /\ FirstLists[w[1]] = w
           /\ \A h \in Tops : FirstLists[h] \in Lists /\ FirstLists[h][1] = h
           /\ \A w \in Lists : w \in Seq(Listed)
           /\ Listed \subseteq Cell /\ Lists \subseteq AllLists
           /\ \A c \in Listed : \E w \in Lists : \E i \in 1 .. Len(w) : w[i] = c
           /\ View \in Tops /\ FreeHead \in Tops
           /\ FirstLists[View] = Field /\ FirstLists[FreeHead] = Free
<1>1. Lists \subseteq AllLists
  BY DEF Lists, AllLists
<1>2. \A w \in Lists : w[1] \in Tops
  BY DEF Tops
<1>3. ASSUME NEW w \in Lists, NEW z \in Lists, w[1] = z[1] PROVE w = z
  <2>1. Len(w) \in Nat /\ Len(w) > 0 /\ Len(z) \in Nat /\ Len(z) > 0
    BY <1>1, AllListsAre
  <2>2. 1 \in 1 .. Len(w) /\ 1 \in 1 .. Len(z)
    BY <2>1
  <2>3. QED
    BY <1>1, <1>3, <2>2, AllListsAre
<1>4. ASSUME NEW w \in Lists PROVE FirstLists[w[1]] = w
  <2>1. FirstLists[w[1]] = CHOOSE z \in Lists : z[1] = w[1]
    BY <1>2 DEF FirstLists
  <2>2. QED
    BY <1>3, <2>1
<1>5. ASSUME NEW h \in Tops PROVE FirstLists[h] \in Lists /\ FirstLists[h][1] = h
  BY <1>4 DEF Tops
<1>6. ASSUME NEW w \in Lists
      PROVE  w \in Seq(Cell) /\ DOMAIN w = 1 .. Len(w) /\ Range(w) \subseteq Listed
             /\ Range(w) \subseteq Cell
  <2>1. w \in Seq(Cell) /\ DOMAIN w = 1 .. Len(w)
    BY <1>1, AllListsAre
  <2>2. Range(w) \subseteq Listed
    BY DEF Listed, Lists, Used
  <2>3. QED
    BY <2>1, <2>2 DEF Range
<1>7. ASSUME NEW w \in Lists PROVE w \in Seq(Listed)
  <2>1. Len(w) \in Nat /\ DOMAIN w = 1 .. Len(w) /\ w \in Seq(Cell)
    BY <1>6
  <2>2. \A i \in 1 .. Len(w) : w[i] \in Listed
    BY <1>6, <2>1 DEF Range
  <2>3. w = [i \in 1 .. Len(w) |-> w[i]]
    BY <2>1
  <2>4. QED
    BY <2>1, <2>2, <2>3, SequenceIs
<1>8. Listed \subseteq Cell
  BY <1>6 DEF Listed, Lists, Used
<1>9. ASSUME NEW c \in Listed PROVE \E w \in Lists : \E i \in 1 .. Len(w) : w[i] = c
  <2>1. PICK w \in Lists : c \in Range(w)
    BY DEF Listed, Lists, Used
  <2>2. QED
    BY <1>6, <2>1 DEF Range
<1>10. Field \in Lists /\ Free \in Lists
  BY DEF Lists
<1>11. QED
  BY <1>1, <1>2, <1>4, <1>5, <1>7, <1>8, <1>9, <1>10 DEF View, FreeHead

\* A heap in which the cells of a scene are laid out in rings from the same heads.
Conserved(h) == /\ h \in Heap /\ DoublyLinked(h)
                /\ \E L : Laid(h.next, L, Tops, Listed)

\* In the memory at the beginning they are.
LEMMA OriginalIs ==
    ASSUME scene \in Scenes
    PROVE  /\ Original \in Heap /\ DoublyLinked(Original)
           /\ Laid(Original.next, FirstLists, Tops, Listed)
<1> DEFINE h == Original
<1>1. h = [next |-> h.next, previous |-> h.previous]
      /\ h.next = [c \in Cell |-> h.next[c]] /\ h.previous = [c \in Cell |-> h.previous[c]]
  BY DEF Original
<1>2. ASSUME NEW c \in Cell
      PROVE  /\ h.next[c] \in Cell /\ h.previous[c] \in Cell
             /\ h.previous[h.next[c]] = c /\ h.next[h.previous[c]] = c
  <2>1. PICK w \in AllLists : \E k \in 1 .. Len(w) : w[k] = c
    BY AllListsAre
  <2>2. PICK k \in 1 .. Len(w) : w[k] = c
    BY <2>1
  <2>3. /\ Len(w) \in Nat /\ Len(w) > 0 /\ 1 \in 1 .. Len(w) /\ Len(w) \in 1 .. Len(w)
        /\ \A i \in 1 .. Len(w) : w[i] \in Cell
    <3>1. w \in Seq(Cell) /\ Len(w) \in Nat /\ Len(w) > 0
      BY AllListsAre
    <3>2. QED
      BY <3>1
  <2>4. \A i \in 1 .. Len(w) :
           /\ h.next[w[i]] = IF i = Len(w) THEN w[1] ELSE w[i + 1]
           /\ h.previous[w[i]] = IF i = 1 THEN w[Len(w)] ELSE w[i - 1]
    BY OriginalTurns
  <2> HIDE DEF h
  <2>5. h.next[c] \in Cell /\ h.previous[h.next[c]] = c
    <3>1. CASE k = Len(w)
      <4>1. h.next[c] = w[1] /\ h.previous[w[1]] = w[k]
        BY <2>2, <2>3, <2>4, <3>1
      <4>2. QED
        BY <2>2, <2>3, <4>1
    <3>2. CASE k # Len(w)
      <4>1. k + 1 \in 1 .. Len(w) /\ k + 1 # 1 /\ (k + 1) - 1 = k
        BY <2>3, <3>2
      <4>2. h.next[c] = w[k + 1] /\ h.previous[w[k + 1]] = w[k]
        BY <2>2, <2>4, <3>2, <4>1
      <4>3. QED
        BY <2>2, <2>3, <4>1, <4>2
    <3>3. QED
      BY <3>1, <3>2
  <2>6. h.previous[c] \in Cell /\ h.next[h.previous[c]] = c
    <3>1. CASE k = 1
      <4>1. h.previous[c] = w[Len(w)] /\ h.next[w[Len(w)]] = w[k]
        BY <2>2, <2>3, <2>4, <3>1
      <4>2. QED
        BY <2>2, <2>3, <4>1
    <3>2. CASE k # 1
      <4>1. k - 1 \in 1 .. Len(w) /\ k - 1 # Len(w) /\ (k - 1) + 1 = k
        BY <2>3, <3>2
      <4>2. h.previous[c] = w[k - 1] /\ h.next[w[k - 1]] = w[k]
        BY <2>2, <2>4, <3>2, <4>1
      <4>3. QED
        BY <2>2, <2>3, <4>1, <4>2
    <3>3. QED
      BY <3>1, <3>2
  <2>7. QED
    BY <2>5, <2>6
<1> HIDE DEF h
<1>3. h \in Heap
  <2>1. h.next \in [Cell -> Cell] /\ h.previous \in [Cell -> Cell]
    BY <1>1, <1>2
  <2>2. QED
    BY <1>1, <2>1 DEF Heap
<1>4. DoublyLinked(h)
  BY <1>2 DEF DoublyLinked
<1> DEFINE L == FirstLists
<1>5. L \in [Tops -> Seq(Listed)]
  <2>1. L = [t \in Tops |-> L[t]]
    BY DEF FirstLists
  <2>2. \A t \in Tops : L[t] \in Seq(Listed)
    BY FirstListsAre
  <2> HIDE DEF L
  <2>3. QED
    BY <2>1, <2>2
<1>6. ASSUME NEW t \in Tops PROVE IsRing(h.next, L[t]) /\ L[t][1] = t
  <2>1. L[t] \in AllLists /\ L[t][1] = t
    BY FirstListsAre
  <2>2. Len(L[t]) \in Nat /\ Len(L[t]) > 0
    BY <2>1, AllListsAre
  <2>3. \A i \in 1 .. Len(L[t]) : h.next[L[t][i]] = IF i = Len(L[t]) THEN L[t][1] ELSE L[t][i + 1]
    BY <2>1, OriginalTurns DEF h
  <2> HIDE DEF L
  <2>4. \A i \in 1 .. Len(L[t]) - 1 : i \in 1 .. Len(L[t]) /\ i # Len(L[t])
    BY <2>2
  <2>5. Len(L[t]) \in 1 .. Len(L[t])
    BY <2>2
  <2>6. QED
    BY <2>1, <2>2, <2>3, <2>4, <2>5 DEF IsRing
<1>7. ASSUME NEW s \in Tops, NEW t \in Tops,
             NEW i \in 1 .. Len(L[s]), NEW j \in 1 .. Len(L[t]), L[s][i] = L[t][j]
      PROVE  s = t /\ i = j
  <2>1. L[s] \in AllLists /\ L[t] \in AllLists /\ L[s][1] = s /\ L[t][1] = t
    BY FirstListsAre
  <2> HIDE DEF L
  <2>2. PICK w \in AllLists : w = L[s]
    BY <2>1
  <2>3. PICK z \in AllLists : z = L[t]
    BY <2>1
  <2>4. i \in 1 .. Len(w) /\ j \in 1 .. Len(z) /\ w[i] = z[j]
    BY <1>7, <2>2, <2>3
  <2>5. w = z
    BY <2>4, AllListsAre
  <2>6. i = j
    BY <2>4, <2>5, AllListsAre
  <2>7. QED
    BY <2>1, <2>2, <2>3, <2>5, <2>6
<1>8. ASSUME NEW c \in Listed PROVE \E t \in Tops : \E i \in 1 .. Len(L[t]) : L[t][i] = c
  <2>1. PICK w \in Lists : \E i \in 1 .. Len(w) : w[i] = c
    BY FirstListsAre
  <2>2. w[1] \in Tops /\ L[w[1]] = w
    BY FirstListsAre
  <2>3. QED
    BY <2>1, <2>2
<1>9. Laid(h.next, L, Tops, Listed)
  <2> HIDE DEF L
  <2>1. QED
    BY <1>5, <1>6, <1>7, <1>8 DEF Laid
<1>10. QED
  BY <1>3, <1>4, <1>9 DEF h

\* The lists of the memory are conserved: the walks from the heads find them.
LEMMA ConservedIs ==
    ASSUME scene \in Scenes, Conserved(heap)
    PROVE  CellsConserved
<1>1. PICK L : Laid(heap.next, L, Tops, Listed)
  BY DEF Conserved
<1>2. heap \in Heap /\ DoublyLinked(heap) /\ heap.next \in [Cell -> Cell]
  BY DEF Conserved, Heap
<1>3. Listed \in SUBSET Cell /\ IsFiniteSet(Cell)
  BY FirstListsAre, RightPartAssumption
<1>4. /\ IsFiniteSet(Listed) /\ Cardinality(Cell) \in Nat
      /\ Cardinality(Listed) \in Nat /\ Cardinality(Listed) <= Cardinality(Cell) + 1
  <2>1. IsFiniteSet(Listed) /\ Cardinality(Listed) <= Cardinality(Cell)
    BY <1>3, FS_Subset
  <2>2. Cardinality(Cell) \in Nat /\ Cardinality(Listed) \in Nat
    BY <1>3, <2>1, FS_CardinalityType
  <2>3. QED
    BY <2>1, <2>2
<1>5. ASSUME NEW t \in Tops PROVE Walk(t) = L[t]
  <2>1. PICK m : m = Cardinality(Cell)
    OBVIOUS
  <2>2. m \in Nat /\ Cardinality(Listed) <= m + 1
    BY <1>4, <2>1
  <2>3. WalkOf(heap.next, m, t) = L[t]
    <3>1. PICK n : n = heap.next
      OBVIOUS
    <3>2. n \in [Cell -> Cell] /\ Laid(n, L, Tops, Listed)
      BY <1>1, <1>2, <3>1
    <3>3. WalkOf(n, m, t) = L[t]
      BY <1>3, <1>4, <2>2, <3>2, WalksAre
    <3>4. QED
      BY <3>1, <3>3
  <2>4. QED
    BY <2>1, <2>3 DEF Walk, WalkOf
<1> DEFINE lists == {Walk(View), Walk(FreeHead)} \cup {Walk(s[1]) : s \in BoxLists}
<1>6. lists = {L[t] : t \in Tops}
  <2>1. View \in Tops /\ FreeHead \in Tops /\ \A s \in BoxLists : s[1] \in Tops
    BY DEF Tops, Lists, View, FreeHead
  <2>2. \A t \in Tops : t = View \/ t = FreeHead \/ \E s \in BoxLists : t = s[1]
    BY DEF Tops, Lists, View, FreeHead
  <2>3. QED
    BY <1>5, <2>1, <2>2
<1>7. /\ \A t \in Tops : DOMAIN L[t] = 1 .. Len(L[t]) /\ L[t] \in Seq(Listed)
      /\ \A s, t \in Tops : \A i \in 1 .. Len(L[s]), j \in 1 .. Len(L[t]) :
            L[s][i] = L[t][j] => s = t
      /\ \A c \in Listed : \E t \in Tops : \E i \in 1 .. Len(L[t]) : L[t][i] = c
  <2>1. \A t \in Tops : L[t] \in Seq(Listed)
    BY <1>1 DEF Laid
  <2>2. QED
    BY <1>1, <2>1 DEF Laid
<1>8. UNION {Range(s) : s \in lists} = Listed
  <2>1. ASSUME NEW s \in lists PROVE Range(s) \subseteq Listed
    BY <1>6, <1>7 DEF Range
  <2>2. ASSUME NEW c \in Listed PROVE \E s \in lists : c \in Range(s)
    <3>1. PICK t \in Tops : \E i \in 1 .. Len(L[t]) : L[t][i] = c
      BY <1>7
    <3>2. DOMAIN L[t] = 1 .. Len(L[t])
      BY <1>7
    <3>3. c \in Range(L[t])
      BY <3>1, <3>2 DEF Range
    <3>4. L[t] \in lists
      BY <1>6
    <3>5. QED
      BY <3>3, <3>4
  <2> HIDE DEF lists
  <2>3. QED
    BY <2>1, <2>2
<1>9. ASSUME NEW s \in lists, NEW t \in lists PROVE s = t \/ Range(s) \cap Range(t) = {}
  <2>1. PICK a \in Tops : s = L[a]
    BY <1>6
  <2>2. PICK b \in Tops : t = L[b]
    BY <1>6
  <2>3. ASSUME NEW c, c \in Range(s), c \in Range(t) PROVE s = t
    <3>0. DOMAIN L[a] = 1 .. Len(L[a]) /\ DOMAIN L[b] = 1 .. Len(L[b])
      BY <1>7
    <3>1. PICK i \in 1 .. Len(L[a]) : L[a][i] = c
      BY <2>1, <2>3, <3>0 DEF Range
    <3>2. PICK j \in 1 .. Len(L[b]) : L[b][j] = c
      BY <2>2, <2>3, <3>0 DEF Range
    <3>3. a = b
      BY <1>7, <3>1, <3>2
    <3>4. QED
      BY <2>1, <2>2, <3>3
  <2>4. QED
    BY <2>3
<1>10. QED
  BY <1>2, <1>8, <1>9 DEF CellsConserved, Listed
-----------------------------------------------------------------------------
(* The leading term and the parts of its argument, by their places in the view field *)

From(v) == Place(v[1])
Upto(v) == Place(v[2])

\* The term is at the places p to q of the view field, and what the variables stand for
\* is behind its label.
Term(p, q) ==
    /\ p \in 2 .. Len(Field) /\ q \in p + 2 .. Len(Field)
    /\ LeftK = Field[p] /\ Label = Field[p + 1] /\ RightD = Field[q]
    /\ \A v \in Variable :
          /\ From(v) \in 1 .. Len(Field) /\ Upto(v) \in 1 .. Len(Field)
          /\ Field[From(v)] = v[1] /\ Field[Upto(v)] = v[2]
          /\ From(v) <= Upto(v) => p + 1 < From(v) /\ Upto(v) < q

\* A cell of the view field has one place.
LEMMA FieldIs ==
    ASSUME scene \in Scenes
    PROVE  /\ Field \in Seq(Listed) /\ Field \in Seq(Cell) /\ Len(Field) \in Nat /\ Len(Field) > 0
           /\ DOMAIN Field = 1 .. Len(Field)
           /\ \A i, j \in 1 .. Len(Field) : Field[i] = Field[j] => i = j
           /\ \A i \in 1 .. Len(Field) : Place(Field[i]) = i
           /\ Free \in Seq(Listed) /\ Len(Free) \in Nat /\ Len(Free) > 0
           /\ \A i \in 1 .. Len(Free) : \A j \in 1 .. Len(Field) : Free[i] # Field[j]
           /\ \A i \in 1 .. Len(Field) : Field[i] \in Tops => i = 1
<1>1. Field \in Lists /\ Free \in Lists /\ Lists \subseteq AllLists /\ Field # Free
  BY AllListsAre DEF Lists, AllLists
<1>2. /\ Field \in Seq(Cell) /\ Len(Field) \in Nat /\ Len(Field) > 0
      /\ DOMAIN Field = 1 .. Len(Field)
      /\ \A i, j \in 1 .. Len(Field) : Field[i] = Field[j] => i = j
      /\ Len(Free) \in Nat /\ Len(Free) > 0
  BY <1>1, AllListsAre
<1>3. Field \in Seq(Listed) /\ Free \in Seq(Listed)
  BY <1>1, FirstListsAre
<1>4. \A i \in 1 .. Len(Field) : Place(Field[i]) = i
  BY <1>2 DEF Place
<1>5. \A i \in 1 .. Len(Free) : \A j \in 1 .. Len(Field) : Free[i] # Field[j]
  BY <1>1, AllListsAre
<1>6. ASSUME NEW i \in 1 .. Len(Field), Field[i] \in Tops PROVE i = 1
  <2>1. PICK w \in Lists : Field[i] = w[1]
    BY <1>6 DEF Tops
  <2>2. 1 \in 1 .. Len(w)
    <3>1. Len(w) \in Nat /\ Len(w) > 0
      BY <1>1, AllListsAre
    <3>2. QED
      BY <3>1
  <2>3. w = Field
    BY <1>1, <2>1, <2>2, AllListsAre
  <2>4. QED
    BY <1>2, <2>1, <2>2, <2>3
<1>7. QED
  BY <1>2, <1>3, <1>4, <1>5, <1>6

\* Where the leading term is.
LEMMA TermIs ==
    ASSUME scene \in Scenes
    PROVE  \E p, q : Term(p, q)
<1>1. PICK p \in DOMAIN Field, q \in DOMAIN Field :
         /\ 1 < p /\ p + 1 < q /\ Argument = SubSeq(Field, p + 1, q - 1)
         /\ \A v \in Variable :
               /\ {v[1], v[2]} \subseteq Range(Field)
               /\ \A i, j \in DOMAIN Field :
                     Field[i] = v[1] /\ Field[j] = v[2] => (i <= j => p + 1 < i /\ j < q)
  BY RightPartAssumption DEF Field, Argument, Variable
<1> DEFINE l == Len(Field)
<1>2. /\ Field \in Seq(Cell) /\ l \in Nat /\ DOMAIN Field = 1 .. l
      /\ \A i \in 1 .. l : Place(Field[i]) = i
  BY FieldIs
<1>3. p \in 2 .. l /\ q \in p + 2 .. l
  BY <1>1, <1>2
<1> HIDE DEF l
<1>4. Argument[1] = Field[p + 1] /\ Argument[Len(Argument)] = Field[q - 1] /\ Len(Argument) > 0
  <2>1. p \in 0 .. l /\ q - 1 \in p .. l
    BY <1>2, <1>3
  <2>2. /\ Len(Argument) = (q - 1) - p
        /\ \A k \in 1 .. (q - 1) - p : Argument[k] = Field[p + k]
    BY <1>1, <1>2, <2>1, Section DEF l
  <2>3. 1 \in 1 .. (q - 1) - p /\ (q - 1) - p \in 1 .. (q - 1) - p /\ p + ((q - 1) - p) = q - 1
    BY <1>3
  <2>4. QED
    BY <2>2, <2>3
<1>5. LeftK = Field[p] /\ Label = Field[p + 1] /\ RightD = Field[q]
  <2>1. p + 1 \in 1 .. l /\ q - 1 \in 1 .. l /\ (p + 1) - 1 = p /\ (q - 1) + 1 = q
    BY <1>2, <1>3
  <2>2. Place(Argument[1]) = p + 1 /\ Place(Last(Argument)) = q - 1
    BY <1>2, <1>4, <2>1 DEF Last
  <2>3. QED
    BY <1>4, <2>1, <2>2 DEF LeftK, Label, RightD
<1>6. ASSUME NEW v \in Variable
      PROVE  /\ From(v) \in 1 .. l /\ Upto(v) \in 1 .. l
             /\ Field[From(v)] = v[1] /\ Field[Upto(v)] = v[2]
             /\ From(v) <= Upto(v) => p + 1 < From(v) /\ Upto(v) < q
  <2>1. v[1] \in Range(Field) /\ v[2] \in Range(Field)
    BY <1>1
  <2>2. PICK i \in 1 .. l : Field[i] = v[1]
    BY <1>2, <2>1 DEF Range
  <2>3. PICK j \in 1 .. l : Field[j] = v[2]
    BY <1>2, <2>1 DEF Range
  <2>4. From(v) = i /\ Upto(v) = j
    BY <1>2, <2>2, <2>3 DEF From, Upto
  <2>5. i <= j => p + 1 < i /\ j < q
    BY <1>1, <1>2, <2>2, <2>3
  <2>6. QED
    BY <2>2, <2>3, <2>4, <2>5
<1>7. QED
  BY <1>3, <1>5, <1>6 DEF Term, l

\* The cells that a variable stands for.
LEMMA PartOf ==
    ASSUME scene \in Scenes, NEW p, NEW q, Term(p, q), NEW v \in Variable
    PROVE  /\ From(v) > Upto(v) => Part(v) = <<>>
           /\ From(v) <= Upto(v) =>
                 /\ Part(v) \in Seq(Listed) /\ Len(Part(v)) = Upto(v) - From(v) + 1
                 /\ Part(v)[1] = v[1] /\ Part(v)[Len(Part(v))] = v[2]
                 /\ DOMAIN Part(v) = 1 .. Upto(v) - From(v) + 1
                 /\ \A i \in 1 .. Upto(v) - From(v) + 1 : Part(v)[i] = Field[From(v) - 1 + i]
                 /\ \A x \in From(v) .. Upto(v) : Field[x] \in Range(Part(v))
                 /\ \A c \in Range(Part(v)) : \E x \in From(v) .. Upto(v) : c = Field[x]
<1> DEFINE a == From(v)
           b == Upto(v)
           w == Part(v)
<1>1. /\ a \in 1 .. Len(Field) /\ b \in 1 .. Len(Field) /\ Field[a] = v[1] /\ Field[b] = v[2]
      /\ Field \in Seq(Listed) /\ Len(Field) \in Nat
  BY FieldIs DEF Term
<1>2. w = SubSeq(Field, a, b)
  BY DEF Part, From, Upto
<1> HIDE DEF a, b, w
<1>3. ASSUME a > b PROVE w = <<>>
  BY <1>1, <1>2, <1>3
<1>4. ASSUME a <= b
      PROVE  /\ w \in Seq(Listed) /\ Len(w) = b - a + 1
             /\ w[1] = v[1] /\ w[Len(w)] = v[2] /\ DOMAIN w = 1 .. b - a + 1
             /\ \A i \in 1 .. b - a + 1 : w[i] = Field[a - 1 + i]
             /\ \A x \in a .. b : Field[x] \in Range(w)
             /\ \A c \in Range(w) : \E x \in a .. b : c = Field[x]
  <2>1. a - 1 \in 0 .. Len(Field) /\ b \in a - 1 .. Len(Field) /\ (a - 1) + 1 = a
        /\ b - (a - 1) = b - a + 1
    BY <1>1, <1>4
  <2>2. /\ w \in Seq(Listed) /\ Len(w) = b - a + 1
        /\ \A i \in 1 .. b - a + 1 : w[i] = Field[a - 1 + i]
    <3>1. PICK i : i = a - 1
      OBVIOUS
    <3>2. i \in 0 .. Len(Field) /\ b \in i .. Len(Field) /\ w = SubSeq(Field, i + 1, b)
      BY <1>2, <2>1, <3>1
    <3>3. /\ w \in Seq(Listed) /\ Len(w) = b - i
          /\ \A k \in 1 .. b - i : w[k] = Field[i + k]
      BY <1>1, <3>2, Section
    <3>4. QED
      BY <2>1, <3>1, <3>3
  <2>3. DOMAIN w = 1 .. b - a + 1
    BY <2>2
  <2>4. 1 \in 1 .. b - a + 1 /\ b - a + 1 \in 1 .. b - a + 1
        /\ a - 1 + 1 = a /\ a - 1 + (b - a + 1) = b
    BY <1>1, <1>4
  <2>5. w[1] = v[1] /\ w[Len(w)] = v[2]
    BY <1>1, <2>2, <2>4
  <2>6. ASSUME NEW x \in a .. b PROVE Field[x] \in Range(w)
    <3>1. x - a + 1 \in 1 .. b - a + 1 /\ a - 1 + (x - a + 1) = x
      BY <1>1, <1>4
    <3>2. w[x - a + 1] = Field[x]
      BY <2>2, <3>1
    <3>3. QED
      BY <2>3, <3>1, <3>2 DEF Range
  <2>7. ASSUME NEW c \in Range(w) PROVE \E x \in a .. b : c = Field[x]
    <3>1. PICK i \in 1 .. b - a + 1 : w[i] = c
      BY <2>3 DEF Range
    <3>2. a - 1 + i \in a .. b
      BY <1>1, <1>4
    <3>3. QED
      BY <2>2, <3>1, <3>2
  <2>8. QED
    BY <2>2, <2>3, <2>5, <2>6, <2>7
<1>5. QED
  BY <1>3, <1>4 DEF a, b, w
-----------------------------------------------------------------------------
(* The planned transplantations, one after the other *)

\* A part planned later lies around an earlier one or beside it.
Nested(v, w) == \/ From(w) <= From(v) /\ Upto(v) <= Upto(w)
                \/ Upto(v) < From(w) \/ Upto(w) < From(v)
Plans == /\ stack \in Seq([to : Range(Free), part : Variable])
         /\ \A j \in 1 .. Len(stack) : /\ From(stack[j].part) <= Upto(stack[j].part)
                                       /\ \A i \in 1 .. j - 1 : Nested(stack[i].part, stack[j].part)

\* EOS makes one of them.
MovedOnce(g, s) == LET cut == Link(g, g.previous[s.part[1]], g.next[s.part[2]])
                   IN  Link(Link(cut, s.part[2], cut.next[s.to]), s.to, s.part[1])

\* What has not been moved yet of the view field stays in order, < and > among it; the
\* free list keeps its cells; a part that is still to be moved hangs together.
Ordered(s) == /\ \A i \in 1 .. Len(s) : \E x \in 1 .. Len(Field) : s[i] = Field[x]
              /\ \A i, j \in 1 .. Len(s) : i < j => Place(s[i]) < Place(s[j])
Kept(L) == /\ Laid(L.n, L.lists, Tops, Listed)
           /\ \A i \in 1 .. Len(Free) : In(L.lists[FreeHead], Free[i])
           /\ Ordered(L.lists[View]) /\ In(L.lists[View], LeftK) /\ In(L.lists[View], RightD)
Together(n, v) == \A x \in From(v) .. Upto(v) - 1 : n[Field[x]] = Field[x + 1]
Stage(g, k) == /\ g \in Heap /\ DoublyLinked(g)
               /\ \E L : Kept([n |-> g.next, lists |-> L])
               /\ \A i \in 1 .. k : Together(g.next, stack[i].part)

\* A plan names a cell of the free list and a part of the argument.
LEMMA PlanIs ==
    ASSUME Plans, NEW i \in 1 .. Len(stack)
    PROVE  /\ stack[i].to \in Range(Free) /\ stack[i].part \in Variable
           /\ From(stack[i].part) <= Upto(stack[i].part)
<1> DEFINE D == [to : Range(Free), part : Variable]
<1>1. stack \in Seq(D)
  BY DEF Plans
<1>2. stack[i] \in D
  <2> HIDE DEF D
  <2>1. QED
    BY <1>1
<1>3. QED
  BY <1>2 DEF Plans

\* At the beginning everything is in its place.
LEMMA FirstStage ==
    ASSUME scene \in Scenes, Plans
    PROVE  Stage(Original, Len(stack))
<1>1. PICK p, q : Term(p, q)
  BY TermIs
<1> DEFINE L == FirstLists
           K == [n |-> Original.next, lists |-> L]
<1>2. /\ Original \in Heap /\ DoublyLinked(Original) /\ Laid(Original.next, L, Tops, Listed)
      /\ L[View] = Field /\ L[FreeHead] = Free
  BY OriginalIs, FirstListsAre
<1>3. Ordered(Field)
  BY FieldIs DEF Ordered
<1>4. In(Field, LeftK) /\ In(Field, RightD)
  <2>1. p \in 1 .. Len(Field) /\ q \in 1 .. Len(Field)
    BY <1>1, FieldIs DEF Term
  <2>2. LeftK = Field[p] /\ RightD = Field[q]
    BY <1>1 DEF Term
  <2>3. QED
    BY <2>1, <2>2 DEF In
<1>5. \A i \in 1 .. Len(Free) : In(Free, Free[i])
  BY DEF In
<1>6. K.n = Original.next /\ K.lists = L
  OBVIOUS
<1>7. Kept(K)
  <2> HIDE DEF K, L
  <2>1. QED
    BY <1>2, <1>3, <1>4, <1>5, <1>6 DEF Kept
<1>8. ASSUME NEW i \in 1 .. Len(stack) PROVE Together(Original.next, stack[i].part)
  <2>1. stack[i].part \in Variable
    BY PlanIs
  <2>2. PICK v \in Variable : v = stack[i].part
    BY <2>1
  <2>3. ASSUME NEW x \in From(v) .. Upto(v) - 1 PROVE Original.next[Field[x]] = Field[x + 1]
    <3>0. From(v) \in 1 .. Len(Field) /\ Upto(v) \in 1 .. Len(Field)
      BY <1>1 DEF Term
    <3>1. x \in 1 .. Len(Field) /\ x # Len(Field)
      BY <3>0
    <3>2. Field \in AllLists
      BY DEF AllLists
    <3>3. QED
      BY <3>1, <3>2, OriginalTurns
  <2>4. QED
    BY <2>2, <2>3 DEF Together
<1>9. QED
  BY <1>2, <1>7, <1>8 DEF Stage

\* A list from which cells that follow each other were taken is still in order.
LEMMA OrderKept ==
    ASSUME scene \in Scenes, NEW s \in Seq(Listed), Ordered(s),
           NEW i \in 1 .. Len(s), NEW d \in 1 .. Len(s) - i
    PROVE  Ordered(Outer(s, i, d))
<1> DEFINE o == Outer(s, i, d)
           at(x) == IF x <= i THEN x ELSE x + d
<1>1. Len(s) \in Nat /\ i \in Nat /\ d \in Nat /\ i <= Len(s) - d
  OBVIOUS
<1>2. /\ Len(o) = Len(s) - d
      /\ \A x \in 1 .. i : o[x] = s[x]
      /\ \A x \in i + 1 .. Len(s) - d : o[x] = s[x + d]
  BY OuterIs
<1> HIDE DEF o
<1>3. ASSUME NEW x \in 1 .. Len(o) PROVE at(x) \in 1 .. Len(s) /\ o[x] = s[at(x)]
  <2>1. x \in 1 .. Len(s) - d
    BY <1>2
  <2>2. CASE x <= i
    <3>1. x \in 1 .. i /\ x \in 1 .. Len(s)
      BY <1>1, <2>1, <2>2
    <3>2. QED
      BY <1>2, <2>2, <3>1
  <2>3. CASE ~(x <= i)
    <3>1. x \in i + 1 .. Len(s) - d /\ x + d \in 1 .. Len(s)
      BY <1>1, <2>1, <2>3
    <3>2. QED
      BY <1>2, <2>3, <3>1
  <2>4. QED
    BY <2>2, <2>3
<1>4. ASSUME NEW x \in 1 .. Len(o), NEW y \in 1 .. Len(o), x < y PROVE at(x) < at(y)
  <2>1. x \in Nat /\ y \in Nat
    BY <1>1, <1>2
  <2>2. QED
    BY <1>1, <1>4, <2>1
<1> HIDE DEF at
<1>5. \A x \in 1 .. Len(o) : \E y \in 1 .. Len(Field) : o[x] = Field[y]
  BY <1>3 DEF Ordered
<1>6. \A x, y \in 1 .. Len(o) : x < y => Place(o[x]) < Place(o[y])
  BY <1>3, <1>4 DEF Ordered
<1>7. QED
  BY <1>5, <1>6 DEF Ordered, o

\* What MovedOnce does to the pointers.
LEMMA MovedOnceIs ==
    ASSUME NEW g \in Heap, DoublyLinked(g), NEW s, s.to \in Cell, s.part[1] \in Cell,
           s.part[2] \in Cell, s.to # s.part[2]
    PROVE  MovedOnce(g, s) = IF g.next[s.to] = s.part[1] THEN g
                             ELSE Splice(g, s.to, s.part[1], s.part[2])
<1> DEFINE to == s.to
           a == s.part[1]
           b == s.part[2]
           m == MovedOnce(g, s)
<1>1. /\ g = [next |-> g.next, previous |-> g.previous]
      /\ g.next \in [Cell -> Cell] /\ g.previous \in [Cell -> Cell]
      /\ \A c \in Cell : g.previous[g.next[c]] = c /\ g.next[g.previous[c]] = c
  BY DEF Heap, DoublyLinked
<1>2. to \in Cell /\ a \in Cell /\ b \in Cell /\ to # b
  OBVIOUS
<1>3. m = LET cut == Link(g, g.previous[a], g.next[b])
          IN  Link(Link(cut, b, cut.next[to]), to, a)
  BY DEF MovedOnce
<1> HIDE DEF to, a, b, m
<1>4. CASE g.next[to] = a
  <2>1. g.previous[a] = to
    BY <1>1, <1>2, <1>4
  <2> DEFINE e == g.next[b]
  <2>2. e \in Cell /\ g.previous[e] = b
    BY <1>1, <1>2
  <2> HIDE DEF e
  <2>3. m = LET cut == Link(g, to, e) IN Link(Link(cut, b, cut.next[to]), to, a)
    BY <1>3, <2>1 DEF e
  <2>4. Link(g, to, e).next[to] = e
    BY <1>1, <1>2 DEF Link
  <2>5. m = Link(Link(Link(g, to, e), b, e), to, a)
    BY <2>3, <2>4
  <2>6. /\ m.next = [[[g.next EXCEPT ![to] = e] EXCEPT ![b] = e] EXCEPT ![to] = a]
        /\ m.previous = [[[g.previous EXCEPT ![e] = to] EXCEPT ![e] = b] EXCEPT ![a] = to]
        /\ m = [next |-> m.next, previous |-> m.previous]
    BY <2>5 DEF Link
  <2>7. m.next = g.next
    <3>1. ASSUME NEW c \in Cell PROVE m.next[c] = g.next[c]
      <4>1. CASE c = to
        BY <1>1, <1>2, <1>4, <2>6, <4>1
      <4>2. CASE c = b
        BY <1>1, <1>2, <2>6, <4>2 DEF e
      <4>3. CASE c # to /\ c # b
        BY <1>1, <1>2, <2>6, <4>3
      <4>4. QED
        BY <4>1, <4>2, <4>3
    <3>2. m.next \in [Cell -> Cell]
      BY <1>1, <1>2, <2>2, <2>6
    <3>3. QED
      BY <1>1, <3>1, <3>2
  <2>8. m.previous = g.previous
    <3>1. ASSUME NEW c \in Cell PROVE m.previous[c] = g.previous[c]
      <4>1. CASE c = a
        BY <1>1, <1>2, <2>1, <2>6, <4>1
      <4>2. CASE c = e /\ c # a
        BY <1>1, <2>2, <2>6, <4>2
      <4>3. CASE c # e /\ c # a
        BY <1>1, <2>6, <4>3
      <4>4. QED
        BY <4>1, <4>2, <4>3
    <3>2. m.previous \in [Cell -> Cell]
      BY <1>1, <1>2, <2>2, <2>6
    <3>3. QED
      BY <1>1, <3>1, <3>2
  <2>9. m = g
    BY <1>1, <2>6, <2>7, <2>8
  <2>10. QED
    BY <1>4, <2>9 DEF to, a, b, m
<1>5. CASE g.next[to] # a
  <2>1. g.previous[a] # to /\ g.previous[a] \in Cell
    BY <1>1, <1>2, <1>5
  <2>2. Link(g, g.previous[a], g.next[b]).next[to] = g.next[to]
    BY <1>1, <1>2, <2>1 DEF Link
  <2>3. m = Splice(g, to, a, b)
    BY <1>3, <2>2 DEF Splice
  <2>4. QED
    BY <1>5, <2>3 DEF to, a, b, m
<1>6. QED
  BY <1>4, <1>5

\* A transplantation keeps what the next ones, and the end, need.
LEMMA StageStep ==
    ASSUME scene \in Scenes, Plans, NEW k \in 1 .. Len(stack), NEW g, Stage(g, k)
    PROVE  Stage(MovedOnce(g, stack[k]), k - 1)
<1>1. PICK p, q : Term(p, q)
  BY TermIs
<1>2. PICK s, v : s = stack[k] /\ v = s.part
  OBVIOUS
<1> DEFINE to == s.to
           a == From(v)
           b == Upto(v)
           w == Part(v)
           m == MovedOnce(g, s)
<1>3. to \in Range(Free) /\ v \in Variable /\ a <= b
  BY <1>2, PlanIs
<1>4. PICK x0 \in 1 .. Len(Free) : Free[x0] = to
  <2>1. DOMAIN Free = 1 .. Len(Free)
    BY FieldIs
  <2>2. QED
    BY <1>3, <2>1 DEF Range
<1>5. /\ a \in 1 .. Len(Field) /\ b \in 1 .. Len(Field) /\ v[1] = Field[a] /\ v[2] = Field[b]
      /\ p + 1 < a /\ b < q /\ p \in 2 .. Len(Field) /\ q \in p + 2 .. Len(Field)
      /\ LeftK = Field[p] /\ RightD = Field[q] /\ Len(Field) \in Nat
  BY <1>1, <1>3, FieldIs DEF Term
<1>6. /\ w \in Seq(Listed) /\ Len(w) = b - a + 1 /\ w[1] = v[1] /\ w[Len(w)] = v[2]
      /\ \A i \in 1 .. b - a + 1 : w[i] = Field[a - 1 + i]
  BY <1>1, <1>3, PartOf
<1>7. /\ Listed \in SUBSET Cell /\ Listed \subseteq Cell /\ View \in Tops /\ FreeHead \in Tops
      /\ View # FreeHead
  <2>1. 1 \in 1 .. Len(Field) /\ 1 \in 1 .. Len(Free)
    BY FieldIs
  <2>2. QED
    BY <2>1, FirstListsAre, FieldIs DEF View, FreeHead
<1>8. /\ to \in Cell /\ v[1] \in Cell /\ v[2] \in Cell /\ to # v[2]
      /\ \A i \in 1 .. Len(Field) : to # Field[i] /\ Field[i] \in Cell
  BY <1>4, <1>5, <1>7, FieldIs
<1>9. /\ g \in Heap /\ DoublyLinked(g)
      /\ \A i \in 1 .. k : Together(g.next, stack[i].part)
      /\ g.next \in [Cell -> Cell]
  BY DEF Stage, Heap
<1>10. PICK L : Kept([n |-> g.next, lists |-> L])
  BY DEF Stage
<1>11. /\ Laid(g.next, L, Tops, Listed)
       /\ \A i \in 1 .. Len(Free) : In(L[FreeHead], Free[i])
       /\ Ordered(L[View]) /\ In(L[View], LeftK) /\ In(L[View], RightD)
  BY <1>10 DEF Kept
<1>12. \A i \in 1 .. k - 1 : i \in 1 .. k
  OBVIOUS
<1>13. m = IF g.next[to] = v[1] THEN g ELSE Splice(g, to, v[1], v[2])
  BY <1>2, <1>8, <1>9, MovedOnceIs
<1> HIDE DEF to, a, b, w, m
<1>14. CASE g.next[to] = v[1]
  <2>1. m = g
    BY <1>13, <1>14
  <2>2. Stage(g, k - 1)
    BY <1>9, <1>10, <1>12 DEF Stage
  <2>3. QED
    BY <1>2, <2>1, <2>2 DEF m
<1>15. CASE g.next[to] # v[1]
  <2>1. m = Splice(g, to, v[1], v[2])
    BY <1>13, <1>15
  <2>2. m \in Heap /\ DoublyLinked(m)
    BY <1>8, <1>9, <1>15, <2>1, SpliceKeeps
  <2>3. \A i \in 1 .. b - a + 1 : a - 1 + i \in a .. b /\ a - 1 + i \in 1 .. Len(Field)
    BY <1>5
  <2>4. Len(w) > 0 /\ \A i \in 1 .. Len(w) : w[i] \notin Tops /\ w[i] # to
    <3>1. Len(w) > 0
      BY <1>3, <1>5, <1>6
    <3>2. ASSUME NEW i \in 1 .. Len(w) PROVE w[i] \notin Tops /\ w[i] # to
      <4>0. i \in 1 .. b - a + 1
        BY <1>6
      <4>1. a - 1 + i \in a .. b /\ a - 1 + i \in 1 .. Len(Field) /\ w[i] = Field[a - 1 + i]
        BY <1>6, <2>3, <4>0
      <4>2. a - 1 + i # 1
        <5>1. a \in Nat /\ b \in Nat /\ p \in Nat /\ p > 1 /\ p + 1 < a
          BY <1>5
        <5>2. QED
          BY <4>1, <5>1
      <4>3. QED
        BY <1>8, <4>1, <4>2, FieldIs
    <3>3. QED
      BY <3>1, <3>2
  <2>5. Linked(g.next, w)
    <3>1. Together(g.next, v)
      BY <1>2, <1>9
    <3>2. ASSUME NEW i \in 1 .. Len(w) - 1 PROVE g.next[w[i]] = w[i + 1]
      <4>1. /\ i \in 1 .. b - a + 1 /\ i + 1 \in 1 .. b - a + 1
            /\ a - 1 + i \in a .. b - 1 /\ (a - 1 + i) + 1 = a - 1 + (i + 1)
        BY <1>5, <1>6
      <4>2. g.next[Field[a - 1 + i]] = Field[(a - 1 + i) + 1]
        BY <3>1, <4>1 DEF Together, a, b
      <4>3. QED
        BY <1>6, <4>1, <4>2
    <3>3. QED
      BY <3>2 DEF Linked
  <2>6. ~In(w, to)
    BY <2>4 DEF In
  <2>7. In(L[FreeHead], to)
    BY <1>4, <1>11
  <2>8. PICK M : /\ Laid(Splice(g, to, w[1], w[Len(w)]).next, M, Tops, Listed)
                 /\ WentBehind(L, Tops, w, FreeHead, M)
    BY <1>6, <1>7, <1>9, <1>11, <1>15, <2>4, <2>5, <2>6, <2>7, StretchMoves
  <2>9. Laid(m.next, M, Tops, Listed)
    BY <1>6, <2>1, <2>8
  <2>10. ASSUME NEW x \in 1 .. Len(Field), x < a \/ x > b PROVE ~In(w, Field[x])
    <3>1. SUFFICES ASSUME NEW i \in 1 .. Len(w), w[i] = Field[x] PROVE FALSE
      BY DEF In
    <3>2. a - 1 + i \in a .. b /\ a - 1 + i \in 1 .. Len(Field) /\ w[i] = Field[a - 1 + i]
      BY <1>6, <2>3
    <3>3. a - 1 + i = x
      BY <3>1, <3>2, FieldIs
    <3>4. QED
      BY <1>5, <2>10, <3>2, <3>3
  <2>11. In(M[View], LeftK) /\ In(M[View], RightD)
    <3>1. ~In(w, LeftK) /\ ~In(w, RightD)
      <4>1. p \in 1 .. Len(Field) /\ p < a /\ q \in 1 .. Len(Field) /\ q > b
        BY <1>5
      <4>2. QED
        BY <1>5, <2>10, <4>1
    <3>2. QED
      BY <1>7, <1>11, <2>8, <3>1 DEF WentBehind
  <2>12. \A i \in 1 .. Len(Free) : In(M[FreeHead], Free[i])
    <3>1. ASSUME NEW i \in 1 .. Len(Free) PROVE ~In(w, Free[i])
      <4>1. SUFFICES ASSUME NEW j \in 1 .. Len(w), w[j] = Free[i] PROVE FALSE
        BY DEF In
      <4>2. a - 1 + j \in 1 .. Len(Field) /\ w[j] = Field[a - 1 + j]
        BY <1>6, <2>3
      <4>3. QED
        BY <4>1, <4>2, FieldIs
    <3>2. QED
      BY <1>7, <1>11, <2>8, <3>1 DEF WentBehind
  <2>13. Ordered(M[View])
    <3>1. L[View] \in Seq(Listed)
      BY <1>7, <1>11 DEF Laid
    <3>2. CASE M[View] = L[View]
      BY <1>11, <3>2
    <3>3. CASE \E i \in 1 .. Len(L[View]) : \E d \in 1 .. Len(L[View]) - i :
                  M[View] = Outer(L[View], i, d)
      <4>1. PICK t : t = L[View]
        OBVIOUS
      <4>2. PICK i \in 1 .. Len(t) : \E d \in 1 .. Len(t) - i : M[View] = Outer(t, i, d)
        BY <3>3, <4>1
      <4>3. PICK d \in 1 .. Len(t) - i : M[View] = Outer(t, i, d)
        BY <4>2
      <4>4. Ordered(Outer(t, i, d))
        BY <1>11, <3>1, <4>1, OrderKept
      <4>5. QED
        BY <4>3, <4>4
    <3>4. QED
      BY <1>7, <2>8, <3>2, <3>3 DEF WentBehind
  <2>14. Kept([n |-> m.next, lists |-> M])
    BY <2>9, <2>11, <2>12, <2>13 DEF Kept
  <2>15. ASSUME NEW i \in 1 .. k - 1 PROVE Together(m.next, stack[i].part)
    <3>1. PICK u : u = stack[i].part
      OBVIOUS
    <3>2. i \in 1 .. Len(stack) /\ i \in 1 .. k
      <4>1. Len(stack) \in Nat
        BY DEF Plans
      <4>2. QED
        BY <4>1
    <3>3. u \in Variable /\ From(u) <= Upto(u)
      BY <3>1, <3>2, PlanIs
    <3>4. Together(g.next, u) /\ Nested(u, v)
      BY <1>2, <1>9, <3>1, <3>2 DEF Plans
    <3>5. From(u) \in 1 .. Len(Field) /\ Upto(u) \in 1 .. Len(Field)
      BY <1>1, <3>3 DEF Term
    <3>6. ASSUME NEW x \in From(u) .. Upto(u) - 1 PROVE m.next[Field[x]] = Field[x + 1]
      <4>1. x \in 1 .. Len(Field) /\ x + 1 \in 1 .. Len(Field)
        BY <3>5
      <4>2. x # b /\ x + 1 # a
        <5>1. \/ a <= From(u) /\ Upto(u) <= b
              \/ Upto(u) < a \/ b < From(u)
          BY <3>4 DEF Nested, a, b
        <5>2. a \in Nat /\ b \in Nat /\ From(u) \in Nat /\ Upto(u) \in Nat /\ x \in Nat
              /\ From(u) <= x /\ x + 1 <= Upto(u)
          BY <1>5, <3>5
        <5>3. QED
          BY <1>3, <5>1, <5>2 DEF a, b
      <4>3. g.next[Field[x]] = Field[x + 1]
        BY <3>4 DEF Together
      <4>4. Field[x] # Field[b] /\ Field[x + 1] # Field[a] /\ Field[x] # to
        BY <1>5, <1>8, <4>1, <4>2, FieldIs
      <4>5. g.previous[v[1]] # Field[x] /\ g.previous[v[1]] \in Cell
        <5>1. g.next[g.previous[v[1]]] = v[1] /\ g.previous[v[1]] \in Cell
          BY <1>8, <1>9 DEF DoublyLinked, Heap
        <5>2. QED
          BY <1>5, <4>3, <4>4, <5>1
      <4>6. m.next = [[[g.next EXCEPT ![g.previous[v[1]]] = g.next[v[2]]]
                                EXCEPT ![v[2]] = g.next[to]] EXCEPT ![to] = v[1]]
        BY <2>1 DEF Splice, Link
      <4>7. Field[x] \in Cell
        BY <1>8, <4>1
      <4>8. m.next[Field[x]] = g.next[Field[x]]
        BY <1>5, <1>9, <4>4, <4>5, <4>6, <4>7
      <4>9. QED
        BY <4>3, <4>8
    <3>7. QED
      BY <3>1, <3>6 DEF Together
  <2>16. Stage(m, k - 1)
    BY <2>2, <2>14, <2>15 DEF Stage
  <2>17. QED
    BY <1>2, <2>16 DEF m
<1>16. QED
  BY <1>14, <1>15

\* All of them are made, the youngest first.
LEMMA AllMoved ==
    ASSUME scene \in Scenes, Plans
    PROVE  Stage(Moved(Original), 0)
<1> DEFINE m == Len(stack)
           D == Nat \X Heap
           h == Original
           step == [e \in D |-> <<e[1] + 1, IF e[1] < m THEN MovedOnce(e[2], stack[m - e[1]])
                                            ELSE e[2]>>]
           Fits(f) == f = [n \in 0 .. m |-> IF n = m THEN h ELSE MovedOnce(f[n + 1], stack[n + 1])]
           after == CHOOSE f : Fits(f)
<1>1. m \in Nat
  BY DEF Plans
<1>2. h \in Heap
  BY OriginalIs
<1>3. Moved(Original) = after[0]
  BY DEF Moved, MovedOnce
<1>4. ASSUME NEW n \in 1 .. m, NEW g \in Heap PROVE MovedOnce(g, stack[n]) \in Heap
  <2>1. PICK s : s = stack[n]
    OBVIOUS
  <2>2. PICK p, q : Term(p, q)
    BY TermIs
  <2>3. s.to \in Cell /\ s.part[1] \in Cell /\ s.part[2] \in Cell
    <3>1. s.to \in Range(Free) /\ s.part \in Variable
      BY <2>1, PlanIs
    <3>2. s.part[1] = Field[From(s.part)] /\ s.part[2] = Field[Upto(s.part)]
          /\ From(s.part) \in 1 .. Len(Field) /\ Upto(s.part) \in 1 .. Len(Field)
      BY <2>2, <3>1 DEF Term
    <3>3. s.to \in Cell
      BY <3>1, FirstListsAre DEF Listed
    <3>4. QED
      BY <3>2, <3>3, FieldIs
  <2>4. g.previous[s.part[1]] \in Cell /\ g.next[s.part[2]] \in Cell
    BY <2>3 DEF Heap
  <2> DEFINE cut == Link(g, g.previous[s.part[1]], g.next[s.part[2]])
  <2>5. cut \in Heap
    BY <2>4, LinkType
  <2> HIDE DEF cut
  <2>6. cut.next[s.to] \in Cell
    BY <2>3, <2>5 DEF Heap
  <2>7. Link(cut, s.part[2], cut.next[s.to]) \in Heap
    BY <2>3, <2>5, <2>6, LinkType
  <2>8. Link(Link(cut, s.part[2], cut.next[s.to]), s.to, s.part[1]) \in Heap
    BY <2>3, <2>7, LinkType
  <2>9. QED
    BY <2>1, <2>8 DEF MovedOnce, cut
<1>5. step \in [D -> D]
  <2>1. ASSUME NEW e \in D
        PROVE  <<e[1] + 1, IF e[1] < m THEN MovedOnce(e[2], stack[m - e[1]]) ELSE e[2]>> \in D
    <3>1. e[1] \in Nat /\ e[2] \in Heap /\ e[1] + 1 \in Nat
      OBVIOUS
    <3>2. e[1] < m => m - e[1] \in 1 .. m
      BY <1>1, <3>1
    <3>3. e[1] < m => MovedOnce(e[2], stack[m - e[1]]) \in Heap
      BY <1>4, <3>1, <3>2
    <3>4. QED
      BY <3>1, <3>3
  <2>2. QED
    BY <2>1
<1> HIDE DEF m, h, step, Fits, after
<1>6. PICK f : Iteration(f, D, step, <<0, h>>)
  <2>1. <<0, h>> \in D
    BY <1>2
  <2> HIDE DEF D
  <2>2. QED
    BY <1>5, <2>1, IterationExists
<1>7. f \in [Nat -> D] /\ f[0] = <<0, h>> /\ \A k \in Nat : f[k + 1] = step[f[k]]
  BY <1>6 DEF Iteration
<1>8. \A k \in Nat : f[k][1] = k
  <2> DEFINE K == {k \in Nat : f[k][1] = k}
  <2>1. 0 \in K
    BY <1>7
  <2>2. ASSUME NEW k \in Nat, k \in K PROVE k + 1 \in K
    <3>1. f[k] \in D /\ f[k + 1] = step[f[k]]
      BY <1>7
    <3>2. f[k + 1][1] = f[k][1] + 1
      BY <3>1 DEF step
    <3>3. QED
      BY <2>2, <3>2
  <2> HIDE DEF K
  <2>3. Nat \subseteq K
    BY <2>1, <2>2, NaturalsInSet
  <2>4. QED
    BY <2>3 DEF K
<1> DEFINE A == [n \in 0 .. m |-> f[m - n][2]]
<1>9. Fits(A)
  <2>1. ASSUME NEW n \in 0 .. m PROVE A[n] = IF n = m THEN h ELSE MovedOnce(A[n + 1], stack[n + 1])
    <3>1. CASE n = m
      <4>1. m - n = 0
        BY <1>1, <3>1
      <4>2. QED
        BY <1>7, <3>1, <4>1
    <3>2. CASE n # m
      <4>1. PICK k : k = m - (n + 1)
        OBVIOUS
      <4>2. k \in Nat /\ k < m /\ m - n = k + 1 /\ m - k = n + 1 /\ n + 1 \in 0 .. m
        BY <1>1, <3>2, <4>1
      <4>3. f[k] \in D /\ f[k][1] = k /\ f[k + 1] = step[f[k]]
        BY <1>7, <1>8, <4>2
      <4>4. f[k + 1][2] = MovedOnce(f[k][2], stack[m - k])
        BY <4>2, <4>3 DEF step
      <4>5. A[n] = f[k + 1][2] /\ A[n + 1] = f[k][2]
        BY <4>1, <4>2
      <4>6. QED
        BY <3>2, <4>2, <4>4, <4>5
    <3>3. QED
      BY <3>1, <3>2
  <2>2. QED
    BY <2>1 DEF Fits
<1> HIDE DEF A
<1>10. Fits(after)
  BY <1>9 DEF after
<1>11. /\ after[m] = h
       /\ \A n \in 0 .. m - 1 : after[n] = MovedOnce(after[n + 1], stack[n + 1])
  <2>1. m \in 0 .. m /\ \A n \in 0 .. m - 1 : n \in 0 .. m /\ n # m
    BY <1>1
  <2>2. \A n \in 0 .. m : after[n] = IF n = m THEN h ELSE MovedOnce(after[n + 1], stack[n + 1])
    BY <1>10 DEF Fits
  <2>3. QED
    BY <2>1, <2>2
<1>12. \A k \in Nat : k <= m => Stage(after[m - k], m - k)
  <2> DEFINE K == {k \in Nat : k <= m => Stage(after[m - k], m - k)}
  <2>1. 0 \in K
    <3>1. m - 0 = m
      BY <1>1
    <3>2. Stage(h, m)
      BY FirstStage DEF h, m
    <3>3. QED
      BY <1>11, <3>1, <3>2
  <2>2. ASSUME NEW k \in Nat, k \in K PROVE k + 1 \in K
    <3>1. SUFFICES ASSUME k + 1 <= m PROVE Stage(after[m - (k + 1)], m - (k + 1))
      OBVIOUS
    <3>2. PICK n : n = m - k
      OBVIOUS
    <3>3. k <= m /\ n \in 1 .. m /\ n - 1 \in 0 .. m - 1 /\ (n - 1) + 1 = n /\ m - (k + 1) = n - 1
      BY <1>1, <3>1, <3>2
    <3>4. Stage(after[n], n)
      BY <2>2, <3>2, <3>3
    <3>5. Stage(MovedOnce(after[n], stack[n]), n - 1)
      BY <3>3, <3>4, StageStep DEF m
    <3>6. after[n - 1] = MovedOnce(after[n], stack[n])
      BY <1>11, <3>3
    <3>7. QED
      BY <3>3, <3>5, <3>6
  <2> HIDE DEF K
  <2>3. Nat \subseteq K
    BY <2>1, <2>2, NaturalsInSet
  <2>4. QED
    BY <2>3 DEF K
<1>13. Stage(after[m - m], m - m) /\ m - m = 0
  BY <1>1, <1>12
<1>14. QED
  BY <1>3, <1>13
-----------------------------------------------------------------------------
(* The end of a step *)

\* EOS, pointer by pointer: the new cells go where < is, and then the term to the free list.
LEMMA EndPointers ==
    ASSUME NEW g \in Heap, DoublyLinked(g), NEW rest \in Cell,
           LeftK \in Cell, RightD \in Cell, FreeHead \in Cell, RightD # FreeHead,
           g.next[FreeHead] # LeftK, LeftK # rest, g.next[RightD] # rest, g.next[RightD] # LeftK,
           NEW e, e = Link(Link(Replaced(g, rest), RightD, rest), FreeHead, LeftK)
    PROVE  /\ g.next[FreeHead] = rest => e = Splice(g, FreeHead, LeftK, RightD)
           /\ g.next[FreeHead] # rest =>
                 LET m == Splice(g, g.previous[LeftK], g.next[FreeHead], g.previous[rest])
                 IN  /\ e = Splice(m, FreeHead, LeftK, RightD)
                     /\ m.next[FreeHead] = rest
                     /\ \A c \in Cell \ {FreeHead, g.previous[LeftK], g.previous[rest]} :
                           m.next[c] = g.next[c]
<1> DEFINE n == g.next
           v == g.previous
           first == n[FreeHead]
           last == v[rest]
           pre == v[LeftK]
           post == n[RightD]
<1>1. /\ g = [next |-> n, previous |-> v]
      /\ n \in [Cell -> Cell] /\ v \in [Cell -> Cell]
      /\ \A c \in Cell : v[n[c]] = c /\ n[v[c]] = c
  BY DEF Heap, DoublyLinked
<1>2. first \in Cell /\ last \in Cell /\ pre \in Cell /\ post \in Cell
  BY <1>1
<1>3. CASE first = rest
  <2>1. /\ e.next = [[[n EXCEPT ![pre] = post] EXCEPT ![RightD] = rest] EXCEPT ![FreeHead] = LeftK]
        /\ e.previous = [[[v EXCEPT ![post] = pre] EXCEPT ![rest] = RightD] EXCEPT ![LeftK] = FreeHead]
        /\ e = [next |-> e.next, previous |-> e.previous]
    BY <1>3 DEF Replaced, Link
  <2>2. /\ Splice(g, FreeHead, LeftK, RightD) =
           [next |-> [[[n EXCEPT ![pre] = post] EXCEPT ![RightD] = rest] EXCEPT ![FreeHead] = LeftK],
            previous |-> [[[v EXCEPT ![post] = pre] EXCEPT ![rest] = RightD] EXCEPT ![LeftK] = FreeHead]]
    BY <1>3 DEF Splice, Link
  <2>3. QED
    BY <1>3, <2>1, <2>2
<1>4. CASE first # rest
  <2> DEFINE m == Splice(g, pre, first, last)
  <2>1. n[pre] = LeftK /\ v[first] = FreeHead /\ n[last] = rest
    BY <1>1
  <2>2. /\ m.next = [[[n EXCEPT ![FreeHead] = rest] EXCEPT ![last] = LeftK] EXCEPT ![pre] = first]
        /\ m.previous = [[[v EXCEPT ![rest] = FreeHead] EXCEPT ![LeftK] = last] EXCEPT ![first] = pre]
    BY <2>1 DEF Splice, Link
  <2>3. /\ pre # FreeHead /\ last # FreeHead /\ last # pre
        /\ RightD # pre /\ RightD # last
        /\ post # LeftK /\ post # rest /\ post # first /\ first # LeftK
    <3>1. first # LeftK /\ LeftK # rest /\ post # rest /\ post # LeftK /\ RightD # FreeHead
          /\ v[post] = RightD
      BY <1>1
    <3>2. n[FreeHead] = first /\ n[RightD] = post
      OBVIOUS
    <3> HIDE DEF n, v, first, last, pre, post
    <3>3. QED
      BY <1>4, <2>1, <3>1, <3>2
  <2>4. m.next \in [Cell -> Cell] /\ m.previous \in [Cell -> Cell]
    <3> HIDE DEF n, v, m, first, last, pre, post
    <3>1. QED
      BY <1>1, <1>2, <2>2
  <2>5. m.next[FreeHead] = rest /\ m.previous[LeftK] = last /\ m.next[RightD] = post
    BY <1>1, <1>2, <2>2, <2>3
  <2>6. \A c \in Cell \ {FreeHead, pre, last} : m.next[c] = n[c]
    BY <1>1, <2>2
  <2>7. Splice(m, FreeHead, LeftK, RightD) =
           [next |-> [[[m.next EXCEPT ![last] = post] EXCEPT ![RightD] = rest] EXCEPT ![FreeHead] = LeftK],
            previous |-> [[[m.previous EXCEPT ![post] = last] EXCEPT ![rest] = RightD]
                          EXCEPT ![LeftK] = FreeHead]]
    BY <2>5 DEF Splice, Link
  <2>8. e = [next |-> [[[[n EXCEPT ![last] = post] EXCEPT ![pre] = first] EXCEPT ![RightD] = rest]
                       EXCEPT ![FreeHead] = LeftK],
             previous |-> [[[[v EXCEPT ![post] = last] EXCEPT ![first] = pre] EXCEPT ![rest] = RightD]
                           EXCEPT ![LeftK] = FreeHead]]
    BY <1>4 DEF Replaced, Link
  <2>9. [[[m.next EXCEPT ![last] = post] EXCEPT ![RightD] = rest] EXCEPT ![FreeHead] = LeftK]
        = [[[[n EXCEPT ![last] = post] EXCEPT ![pre] = first] EXCEPT ![RightD] = rest]
                       EXCEPT ![FreeHead] = LeftK]
    <3> HIDE DEF n, m, first, last, pre, post
    <3>1. QED
      BY <1>1, <1>2, <2>2, <2>3 DEF n, m
  <2>10. [[[m.previous EXCEPT ![post] = last] EXCEPT ![rest] = RightD] EXCEPT ![LeftK] = FreeHead]
         = [[[[v EXCEPT ![post] = last] EXCEPT ![first] = pre] EXCEPT ![rest] = RightD]
                           EXCEPT ![LeftK] = FreeHead]
    <3> HIDE DEF v, m, first, last, pre, post
    <3>1. QED
      BY <1>1, <1>2, <2>2, <2>3, <1>4 DEF v, m
  <2>11. e = Splice(m, FreeHead, LeftK, RightD)
    BY <2>7, <2>8, <2>9, <2>10
  <2>12. QED
    BY <1>4, <2>5, <2>6, <2>11
<1>5. QED
  BY <1>3, <1>4

\* EOS: when all that was planned has been moved, the new cells up to the current one take
\* the place of the term, and nothing is lost.
LEMMA EndKeeps ==
    ASSUME scene \in Scenes, NEW g, Stage(g, 0), NEW rest, rest \in Range(Free),
           NEW e, e = Link(Link(Replaced(g, rest), RightD, rest), FreeHead, LeftK)
    PROVE  Conserved(e)
<1>1. PICK p, q : Term(p, q)
  BY TermIs
<1>2. /\ p \in 2 .. Len(Field) /\ q \in p + 2 .. Len(Field)
      /\ LeftK = Field[p] /\ RightD = Field[q] /\ Len(Field) \in Nat
      /\ Field[1] = View /\ 1 \in 1 .. Len(Field)
      /\ \A i \in 1 .. Len(Field) : Place(Field[i]) = i
      /\ View # FreeHead
  <2>1. /\ Len(Field) \in Nat /\ 1 \in 1 .. Len(Field) /\ 1 \in 1 .. Len(Free)
        /\ \A i \in 1 .. Len(Field) : Place(Field[i]) = i
    BY FieldIs
  <2>2. View # FreeHead
    BY <2>1, FieldIs DEF View, FreeHead
  <2>3. QED
    BY <1>1, <2>1, <2>2 DEF Term, View
<1>3. Listed \in SUBSET Cell /\ View \in Tops /\ FreeHead \in Tops
  BY FirstListsAre
<1>4. g \in Heap /\ DoublyLinked(g)
  BY DEF Stage
<1>5. PICK L : Kept([n |-> g.next, lists |-> L])
  BY DEF Stage
<1>6. /\ Laid(g.next, L, Tops, Listed)
      /\ \A i \in 1 .. Len(Free) : In(L[FreeHead], Free[i])
      /\ Ordered(L[View]) /\ In(L[View], LeftK) /\ In(L[View], RightD)
  BY <1>5 DEF Kept
<1> DEFINE s == L[View]
           t == L[FreeHead]
<1>7. /\ s \in Seq(Listed) /\ Len(s) \in Nat /\ Len(s) > 0 /\ s[1] = View
      /\ \A i \in 1 .. Len(s) :
            /\ s[i] \in Cell
            /\ s[i] \in Tops => i = 1
            /\ g.next[s[i]] = IF i = Len(s) THEN s[1] ELSE s[i + 1]
            /\ g.previous[s[i]] = IF i = 1 THEN s[Len(s)] ELSE s[i - 1]
      /\ \A c : In(s, c) => In(s, g.next[c])
      /\ \A i, j \in 1 .. Len(s) : s[i] = s[j] => i = j
  <2>1. Turning(g, Listed, Tops, L, View)
    BY <1>3, <1>4, <1>6, RingTurns
  <2>2. QED
    BY <2>1 DEF Turning
<1>8. /\ t \in Seq(Listed) /\ Len(t) \in Nat /\ Len(t) > 0 /\ t[1] = FreeHead /\ In(t, FreeHead)
      /\ \A i \in 1 .. Len(t) :
            /\ t[i] \in Cell
            /\ t[i] \in Tops => i = 1
            /\ g.next[t[i]] = IF i = Len(t) THEN t[1] ELSE t[i + 1]
            /\ g.previous[t[i]] = IF i = 1 THEN t[Len(t)] ELSE t[i - 1]
      /\ \A c : In(t, c) => In(t, g.next[c])
      /\ \A c : In(s, c) /\ In(t, c) => View = FreeHead
  <2>1. Turning(g, Listed, Tops, L, FreeHead)
    BY <1>3, <1>4, <1>6, RingTurns
  <2>2. QED
    BY <1>3, <2>1 DEF Turning
<1> HIDE DEF s, t
<1>9. \A c : ~(In(s, c) /\ In(t, c))
  BY <1>2, <1>8
<1>10. PICK i \in 1 .. Len(s) : s[i] = LeftK
  BY <1>6 DEF In, s
<1>11. PICK j \in 1 .. Len(s) : s[j] = RightD
  BY <1>6 DEF In, s
<1>12. i > 1 /\ i < j
  <2>1. Place(s[i]) = p /\ Place(s[j]) = q /\ Place(s[1]) = 1 /\ p < q /\ p # 1 /\ 1 \in 1 .. Len(s)
    BY <1>2, <1>7, <1>10, <1>11
  <2>2. ~(j < i)
    <3>1. j < i => Place(s[j]) < Place(s[i])
      BY <1>6 DEF Ordered, s
    <3>2. p \in Nat /\ q \in Nat
      BY <1>2
    <3>3. QED
      BY <2>1, <3>1, <3>2
  <2>3. i # j /\ i # 1
    <3>1. p # q
      BY <1>2, <2>1
    <3>2. QED
      BY <2>1, <3>1
  <2>4. QED
    BY <1>7, <2>2, <2>3
<1> DEFINE w == SubSeq(s, i, j)
<1>13. /\ w \in Seq(Listed) /\ Len(w) = j - i + 1
       /\ \A x \in 1 .. j - i + 1 : w[x] = s[i - 1 + x]
  <2>1. PICK a : a = i - 1
    OBVIOUS
  <2>2. a \in 0 .. Len(s) /\ j \in a .. Len(s) /\ a + 1 = i /\ j - a = j - i + 1
    BY <1>7, <1>12, <2>1
  <2>3. /\ SubSeq(s, a + 1, j) \in Seq(Listed) /\ Len(SubSeq(s, a + 1, j)) = j - a
        /\ \A x \in 1 .. j - a : SubSeq(s, a + 1, j)[x] = s[a + x]
    BY <1>7, <2>2, Section
  <2>4. QED
    BY <2>1, <2>2, <2>3
<1> HIDE DEF w
<1>14. \A x \in 1 .. j - i + 1 : i - 1 + x \in i .. j /\ i - 1 + x \in 2 .. Len(s)
  BY <1>7, <1>12
<1>15. /\ Len(w) > 0 /\ w[1] = LeftK /\ w[Len(w)] = RightD
       /\ \A x \in 1 .. Len(w) : w[x] \notin Tops /\ ~In(t, w[x])
  <2>1. /\ 1 \in 1 .. j - i + 1 /\ j - i + 1 \in 1 .. j - i + 1
        /\ i - 1 + 1 = i /\ i - 1 + (j - i + 1) = j
    BY <1>7, <1>12
  <2>2. ASSUME NEW x \in 1 .. Len(w) PROVE w[x] \notin Tops /\ ~In(t, w[x])
    <3>0. x \in 1 .. j - i + 1
      BY <1>13
    <3>1. i - 1 + x \in 1 .. Len(s) /\ i - 1 + x # 1 /\ w[x] = s[i - 1 + x]
      <4>1. i - 1 + x \in 2 .. Len(s) /\ w[x] = s[i - 1 + x]
        BY <1>13, <1>14, <3>0
      <4>2. QED
        BY <1>7, <4>1
    <3>2. w[x] \notin Tops
      BY <1>7, <3>1
    <3>3. In(s, w[x])
      BY <3>1 DEF In
    <3>4. QED
      BY <1>9, <3>2, <3>3
  <2>3. Len(w) > 0
    BY <1>13, <2>1
  <2>4. QED
    BY <1>10, <1>11, <1>13, <2>1, <2>2, <2>3
<1>16. \A x \in 1 .. Len(w) - 1 : /\ i - 1 + x \in 1 .. Len(s) /\ i - 1 + x \in i .. j - 1
                                  /\ w[x] = s[i - 1 + x] /\ g.next[w[x]] = w[x + 1]
  <2>1. ASSUME NEW x \in 1 .. Len(w) - 1
        PROVE  /\ i - 1 + x \in 1 .. Len(s) /\ i - 1 + x \in i .. j - 1
               /\ w[x] = s[i - 1 + x] /\ g.next[w[x]] = w[x + 1]
    <3>1. /\ x \in 1 .. j - i + 1 /\ x + 1 \in 1 .. j - i + 1
          /\ i - 1 + x \in 1 .. Len(s) /\ i - 1 + x # Len(s) /\ i - 1 + x \in i .. j - 1
          /\ (i - 1 + x) + 1 = i - 1 + (x + 1)
      BY <1>7, <1>12, <1>13
    <3>2. g.next[s[i - 1 + x]] = s[(i - 1 + x) + 1]
      BY <1>7, <3>1
    <3>3. QED
      BY <1>13, <3>1, <3>2
  <2>2. QED
    BY <2>1
<1>17. In(t, rest) /\ In(t, g.next[FreeHead]) /\ In(s, LeftK) /\ In(s, RightD) /\ In(s, g.next[RightD])
  <2>1. DOMAIN Free = 1 .. Len(Free)
    BY FieldIs
  <2>2. In(t, rest)
    BY <1>6, <2>1 DEF Range, t
  <2>3. In(s, LeftK) /\ In(s, RightD)
    BY <1>6 DEF s
  <2>4. QED
    BY <1>7, <1>8, <2>2, <2>3
<1>18. /\ LeftK \in Cell /\ RightD \in Cell /\ FreeHead \in Cell /\ rest \in Cell
       /\ RightD # FreeHead /\ LeftK # FreeHead /\ g.next[FreeHead] # LeftK /\ LeftK # rest
       /\ g.next[RightD] # rest /\ g.next[RightD] # LeftK
  <2>1. LeftK \in Cell /\ RightD \in Cell /\ FreeHead \in Cell /\ rest \in Cell
    <3>1. \A c : In(s, c) => c \in Cell
      BY <1>7 DEF In
    <3>2. \A c : In(t, c) => c \in Cell
      BY <1>8 DEF In
    <3>3. QED
      BY <1>8, <1>17, <3>1, <3>2
  <2>2. g.next[RightD] # LeftK
    <3>1. g.next[s[j]] = IF j = Len(s) THEN s[1] ELSE s[j + 1]
      BY <1>7
    <3>2. 1 \in 1 .. Len(s) /\ i # 1 /\ (j # Len(s) => j + 1 \in 1 .. Len(s) /\ j + 1 # i)
      BY <1>7, <1>12
    <3>3. QED
      BY <1>7, <1>10, <1>11, <3>1, <3>2
  <2>3. QED
    BY <1>8, <1>9, <1>17, <2>1, <2>2
<1>19. /\ g.next[FreeHead] = rest => e = Splice(g, FreeHead, LeftK, RightD)
       /\ g.next[FreeHead] # rest =>
             LET m == Splice(g, g.previous[LeftK], g.next[FreeHead], g.previous[rest])
             IN  /\ e = Splice(m, FreeHead, LeftK, RightD)
                 /\ m.next[FreeHead] = rest
                 /\ \A c \in Cell \ {FreeHead, g.previous[LeftK], g.previous[rest]} :
                       m.next[c] = g.next[c]
  BY <1>4, <1>18, EndPointers
<1>20. ~In(w, FreeHead)
  BY <1>8, <1>15 DEF In
<1>21. CASE g.next[FreeHead] = rest
  <2>1. Linked(g.next, w)
    BY <1>16 DEF Linked
  <2>2. In(L[FreeHead], FreeHead)
    BY <1>8 DEF t
  <2>3. \E M : Laid(Splice(g, FreeHead, w[1], w[Len(w)]).next, M, Tops, Listed)
    BY <1>3, <1>4, <1>6, <1>13, <1>15, <1>18, <1>20, <2>1, <2>2, StretchMoves
  <2>4. Splice(g, FreeHead, LeftK, RightD) \in Heap /\ DoublyLinked(Splice(g, FreeHead, LeftK, RightD))
    BY <1>4, <1>18, SpliceKeeps
  <2>5. QED
    BY <1>15, <1>19, <1>21, <2>3, <2>4 DEF Conserved
<1>22. CASE g.next[FreeHead] # rest
  <2>1. PICK r \in 1 .. Len(t) : t[r] = rest
    BY <1>17 DEF In
  <2>2. /\ Len(t) > 1 /\ g.next[FreeHead] = t[2] /\ r # 2
    <3>1. 1 \in 1 .. Len(t) /\ g.next[t[1]] = IF 1 = Len(t) THEN t[1] ELSE t[1 + 1]
      <4>1. 1 \in 1 .. Len(t)
        BY <1>8
      <4>2. QED
        BY <1>8, <4>1
    <3>2. Len(t) # 1
      BY <1>8, <1>22, <2>1, <3>1
    <3>3. QED
      BY <1>8, <1>22, <2>1, <3>1, <3>2
  <2>3. PICK z : z = IF r = 1 THEN Len(t) ELSE r - 1
    OBVIOUS
  <2>4. z \in 2 .. Len(t) /\ g.previous[rest] = t[z]
    BY <1>8, <2>1, <2>2, <2>3
  <2> DEFINE u == SubSeq(t, 2, z)
             pre == g.previous[LeftK]
             m == Splice(g, pre, g.next[FreeHead], g.previous[rest])
  <2>5. /\ u \in Seq(Listed) /\ Len(u) = z - 1 /\ \A x \in 1 .. z - 1 : u[x] = t[1 + x]
    <3>1. PICK a : a = 1
      OBVIOUS
    <3>2. a \in 0 .. Len(t) /\ z \in a .. Len(t) /\ a + 1 = 2
      BY <1>8, <2>4, <3>1
    <3>3. /\ SubSeq(t, a + 1, z) \in Seq(Listed) /\ Len(SubSeq(t, a + 1, z)) = z - a
          /\ \A x \in 1 .. z - a : SubSeq(t, a + 1, z)[x] = t[a + x]
      BY <1>8, <3>2, Section
    <3>4. QED
      BY <3>1, <3>2, <3>3
  <2> HIDE DEF u
  <2>6. /\ Len(u) > 0 /\ u[1] = g.next[FreeHead] /\ u[Len(u)] = g.previous[rest]
        /\ \A x \in 1 .. Len(u) : u[x] \notin Tops /\ In(t, u[x])
    <3>1. 1 \in 1 .. z - 1 /\ z - 1 \in 1 .. z - 1 /\ 1 + 1 = 2 /\ 1 + (z - 1) = z /\ z - 1 > 0
      BY <2>4
    <3>2. ASSUME NEW x \in 1 .. Len(u) PROVE u[x] \notin Tops /\ In(t, u[x])
      <4>1. 1 + x \in 1 .. Len(t) /\ 1 + x # 1 /\ u[x] = t[1 + x]
        BY <1>8, <2>4, <2>5
      <4>2. QED
        BY <1>8, <4>1 DEF In
    <3>3. QED
      BY <2>2, <2>4, <2>5, <3>1, <3>2
  <2>7. Linked(g.next, u)
    <3>1. ASSUME NEW x \in 1 .. Len(u) - 1 PROVE g.next[u[x]] = u[x + 1]
      <4>1. /\ x \in 1 .. z - 1 /\ x + 1 \in 1 .. z - 1
            /\ 1 + x \in 1 .. Len(t) /\ 1 + x # Len(t) /\ (1 + x) + 1 = 1 + (x + 1)
        BY <1>8, <2>4, <2>5
      <4>2. g.next[t[1 + x]] = t[(1 + x) + 1]
        BY <1>8, <4>1
      <4>3. QED
        BY <2>5, <4>1, <4>2
    <3>2. QED
      BY <3>1 DEF Linked
  <2>8. i - 1 \in 1 .. Len(s) /\ pre = s[i - 1] /\ In(s, pre) /\ pre \in Cell /\ g.next[pre] = LeftK
    <3>1. i - 1 \in 1 .. Len(s) /\ i - 1 # Len(s) /\ (i - 1) + 1 = i
      BY <1>7, <1>12
    <3>2. pre = s[i - 1]
      BY <1>7, <1>10, <1>12
    <3>3. QED
      BY <1>7, <1>10, <3>1, <3>2 DEF In
  <2>9. ~In(u, pre) /\ g.next[pre] # u[1] /\ pre # g.previous[rest]
    <3>1. \A x \in 1 .. Len(u) : u[x] # pre
      BY <1>9, <2>6, <2>8
    <3>2. g.previous[rest] # pre
      BY <2>5, <2>6, <3>1
    <3>3. QED
      BY <1>18, <2>6, <2>8, <3>1, <3>2 DEF In
  <2>10. In(L[View], pre)
    BY <2>8 DEF s
  <2>11. PICK M : Laid(Splice(g, pre, u[1], u[Len(u)]).next, M, Tops, Listed)
    <3> HIDE DEF pre
    <3>1. QED
      BY <1>3, <1>4, <1>6, <2>5, <2>6, <2>7, <2>9, <2>10, StretchMoves
  <2>12. Laid(m.next, M, Tops, Listed)
    BY <2>6, <2>11
  <2>13. m \in Heap /\ DoublyLinked(m)
    <3>1. g.next[FreeHead] \in Cell /\ g.previous[rest] \in Cell
      BY <1>4, <1>18 DEF Heap
    <3> HIDE DEF pre
    <3>2. QED
      BY <1>4, <2>6, <2>8, <2>9, <3>1, SpliceKeeps
  <2>14. /\ e = Splice(m, FreeHead, LeftK, RightD) /\ m.next[FreeHead] = rest
         /\ \A c \in Cell \ {FreeHead, pre, g.previous[rest]} : m.next[c] = g.next[c]
    BY <1>19, <1>22
  <2> HIDE DEF m
  <2>15. Linked(m.next, w)
    <3>1. ASSUME NEW x \in 1 .. Len(w) - 1 PROVE m.next[w[x]] = w[x + 1]
      <4>1. /\ i - 1 + x \in 1 .. Len(s) /\ i - 1 + x \in i .. j - 1
            /\ w[x] = s[i - 1 + x] /\ g.next[w[x]] = w[x + 1]
        BY <1>16
      <4>2. w[x] # FreeHead /\ w[x] # g.previous[rest] /\ w[x] \in Cell
        <5>1. In(t, g.previous[rest])
          BY <1>8, <2>4 DEF In
        <5>2. x \in 1 .. Len(w)
          BY <1>13, <1>7
        <5>3. QED
          BY <1>7, <1>8, <1>15, <4>1, <5>1, <5>2
      <4>3. w[x] # pre
        <5>1. i - 1 + x # i - 1
          BY <1>7, <4>1
        <5>2. \A y, z1 \in 1 .. Len(s) : s[y] = s[z1] => y = z1
          BY <1>7
        <5>3. /\ i - 1 + x \in 1 .. Len(s) /\ w[x] = s[i - 1 + x]
              /\ i - 1 \in 1 .. Len(s) /\ pre = s[i - 1]
          BY <2>8, <4>1
        <5>4. QED
          BY <5>1, <5>2, <5>3
      <4>4. QED
        BY <2>14, <4>1, <4>2, <4>3
    <3>2. QED
      BY <3>1 DEF Linked
  <2>16. In(M[FreeHead], FreeHead)
    BY <1>3, <2>12, <2>13, RingTurns DEF Turning
  <2>17. \E N : Laid(Splice(m, FreeHead, w[1], w[Len(w)]).next, N, Tops, Listed)
    BY <1>3, <1>13, <1>15, <1>18, <1>20, <2>12, <2>13, <2>14, <2>15, <2>16, StretchMoves
  <2>18. e \in Heap /\ DoublyLinked(e)
    BY <1>18, <2>13, <2>14, SpliceKeeps
  <2>19. QED
    BY <1>15, <2>14, <2>17, <2>18 DEF Conserved
<1>23. QED
  BY <1>21, <1>22
-----------------------------------------------------------------------------
(* The call of a box *)

\* SWAPREF as three splices, each left out when there is nothing to move: the contents of
\* the box go where < is, the argument into the box, and the term to the free list.
GivenOut(g, box) == IF g.next[box] = box THEN g
                    ELSE Splice(g, g.previous[LeftK], g.next[box], g.previous[box])
TakenIn(g, box) == IF g.next[Label] = RightD THEN g
                   ELSE Splice(g, box, g.next[Label], g.previous[RightD])
Swapped(g, box) == LET swapped == Filled(Taken(g, box), box)
                   IN  Link(Link(swapped, RightD, swapped.next[FreeHead]), FreeHead, LeftK)

\* The cells F of the view field, X of the box and E of the free list, and the leading
\* term in the view field.
Apart3(g, F, X, E, box) ==
    /\ F \in SUBSET Cell /\ X \in SUBSET Cell /\ E \in SUBSET Cell
    /\ F \cap X = {} /\ F \cap E = {} /\ X \cap E = {}
    /\ \A S \in {F, X, E} : \A c \in S : g.next[c] \in S /\ g.previous[c] \in S
    /\ LeftK \in F /\ Label \in F /\ RightD \in F /\ box \in X /\ FreeHead \in E
    /\ g.next[LeftK] = Label /\ LeftK # RightD /\ Label # RightD /\ Label # LeftK
    /\ g.next[Label] # LeftK /\ g.next[RightD] # LeftK /\ g.next[RightD] # RightD

\* What the first splice leaves: the box is empty, the term is as it was.
BoxEmptied(g, F, E, box, m) ==
    /\ m \in Heap /\ DoublyLinked(m)
    /\ m.next[box] = box /\ m.previous[box] = box
    /\ \A c \in F \ {g.previous[LeftK]} : m.next[c] = g.next[c]
    /\ \A c \in F \ {LeftK} : m.previous[c] = g.previous[c]
    /\ \A c \in E : m.next[c] = g.next[c] /\ m.previous[c] = g.previous[c]
    /\ g.next[box] # box =>
          /\ m.next = [[[g.next EXCEPT ![box] = box]
                               EXCEPT ![g.previous[box]] = LeftK]
                               EXCEPT ![g.previous[LeftK]] = g.next[box]]
          /\ m.previous = [[[g.previous EXCEPT ![box] = box]
                               EXCEPT ![LeftK] = g.previous[box]]
                               EXCEPT ![g.next[box]] = g.previous[LeftK]]

\* The contents of the box leave it.
LEMMA GivenOutIs ==
    ASSUME NEW g \in Heap, DoublyLinked(g), NEW F, NEW X, NEW E, NEW box, Apart3(g, F, X, E, box)
    PROVE  BoxEmptied(g, F, E, box, GivenOut(g, box))
<1> DEFINE n == g.next
           v == g.previous
           first == n[box]
           last == v[box]
           pre == v[LeftK]
           m == GivenOut(g, box)
<1>1. /\ n \in [Cell -> Cell] /\ v \in [Cell -> Cell]
      /\ \A c \in Cell : v[n[c]] = c /\ n[v[c]] = c
  BY DEF Heap, DoublyLinked
<1>2. /\ F \in SUBSET Cell /\ X \in SUBSET Cell /\ E \in SUBSET Cell
      /\ F \cap X = {} /\ F \cap E = {} /\ X \cap E = {}
      /\ LeftK \in F /\ box \in X /\ pre \in F /\ first \in X /\ last \in X
      /\ n[pre] = LeftK /\ v[first] = box /\ n[last] = box
  BY <1>1 DEF Apart3
<1>3. CASE n[box] = box
  <2>1. m = g
    BY <1>3 DEF GivenOut
  <2>2. v[box] = box
    BY <1>2, <1>3
  <2>3. QED
    BY <1>3, <2>1, <2>2 DEF BoxEmptied
<1>4. CASE n[box] # box
  <2>1. m = Splice(g, pre, first, last)
    BY <1>4 DEF GivenOut
  <2>2. /\ m.next = [[[n EXCEPT ![box] = box] EXCEPT ![last] = LeftK] EXCEPT ![pre] = first]
        /\ m.previous = [[[v EXCEPT ![box] = box] EXCEPT ![LeftK] = last] EXCEPT ![first] = pre]
    BY <1>2, <2>1 DEF Splice, Link
  <2>3. pre # last /\ n[pre] # first /\ first # box /\ last # box
    <3>1. n[box] = first
      OBVIOUS
    <3> HIDE DEF n, v, first, last, pre
    <3>2. QED
      BY <1>2, <1>4, <3>1
  <2>4. m \in Heap /\ DoublyLinked(m)
    BY <1>2, <2>1, <2>3, SpliceKeeps
  <2>5. /\ m.next[box] = box /\ m.previous[box] = box
        /\ \A c \in F \ {pre} : m.next[c] = n[c]
        /\ \A c \in F \ {LeftK} : m.previous[c] = v[c]
        /\ \A c \in E : m.next[c] = n[c] /\ m.previous[c] = v[c]
    <3> HIDE DEF n, v, first, last, pre, m
    <3>1. QED
      BY <1>1, <1>2, <2>2, <2>3
  <2>6. QED
    BY <2>2, <2>4, <2>5 DEF BoxEmptied
<1>5. QED
  BY <1>3, <1>4

\* What the second splice leaves: nothing stands between the label and >.
TermEmptied(g, m, box, k) ==
    /\ k \in Heap /\ DoublyLinked(k)
    /\ k.next[LeftK] = Label /\ k.next[Label] = RightD
    /\ k.next[RightD] = g.next[RightD] /\ k.next[FreeHead] = g.next[FreeHead]
    /\ k.previous[LeftK] = m.previous[LeftK]
    /\ m.next[Label] = g.next[Label]
    /\ g.next[Label] = RightD => k = m
    /\ g.next[Label] # RightD =>
          /\ k = Splice(m, box, g.next[Label], g.previous[RightD])
          /\ k.next = [[[m.next EXCEPT ![Label] = RightD]
                                EXCEPT ![g.previous[RightD]] = box]
                                EXCEPT ![box] = g.next[Label]]
          /\ k.previous = [[[m.previous EXCEPT ![RightD] = Label]
                                EXCEPT ![box] = g.previous[RightD]]
                                EXCEPT ![g.next[Label]] = box]

\* The argument comes into the box.
LEMMA TakenInIs ==
    ASSUME NEW g \in Heap, DoublyLinked(g), NEW F, NEW X, NEW E, NEW box, Apart3(g, F, X, E, box),
           NEW m, m = GivenOut(g, box)
    PROVE  TermEmptied(g, m, box, TakenIn(m, box))
<1> DEFINE n == g.next
           v == g.previous
           front == n[Label]
           end == v[RightD]
           pre == v[LeftK]
           k == TakenIn(m, box)
<1>1. /\ n \in [Cell -> Cell] /\ v \in [Cell -> Cell]
      /\ \A c \in Cell : v[n[c]] = c /\ n[v[c]] = c
  BY DEF Heap, DoublyLinked
<1>2. /\ F \in SUBSET Cell /\ X \in SUBSET Cell /\ E \in SUBSET Cell
      /\ F \cap X = {} /\ F \cap E = {} /\ X \cap E = {}
      /\ LeftK \in F /\ Label \in F /\ RightD \in F /\ box \in X /\ FreeHead \in E
      /\ pre \in F /\ front \in F /\ end \in F
      /\ n[pre] = LeftK /\ v[front] = Label /\ n[end] = RightD /\ v[Label] = LeftK
      /\ n[LeftK] = Label /\ LeftK # RightD /\ Label # RightD /\ Label # LeftK
      /\ n[Label] # LeftK /\ n[RightD] # LeftK /\ n[RightD] # RightD
  BY <1>1 DEF Apart3
<1>3. /\ m \in Heap /\ DoublyLinked(m)
      /\ m.next[box] = box /\ m.previous[box] = box
      /\ \A c \in F \ {pre} : m.next[c] = n[c]
      /\ \A c \in F \ {LeftK} : m.previous[c] = v[c]
      /\ \A c \in E : m.next[c] = n[c] /\ m.previous[c] = v[c]
  <2>1. BoxEmptied(g, F, E, box, m)
    BY GivenOutIs
  <2>2. QED
    BY <2>1 DEF BoxEmptied
<1>4. /\ pre # LeftK /\ pre # Label /\ pre # RightD /\ pre # end /\ end # RightD
      /\ front # LeftK
  <2>1. n[Label] = front
    OBVIOUS
  <2> HIDE DEF n, v, front, end, pre
  <2>2. QED
    BY <1>2, <2>1
<1>5. /\ m.next[LeftK] = Label /\ m.next[Label] = front /\ m.next[RightD] = n[RightD]
      /\ m.next[FreeHead] = n[FreeHead] /\ m.previous[RightD] = end
      /\ m.next[end] = RightD /\ m.previous[front] = Label
  BY <1>2, <1>3, <1>4
<1>6. CASE front = RightD
  <2>1. k = m
    BY <1>5, <1>6 DEF TakenIn
  <2>2. QED
    BY <1>3, <1>5, <1>6, <2>1 DEF TermEmptied
<1>7. CASE front # RightD
  <2>1. k = Splice(m, box, front, end)
    BY <1>5, <1>7 DEF TakenIn
  <2>2. /\ k.next = [[[m.next EXCEPT ![Label] = RightD] EXCEPT ![end] = box] EXCEPT ![box] = front]
        /\ k.previous = [[[m.previous EXCEPT ![RightD] = Label] EXCEPT ![box] = end] EXCEPT ![front] = box]
    BY <1>3, <1>5, <2>1 DEF Splice, Link
  <2>3. box # end /\ m.next[box] # front
    BY <1>2, <1>3
  <2>4. k \in Heap /\ DoublyLinked(k)
    BY <1>2, <1>3, <2>1, <2>3, SpliceKeeps
  <2>5. end # Label /\ end # LeftK
    <3>1. n[Label] = front
      OBVIOUS
    <3> HIDE DEF n, v, front, end, pre
    <3>2. QED
      BY <1>2, <1>7, <3>1
  <2>6. m.next \in [Cell -> Cell] /\ m.previous \in [Cell -> Cell]
    BY <1>3 DEF Heap
  <2>7. /\ k.next[LeftK] = Label /\ k.next[Label] = RightD
        /\ k.next[RightD] = n[RightD] /\ k.next[FreeHead] = n[FreeHead]
        /\ k.previous[LeftK] = m.previous[LeftK]
    <3> HIDE DEF n, v, front, end, pre, k
    <3>1. QED
      BY <1>2, <1>4, <1>5, <2>2, <2>5, <2>6
  <2>8. QED
    BY <1>5, <1>7, <2>1, <2>2, <2>4, <2>7 DEF TermEmptied
<1>8. QED
  BY <1>6, <1>7

\* SWAPREF writes each pointer once; the pointers are those after the three splices.
LEMMA SwapPointers ==
    ASSUME NEW g \in Heap, DoublyLinked(g), NEW F, NEW X, NEW E, NEW box, Apart3(g, F, X, E, box)
    PROVE  Swapped(g, box) = Splice(TakenIn(GivenOut(g, box), box), FreeHead, LeftK, RightD)
<1> DEFINE n == g.next
           v == g.previous
           first == n[box]
           last == v[box]
           front == n[Label]
           end == v[RightD]
           pre == v[LeftK]
           post == n[RightD]
           free == n[FreeHead]
           m == GivenOut(g, box)
           k == TakenIn(m, box)
           t == Taken(g, box)
           f == Filled(t, box)
           z == IF first = box THEN pre ELSE last
<1>1. /\ n \in [Cell -> Cell] /\ v \in [Cell -> Cell]
      /\ \A c \in Cell : v[n[c]] = c /\ n[v[c]] = c
  BY DEF Heap, DoublyLinked
<1>2. /\ F \in SUBSET Cell /\ X \in SUBSET Cell /\ E \in SUBSET Cell
      /\ F \cap X = {} /\ F \cap E = {} /\ X \cap E = {}
      /\ LeftK \in F /\ Label \in F /\ RightD \in F /\ box \in X /\ FreeHead \in E
      /\ pre \in F /\ post \in F /\ front \in F /\ end \in F
      /\ first \in X /\ last \in X /\ free \in E
  BY <1>1 DEF Apart3
<1>3. /\ n[pre] = LeftK /\ v[front] = Label /\ n[end] = RightD /\ v[Label] = LeftK
      /\ v[post] = RightD /\ v[first] = box /\ n[last] = box
      /\ n[LeftK] = Label /\ LeftK # RightD /\ Label # RightD /\ Label # LeftK
      /\ front # LeftK /\ post # LeftK /\ post # RightD
  BY <1>1, <1>2 DEF Apart3
<1>4. /\ n[Label] = front /\ n[RightD] = post /\ n[box] = first /\ n[FreeHead] = free
      /\ v[LeftK] = pre /\ v[RightD] = end /\ v[box] = last
  OBVIOUS
<1>5. BoxEmptied(g, F, E, box, m) /\ TermEmptied(g, m, box, k)
  BY GivenOutIs, TakenInIs
<1>6. /\ m \in Heap /\ k \in Heap
      /\ m.next \in [Cell -> Cell] /\ m.previous \in [Cell -> Cell]
      /\ k.next[RightD] = post /\ k.next[FreeHead] = free
      /\ m.previous[LeftK] = z /\ k.previous[LeftK] = z
  <2>1. m \in Heap /\ k \in Heap /\ m.next \in [Cell -> Cell] /\ m.previous \in [Cell -> Cell]
    BY <1>5 DEF BoxEmptied, TermEmptied, Heap
  <2>2. k.next[RightD] = post /\ k.next[FreeHead] = free /\ k.previous[LeftK] = m.previous[LeftK]
    BY <1>5 DEF TermEmptied
  <2>3. m.previous[LeftK] = z
    <3>1. CASE first = box
      BY <3>1 DEF GivenOut
    <3>2. CASE first # box
      <4>1. m.previous = [[[v EXCEPT ![box] = box] EXCEPT ![LeftK] = last] EXCEPT ![first] = pre]
        BY <1>5, <3>2 DEF BoxEmptied
      <4>2. LeftK \in Cell /\ LeftK # first
        BY <1>2
      <4> HIDE DEF n, v, first, last, pre, m
      <4>3. QED
        BY <1>1, <3>2, <4>1, <4>2
    <3>3. QED
      BY <3>1, <3>2
  <2>4. QED
    BY <2>1, <2>2, <2>3
<1>7. Splice(k, FreeHead, LeftK, RightD) =
         [next |-> [[[k.next EXCEPT ![z] = post] EXCEPT ![RightD] = free] EXCEPT ![FreeHead] = LeftK],
          previous |-> [[[k.previous EXCEPT ![post] = z] EXCEPT ![free] = RightD]
                        EXCEPT ![LeftK] = FreeHead]]
  <2> HIDE DEF n, v, k, z, post, free
  <2>1. QED
    BY <1>6 DEF Splice, Link
<1>8. /\ t.next = IF first = box THEN [n EXCEPT ![pre] = post]
                  ELSE [[n EXCEPT ![last] = post] EXCEPT ![pre] = first]
      /\ t.previous = IF first = box THEN [v EXCEPT ![post] = pre]
                      ELSE [[v EXCEPT ![post] = last] EXCEPT ![first] = pre]
  BY DEF Taken, Link
<1>9. /\ pre # Label /\ pre # RightD /\ pre # end /\ post # front /\ end # RightD
      /\ \A c \in F : c # box /\ c # first /\ c # last /\ c # FreeHead /\ c # free
      /\ \A c \in E : c # box /\ c # first /\ c # last
      /\ (front # RightD => end # Label /\ end # LeftK /\ pre # LeftK)
      /\ (first # box => last # box)
  <2> HIDE DEF n, v, first, last, front, end, pre, post, free
  <2>1. QED
    BY <1>2, <1>3, <1>4
<1>10. t.next[Label] = front /\ t.previous[RightD] = end
  <2> HIDE DEF n, v, first, last, front, end, pre, post, free, t
  <2>1. QED
    BY <1>1, <1>2, <1>3, <1>4, <1>8, <1>9
<1>11. /\ f.next = IF front # RightD
                   THEN [[[t.next EXCEPT ![end] = box] EXCEPT ![box] = front] EXCEPT ![Label] = RightD]
                   ELSE [t.next EXCEPT ![box] = box]
       /\ f.previous = IF front # RightD
                       THEN [[[t.previous EXCEPT ![box] = end] EXCEPT ![front] = box]
                             EXCEPT ![RightD] = Label]
                       ELSE [t.previous EXCEPT ![box] = box]
  <2>1. CASE front # RightD
    <3>1. t.next[Label] # RightD /\ t.previous[RightD] = end /\ t.next[Label] = front
      BY <1>10, <2>1
    <3> HIDE DEF n, v, front, end, t
    <3>2. f = Link(Link(Link(t, end, box), box, front), Label, RightD)
      <4>1. Link(t, end, box).next[Label] = front \/ TRUE
        OBVIOUS
      <4>2. QED
        BY <3>1 DEF Filled
    <3>3. QED
      BY <2>1, <3>2 DEF Link
  <2>2. CASE front = RightD
    <3>1. f = Link(t, box, box)
      BY <1>10, <2>2 DEF Filled
    <3> HIDE DEF n, v, front, end, t
    <3>2. QED
      BY <2>2, <3>1 DEF Link
  <2>3. QED
    BY <2>1, <2>2
<1>12. f.next[FreeHead] = free
  <2> HIDE DEF n, v, first, last, front, end, pre, post, free, t, f
  <2>1. QED
    BY <1>1, <1>2, <1>4, <1>8, <1>9, <1>11
<1>13. Swapped(g, box) =
         [next |-> [[f.next EXCEPT ![RightD] = free] EXCEPT ![FreeHead] = LeftK],
          previous |-> [[f.previous EXCEPT ![free] = RightD] EXCEPT ![LeftK] = FreeHead]]
  <2>1. Swapped(g, box) = Link(Link(f, RightD, f.next[FreeHead]), FreeHead, LeftK)
    BY DEF Swapped
  <2> HIDE DEF f, free
  <2>2. QED
    BY <1>12, <2>1 DEF Link
<1>14. /\ m.next = IF first = box THEN n
                   ELSE [[[n EXCEPT ![box] = box] EXCEPT ![last] = LeftK] EXCEPT ![pre] = first]
       /\ m.previous = IF first = box THEN v
                   ELSE [[[v EXCEPT ![box] = box] EXCEPT ![LeftK] = last] EXCEPT ![first] = pre]
  <2>1. CASE first = box
    BY <2>1 DEF GivenOut
  <2>2. CASE first # box
    BY <1>5, <2>2 DEF BoxEmptied
  <2>3. QED
    BY <2>1, <2>2
<1>15. /\ k.next = IF front = RightD THEN m.next
                   ELSE [[[m.next EXCEPT ![Label] = RightD] EXCEPT ![end] = box] EXCEPT ![box] = front]
       /\ k.previous = IF front = RightD THEN m.previous
                   ELSE [[[m.previous EXCEPT ![RightD] = Label] EXCEPT ![box] = end]
                         EXCEPT ![front] = box]
  <2>1. CASE front = RightD
    BY <1>5, <2>1 DEF TermEmptied
  <2>2. CASE front # RightD
    BY <1>5, <2>2 DEF TermEmptied
  <2>3. QED
    BY <2>1, <2>2
<1> HIDE DEF n, v, first, last, front, end, pre, post, free, t, f, m, k, z
<1>0. /\ box \in Cell /\ pre \in Cell /\ post \in Cell /\ front \in Cell /\ end \in Cell
      /\ Label \in Cell /\ RightD \in Cell
      /\ box # pre /\ box # post /\ pre # end /\ pre # Label /\ post # front /\ post # RightD
  BY <1>2, <1>3, <1>9
<1>16. [[[k.next EXCEPT ![z] = post] EXCEPT ![RightD] = free] EXCEPT ![FreeHead] = LeftK]
       = [[f.next EXCEPT ![RightD] = free] EXCEPT ![FreeHead] = LeftK]
  <2>1. CASE first = box /\ front = RightD
    <3>1. z = pre /\ n[box] = box /\ v[box] = box
      BY <1>3, <1>4, <2>1 DEF z
    <3>2. k.next = n
      BY <1>14, <1>15, <2>1
    <3>3. f.next = [[n EXCEPT ![pre] = post] EXCEPT ![box] = box]
      BY <1>8, <1>11, <2>1
    <3>4. f.next = [k.next EXCEPT ![pre] = post]
      BY <1>0, <1>1, <3>1, <3>2, <3>3
    <3>5. QED
      BY <3>1, <3>4
  <2>2. CASE first = box /\ front # RightD
    <3>1. z = pre /\ n[box] = box /\ v[box] = box
      BY <1>3, <1>4, <2>2 DEF z
    <3>2. k.next = [[[n EXCEPT ![Label] = RightD] EXCEPT ![end] = box] EXCEPT ![box] = front]
      BY <1>14, <1>15, <2>2
    <3>3. f.next = [[[[n EXCEPT ![pre] = post] EXCEPT ![end] = box] EXCEPT ![box] = front] EXCEPT ![Label] = RightD]
      BY <1>8, <1>11, <2>2
    <3>4. f.next = [k.next EXCEPT ![pre] = post]
      <4>1. end # Label /\ front # RightD /\ Label # box /\ RightD # box /\ end # box /\ front # box
        BY <1>2, <1>9, <2>2
      <4>2. QED
        BY <1>0, <1>1, <3>1, <3>2, <3>3, <4>1
    <3>5. QED
      BY <3>1, <3>4
  <2>3. CASE first # box /\ front = RightD
    BY <1>1, <1>2, <1>3, <1>4, <1>8, <1>9, <1>11, <1>14, <1>15, <2>3 DEF z
  <2>4. CASE first # box /\ front # RightD
    BY <1>1, <1>2, <1>3, <1>4, <1>8, <1>9, <1>11, <1>14, <1>15, <2>4 DEF z
  <2>5. QED
    BY <2>1, <2>2, <2>3, <2>4
<1>17. [[[k.previous EXCEPT ![post] = z] EXCEPT ![free] = RightD] EXCEPT ![LeftK] = FreeHead]
       = [[f.previous EXCEPT ![free] = RightD] EXCEPT ![LeftK] = FreeHead]
  <2>1. CASE first = box /\ front = RightD
    <3>1. z = pre /\ n[box] = box /\ v[box] = box
      BY <1>3, <1>4, <2>1 DEF z
    <3>2. k.previous = v
      BY <1>14, <1>15, <2>1
    <3>3. f.previous = [[v EXCEPT ![post] = pre] EXCEPT ![box] = box]
      BY <1>8, <1>11, <2>1
    <3>4. f.previous = [k.previous EXCEPT ![post] = pre]
      BY <1>0, <1>1, <3>1, <3>2, <3>3
    <3>5. QED
      BY <3>1, <3>4
  <2>2. CASE first = box /\ front # RightD
    <3>1. z = pre /\ n[box] = box /\ v[box] = box
      BY <1>3, <1>4, <2>2 DEF z
    <3>2. k.previous = [[[v EXCEPT ![RightD] = Label] EXCEPT ![box] = end] EXCEPT ![front] = box]
      BY <1>14, <1>15, <2>2
    <3>3. f.previous = [[[[v EXCEPT ![post] = pre] EXCEPT ![box] = end] EXCEPT ![front] = box] EXCEPT ![RightD] = Label]
      BY <1>8, <1>11, <2>2
    <3>4. f.previous = [k.previous EXCEPT ![post] = pre]
      <4>1. end # Label /\ front # RightD /\ Label # box /\ RightD # box /\ end # box /\ front # box
        BY <1>2, <1>9, <2>2
      <4>2. QED
        BY <1>0, <1>1, <3>1, <3>2, <3>3, <4>1
    <3>5. QED
      BY <3>1, <3>4
  <2>3. CASE first # box /\ front = RightD
    BY <1>1, <1>2, <1>3, <1>4, <1>8, <1>9, <1>11, <1>14, <1>15, <2>3 DEF z
  <2>4. CASE first # box /\ front # RightD
    BY <1>1, <1>2, <1>3, <1>4, <1>8, <1>9, <1>11, <1>14, <1>15, <2>4 DEF z
  <2>5. QED
    BY <2>1, <2>2, <2>3, <2>4
<1>18. QED
  BY <1>7, <1>13, <1>16, <1>17 DEF m, k

\* SWAPREF: the contents of the box, the argument and the term change their lists, and
\* nothing is lost, whichever of them are empty.
LEMMA SwapKeeps ==
    ASSUME scene \in Scenes, NEW s \in BoxLists
    PROVE  Conserved(Swapped(Original, s[1]))
<1>1. PICK p, q : Term(p, q)
  BY TermIs
<1>2. PICK g : g = Original
  OBVIOUS
<1> DEFINE L == FirstLists
           box == s[1]
           l == Len(Field)
           n == g.next
           v == g.previous
           F == {c \in Cell : In(Field, c)}
           X == {c \in Cell : In(s, c)}
           E == {c \in Cell : In(Free, c)}
<1>3. g \in Heap /\ DoublyLinked(g) /\ Laid(n, L, Tops, Listed) /\ Listed \in SUBSET Cell
  BY <1>2, OriginalIs, FirstListsAre
<1>4. /\ View \in Tops /\ FreeHead \in Tops /\ box \in Tops
      /\ L[View] = Field /\ L[FreeHead] = Free /\ L[box] = s
      /\ View # FreeHead /\ View # box /\ FreeHead # box
  <2>1. s \in Lists /\ Field \in Lists /\ Free \in Lists
    BY DEF Lists
  <2>2. /\ View \in Tops /\ FreeHead \in Tops /\ box \in Tops
        /\ L[View] = Field /\ L[FreeHead] = Free /\ L[box] = s
    BY <2>1, FirstListsAre
  <2>3. s # Field /\ s # Free /\ Field # Free
    BY AllListsAre
  <2> HIDE DEF L, box
  <2>4. QED
    BY <2>2, <2>3
<1>5. Turning(g, Listed, Tops, L, View) /\ Turning(g, Listed, Tops, L, FreeHead)
      /\ Turning(g, Listed, Tops, L, box)
  <2> HIDE DEF L, box
  <2>1. QED
    BY <1>3, <1>4, RingTurns
<1> HIDE DEF L, box
<1>6. /\ l \in Nat /\ l > 0 /\ Field \in Seq(Listed)
      /\ \A i \in 1 .. l :
            /\ Field[i] \in Cell
            /\ Field[i] \in Tops => i = 1
            /\ n[Field[i]] = IF i = l THEN Field[1] ELSE Field[i + 1]
            /\ v[Field[i]] = IF i = 1 THEN Field[l] ELSE Field[i - 1]
      /\ \A c : In(Field, c) => In(Field, n[c]) /\ In(Field, v[c])
      /\ \A i, j \in 1 .. l : Field[i] = Field[j] => i = j
      /\ \A c : ~(In(Field, c) /\ In(s, c)) /\ ~(In(Field, c) /\ In(Free, c))
  BY <1>4, <1>5 DEF Turning
<1>7. /\ In(Free, FreeHead) /\ FreeHead \in Cell
      /\ \A c : In(Free, c) => In(Free, n[c]) /\ In(Free, v[c])
      /\ \A c : ~(In(s, c) /\ In(Free, c))
  <2>1. Listed \subseteq Cell
    BY <1>3
  <2>2. /\ In(Free, FreeHead)
        /\ \A c : In(Free, c) => In(Free, n[c]) /\ In(Free, v[c])
        /\ \A c : ~(In(s, c) /\ In(Free, c))
        /\ \A i \in 1 .. Len(Free) : Free[i] \in Cell
    BY <1>4, <1>5 DEF Turning
  <2>3. QED
    BY <2>2 DEF In
<1>8. /\ s \in Seq(Listed) /\ Len(s) \in Nat /\ Len(s) > 0 /\ s[1] = box /\ In(s, box)
      /\ \A i \in 1 .. Len(s) :
            /\ s[i] \in Cell
            /\ s[i] \in Tops => i = 1
            /\ n[s[i]] = IF i = Len(s) THEN s[1] ELSE s[i + 1]
            /\ v[s[i]] = IF i = 1 THEN s[Len(s)] ELSE s[i - 1]
      /\ \A c : In(s, c) => In(s, n[c]) /\ In(s, v[c])
  BY <1>4, <1>5 DEF Turning
<1>9. /\ p \in 2 .. l /\ q \in p + 2 .. l
      /\ LeftK = Field[p] /\ Label = Field[p + 1] /\ RightD = Field[q]
  BY <1>1 DEF Term
<1> HIDE DEF l
<1>10. /\ p \in 1 .. l /\ p + 1 \in 1 .. l /\ q \in 1 .. l /\ p + 2 \in 1 .. l
       /\ p - 1 \in 1 .. l /\ q - 1 \in 1 .. l /\ p # 1 /\ p # l /\ p + 1 # l /\ p + 1 # 1 /\ q # 1
       /\ p # q /\ p + 1 # q /\ p + 1 # p /\ p + 2 # p
       /\ (p + 1) + 1 = p + 2 /\ (q # l => q + 1 \in 1 .. l /\ q + 1 # p /\ q + 1 # q)
       /\ 1 \in 1 .. l
  <2>1. l \in Nat /\ p \in 2 .. l /\ q \in p + 2 .. l
    BY <1>6, <1>9
  <2>2. /\ p \in 1 .. l /\ p + 1 \in 1 .. l /\ q \in 1 .. l /\ p + 2 \in 1 .. l
        /\ p - 1 \in 1 .. l /\ q - 1 \in 1 .. l /\ 1 \in 1 .. l
    BY <2>1
  <2>3. /\ p # 1 /\ p # l /\ p + 1 # l /\ p + 1 # 1 /\ q # 1
        /\ p # q /\ p + 1 # q /\ p + 1 # p /\ p + 2 # p /\ (p + 1) + 1 = p + 2
    BY <2>1
  <2>4. q # l => q + 1 \in 1 .. l /\ q + 1 # p /\ q + 1 # q
    BY <2>1
  <2>5. QED
    BY <2>2, <2>3, <2>4
<1>11. /\ n[LeftK] = Label /\ n[Label] = Field[p + 2] /\ v[RightD] = Field[q - 1]
       /\ v[LeftK] = Field[p - 1]
       /\ LeftK # RightD /\ Label # RightD /\ Label # LeftK
       /\ n[Label] # LeftK /\ n[RightD] # LeftK /\ n[RightD] # RightD
  <2>1. /\ n[LeftK] = Label /\ n[Label] = Field[p + 2] /\ v[RightD] = Field[q - 1]
        /\ v[LeftK] = Field[p - 1]
    BY <1>6, <1>9, <1>10
  <2>2. n[RightD] = IF q = l THEN Field[1] ELSE Field[q + 1]
    BY <1>6, <1>9, <1>10
  <2>3. LeftK # RightD /\ Label # RightD /\ Label # LeftK /\ n[Label] # LeftK
    BY <1>6, <1>9, <1>10, <2>1
  <2>4. n[RightD] # LeftK /\ n[RightD] # RightD
    BY <1>6, <1>9, <1>10, <2>2
  <2>5. QED
    BY <2>1, <2>3, <2>4
<1>12. In(Field, LeftK) /\ In(Field, Label) /\ In(Field, RightD)
  <2>1. \A i \in 1 .. l : In(Field, Field[i])
    BY DEF In, l
  <2>2. QED
    BY <1>9, <1>10, <2>1
<1>13. Apart3(g, F, X, E, box)
  <2>1. \A c \in Cell : n[c] \in Cell /\ v[c] \in Cell
    BY <1>3 DEF Heap
  <2>2. LeftK \in F /\ Label \in F /\ RightD \in F /\ box \in X /\ FreeHead \in E
    <3>1. LeftK \in Cell /\ Label \in Cell /\ RightD \in Cell
      BY <1>6, <1>9, <1>10
    <3>2. box \in Cell
      BY <1>8
    <3>3. QED
      BY <1>7, <1>8, <1>12, <3>1, <3>2
  <2>3. F \cap X = {} /\ F \cap E = {} /\ X \cap E = {}
    BY <1>6, <1>7
  <2>4. \A S \in {F, X, E} : \A c \in S : n[c] \in S /\ v[c] \in S
    BY <1>6, <1>7, <1>8, <2>1
  <2>5. F \in SUBSET Cell /\ X \in SUBSET Cell /\ E \in SUBSET Cell
    OBVIOUS
  <2> HIDE DEF F, X, E
  <2>6. QED
    BY <1>11, <2>2, <2>3, <2>4, <2>5 DEF Apart3
<1> DEFINE m == GivenOut(g, box)
           k == TakenIn(m, box)
<1>14. BoxEmptied(g, F, E, box, m) /\ TermEmptied(g, m, box, k)
       /\ Swapped(g, box) = Splice(k, FreeHead, LeftK, RightD)
  <2> HIDE DEF F, X, E
  <2>1. QED
    BY <1>3, <1>13, GivenOutIs, TakenInIs, SwapPointers
<1>15. /\ m \in Heap /\ DoublyLinked(m) /\ m.next[box] = box
       /\ \A c \in Cell : In(Field, c) /\ c # v[LeftK] => m.next[c] = n[c]
  BY <1>14 DEF BoxEmptied
<1>16. /\ k \in Heap /\ DoublyLinked(k)
       /\ k.next[LeftK] = Label /\ k.next[Label] = RightD /\ k.next[FreeHead] = n[FreeHead]
       /\ n[Label] = RightD => k = m
       /\ n[Label] # RightD => k = Splice(m, box, n[Label], v[RightD])
  BY <1>14 DEF TermEmptied
<1> HIDE DEF F, X, E
<1>17. \E M : Laid(m.next, M, Tops, Listed)
  <2>1. CASE n[box] = box
    <3>1. m = g
      BY <2>1 DEF GivenOut
    <3>2. QED
      BY <1>3, <3>1
  <2>2. CASE n[box] # box
    <3>1. m = Splice(g, v[LeftK], n[box], v[box])
      BY <2>2 DEF GivenOut
    <3> DEFINE u == SubSeq(s, 2, Len(s))
    <3>2. Len(s) > 1 /\ n[box] = s[2] /\ v[box] = s[Len(s)]
      <4>1. 1 \in 1 .. Len(s)
        BY <1>8
      <4>2. n[box] = IF 1 = Len(s) THEN s[1] ELSE s[1 + 1]
        BY <1>8, <4>1
      <4>3. Len(s) # 1
        BY <1>8, <2>2, <4>2
      <4>4. Len(s) > 1 /\ n[box] = s[2]
        <5>1. Len(s) \in Nat /\ Len(s) > 0 /\ 1 + 1 = 2
          BY <1>8
        <5>2. Len(s) > 1
          <6>1. PICK y : y = Len(s)
            OBVIOUS
          <6>2. y \in Nat /\ y > 0 /\ y # 1
            BY <4>3, <5>1, <6>1
          <6>3. y > 1
            BY <6>2
          <6>4. QED
            BY <6>1, <6>3
        <5>3. n[box] = s[1 + 1]
          BY <4>2, <4>3
        <5>4. QED
          BY <5>1, <5>2, <5>3
      <4>5. v[s[1]] = s[Len(s)]
        BY <1>8, <4>1
      <4>6. QED
        BY <1>8, <4>4, <4>5
    <3>3. PICK z : z = Len(s)
      OBVIOUS
    <3>4. /\ u \in Seq(Listed) /\ Len(u) = z - 1 /\ \A x \in 1 .. z - 1 : u[x] = s[1 + x]
      <4>1. PICK a : a = 1
        OBVIOUS
      <4>2. a \in 0 .. Len(s) /\ z \in a .. Len(s) /\ a + 1 = 2
        BY <1>8, <3>2, <3>3, <4>1
      <4>3. /\ SubSeq(s, a + 1, z) \in Seq(Listed) /\ Len(SubSeq(s, a + 1, z)) = z - a
            /\ \A x \in 1 .. z - a : SubSeq(s, a + 1, z)[x] = s[a + x]
        BY <1>8, <4>2, Section
      <4>4. QED
        BY <3>3, <4>1, <4>2, <4>3
    <3> HIDE DEF u
    <3>5. z \in Nat /\ z > 1
      BY <1>8, <3>2, <3>3
    <3>6. /\ Len(u) > 0 /\ u[1] = n[box] /\ u[Len(u)] = v[box]
          /\ \A x \in 1 .. Len(u) : u[x] \notin Tops /\ In(s, u[x])
      <4>1. 1 \in 1 .. z - 1 /\ z - 1 \in 1 .. z - 1 /\ 1 + 1 = 2 /\ 1 + (z - 1) = z /\ z - 1 > 0
        BY <3>5
      <4>2. ASSUME NEW x \in 1 .. Len(u) PROVE u[x] \notin Tops /\ In(s, u[x])
        <5>1. 1 + x \in 1 .. Len(s) /\ 1 + x # 1 /\ u[x] = s[1 + x]
          BY <3>3, <3>4, <3>5
        <5>2. QED
          BY <1>8, <5>1 DEF In
      <4>3. QED
        BY <3>2, <3>3, <3>4, <4>1, <4>2
    <3>7. Linked(n, u)
      <4>1. ASSUME NEW x \in 1 .. Len(u) - 1 PROVE n[u[x]] = u[x + 1]
        <5>1. /\ x \in 1 .. z - 1 /\ x + 1 \in 1 .. z - 1
              /\ 1 + x \in 1 .. Len(s) /\ 1 + x # Len(s) /\ (1 + x) + 1 = 1 + (x + 1)
          BY <3>3, <3>4, <3>5
        <5>2. n[s[1 + x]] = s[(1 + x) + 1]
          BY <1>8, <5>1
        <5>3. QED
          BY <3>4, <5>1, <5>2
      <4>2. QED
        BY <4>1 DEF Linked
    <3>8. In(Field, v[LeftK]) /\ n[v[LeftK]] = LeftK
      <4>1. (p - 1) + 1 = p /\ p - 1 # l
        BY <1>6, <1>9, <1>10
      <4>2. n[v[LeftK]] = LeftK
        BY <1>6, <1>9, <1>10, <1>11, <4>1
      <4>3. QED
        BY <1>6, <1>12, <4>2
    <3>9. ~In(u, v[LeftK]) /\ n[v[LeftK]] # u[1]
      <4>1. 1 \in 1 .. Len(u)
        BY <3>4, <3>5
      <4>2. In(s, u[1])
        BY <3>6, <4>1
      <4>3. ~In(u, v[LeftK])
        <5>1. SUFFICES ASSUME NEW x \in 1 .. Len(u), u[x] = v[LeftK] PROVE FALSE
          BY DEF In
        <5>2. QED
          BY <1>6, <3>6, <3>8, <5>1
      <4>4. QED
        BY <1>6, <1>12, <3>8, <4>2, <4>3
    <3>10. In(L[View], v[LeftK])
      BY <1>4, <3>8
    <3> DEFINE where == v[LeftK]
    <3>11. \E M : Laid(Splice(g, where, u[1], u[Len(u)]).next, M, Tops, Listed)
      <4>1. ~In(u, where) /\ n[where] # u[1] /\ In(L[View], where)
        BY <3>9, <3>10
      <4> HIDE DEF where
      <4>2. QED
        BY <1>3, <1>4, <3>4, <3>6, <3>7, <4>1, StretchMoves
    <3>12. QED
      BY <3>1, <3>6, <3>11
  <2>3. QED
    BY <2>1, <2>2
<1>18. PICK M : Laid(m.next, M, Tops, Listed)
  BY <1>17
<1>19. \A t \in Tops : In(M[t], t)
  <2>1. ASSUME NEW t \in Tops PROVE In(M[t], t)
    <3>1. Turning(m, Listed, Tops, M, t)
      BY <1>3, <1>15, <1>18, RingTurns
    <3>2. QED
      BY <3>1 DEF Turning
  <2>2. QED
    BY <2>1
<1> HIDE DEF m, k
<1>20. \E N : Laid(k.next, N, Tops, Listed)
  <2>1. CASE n[Label] = RightD
    BY <1>16, <1>18, <2>1
  <2>2. CASE n[Label] # RightD
    <3>1. PICK a : a = p + 1
      OBVIOUS
    <3>2. PICK z : z = q - 1
      OBVIOUS
    <3>3. a \in 1 .. l /\ z \in a .. l /\ a + 1 = p + 2 /\ z < q /\ p < a
      BY <1>6, <1>9, <3>1, <3>2
    <3>4. z > a
      <4>1. p + 2 # q
        BY <1>9, <1>11, <2>2
      <4>2. QED
        BY <1>6, <1>9, <3>1, <3>2, <4>1
    <3> DEFINE u == SubSeq(Field, a + 1, z)
    <3>5. /\ u \in Seq(Listed) /\ Len(u) = z - a /\ \A x \in 1 .. z - a : u[x] = Field[a + x]
      <4>1. a \in 0 .. Len(Field) /\ z \in a .. Len(Field)
        BY <3>3 DEF l
      <4>2. QED
        BY <1>6, <4>1, Section
    <3> HIDE DEF u
    <3>6. \A x \in 1 .. z - a : a + x \in 1 .. l /\ a + x # 1 /\ a + x # p - 1 /\ a + x <= z
      BY <1>6, <1>9, <3>1, <3>3
    <3>7. /\ Len(u) > 0 /\ u[1] = n[Label] /\ u[Len(u)] = v[RightD]
          /\ \A x \in 1 .. Len(u) : u[x] \notin Tops /\ In(Field, u[x])
      <4>1. 1 \in 1 .. z - a /\ z - a \in 1 .. z - a /\ z - a > 0 /\ a + (z - a) = z
        BY <3>3, <3>4
      <4>2. u[1] = Field[a + 1] /\ u[z - a] = Field[z]
        BY <3>5, <4>1
      <4>3. ASSUME NEW x \in 1 .. Len(u) PROVE u[x] \notin Tops /\ In(Field, u[x])
        <5>1. a + x \in 1 .. l /\ a + x # 1 /\ u[x] = Field[a + x]
          BY <3>5, <3>6
        <5>2. QED
          BY <1>6, <5>1 DEF In, l
      <4>4. QED
        BY <1>11, <3>2, <3>3, <3>5, <4>1, <4>2, <4>3
    <3>8. Linked(m.next, u)
      <4>1. ASSUME NEW x \in 1 .. Len(u) - 1 PROVE m.next[u[x]] = u[x + 1]
        <5>1. /\ x \in 1 .. z - a /\ x + 1 \in 1 .. z - a /\ x \in 1 .. Len(u)
              /\ a + x # l /\ (a + x) + 1 = a + (x + 1)
          BY <3>3, <3>5
        <5>2. a + x \in 1 .. l /\ a + x # p - 1 /\ u[x] = Field[a + x] /\ u[x + 1] = Field[a + (x + 1)]
          BY <3>5, <3>6, <5>1
        <5>3. n[u[x]] = u[x + 1] /\ u[x] \in Cell
          BY <1>6, <5>1, <5>2
        <5>4. u[x] # v[LeftK]
          <6>1. p - 1 \in 1 .. l /\ v[LeftK] = Field[p - 1]
            BY <1>10, <1>11
          <6>2. \A i, j \in 1 .. l : Field[i] = Field[j] => i = j
            BY <1>6
          <6>3. QED
            BY <5>2, <6>1, <6>2
        <5>5. In(Field, u[x])
          BY <3>7, <5>1
        <5>6. QED
          BY <1>15, <5>3, <5>4, <5>5
      <4>2. QED
        BY <4>1 DEF Linked
    <3>9. ~In(u, box)
      <4>1. SUFFICES ASSUME NEW x \in 1 .. Len(u), u[x] = box PROVE FALSE
        BY DEF In
      <4>2. QED
        BY <1>6, <1>8, <3>7, <4>1
    <3>10. m.next[box] # u[1]
      <4>1. 1 \in 1 .. Len(u)
        BY <3>3, <3>4, <3>5
      <4>2. QED
        BY <1>6, <1>8, <1>15, <3>7, <4>1
    <3>11. \E N : Laid(Splice(m, box, u[1], u[Len(u)]).next, N, Tops, Listed)
      BY <1>3, <1>4, <1>15, <1>18, <1>19, <3>5, <3>7, <3>8, <3>9, <3>10, StretchMoves
    <3>12. QED
      BY <1>16, <2>2, <3>7, <3>11
  <2>3. QED
    BY <2>1, <2>2
<1>21. PICK N : Laid(k.next, N, Tops, Listed)
  BY <1>20
<1>22. PICK w : w = <<LeftK, Label, RightD>>
  OBVIOUS
<1>23. /\ w \in Seq(Listed) /\ Len(w) = 3 /\ w[1] = LeftK /\ w[2] = Label /\ w[3] = RightD
  <2>1. LeftK \in Listed /\ Label \in Listed /\ RightD \in Listed
    <3>1. \A i \in 1 .. l : Field[i] \in Listed
      BY <1>6 DEF l
    <3>2. QED
      BY <1>9, <1>10, <3>1
  <2>2. QED
    BY <1>22, <2>1
<1>24. Linked(k.next, w)
  <2>1. \A i \in 1 .. Len(w) - 1 : i = 1 \/ i = 2
    BY <1>23
  <2>2. QED
    BY <1>16, <1>23, <2>1 DEF Linked
<1>25. \A j \in 1 .. Len(w) : w[j] \notin Tops /\ In(Field, w[j])
  <2>1. \A j \in 1 .. Len(w) : j = 1 \/ j = 2 \/ j = 3
    BY <1>23
  <2>2. LeftK \notin Tops /\ Label \notin Tops /\ RightD \notin Tops
    BY <1>6, <1>9, <1>10
  <2>3. QED
    BY <1>12, <1>23, <2>1, <2>2
<1>26. ~In(w, FreeHead) /\ k.next[FreeHead] # LeftK
  <2>1. ~In(w, FreeHead)
    <3>1. SUFFICES ASSUME NEW x \in 1 .. Len(w), w[x] = FreeHead PROVE FALSE
      BY DEF In
    <3>2. QED
      BY <1>6, <1>7, <1>25, <3>1
  <2>2. In(Free, n[FreeHead])
    BY <1>7
  <2>3. QED
    BY <1>6, <1>12, <1>16, <2>1, <2>2
<1>27. In(N[FreeHead], FreeHead)
  <2>1. Turning(k, Listed, Tops, N, FreeHead)
    BY <1>3, <1>4, <1>16, <1>21, RingTurns
  <2>2. QED
    BY <2>1 DEF Turning
<1>28. \E O : Laid(Splice(k, FreeHead, w[1], w[Len(w)]).next, O, Tops, Listed)
  <2>1. Len(w) > 0 /\ k.next[FreeHead] # w[1]
    BY <1>23, <1>26
  <2>2. QED
    BY <1>3, <1>4, <1>16, <1>21, <1>23, <1>24, <1>25, <1>26, <1>27, <2>1, StretchMoves
<1>29. LeftK \in Cell /\ RightD \in Cell /\ FreeHead \in Cell /\ FreeHead # RightD
  BY <1>6, <1>7, <1>9, <1>10, <1>12
<1>30. /\ Splice(k, FreeHead, LeftK, RightD) \in Heap
       /\ DoublyLinked(Splice(k, FreeHead, LeftK, RightD))
  BY <1>16, <1>26, <1>29, SpliceKeeps
<1>31. Conserved(Swapped(g, box))
  BY <1>14, <1>23, <1>28, <1>30 DEF Conserved
<1>32. QED
  BY <1>2, <1>31 DEF box
-----------------------------------------------------------------------------
(* The steps *)

\* The inductive invariant: what is planned can be moved, the lists are those the step
\* has found, and when it is over all their cells are in lists with the same heads.
ListsInv == Inv /\ Plans /\ (phase = "done" => Conserved(heap))

\* As long as nothing is planned the plans stay what they are.
LEMMA PlansStay ==
    ASSUME Plans, UNCHANGED <<scene, stack>>
    PROVE  Plans'
<1>1. Free' = Free /\ Field' = Field /\ Variable' = Variable /\ stack' = stack
  BY DEF Free, Field, Variable
<1>2. \A v : From(v)' = From(v) /\ Upto(v)' = Upto(v)
  BY <1>1 DEF From, Upto, Place
<1>3. QED
  BY <1>1, <1>2 DEF Plans, Nested

\* A step that writes new cells only plans nothing and moves nothing.
LEMMA WritingKeeps ==
    ASSUME ListsInv, UNCHANGED <<scene, stack>>, phase' # "done" \/ UNCHANGED <<heap, phase>>
    PROVE  Plans' /\ (phase' = "done" => Conserved(heap)')
<1>1. Plans'
  BY PlansStay DEF ListsInv
<1>2. ASSUME phase' = "done" PROVE Conserved(heap)'
  <2>1. heap' = heap /\ Conserved(heap)
    BY <1>2 DEF ListsInv
  <2>2. Tops' = Tops /\ Listed' = Listed
    BY DEF Tops, Listed, Used, Lists, Free, Field, BoxLists
  <2>3. QED
    BY <2>1, <2>2 DEF Conserved
<1>3. QED
  BY <1>1, <1>2

\* A part is planned behind a new cell, around or beside those planned already.
LEMMA TransplantKeeps ==
    ASSUME ListsInv, Transplant, UNCHANGED scene
    PROVE  Plans'
<1>1. PICK v \in Variable :
         /\ Building /\ Part(v) # <<>>
         /\ \A i \in DOMAIN stack :
                LET planned == Range(Part(stack[i].part))
                IN  planned \subseteq Range(Part(v)) \/ planned \cap Range(Part(v)) = {}
         /\ stack' = Append(stack, [to |-> current, part |-> v])
  BY DEF Transplant
<1>2. scene \in Scenes /\ Plans /\ phase = "build"
  BY <1>1 DEF ListsInv, Inv, Building
<1>3. PICK p, q : Term(p, q)
  BY <1>2, TermIs
<1> DEFINE D == [to : Range(Free), part : Variable]
           e == [to |-> current, part |-> v]
           l == Len(stack)
<1>4. stack \in Seq(D) /\ l \in Nat /\ DOMAIN stack = 1 .. l
  BY <1>2 DEF Plans
<1>5. e \in D
  <2>1. PICK k, O : Chained(O, k)
    BY <1>2 DEF ListsInv, Inv, Writing
  <2>2. k \in 1 .. Len(Free) /\ current = Free[k]
    BY <2>1 DEF Chained
  <2>3. DOMAIN Free = 1 .. Len(Free)
    BY <1>2, FieldIs
  <2>4. current \in Range(Free)
    BY <2>2, <2>3 DEF Range
  <2>5. QED
    BY <2>4
<1>6. /\ stack' \in Seq(D) /\ Len(stack') = l + 1 /\ stack'[l + 1] = e
      /\ \A i \in 1 .. l : stack'[i] = stack[i]
  <2> HIDE DEF D, e
  <2>1. QED
    BY <1>1, <1>4, <1>5 DEF e
<1>7. From(v) <= Upto(v)
  <2>1. ~(From(v) > Upto(v))
    BY <1>1, <1>2, <1>3, PartOf
  <2>2. From(v) \in Nat /\ Upto(v) \in Nat
    BY <1>3 DEF Term
  <2>3. QED
    BY <2>1, <2>2
<1>8. ASSUME NEW i \in 1 .. l PROVE Nested(stack[i].part, v)
  <2>1. PICK u : u = stack[i].part
    OBVIOUS
  <2>2. u \in Variable /\ From(u) <= Upto(u)
    BY <1>2, <2>1, PlanIs
  <2>3. /\ From(u) \in 1 .. Len(Field) /\ Upto(u) \in 1 .. Len(Field)
        /\ From(v) \in 1 .. Len(Field) /\ Upto(v) \in 1 .. Len(Field)
        /\ \A x, y \in 1 .. Len(Field) : Field[x] = Field[y] => x = y
    BY <1>2, <1>3, <2>2, FieldIs DEF Term
  <2>4. /\ \A x \in From(u) .. Upto(u) : Field[x] \in Range(Part(u))
        /\ \A c \in Range(Part(u)) : \E x \in From(u) .. Upto(u) : c = Field[x]
    BY <1>2, <1>3, <2>2, PartOf
  <2>5. /\ \A x \in From(v) .. Upto(v) : Field[x] \in Range(Part(v))
        /\ \A c \in Range(Part(v)) : \E x \in From(v) .. Upto(v) : c = Field[x]
    BY <1>2, <1>3, <1>7, PartOf
  <2>6. CASE Range(Part(u)) \subseteq Range(Part(v))
    <3>1. From(u) \in From(u) .. Upto(u) /\ Upto(u) \in From(u) .. Upto(u)
      BY <2>2, <2>3
    <3>2. PICK x \in From(v) .. Upto(v) : Field[From(u)] = Field[x]
      BY <2>4, <2>5, <2>6, <3>1
    <3>3. PICK y \in From(v) .. Upto(v) : Field[Upto(u)] = Field[y]
      BY <2>4, <2>5, <2>6, <3>1
    <3>4. x \in 1 .. Len(Field) /\ y \in 1 .. Len(Field)
      BY <2>3
    <3>5. From(u) = x /\ Upto(u) = y
      BY <2>3, <3>2, <3>3, <3>4
    <3>6. From(v) <= From(u) /\ Upto(u) <= Upto(v)
      BY <2>3, <3>5
    <3>7. QED
      BY <2>1, <3>6 DEF Nested
  <2>7. CASE Range(Part(u)) \cap Range(Part(v)) = {}
    <3>1. From(u) \notin From(v) .. Upto(v) /\ From(v) \notin From(u) .. Upto(u)
      <4>1. From(u) \in From(u) .. Upto(u) /\ From(v) \in From(v) .. Upto(v)
        BY <1>7, <2>2, <2>3
      <4>2. QED
        BY <2>4, <2>5, <2>7, <4>1
    <3>2. Upto(v) < From(u) \/ Upto(u) < From(v)
      BY <2>3, <3>1
    <3>3. QED
      BY <2>1, <3>2 DEF Nested
  <2>8. QED
    BY <1>1, <1>4, <2>1, <2>6, <2>7
<1>9. /\ \A j \in 1 .. l + 1 : From(stack'[j].part) <= Upto(stack'[j].part)
      /\ \A j \in 1 .. l + 1 : \A i \in 1 .. j - 1 : Nested(stack'[i].part, stack'[j].part)
  <2>1. ASSUME NEW j \in 1 .. l + 1
        PROVE  /\ From(stack'[j].part) <= Upto(stack'[j].part)
               /\ \A i \in 1 .. j - 1 : Nested(stack'[i].part, stack'[j].part)
    <3>1. CASE j = l + 1
      <4>1. stack'[j].part = v
        BY <1>6, <3>1
      <4>2. \A i \in 1 .. j - 1 : i \in 1 .. l /\ stack'[i] = stack[i]
        BY <1>4, <1>6, <3>1
      <4>3. QED
        BY <1>7, <1>8, <4>1, <4>2
    <3>2. CASE j # l + 1
      <4>1. j \in 1 .. l /\ stack'[j] = stack[j]
        BY <1>4, <1>6, <3>2
      <4>2. \A i \in 1 .. j - 1 : i \in 1 .. l /\ stack'[i] = stack[i]
        BY <1>4, <1>6, <4>1
      <4>3. QED
        BY <1>2, <4>1, <4>2 DEF Plans
    <3>3. QED
      BY <3>1, <3>2
  <2>2. QED
    BY <2>1
<1>10. /\ Free' = Free /\ Variable' = Variable
       /\ \A u : From(u)' = From(u) /\ Upto(u)' = Upto(u)
  BY DEF Free, Variable, From, Upto, Place, Field
<1> HIDE DEF e, l
<1>11. QED
  BY <1>6, <1>9, <1>10 DEF Plans, Nested

\* EOS: what was planned is moved, and the lists are exchanged.
LEMMA EndOfSentenceKeeps ==
    ASSUME ListsInv, EndOfSentence, UNCHANGED scene
    PROVE  Conserved(heap)'
<1>1. scene \in Scenes /\ Plans /\ phase = "build" /\ heap = Original
  BY DEF ListsInv, Inv, EndOfSentence, Building
<1>2. PICK k, O : Chained(O, k)
  BY <1>1 DEF ListsInv, Inv, Writing
<1>3. New \in Range(Free)
  <2>1. k \in 1 .. Len(Free) /\ current = Free[k]
    BY <1>2 DEF Chained
  <2>2. New = IF k = Len(Free) THEN Free[1] ELSE Free[k + 1]
    BY <1>1, <2>1, NextFree DEF New
  <2>3. Len(Free) \in Nat /\ DOMAIN Free = 1 .. Len(Free) /\ 1 \in 1 .. Len(Free)
    BY <1>1, FieldIs
  <2>4. k # Len(Free) => k + 1 \in 1 .. Len(Free)
    <3>1. PICK l : l = Len(Free)
      OBVIOUS
    <3>2. k \in 1 .. l /\ l \in Nat
      BY <2>1, <2>3, <3>1
    <3>3. k # l => k + 1 \in 1 .. l
      BY <3>2
    <3>4. QED
      BY <3>1, <3>3
  <2>5. QED
    BY <2>1, <2>2, <2>3, <2>4 DEF Range
<1>4. Stage(Moved(Original), 0)
  BY <1>1, AllMoved
<1>5. heap' = Link(Link(Replaced(Moved(Original), New), RightD, New), FreeHead, LeftK)
  BY <1>1 DEF EndOfSentence
<1>6. Conserved(heap')
  BY <1>1, <1>3, <1>4, <1>5, EndKeeps
<1>7. Tops' = Tops /\ Listed' = Listed
  BY DEF Tops, Listed, Used, Lists, Free, Field, BoxLists
<1>8. QED
  BY <1>6, <1>7 DEF Conserved

\* SWAPREF exchanges the lists at once.
LEMMA SwapReferenceKeeps ==
    ASSUME ListsInv, SwapReference, UNCHANGED scene
    PROVE  Conserved(heap)'
<1>1. scene \in Scenes /\ heap = Original
  BY DEF ListsInv, Inv, SwapReference
<1>2. PICK s \in BoxLists : heap' = Swapped(Original, s[1])
  BY <1>1 DEF SwapReference, Swapped
<1>3. Conserved(heap')
  BY <1>1, <1>2, SwapKeeps
<1>4. Tops' = Tops /\ Listed' = Listed
  BY DEF Tops, Listed, Used, Lists, Free, Field, BoxLists
<1>5. QED
  BY <1>3, <1>4 DEF Conserved

\* Every step keeps the lists.
LEMMA ListsInvStep == ListsInv /\ [Next]_vars => ListsInv'
<1> SUFFICES ASSUME ListsInv, [Next]_vars PROVE ListsInv'
  OBVIOUS
<1>1. Inv'
  BY InvStep DEF ListsInv
<1>2. CASE UNCHANGED vars
  <2>1. UNCHANGED <<scene, stack, heap, phase>>
    BY <1>2 DEF vars
  <2>2. QED
    BY <1>1, <2>1, WritingKeeps DEF ListsInv
<1>3. CASE Next
  <2>1. UNCHANGED scene
    BY <1>3 DEF Next
  <2>2. CASE BeginRightPart \/ Write \/ Open \/ OpenCall \/ Close \/ Activate \/ Copy \/ CopyCell
    <3>1. UNCHANGED stack /\ phase' # "done"
      BY <2>2 DEF BeginRightPart, Write, Open, OpenCall, Close, Activate, Copy, CopyCell,
                  Building, Put, Lack
    <3>2. QED
      BY <1>1, <2>1, <3>1, WritingKeeps DEF ListsInv
  <2>3. CASE Transplant
    <3>1. phase' # "done"
      BY <2>3 DEF Transplant, Building
    <3>2. QED
      BY <1>1, <2>1, <2>3, <3>1, TransplantKeeps DEF ListsInv
  <2>4. CASE EndOfSentence
    <3>1. Conserved(heap)'
      BY <2>1, <2>4, EndOfSentenceKeeps
    <3>2. UNCHANGED stack
      BY <2>4 DEF EndOfSentence
    <3>3. QED
      BY <1>1, <2>1, <3>1, <3>2, PlansStay DEF ListsInv
  <2>5. CASE SwapReference
    <3>1. Conserved(heap)'
      BY <2>1, <2>5, SwapReferenceKeeps
    <3>2. UNCHANGED stack
      BY <2>5 DEF SwapReference
    <3>3. QED
      BY <1>1, <2>1, <3>1, <3>2, PlansStay DEF ListsInv
  <2>6. QED
    BY <1>3, <2>2, <2>3, <2>4, <2>5 DEF Next
<1>4. QED
  BY <1>2, <1>3

\* EOS and SWAPREF exchange lists at the places where < and > are, where the new cells end
\* and where a box begins; before them every planned part is moved. Whatever is empty, and
\* however many parts are moved, the view field, the boxes and the free list stay rings
\* from their heads which share no cell and lose none (refal_run(), inter/interpreter.c).
THEOREM ListsConserved == Spec => []CellsConserved
<1>1. Init => ListsInv
  <2>1. SUFFICES ASSUME Init PROVE ListsInv
    OBVIOUS
  <2>2. Inv
    BY <2>1, InitStep
  <2>3. stack = <<>> /\ phase = "start"
    BY <2>1 DEF Init
  <2>4. Plans
    BY <2>3 DEF Plans
  <2>5. QED
    BY <2>2, <2>3, <2>4 DEF ListsInv
<1>2. ListsInv => CellsConserved
  <2>1. SUFFICES ASSUME ListsInv PROVE CellsConserved
    OBVIOUS
  <2>2. scene \in Scenes
    BY <2>1 DEF ListsInv, Inv
  <2>3. Conserved(heap)
    <3>1. CASE phase = "done"
      BY <2>1, <3>1 DEF ListsInv
    <3>2. CASE phase # "done"
      <4>1. heap = Original
        BY <2>1, <3>2 DEF ListsInv, Inv
      <4>2. Conserved(Original)
        BY <2>2, OriginalIs DEF Conserved
      <4>3. QED
        BY <4>1, <4>2
    <3>3. QED
      BY <3>1, <3>2
  <2>4. QED
    BY <2>2, <2>3, ConservedIs
<1>3. QED
  BY <1>1, <1>2, ListsInvStep, PTL DEF Spec
=============================================================================
