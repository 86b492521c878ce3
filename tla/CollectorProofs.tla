--------------------------- MODULE CollectorProofs ---------------------------
(***************************************************************************)
(* For any lists, any boxes that refer to each other and any roots: the    *)
(* marks reach exactly the boxes that the program can still name, every    *)
(* pointer that was reversed on the way is put back, and the sweep takes   *)
(* exactly the garbage, which is what is counted.                          *)
(***************************************************************************)
EXTENDS Collector, RingsProofs

(* The memory at the call *)

\* Heads, symbols and Null are kept apart, and so are the boxes, the roots and the free list.
LEMMA Kinds ==
    /\ Heads \subseteq Cell /\ Symbol \subseteq Cell /\ Cell = Heads \cup Symbol
    /\ Heads \cap Symbol = {} /\ Boxes \cap Roots = {} /\ FreeHead \notin Boxes \cup Roots
    /\ Boxes \subseteq Heads /\ Roots \subseteq Heads /\ FreeHead \in Heads
    /\ Null \notin Cell
  BY CollectorAssumption DEF Heads

\* The assumption, with the boxes and the roots as sets.
LEMMA Places ==
    /\ Heads \subseteq Cell /\ Symbol \subseteq Cell /\ Cell = Heads \cup Symbol
    /\ Heads \cap Symbol = {} /\ Boxes \cap Roots = {} /\ FreeHead \notin Boxes \cup Roots
    /\ Null \notin Cell
    /\ Box \in Seq(Boxes) /\ Len(Box) \in Nat \ {0}
    /\ Root \in Seq(Roots) /\ Len(Root) \in Nat \ {0}
    /\ \A i, j \in 1 .. Len(Box) : Box[i] = Box[j] => i = j
    /\ \A b \in Boxes : \E i \in 1 .. Len(Box) : Box[i] = b
    /\ \A r \in Roots : \E i \in 1 .. Len(Root) : Root[i] = r
<1>1. /\ Box \in Seq(Cell) /\ Root \in Seq(Cell) /\ Root # <<>> /\ Box # <<>>
      /\ DOMAIN Box = 1 .. Len(Box) /\ DOMAIN Root = 1 .. Len(Root)
      /\ Len(Box) \in Nat /\ Len(Root) \in Nat
  BY CollectorAssumption
<1>2. Len(Box) # 0 /\ Len(Root) # 0
  BY <1>1
<1>3. Box \in Seq(Boxes) /\ Root \in Seq(Roots)
  BY <1>1 DEF Boxes, Roots, Range
<1>4. \A i, j \in 1 .. Len(Box) : Box[i] = Box[j] => i = j
  BY <1>1, CollectorAssumption DEF IsInjective
<1>5. /\ \A b \in Boxes : \E i \in 1 .. Len(Box) : Box[i] = b
      /\ \A r \in Roots : \E i \in 1 .. Len(Root) : Root[i] = r
  BY <1>1 DEF Boxes, Roots, Range
<1>6. QED
  BY <1>1, <1>2, <1>3, <1>4, <1>5, Kinds

\* A finite set of numbers that is not empty has a least and a greatest one.
LEMMA Extremes ==
    ASSUME NEW T, T \subseteq Nat, IsFiniteSet(T), T # {}
    PROVE  /\ Min(T) \in T /\ \A y \in T : Min(T) <= y
           /\ Max(T) \in T /\ \A y \in T : y <= Max(T)
<1>1. \E x \in T : \A y \in T : x <= y
  BY LeastElement
<1> DEFINE G == {S \in SUBSET T : S # {} => \E x \in S : \A y \in S : x >= y}
<1>2. T \in G
  <2>1. {} \in G
    OBVIOUS
  <2>2. ASSUME NEW S \in SUBSET T, S # {}, S \ {Chosen(S)} \in G PROVE S \in G
    <3> DEFINE a == Chosen(S)
    <3>0. a \in S /\ S \subseteq Nat
      BY <2>2, Smaller, FS_Subset
    <3> HIDE DEF a
    <3>1. CASE S \ {a} = {}
      <4>1. a \in Nat /\ \A y \in S : y = a
        BY <3>0, <3>1
      <4>2. a >= a
        BY <4>1
      <4>3. QED
        BY <3>0, <4>1, <4>2
    <3>2. CASE S \ {a} # {}
      <4>1. PICK x \in S \ {a} : \A y \in S \ {a} : x >= y
        BY <2>2, <3>2 DEF a
      <4>2. CASE x >= a
        <5>1. \A y \in S : x >= y
          BY <4>1, <4>2
        <5>2. QED
          BY <4>1, <5>1
      <4>3. CASE a > x
        <5>1. \A y \in S : a >= y
          BY <4>1, <4>3, <3>0
        <5>2. QED
          BY <3>0, <5>1
      <4>4. QED
        BY <4>1, <4>2, <4>3, <3>0
    <3>3. QED
      BY <3>1, <3>2
  <2> HIDE DEF G
  <2>3. QED
    BY <2>1, <2>2, SubsetInduction
<1>3. \E x \in T : \A y \in T : x >= y
  BY <1>2
<1>4. QED
  BY <1>1, <1>3 DEF Min, Max
-----------------------------------------------------------------------------
\* The lists and the references that the collector finds.
Given == owner \in [Symbol -> Heads] /\ target \in [Symbol -> Boxes \cup {Null}]

\* Every cell is in the list of one head, a head in its own.
LEMMA HeadIs ==
    ASSUME Given, NEW c \in Cell
    PROVE  /\ HeadOf(c) \in Heads /\ HeadOf(HeadOf(c)) = HeadOf(c)
           /\ c \in Symbol => HeadOf(c) = owner[c]
           /\ c \notin Symbol => HeadOf(c) = c
           /\ HeadOf(c) \notin Symbol
BY Places DEF Given, HeadOf

\* Behind a cell comes the next symbol of its list, or its head if there is none.
LEMMA AfterIs ==
    ASSUME Given, NEW c \in Cell
    PROVE  \/ /\ After(c) \in Symbol /\ owner[After(c)] = HeadOf(c)
              /\ c \in Symbol => After(c) > c
              /\ \A d \in Symbol : owner[d] = HeadOf(c) /\ d < After(c) => c \in Symbol /\ d <= c
           \/ /\ After(c) = HeadOf(c)
              /\ \A d \in Symbol : owner[d] = HeadOf(c) => c \in Symbol /\ d <= c
<1> DEFINE T == {d \in Symbol : owner[d] = HeadOf(c) /\ (c \in Symbol => d > c)}
<1>1. Symbol \subseteq Nat /\ T \subseteq Nat /\ IsFiniteSet(T)
  BY CollectorAssumption, FS_Subset
<1>2. CASE T = {}
  <2>1. After(c) = HeadOf(c)
    BY <1>2 DEF After
  <2>2. ASSUME NEW d \in Symbol, owner[d] = HeadOf(c) PROVE c \in Symbol /\ d <= c
    <3>1. d \notin T /\ d \in Nat
      BY <1>1, <1>2
    <3>2. c \in Symbol /\ ~(d > c)
      BY <2>2, <3>1
    <3>3. QED
      BY <1>1, <3>1, <3>2
  <2>3. QED
    BY <2>1, <2>2
<1>3. CASE T # {}
  <2>1. After(c) = Min(T)
    BY <1>3 DEF After
  <2>2. Min(T) \in T /\ \A y \in T : Min(T) <= y
    BY <1>1, <1>3, Extremes
  <2>3. ASSUME NEW d \in Symbol, owner[d] = HeadOf(c), d < After(c) PROVE c \in Symbol /\ d <= c
    <3>1. d \notin T
      <4>1. SUFFICES ASSUME d \in T PROVE FALSE
        OBVIOUS
      <4>2. After(c) <= d /\ After(c) \in Nat /\ d \in Nat
        BY <1>1, <2>1, <2>2, <4>1
      <4>3. QED
        BY <2>3, <4>2
    <3>2. c \in Symbol /\ ~(d > c)
      BY <2>3, <3>1
    <3>3. QED
      BY <1>1, <3>2
  <2> HIDE DEF T
  <2>4. After(c) \in T
    BY <2>1, <2>2
  <2>5. QED
    BY <2>3, <2>4 DEF T
<1>4. QED
  BY <1>2, <1>3

\* In front of a cell comes the symbol of its list before it, or its head.
LEMMA BeforeIs ==
    ASSUME Given, NEW c \in Cell
    PROVE  \/ /\ Before(c) \in Symbol /\ owner[Before(c)] = HeadOf(c)
              /\ c \in Symbol => Before(c) < c
              /\ \A d \in Symbol : owner[d] = HeadOf(c) /\ d > Before(c) => c \in Symbol /\ d >= c
           \/ /\ Before(c) = HeadOf(c)
              /\ \A d \in Symbol : owner[d] = HeadOf(c) => c \in Symbol /\ d >= c
<1> DEFINE T == {d \in Symbol : owner[d] = HeadOf(c) /\ (c \in Symbol => d < c)}
<1>1. Symbol \subseteq Nat /\ T \subseteq Nat /\ IsFiniteSet(T)
  BY CollectorAssumption, FS_Subset
<1>2. CASE T = {}
  <2>1. Before(c) = HeadOf(c)
    BY <1>2 DEF Before
  <2>2. ASSUME NEW d \in Symbol, owner[d] = HeadOf(c) PROVE c \in Symbol /\ d >= c
    <3>1. d \notin T /\ d \in Nat
      BY <1>1, <1>2
    <3>2. c \in Symbol /\ ~(d < c)
      BY <2>2, <3>1
    <3>3. QED
      BY <1>1, <3>1, <3>2
  <2>3. QED
    BY <2>1, <2>2
<1>3. CASE T # {}
  <2>1. Before(c) = Max(T)
    BY <1>3 DEF Before
  <2>2. Max(T) \in T /\ \A y \in T : y <= Max(T)
    BY <1>1, <1>3, Extremes
  <2>3. ASSUME NEW d \in Symbol, owner[d] = HeadOf(c), d > Before(c) PROVE c \in Symbol /\ d >= c
    <3>1. d \notin T
      <4>1. SUFFICES ASSUME d \in T PROVE FALSE
        OBVIOUS
      <4>2. d <= Before(c) /\ Before(c) \in Nat /\ d \in Nat
        BY <1>1, <2>1, <2>2, <4>1
      <4>3. QED
        BY <2>3, <4>2
    <3>2. c \in Symbol /\ ~(d < c)
      BY <2>3, <3>1
    <3>3. QED
      BY <1>1, <3>2
  <2> HIDE DEF T
  <2>4. Before(c) \in T
    BY <2>1, <2>2
  <2>5. QED
    BY <2>3, <2>4 DEF T
<1>4. QED
  BY <1>2, <1>3

\* The two pointers of a list agree.
LEMMA BothWays ==
    ASSUME Given, NEW c \in Cell
    PROVE  /\ After(c) \in Cell /\ HeadOf(After(c)) = HeadOf(c) /\ Before(After(c)) = c
           /\ Before(c) \in Cell /\ HeadOf(Before(c)) = HeadOf(c) /\ After(Before(c)) = c
<1> DEFINE h == HeadOf(c)
<1>0. Symbol \subseteq Nat /\ h \in Heads \ Symbol /\ Heads \subseteq Cell
  BY CollectorAssumption, HeadIs, Places
<1>1. /\ After(c) \in Cell /\ HeadOf(After(c)) = h
      /\ Before(c) \in Cell /\ HeadOf(Before(c)) = h
  BY <1>0, HeadIs, AfterIs, BeforeIs, Places, ZenonT(60)
<1>2. Before(After(c)) = c
  <2> DEFINE x == After(c)
             y == Before(x)
  <2>1. HeadOf(x) = h /\ x \in Cell
    BY <1>1
  <2>2. \/ /\ y \in Symbol /\ owner[y] = h /\ (x \in Symbol => y < x)
           /\ \A d \in Symbol : owner[d] = h /\ d > y => x \in Symbol /\ d >= x
        \/ /\ y = h /\ \A d \in Symbol : owner[d] = h => x \in Symbol /\ d >= x
    BY <2>1, BeforeIs
  <2>3. \/ /\ x \in Symbol /\ owner[x] = h /\ (c \in Symbol => x > c)
           /\ \A d \in Symbol : owner[d] = h /\ d < x => c \in Symbol /\ d <= c
        \/ /\ x = h /\ \A d \in Symbol : owner[d] = h => c \in Symbol /\ d <= c
    BY AfterIs
  <2>4. (c \in Symbol => owner[c] = h) /\ (c \notin Symbol => h = c)
    BY HeadIs
  <2> HIDE DEF h, x, y
  <2>5. CASE c \in Symbol
    <3>1. c \in Nat /\ owner[c] = h
      BY <1>0, <2>4, <2>5
    <3>2. x \in Symbol => x > c /\ x \in Nat
      BY <1>0, <2>3, <2>5
    <3>3. ~(x \in Symbol /\ c >= x)
      BY <3>1, <3>2
    <3>4. y \in Symbol /\ y \in Nat /\ owner[y] = h
      BY <1>0, <2>2, <2>5, <3>1, <3>3
    <3>5. ~(c > y)
      BY <1>0, <2>2, <2>5, <3>1, <3>3, <3>4
    <3>6. y <= c
      <4>1. CASE x \in Symbol
        <5>1. y < x
          BY <1>0, <2>2, <3>4, <4>1
        <5>2. QED
          BY <1>0, <2>3, <3>4, <4>1, <5>1
      <4>2. CASE x \notin Symbol
        BY <1>0, <2>3, <3>4, <4>2
      <4>3. QED
        BY <4>1, <4>2
    <3>7. QED
      BY <3>1, <3>4, <3>5, <3>6 DEF x, y
  <2>6. CASE c \notin Symbol
    BY <1>0, <2>2, <2>3, <2>4, <2>6 DEF x, y
  <2>7. QED
    BY <2>5, <2>6
<1>3. After(Before(c)) = c
  <2> DEFINE x == Before(c)
             y == After(x)
  <2>1. HeadOf(x) = h /\ x \in Cell
    BY <1>1
  <2>2. \/ /\ y \in Symbol /\ owner[y] = h /\ (x \in Symbol => y > x)
           /\ \A d \in Symbol : owner[d] = h /\ d < y => x \in Symbol /\ d <= x
        \/ /\ y = h /\ \A d \in Symbol : owner[d] = h => x \in Symbol /\ d <= x
    BY <2>1, AfterIs
  <2>3. \/ /\ x \in Symbol /\ owner[x] = h /\ (c \in Symbol => x < c)
           /\ \A d \in Symbol : owner[d] = h /\ d > x => c \in Symbol /\ d >= c
        \/ /\ x = h /\ \A d \in Symbol : owner[d] = h => c \in Symbol /\ d >= c
    BY BeforeIs
  <2>4. (c \in Symbol => owner[c] = h) /\ (c \notin Symbol => h = c)
    BY HeadIs
  <2> HIDE DEF h, x, y
  <2>5. CASE c \in Symbol
    <3>1. c \in Nat /\ owner[c] = h
      BY <1>0, <2>4, <2>5
    <3>2. x \in Symbol => x < c /\ x \in Nat
      BY <1>0, <2>3, <2>5
    <3>3. ~(x \in Symbol /\ c <= x)
      BY <3>1, <3>2
    <3>4. y \in Symbol /\ y \in Nat /\ owner[y] = h
      BY <1>0, <2>2, <2>5, <3>1, <3>3
    <3>5. ~(c < y)
      BY <1>0, <2>2, <2>5, <3>1, <3>3, <3>4
    <3>6. y >= c
      <4>1. CASE x \in Symbol
        <5>1. y > x
          BY <1>0, <2>2, <3>4, <4>1
        <5>2. QED
          BY <1>0, <2>3, <3>4, <4>1, <5>1
      <4>2. CASE x \notin Symbol
        BY <1>0, <2>3, <3>4, <4>2
      <4>3. QED
        BY <4>1, <4>2
    <3>7. QED
      BY <3>1, <3>4, <3>5, <3>6 DEF x, y
  <2>6. CASE c \notin Symbol
    BY <1>0, <2>2, <2>3, <2>4, <2>6 DEF x, y
  <2>7. QED
    BY <2>5, <2>6
<1>4. QED
  BY <1>1, <1>2, <1>3

\* So the memory at the call is a heap of rings, each with one head.
LEMMA OriginalIs ==
    ASSUME Given
    PROVE  /\ Original \in Heap /\ DoublyLinked(Original)
           /\ \A c \in Cell : /\ HeadOf(Original.next[c]) = HeadOf(c)
                              /\ HeadOf(Original.previous[c]) = HeadOf(c)
                              /\ Original.next[c] = After(c) /\ Original.previous[c] = Before(c)
<1>1. \A c \in Cell : Original.next[c] = After(c) /\ Original.previous[c] = Before(c)
  BY DEF Original
<1>2. Original \in Heap
  BY BothWays DEF Original, Heap
<1>3. \A c \in Cell : Original.next[c] \in Cell /\ Original.previous[c] \in Cell
  BY <1>1, BothWays
<1>4. QED
  BY <1>1, <1>2, <1>3, BothWays DEF DoublyLinked

\* The boxes that the program can name: what the roots and they refer to, and no more.
LEMMA ReachableIs ==
    ASSUME Given
    PROVE  /\ Reachable \subseteq Boxes
           /\ \A c \in Symbol : owner[c] \in Roots \cup Reachable => target[c] \in Reachable \cup {Null}
           /\ \A S \in SUBSET Boxes :
                 (\A c \in Symbol : owner[c] \in Roots \cup S => target[c] \in S \cup {Null})
                     => Reachable \subseteq S
<1> DEFINE Closed(S) == \A c \in Symbol : owner[c] \in Roots \cup S => target[c] \in S \cup {Null}
<1>1. Reachable = {b \in Boxes : \A S \in SUBSET Boxes : Closed(S) => b \in S}
  BY DEF Reachable
<1>2. ASSUME NEW c \in Symbol, owner[c] \in Roots \cup Reachable, target[c] # Null
      PROVE  target[c] \in Reachable
  <2>1. target[c] \in Boxes
    BY <1>2 DEF Given
  <2>2. ASSUME NEW S \in SUBSET Boxes, Closed(S) PROVE target[c] \in S
    <3>1. owner[c] \in Roots \cup S
      BY <1>1, <1>2, <2>2
    <3>2. QED
      BY <1>2, <2>2, <3>1
  <2> HIDE DEF Closed
  <2>3. QED
    BY <1>1, <2>1, <2>2
<1>3. QED
  BY <1>1, <1>2

\* What the codep of a cell was at the call: the target of a symbol, the box behind a box.
LEMMA CodepIs ==
    ASSUME Given
    PROVE  /\ OriginalCodep \in [Cell -> Cell \cup {Null}]
           /\ \A c \in Symbol : OriginalCodep[c] = target[c]
           /\ \A i \in 1 .. Len(Box) :
                 OriginalCodep[Box[i]] = IF i = Len(Box) THEN Null ELSE Box[i + 1]
<1>1. ASSUME NEW i \in 1 .. Len(Box)
      PROVE  NextBox[Box[i]] = IF i = Len(Box) THEN Null ELSE Box[i + 1]
  <2> DEFINE j == CHOOSE j \in DOMAIN Box : Box[j] = Box[i]
  <2>1. DOMAIN Box = 1 .. Len(Box) /\ Box[i] \in Boxes
    BY Places
  <2>2. j \in 1 .. Len(Box) /\ Box[j] = Box[i]
    BY <2>1
  <2>3. j = i
    BY <2>2, Places
  <2>4. NextBox[Box[i]] = IF j = Len(Box) THEN Null ELSE Box[j + 1]
    BY <2>1 DEF NextBox
  <2>5. QED
    BY <2>3, <2>4
<1>2. \A i \in 1 .. Len(Box) : i # Len(Box) => i + 1 \in 1 .. Len(Box) /\ Box[i + 1] \in Boxes
  <2>1. Box \in Seq(Boxes) /\ Len(Box) \in Nat
    BY Places
  <2>2. \A i \in 1 .. Len(Box) : i # Len(Box) => i + 1 \in 1 .. Len(Box)
    BY <2>1
  <2>3. \A i \in 1 .. Len(Box) : Box[i] \in Boxes
    BY <2>1
  <2>4. QED
    BY <2>2, <2>3
<1>3. \A b \in Boxes : NextBox[b] \in Cell \cup {Null}
  <2>1. ASSUME NEW b \in Boxes PROVE NextBox[b] \in Cell \cup {Null}
    <3>1. PICK i \in 1 .. Len(Box) : Box[i] = b
      BY Places
    <3>2. CASE i = Len(Box)
      BY <1>1, <3>1, <3>2
    <3>3. CASE i # Len(Box)
      BY <1>1, <1>2, <3>1, <3>3, CollectorAssumption
    <3>4. QED
      BY <3>2, <3>3
  <2>2. QED
    BY <2>1
<1>4. \A i \in 1 .. Len(Box) : Box[i] \in Boxes /\ Box[i] \in Cell /\ Box[i] \notin Symbol
  BY Places, CollectorAssumption
<1>5. \A c \in Symbol : target[c] \in Cell \cup {Null}
  BY CollectorAssumption DEF Given
<1>6. OriginalCodep = [c \in Cell |-> IF c \in Symbol THEN target[c]
                                      ELSE IF c \in Boxes THEN NextBox[c] ELSE Null]
  BY DEF OriginalCodep
<1>7. \A c \in Cell : OriginalCodep[c] \in Cell \cup {Null}
  BY <1>3, <1>5, <1>6
<1>8. QED
  BY <1>1, <1>4, <1>6, <1>7, Places
-----------------------------------------------------------------------------
(* Marking: the lists that have been entered, from the root to the one walked through *)

\* The lists on the way, each behind the one that holds the reference to it.
OnWay(p) == /\ p \in Seq(Heads) /\ Len(p) > 0
            /\ p[1] = Root[root] /\ p[Len(p)] = head
            /\ \A i, j \in 1 .. Len(p) : p[i] = p[j] => i = j
            /\ \A i \in 2 .. Len(p) : p[i] \in Boxes /\ tag[p[i]] = "marked"

\* The way back: the head of a box on the way names the reference that it was entered
\* through, and that reference, for the time being, the list it is in.
Reversed(p) == \A i \in 2 .. Len(p) : LET r == heap.previous[p[i]]
                                      IN  /\ r \in Symbol /\ owner[r] = p[i - 1]
                                          /\ target[r] = p[i] /\ codep[r] = p[i - 1]

\* No other pointer differs from what it was.
Unreversed(p) ==
    /\ heap \in Heap /\ heap.next = Original.next /\ codep \in [Cell -> Cell \cup {Null}]
    /\ \A c \in Cell : (\A i \in 2 .. Len(p) : c # p[i]) => heap.previous[c] = Original.previous[c]
    /\ \A c \in Cell : (\A i \in 2 .. Len(p) : c # heap.previous[p[i]]) => codep[c] = OriginalCodep[c]

\* Only boxes are marked, and only those that the program can name.
Tags == /\ tag \in [Cell -> {"R", "O", "marked"}]
        /\ \A c \in Cell \ Boxes : tag[c] = OriginalTag[c]
        /\ \A b \in Boxes : tag[b] = "O" \/ (tag[b] = "marked" /\ b \in Reachable)

\* A symbol that is no reference, or one to a box that is marked.
Settled(c) == target[c] = Null \/ tag[target[c]] = "marked"
\* How far the walk through the i-th list on the way has come.
Place(p, i) == IF i = Len(p) THEN current ELSE heap.previous[p[i + 1]]
\* What the walk has passed on the way is settled ...
SettledBefore(p) == \A i \in 1 .. Len(p) : \A c \in Symbol :
    owner[c] = p[i] /\ Place(p, i) \in Symbol /\ c <= Place(p, i) => Settled(c)
\* ... and so are the lists that it has left.
SettledLists(p) ==
    /\ \A c \in Symbol : /\ owner[c] \in Boxes /\ tag[owner[c]] = "marked"
                         /\ \A i \in 1 .. Len(p) : p[i] # owner[c]
                         => Settled(c)
    /\ \A c \in Symbol : \A j \in 1 .. root - 1 : owner[c] = Root[j] => Settled(c)

MarkInv(p) == /\ root \in 1 .. Len(Root) /\ current \in Cell /\ HeadOf(current) = head
              /\ chain = Box[1] /\ counted = 0
              /\ OnWay(p) /\ Reversed(p) /\ Unreversed(p)
              /\ Tags /\ SettledBefore(p) /\ SettledLists(p)

\* The way begins at the first root.
LEMMA MarkStarts ==
    ASSUME Init
    PROVE  Given /\ MarkInv(<<Root[1]>>) /\ first = Original.next[FreeHead]
<1> DEFINE p == <<Root[1]>>
<1>1. Given
  BY DEF Init, Given
<1>2. /\ 1 \in 1 .. Len(Root) /\ Root[1] \in Roots /\ Root[1] \in Heads /\ Root[1] \in Cell
      /\ Root[1] \notin Symbol /\ Heads \subseteq Cell
  BY Places DEF Heads
<1>3. Len(p) = 1 /\ p[1] = Root[1] /\ p \in Seq(Heads)
  BY <1>2
<1> HIDE DEF p
<1>4. OnWay(p) /\ Reversed(p)
  BY <1>3 DEF OnWay, Reversed, Init
<1>5. Unreversed(p)
  BY <1>1, CodepIs, OriginalIs DEF Unreversed, Init
<1>6. Tags
  <2>1. \A b \in Boxes : b \notin Symbol /\ b \in Cell
    BY Places DEF Heads
  <2>2. tag = [c \in Cell |-> IF c \in Symbol /\ target[c] # Null THEN "R" ELSE "O"]
    BY DEF Init, OriginalTag
  <2>3. tag \in [Cell -> {"R", "O", "marked"}]
    <3>1. \A c \in Cell : tag[c] \in {"R", "O", "marked"}
      BY <2>2
    <3>2. QED
      BY <2>2, <3>1
  <2>4. tag = OriginalTag
    BY DEF Init
  <2>5. QED
    BY <2>1, <2>2, <2>3, <2>4 DEF Tags
<1>7. SettledBefore(p)
  BY <1>2, <1>3 DEF SettledBefore, Place, Init
<1>8. SettledLists(p)
  <2>1. \A b \in Boxes : tag[b] # "marked"
    BY Places DEF Init, OriginalTag, Heads
  <2>2. QED
    BY <2>1 DEF SettledLists, Init
<1>9. HeadOf(current) = head /\ current \in Cell
  BY <1>2 DEF Init, HeadOf
<1>10. MarkInv(p)
  BY <1>2, <1>4, <1>5, <1>6, <1>7, <1>8, <1>9 DEF MarkInv, Init
<1>11. QED
  BY <1>1, <1>10 DEF p, Init

\* The memory at the call does not change under the collector.
LEMMA Remembered ==
    ASSUME UNCHANGED <<owner, target>>
    PROVE  /\ Original' = Original /\ OriginalCodep' = OriginalCodep /\ OriginalTag' = OriginalTag
           /\ Reachable' = Reachable /\ (Given => Given')
           /\ \A c : HeadOf(c)' = HeadOf(c)
<1>1. \A c : HeadOf(c)' = HeadOf(c)
  BY DEF HeadOf
<1>2. Original' = Original
  BY DEF Original, After, Before, HeadOf
<1>3. OriginalCodep' = OriginalCodep /\ OriginalTag' = OriginalTag /\ Reachable' = Reachable
  BY DEF OriginalCodep, OriginalTag, NextBox, Reachable
<1>4. QED
  BY <1>1, <1>2, <1>3 DEF Given

\* What is on the way is a root or can be named.
LEMMA WayIsLive ==
    ASSUME Given, NEW p, MarkInv(p)
    PROVE  /\ Len(p) \in Nat \ {0}
           /\ \A i \in 1 .. Len(p) : p[i] \in Heads /\ p[i] \in Roots \cup Reachable
           /\ head \in Roots \cup Reachable /\ head \in Heads /\ Root[root] \in Roots
           /\ (head \in Roots <=> Len(p) = 1)
<1>1. p \in Seq(Heads) /\ Len(p) \in Nat \ {0}
  BY DEF MarkInv, OnWay
<1>2. Root[root] \in Roots /\ Boxes \cap Roots = {}
  BY Places, SMTT(60) DEF MarkInv
<1>3. \A i \in 2 .. Len(p) : p[i] \in Reachable /\ p[i] \in Boxes
  BY DEF MarkInv, OnWay, Tags
<1>4. \A i \in 1 .. Len(p) : i = 1 \/ i \in 2 .. Len(p)
  BY <1>1
<1>5. p[1] = Root[root] /\ p[Len(p)] = head /\ Len(p) \in 1 .. Len(p)
  BY <1>1 DEF MarkInv, OnWay
<1>6. \A i \in 1 .. Len(p) : p[i] \in Heads
  BY <1>1
<1>7. QED
  BY <1>1, <1>2, <1>3, <1>4, <1>5, <1>6

\* The cell in front of the walk is no reversed reference, and all cells of its list
\* before it are settled.
LEMMA AheadIs ==
    ASSUME Given, NEW p, MarkInv(p), NEW c, c = heap.next[current], c # head
    PROVE  /\ c \in Symbol /\ c \in Cell /\ owner[c] = head /\ HeadOf(c) = head
           /\ \A i \in 2 .. Len(p) : c # heap.previous[p[i]]
           /\ codep[c] = target[c] /\ (tag[c] = "R" <=> target[c] # Null)
           /\ \A d \in Symbol : owner[d] = head /\ d < c => Settled(d)
<1>1. /\ current \in Cell /\ HeadOf(current) = head /\ c = After(current)
      /\ Symbol \subseteq Nat /\ Symbol \subseteq Cell
  BY OriginalIs, Places, CollectorAssumption DEF MarkInv, Unreversed
<1>2. /\ c \in Symbol /\ owner[c] = head
      /\ \A d \in Symbol : owner[d] = head /\ d < c => current \in Symbol /\ d <= current
  BY <1>1, AfterIs
<1>3. HeadOf(c) = head
  BY <1>1, <1>2, HeadIs
<1>4. Len(p) \in Nat \ {0} /\ p[Len(p)] = head /\ Len(p) \in 1 .. Len(p)
  BY WayIsLive DEF MarkInv, OnWay
<1>5. ASSUME NEW i \in 2 .. Len(p) PROVE c # heap.previous[p[i]]
  <2>1. owner[heap.previous[p[i]]] = p[i - 1] /\ i - 1 \in 1 .. Len(p) /\ i - 1 # Len(p)
    BY <1>4 DEF MarkInv, Reversed
  <2>2. p[i - 1] # p[Len(p)]
    BY <1>4, <2>1 DEF MarkInv, OnWay
  <2>3. QED
    BY <1>2, <1>4, <2>1, <2>2
<1>6. codep[c] = target[c]
  BY <1>1, <1>2, <1>5, CodepIs DEF MarkInv, Unreversed
<1>7. tag[c] = "R" <=> target[c] # Null
  <2>1. c \in Cell \ Boxes
    BY <1>1, <1>2, Places DEF Heads
  <2>2. QED
    BY <1>2, <2>1 DEF MarkInv, Tags, OriginalTag
<1>8. \A d \in Symbol : owner[d] = head /\ d < c => Settled(d)
  <2>1. Place(p, Len(p)) = current
    BY DEF Place
  <2>2. QED
    BY <1>2, <1>4, <2>1 DEF MarkInv, SettledBefore
<1>9. QED
  BY <1>1, <1>2, <1>3, <1>5, <1>6, <1>7, <1>8

\* At the end of a list all of it is settled, and the cell passed last is its tail.
LEMMA AtTheEnd ==
    ASSUME Given, NEW p, MarkInv(p), heap.next[current] = head
    PROVE  /\ \A d \in Symbol : owner[d] = head => Settled(d)
           /\ Original.previous[head] = current
<1>1. /\ current \in Cell /\ HeadOf(current) = head /\ head = After(current)
      /\ head \in Heads /\ head \in Cell /\ head \notin Symbol
  BY OriginalIs, WayIsLive, Places DEF MarkInv, Unreversed
<1>2. Original.previous[head] = current
  BY <1>1, OriginalIs, BothWays
<1>3. \A d \in Symbol : owner[d] = head => current \in Symbol /\ d <= current
  BY <1>1, AfterIs
<1>4. Place(p, Len(p)) = current /\ Len(p) \in 1 .. Len(p) /\ p[Len(p)] = head
  BY WayIsLive DEF Place, MarkInv, OnWay
<1>5. QED
  BY <1>2, <1>3, <1>4 DEF MarkInv, SettledBefore

\* Passing a cell settles it.
LEMMA PassMarks ==
    ASSUME Given, NEW p, MarkInv(p), Pass
    PROVE  MarkInv(p)'
<1> DEFINE c == heap.next[current]
<1>0. /\ UNCHANGED <<owner, target, chain, first, counted, heap, codep, tag, phase, root, head>>
      /\ c # head /\ ~Unmarked(c) /\ current' = c
  BY DEF Pass, Marking
<1>1. /\ c \in Symbol /\ c \in Cell /\ owner[c] = head /\ HeadOf(c) = head
      /\ codep[c] = target[c] /\ (tag[c] = "R" <=> target[c] # Null)
      /\ \A d \in Symbol : owner[d] = head /\ d < c => Settled(d)
  BY <1>0, AheadIs
<1>2. Settled(c)
  <2>1. target[c] # Null => target[c] \in Boxes /\ tag[target[c]] # "O"
    BY <1>0, <1>1 DEF Given, Unmarked
  <2>2. QED
    BY <2>1 DEF MarkInv, Tags, Settled
<1>3. \A d : Settled(d)' = Settled(d)
  BY <1>0 DEF Settled
<1> HIDE DEF c
<1>4. OnWay(p)' /\ Reversed(p)'
  BY <1>0 DEF MarkInv, OnWay, Reversed
<1>5. Unreversed(p)' /\ Tags'
  BY <1>0, Remembered DEF MarkInv, Unreversed, Tags
<1>6. SettledLists(p)'
  BY <1>0, <1>3 DEF MarkInv, SettledLists
<1>7. SettledBefore(p)'
  <2>1. ASSUME NEW i \in 1 .. Len(p), NEW d \in Symbol,
               owner[d] = p[i], Place(p, i)' \in Symbol, d <= Place(p, i)'
        PROVE  Settled(d)
    <3>1. CASE i = Len(p)
      <4>1. Place(p, i)' = c /\ owner[d] = head
        BY <1>0, <2>1, <3>1 DEF Place, MarkInv, OnWay
      <4>2. d = c \/ d < c
        BY <1>1, <2>1, <4>1, CollectorAssumption
      <4>3. QED
        BY <1>1, <1>2, <4>1, <4>2
    <3>2. CASE i # Len(p)
      BY <1>0, <2>1, <3>2 DEF Place, MarkInv, SettledBefore
    <3>3. QED
      BY <3>1, <3>2
  <2>2. QED
    BY <1>0, <1>3, <2>1 DEF SettledBefore
<1>8. QED
  BY <1>0, <1>1, <1>4, <1>5, <1>6, <1>7, Remembered DEF MarkInv

\* One cell of one of the two pointers changes.
LEMMA PreviousExcept ==
    ASSUME NEW h \in Heap, NEW b \in Cell, NEW c \in Cell,
           NEW g, g = [h EXCEPT !.previous[b] = c]
    PROVE  /\ g \in Heap /\ g.next = h.next
           /\ g.previous[b] = c /\ \A x \in Cell \ {b} : g.previous[x] = h.previous[x]
BY DEF Heap

\* Entering a box makes the way longer by it.
LEMMA DescendMarks ==
    ASSUME Given, NEW p, MarkInv(p), Descend,
           NEW c, c = heap.next[current], NEW b, b = codep[c], NEW q, q = Append(p, b)
    PROVE  MarkInv(q)'
<1> DEFINE n == Len(p)
<1>0. /\ UNCHANGED <<owner, target, chain, first, counted, phase, root>>
      /\ c # head /\ tag[c] = "R" /\ tag[b] = "O"
      /\ tag' = [tag EXCEPT ![b] = "marked"] /\ codep' = [codep EXCEPT ![c] = head]
      /\ heap' = [heap EXCEPT !.previous[b] = c] /\ head' = b /\ current' = b
  BY DEF Descend, Marking, Unmarked
<1>1. /\ c \in Symbol /\ c \in Cell /\ owner[c] = head /\ HeadOf(c) = head
      /\ \A i \in 2 .. n : c # heap.previous[p[i]]
      /\ b = target[c] /\ target[c] # Null
      /\ \A d \in Symbol : owner[d] = head /\ d < c => Settled(d)
  BY <1>0, AheadIs
<1>2. /\ n \in Nat \ {0} /\ p \in Seq(Heads)
      /\ p[1] = Root[root] /\ p[n] = head
      /\ \A i \in 1 .. n : p[i] \in Heads /\ p[i] \in Roots \cup Reachable
      /\ head \in Heads /\ head \in Roots \cup Reachable
  BY WayIsLive DEF MarkInv, OnWay
<1>3. b \in Boxes /\ b \in Heads /\ b \in Cell /\ b \notin Symbol /\ b \in Reachable /\ b \notin Roots
  <2>1. b \in Boxes
    BY <1>1 DEF Given
  <2>2. b \in Reachable
    BY <1>1, <1>2, ReachableIs
  <2>3. QED
    BY <2>1, <2>2, Places DEF Heads
<1>4. /\ q \in Seq(Heads) /\ Len(q) = n + 1 /\ q[n + 1] = b
      /\ \A i \in 1 .. n : q[i] = p[i]
  BY <1>2, <1>3
<1>5. \A i \in 1 .. n : p[i] # b
  <2>1. \A i \in 2 .. n : tag[p[i]] = "marked"
    BY DEF MarkInv, OnWay
  <2>2. \A i \in 1 .. n : i = 1 \/ i \in 2 .. n
    BY <1>2
  <2>3. p[1] # b
    BY <1>2, <1>3, WayIsLive
  <2>4. QED
    BY <1>0, <2>1, <2>2, <2>3
<1>6. /\ heap \in Heap /\ heap' \in Heap /\ heap'.next = heap.next
      /\ heap'.previous[b] = c /\ \A x \in Cell \ {b} : heap'.previous[x] = heap.previous[x]
  BY <1>0, <1>1, <1>3, PreviousExcept DEF MarkInv, Unreversed
<1>7. /\ codep \in [Cell -> Cell \cup {Null}] /\ codep' \in [Cell -> Cell \cup {Null}]
      /\ codep'[c] = head /\ \A x \in Cell \ {c} : codep'[x] = codep[x]
  BY <1>0, <1>1, <1>2, Places DEF MarkInv, Unreversed
<1>8. /\ tag \in [Cell -> {"R", "O", "marked"}] /\ tag' \in [Cell -> {"R", "O", "marked"}]
      /\ tag'[b] = "marked" /\ \A x \in Cell \ {b} : tag'[x] = tag[x]
  BY <1>0, <1>3 DEF MarkInv, Tags
<1>9. \A i \in 1 .. n : p[i] \in Cell
  BY <1>2, Places
<1> HIDE DEF n
<1>10. OnWay(q)'
  <2>1. \A i \in 1 .. n + 1 : i = n + 1 \/ i \in 1 .. n
    BY <1>2
  <2>2. \A i, j \in 1 .. n + 1 : q[i] = q[j] => i = j
    <3>1. \A i, j \in 1 .. n : p[i] = p[j] => i = j
      BY DEF MarkInv, OnWay, n
    <3>2. QED
      BY <1>4, <1>5, <2>1, <3>1
  <2>3. \A i \in 2 .. n + 1 : q[i] \in Boxes /\ tag'[q[i]] = "marked"
    <3>1. \A i \in 2 .. n : p[i] \in Boxes /\ tag[p[i]] = "marked"
      BY DEF MarkInv, OnWay, n
    <3>2. \A i \in 2 .. n + 1 : i = n + 1 \/ (i \in 2 .. n /\ i \in 1 .. n)
      BY <1>2
    <3>3. QED
      BY <1>3, <1>4, <1>8, <1>9, <3>1, <3>2
  <2>4. q[1] = Root[root]
    BY <1>2, <1>4
  <2>5. QED
    BY <1>0, <1>2, <1>4, <2>2, <2>3, <2>4 DEF OnWay
<1>11. Reversed(q)'
  <2>1. ASSUME NEW i \in 2 .. n + 1
        PROVE  LET r == heap'.previous[q[i]]
               IN  r \in Symbol /\ owner[r] = q[i - 1] /\ target[r] = q[i] /\ codep'[r] = q[i - 1]
    <3>1. CASE i = n + 1
      <4>1. q[i] = b /\ heap'.previous[q[i]] = c
        BY <1>4, <1>6, <3>1
      <4>2. q[i - 1] = head
        BY <1>2, <1>4, <3>1
      <4>3. QED
        BY <1>1, <1>7, <4>1, <4>2
    <3>2. CASE i # n + 1
      <4>1. i \in 2 .. n /\ i \in 1 .. n /\ i - 1 \in 1 .. n
        BY <1>2, <3>2
      <4>2. heap'.previous[q[i]] = heap.previous[p[i]] /\ heap.previous[p[i]] # c
        BY <1>1, <1>4, <1>5, <1>6, <1>9, <4>1 DEF n
      <4>3. LET r == heap.previous[p[i]]
            IN  r \in Symbol /\ owner[r] = p[i - 1] /\ target[r] = p[i] /\ codep[r] = p[i - 1]
        BY <4>1 DEF MarkInv, Reversed, n
      <4>4. QED
        BY <1>4, <1>7, <4>1, <4>2, <4>3, Kinds
    <3>3. QED
      BY <3>1, <3>2
  <2>2. QED
    BY <1>0, <1>4, <2>1 DEF Reversed
<1>12. Unreversed(q)'
  <2>1. /\ heap.next = Original.next
        /\ \A x \in Cell : (\A i \in 2 .. n : x # p[i]) => heap.previous[x] = Original.previous[x]
        /\ \A x \in Cell : (\A i \in 2 .. n : x # heap.previous[p[i]]) => codep[x] = OriginalCodep[x]
    BY DEF MarkInv, Unreversed, n
  <2>2. \A i \in 2 .. n : i \in 2 .. n + 1 /\ i \in 1 .. n /\ q[i] = p[i]
    BY <1>2, <1>4
  <2>3. n + 1 \in 2 .. n + 1
    BY <1>2
  <2>4. \A i \in 2 .. n : heap'.previous[q[i]] = heap.previous[p[i]]
    BY <1>5, <1>6, <1>9, <2>2
  <2>5. ASSUME NEW x \in Cell, \A i \in 2 .. n + 1 : x # q[i]
        PROVE  heap'.previous[x] = Original.previous[x]
    BY <1>4, <1>6, <2>1, <2>2, <2>3, <2>5
  <2>6. ASSUME NEW x \in Cell, \A i \in 2 .. n + 1 : x # heap'.previous[q[i]]
        PROVE  codep'[x] = OriginalCodep[x]
    BY <1>4, <1>6, <1>7, <2>1, <2>2, <2>3, <2>4, <2>6
  <2>7. Original' = Original /\ OriginalCodep' = OriginalCodep
    BY <1>0, Remembered
  <2>8. QED
    BY <1>4, <1>6, <1>7, <2>1, <2>5, <2>6, <2>7 DEF Unreversed
<1>13. Tags'
  <2>1. OriginalTag' = OriginalTag /\ Reachable' = Reachable
    BY <1>0, Remembered
  <2>2. \A x \in Boxes : x \in Cell
    BY Places DEF Heads
  <2>3. QED
    BY <1>3, <1>8, <2>1, <2>2 DEF MarkInv, Tags
<1>14. \A d \in Symbol : Settled(d) => Settled(d)'
  <2>1. \A d \in Symbol : target[d] # Null => target[d] \in Cell
    BY CollectorAssumption DEF Given
  <2>2. QED
    BY <1>0, <1>8, <2>1 DEF Settled
<1>15. Settled(c)'
  BY <1>0, <1>1, <1>8 DEF Settled
<1>16. SettledBefore(q)'
  <2>1. ASSUME NEW i \in 1 .. n + 1, NEW d \in Symbol,
               owner[d] = q[i], Place(q, i)' \in Symbol, d <= Place(q, i)'
        PROVE  Settled(d)'
    <3>1. CASE i = n + 1
      BY <1>0, <1>3, <1>4, <2>1, <3>1 DEF Place
    <3>2. CASE i = n
      <4>1. Place(q, i)' = c /\ owner[d] = head
        BY <1>2, <1>4, <1>6, <2>1, <3>2 DEF Place
      <4>2. d \in Nat /\ c \in Nat /\ d <= c
        BY <1>1, <2>1, <4>1, CollectorAssumption
      <4>3. d = c \/ d < c
        BY <4>2
      <4>4. QED
        BY <1>1, <1>14, <1>15, <4>1, <4>3
    <3>3. CASE i # n + 1 /\ i # n
      <4>1. i \in 1 .. n /\ i + 1 \in 1 .. n
        BY <1>2, <3>3
      <4>2. Place(q, i)' = heap'.previous[p[i + 1]]
        BY <1>4, <3>3, <4>1 DEF Place
      <4>3. Place(q, i)' = Place(p, i)
        BY <1>5, <1>6, <1>9, <3>3, <4>1, <4>2 DEF Place, n
      <4>4. Settled(d)
        BY <1>4, <2>1, <4>1, <4>3 DEF MarkInv, SettledBefore, n
      <4>5. QED
        BY <1>14, <4>4
    <3>4. QED
      BY <3>1, <3>2, <3>3
  <2>2. QED
    BY <1>0, <1>4, <2>1 DEF SettledBefore
<1>17. SettledLists(q)'
  <2>1. ASSUME NEW d \in Symbol, owner[d] \in Boxes, tag'[owner[d]] = "marked",
               \A i \in 1 .. n + 1 : q[i] # owner[d]
        PROVE  Settled(d)'
    <3>1. owner[d] # b /\ owner[d] \in Cell
      <4>1. n + 1 \in 1 .. n + 1
        BY <1>2
      <4>2. QED
        BY <1>4, <2>1, <4>1, Places DEF Heads
    <3>2. \A i \in 1 .. n : i \in 1 .. n + 1
      BY <1>2
    <3>3. \A i \in 1 .. n : p[i] # owner[d]
      BY <1>4, <2>1, <3>2
    <3>4. Settled(d)
      BY <1>8, <2>1, <3>1, <3>3 DEF MarkInv, SettledLists, n
    <3>5. QED
      BY <1>14, <3>4
  <2>2. \A d \in Symbol : \A j \in 1 .. root - 1 : owner[d] = Root[j] => Settled(d)'
    BY <1>14 DEF MarkInv, SettledLists
  <2>3. QED
    BY <1>0, <1>4, <2>1, <2>2 DEF SettledLists
<1>18. HeadOf(b)' = b
  BY <1>3, <1>0, Remembered, HeadIs
<1>19. QED
  BY <1>0, <1>3, <1>10, <1>11, <1>12, <1>13, <1>16, <1>17, <1>18 DEF MarkInv

\* Leaving a box restores its head and the reference that it was entered through.
LEMMA AscendMarks ==
    ASSUME Given, NEW p, MarkInv(p), Ascend, NEW q, q = SubSeq(p, 1, Len(p) - 1)
    PROVE  MarkInv(q)'
<1> DEFINE n == Len(p)
<1>1. PICK r : r = heap.previous[head]
  OBVIOUS
<1>2. PICK b : b = head
  OBVIOUS
<1>3. /\ UNCHANGED <<owner, target, chain, first, counted, phase, root>>
      /\ heap.next[current] = b /\ b # Root[root]
      /\ heap' = [heap EXCEPT !.previous[b] = current] /\ codep' = [codep EXCEPT ![r] = b]
      /\ tag' = [tag EXCEPT ![r] = "R"] /\ head' = codep[r] /\ current' = r
  BY <1>1, <1>2 DEF Ascend, Marking
<1>4. /\ n \in Nat \ {0} /\ p \in Seq(Heads) /\ p[1] = Root[root] /\ p[n] = b
      /\ \A i \in 1 .. n : p[i] \in Heads /\ p[i] \in Cell
  BY <1>2, WayIsLive, Places DEF MarkInv, OnWay
<1>5. n \in 2 .. n /\ n - 1 \in 1 .. n /\ n - 1 \in Nat \ {0}
  BY <1>3, <1>4
<1>6. /\ q \in Seq(Heads) /\ Len(q) = n - 1
      /\ \A i \in 1 .. n - 1 : i \in 1 .. n /\ q[i] = p[i]
  <2>1. n - 1 \in 0 .. n /\ 0 \in 0 .. n - 1
    BY <1>5
  <2>2. SubSeq(p, 1, n - 1) \in Seq(Heads) /\ Len(SubSeq(p, 1, n - 1)) = n - 1
    BY <1>4, <1>5
  <2>3. \A i \in 1 .. n - 1 : i \in 1 .. n /\ SubSeq(p, 1, n - 1)[i] = p[i]
    BY <1>4, <1>5
  <2>4. QED
    BY <2>2, <2>3
<1>7. /\ b \in Boxes /\ b \in Cell /\ b \notin Symbol /\ tag[b] = "marked"
      /\ r \in Symbol /\ r \in Cell /\ owner[r] = p[n - 1] /\ target[r] = b /\ codep[r] = p[n - 1]
      /\ r = heap.previous[p[n]]
  <2>1. b \in Boxes /\ tag[b] = "marked"
    BY <1>4, <1>5 DEF MarkInv, OnWay
  <2>2. r = heap.previous[p[n]]
    BY <1>1, <1>2, <1>4
  <2>3. r \in Symbol /\ owner[r] = p[n - 1] /\ target[r] = b /\ codep[r] = p[n - 1]
    BY <1>4, <1>5, <2>2 DEF MarkInv, Reversed
  <2>4. QED
    BY <2>1, <2>2, <2>3, Places DEF Heads
<1>8. /\ \A d \in Symbol : owner[d] = b => Settled(d)
      /\ Original.previous[b] = current /\ current \in Cell
  BY <1>2, <1>3, AtTheEnd DEF MarkInv
<1>9. /\ heap \in Heap /\ heap' \in Heap /\ heap'.next = heap.next
      /\ heap'.previous[b] = current /\ \A x \in Cell \ {b} : heap'.previous[x] = heap.previous[x]
  BY <1>3, <1>7, <1>8, PreviousExcept DEF MarkInv, Unreversed
<1>10. /\ codep \in [Cell -> Cell \cup {Null}] /\ codep' \in [Cell -> Cell \cup {Null}]
       /\ codep'[r] = b /\ \A x \in Cell \ {r} : codep'[x] = codep[x]
  BY <1>3, <1>7 DEF MarkInv, Unreversed
<1>11. /\ tag \in [Cell -> {"R", "O", "marked"}] /\ tag' = tag
  <2>1. r \in Cell \ Boxes
    BY <1>7, Kinds DEF Heads
  <2>2. tag[r] = "R"
    BY <1>7, <2>1, Kinds DEF MarkInv, Tags, OriginalTag
  <2>3. QED
    BY <1>3, <2>1, <2>2 DEF MarkInv, Tags
<1>12. \A i \in 1 .. n - 1 : p[i] # b
  BY <1>4, <1>5 DEF MarkInv, OnWay
<1>13. \A i \in 2 .. n - 1 : /\ i \in 2 .. n /\ i \in 1 .. n - 1 /\ i - 1 \in 1 .. n - 1
                             /\ heap'.previous[q[i]] = heap.previous[p[i]]
                             /\ heap.previous[p[i]] # r
  <2>1. ASSUME NEW i \in 2 .. n - 1
        PROVE  /\ i \in 2 .. n /\ i \in 1 .. n - 1 /\ i - 1 \in 1 .. n - 1
               /\ heap'.previous[q[i]] = heap.previous[p[i]]
               /\ heap.previous[p[i]] # r
    <3>1. i \in 2 .. n /\ i \in 1 .. n - 1 /\ i - 1 \in 1 .. n - 1
      BY <1>5
    <3>2. heap'.previous[q[i]] = heap.previous[p[i]]
      BY <1>4, <1>6, <1>9, <1>12, <3>1
    <3>3. target[heap.previous[p[i]]] = p[i]
      BY <3>1 DEF MarkInv, Reversed
    <3>4. QED
      BY <1>7, <1>12, <3>1, <3>2, <3>3
  <2>2. QED
    BY <2>1
<1> HIDE DEF n
<1>14. OnWay(q)'
  <2>1. \A i, j \in 1 .. n - 1 : q[i] = q[j] => i = j
    <3>1. \A i, j \in 1 .. n : p[i] = p[j] => i = j
      BY DEF MarkInv, OnWay, n
    <3>2. QED
      BY <1>6, <3>1
  <2>2. \A i \in 2 .. n - 1 : q[i] \in Boxes /\ tag'[q[i]] = "marked"
    BY <1>6, <1>11, <1>13 DEF MarkInv, OnWay, n
  <2>3. q[1] = Root[root] /\ q[n - 1] = codep[r] /\ Len(q) > 0
    <3>1. 1 \in 1 .. n - 1 /\ n - 1 \in 1 .. n - 1
      BY <1>5
    <3>2. QED
      BY <1>4, <1>5, <1>6, <1>7, <3>1
  <2>4. QED
    BY <1>3, <1>6, <2>1, <2>2, <2>3 DEF OnWay
<1>15. Reversed(q)'
  <2>1. ASSUME NEW i \in 2 .. n - 1
        PROVE  LET s == heap'.previous[q[i]]
               IN  s \in Symbol /\ owner[s] = q[i - 1] /\ target[s] = q[i] /\ codep'[s] = q[i - 1]
    <3>1. LET s == heap.previous[p[i]]
          IN  s \in Symbol /\ owner[s] = p[i - 1] /\ target[s] = p[i] /\ codep[s] = p[i - 1]
      BY <1>13 DEF MarkInv, Reversed, n
    <3>2. q[i] = p[i] /\ q[i - 1] = p[i - 1]
      BY <1>6, <1>13
    <3>3. heap.previous[p[i]] \in Cell \ {r}
      BY <1>13, <3>1, Places
    <3>4. QED
      BY <1>10, <1>13, <3>1, <3>2, <3>3
  <2>2. QED
    BY <1>3, <1>6, <2>1 DEF Reversed
<1>16. Unreversed(q)'
  <2>1. /\ heap.next = Original.next
        /\ \A x \in Cell : (\A i \in 2 .. n : x # p[i]) => heap.previous[x] = Original.previous[x]
        /\ \A x \in Cell : (\A i \in 2 .. n : x # heap.previous[p[i]]) => codep[x] = OriginalCodep[x]
    BY DEF MarkInv, Unreversed, n
  <2>2. \A i \in 2 .. n : i = n \/ i \in 2 .. n - 1
    BY <1>5
  <2>3. ASSUME NEW x \in Cell, \A i \in 2 .. n - 1 : x # q[i]
        PROVE  heap'.previous[x] = Original.previous[x]
    <3>1. CASE x = b
      BY <1>8, <1>9, <3>1
    <3>2. CASE x # b
      <4>1. \A i \in 2 .. n : x # p[i]
        BY <1>4, <1>6, <1>13, <2>2, <2>3, <3>2
      <4>2. QED
        BY <1>9, <2>1, <3>2, <4>1
    <3>3. QED
      BY <3>1, <3>2
  <2>4. ASSUME NEW x \in Cell, \A i \in 2 .. n - 1 : x # heap'.previous[q[i]]
        PROVE  codep'[x] = OriginalCodep[x]
    <3>1. CASE x = r
      BY <1>7, <1>10, <3>1, CodepIs
    <3>2. CASE x # r
      <4>1. \A i \in 2 .. n : x # heap.previous[p[i]]
        BY <1>7, <1>13, <2>2, <2>4, <3>2
      <4>2. QED
        BY <1>10, <2>1, <3>2, <4>1
    <3>3. QED
      BY <3>1, <3>2
  <2>5. Original' = Original /\ OriginalCodep' = OriginalCodep
    BY <1>3, Remembered
  <2>6. QED
    BY <1>6, <1>9, <1>10, <2>1, <2>3, <2>4, <2>5 DEF Unreversed
<1>17. Tags'
  BY <1>3, <1>11, Remembered DEF MarkInv, Tags
<1>18. \A d : Settled(d)' = Settled(d)
  BY <1>3, <1>11 DEF Settled
<1>19. SettledBefore(q)'
  <2>1. ASSUME NEW i \in 1 .. n - 1, NEW d \in Symbol,
               owner[d] = q[i], Place(q, i)' \in Symbol, d <= Place(q, i)'
        PROVE  Settled(d)
    <3>1. Place(q, i)' = Place(p, i)
      <4>1. CASE i = n - 1
        <5>1. i # n /\ i + 1 = n
          BY <1>5, <4>1
        <5>2. QED
          BY <1>3, <1>6, <1>7, <4>1, <5>1 DEF Place, n
      <4>2. CASE i # n - 1
        <5>1. i # n /\ i + 1 \in 2 .. n - 1
          BY <1>5, <4>2
        <5>2. QED
          BY <1>6, <1>13, <4>2, <5>1 DEF Place, n
      <4>3. QED
        BY <4>1, <4>2
    <3>2. i \in 1 .. n /\ owner[d] = p[i]
      BY <1>6, <2>1
    <3>3. QED
      BY <2>1, <3>1, <3>2 DEF MarkInv, SettledBefore, n
  <2>2. QED
    BY <1>3, <1>6, <1>18, <2>1 DEF SettledBefore
<1>20. SettledLists(q)'
  <2>1. ASSUME NEW d \in Symbol, owner[d] \in Boxes, tag[owner[d]] = "marked",
               \A i \in 1 .. n - 1 : q[i] # owner[d]
        PROVE  Settled(d)
    <3>1. CASE owner[d] = b
      BY <1>8, <3>1
    <3>2. CASE owner[d] # b
      <4>1. \A i \in 1 .. n : i = n \/ i \in 1 .. n - 1
        BY <1>5
      <4>2. \A i \in 1 .. n : p[i] # owner[d]
        BY <1>4, <1>6, <2>1, <3>2, <4>1 DEF n
      <4>3. QED
        BY <2>1, <4>2 DEF MarkInv, SettledLists, n
    <3>3. QED
      BY <3>1, <3>2
  <2>2. \A d \in Symbol : \A j \in 1 .. root - 1 : owner[d] = Root[j] => Settled(d)
    BY DEF MarkInv, SettledLists
  <2>3. QED
    BY <1>3, <1>6, <1>11, <1>18, <2>1, <2>2 DEF SettledLists
<1>21. HeadOf(r)' = codep[r]
  BY <1>3, <1>7, Remembered, HeadIs
<1>22. QED
  BY <1>3, <1>7, <1>14, <1>15, <1>16, <1>17, <1>19, <1>20, <1>21 DEF MarkInv

\* Back at a root nothing is reversed any more and every list left is settled.
LEMMA BackAtRoot ==
    ASSUME Given, NEW p, MarkInv(p), heap.next[current] = head, head = Root[root]
    PROVE  /\ heap = Original /\ codep = OriginalCodep
           /\ \A c \in Symbol : owner[c] \in Boxes /\ tag[owner[c]] = "marked" => Settled(c)
           /\ \A c \in Symbol : \A j \in 1 .. root : owner[c] = Root[j] => Settled(c)
<1>1. Len(p) = 1 /\ p[1] = Root[root] /\ Root[root] \in Roots /\ root \in 1 .. Len(Root)
  BY WayIsLive DEF MarkInv, OnWay
<1>2. \A i \in 2 .. Len(p) : FALSE
  BY <1>1
<1>3. /\ heap \in Heap /\ heap.next = Original.next /\ Original \in Heap
      /\ \A c \in Cell : heap.previous[c] = Original.previous[c]
      /\ codep \in [Cell -> Cell \cup {Null}] /\ OriginalCodep \in [Cell -> Cell \cup {Null}]
      /\ \A c \in Cell : codep[c] = OriginalCodep[c]
  BY <1>2, OriginalIs, CodepIs DEF MarkInv, Unreversed
<1>4. heap = Original
  <2>1. heap.previous \in [Cell -> Cell] /\ Original.previous \in [Cell -> Cell]
    BY <1>3 DEF Heap
  <2>2. heap.previous = Original.previous
    BY <1>3, <2>1
  <2>3. QED
    BY <1>3, <2>2 DEF Heap
<1>5. codep = OriginalCodep
  BY <1>3
<1>6. \A i \in 1 .. Len(p) : p[i] \notin Boxes
  BY <1>1, Kinds
<1>7. \A c \in Symbol : owner[c] \in Boxes /\ tag[owner[c]] = "marked" => Settled(c)
  BY <1>6 DEF MarkInv, SettledLists
<1>8. ASSUME NEW c \in Symbol, NEW j \in 1 .. root, owner[c] = Root[j] PROVE Settled(c)
  <2>1. CASE j = root
    BY <1>8, <2>1, AtTheEnd
  <2>2. CASE j # root
    <3>1. j \in 1 .. root - 1
      BY <1>1, <2>2
    <3>2. QED
      BY <1>8, <3>1 DEF MarkInv, SettledLists
  <2>3. QED
    BY <2>1, <2>2
<1>9. QED
  BY <1>4, <1>5, <1>7, <1>8

\* The way begins anew at the next root.
LEMMA NextRootMarks ==
    ASSUME Given, NEW p, MarkInv(p), RootDone, root < Len(Root),
           NEW q, q = <<Root[root + 1]>>
    PROVE  MarkInv(q)'
<1>1. /\ UNCHANGED <<owner, target, chain, first, counted, heap, codep, tag, phase>>
      /\ heap.next[current] = head /\ head = Root[root] /\ root' = root + 1
      /\ head' = Root[root + 1] /\ current' = Root[root + 1]
  BY DEF RootDone, Marking
<1>2. /\ root \in 1 .. Len(Root) /\ root + 1 \in 1 .. Len(Root)
      /\ Root[root + 1] \in Roots /\ Root[root + 1] \in Heads /\ Root[root + 1] \in Cell
      /\ Root[root + 1] \notin Symbol
  <2>1. root \in 1 .. Len(Root) /\ root + 1 \in 1 .. Len(Root)
    BY Places DEF MarkInv
  <2>2. Root[root + 1] \in Roots
    BY <2>1, Places
  <2>3. QED
    BY <2>1, <2>2, Places DEF Heads
<1>3. /\ heap = Original /\ codep = OriginalCodep
      /\ \A c \in Symbol : owner[c] \in Boxes /\ tag[owner[c]] = "marked" => Settled(c)
      /\ \A c \in Symbol : \A j \in 1 .. root : owner[c] = Root[j] => Settled(c)
  BY <1>1, BackAtRoot
<1>4. Len(q) = 1 /\ q[1] = Root[root + 1] /\ q \in Seq(Heads) /\ \A i \in 2 .. Len(q) : FALSE
  BY <1>2
<1>5. OnWay(q)' /\ Reversed(q)'
  BY <1>1, <1>4 DEF OnWay, Reversed
<1>6. Original' = Original /\ OriginalCodep' = OriginalCodep /\ OriginalTag' = OriginalTag
      /\ Reachable' = Reachable /\ \A c : HeadOf(c)' = HeadOf(c)
  BY <1>1, Remembered
<1>7. Unreversed(q)'
  BY <1>1, <1>3, <1>6, OriginalIs, CodepIs DEF Unreversed
<1>8. Tags'
  BY <1>1, <1>6 DEF MarkInv, Tags
<1>9. SettledBefore(q)'
  BY <1>1, <1>2, <1>4 DEF SettledBefore, Place
<1>10. SettledLists(q)'
  <2>1. \A c : Settled(c)' = Settled(c)
    BY <1>1 DEF Settled
  <2>2. root' - 1 = root
    BY <1>1, <1>2
  <2>3. QED
    BY <1>1, <1>3, <2>1, <2>2 DEF SettledLists
<1>11. HeadOf(Root[root + 1]) = Root[root + 1]
  BY <1>2, HeadIs
<1>12. QED
  BY <1>1, <1>2, <1>5, <1>6, <1>7, <1>8, <1>9, <1>10, <1>11 DEF MarkInv

\* When all roots are done exactly the boxes that the program can name are marked.
LEMMA MarksAreExact ==
    ASSUME Given, NEW p, MarkInv(p), heap.next[current] = head, head = Root[root],
           root = Len(Root)
    PROVE  \A b \in Boxes : tag[b] = IF b \in Reachable THEN "marked" ELSE "O"
<1> DEFINE M == {b \in Boxes : tag[b] = "marked"}
<1>1. ASSUME NEW c \in Symbol, owner[c] \in Roots \cup M PROVE target[c] \in M \cup {Null}
  <2>1. Settled(c)
    <3>1. CASE owner[c] \in M
      BY <3>1, BackAtRoot
    <3>2. CASE owner[c] \in Roots
      <4>1. PICK j \in 1 .. Len(Root) : Root[j] = owner[c]
        BY <3>2, Places
      <4>2. QED
        BY <4>1, BackAtRoot
    <3>3. QED
      BY <1>1, <3>1, <3>2
  <2>2. target[c] \in Boxes \cup {Null}
    BY DEF Given
  <2>3. QED
    BY <2>1, <2>2 DEF Settled
<1>2. M \in SUBSET Boxes
  OBVIOUS
<1>3. Reachable \subseteq M
  BY <1>1, <1>2, ReachableIs
<1>4. QED
  BY <1>3 DEF MarkInv, Tags

\* A set has as many elements as a sequence of different elements that goes through it.
LEMMA Counting ==
    ASSUME NEW m \in Nat, NEW s, \A i, j \in 1 .. m : s[i] = s[j] => i = j,
           NEW S, \A i \in 1 .. m : s[i] \in S, \A x \in S : \E i \in 1 .. m : s[i] = x
    PROVE  IsFiniteSet(S) /\ Cardinality(S) = m
<1> DEFINE f == [i \in 1 .. m |-> s[i]]
<1>1. f \in Bijection(1 .. m, S)
  BY DEF Bijection, Injection, Surjection, IsInjective
<1>2. IsFiniteSet(1 .. m) /\ Cardinality(1 .. m) = m
  <2>1. 1 \in Int /\ m \in Int
    OBVIOUS
  <2>2. QED
    BY <2>1, FS_Interval
<1>3. ExistsBijection(1 .. m, S)
  BY <1>1 DEF ExistsBijection
<1>4. QED
  BY <1>2, <1>3, FS_Bijection

\* A sequence of different elements of a set is no longer than the set is large.
LEMMA NoLonger ==
    ASSUME NEW m \in Nat, NEW s, \A i, j \in 1 .. m : s[i] = s[j] => i = j,
           NEW T, IsFiniteSet(T), \A i \in 1 .. m : s[i] \in T
    PROVE  m <= Cardinality(T)
<1> DEFINE S == {s[i] : i \in 1 .. m}
<1>1. /\ \A i \in 1 .. m : s[i] \in S
      /\ \A x \in S : \E i \in 1 .. m : s[i] = x
      /\ S \in SUBSET T
  OBVIOUS
<1> HIDE DEF S
<1>2. Cardinality(S) = m
  BY <1>1, Counting
<1>3. QED
  BY <1>1, <1>2, FS_Subset

\* There are finitely many boxes and finitely many cells.
LEMMA FewBoxes ==
    /\ IsFiniteSet(Boxes) /\ Cardinality(Boxes) = Len(Box) /\ IsFiniteSet(Roots)
    /\ IsFiniteSet(Cell) /\ Cardinality(Cell) \in Nat
<1>1. IsFiniteSet(Boxes) /\ Cardinality(Boxes) = Len(Box)
  <2>1. /\ Len(Box) \in Nat /\ \A i, j \in 1 .. Len(Box) : Box[i] = Box[j] => i = j
        /\ \A i \in 1 .. Len(Box) : Box[i] \in Boxes
        /\ \A b \in Boxes : \E i \in 1 .. Len(Box) : Box[i] = b
    BY Places
  <2>2. QED
    BY <2>1, Counting
<1>2. IsFiniteSet(Roots)
  <2>1. /\ Len(Root) \in Nat /\ \A i, j \in 1 .. Len(Root) : Root[i] = Root[j] => i = j
    BY CollectorAssumption DEF IsInjective
  <2>2. /\ \A i \in 1 .. Len(Root) : Root[i] \in Roots
        /\ \A r \in Roots : \E i \in 1 .. Len(Root) : Root[i] = r
    BY Places
  <2>3. QED
    BY <2>1, <2>2, Counting
<1>4. IsFiniteSet(Boxes \cup Roots) /\ IsFiniteSet({FreeHead}) /\ IsFiniteSet(Symbol)
  BY <1>1, <1>2, CollectorAssumption, FS_Union, FS_Singleton
<1>5. IsFiniteSet((Boxes \cup Roots) \cup {FreeHead})
  BY <1>4, FS_Union
<1>6. IsFiniteSet(((Boxes \cup Roots) \cup {FreeHead}) \cup Symbol)
  BY <1>4, <1>5, FS_Union
<1>7. IsFiniteSet(Cell)
  BY <1>6, CollectorAssumption
<1>8. QED
  BY <1>1, <1>2, <1>7, FS_CardinalityType

\* The reversed references lead from the list being walked through to the root.
LEMMA WayLeadsBack ==
    ASSUME Given, NEW p, MarkInv(p)
    PROVE  WayBack
<1> DEFINE n == Len(p)
           m == Len(Box)
           Ups(f) == f = [k \in 0 .. m |->
              IF k = 0 \/ f[k - 1] = Root[root] THEN IF k = 0 THEN head ELSE f[k - 1]
              ELSE codep[heap.previous[f[k - 1]]]]
           up == CHOOSE f : Ups(f)
           w == [k \in 0 .. m |-> IF k < n THEN p[n - k] ELSE p[1]]
<1>1. /\ n \in Nat \ {0} /\ m \in Nat /\ p[1] = Root[root] /\ p[n] = head
      /\ \A i, j \in 1 .. n : p[i] = p[j] => i = j
      /\ \A i \in 2 .. n : p[i] \in Boxes
  BY WayIsLive, Places DEF MarkInv, OnWay
<1>2. n - 1 <= m
  <2> DEFINE s == [i \in 1 .. n - 1 |-> p[i + 1]]
  <2>1. \A i \in 1 .. n - 1 : i + 1 \in 2 .. n /\ i + 1 \in 1 .. n
    BY <1>1
  <2>2. \A i, j \in 1 .. n - 1 : s[i] = s[j] => i = j
    BY <1>1, <2>1
  <2>3. \A i \in 1 .. n - 1 : s[i] \in Boxes
    BY <1>1, <2>1
  <2>4. n - 1 \in Nat
    BY <1>1
  <2> HIDE DEF s, n, m
  <2>5. n - 1 <= Cardinality(Boxes)
    BY <2>2, <2>3, <2>4, FewBoxes, NoLonger
  <2>6. QED
    BY <2>5, FewBoxes DEF m
<1>3. ASSUME NEW k \in 0 .. m, k # 0
      PROVE  w[k] = IF w[k - 1] = Root[root] THEN w[k - 1] ELSE codep[heap.previous[w[k - 1]]]
  <2>1. k - 1 \in 0 .. m /\ (k < n => n - k \in 1 .. n /\ n - (k - 1) \in 2 .. n
                             /\ n - (k - 1) \in 1 .. n /\ (n - (k - 1)) - 1 = n - k)
    BY <1>1, <1>3
  <2>2. CASE k < n
    <3>1. w[k - 1] = p[n - (k - 1)] /\ w[k] = p[n - k]
      BY <1>1, <2>1, <2>2
    <3>2. p[n - (k - 1)] # Root[root]
      <4>1. 1 \in 1 .. n /\ n - (k - 1) # 1
        BY <1>1, <2>1, <2>2
      <4>2. QED
        BY <1>1, <2>1, <2>2, <4>1
    <3>3. codep[heap.previous[p[n - (k - 1)]]] = p[(n - (k - 1)) - 1]
      BY <2>1, <2>2 DEF MarkInv, Reversed
    <3>4. QED
      BY <2>1, <2>2, <3>1, <3>2, <3>3
  <2>3. CASE ~(k < n)
    <3>1. w[k] = p[1]
      BY <2>3
    <3>2. w[k - 1] = p[1]
      <4>1. CASE k - 1 < n
        <5>1. n - (k - 1) = 1
          BY <1>1, <1>3, <2>3, <4>1
        <5>2. QED
          BY <2>1, <4>1, <5>1
      <4>2. CASE ~(k - 1 < n)
        BY <2>1, <4>2
      <4>3. QED
        BY <4>1, <4>2
    <3>3. QED
      BY <1>1, <3>1, <3>2
  <2>4. QED
    BY <2>2, <2>3
<1>4. w[0] = head /\ w[m] = Root[root]
  <2>1. 0 \in 0 .. m /\ m \in 0 .. m /\ 0 < n
    BY <1>1
  <2>2. w[0] = head
    BY <1>1, <2>1
  <2>3. CASE m < n
    <3>1. n - m = 1
      BY <1>1, <1>2, <2>3
    <3>2. QED
      BY <1>1, <2>1, <2>2, <2>3, <3>1
  <2>4. CASE ~(m < n)
    BY <1>1, <2>1, <2>2, <2>4
  <2>5. QED
    BY <2>3, <2>4
<1>5. Ups(w)
  <2>1. w = [k \in 0 .. m |-> w[k]]
    OBVIOUS
  <2> HIDE DEF w
  <2>2. QED
    BY <1>3, <1>4, <2>1
<1>6. Ups(up)
  <2> HIDE DEF Ups
  <2>1. QED
    BY <1>5
<1> HIDE DEF w, up
<1>7. \A k \in 0 .. m : up[k] = w[k]
  <2> DEFINE K == {k \in Nat : k \in 0 .. m => up[k] = w[k]}
  <2>1. 0 \in K
    BY <1>1, <1>4, <1>6
  <2>2. ASSUME NEW k \in Nat, k \in K PROVE k + 1 \in K
    <3>1. CASE k + 1 \in 0 .. m
      <4>1. k \in 0 .. m /\ k + 1 # 0 /\ (k + 1) - 1 = k
        BY <1>1, <3>1
      <4>2. up[k + 1] = IF up[k] = Root[root] THEN up[k] ELSE codep[heap.previous[up[k]]]
        BY <1>6, <3>1, <4>1
      <4>3. QED
        BY <1>3, <2>2, <3>1, <4>1, <4>2
    <3>2. QED
      BY <3>1
  <2> HIDE DEF K
  <2>3. Nat \subseteq K
    BY <2>1, <2>2, NaturalsInSet
  <2>4. QED
    BY <1>1, <2>3 DEF K
<1>8. up[m] = Root[root]
  BY <1>1, <1>4, <1>7
<1>9. WayBack <=> (phase = "mark" => up[m] = Root[root])
  BY DEF WayBack, up
<1>10. QED
  BY <1>8, <1>9
-----------------------------------------------------------------------------
(* The lists of the memory at the call, as sequences *)

\* s is the list of the head h, in the order of the pointers n.
ListOf(n, h, s) == /\ s \in Seq(Cell) /\ IsRing(n, s) /\ s[1] = h
                   /\ \A i, j \in 1 .. Len(s) : s[i] = s[j] => i = j
                   /\ \A i \in 1 .. Len(s) : HeadOf(s[i]) = h
                   /\ \A c \in Cell : HeadOf(c) = h => \E i \in 1 .. Len(s) : s[i] = c

\* The pointers of a list lead through ever larger symbols and back to its head.
LEMMA ListExists ==
    ASSUME Given, NEW h \in Heads
    PROVE  \E s : ListOf(Original.next, h, s)
<1> DEFINE n == Original.next
<1>1. /\ n \in [Cell -> Cell] /\ h \in Cell /\ h \notin Symbol /\ HeadOf(h) = h
      /\ Symbol \subseteq Nat /\ Symbol \subseteq Cell /\ IsFiniteSet(Symbol)
  BY OriginalIs, Places, HeadIs, CollectorAssumption DEF Heap
<1>2. \A c \in Cell : n[c] = After(c) /\ HeadOf(n[c]) = HeadOf(c) /\ Before(n[c]) = c
  BY OriginalIs, BothWays
<1> HIDE DEF n
<1>3. PICK f \in [Nat -> Cell] : f[0] = h /\ \A k \in Nat : f[k + 1] = n[f[k]]
  <2>1. PICK f : Iteration(f, Cell, n, h)
    BY <1>1, IterationExists
  <2>2. QED
    BY <2>1 DEF Iteration
<1>4. \A k \in Nat : HeadOf(f[k]) = h
  <2> DEFINE K == {k \in Nat : HeadOf(f[k]) = h}
  <2>1. 0 \in K
    BY <1>1, <1>3
  <2>2. \A k \in Nat : k \in K => k + 1 \in K
    BY <1>2, <1>3
  <2> HIDE DEF K
  <2>3. Nat \subseteq K
    BY <2>1, <2>2, NaturalsInSet
  <2>4. QED
    BY <2>3 DEF K
<1>5. \A k \in Nat : f[k] # h => f[k] \in Symbol
  BY <1>1, <1>4, HeadIs
<1>6. \A k \in Nat : f[k] \in Symbol /\ f[k + 1] # h => f[k + 1] > f[k]
  <2>1. ASSUME NEW k \in Nat, f[k] \in Symbol, f[k + 1] # h PROVE f[k + 1] > f[k]
    <3>1. f[k + 1] = After(f[k]) /\ HeadOf(f[k]) = h /\ f[k] \in Cell
      BY <1>2, <1>3, <1>4
    <3>2. QED
      BY <2>1, <3>1, AfterIs
  <2>2. QED
    BY <2>1
<1> DEFINE T == {k \in Nat : f[k + 1] = h}
<1>7. T # {}
  <2>1. SUFFICES ASSUME T = {} PROVE FALSE
    OBVIOUS
  <2>2. ASSUME NEW k \in Nat PROVE f[k + 1] # h /\ f[k + 1] \in Symbol /\ f[k + 1] \in Nat
    <3>1. f[k + 1] # h
      BY <2>1
    <3>2. k + 1 \in Nat
      OBVIOUS
    <3>3. QED
      BY <1>1, <1>5, <3>1, <3>2
  <2> DEFINE K == {k \in Nat : f[k + 1] >= k}
  <2>3. 0 \in K
    BY <2>2
  <2>4. ASSUME NEW k \in Nat, k \in K PROVE k + 1 \in K
    <3>1. f[(k + 1) + 1] > f[k + 1]
      BY <1>6, <2>2
    <3>2. f[(k + 1) + 1] \in Nat /\ f[k + 1] \in Nat /\ f[k + 1] >= k
      BY <2>2, <2>4
    <3>3. QED
      BY <3>1, <3>2
  <2> HIDE DEF K
  <2>5. Nat \subseteq K
    BY <2>3, <2>4, NaturalsInSet
  <2>6. Symbol # {}
    BY <2>2
  <2> DEFINE M == Max(Symbol)
  <2>7. M \in Nat /\ \A y \in Symbol : y <= M
    BY <1>1, <2>6, Extremes
  <2> HIDE DEF M
  <2>8. M + 1 \in K /\ M + 1 \in Nat
    BY <2>5, <2>7
  <2>9. f[(M + 1) + 1] >= M + 1 /\ f[(M + 1) + 1] <= M /\ f[(M + 1) + 1] \in Nat
    BY <2>2, <2>7, <2>8 DEF K
  <2>10. QED
    BY <2>7, <2>9
<1>8. PICK l \in T : \A k \in T : l <= k
  <2>1. T \subseteq Nat
    OBVIOUS
  <2> HIDE DEF T
  <2>2. QED
    BY <1>7, <2>1, LeastElement
<1>9. l \in Nat /\ f[l + 1] = h /\ \A k \in Nat : k < l => f[k + 1] # h
  BY <1>8
<1> HIDE DEF T
<1>10. \A i, j \in Nat : i < j /\ j <= l => f[i] # f[j]
  <2> DEFINE K == {i \in Nat : \A j \in Nat : i < j /\ j <= l => f[i] # f[j]}
  <2>1. \A j \in Nat : 0 < j => j - 1 \in Nat /\ (j - 1) + 1 = j /\ j - 1 < j
    OBVIOUS
  <2>2. 0 \in K
    <3>1. ASSUME NEW j \in Nat, 0 < j, j <= l PROVE f[j] # h
      BY <1>9, <2>1, <3>1
    <3>2. QED
      BY <1>3, <3>1
  <2>3. ASSUME NEW i \in Nat, i \in K PROVE i + 1 \in K
    <3>1. ASSUME NEW j \in Nat, i + 1 < j, j <= l PROVE f[i + 1] # f[j]
      <4>1. j - 1 \in Nat /\ (j - 1) + 1 = j /\ i < j - 1 /\ j - 1 <= l
        BY <1>9, <3>1
      <4>2. f[i] # f[j - 1]
        BY <2>3, <4>1
      <4>3. f[i + 1] = n[f[i]] /\ f[j] = n[f[j - 1]]
        BY <1>3, <4>1
      <4>4. QED
        BY <1>2, <4>1, <4>2, <4>3
    <3>2. QED
      BY <3>1
  <2> HIDE DEF K
  <2>4. Nat \subseteq K
    BY <2>2, <2>3, NaturalsInSet
  <2>5. QED
    BY <2>4 DEF K
<1>11. ASSUME NEW c \in Cell, HeadOf(c) = h PROVE \E i \in 0 .. l : f[i] = c
  <2> DEFINE U == {d \in Symbol : owner[d] = h /\ \A i \in 0 .. l : f[i] # d}
  <2>1. U = {}
    <3>1. SUFFICES ASSUME U # {} PROVE FALSE
      OBVIOUS
    <3>2. U \subseteq Nat
      BY <1>1
    <3>3. PICK d \in U : \A e \in U : d <= e
      <4> HIDE DEF U
      <4>1. QED
        BY <3>1, <3>2, LeastElement
    <3>4. d \in Symbol /\ d \in Cell /\ d \in Nat /\ HeadOf(d) = h /\ \A i \in 0 .. l : f[i] # d
      BY <1>1, <3>3, HeadIs
    <3> DEFINE e == Before(d)
    <3>5. e \in Cell /\ n[e] = d
      BY <1>2, <3>4, BothWays
    <3>6. (e \in Symbol /\ owner[e] = h /\ e < d) \/ e = h
      BY <3>4, BeforeIs
    <3> HIDE DEF e
    <3>7. \E i \in 0 .. l : f[i] = e
      <4>1. CASE e = h
        BY <1>3, <1>9, <4>1
      <4>2. CASE e \in Symbol /\ owner[e] = h /\ e < d
        <5>1. e \notin U
          <6>1. e \in Nat /\ ~(d <= e)
            BY <1>1, <3>4, <4>2
          <6>2. QED
            BY <3>3, <6>1
        <5>2. QED
          BY <4>2, <5>1
      <4>3. QED
        BY <3>6, <4>1, <4>2
    <3>8. PICK i \in 0 .. l : f[i] = e
      BY <3>7
    <3>9. f[i + 1] = d
      BY <1>3, <3>5, <3>8
    <3>10. CASE i = l
      BY <1>1, <1>9, <3>4, <3>9, <3>10
    <3>11. CASE i # l
      <4>1. i + 1 \in 0 .. l
        BY <1>9, <3>11
      <4>2. QED
        BY <3>4, <3>9, <4>1
    <3>12. QED
      BY <3>10, <3>11
  <2>2. CASE c \in Symbol
    BY <1>11, <2>1, <2>2, HeadIs
  <2>3. CASE c \notin Symbol
    <3>1. c = h /\ 0 \in 0 .. l
      BY <1>9, <1>11, <2>3, HeadIs
    <3>2. QED
      BY <1>3, <3>1
  <2>4. QED
    BY <2>2, <2>3
<1> DEFINE s == [i \in 1 .. l + 1 |-> f[i - 1]]
<1>12. \A i \in 1 .. l + 1 : i - 1 \in Nat /\ i - 1 \in 0 .. l /\ (i - 1) + 1 = i
  BY <1>9
<1>13. s \in Seq(Cell) /\ Len(s) = l + 1
  <2>1. l + 1 \in Nat /\ DOMAIN s = 1 .. l + 1 /\ s = [k \in 1 .. l + 1 |-> s[k]]
    BY <1>9
  <2>2. \A k \in 1 .. l + 1 : s[k] \in Cell
    BY <1>3, <1>12
  <2> HIDE DEF s
  <2>3. QED
    BY <2>1, <2>2, SequenceIs
<1>14. \A i \in 1 .. l + 1 : s[i] = f[i - 1]
  OBVIOUS
<1> HIDE DEF s
<1>15. IsRing(n, s) /\ s[1] = h
  <2>1. 1 \in 1 .. l + 1 /\ l + 1 \in 1 .. l + 1 /\ (l + 1) - 1 = l /\ 1 - 1 = 0
    BY <1>9
  <2>2. ASSUME NEW i \in 1 .. l PROVE n[s[i]] = s[i + 1]
    <3>1. i \in 1 .. l + 1 /\ i + 1 \in 1 .. l + 1 /\ (i + 1) - 1 = (i - 1) + 1
      BY <1>9
    <3>2. QED
      BY <1>3, <1>12, <1>14, <3>1
  <2>3. n[s[l + 1]] = s[1] /\ s[1] = h
    BY <1>3, <1>9, <1>14, <2>1
  <2>4. QED
    BY <1>9, <1>13, <2>1, <2>2, <2>3 DEF IsRing
<1>16. \A i, j \in 1 .. Len(s) : s[i] = s[j] => i = j
  <2>1. ASSUME NEW i \in 1 .. l + 1, NEW j \in 1 .. l + 1, i < j PROVE s[i] # s[j]
    <3>1. i - 1 < j - 1 /\ j - 1 <= l
      BY <1>9, <2>1
    <3>2. QED
      BY <1>10, <1>12, <1>14, <3>1
  <2>2. \A i, j \in 1 .. l + 1 : i = j \/ i < j \/ j < i
    BY <1>9
  <2>3. QED
    BY <1>13, <2>1, <2>2
<1>17. \A i \in 1 .. Len(s) : HeadOf(s[i]) = h
  BY <1>4, <1>12, <1>13, <1>14
<1>18. ASSUME NEW c \in Cell, HeadOf(c) = h PROVE \E i \in 1 .. Len(s) : s[i] = c
  <2>1. PICK i \in 0 .. l : f[i] = c
    BY <1>11, <1>18
  <2>2. i + 1 \in 1 .. l + 1 /\ (i + 1) - 1 = i
    BY <1>9
  <2>3. QED
    BY <1>13, <1>14, <2>1, <2>2
<1>19. ListOf(n, h, s)
  BY <1>13, <1>15, <1>16, <1>17, <1>18 DEF ListOf
<1>20. QED
  BY <1>19 DEF n

\* The memory at the call is laid out in the lists of its heads.
LEMMA LaidOut ==
    ASSUME Given
    PROVE  \E L : /\ Laid(Original.next, L, Heads, Cell)
                  /\ \A h \in Heads : ListOf(Original.next, h, L[h])
<1> DEFINE n == Original.next
           L == [h \in Heads |-> CHOOSE s : ListOf(n, h, s)]
<1>1. \A h \in Heads : ListOf(n, h, L[h])
  BY ListExists
<1>2. L = [h \in Heads |-> L[h]]
  OBVIOUS
<1> HIDE DEF L, n
<1>3. \A h \in Heads : L[h] \in Seq(Cell) /\ IsRing(n, L[h]) /\ L[h][1] = h
  BY <1>1 DEF ListOf
<1>4. L \in [Heads -> Seq(Cell)]
  BY <1>2, <1>3
<1>5. ASSUME NEW g \in Heads, NEW h \in Heads,
             NEW i \in 1 .. Len(L[g]), NEW j \in 1 .. Len(L[h]), L[g][i] = L[h][j]
      PROVE  g = h /\ i = j
  <2>1. HeadOf(L[g][i]) = g /\ HeadOf(L[h][j]) = h
    BY <1>1 DEF ListOf
  <2>2. g = h
    BY <1>5, <2>1
  <2>3. QED
    BY <1>1, <1>5, <2>2 DEF ListOf
<1>6. \A c \in Cell : \E h \in Heads : \E i \in 1 .. Len(L[h]) : L[h][i] = c
  BY <1>1, HeadIs, ZenonT(60) DEF ListOf
<1>7. Laid(n, L, Heads, Cell)
  BY <1>3, <1>4, <1>5, <1>6 DEF Laid
<1>8. QED
  BY <1>1, <1>7 DEF n
-----------------------------------------------------------------------------
(* The sweep, when the first k boxes of the chain have been dealt with *)

Collected(k) == {Box[j] : j \in 1 .. k} \ Reachable
Upcoming(k)  == IF k < Len(Box) THEN Box[k + 1] ELSE Null
\* Where the chain goes on: behind its virtual head, or behind the j-th box.
Pointer(j)   == IF j = 0 THEN chain ELSE codep[Box[j]]
NoneKept(i, j) == \A x \in i .. j : Box[x] \notin Reachable

\* The marks of the boxes dealt with are gone.
SweptTags(k) == /\ tag \in [Cell -> {"R", "O", "marked"}]
                /\ \A c \in Cell \ Boxes : tag[c] = OriginalTag[c]
                /\ \A j \in 1 .. Len(Box) :
                      tag[Box[j]] = IF k < j /\ Box[j] \in Reachable THEN "marked" ELSE "O"

\* Each box that was kept leads to the one kept next, the last of them past all that
\* were collected.
SweptChain(k) ==
    /\ codep \in [Cell -> Cell \cup {Null}] /\ \A c \in Symbol : codep[c] = target[c]
    /\ \A j \in k + 1 .. Len(Box) : codep[Box[j]] = Upcoming(j)
    /\ \/ current = Null /\ NoneKept(1, k)
       \/ \E j \in 1 .. k : current = Box[j] /\ Box[j] \in Reachable /\ NoneKept(j + 1, k)
    /\ \A j \in 0 .. k : j = 0 \/ Box[j] \in Reachable =>
          \/ Pointer(j) = Upcoming(k) /\ NoneKept(j + 1, k)
          \/ \E i \in j + 1 .. k : /\ Pointer(j) = Box[i] /\ Box[i] \in Reachable
                                   /\ NoneKept(j + 1, i - 1)

\* The i-th cell of a ring, its head behind the last one.
Around(s, i) == IF i <= Len(s) THEN s[i] ELSE s[1]

\* The g cells collected so far are in front of the free list; nothing else has moved.
SweptRings(L, g, k) ==
    /\ heap \in Heap /\ DoublyLinked(heap)
    /\ Laid(heap.next, L, Heads \ Collected(k), Cell)
    /\ \A h \in Heads \ (Collected(k) \cup {FreeHead}) :
          \A i \in 1 .. Len(L[h]) : HeadOf(L[h][i]) = h
    /\ g \in Nat /\ g < Len(L[FreeHead])
    /\ \A i \in 2 .. g + 1 : HeadOf(L[FreeHead][i]) \in Collected(k)
    /\ \A i \in 1 .. Len(L[FreeHead]) : i = 1 \/ i > g + 1 => HeadOf(L[FreeHead][i]) = FreeHead
    /\ first = Around(L[FreeHead], g + 2)
    /\ \A c \in Cell : HeadOf(c) \notin {FreeHead} \cup Collected(k) =>
          heap.next[c] = Original.next[c] /\ heap.previous[c] = Original.previous[c]

\* Where the loops of the sweep and of the count are.
SweptSoFar(L, g, k) ==
    /\ phase \in {"sweep", "count", "done"} /\ k \in 0 .. Len(Box)
    /\ phase = "sweep" => k < Len(Box) /\ head = Box[k + 1] /\ counted = 0
    /\ phase # "sweep" => k = Len(Box) /\ counted \in 0 .. g /\ counted <= FreeCount
    /\ phase = "count" => head = Around(L[FreeHead], counted + 2)
    /\ phase = "done" => counted \in {g, FreeCount}

SweepInv(L, g, k) == /\ SweptTags(k) /\ SweptChain(k) /\ SweptRings(L, g, k)
                     /\ SweptSoFar(L, g, k)

\* What the collector keeps.
CollectorInv ==
    /\ Given
    /\ \/ phase = "mark" /\ first = Original.next[FreeHead] /\ \E p : MarkInv(p)
       \/ \E L, g, k : SweepInv(L, g, k)

\* The pointers of a ring lead around it.
LEMMA AroundIs ==
    ASSUME NEW n, NEW s, IsRing(n, s), Len(s) \in Nat, NEW i \in 1 .. Len(s)
    PROVE  n[s[i]] = Around(s, i + 1)
<1>1. CASE i = Len(s)
  BY <1>1 DEF IsRing, Around
<1>2. CASE i # Len(s)
  <2>1. i \in 1 .. Len(s) - 1 /\ i + 1 <= Len(s)
    BY <1>2
  <2>2. QED
    BY <2>1 DEF IsRing, Around
<1>3. QED
  BY <1>1, <1>2

\* What has been collected so far are boxes, one more or not with each box dealt with.
LEMMA CollectedIs ==
    ASSUME NEW k \in 0 .. Len(Box)
    PROVE  /\ Collected(k) \subseteq Boxes \ Reachable
           /\ FreeHead \in Heads \ Collected(k)
           /\ Collected(0) = {} /\ Collected(Len(Box)) = Boxes \ Reachable
           /\ k < Len(Box) => /\ Box[k + 1] \in Boxes /\ Box[k + 1] \notin Collected(k)
                              /\ Collected(k + 1) = Collected(k) \cup ({Box[k + 1]} \ Reachable)
<1>1. \A j \in 1 .. k : j \in 1 .. Len(Box) /\ Box[j] \in Boxes
  BY Places
<1>2. Collected(k) \subseteq Boxes \ Reachable
  BY <1>1 DEF Collected
<1>3. FreeHead \in Heads \ Collected(k)
  BY <1>2, Places DEF Heads
<1>4. Collected(0) = {}
  BY DEF Collected
<1>5. Collected(Len(Box)) = Boxes \ Reachable
  <2>1. \A j \in 1 .. Len(Box) : Box[j] \in Boxes
    BY Places
  <2>2. \A b \in Boxes : \E i \in 1 .. Len(Box) : Box[i] = b
    BY Places
  <2>3. QED
    BY <2>1, <2>2 DEF Collected
<1>6. ASSUME k < Len(Box)
      PROVE  /\ Box[k + 1] \in Boxes /\ Box[k + 1] \notin Collected(k)
             /\ Collected(k + 1) = Collected(k) \cup ({Box[k + 1]} \ Reachable)
  <2>1. k + 1 \in 1 .. Len(Box) /\ k + 1 \notin 1 .. k
    BY <1>6, Places
  <2>2. Box[k + 1] \in Boxes
    BY <2>1, Places
  <2>3. \A j \in 1 .. k : Box[j] # Box[k + 1]
    BY <1>1, <2>1, Places
  <2>4. \A j : j \in 1 .. k + 1 <=> j \in 1 .. k \/ j = k + 1
    BY <2>1
  <2>5. QED
    BY <2>2, <2>3, <2>4 DEF Collected
<1>7. QED
  BY <1>2, <1>3, <1>4, <1>5, <1>6

\* The free list in a layout of the cells.
LEMMA FreeListIs ==
    ASSUME NEW n, NEW L, NEW k \in 0 .. Len(Box),
           Laid(n, L, Heads \ Collected(k), Cell)
    PROVE  /\ FreeHead \in Heads \ Collected(k) /\ L[FreeHead] \in Seq(Cell)
           /\ Len(L[FreeHead]) \in Nat \ {0} /\ L[FreeHead][1] = FreeHead
           /\ IsRing(n, L[FreeHead])
           /\ \A i, j \in 1 .. Len(L[FreeHead]) : L[FreeHead][i] = L[FreeHead][j] => i = j
<1>1. FreeHead \in Heads \ Collected(k)
  BY CollectedIs
<1> DEFINE H == Heads \ Collected(k)
<1>2. Laid(n, L, H, Cell) /\ FreeHead \in H
  BY <1>1
<1> HIDE DEF H
<1>3. L[FreeHead] \in Seq(Cell) /\ IsRing(n, L[FreeHead]) /\ L[FreeHead][1] = FreeHead
  BY <1>2 DEF Laid
<1>4. \A i, j \in 1 .. Len(L[FreeHead]) : L[FreeHead][i] = L[FreeHead][j] => i = j
  BY <1>2 DEF Laid
<1>5. Len(L[FreeHead]) \in Nat \ {0}
  BY <1>3 DEF IsRing
<1>6. QED
  BY <1>1, <1>3, <1>4, <1>5

\* After a step of the sweep comes the box behind the one dealt with, or the count.
LEMMA OnwardIs ==
    ASSUME Given, UNCHANGED <<owner, target>>, NEW k \in 0 .. Len(Box) - 1, Onward(Upcoming(k + 1)), counted' = 0,
           NEW L, NEW g, SweptRings(L, g, k + 1)'
    PROVE  SweptSoFar(L, g, k + 1)'
<1>1. k \in Nat /\ k + 1 \in 1 .. Len(Box) /\ k + 1 \in 0 .. Len(Box) /\ FreeCount \in Nat \ {0}
  BY Places, CollectorAssumption
<1>2. CASE k + 1 < Len(Box)
  <2>1. Upcoming(k + 1) = Box[(k + 1) + 1] /\ (k + 1) + 1 \in 1 .. Len(Box)
    BY <1>1, <1>2, Places DEF Upcoming
  <2>2. Box[(k + 1) + 1] \in Cell
    BY <2>1, Places, CollectorAssumption
  <2>3. phase' = "sweep" /\ head' = Box[(k + 1) + 1]
    BY <2>1, <2>2, Places, SMTT(60) DEF Onward
  <2>4. QED
    BY <1>1, <1>2, <2>3 DEF SweptSoFar
<1>3. CASE ~(k + 1 < Len(Box))
  <2>1. k + 1 = Len(Box) /\ phase' = "count" /\ head' = heap'.next[FreeHead]
    BY <1>1, <1>3, Places DEF Onward, Upcoming
  <2>2. /\ Len(L[FreeHead]) \in Nat \ {0} /\ L[FreeHead][1] = FreeHead
        /\ IsRing(heap'.next, L[FreeHead])
    <3>1. Laid(heap'.next, L, Heads \ Collected(k + 1), Cell)
      BY Remembered DEF SweptRings, Collected
    <3>2. QED
      BY <1>1, <3>1, FreeListIs
  <2>3. heap'.next[FreeHead] = Around(L[FreeHead], 2)
    <3>1. 1 \in 1 .. Len(L[FreeHead]) /\ 1 + 1 = 2
      BY <2>2
    <3>2. heap'.next[L[FreeHead][1]] = Around(L[FreeHead], 1 + 1)
      BY <2>2, <3>1, AroundIs
    <3>3. QED
      BY <2>2, <3>1, <3>2
  <2>4. g \in Nat
    BY DEF SweptRings
  <2>5. QED
    BY <1>1, <2>1, <2>3, <2>4 DEF SweptSoFar
<1>4. QED
  BY <1>2, <1>3

\* The sweep begins with every pointer where it was and exactly the live boxes marked.
LEMMA SweepStarts ==
    ASSUME Given, NEW p, MarkInv(p), first = Original.next[FreeHead],
           RootDone, ~(root < Len(Root))
    PROVE  \E L : SweepInv(L, 0, 0)'
<1>1. /\ UNCHANGED <<owner, target, chain, first, counted, heap, codep, tag, root>>
      /\ heap.next[current] = head /\ head = Root[root] /\ phase' = "sweep"
      /\ head' = chain /\ current' = Null
  BY DEF RootDone, Marking
<1>2. root = Len(Root) /\ chain = Box[1] /\ counted = 0 /\ 0 \in 0 .. Len(Box) /\ 0 < Len(Box)
  BY Places DEF MarkInv
<1>3. heap = Original /\ codep = OriginalCodep
  BY <1>1, BackAtRoot
<1>4. \A b \in Boxes : tag[b] = IF b \in Reachable THEN "marked" ELSE "O"
  BY <1>1, <1>2, MarksAreExact
<1>5. /\ Original' = Original /\ OriginalTag' = OriginalTag /\ Reachable' = Reachable
      /\ \A c : HeadOf(c)' = HeadOf(c)
  BY <1>1, Remembered
<1>6. \A j \in 1 .. Len(Box) : Box[j] \in Boxes /\ 0 < j
  BY Places, SMTT(60)
<1>7. SweptTags(0)'
  BY <1>1, <1>4, <1>5, <1>6 DEF SweptTags, MarkInv, Tags
<1>8. SweptChain(0)'
  <2>1. codep \in [Cell -> Cell \cup {Null}] /\ \A c \in Symbol : codep[c] = target[c]
    BY <1>3, CodepIs
  <2>2. \A j \in 0 + 1 .. Len(Box) : codep[Box[j]] = Upcoming(j)
    BY <1>3, CodepIs, Places DEF Upcoming
  <2>3. NoneKept(1, 0)' /\ NoneKept(0 + 1, 0)'
    BY DEF NoneKept
  <2>4. Upcoming(0) = Box[1] /\ Pointer(0)' = chain
    BY <1>1, <1>2 DEF Upcoming, Pointer
  <2>5. \A j \in 0 .. 0 : j = 0
    OBVIOUS
  <2>6. /\ Upcoming(0)' = Upcoming(0) /\ \A j : Upcoming(j)' = Upcoming(j)
    BY DEF Upcoming
  <2>7. \A j \in 0 .. 0 : Pointer(j)' = Upcoming(0)' /\ NoneKept(j + 1, 0)'
    BY <1>2, <2>3, <2>4, <2>5, <2>6
  <2>8. QED
    BY <1>1, <2>1, <2>2, <2>3, <2>6, <2>7 DEF SweptChain
<1>9. PICK L : /\ Laid(Original.next, L, Heads, Cell)
               /\ \A h \in Heads : ListOf(Original.next, h, L[h])
  BY LaidOut
<1>10. SweptRings(L, 0, 0)'
  <2>1. Collected(0) = {} /\ Collected(0)' = {}
    BY <1>2, CollectedIs DEF Collected
  <2>2. Laid(heap.next, L, Heads \ Collected(0), Cell)
    BY <1>3, <1>9, <2>1
  <2>3. /\ FreeHead \in Heads
        /\ Len(L[FreeHead]) \in Nat \ {0} /\ L[FreeHead][1] = FreeHead
        /\ IsRing(heap.next, L[FreeHead])
    BY <1>2, <2>1, <2>2, FreeListIs
  <2>4. first = Around(L[FreeHead], 0 + 2)
    <3>1. 1 \in 1 .. Len(L[FreeHead]) /\ 1 + 1 = 0 + 2
      BY <2>3
    <3>2. heap.next[L[FreeHead][1]] = Around(L[FreeHead], 1 + 1)
      BY <2>3, <3>1, AroundIs
    <3>3. QED
      BY <1>3, <2>3, <3>1, <3>2
  <2>5. \A h \in Heads : \A i \in 1 .. Len(L[h]) : HeadOf(L[h][i]) = h
    BY <1>9 DEF ListOf
  <2>6. heap \in Heap /\ DoublyLinked(heap)
    BY <1>3, OriginalIs
  <2>7. 0 \in Nat /\ 0 < Len(L[FreeHead]) /\ \A i \in 2 .. 0 + 1 : FALSE
    BY <2>3
  <2>8. Laid(heap.next, L, Heads \ Collected(0), Cell)'
    BY <1>1, <2>1, <2>2
  <2>9. DoublyLinked(heap)'
    BY <1>1, <2>6
  <2>10. QED
    BY <1>1, <1>3, <1>5, <2>1, <2>3, <2>4, <2>5, <2>6, <2>7, <2>8, <2>9 DEF SweptRings
<1>11. SweptSoFar(L, 0, 0)'
  <2>1. 0 + 1 = 1
    OBVIOUS
  <2>2. QED
    BY <1>1, <1>2, <2>1 DEF SweptSoFar
<1>12. QED
  BY <1>7, <1>8, <1>10, <1>11 DEF SweepInv

\* A box that is kept stays where it is, and the chain goes on behind it.
LEMMA KeepSweeps ==
    ASSUME Given, NEW L, NEW g, NEW k, SweepInv(L, g, k), Keep
    PROVE  SweepInv(L, g, k + 1)'
<1> DEFINE m == Len(Box)
<1>1. /\ phase = "sweep" /\ tag[head] # "O" /\ tag' = [tag EXCEPT ![head] = "O"]
      /\ current' = head /\ UNCHANGED <<owner, target, heap, codep, root, chain, first, counted>>
      /\ Onward(codep[head])
  BY DEF Keep
<1>2. /\ m \in Nat \ {0} /\ k \in 0 .. m /\ k < m /\ k \in 0 .. m - 1 /\ k + 1 \in 1 .. m
      /\ k + 1 \in 0 .. m /\ k \in Nat /\ head = Box[k + 1] /\ counted = 0
      /\ \A j \in 0 .. k + 1 : j = k + 1 \/ j \in 0 .. k
  BY <1>1, Places, SMTT(60) DEF SweepInv, SweptSoFar
<1>3. /\ Original' = Original /\ OriginalTag' = OriginalTag /\ Reachable' = Reachable
      /\ (\A c : HeadOf(c)' = HeadOf(c)) /\ (\A j : Upcoming(j)' = Upcoming(j))
      /\ (\A j : Pointer(j)' = Pointer(j)) /\ (\A i, j : NoneKept(i, j)' = NoneKept(i, j))
      /\ (\A j : Collected(j)' = Collected(j))
  <2>1. /\ Original' = Original /\ OriginalTag' = OriginalTag /\ Reachable' = Reachable
        /\ \A c : HeadOf(c)' = HeadOf(c)
    BY <1>1, Remembered
  <2>2. QED
    BY <1>1, <2>1 DEF Upcoming, Pointer, NoneKept, Collected
<1>4. head \in Reachable /\ head \in Boxes /\ head \in Cell
  BY <1>1, <1>2, Places, SMTT(60) DEF SweepInv, SweptTags, Heads
<1>5. Collected(k + 1) = Collected(k)
  <2>1. Collected(k + 1) = Collected(k) \cup ({Box[k + 1]} \ Reachable)
    BY <1>2, CollectedIs
  <2>2. QED
    BY <1>2, <1>4, <2>1
<1>6. SweptTags(k + 1)'
  <2>1. /\ tag \in [Cell -> {"R", "O", "marked"}] /\ \A c \in Cell \ Boxes : tag[c] = OriginalTag[c]
        /\ \A j \in 1 .. m : tag[Box[j]] = IF k < j /\ Box[j] \in Reachable THEN "marked" ELSE "O"
    BY DEF SweepInv, SweptTags
  <2>2. /\ tag' \in [Cell -> {"R", "O", "marked"}] /\ tag'[head] = "O"
        /\ \A c \in Cell \ {head} : tag'[c] = tag[c]
    BY <1>1, <1>4, <2>1
  <2>3. ASSUME NEW j \in 1 .. m
        PROVE  tag'[Box[j]] = IF k + 1 < j /\ Box[j] \in Reachable THEN "marked" ELSE "O"
    <3>1. CASE j = k + 1
      BY <1>2, <2>2, <3>1
    <3>2. CASE j # k + 1
      <4>1. Box[j] # Box[k + 1] /\ Box[j] \in Cell
        BY <1>2, <3>2, Places DEF Heads
      <4>3. k < j <=> k + 1 < j
        BY <1>2, <3>2
      <4>2. QED
        BY <1>2, <2>1, <2>2, <4>1, <4>3
    <3>3. QED
      BY <3>1, <3>2
  <2>4. \A c \in Cell \ Boxes : tag'[c] = OriginalTag[c]
    BY <1>4, <2>1, <2>2
  <2>5. QED
    BY <1>3, <2>2, <2>3, <2>4 DEF SweptTags
<1>7. SweptChain(k + 1)'
  <2>1. /\ codep \in [Cell -> Cell \cup {Null}] /\ \A c \in Symbol : codep[c] = target[c]
        /\ \A j \in k + 1 .. m : codep[Box[j]] = Upcoming(j)
    BY DEF SweepInv, SweptChain
  <2>2. \A i, j : j < i /\ i \in Int /\ j \in Int => NoneKept(i, j)
    BY DEF NoneKept
  <2>3. NoneKept((k + 1) + 1, k + 1)
    BY <1>2, <2>2
  <2>4. \E j \in 1 .. k + 1 : current' = Box[j] /\ Box[j] \in Reachable /\ NoneKept(j + 1, k + 1)
    BY <1>1, <1>2, <1>4, <2>3
  <2>5. \A j \in (k + 1) + 1 .. m : codep[Box[j]] = Upcoming(j)
    BY <1>2, <2>1
  <2>6. ASSUME NEW j \in 0 .. k + 1, j = 0 \/ Box[j] \in Reachable
        PROVE  \/ Pointer(j) = Upcoming(k + 1) /\ NoneKept(j + 1, k + 1)
               \/ \E i \in j + 1 .. k + 1 : /\ Pointer(j) = Box[i] /\ Box[i] \in Reachable
                                            /\ NoneKept(j + 1, i - 1)
    <3>1. CASE j = k + 1
      <4>1. Pointer(j) = Upcoming(k + 1)
        BY <1>2, <2>1, <3>1 DEF Pointer
      <4>2. QED
        BY <2>3, <3>1, <4>1
    <3>2. CASE j \in 0 .. k
      <4>1. \/ Pointer(j) = Upcoming(k) /\ NoneKept(j + 1, k)
            \/ \E i \in j + 1 .. k : /\ Pointer(j) = Box[i] /\ Box[i] \in Reachable
                                     /\ NoneKept(j + 1, i - 1)
        BY <2>6, <3>2 DEF SweepInv, SweptChain
      <4>2. \A i \in j + 1 .. k : i \in j + 1 .. k + 1
        BY <1>2, <3>2
      <4>3. k + 1 \in j + 1 .. k + 1 /\ (k + 1) - 1 = k /\ Upcoming(k) = Box[k + 1]
        BY <1>2, <3>2 DEF Upcoming
      <4>4. QED
        BY <1>2, <1>4, <4>1, <4>2, <4>3
    <3>3. QED
      BY <1>2, <3>1, <3>2
  <2>7. QED
    BY <1>1, <1>3, <2>1, <2>4, <2>5, <2>6 DEF SweptChain
<1>8. SweptRings(L, g, k + 1)'
  BY <1>1, <1>3, <1>5 DEF SweepInv, SweptRings, DoublyLinked
<1>9. SweptSoFar(L, g, k + 1)'
  <2>1. codep[head] = Upcoming(k + 1)
    <3>1. k + 1 \in k + 1 .. m
      BY <1>2
    <3>2. QED
      BY <1>2, <3>1 DEF SweepInv, SweptChain
  <2>2. Onward(Upcoming(k + 1)) /\ counted' = 0
    BY <1>1, <1>2, <2>1
  <2>3. QED
    BY <1>1, <1>2, <1>8, <2>2, OnwardIs
<1>10. QED
  BY <1>6, <1>7, <1>8, <1>9 DEF SweepInv

\* j is the heap h after the ring of b went behind f, the head of another.
Taken(h, L, H, f, b, j) ==
    /\ j \in Heap /\ DoublyLinked(j)
    /\ Laid(j.next, AfterJoin(L, H, f, 1, b), H \ {b}, Cell)
    /\ h.previous[b] = L[b][Len(L[b])] /\ h.next[f] = Around(L[f], 2)
    /\ \A c \in Cell \ {f, h.previous[b]} : j.next[c] = h.next[c]
    /\ \A c \in Cell \ {b, h.next[f]} : j.previous[c] = h.previous[c]

\* Taking a ring in behind a head joins two rings, at the second end of the other.
LEMMA TakenIn ==
    ASSUME NEW h \in Heap, DoublyLinked(h), NEW H \in SUBSET Cell, NEW L,
           Laid(h.next, L, H, Cell), NEW f \in H, NEW b \in H \ {f},
           NEW j, j = Link(Link(h, h.previous[b], h.next[f]), f, b)
    PROVE  Taken(h, L, H, f, b, j)
<1>1. /\ L[f] \in Seq(Cell) /\ L[b] \in Seq(Cell) /\ IsRing(h.next, L[f]) /\ IsRing(h.next, L[b])
      /\ L[f][1] = f /\ L[b][1] = b
  BY DEF Laid
<1>2. Len(L[f]) \in Nat \ {0} /\ Len(L[b]) \in Nat \ {0}
  BY <1>1 DEF IsRing
<1>3. h.previous[b] = L[b][Len(L[b])]
  <2>1. Beside(h, L[b])
    BY Neighbours
  <2>2. QED
    BY <1>1, <2>1 DEF Beside
<1>4. h.next[f] = Around(L[f], 2)
  <2>1. 1 \in 1 .. Len(L[f]) /\ 1 + 1 = 2
    BY <1>2
  <2>2. h.next[L[f][1]] = Around(L[f], 1 + 1)
    BY <1>1, <1>2, <2>1, AroundIs
  <2>3. QED
    BY <1>1, <2>1, <2>2
<1>5. h.previous[b] # f /\ h.next[f] # b
  <2>1. 1 \in 1 .. Len(L[f]) /\ 1 \in 1 .. Len(L[b]) /\ Len(L[b]) \in 1 .. Len(L[b])
        /\ (2 <= Len(L[f]) => 2 \in 1 .. Len(L[f]))
    BY <1>2
  <2>2. \A i \in 1 .. Len(L[f]), k \in 1 .. Len(L[b]) : L[f][i] # L[b][k]
    BY DEF Laid
  <2>3. QED
    BY <1>1, <1>3, <1>4, <2>1, <2>2 DEF Around
<1>6. /\ h.next \in [Cell -> Cell] /\ h.previous \in [Cell -> Cell] /\ f \in Cell /\ b \in Cell
      /\ h.previous[b] \in Cell /\ h.next[f] \in Cell
  BY DEF Heap
<1>7. /\ j.next = [[h.next EXCEPT ![h.previous[b]] = h.next[f]] EXCEPT ![f] = b]
      /\ j.previous = [[h.previous EXCEPT ![h.next[f]] = h.previous[b]] EXCEPT ![b] = f]
  BY DEF Link
<1>8. j.next = Exchanged(h.next, L[f][1], L[b][Len(L[b])])
  <2>1. h.next[h.previous[b]] = b
    BY <1>6 DEF DoublyLinked
  <2>2. Exchanged(h.next, f, h.previous[b])
          = [[h.next EXCEPT ![f] = b] EXCEPT ![h.previous[b]] = h.next[f]]
    BY <1>5, <1>6, <2>1 DEF Exchanged
  <2>3. QED
    BY <1>1, <1>3, <1>5, <1>6, <1>7, <2>2
<1>9. Laid(j.next, AfterJoin(L, H, f, 1, b), H \ {b}, Cell)
  <2>1. 1 \in 1 .. Len(L[f]) /\ Cell \in SUBSET Cell
    BY <1>2
  <2>2. Laid(Exchanged(h.next, L[f][1], L[b][Len(L[b])]), AfterJoin(L, H, f, 1, b), H \ {b}, Cell)
    BY <1>6, <2>1, JoinRings
  <2>3. QED
    BY <1>8, <2>2
<1>10. j = JoinRing(h, h.next[f], b)
  <2>1. h.previous[h.next[f]] = f
    BY <1>6 DEF DoublyLinked
  <2>2. JoinRing(h, h.next[f], b)
         = [next |-> [[h.next EXCEPT ![f] = b] EXCEPT ![h.previous[b]] = h.next[f]],
            previous |-> [[h.previous EXCEPT ![b] = f] EXCEPT ![h.next[f]] = h.previous[b]]]
    BY <2>1 DEF JoinRing, Link
  <2>3. /\ [[h.next EXCEPT ![f] = b] EXCEPT ![h.previous[b]] = h.next[f]]
              = [[h.next EXCEPT ![h.previous[b]] = h.next[f]] EXCEPT ![f] = b]
        /\ [[h.previous EXCEPT ![b] = f] EXCEPT ![h.next[f]] = h.previous[b]]
              = [[h.previous EXCEPT ![h.next[f]] = h.previous[b]] EXCEPT ![b] = f]
    BY <1>5, <1>6
  <2>4. j = [next |-> j.next, previous |-> j.previous]
    BY DEF Link
  <2>5. QED
    BY <1>7, <2>2, <2>3, <2>4
<1>11. j \in Heap /\ DoublyLinked(j)
  <2>1. Good(h, Cell)
    BY DEF Good
  <2>2. Good(JoinRing(h, h.next[f], b), Cell)
    BY <1>5, <1>6, <2>1, JoinRingGood
  <2>3. QED
    BY <1>10, <2>2 DEF Good
<1>12. QED
  BY <1>3, <1>4, <1>6, <1>7, <1>9, <1>11 DEF Taken

\* The ring of a box behind the head of the free list: the cells collected come first,
\* those that were free at the call behind them.
LEMMA FreeListGrows ==
    ASSUME Given, NEW L, NEW g, NEW k, SweepInv(L, g, k), Unchain,
           NEW M, M = AfterJoin(L, Heads \ Collected(k), FreeHead, 1, head),
           NEW d, d = g + Len(L[head])
    PROVE  SweptRings(M, d, k + 1)'
<1> DEFINE F == FreeHead
           H == Heads \ Collected(k)
<1>1. PICK b : b = head
  OBVIOUS
<1>2. /\ phase = "sweep" /\ tag[b] = "O"
      /\ heap' = Link(Link(heap, heap.previous[b], heap.next[FreeHead]), FreeHead, b)
      /\ UNCHANGED <<owner, target, tag, root, current, first, counted>>
  BY <1>1 DEF Unchain
<1>3. /\ k \in 0 .. Len(Box) /\ k < Len(Box) /\ k + 1 \in 1 .. Len(Box) /\ b = Box[k + 1]
      /\ k + 1 \in 0 .. Len(Box)
  BY <1>1, <1>2, Places DEF SweepInv, SweptSoFar
<1>4. b \notin Reachable
  <2>1. k < k + 1
    BY <1>3
  <2>2. QED
    BY <1>2, <1>3, <2>1 DEF SweepInv, SweptTags
<1>5. /\ b \in Boxes /\ b \in H \ {F} /\ b \in Cell /\ F \in H /\ H \in SUBSET Cell
      /\ Collected(k + 1) = Collected(k) \cup {b} /\ H \ {b} = Heads \ Collected(k + 1)
      /\ F \notin Collected(k + 1) /\ Collected(k) \subseteq Boxes
  <2>1. /\ b \in Boxes /\ b \notin Collected(k)
        /\ Collected(k + 1) = Collected(k) \cup ({b} \ Reachable)
        /\ F \in H /\ Collected(k) \subseteq Boxes \ Reachable
    BY <1>3, CollectedIs
  <2>2. Collected(k + 1) = Collected(k) \cup {b}
    BY <1>4, <2>1
  <2>3. QED
    BY <2>1, <2>2, Kinds DEF Heads
<1> DEFINE P == L[F]
           Q == L[b]
<1>6. /\ heap \in Heap /\ DoublyLinked(heap) /\ Laid(heap.next, L, H, Cell)
      /\ g \in Nat /\ g < Len(P) /\ first = Around(P, g + 2)
      /\ \A h \in Heads \ (Collected(k) \cup {F}) : \A i \in 1 .. Len(L[h]) : HeadOf(L[h][i]) = h
      /\ \A i \in 2 .. g + 1 : HeadOf(P[i]) \in Collected(k)
      /\ \A i \in 1 .. Len(P) : i = 1 \/ i > g + 1 => HeadOf(P[i]) = F
      /\ \A c \in Cell : HeadOf(c) \notin {F} \cup Collected(k) =>
            heap.next[c] = Original.next[c] /\ heap.previous[c] = Original.previous[c]
  BY DEF SweepInv, SweptRings
<1>7. M = AfterJoin(L, H, F, 1, b)
  BY <1>1
<1> HIDE DEF H
<1>8. /\ heap' \in Heap /\ DoublyLinked(heap')
      /\ Laid(heap'.next, M, H \ {b}, Cell)
      /\ heap.previous[b] = Q[Len(Q)] /\ heap.next[F] = Around(P, 2)
      /\ \A c \in Cell \ {F, heap.previous[b]} : heap'.next[c] = heap.next[c]
      /\ \A c \in Cell \ {b, heap.next[F]} : heap'.previous[c] = heap.previous[c]
  <2>1. PICK j : j = heap'
    OBVIOUS
  <2>2. /\ j \in Heap /\ DoublyLinked(j)
        /\ Laid(j.next, AfterJoin(L, H, F, 1, b), H \ {b}, Cell)
        /\ heap.previous[b] = L[b][Len(L[b])] /\ heap.next[F] = Around(L[F], 2)
        /\ \A c \in Cell \ {F, heap.previous[b]} : j.next[c] = heap.next[c]
        /\ \A c \in Cell \ {b, heap.next[F]} : j.previous[c] = heap.previous[c]
    <3>1. j = Link(Link(heap, heap.previous[b], heap.next[F]), F, b)
      BY <1>2, <2>1
    <3>2. heap \in Heap /\ DoublyLinked(heap) /\ Laid(heap.next, L, H, Cell)
      BY <1>6
    <3>3. H \in SUBSET Cell /\ F \in H /\ b \in H \ {F}
      BY <1>5
    <3> HIDE DEF F, P, Q
    <3>4. Taken(heap, L, H, F, b, j)
      BY <3>1, <3>2, <3>3, TakenIn
    <3>5. QED
      BY <3>4 DEF Taken
  <2>3. QED
    BY <1>7, <2>1, <2>2
<1>9. /\ P \in Seq(Cell) /\ Len(P) \in Nat \ {0} /\ P[1] = F
      /\ Q \in Seq(Cell) /\ Len(Q) \in Nat \ {0} /\ Q[1] = b
  <2>1. P \in Seq(Cell) /\ IsRing(heap.next, P) /\ P[1] = F
        /\ Q \in Seq(Cell) /\ IsRing(heap.next, Q) /\ Q[1] = b
    BY <1>5, <1>6 DEF Laid
  <2>2. QED
    BY <2>1 DEF IsRing
<1>10. M[F] = Inserted(P, 1, Q) /\ \A h \in H \ {b, F} : M[h] = L[h]
  BY <1>5, <1>7 DEF AfterJoin
<1> DEFINE R == M[F]
           q == Len(Q)
<1>11. /\ Len(R) = Len(P) + q /\ R[1] = F
       /\ \A i \in 2 .. q + 1 : i - 1 \in 1 .. q /\ R[i] = Q[i - 1]
       /\ \A i \in q + 2 .. Len(P) + q : i - q \in 2 .. Len(P) /\ R[i] = P[i - q]
  <2> HIDE DEF P, Q
  <2>1. /\ Len(Inserted(P, 1, Q)) = Len(P) + Len(Q)
        /\ \A i \in 1 .. 1 : Inserted(P, 1, Q)[i] = P[i]
        /\ \A i \in 1 + 1 .. 1 + Len(Q) : Inserted(P, 1, Q)[i] = Q[i - 1]
        /\ \A i \in 1 + Len(Q) + 1 .. Len(P) + Len(Q) : Inserted(P, 1, Q)[i] = P[i - Len(Q)]
    <3>1. 1 \in 1 .. Len(P)
      BY <1>9
    <3>2. QED
      BY <1>9, <3>1, InsertedIs
  <2>2. 1 + 1 = 2 /\ 1 + q = q + 1 /\ 1 + q + 1 = q + 2 /\ 1 \in 1 .. 1
    BY <1>9
  <2>3. /\ \A i \in 2 .. q + 1 : i - 1 \in 1 .. q
        /\ \A i \in q + 2 .. Len(P) + q : i - q \in 2 .. Len(P)
    BY <1>9
  <2>4. QED
    BY <1>9, <1>10, <2>1, <2>2, <2>3
<1>12. \A i \in 1 .. q : HeadOf(Q[i]) = b
  BY <1>5, <1>6 DEF H
<1>13. d \in Nat /\ d = g + q /\ d < Len(R)
  <2>1. d = g + q /\ q \in Nat \ {0} /\ Len(P) \in Nat /\ g \in Nat /\ g < Len(P)
    BY <1>1, <1>6, <1>9
  <2>2. Len(R) = Len(P) + q
    BY <1>11
  <2> HIDE DEF P, Q, R, q
  <2>3. QED
    BY <2>1, <2>2
<1> HIDE DEF P, Q, R, q
<1>14. \A i \in 2 .. d + 1 : HeadOf(R[i]) \in Collected(k) \cup {b}
  <2>1. ASSUME NEW i \in 2 .. d + 1 PROVE HeadOf(R[i]) \in Collected(k) \cup {b}
    <3>1. CASE i <= q + 1
      <4>1. i \in 2 .. q + 1
        BY <1>9, <3>1 DEF q
      <4>2. QED
        BY <1>11, <1>12, <4>1
    <3>2. CASE ~(i <= q + 1)
      <4>1. i \in q + 2 .. Len(P) + q /\ i - q \in 2 .. g + 1
        BY <1>6, <1>9, <1>13, <3>2 DEF q
      <4>2. QED
        BY <1>6, <1>11, <4>1
    <3>3. QED
      BY <3>1, <3>2
  <2>2. QED
    BY <2>1
<1>15. \A i \in 1 .. Len(R) : i = 1 \/ i > d + 1 => HeadOf(R[i]) = F
  <2>1. ASSUME NEW i \in 1 .. Len(R), i = 1 \/ i > d + 1 PROVE HeadOf(R[i]) = F
    <3>1. CASE i = 1
      <4>1. 1 \in 1 .. Len(P)
        BY <1>9
      <4>2. QED
        BY <1>6, <1>9, <1>11, <3>1, <4>1
    <3>2. CASE i > d + 1
      <4>1. i \in q + 2 .. Len(P) + q /\ i - q \in 1 .. Len(P) /\ i - q > g + 1
        BY <1>6, <1>9, <1>11, <1>13, <3>2 DEF q
      <4>2. QED
        BY <1>6, <1>11, <4>1
    <3>3. QED
      BY <2>1, <3>1, <3>2
  <2>2. QED
    BY <2>1
<1>16. first = Around(R, d + 2)
  <2>1. CASE g + 2 <= Len(P)
    <3>1. /\ d + 2 <= Len(R) /\ d + 2 \in q + 2 .. Len(P) + q /\ (d + 2) - q = g + 2
      <4>1. q \in Nat \ {0} /\ Len(P) \in Nat /\ g \in Nat /\ d = g + q /\ Len(R) = Len(P) + q
        BY <1>6, <1>9, <1>11, <1>13 DEF q
      <4>2. QED
        BY <2>1, <4>1
    <3>2. QED
      BY <1>6, <1>11, <2>1, <3>1 DEF Around
  <2>2. CASE ~(g + 2 <= Len(P))
    <3>1. ~(d + 2 <= Len(R))
      BY <1>6, <1>9, <1>11, <1>13, <2>2 DEF q
    <3>2. QED
      BY <1>6, <1>9, <1>11, <2>2, <3>1 DEF Around
  <2>3. QED
    BY <2>1, <2>2
<1>17. \A h \in Heads \ ((Collected(k) \cup {b}) \cup {F}) : \A i \in 1 .. Len(M[h]) : HeadOf(M[h][i]) = h
  BY <1>6, <1>10 DEF H
<1>18. ASSUME NEW c \in Cell, HeadOf(c) \notin {F} \cup (Collected(k) \cup {b})
       PROVE  heap'.next[c] = Original.next[c] /\ heap'.previous[c] = Original.previous[c]
  <2>1. HeadOf(F) = F /\ HeadOf(b) = b
    BY <1>5, Places, HeadIs DEF Heads
  <2>2. HeadOf(heap.previous[b]) = b
    <3>1. q \in 1 .. q
      BY <1>9 DEF q
    <3>2. QED
      BY <1>8, <1>12, <3>1 DEF q
  <2>3. HeadOf(heap.next[F]) \in {F} \cup Collected(k)
    <3>1. CASE 2 <= Len(P)
      <4>1. heap.next[F] = P[2] /\ 2 \in 1 .. Len(P) /\ (2 > g + 1 \/ 2 \in 2 .. g + 1)
        BY <1>6, <1>8, <1>9, <3>1 DEF Around
      <4>2. QED
        BY <1>6, <4>1
    <3>2. CASE ~(2 <= Len(P))
      BY <1>8, <1>9, <2>1, <3>2 DEF Around
    <3>3. QED
      BY <3>1, <3>2
  <2>4. c # F /\ c # b /\ c # heap.previous[b] /\ c # heap.next[F]
    BY <1>18, <2>1, <2>2, <2>3
  <2>5. QED
    BY <1>6, <1>8, <1>18, <2>4
<1>19. /\ Original' = Original /\ Reachable' = Reachable /\ Collected(k + 1)' = Collected(k + 1)
       /\ \A c : HeadOf(c)' = HeadOf(c)
  BY <1>2, Remembered DEF Collected
<1>20. Laid(heap'.next, M, Heads \ Collected(k + 1), Cell)
  BY <1>5, <1>8
<1>21. \A h \in Heads \ (Collected(k + 1) \cup {F}) : \A i \in 1 .. Len(M[h]) : HeadOf(M[h][i]) = h
  BY <1>5, <1>17
<1>22. /\ \A i \in 2 .. d + 1 : HeadOf(R[i]) \in Collected(k + 1)
       /\ \A c \in Cell : HeadOf(c) \notin {F} \cup Collected(k + 1) =>
             heap'.next[c] = Original.next[c] /\ heap'.previous[c] = Original.previous[c]
  BY <1>5, <1>14, <1>18
<1>23. DoublyLinked(heap)' /\ first' = first
  BY <1>2, <1>8 DEF DoublyLinked
<1> HIDE DEF F
<1>24. QED
  BY <1>8, <1>13, <1>15, <1>16, <1>19, <1>20, <1>21, <1>22, <1>23 DEF SweptRings, F, R

\* A box without a mark leaves the chain, and its ring goes to the free list.
LEMMA UnchainSweeps ==
    ASSUME Given, NEW L, NEW g, NEW k, SweepInv(L, g, k), Unchain
    PROVE  \E M, d : SweepInv(M, d, k + 1)'
<1> DEFINE m == Len(Box)
<1>1. /\ phase = "sweep" /\ tag[head] = "O"
      /\ IF current = Null
         THEN chain' = codep[head] /\ UNCHANGED codep
         ELSE codep' = [codep EXCEPT ![current] = codep[head]] /\ UNCHANGED chain
      /\ UNCHANGED <<owner, target, tag, root, current, first, counted>>
      /\ Onward(codep[head])
  BY DEF Unchain
<1>2. /\ m \in Nat \ {0} /\ k \in 0 .. m /\ k < m /\ k \in 0 .. m - 1 /\ k + 1 \in 1 .. m
      /\ k + 1 \in 0 .. m /\ k \in Nat /\ head = Box[k + 1] /\ counted = 0
      /\ \A j \in 0 .. k + 1 : j = k + 1 \/ j \in 0 .. k
  BY <1>1, Places DEF SweepInv, SweptSoFar
<1>3. /\ Original' = Original /\ OriginalTag' = OriginalTag /\ Reachable' = Reachable
      /\ (\A c : HeadOf(c)' = HeadOf(c)) /\ (\A j : Upcoming(j)' = Upcoming(j))
      /\ (\A i, j : NoneKept(i, j)' = NoneKept(i, j))
  <2>1. /\ Original' = Original /\ OriginalTag' = OriginalTag /\ Reachable' = Reachable
        /\ \A c : HeadOf(c)' = HeadOf(c)
    BY <1>1, Remembered
  <2>2. QED
    BY <1>1, <2>1 DEF Upcoming, NoneKept
<1>4. Box[k + 1] \notin Reachable /\ \A j \in 1 .. m : Box[j] \in Boxes /\ Box[j] \in Cell /\ Box[j] \notin Symbol
  <2>1. k < k + 1
    BY <1>2
  <2>2. QED
    BY <1>1, <1>2, <2>1, Places, SMTT(60) DEF SweepInv, SweptTags, Heads
<1>5. SweptTags(k + 1)'
  <2>1. /\ tag \in [Cell -> {"R", "O", "marked"}] /\ \A c \in Cell \ Boxes : tag[c] = OriginalTag[c]
        /\ \A j \in 1 .. m : tag[Box[j]] = IF k < j /\ Box[j] \in Reachable THEN "marked" ELSE "O"
    BY DEF SweepInv, SweptTags
  <2>2. ASSUME NEW j \in 1 .. m
        PROVE  tag[Box[j]] = IF k + 1 < j /\ Box[j] \in Reachable THEN "marked" ELSE "O"
    <3>1. CASE j = k + 1
      BY <1>1, <1>2, <3>1
    <3>2. CASE j # k + 1
      <4>1. k < j <=> k + 1 < j
        BY <1>2, <3>2
      <4>2. QED
        BY <2>1, <4>1
    <3>3. QED
      BY <3>1, <3>2
  <2>3. QED
    BY <1>1, <1>3, <2>1, <2>2 DEF SweptTags
<1>6. codep[head] = Upcoming(k + 1)
  <2>1. k + 1 \in k + 1 .. m
    BY <1>2
  <2>2. QED
    BY <1>2, <2>1 DEF SweepInv, SweptChain
<1>7. SweptChain(k + 1)'
  <2>1. /\ codep \in [Cell -> Cell \cup {Null}] /\ \A c \in Symbol : codep[c] = target[c]
        /\ \A j \in k + 1 .. m : codep[Box[j]] = Upcoming(j)
    BY DEF SweepInv, SweptChain
  <2>2. Upcoming(k + 1) \in Cell \cup {Null}
    BY <1>2, <1>4, <1>6, <2>1
  <2>3. ASSUME NEW i \in 1 .. k + 1, NoneKept(i, k) PROVE NoneKept(i, k + 1)
    <3>1. \A x \in i .. k + 1 : x = k + 1 \/ x \in i .. k
      BY <1>2
    <3>2. QED
      BY <1>4, <2>3, <3>1 DEF NoneKept
  \* The place that changes is the last box that was kept.
  <2>4. PICK z \in 0 .. k : /\ z = 0 <=> current = Null
                            /\ z # 0 => current = Box[z] /\ Box[z] \in Reachable
                            /\ NoneKept(z + 1, k)
    <3>1. CASE current = Null /\ NoneKept(1, k)
      <4>1. 0 \in 0 .. k /\ 0 + 1 = 1
        BY <1>2
      <4>2. QED
        BY <3>1, <4>1
    <3>2. CASE \E j \in 1 .. k : current = Box[j] /\ Box[j] \in Reachable /\ NoneKept(j + 1, k)
      <4>1. PICK j \in 1 .. k : current = Box[j] /\ Box[j] \in Reachable /\ NoneKept(j + 1, k)
        BY <3>2
      <4>2. j \in 0 .. k /\ j # 0 /\ j \in 1 .. m
        BY <1>2
      <4>3. Box[j] # Null
        BY <1>4, <4>2, Places
      <4>4. QED
        BY <4>1, <4>2, <4>3
    <3>3. QED
      BY <3>1, <3>2 DEF SweepInv, SweptChain
  <2>5. z \in Nat /\ z \in 0 .. k + 1 /\ z + 1 \in 1 .. k + 1 /\ (z # 0 => z \in 1 .. m)
    BY <1>2
  <2>6. /\ codep' \in [Cell -> Cell \cup {Null}] /\ \A c \in Symbol : codep'[c] = target[c]
        /\ Pointer(z)' = Upcoming(k + 1)
        /\ \A j \in 1 .. m : j # z => codep'[Box[j]] = codep[Box[j]]
        /\ z # 0 => chain' = chain
    <3>1. CASE z = 0
      BY <1>1, <1>6, <2>1, <2>4, <3>1 DEF Pointer
    <3>2. CASE z # 0
      <4>1. /\ codep' = [codep EXCEPT ![Box[z]] = Upcoming(k + 1)] /\ chain' = chain
            /\ Box[z] \in Cell /\ Box[z] \notin Symbol
        BY <1>1, <1>4, <1>6, <2>4, <2>5, <3>2
      <4>2. \A j \in 1 .. m : j # z => Box[j] # Box[z]
        BY <2>5, <3>2, Places
      <4>3. /\ codep' \in [Cell -> Cell \cup {Null}] /\ codep'[Box[z]] = Upcoming(k + 1)
            /\ \A c \in Cell \ {Box[z]} : codep'[c] = codep[c]
        BY <2>1, <2>2, <4>1
      <4>4. Pointer(z)' = codep'[Box[z]]
        BY <3>2 DEF Pointer
      <4>5. \A c \in Symbol : c \in Cell
        BY Places
      <4>6. QED
        BY <1>4, <2>1, <4>1, <4>2, <4>3, <4>4, <4>5
    <3>3. QED
      BY <3>1, <3>2
  <2>7. \A j \in 0 .. k : j # z => Pointer(j)' = Pointer(j)
    <3>1. \A j \in 0 .. k : j = 0 \/ j \in 1 .. m
      BY <1>2
    <3>2. QED
      BY <2>6, <3>1 DEF Pointer
  <2>8. \A j \in (k + 1) + 1 .. m : codep'[Box[j]] = Upcoming(j)
    <3>1. \A j \in (k + 1) + 1 .. m : j \in 1 .. m /\ j \in k + 1 .. m /\ j # z
      BY <1>2, <2>5
    <3>2. QED
      BY <2>1, <2>6, <3>1
  <2>9. ASSUME NEW j \in 0 .. k + 1, j = 0 \/ Box[j] \in Reachable
        PROVE  \/ Pointer(j)' = Upcoming(k + 1) /\ NoneKept(j + 1, k + 1)
               \/ \E i \in j + 1 .. k + 1 : /\ Pointer(j)' = Box[i] /\ Box[i] \in Reachable
                                            /\ NoneKept(j + 1, i - 1)
    <3>1. j \in 0 .. k
      BY <1>2, <1>4, <2>9
    <3>2. CASE j = z
      BY <2>3, <2>4, <2>5, <2>6, <3>2
    <3>3. CASE j # z
      <4>1. \/ Pointer(j) = Upcoming(k) /\ NoneKept(j + 1, k)
            \/ \E i \in j + 1 .. k : /\ Pointer(j) = Box[i] /\ Box[i] \in Reachable
                                     /\ NoneKept(j + 1, i - 1)
        BY <2>9, <3>1 DEF SweepInv, SweptChain
      <4>2. ~NoneKept(j + 1, k)
        <5>1. SUFFICES ASSUME NoneKept(j + 1, k) PROVE FALSE
          OBVIOUS
        <5>2. CASE j < z
          <6>1. z \in j + 1 .. k /\ z # 0
            BY <2>5, <3>1, <5>2
          <6>2. QED
            BY <2>4, <5>1, <6>1 DEF NoneKept
        <5>3. CASE z < j
          <6>1. j \in z + 1 .. k /\ j # 0
            BY <2>5, <3>1, <5>3
          <6>2. QED
            BY <2>4, <2>9, <6>1 DEF NoneKept
        <5>4. j < z \/ z < j
          BY <2>5, <3>1, <3>3
        <5>5. QED
          BY <5>2, <5>3, <5>4
      <4>3. \A i \in j + 1 .. k : i \in j + 1 .. k + 1
        BY <1>2, <3>1
      <4>4. QED
        BY <2>7, <3>1, <3>3, <4>1, <4>2, <4>3
    <3>4. QED
      BY <3>2, <3>3
  <2>10. \/ current' = Null /\ NoneKept(1, k + 1)
         \/ \E j \in 1 .. k + 1 : current' = Box[j] /\ Box[j] \in Reachable /\ NoneKept(j + 1, k + 1)
    <3>1. NoneKept(z + 1, k + 1) /\ (z = 0 => z + 1 = 1) /\ (z # 0 => z \in 1 .. k + 1)
      BY <2>3, <2>4, <2>5
    <3>2. QED
      BY <1>1, <2>4, <3>1
  <2>11. QED
    BY <1>1, <1>3, <2>6, <2>8, <2>9, <2>10 DEF SweptChain
<1>8. PICK M, d : /\ M = AfterJoin(L, Heads \ Collected(k), FreeHead, 1, head)
                  /\ d = g + Len(L[head])
  OBVIOUS
<1>9. SweptRings(M, d, k + 1)'
  BY <1>8, FreeListGrows
<1>10. SweptSoFar(M, d, k + 1)'
  BY <1>1, <1>2, <1>6, <1>9, OnwardIs
<1>11. QED
  BY <1>5, <1>7, <1>9, <1>10 DEF SweepInv

\* The count goes around the free list as far as the cells that were free at the call.
LEMMA CountSweeps ==
    ASSUME Given, NEW L, NEW g, NEW k, SweepInv(L, g, k), Count
    PROVE  SweepInv(L, g, k)'
<1> DEFINE P == L[FreeHead]
<1>1. /\ phase = "count" /\ UNCHANGED <<owner, target, heap, codep, tag, root, current, chain, first>>
      /\ IF head # first /\ counted # FreeCount
         THEN counted' = counted + 1 /\ head' = heap.next[head] /\ UNCHANGED phase
         ELSE phase' = "done" /\ UNCHANGED <<counted, head>>
  BY DEF Count
<1>2. /\ k = Len(Box) /\ k \in 0 .. Len(Box) /\ counted \in 0 .. g /\ counted <= FreeCount
      /\ head = Around(P, counted + 2) /\ FreeCount \in Nat
  BY <1>1, CollectorAssumption DEF SweepInv, SweptSoFar
<1>3. /\ heap \in Heap /\ Laid(heap.next, L, Heads \ Collected(k), Cell)
      /\ g \in Nat /\ g < Len(P) /\ first = Around(P, g + 2)
  BY DEF SweepInv, SweptRings
<1>4. /\ Len(P) \in Nat \ {0} /\ IsRing(heap.next, P)
      /\ \A i, j \in 1 .. Len(P) : P[i] = P[j] => i = j
  BY <1>2, <1>3, FreeListIs
<1> HIDE DEF P
<1>5. counted = g => head = first
  BY <1>2, <1>3
<1>6. ASSUME counted # g
      PROVE  head # first /\ head = P[counted + 2] /\ counted + 2 \in 1 .. Len(P)
  <2>1. counted + 2 \in 1 .. Len(P) /\ counted + 2 <= Len(P) /\ 1 \in 1 .. Len(P)
        /\ counted + 2 # 1 /\ counted + 2 # g + 2
    BY <1>2, <1>3, <1>4, <1>6
  <2>2. CASE g + 2 <= Len(P)
    <3>1. first = P[g + 2] /\ g + 2 \in 1 .. Len(P)
      BY <1>3, <2>2 DEF Around
    <3>2. QED
      BY <1>2, <1>4, <2>1, <3>1 DEF Around
  <2>3. CASE ~(g + 2 <= Len(P))
    <3>1. first = P[1]
      BY <1>3, <2>3 DEF Around
    <3>2. QED
      BY <1>2, <1>4, <2>1, <3>1 DEF Around
  <2>4. QED
    BY <2>2, <2>3
<1>7. /\ Original' = Original /\ OriginalTag' = OriginalTag /\ Reachable' = Reachable
      /\ (\A c : HeadOf(c)' = HeadOf(c)) /\ (\A j : Upcoming(j)' = Upcoming(j))
      /\ (\A j : Pointer(j)' = Pointer(j)) /\ (\A i, j : NoneKept(i, j)' = NoneKept(i, j))
      /\ (\A j : Collected(j)' = Collected(j))
  <2>1. /\ Original' = Original /\ OriginalTag' = OriginalTag /\ Reachable' = Reachable
        /\ \A c : HeadOf(c)' = HeadOf(c)
    BY <1>1, Remembered
  <2>2. QED
    BY <1>1, <2>1 DEF Upcoming, Pointer, NoneKept, Collected
<1>8. SweptTags(k)' /\ SweptChain(k)'
  BY <1>1, <1>7 DEF SweepInv, SweptTags, SweptChain
<1>9. SweptRings(L, g, k)'
  BY <1>1, <1>7 DEF SweepInv, SweptRings, DoublyLinked
<1>10. SweptSoFar(L, g, k)'
  <2>1. CASE head # first /\ counted # FreeCount
    <3>1. /\ counted' = counted + 1 /\ head' = heap.next[P[counted + 2]] /\ phase' = "count"
          /\ counted + 2 \in 1 .. Len(P) /\ counted # g
      BY <1>1, <1>5, <1>6, <2>1
    <3>2. heap.next[P[counted + 2]] = Around(P, (counted + 2) + 1)
      BY <1>4, <3>1, AroundIs
    <3>3. (counted + 2) + 1 = (counted + 1) + 2 /\ counted + 1 \in 0 .. g /\ counted + 1 <= FreeCount
      BY <1>2, <1>3, <2>1, <3>1
    <3>4. QED
      BY <1>2, <3>1, <3>2, <3>3 DEF SweptSoFar, P
  <2>2. CASE ~(head # first /\ counted # FreeCount)
    <3>1. phase' = "done" /\ counted' = counted /\ counted \in {g, FreeCount}
      BY <1>1, <1>6, <2>2
    <3>2. QED
      BY <1>2, <3>1 DEF SweptSoFar
  <2>3. QED
    BY <2>1, <2>2
<1>11. QED
  BY <1>8, <1>9, <1>10 DEF SweepInv
-----------------------------------------------------------------------------
(* What the invariant says of the states *)

\* The free list after the sweep: what was free and what was collected, and no more.
LEMMA FreeListHolds ==
    ASSUME Given, NEW L, NEW g, NEW k, SweepInv(L, g, k), phase # "sweep", NEW c \in Cell
    PROVE  /\ HeadOf(c) \in Boxes \ Reachable <=> \E i \in 2 .. g + 1 : L[FreeHead][i] = c
           /\ HeadOf(c) \in {FreeHead} \cup (Boxes \ Reachable)
                 <=> \E i \in 1 .. Len(L[FreeHead]) : L[FreeHead][i] = c
<1> DEFINE P == L[FreeHead]
           H == Heads \ Collected(k)
<1>1. k = Len(Box) /\ k \in 0 .. Len(Box)
  BY DEF SweepInv, SweptSoFar
<1>2. /\ Laid(heap.next, L, H, Cell) /\ g \in Nat /\ g < Len(P)
      /\ \A h \in Heads \ (Collected(k) \cup {FreeHead}) :
            \A i \in 1 .. Len(L[h]) : HeadOf(L[h][i]) = h
      /\ \A i \in 2 .. g + 1 : HeadOf(P[i]) \in Collected(k)
      /\ \A i \in 1 .. Len(P) : i = 1 \/ i > g + 1 => HeadOf(P[i]) = FreeHead
  BY DEF SweepInv, SweptRings
<1>3. Collected(k) = Boxes \ Reachable /\ FreeHead \notin Boxes /\ FreeHead \in H
  BY <1>1, CollectedIs, Places
<1>4. Len(P) \in Nat \ {0} /\ \A i, j \in 1 .. Len(P) : P[i] = P[j] => i = j
  BY <1>1, <1>2, FreeListIs
<1>5. PICK h \in H : \E i \in 1 .. Len(L[h]) : L[h][i] = c
  BY <1>2 DEF Laid
<1> HIDE DEF P
<1>6. \A i \in 1 .. Len(P) : i = 1 \/ i > g + 1 \/ i \in 2 .. g + 1
  BY <1>2, <1>4
<1>7. \A i \in 2 .. g + 1 : i \in 1 .. Len(P)
  BY <1>2, <1>4
<1>8. CASE h # FreeHead
  <2>1. HeadOf(c) = h /\ h \notin Collected(k)
    BY <1>2, <1>5, <1>8
  <2>2. \A i \in 1 .. Len(P) : P[i] # c
    <3>1. ASSUME NEW i \in 1 .. Len(P), P[i] = c PROVE FALSE
      BY <1>2, <1>3, <1>6, <1>8, <2>1, <3>1
    <3>2. QED
      BY <3>1
  <2>3. QED
    BY <1>3, <1>7, <1>8, <2>1, <2>2 DEF P
<1>9. CASE h = FreeHead
  <2>1. PICK i \in 1 .. Len(P) : P[i] = c
    BY <1>5, <1>9 DEF P
  <2>2. \A j \in 1 .. Len(P) : P[j] = c => j = i
    BY <1>4, <2>1
  <2>3. CASE i \in 2 .. g + 1
    BY <1>2, <1>3, <2>1, <2>3 DEF P
  <2>4. CASE i = 1 \/ i > g + 1
    <3>1. HeadOf(c) = FreeHead /\ i \notin 2 .. g + 1
      BY <1>2, <2>1, <2>4
    <3>2. \A j \in 2 .. g + 1 : P[j] # c
      BY <1>7, <2>2, <3>1
    <3>3. QED
      BY <1>3, <2>1, <3>1, <3>2 DEF P
  <2>5. QED
    BY <1>6, <2>3, <2>4
<1>10. QED
  BY <1>8, <1>9

\* The count stops at the number of the cells collected.
LEMMA CountIsGain ==
    ASSUME Given, NEW L, NEW g, NEW k, SweepInv(L, g, k)
    PROVE  GainCounted
<1> DEFINE S == {c \in Cell : HeadOf(c) \in Boxes \ Reachable}
           s == [i \in 1 .. g |-> L[FreeHead][i + 1]]
<1>1. SUFFICES ASSUME phase = "done"
               PROVE  counted = Min({FreeCount, Cardinality(S)})
  BY DEF GainCounted
<1>2. /\ counted \in {g, FreeCount} /\ counted <= FreeCount /\ counted \in 0 .. g
      /\ k \in 0 .. Len(Box) /\ FreeCount \in Nat
  BY <1>1, CollectorAssumption DEF SweepInv, SweptSoFar
<1>3. g \in Nat /\ g < Len(L[FreeHead]) /\ Laid(heap.next, L, Heads \ Collected(k), Cell)
  BY DEF SweepInv, SweptRings
<1>4. /\ L[FreeHead] \in Seq(Cell) /\ Len(L[FreeHead]) \in Nat
      /\ \A i, j \in 1 .. Len(L[FreeHead]) : L[FreeHead][i] = L[FreeHead][j] => i = j
  BY <1>2, <1>3, FreeListIs
<1>5. \A i \in 1 .. g : i + 1 \in 1 .. Len(L[FreeHead]) /\ i + 1 \in 2 .. g + 1
  BY <1>3, <1>4
<1>6. \A i, j \in 1 .. g : s[i] = s[j] => i = j
  BY <1>4, <1>5
<1>7. (\A i \in 1 .. g : s[i] \in S) /\ \A c \in S : \E i \in 1 .. g : s[i] = c
  <2>1. ASSUME NEW c \in S PROVE \E i \in 1 .. g : s[i] = c
    <3>1. PICK i \in 2 .. g + 1 : L[FreeHead][i] = c
      BY <1>1, FreeListHolds
    <3>2. i - 1 \in 1 .. g /\ (i - 1) + 1 = i
      BY <1>3
    <3>3. QED
      BY <3>1, <3>2
  <2>2. ASSUME NEW i \in 1 .. g PROVE s[i] \in S
    <3>1. s[i] \in Cell /\ \E j \in 2 .. g + 1 : L[FreeHead][j] = s[i]
      BY <1>4, <1>5
    <3>2. QED
      BY <1>1, <3>1, FreeListHolds
  <2>3. QED
    BY <2>1, <2>2
<1> HIDE DEF S, s
<1>8. Cardinality(S) = g
  <2>1. g \in Nat
    BY <1>3
  <2>2. QED
    BY <1>6, <1>7, <2>1, Counting
<1>9. counted = Min({FreeCount, g})
  <2>1. counted \in {FreeCount, g} /\ \A y \in {FreeCount, g} : counted <= y
    BY <1>2, <1>3
  <2>2. ASSUME NEW x \in {FreeCount, g}, \A y \in {FreeCount, g} : x <= y PROVE x = counted
    BY <1>2, <1>3, <2>1, <2>2
  <2>3. Min({FreeCount, g}) = CHOOSE x \in {FreeCount, g} : \A y \in {FreeCount, g} : x <= y
    BY DEF Min
  <2>4. QED
    BY <2>1, <2>2, <2>3
<1>10. QED
  BY <1>8, <1>9

\* Every live list is as it was.
LEMMA LiveIsUntouched ==
    ASSUME Given, NEW L, NEW g, NEW k, SweepInv(L, g, k)
    PROVE  LiveUntouched
<1>1. SUFFICES ASSUME NEW c \in Cell, Live(c)
               PROVE  /\ heap.next[c] = Original.next[c] /\ heap.previous[c] = Original.previous[c]
                      /\ c \in Symbol => codep[c] = target[c] /\ tag[c] = OriginalTag[c]
  BY DEF LiveUntouched
<1>2. k \in 0 .. Len(Box)
  BY DEF SweepInv, SweptSoFar
<1>3. HeadOf(c) \notin {FreeHead} \cup Collected(k)
  <2>1. Collected(k) \subseteq Boxes \ Reachable /\ Reachable \subseteq Boxes
    BY <1>2, CollectedIs, ReachableIs
  <2>2. QED
    BY <1>1, <2>1, Places DEF Live
<1>4. c \in Symbol => c \in Cell \ Boxes
  BY Places DEF Heads
<1>5. QED
  BY <1>3, <1>4 DEF SweepInv, SweptRings, SweptChain, SweptTags

\* From any box on, the chain can be followed as far as there are boxes.
LEMMA ChainIs ==
    ASSUME codep \in [Cell -> Cell \cup {Null}], NEW b \in Cell \cup {Null}
    PROVE  \E f : /\ Chain(b) = {f[n] : n \in 0 .. Len(Box)} \ {Null} /\ f[0] = b
                  /\ \A n \in 0 .. Len(Box) - 1 :
                        f[n + 1] = IF f[n] = Null THEN Null ELSE codep[f[n]]
<1> DEFINE m == Len(Box)
           D == Cell \cup {Null}
           step == [c \in D |-> IF c = Null THEN Null ELSE codep[c]]
           Fits(f) == f = [n \in 0 .. m |->
              IF n = 0 THEN b ELSE IF f[n - 1] = Null THEN Null ELSE codep[f[n - 1]]]
           from == CHOOSE f : Fits(f)
<1>1. m \in Nat /\ step \in [D -> D]
  BY Places
<1>2. PICK h : h \in [Nat -> D] /\ h[0] = b /\ \A n \in Nat : h[n + 1] = step[h[n]]
  <2> HIDE DEF step, D
  <2>1. b \in D
    BY DEF D
  <2>2. PICK h : Iteration(h, D, step, b)
    BY <1>1, <2>1, IterationExists
  <2>3. QED
    BY <2>2 DEF Iteration
<1> DEFINE g == [n \in 0 .. m |-> h[n]]
<1>3. Fits(g)
  <2>1. ASSUME NEW n \in 0 .. m, n # 0
        PROVE  g[n] = IF g[n - 1] = Null THEN Null ELSE codep[g[n - 1]]
    <3>1. n - 1 \in 0 .. m /\ n - 1 \in Nat /\ (n - 1) + 1 = n
      BY <1>1, <2>1
    <3>2. g[n] = step[h[n - 1]] /\ h[n - 1] \in D /\ g[n - 1] = h[n - 1]
      BY <1>2, <3>1
    <3>3. QED
      BY <3>2
  <2>2. g[0] = b
    <3>1. 0 \in 0 .. m
      BY <1>1
    <3>2. QED
      BY <1>2, <3>1
  <2>3. g = [n \in 0 .. m |-> g[n]]
    OBVIOUS
  <2> HIDE DEF g
  <2>4. QED
    BY <2>1, <2>2, <2>3
<1>4. Fits(from)
  <2> HIDE DEF Fits
  <2>1. QED
    BY <1>3
<1>5. Chain(b) = {from[n] : n \in 0 .. m} \ {Null}
  BY DEF Chain
<1> HIDE DEF from
<1>6. from[0] = b /\ \A n \in 0 .. m - 1 : from[n + 1] = IF from[n] = Null THEN Null ELSE codep[from[n]]
  <2>1. from[0] = b
    BY <1>1, <1>4
  <2>2. ASSUME NEW n \in 0 .. m - 1
        PROVE  from[n + 1] = IF from[n] = Null THEN Null ELSE codep[from[n]]
    <3>1. n + 1 \in 0 .. m /\ n + 1 # 0 /\ (n + 1) - 1 = n
      BY <1>1
    <3>2. QED
      BY <1>4, <3>1
  <2>3. QED
    BY <2>1, <2>2
<1>7. QED
  BY <1>5, <1>6

\* After the sweep the chain holds the live boxes and no other.
LEMMA ChainIsLive ==
    ASSUME Given, NEW L, NEW g, NEW k, SweepInv(L, g, k), phase # "sweep"
    PROVE  Chain(chain) = Reachable
<1> DEFINE m == Len(Box)
           Kept(j) == j = 0 \/ Box[j] \in Reachable
<1>1. k = m /\ m \in Nat \ {0} /\ Reachable \subseteq Boxes
      /\ \A j \in 1 .. m : Box[j] \in Cell /\ Box[j] # Null
  BY Places, ReachableIs DEF SweepInv, SweptSoFar, Heads
<1>2. /\ codep \in [Cell -> Cell \cup {Null}]
      /\ \A j \in 0 .. m : Kept(j) =>
            \/ Pointer(j) = Null /\ NoneKept(j + 1, m)
            \/ \E i \in j + 1 .. m : /\ Pointer(j) = Box[i] /\ Box[i] \in Reachable
                                     /\ NoneKept(j + 1, i - 1)
  <2>1. Upcoming(m) = Null
    BY <1>1 DEF Upcoming
  <2>2. QED
    BY <1>1, <2>1 DEF SweepInv, SweptChain
<1>3. chain \in Reachable \cup {Null}
  <2>1. 0 \in 0 .. m /\ Pointer(0) = chain /\ Kept(0)
    BY <1>1 DEF Pointer
  <2>2. QED
    BY <1>2, <2>1
<1>4. PICK f : /\ Chain(chain) = {f[n] : n \in 0 .. m} \ {Null} /\ f[0] = chain
               /\ \A n \in 0 .. m - 1 : f[n + 1] = IF f[n] = Null THEN Null ELSE codep[f[n]]
  <2>1. chain \in Cell \cup {Null}
    BY <1>1, <1>3, Places DEF Heads
  <2>2. QED
    BY <1>2, <2>1, ChainIs
<1> HIDE DEF m
<1>5. \A n \in 0 .. m : f[n] \in Reachable \cup {Null}
  <2> DEFINE N == {n \in Nat : n \in 0 .. m => f[n] \in Reachable \cup {Null}}
  <2>1. 0 \in N
    BY <1>3, <1>4
  <2>2. ASSUME NEW n \in Nat, n \in N PROVE n + 1 \in N
    <3>1. SUFFICES ASSUME n + 1 \in 0 .. m, f[n] # Null PROVE f[n + 1] \in Reachable \cup {Null}
      <4>1. n + 1 \in 0 .. m => n \in 0 .. m - 1
        BY <1>1
      <4>2. QED
        BY <1>4, <4>1
    <3>2. n \in 0 .. m /\ n \in 0 .. m - 1
      BY <1>1, <3>1
    <3>3. f[n] \in Reachable /\ f[n + 1] = codep[f[n]]
      BY <1>4, <2>2, <3>1, <3>2
    <3>4. PICK j \in 1 .. m : Box[j] = f[n]
      BY <1>1, <3>3, Places DEF m
    <3>5. j \in 0 .. m /\ Kept(j) /\ Pointer(j) = codep[f[n]]
      BY <1>1, <3>3, <3>4 DEF Pointer
    <3>6. QED
      BY <1>2, <3>3, <3>5
  <2> HIDE DEF N
  <2>3. Nat \subseteq N
    BY <2>1, <2>2, NaturalsInSet
  <2>4. QED
    BY <1>1, <2>3 DEF N
<1>6. \A j \in 1 .. m : Box[j] \in Reachable => \E n \in 0 .. j - 1 : f[n] = Box[j]
  \* Up to the i-th box all that were kept are reached in time.
  <2> DEFINE Timely(j) == Box[j] \in Reachable => \E n \in 0 .. j - 1 : f[n] = Box[j]
             I == {i \in Nat : \A j \in 1 .. m : j <= i => Timely(j)}
  <2>1. 0 \in I
    BY <1>1
  <2>2. ASSUME NEW i \in Nat, i \in I PROVE i + 1 \in I
    <3>1. SUFFICES ASSUME i + 1 \in 1 .. m, Box[i + 1] \in Reachable
                   PROVE  \E n \in 0 .. (i + 1) - 1 : f[n] = Box[i + 1]
      BY <2>2
    \* The last box kept before it.
    <3> DEFINE T == {j \in 0 .. i : Kept(j)}
               z == Max(T)
    <3>2. z \in T /\ \A y \in T : y <= z
      <4>1. 0 \in T /\ T \subseteq Nat
        OBVIOUS
      <4>2. IsFiniteSet(T)
        <5>1. IsFiniteSet(0 .. i)
          BY FS_Interval
        <5>2. T \in SUBSET (0 .. i)
          OBVIOUS
        <5> HIDE DEF T
        <5>3. QED
          BY <5>1, <5>2, FS_Subset
      <4> HIDE DEF T
      <4>3. QED
        BY <4>1, <4>2, Extremes
    <3> HIDE DEF z
    <3>3. /\ z \in 0 .. i /\ z \in 0 .. m /\ Kept(z)
          /\ \A x \in z + 1 .. i : Box[x] \notin Reachable
      <4>1. \A x \in z + 1 .. i : x \in 0 .. i /\ ~(x <= z)
        BY <3>2
      <4>2. QED
        BY <1>1, <3>1, <3>2, <4>1
    <3>4. Pointer(z) = Box[i + 1]
      <4>1. i + 1 \in z + 1 .. m
        BY <1>1, <3>1, <3>3
      <4>2. PICK x \in z + 1 .. m : /\ Pointer(z) = Box[x] /\ Box[x] \in Reachable
                                    /\ NoneKept(z + 1, x - 1)
        BY <1>2, <3>1, <3>3, <4>1 DEF NoneKept
      <4>3. ~(x < i + 1)
        <5>1. x < i + 1 => x \in z + 1 .. i
          BY <3>3, <4>2
        <5>2. QED
          BY <3>3, <4>2, <5>1
      <4>4. ~(x > i + 1)
        <5>1. x > i + 1 => i + 1 \in z + 1 .. x - 1
          BY <3>3, <4>2
        <5>2. QED
          BY <3>1, <4>2, <5>1 DEF NoneKept
      <4>5. x = i + 1
        BY <1>1, <3>3, <4>2, <4>3, <4>4
      <4>6. QED
        BY <4>2, <4>5
    <3>5. CASE z = 0
      <4>1. 0 \in 0 .. (i + 1) - 1 /\ chain = Box[i + 1]
        BY <3>4, <3>5 DEF Pointer
      <4>2. QED
        BY <1>4, <4>1
    <3>6. CASE z # 0
      <4>1. z \in 1 .. m /\ z <= i /\ Box[z] \in Reachable /\ codep[Box[z]] = Box[i + 1]
        BY <1>1, <3>3, <3>4, <3>6 DEF Pointer
      <4>2. PICK n \in 0 .. z - 1 : f[n] = Box[z]
        BY <2>2, <4>1
      <4>3. n \in 0 .. m - 1 /\ n + 1 \in 0 .. (i + 1) - 1
        BY <1>1, <3>3, <4>1, <4>2
      <4>4. f[n + 1] = Box[i + 1]
        BY <1>1, <1>4, <4>1, <4>2, <4>3
      <4>5. QED
        BY <4>3, <4>4
    <3>7. QED
      BY <3>5, <3>6
  <2>3. Nat \subseteq I
    <3> HIDE DEF I
    <3>1. QED
      BY <2>1, <2>2, NaturalsInSet
  <2>4. ASSUME NEW j \in 1 .. m PROVE Timely(j)
    <3>1. j \in I /\ j \in Nat /\ j <= j
      BY <1>1, <2>3
    <3>2. QED
      BY <3>1
  <2>5. QED
    BY <2>4
<1>7. ASSUME NEW b \in Reachable PROVE b \in Chain(chain)
  <2>1. PICK j \in 1 .. m : Box[j] = b
    BY <1>1, Places DEF m
  <2>2. PICK n \in 0 .. j - 1 : f[n] = b
    BY <1>6, <2>1
  <2>3. n \in 0 .. m /\ b # Null
    BY <1>1, <2>1, <2>2
  <2>4. QED
    BY <1>4, <2>2, <2>3
<1>8. ASSUME NEW b \in Chain(chain) PROVE b \in Reachable
  BY <1>4, <1>5
<1>9. QED
  BY <1>7, <1>8

\* The cell c is met on the way from b, within as many steps as there are cells.
Met(h, b, c) == \E k \in 0 .. Cardinality(Cell) : Successor(h, b, k) = c

\* Following the pointers from a head, a ring is seen in as many steps as there are cells.
LEMMA RingIsSeen ==
    ASSUME NEW h \in Heap, NEW s \in Seq(Cell), IsRing(h.next, s),
           \A i, j \in 1 .. Len(s) : s[i] = s[j] => i = j, NEW c
    PROVE  Met(h, s[1], c) <=> \E i \in 1 .. Len(s) : s[i] = c
<1> DEFINE m == Len(s)
           to(k) == Successor(h, s[1], k)
<1>1. /\ m \in Nat \ {0} /\ 1 \in 1 .. m /\ \A i \in 1 .. m : s[i] \in Cell
      /\ \A i \in 1 .. m : h.next[s[i]] = Around(s, i + 1)
  <2>1. m \in Nat \ {0}
    BY DEF IsRing
  <2>2. \A i \in 1 .. m : h.next[s[i]] = Around(s, i + 1)
    BY <2>1, AroundIs
  <2>3. QED
    BY <2>1, <2>2
<1>2. to(0) = s[1] /\ \A k \in Nat : to(k + 1) = h.next[to(k)]
  <2>1. s[1] \in Cell
    BY <1>1
  <2>2. QED
    BY <2>1, Successors
<1>3. m <= Cardinality(Cell) /\ Cardinality(Cell) \in Nat
  <2>1. m \in Nat
    BY <1>1
  <2>2. m <= Cardinality(Cell)
    BY <1>1, <2>1, FewBoxes, NoLonger
  <2>3. QED
    BY <2>2, FewBoxes
<1> HIDE DEF m, to
<1>4. \A k \in Nat : /\ k < m => to(k) = s[k + 1]
                     /\ \E i \in 1 .. m : to(k) = s[i]
  <2> DEFINE K == {k \in Nat : /\ k < m => to(k) = s[k + 1]
                               /\ \E i \in 1 .. m : to(k) = s[i]}
  <2>1. 0 \in K
    BY <1>1, <1>2
  <2>2. ASSUME NEW k \in Nat, k \in K PROVE k + 1 \in K
    <3>1. PICK i \in 1 .. m : to(k) = s[i]
      BY <2>2
    <3>2. to(k + 1) = Around(s, i + 1)
      BY <1>1, <1>2, <3>1
    <3>3. \E j \in 1 .. m : to(k + 1) = s[j]
      <4>1. CASE i + 1 <= m
        <5>1. i + 1 \in 1 .. m /\ Around(s, i + 1) = s[i + 1]
          BY <1>1, <4>1 DEF Around, m
        <5>2. QED
          BY <3>2, <5>1
      <4>2. CASE ~(i + 1 <= m)
        BY <1>1, <3>2, <4>2 DEF Around, m
      <4>3. QED
        BY <4>1, <4>2
    <3>4. k + 1 < m => to(k + 1) = s[(k + 1) + 1]
      <4>1. SUFFICES ASSUME k + 1 < m PROVE to(k + 1) = s[(k + 1) + 1]
        OBVIOUS
      <4>2. k < m /\ k + 1 \in 1 .. m /\ (k + 1) + 1 <= m
        BY <1>1, <4>1
      <4>3. to(k + 1) = Around(s, (k + 1) + 1)
        BY <1>1, <1>2, <2>2, <4>2
      <4>4. QED
        BY <4>2, <4>3 DEF Around, m
    <3>5. QED
      BY <3>3, <3>4
  <2> HIDE DEF K
  <2>3. Nat \subseteq K
    BY <2>1, <2>2, NaturalsInSet
  <2>4. QED
    BY <2>3 DEF K
<1>5. ASSUME NEW k \in 0 .. Cardinality(Cell), to(k) = c PROVE \E i \in 1 .. m : s[i] = c
  <2>1. k \in Nat
    BY <1>3
  <2>2. PICK i \in 1 .. m : to(k) = s[i]
    BY <1>4, <2>1
  <2>3. s[i] = c
    BY <1>5, <2>2
  <2>4. QED
    BY <2>3
<1>6. ASSUME NEW i \in 1 .. m, s[i] = c PROVE \E k \in 0 .. Cardinality(Cell) : to(k) = c
  <2>1. /\ i - 1 \in Nat /\ i - 1 < m /\ (i - 1) + 1 = i /\ i - 1 \in 0 .. Cardinality(Cell)
    BY <1>1, <1>3
  <2>2. QED
    BY <1>4, <1>6, <2>1
<1>7. QED
  BY <1>5, <1>6 DEF m, to, Met

\* After the sweep the chain and the free list have shared the boxes among themselves.
LEMMA GarbageIsExact ==
    ASSUME Given, NEW L, NEW g, NEW k, SweepInv(L, g, k)
    PROVE  ExactlyGarbage
<1>1. SUFFICES ASSUME phase \in {"count", "done"}
               PROVE  /\ Chain(chain) = Reachable
                      /\ \A b \in Reachable : tag[b] = "O"
                      /\ DoublyLinked(heap)
                      /\ {Successor(heap, FreeHead, i) : i \in 0 .. Cardinality(Cell)}
                           = {c \in Cell : HeadOf(c) \in {FreeHead} \cup (Boxes \ Reachable)}
  BY DEF ExactlyGarbage
<1>2. phase # "sweep" /\ k = Len(Box) /\ k \in 0 .. Len(Box)
  BY <1>1 DEF SweepInv, SweptSoFar
<1>3. Chain(chain) = Reachable
  BY <1>2, ChainIsLive
<1>4. ASSUME NEW b \in Reachable PROVE tag[b] = "O"
  <2>1. PICK j \in 1 .. Len(Box) : Box[j] = b
    BY <1>4, ReachableIs, Places
  <2>2. ~(k < j)
    BY <1>2, Places
  <2>3. QED
    BY <2>1, <2>2 DEF SweepInv, SweptTags
<1>5. heap \in Heap /\ DoublyLinked(heap) /\ Laid(heap.next, L, Heads \ Collected(k), Cell)
  BY DEF SweepInv, SweptRings
<1>6. /\ L[FreeHead] \in Seq(Cell) /\ L[FreeHead][1] = FreeHead /\ IsRing(heap.next, L[FreeHead])
      /\ \A i, j \in 1 .. Len(L[FreeHead]) : L[FreeHead][i] = L[FreeHead][j] => i = j
  BY <1>2, <1>5, FreeListIs
<1>7. ASSUME NEW c
      PROVE  Met(heap, FreeHead, c)
                <=> c \in Cell /\ HeadOf(c) \in {FreeHead} \cup (Boxes \ Reachable)
  <2>1. Met(heap, FreeHead, c) <=> \E i \in 1 .. Len(L[FreeHead]) : L[FreeHead][i] = c
    <3>1. PICK s : s = L[FreeHead]
      OBVIOUS
    <3>2. s \in Seq(Cell) /\ s[1] = FreeHead /\ IsRing(heap.next, s)
      BY <1>6, <3>1
    <3>3. \A i, j \in 1 .. Len(s) : s[i] = s[j] => i = j
      BY <1>6, <3>1
    <3>4. Met(heap, s[1], c) <=> \E i \in 1 .. Len(s) : s[i] = c
      BY <1>5, <3>2, <3>3, RingIsSeen
    <3>5. QED
      BY <3>1, <3>2, <3>4
  <2>2. (\E i \in 1 .. Len(L[FreeHead]) : L[FreeHead][i] = c) => c \in Cell
    BY <1>6
  <2>3. QED
    BY <1>2, <2>1, <2>2, FreeListHolds
<1>8. {Successor(heap, FreeHead, i) : i \in 0 .. Cardinality(Cell)}
        = {c \in Cell : HeadOf(c) \in {FreeHead} \cup (Boxes \ Reachable)}
  BY <1>7 DEF Met
<1>9. QED
  BY <1>3, <1>4, <1>5, <1>8

\* Marking marks only what the program can name, and the sweep only takes marks away.
LEMMA MarkedIsLive ==
    ASSUME CollectorInv
    PROVE  MarksAreLive
<1>1. CASE \E p : MarkInv(p)
  BY <1>1 DEF MarksAreLive, MarkInv, Tags
<1>2. CASE \E L, g, k : SweepInv(L, g, k)
  <2>1. PICK k : SweptTags(k)
    BY <1>2 DEF SweepInv
  <2>2. ASSUME NEW b \in Boxes, tag[b] = "marked" PROVE b \in Reachable
    <3>1. PICK j \in 1 .. Len(Box) : Box[j] = b
      BY Places
    <3>2. QED
      BY <2>1, <2>2, <3>1 DEF SweptTags
  <2>3. QED
    BY <2>2 DEF MarksAreLive
<1>3. QED
  BY <1>1, <1>2 DEF CollectorInv
-----------------------------------------------------------------------------
(* The invariant holds *)

\* Every step of the collector preserves it.
LEMMA CollectorInvStep ==
    ASSUME CollectorInv, Next
    PROVE  CollectorInv'
<1>1. Given /\ UNCHANGED <<owner, target>>
  BY DEF CollectorInv, Next, Pass, Descend, Ascend, RootDone, Marking, Keep, Unchain, Count
<1>2. Given' /\ Original' = Original
  BY <1>1, Remembered
<1>3. CASE phase = "mark"
  <2>1. PICK p : MarkInv(p) /\ first = Original.next[FreeHead]
    BY <1>3 DEF CollectorInv, SweepInv, SweptSoFar
  <2>2. CASE Pass
    <3>1. MarkInv(p)' /\ phase' = "mark" /\ first' = first
      BY <1>1, <1>3, <2>1, <2>2, PassMarks DEF Pass, Marking
    <3>2. QED
      BY <1>2, <2>1, <3>1 DEF CollectorInv
  <2>3. CASE Descend
    <3>1. PICK c, b, q : c = heap.next[current] /\ b = codep[c] /\ q = Append(p, b)
      OBVIOUS
    <3>2. MarkInv(q)' /\ phase' = "mark" /\ first' = first
      BY <1>1, <1>3, <2>1, <2>3, <3>1, DescendMarks DEF Descend, Marking
    <3>3. QED
      BY <1>2, <2>1, <3>2 DEF CollectorInv
  <2>4. CASE Ascend
    <3>1. PICK q : q = SubSeq(p, 1, Len(p) - 1)
      OBVIOUS
    <3>2. MarkInv(q)' /\ phase' = "mark" /\ first' = first
      BY <1>1, <1>3, <2>1, <2>4, <3>1, AscendMarks DEF Ascend, Marking
    <3>3. QED
      BY <1>2, <2>1, <3>2 DEF CollectorInv
  <2>5. CASE RootDone
    <3>1. CASE root < Len(Root)
      <4>1. PICK q : q = <<Root[root + 1]>>
        OBVIOUS
      <4>2. MarkInv(q)' /\ phase' = "mark" /\ first' = first
        BY <1>1, <1>3, <2>1, <2>5, <3>1, <4>1, NextRootMarks DEF RootDone, Marking
      <4>3. QED
        BY <1>2, <2>1, <4>2 DEF CollectorInv
    <3>2. CASE ~(root < Len(Root))
      <4>1. \E L : SweepInv(L, 0, 0)'
        BY <1>1, <2>1, <2>5, <3>2, SweepStarts
      <4>2. QED
        BY <1>2, <4>1 DEF CollectorInv
    <3>3. QED
      BY <3>1, <3>2
  <2>6. QED
    BY <1>3, <2>2, <2>3, <2>4, <2>5 DEF Next, Keep, Unchain, Count
<1>4. CASE phase # "mark"
  <2>1. PICK L, g, k : SweepInv(L, g, k)
    BY <1>4 DEF CollectorInv
  <2>2. \E M, d, j : SweepInv(M, d, j)'
    <3>1. CASE Keep
      BY <1>1, <2>1, <3>1, KeepSweeps
    <3>2. CASE Unchain
      BY <1>1, <2>1, <3>2, UnchainSweeps
    <3>3. CASE Count
      BY <1>1, <2>1, <3>3, CountSweeps
    <3>4. QED
      BY <1>4, <3>1, <3>2, <3>3 DEF Next, Pass, Descend, Ascend, RootDone, Marking
  <2>3. QED
    BY <1>2, <2>2 DEF CollectorInv
<1>5. QED
  BY <1>3, <1>4

\* A step that changes nothing preserves it too.
LEMMA CollectorInvStutter ==
    ASSUME CollectorInv, UNCHANGED vars
    PROVE  CollectorInv'
<1>1. UNCHANGED <<owner, target, heap, codep, tag, phase, root, head, current, chain, first, counted>>
  BY DEF vars
<1>2. /\ Given' /\ Original' = Original /\ OriginalCodep' = OriginalCodep
      /\ OriginalTag' = OriginalTag /\ Reachable' = Reachable /\ \A c : HeadOf(c)' = HeadOf(c)
  BY <1>1, Remembered DEF CollectorInv
<1>3. CASE phase = "mark" /\ first = Original.next[FreeHead] /\ \E p : MarkInv(p)
  <2>1. PICK p : MarkInv(p)
    BY <1>3
  <2>2. OnWay(p)' /\ Reversed(p)' /\ Unreversed(p)' /\ Tags'
    BY <1>1, <1>2, <2>1 DEF MarkInv, OnWay, Reversed, Unreversed, Tags
  <2>3. SettledBefore(p)' /\ SettledLists(p)'
    BY <1>1, <2>1 DEF MarkInv, SettledBefore, SettledLists, Settled, Place
  <2>4. MarkInv(p)'
    BY <1>1, <1>2, <2>1, <2>2, <2>3 DEF MarkInv
  <2>5. QED
    BY <1>1, <1>2, <1>3, <2>4 DEF CollectorInv
<1>4. CASE \E L, g, k : SweepInv(L, g, k)
  <2>1. PICK L, g, k : SweepInv(L, g, k)
    BY <1>4
  <2>2. /\ (\A j : Upcoming(j)' = Upcoming(j)) /\ (\A j : Pointer(j)' = Pointer(j))
        /\ (\A i, j : NoneKept(i, j)' = NoneKept(i, j)) /\ (\A j : Collected(j)' = Collected(j))
    BY <1>1, <1>2 DEF Upcoming, Pointer, NoneKept, Collected
  <2>3. SweptTags(k)' /\ SweptChain(k)'
    BY <1>1, <1>2, <2>1, <2>2 DEF SweepInv, SweptTags, SweptChain
  <2>4. SweptRings(L, g, k)' /\ SweptSoFar(L, g, k)'
    BY <1>1, <1>2, <2>1, <2>2 DEF SweepInv, SweptRings, SweptSoFar, DoublyLinked
  <2>5. SweepInv(L, g, k)'
    BY <2>3, <2>4 DEF SweepInv
  <2>6. QED
    BY <1>2, <2>5 DEF CollectorInv
<1>5. QED
  BY <1>3, <1>4 DEF CollectorInv

\* The way back, the reversed pointers, the marks and the rings are as the invariant
\* says in every state of mark_dynamic_box_heads() and collect_garbage().
THEOREM CollectorKeepsInvariant == Spec => []CollectorInv
<1>1. Init => CollectorInv
  <2>1. SUFFICES ASSUME Init PROVE CollectorInv
    OBVIOUS
  <2>2. QED
    BY <2>1, MarkStarts DEF Init, CollectorInv
<1>2. CollectorInv /\ [Next]_vars => CollectorInv'
  BY CollectorInvStep, CollectorInvStutter
<1>3. QED
  BY <1>1, <1>2, PTL DEF Spec

\* For any lists, references and roots, only boxes that the program can still name are
\* ever marked (mark_dynamic_box_heads()).
THEOREM OnlyLiveBoxesMarked == Spec => []MarksAreLive
<1>1. CollectorInv => MarksAreLive
  BY MarkedIsLive
<1>2. QED
  BY <1>1, CollectorKeepsInvariant, PTL

\* However the boxes refer to each other, the reversed references always lead back to the
\* root in as many steps as there are boxes at most.
THEOREM WayBackIsKept == Spec => []WayBack
<1>1. CollectorInv => WayBack
  <2>1. SUFFICES ASSUME CollectorInv, phase = "mark" PROVE WayBack
    BY DEF WayBack
  <2>2. PICK p : MarkInv(p)
    BY <2>1 DEF CollectorInv, SweepInv, SweptSoFar
  <2>3. QED
    BY <2>1, <2>2, WayLeadsBack DEF CollectorInv
<1>2. QED
  BY <1>1, CollectorKeepsInvariant, PTL

\* When marking is over, every pointer and reference of a live list is what it was at the
\* call, and it stays so.
THEOREM LiveListsUntouched == Spec => []LiveUntouched
<1>1. CollectorInv => LiveUntouched
  <2>1. SUFFICES ASSUME CollectorInv, phase # "mark" PROVE LiveUntouched
    BY DEF LiveUntouched
  <2>2. PICK L, g, k : SweepInv(L, g, k)
    BY <2>1 DEF CollectorInv
  <2>3. QED
    BY <2>1, <2>2, LiveIsUntouched DEF CollectorInv
<1>2. QED
  BY <1>1, CollectorKeepsInvariant, PTL

\* collect_garbage() takes from the chain exactly the boxes that the program cannot name,
\* and the free list is what it was with exactly their cells in addition.
THEOREM ExactlyGarbageCollected == Spec => []ExactlyGarbage
<1>1. CollectorInv => ExactlyGarbage
  <2>1. SUFFICES ASSUME CollectorInv, phase \in {"count", "done"} PROVE ExactlyGarbage
    BY DEF ExactlyGarbage
  <2>2. PICK L, g, k : SweepInv(L, g, k)
    BY <2>1 DEF CollectorInv
  <2>3. QED
    BY <2>1, <2>2, GarbageIsExact DEF CollectorInv
<1>2. QED
  BY <1>1, CollectorKeepsInvariant, PTL

\* more_free_memory() counts the cells collected, and stops at options.free_memory_count.
THEOREM GainIsCounted == Spec => []GainCounted
<1>1. CollectorInv => GainCounted
  <2>1. SUFFICES ASSUME CollectorInv, phase = "done" PROVE GainCounted
    BY DEF GainCounted
  <2>2. PICK L, g, k : SweepInv(L, g, k)
    BY <2>1 DEF CollectorInv
  <2>3. QED
    BY <2>1, <2>2, CountIsGain DEF CollectorInv
<1>2. QED
  BY <1>1, CollectorKeepsInvariant, PTL
=============================================================================
