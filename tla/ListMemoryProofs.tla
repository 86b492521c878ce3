-------------------------- MODULE ListMemoryProofs --------------------------
(***************************************************************************)
(* For every number of cells, processes and blocks: the pointers previous  *)
(* and next of all cells agree after every operation on list memory, every *)
(* cell obtained is in one list, and the operations implement those of     *)
(* Lists.                                                                  *)
(***************************************************************************)
EXTENDS ListMemory, RingsProofs

\* The cells that malloc has handed out, and the head of the free list.
Inside == Allocated \cup {FreeHead}

\* The inductive invariant: the lists never leave the memory obtained, so the
\* cells of the next block are still apart when they are chained in, and no
\* process takes the head of the free list for a head of its own.
Inv == /\ Good(heap, Inside)
       /\ TypeOK
       /\ memoryCount <= Len(Block)
       /\ blockCount = 0 => memoryCount = 0
       /\ \A p \in Process : view[p] = Null <=> store[p] = Null

\* The cells obtained so far are cells, the free list's head is one of them, and null is none.
LEMMA InsideCells ==
    ASSUME memoryCount \in Nat, memoryCount <= Len(Block)
    PROVE  /\ Inside \in SUBSET Cell
           /\ FreeHead \in Inside /\ FreeHead \notin Allocated
           /\ Null \notin Inside
BY ListMemoryAssumption DEF Inside, Allocated

\* The number of cells obtained is a natural number.
LEMMA CountNat == TypeOK => memoryCount \in Nat
BY ListMemoryAssumption DEF TypeOK

\* refal_initiate establishes the invariant.
LEMMA InvInit == Init => Inv
<1> SUFFICES ASSUME Init PROVE Inv
  OBVIOUS
<1>1. Good(heap, Inside) /\ heap \in Heap
  BY DEF Init, Apart, Good, Heap, DoublyLinked
<1>2. memoryCount <= Len(Block)
  BY ListMemoryAssumption DEF Init
<1>3. TypeOK
  BY <1>1, ListMemoryAssumption DEF Init, TypeOK
<1>4. QED
  BY <1>1, <1>2, <1>3 DEF Init, Inv

\* An operation that obtains no block preserves Inv when it preserves the
\* heap's part of it and leaves the heads of the lists consistent.
LEMMA SameMemory ==
    ASSUME Inv, UNCHANGED <<blockCount, memoryCount>>,
           Good(heap', Inside),
           view' \in [Process -> Allocated \cup {Null}],
           store' \in [Process -> Allocated \cup {Null}],
           dot' \in [Process -> Cell \cup {Null}],
           \A p \in Process : view'[p] = Null <=> store'[p] = Null
    PROVE  Inv'
<1>1. Inside' = Inside /\ Allocated' = Allocated
  BY DEF Inside, Allocated
<1>2. heap' \in Heap
  BY DEF Good
<1>3. TypeOK'
  BY <1>1, <1>2 DEF Inv, TypeOK
<1>4. Good(heap, Inside)'
  BY <1>1
<1>5. QED
  BY <1>3, <1>4 DEF Inv

\* The cells of the block that more_free_memory() obtains: none of them is in use.
NewCells == [i \in 1 .. Request |-> Block[memoryCount + i]]

\* A block that is obtained is unused until then, and refal_add_free_memory links all of it.
LEMMA NewBlock ==
    ASSUME Inv, MoreFreeMemory
    PROVE  /\ Request \in Nat \ {0} /\ Inside \in SUBSET Cell /\ FreeHead \in Inside
           /\ NewCells \in [1 .. Request -> Cell \ Inside]
           /\ \A i, j \in 1 .. Request : NewCells[i] = NewCells[j] => i = j
           /\ Inside' = Inside \cup {NewCells[i] : i \in 1 .. Request}
           /\ heap' = AddFreeMemory(heap, FreeHead, NewCells, Request)
           /\ Allocated \subseteq Allocated'
<1> DEFINE block == NewCells
           new   == {block[i] : i \in 1 .. Request}
<1>1. memoryCount \in Nat /\ Len(Block) \in Nat /\ DOMAIN Block = 1 .. Len(Block)
      /\ \A i \in 1 .. Len(Block) : Block[i] \in Cell \ {FreeHead}
  BY CountNat, ListMemoryAssumption DEF Inv
<1>2. Request \in Nat \ {0}
  BY <1>1, ListMemoryAssumption DEF MoreFreeMemory, Request, Inv, TypeOK
<1>3. Inside \in SUBSET Cell /\ FreeHead \in Inside
  BY <1>1, InsideCells DEF Inv
<1>4. ASSUME NEW i \in 1 .. Request
      PROVE  memoryCount + i \in 1 .. Len(Block) /\ block[i] \in Cell \ Inside
  BY <1>1, <1>2, ListMemoryAssumption DEF MoreFreeMemory, Inside, Allocated, NewCells
<1>5. \A i, j \in 1 .. Request : block[i] = block[j] => i = j
  BY <1>1, <1>2, <1>4, ListMemoryAssumption DEF NewCells
<1>6. block \in [1 .. Request -> Cell \ Inside]
  BY <1>4 DEF NewCells
<1>7. heap' = AddFreeMemory(heap, FreeHead, block, Request) /\ memoryCount' = memoryCount + Request
  BY DEF MoreFreeMemory, NewCells
<1>8. Allocated' = Allocated \cup new
  <2>1. ASSUME NEW i \in 1 .. memoryCount' PROVE Block[i] \in Allocated \cup new
    <3>1. CASE i <= memoryCount
      BY <1>1, <3>1 DEF Allocated
    <3>2. CASE i > memoryCount
      <4>1. i - memoryCount \in 1 .. Request /\ block[i - memoryCount] = Block[i]
        BY <1>1, <1>2, <1>7, <3>2 DEF NewCells
      <4>2. QED
        BY <4>1
    <3>3. QED
      BY <1>1, <1>2, <1>7, <3>1, <3>2
  <2>2. ASSUME NEW i \in 1 .. Request
        PROVE  block[i] = Block[memoryCount + i] /\ memoryCount + i \in 1 .. memoryCount'
    BY <1>1, <1>2, <1>7 DEF NewCells
  <2>3. \A i \in 1 .. memoryCount : i \in 1 .. memoryCount'
    BY <1>1, <1>2, <1>7 DEF NewCells
  <2>4. QED
    BY <2>1, <2>2, <2>3 DEF Allocated
<1>9. QED
  BY <1>2, <1>3, <1>5, <1>6, <1>7, <1>8 DEF Inside

\* One lemma for each operation on list memory: it preserves the invariant.
LEMMA MoreFreeMemoryStep == Inv /\ MoreFreeMemory => Inv'
<1> SUFFICES ASSUME Inv, MoreFreeMemory PROVE Inv'
  OBVIOUS
<1>1. memoryCount \in Nat /\ Len(Block) \in Nat
  BY CountNat, ListMemoryAssumption DEF Inv
<1>2. Request \in Nat \ {0} /\ (MaxSize # 0 => memoryCount + Request <= MaxSize)
  BY <1>1, ListMemoryAssumption DEF MoreFreeMemory, Request, Inv, TypeOK
<1>3. Good(heap', Inside')
  <2>1. Good(heap, Inside)
    BY DEF Inv
  <2>2. QED
    BY <2>1, NewBlock, AddFreeMemoryGood
<1>4. Allocated \subseteq Allocated'
  BY NewBlock
<1>5. TypeOK' /\ memoryCount' <= Len(Block) /\ (blockCount' = 0 => memoryCount' = 0)
  <2>1. heap' \in Heap
    BY <1>3 DEF Good
  <2>2. QED
    BY <1>1, <1>2, <1>4, <2>1 DEF MoreFreeMemory, Inv, TypeOK
<1>6. QED
  BY <1>3, <1>5 DEF Inv, MoreFreeMemory

\* A process that is created takes two cells to be its heads.
LEMMA CreateStatusTableStep == ASSUME NEW p \in Process, Inv, CreateStatusTable(p) PROVE Inv'
<1> DEFINE v == heap.next[FreeHead]
           s == heap.next[v]
           n == heap.next[s]
<1>1. /\ Inside \in SUBSET Cell /\ FreeHead \in Inside /\ Null \notin Inside
      /\ Good(heap, Inside)
  BY CountNat, InsideCells DEF Inv
<1>2. v \in Allocated /\ s \in Allocated /\ n \in Inside
  BY <1>1, GoodSteps DEF CreateStatusTable, Inside
<1>3. heap' = Link(Link(Link(heap, FreeHead, n), v, v), s, s)
  BY DEF CreateStatusTable
<1>4. /\ heap'.next = [[[heap.next EXCEPT ![FreeHead] = n] EXCEPT ![v] = v] EXCEPT ![s] = s]
      /\ heap'.previous = [[[heap.previous EXCEPT ![n] = FreeHead] EXCEPT ![v] = v] EXCEPT ![s] = s]
  BY <1>3 DEF Link
<1>5. Good(heap', Inside)
  <2>1. heap' \in Heap
    <3>1. v \in Cell /\ s \in Cell /\ n \in Cell /\ FreeHead \in Cell
      BY <1>1, <1>2 DEF Inside
    <3>2. Link(heap, FreeHead, n) \in Heap
      BY <1>1, <3>1, LinkType DEF Good
    <3>3. Link(Link(heap, FreeHead, n), v, v) \in Heap
      BY <3>1, <3>2, LinkType
    <3>4. QED
      BY <1>3, <3>1, <3>3, LinkType
  <2>2. ASSUME NEW c \in Cell PROVE heap'.previous[heap'.next[c]] = c
    BY <1>1, <1>2, <1>4 DEF Good, Heap, DoublyLinked, CreateStatusTable
  <2>3. ASSUME NEW c \in Cell PROVE heap'.next[heap'.previous[c]] = c
    BY <1>1, <1>2, <1>4 DEF Good, Heap, DoublyLinked, CreateStatusTable
  <2>4. ASSUME NEW c \in Cell \ Inside PROVE heap'.next[c] = c
    BY <1>1, <1>2, <1>4 DEF Good, Heap, Inside
  <2>5. QED
    BY <2>1, <2>2, <2>3, <2>4 DEF Good, DoublyLinked
<1>6. view' = [view EXCEPT ![p] = v] /\ store' = [store EXCEPT ![p] = s]
      /\ dot' = [dot EXCEPT ![p] = Null] /\ UNCHANGED <<blockCount, memoryCount>>
  BY DEF CreateStatusTable
<1>7. v # Null /\ s # Null
  BY <1>1, <1>2 DEF Inside
<1>8. QED
  BY <1>2, <1>5, <1>6, <1>7, SameMemory DEF Inv, TypeOK

\* A process that is deleted gives back its lists and their heads.
LEMMA DeleteStatusTableStep == ASSUME NEW p \in Process, Inv, DeleteStatusTable(p) PROVE Inv'
<1>1. /\ Inside \in SUBSET Cell /\ FreeHead \in Inside /\ FreeHead \notin Allocated
      /\ Good(heap, Inside)
  BY CountNat, InsideCells DEF Inv
<1>2. view[p] \in Inside \ {FreeHead} /\ store[p] \in Inside \ {FreeHead}
  BY <1>1 DEF DeleteStatusTable, Exists, Inv, TypeOK, Inside
<1>3. Good(JoinRing(heap, FreeHead, view[p]), Inside)
  BY <1>1, <1>2, JoinRingGood
<1>4. Good(heap', Inside)
  BY <1>1, <1>2, <1>3, JoinRingGood DEF DeleteStatusTable
<1>5. QED
  BY <1>4, SameMemory DEF DeleteStatusTable, Inv, TypeOK

\* The k, the function and the dot come from the free list.
LEMMA InsertViewKFunctionDotStep ==
    ASSUME NEW p \in Process, Inv, InsertViewKFunctionDot(p) PROVE Inv'
<1>1. /\ Inside \in SUBSET Cell /\ FreeHead \in Inside /\ FreeHead \notin Allocated
      /\ Good(heap, Inside)
  BY CountNat, InsideCells DEF Inv
<1>2. PICK third \in Allocated \ {view[p]} :
        LET taken == InsertFromFreeMemory(heap, FreeHead, view[p], third)
            label == taken.next[taken.next[view[p]]]
            last  == taken.previous[view[p]]
            moved == IF third = last THEN taken
                     ELSE Transplantation(taken, last, label, taken.next[third])
        IN  heap' = moved /\ dot' = [dot EXCEPT ![p] = moved.previous[view[p]]]
  BY DEF InsertViewKFunctionDot
<1> DEFINE taken == InsertFromFreeMemory(heap, FreeHead, view[p], third)
           label == taken.next[taken.next[view[p]]]
           last  == taken.previous[view[p]]
<1>3. view[p] \in Inside \ {FreeHead} /\ third \in Inside \ {view[p]}
  BY <1>1 DEF InsertViewKFunctionDot, Exists, Inv, TypeOK, Inside
<1>4. Good(taken, Inside)
  <2>1. heap.next[FreeHead] \in Inside /\ heap.previous[heap.next[FreeHead]] = FreeHead
    BY <1>1, GoodSteps DEF Good, DoublyLinked
  <2>2. QED
    BY <1>1, <1>3, <2>1, SpliceGood DEF InsertFromFreeMemory
<1> HIDE DEF taken
<1>5. label \in Inside /\ last \in Inside /\ taken.next[third] \in Inside
  BY <1>1, <1>3, <1>4, GoodSteps
<1>6. Good(heap', Inside)
  BY <1>1, <1>2, <1>4, <1>5, TransplantationGood DEF taken
<1>7. heap'.previous[view[p]] \in Cell
  BY <1>1, <1>3, <1>6, GoodSteps
<1>8. dot' = [dot EXCEPT ![p] = heap'.previous[view[p]]]
  BY <1>2
<1>9. QED
  BY <1>6, <1>7, <1>8, SameMemory DEF InsertViewKFunctionDot, Inv, TypeOK

\* A list of new cells comes from the free list.
LEMMA InsertStep == ASSUME NEW p \in Process, Inv, Insert(p) PROVE Inv'
<1>1. /\ Inside \in SUBSET Cell /\ FreeHead \in Inside /\ FreeHead \notin Allocated
      /\ Good(heap, Inside)
  BY CountNat, InsideCells DEF Inv
<1>2. PICK last \in Allocated, where \in Allocated :
        where # last /\ heap' = InsertFromFreeMemory(heap, FreeHead, where, last)
  BY DEF Insert
<1>3. heap.next[FreeHead] \in Inside /\ heap.previous[heap.next[FreeHead]] = FreeHead
  BY <1>1, GoodSteps DEF Good, DoublyLinked
<1>4. where \in Inside \ {FreeHead} /\ last \in Inside
  BY <1>1 DEF Inside
<1>5. Good(heap', Inside)
  BY <1>1, <1>2, <1>3, <1>4, SpliceGood DEF InsertFromFreeMemory
<1>6. QED
  BY <1>5, SameMemory DEF Insert, Inv, TypeOK

\* A list between two brackets goes to the free list.
LEMMA ReleaseStep == ASSUME NEW p \in Process, Inv, Release(p) PROVE Inv'
<1>1. /\ Inside \in SUBSET Cell /\ FreeHead \in Inside /\ FreeHead \notin Allocated
      /\ Good(heap, Inside)
  BY CountNat, InsideCells DEF Inv
<1>2. PICK s \in Allocated \X Allocated :
        /\ s[1] # heap.previous[FreeHead]
        /\ heap' = InsertToFreeMemory(heap, FreeHead, s[1], s[2])
  BY DEF Release, Segments
<1>3. s[1] \in Inside /\ s[2] \in Inside \ {FreeHead}
  BY <1>1 DEF Inside
<1>4. Good(heap', Inside)
  BY <1>1, <1>2, <1>3, InsertToFreeMemoryGood
<1>5. QED
  BY <1>4, SameMemory DEF Release, Inv, TypeOK

\* A list between two brackets goes to another place of the same process.
LEMMA MoveStep == ASSUME NEW p \in Process, Inv, Move(p) PROVE Inv'
<1>1. Inside \in SUBSET Cell /\ Good(heap, Inside)
  BY CountNat, InsideCells DEF Inv
<1>2. PICK s \in Allocated \X Allocated, where \in Allocated :
        heap' = Transplantation(heap, where, s[1], s[2])
  BY DEF Move, Segments
<1>3. s[1] \in Inside /\ s[2] \in Inside /\ where \in Inside
  BY DEF Inside
<1>4. Good(heap', Inside)
  BY <1>1, <1>2, <1>3, TransplantationGood
<1>5. QED
  BY <1>4, SameMemory DEF Move, Inv, TypeOK
-----------------------------------------------------------------------------
\* Every step preserves the invariant.
LEMMA InvStep == Inv /\ [Next]_vars => Inv'
<1> SUFFICES ASSUME Inv, [Next]_vars PROVE Inv'
  OBVIOUS
<1>1. CASE MoreFreeMemory
  BY <1>1, MoreFreeMemoryStep
<1>2. ASSUME NEW p \in Process, CreateStatusTable(p) PROVE Inv'
  BY <1>2, CreateStatusTableStep
<1>3. ASSUME NEW p \in Process, DeleteStatusTable(p) PROVE Inv'
  BY <1>3, DeleteStatusTableStep
<1>4. ASSUME NEW p \in Process, InsertViewKFunctionDot(p) PROVE Inv'
  BY <1>4, InsertViewKFunctionDotStep
<1>5. ASSUME NEW p \in Process, Insert(p) PROVE Inv'
  BY <1>5, InsertStep
<1>6. ASSUME NEW p \in Process, Release(p) PROVE Inv'
  BY <1>6, ReleaseStep
<1>7. ASSUME NEW p \in Process, Move(p) PROVE Inv'
  BY <1>7, MoveStep
<1>8. CASE UNCHANGED vars
  BY <1>8 DEF vars, Inv, Good, TypeOK, Inside, Allocated
<1>9. QED
  BY <1>1, <1>2, <1>3, <1>4, <1>5, <1>6, <1>7, <1>8 DEF Next

\* Whatever sequence of operations is made on however many lists, the fields
\* keep their types and the memory obtained stays within -maxsz.
THEOREM TypeCorrect == Spec => []TypeOK
<1>1. Inv => TypeOK
  BY DEF Inv
<1>2. QED
  BY InvInit, InvStep, <1>1, PTL DEF Spec

\* The same sequences keep the two chains of pointers of every list, the free
\* list among them, descriptions of the same ring.
THEOREM AlwaysDoublyLinked == Spec => []PointersAgree
<1>1. Inv => PointersAgree
  BY DEF Inv, Good, PointersAgree
<1>2. QED
  BY InvInit, InvStep, <1>1, PTL DEF Spec
-----------------------------------------------------------------------------
(***************************************************************************)
(* The lists.  The second part of the inductive invariant: the cells of    *)
(* the memory obtained are laid out in rings, one for each head, and a     *)
(* head belongs to one list of one process only.                           *)
(***************************************************************************)
HeadsApart == \A p, q \in Process : Exists(p) /\ Exists(q) =>
                 /\ view[p] = view[q] => p = q
                 /\ store[p] = store[q] => p = q
                 /\ view[p] # store[q]

Walks == [h \in Heads |-> Walk(h)]
Layout == HeadsApart /\ Laid(heap.next, Walks, Heads, Inside)

\* The cells obtained from m places of the blocks are finitely many.
LEMMA InsideSize ==
    ASSUME NEW m \in Nat
    PROVE  /\ IsFiniteSet({Block[i] : i \in 1 .. m} \cup {FreeHead})
           /\ Cardinality({Block[i] : i \in 1 .. m} \cup {FreeHead}) <= m + 1
<1> DEFINE S == {Block[i] : i \in 1 .. m}
           f == [i \in 1 .. m |-> Block[i]]
<1>1. IsFiniteSet(1 .. m) /\ Cardinality(1 .. m) = m
  <2>1. 1 \in Int /\ m \in Int
    OBVIOUS
  <2>2. IsFiniteSet(1 .. m) /\ Cardinality(1 .. m) = IF 1 > m THEN 0 ELSE m - 1 + 1
    BY <2>1, FS_Interval
  <2>3. QED
    BY <2>2
<1>2. f \in Surjection(1 .. m, S)
  BY DEF Surjection
<1> HIDE DEF f, S
<1>3. IsFiniteSet(S) /\ Cardinality(S) <= m
  BY <1>1, <1>2, FS_Surjection
<1>4. IsFiniteSet(S \cup {FreeHead})
      /\ Cardinality(S \cup {FreeHead})
            = IF FreeHead \in S THEN Cardinality(S) ELSE Cardinality(S) + 1
  BY <1>3, FS_AddElement
<1>5. Cardinality(S) \in Nat
  BY <1>3, FS_CardinalityType
<1>6. QED
  BY <1>3, <1>4, <1>5 DEF S

\* The lists that the walks find are the rings in which the cells are laid out.
LEMMA WalksFound ==
    ASSUME Inv, NEW L, Laid(heap.next, L, Heads, Inside)
    PROVE  \A h \in Heads : Walk(h) = L[h]
<1>1. heap.next \in [Cell -> Cell] /\ memoryCount \in Nat /\ Inside \in SUBSET Cell
  BY CountNat, InsideCells DEF Inv, Good, Heap
<1>2. IsFiniteSet(Inside) /\ Cardinality(Inside) <= memoryCount + 1
  BY <1>1, InsideSize DEF Inside, Allocated
<1>3. \A h \in Heads : WalkOf(heap.next, memoryCount, h) = L[h]
  <2> DEFINE n == heap.next
             C == Inside
             H == Heads
  <2>1. n \in [Cell -> Cell] /\ C \in SUBSET Cell /\ Laid(n, L, H, C) /\ IsFiniteSet(C)
        /\ Cardinality(C) <= memoryCount + 1
    BY <1>1, <1>2
  <2> HIDE DEF n, C, H
  <2>2. \A h \in H : WalkOf(n, memoryCount, h) = L[h]
    BY <1>1, <2>1, WalksAre
  <2>3. QED
    BY <2>2 DEF n, H
<1>4. QED
  BY <1>3 DEF Walk, WalkOf

\* Also after a step, the list of a head is the one that is laid from it.
LEMMA WalksFoundNext ==
    ASSUME Inv', NEW L, Laid(heap'.next, L, Heads', Inside')
    PROVE  \A h \in Heads' : Walk(h)' = L[h]
<1>1. heap'.next \in [Cell -> Cell] /\ memoryCount' \in Nat /\ Inside' \in SUBSET Cell
  BY ListMemoryAssumption DEF Inv, Good, Heap, TypeOK, Inside, Allocated
<1>2. IsFiniteSet(Inside') /\ Cardinality(Inside') <= memoryCount' + 1
  BY <1>1, InsideSize DEF Inside, Allocated
<1>3. \A h \in Heads' : WalkOf(heap'.next, memoryCount', h) = L[h]
  <2> DEFINE n == heap'.next
             C == Inside'
             H == Heads'
             m == memoryCount'
  <2>1. n \in [Cell -> Cell] /\ C \in SUBSET Cell /\ Laid(n, L, H, C) /\ IsFiniteSet(C)
        /\ Cardinality(C) <= m + 1 /\ m \in Nat
    BY <1>1, <1>2
  <2> HIDE DEF n, C, H, m
  <2>2. \A h \in H : WalkOf(n, m, h) = L[h]
    BY <2>1, WalksAre
  <2>3. QED
    BY <2>2 DEF n, H, m
<1>4. QED
  BY <1>3 DEF Walk, WalkOf

\* The cells of the rings: each ring starts with its head, no cell is in two places, and
\* no cell is missing.
LEMMA RingFacts ==
    ASSUME Inv, Layout
    PROVE  /\ heap \in Heap /\ DoublyLinked(heap) /\ Inside \in SUBSET Cell
           /\ FreeHead \in Inside /\ FreeHead \notin Allocated
           /\ \A h \in Heads : /\ Walks[h] \in Seq(Inside) /\ Len(Walks[h]) \in Nat
                               /\ Len(Walks[h]) > 0 /\ Walks[h][1] = h
                               /\ Walk(h) = Walks[h]
<1>1. heap \in Heap /\ DoublyLinked(heap) /\ Inside \in SUBSET Cell
      /\ FreeHead \in Inside /\ FreeHead \notin Allocated
  BY CountNat, InsideCells DEF Inv, Good
<1>2. ASSUME NEW h \in Heads
      PROVE  /\ Walks[h] \in Seq(Inside) /\ Len(Walks[h]) \in Nat
             /\ Len(Walks[h]) > 0 /\ Walks[h][1] = h
  <2>1. Walks[h] \in Seq(Inside) /\ IsRing(heap.next, Walks[h]) /\ Walks[h][1] = h
    BY DEF Layout, Laid
  <2>2. QED
    BY <2>1 DEF IsRing
<1>3. \A h \in Heads : Walk(h) = Walks[h]
  BY DEF Walks
<1>4. QED
  BY <1>1, <1>2, <1>3

\* A cell stands at one place of one list only.
LEMMA Together ==
    ASSUME Layout, NEW g \in Heads, NEW h \in Heads,
           NEW i \in 1 .. Len(Walks[g]), NEW j \in 1 .. Len(Walks[h]), Walks[g][i] = Walks[h][j]
    PROVE  g = h /\ i = j
BY DEF Layout, Laid

\* The heads of a process that exists.
LEMMA HeadsOf ==
    ASSUME Inv, NEW p \in Process, Exists(p), HeadsApart
    PROVE  /\ FreeHead \in Heads /\ view[p] \in Heads /\ store[p] \in Heads
           /\ view[p] # FreeHead /\ store[p] # FreeHead /\ view[p] # store[p]
           /\ view[p] \in Allocated /\ store[p] \in Allocated
           /\ \A q \in Process \ {p} : Exists(q) =>
                 view[q] \in Heads \ {FreeHead, view[p], store[p]}
                 /\ store[q] \in Heads \ {FreeHead, view[p], store[p]}
<1>1. FreeHead \notin Allocated
  BY CountNat, InsideCells DEF Inv
<1>2. \A q \in Process : Exists(q) => /\ view[q] \in Heads /\ store[q] \in Heads
                                      /\ view[q] \in Allocated /\ store[q] \in Allocated
  BY DEF Heads, Exists, Inv, TypeOK
<1>3. view[p] # store[p]
  BY DEF HeadsApart
<1>4. ASSUME NEW q \in Process \ {p}, Exists(q)
      PROVE  /\ view[q] # view[p] /\ view[q] # store[p]
             /\ store[q] # view[p] /\ store[q] # store[p]
  BY <1>4 DEF HeadsApart
<1>5. FreeHead \in Heads
  BY DEF Heads
<1>6. QED
  BY <1>1, <1>2, <1>3, <1>4, <1>5

\* Lists that are laid after a step are its lists: what is found by walking is what was constructed.
LEMMA NewLayout ==
    ASSUME Inv', HeadsApart', NEW M, Laid(heap'.next, M, Heads', Inside')
    PROVE  Layout' /\ \A h \in Heads' : Walk(h)' = M[h]
<1>1. \A h \in Heads' : Walk(h)' = M[h]
  BY WalksFoundNext
<1>2. M = [h \in Heads' |-> M[h]]
  BY DEF Laid
<1>3. Walks' = M
  BY <1>1, <1>2 DEF Walks
<1>4. QED
  BY <1>1, <1>3 DEF Layout

\* An operation on the lists of p and the free list, which leaves the heads alone.
LEMMA SameHeads ==
    ASSUME Inv, Inv', Layout, UNCHANGED <<view, store, memoryCount>>,
           NEW p \in Process, Exists(p), NEW M, Laid(heap'.next, M, Heads, Inside),
           \A h \in Heads \ {FreeHead, view[p], store[p]} : M[h] = Walks[h]
    PROVE  /\ Layout' /\ Free' = Tail(M[FreeHead])
           /\ Listed' = [Listed EXCEPT ![p] = [view |-> M[view[p]], store |-> M[store[p]]]]
<1>1. Heads' = Heads /\ Inside' = Inside /\ \A q \in Process : Exists(q)' = Exists(q)
  BY DEF Heads, Inside, Allocated, Exists
<1>2. HeadsApart'
  BY <1>1 DEF Layout, HeadsApart
<1>3. Layout' /\ \A h \in Heads : Walk(h)' = M[h]
  BY <1>1, <1>2, NewLayout
<1>4. FreeHead \in Heads /\ view[p] \in Heads /\ store[p] \in Heads
      /\ \A q \in Process \ {p} : Exists(q) =>
            view[q] \in Heads \ {FreeHead, view[p], store[p]}
            /\ store[q] \in Heads \ {FreeHead, view[p], store[p]}
  BY HeadsOf DEF Layout
<1>5. Free' = Tail(M[FreeHead])
  BY <1>3, <1>4 DEF Free
<1>6. \A h \in Heads : Walk(h) = Walks[h]
  BY DEF Walks
<1>7. ASSUME NEW q \in Process
      PROVE  Listed'[q] = [Listed EXCEPT ![p] = [view |-> M[view[p]], store |-> M[store[p]]]][q]
  <2>1. CASE q = p
    BY <1>1, <1>3, <1>4, <2>1 DEF Listed
  <2>2. CASE q # p /\ Exists(q)
    BY <1>1, <1>3, <1>4, <1>6, <2>2 DEF Listed
  <2>3. CASE q # p /\ ~Exists(q)
    BY <1>1, <2>3 DEF Listed
  <2>4. QED
    BY <2>1, <2>2, <2>3
<1>8. QED
  BY <1>3, <1>5, <1>7 DEF Listed

\* Changing one list of a process.
FieldsAre(F, p, v, s, e) ==
    /\ F[p]["view"] = v /\ F[p]["store"] = s
    /\ [F EXCEPT ![p]["view"] = e] = [F EXCEPT ![p] = [view |-> e, store |-> s]]
    /\ [F EXCEPT ![p]["store"] = e] = [F EXCEPT ![p] = [view |-> v, store |-> e]]

\* What a field of one process holds, with the other processes' fields as they are.
LEMMA OneField ==
    ASSUME NEW F, NEW p \in DOMAIN F, NEW v, NEW s, F[p] = [view |-> v, store |-> s], NEW e
    PROVE  FieldsAre(F, p, v, s, e)
<1>1. F[p]["view"] = v /\ F[p]["store"] = s
  OBVIOUS
<1>2. [F[p] EXCEPT !["view"] = e] = [view |-> e, store |-> s]
  OBVIOUS
<1>3. [F[p] EXCEPT !["store"] = e] = [view |-> v, store |-> e]
  OBVIOUS
<1>4. [F EXCEPT ![p]["view"] = e] = [F EXCEPT ![p] = [F[p] EXCEPT !["view"] = e]]
  OBVIOUS
<1>5. [F EXCEPT ![p]["store"] = e] = [F EXCEPT ![p] = [F[p] EXCEPT !["store"] = e]]
  OBVIOUS
<1>6. QED
  BY <1>1, <1>2, <1>3, <1>4, <1>5 DEF FieldsAre

\* The splice that moves the d cells behind the i-th of the ring of b behind the k-th of
\* the cells that stay in the ring of g, and what it leaves in the lists of p.
Movable(b, i, d, g, k) == /\ i \in 1 .. Len(Walks[b]) /\ d \in 1 .. Len(Walks[b]) - i
                          /\ k \in 1 .. Len(Rest(Walks, b, i, d, g))
                          /\ Rest(Walks, b, i, d, g)[k] # Walks[b][i]
SpliceOf(b, i, d, g, k) ==
    Splice(heap, Rest(Walks, b, i, d, g)[k], Walks[b][i + 1], Walks[b][i + d])
Leaves(p, M) ==
    /\ Layout' /\ Free' = Tail(M[FreeHead])
    /\ Listed' = [Listed EXCEPT ![p] = [view |-> M[view[p]], store |-> M[store[p]]]]

\* Moving a part of a list moves the cells of the lists and nothing else.
LEMMA SpliceStep ==
    ASSUME Inv, Inv', Layout, UNCHANGED <<view, store, memoryCount>>,
           NEW p \in Process, Exists(p),
           NEW b \in {FreeHead, view[p], store[p]}, NEW g \in {FreeHead, view[p], store[p]},
           NEW i, NEW d, NEW k, Movable(b, i, d, g, k), heap' = SpliceOf(b, i, d, g, k)
    PROVE  Leaves(p, MovedCells(Walks, Heads, b, i, d, g, k))
<1> DEFINE M == MovedCells(Walks, Heads, b, i, d, g, k)
           W == Walks
           n == heap.next
<1>1. b \in Heads /\ g \in Heads
  BY HeadsOf DEF Layout
<1>2. heap \in Heap /\ DoublyLinked(heap) /\ Inside \in SUBSET Cell /\ Laid(n, W, Heads, Inside)
  BY RingFacts DEF Layout
<1>3. Laid(heap'.next, M, Heads, Inside)
  <2> DEFINE C == Inside
             H == Heads
  <2>1. b \in H /\ g \in H /\ C \in SUBSET Cell /\ Laid(heap.next, W, H, C)
        /\ i \in 1 .. Len(W[b]) /\ d \in 1 .. Len(W[b]) - i
        /\ k \in 1 .. Len(Rest(W, b, i, d, g)) /\ Rest(W, b, i, d, g)[k] # W[b][i]
    BY <1>1, <1>2 DEF Movable
  <2>2. heap' = Splice(heap, Rest(W, b, i, d, g)[k], W[b][i + 1], W[b][i + d])
    BY DEF SpliceOf
  <2> HIDE DEF C, H, W, M
  <2>3. Laid(Splice(heap, Rest(W, b, i, d, g)[k], W[b][i + 1], W[b][i + d]).next,
             MovedCells(W, H, b, i, d, g, k), H, C)
    BY <1>2, <2>1, SpliceMoves
  <2>4. QED
    BY <2>2, <2>3 DEF C, H, M, W
<1>4. \A h \in Heads \ {FreeHead, view[p], store[p]} : M[h] = Walks[h]
  BY DEF MovedCells, Rest
<1> HIDE DEF M, W, n
<1>5. /\ Layout' /\ Free' = Tail(M[FreeHead])
      /\ Listed' = [Listed EXCEPT ![p] = [view |-> M[view[p]], store |-> M[store[p]]]]
  BY <1>3, <1>4, SameHeads
<1>6. QED
  BY <1>5 DEF M, Leaves

\* The cells that a walk from a head meets are those of its list.
LEMMA InRing ==
    ASSUME Inv, Layout, NEW h \in Heads, NEW c
    PROVE  c \in Ring(h) <=> \E k \in 1 .. Len(Walks[h]) : Walks[h][k] = c
<1>1. Walk(h) = Walks[h] /\ Walks[h] \in Seq(Inside)
  BY RingFacts
<1>2. Ring(h) = {Walks[h][k] : k \in DOMAIN Walks[h]}
  BY <1>1 DEF Ring, Range
<1>3. DOMAIN Walks[h] = 1 .. Len(Walks[h])
  BY <1>1, LenProperties
<1>4. QED
  BY <1>2, <1>3

\* What an existing process has in module Lists.
LEMMA ListedAre ==
    ASSUME Inv, Layout, NEW p \in Process, Exists(p)
    PROVE  /\ p \in DOMAIN Listed
           /\ Listed[p] = [view |-> Walks[view[p]], store |-> Walks[store[p]]]
           /\ Free = Tail(Walks[FreeHead]) /\ Len(Free) = Len(Walks[FreeHead]) - 1
<1>1. FreeHead \in Heads /\ view[p] \in Heads /\ store[p] \in Heads
  BY HeadsOf DEF Layout
<1>2. \A h \in Heads : Walk(h) = Walks[h]
  BY RingFacts
<1>3. Walks[FreeHead] \in Seq(Inside) /\ Walks[FreeHead] # << >>
  BY <1>1, RingFacts
<1>4. Len(Tail(Walks[FreeHead])) = Len(Walks[FreeHead]) - 1
  BY <1>3, HeadTailProperties
<1>5. QED
  BY <1>1, <1>2, <1>4 DEF Listed, Free

\* The first count free cells are those behind the head, and putting them behind the k-th
\* cell of the list of g is a splice that moves them there.
Takes(g, k, count) ==
    LET last == Successor(heap, FreeHead, count)
    IN  /\ count < Len(Walks[FreeHead]) /\ last = Walks[FreeHead][1 + count]
        /\ Movable(FreeHead, 1, count, g, k)
        /\ InsertFromFreeMemory(heap, FreeHead, Walks[g][k], last)
              = SpliceOf(FreeHead, 1, count, g, k)

\* The first cells of a free list that has as many can be moved behind any place of a field.
LEMMA FreeTaken ==
    ASSUME Inv, Layout, NEW p \in Process, Exists(p), NEW g \in {view[p], store[p]},
           NEW k \in 1 .. Len(Walks[g]),
           NEW count \in Nat \ {0}, HasCells(heap, FreeHead, count)
    PROVE  Takes(g, k, count)
<1> DEFINE F == Walks[FreeHead]
<1>1. /\ FreeHead \in Heads /\ g \in Heads /\ g # FreeHead /\ view[p] # store[p]
      /\ view[p] # FreeHead /\ store[p] # FreeHead
      /\ view[p] \in Heads /\ store[p] \in Heads
  BY HeadsOf DEF Layout
<1>2. heap \in Heap /\ DoublyLinked(heap) /\ Inside \in SUBSET Cell
      /\ Laid(heap.next, Walks, Heads, Inside)
  BY RingFacts DEF Layout
<1>3. F \in Seq(Inside) /\ Len(F) \in Nat /\ Len(F) > 0 /\ F[1] = FreeHead
  BY <1>1, RingFacts
<1>4. count < Len(F) /\ Successor(heap, FreeHead, count) = F[1 + count]
  <2> DEFINE C == Inside
             H == Heads
             L == Walks
  <2> HIDE DEF C, H, L
  <2>1. /\ C \in SUBSET Cell /\ Laid(heap.next, L, H, C) /\ FreeHead \in H
        /\ count \in Nat /\ HasCells(heap, FreeHead, count) /\ heap \in Heap
    BY <1>1, <1>2 DEF C, H, L
  <2>2. Reaches(heap, L[FreeHead], FreeHead, count)
    BY <2>1, SuccessorIs
  <2>3. count + 1 = 1 + count
    OBVIOUS
  <2>4. QED
    BY <2>2, <2>3 DEF L, Reaches
<1>5. heap.next[FreeHead] = F[1 + 1]
  <2>1. Beside(heap, F)
    <3> DEFINE C == Inside
               H == Heads
               L == Walks
    <3> HIDE DEF C, H, L
    <3>1. C \in SUBSET Cell /\ Laid(heap.next, L, H, C) /\ FreeHead \in H
      BY <1>1, <1>2 DEF C, H, L
    <3>2. Beside(heap, L[FreeHead])
      BY <1>2, <3>1, Neighbours
    <3>3. QED
      BY <3>2 DEF L
  <2>2. 1 \in 1 .. Len(F) - 1
    BY <1>3, <1>4
  <2> HIDE DEF F
  <2>3. QED
    BY <1>3, <2>1, <2>2 DEF Beside
<1>6. Rest(Walks, FreeHead, 1, count, g) = Walks[g]
  BY <1>1 DEF Rest
<1>7. Walks[g][k] # F[1]
  <2>1. 1 \in 1 .. Len(F)
    BY <1>3
  <2>2. QED
    BY <1>1, <2>1, Together
<1>8. 1 \in 1 .. Len(F) /\ count \in 1 .. Len(F) - 1
  BY <1>3, <1>4
<1>9. Movable(FreeHead, 1, count, g, k)
  BY <1>6, <1>7, <1>8 DEF Movable
<1>10. InsertFromFreeMemory(heap, FreeHead, Walks[g][k], Successor(heap, FreeHead, count))
         = SpliceOf(FreeHead, 1, count, g, k)
  BY <1>4, <1>5, <1>6 DEF InsertFromFreeMemory, SpliceOf
<1>11. QED
  BY <1>4, <1>9, <1>10 DEF Takes

\* The first cells of the free list behind a cell of a list.
LEMMA FreeSplice ==
    ASSUME Inv, Inv', Layout, UNCHANGED <<view, store, memoryCount>>,
           NEW p \in Process, Exists(p), NEW g \in {view[p], store[p]},
           NEW k \in 1 .. Len(Walks[g]),
           NEW count \in Nat \ {0}, HasCells(heap, FreeHead, count),
           heap' = InsertFromFreeMemory(heap, FreeHead, Walks[g][k],
                                        Successor(heap, FreeHead, count))
    PROVE  LET taken == Inserted(Walks[g], k, SubSeq(Free, 1, count))
           IN  /\ Layout' /\ count <= Len(Free)
               /\ Free' = SubSeq(Free, count + 1, Len(Free))
               /\ Listed' = [Listed EXCEPT ![p] =
                    [view  |-> IF g = view[p] THEN taken ELSE Walks[view[p]],
                     store |-> IF g = store[p] THEN taken ELSE Walks[store[p]]]]
<1> DEFINE F == Walks[FreeHead]
           M == MovedCells(Walks, Heads, FreeHead, 1, count, g, k)
<1>1. /\ FreeHead \in Heads /\ g \in Heads /\ g # FreeHead /\ view[p] # store[p]
      /\ view[p] # FreeHead /\ store[p] # FreeHead
      /\ view[p] \in Heads /\ store[p] \in Heads
  BY HeadsOf DEF Layout
<1>3. F \in Seq(Inside) /\ Len(F) \in Nat /\ Len(F) > 0 /\ F[1] = FreeHead
  BY <1>1, RingFacts
<1>4. count < Len(F) /\ Movable(FreeHead, 1, count, g, k)
      /\ heap' = SpliceOf(FreeHead, 1, count, g, k)
  <2>1. Takes(g, k, count)
    BY FreeTaken
  <2>2. QED
    BY <2>1 DEF Takes
<1>8. 1 \in 1 .. Len(F) /\ count \in 1 .. Len(F) - 1
  BY <1>3, <1>4
<1>10. Leaves(p, M)
  <2>1. FreeHead \in {FreeHead, view[p], store[p]} /\ g \in {FreeHead, view[p], store[p]}
    OBVIOUS
  <2>2. Leaves(p, MovedCells(Walks, Heads, FreeHead, 1, count, g, k))
    BY <1>4, <2>1, SpliceStep
  <2>3. QED
    BY <2>2
<1>11. /\ M[FreeHead] = Outer(F, 1, count)
       /\ M[g] = Inserted(Walks[g], k, Inner(F, 1, count))
       /\ \A h \in Heads \ {FreeHead, g} : M[h] = Walks[h]
  BY <1>1 DEF MovedCells, Rest
<1> HIDE DEF F, M
<1>12. Free = Tail(F) /\ Len(Free) = Len(F) - 1
  BY ListedAre DEF F
<1>13. /\ Inner(F, 1, count) = SubSeq(Free, 1, count)
       /\ Tail(Outer(F, 1, count)) = SubSeq(Free, count + 1, Len(Free))
  BY <1>3, <1>8, <1>12, TakenParts
<1>14. count <= Len(Free)
  BY <1>3, <1>4, <1>12
<1>15. /\ M[view[p]] = IF g = view[p] THEN Inserted(Walks[g], k, SubSeq(Free, 1, count))
                       ELSE Walks[view[p]]
       /\ M[store[p]] = IF g = store[p] THEN Inserted(Walks[g], k, SubSeq(Free, 1, count))
                        ELSE Walks[store[p]]
  BY <1>1, <1>11, <1>13
<1>16. QED
  BY <1>10, <1>11, <1>13, <1>14, <1>15 DEF Leaves

\* The cells of the lists of p.
LEMMA InField ==
    ASSUME Inv, Layout, NEW p \in Process, Exists(p), NEW c \in Field(p)
    PROVE  \E g \in {view[p], store[p]} : \E k \in 1 .. Len(Walks[g]) : Walks[g][k] = c
<1>1. view[p] \in Heads /\ store[p] \in Heads
  BY HeadsOf DEF Layout
<1>2. c \in Ring(view[p]) \/ c \in Ring(store[p])
  BY DEF Field
<1>3. QED
  BY <1>1, <1>2, InRing

\* A list inserted in the code is a list inserted in the abstract lists.
LEMMA InsertLists ==
    ASSUME Inv, Inv', Layout, NEW p \in Process, Exists(p), Insert(p)
    PROVE  Layout' /\ \E f \in Abstract!Fields : Abstract!Insert(p, f)
<1>1. PICK last \in Allocated, count \in 1 .. memoryCount :
         \E where \in Allocated \ {last} :
            /\ where \in Field(p)
            /\ HasCells(heap, FreeHead, count)
            /\ last = Successor(heap, FreeHead, count)
            /\ heap' = InsertFromFreeMemory(heap, FreeHead, where, last)
            /\ UNCHANGED <<blockCount, memoryCount, view, store, dot>>
  BY DEF Insert
<1>2. PICK where \in Field(p) :
            /\ HasCells(heap, FreeHead, count)
            /\ heap' = InsertFromFreeMemory(heap, FreeHead, where,
                                            Successor(heap, FreeHead, count))
            /\ UNCHANGED <<blockCount, memoryCount, view, store, dot>>
  BY <1>1
<1>3. PICK g \in {view[p], store[p]} : \E k \in 1 .. Len(Walks[g]) : Walks[g][k] = where
  BY InField
<1>4. PICK k \in 1 .. Len(Walks[g]) : Walks[g][k] = where
  BY <1>3
<1>5. count \in Nat \ {0}
  BY CountNat DEF Inv
<1> DEFINE taken == Inserted(Walks[g], k, SubSeq(Free, 1, count))
           part  == Abstract!Prefix(Walks[g], k) \o Abstract!Prefix(Free, count)
                       \o Abstract!Suffix(Walks[g], k)
<1>6. /\ Layout' /\ count <= Len(Free)
      /\ Free' = SubSeq(Free, count + 1, Len(Free))
      /\ Listed' = [Listed EXCEPT ![p] =
                      [view  |-> IF g = view[p] THEN taken ELSE Walks[view[p]],
                       store |-> IF g = store[p] THEN taken ELSE Walks[store[p]]]]
  BY <1>2, <1>4, <1>5, FreeSplice
<1>7. /\ view[p] \in Heads /\ store[p] \in Heads /\ FreeHead \in Heads /\ view[p] # store[p]
  BY HeadsOf DEF Layout
<1>8. /\ p \in DOMAIN Listed
      /\ Listed[p] = [view |-> Walks[view[p]], store |-> Walks[store[p]]]
      /\ Len(Free) = Len(Walks[FreeHead]) - 1 /\ Free = Tail(Walks[FreeHead])
  BY ListedAre
<1>9. Walks[g] \in Seq(Inside) /\ Walks[FreeHead] \in Seq(Inside) /\ Walks[FreeHead] # << >>
      /\ Len(Walks[FreeHead]) \in Nat
  BY <1>7, RingFacts
<1>10. Free \in Seq(Inside) /\ Len(Free) \in Nat
  BY <1>8, <1>9, HeadTailProperties
<1>11. SubSeq(Free, 1, count) \in Seq(Inside)
  <2>1. 0 \in 0 .. Len(Free) /\ count \in 0 .. Len(Free) /\ 0 + 1 = 1
    BY <1>5, <1>6, <1>10
  <2>2. SubSeq(Free, 0 + 1, count) \in Seq(Inside)
    BY <1>10, <2>1, Section
  <2>3. QED
    BY <2>1, <2>2
<1>12. taken = part
  BY <1>9, <1>11, InsertedParts DEF Abstract!Prefix, Abstract!Suffix
<1>13. Free' = Abstract!Suffix(Free, count)
  BY <1>6 DEF Abstract!Suffix
<1>14. k \in 1 .. Len(Walks[g]) /\ count \in 1 .. Len(Free)
  BY <1>5, <1>6, <1>10
<1> HIDE DEF taken, part
<1>15. CASE g = view[p]
  <2>1. Listed' = [Listed EXCEPT ![p] = [view |-> part, store |-> Walks[store[p]]]]
    BY <1>6, <1>7, <1>12, <1>15
  <2>2. FieldsAre(Listed, p, Walks[view[p]], Walks[store[p]], part)
    BY <1>8, OneField
  <2>3. Listed[p]["view"] = Walks[g] /\ Listed' = [Listed EXCEPT ![p]["view"] = part]
    BY <1>15, <2>1, <2>2 DEF FieldsAre
  <2>4. Abstract!Insert(p, "view")
    BY <1>13, <1>14, <2>3 DEF Abstract!Insert, part
  <2>5. QED
    BY <1>6, <2>4 DEF Abstract!Fields
<1>16. CASE g = store[p]
  <2>1. Listed' = [Listed EXCEPT ![p] = [view |-> Walks[view[p]], store |-> part]]
    BY <1>6, <1>7, <1>12, <1>16
  <2>2. FieldsAre(Listed, p, Walks[view[p]], Walks[store[p]], part)
    BY <1>8, OneField
  <2>3. Listed[p]["store"] = Walks[g] /\ Listed' = [Listed EXCEPT ![p]["store"] = part]
    BY <1>16, <2>1, <2>2 DEF FieldsAre
  <2>4. Abstract!Insert(p, "store")
    BY <1>13, <1>14, <2>3 DEF Abstract!Insert, part
  <2>5. QED
    BY <1>6, <2>4 DEF Abstract!Fields
<1>17. QED
  BY <1>15, <1>16

\* Where a segment lies in a ring, and what the pointers at its two ends are.
SegmentAt(h, s, i, j) ==
    LET ring == Walks[h]
    IN  /\ i \in 1 .. Len(ring) /\ j \in i + 1 .. Len(ring) + 1
        /\ s[1] = ring[i]
        /\ s[2] = IF j = Len(ring) + 1 THEN h ELSE ring[j]
        /\ heap.next[s[1]] = IF i = Len(ring) THEN h ELSE ring[i + 1]
        /\ heap.previous[s[2]] = ring[j - 1]
        /\ heap.next[s[1]] = s[2] <=> j = i + 1

\* The cells strictly between two cells of a field stand between two of its places.
LEMMA SegmentIs ==
    ASSUME Inv, Layout, NEW h \in Heads, NEW s \in Segments(h)
    PROVE  \E i, j \in Nat : SegmentAt(h, s, i, j)
<1> DEFINE ring == Walks[h]
           l == Len(ring)
<1>1. heap \in Heap /\ DoublyLinked(heap) /\ Inside \in SUBSET Cell
      /\ Laid(heap.next, Walks, Heads, Inside) /\ Walk(h) = ring
  BY RingFacts DEF Layout
<1>2. ring \in Seq(Inside) /\ l \in Nat /\ l > 0 /\ ring[1] = h
  BY RingFacts
<1>3. DOMAIN ring = 1 .. l
  BY <1>2
<1>4. PICK i \in 1 .. l : /\ s[1] = ring[i]
                          /\ s[2] = h \/ \E j \in i + 1 .. l : s[2] = ring[j]
  BY <1>1, <1>3 DEF Segments
<1>5. Beside(heap, ring)
  <2> DEFINE C == Inside
             H == Heads
             L == Walks
  <2> HIDE DEF C, H, L, ring
  <2>1. C \in SUBSET Cell /\ Laid(heap.next, L, H, C) /\ h \in H
    BY <1>1 DEF C, H, L
  <2>2. Beside(heap, L[h])
    BY <1>1, <2>1, Neighbours
  <2>3. QED
    BY <2>2 DEF L, ring
<1>6. /\ \A a \in 1 .. l - 1 : heap.next[ring[a]] = ring[a + 1] /\ heap.previous[ring[a + 1]] = ring[a]
      /\ heap.next[ring[l]] = h /\ heap.previous[h] = ring[l]
  BY <1>2, <1>5 DEF Beside
<1>7. \A a, b \in 1 .. l : ring[a] = ring[b] => a = b
  BY Together
<1> HIDE DEF ring, l
<1>8. heap.next[s[1]] = IF i = l THEN h ELSE ring[i + 1]
  <2>1. i # l => i \in 1 .. l - 1
    BY <1>2
  <2>2. QED
    BY <1>4, <1>6, <2>1
<1>9. \E j \in i + 1 .. l + 1 :
         /\ s[2] = IF j = l + 1 THEN h ELSE ring[j]
         /\ heap.previous[s[2]] = ring[j - 1]
  <2>1. CASE s[2] = h
    <3>1. l + 1 \in i + 1 .. l + 1 /\ (l + 1) - 1 = l
      BY <1>2
    <3>2. QED
      BY <1>6, <2>1, <3>1
  <2>2. CASE \E j \in i + 1 .. l : s[2] = ring[j]
    <3>1. PICK j \in i + 1 .. l : s[2] = ring[j]
      BY <2>2
    <3>2. j \in i + 1 .. l + 1 /\ j # l + 1 /\ j - 1 \in 1 .. l - 1 /\ (j - 1) + 1 = j
      BY <1>2
    <3>3. QED
      BY <1>6, <3>1, <3>2
  <2>3. QED
    BY <1>4, <2>1, <2>2
<1>10. PICK j \in i + 1 .. l + 1 :
         /\ s[2] = IF j = l + 1 THEN h ELSE ring[j]
         /\ heap.previous[s[2]] = ring[j - 1]
  BY <1>9
<1>11. heap.next[s[1]] = s[2] <=> j = i + 1
  <2>1. CASE j = i + 1
    BY <1>2, <1>8, <1>10, <2>1
  <2>2. CASE j # i + 1
    <3>1. i # l /\ i + 1 \in 1 .. l /\ i + 1 # 1 /\ 1 \in 1 .. l
          /\ (j # l + 1 => j \in 1 .. l)
      BY <1>2, <2>2
    <3>2. heap.next[s[1]] = ring[i + 1]
      BY <1>8, <3>1
    <3>3. ring[i + 1] # ring[1] /\ (j # l + 1 => ring[i + 1] # ring[j])
      BY <1>7, <2>2, <3>1
    <3>4. QED
      BY <1>2, <1>10, <2>2, <3>2, <3>3
  <2>3. QED
    BY <2>1, <2>2
<1>12. i \in Nat /\ j \in Nat
  BY <1>2
<1>13. SegmentAt(h, s, i, j)
  BY <1>4, <1>8, <1>10, <1>11 DEF SegmentAt, ring, l
<1>14. QED
  BY <1>12, <1>13

\* Nothing is moved.
LEMMA Idle ==
    ASSUME Layout, UNCHANGED <<heap, view, store, memoryCount>>
    PROVE  Layout' /\ Free' = Free /\ Listed' = Listed
<1>1. \A h : Walk(h)' = Walk(h)
  BY DEF Walk
<1>2. Heads' = Heads /\ Inside' = Inside /\ \A p \in Process : Exists(p)' = Exists(p)
  BY DEF Heads, Inside, Allocated, Exists
<1>3. Walks' = Walks
  BY <1>1, <1>2 DEF Walks
<1>4. Layout'
  BY <1>2, <1>3 DEF Layout, HeadsApart
<1>5. Free' = Free
  BY <1>1 DEF Free
<1>6. Listed' = Listed
  BY <1>1, <1>2 DEF Listed
<1>7. QED
  BY <1>4, <1>5, <1>6

\* The list with the head b is the field f of process p, and what the lists become
\* when that field is replaced by e ...
Named(p, b, f, e) ==
    /\ Listed[p][f] = Walks[b]
    /\ [Listed EXCEPT ![p][f] = e] =
       [Listed EXCEPT ![p] = [view  |-> IF b = view[p] THEN e ELSE Walks[view[p]],
                              store |-> IF b = store[p] THEN e ELSE Walks[store[p]]]]
\* ... and then the list with the head c, in field g, by o.
NamedTwo(p, b, f, e, c, g, o) ==
    LET cut == [Listed[p] EXCEPT ![f] = e]
    IN  /\ cut[g] = IF b = c THEN e ELSE Walks[c]
        /\ [Listed EXCEPT ![p] = [cut EXCEPT ![g] = o]] =
           [Listed EXCEPT ![p] =
              [view  |-> IF c = view[p] THEN o ELSE IF b = view[p] THEN e ELSE Walks[view[p]],
               store |-> IF c = store[p] THEN o ELSE IF b = store[p] THEN e ELSE Walks[store[p]]]]

\* A head of a process is the view field or the burial store of its abstract lists.
LEMMA FieldNamed ==
    ASSUME Inv, Layout, NEW p \in Process, Exists(p), NEW b \in {view[p], store[p]}
    PROVE  \E f \in Abstract!Fields : \A e : Named(p, b, f, e)
<1>1. p \in DOMAIN Listed /\ Listed[p] = [view |-> Walks[view[p]], store |-> Walks[store[p]]]
  BY ListedAre
<1>2. view[p] # store[p]
  BY HeadsOf DEF Layout
<1>3. \A e : FieldsAre(Listed, p, Walks[view[p]], Walks[store[p]], e)
  BY <1>1, OneField
<1>4. ASSUME b = view[p], NEW e PROVE Named(p, b, "view", e)
  <2>1. /\ Listed[p]["view"] = Walks[view[p]]
        /\ [Listed EXCEPT ![p]["view"] = e] = [Listed EXCEPT ![p] = [view |-> e, store |-> Walks[store[p]]]]
    BY <1>3 DEF FieldsAre
  <2>2. QED
    BY <1>2, <1>4, <2>1 DEF Named
<1>5. ASSUME b = store[p], NEW e PROVE Named(p, b, "store", e)
  <2>1. /\ Listed[p]["store"] = Walks[store[p]]
        /\ [Listed EXCEPT ![p]["store"] = e] = [Listed EXCEPT ![p] = [view |-> Walks[view[p]], store |-> e]]
    BY <1>3 DEF FieldsAre
  <2>2. QED
    BY <1>2, <1>5, <2>1 DEF Named
<1>6. QED
  BY <1>4, <1>5 DEF Abstract!Fields

\* So are two of its heads, be they the same or not.
LEMMA FieldsNamed ==
    ASSUME Inv, Layout, NEW p \in Process, Exists(p),
           NEW b \in {view[p], store[p]}, NEW c \in {view[p], store[p]}
    PROVE  \E f \in Abstract!Fields : \E g \in Abstract!Fields :
              Listed[p][f] = Walks[b] /\ \A e, o : NamedTwo(p, b, f, e, c, g, o)
<1>1. p \in DOMAIN Listed /\ Listed[p] = [view |-> Walks[view[p]], store |-> Walks[store[p]]]
  BY ListedAre
<1>2. view[p] # store[p]
  BY HeadsOf DEF Layout
<1> DEFINE l == Listed[p]
           v == Walks[view[p]]
           s == Walks[store[p]]
<1> HIDE DEF l, v, s
<1>3. l = [view |-> v, store |-> s]
  BY <1>1 DEF l, v, s
<1>5. l["view"] = v /\ l["store"] = s
  BY <1>3
<1>6. ASSUME NEW e, NEW o
      PROVE  /\ b = view[p] /\ c = view[p] => NamedTwo(p, b, "view", e, c, "view", o)
             /\ b = view[p] /\ c = store[p] => NamedTwo(p, b, "view", e, c, "store", o)
             /\ b = store[p] /\ c = view[p] => NamedTwo(p, b, "store", e, c, "view", o)
             /\ b = store[p] /\ c = store[p] => NamedTwo(p, b, "store", e, c, "store", o)
  <2> DEFINE onView  == [l EXCEPT !["view"] = e]
             onStore == [l EXCEPT !["store"] = e]
  <2>1. onView = [view |-> e, store |-> s] /\ onStore = [view |-> v, store |-> e]
    <3>1. onView = [view |-> e, store |-> s]
      BY <1>3
    <3>2. onStore = [view |-> v, store |-> e]
      BY <1>3
    <3>3. QED
      BY <3>1, <3>2
  <2> HIDE DEF onView, onStore
  <2>2. /\ onView["view"] = e /\ onView["store"] = s
        /\ onStore["view"] = v /\ onStore["store"] = e
    BY <2>1
  <2>3. /\ [onView EXCEPT !["view"] = o] = [view |-> o, store |-> s]
        /\ [onView EXCEPT !["store"] = o] = [view |-> e, store |-> o]
    <3>1. [onView EXCEPT !["view"] = o] = [view |-> o, store |-> s]
      BY <2>1
    <3>2. [onView EXCEPT !["store"] = o] = [view |-> e, store |-> o]
      BY <2>1
    <3>3. QED
      BY <3>1, <3>2
  <2>4. /\ [onStore EXCEPT !["view"] = o] = [view |-> o, store |-> e]
        /\ [onStore EXCEPT !["store"] = o] = [view |-> v, store |-> o]
    <3>1. [onStore EXCEPT !["view"] = o] = [view |-> o, store |-> e]
      BY <2>1
    <3>2. [onStore EXCEPT !["store"] = o] = [view |-> v, store |-> o]
      BY <2>1
    <3>3. QED
      BY <3>1, <3>2
  <2>5. b = view[p] /\ c = view[p] => NamedTwo(p, b, "view", e, c, "view", o)
    BY <1>2, <2>2, <2>3 DEF NamedTwo, l, v, s, onView
  <2>6. b = view[p] /\ c = store[p] => NamedTwo(p, b, "view", e, c, "store", o)
    BY <1>2, <2>2, <2>3 DEF NamedTwo, l, v, s, onView
  <2>7. b = store[p] /\ c = view[p] => NamedTwo(p, b, "store", e, c, "view", o)
    BY <1>2, <2>2, <2>4 DEF NamedTwo, l, v, s, onStore
  <2>8. b = store[p] /\ c = store[p] => NamedTwo(p, b, "store", e, c, "store", o)
    BY <1>2, <2>2, <2>4 DEF NamedTwo, l, v, s, onStore
  <2>9. QED
    BY <2>5, <2>6, <2>7, <2>8
<1>7. QED
  BY <1>5, <1>6 DEF Abstract!Fields, l, v, s

\* Freeing a segment of a list moves it behind the last free cell.
LEMMA ReleaseLists ==
    ASSUME Inv, Inv', Layout, NEW p \in Process, Exists(p), Release(p)
    PROVE  Layout' /\ (\/ \E f \in Abstract!Fields : Abstract!Release(p, f)
                       \/ UNCHANGED <<Free, Listed>>)
<1>1. /\ FreeHead \in Heads /\ view[p] \in Heads /\ store[p] \in Heads
      /\ view[p] # FreeHead /\ store[p] # FreeHead /\ view[p] # store[p]
  BY HeadsOf DEF Layout
<1>2. PICK b \in {view[p], store[p]} : \E s \in Segments(b) :
        /\ s[1] # heap.previous[FreeHead]
        /\ heap' = InsertToFreeMemory(heap, FreeHead, s[1], s[2])
        /\ UNCHANGED <<blockCount, memoryCount, view, store, dot>>
  BY DEF Release, Open
<1>3. PICK s \in Segments(b) :
        /\ s[1] # heap.previous[FreeHead]
        /\ heap' = InsertToFreeMemory(heap, FreeHead, s[1], s[2])
        /\ UNCHANGED <<blockCount, memoryCount, view, store, dot>>
  BY <1>2
<1>4. b \in Heads /\ b # FreeHead
  BY <1>1
<1>5. PICK i \in Nat : \E j \in Nat : SegmentAt(b, s, i, j)
  BY <1>4, SegmentIs
<1>6. PICK j \in Nat : SegmentAt(b, s, i, j)
  BY <1>5
<1> DEFINE ring == Walks[b]
           F == Walks[FreeHead]
           d == (j - i) - 1
           k == Len(F)
           M == MovedCells(Walks, Heads, b, i, d, FreeHead, k)
           inner == SubSeq(ring, i + 1, j - 1)
           outer == Abstract!Prefix(ring, i) \o Abstract!Suffix(ring, j - 1)
<1>7. /\ i \in 1 .. Len(ring) /\ j \in i + 1 .. Len(ring) + 1 /\ s[1] = ring[i]
      /\ heap.next[s[1]] = IF i = Len(ring) THEN b ELSE ring[i + 1]
      /\ heap.previous[s[2]] = ring[j - 1]
      /\ heap.next[s[1]] = s[2] <=> j = i + 1
  BY <1>6 DEF SegmentAt
<1>8. /\ ring \in Seq(Inside) /\ Len(ring) \in Nat
      /\ F \in Seq(Inside) /\ k \in Nat /\ k > 0
  BY <1>1, <1>4, RingFacts
<1>9. CASE j = i + 1
  <2>1. heap' = heap
    BY <1>3, <1>7, <1>9 DEF InsertToFreeMemory
  <2>2. QED
    BY <1>3, <2>1, Idle
<1>10. CASE j # i + 1
  <2>1. /\ d \in 1 .. Len(ring) - i /\ i # Len(ring) /\ i + d = j - 1 /\ (i + d) + 1 = (j - 1) + 1
        /\ i + 1 < j /\ j \in 1 .. Len(ring) + 1 /\ i \in 1 .. Len(ring) + 1
        /\ i \in 0 .. Len(ring) /\ j - 1 \in i .. Len(ring) /\ j - 1 \in 0 .. Len(ring)
    BY <1>7, <1>8, <1>10
  <2>2. heap.previous[FreeHead] = F[k]
    <3>1. Beside(heap, F)
      <4> DEFINE C == Inside
                 H == Heads
                 L == Walks
      <4>1. C \in SUBSET Cell /\ Laid(heap.next, L, H, C) /\ FreeHead \in H
            /\ heap \in Heap /\ DoublyLinked(heap)
        BY <1>1, RingFacts DEF Layout
      <4> HIDE DEF C, H, L
      <4>2. Beside(heap, L[FreeHead])
        BY <4>1, Neighbours
      <4>3. QED
        BY <4>2 DEF L
    <3>2. F[1] = FreeHead
      BY <1>1, RingFacts
    <3> HIDE DEF F
    <3>3. QED
      BY <3>1, <3>2 DEF Beside
  <2>3. heap' = Splice(heap, F[k], ring[i + 1], ring[i + d])
    BY <1>3, <1>7, <1>10, <2>1, <2>2 DEF InsertToFreeMemory
  <2>4. Rest(Walks, b, i, d, FreeHead) = F
    BY <1>4 DEF Rest
  <2>5. F[k] # ring[i]
    BY <1>3, <1>7, <2>2
  <2>6. Movable(b, i, d, FreeHead, k) /\ heap' = SpliceOf(b, i, d, FreeHead, k)
    <3>1. k \in 1 .. Len(F)
      BY <1>8
    <3> HIDE DEF k, d
    <3>2. Movable(b, i, d, FreeHead, k)
      BY <1>7, <2>1, <2>4, <2>5, <3>1 DEF Movable
    <3>3. heap' = SpliceOf(b, i, d, FreeHead, k)
      BY <2>3, <2>4 DEF SpliceOf
    <3>4. QED
      BY <3>2, <3>3
  <2>7. Leaves(p, M)
    <3>1. b \in {FreeHead, view[p], store[p]} /\ FreeHead \in {FreeHead, view[p], store[p]}
      OBVIOUS
    <3>2. Leaves(p, MovedCells(Walks, Heads, b, i, d, FreeHead, k))
      BY <1>3, <2>6, <3>1, SpliceStep
    <3>3. QED
      BY <3>2
  <2>8. /\ M[FreeHead] = Inserted(F, k, Inner(ring, i, d))
        /\ M[b] = Outer(ring, i, d)
        /\ \A h \in Heads \ {FreeHead, b} : M[h] = Walks[h]
    BY <1>1, <1>4 DEF MovedCells, Rest
  <2>9. Inner(ring, i, d) = inner /\ Outer(ring, i, d) = outer
    BY <1>7, <1>8, <2>1, InnerParts, OuterParts DEF Abstract!Prefix, Abstract!Suffix
  <2>10. inner \in Seq(Inside)
    <3> HIDE DEF ring
    <3>1. SubSeq(ring, i + 1, j - 1) \in Seq(Inside)
      BY <1>8, <2>1, Section
    <3>2. QED
      BY <3>1
  <2> HIDE DEF F, M, inner, outer
  <2>11. Tail(M[FreeHead]) = Tail(F) \o inner
    <3>1. Inserted(F, Len(F), inner) = F \o inner /\ Tail(F \o inner) = Tail(F) \o inner
      BY <1>8, <2>10, AppendedParts
    <3>2. QED
      BY <2>8, <2>9, <3>1
  <2>12. Free' = Free \o inner
    BY <2>7, <2>11, ListedAre DEF Leaves, F
  <2>13. Listed' = [Listed EXCEPT ![p] =
                      [view  |-> IF b = view[p] THEN outer ELSE Walks[view[p]],
                       store |-> IF b = store[p] THEN outer ELSE Walks[store[p]]]]
    BY <1>1, <2>7, <2>8, <2>9 DEF Leaves
  <2>14. PICK f \in Abstract!Fields : Named(p, b, f, outer)
    BY FieldNamed
  <2>15. Listed[p][f] = ring /\ Listed' = [Listed EXCEPT ![p][f] = outer]
    BY <2>13, <2>14 DEF Named
  <2>16. Abstract!Release(p, f)
    BY <2>1, <2>12, <2>15 DEF Abstract!Release, inner, outer
  <2>17. QED
    BY <2>7, <2>16 DEF Leaves
<1>11. QED
  BY <1>9, <1>10

\* A cell of a list of p that is not between s[1] and s[2] is one of those that stay.
Stays(p, b, i, d, where) ==
    \E c \in {view[p], store[p]} :
       \E k \in 1 .. Len(Rest(Walks, b, i, d, c)) : Rest(Walks, b, i, d, c)[k] = where

\* A place outside a part that is taken away stays in the field, at a place that is known.
LEMMA StaysAt ==
    ASSUME Inv, Layout, NEW p \in Process, Exists(p), NEW b \in {view[p], store[p]},
           NEW s, NEW i \in Nat, NEW j \in Nat, SegmentAt(b, s, i, j), j # i + 1,
           NEW where \in Field(p) \ Between(b, s)
    PROVE  Stays(p, b, i, (j - i) - 1, where)
<1>1. PICK c \in {view[p], store[p]} : \E m \in 1 .. Len(Walks[c]) : Walks[c][m] = where
  BY InField
<1>2. PICK m \in 1 .. Len(Walks[c]) : Walks[c][m] = where
  BY <1>1
<1>3. b \in Heads /\ c \in Heads
  BY HeadsOf DEF Layout
<1> DEFINE ring == Walks[b]
           d == (j - i) - 1
<1>4. /\ i \in 1 .. Len(ring) /\ j \in i + 1 .. Len(ring) + 1
      /\ s[1] = ring[i] /\ s[2] = IF j = Len(ring) + 1 THEN b ELSE ring[j]
  BY DEF SegmentAt
<1>5. ring \in Seq(Inside) /\ Len(ring) \in Nat /\ Walk(b) = ring
  BY <1>3, RingFacts
<1>6. CASE c # b
  BY <1>2, <1>6 DEF Rest, Stays
<1>7. CASE c = b
  <2>1. ~(i < m /\ m < j)
    <3> SUFFICES ASSUME i < m, m < j PROVE FALSE
      OBVIOUS
    <3>1. m \in DOMAIN ring /\ i \in 1 .. m - 1
      BY <1>2, <1>4, <1>5, <1>7
    <3>2. s[2] = b \/ \E a \in m + 1 .. Len(ring) : ring[a] = s[2]
      <4>1. j # Len(ring) + 1 => j \in m + 1 .. Len(ring)
        BY <1>2, <1>4, <1>5, <1>7
      <4>2. QED
        BY <1>4, <4>1
    <3>3. ring[m] \in Between(b, s)
      BY <1>4, <1>5, <3>1, <3>2 DEF Between
    <3>4. QED
      BY <1>2, <1>7, <3>3
  <2>2. d \in 1 .. Len(ring) - i
    BY <1>4, <1>5
  <2>3. /\ Len(Outer(ring, i, d)) = Len(ring) - d
        /\ \A k \in 1 .. i : Outer(ring, i, d)[k] = ring[k]
        /\ \A k \in i + 1 .. Len(ring) - d : Outer(ring, i, d)[k] = ring[k + d]
    <3> HIDE DEF ring, d
    <3>1. QED
      BY <1>4, <1>5, <2>2, OuterIs
  <2>4. Rest(Walks, b, i, d, c) = Outer(ring, i, d)
    BY <1>7 DEF Rest
  <2> DEFINE o == Outer(ring, i, d)
  <2> HIDE DEF o
  <2>5. \E k \in 1 .. Len(o) : o[k] = where
    <3>1. CASE m <= i
      <4>1. m \in 1 .. i /\ m \in 1 .. Len(ring) - d
        BY <1>2, <1>4, <1>5, <1>7, <2>2, <3>1
      <4>2. QED
        BY <1>2, <1>7, <2>3, <4>1 DEF o
    <3>2. CASE m >= j
      <4>1. m - d \in i + 1 .. Len(ring) - d /\ m - d \in 1 .. Len(ring) - d /\ (m - d) + d = m
        <5>1. m \in 1 .. Len(ring)
          BY <1>2, <1>7
        <5> HIDE DEF ring
        <5>2. QED
          BY <1>4, <1>5, <2>2, <3>2, <5>1
      <4>2. QED
        BY <1>2, <1>7, <2>3, <4>1 DEF o
    <3>3. QED
      BY <1>2, <1>4, <1>5, <1>7, <2>1, <3>1, <3>2
  <2>6. QED
    BY <2>4, <2>5 DEF o, d, Stays
<1>8. QED
  BY <1>6, <1>7 DEF d, Stays

\* Moving a segment of a list puts it behind a cell of a list of the same process.
LEMMA MoveLists ==
    ASSUME Inv, Inv', Layout, NEW p \in Process, Exists(p), Move(p)
    PROVE  Layout' /\ (\/ \E f \in Abstract!Fields : \E g \in Abstract!Fields : Abstract!Move(p, f, g)
                       \/ UNCHANGED <<Free, Listed>>)
<1>1. /\ FreeHead \in Heads /\ view[p] \in Heads /\ store[p] \in Heads
      /\ view[p] # FreeHead /\ store[p] # FreeHead /\ view[p] # store[p]
  BY HeadsOf DEF Layout
<1>2. PICK b \in {view[p], store[p]} : \E s \in Segments(b) : \E where \in Allocated :
        /\ where \in (Field(p) \ Between(b, s)) \cup {heap.previous[s[2]]}
        /\ heap' = Transplantation(heap, where, s[1], s[2])
        /\ UNCHANGED <<blockCount, memoryCount, view, store, dot>>
  BY DEF Move, Open
<1>3. PICK s \in Segments(b) : \E where \in Allocated :
        /\ where \in (Field(p) \ Between(b, s)) \cup {heap.previous[s[2]]}
        /\ heap' = Transplantation(heap, where, s[1], s[2])
        /\ UNCHANGED <<blockCount, memoryCount, view, store, dot>>
  BY <1>2
<1>4. PICK where \in Allocated :
        /\ where \in (Field(p) \ Between(b, s)) \cup {heap.previous[s[2]]}
        /\ heap' = Transplantation(heap, where, s[1], s[2])
        /\ UNCHANGED <<blockCount, memoryCount, view, store, dot>>
  BY <1>3
<1>5. b \in Heads /\ b # FreeHead
  BY <1>1
<1>6. PICK i \in Nat : \E j \in Nat : SegmentAt(b, s, i, j)
  BY <1>5, SegmentIs
<1>7. PICK j \in Nat : SegmentAt(b, s, i, j)
  BY <1>6
<1> DEFINE ring == Walks[b]
           d == (j - i) - 1
           inner == SubSeq(ring, i + 1, j - 1)
           outer == Abstract!Prefix(ring, i) \o Abstract!Suffix(ring, j - 1)
<1>8. /\ i \in 1 .. Len(ring) /\ j \in i + 1 .. Len(ring) + 1 /\ s[1] = ring[i]
      /\ heap.next[s[1]] = IF i = Len(ring) THEN b ELSE ring[i + 1]
      /\ heap.previous[s[2]] = ring[j - 1]
      /\ heap.next[s[1]] = s[2] <=> j = i + 1
  BY <1>7 DEF SegmentAt
<1>9. ring \in Seq(Inside) /\ Len(ring) \in Nat
  BY <1>5, RingFacts
<1>10. CASE j = i + 1 \/ where \in {s[1], heap.previous[s[2]]}
  <2>1. heap' = heap
    BY <1>4, <1>8, <1>10 DEF Transplantation
  <2>2. QED
    BY <1>4, <2>1, Idle
<1>11. CASE ~(j = i + 1 \/ where \in {s[1], heap.previous[s[2]]})
  <2>1. /\ d \in 1 .. Len(ring) - i /\ i # Len(ring) /\ i + d = j - 1 /\ (i + d) + 1 = (j - 1) + 1
        /\ i + 1 < j /\ j \in 1 .. Len(ring) + 1 /\ i \in 1 .. Len(ring) + 1
        /\ i \in 0 .. Len(ring) /\ j - 1 \in i .. Len(ring) /\ j - 1 \in 0 .. Len(ring)
    <3>1. j # i + 1
      BY <1>11
    <3> DEFINE l == Len(ring)
    <3>2. l \in Nat /\ i \in 1 .. l /\ j \in i + 1 .. l + 1
      BY <1>8, <1>9
    <3> HIDE DEF l
    <3>3. /\ d \in 1 .. l - i /\ i # l /\ i + d = j - 1 /\ (i + d) + 1 = (j - 1) + 1
          /\ i + 1 < j /\ j \in 1 .. l + 1 /\ i \in 1 .. l + 1
          /\ i \in 0 .. l /\ j - 1 \in i .. l /\ j - 1 \in 0 .. l
      BY <3>1, <3>2
    <3>4. QED
      BY <3>3 DEF l
  <2>2. where \in Field(p) \ Between(b, s)
    BY <1>4, <1>11
  <2>3. PICK c \in {view[p], store[p]} :
           \E k \in 1 .. Len(Rest(Walks, b, i, d, c)) : Rest(Walks, b, i, d, c)[k] = where
    <3>1. j # i + 1
      BY <1>11
    <3>2. Stays(p, b, i, (j - i) - 1, where)
      BY <1>7, <2>2, <3>1, StaysAt
    <3>3. QED
      BY <3>2 DEF Stays
  <2>4. PICK k \in 1 .. Len(Rest(Walks, b, i, d, c)) : Rest(Walks, b, i, d, c)[k] = where
    BY <2>3
  <2> DEFINE M == MovedCells(Walks, Heads, b, i, d, c, k)
             rest == Rest(Walks, b, i, d, c)
             o == Abstract!Prefix(rest, k) \o inner \o Abstract!Suffix(rest, k)
  <2>5. heap' = Splice(heap, rest[k], ring[i + 1], ring[i + d])
    BY <1>4, <1>8, <1>11, <2>1, <2>4 DEF Transplantation
  <2>6. Movable(b, i, d, c, k) /\ heap' = SpliceOf(b, i, d, c, k)
    <3> HIDE DEF d
    <3>1. Movable(b, i, d, c, k)
      BY <1>8, <1>11, <2>1, <2>4 DEF Movable
    <3>2. heap' = SpliceOf(b, i, d, c, k)
      BY <2>5 DEF SpliceOf
    <3>3. QED
      BY <3>1, <3>2
  <2>7. Leaves(p, M)
    <3>1. b \in {FreeHead, view[p], store[p]} /\ c \in {FreeHead, view[p], store[p]}
      OBVIOUS
    <3>2. Leaves(p, MovedCells(Walks, Heads, b, i, d, c, k))
      BY <1>4, <2>6, <3>1, SpliceStep
    <3>3. QED
      BY <3>2
  <2>8. c \in Heads /\ c # FreeHead
    BY <1>1
  <2>9. Inner(ring, i, d) = inner /\ Outer(ring, i, d) = outer
    BY <1>8, <1>9, <2>1, InnerParts, OuterParts DEF Abstract!Prefix, Abstract!Suffix
  <2>10. inner \in Seq(Inside)
    <3> HIDE DEF ring
    <3>1. SubSeq(ring, i + 1, j - 1) \in Seq(Inside)
      BY <1>9, <2>1, Section
    <3>2. QED
      BY <3>1
  <2>11. rest = IF b = c THEN outer ELSE Walks[c]
    BY <2>9 DEF Rest
  <2>12. rest \in Seq(Inside)
    <3>1. Outer(ring, i, d) \in Seq(Inside)
      <4> HIDE DEF d, ring
      <4>1. QED
        BY <1>8, <1>9, <2>1, OuterIs
    <3>2. Walks[c] \in Seq(Inside)
      BY <2>8, RingFacts
    <3>3. QED
      BY <3>1, <3>2 DEF Rest
  <2>13. /\ M[FreeHead] = Walks[FreeHead]
         /\ M[view[p]] = IF c = view[p] THEN Inserted(rest, k, inner)
                         ELSE IF b = view[p] THEN outer ELSE Walks[view[p]]
         /\ M[store[p]] = IF c = store[p] THEN Inserted(rest, k, inner)
                          ELSE IF b = store[p] THEN outer ELSE Walks[store[p]]
    <3>1. \A h \in Heads : M[h] = IF h = c THEN Inserted(Rest(Walks, b, i, d, h), k, Inner(ring, i, d))
                                  ELSE Rest(Walks, b, i, d, h)
      BY DEF MovedCells
    <3>2. \A h : Rest(Walks, b, i, d, h) = IF h = b THEN outer ELSE Walks[h]
      BY <2>9 DEF Rest
    <3> HIDE DEF M, inner, outer, ring, d
    <3>3. QED
      BY <1>1, <1>5, <2>8, <2>9, <3>1, <3>2
  <2> HIDE DEF M, inner, outer, rest, ring, d
  <2>14. Inserted(rest, k, inner) = o
    <3>1. k \in 1 .. Len(rest)
      BY <2>4 DEF rest
    <3>2. QED
      BY <2>10, <2>12, <3>1, InsertedParts DEF Abstract!Prefix, Abstract!Suffix
  <2> HIDE DEF o
  <2>15. Free' = Free
    BY <2>7, <2>13, ListedAre DEF Leaves
  <2>16. Listed' = [Listed EXCEPT ![p] =
            [view  |-> IF c = view[p] THEN o ELSE IF b = view[p] THEN outer ELSE Walks[view[p]],
             store |-> IF c = store[p] THEN o ELSE IF b = store[p] THEN outer ELSE Walks[store[p]]]]
    BY <2>7, <2>13, <2>14 DEF Leaves
  <2>17. PICK f \in Abstract!Fields : \E g \in Abstract!Fields :
            Listed[p][f] = Walks[b] /\ \A e, x : NamedTwo(p, b, f, e, c, g, x)
    BY FieldsNamed
  <2>18. PICK g \in Abstract!Fields :
            Listed[p][f] = Walks[b] /\ \A e, x : NamedTwo(p, b, f, e, c, g, x)
    BY <2>17
  <2>19. NamedTwo(p, b, f, outer, c, g, o)
    BY <2>18
  <2> DEFINE cut == [Listed[p] EXCEPT ![f] = outer]
  <2>20. /\ cut[g] = rest /\ Listed[p][f] = ring
         /\ Listed' = [Listed EXCEPT ![p] = [cut EXCEPT ![g] = o]]
    BY <2>11, <2>16, <2>18, <2>19 DEF NamedTwo, ring
  <2>21. Abstract!Move(p, f, g)
    <3>1. k \in 1 .. Len(cut[g])
      BY <2>4, <2>20 DEF rest
    <3>2. cut = [Listed[p] EXCEPT ![f] = Abstract!Prefix(@, i) \o Abstract!Suffix(@, j - 1)]
      BY <2>20 DEF outer
    <3>3. inner = SubSeq(Listed[p][f], i + 1, j - 1)
      BY <2>20 DEF inner
    <3>4. Len(Listed[p][f]) = Len(ring)
      BY <2>20
    <3>5. Listed' = [Listed EXCEPT ![p] =
                       [cut EXCEPT ![g] = Abstract!Prefix(@, k) \o inner \o Abstract!Suffix(@, k)]]
      BY <2>20 DEF o
    <3> HIDE DEF cut
    <3>6. QED
      BY <2>1, <2>15, <3>1, <3>2, <3>3, <3>4, <3>5 DEF Abstract!Move
  <2>22. QED
    BY <2>7, <2>21 DEF Leaves
<1>12. QED
  BY <1>10, <1>11

\* The heap after insert_view_k_function_dot() took three free cells: they are
\* behind the head of the view field.
TakenThree(p) == InsertFromFreeMemory(heap, FreeHead, view[p], Successor(heap, FreeHead, 3))
WithThree(p) == MovedCells(Walks, Heads, FreeHead, 1, 3, view[p], 1)

\* The three cells that start a process are the first three of the free list.
LEMMA ThreeTaken ==
    ASSUME Inv, Layout, NEW p \in Process, Exists(p), HasCells(heap, FreeHead, 3)
    PROVE  /\ Good(TakenThree(p), Inside) /\ Laid(TakenThree(p).next, WithThree(p), Heads, Inside)
           /\ Len(Free) >= 3 /\ Successor(heap, FreeHead, 3) = Free[3]
           /\ WithThree(p)[view[p]] = Inserted(Walks[view[p]], 1, SubSeq(Free, 1, 3))
           /\ Tail(WithThree(p)[FreeHead]) = SubSeq(Free, 4, Len(Free))
           /\ \A h \in Heads \ {FreeHead, view[p]} : WithThree(p)[h] = Walks[h]
<1> DEFINE F == Walks[FreeHead]
           v == Walks[view[p]]
           third == Successor(heap, FreeHead, 3)
           M == WithThree(p)
<1>1. /\ FreeHead \in Heads /\ view[p] \in Heads /\ view[p] # FreeHead
      /\ view[p] \in Allocated
  BY HeadsOf DEF Layout
<1>2. F \in Seq(Inside) /\ Len(F) \in Nat /\ v \in Seq(Inside) /\ Len(v) \in Nat
      /\ 1 \in 1 .. Len(v) /\ v[1] = view[p] /\ F[1] = FreeHead
  BY <1>1, RingFacts
<1>3. Takes(view[p], 1, 3)
  <2>1. 3 \in Nat \ {0}
    OBVIOUS
  <2>2. QED
    BY <1>2, <2>1, FreeTaken
<1>4. /\ 3 < Len(F) /\ third = F[1 + 3]
      /\ Movable(FreeHead, 1, 3, view[p], 1)
      /\ TakenThree(p) = SpliceOf(FreeHead, 1, 3, view[p], 1)
  BY <1>2, <1>3 DEF Takes, TakenThree
<1>5. Laid(TakenThree(p).next, M, Heads, Inside)
  <2> DEFINE C == Inside
             H == Heads
             L == Walks
             g == view[p]
             i == 1
             d == 3
             k == 1
  <2>1. FreeHead \in H /\ g \in H /\ C \in SUBSET Cell /\ Laid(heap.next, L, H, C)
        /\ heap \in Heap /\ DoublyLinked(heap)
    BY <1>1, RingFacts DEF Layout
  <2>2. i \in 1 .. Len(L[FreeHead]) /\ d \in 1 .. Len(L[FreeHead]) - i
        /\ k \in 1 .. Len(Rest(L, FreeHead, i, d, g)) /\ Rest(L, FreeHead, i, d, g)[k] # L[FreeHead][i]
    BY <1>4 DEF Movable
  <2>3. TakenThree(p) = Splice(heap, Rest(L, FreeHead, i, d, g)[k], L[FreeHead][i + 1], L[FreeHead][i + d])
    BY <1>4 DEF SpliceOf
  <2>4. M = MovedCells(L, H, FreeHead, i, d, g, k)
    BY DEF WithThree
  <2> HIDE DEF C, H, L, g, i, d, k, M
  <2>5. Laid(Splice(heap, Rest(L, FreeHead, i, d, g)[k], L[FreeHead][i + 1], L[FreeHead][i + d]).next,
             MovedCells(L, H, FreeHead, i, d, g, k), H, C)
    BY <2>1, <2>2, SpliceMoves
  <2>6. QED
    BY <2>3, <2>4, <2>5 DEF H, C
<1>6. Good(TakenThree(p), Inside)
  <2>1. Inside \in SUBSET Cell /\ Good(heap, Inside) /\ FreeHead \in Inside
    BY CountNat, InsideCells DEF Inv
  <2>2. heap.next[FreeHead] \in Inside /\ heap.previous[heap.next[FreeHead]] = FreeHead
    BY <2>1, GoodSteps DEF Good, DoublyLinked
  <2>3. 1 + 3 \in 1 .. Len(F)
    BY <1>2, <1>4
  <2>4. third \in Inside
    BY <1>2, <1>4, <2>3
  <2>5. third # view[p]
    BY <1>1, <1>2, <1>4, <2>3, Together
  <2>6. view[p] \in Inside
    BY <1>1 DEF Inside
  <2> HIDE DEF third
  <2>7. Good(Splice(heap, view[p], heap.next[FreeHead], third), Inside)
    BY <1>1, <2>1, <2>2, <2>4, <2>5, <2>6, SpliceGood
  <2>8. QED
    BY <2>7 DEF TakenThree, InsertFromFreeMemory, third
<1>7. /\ M[FreeHead] = Outer(F, 1, 3) /\ M[view[p]] = Inserted(v, 1, Inner(F, 1, 3))
      /\ \A h \in Heads \ {FreeHead, view[p]} : M[h] = Walks[h]
  BY <1>1 DEF WithThree, MovedCells, Rest
<1>8. Free = Tail(F) /\ Len(Free) = Len(F) - 1
  BY ListedAre
<1>9. Inner(F, 1, 3) = SubSeq(Free, 1, 3) /\ Tail(Outer(F, 1, 3)) = SubSeq(Free, 4, Len(Free))
  <2> DEFINE n == 3
  <2>1. n \in 1 .. Len(F) - 1 /\ n + 1 = 4 /\ Len(F) > 0
    BY <1>2, <1>4
  <2> HIDE DEF F, n
  <2>2. Inner(F, 1, n) = SubSeq(Tail(F), 1, n)
        /\ Tail(Outer(F, 1, n)) = SubSeq(Tail(F), n + 1, Len(Tail(F)))
    BY <1>2, <2>1, TakenParts
  <2>3. QED
    BY <1>8, <2>1, <2>2 DEF n
<1>10. third = Free[3]
  <2>1. \A k \in 1 .. Len(Tail(F)) : Tail(F)[k] = F[k + 1]
    BY <1>2, <1>4, HeadTailProperties
  <2>2. 3 \in 1 .. Len(Tail(F)) /\ 3 + 1 = 1 + 3
    BY <1>2, <1>4, <1>8
  <2> HIDE DEF F
  <2>3. QED
    BY <1>4, <1>8, <2>1, <2>2
<1>11. Len(Free) >= 3
  BY <1>2, <1>4, <1>8
<1>12. QED
  BY <1>5, <1>6, <1>7, <1>9, <1>10, <1>11

\* Then the third of them is sent behind the old contents.
LEMMA ThirdSent ==
    ASSUME Inv, Layout, NEW p \in Process, Exists(p), InsertViewKFunctionDot(p)
    PROVE  \E M : /\ Laid(heap'.next, M, Heads, Inside)
                  /\ M[view[p]] = Activated(Walks[view[p]], Free)
                  /\ \A h \in Heads \ {view[p]} : M[h] = WithThree(p)[h]
<1> DEFINE v == Walks[view[p]]
           taken == TakenThree(p)
           third == Successor(heap, FreeHead, 3)
           label == taken.next[taken.next[view[p]]]
           last  == taken.previous[view[p]]
           W == WithThree(p)
           w == W[view[p]]
           n == Len(w)
<1>1. /\ heap' = IF third = last THEN taken
                 ELSE Transplantation(taken, last, label, taken.next[third])
      /\ HasCells(heap, FreeHead, 3)
  BY DEF InsertViewKFunctionDot, TakenThree
<1>2. view[p] \in Heads /\ FreeHead \in Heads
  BY HeadsOf DEF Layout
<1>3. v \in Seq(Inside) /\ Len(v) \in Nat /\ Len(v) > 0
      /\ Walks[FreeHead] \in Seq(Inside) /\ Walks[FreeHead] # << >>
  BY <1>2, RingFacts
<1>4. /\ Good(taken, Inside) /\ Laid(taken.next, W, Heads, Inside)
      /\ Len(Free) >= 3 /\ third = Free[3]
      /\ w = Inserted(v, 1, SubSeq(Free, 1, 3))
  BY <1>1, ThreeTaken
<1>5. Free \in Seq(Inside)
  BY <1>3, ListedAre, HeadTailProperties
<1>6. /\ w \in Seq(Inside) /\ n = Len(v) + 3 /\ w[4] = Free[3]
      /\ Len(v) = 1 => w = Activated(v, Free)
      /\ Len(v) # 1 => Inserted(Outer(w, 3, 1), n - 1, Inner(w, 3, 1)) = Activated(v, Free)
  <2> HIDE DEF v, w
  <2>1. QED
    BY <1>3, <1>4, <1>5, ActivatedParts
<1>7. n \in Nat /\ n >= 4 /\ w[1] = view[p]
      /\ \A i, j \in 1 .. n : w[i] = w[j] => i = j
  <2>1. w[1] = view[p] /\ \A i, j \in 1 .. n : w[i] = w[j] => i = j
    <3> DEFINE g == view[p]
    <3>1. g \in Heads /\ Laid(taken.next, W, Heads, Inside)
      BY <1>2, <1>4
    <3> HIDE DEF g, W, taken
    <3>2. W[g][1] = g /\ \A i, j \in 1 .. Len(W[g]) : W[g][i] = W[g][j] => i = j
      BY <3>1 DEF Laid
    <3>3. QED
      BY <3>2 DEF g
  <2>2. n \in Nat /\ n >= 4
    BY <1>3, <1>6
  <2>3. QED
    BY <2>1, <2>2
<1>8. Beside(taken, w)
  <2> DEFINE C == Inside
             H == Heads
             g == view[p]
  <2>1. C \in SUBSET Cell /\ Laid(taken.next, W, H, C) /\ g \in H
        /\ taken \in Heap /\ DoublyLinked(taken)
    BY <1>2, <1>4, RingFacts DEF Good
  <2> HIDE DEF C, H, g, W, taken
  <2>2. Beside(taken, W[g])
    BY <2>1, Neighbours
  <2>3. QED
    BY <2>2 DEF g
<1> HIDE DEF w, n, taken, third, W, v
<1>9. \A i \in 1 .. n - 1 : taken.next[w[i]] = w[i + 1] /\ taken.previous[w[i + 1]] = w[i]
  BY <1>8 DEF Beside, n
<1>10. last = w[n] /\ taken.next[view[p]] = w[2]
  <2>1. 1 \in 1 .. n - 1 /\ 1 + 1 = 2
    BY <1>7
  <2>2. QED
    BY <1>7, <1>8, <1>9, <2>1 DEF Beside, n
<1>11. label = w[3] /\ taken.next[w[3]] = w[4] /\ third = w[4]
  <2>1. 2 \in 1 .. n - 1 /\ 3 \in 1 .. n - 1 /\ 2 + 1 = 3 /\ 3 + 1 = 4
    BY <1>7
  <2>2. QED
    BY <1>4, <1>6, <1>9, <1>10, <2>1
<1>12. CASE Len(v) = 1
  <2>1. n = 4
    BY <1>6, <1>12
  <2>2. heap' = taken
    BY <1>1, <1>10, <1>11, <2>1
  <2>3. Laid(heap'.next, W, Heads, Inside) /\ W[view[p]] = Activated(v, Free)
    BY <1>4, <1>6, <1>12, <2>2 DEF w
  <2>4. QED
    BY <2>3 DEF W, v
<1>13. CASE Len(v) # 1
  <2>1. n >= 5 /\ 4 \in 1 .. n /\ 5 \in 1 .. n /\ n \in 1 .. n /\ 3 \in 1 .. n /\ 1 \in 1 .. n - 3
        /\ 4 \in 1 .. n - 1 /\ 4 + 1 = 5 /\ 3 + 1 = 4
    <3> DEFINE l == Len(v)
    <3>1. l \in Nat /\ l > 0 /\ l # 1 /\ n = l + 3
      BY <1>3, <1>6, <1>13
    <3> HIDE DEF l
    <3>2. QED
      BY <3>1
  <2>2. taken.next[w[4]] = w[5] /\ taken.previous[w[5]] = w[4]
    BY <1>9, <2>1
  <2>3. w[n] # w[4] /\ w[n] # w[3] /\ w[4] # w[5]
    BY <1>7, <2>1
  <2>4. heap' = Splice(taken, w[n], w[4], w[4])
    BY <1>1, <1>10, <1>11, <2>2, <2>3 DEF Transplantation
  <2> DEFINE C == Inside
             H == Heads
             g == view[p]
             i == 3
             d == 1
             k == n - 1
             M == MovedCells(W, H, g, i, d, g, k)
  <2>5. Rest(W, g, i, d, g) = Outer(w, 3, 1)
    BY DEF Rest, w
  <2>6. /\ Len(Outer(w, 3, 1)) = n - 1
        /\ \A j \in 3 + 1 .. n - 1 : Outer(w, 3, 1)[j] = w[j + 1]
    <3> DEFINE a == 3
               b == 1
    <3>1. a \in 1 .. Len(w) /\ b \in 1 .. Len(w) - a
      BY <2>1 DEF n
    <3> HIDE DEF a, b
    <3>2. /\ Len(Outer(w, a, b)) = Len(w) - b
          /\ \A j \in a + 1 .. Len(w) - b : Outer(w, a, b)[j] = w[j + b]
      BY <1>6, <3>1, OuterIs
    <3>3. QED
      BY <3>2 DEF a, b, n
  <2>7. k \in 1 .. Len(Rest(W, g, i, d, g)) /\ Rest(W, g, i, d, g)[k] = w[n]
    <3>1. n - 1 \in 3 + 1 .. n - 1 /\ n - 1 \in 1 .. n - 1 /\ (n - 1) + 1 = n
      BY <1>7, <2>1
    <3>2. QED
      BY <2>5, <2>6, <3>1
  <2>8. C \in SUBSET Cell /\ Laid(taken.next, W, H, C) /\ g \in H
        /\ taken \in Heap /\ DoublyLinked(taken)
        /\ i \in 1 .. Len(W[g]) /\ d \in 1 .. Len(W[g]) - i
        /\ W[g][i] = w[3] /\ W[g][i + 1] = w[4] /\ W[g][i + d] = w[4]
    BY <1>2, <1>4, <2>1, RingFacts DEF Good, w, n
  <2>9. M[g] = Inserted(Outer(w, 3, 1), n - 1, Inner(w, 3, 1))
        /\ \A h \in H \ {g} : M[h] = W[h]
    BY <1>2 DEF MovedCells, Rest, w
  <2> HIDE DEF C, H, g, i, d, k
  <2>10. Laid(Splice(taken, Rest(W, g, i, d, g)[k], W[g][i + 1], W[g][i + d]).next,
              MovedCells(W, H, g, i, d, g, k), H, C)
    BY <2>3, <2>7, <2>8, SpliceMoves
  <2>11. Laid(heap'.next, M, H, C)
    BY <2>4, <2>7, <2>8, <2>10
  <2>12. M[g] = Activated(v, Free)
    BY <1>6, <1>13, <2>9
  <2> HIDE DEF M
  <2>13. QED
    BY <2>9, <2>11, <2>12 DEF C, H, g, W, v
<1>14. QED
  BY <1>12, <1>13

\* Calling a function puts its brackets around the contents of the view field.
LEMMA ActivateLists ==
    ASSUME Inv, Inv', Layout, NEW p \in Process, InsertViewKFunctionDot(p)
    PROVE  Layout' /\ Abstract!Activate(p)
<1> DEFINE v == Walks[view[p]]
           e == Activated(v, Free)
<1>1. Exists(p) /\ HasCells(heap, FreeHead, 3) /\ UNCHANGED <<view, store, memoryCount>>
  BY DEF InsertViewKFunctionDot
<1>2. /\ FreeHead \in Heads /\ view[p] \in Heads /\ store[p] \in Heads
      /\ view[p] # FreeHead /\ store[p] # FreeHead /\ view[p] # store[p]
  BY <1>1, HeadsOf DEF Layout
<1>3. PICK M : /\ Laid(heap'.next, M, Heads, Inside)
               /\ M[view[p]] = e
               /\ \A h \in Heads \ {view[p]} : M[h] = WithThree(p)[h]
  BY <1>1, ThirdSent
<1>4. /\ Len(Free) >= 3
      /\ Tail(WithThree(p)[FreeHead]) = SubSeq(Free, 4, Len(Free))
      /\ \A h \in Heads \ {FreeHead, view[p]} : WithThree(p)[h] = Walks[h]
  BY <1>1, ThreeTaken
<1>5. /\ M[store[p]] = Walks[store[p]] /\ Tail(M[FreeHead]) = SubSeq(Free, 4, Len(Free))
      /\ \A h \in Heads \ {FreeHead, view[p], store[p]} : M[h] = Walks[h]
  BY <1>2, <1>3, <1>4
<1> HIDE DEF e
<1>6. /\ Layout' /\ Free' = SubSeq(Free, 4, Len(Free))
      /\ Listed' = [Listed EXCEPT ![p] = [view |-> e, store |-> Walks[store[p]]]]
  BY <1>1, <1>3, <1>5, SameHeads
<1>7. p \in DOMAIN Listed /\ Listed[p] = [view |-> v, store |-> Walks[store[p]]]
  BY <1>1, ListedAre
<1>8. FieldsAre(Listed, p, v, Walks[store[p]], e)
  BY <1>7, OneField
<1>9. Listed[p].view = v /\ Listed' = [Listed EXCEPT ![p].view = e]
  BY <1>6, <1>8 DEF FieldsAre
<1>10. v # << >>
  BY <1>2, RingFacts
<1>11. Free' = Abstract!Suffix(Free, 3)
  BY <1>6 DEF Abstract!Suffix
<1>12. QED
  BY <1>4, <1>6, <1>9, <1>10, <1>11 DEF Abstract!Activate, e, Activated

\* A process that begins to exist takes the first two free cells as the heads of its lists.
LEMMA CreateLists ==
    ASSUME Inv, Inv', Layout, NEW p \in Process, CreateStatusTable(p)
    PROVE  Layout' /\ Abstract!Create(p)
<1> DEFINE F == Walks[FreeHead]
           v == heap.next[FreeHead]
           s == heap.next[v]
           M == TwoOut(Walks, Heads, FreeHead)
<1>1. /\ ~Exists(p) /\ v # FreeHead /\ s # FreeHead
      /\ heap' = Link(Link(Link(heap, FreeHead, heap.next[s]), v, v), s, s)
      /\ view' = [view EXCEPT ![p] = v] /\ store' = [store EXCEPT ![p] = s]
      /\ UNCHANGED <<blockCount, memoryCount>>
  BY DEF CreateStatusTable
<1>2. FreeHead \in Heads
  BY DEF Heads
<1>3. heap \in Heap /\ DoublyLinked(heap) /\ Inside \in SUBSET Cell
      /\ Laid(heap.next, Walks, Heads, Inside) /\ Null \notin Inside
      /\ \A h \in Heads : Walk(h) = Walks[h]
  BY CountNat, InsideCells, RingFacts DEF Layout, Inv
<1>4. heap.next \in [Cell -> Cell]
  BY <1>3 DEF Heap
<1>5. F \in Seq(Inside) /\ Len(F) \in Nat /\ Len(F) > 0 /\ F[1] = FreeHead
  BY <1>2, RingFacts
<1>6. Len(F) >= 3
  <2>1. IsRing(heap.next, F)
    BY <1>2, <1>3 DEF Laid
  <2>2. (\A i \in 1 .. Len(F) - 1 : heap.next[F[i]] = F[i + 1]) /\ heap.next[F[Len(F)]] = F[1]
    BY <2>1 DEF IsRing
  <2> HIDE DEF F
  <2>3. Len(F) # 1
    BY <1>1, <1>5, <2>2
  <2>4. Len(F) # 2
    <3> SUFFICES ASSUME Len(F) = 2 PROVE FALSE
      OBVIOUS
    <3>1. 1 \in 1 .. Len(F) - 1 /\ 1 + 1 = 2
      OBVIOUS
    <3>2. v = F[2] /\ s = F[1]
      BY <1>5, <2>2, <3>1
    <3>3. QED
      BY <1>1, <1>5, <3>2
  <2> DEFINE l == Len(F)
  <2>5. l \in Nat /\ l > 0 /\ l # 1 /\ l # 2
    BY <1>5, <2>3, <2>4
  <2> HIDE DEF l
  <2>6. l >= 3
    BY <2>5
  <2>7. QED
    BY <2>6 DEF l
<1>7. /\ F[2] \in Inside \ Heads /\ F[3] \in Inside \ Heads /\ F[2] # F[3]
      /\ v = F[2] /\ s = F[3]
      /\ Laid([[[heap.next EXCEPT ![FreeHead] = heap.next[F[3]]] EXCEPT ![F[2]] = F[2]]
                  EXCEPT ![F[3]] = F[3]], M, Heads \cup {F[2], F[3]}, Inside)
  <2> DEFINE n == heap.next
             C == Inside
             H == Heads
             L == Walks
             g == FreeHead
  <2>1. n \in [Cell -> Cell] /\ C \in SUBSET Cell /\ Laid(n, L, H, C) /\ g \in H /\ Len(L[g]) >= 3
    BY <1>2, <1>3, <1>4, <1>6
  <2> HIDE DEF n, C, H, L, g
  <2>2. /\ L[g][2] \in C \ H /\ L[g][3] \in C \ H /\ L[g][2] # L[g][3]
        /\ n[g] = L[g][2] /\ n[L[g][2]] = L[g][3]
        /\ Laid([[[n EXCEPT ![g] = n[L[g][3]]] EXCEPT ![L[g][2]] = L[g][2]]
                    EXCEPT ![L[g][3]] = L[g][3]],
                TwoOut(L, H, g), H \cup {L[g][2], L[g][3]}, C)
    BY <2>1, TwoCut, ZenonT(60)
  <2>3. F = L[g]
    BY <1>2 DEF L, g
  <2>4. M = TwoOut(L, H, g)
    BY DEF M, L, H, g
  <2> HIDE DEF F, M
  <2>5. v = F[2] /\ s = F[3]
    BY <1>1, <2>2, <2>3 DEF n, g
  <2>6. QED
    BY <2>2, <2>3, <2>4, <2>5 DEF n, C, H, g
<1>8. heap'.next = [[[heap.next EXCEPT ![FreeHead] = heap.next[F[3]]] EXCEPT ![F[2]] = F[2]]
                       EXCEPT ![F[3]] = F[3]]
  BY <1>1, <1>7 DEF Link
<1> HIDE DEF F, M
<1>9. view'[p] = v /\ store'[p] = s /\ (\A q \in Process \ {p} : view'[q] = view[q] /\ store'[q] = store[q])
  BY <1>1 DEF Inv, TypeOK
<1>10. Exists(p)' /\ \A q \in Process \ {p} : Exists(q)' <=> Exists(q)
  BY <1>3, <1>7, <1>9 DEF Exists
<1>11. Heads' = Heads \cup {F[2], F[3]}
  <2>1. ASSUME NEW c \in Heads' PROVE c \in Heads \cup {F[2], F[3]}
    BY <1>1, <1>7, <1>9, <1>10, <2>1 DEF Heads
  <2>2. ASSUME NEW c \in Heads PROVE c \in Heads'
    BY <1>1, <1>9, <1>10, <2>2 DEF Heads
  <2>3. F[2] \in Heads' /\ F[3] \in Heads'
    BY <1>7, <1>9, <1>10 DEF Heads
  <2>4. QED
    BY <2>1, <2>2, <2>3
<1>12. Inside' = Inside
  BY <1>1 DEF Inside, Allocated
<1>13. \A q \in Process \ {p} : Exists(q) => view[q] \in Heads /\ store[q] \in Heads
  BY DEF Heads
<1>14. HeadsApart'
  <2>1. HeadsApart
    BY DEF Layout
  <2> SUFFICES ASSUME NEW q \in Process, NEW r \in Process, Exists(q)', Exists(r)'
               PROVE  /\ view'[q] = view'[r] => q = r
                      /\ store'[q] = store'[r] => q = r
                      /\ view'[q] # store'[r]
    BY DEF HeadsApart
  <2>2. CASE q = p /\ r = p
    BY <1>7, <1>9, <2>2
  <2>3. CASE q = p /\ r # p
    BY <1>7, <1>9, <1>10, <1>13, <2>3
  <2>4. CASE q # p /\ r = p
    BY <1>7, <1>9, <1>10, <1>13, <2>4
  <2>5. CASE q # p /\ r # p
    BY <1>9, <1>10, <2>1, <2>5 DEF HeadsApart
  <2>6. QED
    BY <2>2, <2>3, <2>4, <2>5
<1>15. Layout' /\ \A h \in Heads' : Walk(h)' = M[h]
  BY <1>7, <1>8, <1>11, <1>12, <1>14, NewLayout
<1>16. /\ M[F[2]] = <<F[2]>> /\ M[F[3]] = <<F[3]>> /\ M[FreeHead] = Outer(F, 1, 2)
       /\ \A h \in Heads \ {FreeHead} : M[h] = Walks[h]
  BY <1>2, <1>7 DEF TwoOut, M, F
<1>17. Free = Tail(F)
  BY <1>2, <1>3 DEF Free, F
<1>18. Len(Free) = Len(F) - 1 /\ Free[1] = F[2] /\ Free[2] = F[3]
  <2>1. Len(Tail(F)) = Len(F) - 1 /\ \A k \in 1 .. Len(Tail(F)) : Tail(F)[k] = F[k + 1]
    BY <1>5, HeadTailProperties
  <2>2. 1 \in 1 .. Len(F) - 1 /\ 2 \in 1 .. Len(F) - 1 /\ 1 + 1 = 2 /\ 2 + 1 = 3
    BY <1>5, <1>6
  <2>3. QED
    BY <1>17, <2>1, <2>2
<1>19. Free' = Abstract!Suffix(Free, 2)
  <2> DEFINE n == 2
  <2>1. n \in 1 .. Len(F) - 1
    BY <1>5, <1>6
  <2> HIDE DEF n
  <2>2. Tail(Outer(F, 1, n)) = SubSeq(Tail(F), n + 1, Len(Tail(F)))
    BY <1>5, <2>1, TakenParts
  <2>3. Free' = Tail(M[FreeHead])
    BY <1>2, <1>11, <1>15 DEF Free
  <2>4. QED
    BY <1>16, <1>17, <2>2, <2>3 DEF Abstract!Suffix, n
<1>20. Listed' = [Listed EXCEPT ![p] = [view |-> <<Free[1]>>, store |-> <<Free[2]>>]]
  <2>1. ASSUME NEW q \in Process
        PROVE  Listed'[q] = IF q = p THEN [view |-> <<Free[1]>>, store |-> <<Free[2]>>] ELSE Listed[q]
    <3>1. CASE q = p
      <4>1. view'[p] = F[2] /\ store'[p] = F[3] /\ F[2] \in Heads' /\ F[3] \in Heads'
        BY <1>7, <1>9, <1>11
      <4>2. Walk(view[p])' = M[F[2]] /\ Walk(store[p])' = M[F[3]]
        BY <1>15, <4>1
      <4>3. Walk(view[p])' = <<F[2]>> /\ Walk(store[p])' = <<F[3]>>
        BY <1>16, <4>2
      <4>4. QED
        BY <1>10, <1>18, <3>1, <4>3 DEF Listed
    <3>2. CASE q # p /\ Exists(q)
      <4>1. view[q] \in Heads \ {FreeHead} /\ store[q] \in Heads \ {FreeHead}
        BY <1>3, <1>13, <3>2, CountNat, InsideCells DEF Inv, TypeOK, Exists
      <4>2. Walk(view[q])' = Walk(view[q]) /\ Walk(store[q])' = Walk(store[q])
        BY <1>3, <1>9, <1>11, <1>15, <1>16, <3>2, <4>1
      <4>3. QED
        BY <1>10, <3>2, <4>2 DEF Listed
    <3>3. CASE q # p /\ ~Exists(q)
      BY <1>10, <3>3 DEF Listed
    <3>4. QED
      BY <3>1, <3>2, <3>3
  <2>2. Listed' = [q \in Process |-> Listed'[q]] /\ Listed = [q \in Process |-> Listed[q]]
    BY DEF Listed
  <2>3. QED
    BY <2>1, <2>2
<1>21. Listed[p] = Abstract!None
  BY <1>1 DEF Listed, Abstract!None
<1>22. Len(Free) >= 2
  BY <1>5, <1>6, <1>18
<1>23. QED
  BY <1>15, <1>19, <1>20, <1>21, <1>22 DEF Abstract!Create

\* A ring joined to the free list, seen as sequences.
Joined(L, H, f, M) ==
    /\ M = AfterJoin(L, H, FreeHead, Len(L[FreeHead]), f)
    /\ M[FreeHead] = L[FreeHead] \o L[f] /\ Tail(M[FreeHead]) = Tail(L[FreeHead]) \o L[f]
    /\ \A h \in H \ {FreeHead, f} : M[h] = L[h]

\* A list that is given back stands in the free list as a whole and leaves the others alone.
LEMMA JoinedToFree ==
    ASSUME NEW h, NEW C \in SUBSET Cell, Good(h, C), NEW H, NEW L, Laid(h.next, L, H, C),
           FreeHead \in H, NEW f \in H \ {FreeHead}
    PROVE  /\ Good(JoinRing(h, FreeHead, f), C)
           /\ \E M : /\ Joined(L, H, f, M)
                     /\ Laid(JoinRing(h, FreeHead, f).next, M, H \ {f}, C)
<1> DEFINE M == AfterJoin(L, H, FreeHead, Len(L[FreeHead]), f)
           s == L[FreeHead]
           t == L[f]
<1>1. s \in Seq(C) /\ t \in Seq(C) /\ Len(s) > 0 /\ Len(t) > 0 /\ s[1] = FreeHead /\ t[1] = f
  BY DEF Laid, IsRing
<1>2. FreeHead \in C /\ f \in C
  <2>1. 1 \in 1 .. Len(s) /\ 1 \in 1 .. Len(t)
    BY <1>1
  <2>2. QED
    BY <1>1, <2>1
<1>3. Good(JoinRing(h, FreeHead, f), C)
  BY <1>2, JoinRingGood
<1>4. Laid(JoinRing(h, FreeHead, f).next, M, H \ {f}, C)
  <2> DEFINE g == FreeHead
  <2>1. g \in H /\ f \in H \ {g} /\ h \in Heap /\ DoublyLinked(h)
    BY DEF Good
  <2> HIDE DEF g
  <2>2. Laid(JoinRing(h, g, f).next, AfterJoin(L, H, g, Len(L[g]), f), H \ {f}, C)
    BY <2>1, JoinRingMoves
  <2>3. QED
    BY <2>2 DEF g
<1>5. Inserted(s, Len(s), t) = s \o t /\ Tail(s \o t) = Tail(s) \o t
  <2> HIDE DEF s, t
  <2>1. QED
    BY <1>1, AppendedParts
<1>6. M[FreeHead] = Inserted(s, Len(s), t) /\ \A e \in H \ {FreeHead, f} : M[e] = L[e]
  BY DEF AfterJoin
<1>7. Joined(L, H, f, M)
  BY <1>5, <1>6 DEF Joined
<1>8. QED
  BY <1>3, <1>4, <1>7

\* A process that ends gives both lists, heads included, to the free list.
LEMMA DeleteLists ==
    ASSUME Inv, Inv', Layout, NEW p \in Process, DeleteStatusTable(p)
    PROVE  Layout' /\ Abstract!Delete(p)
<1> DEFINE h == JoinRing(heap, FreeHead, view[p])
           H == Heads \ {view[p]}
<1>1. /\ Exists(p) /\ heap' = JoinRing(h, FreeHead, store[p])
      /\ view' = [view EXCEPT ![p] = Null] /\ store' = [store EXCEPT ![p] = Null]
      /\ UNCHANGED <<blockCount, memoryCount>>
  BY DEF DeleteStatusTable
<1>2. /\ FreeHead \in Heads /\ view[p] \in Heads /\ store[p] \in Heads
      /\ view[p] # FreeHead /\ store[p] # FreeHead /\ view[p] # store[p]
      /\ \A q \in Process \ {p} : Exists(q) =>
            view[q] \in Heads \ {FreeHead, view[p], store[p]}
            /\ store[q] \in Heads \ {FreeHead, view[p], store[p]}
  BY <1>1, HeadsOf DEF Layout
<1>3. Good(heap, Inside) /\ Inside \in SUBSET Cell /\ Laid(heap.next, Walks, Heads, Inside)
      /\ \A g \in Heads : Walk(g) = Walks[g] /\ Walks[g] # << >> /\ Walks[g] \in Seq(Inside)
  BY RingFacts DEF Layout, Inv
<1>4. PICK L : Joined(Walks, Heads, view[p], L) /\ Laid(h.next, L, H, Inside)
  BY <1>2, <1>3, JoinedToFree
<1>5. Good(h, Inside)
  BY <1>2, <1>3, JoinedToFree
<1> HIDE DEF h
<1>6. FreeHead \in H /\ store[p] \in H \ {FreeHead}
  BY <1>2
<1>7. PICK M : Joined(L, H, store[p], M) /\ Laid(heap'.next, M, H \ {store[p]}, Inside)
  <2> HIDE DEF H
  <2>1. \E M : /\ Joined(L, H, store[p], M)
               /\ Laid(JoinRing(h, FreeHead, store[p]).next, M, H \ {store[p]}, Inside)
    BY <1>3, <1>4, <1>5, <1>6, JoinedToFree
  <2>2. QED
    BY <1>1, <2>1
<1>8. view'[p] = Null /\ store'[p] = Null
      /\ (\A q \in Process \ {p} : view'[q] = view[q] /\ store'[q] = store[q])
  BY <1>1 DEF Inv, TypeOK
<1>9. ~Exists(p)' /\ \A q \in Process \ {p} : Exists(q)' <=> Exists(q)
  BY <1>8 DEF Exists
<1>10. Heads' = H \ {store[p]}
  <2>1. ASSUME NEW c \in Heads' PROVE c \in H \ {store[p]}
    BY <1>2, <1>8, <1>9, <2>1 DEF Heads
  <2>2. ASSUME NEW c \in H \ {store[p]} PROVE c \in Heads'
    BY <1>8, <1>9, <2>2 DEF Heads
  <2>3. QED
    BY <2>1, <2>2
<1>11. Inside' = Inside
  BY <1>1 DEF Inside, Allocated
<1>12. HeadsApart'
  BY <1>8, <1>9 DEF Layout, HeadsApart
<1>13. Layout' /\ \A g \in Heads' : Walk(g)' = M[g]
  BY <1>7, <1>10, <1>11, <1>12, NewLayout
<1>14. /\ Tail(M[FreeHead]) = Tail(Walks[FreeHead]) \o Walks[view[p]] \o Walks[store[p]]
       /\ \A g \in Heads \ {FreeHead, view[p], store[p]} : M[g] = Walks[g]
  <2>1. Tail(M[FreeHead]) = Tail(L[FreeHead]) \o L[store[p]]
        /\ \A g \in H \ {FreeHead, store[p]} : M[g] = L[g]
    BY <1>7 DEF Joined
  <2>2. Tail(L[FreeHead]) = Tail(Walks[FreeHead]) \o Walks[view[p]]
        /\ \A g \in Heads \ {FreeHead, view[p]} : L[g] = Walks[g]
    BY <1>4 DEF Joined
  <2>3. L[store[p]] = Walks[store[p]]
    BY <1>2, <2>2
  <2>4. QED
    BY <2>1, <2>2, <2>3
<1>15. Listed[p] = [view |-> Walks[view[p]], store |-> Walks[store[p]]] /\ Free = Tail(Walks[FreeHead])
  BY <1>1, ListedAre
<1>16. Free' = Free \o Listed[p].view \o Listed[p].store
  <2>1. Free' = Tail(M[FreeHead])
    BY <1>2, <1>10, <1>13 DEF Free
  <2>2. Listed[p].view = Walks[view[p]] /\ Listed[p].store = Walks[store[p]]
    BY <1>15
  <2>3. QED
    BY <1>14, <1>15, <2>1, <2>2
<1>17. Listed' = [Listed EXCEPT ![p] = Abstract!None]
  <2>1. ASSUME NEW q \in Process
        PROVE  Listed'[q] = IF q = p THEN Abstract!None ELSE Listed[q]
    <3>1. CASE q = p
      BY <1>9, <3>1 DEF Listed, Abstract!None
    <3>2. CASE q # p /\ Exists(q)
      <4>1. view[q] \in Heads \ {FreeHead, view[p], store[p]}
            /\ store[q] \in Heads \ {FreeHead, view[p], store[p]}
        BY <1>2, <3>2
      <4>2. Walk(view[q])' = Walk(view[q]) /\ Walk(store[q])' = Walk(store[q])
        BY <1>3, <1>8, <1>10, <1>13, <1>14, <3>2, <4>1
      <4>3. QED
        BY <1>9, <3>2, <4>2 DEF Listed
    <3>3. CASE q # p /\ ~Exists(q)
      BY <1>9, <3>3 DEF Listed
    <3>4. QED
      BY <3>1, <3>2, <3>3
  <2>2. Listed' = [q \in Process |-> Listed'[q]] /\ Listed = [q \in Process |-> Listed[q]]
    BY DEF Listed
  <2>3. QED
    BY <2>1, <2>2
<1>18. Listed[p] # Abstract!None
  <2>1. Walks[view[p]] # << >>
    BY <1>2, <1>3
  <2>2. [view |-> Walks[view[p]], store |-> Walks[store[p]]] # [view |-> << >>, store |-> << >>]
    BY <2>1
  <2>3. QED
    BY <1>15, <2>2 DEF Abstract!None
<1>19. QED
  BY <1>13, <1>16, <1>17, <1>18 DEF Abstract!Delete

\* A new block joins the tail of the free list.
LEMMA GrowLists ==
    ASSUME Inv, Inv', Layout, MoreFreeMemory
    PROVE  Layout' /\ Abstract!Grow
<1> DEFINE F == Walks[FreeHead]
           block == NewCells
           M == [Walks EXCEPT ![FreeHead] = F \o block]
<1>1. /\ Request \in Nat \ {0} /\ Inside \in SUBSET Cell
      /\ block \in [1 .. Request -> Cell \ Inside]
      /\ \A i, j \in 1 .. Request : block[i] = block[j] => i = j
      /\ Inside' = Inside \cup {block[i] : i \in 1 .. Request}
      /\ heap' = AddFreeMemory(heap, FreeHead, block, Request)
  BY NewBlock
<1>2. UNCHANGED <<view, store>>
  BY DEF MoreFreeMemory
<1>3. FreeHead \in Heads
  BY DEF Heads
<1>4. Heads' = Heads /\ \A q \in Process : Exists(q)' = Exists(q)
  BY <1>2 DEF Heads, Exists
<1> HIDE DEF block
<1>5. Laid(heap'.next, M, Heads, Inside')
  <2> DEFINE H == Heads
             C == Inside
             L == Walks
             g == FreeHead
             size == Request
  <2>1. heap \in Heap /\ DoublyLinked(heap) /\ C \in SUBSET Cell /\ Laid(heap.next, L, H, C) /\ g \in H
        /\ size \in Nat \ {0} /\ block \in [1 .. size -> Cell \ C]
        /\ \A i, j \in 1 .. size : block[i] = block[j] => i = j
    BY <1>1, <1>3, RingFacts DEF Layout
  <2> HIDE DEF H, C, L, g, size
  <2>2. Laid(AddFreeMemory(heap, g, block, size).next, Extended(L, g, block), H,
             C \cup {block[i] : i \in 1 .. size})
    <3>1. Unused(block, size, C)
      BY <2>1 DEF Unused
    <3>2. heap \in Heap /\ DoublyLinked(heap) /\ C \in SUBSET Cell
          /\ Laid(heap.next, L, H, C) /\ g \in H
      BY <2>1
    <3>3. Laid(AddFreeMemory(heap, g, block, size).next, Extended(L, g, block), H,
               C \cup CellsOf(block, size))
      BY <3>1, <3>2, AddFreeMemoryMoves
    <3>4. QED
      BY <3>3 DEF CellsOf
  <2>3. QED
    BY <1>1, <2>2 DEF H, C, L, g, size, Extended
<1>6. HeadsApart'
  BY <1>2, <1>4 DEF Layout, HeadsApart
<1>7. Layout' /\ \A h \in Heads : Walk(h)' = M[h]
  BY <1>4, <1>5, <1>6, NewLayout
<1>8. /\ F \in Seq(Inside) /\ F # << >> /\ Len(F) > 0 /\ Free = Tail(F)
      /\ \A h \in Heads : Walk(h) = Walks[h] /\ Walks[h] \in Seq(Inside)
      /\ M[FreeHead] = F \o block /\ \A h \in Heads \ {FreeHead} : M[h] = Walks[h]
  BY <1>3, RingFacts DEF Free, Walks
<1>9. block \in Seq(Inside') /\ F \in Seq(Inside') /\ Len(block) = Request
  <2>1. \A i \in 1 .. Request : block[i] \in Inside'
    BY <1>1
  <2>2. block \in [1 .. Request -> Inside']
    BY <1>1, <2>1
  <2>3. F \in Seq(Inside')
    BY <1>1, <1>8
  <2>4. block \in Seq(Inside') /\ Len(block) = Request
    BY <1>1, <2>2
  <2>5. QED
    BY <2>3, <2>4
<1> HIDE DEF F, M
<1>10. Free' = Free \o block
  <2>1. Tail(F \o block) = Tail(F) \o block
    BY <1>8, <1>9, AppendedParts
  <2>2. Free' = Tail(M[FreeHead])
    BY <1>3, <1>7 DEF Free
  <2>3. QED
    BY <1>8, <2>1, <2>2
<1>11. Free \in Seq(Inside') /\ Free \in Seq(Inside)
  BY <1>8, <1>9, HeadTailProperties
<1>12. Listed' = Listed
  <2>1. ASSUME NEW q \in Process PROVE Listed'[q] = Listed[q]
    <3>1. CASE Exists(q)
      <4>1. view[q] \in Heads \ {FreeHead} /\ store[q] \in Heads \ {FreeHead}
        BY <3>1, HeadsOf DEF Layout
      <4>2. QED
        BY <1>2, <1>4, <1>7, <1>8, <3>1, <4>1 DEF Listed
    <3>2. CASE ~Exists(q)
      BY <1>4, <3>2 DEF Listed
    <3>3. QED
      BY <3>1, <3>2
  <2>2. QED
    BY <2>1 DEF Listed
<1>13. Abstract!Prefix(Free', Len(Free)) = Free /\ Abstract!Suffix(Free', Len(Free)) = block
  BY <1>9, <1>10, <1>11, PartsOfConcatenation DEF Abstract!Prefix, Abstract!Suffix
<1>14. Len(Free') > Len(Free)
  <2>1. Len(Free \o block) = Len(Free) + Len(block)
    BY <1>9, <1>11, Concatenation
  <2>2. Len(Free) \in Nat /\ Len(block) > 0 /\ Len(block) \in Nat
    BY <1>1, <1>9, <1>11
  <2>3. QED
    BY <1>10, <2>1, <2>2
<1>15. \A c \in Abstract!Cells(block) : c \notin Inside
  <2>1. DOMAIN block = 1 .. Request
    BY <1>1
  <2>2. QED
    BY <1>1, <2>1 DEF Abstract!Cells
<1>16. ASSUME NEW s \in Seq(Inside) PROVE Abstract!Cells(s) \subseteq Inside
  BY DEF Abstract!Cells
<1>17. ASSUME NEW q \in Process
       PROVE  Abstract!Cells(Listed[q].view) \cup Abstract!Cells(Listed[q].store) \subseteq Inside
  <2>1. Listed[q].view \in Seq(Inside) /\ Listed[q].store \in Seq(Inside)
    <3>1. CASE Exists(q)
      <4>1. view[q] \in Heads /\ store[q] \in Heads
        BY <3>1, HeadsOf DEF Layout
      <4>2. Listed[q] = [view |-> Walk(view[q]), store |-> Walk(store[q])]
        BY <3>1 DEF Listed
      <4>3. Listed[q].view = Walk(view[q]) /\ Listed[q].store = Walk(store[q])
        BY <4>2
      <4>4. Walk(view[q]) \in Seq(Inside) /\ Walk(store[q]) \in Seq(Inside)
        BY <1>8, <4>1
      <4>5. QED
        BY <4>3, <4>4
    <3>2. CASE ~Exists(q)
      <4>1. Listed[q] = [view |-> << >>, store |-> << >>]
        BY <3>2 DEF Listed
      <4>2. Listed[q].view = << >> /\ Listed[q].store = << >>
        BY <4>1
      <4>3. << >> \in Seq(Inside)
        OBVIOUS
      <4>4. QED
        BY <4>2, <4>3
    <3>3. QED
      BY <3>1, <3>2
  <2>2. QED
    BY <1>16, <2>1
<1>18. Abstract!Cells(block) \cap
          (Abstract!Cells(Free) \cup
           UNION {Abstract!Cells(Listed[q].view) \cup Abstract!Cells(Listed[q].store) : q \in Process})
         = {}
  <2>1. Abstract!Cells(Free) \subseteq Inside
    BY <1>11, <1>16
  <2>2. QED
    BY <1>15, <1>17, <2>1
<1>19. QED
  BY <1>7, <1>12, <1>13, <1>14, <1>18 DEF Abstract!Grow
-----------------------------------------------------------------------------
\* At first the free list is a head alone, and there is no other list.
LEMMA LayoutInit == Init => Layout /\ Abstract!Init
<1> SUFFICES ASSUME Init PROVE Layout /\ Abstract!Init
  OBVIOUS
<1> DEFINE L == [h \in Heads |-> <<FreeHead>>]
<1>1. Inv
  BY InvInit
<1>2. (\A p \in Process : ~Exists(p)) /\ Heads = {FreeHead}
  BY DEF Init, Exists, Heads
<1>3. Inside = {FreeHead}
  BY DEF Init, Inside, Allocated
<1>4. FreeHead \in Cell /\ heap.next[FreeHead] = FreeHead
  BY ListMemoryAssumption DEF Init, Apart
<1>5. <<FreeHead>> \in Seq(Inside) /\ Len(<<FreeHead>>) = 1 /\ <<FreeHead>>[1] = FreeHead
  BY <1>3
<1>6. IsRing(heap.next, <<FreeHead>>)
  BY <1>4, <1>5 DEF IsRing
<1>7. Laid(heap.next, L, Heads, Inside)
  BY <1>2, <1>3, <1>5, <1>6 DEF Laid
<1> HIDE DEF L
<1>8. \A h \in Heads : Walk(h) = L[h]
  BY <1>1, <1>7, WalksFound
<1>9. L = [h \in Heads |-> L[h]]
  BY DEF L
<1>10. Walks = L
  BY <1>8, <1>9 DEF Walks
<1>11. Layout
  BY <1>2, <1>7, <1>10 DEF Layout, HeadsApart
<1>12. Walk(FreeHead) = <<FreeHead>>
  BY <1>2, <1>8 DEF L
<1>13. Free = << >>
  BY <1>12 DEF Free
<1>14. Listed = [p \in Process |-> Abstract!None]
  BY <1>2 DEF Listed, Abstract!None
<1>15. QED
  BY <1>11, <1>13, <1>14 DEF Abstract!Init

\* Every step keeps the layout, and does to the lists what module Lists allows.
LEMMA LayoutStep ==
    Inv /\ Layout /\ [Next]_vars => Layout' /\ [Abstract!Next]_<<Free, Listed>>
<1> SUFFICES ASSUME Inv, Layout, [Next]_vars
             PROVE  Layout' /\ [Abstract!Next]_<<Free, Listed>>
  OBVIOUS
<1>0. Inv'
  BY InvStep
<1>1. CASE MoreFreeMemory
  BY <1>0, <1>1, GrowLists DEF Abstract!Next
<1>2. ASSUME NEW p \in Process, CreateStatusTable(p)
      PROVE  Layout' /\ [Abstract!Next]_<<Free, Listed>>
  BY <1>0, <1>2, CreateLists DEF Abstract!Next
<1>3. ASSUME NEW p \in Process, DeleteStatusTable(p)
      PROVE  Layout' /\ [Abstract!Next]_<<Free, Listed>>
  BY <1>0, <1>3, DeleteLists DEF Abstract!Next
<1>4. ASSUME NEW p \in Process, InsertViewKFunctionDot(p)
      PROVE  Layout' /\ [Abstract!Next]_<<Free, Listed>>
  BY <1>0, <1>4, ActivateLists DEF Abstract!Next
<1>5. ASSUME NEW p \in Process, Exists(p), Insert(p)
      PROVE  Layout' /\ [Abstract!Next]_<<Free, Listed>>
  BY <1>0, <1>5, InsertLists DEF Abstract!Next
<1>6. ASSUME NEW p \in Process, Exists(p), Release(p)
      PROVE  Layout' /\ [Abstract!Next]_<<Free, Listed>>
  BY <1>0, <1>6, ReleaseLists DEF Abstract!Next
<1>7. ASSUME NEW p \in Process, Exists(p), Move(p)
      PROVE  Layout' /\ [Abstract!Next]_<<Free, Listed>>
  BY <1>0, <1>7, MoveLists DEF Abstract!Next
<1>8. CASE UNCHANGED vars
  BY <1>8, Idle DEF vars
<1>9. QED
  BY <1>1, <1>2, <1>3, <1>4, <1>5, <1>6, <1>7, <1>8 DEF Next

\* No sequence of operations, on however many cells and processes, loses a cell or puts
\* one in two lists.
THEOREM EveryCellInOneList == Spec => []CellsConserved
<1>1. Inv /\ Layout => CellsConserved
  <2> SUFFICES ASSUME Inv, Layout, NEW c \in Allocated
               PROVE  Cardinality({h \in Heads : c \in Ring(h)}) = 1
    BY DEF CellsConserved
  <2>1. \E h \in Heads : \E k \in 1 .. Len(Walks[h]) : Walks[h][k] = c
    BY DEF Layout, Laid, Inside
  <2>2. PICK h \in Heads : \E k \in 1 .. Len(Walks[h]) : Walks[h][k] = c
    BY <2>1
  <2>3. ASSUME NEW g \in Heads, c \in Ring(g) PROVE g = h
    <3>1. PICK k \in 1 .. Len(Walks[h]) : Walks[h][k] = c
      BY <2>2
    <3>2. PICK j \in 1 .. Len(Walks[g]) : Walks[g][j] = c
      BY <2>3, InRing
    <3>3. QED
      BY <3>1, <3>2, Together
  <2>4. c \in Ring(h)
    BY <2>2, InRing
  <2>5. {g \in Heads : c \in Ring(g)} = {h}
    BY <2>3, <2>4
  <2>6. QED
    BY <2>5, FS_Singleton
<1>2. QED
  BY InvInit, InvStep, LayoutInit, LayoutStep, <1>1, PTL DEF Spec

\* The pointer splices of list memory implement the operations on sequences that module
\* Lists promises, whatever the sizes of the blocks and the number of processes.
THEOREM ListsImplemented == Spec => Implements
<1>1. Spec => Abstract!Init /\ [][Abstract!Next]_<<Free, Listed>>
  BY InvInit, InvStep, LayoutInit, LayoutStep, PTL DEF Spec
<1>2. QED
  BY <1>1 DEF Implements, Abstract!Spec
=============================================================================
