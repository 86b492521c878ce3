----------------------------- MODULE ListMemory -----------------------------
(***************************************************************************)
(* List memory and the processes that own lists in it (inter/interface.c): *)
(* blocks of cells are obtained by more_free_memory, a process takes the   *)
(* heads of its view field and of its burial store from the free list, and *)
(* everything else is moved between rings by the splices of module Rings.  *)
(* No box exists here, so that collect_garbage() returns false at once;    *)
(* module Boxes adds them.                                                 *)
(***************************************************************************)
EXTENDS Rings, FiniteSets, Sequences, Functions

CONSTANTS
    Process,     \* the T_STATUS_TABLE records a program declares
    FreeHead,    \* free_memory_head
    Null,        \* NULL
    Block,       \* Block[i]: the i-th cell that malloc hands out
    MinSize,     \* options.min_list_memory
    Increase,    \* options.increase_list_memory
    MaxSize      \* options.max_list_memory, 0 when there is no limit

ASSUME ListMemoryAssumption ==
    /\ FreeHead \in Cell
    /\ Null \notin Cell
    /\ MinSize \in Nat \ {0} /\ Increase \in Nat \ {0} /\ MaxSize \in Nat
    /\ Block \in Seq(Cell \ {FreeHead})
    /\ \A i, j \in DOMAIN Block : Block[i] = Block[j] => i = j

VARIABLES
    heap,          \* previous and next of every cell
    blockCount,    \* number of blocks obtained (0: last_block_list_memory == NULL)
    memoryCount,   \* list_memory_count
    view, store,   \* heads of the two lists of a process, Null when it does not exist
    dot            \* the field dot of a process

vars == <<heap, blockCount, memoryCount, view, store, dot>>

Allocated == {Block[i] : i \in 1 .. memoryCount}
Exists(p) == view[p] # Null              \* exist_status_table()
Heads == {FreeHead} \cup {view[p] : p \in {q \in Process : Exists(q)}}
                    \cup {store[p] : p \in {q \in Process : Exists(q)}}

\* The ring of head as the sequence of its cells, head first; pointers that never lead
\* back to head are followed as often as the memory has cells.
Walk(head) == LET from[n \in Nat] ==
                      [c \in Cell |-> IF n = 0 \/ heap.next[c] = head THEN <<c>>
                                      ELSE <<c>> \o from[n - 1][heap.next[c]]]
              IN  from[memoryCount][head]
Ring(head) == Range(Walk(head))
Field(p) == Ring(view[p]) \cup Ring(store[p])

Init == /\ heap = Apart
        /\ blockCount = 0 /\ memoryCount = 0
        /\ view = [p \in Process |-> Null]
        /\ store = [p \in Process |-> Null]
        /\ dot = [p \in Process |-> Null]

-----------------------------------------------------------------------------
\* A faulty request: the last block is not cut down to the limit.
RequestUnlimited ==
    IF blockCount = 0
    THEN IF MaxSize # 0 /\ MaxSize < MinSize THEN 0 ELSE MinSize
    ELSE IF MaxSize # 0 /\ memoryCount >= MaxSize THEN 0 ELSE Increase

\* The size of the block that more_free_memory asks malloc for, 0 when it returns false.
Request ==
    IF blockCount = 0
    THEN IF MaxSize # 0 /\ MaxSize < MinSize THEN 0 ELSE MinSize
    ELSE IF MaxSize = 0 THEN Increase
    ELSE IF MaxSize - memoryCount >= Increase THEN Increase ELSE MaxSize - memoryCount

\* more_free_memory(), when malloc succeeds
MoreFreeMemory ==
    /\ Request # 0
    /\ memoryCount + Request <= Len(Block)
    /\ LET block == [i \in 1 .. Request |-> Block[memoryCount + i]]
       IN  heap' = AddFreeMemory(heap, FreeHead, block, Request)
    /\ memoryCount' = memoryCount + Request
    /\ blockCount' = blockCount + 1
    /\ UNCHANGED <<view, store, dot>>

\* create_status_table()
CreateStatusTable(p) ==
    /\ ~Exists(p)
    /\ LET v == heap.next[FreeHead]
           s == heap.next[v]
           taken == Link(heap, FreeHead, heap.next[s])
       IN  /\ v # FreeHead /\ s # FreeHead
           /\ heap' = Link(Link(taken, v, v), s, s)
           /\ view' = [view EXCEPT ![p] = v]
           /\ store' = [store EXCEPT ![p] = s]
    /\ dot' = [dot EXCEPT ![p] = Null]
    /\ UNCHANGED <<blockCount, memoryCount>>

\* delete_status_table(): head and contents of both lists go to the free list.
DeleteStatusTable(p) ==
    /\ Exists(p)
    /\ heap' = JoinRing(JoinRing(heap, FreeHead, view[p]), FreeHead, store[p])
    /\ view' = [view EXCEPT ![p] = Null]
    /\ store' = [store EXCEPT ![p] = Null]
    /\ UNCHANGED <<blockCount, memoryCount, dot>>

\* insert_view_k_function_dot(): the view field becomes < F ... > for the
\* function F to be called; the third new cell is sent behind the old contents.
InsertViewKFunctionDot(p) ==
    /\ Exists(p) /\ dot[p] = Null
    /\ HasCells(heap, FreeHead, 3)
    /\ \E third \in Allocated \ {view[p]} :
        LET taken == InsertFromFreeMemory(heap, FreeHead, view[p], third)
            label == taken.next[taken.next[view[p]]]
            last  == taken.previous[view[p]]
            moved == IF third = last THEN taken
                     ELSE Transplantation(taken, last, label, taken.next[third])
        IN  /\ third = Successor(heap, FreeHead, 3)
            /\ heap' = moved
            /\ dot' = [dot EXCEPT ![p] = moved.previous[view[p]]]
    /\ UNCHANGED <<blockCount, memoryCount, view, store>>

\* A function of process p puts count free cells, last at the end, behind a cell
\* of its lists (so where is not last); extended_insert_from_free_memory() first
\* repeats MoreFreeMemory.
Insert(p) ==
    \E last \in Allocated : \E where \in Allocated \ {last} : \E count \in 1 .. memoryCount :
        /\ where \in Field(p)
        /\ HasCells(heap, FreeHead, count)
        /\ last = Successor(heap, FreeHead, count)
        /\ heap' = InsertFromFreeMemory(heap, FreeHead, where, last)
        /\ UNCHANGED <<blockCount, memoryCount, view, store, dot>>

\* Pairs of cells of the ring of head, the second behind the first or head again ...
Segments(head) ==
    LET ring == Walk(head)
    IN  {s \in Allocated \X Allocated :
            \E i \in DOMAIN ring : /\ s[1] = ring[i]
                                   /\ \/ s[2] = head
                                      \/ \E j \in i + 1 .. Len(ring) : s[2] = ring[j]}
\* ... and the cells strictly between them.
Between(head, s) ==
    LET ring == Walk(head)
    IN  {ring[k] : k \in {k \in DOMAIN ring :
            /\ \E i \in 1 .. k - 1 : ring[i] = s[1]
            /\ s[2] = head \/ \E j \in k + 1 .. Len(ring) : ring[j] = s[2]}}

\* The lists whose cells a function of p may take out one by one: an activated
\* view field is changed by the interpreter alone.
Open(p) == IF dot[p] = Null THEN {view[p], store[p]} ELSE {store[p]}

\* A function of process p frees a segment of one of its lists (so the segment
\* does not begin behind the last free cell).
Release(p) ==
    \E head \in Open(p) : \E s \in Segments(head) :
        /\ s[1] # heap.previous[FreeHead]
        /\ heap' = InsertToFreeMemory(heap, FreeHead, s[1], s[2])
        /\ UNCHANGED <<blockCount, memoryCount, view, store, dot>>

\* A function of process p moves a segment of one of its lists behind a cell
\* which is not inside the segment (its last cell is allowed: nothing moves).
Move(p) ==
    \E head \in Open(p) : \E s \in Segments(head) : \E where \in Allocated :
        /\ where \in (Field(p) \ Between(head, s)) \cup {heap.previous[s[2]]}
        /\ heap' = Transplantation(heap, where, s[1], s[2])
        /\ UNCHANGED <<blockCount, memoryCount, view, store, dot>>

Next == \/ MoreFreeMemory
        \/ \E p \in Process : \/ CreateStatusTable(p) \/ DeleteStatusTable(p)
                              \/ InsertViewKFunctionDot(p)
        \/ \E p \in {q \in Process : Exists(q)} : Insert(p) \/ Release(p) \/ Move(p)

Spec == Init /\ [][Next]_vars
-----------------------------------------------------------------------------
\* The lists that the rings stand for: see module Lists.
Free == Tail(Walk(FreeHead))
Listed == [p \in Process |->
              IF Exists(p) THEN [view |-> Walk(view[p]), store |-> Walk(store[p])]
              ELSE [view |-> <<>>, store |-> <<>>]]
Abstract == INSTANCE Lists WITH free <- Free, list <- Listed
-----------------------------------------------------------------------------
\* The fields have their types, and memory is never obtained beyond -maxsz.
TypeOK == /\ heap \in Heap
          /\ blockCount \in Nat
          /\ memoryCount \in 0 .. (IF MaxSize = 0 THEN Len(Block) ELSE MaxSize)
          /\ view \in [Process -> Allocated \cup {Null}]
          /\ store \in [Process -> Allocated \cup {Null}]
          /\ dot \in [Process -> Cell \cup {Null}]

\* The chain of pointers next and the chain of pointers previous describe the
\* same lists: each splice of interface.c writes both, from neighbours it read
\* before the first write.
PointersAgree == DoublyLinked(heap)

\* Every cell that malloc gave is in one list and in no other: no splice loses
\* a cell, and none shares it between two lists (transplantation() returns
\* early when its target would make it do so).
CellsConserved ==
    \A c \in Allocated : Cardinality({head \in Heads : c \in Ring(head)}) = 1

\* Each operation does to the lists of the processes what module Lists says.
Implements == Abstract!Spec
=============================================================================
