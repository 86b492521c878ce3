------------------------------- MODULE Rings -------------------------------
(***************************************************************************)
(* The doubly linked rings of list memory (inter/interface.c and the LINK  *)
(* macro of inter/interpreter.c): every list of the run time - the free    *)
(* list, the view field and the burial store of a process, a box - is a    *)
(* ring of cells closed over the head cell of the list.  A heap holds the  *)
(* two pointers of every cell; the operators below are the splices that    *)
(* the C code makes, each with the order of reads and writes of the code.  *)
(***************************************************************************)
EXTENDS Naturals

CONSTANT Cell   \* every T_LINKCB of the program, heads of lists included

Heap == [next : [Cell -> Cell], previous : [Cell -> Cell]]

\* The two pointers of each cell agree: the cell after my predecessor is me.
DoublyLinked(h) == \A c \in Cell : /\ h.previous[h.next[c]] = c
                                   /\ h.next[h.previous[c]] = c

\* A heap in which every cell is a ring of its own (no cell is in a list).
Apart == [next |-> [c \in Cell |-> c], previous |-> [c \in Cell |-> c]]

\* LINK(a, b)
Link(h, a, b) == [next     |-> [h.next EXCEPT ![a] = b],
                  previous |-> [h.previous EXCEPT ![b] = a]]

\* The cell k pointers after c.
Successor(h, c, k) ==
    LET to[i \in Nat] == IF i = 0 THEN c ELSE h.next[to[i - 1]]
    IN  to[k]

\* check_count_free_memory: the ring of head holds at least count cells.
HasCells(h, head, count) == \A i \in 1 .. count : Successor(h, head, i) # head

\* A faulty splice: the first cell keeps its old predecessor.
SpliceOneWay(h, where, first, last) ==
    LET behind == h.next[where]
        cut    == Link(h, h.previous[first], h.next[last])
    IN  [Link(cut, last, behind) EXCEPT !.next[where] = first]

(***************************************************************************)
(* Cut first .. last out of its ring and put it behind where.  Each caller *)
(* reads the four neighbours before it writes a pointer.                   *)
(***************************************************************************)
Splice(h, where, first, last) ==
    LET behind == h.next[where]
        cut    == Link(h, h.previous[first], h.next[last])
    IN  Link(Link(cut, last, behind), where, first)

\* A faulty transplantation: no early return for a target at the segment's edge.
TransplantationUnguarded(h, where, before, after) ==
    IF h.next[before] = after THEN h
    ELSE Splice(h, where, h.next[before], h.previous[after])

\* transplantation(): the segment strictly between before and after.
Transplantation(h, where, before, after) ==
    LET first == h.next[before]
        last  == h.previous[after]
    IN  IF first = after \/ where \in {before, last}
        THEN h
        ELSE Splice(h, where, first, last)

\* insert_from_free_memory(): the free cells up to last go behind where.
InsertFromFreeMemory(h, head, where, last) == Splice(h, where, h.next[head], last)

\* A faulty release: the segment goes to the front of the free list.
InsertToFreeMemoryFront(h, head, before, after) ==
    IF h.next[before] = after THEN h
    ELSE Splice(h, head, h.next[before], h.previous[after])

\* insert_to_free_memory(): the segment goes to the tail of the free list.
InsertToFreeMemory(h, head, before, after) ==
    IF h.next[before] = after THEN h
    ELSE Splice(h, h.previous[head], h.next[before], h.previous[after])

\* Close the ring of first behind the tail of the ring of head.
JoinRing(h, head, first) ==
    LET last == h.previous[first]
    IN  Link(Link(h, h.previous[head], first), last, head)

\* add_free_memory(): size cells of a new block, one behind the other, at the tail.
AddFreeMemory(h, head, block, size) ==
    LET new      == {block[i] : i \in 1 .. size}
        index(c) == CHOOSE i \in 1 .. size : block[i] = c
        tail     == h.previous[head]
    IN  [next |-> [c \in Cell |->
            IF c \in new THEN IF index(c) = size THEN head ELSE block[index(c) + 1]
            ELSE IF c = tail THEN block[1] ELSE h.next[c]],
         previous |-> [c \in Cell |->
            IF c \in new THEN IF index(c) = 1 THEN tail ELSE block[index(c) - 1]
            ELSE IF c = head THEN block[size] ELSE h.previous[c]]]
=============================================================================
