------------------------------ MODULE Collector ------------------------------
(***************************************************************************)
(* The garbage collector of inter/interface.c, pointer by pointer: from    *)
(* each root mark_dynamic_box_heads() walks through the boxes without any  *)
(* memory of its own, the way back written into the cells that it came     *)
(* through; collect_garbage() then unchains the unmarked boxes, and        *)
(* more_free_memory() counts what it gained.  One action is one round of   *)
(* one of these loops.                                                     *)
(***************************************************************************)
EXTENDS Rings, Sequences, FiniteSets, FiniteSetsExt, SequencesExt

CONSTANTS
    Box,        \* the chain dynamic_boxes: a sequence of heads
    Root,       \* the heads of views, stores and static boxes, in the order they are marked
    FreeHead,   \* free_memory_head
    Symbol,     \* the cells behind the heads, numbered
    Null,       \* NULL, and the code of a symbol that is no reference
    FreeCount   \* options.free_memory_count

Boxes == Range(Box)
Roots == Range(Root)

ASSUME CollectorAssumption ==
    /\ Box \in Seq(Cell) /\ Root \in Seq(Cell) /\ Root # <<>> /\ Box # <<>>
    /\ IsInjective(Box) /\ IsInjective(Root)
    /\ Symbol \subseteq Nat /\ IsFiniteSet(Symbol)
    /\ Cell = Boxes \cup Roots \cup {FreeHead} \cup Symbol
    /\ Boxes \cap Roots = {} /\ (Boxes \cup Roots) \cap ({FreeHead} \cup Symbol) = {}
    /\ FreeHead \notin Symbol /\ Null \notin Cell
    /\ FreeCount \in Nat \ {0}

VARIABLES
    owner,      \* the list that a symbol was in at the call, as its head
    target,     \* the box a cell refers to at the call, Null if it is no reference
    heap,       \* previous and next of every cell
    codep,      \* info.codep of every cell
    tag,        \* "R" reference, "O" head or other symbol, "marked" UINT32_MAX
    phase,      \* "mark", "sweep", "count" or "done"
    root,       \* the number of the root being marked
    head,       \* the list that is being walked through, or the box being swept
    current,    \* where in that list, or the box that was kept last
    chain,      \* dynamic_boxes, as the codep of the virtual head of the sweep
    first,      \* first_linkcb_free_memory
    counted     \* free_memory_count of more_free_memory()

vars == <<owner, target, heap, codep, tag, phase, root, head, current, chain, first, counted>>

Heads == Boxes \cup Roots \cup {FreeHead}
-----------------------------------------------------------------------------
(* The memory at the call: the cells of a list follow each other by number. *)

HeadOf(c) == IF c \in Symbol THEN owner[c] ELSE c
After(c) == LET behind == {d \in Symbol : owner[d] = HeadOf(c) /\ (c \in Symbol => d > c)}
            IN  IF behind = {} THEN HeadOf(c) ELSE Min(behind)
Before(c) == LET ahead == {d \in Symbol : owner[d] = HeadOf(c) /\ (c \in Symbol => d < c)}
             IN  IF ahead = {} THEN HeadOf(c) ELSE Max(ahead)

Original == [next |-> [c \in Cell |-> After(c)], previous |-> [c \in Cell |-> Before(c)]]
NextBox == [b \in Boxes |->
    LET i == CHOOSE i \in DOMAIN Box : Box[i] = b
    IN  IF i = Len(Box) THEN Null ELSE Box[i + 1]]
OriginalCodep == [c \in Cell |-> IF c \in Symbol THEN target[c]
                                ELSE IF c \in Boxes THEN NextBox[c] ELSE Null]
OriginalTag == [c \in Cell |-> IF c \in Symbol /\ target[c] # Null THEN "R" ELSE "O"]

\* Any lists of symbols and references, and any boxes that refer to each other;
\* a free cell may still hold the reference that it was.
\* Addresses do not matter: the cells are numbered list by list.
Rank(h) == CHOOSE i \in DOMAIN (Root \o Box \o <<FreeHead>>) :
               (Root \o Box \o <<FreeHead>>)[i] = h
Init ==
    /\ owner \in [Symbol -> Heads]
    /\ \A c, d \in Symbol : c < d => Rank(owner[c]) <= Rank(owner[d])
    /\ target \in [Symbol -> Boxes \cup {Null}]
    /\ heap = Original /\ codep = OriginalCodep /\ tag = OriginalTag
    /\ phase = "mark" /\ root = 1
    /\ head = Root[1] /\ current = Root[1]
    /\ chain = Box[1] /\ first = Original.next[FreeHead] /\ counted = 0
-----------------------------------------------------------------------------
(* mark_dynamic_box_heads() *)

Marking == phase = "mark" /\ UNCHANGED <<owner, target, chain, first, counted>>

\* The next cell is a reference to a box that has no mark yet.
Unmarked(c) == tag[c] = "R" /\ tag[codep[c]] = "O"

Pass == LET c == heap.next[current]
        IN  /\ Marking /\ c # head /\ ~Unmarked(c)
            /\ current' = c
            /\ UNCHANGED <<heap, codep, tag, phase, root, head>>

\* A faulty descent: the list it comes from is not noted.
DescendForgetful ==
    LET c   == heap.next[current]
        box == codep[c]
    IN  /\ Marking /\ c # head /\ Unmarked(c)
        /\ tag' = [tag EXCEPT ![box] = "marked"]
        /\ heap' = [heap EXCEPT !.previous[box] = c]
        /\ head' = box /\ current' = box
        /\ UNCHANGED <<codep, phase, root>>

Descend == LET c   == heap.next[current]
               box == codep[c]
           IN  /\ Marking /\ c # head /\ Unmarked(c)
               /\ tag' = [tag EXCEPT ![box] = "marked"]
               /\ codep' = [codep EXCEPT ![c] = head]
               /\ heap' = [heap EXCEPT !.previous[box] = c]
               /\ head' = box /\ current' = box
               /\ UNCHANGED <<phase, root>>

\* Two faulty ascents: the pointer to the last cell of the box is not put back ...
AscendUnrestored ==
    LET reference == heap.previous[head]
    IN  /\ Marking /\ heap.next[current] = head /\ head # Root[root]
        /\ codep' = [codep EXCEPT ![reference] = head]
        /\ tag' = [tag EXCEPT ![reference] = "R"]
        /\ head' = codep[reference] /\ current' = reference
        /\ UNCHANGED <<heap, phase, root>>
\* ... and the reference is written before the way back is read from it.
AscendSwapped ==
    LET reference == heap.previous[head]
    IN  /\ Marking /\ heap.next[current] = head /\ head # Root[root]
        /\ heap' = [heap EXCEPT !.previous[head] = current]
        /\ codep' = [codep EXCEPT ![reference] = head]
        /\ tag' = [tag EXCEPT ![reference] = "R"]
        /\ current' = reference
        /\ UNCHANGED <<head, phase, root>>

Ascend == LET reference == heap.previous[head]
          IN  /\ Marking /\ heap.next[current] = head /\ head # Root[root]
              /\ heap' = [heap EXCEPT !.previous[head] = current]
              /\ codep' = [codep EXCEPT ![reference] = head]
              /\ tag' = [tag EXCEPT ![reference] = "R"]
              /\ head' = codep[reference] /\ current' = reference
              /\ UNCHANGED <<phase, root>>

\* A faulty loop over the static boxes: it goes on along the dynamic ones.
RootDoneBeyond ==
    /\ Marking /\ heap.next[current] = head /\ head = Root[root]
    /\ IF root < Len(Root)
       THEN root' = root + 1 /\ head' = Root[root + 1] /\ current' = Root[root + 1]
       ELSE head' = chain /\ current' = chain /\ UNCHANGED root
    /\ UNCHANGED <<heap, codep, tag, phase>>

\* Back at the root: the next one, or the removal of what has no mark.
RootDone == /\ Marking /\ heap.next[current] = head /\ head = Root[root]
            /\ IF root < Len(Root)
               THEN /\ root' = root + 1 /\ UNCHANGED phase
                    /\ head' = Root[root + 1] /\ current' = Root[root + 1]
               ELSE /\ phase' = "sweep" /\ UNCHANGED root
                    /\ head' = chain /\ current' = Null
            /\ UNCHANGED <<heap, codep, tag>>
-----------------------------------------------------------------------------
(* collect_garbage(): current = Null stands for the virtual head. *)

Onward(next) == IF next = Null
                THEN phase' = "count" /\ head' = heap'.next[FreeHead]
                ELSE phase' = "sweep" /\ head' = next

\* A faulty sweep: the mark stays for the next collection.
KeepMarked ==
    /\ phase = "sweep" /\ tag[head] # "O"
    /\ current' = head
    /\ UNCHANGED <<owner, target, heap, codep, tag, root, chain, first, counted>>
    /\ Onward(codep[head])

Keep == /\ phase = "sweep" /\ tag[head] # "O"
        /\ tag' = [tag EXCEPT ![head] = "O"]
        /\ current' = head
        /\ UNCHANGED <<owner, target, heap, codep, root, chain, first, counted>>
        /\ Onward(codep[head])

\* A faulty removal: the ring goes to the tail of the free list.
UnchainToTail ==
    /\ phase = "sweep" /\ tag[head] = "O"
    /\ IF current = Null
       THEN chain' = codep[head] /\ UNCHANGED codep
       ELSE codep' = [codep EXCEPT ![current] = codep[head]] /\ UNCHANGED chain
    /\ heap' = JoinRing(heap, FreeHead, head)
    /\ UNCHANGED <<owner, target, tag, root, current, first, counted>>
    /\ Onward(codep[head])

\* The ring of the box, its head in front, goes to the front of the free list.
Unchain == /\ phase = "sweep" /\ tag[head] = "O"
           /\ IF current = Null
              THEN chain' = codep[head] /\ UNCHANGED codep
              ELSE codep' = [codep EXCEPT ![current] = codep[head]] /\ UNCHANGED chain
           /\ heap' = Link(Link(heap, heap.previous[head], heap.next[FreeHead]), FreeHead, head)
           /\ UNCHANGED <<owner, target, tag, root, current, first, counted>>
           /\ Onward(codep[head])

(* more_free_memory() counts from the front of the free list. *)

Count == /\ phase = "count"
         /\ IF head # first /\ counted # FreeCount
            THEN counted' = counted + 1 /\ head' = heap.next[head] /\ UNCHANGED phase
            ELSE phase' = "done" /\ UNCHANGED <<counted, head>>
         /\ UNCHANGED <<owner, target, heap, codep, tag, root, current, chain, first>>

Next == Pass \/ Descend \/ Ascend \/ RootDone \/ Keep \/ Unchain \/ Count

\* One loop, that nothing interrupts.
Spec == Init /\ [][Next]_vars /\ WF_vars(Next)
-----------------------------------------------------------------------------
\* What the program can still name: the least set of boxes that holds those the
\* roots refer to and those its own members refer to (Marked of module Boxes).
Reachable ==
    LET Closed(S) == \A c \in Symbol : owner[c] \in Roots \cup S =>
                                           target[c] \in S \cup {Null}
    IN  {b \in Boxes : \A S \in SUBSET Boxes : Closed(S) => b \in S}
Live(c) == HeadOf(c) \in Roots \cup Reachable

\* The boxes from b on in the chain dynamic_boxes.
Chain(b) == LET from[n \in 0 .. Len(Box)] ==
                    IF n = 0 THEN b ELSE IF from[n - 1] = Null THEN Null ELSE codep[from[n - 1]]
            IN  {from[n] : n \in 0 .. Len(Box)} \ {Null}

\* Marking touches live boxes only: the collector, which has no list of what it
\* has seen, never follows a pointer that it has itself reversed into garbage.
MarksAreLive == \A b \in Boxes : tag[b] = "marked" => b \in Reachable

\* While the marks are put, the way back is written in the cells passed: from
\* head the reversed reference in previous leads to the list it came from, and
\* so, in as many steps as there are boxes at most, to the root.
WayBack ==
    LET up[n \in 0 .. Len(Box)] ==
            IF n = 0 \/ up[n - 1] = Root[root] THEN IF n = 0 THEN head ELSE up[n - 1]
            ELSE codep[heap.previous[up[n - 1]]]
    IN  phase = "mark" => up[Len(Box)] = Root[root]

\* The marks leave no trace: every live list, and every reference in it, is as
\* it was, although marking had reversed pointers along the way.
LiveUntouched ==
    phase # "mark" => \A c \in Cell : Live(c) =>
        /\ heap.next[c] = Original.next[c] /\ heap.previous[c] = Original.previous[c]
        /\ c \in Symbol => codep[c] = target[c] /\ tag[c] = OriginalTag[c]

\* What leaves the chain is garbage and all of the garbage leaves it, with its
\* contents, for the free list; the rings stay rings.
ExactlyGarbage ==
    phase \in {"count", "done"} =>
        /\ Chain(chain) = Reachable
        /\ \A b \in Reachable : tag[b] = "O"
        /\ DoublyLinked(heap)
        /\ LET count == Cardinality(Cell)
           IN  {Successor(heap, FreeHead, k) : k \in 0 .. count}
                    = {c \in Cell : HeadOf(c) \in {FreeHead} \cup (Boxes \ Reachable)}

\* The gain that decides whether memory must grow is the number of cells
\* collected, up to -freesz.
GainCounted ==
    phase = "done" =>
        counted = Min({FreeCount,
                       Cardinality({c \in Cell : HeadOf(c) \in Boxes \ Reachable})})

\* Boxes that refer to each other in circles do not keep the collector going.
Terminates == <>(phase = "done")
=============================================================================
