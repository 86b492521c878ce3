----------------------------- MODULE CFunctions -----------------------------
(***************************************************************************)
(* The library functions written in C, as inter/interpreter.c calls them.  *)
(* The leading call < F argument > of the view field is handed to the C    *)
(* function in four pointers (the record refal); the function moves cells  *)
(* of the call, overwritten as it likes, in front of '<', may take more    *)
(* from the free list, and answers with an upshot: what is then left of    *)
(* the call from '<' to '>' goes back to the free list (CFDONE), or the    *)
(* step is impossible (RCGIMP), or it is undone and tried again when there *)
(* is more memory (CFLACK).  This module has the call and the return, the  *)
(* functions are in the modules that module Library composes.              *)
(***************************************************************************)
EXTENDS Rings, Integers, Sequences, FiniteSetsExt, TLC

CONSTANTS
    W,            \* bits of a macrodigit (32)
    BLOCK,        \* options.increase_list_memory
    MAX_LENGTH,   \* MAX_NUMBER where it bounds a length, smaller than 2 ^ W - 1 here
    UINT8_MAX,    \* the longest name of a label
    Scenes,       \* the view fields a run begins with, sequences of <<tag, info>>
    Memories,     \* how many cells are free, how many malloc can give at once and later
    Worlds        \* what there is outside list memory when it begins

ASSUME CFunctionsAssumption ==
    /\ W \in Nat \ {0} /\ BLOCK \in Nat \ {0}
    /\ MAX_LENGTH \in 1 .. 2 ^ W - 1 /\ UINT8_MAX \in Nat
    /\ \A m \in Memories : m \in Nat \X Nat \X Nat

VARIABLES
    memory,   \* rings and contents of the cells, and the cells malloc can still give
    dot,      \* quasi_k.info.codep: the leading '>', NULL when there is none
    refal,    \* the four pointers of T_REFAL that frame the call
    state,    \* interpretator_state
    outside,  \* functions_table of xchar_func.c, the open files and those on the disk
    began     \* the view field and the world outside when the step began, and the
              \* world when its function was entered for the last time

vars == <<memory, dot, refal, state, outside, began>>

View == 0
FreeHead == 1
NULL == 0     \* no pointer to the head of the view field is kept in a cell
MAX_NUMBER == 2 ^ W - 1
Plus == 43
Minus == 45
Sharp == 35

After(c) == memory.heap.next[c]
Before(c) == memory.heap.previous[c]
Tag(c) == memory.cell[c][1]
Info(c) == memory.cell[c][2]

\* info.infoc: a pointer to a cell is even, an address of code is taken to be no '#'.
InfoChar(c) == IF Tag(c) \in {"O", "N"} THEN Info(c) % 256 ELSE 0

PA == refal.previous_argument
NA == refal.next_argument
PR == refal.previous_result
NR == refal.next_result
A1 == After(PA)

\* The cells from first up to the one before end.
RECURSIVE Cells(_, _)
Cells(first, end) == IF first = end THEN <<>> ELSE <<first>> \o Cells(After(first), end)

\* The count cells that follow c in the heap h.
RECURSIVE Following(_, _, _)
Following(h, c, count) ==
    IF count = 0 THEN <<>> ELSE <<h.next[c]>> \o Following(h, h.next[c], count - 1)

Argument == Cells(A1, NA)
Between(left) == Cells(After(left), Info(left))
Is(c, tag, info) == Tag(c) = tag /\ Info(c) = info
Numbers(cells) == \A i \in DOMAIN cells : Tag(cells[i]) = "N"
Values(cells) == [i \in DOMAIN cells |-> Info(cells[i])]

\* What stands in a view field, whatever cells hold it.
Token(c) == <<Tag(c), IF Tag(c) \in {"LB", "RB", "K", "D"} THEN 0 ELSE Info(c)>>
Field == LET cells == Cells(After(View), View) IN [i \in DOMAIN cells |-> Token(cells[i])]

-----------------------------------------------------------------------------
\* What the functions do to list memory.

\* The cells get these contents, one after the other.
Put(m, cells, contents) ==
    [m EXCEPT !.cell = [c \in {cells[i] : i \in DOMAIN cells} |->
                           contents[CHOOSE i \in DOMAIN cells : cells[i] = c]] @@ @]
Digits(values) == [i \in DOMAIN values |-> <<"N", values[i]>>]
Chars(codes) == [i \in DOMAIN codes |-> <<"O", codes[i]>>]

\* transplantation()
Move(m, where, before, after) ==
    [m EXCEPT !.heap = Transplantation(@, where, before, after)]

\* insert_to_free_memory()
Release(m, before, after) ==
    [m EXCEPT !.heap = InsertToFreeMemory(@, FreeHead, before, after)]

\* more_free_memory(), when malloc succeeds
Grown(m) == [m EXCEPT !.heap = AddFreeMemory(@, FreeHead, m.spare, BLOCK),
                      !.cell = [i \in {m.spare[j] : j \in 1 .. BLOCK} |-> <<"O", 0>>] @@ @,
                      !.spare = SubSeq(@, BLOCK + 1, Len(@))]

RECURSIVE GrownTo(_, _)
GrownTo(m, count) ==
    IF HasCells(m.heap, FreeHead, count) \/ Len(m.spare) < BLOCK THEN m
    ELSE GrownTo(Grown(m), count)

\* insert_from_free_memory(), with enough cells
Inserted(m, where, count) ==
    LET cells == Following(m.heap, FreeHead, count)
    IN  IF count = 0 THEN m
        ELSE [Put(m, cells, [i \in 1 .. count |-> <<"O", 0>>])
                 EXCEPT !.heap = InsertFromFreeMemory(@, FreeHead, where, cells[count])]

-----------------------------------------------------------------------------
\* The call and its return.

\* START and CFUNC: the leading call is framed, and its function entered.
Start ==
    /\ state \in {"START", "AGAIN"} /\ dot # NULL
    /\ LET k == Info(dot)
       IN  /\ Tag(After(k)) = "F" /\ Info(After(k))[1] = "library"
           /\ refal' = [previous_result |-> Before(k), next_result |-> k,
                        previous_argument |-> After(k), next_argument |-> dot]
    /\ state' = "CFUNC"
    /\ began' = IF state = "AGAIN" THEN [began EXCEPT !.entered = outside]
                ELSE [field |-> Field, outside |-> outside, entered |-> outside]
    /\ UNCHANGED <<memory, dot, outside>>

Called(name) == state = "CFUNC" /\ Info(PA)[2] = name

\* The three upshots of a function: done, impossible, no memory.
ReturnWith(m, world) ==
    /\ memory' = m /\ outside' = world /\ state' = "CFDONE"
    /\ UNCHANGED <<dot, refal, began>>
Return(m) == ReturnWith(m, outside)
Fail == /\ state' = "RCGIMP" /\ UNCHANGED <<memory, dot, refal, outside, began>>
LackWith(m, world) ==
    /\ memory' = m /\ outside' = world /\ state' = "CFLACK"
    /\ UNCHANGED <<dot, refal, began>>
Stop(world) == /\ state' = "ABORT" /\ outside' = world /\ UNCHANGED <<memory, dot, refal, began>>

\* extended_insert_from_free_memory(): go on with count more cells behind where;
\* world is what the function has made of the world so far.
UsingWith(world, where, count, GoOn(_)) ==
    \E m \in {GrownTo(memory, count)} :
        IF HasCells(m.heap, FreeHead, count)
        THEN \E full \in {Inserted(m, where, count)} : GoOn(full)
        ELSE LackWith(m, world)
Using(where, count, GoOn(_)) == UsingWith(outside, where, count, GoOn)

\* CFDONE: what is left of the call goes to the front of the free list.
Done ==
    /\ state = "CFDONE"
    /\ dot' = Info(NR)
    /\ LET cut == Link(memory.heap, Before(NR), After(NA))
           end == Link(cut, NA, cut.next[FreeHead])
       IN  memory' = [memory EXCEPT !.heap = Link(end, FreeHead, NR)]
    /\ state' = "START"
    /\ UNCHANGED <<refal, outside, began>>

\* A faulty undoing: what the function had put in front of '<' stays there.
UndoneNothing == memory

\* CFLACK: the cells the function has put in front of '<' are given back.
Undone ==
    IF After(PR) = NR THEN memory
    ELSE LET first == After(PR)
             back  == Link(memory.heap, Before(NR), After(FreeHead))
         IN  [memory EXCEPT !.heap = Link(Link(back, FreeHead, first), PR, NR)]

\* refal_execute() after state 3: more memory and the same step, or the end.  There may
\* be more to be had by now than when the function asked.
Again ==
    /\ state = "CFLACK"
    /\ \E m \in {[Undone EXCEPT !.spare = @ \o memory.late, !.late = <<>>]} :
        IF Len(m.spare) >= BLOCK THEN memory' = Grown(m) /\ state' = "AGAIN"
        ELSE memory' = m /\ state' = "LACK"
    /\ UNCHANGED <<dot, refal, outside, began>>

-----------------------------------------------------------------------------
\* Where a run begins.

Opens(token) == token[1] \in {"LB", "K"}
Closes(token) == token[1] \in {"RB", "D"}
Depth(s, i) == Cardinality({j \in 1 .. i : Opens(s[j])})
               - Cardinality({j \in 1 .. i : Closes(s[j])})

\* The position of the bracket that closes, or opens, the one at position i.
Mate(s, i) ==
    IF Opens(s[i]) THEN Min({j \in i .. Len(s) : Closes(s[j]) /\ Depth(s, j) < Depth(s, i)})
    ELSE Max({j \in 1 .. i : Opens(s[j]) /\ Depth(s, j) = Depth(s, i) + 1})

\* Position of the '>' that follows position i in a field, Len(s) + 1 when there is none.
NextDot(s, i) == Min({j \in i + 1 .. Len(s) : s[j][1] = "D"} \cup {Len(s) + 1})

\* The ring of a sequence of cells.
Ringed(h, s) == [next |-> [i \in {s[j] : j \in DOMAIN s} |->
                             LET j == CHOOSE j \in DOMAIN s : s[j] = i
                             IN  s[IF j = Len(s) THEN 1 ELSE j + 1]] @@ h.next,
                 previous |-> [i \in {s[j] : j \in DOMAIN s} |->
                             LET j == CHOOSE j \in DOMAIN s : s[j] = i
                             IN  s[IF j = 1 THEN Len(s) ELSE j - 1]] @@ h.previous]

\* The field s in the cells 2, 3, ..., then free cells, then those of malloc.
Laid(s, free, spare, late) ==
    LET n == Len(s)
        at(i) == i + 1
        content(i) ==
            CASE s[i][1] \in {"LB", "RB", "D"} -> <<s[i][1], at(Mate(s, i))>>
              [] s[i][1] = "K" -> LET next == NextDot(s, Mate(s, i))
                                  IN  <<"K", IF next > n THEN NULL ELSE at(next)>>
              [] OTHER -> s[i]
    IN  [heap |-> Ringed(Ringed(Apart, <<View>> \o [i \in 1 .. n |-> at(i)]),
                         <<FreeHead>> \o [i \in 1 .. free |-> at(n + i)]),
         cell |-> [c \in Cell |-> IF c \in 2 .. n + 1 THEN content(c - 1) ELSE <<"O", 0>>],
         spare |-> [i \in 1 .. spare |-> at(n + free + i)],
         late |-> [i \in 1 .. late |-> at(n + free + spare + i)]]

Init ==
    \E s \in Scenes, m \in Memories, world \in Worlds :
        /\ memory = Laid(s, m[1], m[2], m[3])
        /\ dot = LET first == NextDot(s, 0) IN IF first > Len(s) THEN NULL ELSE first + 1
        /\ refal = [previous_result |-> View, next_result |-> View,
                    previous_argument |-> View, next_argument |-> View]
        /\ state = "START"
        /\ outside = world
        /\ began = [field |-> <<>>, outside |-> world, entered |-> world]
=============================================================================
