------------------------------- MODULE Lists -------------------------------
(***************************************************************************)
(* What list memory promises to the rest of the run time: the free list    *)
(* and the lists of the processes are sequences of cells, a cell is in one *)
(* of them, and each operation moves a segment from one to another.        *)
(***************************************************************************)
EXTENDS Naturals, Sequences

CONSTANTS Process, Cell

VARIABLES free,   \* the free cells, in the order they will be taken
          list    \* list[p].view and list[p].store, head first; <<>> if p does not exist

Fields == {"view", "store"}
None == [view |-> <<>>, store |-> <<>>]
Prefix(s, i) == SubSeq(s, 1, i)
Suffix(s, i) == SubSeq(s, i + 1, Len(s))
Cells(s) == {s[i] : i \in DOMAIN s}

Init == free = <<>> /\ list = [p \in Process |-> None]

\* New cells join the tail of the free list.
Grow == /\ Len(free') > Len(free)
        /\ Prefix(free', Len(free)) = free
        /\ Cells(Suffix(free', Len(free))) \cap
              (Cells(free) \cup UNION {Cells(list[p].view) \cup Cells(list[p].store) :
                                       p \in Process}) = {}
        /\ UNCHANGED list

Create(p) == /\ list[p] = None /\ Len(free) >= 2
             /\ list' = [list EXCEPT ![p] = [view |-> <<free[1]>>, store |-> <<free[2]>>]]
             /\ free' = Suffix(free, 2)

Delete(p) == /\ list[p] # None
             /\ free' = free \o list[p].view \o list[p].store
             /\ list' = [list EXCEPT ![p] = None]

\* The contents of the view field become the argument of a function.
Activate(p) ==
    LET v == list[p].view
    IN  /\ v # <<>> /\ Len(free) >= 3
        /\ list' = [list EXCEPT ![p].view =
                        <<v[1], free[1], free[2]>> \o Tail(v) \o <<free[3]>>]
        /\ free' = Suffix(free, 3)

\* The first n free cells go behind the i-th cell of a list.
Insert(p, f) == \E i \in 1 .. Len(list[p][f]), n \in 1 .. Len(free) :
    /\ list' = [list EXCEPT ![p][f] = Prefix(@, i) \o Prefix(free, n) \o Suffix(@, i)]
    /\ free' = Suffix(free, n)

\* The cells strictly between the i-th and the j-th go to the tail of the free list.
Release(p, f) == \E i, j \in 1 .. Len(list[p][f]) + 1 :
    /\ i + 1 < j
    /\ list' = [list EXCEPT ![p][f] = Prefix(@, i) \o Suffix(@, j - 1)]
    /\ free' = free \o SubSeq(list[p][f], i + 1, j - 1)

\* The same cells go behind the k-th of the cells that stay in field g.
Move(p, f, g) == \E i, j \in 1 .. Len(list[p][f]) + 1 :
    LET segment == SubSeq(list[p][f], i + 1, j - 1)
        cut     == [list[p] EXCEPT ![f] = Prefix(@, i) \o Suffix(@, j - 1)]
    IN  /\ i + 1 < j
        /\ \E k \in 1 .. Len(cut[g]) :
              list' = [list EXCEPT ![p] =
                         [cut EXCEPT ![g] = Prefix(@, k) \o segment \o Suffix(@, k)]]
        /\ UNCHANGED free

Next == \/ Grow
        \/ \E p \in Process :
              \/ Create(p) \/ Delete(p) \/ Activate(p)
              \/ \E f \in Fields : Insert(p, f) \/ Release(p, f)
              \/ \E f, g \in Fields : Move(p, f, g)

Spec == Init /\ [][Next]_<<free, list>>
=============================================================================
