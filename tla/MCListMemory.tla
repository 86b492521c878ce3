---------------------------- MODULE MCListMemory ----------------------------
EXTENDS ListMemory

\* Numbered cells: 0 heads the free list, malloc hands out 1, 2, ...
MCCell == 0 .. MaxSize + 1
MCBlock == [i \in 1 .. MaxSize + 1 |-> i]
=============================================================================
