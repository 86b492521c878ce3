---------------------------- MODULE RingsProofs ----------------------------
(***************************************************************************)
(* What the splices of module Rings do: they keep the two pointers of all  *)
(* cells in agreement, and they cut and join the sequences of cells that   *)
(* the rings are.                                                          *)
(***************************************************************************)
EXTENDS Rings, Sequences, SequenceTheorems, Lemmas

\* LINK_CB leaves every pointer a cell.
LEMMA LinkType ==
    ASSUME NEW h \in Heap, NEW a \in Cell, NEW b \in Cell
    PROVE  Link(h, a, b) \in Heap
BY DEF Heap, Link

\* A heap whose pointers agree and whose lists stay inside the cells S.
Good(h, S) == /\ h \in Heap
              /\ DoublyLinked(h)
              /\ \A c \in Cell \ S : h.next[c] = c

\* Neither pointer of a cell of S leads out of S.
LEMMA GoodSteps ==
    ASSUME NEW h, NEW S \in SUBSET Cell, Good(h, S), NEW c \in S
    PROVE  h.next[c] \in S /\ h.previous[c] \in S
BY DEF Good, Heap, DoublyLinked

\* A splice puts three pointers in a cycle, which keeps next a permutation of
\* the cells and previous its inverse, unless where closes the segment itself.
LEMMA SpliceGood ==
    ASSUME NEW h, NEW S \in SUBSET Cell, Good(h, S),
           NEW where \in S, NEW first \in S, NEW last \in S,
           where # last, where # h.previous[first]
    PROVE  Good(Splice(h, where, first, last), S)
<1> DEFINE before == h.previous[first]
           after  == h.next[last]
           behind == h.next[where]
           s      == Splice(h, where, first, last)
<1>1. before \in S /\ after \in S /\ behind \in S
  BY GoodSteps
<1>2. h \in Heap /\ DoublyLinked(h)
  BY DEF Good
<1>3. s \in Heap
  BY <1>1, <1>2, LinkType DEF Splice
<1>4. /\ s.next = [[[h.next EXCEPT ![before] = after] EXCEPT ![last] = behind]
                       EXCEPT ![where] = first]
      /\ s.previous = [[[h.previous EXCEPT ![after] = before] EXCEPT ![behind] = last]
                           EXCEPT ![first] = where]
  BY DEF Splice, Link
<1>5. ASSUME NEW c \in Cell PROVE s.previous[s.next[c]] = c
  BY <1>1, <1>2, <1>4 DEF Heap, DoublyLinked
<1>6. ASSUME NEW c \in Cell PROVE s.next[s.previous[c]] = c
  BY <1>1, <1>2, <1>4 DEF Heap, DoublyLinked
<1>7. ASSUME NEW c \in Cell \ S PROVE s.next[c] = c
  BY <1>1, <1>4 DEF Good, Heap
<1>8. QED
  BY <1>3, <1>5, <1>6, <1>7 DEF Good, DoublyLinked

\* transplantation() itself excludes the two cases that would break a ring.
LEMMA TransplantationGood ==
    ASSUME NEW h, NEW S \in SUBSET Cell, Good(h, S),
           NEW where \in S, NEW before \in S, NEW after \in S
    PROVE  Good(Transplantation(h, where, before, after), S)
<1> DEFINE first == h.next[before]
           last  == h.previous[after]
<1>1. CASE first = after \/ where \in {before, last}
  BY <1>1 DEF Transplantation
<1>2. CASE ~ (first = after \/ where \in {before, last})
  <2>1. first \in S /\ last \in S
    BY GoodSteps
  <2>2. h.previous[first] = before
    BY DEF Good, DoublyLinked
  <2>3. Good(Splice(h, where, first, last), S)
    BY <1>2, <2>1, <2>2, SpliceGood
  <2>4. QED
    BY <1>2, <2>3 DEF Transplantation
<1>3. QED
  BY <1>1, <1>2

\* insert_to_free_memory() has no such test: its segment must not be free already.
LEMMA InsertToFreeMemoryGood ==
    ASSUME NEW h, NEW S \in SUBSET Cell, Good(h, S),
           NEW head \in S, NEW before \in S, NEW after \in S \ {head},
           before # h.previous[head]
    PROVE  Good(InsertToFreeMemory(h, head, before, after), S)
<1> DEFINE first == h.next[before]
           last  == h.previous[after]
           where == h.previous[head]
<1>1. first \in S /\ last \in S /\ where \in S
  BY GoodSteps
<1>2. h.previous[first] = before /\ where # last
  BY DEF Good, Heap, DoublyLinked
<1>3. Good(Splice(h, where, first, last), S)
  BY <1>1, <1>2, SpliceGood
<1>4. QED
  BY <1>3 DEF InsertToFreeMemory

\* Joining two rings exchanges two pointers.
LEMMA JoinRingGood ==
    ASSUME NEW h, NEW S \in SUBSET Cell, Good(h, S),
           NEW head \in S, NEW first \in S \ {head}
    PROVE  Good(JoinRing(h, head, first), S)
<1> DEFINE last == h.previous[first]
           tail == h.previous[head]
           s    == JoinRing(h, head, first)
<1>1. last \in S /\ tail \in S
  BY GoodSteps
<1>2. h \in Heap /\ DoublyLinked(h)
  BY DEF Good
<1>3. s \in Heap
  BY <1>1, <1>2, LinkType DEF JoinRing
<1>4. /\ s.next = [[h.next EXCEPT ![tail] = first] EXCEPT ![last] = head]
      /\ s.previous = [[h.previous EXCEPT ![first] = tail] EXCEPT ![head] = last]
  BY DEF JoinRing, Link
<1>5. ASSUME NEW c \in Cell PROVE s.previous[s.next[c]] = c /\ s.next[s.previous[c]] = c
  BY <1>1, <1>2, <1>4 DEF Heap, DoublyLinked
<1>6. ASSUME NEW c \in Cell \ S PROVE s.next[c] = c
  BY <1>1, <1>4 DEF Good, Heap
<1>7. QED
  BY <1>3, <1>5, <1>6 DEF Good, DoublyLinked

\* A new block goes in as a chain between the tail of the free list and its head.
LEMMA AddFreeMemoryGood ==
    ASSUME NEW h, NEW S \in SUBSET Cell, Good(h, S), NEW head \in S,
           NEW size \in Nat \ {0}, NEW block \in [1 .. size -> Cell \ S],
           \A i, j \in 1 .. size : block[i] = block[j] => i = j
    PROVE  Good(AddFreeMemory(h, head, block, size), S \cup {block[i] : i \in 1 .. size})
<1> DEFINE new      == {block[i] : i \in 1 .. size}
           index(c) == CHOOSE i \in 1 .. size : block[i] = c
           tail     == h.previous[head]
           s        == AddFreeMemory(h, head, block, size)
<1>1. tail \in S /\ h \in Heap /\ DoublyLinked(h) /\ new \subseteq Cell \ S /\ head \in Cell
  BY GoodSteps DEF Good
<1>2. ASSUME NEW c \in new PROVE index(c) \in 1 .. size /\ block[index(c)] = c
  BY <1>2
<1>3. ASSUME NEW i \in 1 .. size PROVE index(block[i]) = i
  BY <1>2, <1>3
<1>4. s \in Heap
  BY <1>1, <1>2 DEF AddFreeMemory, Heap
<1> HIDE DEF index
<1>5. ASSUME NEW c \in Cell
      PROVE  /\ c \in new /\ index(c) = size => s.next[c] = head
             /\ c \in new /\ index(c) # size => s.next[c] = block[index(c) + 1]
             /\ c \in new /\ index(c) = 1 => s.previous[c] = tail
             /\ c \in new /\ index(c) # 1 => s.previous[c] = block[index(c) - 1]
             /\ c = tail => s.next[c] = block[1]
             /\ c = head => s.previous[c] = block[size]
             /\ c \notin new /\ c # tail => s.next[c] = h.next[c]
             /\ c \notin new /\ c # head => s.previous[c] = h.previous[c]
  BY <1>1, <1>5 DEF AddFreeMemory, index
<1>6. ASSUME NEW c \in Cell PROVE s.previous[s.next[c]] = c
  <2>1. CASE c \in new /\ index(c) = size
    BY <1>1, <1>2, <1>5, <2>1
  <2>2. CASE c \in new /\ index(c) # size
    <3>1. index(c) + 1 \in 1 .. size
      BY <1>2, <2>2
    <3>2. block[index(c) + 1] \in new /\ index(block[index(c) + 1]) = index(c) + 1
      BY <1>3, <3>1
    <3>3. index(block[index(c) + 1]) # 1 /\ index(block[index(c) + 1]) - 1 = index(c)
      BY <1>2, <2>2, <3>2
    <3>4. s.previous[block[index(c) + 1]] = block[index(c)]
      BY <1>1, <1>5, <3>2, <3>3
    <3>5. QED
      BY <1>2, <1>5, <2>2, <3>4
  <2>3. CASE c = tail
    <3>1. 1 \in 1 .. size /\ block[1] \in new /\ index(block[1]) = 1
      BY <1>3
    <3>2. QED
      BY <1>1, <1>5, <2>3, <3>1
  <2>4. CASE c \notin new /\ c # tail
    <3>1. h.next[c] # head /\ h.next[c] \in Cell /\ h.previous[h.next[c]] = c
      BY <1>1, <2>4 DEF Heap, DoublyLinked
    <3>2. h.next[c] \notin new
      BY <1>1, <2>4, <3>1 DEF Good, DoublyLinked, Heap
    <3>3. QED
      BY <1>1, <1>5, <2>4, <3>1, <3>2
  <2>5. QED
    BY <2>1, <2>2, <2>3, <2>4
<1>7. ASSUME NEW c \in Cell PROVE s.next[s.previous[c]] = c
  <2>1. CASE c \in new /\ index(c) = 1
    BY <1>1, <1>2, <1>5, <2>1
  <2>2. CASE c \in new /\ index(c) # 1
    <3>1. index(c) - 1 \in 1 .. size
      BY <1>2, <2>2
    <3>2. block[index(c) - 1] \in new /\ index(block[index(c) - 1]) = index(c) - 1
      BY <1>3, <3>1
    <3>3. index(block[index(c) - 1]) # size /\ index(block[index(c) - 1]) + 1 = index(c)
      BY <1>2, <2>2, <3>2
    <3>4. s.next[block[index(c) - 1]] = block[index(c)]
      BY <1>1, <1>5, <3>2, <3>3
    <3>5. QED
      BY <1>2, <1>5, <2>2, <3>4
  <2>3. CASE c = head
    <3>1. size \in 1 .. size /\ block[size] \in new /\ index(block[size]) = size
      BY <1>3
    <3>2. QED
      BY <1>1, <1>5, <2>3, <3>1
  <2>4. CASE c \notin new /\ c # head
    <3>1. h.previous[c] # tail /\ h.previous[c] \in Cell /\ h.next[h.previous[c]] = c
      BY <1>1, <2>4 DEF Heap, DoublyLinked
    <3>2. h.previous[c] \notin new
      BY <1>1, <2>4, <3>1 DEF Good, DoublyLinked, Heap
    <3>3. QED
      BY <1>1, <1>5, <2>4, <3>1, <3>2
  <2>5. QED
    BY <2>1, <2>2, <2>3, <2>4
<1>8. ASSUME NEW c \in Cell \ (S \cup new) PROVE s.next[c] = c
  BY <1>1, <1>5, <1>8 DEF Good
<1>9. QED
  BY <1>1, <1>4, <1>6, <1>7, <1>8 DEF Good, DoublyLinked
-----------------------------------------------------------------------------
\* Successor is the k-th power of the pointer next.
LEMMA Successors ==
    ASSUME NEW h \in Heap, NEW c \in Cell
    PROVE  /\ Successor(h, c, 0) = c
           /\ \A k \in Nat : /\ Successor(h, c, k) \in Cell
                             /\ Successor(h, c, k + 1) = h.next[Successor(h, c, k)]
<1> DEFINE IsPower(f) == f = [i \in Nat |-> IF i = 0 THEN c ELSE h.next[f[i - 1]]]
           to == CHOOSE f : IsPower(f)
<1>1. h.next \in [Cell -> Cell]
  BY DEF Heap
<1> DEFINE n == h.next
<1>2. PICK f \in [Nat -> Cell] : f[0] = c /\ \A k \in Nat : f[k + 1] = n[f[k]]
  <2> HIDE DEF n
  <2>1. n \in [Cell -> Cell] /\ c \in Cell
    BY <1>1 DEF n
  <2>2. QED
    BY <2>1, Iterates, SMTT(60)
<1>3. IsPower(f)
  <2>1. ASSUME NEW i \in Nat \ {0} PROVE f[i] = h.next[f[i - 1]]
    <3>1. i - 1 \in Nat /\ (i - 1) + 1 = i
      OBVIOUS
    <3>2. QED
      BY <1>2, <3>1
  <2>2. QED
    BY <1>2, <2>1
<1>4. IsPower(to)
  <2> HIDE DEF IsPower
  <2>1. QED
    BY <1>3
<1>5. \A k \in Nat : Successor(h, c, k) = to[k]
  BY DEF Successor
<1> HIDE DEF to
<1>6. to[0] = c /\ \A k \in Nat : to[k + 1] = h.next[to[k]]
  BY <1>4
<1>7. \A k \in Nat : to[k] \in Cell
  <2> DEFINE K == {k \in Nat : to[k] \in Cell}
  <2>1. 0 \in K
    BY <1>6
  <2>2. ASSUME NEW k \in Nat, k \in K PROVE k + 1 \in K
    BY <1>1, <1>6, <2>2
  <2> HIDE DEF K
  <2>3. Nat \subseteq K
    BY <2>1, <2>2, NaturalsInSet
  <2>4. QED
    BY <2>3 DEF K
<1>8. QED
  BY <1>5, <1>6, <1>7
-----------------------------------------------------------------------------
\* s is the sequence of the cells of a ring of the pointers n.
IsRing(n, s) == /\ Len(s) > 0
                /\ \A i \in 1 .. Len(s) - 1 : n[s[i]] = s[i + 1]
                /\ n[s[Len(s)]] = s[1]

\* The cells C are laid out in rings: L[h] is the ring of the head h in H.
Laid(n, L, H, C) ==
    /\ L \in [H -> Seq(C)]
    /\ \A h \in H : IsRing(n, L[h]) /\ L[h][1] = h
    /\ \A g, h \in H : \A i \in 1 .. Len(L[g]), j \in 1 .. Len(L[h]) :
          L[g][i] = L[h][j] => g = h /\ i = j
    /\ \A c \in C : \E h \in H : \E i \in 1 .. Len(L[h]) : L[h][i] = c

\* A sequence without the d elements behind the i-th, these elements, and a sequence
\* with another one behind its k-th element.
Outer(s, i, d) == [k \in 1 .. Len(s) - d |-> IF k <= i THEN s[k] ELSE s[k + d]]
Inner(s, i, d) == [k \in 1 .. d |-> s[i + k]]
Inserted(s, k, t) == [i \in 1 .. Len(s) + Len(t) |->
    IF i <= k THEN s[i] ELSE IF i <= k + Len(t) THEN t[i - k] ELSE s[i - Len(t)]]

\* The splices exchange the pointers of two cells.
Exchanged(n, a, b) == [n EXCEPT ![a] = n[b], ![b] = n[a]]

\* An exchange swaps two next pointers and leaves all others alone.
LEMMA ExchangedIs ==
    ASSUME NEW n \in [Cell -> Cell], NEW a \in Cell, NEW b \in Cell
    PROVE  /\ Exchanged(n, a, b) \in [Cell -> Cell]
           /\ Exchanged(n, a, b)[a] = n[b] /\ Exchanged(n, a, b)[b] = n[a]
           /\ \A c \in Cell \ {a, b} : Exchanged(n, a, b)[c] = n[c]
BY DEF Exchanged

\* What is left of a ring when d cells after its place i have been cut out, place by place.
LEMMA OuterIs ==
    ASSUME NEW C, NEW s \in Seq(C), NEW i \in 1 .. Len(s), NEW d \in 1 .. Len(s) - i
    PROVE  /\ Outer(s, i, d) \in Seq(C) /\ Len(Outer(s, i, d)) = Len(s) - d
           /\ \A k \in 1 .. i : Outer(s, i, d)[k] = s[k]
           /\ \A k \in i + 1 .. Len(s) - d : Outer(s, i, d)[k] = s[k + d]
<1> DEFINE o == Outer(s, i, d)
           m == Len(s) - d
<1>1. Len(s) \in Nat /\ i \in Nat /\ d \in Nat /\ m \in Nat /\ i <= m
  OBVIOUS
<1>2. o = [k \in 1 .. m |-> IF k <= i THEN s[k] ELSE s[k + d]]
  BY DEF Outer
<1>3. \A k \in 1 .. i : k \in 1 .. m /\ k <= i /\ k \in 1 .. Len(s)
  BY <1>1
<1>4. \A k \in i + 1 .. m : k \in 1 .. m /\ ~(k <= i) /\ k + d \in 1 .. Len(s)
  BY <1>1
<1>5. \A k \in 1 .. Len(s) : s[k] \in C
  OBVIOUS
<1> HIDE DEF o, m
<1>6. (\A k \in 1 .. i : o[k] = s[k]) /\ (\A k \in i + 1 .. m : o[k] = s[k + d])
  BY <1>2, <1>3, <1>4
<1>7. \A k \in 1 .. m : o[k] \in C
  <2>1. \A k \in 1 .. m : k \in 1 .. i \/ k \in i + 1 .. m
    BY <1>1
  <2>2. QED
    BY <1>3, <1>4, <1>5, <1>6, <2>1
<1>8. o \in Seq(C) /\ Len(o) = m
  <2>1. DOMAIN o = 1 .. m /\ o = [k \in 1 .. m |-> o[k]]
    BY <1>2
  <2>2. QED
    BY <1>1, <1>7, <2>1, SequenceIs
<1>9. QED
  BY <1>6, <1>8 DEF o, m

\* What has been cut out of it, place by place.
LEMMA InnerIs ==
    ASSUME NEW C, NEW s \in Seq(C), NEW i \in 1 .. Len(s), NEW d \in 1 .. Len(s) - i
    PROVE  /\ Inner(s, i, d) \in Seq(C) /\ Len(Inner(s, i, d)) = d
           /\ \A k \in 1 .. d : Inner(s, i, d)[k] = s[i + k]
<1>1. Len(s) \in Nat /\ i \in Nat /\ d \in Nat
  OBVIOUS
<1>2. Inner(s, i, d) = [k \in 1 .. d |-> s[i + k]]
  BY DEF Inner
<1>3. \A k \in 1 .. d : s[i + k] \in C
  <2>1. \A k \in 1 .. d : i + k \in 1 .. Len(s)
    BY <1>1
  <2>2. QED
    BY <2>1
<1>4. QED
  BY <1>1, <1>2, <1>3

\* A list with another one put in behind its place k, place by place.
LEMMA InsertedIs ==
    ASSUME NEW C, NEW s \in Seq(C), NEW k \in 1 .. Len(s), NEW t \in Seq(C)
    PROVE  /\ Inserted(s, k, t) \in Seq(C) /\ Len(Inserted(s, k, t)) = Len(s) + Len(t)
           /\ \A i \in 1 .. k : Inserted(s, k, t)[i] = s[i]
           /\ \A i \in k + 1 .. k + Len(t) : Inserted(s, k, t)[i] = t[i - k]
           /\ \A i \in k + Len(t) + 1 .. Len(s) + Len(t) : Inserted(s, k, t)[i] = s[i - Len(t)]
<1> DEFINE o == Inserted(s, k, t)
           a == Len(s)
           b == Len(t)
<1>1. a \in Nat /\ k \in Nat /\ b \in Nat /\ k <= a /\ 1 <= k
  OBVIOUS
<1>2. o = [i \in 1 .. a + b |-> IF i <= k THEN s[i] ELSE IF i <= k + b THEN t[i - k] ELSE s[i - b]]
  BY DEF Inserted
<1>5. (\A i \in 1 .. a : s[i] \in C) /\ (\A i \in 1 .. b : t[i] \in C)
  OBVIOUS
<1> HIDE DEF o, a, b
<1>3. /\ \A i \in 1 .. k : i \in 1 .. a + b /\ i <= k /\ i \in 1 .. a
      /\ \A i \in k + 1 .. k + b : i \in 1 .. a + b /\ ~(i <= k) /\ i <= k + b /\ i - k \in 1 .. b
      /\ \A i \in k + b + 1 .. a + b : /\ i \in 1 .. a + b /\ ~(i <= k) /\ ~(i <= k + b)
                                       /\ i - b \in 1 .. a
  BY <1>1
<1>6. /\ \A i \in 1 .. k : o[i] = s[i]
      /\ \A i \in k + 1 .. k + b : o[i] = t[i - k]
      /\ \A i \in k + b + 1 .. a + b : o[i] = s[i - b]
  BY <1>2, <1>3
<1>7. \A i \in 1 .. a + b : o[i] \in C
  <2>1. \A i \in 1 .. a + b : i \in 1 .. k \/ i \in k + 1 .. k + b \/ i \in k + b + 1 .. a + b
    BY <1>1
  <2>2. QED
    BY <1>3, <1>5, <1>6, <2>1
<1>8. o \in Seq(C) /\ Len(o) = a + b
  <2>1. DOMAIN o = 1 .. a + b /\ o = [i \in 1 .. a + b |-> o[i]]
    BY <1>2
  <2>2. a + b \in Nat
    BY <1>1
  <2>3. QED
    BY <1>7, <2>1, <2>2, SequenceIs
<1>9. QED
  BY <1>6, <1>8 DEF o, a, b
-----------------------------------------------------------------------------
\* The lists after the d elements behind the i-th of the ring of h are cut out.
AfterCut(L, H, h, i, d) ==
    [g \in H \cup {L[h][i + 1]} |-> IF g = h THEN Outer(L[h], i, d)
                                    ELSE IF g \in H THEN L[g] ELSE Inner(L[h], i, d)]

\* Exchanging the pointers of two cells of one ring cuts it in two.
LEMMA CutRing ==
    ASSUME NEW n \in [Cell -> Cell], NEW C \in SUBSET Cell, NEW H, NEW L, Laid(n, L, H, C),
           NEW h \in H, NEW i \in 1 .. Len(L[h]), NEW d \in 1 .. Len(L[h]) - i
    PROVE  /\ L[h][i + 1] \notin H
           /\ Laid(Exchanged(n, L[h][i], L[h][i + d]), AfterCut(L, H, h, i, d),
                   H \cup {L[h][i + 1]}, C)
<1> DEFINE s == L[h]
           l == Len(s)
           first == s[i + 1]
           o == Outer(s, i, d)
           m == Inner(s, i, d)
           K == H \cup {first}
           M == AfterCut(L, H, h, i, d)
           x == Exchanged(n, s[i], s[i + d])
<1>1. /\ \A g \in H : L[g] \in Seq(C) /\ IsRing(n, L[g]) /\ L[g][1] = g /\ Len(L[g]) \in Nat
      /\ \A e, g \in H : \A a \in 1 .. Len(L[e]), b \in 1 .. Len(L[g]) :
            L[e][a] = L[g][b] => e = g /\ a = b
      /\ \A c \in C : \E g \in H : \E a \in 1 .. Len(L[g]) : L[g][a] = c
  BY DEF Laid
<1>0. ASSUME NEW e \in H, NEW g \in H, NEW a \in 1 .. Len(L[e]), NEW b \in 1 .. Len(L[g]),
             L[e][a] = L[g][b]
      PROVE  e = g /\ a = b
  BY <1>0 DEF Laid
<1>2. s \in Seq(C) /\ l \in Nat /\ d \in Nat /\ d >= 1 /\ i \in Nat /\ i >= 1
      /\ i + d <= l /\ i + 1 \in 1 .. l /\ i + d \in 1 .. l
  BY <1>1
<1>3. first \in C /\ \A k \in 1 .. l : s[k] \in C
  BY <1>2
<1>4. first \notin H
  <2>1. SUFFICES ASSUME first \in H PROVE FALSE
    OBVIOUS
  <2>2. L[first][1] = first /\ Len(L[first]) > 0 /\ Len(L[first]) \in Nat
    BY <1>1, <2>1 DEF IsRing
  <2>3. i + 1 = 1
    BY <1>1, <1>2, <2>1, <2>2
  <2>4. QED
    BY <1>2, <2>3
<1>5. /\ o \in Seq(C) /\ Len(o) = l - d
      /\ \A k \in 1 .. i : o[k] = s[k]
      /\ \A k \in i + 1 .. l - d : o[k] = s[k + d]
  <2>1. i \in 1 .. Len(s) /\ d \in 1 .. Len(s) - i /\ s \in Seq(C)
    BY <1>2
  <2> HIDE DEF s
  <2>2. QED
    BY <2>1, OuterIs, SMTT(60) DEF o, l
<1>6. m \in Seq(C) /\ Len(m) = d /\ \A k \in 1 .. d : m[k] = s[i + k]
  <2>1. i \in 1 .. Len(s) /\ d \in 1 .. Len(s) - i /\ s \in Seq(C)
    BY <1>2
  <2> HIDE DEF s
  <2>2. QED
    BY <2>1, InnerIs, SMTT(60) DEF m
<1>7. /\ M \in [K -> Seq(C)] /\ M[h] = o /\ M[first] = m
      /\ \A g \in H \ {h} : M[g] = L[g]
  <2>1. M = [g \in K |-> IF g = h THEN o ELSE IF g \in H THEN L[g] ELSE m]
    BY DEF AfterCut
  <2> HIDE DEF o, m, M, first
  <2>2. QED
    BY <1>1, <1>4, <1>5, <1>6, <2>1
<1>8. /\ x \in [Cell -> Cell] /\ x[s[i]] = n[s[i + d]] /\ x[s[i + d]] = n[s[i]]
      /\ \A c \in Cell \ {s[i], s[i + d]} : x[c] = n[c]
  <2>1. s[i] \in Cell /\ s[i + d] \in Cell
    BY <1>2, <1>3
  <2> HIDE DEF s
  <2>2. QED
    BY <2>1, ExchangedIs
<1>9. /\ \A k \in 1 .. l - 1 : n[s[k]] = s[k + 1]
      /\ n[s[l]] = s[1] /\ s[1] = h
      /\ \A k \in 1 .. l : k # i /\ k # i + d => x[s[k]] = n[s[k]]
  <2>1. \A k \in 1 .. l : k # i /\ k # i + d => s[k] # s[i] /\ s[k] # s[i + d] /\ s[k] \in Cell
    BY <1>1, <1>2, <1>3
  <2>2. QED
    BY <1>1, <1>8, <2>1 DEF IsRing
<1> HIDE DEF s, l, first, o, m, M, x, K
<1>10. IsRing(x, o) /\ o[1] = h
  <2>1. \A k \in 1 .. i - 1 : x[o[k]] = o[k + 1]
    <3>1. \A k \in 1 .. i - 1 : /\ k \in 1 .. i /\ k + 1 \in 1 .. i /\ k \in 1 .. l - 1
                                /\ k \in 1 .. l /\ k # i /\ k # i + d
      BY <1>2
    <3>2. QED
      BY <1>5, <1>9, <3>1
  <2>2. x[o[i]] = n[s[i + d]]
    BY <1>2, <1>5, <1>8
  <2>3. \A k \in i + 1 .. l - d - 1 : x[o[k]] = o[k + 1]
    <3>1. \A k \in i + 1 .. l - d - 1 :
             /\ k \in i + 1 .. l - d /\ k + 1 \in i + 1 .. l - d /\ k + d \in 1 .. l - 1
             /\ k + d \in 1 .. l /\ k + d # i /\ k + d # i + d /\ (k + 1) + d = (k + d) + 1
      BY <1>2
    <3>2. TAKE k \in i + 1 .. l - d - 1
    <3>3. o[k] = s[k + d] /\ o[k + 1] = s[(k + 1) + d]
      BY <1>5, <3>1
    <3>4. x[s[k + d]] = n[s[k + d]] /\ n[s[k + d]] = s[(k + d) + 1]
      BY <1>9, <3>1
    <3>5. QED
      BY <3>1, <3>3, <3>4
  <2>4. o[1] = s[1]
    BY <1>2, <1>5
  <2>5. CASE i + d = l
    <3>1. i = l - d /\ x[o[i]] = s[1]
      BY <1>2, <1>9, <2>2, <2>5
    <3>2. QED
      BY <1>2, <1>5, <1>9, <2>1, <2>2, <2>4, <2>5, <3>1 DEF IsRing
  <2>6. CASE i + d # l
    <3>1. i + 1 \in i + 1 .. l - d /\ i \in 1 .. (l - d) - 1
      BY <1>2, <2>6
    <3>2. x[o[i]] = o[i + 1]
      <4>1. i + d \in 1 .. l - 1 /\ (i + d) + 1 = (i + 1) + d
        BY <1>2, <2>6
      <4>2. QED
        BY <1>5, <1>9, <2>2, <3>1, <4>1
    <3>3. x[o[l - d]] = o[1]
      <4>1. l - d \in i + 1 .. l - d /\ (l - d) + d = l /\ l \in 1 .. l /\ l # i /\ l # i + d
        BY <1>2, <2>6
      <4>2. QED
        BY <1>5, <1>9, <2>4, <4>1
    <3>4. \A k \in 1 .. (l - d) - 1 : k \in 1 .. i - 1 \/ k = i \/ k \in i + 1 .. l - d - 1
      BY <1>2
    <3>5. \A k \in 1 .. (l - d) - 1 : x[o[k]] = o[k + 1]
      BY <2>1, <2>3, <3>2, <3>4
    <3>6. QED
      BY <1>2, <1>5, <1>9, <2>4, <3>1, <3>3, <3>5 DEF IsRing
  <2>7. QED
    BY <2>5, <2>6
<1>11. IsRing(x, m) /\ m[1] = first
  <2>1. \A k \in 1 .. d - 1 : x[m[k]] = m[k + 1]
    <3>1. \A k \in 1 .. d - 1 : /\ k \in 1 .. d /\ k + 1 \in 1 .. d /\ i + k \in 1 .. l - 1
                                /\ i + k \in 1 .. l /\ i + k # i /\ i + k # i + d
                                /\ i + (k + 1) = (i + k) + 1
      BY <1>2
    <3>2. QED
      BY <1>6, <1>9, <3>1
  <2>2. 1 \in 1 .. d /\ d \in 1 .. d /\ i \in 1 .. l - 1
    BY <1>2
  <2>3. m[1] = s[i + 1] /\ x[m[d]] = s[i + 1]
    BY <1>2, <1>6, <1>8, <1>9, <2>2
  <2>4. QED
    BY <1>2, <1>6, <2>1, <2>3 DEF IsRing, first
<1>12. ASSUME NEW g \in H \ {h} PROVE IsRing(x, L[g])
  <2>1. IsRing(n, L[g]) /\ L[g] \in Seq(C) /\ Len(L[g]) \in Nat
    BY <1>1
  <2>2. \A k \in 1 .. Len(L[g]) : L[g][k] \in Cell /\ L[g][k] # s[i] /\ L[g][k] # s[i + d]
    BY <1>1, <1>2, <2>1 DEF s, l
  <2>3. \A k \in 1 .. Len(L[g]) : x[L[g][k]] = n[L[g][k]]
    BY <1>8, <2>2
  <2>4. QED
    BY <2>1, <2>3 DEF IsRing
<1>13. \A g \in K : IsRing(x, M[g]) /\ M[g][1] = g
  BY <1>1, <1>7, <1>10, <1>11, <1>12 DEF K
\* Where each element was before.
<1> DEFINE From(g, k, e, a) ==
              \/ g = first /\ e = h /\ a = i + k /\ k \in 1 .. d
              \/ g = h /\ e = h /\ a = k /\ k \in 1 .. i
              \/ g = h /\ e = h /\ a = k + d /\ k \in i + 1 .. l - d
              \/ g \in H \ {h} /\ e = g /\ a = k /\ k \in 1 .. Len(L[g])
<1>14. ASSUME NEW g \in K, NEW k \in 1 .. Len(M[g])
       PROVE  \E e \in H : \E a \in 1 .. Len(L[e]) : M[g][k] = L[e][a] /\ From(g, k, e, a)
  <2>1. CASE g = first
    <3>1. k \in 1 .. d /\ i + k \in 1 .. l /\ M[g][k] = L[h][i + k]
      BY <1>2, <1>6, <1>7, <2>1 DEF s
    <3>2. QED
      BY <2>1, <3>1 DEF l, s
  <2>2. CASE g = h
    <3>1. k \in 1 .. l - d
      BY <1>5, <1>7, <2>2
    <3>2. CASE k <= i
      <4>1. k \in 1 .. i /\ k \in 1 .. l
        BY <1>2, <3>1, <3>2
      <4>2. M[g][k] = L[h][k]
        BY <1>5, <1>7, <2>2, <4>1 DEF s
      <4>3. QED
        BY <2>2, <4>1, <4>2 DEF l, s
    <3>3. CASE k > i
      <4>1. k \in i + 1 .. l - d /\ k + d \in 1 .. l
        BY <1>2, <3>1, <3>3
      <4>2. M[g][k] = L[h][k + d]
        BY <1>5, <1>7, <2>2, <4>1 DEF s
      <4>3. QED
        BY <2>2, <4>1, <4>2 DEF l, s
    <3>4. QED
      BY <1>2, <3>1, <3>2, <3>3
  <2>3. CASE g \in H \ {h}
    BY <1>7, <2>3
  <2>4. QED
    BY <2>1, <2>2, <2>3 DEF K
<1>15. ASSUME NEW e \in K, NEW g \in K, NEW a \in 1 .. Len(M[e]), NEW b \in 1 .. Len(M[g]),
              M[e][a] = M[g][b]
       PROVE  e = g /\ a = b
  <2>0. PICK f \in H : \E c \in 1 .. Len(L[f]) : M[e][a] = L[f][c] /\ From(e, a, f, c)
    BY <1>14
  <2>1. PICK c \in 1 .. Len(L[f]) : M[e][a] = L[f][c] /\ From(e, a, f, c)
    BY <2>0
  <2>2. PICK y \in H : \E z \in 1 .. Len(L[y]) : M[g][b] = L[y][z] /\ From(g, b, y, z)
    BY <1>14
  <2>3. PICK z \in 1 .. Len(L[y]) : M[g][b] = L[y][z] /\ From(g, b, y, z)
    BY <2>2
  <2>4. f = y /\ c = z
    <3> HIDE DEF From
    <3>1. L[f][c] = L[y][z]
      BY <1>15, <2>1, <2>3
    <3>2. QED
      BY <1>0, <3>1
  <2>5. From(e, a, f, c) /\ From(g, b, f, c)
    BY <2>1, <2>3, <2>4
  <2>6. CASE e = first
    BY <1>2, <1>4, <2>5, <2>6
  <2>7. CASE e = h /\ e # first
    BY <1>2, <1>4, <2>5, <2>7
  <2>8. CASE e \in H \ {h}
    BY <1>2, <1>4, <2>5, <2>8
  <2>9. QED
    BY <2>6, <2>7, <2>8 DEF K
<1>16. ASSUME NEW c \in C PROVE \E g \in K : \E a \in 1 .. Len(M[g]) : M[g][a] = c
  <2>0. PICK g \in H : \E a \in 1 .. Len(L[g]) : L[g][a] = c
    BY <1>1
  <2>1. PICK a \in 1 .. Len(L[g]) : L[g][a] = c
    BY <2>0
  <2>2. CASE g # h
    BY <1>7, <2>1, <2>2 DEF K
  <2>3. CASE g = h
    <3>0. a \in 1 .. l /\ s[a] = c
      BY <2>1, <2>3 DEF s, l
    <3>1. CASE a <= i
      <4>1. a \in 1 .. i /\ a \in 1 .. l - d
        BY <1>2, <3>0, <3>1
      <4>2. QED
        BY <1>5, <1>7, <3>0, <4>1 DEF K
    <3>2. CASE a > i /\ a <= i + d
      <4>1. a - i \in 1 .. d /\ i + (a - i) = a
        BY <1>2, <3>0, <3>2
      <4>2. m[a - i] = c /\ Len(m) = d
        BY <1>6, <3>0, <4>1
      <4>3. first \in K
        BY DEF K
      <4>4. QED
        BY <1>7, <4>1, <4>2, <4>3
    <3>3. CASE a > i + d
      <4>1. a - d \in i + 1 .. l - d /\ a - d \in 1 .. l - d /\ (a - d) + d = a
        BY <1>2, <3>0, <3>3
      <4>2. QED
        BY <1>5, <1>7, <3>0, <4>1 DEF K
    <3>4. a <= i \/ (a > i /\ a <= i + d) \/ a > i + d
      BY <1>2, <3>0
    <3>5. QED
      BY <3>1, <3>2, <3>3, <3>4
  <2>4. QED
    BY <2>2, <2>3
<1>17. Laid(x, M, K, C)
  BY <1>7, <1>13, <1>15, <1>16 DEF Laid
<1>18. QED
  BY <1>4, <1>17 DEF x, M, K, s, first

\* The lists after the ring of g is put behind the k-th cell of the ring of h.
AfterJoin(L, H, h, k, g) ==
    [f \in H \ {g} |-> IF f = h THEN Inserted(L[h], k, L[g]) ELSE L[f]]

\* Exchanging the pointers of two cells of two rings makes them one.
LEMMA JoinRings ==
    ASSUME NEW n \in [Cell -> Cell], NEW C \in SUBSET Cell, NEW H, NEW L, Laid(n, L, H, C),
           NEW h \in H, NEW g \in H \ {h}, NEW k \in 1 .. Len(L[h])
    PROVE  Laid(Exchanged(n, L[h][k], L[g][Len(L[g])]), AfterJoin(L, H, h, k, g), H \ {g}, C)
<1> DEFINE s == L[h]
           t == L[g]
           l == Len(s)
           d == Len(t)
           o == Inserted(s, k, t)
           K == H \ {g}
           M == AfterJoin(L, H, h, k, g)
           x == Exchanged(n, s[k], t[d])
<1>0. ASSUME NEW e \in H, NEW f \in H, NEW a \in 1 .. Len(L[e]), NEW b \in 1 .. Len(L[f]),
             L[e][a] = L[f][b]
      PROVE  e = f /\ a = b
  BY <1>0 DEF Laid
<1>1. /\ \A f \in H : L[f] \in Seq(C) /\ IsRing(n, L[f]) /\ L[f][1] = f /\ Len(L[f]) \in Nat
      /\ \A c \in C : \E f \in H : \E a \in 1 .. Len(L[f]) : L[f][a] = c
  BY DEF Laid
<1>2. /\ s \in Seq(C) /\ t \in Seq(C) /\ l \in Nat /\ d \in Nat /\ d >= 1
      /\ k \in Nat /\ k >= 1 /\ k <= l
  BY <1>1 DEF IsRing
<1>3. (\A a \in 1 .. l : s[a] \in C) /\ (\A a \in 1 .. d : t[a] \in C)
  BY <1>2
<1>4. /\ o \in Seq(C) /\ Len(o) = l + d
      /\ \A a \in 1 .. k : o[a] = s[a]
      /\ \A a \in k + 1 .. k + d : o[a] = t[a - k]
      /\ \A a \in k + d + 1 .. l + d : o[a] = s[a - d]
  <2>1. s \in Seq(C) /\ t \in Seq(C) /\ k \in 1 .. Len(s)
    BY <1>2
  <2> HIDE DEF s, t
  <2>2. QED
    BY <2>1, InsertedIs, SMTT(60) DEF o, l, d
<1>5. M \in [K -> Seq(C)] /\ M[h] = o /\ \A f \in K \ {h} : M[f] = L[f]
  <2>1. M = [f \in K |-> IF f = h THEN o ELSE L[f]]
    BY DEF AfterJoin
  <2> HIDE DEF o, M
  <2>2. QED
    BY <1>1, <1>4, <2>1
<1>6. /\ x \in [Cell -> Cell] /\ x[s[k]] = n[t[d]] /\ x[t[d]] = n[s[k]]
      /\ \A c \in Cell \ {s[k], t[d]} : x[c] = n[c]
  <2>1. s[k] \in Cell /\ t[d] \in Cell
    BY <1>2, <1>3
  <2> HIDE DEF s, t, d
  <2>2. QED
    BY <2>1, ExchangedIs
<1>7. /\ \A a \in 1 .. l - 1 : n[s[a]] = s[a + 1]
      /\ n[s[l]] = s[1] /\ s[1] = h
      /\ \A a \in 1 .. d - 1 : n[t[a]] = t[a + 1]
      /\ n[t[d]] = t[1]
  BY <1>1 DEF IsRing
<1>8. /\ \A a \in 1 .. l : a # k => x[s[a]] = n[s[a]]
      /\ \A a \in 1 .. d : a # d => x[t[a]] = n[t[a]]
  <2>1. \A a \in 1 .. l : s[a] # t[d] /\ (a # k => s[a] # s[k])
    BY <1>0, <1>2
  <2>2. \A a \in 1 .. d : t[a] # s[k] /\ (a # d => t[a] # t[d])
    BY <1>0, <1>2
  <2>3. QED
    BY <1>3, <1>6, <2>1, <2>2
<1> HIDE DEF s, t, l, d, o, M, x, K
<1>9. IsRing(x, o) /\ o[1] = h
  <2>0. Len(o) = l + d /\ l + d > 0 /\ o[1] = h
    <3>1. 1 \in 1 .. k
      BY <1>2
    <3>2. o[1] = s[1] /\ l + d > 0
      BY <1>2, <1>4, <3>1
    <3>3. QED
      BY <1>4, <1>7, <3>2
  <2>1. \A a \in 1 .. k - 1 : x[o[a]] = o[a + 1]
    <3>1. \A a \in 1 .. k - 1 : /\ a \in 1 .. k /\ a + 1 \in 1 .. k /\ a \in 1 .. l - 1
                                /\ a \in 1 .. l /\ a # k
      BY <1>2
    <3>2. QED
      BY <1>4, <1>7, <1>8, <3>1
  <2>2. x[o[k]] = o[k + 1]
    <3>1. k \in 1 .. k /\ k + 1 \in k + 1 .. k + d /\ (k + 1) - k = 1
      BY <1>2
    <3>2. QED
      BY <1>4, <1>6, <1>7, <3>1
  <2>3. \A a \in k + 1 .. (k + d) - 1 : x[o[a]] = o[a + 1]
    <3>1. \A a \in k + 1 .. (k + d) - 1 :
             /\ a \in k + 1 .. k + d /\ a + 1 \in k + 1 .. k + d
             /\ a - k \in 1 .. d - 1 /\ a - k \in 1 .. d /\ a - k # d
             /\ (a + 1) - k = (a - k) + 1
      BY <1>2
    <3>2. QED
      BY <1>4, <1>7, <1>8, <3>1
  <2>4. x[o[k + d]] = n[s[k]]
    <3>1. k + d \in k + 1 .. k + d /\ (k + d) - k = d
      BY <1>2
    <3>2. QED
      BY <1>4, <1>6, <3>1
  <2>5. \A a \in k + d + 1 .. (l + d) - 1 : x[o[a]] = o[a + 1]
    <3>1. \A a \in k + d + 1 .. (l + d) - 1 :
             /\ a \in k + d + 1 .. l + d /\ a + 1 \in k + d + 1 .. l + d
             /\ a - d \in 1 .. l - 1 /\ a - d \in 1 .. l /\ a - d # k
             /\ (a + 1) - d = (a - d) + 1
      BY <1>2
    <3>2. QED
      BY <1>4, <1>7, <1>8, <3>1
  <2>6. o[1] = s[1]
    BY <1>2, <1>4
  <2>7. CASE k = l
    <3>1. x[o[l + d]] = o[1]
      BY <1>7, <2>4, <2>6, <2>7
    <3>2. \A a \in 1 .. (l + d) - 1 : a \in 1 .. k - 1 \/ a = k \/ a \in k + 1 .. (k + d) - 1
      BY <1>2, <2>7
    <3>3. \A a \in 1 .. (l + d) - 1 : x[o[a]] = o[a + 1]
      BY <2>1, <2>2, <2>3, <3>2
    <3>4. QED
      BY <2>0, <3>1, <3>3 DEF IsRing
  <2>8. CASE k # l
    <3>1. x[o[k + d]] = o[(k + d) + 1]
      <4>1. k \in 1 .. l - 1 /\ (k + d) + 1 \in k + d + 1 .. l + d /\ ((k + d) + 1) - d = k + 1
        BY <1>2, <2>8
      <4>2. QED
        BY <1>4, <1>7, <2>4, <4>1
    <3>2. x[o[l + d]] = o[1]
      <4>1. l + d \in k + d + 1 .. l + d /\ (l + d) - d = l /\ l \in 1 .. l /\ l # k
        BY <1>2, <2>8
      <4>2. QED
        BY <1>4, <1>7, <1>8, <2>6, <4>1
    <3>3. \A a \in 1 .. (l + d) - 1 :
             \/ a \in 1 .. k - 1 \/ a = k \/ a \in k + 1 .. (k + d) - 1
             \/ a = k + d \/ a \in k + d + 1 .. (l + d) - 1
      BY <1>2
    <3>4. \A a \in 1 .. (l + d) - 1 : x[o[a]] = o[a + 1]
      BY <2>1, <2>2, <2>3, <2>5, <3>1, <3>3
    <3>5. QED
      BY <2>0, <3>2, <3>4 DEF IsRing
  <2>9. QED
    BY <2>7, <2>8
<1>10. ASSUME NEW f \in K \ {h} PROVE IsRing(x, L[f])
  <2>1. IsRing(n, L[f]) /\ L[f] \in Seq(C) /\ Len(L[f]) \in Nat /\ f \in H /\ f # g /\ f # h
    BY <1>1 DEF K
  <2>2. \A a \in 1 .. Len(L[f]) : L[f][a] \in Cell /\ L[f][a] # s[k] /\ L[f][a] # t[d]
    <3>1. ASSUME NEW a \in 1 .. Len(L[f]) PROVE L[f][a] # s[k] /\ L[f][a] # t[d]
      <4>1. k \in 1 .. Len(L[h]) /\ d \in 1 .. Len(L[g])
        BY <1>2 DEF l, d, s, t
      <4>2. L[f][a] # L[h][k] /\ L[f][a] # L[g][d]
        BY <1>0, <2>1, <4>1
      <4>3. QED
        BY <4>2 DEF s, t
    <3>2. QED
      BY <2>1, <3>1
  <2>3. \A a \in 1 .. Len(L[f]) : x[L[f][a]] = n[L[f][a]]
    BY <1>6, <2>2
  <2>4. QED
    BY <2>1, <2>3 DEF IsRing
<1>11. \A f \in K : IsRing(x, M[f]) /\ M[f][1] = f
  BY <1>1, <1>5, <1>9, <1>10 DEF K
\* Where each element was before.
<1> DEFINE From(f, a, e, b) ==
              \/ f = h /\ e = h /\ b = a /\ a \in 1 .. k
              \/ f = h /\ e = g /\ b = a - k /\ a \in k + 1 .. k + d
              \/ f = h /\ e = h /\ b = a - d /\ a \in k + d + 1 .. l + d
              \/ f \in K \ {h} /\ e = f /\ b = a /\ a \in 1 .. Len(L[f])
<1>12. ASSUME NEW f \in K, NEW a \in 1 .. Len(M[f])
       PROVE  \E e \in H : \E b \in 1 .. Len(L[e]) : M[f][a] = L[e][b] /\ From(f, a, e, b)
  <2>1. CASE f = h
    <3>1. a \in 1 .. l + d /\ M[f][a] = o[a]
      BY <1>4, <1>5, <2>1
    <3>2. CASE a \in 1 .. k
      <4>1. a \in 1 .. l /\ o[a] = L[h][a]
        BY <1>2, <1>4, <3>2 DEF s
      <4>2. QED
        BY <2>1, <3>1, <3>2, <4>1 DEF l, s
    <3>3. CASE a \in k + 1 .. k + d
      <4>1. a - k \in 1 .. d /\ o[a] = L[g][a - k]
        BY <1>2, <1>4, <3>3 DEF t
      <4>2. QED
        BY <2>1, <3>1, <3>3, <4>1 DEF d, t
    <3>4. CASE a \in k + d + 1 .. l + d
      <4>1. a - d \in 1 .. l /\ o[a] = L[h][a - d]
        BY <1>2, <1>4, <3>4 DEF s
      <4>2. QED
        BY <2>1, <3>1, <3>4, <4>1 DEF l, s
    <3>5. a \in 1 .. k \/ a \in k + 1 .. k + d \/ a \in k + d + 1 .. l + d
      BY <1>2, <3>1
    <3>6. QED
      BY <3>2, <3>3, <3>4, <3>5
  <2>2. CASE f # h
    BY <1>5, <2>2 DEF K
  <2>3. QED
    BY <2>1, <2>2
<1>13. ASSUME NEW e \in K, NEW f \in K, NEW a \in 1 .. Len(M[e]), NEW b \in 1 .. Len(M[f]),
              M[e][a] = M[f][b]
       PROVE  e = f /\ a = b
  <2>0. PICK y \in H : \E c \in 1 .. Len(L[y]) : M[e][a] = L[y][c] /\ From(e, a, y, c)
    BY <1>12
  <2>1. PICK c \in 1 .. Len(L[y]) : M[e][a] = L[y][c] /\ From(e, a, y, c)
    BY <2>0
  <2>2. PICK z \in H : \E c2 \in 1 .. Len(L[z]) : M[f][b] = L[z][c2] /\ From(f, b, z, c2)
    BY <1>12
  <2>3. PICK c2 \in 1 .. Len(L[z]) : M[f][b] = L[z][c2] /\ From(f, b, z, c2)
    BY <2>2
  <2>4. y = z /\ c = c2
    <3> HIDE DEF From
    <3>1. L[y][c] = L[z][c2]
      BY <1>13, <2>1, <2>3
    <3>2. QED
      BY <1>0, <3>1
  <2>5. From(e, a, y, c) /\ From(f, b, y, c)
    BY <2>1, <2>3, <2>4
  <2>6. CASE y = g
    BY <1>2, <2>5, <2>6 DEF K
  <2>7. CASE y = h
    BY <1>2, <2>5, <2>7 DEF K
  <2>8. CASE y \in H \ {g, h}
    BY <2>5, <2>8
  <2>9. QED
    BY <2>6, <2>7, <2>8
<1>14. ASSUME NEW c \in C PROVE \E f \in K : \E a \in 1 .. Len(M[f]) : M[f][a] = c
  <2>0. PICK f \in H : \E a \in 1 .. Len(L[f]) : L[f][a] = c
    BY <1>1
  <2>1. PICK a \in 1 .. Len(L[f]) : L[f][a] = c
    BY <2>0
  <2>2. CASE f # h /\ f # g
    BY <1>5, <2>1, <2>2 DEF K
  <2>3. h \in K
    BY DEF K
  <2>4. CASE f = g
    <3>1. a \in 1 .. d /\ t[a] = c
      BY <2>1, <2>4 DEF t, d
    <3>2. a + k \in k + 1 .. k + d /\ a + k \in 1 .. l + d /\ (a + k) - k = a
      BY <1>2, <3>1
    <3>3. QED
      BY <1>4, <1>5, <2>3, <3>1, <3>2
  <2>5. CASE f = h
    <3>0. a \in 1 .. l /\ s[a] = c
      BY <2>1, <2>5 DEF s, l
    <3>1. CASE a <= k
      <4>1. a \in 1 .. k /\ a \in 1 .. l + d
        BY <1>2, <3>0, <3>1
      <4>2. QED
        BY <1>4, <1>5, <2>3, <3>0, <4>1
    <3>2. CASE a > k
      <4>1. a + d \in k + d + 1 .. l + d /\ a + d \in 1 .. l + d /\ (a + d) - d = a
        BY <1>2, <3>0, <3>2
      <4>2. QED
        BY <1>4, <1>5, <2>3, <3>0, <4>1
    <3>3. QED
      BY <1>2, <3>0, <3>1, <3>2
  <2>6. QED
    BY <2>2, <2>4, <2>5
<1>15. Laid(x, M, K, C)
  BY <1>5, <1>11, <1>13, <1>14 DEF Laid
<1>16. QED
  BY <1>15 DEF x, M, K, s, t, d
-----------------------------------------------------------------------------
\* The pointers of neighbours in a ring.
Beside(h, s) == /\ \A i \in 1 .. Len(s) - 1 : /\ h.next[s[i]] = s[i + 1]
                                              /\ h.previous[s[i + 1]] = s[i]
                /\ h.next[s[Len(s)]] = s[1] /\ h.previous[s[1]] = s[Len(s)]

\* In a doubly linked heap the cells of a list that is laid in it stand beside each other.
LEMMA Neighbours ==
    ASSUME NEW h \in Heap, DoublyLinked(h), NEW C \in SUBSET Cell, NEW H, NEW L,
           Laid(h.next, L, H, C), NEW g \in H
    PROVE  Beside(h, L[g])
<1>1. L[g] \in Seq(C) /\ IsRing(h.next, L[g]) /\ L[g][1] = g /\ Len(L[g]) \in Nat
  BY DEF Laid
<1>2. \A i \in 1 .. Len(L[g]) : L[g][i] \in Cell
  BY <1>1
<1>3. \A c \in Cell : h.previous[h.next[c]] = c
  BY DEF DoublyLinked
<1>4. /\ \A i \in 1 .. Len(L[g]) - 1 : h.next[L[g][i]] = L[g][i + 1]
      /\ h.next[L[g][Len(L[g])]] = g
  BY <1>1 DEF IsRing
<1>5. Len(L[g]) \in 1 .. Len(L[g]) /\ \A i \in 1 .. Len(L[g]) - 1 : i \in 1 .. Len(L[g])
  BY <1>1 DEF IsRing
<1>6. \A i \in 1 .. Len(L[g]) - 1 : h.previous[L[g][i + 1]] = L[g][i]
  BY <1>2, <1>3, <1>4, <1>5
<1>7. h.previous[g] = L[g][Len(L[g])]
  BY <1>2, <1>3, <1>4, <1>5
<1>8. QED
  BY <1>1, <1>4, <1>6, <1>7 DEF Beside

\* The ring of f without the d cells behind the i-th of the ring of h, and the lists
\* after these cells went behind the k-th of the cells that stay in the ring of g.
Rest(L, h, i, d, f) == IF f = h THEN Outer(L[h], i, d) ELSE L[f]
MovedCells(L, H, h, i, d, g, k) ==
    [f \in H |-> IF f = g THEN Inserted(Rest(L, h, i, d, f), k, Inner(L[h], i, d))
                 ELSE Rest(L, h, i, d, f)]

\* The last of the cells that move is not one of those that stay.
LEMMA RestWithout ==
    ASSUME NEW n, NEW C, NEW H, NEW L, Laid(n, L, H, C),
           NEW h \in H, NEW i \in 1 .. Len(L[h]), NEW d \in 1 .. Len(L[h]) - i,
           NEW g \in H, NEW k \in 1 .. Len(Rest(L, h, i, d, g))
    PROVE  Rest(L, h, i, d, g)[k] # L[h][i + d]
<1>1. L[h] \in Seq(C) /\ Len(L[h]) \in Nat /\ i + d \in 1 .. Len(L[h])
  BY DEF Laid
<1>2. ASSUME NEW e \in H, NEW a \in 1 .. Len(L[e]), L[e][a] = L[h][i + d]
      PROVE  e = h /\ a = i + d
  BY <1>1, <1>2 DEF Laid
<1>3. CASE g # h
  BY <1>2, <1>3 DEF Rest
<1>4. CASE g = h
  <2>1. /\ Len(Outer(L[h], i, d)) = Len(L[h]) - d
        /\ \A a \in 1 .. i : Outer(L[h], i, d)[a] = L[h][a]
        /\ \A a \in i + 1 .. Len(L[h]) - d : Outer(L[h], i, d)[a] = L[h][a + d]
    <3> DEFINE s == L[h]
    <3>1. s \in Seq(C) /\ i \in 1 .. Len(s) /\ d \in 1 .. Len(s) - i
      BY <1>1
    <3> HIDE DEF s
    <3>2. /\ Len(Outer(s, i, d)) = Len(s) - d
          /\ \A a \in 1 .. i : Outer(s, i, d)[a] = s[a]
          /\ \A a \in i + 1 .. Len(s) - d : Outer(s, i, d)[a] = s[a + d]
      BY <3>1, OuterIs
    <3>3. QED
      BY <3>2 DEF s
  <2>2. Rest(L, h, i, d, g) = Outer(L[h], i, d) /\ k \in 1 .. Len(L[h]) - d
    BY <1>4, <2>1 DEF Rest
  <2>3. CASE k <= i
    <3>1. k \in 1 .. i /\ k \in 1 .. Len(L[h]) /\ k # i + d
      BY <1>1, <2>2, <2>3
    <3>2. QED
      BY <1>2, <2>1, <2>2, <3>1
  <2>4. CASE k > i
    <3>1. k \in i + 1 .. Len(L[h]) - d /\ k + d \in 1 .. Len(L[h]) /\ k + d # i + d
      BY <1>1, <2>2, <2>4
    <3>2. QED
      BY <1>2, <2>1, <2>2, <3>1
  <2>5. QED
    BY <1>1, <2>2, <2>3, <2>4
<1>5. QED
  BY <1>3, <1>4

\* A splice whose target is neither in the segment nor before it moves the segment:
\* one exchange of pointers cuts its ring, a second one joins it to the other.
LEMMA SpliceMoves ==
    ASSUME NEW h \in Heap, DoublyLinked(h), NEW C \in SUBSET Cell, NEW H, NEW L,
           Laid(h.next, L, H, C),
           NEW b \in H, NEW i \in 1 .. Len(L[b]), NEW d \in 1 .. Len(L[b]) - i,
           NEW g \in H, NEW k \in 1 .. Len(Rest(L, b, i, d, g)),
           Rest(L, b, i, d, g)[k] # L[b][i]
    PROVE  Laid(Splice(h, Rest(L, b, i, d, g)[k], L[b][i + 1], L[b][i + d]).next,
                MovedCells(L, H, b, i, d, g, k), H, C)
<1> DEFINE before == L[b][i]
           first  == L[b][i + 1]
           last   == L[b][i + d]
           where  == Rest(L, b, i, d, g)[k]
           n      == h.next
           cut    == Exchanged(n, before, last)
           M      == AfterCut(L, H, b, i, d)
           K      == H \cup {first}
<1>1. n \in [Cell -> Cell]
  BY DEF Heap
<1>2. L[b] \in Seq(C) /\ Len(L[b]) \in Nat /\ i \in 1 .. Len(L[b]) - 1 /\ i + d \in 1 .. Len(L[b])
      /\ i + 1 \in 1 .. Len(L[b])
  <2>1. L[b] \in Seq(C) /\ Len(L[b]) \in Nat
    BY DEF Laid
  <2> HIDE DEF before, first, last, where, n, cut, M, K
  <2>2. QED
    BY <2>1
<1>3. before \in Cell /\ first \in Cell /\ last \in Cell
  BY <1>2
<1>4. n[before] = first /\ h.previous[first] = before
  <2>1. \A a \in 1 .. Len(L[b]) - 1 : /\ h.next[L[b][a]] = L[b][a + 1]
                                     /\ h.previous[L[b][a + 1]] = L[b][a]
    <3> HIDE DEF before, first, last, where, n, cut, M, K
    <3>1. Beside(h, L[b])
      BY Neighbours
    <3>2. QED
      BY <3>1 DEF Beside
  <2>2. QED
    BY <1>2, <2>1
<1>5. first \notin H /\ Laid(cut, M, K, C)
  <2> HIDE DEF n
  <2>1. n \in [Cell -> Cell] /\ Laid(n, L, H, C)
    BY <1>1 DEF n
  <2>2. QED
    BY <2>1, CutRing
<1>6. /\ M[first] = Inner(L[b], i, d)
      /\ \A f \in H : M[f] = Rest(L, b, i, d, f)
  BY <1>5 DEF AfterCut, Rest
<1>7. Len(M[first]) = d /\ M[first][d] = last
  <2>1. i \in 1 .. Len(L[b]) /\ d \in 1 .. Len(L[b]) - i /\ d \in 1 .. d
    BY <1>2
  <2>2. Len(Inner(L[b], i, d)) = d /\ \A a \in 1 .. d : Inner(L[b], i, d)[a] = L[b][i + a]
    BY <1>2, <2>1, InnerIs, SMTT(60)
  <2>3. QED
    BY <1>6, <2>1, <2>2
<1>8. cut \in [Cell -> Cell] /\ cut[before] = n[last] /\ cut[last] = first
      /\ \A c \in Cell \ {before, last} : cut[c] = n[c]
  <2> HIDE DEF n, before, last
  <2>1. QED
    BY <1>1, <1>3, <1>4, ExchangedIs
<1>9. where # last /\ where # before
  BY RestWithout
<1>10. M[g] \in Seq(C) /\ k \in 1 .. Len(M[g]) /\ M[g][k] = where
  BY <1>5, <1>6 DEF Laid
<1>11. where \in Cell
  BY <1>10
<1>12. Splice(h, where, first, last).next = Exchanged(cut, where, last)
  <2> DEFINE x == Splice(h, where, first, last).next
             y == Exchanged(cut, where, last)
  <2>1. x = [[[n EXCEPT ![before] = n[last]] EXCEPT ![last] = n[where]] EXCEPT ![where] = first]
    BY <1>4 DEF Splice, Link
  <2>2. y \in [Cell -> Cell] /\ y[where] = cut[last] /\ y[last] = cut[where]
        /\ \A c \in Cell \ {where, last} : y[c] = cut[c]
    <3> HIDE DEF cut, where, last
    <3>1. QED
      BY <1>3, <1>8, <1>11, ExchangedIs
  <2> HIDE DEF n, cut, y, where, last, before, first
  <2>3. ASSUME NEW c \in Cell PROVE x[c] = y[c]
    BY <1>1, <1>3, <1>8, <1>9, <1>11, <2>1, <2>2
  <2>4. x \in [Cell -> Cell]
    BY <1>1, <1>3, <1>8, <1>11, <2>1
  <2> HIDE DEF x
  <2>5. x = y
    BY <2>2, <2>3, <2>4
  <2>6. QED
    BY <2>5 DEF x, y
<1>13. Laid(Exchanged(cut, where, last), AfterJoin(M, K, g, k, first), K \ {first}, C)
  <2>1. g \in K /\ first \in K \ {g}
    BY <1>5
  <2> HIDE DEF cut, M, K, where, first, last
  <2>2. Laid(Exchanged(cut, M[g][k], M[first][Len(M[first])]),
             AfterJoin(M, K, g, k, first), K \ {first}, C)
    BY <1>5, <1>8, <1>10, <2>1, JoinRings
  <2>3. QED
    BY <1>7, <1>10, <2>2
<1>14. AfterJoin(M, K, g, k, first) = MovedCells(L, H, b, i, d, g, k) /\ K \ {first} = H
  <2>1. K \ {first} = H
    BY <1>5
  <2> HIDE DEF K, first, M
  <2>2. AfterJoin(M, K, g, k, first)
           = [f \in H |-> IF f = g THEN Inserted(M[g], k, M[first]) ELSE M[f]]
    BY <2>1 DEF AfterJoin
  <2>3. QED
    BY <1>6, <2>1, <2>2 DEF MovedCells
<1>15. QED
  BY <1>12, <1>13, <1>14

\* JoinRing puts the ring of f behind the ring of g.
LEMMA JoinRingMoves ==
    ASSUME NEW h \in Heap, DoublyLinked(h), NEW C \in SUBSET Cell, NEW H, NEW L,
           Laid(h.next, L, H, C), NEW g \in H, NEW f \in H \ {g}
    PROVE  Laid(JoinRing(h, g, f).next, AfterJoin(L, H, g, Len(L[g]), f), H \ {f}, C)
<1> DEFINE n == h.next
           tail == L[g][Len(L[g])]
           last == L[f][Len(L[f])]
<1>1. n \in [Cell -> Cell]
  BY DEF Heap
<1>2. /\ L[g] \in Seq(C) /\ Len(L[g]) \in Nat /\ Len(L[g]) > 0 /\ L[g][1] = g
      /\ L[f] \in Seq(C) /\ Len(L[f]) \in Nat /\ Len(L[f]) > 0 /\ L[f][1] = f
  <2> HIDE DEF n, tail, last
  <2>1. \A e \in H : L[e] \in Seq(C) /\ IsRing(h.next, L[e]) /\ L[e][1] = e
    BY DEF Laid
  <2>2. \A e \in H : Len(L[e]) \in Nat /\ Len(L[e]) > 0
    BY <2>1 DEF IsRing
  <2>3. QED
    BY <2>1, <2>2
<1>3. Len(L[g]) \in 1 .. Len(L[g]) /\ Len(L[f]) \in 1 .. Len(L[f])
  BY <1>2
<1>4. tail \in Cell /\ last \in Cell
  BY <1>2, <1>3
<1>5. h.previous[g] = tail /\ h.previous[f] = last /\ n[tail] = g /\ n[last] = f
  <2> HIDE DEF n, tail, last
  <2>1. Beside(h, L[g]) /\ Beside(h, L[f])
    BY Neighbours
  <2>2. QED
    BY <1>2, <2>1 DEF Beside, n, tail, last
<1>6. tail # last
  BY <1>3 DEF Laid
<1>7. JoinRing(h, g, f).next = Exchanged(n, tail, last)
  <2>1. JoinRing(h, g, f).next = [[n EXCEPT ![tail] = f] EXCEPT ![last] = g]
    BY <1>5 DEF JoinRing, Link
  <2> HIDE DEF n, tail, last
  <2>2. [[n EXCEPT ![tail] = f] EXCEPT ![last] = g] = Exchanged(n, tail, last)
    BY <1>1, <1>4, <1>5, <1>6 DEF Exchanged
  <2>3. QED
    BY <2>1, <2>2
<1>8. Laid(Exchanged(n, L[g][Len(L[g])], L[f][Len(L[f])]),
           AfterJoin(L, H, g, Len(L[g]), f), H \ {f}, C)
  <2> HIDE DEF n
  <2>1. Laid(n, L, H, C)
    BY DEF n
  <2>2. QED
    BY <1>1, <1>3, <2>1, JoinRings
<1>9. QED
  BY <1>7, <1>8
-----------------------------------------------------------------------------
\* The walk along the pointers n from head back to head, in at most m + 1 cells.
WalkOf(n, m, head) ==
    LET from[k \in Nat] ==
            [c \in Cell |-> IF k = 0 \/ n[c] = head THEN <<c>> ELSE <<c>> \o from[k - 1][n[c]]]
    IN  from[m][head]

\* A walk that is long enough gives the cells of the ring in their order.
LEMMA WalkIs ==
    ASSUME NEW n \in [Cell -> Cell], NEW s \in Seq(Cell), IsRing(n, s),
           \A i, j \in 1 .. Len(s) : s[i] = s[j] => i = j,
           NEW m \in Nat, Len(s) <= m + 1
    PROVE  WalkOf(n, m, s[1]) = s
<1> DEFINE l == Len(s)
           head == s[1]
           D == [Cell -> Seq(Cell)]
           a == [c \in Cell |-> <<c>>]
           step == [g \in D |-> [c \in Cell |-> IF n[c] = head THEN <<c>> ELSE <<c>> \o g[n[c]]]]
           Fits(f) == f = [k \in Nat |->
              [c \in Cell |-> IF k = 0 \/ n[c] = head THEN <<c>> ELSE <<c>> \o f[k - 1][n[c]]]]
           from == CHOOSE f : Fits(f)
           Behind(i) == SubSeq(s, i, l)
<1>1. l \in Nat /\ l >= 1 /\ \A i \in 1 .. l : s[i] \in Cell
  BY DEF IsRing
<1>2. a \in D
  OBVIOUS
<1>3. step \in [D -> D]
  <2>1. ASSUME NEW g \in D, NEW c \in Cell
        PROVE  <<c>> \in Seq(Cell) /\ <<c>> \o g[n[c]] \in Seq(Cell)
    OBVIOUS
  <2>2. QED
    BY <2>1
<1>4. PICK f \in [Nat -> D] : f[0] = a /\ \A k \in Nat : f[k + 1] = step[f[k]]
  <2> HIDE DEF D, step, a, Fits, from, Behind, l, head
  <2>1. step \in [D -> D] /\ a \in D
    BY <1>2, <1>3
  <2>2. PICK f : Iteration(f, D, step, a)
    BY <2>1, IterationExists
  <2>3. QED
    BY <2>2 DEF Iteration
<1>5. Fits(f)
  <2>1. ASSUME NEW k \in Nat \ {0}
        PROVE  f[k] = [c \in Cell |-> IF n[c] = head THEN <<c>> ELSE <<c>> \o f[k - 1][n[c]]]
    <3>1. k - 1 \in Nat /\ (k - 1) + 1 = k
      OBVIOUS
    <3>2. f[k] = step[f[k - 1]] /\ f[k - 1] \in D
      <4> HIDE DEF D, step
      <4>1. QED
        BY <1>4, <3>1
    <3> HIDE DEF D
    <3>3. QED
      BY <3>2
  <2>2. f[0] = [c \in Cell |-> <<c>>]
    BY <1>4
  <2> HIDE DEF D, head
  <2>3. ASSUME NEW k \in Nat
        PROVE  f[k] = [c \in Cell |-> IF k = 0 \/ n[c] = head THEN <<c>>
                                      ELSE <<c>> \o f[k - 1][n[c]]]
    <3>1. CASE k = 0
      BY <2>2, <3>1
    <3>2. CASE k # 0
      BY <2>1, <3>2
    <3>3. QED
      BY <3>1, <3>2
  <2>4. QED
    BY <1>4, <2>3, Zenon
<1>6. Fits(from)
  <2> HIDE DEF Fits
  <2>1. QED
    BY <1>5
<1>7. WalkOf(n, m, head) = from[m][head]
  BY DEF WalkOf
<1> HIDE DEF from
<1>8. /\ \A c \in Cell : from[0][c] = <<c>>
      /\ \A k \in Nat : \A c \in Cell :
            from[k + 1][c] = IF n[c] = head THEN <<c>> ELSE <<c>> \o from[k][n[c]]
  <2> HIDE DEF head
  <2>1. \A c \in Cell : from[0][c] = <<c>>
    BY <1>6
  <2>2. ASSUME NEW k \in Nat, NEW c \in Cell
        PROVE  from[k + 1][c] = IF n[c] = head THEN <<c>> ELSE <<c>> \o from[k][n[c]]
    <3>1. k + 1 \in Nat /\ k + 1 # 0 /\ (k + 1) - 1 = k
      OBVIOUS
    <3>2. from[k + 1][c] = IF k + 1 = 0 \/ n[c] = head THEN <<c>>
                           ELSE <<c>> \o from[(k + 1) - 1][n[c]]
      <4>1. \A j \in Nat : from[j] = [e \in Cell |-> IF j = 0 \/ n[e] = head THEN <<e>>
                                                    ELSE <<e>> \o from[j - 1][n[e]]]
        <5>1. from = [j \in Nat |-> [e \in Cell |-> IF j = 0 \/ n[e] = head THEN <<e>>
                                                    ELSE <<e>> \o from[j - 1][n[e]]]]
          BY <1>6
        <5>2. QED
          BY <5>1, Zenon
      <4>2. from[k + 1] = [e \in Cell |-> IF k + 1 = 0 \/ n[e] = head THEN <<e>>
                                           ELSE <<e>> \o from[(k + 1) - 1][n[e]]]
        BY <3>1, <4>1, Zenon
      <4>3. QED
        BY <4>2, Zenon
    <3>3. QED
      BY <3>1, <3>2
  <2>3. QED
    BY <2>1, <2>2
<1>9. /\ \A i \in 1 .. l - 1 : n[s[i]] = s[i + 1] /\ n[s[i]] # head
      /\ n[s[l]] = head
  <2>1. \A i \in 1 .. l - 1 : i + 1 \in 1 .. l /\ 1 \in 1 .. l /\ i + 1 # 1
    BY <1>1
  <2>2. \A i \in 1 .. l - 1 : s[i + 1] # s[1]
    BY <2>1
  <2>3. QED
    BY <2>2 DEF IsRing
<1>10. ASSUME NEW i \in 1 .. l PROVE Behind(i) = <<s[i]>> \o Behind(i + 1)
  <2>1. l \in i .. l
    BY <1>1
  <2>2. QED
    BY <2>1, SubSeqRecursiveFirst
<1>11. Behind(l) = <<s[l]>>
  <2>1. Behind(l + 1) = << >>
    BY <1>1, SubSeqEmpty
  <2>2. <<s[l]>> \in Seq(Cell) /\ l \in 1 .. l
    BY <1>1
  <2>3. QED
    BY <1>10, <2>1, <2>2, ConcatEmptySeq
<1> HIDE DEF Behind
<1> DEFINE N == {k \in Nat : \A i \in 1 .. l : l - i <= k => from[k][s[i]] = Behind(i)}
<1>12. 0 \in N
  <2>1. \A i \in 1 .. l : l - i <= 0 => i = l
    BY <1>1
  <2>2. QED
    BY <1>1, <1>8, <1>11, <2>1
<1>13. ASSUME NEW k \in Nat, k \in N PROVE k + 1 \in N
  <2>1. ASSUME NEW i \in 1 .. l, l - i <= k + 1 PROVE from[k + 1][s[i]] = Behind(i)
    <3>1. CASE i = l
      BY <1>1, <1>8, <1>9, <1>11, <3>1
    <3>2. CASE i # l
      <4>1. i \in 1 .. l - 1 /\ i + 1 \in 1 .. l /\ l - (i + 1) <= k
        BY <1>1, <2>1, <3>2
      <4>2. from[k][s[i + 1]] = Behind(i + 1)
        BY <1>13, <4>1
      <4>3. QED
        <5>1. s[i] \in Cell /\ n[s[i]] = s[i + 1] /\ n[s[i]] # head
          <6>1. s[i] \in Cell
            BY <1>1, <2>1
          <6>2. QED
            BY <1>9, <4>1, <6>1
        <5>2. from[k + 1][s[i]] = <<s[i]>> \o from[k][s[i + 1]]
          BY <1>8, <5>1, ZenonT(60)
        <5>3. QED
          BY <1>10, <4>2, <5>2
    <3>3. QED
      BY <3>1, <3>2
  <2>2. QED
    BY <2>1
<1> HIDE DEF N
<1>14. m \in N
  BY <1>12, <1>13, NaturalsInSet
<1>15. from[m][s[1]] = Behind(1)
  BY <1>1, <1>14 DEF N
<1>16. Behind(1) = s
  BY SubSeqFull DEF Behind
<1>17. QED
  BY <1>7, <1>15, <1>16

\* The k-th successor of the head g of the ring s is in the ring.
Reaches(h, s, g, k) == k < Len(s) /\ Successor(h, g, k) = s[k + 1]

\* Walking count cells from a head that has as many leads to the count-th cell of its list.
LEMMA SuccessorIs ==
    ASSUME NEW h \in Heap, NEW C \in SUBSET Cell, NEW H, NEW L, Laid(h.next, L, H, C),
           NEW g \in H, NEW count \in Nat, HasCells(h, g, count)
    PROVE  Reaches(h, L[g], g, count)
<1> DEFINE s == L[g]
           l == Len(s)
<1>1. s \in Seq(C) /\ l \in Nat /\ l > 0 /\ s[1] = g
  BY DEF Laid, IsRing
<1>2. (\A i \in 1 .. l - 1 : h.next[s[i]] = s[i + 1]) /\ h.next[s[l]] = g
  BY <1>1 DEF Laid, IsRing
<1> HIDE DEF s, l
<1>3. g \in Cell
  <2>1. 1 \in 1 .. Len(s)
    BY <1>1 DEF l
  <2>2. QED
    BY <1>1, <2>1
<1>4. /\ Successor(h, g, 0) = g
      /\ \A k \in Nat : Successor(h, g, k + 1) = h.next[Successor(h, g, k)]
  BY <1>3, Successors
<1> DEFINE N == {k \in Nat : k < l => Successor(h, g, k) = s[k + 1]}
<1>5. 0 \in N
  <2>1. s[0 + 1] = g /\ 0 \in Nat
    BY <1>1
  <2>2. QED
    BY <1>4, <2>1
<1>6. ASSUME NEW k \in Nat, k \in N PROVE k + 1 \in N
  <2>1. CASE k + 1 < l
    <3>1. k < l /\ k + 1 \in 1 .. l - 1
      BY <1>1, <2>1
    <3>2. QED
      BY <1>2, <1>4, <1>6, <3>1
  <2>2. QED
    BY <1>1, <2>1
<1>7. \A k \in Nat : k < l => Successor(h, g, k) = s[k + 1]
  <2> HIDE DEF N
  <2>1. Nat \subseteq N
    BY <1>5, <1>6, NaturalsInSet
  <2>2. QED
    BY <2>1 DEF N
<1>8. Successor(h, g, l) = g
  <2>1. l - 1 \in Nat /\ l - 1 < l /\ (l - 1) + 1 = l
    BY <1>1
  <2>2. Successor(h, g, l - 1) = s[l]
    BY <1>7, <2>1
  <2>3. QED
    BY <1>2, <1>4, <2>1, <2>2
<1>9. count < l
  <2>1. SUFFICES ASSUME count >= l PROVE FALSE
    BY <1>1
  <2>2. l \in 1 .. count
    BY <1>1, <2>1
  <2>3. QED
    BY <1>8, <2>2 DEF HasCells
<1>10. QED
  BY <1>7, <1>9 DEF s, l, Reaches
-----------------------------------------------------------------------------
\* A new block becomes the end of the ring of g.
Extended(L, g, block) == [L EXCEPT ![g] = L[g] \o block]
Unused(block, size, C) == /\ size \in Nat \ {0} /\ block \in [1 .. size -> Cell \ C]
                          /\ \A i, j \in 1 .. size : block[i] = block[j] => i = j
CellsOf(block, size) == {block[i] : i \in 1 .. size}

\* A block linked behind the end of a list extends that list and changes no other one.
LEMMA AddFreeMemoryMoves ==
    ASSUME NEW h \in Heap, DoublyLinked(h), NEW C \in SUBSET Cell, NEW H, NEW L,
           Laid(h.next, L, H, C), NEW g \in H,
           NEW size, NEW block, Unused(block, size, C)
    PROVE  Laid(AddFreeMemory(h, g, block, size).next, Extended(L, g, block), H,
                C \cup CellsOf(block, size))
<1>0. size \in Nat \ {0} /\ block \in [1 .. size -> Cell \ C]
      /\ \A i, j \in 1 .. size : block[i] = block[j] => i = j
  BY DEF Unused
<1> USE <1>0
<1> DEFINE new  == {block[i] : i \in 1 .. size}
           index(c) == CHOOSE i \in 1 .. size : block[i] = c
           tail == h.previous[g]
           n    == h.next
           x    == AddFreeMemory(h, g, block, size).next
           s    == L[g]
           l    == Len(s)
           o    == s \o block
           M    == [L EXCEPT ![g] = o]
<1>1. n \in [Cell -> Cell]
  BY DEF Heap
<1>2. /\ \A f \in H : L[f] \in Seq(C) /\ IsRing(n, L[f]) /\ L[f][1] = f /\ Len(L[f]) \in Nat
      /\ \A c \in C : \E f \in H : \E a \in 1 .. Len(L[f]) : L[f][a] = c
  BY DEF Laid
<1>3. ASSUME NEW e \in H, NEW f \in H, NEW a \in 1 .. Len(L[e]), NEW b \in 1 .. Len(L[f]),
             L[e][a] = L[f][b]
      PROVE  e = f /\ a = b
  BY <1>3 DEF Laid
<1>4. \A i \in 1 .. size : index(block[i]) = i
  OBVIOUS
<1>5. x = [c \in Cell |-> IF c \in new THEN IF index(c) = size THEN g ELSE block[index(c) + 1]
                          ELSE IF c = tail THEN block[1] ELSE n[c]]
  BY DEF AddFreeMemory
<1>6. s \in Seq(C) /\ l \in Nat /\ l > 0 /\ s[1] = g /\ tail = s[l]
      /\ (\A i \in 1 .. l - 1 : n[s[i]] = s[i + 1])
  <2>1. s \in Seq(C) /\ l \in Nat /\ l > 0 /\ s[1] = g /\ (\A i \in 1 .. l - 1 : n[s[i]] = s[i + 1])
    BY <1>2 DEF IsRing
  <2>2. Beside(h, s)
    <3> HIDE DEF new, index, tail, n, x, l, o, M
    <3>1. QED
      BY Neighbours
  <2>3. QED
    BY <2>1, <2>2 DEF Beside
<1> HIDE DEF index, tail, n, x, s, l, M, o
<1>7. /\ \A i \in 1 .. size - 1 : x[block[i]] = block[i + 1]
      /\ x[block[size]] = g
      /\ x[s[l]] = block[1]
      /\ \A f \in H : \A i \in 1 .. Len(L[f]) : L[f][i] # s[l] => x[L[f][i]] = n[L[f][i]]
  <2>1. \A i \in 1 .. size : block[i] \in Cell /\ block[i] \in new
    OBVIOUS
  <2>2. \A f \in H : \A i \in 1 .. Len(L[f]) : L[f][i] \in Cell /\ L[f][i] \notin new
    BY <1>2
  <2>3. l \in 1 .. Len(L[g]) /\ L[g][l] = s[l] /\ size \in 1 .. size
        /\ \A i \in 1 .. size - 1 : i \in 1 .. size /\ i # size
    BY <1>6 DEF s, l
  <2> HIDE DEF new
  <2>4. /\ \A i \in 1 .. size - 1 : x[block[i]] = block[i + 1]
        /\ x[block[size]] = g
    BY <1>4, <1>5, <2>1, <2>3
  <2>5. s[l] \in Cell /\ s[l] \notin new
    BY <2>2, <2>3
  <2>6. QED
    BY <1>5, <1>6, <2>2, <2>4, <2>5
<1>8. block \in Seq(C \cup new) /\ Len(block) = size /\ s \in Seq(C \cup new)
  <2>1. block \in [1 .. size -> C \cup new]
    OBVIOUS
  <2> HIDE DEF new
  <2>2. QED
    BY <1>6, <2>1
<1>9. /\ o \in Seq(C \cup new) /\ Len(o) = l + size
      /\ \A i \in 1 .. l : o[i] = s[i]
      /\ \A i \in 1 .. size : o[l + i] = block[i]
  <2> HIDE DEF new
  <2>1. /\ o \in Seq(C \cup new) /\ Len(o) = l + size
        /\ \A i \in 1 .. l + size : o[i] = IF i <= l THEN s[i] ELSE block[i - l]
    <3> DEFINE D == C \cup new
    <3>1. s \in Seq(D) /\ block \in Seq(D) /\ Len(block) = size
      BY <1>8
    <3> HIDE DEF D
    <3>2. /\ s \o block \in Seq(D) /\ Len(s \o block) = Len(s) + Len(block)
          /\ \A i \in 1 .. Len(s) + Len(block) :
                (s \o block)[i] = IF i <= Len(s) THEN s[i] ELSE block[i - Len(s)]
      BY <3>1, SMTT(60)
    <3>3. QED
      BY <3>1, <3>2 DEF o, l, D
  <2>2. \A i \in 1 .. l : i \in 1 .. l + size /\ i <= l
    BY <1>6
  <2>3. \A i \in 1 .. size : l + i \in 1 .. l + size /\ ~(l + i <= l) /\ (l + i) - l = i
    BY <1>6
  <2>4. QED
    BY <2>1, <2>2, <2>3
<1>10. IsRing(x, o) /\ o[1] = g
  <2>1. o[1] = g /\ Len(o) > 0
    BY <1>6, <1>9
  <2>2. ASSUME NEW i \in 1 .. Len(o) - 1 PROVE x[o[i]] = o[i + 1]
    <3>1. CASE i < l
      <4>1. i \in 1 .. l - 1 /\ i \in 1 .. l /\ i + 1 \in 1 .. l /\ l \in 1 .. l /\ i # l
        BY <1>6, <3>1
      <4>2. s[i] # s[l]
        BY <1>3, <4>1 DEF s, l
      <4>3. x[s[i]] = n[s[i]]
        BY <1>7, <4>1, <4>2 DEF s, l
      <4>4. QED
        BY <1>6, <1>9, <4>1, <4>3
    <3>2. CASE i = l
      <4>1. l \in 1 .. l /\ 1 \in 1 .. size
        BY <1>6
      <4>2. QED
        BY <1>7, <1>9, <3>2, <4>1
    <3>3. CASE i > l
      <4>1. i - l \in 1 .. size - 1 /\ i - l \in 1 .. size /\ (i - l) + 1 \in 1 .. size
            /\ l + (i - l) = i /\ l + ((i - l) + 1) = i + 1
        <5>1. l \in Nat /\ size \in Nat /\ i \in 1 .. (l + size) - 1
          BY <1>6, <1>9
        <5>2. QED
          BY <3>3, <5>1
      <4>2. o[i] = block[i - l] /\ o[i + 1] = block[(i - l) + 1]
        BY <1>9, <4>1
      <4>3. QED
        BY <1>7, <4>1, <4>2
    <3>4. QED
      BY <1>6, <3>1, <3>2, <3>3
  <2>3. x[o[Len(o)]] = o[1]
    <3>1. size \in 1 .. size
      OBVIOUS
    <3>2. o[Len(o)] = block[size]
      BY <1>9, <3>1
    <3>3. QED
      BY <1>7, <2>1, <3>2
  <2>4. QED
    BY <2>1, <2>2, <2>3 DEF IsRing
<1>11. M \in [H -> Seq(C \cup new)] /\ M[g] = o /\ \A f \in H \ {g} : M[f] = L[f]
  <2>1. L \in [H -> Seq(C)] /\ \A f \in H : L[f] \in Seq(C \cup new)
    <3> HIDE DEF new
    <3>1. QED
      BY DEF Laid
  <2> HIDE DEF new
  <2>2. QED
    BY <1>9, <2>1 DEF M
<1>12. ASSUME NEW f \in H \ {g} PROVE IsRing(x, L[f]) /\ L[f][1] = f
  <2>1. IsRing(n, L[f]) /\ L[f] \in Seq(C) /\ Len(L[f]) \in Nat /\ L[f][1] = f
    BY <1>2
  <2>2. \A a \in 1 .. Len(L[f]) : x[L[f][a]] = n[L[f][a]]
    <3>1. l \in 1 .. Len(L[g]) /\ L[g][l] = s[l]
      BY <1>6 DEF s, l
    <3>2. QED
      BY <1>3, <1>7, <3>1
  <2>3. QED
    BY <2>1, <2>2 DEF IsRing
<1>13. \A f \in H : IsRing(x, M[f]) /\ M[f][1] = f
  BY <1>10, <1>11, <1>12
\* An element of a ring was one already, or is a new cell at the end of the ring of g.
<1>14. ASSUME NEW f \in H, NEW a \in 1 .. Len(M[f])
       PROVE  \/ a \in 1 .. Len(L[f]) /\ M[f][a] = L[f][a] /\ M[f][a] \notin new
              \/ f = g /\ a - l \in 1 .. size /\ M[f][a] = block[a - l]
  <2>1. ASSUME NEW b \in 1 .. Len(L[f]) PROVE L[f][b] \notin new
    BY <1>2
  <2> HIDE DEF new
  <2>2. CASE f # g
    BY <1>11, <2>1, <2>2
  <2>3. CASE f = g
    <3>1. a \in 1 .. l + size
      BY <1>9, <1>11, <2>3
    <3>2. CASE a <= l
      BY <1>6, <1>9, <1>11, <2>1, <2>3, <3>1, <3>2 DEF s, l
    <3>3. CASE a > l
      <4>1. a - l \in 1 .. size /\ l + (a - l) = a
        BY <1>6, <3>1, <3>3
      <4>2. QED
        BY <1>9, <1>11, <2>3, <4>1
    <3>4. QED
      BY <1>6, <3>1, <3>2, <3>3
  <2>4. QED
    BY <2>2, <2>3
<1>15. ASSUME NEW e \in H, NEW f \in H, NEW a \in 1 .. Len(M[e]), NEW b \in 1 .. Len(M[f]),
              M[e][a] = M[f][b]
       PROVE  e = f /\ a = b
  <2>1. a \in Nat /\ b \in Nat
    BY <1>2, <1>9, <1>11
  <2>2. CASE M[e][a] \notin new
    <3>1. a \in 1 .. Len(L[e]) /\ M[e][a] = L[e][a]
      BY <1>14, <2>2
    <3>2. b \in 1 .. Len(L[f]) /\ M[f][b] = L[f][b]
      BY <1>14, <1>15, <2>2
    <3>3. L[e][a] = L[f][b]
      BY <1>15, <3>1, <3>2
    <3>4. QED
      BY <1>3, <3>1, <3>2, <3>3
  <2>3. CASE M[e][a] \in new
    <3>1. e = g /\ a - l \in 1 .. size /\ M[e][a] = block[a - l]
      BY <1>14, <2>3
    <3>2. f = g /\ b - l \in 1 .. size /\ M[f][b] = block[b - l]
      BY <1>14, <1>15, <2>3
    <3>3. a - l = b - l
      BY <1>15, <3>1, <3>2
    <3>4. QED
      BY <1>6, <2>1, <3>1, <3>2, <3>3
  <2>4. QED
    BY <2>2, <2>3
<1>16. ASSUME NEW c \in C \cup new PROVE \E f \in H : \E a \in 1 .. Len(M[f]) : M[f][a] = c
  <2>1. CASE c \in C
    <3>1. PICK f \in H : \E a \in 1 .. Len(L[f]) : L[f][a] = c
      BY <1>2, <2>1
    <3>2. PICK a \in 1 .. Len(L[f]) : L[f][a] = c
      BY <3>1
    <3>3. CASE f = g
      <4>1. a \in 1 .. l /\ a \in 1 .. l + size /\ s[a] = c
        BY <1>6, <3>2, <3>3 DEF s, l
      <4>2. QED
        BY <1>9, <1>11, <4>1
    <3>4. CASE f # g
      BY <1>11, <3>2, <3>4
    <3>5. QED
      BY <3>3, <3>4
  <2>2. CASE c \in new
    <3>1. PICK i \in 1 .. size : block[i] = c
      BY <2>2
    <3>2. l + i \in 1 .. l + size
      BY <1>6
    <3>3. QED
      BY <1>9, <1>11, <3>1, <3>2
  <2>3. QED
    BY <2>1, <2>2
<1>17. Laid(x, M, H, C \cup new)
  BY <1>11, <1>13, <1>15, <1>16 DEF Laid
<1>18. QED
  BY <1>17 DEF x, M, o, s, Extended, CellsOf
-----------------------------------------------------------------------------
\* The elements of a sequence up to the i-th and from the next one on.
LEMMA Section ==
    ASSUME NEW C, NEW s \in Seq(C), NEW i \in 0 .. Len(s), NEW j \in i .. Len(s)
    PROVE  /\ SubSeq(s, i + 1, j) \in Seq(C) /\ Len(SubSeq(s, i + 1, j)) = j - i
           /\ \A k \in 1 .. j - i : SubSeq(s, i + 1, j)[k] = s[i + k]
<1>1. Len(s) \in Nat /\ i \in Nat /\ j \in Nat /\ i <= j /\ j <= Len(s)
  OBVIOUS
<1>2. \A k \in i + 1 .. j : s[k] \in C
  <2>1. \A k \in i + 1 .. j : k \in 1 .. Len(s)
    BY <1>1
  <2>2. QED
    BY <2>1
<1>3. i + 1 \in Int /\ j \in Int
  BY <1>1
<1>4. /\ SubSeq(s, i + 1, j) \in Seq(C)
      /\ Len(SubSeq(s, i + 1, j)) = IF i + 1 <= j THEN j - (i + 1) + 1 ELSE 0
      /\ \A k \in 1 .. j - (i + 1) + 1 : SubSeq(s, i + 1, j)[k] = s[(i + 1) + k - 1]
  BY <1>2, <1>3, SubSeqProperties
<1>5. j - (i + 1) + 1 = j - i /\ \A k \in 1 .. j - i : (i + 1) + k - 1 = i + k
  BY <1>1
<1>6. QED
  BY <1>1, <1>4, <1>5

\* The elements of a concatenation.
LEMMA Concatenation ==
    ASSUME NEW C, NEW s \in Seq(C), NEW t \in Seq(C)
    PROVE  /\ s \o t \in Seq(C) /\ Len(s \o t) = Len(s) + Len(t)
           /\ \A i \in 1 .. Len(s) : (s \o t)[i] = s[i]
           /\ \A i \in Len(s) + 1 .. Len(s) + Len(t) : (s \o t)[i] = t[i - Len(s)]
<1>1. /\ s \o t \in Seq(C) /\ Len(s \o t) = Len(s) + Len(t)
      /\ \A i \in 1 .. Len(s) + Len(t) :
            (s \o t)[i] = IF i <= Len(s) THEN s[i] ELSE t[i - Len(s)]
  BY SMTT(60)
<1>2. Len(s) \in Nat /\ Len(t) \in Nat
  OBVIOUS
<1>3. \A i \in 1 .. Len(s) : i \in 1 .. Len(s) + Len(t) /\ i <= Len(s)
  BY <1>2
<1>4. \A i \in Len(s) + 1 .. Len(s) + Len(t) : i \in 1 .. Len(s) + Len(t) /\ ~(i <= Len(s))
  BY <1>2
<1>5. QED
  BY <1>1, <1>3, <1>4

\* What is cut out is a part of the list ...
LEMMA InnerParts ==
    ASSUME NEW C, NEW s \in Seq(C), NEW i \in 1 .. Len(s), NEW d \in 1 .. Len(s) - i
    PROVE  Inner(s, i, d) = SubSeq(s, i + 1, i + d)
<1>1. Len(s) \in Nat /\ i \in 0 .. Len(s) /\ i + d \in i .. Len(s) /\ (i + d) - i = d
  OBVIOUS
<1> DEFINE o == Inner(s, i, d)
           r == SubSeq(s, i + 1, i + d)
<1>2. o \in Seq(C) /\ Len(o) = d /\ \A k \in 1 .. d : o[k] = s[i + k]
  BY InnerIs
<1>3. r \in Seq(C) /\ Len(r) = d /\ \A k \in 1 .. d : r[k] = s[i + k]
  BY <1>1, Section
<1> HIDE DEF o, r
<1>4. o = r
  BY <1>2, <1>3, SeqEqual
<1>5. QED
  BY <1>4 DEF o, r

\* ... what is left are the two parts around it ...
LEMMA OuterParts ==
    ASSUME NEW C, NEW s \in Seq(C), NEW i \in 1 .. Len(s), NEW d \in 1 .. Len(s) - i
    PROVE  Outer(s, i, d) = SubSeq(s, 1, i) \o SubSeq(s, (i + d) + 1, Len(s))
<1>1. Len(s) \in Nat /\ i \in Nat /\ d \in Nat /\ i + d \in 0 .. Len(s) /\ i \in 0 .. Len(s)
      /\ Len(s) \in i + d .. Len(s)
  OBVIOUS
<1> DEFINE o == Outer(s, i, d)
           a == SubSeq(s, 1, i)
           b == SubSeq(s, (i + d) + 1, Len(s))
<1>2. /\ o \in Seq(C) /\ Len(o) = Len(s) - d
      /\ \A k \in 1 .. i : o[k] = s[k]
      /\ \A k \in i + 1 .. Len(s) - d : o[k] = s[k + d]
  BY OuterIs
<1>3. a \in Seq(C) /\ Len(a) = i /\ \A k \in 1 .. i : a[k] = s[k]
  <2>1. 0 \in 0 .. Len(s) /\ i \in 0 .. Len(s) /\ 0 + 1 = 1 /\ i - 0 = i
        /\ \A k \in 1 .. i : 0 + k = k
    BY <1>1
  <2>2. /\ SubSeq(s, 0 + 1, i) \in Seq(C) /\ Len(SubSeq(s, 0 + 1, i)) = i - 0
        /\ \A k \in 1 .. i - 0 : SubSeq(s, 0 + 1, i)[k] = s[0 + k]
    BY <2>1, Section
  <2>3. QED
    BY <2>1, <2>2
<1>4. /\ b \in Seq(C) /\ Len(b) = Len(s) - (i + d)
      /\ \A k \in 1 .. Len(s) - (i + d) : b[k] = s[(i + d) + k]
  <2> DEFINE e == i + d
  <2>1. e \in 0 .. Len(s) /\ Len(s) \in e .. Len(s)
    BY <1>1
  <2> HIDE DEF e
  <2>2. /\ SubSeq(s, e + 1, Len(s)) \in Seq(C) /\ Len(SubSeq(s, e + 1, Len(s))) = Len(s) - e
        /\ \A k \in 1 .. Len(s) - e : SubSeq(s, e + 1, Len(s))[k] = s[e + k]
    BY <2>1, Section
  <2>3. QED
    BY <2>2 DEF e
<1> HIDE DEF o, a, b
<1> DEFINE l == Len(s)
           r == l - (i + d)
<1>5. l \in Nat /\ i \in Nat /\ d \in Nat /\ r \in Nat /\ l - d = i + r /\ r = Len(b) /\ l - d \in Nat
  BY <1>1, <1>4
<1>6. /\ Len(o) = i + r
      /\ \A k \in i + 1 .. i + r : o[k] = s[k + d]
      /\ \A k \in 1 .. r : b[k] = s[(i + d) + k]
  <2>1. \A k \in 1 .. r : b[k] = s[(i + d) + k]
    BY <1>4
  <2>2. Len(o) = l - d /\ \A k \in i + 1 .. l - d : o[k] = s[k + d]
    BY <1>2
  <2> HIDE DEF l, r
  <2>3. QED
    BY <1>5, <2>1, <2>2
<1> HIDE DEF l, r
<1>7. /\ a \o b \in Seq(C) /\ Len(a \o b) = i + r
      /\ \A k \in 1 .. i : (a \o b)[k] = a[k]
      /\ \A k \in i + 1 .. i + r : (a \o b)[k] = b[k - i]
  <2>1. /\ a \o b \in Seq(C) /\ Len(a \o b) = Len(a) + Len(b)
        /\ \A k \in 1 .. Len(a) : (a \o b)[k] = a[k]
        /\ \A k \in Len(a) + 1 .. Len(a) + Len(b) : (a \o b)[k] = b[k - Len(a)]
    BY <1>3, <1>4, Concatenation, ZenonT(60)
  <2>2. Len(a) = i /\ Len(b) = r
    BY <1>3, <1>5
  <2>3. QED
    BY <2>1, <2>2
<1>8. ASSUME NEW k \in i + 1 .. i + r PROVE k - i \in 1 .. r /\ (i + d) + (k - i) = k + d
  BY <1>5
<1>9. \A k \in 1 .. i + r : k \in 1 .. i \/ k \in i + 1 .. i + r
  BY <1>5
<1>10. \A k \in i + 1 .. i + r : o[k] = (a \o b)[k]
  BY <1>6, <1>7, <1>8
<1>11. \A k \in 1 .. i : o[k] = (a \o b)[k]
  BY <1>2, <1>3, <1>7
<1>12. \A k \in 1 .. Len(o) : o[k] = (a \o b)[k]
  BY <1>6, <1>9, <1>10, <1>11
<1>13. o = a \o b
  BY <1>2, <1>6, <1>7, <1>12, SeqEqual
<1>14. QED
  BY <1>13 DEF o, a, b

\* ... and an insertion puts a list between two parts.
LEMMA InsertedParts ==
    ASSUME NEW C, NEW s \in Seq(C), NEW k \in 1 .. Len(s), NEW t \in Seq(C)
    PROVE  Inserted(s, k, t) = SubSeq(s, 1, k) \o t \o SubSeq(s, k + 1, Len(s))
<1>1. Len(s) \in Nat /\ k \in Nat /\ Len(t) \in Nat
  OBVIOUS
<1> DEFINE o == Inserted(s, k, t)
           a == SubSeq(s, 1, k)
           b == SubSeq(s, k + 1, Len(s))
           d == Len(t)
           l == Len(s)
<1>2. /\ o \in Seq(C) /\ Len(o) = l + d
      /\ \A i \in 1 .. k : o[i] = s[i]
      /\ \A i \in k + 1 .. k + d : o[i] = t[i - k]
      /\ \A i \in k + d + 1 .. l + d : o[i] = s[i - d]
  BY InsertedIs
<1>3. a \in Seq(C) /\ Len(a) = k /\ \A i \in 1 .. k : a[i] = s[i]
  <2>1. 0 \in 0 .. Len(s) /\ k \in 0 .. Len(s) /\ 0 + 1 = 1 /\ k - 0 = k
        /\ \A i \in 1 .. k : 0 + i = i
    BY <1>1
  <2>2. /\ SubSeq(s, 0 + 1, k) \in Seq(C) /\ Len(SubSeq(s, 0 + 1, k)) = k - 0
        /\ \A i \in 1 .. k - 0 : SubSeq(s, 0 + 1, k)[i] = s[0 + i]
    BY <2>1, Section
  <2>3. QED
    BY <2>1, <2>2
<1>4. b \in Seq(C) /\ Len(b) = l - k /\ \A i \in 1 .. l - k : b[i] = s[k + i]
  <2>1. k \in 0 .. Len(s) /\ Len(s) \in k .. Len(s)
    BY <1>1
  <2>2. QED
    BY <2>1, Section
<1>5. k <= l
  OBVIOUS
<1> HIDE DEF o, a, b, l, d
<1> DEFINE at == a \o t
           r == l - k
<1>6. l \in Nat /\ d \in Nat /\ k \in Nat /\ r \in Nat /\ l = k + r /\ r = Len(b) /\ d = Len(t)
  BY <1>1, <1>4, <1>5 DEF l, d
<1>7. \A i \in 1 .. r : b[i] = s[k + i]
  BY <1>4
<1> HIDE DEF r
<1>8. /\ at \in Seq(C) /\ Len(at) = k + d
      /\ \A i \in 1 .. k : at[i] = a[i]
      /\ \A i \in k + 1 .. k + d : at[i] = t[i - k]
  <2>1. /\ a \o t \in Seq(C) /\ Len(a \o t) = Len(a) + Len(t)
        /\ \A i \in 1 .. Len(a) : (a \o t)[i] = a[i]
        /\ \A i \in Len(a) + 1 .. Len(a) + Len(t) : (a \o t)[i] = t[i - Len(a)]
    <3> HIDE DEF at
    <3>1. a \in Seq(C) /\ t \in Seq(C)
      BY <1>3
    <3>2. QED
      BY ONLY <3>1, Concatenation
  <2>2. Len(a) = k /\ Len(t) = d
    BY <1>3, <1>6
  <2>3. QED
    BY <2>1, <2>2
<1> DEFINE e == k + d
<1>9. e \in Nat
  BY <1>6
<1> HIDE DEF at, e
<1>10. /\ at \o b \in Seq(C) /\ Len(at \o b) = e + r
       /\ \A i \in 1 .. e : (at \o b)[i] = at[i]
       /\ \A i \in e + 1 .. e + r : (at \o b)[i] = b[i - e]
  <2>1. /\ at \o b \in Seq(C) /\ Len(at \o b) = Len(at) + Len(b)
        /\ \A i \in 1 .. Len(at) : (at \o b)[i] = at[i]
        /\ \A i \in Len(at) + 1 .. Len(at) + Len(b) : (at \o b)[i] = b[i - Len(at)]
    BY <1>4, <1>8, Concatenation
  <2>2. Len(at) = e /\ Len(b) = r
    BY <1>6, <1>8 DEF e
  <2>3. QED
    BY <2>1, <2>2
<1>11. e = k + d /\ e + r = l + d
  BY <1>6 DEF e
<1>12. \A i \in 1 .. l + d : i \in 1 .. k \/ i \in k + 1 .. k + d \/ i \in k + d + 1 .. l + d
  BY <1>6
<1>13. \A i \in 1 .. k : i \in 1 .. e
  BY <1>6, <1>11
<1>14. \A i \in k + 1 .. k + d : i \in 1 .. e
  BY <1>6, <1>11
<1>15. \A i \in k + d + 1 .. l + d : /\ i \in e + 1 .. e + r /\ i - e \in 1 .. r
                                     /\ k + (i - e) = i - d
  BY <1>6, <1>11
<1>16. ASSUME NEW i \in 1 .. k PROVE o[i] = (at \o b)[i]
  <2>1. o[i] = s[i] /\ a[i] = s[i] /\ at[i] = a[i]
    BY <1>2, <1>3, <1>8
  <2>2. (at \o b)[i] = at[i]
    BY <1>10, <1>13
  <2>3. QED
    BY <2>1, <2>2
<1>17. \A i \in k + 1 .. k + d : o[i] = (at \o b)[i]
  BY <1>2, <1>8, <1>10, <1>14
<1>18. \A i \in k + d + 1 .. l + d : o[i] = (at \o b)[i]
  BY <1>2, <1>7, <1>10, <1>15
<1>19. Len(o) = Len(at \o b) /\ \A i \in 1 .. Len(o) : o[i] = (at \o b)[i]
  BY <1>2, <1>10, <1>11, <1>12, <1>16, <1>17, <1>18
<1>20. o = at \o b
  BY <1>2, <1>10, <1>19, SeqEqual
<1>21. QED
  BY <1>20 DEF o, a, b, at
\* The two parts of a concatenation.
LEMMA PartsOfConcatenation ==
    ASSUME NEW C, NEW s \in Seq(C), NEW t \in Seq(C)
    PROVE  /\ SubSeq(s \o t, 1, Len(s)) = s
           /\ SubSeq(s \o t, Len(s) + 1, Len(s \o t)) = t
<1> DEFINE u == s \o t
           l == Len(s)
           d == Len(t)
<1>1. u \in Seq(C) /\ Len(u) = l + d
      /\ (\A i \in 1 .. l : u[i] = s[i]) /\ (\A i \in l + 1 .. l + d : u[i] = t[i - l])
  BY Concatenation
<1>2. l \in Nat /\ d \in Nat /\ l = Len(s) /\ d = Len(t)
  OBVIOUS
<1> DEFINE a == SubSeq(u, 0 + 1, l)
           b == SubSeq(u, l + 1, l + d)
<1> HIDE DEF u, l, d
<1>3. 0 \in 0 .. Len(u) /\ l \in 0 .. Len(u) /\ l + d \in l .. Len(u) /\ l - 0 = l /\ (l + d) - l = d
      /\ 0 + 1 = 1 /\ \A i \in 1 .. l : 0 + i = i
  BY <1>1, <1>2
<1>4. a \in Seq(C) /\ Len(a) = l /\ \A i \in 1 .. l : a[i] = u[i]
  <2>1. a \in Seq(C) /\ Len(a) = l - 0 /\ \A i \in 1 .. l - 0 : a[i] = u[0 + i]
    BY <1>1, <1>3, Section
  <2> HIDE DEF a
  <2>2. QED
    BY <1>3, <2>1
<1>5. b \in Seq(C) /\ Len(b) = d /\ \A i \in 1 .. d : b[i] = u[l + i]
  <2>1. b \in Seq(C) /\ Len(b) = (l + d) - l /\ \A i \in 1 .. (l + d) - l : b[i] = u[l + i]
    BY <1>1, <1>3, Section
  <2> HIDE DEF b
  <2>2. QED
    BY <1>3, <2>1
<1>6. \A i \in 1 .. d : l + i \in l + 1 .. l + d /\ (l + i) - l = i
  BY <1>2
<1> HIDE DEF a, b
<1>7. a = s
  BY <1>1, <1>2, <1>4, SeqEqual
<1>8. \A i \in 1 .. d : b[i] = t[i]
  BY <1>1, <1>5, <1>6
<1>9. b = t
  BY <1>2, <1>5, <1>8, SeqEqual
<1>10. QED
  BY <1>1, <1>3, <1>7, <1>9 DEF a, b, u, l, d

-----------------------------------------------------------------------------
\* The rings of finitely many cells are what the walks from their heads give.
LEMMA WalksAre ==
    ASSUME NEW n \in [Cell -> Cell], NEW C \in SUBSET Cell, NEW H, NEW L, Laid(n, L, H, C),
           IsFiniteSet(C), NEW m \in Nat, Cardinality(C) <= m + 1
    PROVE  \A h \in H : WalkOf(n, m, h) = L[h]
<1> SUFFICES ASSUME NEW h \in H PROVE WalkOf(n, m, h) = L[h]
  OBVIOUS
<1> DEFINE s == L[h]
           l == Len(s)
<1>1. s \in Seq(C) /\ l \in Nat /\ IsRing(n, s) /\ s[1] = h
  BY DEF Laid
<1>2. \A i, j \in 1 .. l : s[i] = s[j] => i = j
  BY DEF Laid
<1> HIDE DEF s
<1>3. s \in [1 .. l -> C]
  BY <1>1
<1>4. s \in Injection(1 .. l, C)
  <2> HIDE DEF l
  <2>1. QED
    BY <1>2, <1>3 DEF Injection, IsInjective
<1>5. Cardinality(1 .. l) <= Cardinality(C)
  BY <1>4, FS_Injection
<1>6. Cardinality(1 .. l) = l
  <2>0. 1 \in Int /\ l \in Int
    BY <1>1
  <2> HIDE DEF l
  <2>1. Cardinality(1 .. l) = IF 1 > l THEN 0 ELSE l - 1 + 1
    BY <2>0, FS_Interval
  <2>2. QED
    BY <1>1, <2>1
<1>7. Cardinality(C) \in Nat
  BY FS_CardinalityType
<1>8. l <= m + 1
  BY <1>1, <1>5, <1>6, <1>7
<1>9. s \in Seq(Cell)
  BY <1>1
<1>10. WalkOf(n, m, s[1]) = s
  BY <1>1, <1>2, <1>8, <1>9, WalkIs
<1>11. QED
  BY <1>1, <1>10 DEF s

\* Taking the first n cells behind the head.
LEMMA TakenParts ==
    ASSUME NEW C, NEW s \in Seq(C), Len(s) > 0, NEW n \in 1 .. Len(s) - 1
    PROVE  /\ Inner(s, 1, n) = SubSeq(Tail(s), 1, n)
           /\ Tail(Outer(s, 1, n)) = SubSeq(Tail(s), n + 1, Len(Tail(s)))
<1> DEFINE l == Len(s)
           t == Tail(s)
<1>1. l \in Nat /\ l > 0 /\ n \in Nat /\ n >= 1 /\ n <= l - 1
  OBVIOUS
<1>2. t \in Seq(C) /\ Len(t) = l - 1 /\ \A k \in 1 .. l - 1 : t[k] = s[k + 1]
  <2>1. s # << >>
    BY <1>1
  <2>2. Tail(s) \in Seq(C) /\ Len(Tail(s)) = Len(s) - 1
        /\ \A k \in 1 .. Len(Tail(s)) : Tail(s)[k] = s[k + 1]
    BY <2>1, HeadTailProperties
  <2>3. QED
    BY <2>2
<1> HIDE DEF t, l
<1>3. Inner(s, 1, n) = SubSeq(t, 1, n)
  <2>1. 1 \in 1 .. Len(s) /\ n \in 1 .. Len(s) - 1
    BY <1>1 DEF l
  <2>2. /\ Inner(s, 1, n) \in Seq(C) /\ Len(Inner(s, 1, n)) = n
        /\ \A k \in 1 .. n : Inner(s, 1, n)[k] = s[1 + k]
    BY <2>1, InnerIs
  <2>3. 0 \in 0 .. Len(t) /\ n \in 0 .. Len(t) /\ 0 + 1 = 1 /\ n - 0 = n
        /\ \A k \in 1 .. n : 0 + k = k /\ k \in 1 .. l - 1 /\ 1 + k = k + 1
    BY <1>1, <1>2
  <2>4. /\ SubSeq(t, 0 + 1, n) \in Seq(C) /\ Len(SubSeq(t, 0 + 1, n)) = n - 0
        /\ \A k \in 1 .. n - 0 : SubSeq(t, 0 + 1, n)[k] = t[0 + k]
    BY <1>2, <2>3, Section
  <2>5. /\ SubSeq(t, 1, n) \in Seq(C) /\ Len(SubSeq(t, 1, n)) = n
        /\ \A k \in 1 .. n : SubSeq(t, 1, n)[k] = s[1 + k]
    BY <1>2, <2>3, <2>4
  <2>6. QED
    BY <2>2, <2>5, SeqEqual
<1>4. Tail(Outer(s, 1, n)) = SubSeq(t, n + 1, Len(t))
  <2> DEFINE o == Outer(s, 1, n)
             r == SubSeq(t, n + 1, Len(t))
             m == (l - 1) - n
  <2>1. 1 \in 1 .. Len(s) /\ n \in 1 .. Len(s) - 1
    BY <1>1 DEF l
  <2>2. /\ o \in Seq(C) /\ Len(o) = Len(s) - n
        /\ \A k \in 1 + 1 .. Len(s) - n : o[k] = s[k + n]
    BY <2>1, OuterIs
  <2>3. m \in Nat /\ l - n = m + 1 /\ m + 1 > 0
    BY <1>1
  <2>4. /\ Tail(o) \in Seq(C) /\ Len(Tail(o)) = Len(o) - 1
        /\ \A k \in 1 .. Len(Tail(o)) : Tail(o)[k] = o[k + 1]
    <3>1. o # << >>
      BY <2>2, <2>3 DEF l
    <3> HIDE DEF o
    <3>2. QED
      BY <2>2, <3>1, HeadTailProperties
  <2>5. r \in Seq(C) /\ Len(r) = Len(t) - n /\ \A k \in 1 .. Len(t) - n : r[k] = t[n + k]
    <3>1. n \in 0 .. Len(t) /\ Len(t) \in n .. Len(t)
      BY <1>1, <1>2
    <3>2. QED
      BY <1>2, <3>1, Section
  <2> HIDE DEF o, r, m
  <2>6. Len(Tail(o)) = m /\ Len(r) = m
    <3>1. Len(o) = l - n
      BY <2>2 DEF l
    <3>2. Len(Tail(o)) = (l - n) - 1 /\ Len(r) = (l - 1) - n
      BY <1>2, <2>4, <2>5, <3>1
    <3>3. (l - n) - 1 = (l - 1) - n
      BY <1>1
    <3>4. QED
      BY <3>2, <3>3 DEF m
  <2>7. ASSUME NEW k \in 1 .. m PROVE Tail(o)[k] = r[k]
    <3>1. /\ k + 1 \in 1 + 1 .. Len(s) - n /\ n + k \in 1 .. l - 1 /\ k \in 1 .. Len(t) - n
          /\ (k + 1) + n = (n + k) + 1
      BY <1>1, <1>2, <2>3 DEF m, l
    <3>2. Tail(o)[k] = s[(k + 1) + n]
      BY <2>2, <2>4, <2>6, <3>1
    <3>3. r[k] = s[(n + k) + 1]
      BY <1>2, <2>5, <3>1
    <3>4. QED
      BY <3>1, <3>2, <3>3
  <2>8. Tail(o) = r
    BY <2>4, <2>5, <2>6, <2>7, SeqEqual
  <2>9. QED
    BY <2>8 DEF o, r
<1>5. QED
  BY <1>3, <1>4 DEF t

\* Putting a sequence behind the last cell.
LEMMA AppendedParts ==
    ASSUME NEW C, NEW s \in Seq(C), Len(s) > 0, NEW t \in Seq(C)
    PROVE  Inserted(s, Len(s), t) = s \o t /\ Tail(s \o t) = Tail(s) \o t
<1>1. Len(s) \in Nat /\ Len(s) \in 1 .. Len(s) /\ Len(t) \in Nat
  OBVIOUS
<1>2. SubSeq(s, 1, Len(s)) = s
  BY SubSeqFull
<1>3. SubSeq(s, Len(s) + 1, Len(s)) = << >>
  BY <1>1, SubSeqEmpty
<1>4. s \o t \in Seq(C) /\ Len(s \o t) = Len(s) + Len(t)
      /\ (\A i \in 1 .. Len(s) : (s \o t)[i] = s[i])
      /\ (\A i \in Len(s) + 1 .. Len(s) + Len(t) : (s \o t)[i] = t[i - Len(s)])
  BY Concatenation
<1>5. Inserted(s, Len(s), t) = s \o t
  <2>1. Inserted(s, Len(s), t) = (SubSeq(s, 1, Len(s)) \o t) \o SubSeq(s, Len(s) + 1, Len(s))
    BY <1>1, InsertedParts
  <2>2. (s \o t) \o << >> = s \o t
    BY <1>4, ConcatEmptySeq
  <2>3. QED
    BY <1>2, <1>3, <2>1, <2>2
<1>6. Tail(s \o t) = Tail(s) \o t
  <2> DEFINE u == s \o t
             a == Tail(s)
             l == Len(s)
             d == Len(t)
  <2>1. s # << >> /\ u # << >>
    BY <1>1, <1>4
  <2>2. a \in Seq(C) /\ Len(a) = l - 1 /\ \A k \in 1 .. Len(a) : a[k] = s[k + 1]
    BY <2>1, HeadTailProperties
  <2>3. u \in Seq(C) /\ Len(u) = l + d
        /\ (\A i \in 1 .. l : u[i] = s[i]) /\ (\A i \in l + 1 .. l + d : u[i] = t[i - l])
    BY <1>4
  <2>4. l \in Nat /\ d \in Nat /\ l > 0
    BY <1>1
  <2> HIDE DEF u, a
  <2>5. Tail(u) \in Seq(C) /\ Len(Tail(u)) = Len(u) - 1
        /\ \A k \in 1 .. Len(Tail(u)) : Tail(u)[k] = u[k + 1]
    BY <2>1, <2>3, HeadTailProperties
  <2>6. a \o t \in Seq(C) /\ Len(a \o t) = Len(a) + Len(t)
        /\ (\A i \in 1 .. Len(a) : (a \o t)[i] = a[i])
        /\ (\A i \in Len(a) + 1 .. Len(a) + Len(t) : (a \o t)[i] = t[i - Len(a)])
    BY <2>2, Concatenation
  <2> DEFINE at == a \o t
             r == Tail(u)
  <2> HIDE DEF at, r
  <2>7. /\ at \in Seq(C) /\ Len(at) = (l + d) - 1
        /\ (\A i \in 1 .. l - 1 : at[i] = s[i + 1])
        /\ (\A i \in l .. (l + d) - 1 : at[i] = t[(i - l) + 1])
    <3>1. /\ at \in Seq(C) /\ Len(at) = (l - 1) + d
          /\ (\A i \in 1 .. l - 1 : at[i] = s[i + 1])
          /\ (\A i \in (l - 1) + 1 .. (l - 1) + d : at[i] = t[i - (l - 1)])
      BY <2>2, <2>6 DEF at
    <3> HIDE DEF l, d
    <3>2. (l - 1) + 1 = l /\ (l - 1) + d = (l + d) - 1
          /\ \A i \in l .. (l + d) - 1 : i - (l - 1) = (i - l) + 1
      BY <2>4
    <3>3. QED
      BY <3>1, <3>2
  <2>8. r \in Seq(C) /\ Len(r) = (l + d) - 1 /\ \A k \in 1 .. (l + d) - 1 : r[k] = u[k + 1]
    BY <2>3, <2>5 DEF r
  <2> HIDE DEF l, d
  <2>9. ASSUME NEW k \in 1 .. (l + d) - 1 PROVE r[k] = at[k]
    <3>1. CASE k < l
      <4>1. k \in 1 .. l - 1 /\ k + 1 \in 1 .. l
        BY <2>4, <3>1
      <4>2. QED
        BY <2>3, <2>7, <2>8, <4>1
    <3>2. CASE k >= l
      <4>1. k \in l .. (l + d) - 1 /\ k + 1 \in l + 1 .. l + d /\ (k + 1) - l = (k - l) + 1
        BY <2>4, <3>2
      <4>2. QED
        BY <2>3, <2>7, <2>8, <4>1
    <3>3. QED
      BY <2>4, <3>1, <3>2
  <2>10. r = at
    BY <2>7, <2>8, <2>9, SeqEqual
  <2>11. QED
    BY <2>10 DEF r, at, a, u
<1>7. QED
  BY <1>5, <1>6

\* x is s with t behind its k-th element.
IsInserted(C, s, k, t, x) ==
    /\ x \in Seq(C) /\ Len(x) = Len(s) + Len(t)
    /\ \A i \in 1 .. k : x[i] = s[i]
    /\ \A i \in k + 1 .. k + Len(t) : x[i] = t[i - k]
    /\ \A i \in k + Len(t) + 1 .. Len(s) + Len(t) : x[i] = s[i - Len(t)]

\* The list with another one put in meets its description place by place.
LEMMA InsertedIsSo ==
    ASSUME NEW C, NEW s \in Seq(C), NEW k \in 1 .. Len(s), NEW t \in Seq(C)
    PROVE  IsInserted(C, s, k, t, Inserted(s, k, t))
BY InsertedIs DEF IsInserted

\* A list whose head is followed by two cells of f and whose last cell is a third one.
Activated(v, f) == <<v[1], f[1], f[2]>> \o Tail(v) \o <<f[3]>>

\* The view field that begins with the k and ends with the dot of the free list, place by place.
LEMMA ActivatedIs ==
    ASSUME NEW C, NEW v \in Seq(C), Len(v) > 0, NEW f \in Seq(C), Len(f) >= 3
    PROVE  /\ Activated(v, f) \in Seq(C) /\ Len(Activated(v, f)) = Len(v) + 3
           /\ Activated(v, f)[1] = v[1] /\ Activated(v, f)[2] = f[1] /\ Activated(v, f)[3] = f[2]
           /\ \A k \in 4 .. Len(v) + 2 : Activated(v, f)[k] = v[k - 2]
           /\ Activated(v, f)[Len(v) + 3] = f[3]
<1> DEFINE l == Len(v)
           a == <<v[1], f[1], f[2]>>
           t == Tail(v)
           c == <<f[3]>>
<1>1. l \in Nat /\ Len(f) \in Nat /\ v # << >>
  OBVIOUS
<1>2. v[1] \in C /\ f[1] \in C /\ f[2] \in C /\ f[3] \in C
  BY <1>1
<1>3. a \in Seq(C) /\ Len(a) = 3 /\ a[1] = v[1] /\ a[2] = f[1] /\ a[3] = f[2]
  BY <1>2
<1>4. c \in Seq(C) /\ Len(c) = 1 /\ c[1] = f[3]
  BY <1>2
<1>5. t \in Seq(C) /\ Len(t) = l - 1 /\ \A k \in 1 .. l - 1 : t[k] = v[k + 1]
  BY <1>1, HeadTailProperties
<1> DEFINE u == a \o t
           w == u \o c
<1> HIDE DEF a, t, c
<1>6. u \in Seq(C) /\ Len(u) = 3 + (l - 1)
      /\ (\A k \in 1 .. 3 : u[k] = a[k])
      /\ \A k \in 3 + 1 .. 3 + (l - 1) : u[k] = t[k - 3]
  <2>1. u \in Seq(C) /\ Len(u) = Len(a) + Len(t)
        /\ (\A k \in 1 .. Len(a) : u[k] = a[k])
        /\ \A k \in Len(a) + 1 .. Len(a) + Len(t) : u[k] = t[k - Len(a)]
    BY <1>3, <1>5, Concatenation, ZenonT(60)
  <2> HIDE DEF u, l
  <2>2. QED
    BY <1>3, <1>5, <2>1
<1> HIDE DEF u
<1>7. w \in Seq(C) /\ Len(w) = Len(u) + 1
      /\ (\A k \in 1 .. Len(u) : w[k] = u[k])
      /\ \A k \in Len(u) + 1 .. Len(u) + 1 : w[k] = c[k - Len(u)]
  <2>1. w \in Seq(C) /\ Len(w) = Len(u) + Len(c)
        /\ (\A k \in 1 .. Len(u) : w[k] = u[k])
        /\ \A k \in Len(u) + 1 .. Len(u) + Len(c) : w[k] = c[k - Len(u)]
    <3>1. u \in Seq(C) /\ c \in Seq(C)
      BY <1>4, <1>6
    <3>2. QED
      BY <3>1, Concatenation
  <2> HIDE DEF w, l
  <2>2. QED
    BY <1>4, <2>1
<1> HIDE DEF w, l
<1>8. Len(u) = l + 2
  BY <1>1, <1>6 DEF l
<1>9. l \in Nat /\ l > 0
  BY <1>1 DEF l
<1>10. /\ 1 \in 1 .. 3 /\ 2 \in 1 .. 3 /\ 3 \in 1 .. 3
       /\ 1 \in 1 .. l + 2 /\ 2 \in 1 .. l + 2 /\ 3 \in 1 .. l + 2
       /\ l + 3 \in l + 2 + 1 .. l + 2 + 1 /\ (l + 3) - (l + 2) = 1 /\ l + 2 + 1 = l + 3
  BY <1>9
<1>11. w[1] = v[1] /\ w[2] = f[1] /\ w[3] = f[2]
  BY <1>3, <1>6, <1>7, <1>8, <1>10
<1>12. ASSUME NEW k \in 4 .. l + 2 PROVE w[k] = v[k - 2]
  <2>1. k \in 3 + 1 .. 3 + (l - 1) /\ k \in 1 .. l + 2 /\ k - 3 \in 1 .. l - 1 /\ (k - 3) + 1 = k - 2
    BY <1>9
  <2>2. w[k] = u[k] /\ u[k] = t[k - 3] /\ t[k - 3] = v[(k - 3) + 1]
    BY <1>5, <1>6, <1>7, <1>8, <2>1
  <2>3. QED
    BY <2>1, <2>2
<1>13. w[l + 3] = f[3]
  BY <1>4, <1>7, <1>8, <1>10
<1>14. w = Activated(v, f)
  BY DEF Activated, w, u, a, t, c
<1>15. QED
  BY <1>7, <1>8, <1>10, <1>11, <1>12, <1>13, <1>14 DEF l

\* Three cells put behind the head, and the third of them sent behind the old contents.
LEMMA ActivatedParts ==
    ASSUME NEW C, NEW v \in Seq(C), Len(v) > 0, NEW f \in Seq(C), Len(f) >= 3,
           NEW w, w = Inserted(v, 1, SubSeq(f, 1, 3))
    PROVE  /\ w \in Seq(C) /\ Len(w) = Len(v) + 3
           /\ w[4] = f[3]
           /\ Len(v) = 1 => w = Activated(v, f)
           /\ Len(v) # 1 => Inserted(Outer(w, 3, 1), Len(w) - 1, Inner(w, 3, 1)) = Activated(v, f)
<1> DEFINE l == Len(v)
           e == Activated(v, f)
           t == SubSeq(f, 1, 3)
<1>1. l \in Nat /\ l > 0 /\ Len(f) \in Nat
  OBVIOUS
<1>2. t \in Seq(C) /\ Len(t) = 3 /\ t[1] = f[1] /\ t[2] = f[2] /\ t[3] = f[3]
  <2>1. 0 \in 0 .. Len(f) /\ 3 \in 0 .. Len(f) /\ 0 + 1 = 1 /\ 3 - 0 = 3
        /\ \A k \in 1 .. 3 : 0 + k = k
    BY <1>1
  <2>2. SubSeq(f, 0 + 1, 3) \in Seq(C) /\ Len(SubSeq(f, 0 + 1, 3)) = 3 - 0
        /\ \A k \in 1 .. 3 - 0 : SubSeq(f, 0 + 1, 3)[k] = f[0 + k]
    BY <2>1, Section
  <2>3. QED
    BY <2>1, <2>2
<1>3. /\ e \in Seq(C) /\ Len(e) = l + 3
      /\ e[1] = v[1] /\ e[2] = f[1] /\ e[3] = f[2]
      /\ \A k \in 4 .. l + 2 : e[k] = v[k - 2]
      /\ e[l + 3] = f[3]
  BY ActivatedIs
<1>4. 1 \in 1 .. l
  BY <1>1
<1> HIDE DEF t, e
<1>5. /\ w \in Seq(C) /\ Len(w) = l + 3
      /\ \A i \in 1 .. 1 : w[i] = v[i]
      /\ \A i \in 1 + 1 .. 1 + 3 : w[i] = t[i - 1]
      /\ \A i \in 1 + 3 + 1 .. l + 3 : w[i] = v[i - 3]
  <2>1. w = Inserted(v, 1, t)
    BY DEF t
  <2>2. QED
    <3>1. /\ w \in Seq(C) /\ Len(w) = Len(v) + Len(t)
          /\ \A i \in 1 .. 1 : w[i] = v[i]
          /\ \A i \in 1 + 1 .. 1 + Len(t) : w[i] = t[i - 1]
          /\ \A i \in 1 + Len(t) + 1 .. Len(v) + Len(t) : w[i] = v[i - Len(t)]
      <4> DEFINE k == 1
                 x == Inserted(v, k, t)
      <4>1. k \in 1 .. Len(v)
        BY <1>4
      <4> HIDE DEF k
      <4>2. IsInserted(C, v, k, t, x)
        BY <1>2, <4>1, InsertedIsSo
      <4>4. w = x
        BY <2>1 DEF k
      <4> HIDE DEF x
      <4>3. QED
        BY <4>2, <4>4 DEF k, IsInserted
    <3> HIDE DEF l
    <3>2. QED
      BY <1>2, <3>1 DEF l
<1> HIDE DEF l
<1>6. w[1] = v[1] /\ w[2] = f[1] /\ w[3] = f[2] /\ w[4] = f[3]
  <2>1. 1 \in 1 .. 1 /\ 2 \in 1 + 1 .. 1 + 3 /\ 3 \in 1 + 1 .. 1 + 3 /\ 4 \in 1 + 1 .. 1 + 3
        /\ 2 - 1 = 1 /\ 3 - 1 = 2 /\ 4 - 1 = 3
    OBVIOUS
  <2>2. QED
    BY <1>2, <1>5, <2>1
<1>7. ASSUME l = 1 PROVE w = e
  <2>1. ASSUME NEW k \in 1 .. 4 PROVE w[k] = e[k]
    <3>1. k = 1 \/ k = 2 \/ k = 3 \/ k = 4
      OBVIOUS
    <3>2. e[4] = f[3]
      BY <1>3, <1>7
    <3>3. QED
      BY <1>3, <1>6, <3>1, <3>2
  <2>2. Len(w) = 4 /\ Len(e) = 4
    BY <1>3, <1>5, <1>7
  <2>3. QED
    BY <1>3, <1>5, <2>1, <2>2, SeqEqual
<1>8. ASSUME l # 1 PROVE Inserted(Outer(w, 3, 1), Len(w) - 1, Inner(w, 3, 1)) = e
  <2> DEFINE o == Outer(w, 3, 1)
             i == Inner(w, 3, 1)
             r == Inserted(o, l + 2, i)
  <2>1. 3 \in 1 .. Len(w) /\ 1 \in 1 .. Len(w) - 3 /\ Len(w) - 1 = l + 2 /\ l + 2 \in 1 .. l + 2
    BY <1>1, <1>5 DEF l
  <2>2. /\ o \in Seq(C) /\ Len(o) = l + 2
        /\ \A k \in 1 .. 3 : o[k] = w[k]
        /\ \A k \in 3 + 1 .. l + 2 : o[k] = w[k + 1]
    <3>1. /\ o \in Seq(C) /\ Len(o) = Len(w) - 1
          /\ \A k \in 1 .. 3 : o[k] = w[k]
          /\ \A k \in 3 + 1 .. Len(w) - 1 : o[k] = w[k + 1]
      <4> DEFINE a == 3
                 b == 1
      <4>1. a \in 1 .. Len(w) /\ b \in 1 .. Len(w) - a
        BY <2>1
      <4> HIDE DEF a, b
      <4>2. /\ Outer(w, a, b) \in Seq(C) /\ Len(Outer(w, a, b)) = Len(w) - b
            /\ \A k \in 1 .. a : Outer(w, a, b)[k] = w[k]
            /\ \A k \in a + 1 .. Len(w) - b : Outer(w, a, b)[k] = w[k + b]
        BY <1>5, <4>1, OuterIs
      <4>3. QED
        BY <4>2 DEF a, b
    <3> HIDE DEF o
    <3>2. QED
      BY <2>1, <3>1
  <2>3. i \in Seq(C) /\ Len(i) = 1 /\ \A k \in 1 .. 1 : i[k] = w[3 + k]
    <3> DEFINE a == 3
               b == 1
    <3>1. a \in 1 .. Len(w) /\ b \in 1 .. Len(w) - a
      BY <2>1
    <3> HIDE DEF a, b
    <3>2. Inner(w, a, b) \in Seq(C) /\ Len(Inner(w, a, b)) = b
          /\ \A k \in 1 .. b : Inner(w, a, b)[k] = w[a + k]
      BY <1>5, <3>1, InnerIs
    <3>3. QED
      BY <3>2 DEF a, b
  <2> HIDE DEF o, i
  <2>4. /\ r \in Seq(C) /\ Len(r) = l + 2 + 1
        /\ \A k \in 1 .. l + 2 : r[k] = o[k]
        /\ \A k \in l + 2 + 1 .. l + 2 + 1 : r[k] = i[k - (l + 2)]
    <3>1. l + 2 \in 1 .. Len(o)
      BY <2>1, <2>2
    <3>2. /\ r \in Seq(C) /\ Len(r) = Len(o) + Len(i)
          /\ \A k \in 1 .. l + 2 : r[k] = o[k]
          /\ \A k \in l + 2 + 1 .. l + 2 + Len(i) : r[k] = i[k - (l + 2)]
      <4> DEFINE n == l + 2
                 x == Inserted(o, n, i)
      <4>1. n \in 1 .. Len(o) /\ o \in Seq(C) /\ i \in Seq(C)
        BY <2>2, <2>3, <3>1
      <4> HIDE DEF n
      <4>2. IsInserted(C, o, n, i, x)
        BY <4>1, InsertedIsSo
      <4>3. r = x
        BY DEF r, n
      <4> HIDE DEF x
      <4>4. QED
        BY <4>2, <4>3 DEF n, IsInserted
    <3> HIDE DEF r
    <3>3. QED
      BY <2>2, <2>3, <3>2
  <2> HIDE DEF r
  <2>5. ASSUME NEW k \in 1 .. l + 3 PROVE r[k] = e[k]
    <3>1. CASE k \in 1 .. 3
      <4>1. k \in 1 .. l + 2 /\ (k = 1 \/ k = 2 \/ k = 3)
        BY <1>1, <3>1 DEF l
      <4>2. r[k] = w[k]
        BY <2>2, <2>4, <3>1, <4>1
      <4>3. QED
        BY <1>3, <1>6, <4>1, <4>2
    <3>2. CASE k \in 4 .. l + 2
      <4>1. k \in 1 .. l + 2 /\ k \in 3 + 1 .. l + 2 /\ k + 1 \in 1 + 3 + 1 .. l + 3
            /\ (k + 1) - 3 = k - 2
        BY <1>1, <3>2 DEF l
      <4>2. r[k] = w[k + 1] /\ w[k + 1] = v[(k + 1) - 3]
        BY <1>5, <2>2, <2>4, <4>1
      <4>3. QED
        BY <1>3, <3>2, <4>1, <4>2
    <3>3. CASE k = l + 3
      <4>1. l + 3 \in l + 2 + 1 .. l + 2 + 1 /\ (l + 3) - (l + 2) = 1 /\ 1 \in 1 .. 1 /\ 3 + 1 = 4
        BY <1>1 DEF l
      <4>2. r[l + 3] = w[3 + 1]
        BY <2>3, <2>4, <4>1
      <4>3. QED
        BY <1>3, <1>6, <3>3, <4>1, <4>2
    <3>4. QED
      BY <1>1, <3>1, <3>2, <3>3 DEF l
  <2>6. l + 2 + 1 = l + 3
    BY <1>1 DEF l
  <2>7. r = e
    BY <1>3, <2>4, <2>5, <2>6, SeqEqual
  <2>8. QED
    BY <2>1, <2>7 DEF r, o, i
<1>9. QED
  BY <1>5, <1>6, <1>7, <1>8 DEF l, e
-----------------------------------------------------------------------------
\* Two exchanges cut two successive cells out of a ring, each into a ring of its own.
LEMMA ExchangedTwice ==
    ASSUME NEW n \in [Cell -> Cell], NEW a \in Cell, NEW b \in Cell, NEW c \in Cell,
           a # b, a # c, b # c, n[a] = b, n[b] = c
    PROVE  Exchanged(Exchanged(n, a, c), b, c)
             = [[[n EXCEPT ![a] = n[c]] EXCEPT ![b] = b] EXCEPT ![c] = c]
BY DEF Exchanged

\* The two cells behind the head g become rings of their own.
TwoOut(L, H, g) ==
    [f \in H \cup {L[g][2], L[g][3]} |->
        IF f = L[g][2] THEN <<L[g][2]>> ELSE IF f = L[g][3] THEN <<L[g][3]>>
        ELSE IF f = g THEN Outer(L[g], 1, 2) ELSE L[f]]

\* The first two cells of a list become the heads of two empty lists.
LEMMA TwoCut ==
    ASSUME NEW n \in [Cell -> Cell], NEW C \in SUBSET Cell, NEW H, NEW L, Laid(n, L, H, C),
           NEW g \in H, Len(L[g]) >= 3
    PROVE  /\ L[g][2] \in C \ H /\ L[g][3] \in C \ H /\ L[g][2] # L[g][3]
           /\ n[g] = L[g][2] /\ n[L[g][2]] = L[g][3]
           /\ Laid([[[n EXCEPT ![g] = n[L[g][3]]] EXCEPT ![L[g][2]] = L[g][2]]
                       EXCEPT ![L[g][3]] = L[g][3]],
                   TwoOut(L, H, g), H \cup {L[g][2], L[g][3]}, C)
<1> DEFINE s == L[g]
           t == Inner(s, 1, 2)
           x == Exchanged(n, s[1], s[3])
           M == AfterCut(L, H, g, 1, 2)
           K == H \cup {s[2]}
           y == Exchanged(x, s[2], s[3])
           N == AfterCut(M, K, s[2], 1, 1)
           z == [[[n EXCEPT ![g] = n[s[3]]] EXCEPT ![s[2]] = s[2]] EXCEPT ![s[3]] = s[3]]
<1>1. s \in Seq(C) /\ Len(s) \in Nat /\ s[1] = g
      /\ (\A i \in 1 .. Len(s) - 1 : n[s[i]] = s[i + 1])
      /\ \A i, j \in 1 .. Len(s) : s[i] = s[j] => i = j
  <2>1. s \in Seq(C) /\ s[1] = g /\ IsRing(n, s)
    BY DEF Laid
  <2>2. \A i, j \in 1 .. Len(s) : s[i] = s[j] => i = j
    BY DEF Laid
  <2> HIDE DEF s
  <2>3. QED
    BY <2>1, <2>2 DEF IsRing
<1>2. 1 \in 1 .. Len(s) /\ 2 \in 1 .. Len(s) /\ 3 \in 1 .. Len(s)
      /\ 2 \in 1 .. Len(s) - 1 /\ 1 \in 1 .. Len(s) - 1
      /\ 1 + 1 = 2 /\ 2 + 1 = 3 /\ 1 + 2 = 3
  BY <1>1
<1>3. n[s[1]] = s[2] /\ n[s[2]] = s[3] /\ s[1] # s[2] /\ s[1] # s[3] /\ s[2] # s[3]
  BY <1>1, <1>2
<1>4. s[1] \in C /\ s[2] \in C /\ s[3] \in C
  BY <1>1, <1>2
<1>5. s[2] \notin H /\ Laid(x, M, K, C)
  <2> DEFINE i == 1
             d == 2
  <2>1. i \in 1 .. Len(L[g]) /\ d \in 1 .. Len(L[g]) - i
    BY <1>1, <1>2
  <2>2. /\ x = Exchanged(n, L[g][i], L[g][i + d]) /\ M = AfterCut(L, H, g, i, d)
        /\ K = H \cup {L[g][i + 1]} /\ L[g][i + 1] = s[2]
    BY <1>2
  <2> HIDE DEF i, d, x, M, K
  <2>3. /\ L[g][i + 1] \notin H
        /\ Laid(Exchanged(n, L[g][i], L[g][i + d]), AfterCut(L, H, g, i, d),
                H \cup {L[g][i + 1]}, C)
    BY <2>1, CutRing
  <2>4. QED
    BY <2>2, <2>3
<1>6. x \in [Cell -> Cell] /\ y \in [Cell -> Cell]
  BY <1>4, ExchangedIs
<1>7. /\ M[s[2]] = t /\ M[g] = Outer(s, 1, 2)
      /\ \A f \in H \ {g} : M[f] = L[f]
  BY <1>2, <1>5 DEF AfterCut
<1>8. t \in Seq(C) /\ Len(t) = 2 /\ t[1] = s[2] /\ t[2] = s[3]
  <2> DEFINE a == 1
             b == 2
  <2>1. a \in 1 .. Len(s) /\ b \in 1 .. Len(s) - a
    BY <1>1, <1>2
  <2> HIDE DEF s, a, b
  <2>2. Inner(s, a, b) \in Seq(C) /\ Len(Inner(s, a, b)) = b
        /\ \A k \in 1 .. b : Inner(s, a, b)[k] = s[a + k]
    BY <1>1, <2>1, InnerIs
  <2>3. 1 \in 1 .. 2 /\ 2 \in 1 .. 2 /\ 1 + 1 = 2 /\ 1 + 2 = 3
    OBVIOUS
  <2>4. QED
    BY <2>2, <2>3 DEF a, b
<1> DEFINE e == s[2]
<1> HIDE DEF M, K, t, x, y, N
<1>9. e \in K /\ Len(M[e]) = 2 /\ M[e][1] = s[2] /\ M[e][2] = s[3] /\ M[e] = t
  BY <1>7, <1>8 DEF K
<1>10. s[3] \notin K /\ Laid(y, N, K \cup {s[3]}, C)
  <2> DEFINE i == 1
             d == 1
  <2>1. i \in 1 .. Len(M[e]) /\ d \in 1 .. Len(M[e]) - i
    BY <1>9
  <2>2. /\ y = Exchanged(x, M[e][i], M[e][i + d]) /\ N = AfterCut(M, K, e, i, d)
        /\ M[e][i + 1] = s[3]
    BY <1>2, <1>9 DEF y, N
  <2> HIDE DEF i, d, e
  <2>3. /\ M[e][i + 1] \notin K
        /\ Laid(Exchanged(x, M[e][i], M[e][i + d]), AfterCut(M, K, e, i, d),
                K \cup {M[e][i + 1]}, C)
    BY <1>5, <1>6, <1>9, <2>1, CutRing
  <2>4. QED
    BY <2>2, <2>3
<1>11. N = TwoOut(L, H, g)
  <2>1. Outer(t, 1, 1) = <<s[2]>> /\ Inner(t, 1, 1) = <<s[3]>>
    <3> DEFINE a == 1
               b == 1
    <3>1. a \in 1 .. Len(t) /\ b \in 1 .. Len(t) - a
      BY <1>8
    <3> HIDE DEF a, b
    <3>2. Inner(t, a, b) \in Seq(C) /\ Len(Inner(t, a, b)) = b
          /\ \A k \in 1 .. b : Inner(t, a, b)[k] = t[a + k]
      BY <1>8, <3>1, InnerIs, ZenonT(60)
    <3>3. Outer(t, a, b) \in Seq(C) /\ Len(Outer(t, a, b)) = Len(t) - b
          /\ \A k \in 1 .. a : Outer(t, a, b)[k] = t[k]
      BY <1>8, <3>1, OuterIs, ZenonT(60)
    <3> DEFINE o == Outer(t, 1, 1)
               i == Inner(t, 1, 1)
    <3>4. o \in Seq(C) /\ Len(o) = 1 /\ o[1] = s[2] /\ i \in Seq(C) /\ Len(i) = 1 /\ i[1] = s[3]
      <4>1. 1 \in 1 .. 1 /\ 1 + 1 = 2 /\ 2 - 1 = 1
        OBVIOUS
      <4>2. QED
        BY <1>8, <3>2, <3>3, <4>1 DEF a, b
    <3> HIDE DEF o, i
    <3>5. o = <<s[2]>> /\ i = <<s[3]>>
      BY <3>4
    <3>6. QED
      BY <3>5 DEF o, i
  <2>2. N = [f \in K \cup {s[3]} |-> IF f = s[2] THEN Outer(t, 1, 1)
                                     ELSE IF f \in K THEN M[f] ELSE Inner(t, 1, 1)]
    BY <1>9 DEF N, AfterCut, e
  <2>3. ASSUME NEW f \in K \cup {s[3]}
        PROVE  N[f] = IF f = s[2] THEN <<s[2]>> ELSE IF f = s[3] THEN <<s[3]>>
                      ELSE IF f = g THEN Outer(s, 1, 2) ELSE L[f]
    <3>1. CASE f = s[2]
      BY <2>1, <2>2, <3>1
    <3>2. CASE f = s[3]
      BY <1>3, <1>10, <2>1, <2>2, <3>2
    <3>3. CASE f \in H
      BY <1>5, <1>7, <1>10, <2>2, <3>3 DEF K
    <3>4. QED
      BY <3>1, <3>2, <3>3 DEF K
  <2>4. K \cup {s[3]} = H \cup {s[2], s[3]}
    BY DEF K
  <2>5. QED
    BY <2>2, <2>3, <2>4 DEF TwoOut
<1>12. y = z
  <2>1. s[1] \in Cell /\ s[2] \in Cell /\ s[3] \in Cell
    BY <1>4
  <2> DEFINE b == s[2]
             d == s[3]
  <2>2. g \in Cell /\ b \in Cell /\ d \in Cell /\ g # b /\ g # d /\ b # d /\ n[g] = b /\ n[b] = d
    BY <1>1, <1>3, <2>1
  <2>3. y = Exchanged(Exchanged(n, g, d), b, d)
    BY <1>1 DEF x, y
  <2>4. z = [[[n EXCEPT ![g] = n[d]] EXCEPT ![b] = b] EXCEPT ![d] = d]
    OBVIOUS
  <2> HIDE DEF b, d, z
  <2>5. QED
    BY <2>2, <2>3, <2>4, ExchangedTwice
<1>13. K \cup {s[3]} = H \cup {s[2], s[3]} /\ s[3] \notin H
  BY <1>10 DEF K
<1>14. QED
  BY <1>1, <1>3, <1>4, <1>5, <1>10, <1>11, <1>12, <1>13
-----------------------------------------------------------------------------
(* A stretch of cells that follow each other moves to another list *)

\* c is one of the cells of s, and the cells of w follow each other by the pointers n.
In(s, c) == \E i \in 1 .. Len(s) : s[i] = c
Linked(n, w) == \A i \in 1 .. Len(w) - 1 : n[w[i]] = w[i + 1]

\* The ring of b among the lists L, its pointers and its cells.
Turning(h, C, H, L, b) ==
    /\ L[b] \in Seq(C) /\ Len(L[b]) \in Nat /\ Len(L[b]) > 0 /\ L[b][1] = b /\ In(L[b], b)
    /\ \A i \in 1 .. Len(L[b]) :
          /\ L[b][i] \in Cell
          /\ L[b][i] \in H => i = 1
          /\ h.next[L[b][i]] = IF i = Len(L[b]) THEN L[b][1] ELSE L[b][i + 1]
          /\ h.previous[L[b][i]] = IF i = 1 THEN L[b][Len(L[b])] ELSE L[b][i - 1]
    /\ \A c : In(L[b], c) => In(L[b], h.next[c]) /\ In(L[b], h.previous[c])
    /\ \A a \in H : \A c : In(L[a], c) /\ In(L[b], c) => a = b
    /\ \A i, j \in 1 .. Len(L[b]) : L[b][i] = L[b][j] => i = j

\* The pointers lead from each cell of a list that is laid out to the next one and back.
LEMMA RingTurns ==
    ASSUME NEW h \in Heap, DoublyLinked(h), NEW C \in SUBSET Cell, NEW H, NEW L,
           Laid(h.next, L, H, C), NEW b \in H
    PROVE  Turning(h, C, H, L, b)
<1> DEFINE s == L[b]
           l == Len(s)
<1>1. s \in Seq(C) /\ l \in Nat /\ l > 0 /\ s[1] = b /\ IsRing(h.next, s)
  <2>1. s \in Seq(C) /\ s[1] = b /\ IsRing(h.next, s)
    BY DEF Laid
  <2>2. l > 0
    BY <2>1 DEF IsRing
  <2> HIDE DEF s
  <2>3. l \in Nat
    BY <2>1
  <2>4. QED
    BY <2>1, <2>2, <2>3
<1>2. \A e, f \in H : \A x \in 1 .. Len(L[e]), y \in 1 .. Len(L[f]) :
         L[e][x] = L[f][y] => e = f /\ x = y
  BY DEF Laid
<1>3. \A a \in H : L[a][1] = a /\ 1 \in 1 .. Len(L[a])
  <2>1. ASSUME NEW a \in H PROVE L[a][1] = a /\ 1 \in 1 .. Len(L[a])
    <3>1. L[a] \in Seq(C) /\ Len(L[a]) > 0 /\ L[a][1] = a
      BY DEF Laid, IsRing
    <3>2. QED
      BY <3>1
  <2>2. QED
    BY <2>1
<1>4. Beside(h, s)
  BY Neighbours
<1>5. 1 \in 1 .. l /\ l \in 1 .. l
  BY <1>1
<1>6. ASSUME NEW i \in 1 .. l
      PROVE  /\ s[i] \in Cell
             /\ s[i] \in H => i = 1
             /\ h.next[s[i]] = IF i = l THEN s[1] ELSE s[i + 1]
             /\ h.previous[s[i]] = IF i = 1 THEN s[l] ELSE s[i - 1]
  <2>1. s[i] \in Cell
    BY <1>1
  <2>2. s[i] \in H => i = 1
    BY <1>2, <1>3
  <2>3. i # l => i \in 1 .. l - 1
    BY <1>1
  <2>4. i # 1 => i - 1 \in 1 .. l - 1 /\ (i - 1) + 1 = i
    BY <1>1
  <2>5. QED
    BY <1>4, <2>1, <2>2, <2>3, <2>4 DEF Beside
<1>7. ASSUME NEW c, In(s, c) PROVE In(s, h.next[c])
  <2>1. PICK i \in 1 .. l : s[i] = c
    BY <1>7 DEF In
  <2>2. CASE i = l
    BY <1>5, <1>6, <2>1, <2>2 DEF In
  <2>3. CASE i # l
    <3>1. i + 1 \in 1 .. l
      BY <1>1, <2>3
    <3>2. h.next[c] = s[i + 1]
      BY <1>6, <2>1, <2>3
    <3>3. QED
      BY <3>1, <3>2 DEF In
  <2>4. QED
    BY <2>2, <2>3
<1>8. ASSUME NEW c, In(s, c) PROVE In(s, h.previous[c])
  <2>1. PICK i \in 1 .. l : s[i] = c
    BY <1>8 DEF In
  <2>2. CASE i = 1
    BY <1>5, <1>6, <2>1, <2>2 DEF In
  <2>3. CASE i # 1
    <3>1. i - 1 \in 1 .. l
      BY <1>1, <2>3
    <3>2. h.previous[c] = s[i - 1]
      BY <1>6, <2>1, <2>3
    <3>3. QED
      BY <3>1, <3>2 DEF In
  <2>4. QED
    BY <2>2, <2>3
<1>9. ASSUME NEW a \in H, NEW c, In(L[a], c), In(s, c) PROVE a = b
  BY <1>2, <1>9 DEF In
<1>10. In(s, b)
  BY <1>1, <1>5 DEF In
<1>11. QED
  BY <1>1, <1>2, <1>6, <1>7, <1>8, <1>9, <1>10 DEF Turning

\* The lists M after the cells w went from the lists L behind the cell where of the list g:
\* the others stay where they are, and in the order in which they are.
WentBehind(L, H, w, g, M) ==
    /\ \A f \in H : \A c : In(L[f], c) /\ ~In(w, c) => In(M[f], c)
    /\ \A f \in H \ {g} : \/ M[f] = L[f]
                          \/ \E i \in 1 .. Len(L[f]) : \E d \in 1 .. Len(L[f]) - i :
                                M[f] = Outer(L[f], i, d)

\* Cells that follow each other stand side by side in one list, unless a head is among them.
LEMMA StretchIs ==
    ASSUME NEW n, NEW C, NEW H, NEW L, Laid(n, L, H, C),
           NEW w \in Seq(C), Len(w) > 0, Linked(n, w), \A j \in 1 .. Len(w) : w[j] \notin H
    PROVE  \E b \in H : \E i \in 1 .. Len(L[b]) :
              /\ Len(w) \in 1 .. Len(L[b]) - i
              /\ \A j \in 1 .. Len(w) : w[j] = L[b][i + j]
<1> DEFINE m == Len(w)
<1>1. /\ m \in Nat /\ m > 0 /\ \A j \in 1 .. m : w[j] \in C
      /\ \A f \in H : L[f] \in Seq(C) /\ Len(L[f]) \in Nat /\ IsRing(n, L[f]) /\ L[f][1] = f
      /\ \A c \in C : \E f \in H : \E i \in 1 .. Len(L[f]) : L[f][i] = c
  <2>1. m \in Nat /\ m > 0 /\ \A j \in 1 .. m : w[j] \in C
    OBVIOUS
  <2>2. \A f \in H : L[f] \in Seq(C)
    BY DEF Laid
  <2>3. \A f \in H : Len(L[f]) \in Nat
    BY <2>2
  <2>4. \A f \in H : IsRing(n, L[f]) /\ L[f][1] = f
    BY DEF Laid
  <2>5. \A c \in C : \E f \in H : \E i \in 1 .. Len(L[f]) : L[f][i] = c
    BY DEF Laid
  <2>6. QED
    BY <2>1, <2>2, <2>3, <2>4, <2>5
<1>2. PICK b \in H : \E k \in 1 .. Len(L[b]) : L[b][k] = w[1]
  <2>1. w[1] \in C
    BY <1>1
  <2>2. QED
    BY <1>1, <2>1
<1>3. PICK k \in 1 .. Len(L[b]) : L[b][k] = w[1]
  BY <1>2
<1> DEFINE l == Len(L[b])
           i == k - 1
<1>4. l \in Nat /\ k \in 1 .. l /\ k # 1 /\ i \in 1 .. l /\ i + 1 = k
  <2>1. L[b][1] = b /\ w[1] \notin H
    BY <1>1
  <2>2. k # 1
    BY <1>3, <2>1
  <2>3. QED
    BY <1>1, <2>2
<1> HIDE DEF m, l, i
<1>5. \A j \in Nat : j + 1 <= m => (i + 1) + j <= l /\ w[j + 1] = L[b][(i + 1) + j]
  <2> DEFINE J == {j \in Nat : j + 1 <= m => (i + 1) + j <= l /\ w[j + 1] = L[b][(i + 1) + j]}
  <2>1. 0 \in J
    BY <1>3, <1>4
  <2>2. ASSUME NEW j \in Nat, j \in J PROVE j + 1 \in J
    <3>1. SUFFICES ASSUME (j + 1) + 1 <= m
                   PROVE  /\ (i + 1) + (j + 1) <= l
                          /\ w[(j + 1) + 1] = L[b][(i + 1) + (j + 1)]
      OBVIOUS
    <3>2. /\ j + 1 <= m /\ j + 1 \in 1 .. m - 1 /\ (j + 1) + 1 \in 1 .. m
          /\ (i + 1) + j \in 1 .. l /\ w[j + 1] = L[b][(i + 1) + j]
      BY <1>1, <1>4, <2>2, <3>1
    <3>3. n[w[j + 1]] = w[(j + 1) + 1] /\ w[(j + 1) + 1] \notin H
      BY <3>2 DEF Linked, m
    <3>4. CASE (i + 1) + j = l
      <4>1. n[L[b][l]] = b
        BY <1>1 DEF IsRing, l
      <4>2. QED
        BY <3>2, <3>3, <3>4, <4>1
    <3>5. CASE (i + 1) + j # l
      <4>1. (i + 1) + j \in 1 .. l - 1 /\ ((i + 1) + j) + 1 = (i + 1) + (j + 1)
        BY <1>4, <3>2, <3>5
      <4>2. n[L[b][(i + 1) + j]] = L[b][((i + 1) + j) + 1]
        BY <1>1, <4>1 DEF IsRing, l
      <4>3. L[b][((i + 1) + j) + 1] = w[(j + 1) + 1]
        BY <3>2, <3>3, <4>2
      <4>4. (i + 1) + (j + 1) <= l
        BY <1>4, <4>1
      <4>5. QED
        BY <4>1, <4>3, <4>4
    <3>6. QED
      BY <3>4, <3>5
  <2> HIDE DEF J
  <2>3. Nat \subseteq J
    BY <2>1, <2>2, NaturalsInSet
  <2>4. QED
    BY <2>3 DEF J
<1>6. m \in 1 .. l - i
  <2>1. m - 1 \in Nat /\ (m - 1) + 1 = m
    BY <1>1
  <2>2. (i + 1) + (m - 1) <= l
    BY <1>5, <2>1
  <2>3. QED
    BY <1>1, <1>4, <2>2
<1>7. ASSUME NEW j \in 1 .. m PROVE w[j] = L[b][i + j]
  <2>1. j - 1 \in Nat /\ (j - 1) + 1 = j /\ j <= m /\ (i + 1) + (j - 1) = i + j
    BY <1>1, <1>4
  <2>2. w[(j - 1) + 1] = L[b][(i + 1) + (j - 1)]
    BY <1>5, <2>1
  <2>3. QED
    BY <2>1, <2>2
<1>8. QED
  BY <1>4, <1>6, <1>7 DEF m, l

\* What is left of a list, and what has been put into one, holds what it should.
LEMMA OuterHolds ==
    ASSUME NEW C, NEW s \in Seq(C), NEW i \in 1 .. Len(s), NEW d \in 1 .. Len(s) - i,
           NEW k \in 1 .. Len(s), k <= i \/ k > i + d
    PROVE  /\ Outer(s, i, d) \in Seq(C)
           /\ \E j \in 1 .. Len(Outer(s, i, d)) : Outer(s, i, d)[j] = s[k]
<1>1. Len(s) \in Nat /\ i \in Nat /\ d \in Nat /\ k \in Nat
  OBVIOUS
<1>2. /\ Outer(s, i, d) \in Seq(C) /\ Len(Outer(s, i, d)) = Len(s) - d
      /\ \A a \in 1 .. i : Outer(s, i, d)[a] = s[a]
      /\ \A a \in i + 1 .. Len(s) - d : Outer(s, i, d)[a] = s[a + d]
  BY OuterIs
<1>3. CASE k <= i
  <2>1. k \in 1 .. i /\ k \in 1 .. Len(s) - d
    BY <1>1, <1>3
  <2>2. QED
    BY <1>2, <2>1
<1>4. CASE k > i + d
  <2>1. k - d \in i + 1 .. Len(s) - d /\ k - d \in 1 .. Len(s) - d /\ (k - d) + d = k
    BY <1>1, <1>4
  <2>2. QED
    BY <1>2, <2>1
<1>5. QED
  BY <1>2, <1>3, <1>4

\* A list with another one put into it holds all that it held.
LEMMA InsertedHolds ==
    ASSUME NEW C, NEW s \in Seq(C), NEW k \in 1 .. Len(s), NEW t \in Seq(C), NEW c, In(s, c)
    PROVE  In(Inserted(s, k, t), c)
<1>1. PICK i \in 1 .. Len(s) : s[i] = c
  BY DEF In
<1>2. /\ Len(Inserted(s, k, t)) = Len(s) + Len(t)
      /\ \A j \in 1 .. k : Inserted(s, k, t)[j] = s[j]
      /\ \A j \in k + Len(t) + 1 .. Len(s) + Len(t) : Inserted(s, k, t)[j] = s[j - Len(t)]
  <2>1. Len(Inserted(s, k, t)) = Len(s) + Len(t)
    BY InsertedIs
  <2>2. \A j \in 1 .. k : Inserted(s, k, t)[j] = s[j]
    BY InsertedIs
  <2>3. \A j \in k + Len(t) + 1 .. Len(s) + Len(t) : Inserted(s, k, t)[j] = s[j - Len(t)]
    BY InsertedIs
  <2>4. QED
    BY <2>1, <2>2, <2>3
<1>3. Len(s) \in Nat /\ Len(t) \in Nat /\ i \in Nat /\ k \in Nat
  OBVIOUS
<1>4. CASE i <= k
  <2>1. i \in 1 .. k /\ i \in 1 .. Len(s) + Len(t)
    BY <1>3, <1>4
  <2>2. QED
    BY <1>1, <1>2, <2>1 DEF In
<1>5. CASE i > k
  <2>1. /\ i + Len(t) \in k + Len(t) + 1 .. Len(s) + Len(t)
        /\ i + Len(t) \in 1 .. Len(s) + Len(t) /\ (i + Len(t)) - Len(t) = i
    BY <1>3, <1>5
  <2>2. QED
    BY <1>1, <1>2, <2>1 DEF In
<1>6. QED
  BY <1>3, <1>4, <1>5

\* A splice takes cells that follow each other behind any cell that is not one of them,
\* unless they are there already.
LEMMA StretchMoves ==
    ASSUME NEW h \in Heap, DoublyLinked(h), NEW C \in SUBSET Cell, NEW H, NEW L,
           Laid(h.next, L, H, C),
           NEW w \in Seq(C), Len(w) > 0, Linked(h.next, w), \A j \in 1 .. Len(w) : w[j] \notin H,
           NEW g \in H, NEW where, In(L[g], where), ~In(w, where), h.next[where] # w[1]
    PROVE  \E M : /\ Laid(Splice(h, where, w[1], w[Len(w)]).next, M, H, C)
                  /\ WentBehind(L, H, w, g, M)
<1>1. /\ \A f \in H : L[f] \in Seq(C) /\ Len(L[f]) \in Nat
      /\ \A e, f \in H : \A x \in 1 .. Len(L[e]), y \in 1 .. Len(L[f]) :
            L[e][x] = L[f][y] => e = f /\ x = y
      /\ Len(w) \in Nat /\ Len(w) \in 1 .. Len(w) /\ 1 \in 1 .. Len(w)
  <2>1. Len(w) \in Nat /\ Len(w) \in 1 .. Len(w) /\ 1 \in 1 .. Len(w)
    OBVIOUS
  <2>2. \A f \in H : L[f] \in Seq(C)
    BY DEF Laid
  <2>3. \A e, f \in H : \A x \in 1 .. Len(L[e]), y \in 1 .. Len(L[f]) :
            L[e][x] = L[f][y] => e = f /\ x = y
    BY DEF Laid
  <2>4. QED
    BY <2>1, <2>2, <2>3
<1>0. PICK b \in H : \E i \in 1 .. Len(L[b]) :
         /\ Len(w) \in 1 .. Len(L[b]) - i
         /\ \A j \in 1 .. Len(w) : w[j] = L[b][i + j]
  <2>1. PICK n : n = h.next
    OBVIOUS
  <2>2. Laid(n, L, H, C) /\ Linked(n, w)
    BY <2>1
  <2>3. QED
    BY <2>2, StretchIs
<1>2. PICK i \in 1 .. Len(L[b]) :
         /\ Len(w) \in 1 .. Len(L[b]) - i
         /\ \A j \in 1 .. Len(w) : w[j] = L[b][i + j]
  BY <1>0
<1> DEFINE d == Len(w)
           R(f) == Rest(L, b, i, d, f)
<1>3. ASSUME NEW f \in H, NEW c, In(L[f], c), ~In(w, c)
      PROVE  R(f) \in Seq(C) /\ In(R(f), c)
  <2>1. PICK k \in 1 .. Len(L[f]) : L[f][k] = c
    BY <1>3 DEF In
  <2>2. CASE f # b
    BY <1>1, <1>3, <2>2 DEF Rest
  <2>3. CASE f = b
    <3>1. k <= i \/ k > i + d
      <4>1. SUFFICES ASSUME ~(k <= i), ~(k > i + d) PROVE FALSE
        OBVIOUS
      <4>2. k - i \in 1 .. d /\ i + (k - i) = k
        BY <1>1, <1>2, <4>1, <2>3
      <4>3. w[k - i] = c
        BY <1>2, <2>1, <2>3, <4>2
      <4>4. QED
        BY <1>3, <4>2, <4>3 DEF In
    <3>2. /\ Outer(L[b], i, d) \in Seq(C)
          /\ \E j \in 1 .. Len(Outer(L[b], i, d)) : Outer(L[b], i, d)[j] = L[b][k]
      <4>1. PICK s : s = L[b]
        OBVIOUS
      <4>2. s \in Seq(C) /\ i \in 1 .. Len(s) /\ d \in 1 .. Len(s) - i /\ k \in 1 .. Len(s)
        BY <1>1, <1>2, <2>1, <2>3, <4>1
      <4>3. Outer(s, i, d) \in Seq(C) /\ \E j \in 1 .. Len(Outer(s, i, d)) : Outer(s, i, d)[j] = s[k]
        BY <3>1, <4>2, OuterHolds
      <4>4. QED
        BY <4>1, <4>3
    <3>3. QED
      BY <2>1, <2>3, <3>2 DEF Rest, In
  <2>4. QED
    BY <2>2, <2>3
<1>4. PICK k \in 1 .. Len(R(g)) : R(g)[k] = where
  BY <1>3 DEF In
<1>5. R(g) \in Seq(C)
  BY <1>3
<1>6. L[b][i + 1] = w[1] /\ L[b][i + d] = w[d]
  BY <1>1, <1>2
<1>7. R(g)[k] # L[b][i]
  <2>1. i \in 1 .. Len(L[b]) - 1
    BY <1>1, <1>2
  <2>2. h.next[L[b][i]] = L[b][i + 1]
    <3>1. IsRing(h.next, L[b])
      BY DEF Laid
    <3>2. QED
      BY <2>1, <3>1 DEF IsRing
  <2>3. QED
    BY <1>4, <1>6, <2>2
<1>8. Laid(Splice(h, where, w[1], w[d]).next, MovedCells(L, H, b, i, d, g, k), H, C)
  <2>1. Laid(Splice(h, R(g)[k], L[b][i + 1], L[b][i + d]).next,
             MovedCells(L, H, b, i, d, g, k), H, C)
    BY <1>2, <1>4, <1>7, SpliceMoves
  <2>2. QED
    BY <1>4, <1>6, <2>1
<1>9. WentBehind(L, H, w, g, MovedCells(L, H, b, i, d, g, k))
  <2> DEFINE N == MovedCells(L, H, b, i, d, g, k)
  <2>1. \A f \in H : N[f] = IF f = g THEN Inserted(R(f), k, Inner(L[b], i, d)) ELSE R(f)
    BY DEF MovedCells
  <2>2. Inner(L[b], i, d) \in Seq(C)
    <3>1. PICK s : s = L[b]
      OBVIOUS
    <3>2. s \in Seq(C) /\ i \in 1 .. Len(s) /\ d \in 1 .. Len(s) - i
      BY <1>1, <1>2, <3>1
    <3>3. QED
      BY <3>1, <3>2, InnerIs
  <2> HIDE DEF N
  <2>3. ASSUME NEW f \in H, NEW c, In(L[f], c), ~In(w, c) PROVE In(N[f], c)
    <3>1. R(f) \in Seq(C) /\ In(R(f), c)
      BY <1>3, <2>3
    <3>2. CASE f = g
      <4>1. In(Inserted(R(g), k, Inner(L[b], i, d)), c)
        <5>1. PICK s, t : s = R(g) /\ t = Inner(L[b], i, d)
          OBVIOUS
        <5>2. s \in Seq(C) /\ t \in Seq(C) /\ k \in 1 .. Len(s) /\ In(s, c)
          BY <1>4, <1>5, <2>2, <3>1, <3>2, <5>1
        <5>3. In(Inserted(s, k, t), c)
          BY <5>2, InsertedHolds
        <5>4. QED
          BY <5>1, <5>3
      <4>2. QED
        BY <2>1, <3>2, <4>1
    <3>3. CASE f # g
      BY <2>1, <3>1, <3>3
    <3>4. QED
      BY <3>2, <3>3
  <2>4. ASSUME NEW f \in H \ {g}
        PROVE  \/ N[f] = L[f]
               \/ \E x \in 1 .. Len(L[f]) : \E y \in 1 .. Len(L[f]) - x : N[f] = Outer(L[f], x, y)
    <3>1. N[f] = R(f)
      BY <2>1
    <3>2. QED
      BY <1>2, <3>1 DEF Rest
  <2>5. QED
    BY <2>3, <2>4 DEF WentBehind, N
<1>10. QED
  BY <1>8, <1>9

\* A splice of this kind keeps the heap.
LEMMA SpliceKeeps ==
    ASSUME NEW h \in Heap, DoublyLinked(h), NEW where \in Cell, NEW first \in Cell, NEW last \in Cell,
           where # last, h.next[where] # first
    PROVE  Splice(h, where, first, last) \in Heap /\ DoublyLinked(Splice(h, where, first, last))
<1>1. Good(h, Cell)
  BY DEF Good
<1>2. where # h.previous[first]
  BY DEF DoublyLinked
<1>3. Good(Splice(h, where, first, last), Cell)
  BY <1>1, <1>2, SpliceGood
<1>4. QED
  BY <1>3 DEF Good
=============================================================================
