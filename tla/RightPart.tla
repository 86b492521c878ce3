------------------------------ MODULE RightPart ------------------------------
(***************************************************************************)
(* The right side of a sentence, pointer by pointer: the operators from    *)
(* EOR to EOS of inter/interpreter.c write the new cells of the result in  *)
(* the free list itself, plan the parts of the argument to be moved on a   *)
(* stack, and only EOS splices everything into the view field.  A step     *)
(* that meets the end of the free list is given up by LACK.  SWAPREF, the  *)
(* call of a box, is the other way a step ends.                            *)
(***************************************************************************)
EXTENDS Rings, Sequences, FiniteSets, FiniteSetsExt, SequencesExt

CONSTANTS
    Scenes,         \* the memories a step may begin in: records of what follows
    Quasi,          \* quasi_k, the automatic variable of refal_run()
    Null,           \* NULL
    Symbol          \* the symbols the program writes: [tag, code]

VARIABLE scene      \* the memory this step begins in

Field == scene.field        \* the view field, head first, as cells
Argument == scene.argument  \* the cells between < and > of the leading term, the label first
BoxLists == scene.boxes     \* the boxes that may be called, each head first
Free == scene.free          \* the free list, head first
Tag == scene.tag            \* the tag of every cell and its info; what a free
Code == scene.code          \*   cell held last is still there
\* What TPL, TPLS, MULS, MULE move or copy: pairs of cells of Argument, the first
\* and the last one; an empty part has its last before its first.
Variable == scene.variables

FreeHead == Free[1]
View == Field[1]
Place(c) == CHOOSE i \in DOMAIN Field : Field[i] = c
LeftK == Field[Place(Argument[1]) - 1]      \* table_elements[1]
RightD == Field[Place(Last(Argument)) + 1]  \* table_elements[2]
Label == Argument[1]                        \* table_elements[3]
Used == UNION {Range(s) : s \in BoxLists \cup {Field}}

\* No bracket of s closes one outside s; by is the tag of each cell.
Tagged(s, by, t, n) == {i \in 1 .. n : by[s[i]] = t}
Balanced(s, by) == \A n \in DOMAIN s :
    Cardinality(Tagged(s, by, "RB", n)) <= Cardinality(Tagged(s, by, "LB", n))

\* The lists of a scene share no cell; the argument is what < and > enclose in the view
\* field; a variable that is not empty stands for a part behind the label with its brackets.
ASSUME RightPartAssumption ==
    /\ IsFiniteSet(Cell) /\ Quasi \notin Cell /\ Null \notin Cell \cup {Quasi}
    /\ \A s \in Scenes :
          LET lists == s.boxes \cup {s.field, s.free}
          IN  /\ s.free \notin s.boxes \cup {s.field} /\ s.field \notin s.boxes
              /\ \A w \in lists : w \in Seq(Cell) /\ w # <<>> /\ IsInjective(w)
              /\ \A w, z \in lists : w = z \/ Range(w) \cap Range(z) = {}
              /\ \E k, d \in DOMAIN s.field :
                    /\ 1 < k /\ k + 1 < d /\ s.argument = SubSeq(s.field, k + 1, d - 1)
                    /\ \A v \in s.variables :
                          /\ {v[1], v[2]} \subseteq Range(s.field)
                          /\ \A i, j \in DOMAIN s.field :
                                s.field[i] = v[1] /\ s.field[j] = v[2]
                                   => /\ i <= j => k + 1 < i /\ j < d
                                      /\ Balanced(SubSeq(s.field, i, j), s.tag)

VARIABLES
    heap,       \* previous and next of every cell
    tag, code,  \* tag and info of every cell and of quasi_k
    current,    \* current_linkcb_free_memory
    acted,      \* last_acted_k
    left,       \* last_gen_left_bracket
    stack,      \* the planned transplantations
    copying,    \* the cells that MULE has still to copy
    phase       \* "start", "build", "done", "lack"

vars == <<scene, heap, tag, code, current, acted, left, stack, copying, phase>>

\* Each list is a ring.
Original ==
    LET others == Cell \ (Used \cup Range(Free))
        lists == BoxLists \cup {Field, Free} \cup {<<c>> : c \in others}
        list(c) == CHOOSE s \in lists : c \in Range(s)
        Turn(c, by) == LET s == list(c)
                           i == CHOOSE i \in DOMAIN s : s[i] = c
                       IN  s[((i - 1 + by) % Len(s)) + 1]
    IN  [next |-> [c \in Cell |-> Turn(c, 1)],
         previous |-> [c \in Cell |-> Turn(c, Len(list(c)) - 1)]]

Init == /\ scene \in Scenes
        /\ heap = Original
        /\ tag = [c \in Cell \cup {Quasi} |-> IF c = Quasi THEN "K" ELSE Tag[c]]
        /\ code = [c \in Cell \cup {Quasi} |-> IF c = Quasi THEN RightD ELSE Code[c]]
        /\ current = Null /\ acted = Null /\ left = Null
        /\ stack = <<>> /\ copying = <<>>
        /\ phase = "start"
-----------------------------------------------------------------------------

\* EOR
BeginRightPart ==
    /\ phase = "start"
    /\ current' = FreeHead /\ acted' = Quasi /\ left' = Null
    /\ phase' = "build"
    /\ UNCHANGED <<heap, tag, code, stack, copying>>

Building == phase = "build" /\ copying = <<>>
New == heap.next[current]

\* A faulty LACK: the chain of calls is left as the result has changed it.
LackForgetful == /\ phase' = "lack"
                 /\ UNCHANGED <<heap, tag, code, current, acted, left, stack, copying>>

\* LACK: the step will begin again from the same leading term.
Lack == /\ phase' = "lack"
        /\ code' = [code EXCEPT ![Quasi] = RightD]
        /\ UNCHANGED <<heap, tag, current, acted, left, stack, copying>>

\* A cell of the free list is written.
Put(t, i) == /\ tag' = [tag EXCEPT ![New] = t]
             /\ code' = [code EXCEPT ![New] = i]
             /\ current' = New
             /\ UNCHANGED <<heap, acted, stack, phase>>

\* NS, NSO, TEXT, and MULS of a symbol variable
Write == /\ Building
         /\ \E s \in Symbol \cup {[tag |-> tag[v[1]], code |-> code[v[1]]] :
                                  v \in {v \in Variable : v[1] = v[2] /\ tag[v[1]] = "O"}} :
               IF New = FreeHead THEN Lack
               ELSE Put(s.tag, s.code) /\ UNCHANGED <<left, copying>>

\* BL: the bracket is chained to the one it is in, until it is closed.
Open == /\ Building
        /\ IF New = FreeHead THEN Lack
           ELSE Put(tag[New], left) /\ left' = New /\ UNCHANGED copying

\* BLF: an opening bracket and the label of the function behind it.
OpenCall ==
    /\ Building
    /\ LET label == heap.next[New]
           opened == [code EXCEPT ![New] = left]
       IN  IF New = FreeHead THEN Lack
           ELSE IF label = FreeHead
           THEN /\ phase' = "lack"
                /\ code' = [opened EXCEPT ![Quasi] = RightD]
                /\ left' = New /\ current' = label
                /\ UNCHANGED <<heap, tag, acted, stack, copying>>
           ELSE /\ \E s \in {s \in Symbol : s.tag = "F"} :
                      code' = [opened EXCEPT ![label] = s.code]
                /\ tag' = [tag EXCEPT ![label] = "F"]
                /\ left' = New /\ current' = label
                /\ UNCHANGED <<heap, acted, stack, copying, phase>>

\* BR, and BLR when the brackets are empty.
Close == /\ Building /\ left # Null
         /\ IF New = FreeHead THEN Lack
            ELSE /\ tag' = [tag EXCEPT ![left] = "LB", ![New] = "RB"]
                 /\ code' = [code EXCEPT ![left] = New, ![New] = left]
                 /\ left' = code[left] /\ current' = New
                 /\ UNCHANGED <<heap, acted, stack, copying, phase>>

\* A faulty BRACT: the chain of dots goes on from the term that is opened last.
ActivateInnermost ==
    /\ Building /\ left # Null
    /\ IF New = FreeHead THEN Lack
       ELSE /\ tag' = [tag EXCEPT ![New] = "D", ![acted] = "K"]
            /\ code' = [code EXCEPT ![New] = left, ![left] = New]
            /\ acted' = left /\ left' = code[left] /\ current' = New
            /\ UNCHANGED <<heap, stack, copying, phase>>

\* BRACT: the term that was closed before this one leads to it.
Activate ==
    /\ Building /\ left # Null
    /\ IF New = FreeHead THEN Lack
       ELSE /\ tag' = [tag EXCEPT ![New] = "D", ![acted] = "K"]
            /\ code' = [code EXCEPT ![New] = left, ![acted] = New]
            /\ acted' = left /\ left' = code[left] /\ current' = New
            /\ UNCHANGED <<heap, stack, copying, phase>>

\* The cells from first to last.
Part(v) == SubSeq(Field, Place(v[1]), Place(v[2]))
Planned == UNION {Range(Part(stack[i].part)) : i \in DOMAIN stack}

\* TPL, TPLM, TPLE, TPLV, TPLS.  A part may lie around parts that are planned
\* already: these will leave it again, since the youngest plan is made first.
Transplant == \E v \in Variable :
    /\ Building
    /\ Part(v) # <<>> /\ ~ Range(Part(v)) \subseteq Planned
    /\ \A i \in DOMAIN stack :
           LET planned == Range(Part(stack[i].part))
           IN  planned \subseteq Range(Part(v)) \/ planned \cap Range(Part(v)) = {}
    /\ stack' = Append(stack, [to |-> current, part |-> v])
    /\ UNCHANGED <<heap, tag, code, current, acted, left, copying, phase>>

\* MULE: a copy of the part, cell by cell.
Copy == \E v \in Variable :
    /\ Building /\ Part(v) # <<>>
    /\ copying' = Part(v)
    /\ UNCHANGED <<heap, tag, code, current, acted, left, stack, phase>>

\* A faulty copy: the pointer in a closing bracket is copied with it.
CopyCellVerbatim ==
    /\ copying # <<>> /\ phase = "build"
    /\ LET c == Head(copying)
       IN  IF New = FreeHead THEN Lack
           ELSE /\ tag' = [tag EXCEPT ![New] = tag[c]]
                /\ code' = [code EXCEPT ![New] = code[c]]
                /\ current' = New /\ copying' = Tail(copying)
                /\ UNCHANGED <<heap, acted, left, stack, phase>>

CopyCell ==
    /\ copying # <<>> /\ phase = "build"
    /\ LET c == Head(copying)
       IN  IF New = FreeHead THEN Lack
           ELSE /\ CASE tag[c] = "LB" ->
                        /\ code' = [code EXCEPT ![New] = left]
                        /\ left' = New /\ UNCHANGED tag
                     [] tag[c] = "RB" ->
                        /\ code' = [code EXCEPT ![New] = left, ![left] = New]
                        /\ tag' = [tag EXCEPT ![New] = "RB", ![left] = "LB"]
                        /\ left' = code[left]
                     [] OTHER ->
                        /\ code' = [code EXCEPT ![New] = code[c]]
                        /\ tag' = [tag EXCEPT ![New] = tag[c]]
                        /\ UNCHANGED left
                /\ current' = New /\ copying' = Tail(copying)
                /\ UNCHANGED <<heap, acted, stack, phase>>
-----------------------------------------------------------------------------
\* A faulty order: the oldest transplantation is made first.
MovedInOrder(h) ==
    LET after[n \in 0 .. Len(stack)] ==
            IF n = 0 THEN h
            ELSE LET s == stack[n]
                     g == after[n - 1]
                     cut == Link(g, g.previous[s.part[1]], g.next[s.part[2]])
                 IN  Link(Link(cut, s.part[2], cut.next[s.to]), s.to, s.part[1])
    IN  after[Len(stack)]

\* The planned transplantations, the youngest first, each at the cell that was
\* the last one written when it was planned.
Moved(h) ==
    LET after[n \in 0 .. Len(stack)] ==
            IF n = Len(stack) THEN h
            ELSE LET s == stack[n + 1]
                     g == after[n + 1]
                     cut == Link(g, g.previous[s.part[1]], g.next[s.part[2]])
                 IN  Link(Link(cut, s.part[2], cut.next[s.to]), s.to, s.part[1])
    IN  after[0]

\* A faulty replacement: the result is taken for empty when no new cell was written.
ReplacedEarly(h, rest) ==
    IF heap.next[FreeHead] = rest
    THEN Link(h, h.previous[LeftK], h.next[RightD])
    ELSE Link(Link(h, h.previous[rest], h.next[RightD]), h.previous[LeftK], h.next[FreeHead])

\* The result comes between what was before < and what was behind >, if there is one.
Replaced(h, rest) ==
    IF h.next[FreeHead] = rest
    THEN Link(h, h.previous[LeftK], h.next[RightD])
    ELSE Link(Link(h, h.previous[rest], h.next[RightD]), h.previous[LeftK], h.next[FreeHead])

\* EOS
EndOfSentence ==
    /\ Building /\ left = Null
    /\ LET rest == New
           result == Replaced(Moved(heap), rest)
       IN  heap' = Link(Link(result, RightD, rest), FreeHead, LeftK)
    /\ code' = [code EXCEPT ![acted] = code[LeftK]]
    /\ tag' = [tag EXCEPT ![acted] = "K"]
    /\ phase' = "done"
    /\ UNCHANGED <<current, acted, left, stack, copying>>

\* The contents of the box take the place of the leading term ...
Taken(h, box) ==
    IF h.next[box] # box
    THEN Link(Link(h, h.previous[box], h.next[RightD]), h.previous[LeftK], h.next[box])
    ELSE Link(h, h.previous[LeftK], h.next[RightD])

\* ... and the argument the place of the contents.
Filled(h, box) ==
    IF h.next[Label] # RightD
    THEN Link(Link(Link(h, h.previous[RightD], box), box, h.next[Label]), Label, RightD)
    ELSE Link(h, box, box)

\* SWAPREF
SwapReference ==
    /\ phase = "start"
    /\ \E box \in BoxLists :
           LET swapped == Filled(Taken(heap, box[1]), box[1])
           IN  heap' = Link(Link(swapped, RightD, swapped.next[FreeHead]), FreeHead, LeftK)
    /\ code' = [code EXCEPT ![Quasi] = code[LeftK]]
    /\ phase' = "done"
    /\ UNCHANGED <<tag, current, acted, left, stack, copying>>

Next == /\ \/ BeginRightPart \/ Write \/ Open \/ OpenCall \/ Close \/ Activate
           \/ Transplant \/ Copy \/ CopyCell \/ EndOfSentence \/ SwapReference
        /\ UNCHANGED scene

Spec == Init /\ [][Next]_vars
-----------------------------------------------------------------------------
\* The ring of c as the sequence of its cells, c first.
Walk(c) == LET from[n \in Nat] ==
                   [e \in Cell |-> IF n = 0 \/ heap.next[e] = c THEN <<e>>
                                  ELSE <<e>> \o from[n - 1][heap.next[e]]]
           IN  from[Cardinality(Cell)][c]

\* The brackets that are open while the result is written.
Opened == LET from[c \in Range(Free) \cup {Null}, n \in Nat] ==
                  IF c = Null \/ n = 0 THEN {} ELSE {c} \cup from[code[c], n - 1]
          IN  from[left, Len(Free)]

Bracket(t) == [tag |-> t, code |-> "none"]
\* The tag of the last < that was closed is still to be written.
Token(c) == IF c \in Opened THEN Bracket("opening")
            ELSE IF c = acted THEN Bracket("K")
            ELSE IF tag[c] \in {"LB", "RB", "K", "D"} THEN Bracket(tag[c])
            ELSE [tag |-> tag[c], code |-> code[c]]
Tokens(s) == LET of[w \in Seq(Cell)] == <<>> \o [i \in DOMAIN w |-> Token(w[i])]
             IN  of[s]

\* What the plan i moves and no older plan takes out of it.
Moving(i) == LET older == UNION {Range(Part(stack[j].part)) : j \in 1 .. i - 1}
             IN  SelectSeq(Part(stack[i].part), LAMBDA c : c \notin older)

\* The result so far: the new cells up to current, and behind each what will be moved there.
Result ==
    LET used == SubSeq(Free, 1, CHOOSE i \in DOMAIN Free : Free[i] = current)
        Behind(c) == FlattenSeq([i \in DOMAIN stack |->
                                    IF stack[i].to = c THEN Moving(i) ELSE <<>>])
    IN  IF phase # "build" THEN <<>>
        ELSE Tail(FlattenSeq([i \in DOMAIN used |-> <<used[i]>> \o Behind(used[i])]))

TokenIn(s, c) == IF s.tag[c] \in {"LB", "RB", "K", "D"} THEN Bracket(s.tag[c])
                 ELSE [tag |-> s.tag[c], code |-> s.code[c]]
TokensIn(s, w) == <<>> \o [i \in DOMAIN w |-> TokenIn(s, w[i])]

AllSymbols == Symbol \cup UNION {{TokenIn(s, c) : c \in {c \in Range(s.argument) : s.tag[c] = "O"}}
                                 : s \in Scenes}
\* What the variables and the argument stand for, with or without some of its cells.
Parts == UNION {UNION {{TokensIn(s, SelectSeq(SubSeq(Tail(s.argument), i, j), LAMBDA c : c \notin gone)) :
                            i, j \in 1 .. Len(s.argument) - 1}
                       : gone \in SUBSET Range(Tail(s.argument))} : s \in Scenes}
         \cup {<<>>}
BeforeTerm == TokensIn(scene, SubSeq(Field, 2, Place(LeftK) - 1))
AfterTerm == TokensIn(scene, SubSeq(Field, Place(RightD) + 1, Len(Field)))

Meaning == INSTANCE RightSide WITH
    Symbol <- AllSymbols, Expression <- Parts,
    before <- BeforeTerm, after <- AfterTerm,
    field <- Tokens(Tail(Walk(View))),
    box <- [s \in BoxLists |-> Tokens(Tail(Walk(s[1])))],
    built <- Tokens(Result)
-----------------------------------------------------------------------------
(* What a step of the right side must keep *)

\* EOS and SWAPREF change lists that meet in <, in > and in the last new cell:
\* whichever of the result, the argument and the box are empty, the view field,
\* the box and the free list stay rings that share no cell and lose none.
CellsConserved ==
    /\ DoublyLinked(heap)
    /\ LET lists == {Walk(View), Walk(FreeHead)} \cup {Walk(s[1]) : s \in BoxLists}
       IN  /\ UNION {Range(s) : s \in lists} = Used \cup Range(Free)
           /\ \A s, t \in lists : s = t \/ Range(s) \cap Range(t) = {}

\* In the view field and in the box a structure bracket points to its partner
\* (the interpreter jumps from one to the other): BR and MULE make these pointers
\* through the chain of open brackets, with transplanted brackets between them.
BracketsPaired ==
    \A s \in {Walk(View)} \cup {Walk(list[1]) : list \in BoxLists} :
        \A i \in DOMAIN s : tag[s[i]] \in {"LB", "RB"} =>
            \E j \in DOMAIN s :
                /\ code[s[i]] = s[j] /\ code[s[j]] = s[i]
                /\ {tag[s[i]], tag[s[j]]} = {"LB", "RB"}
                /\ (tag[s[i]] = "LB") = (i < j)
                /\ \A k \in i + 1 .. j - 1 : tag[s[k]] \in {"LB", "RB"} =>
                       \E l \in i + 1 .. j - 1 : code[s[k]] = s[l]

\* Between two steps quasi_k leads to the first > of the view field, a > to its <,
\* and a < to the > of the term that comes next: calls are made in the order in
\* which their brackets close, and the calls of the result before those outside.
DotsChained ==
    phase # "build" =>
        LET view    == Walk(View)
            dots    == SelectSeq(view, LAMBDA c : tag[c] = "D")
            leading == <<Quasi>> \o [i \in DOMAIN dots |-> code[dots[i]]]
        IN  \A i \in DOMAIN leading :
                /\ code[leading[i]] = IF i <= Len(dots) THEN dots[i] ELSE Null
                /\ i > 1 => /\ leading[i] \in Range(view) /\ tag[leading[i]] = "K"
                            /\ \A j \in DOMAIN leading : leading[j] = leading[i] => j = i

\* A step that found no free cell leaves nothing behind: when the memory has been
\* extended it begins again from the same leading term, the same argument and the
\* same chain of calls, however much of its result it had written.
LackHarmless ==
    phase = "lack" => /\ \A c \in Used : tag[c] = Tag[c] /\ code[c] = Code[c]
                      /\ code[Quasi] = RightD
                      /\ heap = Original

\* Written in free cells, with transplantations that wait for the end, the right
\* side does what it means: see RightSide.
MeansRightSide == Meaning!Spec
=============================================================================
