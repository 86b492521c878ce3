------------------------------- MODULE LeftPart -------------------------------
(***************************************************************************)
(* The compiler of left parts, comp/compile_sentence.c up to RCGFIN: the   *)
(* elements are read, then those that leave no choice are projected, from  *)
(* both ends of every hole; when none is left an e-variable is opened, to  *)
(* be lengthened at run time, with a jump stack entry for each.            *)
(* The two halves of the compiler, for the left and for the right end of a *)
(* hole, are one here: side is "L" or "R".  An operator is <<name without  *)
(* its L or R, side, operand>>.                                            *)
(***************************************************************************)
EXTENDS Specifiers, SequencesExt, FiniteSetsExt

CONSTANTS
    Sentence,       \* the sentences as they are written, sequences of elements
    LARGEST         \* the number_element up to which a left part is not very large

VARIABLES
    sentence, direction,    \* the sentence; TRUE is from left to right
    cursor,     \* the place of current_sentence_element
    errors,     \* the numbers of the errors reported
    pattern,    \* left_part_elements
    pair,       \* pair_bracket of those that have been found
    number,     \* left_number_element and right_number_element of the projected elements
    mark,       \* jump_stack_pointer of the elements with an eoe_mark
    specifier,  \* the specifiers that are still to be checked
    main,       \* main_right_number_element of the variables projected so far
    remains,    \* for each variable, the occurrences that are not
    holes,      \* hole_list: the boards of the holes, in the order they are filled
    hole,       \* current_hole
    boards,     \* current_left_board, current_right_board
    entered,    \* stoped_bracket_flag, hole_x, hole_y
    top,        \* number_element
    depth,      \* jump_stack_pointer
    code,       \* the operators
    at          \* the state of the compiler

source   == <<sentence, direction>>
input    == <<source, cursor, errors, pattern, pair>>
elements == <<number, mark, specifier, main, remains>>
place    == <<holes, hole, boards, entered>>
compiling == <<input, elements, place, top, depth, code, at>>

Other(side) == IF side = "L" THEN "R" ELSE "L"
Step(side) == IF side = "L" THEN 1 ELSE -1
Lead == IF direction THEN "L" ELSE "R"

Type(i) == pattern[i].type
Name(i) == pattern[i].what
PairBracket(i) == pair[i]

Near(side) == boards[side] + Step(side)
Within(i) == boards.L < i /\ i < boards.R
Sole == boards.L + 2 = boards.R
Known(i) == Name(i) \in DOMAIN main
Free(i) == Type(i) = "E" /\ ~ Known(i)

\* number_element: one for a cell, two for the ends of a value.
Single(i, n) == i :> <<n, n>>
Double(i, n) == i :> <<n, n + 1>>
Numbered(new, n) == number' = new @@ number /\ top' = top + n

\* A variable is projected: one occurrence less, the first gives it its number.
Met(i, n) == /\ remains' = [remains EXCEPT ![Name(i)] = @ - 1]
             /\ main' = main @@ (Name(i) :> n)

Emit(operators) == code' = code \o operators
Checked(name, i) == IF specifier[i] = None THEN <<>> ELSE <<<<name, "", specifier[i]>>>>
NotEmpty(i) == IF pattern[i].v THEN <<<<"NNIL", "", <<>>>>>> ELSE <<>>
Board(side, i) == boards' = [boards EXCEPT ![side] = i]
NoBracket == [stop |-> "", x |-> 0, y |-> 0]
-----------------------------------------------------------------------------
(* GET_LPE to LPE10: the elements are read *)

END == [type |-> "END", what |-> "", v |-> FALSE, specifier |-> None]
Ahead(k) == IF cursor + k \in DOMAIN sentence THEN sentence[cursor + k] ELSE END
Current == Ahead(0)

Read ==
    /\ sentence \in Sentence /\ direction \in BOOLEAN
    /\ cursor = 1 /\ errors = {} /\ pattern = <<>> /\ pair = <<>>
    /\ number = <<>> /\ mark = <<>> /\ specifier = <<>> /\ main = <<>> /\ remains = <<>>
    /\ boards = [L |-> 0, R |-> 0]
    /\ holes = <<>> /\ hole = 0 /\ entered = NoBracket
    /\ top = 0 /\ depth = 0 /\ code = <<>> /\ at = "LPE"

\* search_variable(): the same name with another type.
Differs(e, f) == e.type # f.type \/ (e.type = "E" /\ e.v # f.v)
Clash(e) == \E i \in DOMAIN pattern : Variable(pattern[i]) /\ Name(i) = e.what /\ Differs(pattern[i], e)

\* last_bracket and the chain from it.
OpenBrackets == {i \in DOMAIN pattern : Type(i) = "LB" /\ i \notin DOMAIN pair}

\* The error of an element of the left part, 0 if it has none.
Fault(e) == CASE e.type = "RB" /\ OpenBrackets = {} -> 302
              [] Variable(e) /\ Clash(e) -> 303
              [] e.type = "K" -> 306
              [] e.type = "DOT" -> 307
              [] OTHER -> 0
Numbers(e) == CASE e.type \in {"W", "E"} -> 2
                [] e.type \in {"K", "DOT"} \/ Fault(e) = 302 -> 0
                [] OTHER -> 1

ReadElement ==
    /\ at = "LPE" /\ Current.type \notin {"NONE", "EQ", "END"}
    /\ LET fault == Fault(Current)
           large == top + Numbers(Current) > LARGEST
           i == Len(pattern) + 1
           j == Max(OpenBrackets)
       IN  /\ pattern' = IF fault = 0 THEN Append(pattern, Current) ELSE pattern
           /\ pair' = IF fault = 0 /\ Current.type = "RB" THEN (i :> j) @@ (j :> i) @@ pair ELSE pair
           /\ errors' = errors \cup ({fault} \ {0}) \cup (IF large THEN {305, 300} ELSE {})
           /\ top' = top + Numbers(Current)
           /\ at' = IF large THEN "stopped" ELSE "LPE"
    /\ cursor' = cursor + 1
    /\ UNCHANGED <<source, elements, place, depth, code>>

\* OSH300: the compiler gives the sentence up.
GiveUp ==
    /\ at = "LPE"
    /\ \/ Current.type = "NONE" /\ errors' = errors \cup {300}
       \/ Current.type = "END" /\ errors' = errors \cup {304}
       \/ Current.type = "EQ" /\ OpenBrackets # {} /\ errors' = errors \cup {301, 300}
    /\ at' = "stopped"
    /\ UNCHANGED <<source, cursor, pattern, pair, elements, place, top, depth, code>>

\* LPE9, RCG
EndOfLeftPart ==
    /\ at = "LPE" /\ Current.type = "EQ" /\ OpenBrackets = {}
    /\ number' = Single(0, 3) @@ Single(Len(pattern) + 1, 2)
    /\ mark' = <<>> /\ main' = <<>>
    /\ specifier' = [i \in DOMAIN pattern |-> pattern[i].specifier]
    /\ remains' = [v \in {Name(i) : i \in {i \in DOMAIN pattern : Variable(pattern[i])}} |->
                      Cardinality({i \in DOMAIN pattern : Variable(pattern[i]) /\ Name(i) = v})]
    /\ boards' = [L |-> 0, R |-> Len(pattern) + 1]
    /\ holes' = <<boards'>> /\ hole' = 1 /\ entered' = NoBracket
    /\ top' = 4 /\ at' = Lead
    /\ UNCHANGED <<input, depth, code>>
-----------------------------------------------------------------------------
(* RCGL and RCGR: what stands at one end of the current hole *)

Empty(side) ==
    /\ at = side /\ ~ Within(Near(side))
    /\ at' = "NIL"
    /\ UNCHANGED <<input, elements, place, top, depth, code>>

\* A run of characters is compared by one operator.
Constant(side) ==
    /\ at = side /\ Within(Near(side)) /\ Type(Near(side)) = "SC"
    /\ LET At(k) == boards[side] + k * Step(side)
           IsCharacter(k) == Within(At(k)) /\ Type(At(k)) = "SC" /\ Tag[Name(At(k))] = "O"
           n == IF ~ IsCharacter(1) THEN 1
                ELSE Max({k \in DOMAIN pattern : \A l \in 1 .. k : IsCharacter(l)})
           name == IF ~ IsCharacter(1) THEN "SC" ELSE IF n = 1 THEN "SCO" ELSE "TXT"
       IN  /\ Emit(<<<<name, side, [k \in 1 .. n |-> Name(At(k))]>>>>)
           /\ Numbered([i \in {At(k) : k \in 1 .. n} |->
                           LET m == top + Step(side) * (i - At(1)) IN <<m, m>>], n)
           /\ Board(side, At(n))
    /\ UNCHANGED <<input, mark, specifier, main, remains, holes, hole, entered, depth, at>>

SVariable(side) ==
    /\ at = side /\ Within(Near(side)) /\ Type(Near(side)) = "S"
    /\ LET i == Near(side)
       IN  /\ Emit(<<IF Known(i) THEN <<"SD", side, main[Name(i)]>> ELSE <<"S", side, <<>>>>>>
                      \o Checked("WSPC", i))
           /\ Met(i, top) /\ Numbered(Single(i, top), 1) /\ Board(side, i)
    /\ UNCHANGED <<input, mark, specifier, holes, hole, entered, depth, at>>

\* A new w-variable, or what a w- or an e-variable is known to be.
TermOrKnown(side) ==
    /\ at = side /\ Within(Near(side))
    /\ LET i == Near(side)
       IN  /\ Type(i) = "W" \/ (Type(i) = "E" /\ Known(i))
           /\ Emit(IF Known(i) THEN <<<<"ED", side, main[Name(i)]>>>> \o Checked("ESPC", i)
                   ELSE <<<<"W", side, <<>>>>>> \o Checked("WSPC", i))
           /\ Met(i, top + 1) /\ Numbered(Double(i, top), 2) /\ Board(side, i)
    /\ UNCHANGED <<input, mark, specifier, holes, hole, entered, depth, at>>

IsBracket(i) == Type(i) \in {"LB", "RB"}

\* () and (e1) need no hole of their own.
EmptyBrackets(side) ==
    /\ at = side /\ Within(Near(side)) /\ IsBracket(Near(side))
    /\ LET i == Near(side)
           j == PairBracket(i)
       IN  /\ j = i + Step(side)
           /\ Emit(<<<<"BNIL", side, <<>>>>>>)
           /\ Numbered(Single(Min({i, j}), top) @@ Single(Max({i, j}), top + 1), 2)
           /\ Board(side, j)
    /\ UNCHANGED <<input, mark, specifier, main, remains, holes, hole, entered, depth, at>>

Enclosed(i) == LET j == PairBracket(i)
                   e == (i + j) \div 2
               IN  j \in {i - 2, i + 2} /\ Free(e)

ClosedBrackets(side) ==
    /\ at = side /\ Within(Near(side)) /\ IsBracket(Near(side)) /\ Enclosed(Near(side))
    /\ LET i == Near(side)
           e == i + Step(side)
       IN  /\ Emit(<<<<"BCE", side, <<>>>>>> \o NotEmpty(e) \o Checked("ESPC", e))
           /\ Met(e, top + 3)
           /\ Numbered(Single(e - 1, top) @@ Single(e + 1, top + 1) @@ Double(e, top + 2), 4)
           /\ Board(side, e + Step(side))
    /\ UNCHANGED <<input, mark, specifier, holes, hole, entered, depth, at>>

\* LB1, RB1: the hole is split in two at the brackets of i; the one that comes
\* first in the direction stays first.
Split(side, i, stop) ==
    LET j == PairBracket(i)
        inner == [L |-> Min({i, j}), R |-> Max({i, j})]
        outer == [boards EXCEPT ![side] = j]
        x == IF side = Lead THEN hole ELSE hole + 1
        y == IF side = Lead THEN hole + 1 ELSE hole
    IN  /\ holes' = [k \in 1 .. Len(holes) + 1 |-> IF k = x THEN inner ELSE IF k = y THEN outer
                                               ELSE IF k < hole THEN holes[k] ELSE holes[k - 1]]
        /\ hole' = x /\ boards' = inner
        /\ entered' = [stop |-> stop, x |-> x, y |-> y]
        /\ at' = "HSCH"
BracketNumbers(i, n) == LET j == PairBracket(i)
                        IN  Single(Min({i, j}), n) @@ Single(Max({i, j}), n + 1)

EnterBrackets(side) ==
    /\ at = side /\ Within(Near(side)) /\ IsBracket(Near(side))
    /\ ~ Enclosed(Near(side)) /\ PairBracket(Near(side)) # Near(side) + Step(side)
    /\ Split(side, Near(side), side)
    /\ Numbered(BracketNumbers(Near(side), top), 2)
    /\ UNCHANGED <<input, mark, specifier, main, remains, depth, code>>

\* An e-variable that is not known: the other end is tried.
Turn == /\ at = Lead /\ Within(Near(at)) /\ Free(Near(at))
        /\ at' = Other(at)
        /\ UNCHANGED <<input, elements, place, top, depth, code>>

\* IMPASSE
Leave == /\ holes' = [holes EXCEPT ![hole] = boards]
         /\ entered' = [NoBracket EXCEPT !.x = hole]
         /\ at' = "HSCH"
         /\ UNCHANGED <<hole, boards>>

Impasse ==
    /\ at = Other(Lead) /\ Within(Near(at)) /\ Free(Near(at))
    /\ IF Sole /\ Near(at) \notin DOMAIN mark
       THEN at' = "CE1" /\ UNCHANGED place
       ELSE Leave
    /\ UNCHANGED <<input, elements, top, depth, code>>
-----------------------------------------------------------------------------
(* Holes *)

RemoveHole == /\ holes' = RemoveAt(holes, hole)
              /\ hole' = 0 /\ entered' = NoBracket
              /\ at' = "HSCH" /\ UNCHANGED boards

Nil == /\ at = "NIL"
       /\ Emit(<<<<"NIL", "", <<>>>>>>)
       /\ RemoveHole
       /\ UNCHANGED <<input, elements, top, depth>>

\* CE2: the last variable of a hole is what the hole is.
Include ==
    /\ at = "CE1" /\ specifier[boards.L + 1] = None
    /\ LET i == boards.L + 1
       IN  /\ Emit(<<<<"CE", "", <<>>>>>> \o NotEmpty(i))
           /\ Met(i, top + 1) /\ Numbered(Double(i, top), 2)
    /\ RemoveHole
    /\ UNCHANGED <<input, mark, specifier, depth>>

\* LMAX, RMAX: all the terms that the specifier of i admits.
TakeAll(side, i) ==
    /\ Emit(<<<<"MAX", side, specifier[i]>>>> \o NotEmpty(i))
    /\ specifier' = [specifier EXCEPT ![i] = None]
    /\ Met(i, top + 1) /\ Numbered(Double(i, top), 2)
    /\ Board(side, i) /\ at' = side
    /\ UNCHANGED <<input, mark, holes, hole, entered, depth>>

IncludeAll == at = "CE1" /\ specifier[boards.L + 1] # None /\ TakeAll(Lead, boards.L + 1)

\* generate_boards_stoping_brackets(): how the boards of the hole h are set.
Boards(h) ==
    LET set == <<"SB", "", <<number[holes[h].L][2], number[holes[h].R][1]>>>>
    IN  IF entered.stop = "" THEN IF h = entered.x THEN <<>> ELSE <<set>>
        ELSE IF h = entered.x THEN <<<<"B", entered.stop, <<>>>>>>
        ELSE IF h = entered.y THEN <<<<"BY", entered.stop, <<>>>>>>
        ELSE <<<<"B", entered.stop, <<>>>>, set>>

IsEmpty(h) == holes[h].L + 1 = holes[h].R
IsClosed(h) == holes[h].L + 2 = holes[h].R /\ Free(holes[h].L + 1)
IsOpen(h) == ~ IsEmpty(h) /\ Free(holes[h].L + 1) /\ Free(holes[h].R - 1)
Postponed(h) == IsOpen(h) /\ (IsClosed(h) => remains[Name(holes[h].L + 1)] = 1)

\* HSCH, NHOLE: the first hole that leaves no choice.
Search ==
    /\ at = "HSCH" /\ \E h \in DOMAIN holes : ~ Postponed(h)
    /\ LET h == Min({h \in DOMAIN holes : ~ Postponed(h)})
       IN  /\ hole' = h /\ boards' = holes[h] /\ Emit(Boards(h))
           /\ at' = IF IsEmpty(h) THEN "NIL" ELSE IF IsClosed(h) THEN "CE1" ELSE Lead
    /\ UNCHANGED <<input, elements, holes, entered, top, depth>>

\* OE: none; the first hole is entered to open its first variable.
Enter ==
    /\ at = "HSCH" /\ holes # <<>> /\ \A h \in DOMAIN holes : Postponed(h)
    /\ hole' = 1 /\ boards' = holes[1]
    /\ at' = "OE"
    /\ LET i == holes[1][Lead] + Step(Lead)
       IN  IF i \in DOMAIN mark
           THEN /\ Emit(Boards(1) \o <<<<"EOE", "", depth - mark[i]>>>>)
                /\ depth' = mark[i]
                /\ mark' = [k \in DOMAIN mark \ {i} |-> mark[k]]
           ELSE Emit(Boards(1)) /\ UNCHANGED <<depth, mark>>
    /\ UNCHANGED <<input, number, specifier, main, remains, holes, entered, top>>
-----------------------------------------------------------------------------
(* An e-variable is opened *)

Inside == boards.L + 1 .. boards.R - 1

\* OE0: when a hole holds nothing but variables that occur nowhere else, the last
\* one is as long as its specifier lets it be.
Greedy ==
    LET last == Near(Other(Lead))
    IN  /\ specifier[last] # None
        /\ \A i \in Inside : Free(i) /\ remains[Name(i)] = 1 /\ (i # last => ~ pattern[i].v)

Close == /\ at = "OE" /\ Sole
         /\ at' = "CE1"
         /\ UNCHANGED <<input, elements, place, top, depth, code>>

OpenGreedy == at = "OE" /\ ~ Sole /\ Greedy /\ TakeAll(Other(Lead), Near(Other(Lead)))

\* ortogonality(): what lies strictly between two places shares no variable that
\* is not known yet with the rest of the left part.
Orthogonal(lo, hi) ==
    \A i \in lo + 1 .. hi - 1 :
        Variable(pattern[i]) /\ ~ Known(i)
        => remains[Name(i)] = Cardinality({j \in lo + 1 .. hi - 1 : Variable(pattern[j])
                                                                    /\ Name(j) = Name(i)})

\* lsg_p(), rsg_p(): the next variable of the outermost level of the hole; when all
\* that comes before it is matched once, that need not be done in another way.
NextOpen ==
    LET e == Near(Lead)
        zero(i) == Nest([k \in 1 .. boards.R - boards.L - 1 |->
                            IF (boards.L + k < i) = direction
                            THEN Type(boards.L + k) ELSE ""], "LB", "RB")
        next == {i \in Inside : i # e /\ Free(i) /\ Name(i) # Name(e) /\ zero(i)}
    IN  IF next = {} THEN 0 ELSE IF direction THEN Min(next) ELSE Max(next)

\* A mutant: the variables that the rest shares are not looked for.
MarkedFreely ==
    LET i == NextOpen
    IN  IF i # 0 /\ specifier[i] = None /\ remains[Name(i)] = 1 THEN (i :> depth) @@ mark ELSE mark

Marked ==
    LET i == NextOpen
    IN  IF i # 0 /\ specifier[i] = None /\ remains[Name(i)] = 1
           /\ (IF direction THEN Orthogonal(boards.L, i) ELSE Orthogonal(i, boards.R))
        THEN (i :> depth) @@ mark ELSE mark

Opening(e, plain, nonempty) == <<IF pattern[e].v THEN nonempty ELSE plain, Lead, <<>>>>

\* How the variable is lengthened depends on what comes behind it.
Lengthen ==
    /\ at = "OE" /\ ~ Sole /\ ~ Greedy
    /\ LET e == Near(Lead)
           i == e + Step(Lead)
           search == /\ Type(i) = "SC" /\ specifier[e] = None /\ ~ pattern[e].v
                     /\ i + Step(Lead) \in DOMAIN Marked
           direct == /\ at' = Lead /\ Board(Lead, e) /\ Met(e, top + 1)
                     /\ Numbered(Double(e, top), 2)
                     /\ UNCHANGED <<holes, hole, entered>>
       IN  /\ depth' = IF search THEN depth ELSE depth + 1
           /\ mark' = IF search THEN [k \in DOMAIN Marked \ {i + Step(Lead)} |-> Marked[k]]
                      ELSE Marked
           /\ CASE specifier[e] # None ->
                   /\ Emit(<<Opening(e, "PE", "PV"), <<"E", Lead, specifier[e]>>>>)
                   /\ direct
                [] specifier[e] = None /\ Type(i) = "SC" ->
                   /\ IF search THEN Emit(<<<<"SRCH", Lead, Name(i)>>>>)
                      ELSE Emit(<<Opening(e, "PESC", "PVSC"), <<"ESC", Lead, Name(i)>>>>)
                   /\ at' = Lead /\ Board(Lead, i) /\ Met(e, top + 1)
                   /\ Numbered(Double(e, top) @@ Single(i, top + 2), 3)
                   /\ UNCHANGED <<holes, hole, entered>>
                [] specifier[e] = None /\ IsBracket(i) ->
                   /\ Emit(<<Opening(e, "PEB", "PVB"), <<"EB", Lead, <<>>>>>>)
                   /\ Split(Lead, i, "") /\ Met(e, top + 1)
                   /\ Numbered(Double(e, top) @@ BracketNumbers(i, top + 2), 4)
                [] specifier[e] = None /\ Type(i) = "S" /\ Known(i) ->
                   /\ Emit(<<Opening(e, "PESC", "PVSC"), <<"ESD", Lead, main[Name(i)]>>>>
                              \o Checked("WSPC", i))
                   /\ at' = Lead /\ Board(Lead, i)
                   /\ main' = main @@ (Name(e) :> top + 1)
                   /\ remains' = [remains EXCEPT ![Name(e)] = @ - 1, ![Name(i)] = @ - 1]
                   /\ Numbered(Double(e, top) @@ Single(i, top + 2), 3)
                   /\ UNCHANGED <<holes, hole, entered>>
                [] OTHER ->
                   /\ Emit(<<Opening(e, "PE", "PV"), <<"E", Lead, None>>>>)
                   /\ direct
    /\ UNCHANGED <<input, specifier>>
-----------------------------------------------------------------------------
CompileLeft ==
    \/ ReadElement \/ GiveUp \/ EndOfLeftPart
    \/ \E side \in {"L", "R"} :
           \/ Empty(side) \/ Constant(side) \/ SVariable(side) \/ TermOrKnown(side)
           \/ EmptyBrackets(side) \/ ClosedBrackets(side) \/ EnterBrackets(side)
    \/ Turn \/ Impasse \/ Nil \/ Include \/ IncludeAll
    \/ Search \/ Enter
    \/ Close \/ OpenGreedy \/ Lengthen
=============================================================================
