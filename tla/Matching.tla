------------------------------- MODULE Matching -------------------------------
(***************************************************************************)
(* The recognition of an argument: the operators from SJUMP to EOR of      *)
(* refal_run() in inter/interpreter.c.  The boards close in on a hole, the *)
(* cells found go into the table of elements, and FAIL goes back to the    *)
(* last entry of the jump stack, which holds the boards and the length of  *)
(* the table of that time but not what was in the table.                   *)
(* Cells are numbered: <, the label of the function, the argument, >.      *)
(***************************************************************************)
EXTENDS RightCode

CONSTANT Argument(_)    \* the arguments of a left part

VARIABLES
    argument, last,     \* last: it is the last sentence of its function
    board,              \* left_board_hole, right_board_hole
    table,              \* table_elements
    element,            \* number_element
    stack, pointer,     \* jump_stack, jump_stack_pointer
    pc,                 \* virtual_program_counter
    verdict             \* "none", "run", "fits", "next" sentence, "impossible";
                        \* for the right part "builds", "done"

machine == <<board, table, element, stack, pointer, pc, verdict>>
compiled == <<compiling, right>>

Sign == Len(argument) + 3               \* the cell of >
Content(p) == argument[p - 2]
Bracket(p) == Content(p) \in {"(", ")"}
\* What the info of a bracket points to.
Jumped(p) == IF Bracket(p) THEN Partner(argument, p - 2) + 2 ELSE p

Operator == code[pc][1]
Side == code[pc][2]
Operand == code[pc][3]

Begin ==
    /\ argument = <<>> /\ last = FALSE /\ board = [L |-> 2, R |-> 3]
    /\ table = <<>> /\ element = 0 /\ stack = <<>> /\ pointer = 0
    /\ pc = 0 /\ verdict = "none"

\* A module with errors is not written.  START and SJUMP: the entry for the next
\* sentence is the first of the jump stack; the last sentence has none.
Start ==
    /\ at = "END" /\ errors = {} /\ verdict = "none"
    /\ argument' \in Argument(pattern) /\ last' \in BOOLEAN
    /\ board' = [L |-> 2, R |-> Len(argument') + 3]
    /\ table' = [i \in 1 .. top |-> CASE i = 1 -> 1 [] i = 2 -> Len(argument') + 3
                                      [] i = 3 -> 2 [] OTHER -> 0]
    /\ element' = 4
    /\ stack' = IF last' THEN <<>> ELSE <<[board |-> board', element |-> 4, pc |-> 0]>>
    /\ pointer' = Len(stack')
    /\ pc' = 1 /\ verdict' = "run"
    /\ UNCHANGED compiled

\* FAIL
Fail == /\ IF pointer = 0
           THEN verdict' = "impossible" /\ UNCHANGED <<board, element, pointer, pc>>
           ELSE LET entry == stack[pointer]
                IN  /\ board' = entry.board /\ element' = entry.element
                    /\ pc' = entry.pc /\ pointer' = pointer - 1
                    /\ verdict' = IF entry.pc = 0 THEN "next" ELSE "run"
        /\ UNCHANGED <<table, stack>>

\* The cells are written to the table from n on.
Written(n, cells) == SubSeq(table, 1, n - 1) \o cells \o SubSeq(table, n + Len(cells), Len(table))

\* An operator that succeeds adds cells to the table.
Found(b, cells) ==
    /\ board' = b
    /\ table' = Written(element, cells) /\ element' = element + Len(cells)
    /\ pc' = pc + 1
    /\ UNCHANGED <<stack, pointer, verdict>>

\* The ends of a value, the one nearer to the board of Side first, in their order.
Ends(a, b) == IF Side = "L" THEN <<a, b>> ELSE <<b, a>>
Beyond(side, p) == p + Step(side)
Shifted == Beyond(Side, board[Side])
InHole(p) == board.L < p /\ p < board.R
To(p) == [board EXCEPT ![Side] = p]
Outer(p) == IF p < Jumped(p) THEN [L |-> p, R |-> Jumped(p)] ELSE [L |-> Jumped(p), R |-> p]

\* SHIFT_LEFT_BOARD_HOLE, SHIFT_RIGHT_BOARD_HOLE: nothing can be found in an empty hole.
Runs(operators) == verdict = "run" /\ Operator \in operators

\* LSC, RSC, LSCO, RSCO, LTXT, RTXT
Constants ==
    /\ Runs({"SC", "SCO", "TXT"})
    /\ LET cells == [k \in DOMAIN Operand |-> board[Side] + k * Step(Side)]
       IN  IF \A k \in DOMAIN cells : InHole(cells[k]) /\ Content(cells[k]) = Operand[k]
           THEN Found(To(Last(cells)), cells) ELSE Fail

\* LS, RS, LSD, RSD
Symbols ==
    /\ Runs({"S", "SD"})
    /\ IF /\ InHole(Shifted)
          /\ IF Operator = "S" THEN ~ Bracket(Shifted) ELSE Content(Shifted) = Content(table[Operand])
       THEN Found(To(Shifted), <<Shifted>>) ELSE Fail

\* LW, RW
AnyTerm == /\ Runs({"W"})
           /\ IF InHole(Shifted) THEN Found(To(Jumped(Shifted)), Ends(Shifted, Jumped(Shifted)))
              ELSE Fail

\* LB, RB go into the brackets, LBY, RBY past them.
IntoBrackets ==
    /\ Runs({"B", "BY"})
    /\ IF InHole(Shifted) /\ Bracket(Shifted)
       THEN Found(IF Operator = "B" THEN Outer(Shifted) ELSE To(Jumped(Shifted)),
                  <<Outer(Shifted).L, Outer(Shifted).R>>)
       ELSE Fail

\* LBNIL, RBNIL, LBCE, RBCE
WholeBrackets ==
    /\ Runs({"BNIL", "BCE"})
    /\ LET o == Outer(Shifted)
       IN  IF InHole(Shifted) /\ Bracket(Shifted) /\ (Operator = "BNIL" => o.L + 1 = o.R)
           THEN Found(To(Jumped(Shifted)),
                      <<o.L, o.R>> \o (IF Operator = "BNIL" THEN <<>> ELSE <<o.L + 1, o.R - 1>>))
           ELSE Fail

NothingLeft == /\ Runs({"NIL"})
               /\ IF board.L + 1 = board.R THEN Found(board, <<>>) ELSE Fail

Rest == Runs({"CE"}) /\ Found(board, <<board.L + 1, board.R - 1>>)

\* LED, RED: the value of a variable once more.
Expression ==
    /\ Runs({"ED"})
    /\ LET n == table[Operand] - table[Operand - 1] + 1
           first == IF Side = "L" THEN board.L + 1 ELSE board.R - n
       IN  IF /\ n = 0 \/ (InHole(first) /\ InHole(first + n - 1))
              /\ \A k \in 0 .. n - 1 : Content(first + k) = Content(table[Operand - 1] + k)
           THEN Found(To(board[Side] + n * Step(Side)), <<first, first + n - 1>>) ELSE Fail

Something == /\ Runs({"NNIL"})
             /\ IF table[element - 1] + 1 = table[element - 2] THEN Fail ELSE Found(board, <<>>)

Saved(n) == [i \in 1 .. Max({Len(stack), pointer + 1}) |->
                IF i = pointer + 1 THEN [board |-> board, element |-> element, pc |-> n]
                ELSE stack[i]]

\* Where the registers of an operator that lengthens are kept in the table: PLE, PLESC, PLEB.
Register == CASE Operator \in {"PE", "PV"} -> IF Side = "L" THEN element + 1 ELSE element
              [] Operator \in {"PESC", "PVSC"} -> element + 2
              [] OTHER -> IF Side = "L" THEN element + 3 ELSE element + 2

\* The variable begins, or ends, at the board.
Opened(p) == LET edge == IF Side = "L" THEN element ELSE element + 1
             IN  [Written(edge, <<Shifted>>) EXCEPT ![Register] = p]

\* PLE, PRE: the entry is made before the empty value is tried.
TryEmpty ==
    /\ Runs({"PE"})
    /\ stack' = Saved(pc + 1) /\ pointer' = pointer + 1
    /\ table' = Opened(board[Side]) /\ element' = element + 2
    /\ pc' = pc + 2
    /\ UNCHANGED <<board, verdict>>

\* PLESC, PRESC, PLEB, PREB, PLV, PRV: the next operator will make the entry valid.
Prepare ==
    /\ Runs({"PESC", "PEB", "PV"})
    /\ stack' = Saved(pc + 1)
    /\ table' = Opened(board[Side]) /\ pc' = pc + 1
    /\ UNCHANGED <<board, element, pointer, verdict>>

\* PLVSC, PRVSC, PLVB, PRVB: at least one term.
PrepareTerm ==
    /\ Runs({"PVSC", "PVB"})
    /\ IF InHole(Shifted)
       THEN /\ stack' = Saved(pc + 1)
            /\ table' = Opened(Jumped(Shifted)) /\ board' = To(Jumped(Shifted)) /\ pc' = pc + 1
            /\ UNCHANGED <<element, pointer, verdict>>
       ELSE Fail

Satisfies(label, p) == label # None => Accepts(label, IF Bracket(p) THEN "(" ELSE Content(p))

\* A mutant: the new end of the variable is not written down.
LongerForgetful ==
    /\ Runs({"E"})
    /\ LET register == IF Side = "L" THEN element + 1 ELSE element
           p == Beyond(Side, table[register])
       IN  IF InHole(p) /\ Satisfies(Operand, Jumped(p))
           THEN /\ pointer' = pointer + 1
                /\ board' = To(Jumped(p)) /\ element' = element + 2
                /\ pc' = pc + 1 /\ UNCHANGED <<stack, table, verdict>>
           ELSE Fail

\* LE, RE, LESPC, RESPC: one term more.
Longer ==
    /\ Runs({"E"})
    /\ LET register == IF Side = "L" THEN element + 1 ELSE element
           p == Beyond(Side, table[register])
       IN  IF InHole(p) /\ Satisfies(Operand, Jumped(p))
           THEN /\ pointer' = pointer + 1
                /\ board' = To(Jumped(p))
                /\ table' = [table EXCEPT ![register] = Jumped(p)] /\ element' = element + 2
                /\ pc' = pc + 1 /\ UNCHANGED <<stack, verdict>>
           ELSE Fail

\* The places of the terms of the outermost level beyond p, up to the other board.
Level(p) ==
    LET reached == IF Side = "L" THEN board.R - 1 ELSE board.L + 1
    IN  {q \in 3 .. Sign - 1 :
            IF Side = "L" THEN /\ p < q /\ q <= reached
                               /\ Nested(SubSeq(argument, p - 1, q - 3))
                               /\ Content(q) # ")"
            ELSE /\ reached <= q /\ q < p
                 /\ Nested(SubSeq(argument, q - 1, p - 3))
                 /\ Content(q) # "("}
Nearest(places) == IF Side = "L" THEN Min(places) ELSE Max(places)

\* LESC, RESC, LESD, RESD: up to the next occurrence of a symbol.
UpToSymbol ==
    /\ Runs({"ESC", "ESD"})
    /\ LET symbol == IF Operator = "ESC" THEN Operand ELSE Content(table[Operand])
           found == {q \in Level(table[element + 2]) : Content(q) = symbol}
           q == Nearest(found)
           edge == IF Side = "L" THEN element + 1 ELSE element
       IN  IF found # {}
           THEN /\ pointer' = pointer + 1
                /\ board' = To(q)
                /\ table' = [table EXCEPT ![edge] = q - Step(Side), ![element + 2] = q]
                /\ element' = element + 3
                /\ pc' = pc + 1 /\ UNCHANGED <<stack, verdict>>
           ELSE Fail

\* LEB, REB: up to the next brackets, and into them.
UpToBrackets ==
    /\ Runs({"EB"})
    /\ LET register == IF Side = "L" THEN element + 3 ELSE element + 2
           found == {q \in Level(table[register]) : Bracket(q)}
           q == Nearest(found)
           edge == IF Side = "L" THEN element + 1 ELSE element
       IN  IF found # {}
           THEN /\ pointer' = pointer + 1
                /\ board' = Outer(q)
                /\ table' = [Written(element + 2, <<Outer(q).L, Outer(q).R>>)
                                EXCEPT ![edge] = q - Step(Side)]
                /\ element' = element + 4
                /\ pc' = pc + 1 /\ UNCHANGED <<stack, verdict>>
           ELSE Fail

\* LSRCH, RSRCH: the next occurrence of a symbol, once and for all.
ToSymbol ==
    /\ Runs({"SRCH"})
    /\ LET found == {q \in Level(board[Side]) : Content(q) = Operand}
           q == Nearest(found)
       IN  IF found # {} THEN Found(To(q), Ends(Shifted, q - Step(Side)) \o <<q>>) ELSE Fail

\* A mutant: EOE drops one entry however many variables it settles.
SettleOne == /\ Runs({"EOE"})
             /\ pointer' = pointer - 1 /\ pc' = pc + 1
             /\ UNCHANGED <<board, table, element, stack, verdict>>

\* EOE, EOEI: what was lengthened stays as it is.
Settle == /\ Runs({"EOE"})
          /\ pointer' = pointer - Operand /\ pc' = pc + 1
          /\ UNCHANGED <<board, table, element, stack, verdict>>

\* WSPC, ESPC
Specified ==
    /\ Runs({"WSPC", "ESPC"})
    /\ LET places == IF Operator = "WSPC" THEN {table[element - 1]}
                     ELSE {p \in table[element - 2] .. table[element - 1] :
                              Nested(SubSeq(argument, table[element - 2] - 2, p - 3)) /\ Content(p) # ")"}
       IN  IF \A p \in places : Satisfies(Operand, p) THEN Found(board, <<>>) ELSE Fail

\* LMAX, RMAX: all the terms up to the first one that the specifier does not admit.
AllAdmitted ==
    /\ Runs({"MAX"})
    /\ LET level == Level(board[Side])
           barred == {p \in level : ~ Satisfies(Operand, p)}
           end == IF barred = {} THEN board[Other(Side)] ELSE Nearest(barred)
       IN  Found(To(end - Step(Side)), Ends(Shifted, end - Step(Side)))

\* SB
SetBoards == /\ Runs({"SB"})
             /\ Found([L |-> table[Operand[1]], R |-> table[Operand[2]]], <<>>)

\* EOR: the left part fits.
Recognised == /\ Runs({"EOR"})
              /\ verdict' = "fits"
              /\ UNCHANGED <<board, table, element, stack, pointer, pc>>

Match == \/ Constants \/ Symbols \/ AnyTerm \/ IntoBrackets \/ WholeBrackets
         \/ NothingLeft \/ Rest \/ Expression \/ Something
         \/ TryEmpty \/ Prepare \/ PrepareTerm \/ Longer \/ UpToSymbol \/ UpToBrackets
         \/ ToSymbol \/ Settle \/ Specified \/ AllAdmitted \/ SetBoards \/ Recognised
-----------------------------------------------------------------------------
\* The left part fits exactly the arguments that are special cases of it, and of
\* the ways to see an argument as one the first in the chosen direction is found,
\* although most holes are filled in another order, some variables are settled
\* before the rest of the left part is looked at, and some are taken as long as
\* can be: every element has the cells it stands for, at the numbers that the
\* compiler gave to it.
FirstWayFound ==
    verdict \in {"fits", "next", "impossible"} =>
        \A ways \in {Ways(pattern, argument)} :
            IF ways = {} THEN verdict = IF last THEN "impossible" ELSE "next"
            ELSE /\ verdict = "fits"
                 /\ \A way \in {FirstWay(ways, direction)}, i \in DOMAIN pattern :
                        /\ table[number[i][1]] = way[i] + 3
                        /\ table[number[i][2]] = way[i + 1] + 2

\* The compiler counts the entries of the jump stack and of the table of elements
\* exactly: EOE drops those of the variables it settles and never the entry of the
\* next sentence.
StacksAgree ==
    verdict = "fits" => pointer = depth + (IF last THEN 0 ELSE 1) /\ element = top
=============================================================================
