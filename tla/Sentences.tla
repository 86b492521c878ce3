------------------------------- MODULE Sentences -------------------------------
(***************************************************************************)
(* A sentence from its text to its result: compiled, run on an argument,   *)
(* and the operators of its right part, from EOR to EOS of refal_run(),    *)
(* applied to the cells that the left part has found.  What they do to the *)
(* memory is in RightPart; here the result is what counts, as a sequence.  *)
(***************************************************************************)
EXTENDS Matching

VARIABLES
    result,     \* the new cells of the result
    opened,     \* last_gen_left_bracket and the chain from it
    plan,       \* transplantation_stack
    outcome     \* what takes the place of the leading term

building == <<result, opened, plan, outcome>>
vars == <<compiled, argument, last, machine, building>>

Nothing == result = <<>> /\ opened = <<>> /\ plan = <<>> /\ outcome = <<>>
-----------------------------------------------------------------------------
Builds(operators) == verdict = "builds" /\ Operator \in operators
Advance == /\ pc' = pc + 1
           /\ UNCHANGED <<compiled, argument, last, board, table, element, stack, pointer>>
More == Advance /\ UNCHANGED <<verdict, outcome>>

\* EOR
BeginResult == /\ verdict = "fits" /\ verdict' = "builds"
               /\ Advance /\ UNCHANGED building

\* The cells from first to last, one after the other.
Cells(first, end) == Cut(argument, first - 3, end - 2)

\* NS, NSO, TEXT, MULS, MULE
WriteCells ==
    /\ Builds({"NS", "NSO", "TEXT", "MULS", "MULE"})
    /\ result' = result \o CASE Operator = "MULS" -> Cells(table[Operand], table[Operand])
                             [] Operator = "MULE" -> Cells(table[Operand - 1], table[Operand])
                             [] OTHER -> Operand
    /\ UNCHANGED <<opened, plan>> /\ More

\* BL, BLF: its tag is written when it is closed.
OpenBracket ==
    /\ Builds({"BL", "BLF"})
    /\ opened' = Append(opened, Len(result) + 1)
    /\ result' = result \o <<"(">> \o (IF Operator = "BLF" THEN <<Operand>> ELSE <<>>)
    /\ UNCHANGED plan /\ More

\* BR, BRACT
CloseBracket ==
    /\ Builds({"BR", "BRACT"})
    /\ LET kind == IF Operator = "BR" THEN <<"(", ")">> ELSE <<"<", ">">>
       IN  result' = Append([result EXCEPT ![Last(opened)] = kind[1]], kind[2])
    /\ opened' = Front(opened)
    /\ UNCHANGED plan /\ More

\* BLR
EmptyPair == /\ Builds({"BLR"})
             /\ result' = result \o <<"(", ")">>
             /\ UNCHANGED <<opened, plan>> /\ More

\* TPL, TPLM, TPLE, TPLV, TPLS: what may be empty is looked at first.
PlanMove ==
    /\ Builds({"TPL", "TPLM", "TPLE", "TPLV", "TPLS"})
    /\ LET first == CASE Operator \in {"TPL", "TPLM"} -> table[Operand[1]]
                      [] Operator \in {"TPLE", "TPLV"} -> table[Operand - 1]
                      [] OTHER -> table[Operand]
           end == IF Operator \in {"TPL", "TPLM"} THEN table[Operand[2]] ELSE table[Operand]
       IN  plan' = IF Operator \in {"TPL", "TPLE"} /\ first = end + 1 THEN plan
                   ELSE Append(plan, [to |-> Len(result), first |-> first, last |-> end])
    /\ UNCHANGED <<result, opened>> /\ More

\* The places of the result: 0 for what is before it, the new cells behind those of
\* the leading term.
Place(n) == IF n = 0 THEN 0 ELSE Sign + n
Lists == INSTANCE Rings WITH Cell <- 0 .. Sign + Len(result)

\* The result and the leading term are rings at first.
Separate ==
    LET next(c) == CASE c = 0 -> IF result = <<>> THEN 0 ELSE Place(1)
                     [] c \in 1 .. Sign -> (c % Sign) + 1
                     [] OTHER -> IF c = Place(Len(result)) THEN 0 ELSE c + 1
        Ring == [c \in 0 .. Sign + Len(result) |-> next(c)]
    IN  [next |-> Ring, previous |-> [c \in DOMAIN Ring |-> CHOOSE d \in DOMAIN Ring : Ring[d] = c]]

\* The cells may stand at the place already, as others that had been moved.
Moved(h, move) ==
    LET cut == Lists!Link(h, h.previous[move.first], h.next[move.last])
    IN  Lists!Link(Lists!Link(cut, move.last, cut.next[Place(move.to)]), Place(move.to), move.first)

\* The youngest move is made first.
Transplanted == FoldRight(LAMBDA move, h : Moved(h, move), plan, Separate)

\* EOS
Replace ==
    /\ Builds({"EOS"})
    /\ LET moved == Transplanted.next
           from[n \in Nat] == IF n = 0 THEN 0 ELSE moved[from[n - 1]]
           size == Min({n \in 0 .. Sign + Len(result) : from[n + 1] = 0})
           what(c) == CASE c = 1 -> "<" [] c = 2 -> "label" [] c = Sign -> ">"
                        [] c \in 3 .. Sign - 1 -> Content(c)
                        [] OTHER -> result[c - Sign]
       IN  outcome' = [n \in 1 .. size |-> what(from[n])]
    /\ verdict' = "done"
    /\ Advance /\ UNCHANGED <<result, opened, plan>>

Build == \/ BeginResult \/ WriteCells \/ OpenBracket \/ CloseBracket \/ EmptyPair
         \/ PlanMove \/ Replace

Init == Read /\ NoRight /\ Begin /\ Nothing
CompilesLeft == CompileLeft /\ UNCHANGED <<right, argument, last, machine, building>>
CompilesRight == (Finish \/ CompileRight) /\ UNCHANGED <<argument, last, machine, building>>
Starts == Start /\ UNCHANGED building
Matches == Match /\ UNCHANGED <<compiled, argument, last, building>>

Next == CompilesLeft \/ CompilesRight \/ Starts \/ Matches \/ Build

\* The compiler and the interpreter do nothing else; what they do with a right part
\* goes on with every step and needs no assumption here.
Fairness == WF_vars(CompilesLeft) /\ WF_vars(Matches)
Spec == Init /\ [][Next]_vars /\ Fairness
-----------------------------------------------------------------------------
\* The two parts of a sentence, as they are written.
LeftOf(s) == LET n == Min({i \in DOMAIN s : s[i].type = "EQ"}) IN SubSeq(s, 1, n - 1)
RightOf(s) == SubSeq(s, Len(LeftOf(s)) + 2, Len(s))

\* The result is the right part with the value of its variables in place of them,
\* whatever of it was moved, whatever copied, and whatever was moved together with
\* elements that had been moved to another place before.
ResultIsMeant ==
    verdict = "done" =>
        \A way \in {FirstWay(Ways(pattern, argument), direction)} :
            LET Valued(name) == LET i == CHOOSE i \in DOMAIN pattern : Name(i) = name
                                IN  Cut(argument, way[i], way[i + 1])
                Meant(e) == CASE e.type = "LB" -> <<"(">> [] e.type = "RB" -> <<")">>
                              [] e.type = "K" -> <<"<">> [] e.type = "DOT" -> <<">">>
                              [] Variable(e) -> Valued(e.what)
                              [] OTHER -> <<e.what>>
            IN  outcome = FlattenSeq([i \in DOMAIN RightOf(sentence) |-> Meant(RightOf(sentence)[i])])

\* What is left of s when every bracket and sign is taken away with its pair.
Pairs == {<<"LB", "RB">>, <<"K", "DOT">>}
Unpaired(s) ==
    LET paired == SelectSeq(s, LAMBDA e : e.type \in {"LB", "RB", "K", "DOT"})
        rest[i \in 0 .. Len(paired)] ==
            IF i = 0 THEN <<>>
            ELSE IF rest[i - 1] # <<>> /\ <<Last(rest[i - 1]).type, paired[i].type>> \in Pairs
            THEN Front(rest[i - 1])
            ELSE Append(rest[i - 1], paired[i])
    IN  rest[Len(paired)]

\* Sections 1.4 and 1.5 of docs/R_1.md.
WellFormed(s) ==
    /\ \E i \in DOMAIN s : s[i].type = "EQ"
    /\ LET l == LeftOf(s)
           r == RightOf(s)
       IN  /\ \A i \in DOMAIN l : l[i].type \in {"SC", "LB", "RB", "S", "W", "E"}
           /\ \A i \in DOMAIN r : r[i].type \notin {"NONE", "EQ"}
           /\ Unpaired(l) = <<>> /\ Unpaired(r) = <<>>
           /\ \A i, j \in DOMAIN l : Variable(l[i]) /\ Variable(l[j]) /\ l[i].what = l[j].what
                                    => ~ Differs(l[i], l[j])
           /\ \A i \in DOMAIN r : Variable(r[i]) =>
                 \E j \in DOMAIN l : l[j].what = r[i].what /\ ~ Differs(l[j], r[i])

Accepted == at = "END" /\ errors = {}

\* Only what is a sentence gets code, however the runs of the right part that are
\* moved cut it; and every sentence gets it, if it is not too large.
OnlySentences ==
    at \in {"END", "stopped"} =>
        (Accepted <=> WellFormed(sentence) /\ errors \cap {305, 407} = {})

\* The compiler comes to the end of a left part, and a match ends: a variable is
\* lengthened until it is as long as the hole, and a jump stack entry is never used
\* again without something having been lengthened.
Termination == /\ at = "LPE" ~> (at = "stopped" \/ (at = "HSCH" /\ holes = <<>>))
               /\ verdict = "run" ~> verdict # "run"
=============================================================================
