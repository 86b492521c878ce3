------------------------------ MODULE Relations ------------------------------
(***************************************************************************)
(* Comparisons (inter/xcompare.c): of whole numbers and, lexicographically,*)
(* of expressions.  One function returns how the two compare, and six more *)
(* whether they stand in a relation; all return their argument as well.    *)
(***************************************************************************)
EXTENDS BitFunctions

CONSTANT Address(_)   \* where the function of a label is

NumberRelations == [Nrel |-> "rel", Ltn |-> "lt", Len |-> "le", Eqn |-> "eq",
                    Nen |-> "ne", Gen |-> "ge", Gtn |-> "gt"]
ExpressionRelations == [Lrel |-> "rel", Ltl |-> "lt", Lel |-> "le", Eql |-> "eq",
                        Nel |-> "ne", Gel |-> "ge", Gtl |-> "gt"]

\* -1, 0 or 1 as x is below, the same as or above y.
Sign(x, y) == IF x < y THEN -1 ELSE IF x > y THEN 1 ELSE 0

\* The order of the first of these pairs that differs, else that of the lengths.
ByPlaces(xs, ys, Order(_, _)) ==
    LET common == 1 .. Min({Len(xs), Len(ys)})
        differ == {i \in common : Order(xs[i], ys[i]) # 0}
    IN  IF differ = {} THEN Sign(Len(xs), Len(ys)) ELSE Order(xs[Min(differ)], ys[Min(differ)])

compare_big_numbers_absolute(x, y) ==
    IF Len(x.digits) # Len(y.digits) THEN Sign(Len(x.digits), Len(y.digits))
    ELSE ByPlaces(x.digits, y.digits, LAMBDA a, b : Sign(Info(a), Info(b)))

compare_big_numbers(x, y) ==
    CASE x.digits = <<>> /\ y.digits = <<>> -> 0
      [] x.negative # y.negative -> IF x.negative THEN -1 ELSE 1
      [] x.negative              -> -compare_big_numbers_absolute(x, y)
      [] OTHER                   -> compare_big_numbers_absolute(x, y)

\* Symbols compare by their tags and then by what they hold.
TagOf == [O |-> 0, F |-> 2, N |-> 4]
Held(c) == IF Tag(c) = "F" THEN Address(Info(c)) ELSE Info(c)
CompareCells(c, d) ==
    CASE Tag(c) = Tag(d) /\ Tag(c) \in {"LB", "RB"} -> 0
      [] Tag(c) # Tag(d) /\ (Tag(c) = "LB" \/ Tag(d) = "RB") -> 1
      [] Tag(c) # Tag(d) /\ (Tag(c) = "RB" \/ Tag(d) = "LB") -> -1
      [] OTHER -> IF Tag(c) = Tag(d) THEN Sign(Held(c), Held(d))
                  ELSE Sign(TagOf[Tag(c)], TagOf[Tag(d)])

compare_expressions_lexicographic(cells, others) == ByPlaces(cells, others, CompareCells)

\* rel_operate() and the symbol for '<', '=' or '>'
Result(operation, compare) ==
    LET holds == CASE operation = "lt" -> compare = -1
                   [] operation = "le" -> compare # 1
                   [] operation = "eq" -> compare = 0
                   [] operation = "ne" -> compare # 0
                   [] operation = "ge" -> compare # -1
                   [] operation = "gt" -> compare = 1
    IN  IF operation = "rel" THEN <<"O", 61 + compare>>
        ELSE <<"F", <<"library", IF holds THEN "True" ELSE "False">>>>

\* The symbol takes the place of the label of the call, in front of the argument.
ReturnBefore(symbol) == Return(Move(Put(memory, <<PA>>, <<symbol>>), PR, Before(PA), NA))

nrel_ ==
    \E f \in DOMAIN NumberRelations :
        /\ Called(f)
        /\ \/ ~TwoNumbers /\ Fail
           \/ TwoNumbers /\ ReturnBefore(Result(NumberRelations[f], compare_big_numbers(X, Y)))

lrel_ ==
    \E f \in DOMAIN ExpressionRelations :
        /\ Called(f)
        /\ \/ Tag(A1) # "LB" /\ Fail
           \/ /\ Tag(A1) = "LB"
              /\ ReturnBefore(Result(ExpressionRelations[f],
                     compare_expressions_lexicographic(Between(A1), Cells(After(Info(A1)), NA))))
=============================================================================
