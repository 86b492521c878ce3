----------------------------- MODULE MCRightPart -----------------------------
(***************************************************************************)
(* Two scenes with a box that holds one symbol and an empty one.  In the   *)
(* first the leading term of <F0 <F (X) Y>> is <F (X) Y>; the parts of the *)
(* argument that are moved or copied are (X), X, (X) Y and the empty one   *)
(* between ) and Y.  In the second the view field is <F> and nothing else. *)
(* The free cells hold what they were last used for.                       *)
(***************************************************************************)
EXTENDS RightPart, TLC

CONSTANTS k1, f1, k, f, l, x, r, y, d, d1,  \* <F0 <F (X) Y>>
          v, b, z, b1, h, e1, e2, e3, e4,   \* the view head, the boxes, a symbol, free cells
          fun, sym

MCCell == {k1, f1, k, f, l, x, r, y, d, d1, v, b, z, b1, h, e1, e2, e3, e4}
MCTag == [c \in MCCell |-> CASE c \in {k1, k} -> "K" [] c \in {d1, d, e1} -> "D"
                             [] c = l -> "LB" [] c \in {r, e2} -> "RB"
                             [] c \in {f1, f} -> "F" [] OTHER -> "O"]
MCCode == [c \in MCCell |-> CASE c = d1 -> k1 [] c = d -> k [] c = k -> d1 [] c = k1 -> Null
                              [] c = l -> r [] c = r -> l [] c = e1 -> k1 [] c = e2 -> l
                              [] OTHER -> IF c \in {f1, f} THEN fun ELSE sym]

Nested == [field |-> <<v, k1, f1, k, f, l, x, r, y, d, d1>>, argument |-> <<f, l, x, r, y>>,
           boxes |-> {<<b, z>>, <<b1>>}, free |-> <<h, e1, e2, e3, e4>>,
           tag |-> MCTag, code |-> MCCode,
           variables |-> {<<l, r>>, <<x, x>>, <<l, y>>, <<y, r>>}]
Alone == [Nested EXCEPT !.field = <<v, k, f, d>>, !.argument = <<f>>,
                        !.code[k] = Null, !.variables = {<<f, k>>}]
MCScenes == {Nested, Alone}
MCSymbol == {[tag |-> "O", code |-> sym], [tag |-> "F", code |-> fun]}
=============================================================================
