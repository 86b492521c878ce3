------------------------------ MODULE RightSide ------------------------------
(***************************************************************************)
(* What the right side of a sentence means: the result is written from     *)
(* left to right, brackets nest, and at the end it stands in place of the  *)
(* leading term, all at once; a step that is abandoned has changed nothing.*)
(***************************************************************************)
EXTENDS Sequences, Naturals

CONSTANTS Symbol,       \* the symbols a right side can write
          Expression    \* the parts of the argument that its variables stand for

VARIABLES before, after,\* the view field on both sides of the leading term
          field,        \* the view field
          box,          \* the contents of each box
          built         \* the result so far

Bracket(t) == [tag |-> t, code |-> "none"]
Opening == Bracket("opening")
Open(b) == {i \in DOMAIN b : b[i] = Opening}

\* What is written at once: a symbol, an opening bracket, an opening bracket and
\* the label of the function behind it, the value of a variable.
Phrase == {<<s>> : s \in Symbol} \cup {<<Opening>>}
            \cup {<<Opening, s>> : s \in Symbol} \cup Expression

\* The innermost opening bracket gets its kind when it is closed.
Closed(b, left, right) ==
    LET innermost == CHOOSE i \in Open(b) : \A j \in Open(b) : j <= i
    IN  Append([b EXCEPT ![innermost] = Bracket(left)], Bracket(right))

Build == LET old == built
         IN  /\ built' \in {old \o e : e \in Phrase}
                     \cup (IF Open(old) = {} THEN {}
                           ELSE {Closed(old, "LB", "RB"), Closed(old, "K", "D")})
             /\ UNCHANGED <<field, box>>

Replace == /\ Open(built) = {}
           /\ field' = before \o built \o after
           /\ built' = <<>> /\ UNCHANGED box

Abandon == built' = <<>> /\ UNCHANGED <<field, box>>

\* A box is called: its contents and the argument change places.
Exchange == /\ built = <<>>
            /\ \E b \in DOMAIN box, e \in Expression :
                   /\ field' = before \o box[b] \o after
                   /\ box' = [box EXCEPT ![b] = e]
            /\ UNCHANGED built

Next == (Build \/ Abandon \/ Replace \/ Exchange) /\ UNCHANGED <<before, after>>

Spec == built = <<>> /\ [][Next]_<<before, after, field, box, built>>
=============================================================================
