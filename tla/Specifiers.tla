------------------------------ MODULE Specifiers ------------------------------
(***************************************************************************)
(* The code of specifiers: compile_specifer() of comp/compiler.c writes it *)
(* and specifier_interpretator() of inter/interpreter.c runs it on a term. *)
(* The code stands at a label; an operator is <<name, operand>>.           *)
(***************************************************************************)
EXTENDS Patterns

CONSTANT MAX_NUMBER     \* the greatest macrodigit

\* compile_range()
Bounded(name, range) ==
    <<IF range[1] = Missing THEN 0 ELSE range[1],
      IF range[2] = Missing THEN IF name = "RC" THEN 255 ELSE MAX_NUMBER ELSE range[2]>>

\* A parenthesis turns the sign; ")(" turns it twice and is left out, like a ")" at
\* the end; there stands NGW.
Compiled(s) ==
    LET Is(i, parenthesis) == i \in DOMAIN s /\ s[i][1] = parenthesis
        Written(i) == CASE Is(i, "(") -> <<IF Is(i - 1, ")") THEN "" ELSE "NG", "">>
                        [] Is(i, ")") -> <<IF Is(i + 1, "(") \/ i = Len(s) THEN "" ELSE "NG", "">>
                        [] s[i][1] \in {"RC", "RN"} -> <<s[i][1], Bounded(s[i][1], s[i][2])>>
                        [] OTHER -> s[i]
    IN  SelectSeq([i \in DOMAIN s |-> Written(i)], LAMBDA operator : operator[1] # "")
            \o <<<<"NGW", "">>>>

Code == [label \in DOMAIN Specifier |-> Compiled(Specifier[label])]

\* SPCSC to SPCRC: the term passes the test of an operator.
Passes(t, name, operand) ==
    CASE name = "W" -> TRUE
      [] name = "SC" -> t = operand
      [] name = "S" -> Tag[t] # "B"
      [] name \in {"B", "F", "N", "R", "O"} -> Tag[t] = name
      [] name = "D" -> Tag[t] = "O" /\ Value[t] \in 48 .. 57
      [] name = "L" -> Tag[t] = "O" /\ Value[t] \in 65 .. 90 \cup 97 .. 122
      [] name = "RN" -> Tag[t] = "N" /\ Value[t] >= operand[1] /\ Value[t] <= operand[2]
      [] name = "RC" -> Tag[t] = "O" /\ Value[t] >= operand[1] /\ Value[t] <= operand[2]

\* Runs the code of the label from a place with a sign.  The stack of calls is the
\* recursion: one that says no goes on behind itself, one that says yes is as a
\* test passed.
Accepts(label, t) ==
    LET yes[of \in DOMAIN Specifier, at \in Nat, plus \in BOOLEAN] ==
            LET operator == Code[of][at]
            IN  CASE operator[1] = "NG" -> yes[of, at + 1, ~ plus]
                  [] operator[1] = "NGW" -> ~ plus
                  [] OTHER -> IF (IF operator[1] = "CLL" THEN yes[operator[2], 1, TRUE]
                                  ELSE Passes(t, operator[1], operator[2]))
                              THEN plus ELSE yes[of, at + 1, plus]
    IN  yes[label, 1, TRUE]
=============================================================================
