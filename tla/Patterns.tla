------------------------------- MODULE Patterns -------------------------------
(***************************************************************************)
(* What a left part means: section 1.4 of docs/R_1.md, an argument is a    *)
(* special case of the left part, section 1.6, which of several ways to    *)
(* see it as one is taken, and section 1.7, what a specifier admits.       *)
(* A left part is a sequence of elements, an argument a sequence of cells: *)
(* symbols and structure brackets.  To a specifier a term is a symbol, or  *)
(* "(" for any expression in brackets.                                     *)
(***************************************************************************)
EXTENDS Integers, Sequences, FiniteSetsExt

CONSTANTS Tag,          \* of each term: "O" a character, "F", "N", "R" or "B" in brackets
          Value,        \* of each term: the code of a character, the value of a number
          Specifier,    \* for each label the specifier as it is written: a sequence of
                        \* <<name, operand>>; parentheses are elements too
          None          \* instead of a label

Missing == -1           \* the bound of a range that is not written
-----------------------------------------------------------------------------
Term == DOMAIN Tag

Elementary(name, operand) ==
    LET tagged(tag) == {t \in Term : Tag[t] = tag}
        between(lo, hi) == {t \in Term : (lo = Missing \/ lo <= Value[t]) /\ (hi = Missing \/ Value[t] <= hi)}
    IN  CASE name = "W" -> Term
          [] name = "S" -> Term \ tagged("B")
          [] name = "SC" -> {operand}
          [] name = "D" -> tagged("O") \cap between(48, 57)
          [] name = "L" -> tagged("O") \cap (between(65, 90) \cup between(97, 122))
          [] name = "RC" -> tagged("O") \cap between(operand[1], operand[2])
          [] name = "RN" -> tagged("N") \cap between(operand[1], operand[2])
          [] OTHER -> tagged(name)

\* What the specifier admits from its ith element on: P1 (Q1) P2 ... admits P1 and,
\* of what P2 ... admits, all but Q1; if it ends with a parenthesis, P0 is all.
Suffix[label \in DOMAIN Specifier, i \in Nat] ==
    LET s == Specifier[label]
        Set(k) == IF s[k][1] = "CLL" THEN Suffix[s[k][2], 1] ELSE Elementary(s[k][1], s[k][2])
    IN  IF i > Len(s) THEN IF s # <<>> /\ s[Len(s)][1] = ")" THEN Term ELSE {}
        ELSE IF s[i][1] = "("
        THEN LET j == Min({k \in i .. Len(s) : s[k][1] = ")"})
             IN  Suffix[label, j + 1] \ UNION {Set(k) : k \in i + 1 .. j - 1}
        ELSE Set(i) \cup Suffix[label, i + 1]
Means == [label \in DOMAIN Specifier |-> Suffix[label, 1]]
-----------------------------------------------------------------------------

Cut(w, i, j) == SubSeq(w, i + 1, j)

\* The brackets of w, told by opens and closes, nest.
Nest(w, opens, closes) ==
    LET depth[i \in 0 .. Len(w)] ==
            IF i = 0 THEN 0
            ELSE IF w[i] = opens THEN depth[i - 1] + 1
            ELSE IF w[i] = closes THEN depth[i - 1] - 1
            ELSE depth[i - 1]
    IN  depth[Len(w)] = 0 /\ \A i \in DOMAIN w : depth[i] >= 0

Nested(w) == Nest(w, "(", ")")

\* The other bracket of the one at i.
Partner(w, i) ==
    IF w[i] = "("
    THEN CHOOSE j \in i + 1 .. Len(w) :
            Nested(Cut(w, i - 1, j)) /\ \A k \in i + 1 .. j - 1 : ~ Nested(Cut(w, i - 1, k))
    ELSE CHOOSE j \in 1 .. i - 1 :
            Nested(Cut(w, j - 1, i)) /\ \A k \in j + 1 .. i - 1 : ~ Nested(Cut(w, k - 1, i))

\* A symbol, or an expression in structure brackets.
IsTerm(w) == w # <<>> /\ Nested(w) /\ \A k \in 1 .. Len(w) - 1 : ~ Nested(Cut(w, 0, k))

\* The places where the terms of the outermost level of w begin.
Terms(w) == {i \in DOMAIN w : w[i] # ")" /\ Nested(Cut(w, 0, i - 1))}

\* An element of a left part: its type is "SC", "LB", "RB", "S", "W" or "E", what
\* is the constant or the name of the variable; v tells a v-variable from an
\* e-variable; a specifier is None or a label.
Variable(e) == e.type \in {"S", "W", "E"}

Admits(label, w) == label # None => \A i \in Terms(w) : w[i] \in Means[label]

\* The element e may stand for the cells w.
Admissible(e, w) ==
    CASE e.type = "SC" -> w = <<e.what>>
      [] e.type = "LB" -> w = <<"(">>
      [] e.type = "RB" -> w = <<")">>
      [] e.type = "S"  -> Len(w) = 1 /\ IsTerm(w) /\ Admits(e.specifier, w)
      [] e.type = "W"  -> IsTerm(w) /\ Admits(e.specifier, w)
      [] e.type = "E"  -> /\ Nested(w) /\ Admits(e.specifier, w)
                          /\ e.v => w # <<>>

\* The ways to see the argument as a special case of the first i elements: the
\* ends of their values, behind the one of a void element in front.
Ways(pattern, argument) ==
    LET value(c, i) == Cut(argument, c[i], c[i + 1])
        Fits(c, i) == /\ Admissible(pattern[i], value(c, i))
                      /\ \A j \in 1 .. i - 1 :
                            Variable(pattern[i]) /\ Variable(pattern[j])
                            /\ pattern[j].what = pattern[i].what => value(c, j) = value(c, i)
        fitting[i \in 0 .. Len(pattern)] ==
            IF i = 0 THEN {<<0>>}
            ELSE {c \in UNION {{Append(c, end) : end \in c[i] .. Len(argument)} : c \in fitting[i - 1]} :
                     Fits(c, i)}
    IN  {c \in fitting[Len(pattern)] : c[Len(c)] = Len(argument)}

\* From left to right the first variable from the left is as short as it can be,
\* then the second one; from right to left the first one from the right.
Before(c, d, direction) ==
    \E k \in DOMAIN c : IF direction
                        THEN c[k] < d[k] /\ \A j \in 1 .. k - 1 : c[j] = d[j]
                        ELSE c[k] > d[k] /\ \A j \in k + 1 .. Len(c) : c[j] = d[j]

FirstWay(ways, direction) ==
    CHOOSE c \in ways : \A d \in ways \ {c} : Before(c, d, direction)
=============================================================================
