------------------------------ MODULE MCMatching ------------------------------
(***************************************************************************)
(* Left parts are words over: the characters a and b, another symbol +,    *)
(* brackets, s- and w-variables s and w, e-variables x and y, a v-variable *)
(* v, an s-variable t, a w-variable u and an e-variable z with specifiers; *)
(* besides, a w-variable with any of many specifiers.                      *)
(***************************************************************************)
EXTENDS Sentences

\* a, b and 7 are characters, + is a label of a function, 5 a number.
MCTag == [t \in {"a", "b", "7", "+", "5", "("} |-> CASE t = "+" -> "F" [] t = "5" -> "N" [] t = "(" -> "B"
                                                    [] OTHER -> "O"]
MCValue == [t \in DOMAIN MCTag |-> CASE t = "a" -> 97 [] t = "b" -> 98 [] t = "7" -> 55
                                     [] t = "5" -> 5 [] OTHER -> 0]

\* Specifiers are words too: a, b, a term in brackets (*), s, o, d, l, f, w, the
\* ranges 'a'.. (r), ..'a' (k) and ..5 (n), parentheses, and calls of two others
\* (q, m).  The label of one is its text.
SpecifierElement(c) ==
    CASE c \in {"a", "b"} -> <<"SC", c>>
      [] c = "*" -> <<"B", "">> [] c = "s" -> <<"S", "">> [] c = "w" -> <<"W", "">>
      [] c = "o" -> <<"O", "">> [] c = "d" -> <<"D", "">> [] c = "l" -> <<"L", "">> [] c = "f" -> <<"F", "">>
      [] c = "r" -> <<"RC", <<97, Missing>>>>
      [] c = "k" -> <<"RC", <<Missing, 97>>>>
      [] c = "n" -> <<"RN", <<Missing, 5>>>>
      [] c = "q" -> <<"CLL", "(o)">>
      [] c = "m" -> <<"CLL", "(b*)(f)s">>
      [] c \in {"(", ")"} -> <<c, "">>
SpecifierOf(word) == [i \in DOMAIN word |-> SpecifierElement(word[i])]
MCSpecifier ==
    ("(o)" :> SpecifierOf(<<"(", "o", ")">>)) @@
    ("(b*)(f)s" :> SpecifierOf(<<"(", "b", "*", ")", "(", "f", ")", "s">>)) @@
    ("a*" :> SpecifierOf(<<"a", "*">>)) @@ ("" :> SpecifierOf(<<>>)) @@ ("a" :> SpecifierOf(<<"a">>)) @@
    ("()" :> SpecifierOf(<<"(", ")">>)) @@ ("(a)" :> SpecifierOf(<<"(", "a", ")">>)) @@
    ("ab" :> SpecifierOf(<<"a", "b">>)) @@ ("(a)o" :> SpecifierOf(<<"(", "a", ")", "o">>)) @@
    ("o(a)" :> SpecifierOf(<<"o", "(", "a", ")">>)) @@
    ("(a)(o)" :> SpecifierOf(<<"(", "a", ")", "(", "o", ")">>)) @@
    ("a(o)s" :> SpecifierOf(<<"a", "(", "o", ")", "s">>)) @@
    ("(d)l(f)" :> SpecifierOf(<<"(", "d", ")", "l", "(", "f", ")">>)) @@
    ("(m)(q)" :> SpecifierOf(<<"(", "m", ")", "(", "q", ")">>)) @@
    ("(q)o" :> SpecifierOf(<<"(", "q", ")", "o">>)) @@ ("q(a)" :> SpecifierOf(<<"q", "(", "a", ")">>)) @@
    ("m*" :> SpecifierOf(<<"m", "*">>)) @@ ("(m)" :> SpecifierOf(<<"(", "m", ")">>)) @@
    ("w(w)" :> SpecifierOf(<<"w", "(", "w", ")">>)) @@ ("fsw" :> SpecifierOf(<<"f", "s", "w">>)) @@
    ("(r)s" :> SpecifierOf(<<"(", "r", ")", "s">>)) @@ ("kn" :> SpecifierOf(<<"k", "n">>)) @@
    ("(k)r" :> SpecifierOf(<<"(", "k", ")", "r">>)) @@
    ("d(lf)n" :> SpecifierOf(<<"d", "(", "l", "f", ")", "n">>))

Element(type, name) ==
    [type |-> type, what |-> name, v |-> name = "v",
     specifier |-> CASE name \in {"t", "u"} -> "a*" [] name = "z" -> "(b*)(f)s" [] OTHER -> "none"]
\* Besides: < and >, the sign =, something that is no element (?), a variable of
\* one type with the name of one of another (S, E, W, V).
ElementsOf(word) ==
    [i \in DOMAIN word |->
        CASE word[i] \in {"a", "b", "+"} -> Element("SC", word[i])
          [] word[i] = "(" -> Element("LB", "(") [] word[i] = ")" -> Element("RB", ")")
          [] word[i] = "<" -> Element("K", "<") [] word[i] = ">" -> Element("DOT", ">")
          [] word[i] = "=" -> EQ [] word[i] = "?" -> Element("NONE", "?")
          [] word[i] \in {"s", "t"} -> Element("S", word[i])
          [] word[i] \in {"w", "u"} -> Element("W", word[i])
          [] word[i] = "S" -> Element("S", "x") [] word[i] = "W" -> Element("W", "s")
          [] word[i] = "E" -> Element("E", "s") [] word[i] = "V" -> [Element("E", "x") EXCEPT !.v = TRUE]
          [] OTHER -> Element("E", word[i])]

\* All left parts of up to two elements, those of three that hold an e-variable
\* and no specifier, and some longer ones.
Short == {word \in UNION {[1 .. n -> {"a", "+", "(", ")", "s", "w", "x", "v", "z", "t", "u"}] : n \in 0 .. 2} :
             Nested(word)}
Three == {word \in [1 .. 3 -> {"a", "(", ")", "s", "x", "y", "v"}] :
             Nested(word) /\ word[1] # "y" /\ \E i \in 1 .. 3 : word[i] = "x"}
Long == {
    <<"a", "b", "x">>, <<"x", "a", "b">>, <<"a", "b", "s">>, <<"s", "x", "s">>, <<"w", "x", "w">>,
    <<"x", "a", "y">>, <<"x", "+", "y">>, <<"v", "a", "y">>, <<"x", "a", "v">>, <<"v", "a", "v">>,
    <<"z", "y">>, <<"x", "z">>, <<"z", "v">>, <<"v", "z">>, <<"z", "a", "x">>, <<"x", "a", "z">>,
    <<"x", "s", "y">>, <<"s", "x", "s", "y">>, <<"x", "s", "y", "s">>, <<"x", "w", "y">>, <<"w", "x", "w", "y">>,
    <<"x", "x">>, <<"x", "y", "x">>, <<"x", "y", "x", "y">>, <<"x", "a", "x">>, <<"x", "a", "y", "a", "x">>,
    <<"x", "a", "y", "+", "v">>, <<"x", "s", "y", "s", "z">>, <<"x", "y", "s", "s">>,
    <<"(", "x", ")", "y">>, <<"x", "(", "y", ")">>, <<"(", "x", ")", "x">>, <<"(", "v", ")", "x">>,
    <<"x", "(", "y", ")", "v">>, <<"v", "(", "x", ")", "y">>, <<"x", "(", ")", "y">>,
    <<"(", "s", "x", ")", "y", "s">>, <<"(", "x", "s", ")", "(", "y", ")">>,
    <<"x", "(", "y", "s", ")", "z">>, <<"(", "x", "a", "y", ")", "v">>, <<"x", "(", "y", ")", "y">>,
    <<"(", "x", "y", ")", "x">>, <<"(", "x", "y", ")", "(", "y", ")">>, <<"(", "(", "x", ")", ")", "y">>,
    <<"(", "(", "x", ")", "y", ")">>, <<"x", "t", "y">>, <<"x", "u", "y", "u">>, <<"x", "(", "y", "a", "z", ")", "v">>,
    <<"x", "(", "z", "a", "y", ")", "v">>, <<"(", "z", ")", "x">> }
OneSpecifier == {<<[Element("W", "w") EXCEPT !.specifier = label]>> : label \in DOMAIN MCSpecifier}

\* Left parts that have many right parts: the elements of these, their greatest
\* number, and the arguments.
Composed ==
    (<<"s", "x", "t">> :> [of |-> {"s", "x", "t", "a"}, length |-> 3,
                           on |-> {<<"b", "a">>, <<"b", "(", "+", ")", "a", "a">>}]) @@
    (<<"(", "x", ")", "y">> :> [of |-> {"(", ")", "x", "y", "a"}, length |-> 5,
                                on |-> {<<"(", ")">>, <<"(", "b", ")", "a">>}]) @@
    (<<"(", "s", "x", ")", "y", "s">> :> [of |-> {"(", ")", "x", "y", "s"}, length |-> 4,
                                          on |-> {<<"(", "b", "a", "+", ")", "b">>, <<"(", "b", ")", "a", "b">>}]) @@
    (<<"x", "+", "v">> :> [of |-> {"x", "+", "v", "(", ")"}, length |-> 4, on |-> {<<"+", "a">>, <<"b", "b", "+", "a", "b">>}]) @@
    (<<"x", "y", "x">> :> [of |-> {"x", "y", "a"}, length |-> 4, on |-> {<<>>, <<"a", "b", "a">>}]) @@
    (<<"x", "w", "a">> :> [of |-> {"x", "w", "a", "b"}, length |-> 3, on |-> {<<"b", "(", "+", ")", "a">>, <<"a", "a">>}]) @@
    (<<"t", "z">> :> [of |-> {"(", ")", "<", ">", "+", "t"}, length |-> 3, on |-> {<<"a", "a">>}])
RightParts(c) ==
    {r \in UNION {[1 .. n -> c.of] : n \in 0 .. c.length} :
        "<" \in c.of \/ Nested(r)}
Faulty == {"(", ")", "<", ">", "?", "x", "s", "S", "E", "V", "W"}

SentenceWord == {word \o <<"=">> : word \in Short \cup Three \cup Long \cup UNION {[1 .. n -> Faulty] : n \in 1 .. 3}}
    \cup UNION {{left \o <<"=">> \o r : r \in RightParts(Composed[left])} : left \in DOMAIN Composed}
    \cup {<<"t", "z", "=">> \o r : r \in {<<"=">>, <<"b", "=", "t">>, <<">", "=">>, <<"?">>, <<"t", "?">>, <<"w">>,
                                          <<"s">>, <<"x", "=">>, <<"<", "<", "<">>, <<"<", "<", ">", ">">>,
                                          <<"(", "<", ")", ">">>, <<"<", "(", ">", ")">>, <<"(", "<", "+", ">", ")">>,
                                          <<"a", "b", "a", "b", "a">>, <<"a", "+", "b">>}}
    \cup {<<"x", "s">>, <<"(", "x">>, <<"x", "y", "z", "u", "v", "w", "=">>}
    \cup {<<"x", "s", "=", c>> : c \in {"S", "E", "V", "W"}}
MCSentence == {ElementsOf(word) : word \in SentenceWord}
                \cup {p \o ElementsOf(<<"=">>) : p \in OneSpecifier}

\* A sign = in the right part, behind what can be moved.
SentenceWithSign == {ElementsOf(<<"s", "=", "s", "=">>), ElementsOf(<<"s", "=", "a", "=">>)}

Words(cells, n) == {word \in UNION {[1 .. m -> cells] : m \in 0 .. n} : Nested(word)}
MCArgument(part) ==
    IF part \in OneSpecifier \* the left part is one term
    THEN {<<t>> : t \in DOMAIN MCTag \ {"("}} \cup {<<"(", ")">>}
    ELSE IF \E left \in DOMAIN Composed : part = ElementsOf(left)
    THEN Composed[CHOOSE left \in DOMAIN Composed : part = ElementsOf(left)].on
    ELSE Words({"a", "(", ")"}, 4) \cup Words({"a", "+", "(", ")"}, 3) \cup Words({"a", "b"}, 3)
=============================================================================
