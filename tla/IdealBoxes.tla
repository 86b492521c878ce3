----------------------------- MODULE IdealBoxes -----------------------------
(***************************************************************************)
(* Boxes as a Refal program sees them: memory without end and without a    *)
(* collector.  A box exists while the program can still name it, directly  *)
(* or through other boxes, and its contents change only by the calls of    *)
(* New, Gtr, Rdr, Ptr, Wtr, Swr and by the call of the box itself.         *)
(***************************************************************************)
EXTENDS Sequences, Naturals, Functions

CONSTANTS Box,      \* what symbols-references can refer to
          Static,   \* the names of static boxes
          Plain,    \* every other symbol
          NoCall    \* no functional term is being computed

VARIABLES view,     \* the symbols of the view field (and of the burial store)
          call,     \* the functional term: its function, argument and place in view
          content   \* the contents of the boxes that can be reached and of the static ones

Symbol == Box \cup Static \cup Plain
Primitive == {"New", "Gtr", "Rdr", "Ptr", "Wtr", "Swr"}

Symbols(s) == {s[i] : i \in DOMAIN s}

\* The boxes reached from a set of symbols and from the static boxes: the least
\* set that holds those named there and those named in its own members.
Reached(roots, c) ==
    LET Closed(S) == /\ roots \cap Box \subseteq S
                     /\ \A o \in S \cup Static : o \in DOMAIN c =>
                            Symbols(c[o]) \cap Box \subseteq S
    IN  {b \in Box : \A S \in SUBSET Box : Closed(S) => b \in S}

Live(v, k, c) ==
    LET named == Symbols(v) \cup (IF k = NoCall THEN {}
                                  ELSE {k.function} \cup Symbols(k.argument))
    IN  Restrict(c, Static \cup Reached(named, c))

Prefix(s, i) == SubSeq(s, 1, i)
Suffix(s, i) == SubSeq(s, i + 1, Len(s))

Init == /\ view = <<>>
        /\ call = NoCall
        /\ content = [s \in Static |-> <<>>]

\* A sentence of the program adds or takes away a symbol of the view field ...
Rewrite ==
    /\ call = NoCall
    /\ \/ \E x \in Static \cup Plain \cup Symbols(view) : view' = Append(view, x)
       \/ \E i \in DOMAIN view : view' = Prefix(view, i - 1) \o Suffix(view, i)
    /\ call' = NoCall
    /\ content' = Live(view', call', content)

\* ... or makes some of them the argument of a call.
Apply ==
    /\ call = NoCall
    /\ \E f \in Primitive \cup Static \cup (Box \cap Symbols(view)) :
       \E i \in 1 .. Len(view) + 1 : \E j \in i - 1 .. Len(view) :
          /\ call' = [function |-> f, argument |-> SubSeq(view, i, j), at |-> i - 1]
          /\ view' = Prefix(view, i - 1) \o Suffix(view, j)
    /\ content' = Live(view', call', content)

\* The call is replaced by its result, and boxes have their new contents.
Return(result, contents) ==
    /\ view' = Prefix(view, call.at) \o result \o Suffix(view, call.at)
    /\ call' = NoCall
    /\ content' = Live(view', call', contents)

New == \E b \in Box \ DOMAIN content :
    /\ call.function = "New"
    /\ Return(<<b>>, [o \in DOMAIN content \cup {b} |->
                        IF o = b THEN call.argument ELSE content[o]])

Access ==
    LET b    == call.argument[1]
        rest == Tail(call.argument)
        named == call.argument # <<>> /\ b \in Box \cup Static
    IN  \/ /\ call.function = "Gtr" /\ named /\ rest = <<>>
           /\ Return(content[b], [content EXCEPT ![b] = <<>>])
        \/ /\ call.function = "Rdr" /\ named /\ rest = <<>>
           /\ Return(content[b], content)
        \/ /\ call.function = "Ptr" /\ named
           /\ Return(<<>>, [content EXCEPT ![b] = @ \o rest])
        \/ /\ call.function = "Wtr" /\ named
           /\ Return(<<>>, [content EXCEPT ![b] = rest])
        \/ /\ call.function = "Swr" /\ named
           /\ Return(content[b], [content EXCEPT ![b] = rest])
        \/ /\ call.function \in Box \cup Static
           /\ Return(content[call.function],
                     [content EXCEPT ![call.function] = call.argument])

Next == Rewrite \/ Apply \/ (call # NoCall /\ (New \/ Access))

Spec == Init /\ [][Next]_<<view, call, content>>
=============================================================================
