------------------------------ MODULE Lexical -------------------------------
(***************************************************************************)
(* Functions on symbols and terms: inter/xlexical.c, xbool.c and xdelf.c,  *)
(* and on labels and their names: xchar_func.c.  Each action is a C        *)
(* function, named as there.  The cells of the call itself, '<', the label *)
(* and the numbers in front of the argument, are written over with parts   *)
(* of the result wherever they suffice.                                    *)
(***************************************************************************)
EXTENDS CFunctions, SequencesExt

Zero == 48
LetterX == 120

\* The value of a digit, one that no base has for other characters.
DigitValue(code) == CASE code \in 48 .. 57  -> code - 48
                      [] code \in 65 .. 70  -> code - 55
                      [] code \in 97 .. 102 -> code - 87
                      [] OTHER -> 99
IsDigit(c, base) == Tag(c) = "O" /\ DigitValue(Info(c)) < base
IsSign(c) == Tag(c) = "O" /\ Info(c) \in {Plus, Minus}

\* The digits of a number in a base, as the printf formats write them.
RECURSIVE Spelled(_, _)
Spelled(number, base) ==
    (IF number < base THEN <<>> ELSE Spelled(number \div base, base))
        \o <<LET d == number % base IN IF d < 10 THEN Zero + d ELSE d + 55>>
Prefix == [base \in {8, 10, 16} |->
              IF base = 8 THEN <<Zero>> ELSE IF base = 10 THEN <<>> ELSE <<Zero, LetterX>>]

\* What is left of the cells when a sign that is not alone is taken off.
Signed(cells) == Len(cells) > 1 /\ IsSign(cells[1])
Unsigned(cells) == IF Signed(cells) THEN Tail(cells) ELSE cells
Negative(cells) == Signed(cells) /\ Info(cells[1]) = Minus

numb_ ==
    /\ Called("Numb")
    /\ LET arg      == Argument
           digits   == Unsigned(arg)
           prefixed == Len(digits) > 1 /\ Is(digits[1], "O", Zero) /\ Tag(digits[2]) = "O"
           base     == IF ~prefixed THEN 10
                       ELSE IF Info(digits[2]) = LetterX THEN 16 ELSE 8
           body     == IF base = 16 THEN SubSeq(digits, 3, Len(digits)) ELSE digits
           valid    == body # <<>> /\ \A i \in DOMAIN body : IsDigit(body[i], base)
       IN  \/ /\ arg = <<>>
              /\ Return(Move(Put(memory, <<PA>>, <<<<"N", 0>>>>), PR, NR, A1))
           \/ /\ arg # <<>> /\ valid
              /\ \E number \in {FoldLeft(LAMBDA v, c : base * v + DigitValue(Info(c)), 0, body)} :
                    \/ number > MAX_NUMBER /\ Fail
                    \/ /\ number <= MAX_NUMBER
                       /\ LET first == IF Negative(arg) /\ number # 0 THEN arg[1] ELSE digits[1]
                          IN  Return(Move(Put(memory, <<digits[1]>>, <<<<"N", number>>>>),
                                          PR, Before(first), After(digits[1])))
           \/ arg # <<>> /\ ~valid /\ Fail

symb_ ==
    /\ Called("Symb")
    /\ LET arg    == Argument
           digits == Unsigned(Tail(arg))
           start  == IF Negative(Tail(arg)) THEN arg[2] ELSE digits[1]  \* sign_argument
           valid  == /\ arg # <<>> /\ Tag(A1) = "N" /\ Info(A1) \in {8, 10, 16}
                     /\ Numbers(digits)
                     /\ \A i \in 1 .. Len(digits) - 1 : Info(digits[i]) = 0
           number == IF digits = <<>> THEN 0 ELSE Info(digits[Len(digits)])
       IN  \/ ~valid /\ Fail
           \/ /\ valid
              /\ \E text \in {Prefix[Info(A1)] \o Spelled(number, Info(A1))} :
                  LET need == Len(text) + (IF number # 0 /\ Negative(Tail(arg)) THEN 1 ELSE 0)
                      have == 1 + Len(arg)
                      lack == IF need > have THEN need - have ELSE 0
                  IN  \/ number = 0 /\ Using(NR, lack, LAMBDA m :
                            \E cells \in {Following(m.heap, NR, Len(text))} :
                                Return(Move(Put(m, cells, Chars(text)), PR, NR,
                                            m.heap.next[cells[Len(text)]])))
                      \/ number # 0 /\ Using(NR, lack, LAMBDA m :
                            \E n \in {Move(m, Before(NA), NR, start)} :
                            \E cells \in {Following(n.heap, n.heap.previous[digits[1]], Len(text))} :
                                Return(Move(Put(n, cells, Chars(text)), PR,
                                            n.heap.previous[start],
                                            n.heap.next[cells[Len(text)]])))

-----------------------------------------------------------------------------
\* Counting terms from either end of the argument.

\* The argument begins with a number that is at least least.
Counts(least) == Tag(A1) = "N" /\ Info(A1) >= least

\* The last cell of the count-th term behind c, NA when there are not so many.
RECURSIVE Skip(_, _)
Skip(c, count) ==
    IF count = 0 THEN c
    ELSE IF After(c) = NA THEN NA
    ELSE Skip(IF Tag(After(c)) = "LB" THEN Info(After(c)) ELSE After(c), count - 1)

\* The first cell of the count-th term from the end, A1 when there are not so many.
RECURSIVE SkipBack(_, _)
SkipBack(c, count) ==
    IF count = 0 THEN c
    ELSE IF Before(c) = A1 THEN A1
    ELSE SkipBack(IF Tag(Before(c)) = "RB" THEN Info(Before(c)) ELSE Before(c), count - 1)

\* The first, and the last, cell of the term that ends, or begins, with c.
TermFirst(c) == IF Tag(c) = "RB" THEN Info(c) ELSE c
TermLast(c) == IF Tag(c) = "LB" THEN Info(c) ELSE c

\* The label becomes '(' and the number ')'.
Bracketed == Put(memory, <<PA, A1>>, <<<<"LB", A1>>, <<"RB", PA>>>>)

first_ ==
    /\ Called("First")
    /\ \/ ~Counts(0) /\ Fail
       \/ Counts(0) /\ \E last \in {Skip(A1, Info(A1))} :
            \/ last = NA /\ Fail
            \/ last # NA /\ Return(Move(Move(Bracketed, PA, A1, After(last)), PR, NR, NA))

last_ ==
    /\ Called("Last")
    /\ \/ ~Counts(0) /\ Fail
       \/ Counts(0) /\ \E first \in {SkipBack(NA, Info(A1))} :
            \/ first = A1 /\ Fail
            \/ /\ first # A1
               /\ \E m \in {Move(Move(Bracketed, PA, Before(first), NA), PR, A1, NA)} :
                    Return(Move(m, m.heap.previous[NR], NR, NA))

left_ ==
    /\ Called("Left")
    /\ \/ ~Counts(1) /\ Fail
       \/ Counts(1) /\ \E last \in {Skip(A1, Info(A1))} :
            \/ last = NA /\ Fail
            \/ last # NA /\ Return(Move(memory, PR, Before(TermFirst(last)), After(last)))

right_ ==
    /\ Called("Right")
    /\ \/ ~Counts(1) /\ Fail
       \/ Counts(1) /\ \E first \in {SkipBack(NA, Info(A1))} :
            \/ first = A1 /\ Fail
            \/ first # A1 /\ Return(Move(memory, PR, Before(first), After(TermLast(first))))

del_left_ ==
    /\ Called("Del_left")
    /\ \/ ~Counts(1) /\ Fail
       \/ Counts(1) /\ \E last \in {Skip(A1, Info(A1))} :
            \/ last = NA /\ Fail
            \/ last # NA /\ Return(Move(Release(memory, Before(TermFirst(last)), After(last)),
                                        PR, A1, NA))

del_right_ ==
    /\ Called("Del_right")
    /\ \/ ~Counts(1) /\ Fail
       \/ Counts(1) /\ \E first \in {SkipBack(NA, Info(A1))} :
            \/ first = A1 /\ Fail
            \/ first # A1 /\ Return(Move(Release(memory, Before(first), After(TermLast(first))),
                                         PR, A1, NA))

\* The first and the last cell of each term from c to the end of the argument.
RECURSIVE TermsFrom(_)
TermsFrom(c) == IF c = NA THEN <<>> ELSE <<<<c, TermLast(c)>>>> \o TermsFrom(After(TermLast(c)))
Terms == TermsFrom(A1)

\* A number that may be too large for a macrodigit, in front of the argument.
ReturnLength(length) ==
    IF length <= MAX_LENGTH
    THEN Return(Move(Put(memory, <<PA>>, <<<<"N", length>>>>), PR, NR, NA))
    ELSE Using(PA, 3, LAMBDA m : \E new \in {Following(m.heap, PA, 3)} :
             Return(Move(Put(m, <<PA>> \o new, << <<"LB", new[3]>>,
                                 <<"N", length \div (MAX_LENGTH + 1)>>,
                                 <<"N", length % (MAX_LENGTH + 1)>>, <<"RB", PA>> >>),
                         PR, NR, NA)))

length_ == Called("Length") /\ ReturnLength(Len(Argument))
lengthw_ == Called("Lengthw") /\ ReturnLength(Len(Terms))

-----------------------------------------------------------------------------
\* Copies.

\* copy_expression(): the cells are copied into the first free ones; a list that
\* ends too soon keeps what has been written.
RECURSIVE Copied(_, _, _, _, _)
Copied(m, where, cells, done, brackets) ==
    LET free == m.heap.next[IF done = <<>> THEN FreeHead ELSE done[Len(done)]]
        c    == Head(cells)
        open == brackets[Len(brackets)]
    IN  IF cells = <<>>
        THEN [full |-> TRUE,
              m |-> [m EXCEPT !.heap = InsertFromFreeMemory(@, FreeHead, where, done[Len(done)])]]
        ELSE IF free = FreeHead THEN [full |-> FALSE, m |-> m]
        ELSE CASE Tag(c) = "LB" -> Copied(m, where, Tail(cells), Append(done, free),
                                          Append(brackets, free))
               [] Tag(c) = "RB" -> Copied(Put(m, <<free, open>>, <<<<"RB", open>>, <<"LB", free>>>>),
                                          where, Tail(cells), Append(done, free), Front(brackets))
               [] OTHER -> Copied(Put(m, <<free>>, <<<<Tag(c), Info(c)>>>>),
                                  where, Tail(cells), Append(done, free), brackets)

\* Multe's copies of a long argument, each in front of '<'.
RECURSIVE Multiplied(_, _, _)
Multiplied(m, cells, number) ==
    IF number = 0 THEN Return(m)
    ELSE \E copy \in {Copied(m, m.heap.previous[NR], cells, <<>>, <<>>)} :
            IF copy.full THEN Multiplied(copy.m, cells, number - 1) ELSE LackWith(copy.m, outside)

multe_ ==
    /\ Called("Multe")
    /\ LET arg == Argument
       IN  \/ ~Counts(0) /\ Fail
           \/ Counts(0) /\ (Info(A1) = 0 \/ Len(arg) = 1) /\ Return(memory)
           \/ Counts(1) /\ Len(arg) > 2 /\ Multiplied(memory, Tail(arg), Info(A1))
           \/ /\ Counts(1) /\ Len(arg) = 2
              /\ LET more == IF Info(A1) > 3 THEN Info(A1) - 3 ELSE 0
                 IN  Using(NR, more, LAMBDA m : \E cells \in {Following(m.heap, NR, Info(A1))} :
                        Return(Move(Put(m, cells, [i \in DOMAIN cells |-> m.cell[arg[2]]]),
                                    PR, NR, m.heap.next[cells[Info(A1)]])))

-----------------------------------------------------------------------------
\* Functions that go over all cells of the argument.

\* Each symbol of the tag from is replaced and the argument is the result.
EachSymbol(from, To(_)) ==
    LET cells == SelectSeq(Argument, LAMBDA c : Tag(c) = from)
    IN  Return(Move(Put(memory, cells, [i \in DOMAIN cells |-> To(Info(cells[i]))]), PR, PA, NA))

\* The number is read after the cell has been cleared.
chr_ == Called("Chr") /\ EachSymbol("N", LAMBDA number : <<"O", 0>>)
ord_ == Called("Ord") /\ EachSymbol("O", LAMBDA code : <<"N", code>>)
upper_ == Called("Upper") /\ EachSymbol("O", LAMBDA code :
                                <<"O", IF code \in 97 .. 122 THEN code - 32 ELSE code>>)
lower_ == Called("Lower") /\ EachSymbol("O", LAMBDA code :
                                <<"O", IF code \in 65 .. 90 THEN code + 32 ELSE code>>)

empty_ == Called("Empty") /\ Return(memory)

unbrackets_ ==
    /\ Called("Unbrackets")
    /\ LET single == Tag(A1) = "LB" /\ After(Info(A1)) = NA
       IN  \/ ~single /\ Fail
           \/ single /\ Return(Move(memory, PR, A1, Info(A1)))

\* The pointers of every cell are exchanged, and the tags of brackets.
reverse_ ==
    /\ Called("Reverse")
    /\ LET cells    == ToSet(Argument)
           turned   == [next |-> [c \in cells |-> Before(c)] @@ memory.heap.next,
                        previous |-> [c \in cells |-> After(c)] @@ memory.heap.previous]
           brackets == SelectSeq(Argument, LAMBDA c : Tag(c) \in {"LB", "RB"})
           other(c) == <<IF Tag(c) = "LB" THEN "RB" ELSE "LB", Info(c)>>
       IN  \/ cells = {} /\ Return(memory)
           \/ /\ cells # {}
              /\ \E m \in {Put([memory EXCEPT !.heap = Link(Link(turned, PA, Before(NA)), A1, NA)],
                               brackets, [i \in DOMAIN brackets |-> other(brackets[i])])} :
                    Return(Move(m, PR, PA, NA))

\* Each term is linked in front of the one before it.
reversew_ ==
    /\ Called("Reversew")
    /\ \E terms \in {Terms} :
       LET n == Len(terms)
           linked == FoldLeft(LAMBDA h, i : Link(h, terms[i + 1][2], terms[i][1]), memory.heap,
                              [i \in 1 .. n - 1 |-> i])
       IN  \/ n = 0 /\ Return(memory)
           \/ n # 0 /\ Return(Move([memory EXCEPT !.heap = Link(Link(linked, PA, terms[n][1]),
                                                                terms[1][2], NA)], PR, PA, NA))

-----------------------------------------------------------------------------
\* Truth values: the label of the call becomes the answer and stays in front.

Truth(b) == <<"F", <<"library", IF b THEN "True" ELSE "False">>>>
ReturnTruth(b) == Return(Move(Put(memory, <<PA>>, <<Truth(b)>>), PR, NR, NA))

\* find_duplicate(): the same symbols and brackets follow other, up to the end of term.
Duplicate(term, other) ==
    LET x == Cells(term[1], After(term[2]))
        y == Following(memory.heap, Before(other), Len(x))
    IN  \A i \in DOMAIN x : /\ Tag(x[i]) = Tag(y[i])
                            /\ Tag(x[i]) \in {"LB", "RB"} \/ Info(x[i]) = Info(y[i])

existw_ ==
    /\ Called("Existw")
    /\ \/ A1 = NA /\ Fail
       \/ A1 # NA /\ \E terms \in {Terms} :
            ReturnTruth(\E i \in 2 .. Len(terms) : Duplicate(terms[1], terms[i][1]))

\* read_big_number_expression(): sign, digits behind the leading zeros.
Stripped(cells) ==
    SubSeq(cells, Min({i \in DOMAIN cells : ~Is(cells[i], "N", 0)} \cup {Len(cells) + 1}), Len(cells))
Big(cells) == LET digits == IF cells # <<>> /\ IsSign(cells[1]) THEN Tail(cells) ELSE cells
              IN  [negative |-> cells # <<>> /\ Is(cells[1], "O", Minus),
                   digits   |-> Stripped(digits),
                   ok       |-> Numbers(digits) /\ (digits # <<>> \/ cells = <<>>)]

\* compare_big_numbers() finds no difference.
SameNumber(x, y) == /\ Values(x.digits) = Values(y.digits)
                    /\ x.negative = y.negative \/ x.digits = <<>>

existn_ ==
    /\ Called("Existn")
    /\ \E numbers \in {[i \in DOMAIN Terms |-> Terms[i][1]]} :
       LET big(i) == Big(Between(numbers[i]))
           valid  == /\ numbers # <<>>
                     /\ \A i \in DOMAIN numbers : Tag(numbers[i]) = "LB" /\ big(i).ok
       IN  \/ ~valid /\ Fail
           \/ valid /\ ReturnTruth(\E i \in 2 .. Len(numbers) : SameNumber(big(1), big(i)))

-----------------------------------------------------------------------------
\* Delf deletes the calls that come next, up to one that '#' follows.

NextCall(d) == Info(Info(d))   \* the '>' of the call that is next after the one of d

\* The first '>' after d whose next cell holds a '#', NULL when there is none.
RECURSIVE Marked(_)
Marked(d) == IF NextCall(d) = NULL THEN NULL
             ELSE IF InfoChar(After(NextCall(d))) = Sharp THEN NextCall(d)
             ELSE Marked(NextCall(d))

\* The calls from that of d to that of marked go to the free list, with the '#'.
RECURSIVE Deleted(_, _, _)
Deleted(m, d, marked) ==
    IF d = marked THEN Release(m, m.heap.previous[Info(d)], After(After(marked)))
    ELSE Deleted(Release(m, m.heap.previous[Info(d)], m.heap.next[d]), NextCall(d), marked)

\* A faulty Delf: the call it stands for is still the next one.
delf_unchained ==
    /\ Called("Delf")
    /\ IF A1 # NA \/ Marked(NA) = NULL THEN Fail
       ELSE Return(Deleted(memory, NextCall(NA), Marked(NA)))

delf_ ==
    /\ Called("Delf")
    /\ \/ A1 # NA /\ Fail
       \/ A1 = NA /\ \E marked \in {Marked(NA)} :
            \/ marked = NULL /\ Stop(outside)
            \/ /\ marked # NULL
               /\ Return(Put(Deleted(memory, NextCall(NA), marked),
                             <<NR>>, <<<<"K", NextCall(marked)>>>>))
-----------------------------------------------------------------------------
(* Labels and their names.  A label is the pair of the one who made it and *)
(* its name: "library" for the functions of the library, another string    *)
(* for the functions of a program, "made" for the labels that Chartof      *)
(* creates.  outside.labels, the functions_table of the code, keeps the    *)
(* labels that Functab has registered and those that Chartof has made,     *)
(* oldest first.                                                           *)

OneLabel == After(A1) = NA /\ Tag(A1) = "F"
UpperCase(code) == IF code \in 97 .. 122 THEN code - 32 ELSE code   \* toupper()

ftochar_ ==
    /\ Called("Ftochar")
    /\ \/ ~OneLabel /\ Fail
       \/ /\ OneLabel
          /\ LET name == Info(A1)[2]
                 more == IF Len(name) > 2 THEN Len(name) - 2 ELSE 0
             IN  Using(NR, more, LAMBDA m : \E cells \in {Following(m.heap, NR, Len(name))} :
                    Return(Move(Put(m, cells, Chars(name)), PR, NR,
                                m.heap.next[cells[Len(name)]])))

functab_ ==
    /\ Called("Functab")
    /\ \/ ~OneLabel /\ Fail
       \/ /\ OneLabel
          /\ ReturnWith(memory, IF Contains(outside.labels, Info(A1)) THEN outside
                                ELSE [outside EXCEPT !.labels = Append(@, Info(A1))])

\* The first label of the table that has the name, or a new one behind the others.
chartof_ ==
    /\ Called("Chartof")
    /\ LET arg   == Argument
           valid == /\ arg # <<>> /\ Len(arg) <= UINT8_MAX
                    /\ \A i \in DOMAIN arg : Tag(arg[i]) = "O"
           name  == [i \in DOMAIN arg |-> UpperCase(Info(arg[i]))]
           found == SelectSeq(outside.labels, LAMBDA label : label[2] = name)
           label == IF found = <<>> THEN <<"made", name>> ELSE found[1]
       IN  \/ ~valid /\ Fail
           \/ valid /\ ReturnWith(Move(Put(memory, <<PA>>, <<<<"F", label>>>>), PR, NR, A1),
                                  IF found # <<>> THEN outside
                                  ELSE [outside EXCEPT !.labels = Append(@, label)])
=============================================================================
