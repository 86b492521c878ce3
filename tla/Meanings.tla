------------------------------ MODULE Meanings ------------------------------
(***************************************************************************)
(* What the library functions promise (docs/R_2.md), said of expressions   *)
(* and not of cells: an expression is a sequence of tokens <<tag, info>>,  *)
(* and Meaning(name, e, table) is the set that holds the result of         *)
(* <name e>, empty when the call is impossible.  Numbers are sets of bit   *)
(* positions, and an array of macrodigits one whose length is fixed.       *)
(***************************************************************************)
EXTENDS Integers, SequencesExt

CONSTANTS W, MAX_LENGTH, UINT8_MAX, Address(_)

LB == <<"LB", 0>>
RB == <<"RB", 0>>
N(n) == <<"N", n>>
Char(code) == <<"O", code>>
MinusSign == Char(45)
Signs == {Char(43), MinusSign}
NUMBER == 2 ^ W - 1

\* Level of nesting behind position i, and the terms of level zero.
Nesting(e, i) == Cardinality({j \in 1 .. i : e[j] = LB}) - Cardinality({j \in 1 .. i : e[j] = RB})
Ends(e) == SelectSeq([i \in DOMAIN e |-> i], LAMBDA i : Nesting(e, i) = 0)
Terms(e) == LET ends == Ends(e)
            IN  [t \in DOMAIN ends |-> SubSeq(e, IF t = 1 THEN 1 ELSE ends[t - 1] + 1, ends[t])]
InBrackets(e) == <<LB>> \o e \o <<RB>>
IsBracketed(e) == Len(Terms(e)) = 1 /\ e[1] = LB
Contents(e) == SubSeq(e, 2, Len(e) - 1)
AllNumbers(e) == \A i \in DOMAIN e : e[i][1] = "N"
Each(e, F(_)) == [i \in DOMAIN e |-> F(e[i])]
If(condition, result) == IF condition THEN {result} ELSE {}

-----------------------------------------------------------------------------
\* Numbers written in characters.

DigitValues == [c \in 48 .. 57 |-> c - 48] @@ [c \in 65 .. 70 |-> c - 55]
                                           @@ [c \in 97 .. 102 |-> c - 87]
IsText(e, base) ==
    e # <<>> /\ \A i \in DOMAIN e : /\ e[i][1] = "O" /\ e[i][2] \in DOMAIN DigitValues
                                    /\ DigitValues[e[i][2]] < base
TextValue(e, base) == FoldLeft(LAMBDA v, c : base * v + DigitValues[c[2]], 0, e)

Numb(e) ==
    LET signed == Len(e) > 1 /\ e[1] \in Signs
        rest   == IF signed THEN Tail(e) ELSE e
        hex    == Len(rest) > 1 /\ SubSeq(rest, 1, 2) = <<Char(48), Char(120)>>
        base   == IF hex THEN 16 ELSE IF Len(rest) > 1 /\ rest[1] = Char(48) THEN 8 ELSE 10
        text   == IF hex THEN SubSeq(rest, 3, Len(rest)) ELSE rest
        value  == TextValue(text, base)
        sign   == IF signed /\ e[1] = MinusSign /\ value # 0 THEN <<MinusSign>> ELSE <<>>
    IN  IF e = <<>> THEN {<<N(0)>>}
        ELSE IF ~IsText(text, base) THEN {}
        ELSE If(value <= NUMBER, sign \o <<N(value)>>)

Symb(e) ==
    LET rest   == Tail(e)
        signed == Len(rest) > 1 /\ rest[1] \in Signs
        number == IF signed THEN Tail(rest) ELSE rest
        value  == FoldLeft(LAMBDA v, d : (NUMBER + 1) * v + d[2], 0, number)
        base   == e[1][2]
        prefix == IF base = 8 THEN <<Char(48)>>
                  ELSE IF base = 16 THEN <<Char(48), Char(120)>> ELSE <<>>
        places == CHOOSE n \in 1 .. W : base ^ n > value /\ (n = 1 \/ base ^ (n - 1) <= value)
        digit(i) == (value \div base ^ (places - i)) % base
        sign   == IF signed /\ rest[1] = MinusSign /\ value # 0 THEN <<MinusSign>> ELSE <<>>
    IN  IF e = <<>> \/ e[1] \notin {N(8), N(10), N(16)} THEN {}
        ELSE IF ~AllNumbers(number) THEN {}
        ELSE If(value <= NUMBER,
                sign \o prefix \o [i \in 1 .. places |->
                    Char(IF digit(i) < 10 THEN 48 + digit(i) ELSE 55 + digit(i))])

-----------------------------------------------------------------------------
\* Terms.

\* The call has a number n >= least in front, and n terms behind it.
Counted(e, least, Result(_, _)) ==
    IF e = <<>> \/ e[1][1] # "N" THEN {}
    ELSE LET n == e[1][2]
             t == Terms(Tail(e))
         IN  If(n >= least /\ n <= Len(t), Result(n, t))
Part(t, first, last) == FlattenSeq(SubSeq(t, first, last))

SplitFirst(e) == Counted(e, 0, LAMBDA n, t : InBrackets(Part(t, 1, n)) \o Part(t, n + 1, Len(t)))
SplitLast(e) == Counted(e, 0, LAMBDA n, t :
               Part(t, 1, Len(t) - n) \o InBrackets(Part(t, Len(t) - n + 1, Len(t))))
Left(e) == Counted(e, 1, LAMBDA n, t : t[n])
Right(e) == Counted(e, 1, LAMBDA n, t : t[Len(t) + 1 - n])
Del_left(e) == Counted(e, 1, LAMBDA n, t : Part(t, 1, n - 1) \o Part(t, n + 1, Len(t)))
Del_right(e) == Counted(e, 1, LAMBDA n, t :
                    Part(t, 1, Len(t) - n) \o Part(t, Len(t) + 2 - n, Len(t)))

LengthTerm(n) == IF n <= MAX_LENGTH THEN <<N(n)>>
                 ELSE InBrackets(<<N(n \div (MAX_LENGTH + 1)), N(n % (MAX_LENGTH + 1))>>)

Multe(e) == IF e = <<>> \/ e[1][1] # "N" THEN {}
            ELSE {FlattenSeq([i \in 1 .. e[1][2] |-> Tail(e)])}

ToUpper(t) == IF t[1] = "O" /\ t[2] \in 97 .. 122 THEN Char(t[2] - 32) ELSE t
ToLower(t) == IF t[1] = "O" /\ t[2] \in 65 .. 90 THEN Char(t[2] + 32) ELSE t
ToChar(t) == IF t[1] = "N" THEN Char(t[2] % 256) ELSE t
ToNumber(t) == IF t[1] = "O" THEN N(t[2]) ELSE t
Mirrored(t) == IF t = LB THEN RB ELSE IF t = RB THEN LB ELSE t

Answer(b) == <<"F", <<"library", IF b THEN "True" ELSE "False">>>>
Existw(e) == LET t == Terms(e)
             IN  If(e # <<>>, <<Answer(\E i \in 2 .. Len(t) : t[i] = t[1])>> \o e)

\* The labels of the name: one that Functab has registered, else the one Chartof makes.
Registered(table, name) == SelectSeq(table, LAMBDA l : l[2] = name /\ l[1] # "made")
Chartof(e, table) ==
    LET name == Each(e, LAMBDA t : ToUpper(t)[2])
        known == Registered(table, name)
    IN  If(/\ Len(e) \in 1 .. UINT8_MAX /\ \A i \in DOMAIN e : e[i][1] = "O",
           <<<<"F", IF known = <<>> THEN <<"made", name>> ELSE known[1]>>>>)

-----------------------------------------------------------------------------
\* Bits.

\* The positions of the bits that are set in a sequence of macrodigits.
Bits(e) == {p \in 0 .. W * Len(e) - 1 : (e[Len(e) - p \div W][2] \div 2 ^ (p % W)) % 2 = 1}
Macrodigit(bits, place) == MapThenSumSet(LAMBDA b : 2 ^ b, {b \in 0 .. W - 1 : W * place + b \in bits})
\* The bits below length * W, in length macrodigits.
Array(bits, length) == [i \in 1 .. length |-> N(Macrodigit(bits, length - i))]
Number(negative, bits) ==
    IF bits = {} THEN <<N(0)>>
    ELSE (IF negative THEN <<MinusSign>> ELSE <<>>) \o Array(bits, Max(bits) \div W + 1)

SignedPart(e) == e # <<>> /\ e[1] \in Signs
Magnitude(e) == IF SignedPart(e) THEN Tail(e) ELSE e
IsNumber(e) == AllNumbers(Magnitude(e)) /\ (e = <<>> \/ Magnitude(e) # <<>>)
IsNegative(e) == SignedPart(e) /\ e[1] = MinusSign /\ Bits(Magnitude(e)) # {}
NumberBits(e) == Bits(Magnitude(e))

\* The parts of (x) y, x a number: the set of the results for a valid y.
InFront(e, Results(_, _)) ==
    LET t == Terms(e)
    IN  IF t = <<>> \/ e[1] # LB THEN {} ELSE Results(Contents(t[1]), Part(t, 2, Len(t)))
Paired(e, Result(_, _)) == InFront(e, LAMBDA x, y :
    IF IsNumber(x) /\ IsNumber(y) THEN {Result(x, y)} ELSE {})

Difference(x, y) == (x \cup y) \ (x \cap y)
Band(e) == Paired(e, LAMBDA x, y : Number(IsNegative(x) /\ IsNegative(y),
                                          NumberBits(x) \cap NumberBits(y)))
Bor(e) == Paired(e, LAMBDA x, y : Number(IsNegative(x) \/ IsNegative(y),
                                         NumberBits(x) \cup NumberBits(y)))
Bxor(e) == Paired(e, LAMBDA x, y : Number(IsNegative(x) # IsNegative(y),
                                          Difference(NumberBits(x), NumberBits(y))))
Bnot(e) ==
    LET bits  == NumberBits(e)
        digits == IF bits = {} THEN 1 ELSE Max(bits) \div W + 1
    IN  IF IsNumber(e) THEN {Number(~IsNegative(e), (0 .. W * digits - 1) \ bits)} ELSE {}

\* The value of one or two macrodigits, or of a number of any length modulo m.
Value(e) == FoldLeft(LAMBDA v, d : (NUMBER + 1) * v + d[2], 0, e)
ValueModulo(e, m) == FoldLeft(LAMBDA v, d : ((NUMBER + 1) * v + d[2]) % m, 0, e)

\* The number in brackets, moved by the places behind it.
ShiftedBy(e, Result(_, _)) == InFront(e, LAMBDA x, y :
    IF IsNumber(x) /\ Len(y) \in 1 .. 2 /\ AllNumbers(y)
    THEN {Number(IsNegative(x), Result(NumberBits(x), Value(y)))} ELSE {})
Shl(e) == ShiftedBy(e, LAMBDA bits, places : {p + places : p \in bits})
Shr(e) == ShiftedBy(e, LAMBDA bits, places : {p - places : p \in {b \in bits : b >= places}})

\* Two arrays of the same length, the first in brackets.
Arrays(e, Result(_, _)) == InFront(e, LAMBDA x, y :
    IF AllNumbers(x) /\ AllNumbers(y) /\ Len(x) = Len(y)
    THEN {Array(Result(Bits(x), Bits(y)), Len(x))} ELSE {})
Bitnot(e) == IF e # <<>> /\ AllNumbers(e)
             THEN {Array((0 .. W * Len(e) - 1) \ Bits(e), Len(e))} ELSE {}

\* An array in brackets and the signed number of places it is moved by.
MovedArray(e, Place(_, _, _)) == InFront(e, LAMBDA x, y :
    IF x # <<>> /\ AllNumbers(x) /\ IsNumber(y)
    THEN {Array({Place(p, y, W * Len(x)) : p \in Bits(x)}, Len(x))} ELSE {})
\* The number of places if it is below length, else length.
Capped(e, length) == FoldLeft(LAMBDA v, d : Min({(NUMBER + 1) * v + d[2], length}), 0, e)
Bitsh(e) == MovedArray(e, LAMBDA p, by, length :
                IF IsNegative(by) THEN p - Capped(Magnitude(by), length)
                ELSE p + Capped(Magnitude(by), length))
Bitrot(e) == MovedArray(e, LAMBDA p, by, length :
                IF IsNegative(by) THEN (p - ValueModulo(Magnitude(by), length)) % length
                ELSE (p + ValueModulo(Magnitude(by), length)) % length)

Bit(e) ==
    LET size  == SubSeq(e, 1, Len(e) - Len(Terms(e)[Len(Terms(e))]))
        array == Terms(e)[Len(Terms(e))]
        need  == Value(size) \div W
    IN  IF e = <<>> \/ Len(size) \notin 1 .. 2 \/ ~AllNumbers(size) \/ ~IsBracketed(array) THEN {}
        ELSE IF ~AllNumbers(Contents(array)) \/ Value(size) = 0 \/ Value(size) % W # 0 THEN {}
        ELSE {Array(Bits(Contents(array)), need)}

-----------------------------------------------------------------------------
\* Comparisons: a term in brackets is above all symbols, and symbols are ordered by kind
\* and then by their codes, addresses or numbers.

Order(x, y) == IF x < y THEN "<" ELSE IF x = y THEN "=" ELSE ">"
Kinds == [O |-> 1, F |-> 2, N |-> 3]
SymbolOrder(x, y) ==
    IF x[1] # y[1] THEN Order(Kinds[x[1]], Kinds[y[1]])
    ELSE IF x[1] = "F" THEN Order(Address(x[2]), Address(y[2])) ELSE Order(x[2], y[2])
RECURSIVE Lexicographic(_, _)
Lexicographic(e, f) ==
    IF e = <<>> \/ f = <<>> THEN Order(Len(e), Len(f))
    ELSE LET t == Terms(e)
             u == Terms(f)
             heads == CASE IsBracketed(t[1]) /\ IsBracketed(u[1]) ->
                               Lexicographic(Contents(t[1]), Contents(u[1]))
                        [] IsBracketed(t[1]) /\ ~IsBracketed(u[1]) -> ">"
                        [] ~IsBracketed(t[1]) /\ IsBracketed(u[1]) -> "<"
                        [] OTHER -> SymbolOrder(e[1], f[1])
         IN  IF heads # "=" THEN heads
             ELSE Lexicographic(Part(t, 2, Len(t)), Part(u, 2, Len(u)))

SignedValue(e) == IF IsNegative(e) THEN -Value(Magnitude(e)) ELSE Value(Magnitude(e))

\* (x) y behind the relation of x and y, or behind whether it is one of these.
Compares(e, relation) == {<<Char(60 + CHOOSE i \in 0 .. 2 : <<"<", "=", ">">>[i + 1] = relation)>> \o e}
Related(e, relation, relations) == {<<Answer(relation \in relations)>> \o e}
RelationOf(e, numbers) ==
    InFront(e, LAMBDA x, y :
        IF ~numbers THEN {Lexicographic(x, y)}
        ELSE IF IsNumber(x) /\ IsNumber(y) THEN {Order(SignedValue(x), SignedValue(y))} ELSE {})
Asked(e, numbers, relations) ==
    UNION {Related(e, relation, relations) : relation \in RelationOf(e, numbers)}

-----------------------------------------------------------------------------
Meaning(name, e, table) ==
    CASE name = "Numb" -> Numb(e)
      [] name = "Symb" -> Symb(e)
      [] name = "First" -> SplitFirst(e)
      [] name = "Last" -> SplitLast(e)
      [] name = "Left" -> Left(e)
      [] name = "Right" -> Right(e)
      [] name = "Del_left" -> Del_left(e)
      [] name = "Del_right" -> Del_right(e)
      [] name = "Length" -> {LengthTerm(Len(e)) \o e}
      [] name = "Lengthw" -> {LengthTerm(Len(Terms(e))) \o e}
      [] name = "Multe" -> Multe(e)
      [] name = "Chr" -> {Each(e, ToChar)}
      [] name = "Ord" -> {Each(e, ToNumber)}
      [] name = "Upper" -> {Each(e, ToUpper)}
      [] name = "Lower" -> {Each(e, ToLower)}
      [] name = "Empty" -> {<<>>}
      [] name = "Unbrackets" -> If(IsBracketed(e), Contents(e))
      [] name = "Reverse" -> {Each(Reverse(e), Mirrored)}
      [] name = "Reversew" -> {FlattenSeq(Reverse(Terms(e)))}
      [] name = "Existw" -> Existw(e)
      [] name = "Existn" -> LET t == Terms(e)
                                number(i) == Number(IsNegative(Contents(t[i])),
                                                    NumberBits(Contents(t[i])))
                            IN  If(/\ e # <<>>
                                   /\ \A i \in DOMAIN t : IsBracketed(t[i]) /\ IsNumber(Contents(t[i])),
                                   <<Answer(\E i \in 2 .. Len(t) : number(i) = number(1))>> \o e)
      [] name = "Ftochar" -> If(Len(e) = 1 /\ e[1][1] = "F", Each(e[1][2][2], Char))
      [] name = "Functab" -> If(Len(e) = 1 /\ e[1][1] = "F", <<>>)
      [] name = "Chartof" -> Chartof(e, table)
      [] name \in {"Nrel", "Lrel"} ->
            UNION {Compares(e, relation) : relation \in RelationOf(e, name = "Nrel")}
      [] name \in {"Ltn", "Ltl"} -> Asked(e, name = "Ltn", {"<"})
      [] name \in {"Len", "Lel"} -> Asked(e, name = "Len", {"<", "="})
      [] name \in {"Eqn", "Eql"} -> Asked(e, name = "Eqn", {"="})
      [] name \in {"Nen", "Nel"} -> Asked(e, name = "Nen", {"<", ">"})
      [] name \in {"Gen", "Gel"} -> Asked(e, name = "Gen", {">", "="})
      [] name \in {"Gtn", "Gtl"} -> Asked(e, name = "Gtn", {">"})
      [] name = "Band" -> Band(e)
      [] name = "Bor" -> Bor(e)
      [] name = "Bxor" -> Bxor(e)
      [] name = "Bnot" -> Bnot(e)
      [] name = "Shl" -> Shl(e)
      [] name = "Shr" -> Shr(e)
      [] name = "Bitand" -> Arrays(e, LAMBDA x, y : x \cap y)
      [] name = "Bitor" -> Arrays(e, LAMBDA x, y : x \cup y)
      [] name = "Bitxor" -> Arrays(e, Difference)
      [] name = "Bitnot" -> Bitnot(e)
      [] name = "Bitsh" -> Bitsh(e)
      [] name = "Bitrot" -> Bitrot(e)
      [] name = "Bit" -> Bit(e)
=============================================================================
