-------------------------------- MODULE Numbers --------------------------------
(***************************************************************************)
(* Arithmetic on whole numbers of any length (inter/xariphmetics.c and the *)
(* numeric part of interface.c and xcompare.c).  A number is a sign and a  *)
(* sequence of macrodigits.  The functions work in place, on the cells of  *)
(* their arguments, from the last digit to the first: here a sequence of   *)
(* digits begins with the LAST digit of the number, and the zero digit the *)
(* code prepends is the last element.  Multiplication, division and Gcd    *)
(* take one step per pass of their outer loops; the rest take one step.    *)
(***************************************************************************)
EXTENDS Integers, Sequences, FiniteSetsExt

CONSTANTS
    SHIFT_MAX,  \* the bits of a macrodigit; uint32_t is as wide as a macrodigit
    Calls       \* bound: the calls made, [op, alternative, a, b]

MAX_NUMBER == 2 ^ SHIFT_MAX - 1
Base == MAX_NUMBER + 1
Digit == 0 .. MAX_NUMBER

TwoNumbers == {"add", "sub", "mul", "dr", "div", "mod", "gcd", "nrel"}
OneNumber == {"nnorm", "abs", "minus", "p1", "m1", "ncheck"}

ASSUME NumbersAssumption ==
    /\ SHIFT_MAX \in Nat \ {0}
    /\ \A c \in Calls : /\ c.op \in TwoNumbers \cup OneNumber /\ c.alternative \in BOOLEAN
                        /\ \A n \in {c.a, c.b} : n.sign \in {"", "-"} /\ n.digits \in Seq(Digit)

VARIABLES
    call,       \* the call, with its arguments as they are written
    pc,         \* the loop the call is in, "answered", "rejected" (upshot = 2)
    X, Y,       \* the two numbers in their cells
    local,      \* the locals of the loops
    answer,     \* the numbers returned
    lost        \* a carry between columns has been dropped (history)

vars == <<call, pc, X, Y, local, answer, lost>>
-----------------------------------------------------------------------------
(* Digits *)

DigitAt(d, i) == IF i \in DOMAIN d THEN d[i] ELSE 0
Strip(d) == SubSeq(d, 1, Max({0} \cup {i \in DOMAIN d : d[i] # 0}))    \* the leading zeros go
Low(n) == n % Base
High(n) == n \div Base

\* read_big_number_expression(): a sign alone is no number; zero has length 0 and any sign.
IsNumber(w) == w.digits # <<>> \/ w.sign = ""
Read(w) == [sign |-> IF w.sign = "-" THEN "-" ELSE "+", digits |-> Strip(w.digits)]

\* compare_big_numbers_absolute()
CompareAbsolute(x, y) ==
    IF x = y THEN 0
    ELSE IF Len(x) # Len(y) THEN (IF Len(x) < Len(y) THEN -1 ELSE 1)
    ELSE LET i == Max({j \in DOMAIN x : x[j] # y[j]})
         IN  IF x[i] < y[i] THEN -1 ELSE 1

\* compare_big_numbers()
Compare(x, y) ==
    IF x.digits = <<>> /\ y.digits = <<>> THEN 0
    ELSE IF x.sign # y.sign THEN (IF x.sign = "-" THEN -1 ELSE 1)
    ELSE (IF x.sign = "-" THEN -1 ELSE 1) * CompareAbsolute(x.digits, y.digits)

\* The sum of two digits is computed in uint32_t, before the carry is added in uint64_t.
ColumnSum(a, b) == (a + b) % Base

\* x plus y in the columns first to last of x: the digits and the last carry.
AddColumns(x, y, first, last) ==
    LET Sum(i) == ColumnSum(x[i], DigitAt(y, i - first + 1))
        carry[i \in Nat] == IF i < first THEN 0 ELSE High(Sum(i) + carry[i - 1])
    IN  [digits |-> [i \in DOMAIN x |-> IF i \in first .. last THEN Low(Sum(i) + carry[i - 1])
                                        ELSE x[i]],
         carry  |-> carry[last],
         lost   |-> \E i \in DOMAIN y : x[first + i - 1] + y[i] > MAX_NUMBER]

\* A faulty subtraction: the borrow stops at the first digit of the shorter number.
SubtractShort(x, y) ==
    LET borrow[i \in 0 .. Len(x)] ==
            IF i = 0 \/ i > Len(y) THEN 0 ELSE IF x[i] < y[i] + borrow[i - 1] THEN 1 ELSE 0
    IN  [i \in DOMAIN x |-> (x[i] - DigitAt(y, i) - borrow[i - 1]) % Base]

\* x - y, x being the greater
Subtract(x, y) ==
    LET borrow[i \in 0 .. Len(x)] ==
            IF i = 0 THEN 0 ELSE IF x[i] < DigitAt(y, i) + borrow[i - 1] THEN 1 ELSE 0
    IN  [i \in DOMAIN x |-> (x[i] - DigitAt(y, i) - borrow[i - 1]) % Base]

\* A faulty shift: what leaves a digit is not masked.
ShiftLeftUnmasked(d, power) ==
    [i \in DOMAIN d |-> d[i] * 2 ^ power + DigitAt(d, i - 1) \div 2 ^ (SHIFT_MAX - power)]

\* normalization(), and the loop that undoes it in the remainder
ShiftLeft(d, power) ==
    [i \in DOMAIN d |-> Low(d[i] * 2 ^ power) + DigitAt(d, i - 1) \div 2 ^ (SHIFT_MAX - power)]
ShiftRight(d, power) ==
    [i \in DOMAIN d |-> d[i] \div 2 ^ power + Low(DigitAt(d, i + 1) * 2 ^ (SHIFT_MAX - power))]
-----------------------------------------------------------------------------
Idle == [result |-> <<>>, at |-> 0, guess |-> 0, transfer |-> 0, power |-> 0, shifts |-> 0]

Init == /\ call \in Calls /\ pc = "read" /\ X = Read(call.a) /\ Y = Read(call.b)
        /\ local = Idle /\ answer = <<>> /\ lost = FALSE

Number(sign, digits) == [sign |-> sign, digits |-> digits]
Zero == Number("", IF call.alternative THEN <<>> ELSE <<0>>)
Shown(n) == Number(IF n.sign = "-" THEN "-" ELSE "", Strip(n.digits))
Nonsense == Number("?", <<>>)   \* the cells behind the number: only zeros were found in it

Answer(numbers) == pc' = "answered" /\ answer' = numbers
Reject == pc' = "rejected" /\ UNCHANGED answer
Goto(label) == pc' = label /\ UNCHANGED answer
Rejected == \/ ~IsNumber(call.a) \/ ~IsNumber(call.b)
            \/ call.op \in {"dr", "div", "mod"} /\ Y.digits = <<>>
            \/ call.op = "gcd" /\ X.digits = <<>> /\ Y.digits = <<>>
Starts(ops) == pc = "read" /\ call.op \in ops /\ ~Rejected

RejectCall == /\ pc = "read" /\ Rejected /\ Reject
              /\ UNCHANGED <<call, X, Y, local, lost>>

Found(n) == IF Strip(n.digits) = <<>> THEN Nonsense ELSE Shown(n)

\* Add, Sub: arithmetic_operate(), Oadd and Osub
AddOrSub ==
    LET y     == IF call.op = "add" THEN Y
                 ELSE [Y EXCEPT !.sign = IF @ = "-" THEN "+" ELSE "-"]
        order == CompareAbsolute(X.digits, y.digits)
        long  == IF Len(X.digits) < Len(y.digits) THEN y ELSE X
        short == IF Len(X.digits) < Len(y.digits) THEN X ELSE y
        sum   == AddColumns(Append(long.digits, 0), short.digits, 1, Len(long.digits) + 1)
        adds  == X.digits # <<>> /\ y.digits # <<>> /\ X.sign = y.sign
    IN  /\ Starts({"add", "sub"}) /\ UNCHANGED <<call, X, Y, local>>
        /\ lost' = (adds /\ sum.lost)
        /\ Answer(<<IF adds THEN Found(Number(X.sign, sum.digits))
                    ELSE IF X.digits = <<>> /\ y.digits = <<>> THEN Zero
                    ELSE IF X.digits = <<>> THEN Shown(y)
                    ELSE IF y.digits = <<>> THEN Shown(X)
                    ELSE IF order = 0 THEN Zero
                    ELSE IF order = 1 THEN Shown(Number(X.sign, Subtract(X.digits, y.digits)))
                    ELSE Shown(Number(y.sign, Subtract(y.digits, X.digits)))>>)

\* Mul: Omul; the result gets a cell for every digit of both and one for the sign.
StartMul ==
    LET short == Len(X.digits) < Len(Y.digits)
        long  == IF short THEN Y ELSE X
    IN  /\ Starts({"mul"}) /\ UNCHANGED <<call, lost>>
        /\ IF X.digits = <<>> \/ Y.digits = <<>>
           THEN Answer(<<Zero>>) /\ UNCHANGED <<X, Y, local>>
           ELSE /\ X' = [long EXCEPT !.digits = Append(@, 0)]
                /\ Y' = IF short THEN X ELSE Y
                /\ local' = [local EXCEPT !.at = 1,
                        !.result = [i \in 1 .. Len(X.digits) + Len(Y.digits) + 1 |-> 0]]
                /\ Goto("multiply")

\* result + x * b, from column at of the result
AddProduct(result, x, b, at) ==
    LET Sum(i, t) == result[at + i - 1] + Low(x[i] * b) + t
        transfer[i \in 0 .. Len(x)] ==
            IF i = 0 THEN 0 ELSE High(Sum(i, transfer[i - 1])) + High(x[i] * b)
    IN  [j \in DOMAIN result |->
            IF j \in at .. at + Len(x) - 1
            THEN Low(Sum(j - at + 1, transfer[j - at])) ELSE result[j]]

MultiplyDigit ==
    LET result == AddProduct(local.result, X.digits, Y.digits[local.at], local.at)
        sign   == IF X.sign # Y.sign THEN "-" ELSE "+"
    IN  /\ pc = "multiply" /\ UNCHANGED <<call, X, Y, lost>>
        /\ local' = [local EXCEPT !.result = result, !.at = @ + 1]
        /\ IF local.at < Len(Y.digits) THEN Goto(pc) ELSE Answer(<<Found(Number(sign, result))>>)
-----------------------------------------------------------------------------
(* Dr, Div, Mod: arithmetic_operate(), Odr *)

Division == {"dr", "div", "mod"}
Divided(quotient, remainder) ==
    Answer(CASE call.op = "dr" -> <<quotient, remainder>>
             [] call.op = "div" -> <<quotient>>
             [] call.op = "mod" -> <<remainder>>)

\* The quotient and the remainder are known to have one digit, or to be 0 and X.
DivideSmall ==
    LET order == CompareAbsolute(X.digits, Y.digits)
        sign  == IF X.sign # Y.sign THEN "-" ELSE "+"
        x     == X.digits[1]
        y     == Y.digits[1]
    IN  /\ Starts(Division) /\ UNCHANGED <<call, X, Y, local, lost>>
        /\ \/ X.digits = <<>> /\ Divided(Zero, Zero)
           \/ X.digits # <<>> /\ order = 0 /\ Divided(Shown(Number(sign, <<1>>)), Zero)
           \/ X.digits # <<>> /\ order = -1 /\ Divided(Zero, Shown(X))
           \/ /\ order = 1 /\ Len(X.digits) = 1
              /\ Divided(Shown(Number(sign, <<x \div y>>)),
                         IF x % y = 0 THEN Zero ELSE Shown(Number(X.sign, <<x % y>>)))

StartDivision ==
    LET top   == Y.digits[Len(Y.digits)]
        power == Min({p \in 0 .. SHIFT_MAX - 1 : top * 2 ^ p >= 2 ^ (SHIFT_MAX - 1)})
    IN  /\ Starts(Division) /\ CompareAbsolute(X.digits, Y.digits) = 1 /\ Len(X.digits) > 1
        /\ X' = [X EXCEPT !.digits = ShiftLeft(Append(@, 0), power)]
        /\ Y' = [Y EXCEPT !.digits = ShiftLeft(@, power)]
        /\ local' = [local EXCEPT !.power = power, !.at = Len(X.digits) + 1 - Len(Y.digits)]
        /\ Goto("digit") /\ UNCHANGED <<call, lost>>

\* A digit of the quotient, guessed from the first digits of what is left and of the divisor.
Guess(a, a0, b) == IF a = 0 THEN (IF a0 < b THEN 0 ELSE 1) ELSE (a * Base + a0) \div b

\* The guess is lowered while the second digit b0 shows it is too big, then raised by one.
Correct(c, rest, b, b0, y2) ==
    LET fits == Max({d \in 0 .. c : b0 * d <= (rest + (c - d) * b) * Base + y2})
    IN  IF fits = c THEN c ELSE fits + 1

\* A faulty pass: a column less than its part borrows nothing from the next.
TakeAwayUnborrowed(x, y, c, at) ==
    LET Part(i, t) == Low(DigitAt(y, i) * c) + t
        transfer[i \in 0 .. Len(y) + 1] ==
            IF i = 0 THEN 0
            ELSE High(Part(i, transfer[i - 1])) + High(DigitAt(y, i) * c)
    IN  [digits   |-> [j \in DOMAIN x |->
                        IF j \in at .. at + Len(y)
                        THEN Low(x[j] - Low(Part(j - at + 1, transfer[j - at]))) ELSE x[j]],
         transfer |-> transfer[Len(y) + 1]]

\* x minus c times y from column at of x; the transfer is what could not be taken
TakeAway(x, y, c, at) ==
    LET Part(i, t) == Low(DigitAt(y, i) * c) + t
        transfer[i \in 0 .. Len(y) + 1] ==
            IF i = 0 THEN 0
            ELSE High(Part(i, transfer[i - 1])) + High(DigitAt(y, i) * c)
                 + (IF x[at + i - 1] < Low(Part(i, transfer[i - 1])) THEN 1 ELSE 0)
    IN  [digits   |-> [j \in DOMAIN x |->
                        IF j \in at .. at + Len(y)
                        THEN Low(x[j] - Low(Part(j - at + 1, transfer[j - at]))) ELSE x[j]],
         transfer |-> transfer[Len(y) + 1]]

\* The digit is written and the divisor moves to the right.
NextDigit(c, digits) ==
    /\ X' = [X EXCEPT !.digits = digits]
    /\ local' = [local EXCEPT !.result = <<Low(c)>> \o @, !.at = @ - 1,
                              !.guess = 0, !.transfer = 0]
    /\ Goto(IF local.at = 1 THEN "remainder" ELSE "digit")

DivideDigit ==
    LET x    == X.digits
        y    == Y.digits
        top  == local.at + Len(y)
        b    == y[Len(y)]
        b0   == DigitAt(y, Len(y) - 1)
        c0   == Guess(x[top], x[top - 1], b)
        rest == (x[top] * Base + x[top - 1]) % b
        c    == IF c0 # 0 /\ Len(y) > 1 /\ b0 # 0
                THEN Correct(c0, rest, b, b0, x[top - 2]) ELSE c0
        left == TakeAway(x, y, c, local.at)
    IN  /\ pc = "digit" /\ UNCHANGED <<call, Y, lost>>
        /\ IF left.transfer = 0
           THEN NextDigit(c, left.digits)
           ELSE /\ X' = [X EXCEPT !.digits = left.digits]
                /\ local' = [local EXCEPT !.guess = c, !.transfer = left.transfer]
                /\ Goto("put_back")

\* One pass of the loop that adds the divisor back; the counter c is a uint64_t.
PutBack ==
    LET c   == (local.guess - 1) % Base ^ 2
        sum == AddColumns(X.digits, Y.digits, local.at, local.at + Len(Y.digits))
    IN  /\ pc = "put_back" /\ UNCHANGED <<call, Y>>
        /\ lost' = (lost \/ sum.lost)
        /\ IF local.transfer = sum.carry
           THEN NextDigit(c, sum.digits)
           ELSE /\ X' = [X EXCEPT !.digits = sum.digits]
                /\ local' = [local EXCEPT !.guess = c, !.transfer = @ - sum.carry]
                /\ Goto(pc)

\* The remainder is shifted back; then both get their signs.
FinishDivision ==
    LET rest == Number(IF X.sign # Y.sign THEN "-" ELSE "+",
                       ShiftRight(SubSeq(X.digits, 1, Len(Y.digits) + 1), local.power))
    IN  /\ pc = "remainder" /\ UNCHANGED <<call, X, Y, local, lost>>
        /\ Divided(Found(Number(X.sign, local.result)),
                   IF Strip(rest.digits) = <<>> THEN Zero ELSE Shown(rest))
-----------------------------------------------------------------------------
(* Gcd: gcd_(), by halving and subtracting *)

IsEven(d) == d[1] % 2 = 0
One == <<1>>

\* count_trailing_zeros()
CountTrailingZeros(d) ==
    LET i == Min({j \in DOMAIN d : d[j] # 0})
    IN  (i - 1) * SHIFT_MAX + Max({k \in 0 .. SHIFT_MAX - 1 : d[i] % 2 ^ k = 0})

\* shift_right()
Shifted[d \in Seq(Nat), shifts \in Nat] ==
    Strip(ShiftRight(SubSeq(d, shifts \div SHIFT_MAX + 1, Len(d)), shifts % SHIFT_MAX))
OddPart[d \in Seq(Nat)] == Shifted[d, CountTrailingZeros(d)]

Exchange == X' = Y /\ Y' = X    \* exchange_big_numbers()

StartGcd == /\ Starts({"gcd"}) /\ Goto("is_fin") /\ UNCHANGED <<call, X, Y, local, lost>>

IsFin ==
    /\ pc = "is_fin" /\ UNCHANGED <<call, local, lost>>
    /\ IF X.digits = <<>> \/ Y.digits = One THEN Exchange /\ Goto("fin")
       ELSE IF Y.digits = <<>> \/ X.digits = One THEN Goto("fin") /\ UNCHANGED <<X, Y>>
       ELSE Goto("cond") /\ UNCHANGED <<X, Y>>

\* A faulty choice: an even second number is not moved to the first place.
CondUnexchanged ==
    LET order == CompareAbsolute(X.digits, Y.digits)
        keep  == UNCHANGED <<X, Y>>
    IN  /\ pc = "cond" /\ UNCHANGED <<call, local, lost>>
        /\ IF IsEven(X.digits) /\ IsEven(Y.digits) THEN Goto("two_even") /\ keep
           ELSE IF IsEven(X.digits) THEN Goto("one_odd") /\ keep
           ELSE IF IsEven(Y.digits) THEN Goto("one_odd") /\ keep
           ELSE IF order = 1 THEN Goto("two_odd") /\ keep
           ELSE IF order = -1 THEN Goto("two_odd") /\ Exchange
           ELSE Goto("fin") /\ keep

Cond ==
    LET order == CompareAbsolute(X.digits, Y.digits)
        keep  == UNCHANGED <<X, Y>>
    IN  /\ pc = "cond" /\ UNCHANGED <<call, local, lost>>
        /\ IF IsEven(X.digits) /\ IsEven(Y.digits) THEN Goto("two_even") /\ keep
           ELSE IF IsEven(X.digits) THEN Goto("one_odd") /\ keep
           ELSE IF IsEven(Y.digits) THEN Goto("one_odd") /\ Exchange
           ELSE IF order = 1 THEN Goto("two_odd") /\ keep
           ELSE IF order = -1 THEN Goto("two_odd") /\ Exchange
           ELSE Goto("fin") /\ keep

TwoEven ==
    LET shifts == Min({CountTrailingZeros(X.digits), CountTrailingZeros(Y.digits)})
    IN  /\ pc = "two_even" /\ Goto("is_fin") /\ UNCHANGED <<call, lost>>
        /\ X' = [X EXCEPT !.digits = Shifted[@, shifts]]
        /\ Y' = [Y EXCEPT !.digits = Shifted[@, shifts]]
        /\ local' = [local EXCEPT !.shifts = @ + shifts]

OneOdd == /\ pc = "one_odd" /\ Goto("is_fin") /\ UNCHANGED <<call, Y, local, lost>>
          /\ X' = [X EXCEPT !.digits = OddPart[@]]

TwoOdd == /\ pc = "two_odd" /\ Goto("is_fin") /\ UNCHANGED <<call, Y, local, lost>>
          /\ X' = [X EXCEPT !.digits = OddPart[Strip(Subtract(@, Y.digits))]]

Fin ==
    LET zeros == [i \in 1 .. local.shifts \div SHIFT_MAX |-> 0]
    IN  /\ pc = "fin" /\ UNCHANGED <<call, X, Y, local, lost>>
        /\ Answer(<<Number("", Strip(ShiftLeft(Append(zeros \o X.digits, 0),
                                               local.shifts % SHIFT_MAX)))>>)
-----------------------------------------------------------------------------
(* The functions of one number and the comparison *)

\* Nnorm, Abs, Minus
Unary ==
    LET sign == CASE call.op = "nnorm" -> X.sign
                  [] call.op = "abs" -> "+"
                  [] call.op = "minus" -> IF X.sign = "+" THEN "-" ELSE "+"
    IN  /\ Starts({"nnorm", "abs", "minus"}) /\ UNCHANGED <<call, X, Y, local, lost>>
        /\ Answer(<<IF X.digits = <<>> THEN Number("", <<0>>)
                    ELSE Shown(Number(sign, X.digits))>>)

\* Ncheck: the argument, as it is written
Ncheck == /\ Starts({"ncheck"}) /\ UNCHANGED <<call, X, Y, local, lost>>
          /\ Answer(<<call.a>>)

\* P1, M1: one macrodigit, and no other
NextOrPrevious ==
    LET step  == IF call.op = "p1" THEN 1 ELSE -1
        digit == call.a.digits[1]
    IN  /\ Starts({"p1", "m1"}) /\ UNCHANGED <<call, X, Y, local, lost>>
        /\ IF call.a.sign = "" /\ Len(call.a.digits) = 1 /\ digit + step \in Digit
           THEN Answer(<<Number("", <<digit + step>>)>>) ELSE Reject

\* Nrel: nrel_operate(); the answer is a relation, not a number
Nrel ==
    LET order == Compare(X, Y)
    IN  /\ Starts({"nrel"}) /\ UNCHANGED <<call, X, Y, local, lost>>
        /\ Answer(<<Number(IF order = -1 THEN "<" ELSE IF order = 1 THEN ">" ELSE "=", <<>>)>>)

Next == \/ RejectCall \/ AddOrSub \/ StartMul \/ MultiplyDigit
        \/ DivideSmall \/ StartDivision \/ DivideDigit \/ PutBack \/ FinishDivision
        \/ StartGcd \/ IsFin \/ Cond \/ TwoEven \/ OneOdd \/ TwoOdd \/ Fin
        \/ Unary \/ Ncheck \/ NextOrPrevious \/ Nrel

Spec == Init /\ [][Next]_vars /\ WF_vars(Next)
-----------------------------------------------------------------------------
(* What the functions promise *)

Value(d) ==
    LET value[i \in 0 .. Len(d)] == IF i = 0 THEN 0 ELSE value[i - 1] + d[i] * Base ^ (i - 1)
    IN  value[Len(d)]
Signed(n) == IF n.sign = "-" THEN -Value(n.digits) ELSE Value(n.digits)

Finished == pc \in {"answered", "rejected"}

\* The cells hold macrodigits in every step, and the divisor of a long division is shifted so
\* far that its first bit is set, which the guess of a digit relies on (arithmetic_operate(),
\* gcd_()).
TypeOK ==
    /\ lost \in BOOLEAN
    /\ X.digits \in Seq(Digit) /\ Y.digits \in Seq(Digit) /\ local.result \in Seq(Digit)
    /\ pc = "digit" => Y.digits[Len(Y.digits)] >= 2 ^ (SHIFT_MAX - 1)
    /\ \A i \in DOMAIN answer : answer[i] = Nonsense \/ answer[i].digits \in Seq(Digit)

\* A number in normal form has no leading zeros and no sign '+', and zero has no sign.
NormalForm(n) ==
    n = Zero \/ (n.sign \in {"", "-"} /\ n.digits # <<>> /\ n.digits = Strip(n.digits))

\* Division regardless of signs, the quotient then signed so that the remainder has the sign of
\* the dividend
Quotient(a, b) == LET Absolute(n) == IF n < 0 THEN -n ELSE n
                      q == Absolute(a) \div Absolute(b)
                  IN  IF (a < 0) = (b < 0) THEN q ELSE -q
Remainder(a, b) == a - Quotient(a, b) * b

IsGcd(g, a, b) == LET Divides(n) == a % n = 0 /\ b % n = 0
                  IN  g > 0 /\ Divides(g) /\ \A n \in 1 .. Max({a, b}) : Divides(n) => n <= g

\* The divisions after which the code gives quotient and remainder each other's sign, against
\* docs/R_2.md:1545: the divisor is negative, the dividend longer than one macrodigit.
LongByNegative ==
    LET a == Read(call.a)   b == Read(call.b)
    IN  b.sign = "-" /\ Len(a.digits) > 1 /\ CompareAbsolute(a.digits, b.digits) = 1

\* Every answer is the number the function is named for, in normal form, unless a carry was
\* dropped on the way; the signs of a division are those of the manual, but for a long division
\* by a negative number, where both are the other ones (the functions of xariphmetics.c, and
\* Nrel of xcompare.c).
Exact ==
    LET A == Signed(Read(call.a))   B == Signed(Read(call.b))
        R == Signed(answer[1])
        Means(i, n) == Signed(answer[i]) = IF LongByNegative THEN -n ELSE n
    IN  pc = "answered" /\ ~lost =>
        /\ call.op \notin {"nrel", "ncheck"} => \A i \in DOMAIN answer : NormalForm(answer[i])
        /\ call.op = "add" => R = A + B
        /\ call.op = "sub" => R = A - B
        /\ call.op = "mul" => R = A * B
        /\ call.op \in {"dr", "div"} => Means(1, Quotient(A, B))
        /\ call.op \in {"dr", "mod"} => Means(Len(answer), Remainder(A, B))
        /\ call.op = "gcd" => IsGcd(R, Value(call.a.digits), Value(call.b.digits))
        /\ call.op = "nrel" => answer[1].sign = IF A < B THEN "<" ELSE IF A > B THEN ">" ELSE "="
        /\ call.op = "minus" => R = -A
        /\ call.op \in {"nnorm", "abs"} => R = IF call.op = "abs" /\ A < 0 THEN -A ELSE A
        /\ call.op \in {"p1", "m1"} => R = IF call.op = "p1" THEN A + 1 ELSE A - 1

\* Through a long division the dividend is what is left of it, less what could not be taken
\* away, plus the divisor times the digits found; and what is left is less than the divisor in
\* the columns to come (the loop of Odr in arithmetic_operate()).
DividendConserved ==
    pc \in {"digit", "put_back", "remainder"} /\ ~lost =>
        LET y      == Value(Y.digits)
            column == IF pc = "put_back" THEN local.at - 1 ELSE local.at
            found  == IF pc = "put_back" THEN Value(local.result) * Base + local.guess
                      ELSE Value(local.result)
            left   == Value(X.digits) - local.transfer * Base ^ (local.at + Len(Y.digits))
        IN  /\ left + found * y * Base ^ column = Value(call.a.digits) * 2 ^ local.power
            /\ left < y * Base ^ local.at

\* A call ends, unless it is a division that puts the divisor back after a guess that was too
\* big: that needs a carry which the sum of two macrodigits always loses, and never ends,
\* against docs/R_2.md:1537 (the loops of arithmetic_operate() and gcd_()).
Ends == /\ <>(Finished \/ pc = "put_back")
        /\ [](pc = "put_back" => []~Finished)

\* What R_2.md says of Add: the sum.
SumIsExact == pc = "answered" /\ call.op = "add" =>
                  Signed(answer[1]) = Signed(Read(call.a)) + Signed(Read(call.b))
=============================================================================
