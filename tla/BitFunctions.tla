---------------------------- MODULE BitFunctions ----------------------------
(***************************************************************************)
(* Bit operations on whole numbers (inter/xbitwise.c) and on arrays of     *)
(* macrodigits (inter/xbitarray.c).  The result is built in the digits of  *)
(* an argument; a longer one grows over the cells in front of the digits,  *)
(* which are counted by hand, and over new cells only if they do not do.   *)
(***************************************************************************)
EXTENDS Lexical, Bitwise

Complement(d) == MAX_NUMBER - d
ShiftedLeft(d, bits) == (d * 2 ^ bits) % 2 ^ W
ShiftedRight(d, bits) == d \div 2 ^ bits
AND(a, b) == a & b
OR(a, b) == a | b
XOR(a, b) == a ^^ b

Store(m, cells, values) == Put(m, cells, Digits(values))

\* The result: the digits without leading zeros, behind a '-' if it is negative.
ReturnNumber(m, negative, digits) ==
    LET nonzero == {i \in DOMAIN digits : m.cell[digits[i]][2] # 0}
        top     == digits[Min(nonzero)]
        sign    == m.heap.previous[top]
        end     == m.heap.next[digits[Len(digits)]]
    IN  IF nonzero = {}
        THEN Return(Move(Put(m, <<A1>>, <<<<"N", 0>>>>), PR, PA, After(A1)))
        ELSE IF negative
        THEN Return(Move(Put(m, <<sign>>, <<<<"O", Minus>>>>), PR, m.heap.previous[sign], end))
        ELSE Return(Move(m, PR, sign, end))

-----------------------------------------------------------------------------
\* xbitwise.c: X, or X in brackets in front of Y.

X == Big(Between(A1))
Y == Big(Cells(After(Info(A1)), NA))
TwoNumbers == Tag(A1) = "LB" /\ X.ok /\ Y.ok

\* exchange_big_numbers(): the one with more digits, or with fewer, comes first.
LongerFirst == IF Len(Y.digits) > Len(X.digits) THEN <<Y, X>> ELSE <<X, Y>>
ShorterFirst == IF Len(Y.digits) < Len(X.digits) THEN <<Y, X>> ELSE <<X, Y>>

LastOf(cells, count) == SubSeq(cells, Len(cells) - count + 1, Len(cells))

\* The digits of both that stand at the same place are combined in those of the first.
Combined(first, second, Op(_, _), negative) ==
    LET count == Min({Len(first.digits), Len(second.digits)})
        own   == LastOf(first.digits, count)
        other == LastOf(second.digits, count)
    IN  ReturnNumber(Store(memory, own, [i \in 1 .. count |-> Op(Info(own[i]), Info(other[i]))]),
                     IF second.digits = <<>> THEN first.negative ELSE negative, first.digits)

band_ ==
    /\ Called("Band")
    /\ \/ ~TwoNumbers /\ Fail
       \/ TwoNumbers /\ \E p \in {ShorterFirst} :
            Combined(p[1], p[2], AND, p[1].negative /\ p[2].negative)

bor_ ==
    /\ Called("Bor")
    /\ \/ ~TwoNumbers /\ Fail
       \/ TwoNumbers /\ \E p \in {LongerFirst} :
            Combined(p[1], p[2], OR, p[1].negative \/ p[2].negative)

bxor_ ==
    /\ Called("Bxor")
    /\ \/ ~TwoNumbers /\ Fail
       \/ TwoNumbers /\ \E p \in {LongerFirst} :
            Combined(p[1], p[2], XOR, p[1].negative # p[2].negative)

bnot_ ==
    /\ Called("Bnot")
    /\ \E x \in {Big(Argument)} :
        \/ ~x.ok /\ Fail
        \/ /\ x.ok /\ x.digits = <<>>
           /\ Using(PA, IF A1 = NA THEN 1 ELSE 0, LAMBDA m :
                LET digit == m.heap.next[PA]
                IN  ReturnNumber(Put(m, <<digit>>, <<<<"N", MAX_NUMBER>>>>), TRUE, <<digit>>))
        \/ /\ x.ok /\ x.digits # <<>>
           /\ ReturnNumber(Store(memory, x.digits, [i \in DOMAIN x.digits |->
                                                       Complement(Info(x.digits[i]))]),
                           ~x.negative, x.digits)

\* The cells with the number of places behind X, and their value.
Places == Cells(After(Info(A1)), NA)
Value(cells) == FoldLeft(LAMBDA v, c : 2 ^ W * v + Info(c), 0, cells)
Shifts == Tag(A1) = "LB" /\ X.ok /\ Len(Places) \in 1 .. 2 /\ Numbers(Places)

\* A faulty count: the '<' in front counts as well.
RoomWithCall == 5
\* Cells in front of '(' that Shl may write over: the label, '(', ')' and a number.
Room == 4

\* Shl in a call with room for the result: first the tail of the call goes in
\* front, then zeros behind the digits, then the bits move over into one more digit.
Lengthened(m, x, digits, bits) ==
    IF bits = 0 THEN ReturnNumber(m, x.negative, digits)
    ELSE LET all  == <<m.heap.previous[digits[1]]>> \o digits
             d(i) == IF i = 1 \/ i > Len(all) THEN 0 ELSE m.cell[all[i]][2]
         IN  ReturnNumber(Store(m, all, [i \in DOMAIN all |->
                             ShiftedLeft(d(i), bits) + ShiftedRight(d(i + 1), W - bits)]),
                          x.negative, all)

\* The count cells in front of c, the nearest first.
RECURSIVE Preceding(_, _, _)
Preceding(h, c, count) ==
    IF count = 0 THEN <<>> ELSE <<h.previous[c]>> \o Preceding(h, h.previous[c], count - 1)

shl_ ==
    /\ Called("Shl")
    /\ \/ ~Shifts /\ Fail
       \/ Shifts /\ X.digits = <<>> /\ ReturnNumber(memory, FALSE, <<>>)
       \/ /\ Shifts /\ X.digits # <<>>
          /\ \E x \in {X}, count \in {Value(Places) \div W}, bits \in {Value(Places) % W} :
             LET end  == x.digits[Len(x.digits)]
                 need == count + (IF bits = 0 THEN 0 ELSE 1) + (IF x.negative THEN 1 ELSE 0)
                 have == Room + Len(Between(A1)) - Len(x.digits)
             IN  Using(NR, IF need > have THEN need - have ELSE 0, LAMBDA m :
                    \E n \in {Move(m, NR, end, NA)} :
                    \E zeros \in {Preceding(n.heap, x.digits[1], count)} :
                    \E full \in {IF count = 0 THEN n
                                 ELSE Move(Store(n, zeros, [i \in 1 .. count |-> 0]), end,
                                           n.heap.previous[zeros[count]], x.digits[1])} :
                        Lengthened(full, x, x.digits \o Reverse(zeros), bits))

shr_ ==
    /\ Called("Shr")
    /\ \/ ~Shifts /\ Fail
       \/ /\ Shifts
          /\ \E x \in {X}, count \in {Value(Places) \div W}, bits \in {Value(Places) % W} :
             LET digits == SubSeq(x.digits, 1, Len(x.digits) - count)
                 d(i)   == IF i = 0 THEN 0 ELSE Info(digits[i])
             IN  ReturnNumber(Store(memory, digits, [i \in DOMAIN digits |->
                                 ShiftedRight(d(i), bits) + ShiftedLeft(d(i - 1), W - bits)]),
                              x.negative, digits)

-----------------------------------------------------------------------------
\* xbitarray.c: arrays of macrodigits, the first one of two in brackets.

bitnot_ ==
    /\ Called("Bitnot")
    /\ LET array == Argument
           valid == array # <<>> /\ Numbers(array)
       IN  \/ ~valid /\ Fail
           \/ /\ valid
              /\ Return(Move(Store(memory, array, [i \in DOMAIN array |->
                                                      Complement(Info(array[i]))]), PR, PA, NA))

\* The two arrays have the same number of digits and nothing else.
TwoArrays == /\ Tag(A1) = "LB" /\ Numbers(Between(A1)) /\ Numbers(Places)
             /\ Len(Between(A1)) = Len(Places)
ReturnArrays(Op(_, _)) ==
    LET x == Between(A1)
        y == Places
    IN  Return(Move(Store(memory, x, [i \in DOMAIN x |-> Op(Info(x[i]), Info(y[i]))]),
                    PR, A1, Info(A1)))

bitand_ ==
    /\ Called("Bitand")
    /\ \/ ~TwoArrays /\ Fail
       \/ TwoArrays /\ ReturnArrays(AND)

bitor_ ==
    /\ Called("Bitor")
    /\ \/ ~TwoArrays /\ Fail
       \/ TwoArrays /\ ReturnArrays(OR)

bitxor_ ==
    /\ Called("Bitxor")
    /\ \/ ~TwoArrays /\ Fail
       \/ TwoArrays /\ ReturnArrays(XOR)

\* A faulty Bitrot: only the last two digits of a long number of places count.
RemainderOfTwo(digits, length) == Value(LastOf(digits, 2)) % (W * length)

\* A number of places of any length, as a place in an array of length macrodigits:
\* the rest of W * 2 ^ W * q + 2 ^ W * low + digit, kept as W * q + low.
Remainder(digits, length) ==
    LET step(r, c) == [q   |-> (2 ^ W * r.q + (2 ^ W * r.low) \div W + Info(c) \div W) % length,
                       low |-> Info(c) % W]
        last == FoldLeft(step, [q |-> 0, low |-> 0], digits)
    IN  W * last.q + last.low

\* The array turned left: its first count digits go behind the others.
Turned(array, count) == SubSeq(array, count + 1, Len(array)) \o SubSeq(array, 1, count)
ReturnArray(m) == Return(Move(m, PR, A1, Info(A1)))

\* The array is turned; new are the digits in their new order.
ReturnTurned(array, count, new) ==
    ReturnArray(Store(IF count = 0 THEN memory
                      ELSE Move(memory, A1, array[count], Info(A1)), Turned(array, count), new))

ArrayShift == Big(Cells(After(Info(A1)), NA))
ShiftsArray == /\ Tag(A1) = "LB" /\ Between(A1) # <<>> /\ Numbers(Between(A1))
               /\ ArrayShift.ok

bitsh_ ==
    /\ Called("Bitsh")
    /\ \/ ~ShiftsArray /\ Fail
       \/ /\ ShiftsArray
          /\ \E array \in {Between(A1)}, by \in {ArrayShift} :
             LET length == Len(array)
                 places == Value(by.digits)
                 count  == places \div W
                 bits   == places % W
                 d(i)   == IF i \in DOMAIN array THEN Info(array[i]) ELSE 0
             IN  \/ /\ Len(by.digits) > 2 \/ places >= W * length
                    /\ ReturnArray(Store(memory, array, [i \in DOMAIN array |-> 0]))
                 \/ /\ Len(by.digits) <= 2 /\ places < W * length
                    /\ IF by.negative
                       THEN ReturnTurned(array, IF count = 0 THEN 0 ELSE length - count,
                                [i \in DOMAIN array |-> ShiftedRight(d(i - count), bits)
                                                        + ShiftedLeft(d(i - count - 1), W - bits)])
                       ELSE ReturnTurned(array, count,
                                [i \in DOMAIN array |-> ShiftedLeft(d(i + count), bits)
                                                        + ShiftedRight(d(i + count + 1), W - bits)])

bitrot_ ==
    /\ Called("Bitrot")
    /\ \/ ~ShiftsArray /\ Fail
       \/ /\ ShiftsArray
          /\ \E array \in {Between(A1)}, by \in {ArrayShift} :
             LET bitCount == W * Len(array)
                 places == IF Len(by.digits) <= 2 THEN Value(by.digits) % bitCount
                           ELSE Remainder(by.digits, Len(array))
                 left   == IF by.negative THEN (bitCount - places) % bitCount ELSE places
                 count  == left \div W
                 bits   == left % W
                 turned == Turned(array, count)
                 d(i)   == Info(turned[IF i > Len(array) THEN 1 ELSE i])
             IN  ReturnTurned(array, count, [i \in DOMAIN array |->
                     ShiftedLeft(d(i), bits) + ShiftedRight(d(i + 1), W - bits)])

bit_ ==
    /\ Called("Bit")
    /\ LET arg   == Argument
           size  == SubSeq(arg, 1, Cardinality({i \in 1 .. Min({2, Len(arg)}) :
                                                   Numbers(SubSeq(arg, 1, i))}))
           left  == arg[Len(size) + 1]
           array == Between(left)
           need  == Value(size) \div W
           valid == /\ size # <<>> /\ Len(arg) > Len(size) /\ Tag(left) = "LB"
                    /\ After(Info(left)) = NA /\ Numbers(array)
                    /\ need > 0 /\ Value(size) % W = 0
       IN  \/ ~valid /\ Fail
           \/ valid /\ need >= Len(array) /\ Using(left, need - Len(array), LAMBDA m :
                \E new \in {Following(m.heap, left, need - Len(array))} :
                    Return(Move(Store(m, new, [i \in DOMAIN new |-> 0]), PR, left, Info(left))))
           \/ valid /\ need < Len(array)
              /\ Return(Move(memory, PR, array[Len(array) - need], Info(left)))
=============================================================================
