------------------------------- MODULE MCNumbers -------------------------------
(***************************************************************************)
(* The numbers and the calls with which the arithmetic is checked.         *)
(***************************************************************************)
EXTENDS Numbers

\* The digits of the numbers below a power of the base, and numbers in other forms
Plain(length) == {d \in UNION {[1 .. n -> Digit] : n \in 0 .. length} : d = Strip(d)}
Signs(digits) == [sign : {"", "-"}, digits : digits]
Odd == Signs({<<0>>, <<0, 0>>, <<1, 0>>, <<MAX_NUMBER, 0, 0>>})

Pairs(ops, alternative, as, bs) ==
    [op : ops, alternative : alternative, a : as, b : bs]
Singles(as) == [op : OneNumber, alternative : {FALSE}, a : as, b : {Number("", <<>>)}]

AllCalls ==
    Pairs(TwoNumbers \ {"gcd"}, {FALSE}, Signs(Plain(3)), Signs(Plain(2)))
    \cup Pairs({"gcd"}, {FALSE}, [sign : {""}, digits : Plain(3)], [sign : {""}, digits : Plain(2)])
    \cup Pairs(TwoNumbers, BOOLEAN, Odd \cup Signs(Plain(1)), Odd \cup Signs(Plain(1)))
    \cup Pairs({"dr"}, {FALSE}, [sign : {""}, digits : Plain(4)],
               [sign : {""}, digits : {<<3, 3, 1>>, <<0, 1, 2>>, <<2, 0, 3>>}])
    \cup Singles(Odd \cup Signs(Plain(2)))

\* The greatest macrodigit plus two, the example of R_2.md
Sums == Pairs({"add"}, {FALSE}, {Number("", <<MAX_NUMBER>>)}, {Number("", <<2>>)})
=============================================================================
