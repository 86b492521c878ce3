----------------------------- MODULE MCLibrary -----------------------------
(* Calls of every library function with arguments at the edges of its      *)
(* cases, alone, one in another and one after another.                     *)
EXTENDS Library

CONSTANT LastCell
ModelCells == 0 .. LastCell

C(code) == <<"O", code>>
N(number) == <<"N", number>>
L == <<"LB", 0>>
R == <<"RB", 0>>
User(name) == <<"F", <<"program", name>>>>
Call(f, e) == <<<<"K", 0>>, <<"F", <<"library", f>>>>>> \o e \o <<<<"D", 0>>>>
Idle(e) == <<<<"K", 0>>, User(<<90>>)>> \o e \o <<<<"D", 0>>>>   \* a call of the program's own
Calls(names, arguments) == {Call(f, e) : f \in names, e \in arguments}
Text(codes) == [i \in DOMAIN codes |-> C(codes[i])]

a == C(97)
B == C(66)
Bracket(e) == <<L>> \o e \o <<R>>

Expressions == {<<>>, <<a>>, <<a, B>>, Bracket(<<>>), Bracket(<<a>>) \o <<B>>,
                <<B>> \o Bracket(<<a>> \o Bracket(<<N(7)>>)) \o <<a>>}
Texts == {Text(t) : t \in {<<>>, <<43>>, <<45, 48>>, <<45, 49, 50>>, <<43, 55>>,
                           <<48, 120>>, <<48, 120, 102, 65>>, <<48, 49, 55>>, <<48, 56>>,
                           <<50, 53, 53>>, <<50, 53, 54>>, <<45, 48, 120, 49>>, <<48>>}}
         \cup {<<N(1)>>, <<C(49), N(1)>>, <<C(48), User(<<88>>)>>}
Signed1 == {<<>>, <<C(43)>>, <<C(45)>>}
NumberTexts == {<<N(base)>> \o sign \o zeros \o number :
                   base \in {8, 10, 16}, sign \in Signed1, zeros \in {<<>>, <<N(0), N(0)>>},
                   number \in {<<>>, <<N(7)>>, <<N(255)>>}}
               \cup {<<>>, <<N(9), N(1)>>, <<C(49)>>, <<N(10), N(1), N(0)>>, <<N(10), a>>}
Counted == {<<N(n)>> \o e : n \in 0 .. 4, e \in Expressions} \cup {<<>>, <<a, B>>}

LexicalCalls ==
    Calls({"Numb"}, Texts) \cup Calls({"Symb"}, NumberTexts)
    \cup Calls({"First", "Last", "Left", "Right", "Del_left", "Del_right", "Multe"}, Counted)
    \cup Calls({"Length", "Lengthw", "Ord", "Upper", "Lower", "Empty", "Unbrackets",
                "Reverse", "Reversew"}, Expressions \cup {Bracket(<<a, B>>)})
    \cup Calls({"Chr"}, {<<>>, <<a>>, <<N(65)>>, <<N(3), a>> \o Bracket(<<N(65)>>)})
    \cup Calls({"Existw"}, {x \o e : x \in {<<>>, <<a>>, Bracket(<<a>>), <<N(97)>>},
                                     e \in Expressions})
    \cup Calls({"Existn"}, {Bracket(x) \o Bracket(y) \o z : x \in {<<N(5)>>, <<C(45), N(0)>>},
                                y \in {<<N(0), N(5)>>, <<>>, <<C(45), N(5)>>, <<C(45)>>},
                                z \in {<<>>, Bracket(<<N(5)>>), <<a>>}} \cup {<<>>})
    \cup Calls({"Ftochar"}, {<<User(n)>> : n \in {<<70>>, <<70, 71>>, <<70, 71, 72>>}}
                            \cup {<<>>, <<a>>, <<User(<<70>>), a>>})
    \cup Calls({"Functab"}, {<<>>, <<a>>})
    \cup Calls({"Chartof"}, {<<>>, <<N(1)>>, Text(<<102>>), Text(<<97, 98, 99>>),
                             Text(<<97, 98, 99, 100>>)})

\* Labels: two functions, and the names of them in two spellings.
Named == Calls({"Functab"}, {<<User(<<70>>)>>})
Made == Calls({"Chartof"}, {Text(<<102>>), Text(<<70>>), Text(<<71>>)})
LabelCalls == {x \o y \o z : x \in Named, y \in Made \cup Named, z \in Made}
              \cup {x \o y \o z : x \in Made, y \in Named, z \in Made}
              \cup {x \o y : x \in Made, y \in Made}
              \cup {x \o Call("Ftochar", y) : x \in Named, y \in Made}

\* Delf before, in and behind other calls, with and without '#'.
Mark == C(Sharp)
DelfCalls ==
    LET delf == Call("Delf", <<>>)
    IN  {delf \o x \o y \o z : x \in {<<>>, <<a>>, Idle(<<a>>), Idle(Idle(<<>>))},
                               y \in {Idle(<<>>) \o <<Mark>>, Idle(Idle(<<a>>) \o <<Mark>>), <<Mark>>, Idle(<<>>) \o <<N(Sharp)>>},
                               z \in {<<>>, <<B>>, Idle(<<>>) \o <<Mark>>}}
        \cup {Idle(<<a>> \o delf \o x) \o <<Mark>> \o y : x \in {<<>>, Idle(<<B>>), <<Mark>>},
                                                       y \in {<<>>, Idle(<<>>)}}
        \cup {Idle(Idle(<<a>> \o delf) \o <<B>>) \o Idle(<<>>) \o <<Mark>>}
        \cup {Idle(Idle(delf)) \o <<Mark, a>>, Call("Delf", <<a>>), <<a>> \o delf}

NumberArguments == {<<>>, <<N(0)>>, <<N(5)>>, <<C(45), N(3)>>, <<N(0), N(130)>>,
                    <<N(1), N(0)>>, <<C(45), N(255), N(128)>>, <<C(43), N(5)>>, <<C(45), N(0)>>}
Wrong == {<<C(45)>>, <<a>>, <<N(1), a>>}
Pairs(xs, ys) == {Bracket(x) \o y : x \in xs, y \in ys}
BitCalls ==
    Calls({"Band", "Bor", "Bxor"}, Pairs(NumberArguments, NumberArguments \cup Wrong)
                                   \cup {<<>>, <<N(1)>>} \cup Pairs(Wrong, {<<N(1)>>}))
    \cup Calls({"Bnot"}, NumberArguments \cup Wrong)
    \cup Calls({"Shl", "Shr"},
               Pairs(NumberArguments, {<<N(n)>> : n \in {0, 1, 7, 8, 9, 17, 40, 47, 48}}
                                      \cup {<<N(0), N(9)>>})
               \cup {<<>>} \cup Pairs({<<a>>, <<N(1)>>}, {<<>>, <<N(1)>>, <<N(1), a>>, <<a>>,
                                                         <<N(1), N(1), N(1)>>}))
Arrays2 == {<<N(1)>>, <<N(129), N(64)>>, <<N(1), N(2), N(131)>>}
ArrayCalls ==
    Calls({"Bitand", "Bitor", "Bitxor"}, Pairs(Arrays2 \cup {<<>>}, Arrays2 \cup {<<>>})
                                         \cup {<<>>, <<N(1)>>, Bracket(<<a>>) \o <<a>>})
    \cup Calls({"Bitnot"}, Arrays2 \cup {<<>>, <<a>>, <<N(1), a>>})
    \cup Calls({"Bitsh", "Bitrot"},
               Pairs(Arrays2, {sign \o s : sign \in {<<>>, <<C(45)>>},
                                  s \in {<<N(n)>> : n \in {0, 1, 8, 12, 17, 24, 31}}
                                        \cup {<<N(2), N(9)>>, <<N(1), N(7), N(13)>>,
                                              <<N(1), N(0), N(0), N(0)>>}})
               \cup {<<>>, <<a>>} \cup Pairs({<<>>, <<a>>}, {<<N(1)>>}) \cup Pairs(Arrays2, Wrong))
    \cup Calls({"Bit"}, {size \o Bracket(e) : size \in {<<N(8)>>, <<N(16)>>, <<N(24)>>, <<N(0), N(16)>>},
                                               e \in Arrays2 \cup {<<>>}}
                        \cup {<<>>, <<N(8)>>, <<N(8)>> \o Bracket(<<a>>), <<N(4)>> \o Bracket(<<>>),
                              <<N(0)>> \o Bracket(<<>>), <<a>> \o Bracket(<<>>),
                              <<N(8)>> \o Bracket(<<>>) \o <<a>>,
                              <<N(0), N(0), N(8)>> \o Bracket(<<>>)})

\* The result of one call is the argument of the next.
NestedCalls ==
    {Call("Reverse", <<a>> \o Call(f, e)) : f \in {"Multe", "First"}, e \in Counted}
    \cup {Call("Shr", Bracket(Call("Shl", Bracket(x) \o s)) \o s) :
             x \in NumberArguments, s \in {<<N(9)>>, <<N(40)>>}}

\* Files "a", which has two lines, and "b", which is not there at first.
Lib(name) == <<"F", <<"library", name>>>>
OnDisk == C(97)
Absent == C(98)
Opening1(mode, n, name) == Call("Fopen", <<C(mode), N(n), name>>)
Of(names, n, e) == {Call(f, <<N(n)>> \o e) : f \in names}
Sought == {<<N(0), Lib("Begin")>>, <<N(1), Lib("End")>>, <<C(45), N(2), Lib("End")>>,
           <<C(45), N(1), Lib("Current")>>, <<N(1), N(4), Lib("Current")>>,
           <<N(255), Lib("Begin")>>, <<C(43), N(1), N(0), Lib("Begin")>>,
           <<C(45), N(128), N(0), Lib("End")>>}
Reads == Of({"Fgets", "Ftell", "Is_eof"}, 1, <<>>) \cup UNION {Of({"Fread"}, 1, <<N(n)>>) : n \in {0, 2, 5}}
Writes == UNION {Of({"Fputs"}, 1, Text(t)) : t \in {<<122>>, <<122, 10, 122>>, <<>>}}
          \cup Of({"Fwrite"}, 1, <<N(200), a>>)
Seeks == {c : c \in UNION {Of({"Fseek"}, 1, s) : s \in Sought}}
Flags == Of({"Is_eof", "Is_feof", "Is_ferror", "Ftell"}, 1, <<>>)
AllKinds == <<a>> \o Bracket(<<N(12), N(0), User(<<102>>), B>>) \o <<User(<<70>>), User(<<70>>), N(3), a>>
Shows == Of({"Fprint", "Fprints", "Fprintm"}, 1, AllKinds) \cup Of({"Fprintm"}, 1, <<>>)

\* One file opened, two operations on it, then what is known of it or its end.
OneFile ==
    {Opening1(mode, 1, OnDisk) \o x \o y :
        mode \in {114, 87, 97}, x \in Reads \cup Writes \cup Seeks,
        y \in Reads \cup Writes \cup Flags \cup {Call("Fclose", <<N(1)>>)}}
    \cup {Opening1(114, 1, OnDisk) \o x \o y \o Call("Fgets", <<N(1)>>) :
            x \in Reads, y \in Seeks \cup Flags}
    \cup {Opening1(119, 1, Absent) \o x : x \in Shows}

\* Numbers 1 and 3 share a chain of the table.
Table == {Opening1(97, 1, OnDisk), Opening1(97, 2, Absent), Opening1(97, 3, OnDisk)}
         \cup {Call("Fclose", <<N(n)>>) : n \in 1 .. 3}
Tables == {Opening1(97, i, OnDisk) \o Opening1(97, 2, OnDisk) \o Opening1(97, 4 - i, Absent) \o x \o y
              : i \in {1, 3}, x \in Table, y \in Table}

\* Names removed or given away while the file is open, and opened again.
OnNames == {Call("Remove_file", <<name>>) : name \in {OnDisk, Absent}}
           \cup {Call("Exist_file", e) : e \in {<<>>, <<OnDisk>>, <<Absent>>}}
           \cup {Call("Rename", <<x, N(0), y>>) : x, y \in {OnDisk, Absent}}
           \cup {Call("Rename", <<OnDisk, N(0)>>)}
Disk == {x \o y \o z \o Call("Fgets", <<N(1)>>) :
            x \in {Opening1(114, 1, OnDisk), Opening1(97, 1, Absent), Opening1(82, 1, Absent)},
            y \in OnNames,
            z \in OnNames \cup {Opening1(114, 3, OnDisk), Opening1(119, 2, OnDisk)}}

\* The standard streams, which have no number, and printing.
Streams == {Call("Fgets", <<Lib("Stdin")>>), Call("Card", <<>>), Call("Card", <<a, B>>),
            Call("Get_char", <<>>)}
           \cup Calls({"Is_eof", "Is_feof", "Is_ferror"}, {<<Lib("Stdin")>>, <<Lib("Stderr")>>})
           \cup Calls({"Fputs", "Fprint"}, {<<Lib("Stdout"), a>>, <<Lib("Stderr")>>, <<Lib("Stdin"), a>>})
Standards == {x \o y \o z : x, y, z \in Streams}
Prints == Calls({"Print", "Prints", "Printm", "Prout", "Prouts", "Proutm",
                 "Write", "Writes", "Writem", "Wrout", "Wrouts", "Wroutm"},
                {<<>>, <<N(1), N(2), a>>, AllKinds, Bracket(<<a>>) \o <<User(<<70>>), N(1), User(<<70>>), a, B>>})

\* What no function takes: the arguments of one are wrong for most of the others.
WrongCalls ==
    Calls({"Fopen", "Fclose", "Fgets", "Fread", "Fputs", "Fprint", "Fprints", "Fprintm", "Fwrite",
           "Fseek", "Ftell", "Is_eof", "Is_feof", "Is_ferror", "Remove_file", "Rename",
           "Exist_file", "Get_char", "Make_dir", "Remove_dir", "Change_dir", "Clear_dir",
           "Exist_dir", "Get_current_dir"},
          {<<>>, <<a>>, <<N(1)>>, <<N(1), a>>, <<N(1), N(0)>>, <<N(1), a, a>>, <<C(114), a, N(1)>>,
           <<C(114), B, N(1), OnDisk>>, <<C(114), N(1), a, a, a, a, a>>, <<a, a, a, a, a>>, Bracket(<<a>>),
           <<Lib("Null"), a>>, <<N(1), Lib("End")>>, <<N(1), N(0), Lib("End")>>,
           <<N(1), N(1), N(2), N(3), Lib("End")>>, <<N(1), N(128), N(0), Lib("End")>>,
           <<N(1), C(45), N(128), N(1), Lib("End")>>, <<N(1), N(0), Lib("Null")>>})

\* Comparisons of numbers and of expressions.
Compared == {<<>>, <<N(0)>>, <<C(45), N(0)>>, <<N(5)>>, <<C(45), N(5)>>, <<C(45), N(1), N(0)>>,
             <<N(1), N(4)>>, <<C(43), N(0), N(5)>>}
Ordered == {<<>>, <<a>>, <<a, B>>, <<B>>, <<N(97)>>, <<User(<<70>>)>>, <<User(<<71>>), a>>,
            Bracket(<<>>), Bracket(<<a>>), Bracket(<<a>>) \o <<a>>, Bracket(<<a, B>>),
            Bracket(Bracket(<<>>)), <<a>> \o Bracket(<<N(1)>>), <<a>> \o Bracket(<<N(2)>>)}
RelationCalls ==
    Calls(DOMAIN NumberRelations, {Bracket(x) \o y : x, y \in Compared} \cup {<<>>, <<N(1)>>, Bracket(<<a>>)})
    \cup Calls(DOMAIN ExpressionRelations, {Bracket(x) \o y : x, y \in Ordered} \cup {<<>>, <<a>>})

\* The command line, the environment and commands.
SystemCalls ==
    Calls({"Arg"}, {<<N(n)>> : n \in 0 .. 3} \cup {<<>>, <<a>>, <<N(0), a>>})
    \cup Calls({"Get_env"}, {<<>>, <<a>>, <<B>>, <<a, B>>, <<N(1)>>})
    \cup {x \o y : x, y \in Calls({"System"}, {<<>>, <<a>>, <<N(1)>>})}
    \cup Calls({"Exit"}, {<<>>, <<a>>, <<N(1)>>, <<C(45), N(3)>>, <<C(43)>>, <<N(1), N(1)>>})
    \cup Calls({"Random", "Random_number"}, {<<N(n)>> : n \in {0, 1, 3}} \cup {<<>>, <<a>>, <<N(1), N(1)>>})
    \cup Calls({"Random_number"}, {<<N(5)>>, <<N(254)>>, <<N(255)>>})
    \cup {Call("Exit", Call("Random_number", <<N(5)>>)) \o Call("System", <<a>>)}

\* Folders "d" and "f", which has a file whose path from the root is too long, and "s",
\* whose entries cannot be removed.
Names1 == {Text(n) : n \in {<<97>>, <<98>>, <<100>>, <<102>>, <<115>>, <<100, 47, 97>>,
                            <<100, 47, 101>>, <<98, 47, 97>>, <<97, 47, 97>>, <<115, 47, 97>>,
                            <<115, 47, 98>>, <<47, 102>>, <<102, 47, 103>>, <<103>>, <<101>>}}
OnFolders == {"Make_dir", "Remove_dir", "Clear_dir", "Exist_dir", "Change_dir"}
InFolder == Text(<<100, 47, 97>>)
FolderCalls ==
    Calls(OnFolders \cup {"Exist_file", "Remove_file"}, Names1 \cup {<<>>})
    \cup {Call("Clear_dir", x) \o Call(f, y) : f \in OnFolders, x, y \in {Text(<<100>>), Text(<<102>>)}}
    \cup {Call("Change_dir", Text(x)) \o Call(f, Text(y)) \o z :
              x \in {<<100>>, <<102>>}, f \in OnFolders \cup {"Remove_file"},
              y \in {<<97>>, <<101>>, <<103>>, <<47, 102>>, <<47, 100>>},
              z \in {Call("Get_current_dir", <<>>)} \cup Calls({"Clear_dir"}, {Text(<<103>>), Text(<<47, 102>>)})}
    \cup {Call("Change_dir", Text(<<100, 47, 101>>)) \o Call(f, Text(<<47, 100>>)) \o z :
              f \in {"Clear_dir", "Remove_dir"},
              z \in {Call("Get_current_dir", <<>>), Opening1(119, 1, OnDisk), Opening1(114, 1, OnDisk),
                     Call("Make_dir", <<a>>), Call("Change_dir", <<OnDisk>>)}}
    \cup {Call("Fopen", <<C(mode), N(1)>> \o name) \o x \o y :
              mode \in {97, 114}, name \in {InFolder, Text(<<98, 47, 97>>), Text(<<115, 47, 98>>)},
              x \in Calls({"Clear_dir"}, {Text(<<100>>)}) \cup {Call("Rename", <<OnDisk, N(0)>> \o InFolder)},
              y \in {Call("Fputs", <<N(1), a>>), Call("Exist_file", InFolder), Call("Make_dir", InFolder)}}
    \cup {Call("Rename", x \o <<N(0)>> \o y) : x, y \in {InFolder, <<OnDisk>>, Text(<<115, 47, 97>>),
                                                      Text(<<98, 47, 98>>)}}

FileScenes == RelationCalls \cup SystemCalls \cup FolderCalls \cup OneFile \cup Tables \cup Disk \cup Standards \cup Prints \cup WrongCalls
              \cup {Call("Fputs", <<Lib("Stdout")>> \o Call("Fgets", <<Lib("Stdin")>>))}

Around1(fields) == {<<a>> \o f \o <<B>> : f \in fields}
ModelScenes == Around1(LexicalCalls \cup BitCalls \cup ArrayCalls \cup NestedCalls)
               \cup LabelCalls \cup DelfCalls \cup FileScenes
\* Cells free at the start, cells to be had, and those to be had once they are lacking:
\* plenty, some, growing, none, too late.
ModelMemories == {<<16, 0, 0>>, <<2, 4, 0>>, <<0, 16, 0>>, <<1, 0, 0>>, <<1, 0, 8>>}

\* The file "a", the input, and what is printed; nothing is open.
Standing(file, mode) == [file |-> file, mode |-> mode, open |-> TRUE, position |-> 0,
                         eof |-> FALSE, error |-> FALSE]
ModelWorlds ==
    {[labels  |-> <<>>, chains |-> [h \in 0 .. 1 |-> <<>>],
      names   |-> (<<97>> :> 1) @@ [n \in {<<100, 47, 97>>, <<102, 47, 97>>, <<102, 47, 103, 47, 104>>,
                                          <<115, 47, 97>>} |-> 5],
      folders |-> {<<>>, <<100>>, <<100, 47, 101>>, <<102>>, <<102, 47, 103>>, <<115>>},
      sealed  |-> {<<115>>}, current |-> <<>>, commands |-> <<>>,
      arguments |-> <<<<97, 66, 97>>, <<>>, <<66>>>>,
      environment |-> (<<97>> :> <<97, 66, 97, 66>>) @@ (<<66>> :> <<>>) @@ (<<97, 66>> :> <<66>>),
      files   |-> <<<<120, 10, 121>>, <<113, 119, 10, 10, 114>>, <<>>, <<>>, <<118>>>>,
      streams |-> <<Standing(2, "r"), Standing(3, "a"), Standing(4, "a")>>]}
ModelAddress(label) == label[2][1]
ModelHash == [n \in 0 .. 2 ^ W - 1 |-> n % 2]
=============================================================================
