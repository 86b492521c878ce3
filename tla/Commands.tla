------------------------------ MODULE Commands ------------------------------
(***************************************************************************)
(* What a program asks of its surroundings (inter/xsystem.c, xrandom.c,    *)
(* xfileio.c): an argument of its command line, a variable of its          *)
(* environment, a command to be run, the end, random numbers, folders.     *)
(* The command has been run when memory is found to be lacking.            *)
(***************************************************************************)
EXTENDS Files

AllChars(cells) == \A i \in DOMAIN cells : Tag(cells[i]) = "O"

arg_ ==
    /\ Called("Arg")
    /\ LET valid == Tag(A1) = "N" /\ Alone
           given == Info(A1) < Len(outside.arguments)
                    /\ outside.arguments[Info(A1) + 1] # <<>>
       IN  \/ ~valid /\ Fail
           \/ valid /\ ~given /\ Return(memory)
           \/ valid /\ given /\ ReturnText(outside, outside.arguments[Info(A1) + 1], 2)

get_env_ ==
    /\ Called("Get_env")
    /\ \E name \in {Argument} :
        \/ ~AllChars(name) /\ Fail
        \/ /\ AllChars(name) /\ Values(name) \notin DOMAIN outside.environment
           /\ ReturnNull
        \/ /\ AllChars(name) /\ Values(name) \in DOMAIN outside.environment
           /\ \E value \in {outside.environment[Values(name)]} :
                IF value = <<>> THEN Return(memory)
                ELSE ReturnText(outside, value, Len(name) + 1)

\* The sign takes the place of the label, the number that of the first character, or a
\* new cell when there is none.
system_ ==
    /\ Called("System")
    /\ \/ ~AllChars(Argument) /\ Fail
       \/ /\ AllChars(Argument)
          /\ \E world \in {[outside EXCEPT !.commands = Append(@, Values(Argument))]},
                result \in SystemResults :
                IF result >= 0
                THEN ReturnWith(Move(Put(memory, <<PA>>, Digits(<<result>>)), PR, NR, A1), world)
                ELSE UsingWith(world, PA, IF A1 = NA THEN 1 ELSE 0, LAMBDA m :
                        \E number \in {m.heap.next[PA]} :
                            ReturnWith(Move(Put(m, <<PA, number>>,
                                                <<<<"O", Minus>>, <<"N", -result>>>>),
                                            PR, NR, m.heap.next[number]), world))

exit_ ==
    /\ Called("Exit")
    /\ LET number == IF Tag(A1) = "O" /\ Info(A1) \in {Plus, Minus} THEN After(A1) ELSE A1
           valid  == Tag(number) = "N" /\ After(number) = NA
       IN  \/ ~valid /\ Fail
           \/ valid /\ state' = "EXIT" /\ UNCHANGED <<memory, dot, refal, outside, began>>

-----------------------------------------------------------------------------
\* What random_number() may come to, and the numbers below a limit made of it: those
\* that would favour the small ones are drawn again.
Draws == {0, 3, MAX_NUMBER - 1, MAX_NUMBER}
random_number_in_range(limit) ==
    IF limit = 0 THEN {0}
    ELSE {d % limit : d \in {n \in Draws : n < MAX_NUMBER - (MAX_NUMBER % limit)}}

\* A step that is done again draws again.
random_ ==
    /\ Called("Random")
    /\ LET valid == Tag(A1) = "N" /\ Alone /\ Info(A1) > 0
       IN  \/ ~valid /\ Fail
           \/ valid /\ \E numbers \in UNION {[1 .. less + 1 -> Draws] :
                                   less \in random_number_in_range(Info(A1))} :
                Using(NR, Max({Len(numbers) - 2, 0}), LAMBDA m :
                    \E cells \in {Following(m.heap, NR, Len(numbers))} :
                        Return(Move(Put(m, cells, Digits(numbers)),
                                    PR, NR, m.heap.next[cells[Len(cells)]])))

random_number_ ==
    /\ Called("Random_number")
    /\ \/ ~(Tag(A1) = "N" /\ Alone) /\ Fail
       \/ /\ Tag(A1) = "N" /\ Alone
          /\ \E n \in IF Info(A1) = MAX_NUMBER THEN Draws
                      ELSE random_number_in_range(Info(A1) + 1) :
                Return(Move(Put(memory, <<A1>>, Digits(<<n>>)), PR, PA, NA))
-----------------------------------------------------------------------------
(* Folders.  Clear_Dir removes all that is in one, in the order in which   *)
(* readdir() has it, and stops at what it cannot remove, and when the disk *)
(* fails.                                                                  *)

make_dir_ ==
    /\ Called("Make_dir")
    /\ \E name \in {Argument} :
        \/ ~IsName(name) /\ Fail
        \/ IsName(name) /\ ReturnChange(mkdir(outside, Values(name)), Len(name) + 1)

remove_dir_ ==
    /\ Called("Remove_dir")
    /\ \E name \in {Argument} :
        \/ ~IsName(name) /\ Fail
        \/ IsName(name) /\ ReturnChange(rmdir(outside, Values(name)), Len(name) + 1)

change_dir_ ==
    /\ Called("Change_dir")
    /\ \E name \in {Argument} :
        \/ ~IsName(name) /\ Fail
        \/ IsName(name) /\ ReturnChange(chdir(outside, Values(name)), Len(name) + 1)

\* getcwd(): nothing is returned when the folder has been removed.
get_current_dir_ ==
    /\ Called("Get_current_dir")
    /\ \/ A1 # NA /\ Fail
       \/ A1 = NA /\ outside.current \notin outside.folders /\ Return(memory)
       \/ A1 = NA /\ outside.current \in outside.folders
          /\ ReturnText(outside, <<Slash>> \o outside.current, 1)

exist_dir_ ==
    /\ Called("Exist_dir")
    /\ \E name \in {Argument} :
        \/ ~IsName(name) /\ Fail
        \/ /\ IsName(name)
           /\ ReturnLabel(outside, IF IsFolder(outside, Values(name)) THEN "True" ELSE "False")

-----------------------------------------------------------------------------
\* The ways in which remove_directory_recursive() may end: with the world as it then is,
\* an error or none, and remove_error_path.
Way(change, name) == [world |-> change.world, error |-> change.error, at |-> name]

RECURSIVE Emptied(_, _, _), remove_directory_recursive(_, _, _)

\* What is left of the folder is removed, in any order; readdir(), lstat() of an entry
\* and, at the end, closedir() may fail.
Emptied(world, name, left) ==
    {Way(Refused(world, "EIO"), name)} \cup
    IF left = {} THEN {Way(Succeeded(world), <<>>)}
    ELSE UNION {LET full == name \o <<Slash>> \o LastPart(entry)
                    ways == IF entry \in world.folders
                            THEN remove_directory_recursive(world, full, TRUE)
                            ELSE {Way(unlink(world, full), full)}
                IN  IF Len(full) > MAX_PATHFILENAME
                    THEN {Way(Refused(world, "ENAMETOOLONG"), SubSeq(full, 1, MAX_PATHFILENAME))}
                    ELSE {Way(Refused(world, "EIO"), full)}
                         \cup UNION {IF way.error # "" THEN {way}
                                     ELSE Emptied(way.world, name, left \ {entry}) : way \in ways}
                : entry \in left}

remove_directory_recursive(world, name, remove_self) ==
    IF NoFolder(world, name) # "" THEN {Way(Refused(world, NoFolder(world, name)), name)}
    ELSE {IF remove_self /\ way.error = "" THEN Way(rmdir(way.world, name), name) ELSE way
             : way \in Emptied(world, name, Entries(world, name))}

clear_dir_ ==
    /\ Called("Clear_dir")
    /\ \E name \in {Argument} :
        \/ ~IsName(name) /\ Fail
        \/ IsName(name) /\ \E way \in remove_directory_recursive(outside, Values(name), FALSE) :
            IF way.error = "" THEN ReturnWith(memory, way.world)
            ELSE ReturnText(way.world, way.at \o <<58, 32>> \o strerror[way.error], Len(name) + 1)
=============================================================================
