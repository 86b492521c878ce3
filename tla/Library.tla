------------------------------- MODULE Library -------------------------------
(***************************************************************************)
(* The library functions at work in a view field: the calls are done one   *)
(* after the other, in the order of their '>', each by its C function, and *)
(* the field is compared with what module Meanings says of expressions.    *)
(***************************************************************************)
EXTENDS Relations, Commands

M == INSTANCE FileMeanings

\* The program has ended, or goes on with a function that is not modelled.
Ended == /\ \/ state \in {"RCGIMP", "ABORT", "LACK", "EXIT"}
            \/ state = "START" /\ dot = NULL
            \/ state = "START" /\ dot # NULL /\ Info(After(Info(dot)))[1] # "library"
         /\ UNCHANGED vars

Next ==
    \/ Start \/ Done \/ Again \/ Ended
    \/ numb_ \/ symb_ \/ first_ \/ last_ \/ left_ \/ right_ \/ del_left_ \/ del_right_
    \/ length_ \/ lengthw_ \/ multe_ \/ chr_ \/ ord_ \/ upper_ \/ lower_
    \/ empty_ \/ unbrackets_ \/ reverse_ \/ reversew_
    \/ existw_ \/ existn_ \/ delf_ \/ ftochar_ \/ functab_ \/ chartof_
    \/ band_ \/ bor_ \/ bxor_ \/ bnot_ \/ shl_ \/ shr_
    \/ bitand_ \/ bitor_ \/ bitxor_ \/ bitnot_ \/ bitsh_ \/ bitrot_ \/ bit_
    \/ nrel_ \/ lrel_ \/ arg_ \/ get_env_ \/ system_ \/ exit_ \/ random_ \/ random_number_
    \/ fopen_ \/ fclose_ \/ fgets_ \/ fread_ \/ fputs_ \/ fprint_ \/ fprints_ \/ fprintm_
    \/ fwrite_ \/ fseek_ \/ ftell_ \/ is_eof_ \/ is_feof_ \/ is_ferror_
    \/ remove_file_ \/ rename_ \/ exist_file_ \/ make_dir_ \/ remove_dir_ \/ clear_dir_
    \/ exist_dir_ \/ change_dir_ \/ get_current_dir_ \/ card_ \/ get_char_
    \/ print_ \/ prints_ \/ printm_ \/ prout_ \/ prouts_ \/ proutm_
    \/ write_ \/ writes_ \/ writem_ \/ wrout_ \/ wrouts_ \/ wroutm_

Spec == Init /\ [][Next]_vars

-----------------------------------------------------------------------------
\* The field when the step began: the leading call and what stands around it.
Leading == NextDot(began.field, 0)
Opening == Mate(began.field, Leading)
Name == began.field[Opening + 1][2][2]
Argued == SubSeq(began.field, Opening + 2, Leading - 1)
Around(result) == SubSeq(began.field, 1, Opening - 1) \o result
                      \o SubSeq(began.field, Leading + 1, Len(began.field))

\* Delf: the calls up to one that '#' follows go, with the '#'.  The code does not look at
\* the tag, and so takes a number for it as well; docs/R_2.md knows the character only.
Dots == {i \in DOMAIN began.field : i > Leading /\ began.field[i][1] = "D"}
MarkedDots == {i \in Dots : i < Len(began.field)
                            /\ began.field[i + 1] \in {<<"O", Sharp>>, <<"N", Sharp>>}}
Without(positions) ==
    LET kept == SelectSeq([i \in DOMAIN began.field |-> i], LAMBDA i : i \notin positions)
    IN  [i \in DOMAIN kept |-> began.field[kept[i]]]
DelfMeaning ==
    IF Argued # <<>> \/ MarkedDots = {} THEN {}
    ELSE LET last  == Min(MarkedDots)
             calls == {Leading} \cup {d \in Dots : d <= last}
         IN  {Without({last + 1} \cup UNION {Mate(began.field, d) .. d : d \in calls})}

\* Chr: docs/R_2.md:1236 has (65) become ('A'), the code makes every number the character 0.
ChrMeaning == [i \in DOMAIN Argued |-> IF Argued[i][1] = "N" THEN <<"O", 0>> ELSE Argued[i]]

\* The labels of the name that Chartof gets, oldest first.  Of several the code takes the
\* first; docs/R_2.md:2306 says the one that Functab has registered, if it has any.
Labelled(world) ==
    LET upper(t) == M!ToUpper(t)[2]
    IN  SelectSeq(world.labels, LAMBDA l : l[2] = [i \in DOMAIN Argued |-> upper(Argued[i])])

\* What the world is for module FileMeanings: the file of each open number, whatever
\* chain has it, the standard streams, the files and labels.
Nodes(world) == UNION {ToSet(world.chains[h]) : h \in DOMAIN world.chains}
Abstract(world) ==
    [open     |-> [n \in {node[1] : node \in Nodes(world)} |-> Stream(world, file_get(world, n))],
     standard |-> [l \in DOMAIN Standard |-> Stream(world, Standard[l])],
     names     |-> world.names, files |-> world.files, labels |-> world.labels,
     arguments |-> world.arguments, environment |-> world.environment,
     commands  |-> world.commands, folders |-> world.folders, sealed |-> world.sealed,
     current   |-> world.current]

\* The fields the leading call may make in the world given, each with what becomes of it:
\* what docs/R_2.md says of it, and for the three calls of which the code does something
\* else, what the code does.
Promised(world) ==
    CASE Name = "Delf" -> {<<field, world>> : field \in DelfMeaning}
      [] Name = "Chr" /\ ChrMeaning # Argued -> {<<Around(ChrMeaning), world>>}
      [] Name = "Chartof" /\ M!AllChars(Argued) /\ Len(Labelled(world)) > 1 ->
            {<<Around(<<<<"F", Labelled(world)[1]>>>>), world>>}
      [] OTHER -> {<<Around(effect[1]), effect[2]>> : effect \in M!Effect(Name, Argued, world)}

\* What has been done of the step that was to be done in this world: it has ended, or
\* it has stopped, and then the field is to be as it was.
AsPromised(world) ==
    CASE state = "START" ->
            began.field = <<>> \/ <<Field, Abstract(outside)>> \in Promised(Abstract(world))
      [] state = "RCGIMP" ->
            Promised(Abstract(world)) = {} /\ Field = began.field /\ outside = world
      [] state \in {"AGAIN", "LACK"} ->
            Field = began.field /\ (outside = world \/ Name \in {"Fgets", "Card", "Fclose",
                                                              "System", "Clear_dir"})
      [] state = "ABORT" -> Field = began.field
      [] state = "EXIT" -> Name = "Exit" /\ M!Exits(Argued) /\ outside = world
      [] OTHER -> TRUE

(***************************************************************************)
(* Each call is replaced by what docs/R_2.md promises of it (Promised      *)
(* names the exceptions), and nothing else in the view field or in the     *)
(* world changes; a call that is                                           *)
(* impossible is one that has no result, and a step that stops, for that   *)
(* reason or for want of memory, leaves the field as it was, so that it    *)
(* can be printed or the step be done again.  A call done again is to have *)
(* the effect it promises in the world its first attempt has left: only    *)
(* Fgets, Card, Fclose, System and Clear_Dir can have changed it.          *)
(***************************************************************************)
CallsMean == began.field = <<>> \/ AsPromised(began.entered)

(***************************************************************************)
(* However files are opened and closed, under numbers that share a chain   *)
(* of the table and under names removed or given away meanwhile, a number  *)
(* stands in its own chain and in one place there, what it stands for is   *)
(* an open stream, and no open stream is without a number: none is lost    *)
(* with what was written to it, none can be closed twice.                  *)
(***************************************************************************)
FilesKept ==
    state # "ABORT" =>
        /\ \A h \in DOMAIN outside.chains : \E chain \in {outside.chains[h]} :
              \A i \in DOMAIN chain :
                  /\ Hash[chain[i][1]] = h /\ Stream(outside, chain[i][2]).open
                  /\ \A j \in 1 .. i - 1 : chain[i][1] # chain[j][1]
        /\ \A s \in DOMAIN outside.streams \ {stdin, stdout, stderr} :
              Stream(outside, s).open
                  => Cardinality({node \in Nodes(outside) : node[2] = s}) = 1

InField == ToSet(Cells(After(View), View))
Free == ToSet(Cells(After(FreeHead), FreeHead))

\* The pointers inside the field: partners of brackets, the chain of calls.
Paired ==
    \E cells \in {Cells(After(View), View)}, field \in {Field} :
        /\ \A i \in DOMAIN cells :
              CASE Tag(cells[i]) \in {"LB", "RB", "D"} -> Info(cells[i]) = cells[Mate(field, i)]
                [] Tag(cells[i]) = "K" ->
                      LET next == NextDot(field, Mate(field, i))
                      IN  Info(cells[i]) = IF next > Len(cells) THEN NULL ELSE cells[next]
                [] OTHER -> TRUE
        /\ dot = LET first == NextDot(field, 0)
                 IN  IF first > Len(cells) THEN NULL ELSE cells[first]

(***************************************************************************)
(* However a function cuts, turns and writes over the cells of its call,   *)
(* each cell stays in exactly one of the two rings, which are doubly       *)
(* linked, and between two steps the brackets of the field point to their  *)
(* partners and its calls are chained in the order of their '>'.           *)
(***************************************************************************)
ListsKept ==
    /\ DoublyLinked(memory.heap)
    /\ InField \cap Free = {}
    /\ \A c \in Cell \ ({View, FreeHead} \cup InField \cup Free) : After(c) = c
    /\ state \notin {"CFUNC", "CFDONE", "CFLACK"} => Paired
=============================================================================
