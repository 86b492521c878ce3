---------------------------- MODULE FileMeanings ----------------------------
(***************************************************************************)
(* What the functions on files promise (docs/R_2.md): no table and no      *)
(* cells, but for each number that is open a stream with the file it reads *)
(* or writes, its place and its flags.  Effect(name, e, w) is the set of   *)
(* what <name e> may return and make of the world w, pairs of an           *)
(* expression and a world, empty when the call is impossible.              *)
(***************************************************************************)
EXTENDS Meanings, Paths

CONSTANTS DiskSize, MAX_PATHFILENAME

Label(name) == <<"F", <<"library", name>>>>
Null == Label("Null")
Texts == [ENOENT |-> <<78, 111, 32, 102, 105, 108, 101, 33>>,
          EINVAL |-> <<73, 110, 118, 97, 108, 105, 100>>,
          EIO    |-> <<73, 110, 47, 111, 117, 116, 33>>,
          EACCES |-> <<78, 111>>, EEXIST |-> <<73, 115>>, ENOTDIR |-> <<70, 105, 108, 101>>,
          EISDIR |-> <<68, 105, 114>>, ENOTEMPTY |-> <<70, 117, 108, 108>>,
          ENAMETOOLONG |-> <<76, 111, 110, 103>>,
          ESPIPE |-> <<80, 105, 112, 101>>]
Chars(codes) == [i \in DOMAIN codes |-> Char(codes[i])]
Error(error) == Chars(Texts[error])
Errors == {Error(error) : error \in DOMAIN Texts \ {"EIO", "EINVAL", "ESPIPE"}}
\* What cannot be done changes nothing and returns the reason.
Refusals(w) == {<<error, w>> : error \in Errors}
Codes(e) == [i \in DOMAIN e |-> e[i][2]]
AllChars(e) == \A i \in DOMAIN e : e[i][1] = "O"
IsPath(e) == AllChars(e) /\ Len(e) <= MAX_PATHFILENAME
From(e, i) == SubSeq(e, i, Len(e))

\* The file a call names with its first symbol: an open number or a standard stream.
Names(e, labels) == e # <<>> /\ (e[1][1] = "N" \/ e[1] \in {Label(l) : l \in labels})
IsOpen(w, t) == t[1] # "N" \/ t[2] \in DOMAIN w.open
StreamOf(w, t) == IF t[1] = "N" THEN w.open[t[2]] ELSE w.standard[t[2][2]]
With(w, t, s) == IF t[1] = "N" THEN [w EXCEPT !.open[t[2]] = s]
                 ELSE [w EXCEPT !.standard[t[2][2]] = s]
\* Nothing else is possible with a file that is not open.
On(w, e, valid, Results(_)) ==
    IF ~valid THEN {} ELSE IF ~IsOpen(w, e[1]) THEN {<<<<Null>>, w>>}
    ELSE Results(StreamOf(w, e[1]))
Reasons(s) == {Label("Feof") : x \in {1} \cap (IF s.eof THEN {1} ELSE {})}
              \cup {Label("Ferror") : x \in {1} \cap (IF s.error THEN {1} ELSE {})}

\* Whether the entry for a name may change, and whether a new one may be made.
Open(w, name) == FolderOf(Path(w, name)) \in w.folders \ w.sealed
MayMake(w, name) == name # <<>> /\ ~IsFile(w, name) /\ ~IsFolder(w, name) /\ Open(w, name)
\* One path lies in another, all that lies in one, and the world without some of it.
Above(p, q) == Len(p) < Len(q) /\ SubSeq(q, 1, Len(p) + 1) = Append(p, Slash)
Within(w, path) == {p \in DOMAIN w.names \cup w.folders : Above(path, p)}
Lost(w, paths) == [w EXCEPT !.names = [n \in DOMAIN @ \ paths |-> @[n]],
                            !.folders = @ \ paths, !.sealed = @ \ paths]

-----------------------------------------------------------------------------
Fopen(w, e) ==
    LET modes  == [c \in {Char(82), Char(114)} |-> "r"] @@ [c \in {Char(87), Char(119)} |-> "w"]
                  @@ [c \in {Char(65), Char(97)} |-> "a"]
        binary == Len(e) > 1 /\ e[2] \in {Char(66), Char(98)}
        rest   == From(e, IF binary THEN 3 ELSE 2)
        path   == Codes(Tail(rest))
        n      == rest[1][2]
        name   == Path(w, path)
        there  == IsFile(w, path)
        file   == IF there THEN w.names[name] ELSE Len(w.files) + 1
        kept   == IF there /\ modes[e[1]] # "w" THEN w.files[file] ELSE <<>>
        stream == [file |-> file, mode |-> modes[e[1]], open |-> TRUE, eof |-> FALSE,
                   error |-> FALSE, position |-> IF modes[e[1]] = "a" THEN Len(kept) ELSE 0]
    IN  IF e = <<>> \/ e[1] \notin DOMAIN modes \/ rest = <<>> THEN {}
        ELSE IF rest[1][1] # "N" \/ ~IsPath(Tail(rest)) THEN {}
        ELSE IF n \in DOMAIN w.open THEN {<<<<Null>>, w>>}
        ELSE IF ~there /\ (modes[e[1]] = "r" \/ ~MayMake(w, path)) THEN Refusals(w)
        ELSE {<<<<>>, [w EXCEPT !.open = (n :> stream) @@ @, !.names = (name :> file) @@ @,
                                !.files = (file :> kept) @@ @]>>}

Closed(w, n) == [w EXCEPT !.open = [m \in DOMAIN @ \ {n} |-> @[m]]]
Fclose(w, e) ==
    On(w, e, Len(e) = 1 /\ Names(e, {}), LAMBDA s :
        {<<<<>>, Closed(w, e[1][2])>>}
        \cup (IF s.mode = "r" THEN {} ELSE {<<Error("EIO"), Closed(w, e[1][2])>>}))

\* The bytes that can still be read, and a stream that has read n of them.
Ahead(w, s) == IF s.mode = "r" /\ ~s.eof THEN From(w.files[s.file], s.position + 1) ELSE <<>>
Ended(s) == IF s.mode = "r" THEN [s EXCEPT !.eof = TRUE] ELSE [s EXCEPT !.error = TRUE]
Taken(s, n) == [s EXCEPT !.position = @ + n]

\* The line up to a newline, which is taken as well, or all there is with the reason.
LineOf(w, t, s, Reason(_)) ==
    LET ahead == Ahead(w, s)
        ends  == {i \in DOMAIN ahead : ahead[i] = 10}
    IN  IF ends # {}
        THEN {<<Chars(SubSeq(ahead, 1, Min(ends) - 1)), With(w, t, Taken(s, Min(ends)))>>}
        ELSE LET after == Ended(Taken(s, Len(ahead)))
             IN  {<<Append(Chars(ahead), r), With(w, t, after)>> : r \in Reason(after)}
Fgets(w, e) == On(w, e, Len(e) = 1 /\ Names(e, {"Stdin"}), LAMBDA s : LineOf(w, e[1], s, Reasons))
Fread(w, e) ==
    On(w, e, Len(e) = 2 /\ Names(e, {}) /\ e[2][1] = "N", LAMBDA s :
        LET n     == e[2][2]
            ahead == Ahead(w, s)
            got(k) == [i \in 1 .. k |-> N(ahead[i])]
            after == Ended(Taken(s, Len(ahead)))
        IN  IF n <= Len(ahead) THEN {<<got(n), With(w, e[1], Taken(s, n))>>}
            ELSE {<<Append(got(Len(ahead)), r), With(w, e[1], after)>> : r \in Reasons(after)})

\* As many of the bytes as there is room for, and the reason if those are not all.
Put(w, t, s, bytes, limited) ==
    LET old   == w.files[s.file]
        at    == IF s.mode = "a" THEN Len(old) ELSE s.position
        room  == IF s.mode = "r" THEN 0 ELSE IF limited THEN Max({DiskSize - at, 0}) ELSE Len(bytes)
        count == Min({room, Len(bytes)})
        new   == [i \in 1 .. Max({Len(old), at + count}) |->
                     IF i \in at + 1 .. at + count THEN bytes[i - at]
                     ELSE IF i \in DOMAIN old THEN old[i] ELSE 0]
        moved == IF count = 0 THEN s ELSE [s EXCEPT !.position = at + count]
        after == IF count = Len(bytes) THEN moved ELSE [moved EXCEPT !.error = TRUE]
        world == With(IF count = 0 THEN w ELSE [w EXCEPT !.files[s.file] = new], t, after)
    IN  IF count = Len(bytes) THEN {<<<<>>, world>>} ELSE {<<<<r>>, world>> : r \in Reasons(after)}

Decimal(n) == Codes(CHOOSE text \in Symb(<<N(10), N(n)>>) : TRUE)
Shown(t) == CASE t[1] = "O" -> <<t[2]>> [] t = LB -> <<40>> [] t = RB -> <<41>>
              [] t[1] = "N" -> Decimal(t[2])
              [] t[1] = "F" -> Codes(Each([i \in DOMAIN t[2][2] |-> Char(t[2][2][i])], ToUpper))
ShownQuoted(t) == IF t[1] \in {"N", "F"} THEN <<39>> \o Shown(t) \o <<39>> ELSE Shown(t)
Text(e) == FlattenSeq(Each(e, Shown))
QuotedText(e) == FlattenSeq(Each(e, ShownQuoted))
\* Quotes at both ends of each run of characters, spaces where symbols would run together.
ProgramText(e) ==
    LET is(i, kinds) == i \in DOMAIN e /\ e[i][1] \in kinds
        quote(i, j) == IF is(i, {"O"}) /\ ~is(j, {"O"}) THEN <<39>> ELSE <<>>
        space(i) == IF \/ is(i, {"N"}) /\ is(i + 1, {"N"})
                       \/ is(i, {"F"}) /\ is(i + 1, {"N", "F"})
                    THEN <<32>> ELSE <<>>
    IN  FlattenSeq([i \in DOMAIN e |-> quote(i, i - 1) \o Shown(e[i]) \o quote(i, i + 1) \o space(i)])

WritesTo(w, e, labels, Valid(_), TextOf(_)) ==
    On(w, e, Names(e, labels) /\ \A i \in 2 .. Len(e) : Valid(e[i]), LAMBDA s :
        Put(w, e[1], s, TextOf(Tail(e)), e[1][1] = "N"))
Outputs == {"Stdout", "Stderr"}
IsByte(t) == t[1] \in {"O", "N"}
Bytes(e) == [i \in DOMAIN e |-> e[i][2] % 256]

Fseek(w, e) ==
    LET signed == Len(e) > 1 /\ e[2] \in Signs
        digits == SubSeq(e, IF signed THEN 3 ELSE 2, Len(e) - 1)
        offset == IF signed /\ e[2] = MinusSign THEN -Value(digits) ELSE Value(digits)
        valid  == /\ Names(e, {}) /\ Len(digits) \in 1 .. 2 /\ AllNumbers(digits)
                  /\ offset >= -(2 ^ (2 * W - 1)) /\ offset < 2 ^ (2 * W - 1)
                  /\ e[Len(e)] \in {Label("Begin"), Label("End"), Label("Current")}
    IN  On(w, e, valid, LAMBDA s :
            LET origin == e[Len(e)]
                to == offset + CASE origin = Label("Begin") -> 0
                                 [] origin = Label("End") -> Len(w.files[s.file])
                                 [] OTHER -> s.position
            IN  IF to < 0 THEN {<<Error("EINVAL"), w>>}
                ELSE {<<<<>>, With(w, e[1], [s EXCEPT !.position = to, !.eof = FALSE])>>})
Ftell(w, e) ==
    On(w, e, Len(e) = 1 /\ Names(e, {}), LAMBDA s :
        {<<IF s.position <= NUMBER THEN <<N(s.position)>>
           ELSE <<N(s.position \div (NUMBER + 1)), N(s.position % (NUMBER + 1))>>, w>>,
         <<Error("ESPIPE"), w>>})
Flagged(w, e, Flag(_)) ==
    On(w, e, Len(e) = 1 /\ Names(e, {"Stdin"} \cup Outputs), LAMBDA s : {<<<<Answer(Flag(s))>>, w>>})

Remove_file(w, e) ==
    IF ~IsPath(e) THEN {}
    ELSE IF ~(IsFile(w, Codes(e)) /\ Open(w, Codes(e))) THEN Refusals(w)
    ELSE {<<<<>>, [w EXCEPT !.names = [n \in DOMAIN @ \ {Path(w, Codes(e))} |-> @[n]]]>>}
Rename(w, e) ==
    LET zeros == {i \in DOMAIN e : e[i] = N(0)}
        zero  == CHOOSE i \in zeros : TRUE
        old   == SubSeq(e, 1, zero - 1)
        new   == From(e, zero + 1)
    IN  IF Cardinality(zeros) # 1 \/ ~(IsPath(old) /\ IsPath(new)) THEN {}
        ELSE LET from == Path(w, Codes(old))
                 to   == Path(w, Codes(new))
             IN  IF \/ ~IsFile(w, Codes(old)) \/ ~Open(w, Codes(old))
                    \/ ~((IsFile(w, Codes(new)) /\ Open(w, Codes(new))) \/ MayMake(w, Codes(new)))
                 THEN Refusals(w)
                 ELSE {<<<<>>, [w EXCEPT !.names = [n \in (DOMAIN @ \ {from}) \cup {to} |->
                                                       IF n = to THEN @[from] ELSE @[n]]]>>}
Exist_file(w, e) == IF IsPath(e) THEN {<<<<Answer(IsFile(w, Codes(e)))>>, w>>} ELSE {}

-----------------------------------------------------------------------------
\* Folders.
Make_dir(w, e) ==
    IF ~IsPath(e) THEN {} ELSE IF ~MayMake(w, Codes(e)) THEN Refusals(w)
    ELSE {<<<<>>, [w EXCEPT !.folders = @ \cup {Path(w, Codes(e))}]>>}
Remove_dir(w, e) ==
    LET path == Path(w, Codes(e))
    IN  IF ~IsPath(e) THEN {}
        ELSE IF ~(IsFolder(w, Codes(e)) /\ Open(w, Codes(e)) /\ Within(w, path) = {}) THEN Refusals(w)
        ELSE {<<<<>>, Lost(w, {path})>>}
Change_dir(w, e) ==
    IF ~IsPath(e) THEN {} ELSE IF ~IsFolder(w, Codes(e)) THEN Refusals(w)
    ELSE {<<<<>>, [w EXCEPT !.current = Path(w, Codes(e))]>>}
Get_current_dir(w, e) ==
    IF e # <<>> THEN {}
    ELSE {<<IF w.current \in w.folders THEN Chars(<<Slash>> \o w.current) ELSE <<>>, w>>}

\* The folder is emptied unless there is something in it that cannot be removed, or the
\* disk fails; then the call tells of one such thing, or of the entry or folder where the
\* disk failed, and in and beside the folders on the way there has removed, of all that
\* lies in one of these, the whole or nothing.
Clear_dir(w, e) ==
    LET name    == Codes(e)
        path    == Path(w, name)
        written(p) == name \o From(p, Len(path) + 1)
        stays   == {p \in Within(w, path) :
                       \/ FolderOf(p) \in w.sealed
                          /\ ~(p \in w.folders /\ Within(w, p) # {})
                       \/ Len(written(p)) > MAX_PATHFILENAME}
        reason(p) == IF Len(written(p)) > MAX_PATHFILENAME THEN "ENAMETOOLONG" ELSE "EACCES"
        cut(p)  == SubSeq(written(p), 1, Min({Len(written(p)), MAX_PATHFILENAME}))
        beside(p) == {q \in Within(w, path) : /\ ~Above(q, p) /\ q # p
                                              /\ FolderOf(q) \in {path, p} \/ Above(FolderOf(q), p)
                                              /\ (Within(w, q) \cup {q}) \cap stays = {}}
        stops   == {<<p, reason(p)>> : p \in stays}
                   \cup {<<p, "EIO">> : p \in {q \in Within(w, path) \cup {path} :
                                                Len(written(q)) <= MAX_PATHFILENAME}}
    IN  IF ~IsPath(e) THEN {}
        ELSE IF ~IsFolder(w, name) THEN {<<e \o Chars(<<58, 32>>) \o error, w>> : error \in Errors}
        ELSE (IF stays = {} THEN {<<<<>>, Lost(w, Within(w, path))>>} ELSE {})
             \cup {<<Chars(cut(stop[1]) \o <<58, 32>>) \o Error(stop[2]),
                     Lost(w, UNION {Within(w, q) \cup {q} : q \in gone})>> :
                      <<stop, gone>> \in UNION {{stop} \X SUBSET beside(stop[1]) : stop \in stops}}
Exist_dir(w, e) == IF IsPath(e) THEN {<<<<Answer(IsFolder(w, Codes(e)))>>, w>>} ELSE {}

\* What is printed goes to the end of the standard output.
Onto(w, text) == CHOOSE done \in Put(w, Label("Stdout"), w.standard["Stdout"], text, FALSE) : TRUE
Prints(w, e, returned, text) == {<<returned, Onto(w, text)[2]>>}
Card(w, e) ==
    LET prompted == IF e = <<>> THEN w ELSE Onto(w, Text(e))[2]
    IN  LineOf(prompted, Label("Stdin"), w.standard["Stdin"], LAMBDA s : {N(0)})
Get_char(w, e) ==
    LET s == w.standard["Stdin"]
    IN  IF e # <<>> THEN {}
        ELSE IF Ahead(w, s) = <<>> THEN {<<<<N(0)>>, With(w, Label("Stdin"), Ended(s))>>}
        ELSE {<<<<Char(Ahead(w, s)[1])>>, With(w, Label("Stdin"), Taken(s, 1))>>}

-----------------------------------------------------------------------------
\* What the program was started with, and the commands it runs.
Arg(w, e) ==
    IF Len(e) # 1 \/ ~AllNumbers(e) THEN {}
    ELSE {<<IF e[1][2] < Len(w.arguments) THEN Chars(w.arguments[e[1][2] + 1]) ELSE <<>>, w>>}
Get_env(w, e) ==
    IF ~AllChars(e) THEN {}
    ELSE {<<IF Codes(e) \in DOMAIN w.environment THEN Chars(w.environment[Codes(e)]) ELSE <<Null>>, w>>}
System(w, e) ==
    IF ~AllChars(e) THEN {}
    ELSE {<<result, [w EXCEPT !.commands = Append(@, Codes(e))]>> :
             result \in {<<MinusSign, N(1)>>, <<N(0)>>, <<N(2)>>}}

\* The program ends: nothing is returned.
Exits(e) == LET n == IF e # <<>> /\ e[1] \in Signs THEN Tail(e) ELSE e
            IN  Len(n) = 1 /\ AllNumbers(n)
Random(w, e) ==
    IF Len(e) # 1 \/ ~AllNumbers(e) THEN {}
    ELSE {<<Each(numbers, N), w>> :
             numbers \in UNION {[1 .. count -> {0, 3, NUMBER - 1, NUMBER}] : count \in 1 .. e[1][2]}}
Random_number(w, e) ==
    IF Len(e) # 1 \/ ~AllNumbers(e) THEN {} ELSE {<<<<N(n)>>, w>> : n \in 0 .. e[1][2]}

-----------------------------------------------------------------------------
\* Functab and Chartof keep their labels; the other functions leave the world alone.
Kept(w, label) == IF Contains(w.labels, label) THEN w ELSE [w EXCEPT !.labels = Append(@, label)]

Effect(name, e, w) ==
    CASE name = "Fopen" -> Fopen(w, e)
      [] name = "Fclose" -> Fclose(w, e)
      [] name = "Fgets" -> Fgets(w, e)
      [] name = "Fread" -> Fread(w, e)
      [] name = "Fputs" -> WritesTo(w, e, Outputs, LAMBDA t : t[1] = "O", Text)
      [] name = "Fprint" -> WritesTo(w, e, Outputs, LAMBDA t : TRUE, QuotedText)
      [] name = "Fprints" -> WritesTo(w, e, Outputs, LAMBDA t : TRUE, Text)
      [] name = "Fprintm" -> WritesTo(w, e, Outputs, LAMBDA t : TRUE, ProgramText)
      [] name = "Fwrite" -> WritesTo(w, e, {}, IsByte, Bytes)
      [] name = "Fseek" -> Fseek(w, e)
      [] name = "Ftell" -> Ftell(w, e)
      [] name = "Is_eof" -> Flagged(w, e, LAMBDA s : s.eof \/ s.error)
      [] name = "Is_feof" -> Flagged(w, e, LAMBDA s : s.eof)
      [] name = "Is_ferror" -> Flagged(w, e, LAMBDA s : s.error)
      [] name = "Remove_file" -> Remove_file(w, e)
      [] name = "Rename" -> Rename(w, e)
      [] name = "Exist_file" -> Exist_file(w, e)
      [] name = "Make_dir" -> Make_dir(w, e)
      [] name = "Remove_dir" -> Remove_dir(w, e)
      [] name = "Change_dir" -> Change_dir(w, e)
      [] name = "Get_current_dir" -> Get_current_dir(w, e)
      [] name = "Clear_dir" -> Clear_dir(w, e)
      [] name = "Exist_dir" -> Exist_dir(w, e)
      [] name = "Card" -> Card(w, e)
      [] name = "Get_char" -> Get_char(w, e)
      [] name = "Print" -> Prints(w, e, e, Append(QuotedText(e), 10))
      [] name = "Prints" -> Prints(w, e, e, Append(Text(e), 10))
      [] name = "Printm" -> Prints(w, e, e, Append(ProgramText(e), 10))
      [] name = "Prout" -> Prints(w, e, <<>>, Append(QuotedText(e), 10))
      [] name = "Prouts" -> Prints(w, e, <<>>, Append(Text(e), 10))
      [] name = "Proutm" -> Prints(w, e, <<>>, Append(ProgramText(e), 10))
      [] name = "Write" -> Prints(w, e, e, QuotedText(e))
      [] name = "Writes" -> Prints(w, e, e, Text(e))
      [] name = "Writem" -> Prints(w, e, e, ProgramText(e))
      [] name = "Wrout" -> Prints(w, e, <<>>, QuotedText(e))
      [] name = "Wrouts" -> Prints(w, e, <<>>, Text(e))
      [] name = "Wroutm" -> Prints(w, e, <<>>, ProgramText(e))
      [] name = "Arg" -> Arg(w, e)
      [] name = "Get_env" -> Get_env(w, e)
      [] name = "System" -> System(w, e)
      [] name = "Exit" -> IF Exits(e) THEN {<<<<>>, w>>} ELSE {}
      [] name = "Random" -> Random(w, e)
      [] name = "Random_number" -> Random_number(w, e)
      [] name = "Functab" -> {<<r, Kept(w, e[1][2])>> : r \in Meaning(name, e, w.labels)}
      [] name = "Chartof" -> {<<r, Kept(w, r[1][2])>> : r \in Meaning(name, e, w.labels)}
      [] OTHER -> {<<r, w>> : r \in Meaning(name, e, w.labels)}
=============================================================================
