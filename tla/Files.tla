-------------------------------- MODULE Files --------------------------------
(***************************************************************************)
(* Functions on files: inter/xfileio.c, the table of open files in         *)
(* inter/interface.c and the standard streams of inter/xio.c.  A program   *)
(* names an open file by a number; outside.chains, the file_table of the   *)
(* code, has the numbers in chains, one for each value of file_hash().     *)
(* What a function has done to the files is not undone when it then finds  *)
(* that it lacks memory.                                                   *)
(***************************************************************************)
EXTENDS Lexical, Stdio

CONSTANTS
    Hash,               \* file_hash(): the chain of each number
    MAX_PATHFILENAME    \* the longest name of a file

Newline == 10
LibraryLabel(name) == <<"F", <<"library", name>>>>

-----------------------------------------------------------------------------
\* The table of open files.

HasNumber(node, number) == node[1] = number

file_get(world, number) ==
    LET found == SelectSeq(world.chains[Hash[number]], LAMBDA node : HasNumber(node, number))
    IN  IF found = <<>> THEN NoFile ELSE found[1][2]

file_add(world, number, s) ==
    [world EXCEPT !.chains[Hash[number]] = <<<<number, s>>>> \o @]

\* A faulty removal: the chain is cut at the node, not closed behind it.
file_cut(world, number) ==
    [world EXCEPT !.chains[Hash[number]] =
        LET at == CHOOSE i \in DOMAIN @ : HasNumber(@[i], number) IN SubSeq(@, 1, at - 1)]

file_remove(world, number) ==
    [world EXCEPT !.chains[Hash[number]] =
        LET at == CHOOSE i \in DOMAIN @ : HasNumber(@[i], number) IN RemoveAt(@, at)]

-----------------------------------------------------------------------------
\* Arguments and results.

\* The streams that a call may name by their labels.
Standard == [Stdin |-> stdin, Stdout |-> stdout, Stderr |-> stderr]
Input == {"Stdin"}
Output == {"Stdout", "Stderr"}

\* The first symbol is a number, or the label of one of these streams.
NamesFile(labels) == \/ Tag(A1) = "N"
                     \/ Tag(A1) = "F" /\ \E name \in labels : Is(A1, "F", <<"library", name>>)
File == IF Tag(A1) = "N" THEN file_get(outside, Info(A1)) ELSE Standard[Info(A1)[2]]
Alone == After(A1) = NA
Rest == Cells(After(A1), NA)

\* get_string_expression(): the characters in front, no more than MAX_PATHFILENAME.
IsName(cells) == /\ Len(cells) <= MAX_PATHFILENAME
                 /\ \A i \in DOMAIN cells : Tag(cells[i]) = "O"

\* The label of the call becomes the result.
ReturnLabel(world, name) ==
    ReturnWith(Move(Put(memory, <<PA>>, <<LibraryLabel(name)>>), PR, Before(PA), A1), world)
ReturnNull == ReturnLabel(outside, "Null")

\* set_eof_linkcb(): the label for what ended a transfer.
EndName(world, s) == IF Stream(world, s).eof THEN "Feof" ELSE "Ferror"

\* The text over the cells of the call and as many more as it needs.
ReturnText(world, text, cells) ==
    UsingWith(world, NR, IF Len(text) > cells THEN Len(text) - cells ELSE 0, LAMBDA m :
        \E all \in {Following(m.heap, NR, Len(text))} :
            ReturnWith(Move(Put(m, all, Chars(text)), PR, NR, m.heap.next[all[Len(text)]]), world))
ReturnError(world, error, cells) == ReturnText(world, strerror[error], cells)

\* A change of the disk returns nothing, or why it was refused.
ReturnChange(change, cells) ==
    IF change.error = "" THEN ReturnWith(memory, change.world)
    ELSE ReturnError(change.world, change.error, cells)

-----------------------------------------------------------------------------
\* Opening and closing.

Modes == [c \in {82, 114} |-> "r"] @@ [c \in {87, 119} |-> "w"] @@ [c \in {65, 97} |-> "a"]
IsMode(c) == Tag(c) = "O" /\ Info(c) \in DOMAIN Modes
IsBinary(c) == Tag(c) = "O" /\ Info(c) \in {66, 98}

fopen_ ==
    /\ Called("Fopen")
    /\ LET arg   == Argument
           n     == IF Len(arg) > 1 /\ Tag(arg[2]) = "O" THEN 3 ELSE 2   \* place of the number
           name  == SubSeq(arg, n + 1, Len(arg))
           valid == /\ Len(arg) >= n /\ IsMode(arg[1]) /\ Tag(arg[n]) = "N"
                    /\ n = 3 => IsBinary(arg[2])
                    /\ IsName(name)
       IN  \/ ~valid /\ Fail
           \/ valid /\ file_get(outside, Info(arg[n])) # NoFile /\ ReturnNull
           \/ /\ valid /\ file_get(outside, Info(arg[n])) = NoFile
              /\ \E opened \in {fopen(outside, Values(name), Modes[Info(arg[1])])} :
                    \/ opened.stream = NoFile /\ ReturnError(outside, opened.error, Len(arg) + 1)
                    \/ /\ opened.stream # NoFile
                       /\ ReturnWith(memory, file_add(opened.world, Info(arg[n]), opened.stream))
                    \/ /\ opened.stream # NoFile    \* no memory for a node of the table
                       /\ Stop(fclose(opened.world, opened.stream))

\* What has been written may turn out to have been lost only now.
fclose_ ==
    /\ Called("Fclose")
    /\ \/ ~(Tag(A1) = "N" /\ Alone) /\ Fail
       \/ Tag(A1) = "N" /\ Alone /\ File = NoFile /\ ReturnNull
       \/ /\ Tag(A1) = "N" /\ Alone /\ File # NoFile
          /\ \E world \in {fclose(file_remove(outside, Info(A1)), File)} :
                \/ ReturnWith(memory, world)
                \/ Stream(outside, File).mode # "r" /\ ReturnError(world, "EIO", 2)

-----------------------------------------------------------------------------
\* Reading.

\* The cells up to the end of the line are taken one by one behind where; ends has the
\* symbol for each end of the input.
RECURSIVE Line(_, _, _, _, _)
Line(m, world, s, where, ends) ==
    ByValue(getc(world, s), LAMBDA got : ByValue(GrownTo(m, 1), LAMBDA g :
        LET n == Inserted(g, where, 1)
            c == n.heap.next[where]
        IN  IF got.byte = Newline THEN [m |-> m, world |-> got.world, full |-> TRUE]
            ELSE IF ~HasCells(g.heap, FreeHead, 1)
            THEN [m |-> g, world |-> got.world, full |-> FALSE]
            ELSE IF got.byte = EOF
            THEN [m |-> Put(n, <<c>>, <<ends[EndName(got.world, s)]>>), world |-> got.world,
                  full |-> TRUE]
            ELSE Line(Put(n, <<c>>, Chars(<<got.byte>>)), got.world, s, c, ends)))

ReturnLine(world, s, ends) ==
    \E line \in {Line(memory, world, s, PR, ends)} :
        IF line.full THEN ReturnWith(line.m, line.world) ELSE LackWith(line.m, line.world)

fgets_ ==
    /\ Called("Fgets")
    /\ LET valid == NamesFile(Input) /\ Alone
       IN  \/ ~valid /\ Fail
           \/ valid /\ File = NoFile /\ ReturnNull
           \/ valid /\ File # NoFile
              /\ ReturnLine(outside, File, [end \in {"Feof", "Ferror"} |-> LibraryLabel(end)])

\* The bytes for the cells; at the end of the file the cells left over are given back.
RECURSIVE Bytes(_, _, _, _)
Bytes(m, world, s, cells) ==
    IF cells = <<>> THEN [m |-> m, world |-> world]
    ELSE ByValue(getc(world, s), LAMBDA got :
        IF got.byte = EOF
        THEN [world |-> got.world,
              m |-> Release(Put(m, <<cells[1]>>, <<LibraryLabel(EndName(got.world, s))>>), cells[1], NR)]
        ELSE Bytes(Put(m, <<cells[1]>>, Digits(<<got.byte>>)), got.world, s, Tail(cells)))

\* All the cells are taken before the first byte is read.
fread_ ==
    /\ Called("Fread")
    /\ LET valid == Tag(A1) = "N" /\ Tag(After(A1)) = "N" /\ After(After(A1)) = NA
       IN  \/ ~valid /\ Fail
           \/ valid /\ File = NoFile /\ ReturnNull
           \/ valid /\ File # NoFile /\ \E s \in {File}, count \in {Info(After(A1))} :
                Using(PR, count, LAMBDA m :
                    \E got \in {Bytes(m, outside, s, Following(m.heap, PR, count))} :
                        ReturnWith(got.m, got.world))

-----------------------------------------------------------------------------
\* Writing: symbol by symbol, until one cannot be written.

\* The texts are written one after the other; a failure is the result of the call.
ReturnWritten(s, texts) ==
    \E put \in {fputs(outside, s, FlattenSeq(texts))} :
        \/ put.ok /\ ReturnWith(memory, put.world)
        \/ ~put.ok /\ ReturnLabel(put.world, EndName(put.world, s))

WriteSymbols(streams, Valid(_), Texts(_)) ==
    LET valid == NamesFile(streams) /\ \A i \in DOMAIN Rest : Valid(Rest[i])
    IN  \/ ~valid /\ Fail
        \/ valid /\ File = NoFile /\ ReturnNull
        \/ valid /\ File # NoFile /\ ReturnWritten(File, Texts(Rest))

\* The characters of a symbol or bracket, quote around those of numbers and labels.
Quote == 39
Space == 32
Upper(codes) == [i \in DOMAIN codes |->
                    IF codes[i] \in 97 .. 122 THEN codes[i] - 32 ELSE codes[i]]
Plain(c) == CASE Tag(c) = "O"  -> <<Info(c)>>
              [] Tag(c) = "LB" -> <<40>>
              [] Tag(c) = "RB" -> <<41>>
              [] Tag(c) = "N"  -> Spelled(Info(c), 10)
              [] Tag(c) = "F"  -> Upper(Info(c)[2])
Quoted(c) == IF Tag(c) \in {"N", "F"} THEN <<Quote>> \o Plain(c) \o <<Quote>> ELSE Plain(c)
Each(cells, Text(_)) == [i \in DOMAIN cells |-> Text(cells[i])]

\* The form of a program: quotes around characters, spaces between numbers and labels.
Meta(cells) ==
    LET char(i)  == i \in DOMAIN cells /\ Tag(cells[i]) = "O"
        quote(i) == IF char(i) # char(i - 1) THEN <<Quote>> ELSE <<>>
        next(i)  == Tag(After(cells[i]))
        space(i) == IF \/ Tag(cells[i]) = "N" /\ next(i) = "N"
                       \/ Tag(cells[i]) = "F" /\ next(i) \in {"N", "F"}
                    THEN <<Space>> ELSE <<>>
    IN  [i \in 1 .. Len(cells) + 1 |->
            IF i > Len(cells) THEN quote(i) ELSE quote(i) \o Plain(cells[i]) \o space(i)]

fputs_ == Called("Fputs") /\ WriteSymbols(Output, LAMBDA c : Tag(c) = "O",
                                          LAMBDA cells : Each(cells, Plain))
fprint_ == Called("Fprint") /\ WriteSymbols(Output, LAMBDA c : TRUE,
                                            LAMBDA cells : Each(cells, Quoted))
fprints_ == Called("Fprints") /\ WriteSymbols(Output, LAMBDA c : TRUE,
                                              LAMBDA cells : Each(cells, Plain))
fprintm_ == Called("Fprintm") /\ WriteSymbols(Output, LAMBDA c : TRUE, Meta)
fwrite_ == Called("Fwrite") /\ WriteSymbols({}, LAMBDA c : Tag(c) \in {"O", "N"},
                LAMBDA cells : Each(cells, LAMBDA c : <<Info(c) % 256>>))

-----------------------------------------------------------------------------
\* Positions and flags.

Origins == {"Begin", "End", "Current"}

fseek_ ==
    /\ Called("Fseek")
    /\ LET arg    == Argument
           first  == IF Len(arg) > 1 /\ IsSign(arg[2]) THEN 3 ELSE 2   \* place of the offset
           last   == Len(arg) - 1
           label  == arg[Len(arg)]
           digits == SubSeq(arg, first, last)
           offset == FoldLeft(LAMBDA v, c : 2 ^ W * v + Info(c), 0, digits)
           negative == Is(arg[2], "O", Minus)
           valid  == /\ Len(arg) > first /\ Tag(arg[1]) = "N"
                     /\ Len(digits) \in 1 .. 2 /\ Numbers(digits)
                     /\ Len(digits) = 2 => \/ offset < 2 ^ (2 * W - 1)
                                           \/ negative /\ offset = 2 ^ (2 * W - 1)
                     /\ \E name \in Origins : Is(label, "F", <<"library", name>>)
       IN  \/ ~valid /\ Fail
           \/ valid /\ File = NoFile /\ ReturnNull
           \/ valid /\ File # NoFile
              /\ \E sought \in {fseeko(outside, File, IF negative THEN -offset ELSE offset,
                                       Info(label)[2])} :
                    \/ sought.ok /\ ReturnWith(memory, sought.world)
                    \/ ~sought.ok /\ ReturnError(outside, "EINVAL", Len(arg) + 1)

\* The label of the call becomes the high digit of a position beyond one macrodigit.
\* ftello() fails on what has no positions, a pipe.
ftell_ ==
    /\ Called("Ftell")
    /\ LET valid    == Tag(A1) = "N" /\ Alone
           position == Stream(outside, File).position
       IN  \/ ~valid /\ Fail
           \/ valid /\ File = NoFile /\ ReturnNull
           \/ valid /\ File # NoFile /\ ReturnError(outside, "ESPIPE", 2)
           \/ /\ valid /\ File # NoFile /\ position <= MAX_NUMBER
              /\ Return(Move(Put(memory, <<A1>>, Digits(<<position>>)), PR, PA, NA))
           \/ /\ valid /\ File # NoFile /\ position > MAX_NUMBER
              /\ Return(Move(Put(memory, <<PA, A1>>,
                                 Digits(<<position \div 2 ^ W, position % 2 ^ W>>)), PR, NR, NA))

Asks(Flag(_)) ==
    LET valid == NamesFile(Input \cup Output) /\ Alone
    IN  \/ ~valid /\ Fail
        \/ valid /\ File = NoFile /\ ReturnNull
        \/ valid /\ File # NoFile
           /\ ReturnLabel(outside, IF Flag(Stream(outside, File)) THEN "True" ELSE "False")

is_eof_ == Called("Is_eof") /\ Asks(LAMBDA s : s.eof \/ s.error)
is_feof_ == Called("Is_feof") /\ Asks(LAMBDA s : s.eof)
is_ferror_ == Called("Is_ferror") /\ Asks(LAMBDA s : s.error)

-----------------------------------------------------------------------------
\* Files on the disk.

remove_file_ ==
    /\ Called("Remove_file")
    /\ \E name \in {Argument} :
        \/ ~IsName(name) /\ Fail
        \/ IsName(name) /\ ReturnChange(unlink(outside, Values(name)), Len(name) + 1)

rename_ ==
    /\ Called("Rename")
    /\ LET arg  == Argument
           zero == Min({i \in DOMAIN arg : Tag(arg[i]) # "O"} \cup {Len(arg) + 1})
           old  == SubSeq(arg, 1, zero - 1)
           new  == SubSeq(arg, zero + 1, Len(arg))
           valid == /\ zero \in DOMAIN arg /\ Is(arg[zero], "N", 0)
                    /\ IsName(old) /\ IsName(new)
       IN  \/ ~valid /\ Fail
           \/ valid /\ ReturnChange(rename(outside, Values(old), Values(new)), Len(arg) + 1)

exist_file_ ==
    /\ Called("Exist_file")
    /\ \E name \in {Argument} :
        \/ ~IsName(name) /\ Fail
        \/ /\ IsName(name)
           /\ ReturnLabel(outside, IF IsFile(outside, Values(name))
                                   THEN "True" ELSE "False")

-----------------------------------------------------------------------------
\* xio.c: the standard streams.  Printing never fails.

Printed(texts) == fputs(outside, stdout, FlattenSeq(texts)).world

\* Card may print before it reads; the end of the input is a zero.
card_ ==
    /\ Called("Card")
    /\ ReturnLine(IF A1 = NA THEN outside ELSE Printed(Each(Argument, Plain)), stdin,
                  [end \in {"Feof", "Ferror"} |-> <<"N", 0>>])

get_char_ ==
    /\ Called("Get_char")
    /\ \/ A1 # NA /\ Fail
       \/ A1 = NA /\ \E got \in {getc(outside, stdin)} :
            ReturnWith(Move(Put(memory, <<PA>>, IF got.byte = EOF THEN Digits(<<0>>)
                                                ELSE Chars(<<got.byte>>)),
                            PR, Before(PA), A1), got.world)

\* Those with an r return the argument, those with ut nothing; Wr- end no line.
Show(returns, Texts(_), end) ==
    ReturnWith(IF returns THEN Move(memory, PR, PA, NA) ELSE memory,
               Printed(Append(Texts(Argument), end)))
EndLine == <<Newline>>
QuotedTexts(cells) == Each(cells, Quoted)
PlainTexts(cells) == Each(cells, Plain)

print_ == Called("Print") /\ Show(TRUE, QuotedTexts, EndLine)
prints_ == Called("Prints") /\ Show(TRUE, PlainTexts, EndLine)
printm_ == Called("Printm") /\ Show(TRUE, Meta, EndLine)
prout_ == Called("Prout") /\ Show(FALSE, QuotedTexts, EndLine)
prouts_ == Called("Prouts") /\ Show(FALSE, PlainTexts, EndLine)
proutm_ == Called("Proutm") /\ Show(FALSE, Meta, EndLine)
write_ == Called("Write") /\ Show(TRUE, QuotedTexts, <<>>)
writes_ == Called("Writes") /\ Show(TRUE, PlainTexts, <<>>)
writem_ == Called("Writem") /\ Show(TRUE, Meta, <<>>)
wrout_ == Called("Wrout") /\ Show(FALSE, QuotedTexts, <<>>)
wrouts_ == Called("Wrouts") /\ Show(FALSE, PlainTexts, <<>>)
wroutm_ == Called("Wroutm") /\ Show(FALSE, Meta, <<>>)
=============================================================================
