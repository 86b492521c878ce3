-------------------------------- MODULE Stdio --------------------------------
(***************************************************************************)
(* What the functions on files expect of the C library and of the disk:    *)
(* fopen, getc, putc, fputs, fseeko, ftello and fclose, on the record      *)
(* world of module Paths, in which files are the bytes of each file and    *)
(* streams the FILE objects, closed ones included.                         *)
(* What is written is in the file at once: buffers are not modelled.       *)
(***************************************************************************)
EXTENDS Paths

CONSTANT DiskSize   \* bytes a file can have

EOF == -1
stdin == 1
stdout == 2
stderr == 3
NoFile == 0         \* the NULL pointer to a FILE

\* strerror(): texts longer and shorter than the arguments they take the place of.
strerror == [ENOENT |-> <<78, 111, 32, 102, 105, 108, 101, 33>>,
             EINVAL |-> <<73, 110, 118, 97, 108, 105, 100>>,
             EIO    |-> <<73, 110, 47, 111, 117, 116, 33>>,
             EACCES |-> <<78, 111>>, EEXIST |-> <<73, 115>>, ENOTDIR |-> <<70, 105, 108, 101>>,
             EISDIR |-> <<68, 105, 114>>, ENOTEMPTY |-> <<70, 117, 108, 108>>,
             ENAMETOOLONG |-> <<76, 111, 110, 103>>,
             ESPIPE |-> <<80, 105, 112, 101>>]

\* What system() can make of a command that could not be started, and of two that ended.
SystemResults == {-1, 0, 2}

Stream(world, s) == world.streams[s]
Contents(world, s) == world.files[Stream(world, s).file]

\* The stream and its flags after an attempt that found the end, or an error.
AtEnd(world, s) == [world EXCEPT !.streams[s].eof = TRUE]
InError(world, s) == [world EXCEPT !.streams[s].error = TRUE]

\* fopen(): the world and the stream, or NoFile and why: a file to be read that is not
\* there, one to be written that cannot be made.
fopen(world, name, mode) ==
    LET known == IsFile(world, name)
        path  == Path(world, name)
        file  == IF known THEN world.names[path] ELSE Len(world.files) + 1
        old   == IF known /\ mode # "w" THEN world.files[file] ELSE <<>>
        error == IF known THEN "" ELSE IF mode = "r" THEN Nowhere(world, name)
                 ELSE IF IsFolder(world, name) THEN "EISDIR" ELSE CannotMake(world, name)
    IN  IF error # "" THEN [world |-> world, stream |-> NoFile, error |-> error]
        ELSE [stream |-> Len(world.streams) + 1, error |-> "",
              world  |-> [world EXCEPT
                  !.names = [p \in DOMAIN @ \cup {path} |-> IF p = path THEN file ELSE @[p]],
                  !.files = [f \in DOMAIN @ \cup {file} |-> IF f = file THEN old ELSE @[f]],
                  !.streams = Append(@, [file |-> file, mode |-> mode, open |-> TRUE,
                                         position |-> IF mode = "a" THEN Len(old) ELSE 0,
                                         eof |-> FALSE, error |-> FALSE])]]

fclose(world, s) == [world EXCEPT !.streams[s].open = FALSE]

\* getc(): a byte or EOF, and nothing more once the end has been met.
getc(world, s) ==
    LET position == Stream(world, s).position
    IN  IF Stream(world, s).mode # "r" THEN [world |-> InError(world, s), byte |-> EOF]
        ELSE IF Stream(world, s).eof \/ position >= Len(Contents(world, s))
        THEN [world |-> AtEnd(world, s), byte |-> EOF]
        ELSE [world |-> [world EXCEPT !.streams[s].position = @ + 1],
              byte  |-> Contents(world, s)[position + 1]]

\* The bytes with one of them written at a position, zeros before it if there was a gap.
Written(bytes, position, byte) ==
    [i \in 1 .. (IF position < Len(bytes) THEN Len(bytes) ELSE position + 1) |->
        IF i = position + 1 THEN byte ELSE IF i <= Len(bytes) THEN bytes[i] ELSE 0]

\* putc(): not to a file opened for reading, nor past the end of the disk.
putc(world, s, byte) ==
    LET bytes == Contents(world, s)
        at    == IF Stream(world, s).mode = "a" THEN Len(bytes) ELSE Stream(world, s).position
        fits  == at < DiskSize \/ s \in {stdout, stderr}
    IN  IF Stream(world, s).mode = "r" \/ ~fits
        THEN [world |-> InError(world, s), ok |-> FALSE]
        ELSE [world |-> [world EXCEPT !.files[Stream(world, s).file] = Written(bytes, at, byte),
                                      !.streams[s].position = at + 1],
              ok    |-> TRUE]

\* F(value), with the value computed once and not again wherever F uses it.
ByValue(value, F(_)) == CHOOSE result \in {F(v) : v \in {value}} : TRUE

\* fputs(): the bytes up to one that cannot be written.
RECURSIVE fputs(_, _, _)
fputs(world, s, bytes) ==
    IF bytes = <<>> THEN [world |-> world, ok |-> TRUE]
    ELSE ByValue(putc(world, s, Head(bytes)), LAMBDA put :
            IF put.ok THEN fputs(put.world, s, Tail(bytes)) ELSE put)

\* fseeko(): the end flag goes, unless the position would be negative.
fseeko(world, s, offset, origin) ==
    LET from == CASE origin = "Begin"   -> 0
                  [] origin = "End"     -> Len(Contents(world, s))
                  [] origin = "Current" -> Stream(world, s).position
    IN  IF from + offset < 0 THEN [world |-> world, ok |-> FALSE]
        ELSE [world |-> [world EXCEPT !.streams[s].position = from + offset,
                                      !.streams[s].eof = FALSE],
              ok    |-> TRUE]
=============================================================================
