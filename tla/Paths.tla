-------------------------------- MODULE Paths --------------------------------
(***************************************************************************)
(* The names of the disk and its folders, as mkdir, rmdir, opendir, stat,  *)
(* chdir and unlink know them, on a record world: names gives each path of *)
(* a file its file, folders are the paths of folders, sealed those whose   *)
(* entries may not change, current the one that names are looked up from.  *)
(* A path is written from the root, which is <<>>.  There are no '.', '..' *)
(* and links, and no folder is renamed or opened as a file.                *)
(***************************************************************************)
EXTENDS Integers, Sequences, FiniteSetsExt

Slash == 47

\* The path of a name that a program gives, and the folder its last part is in.
Path(world, name) ==
    IF name # <<>> /\ name[1] = Slash THEN Tail(name)
    ELSE IF world.current = <<>> THEN name ELSE world.current \o <<Slash>> \o name
LastSlash(path) == Max({0} \cup {i \in DOMAIN path : path[i] = Slash})
FolderOf(path) == SubSeq(path, 1, LastSlash(path) - 1)
LastPart(path) == SubSeq(path, LastSlash(path) + 1, Len(path))

IsFile(world, name) == name # <<>> /\ Path(world, name) \in DOMAIN world.names
IsFolder(world, name) == name # <<>> /\ Path(world, name) \in world.folders
Entries(world, name) ==
    {p \in DOMAIN world.names \cup (world.folders \ {<<>>}) : FolderOf(p) = Path(world, name)}

\* Why a name leads nowhere.
Nowhere(world, name) ==
    IF FolderOf(Path(world, name)) \in DOMAIN world.names THEN "ENOTDIR" ELSE "ENOENT"

\* Why an entry cannot be made, or removed; "" if it can.
CannotMake(world, name) ==
    CASE name = <<>> \/ FolderOf(Path(world, name)) \notin world.folders -> Nowhere(world, name)
      [] FolderOf(Path(world, name)) \in world.sealed -> "EACCES"
      [] OTHER -> ""
CannotRemove(world, name) ==
    IF IsFile(world, name) \/ IsFolder(world, name) THEN CannotMake(world, name)
    ELSE Nowhere(world, name)

Succeeded(world) == [world |-> world, error |-> ""]
Refused(world, error) == [world |-> world, error |-> error]

mkdir(world, name) ==
    IF IsFile(world, name) \/ IsFolder(world, name) THEN Refused(world, "EEXIST")
    ELSE IF CannotMake(world, name) # "" THEN Refused(world, CannotMake(world, name))
    ELSE Succeeded([world EXCEPT !.folders = @ \cup {Path(world, name)}])

rmdir(world, name) ==
    IF CannotRemove(world, name) # "" THEN Refused(world, CannotRemove(world, name))
    ELSE IF ~IsFolder(world, name) THEN Refused(world, "ENOTDIR")
    ELSE IF Entries(world, name) # {} THEN Refused(world, "ENOTEMPTY")
    ELSE Succeeded([world EXCEPT !.folders = @ \ {Path(world, name)},
                             !.sealed = @ \ {Path(world, name)}])

\* unlink(), and remove() of a file; streams that are open keep their file.
unlink(world, name) ==
    IF CannotRemove(world, name) # "" THEN Refused(world, CannotRemove(world, name))
    ELSE IF IsFolder(world, name) THEN Refused(world, "EISDIR")
    ELSE Succeeded([world EXCEPT !.names = [p \in DOMAIN @ \ {Path(world, name)} |-> @[p]]])

\* opendir() and chdir() need a folder.
NoFolder(world, name) ==
    IF IsFolder(world, name) THEN "" ELSE IF IsFile(world, name) THEN "ENOTDIR"
    ELSE Nowhere(world, name)
chdir(world, name) ==
    IF NoFolder(world, name) # "" THEN Refused(world, NoFolder(world, name))
    ELSE Succeeded([world EXCEPT !.current = Path(world, name)])

\* rename() of a file.
rename(world, old, new) ==
    LET error == IF old = <<>> \/ new = <<>> \/ ~IsFile(world, old) THEN Nowhere(world, old)
                 ELSE IF CannotRemove(world, old) # "" THEN CannotRemove(world, old)
                 ELSE IF IsFolder(world, new) THEN "EISDIR" ELSE CannotMake(world, new)
    IN  IF error # "" THEN Refused(world, error)
        ELSE Succeeded([world EXCEPT !.names =
                 [p \in (DOMAIN @ \ {Path(world, old)}) \cup {Path(world, new)} |->
                     IF p = Path(world, new) THEN @[Path(world, old)] ELSE @[p]]])
=============================================================================
