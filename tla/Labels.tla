-------------------------------- MODULE Labels --------------------------------
(***************************************************************************)
(* The label table of the compiler (comp/identifiers.c with the label part *)
(* of avl_identifiers.c and macrocode.c) and the two pools whose code is   *)
(* written only when the module ends: the functions with their sentences   *)
(* (function_pool.c) and the specifiers written inside sentences           *)
(* (specifier_pool.c).  The directives of a module come in any order; the  *)
(* code is the sequence of operators and addresses of the object module,   *)
(* an address being the label it stands for.                               *)
(***************************************************************************)
EXTENDS Naturals, Sequences, FiniteSets, SequencesExt

CONSTANTS
    Name,           \* the identifiers of the module
    External,       \* the external names
    Body,           \* the functions: sequences of sentences [call, spec]
    None,           \* NULL
    Wild,           \* what a number is when it is used as a pointer
    MaxDirectives,  \* bound: the directives of the module
    MaxErrors,      \* bound: the errors after which no directive is added
    MaxInfo         \* bound: the labels without a name

ASSUME LabelsAssumption ==
    /\ IsFiniteSet(Name) /\ MaxInfo \in Nat /\ Name \cap 1 .. MaxInfo = {}
    /\ {None, Wild} \cap (Name \cup 1 .. MaxInfo) = {}
    /\ \A b \in Body : b \in Seq([call : Name, spec : Name \cup {None}]) /\ b # <<>>

Label == Name \cup 1 .. MaxInfo     \* T_LABEL and T_INFO_LABEL

VARIABLES
    table,      \* mode and info of every label, and the code written so far
    type,       \* the kinds each name was used as
    used,       \* the names in the tree
    allocated,  \* the labels without a name given out
    functions,  \* the function pool
    specifiers, \* the specifier pool, newest first
    fail,       \* fail_sentence
    entries, externs,       \* the tables of entry points and of external references
    errors, directives,     \* how many
    equated,    \* the pairs of names that $EQU has accepted (history)
    phase       \* "module", "accepted", "rejected", "crashed"

pools == <<allocated, functions, specifiers, fail>>
tables == <<entries, externs>>
vars == <<table, type, used, pools, tables, errors, directives, equated, phase>>

\* A mode is a set of the marks "defined", "entry", "placed", "extern": 0020, 0040, 0100, 0200.
Kind(t, l) == t.mode[l] \cap {"placed", "extern"}   \* mode & 0300
IsAlias(t, l) == Kind(t, l) = {"placed", "extern"}
IsDefined(t, l) == "defined" \in t.mode[l]

\* info is a union: a pointer to a label, an address, a number of an external reference.
Pointer(l) == [is |-> "label", value |-> l]
Address(n) == [is |-> "address", value |-> n]
Import(n)  == [is |-> "import", value |-> n]

\* A faulty resolution: one step, as if aliases had no aliases.
ResolveOnce(t, label) ==
    IF IsAlias(t, label) THEN t.info[label].value ELSE label

\* resolve_label_alias()
Resolve(t, label) ==
    LET from[n \in Nat] ==
            [l \in Label |-> IF ~IsAlias(t, l) THEN l
                            ELSE IF t.info[l].is # "label" \/ n = 0 THEN Wild
                            ELSE from[n - 1][t.info[l].value]]
    IN  from[Cardinality(Label)][label]

Root(name) == Resolve(table, name)      \* lookup_label()

\* macrocode_byte(), macrocode_address()
Emit(t, op, to) == [t EXCEPT !.code = Append(@, [op |-> op, to |-> to])]

\* macrocode_label()
Place(t, l) == [t EXCEPT !.mode[l] = @ \cup {"defined", "placed"},
                         !.info[l] = Address(Len(t.code) + 1)]

\* macrocode_equ()
Equate(t, l, m) == [t EXCEPT !.mode[l] = @ \cup {"defined", "placed", "extern"},
                             !.info[l] = Pointer(m)]

Init == /\ table = [mode |-> [l \in Label |-> {}],
                    info |-> [l \in Label |-> Address(0)], code |-> <<>>]
        /\ type = [n \in Name |-> {}] /\ used = {}
        /\ allocated = 0 /\ functions = <<>> /\ specifiers = <<>> /\ fail = None
        /\ entries = <<>> /\ externs = <<>>
        /\ errors = 0 /\ directives = 0 /\ equated = {} /\ phase = "module"
-----------------------------------------------------------------------------
(* The directives *)

Directive == /\ phase = "module" /\ directives < MaxDirectives /\ errors < MaxErrors
             /\ directives' = directives + 1 /\ UNCHANGED phase

Uses(names) == used' = used \cup names
Typed(labels, kind) == [n \in Name |-> IF n \in labels THEN type[n] \cup {kind} ELSE type[n]]

\* $EMPTY and $SWAP: set_empty(), set_swap()
EmptyOrSwap(name, op) ==
    LET label == Root(name)
    IN  /\ Directive /\ Uses({name})
        /\ type' = Typed({label}, "function")
        /\ IF IsDefined(table, label)
           THEN errors' = errors + 1 /\ UNCHANGED table
           ELSE table' = Emit(Place(table, label), op, None) /\ UNCHANGED errors
        /\ UNCHANGED <<pools, tables, equated>>

\* $EXTERN: set_extrn(), macrocode_extrn()
Extern(name, external) ==
    LET label == Root(name)
        old   == {i \in DOMAIN externs : externs[i] = external}
        As(n) == [table EXCEPT !.mode[label] = @ \cup {"defined", "extern"},
                               !.info[label] = Import(n)]
    IN  /\ Directive /\ Uses({name})
        /\ IF IsDefined(table, label) \/ \E i \in DOMAIN entries : entries[i].external = external
           THEN errors' = errors + 1 /\ UNCHANGED <<table, externs>>
           ELSE /\ UNCHANGED errors
                /\ IF old # {}
                   THEN /\ table' = As(CHOOSE i \in old : TRUE) /\ UNCHANGED externs
                   ELSE /\ externs' = Append(externs, external)
                        /\ table' = As(Len(externs'))
        /\ UNCHANGED <<type, pools, entries, equated>>

\* $ENTRY: set_entry(), macrocode_entry()
Entry(name, external) ==
    LET label == Root(name)
    IN  /\ Directive /\ Uses({name})
        /\ IF \/ external \in Range(externs)
              \/ \E i \in DOMAIN entries : entries[i].external = external
           THEN errors' = errors + 1 /\ UNCHANGED <<table, entries>>
           ELSE /\ entries' = Append(entries, [label |-> label, external |-> external])
                /\ table' = [table EXCEPT !.mode[label] = @ \cup {"entry"}]
                /\ UNCHANGED errors
        /\ UNCHANGED <<type, pools, externs, equated>>

\* $SPEC: the specifier refers to at most one other, which must be described before.
Specifier(name, reference) ==
    LET label  == Root(name)
        placed == IF IsDefined(table, label) THEN table
                  ELSE Emit(Place(table, label), "SPEC", None)
    IN  /\ Directive /\ Uses({name, reference} \ {None})
        /\ errors' = errors + (IF IsDefined(table, label) THEN 1 ELSE 0)
                      + (IF reference = name THEN 1 ELSE 0)
                      + (IF reference # None /\ ~IsDefined(placed, Root(reference))
                         THEN 1 ELSE 0)
        /\ IF reference = None
           THEN type' = Typed({label}, "specifier") /\ table' = placed
           ELSE /\ type' = Typed({label, Root(reference)}, "specifier")
                /\ table' = Emit(placed, "CLL", Root(reference))
        /\ UNCHANGED <<pools, tables, equated>>

\* A faulty $EQU: the label keeps to itself how it was used.
EquForgetful(name1, name2) ==
    LET l1 == Root(name1) l2 == Root(name2)
    IN  /\ Directive /\ Uses({name1, name2})
        /\ IF l1 = l2 \/ Kind(table, l1) # {} THEN UNCHANGED <<table, equated>>
           ELSE table' = Equate(table, l1, l2) /\ equated' = equated \cup {<<name1, name2>>}
        /\ UNCHANGED <<type, pools, tables, errors>>

\* $EQU: set_equ()
Equ(name1, name2) ==
    LET l1 == Root(name1)
        l2 == Root(name2)
        Join(l, m) == /\ table' = Equate(table, l, m)
                      /\ type' = [type EXCEPT ![m] = @ \cup type[l]]
                      /\ equated' = equated \cup {<<name1, name2>>}
                      /\ UNCHANGED errors
    IN  /\ Directive /\ Uses({name1, name2})
        /\ IF l1 = l2 THEN UNCHANGED <<table, type, equated, errors>>
           ELSE IF Kind(table, l1) = {} THEN Join(l1, l2)
           ELSE IF Kind(table, l2) = {} THEN Join(l2, l1)
           ELSE errors' = errors + 2 /\ UNCHANGED <<table, type, equated>>
        /\ UNCHANGED <<pools, tables>>

\* specifier_pool_find_or_create(): the pool and the labels allocated with the
\* specifiers of the first n sentences of a body.
Pooled(body) ==
    LET after[n \in 0 .. Len(body)] ==
            IF n = 0 THEN [pool |-> specifiers, next |-> allocated]
            ELSE LET s == after[n - 1]
                     root == Root(body[n].spec)
                 IN  IF body[n].spec = None \/ \E p \in Range(s.pool) : p.address = root
                     THEN s
                     ELSE [pool |-> <<[label |-> s.next + 1, address |-> root]>> \o s.pool,
                           next |-> s.next + 1]
    IN  after[Len(body)]

\* $FUNC with its sentences: function_definition() for each, function_end().
Function(name, body) ==
    LET label == Root(name)
        pooled == Pooled(body)
        Inline(n) == IF body[n].spec = None THEN None
                     ELSE (CHOOSE p \in Range(pooled.pool) :
                               p.address = Root(body[n].spec)).label
        sentence == [n \in DOMAIN body |->
                        [label |-> pooled.next + n, call |-> Root(body[n].call),
                         spec |-> Inline(n)]]
        last == pooled.next + Len(body)
        names == {body[n].call : n \in DOMAIN body}
        specs == {body[n].spec : n \in DOMAIN body} \ {None}
    IN  /\ Directive /\ last <= MaxInfo
        /\ Uses({name} \cup names \cup specs)
        /\ type' = [n \in Name |->
                        type[n] \cup (IF n \in {label} \cup {Root(m) : m \in names}
                                      THEN {"function"} ELSE {})
                                \cup (IF n \in {Root(m) : m \in specs}
                                      THEN {"specifier"} ELSE {})]
        /\ allocated' = last /\ specifiers' = pooled.pool
        /\ IF IsDefined(table, label)
           THEN errors' = errors + 1 /\ UNCHANGED functions
           ELSE /\ functions' = Append(functions, [label |-> label, sentences |-> sentence])
                /\ UNCHANGED errors
        /\ IF fail = None THEN fail' = last /\ UNCHANGED table
           ELSE table' = Equate(table, last, fail) /\ UNCHANGED fail
        /\ UNCHANGED <<tables, equated>>
-----------------------------------------------------------------------------
(* The end of the module *)

\* A faulty specifier_pool_finalize(): the label of a specifier that is dropped is lost.
WriteFirstSpecifiers(t) ==
    LET address(i) == Resolve(t, specifiers[i].address)
        Write(u, i) == IF \E k \in 1 .. i - 1 : address(k) = address(i) THEN u
                       ELSE Emit(Place(u, specifiers[i].label), "CLL", address(i))
    IN  FoldLeft(Write, t, [i \in DOMAIN specifiers |-> i])

\* The first of the specifiers that mean the same as the i-th, now that all names are known.
SpecifierAddress(t, i) == Resolve(t, specifiers[i].address)
FirstEqual(t, i) == CHOOSE j \in DOMAIN specifiers :
                        /\ SpecifierAddress(t, j) = SpecifierAddress(t, i)
                        /\ \A k \in 1 .. j - 1 : SpecifierAddress(t, k) # SpecifierAddress(t, i)
IsFirst(t, i) == FirstEqual(t, i) = i

\* specifier_pool_finalize(): specifiers that have become equal are written once.
MergeSpecifiers(t) ==
    LET after[i \in 0 .. Len(specifiers)] ==
            IF i = 0 THEN t
            ELSE IF IsFirst(t, i) THEN after[i - 1]
            ELSE Equate(after[i - 1], specifiers[i].label, specifiers[FirstEqual(t, i)].label)
    IN  after[Len(specifiers)]

WriteSpecifiers(t) ==
    LET after[i \in 0 .. Len(specifiers)] ==
            IF i = 0 THEN MergeSpecifiers(t)
            ELSE IF ~IsFirst(t, i) THEN after[i - 1]
            ELSE Emit(Place(after[i - 1], specifiers[i].label), "CLL", SpecifierAddress(t, i))
    IN  after[Len(specifiers)]

WriteSentence(t, f, n) ==
    LET s == f.sentences[n]
        body == Emit(IF s.spec = None THEN t ELSE Emit(t, "WSPC", s.spec), "BLF", s.call)
    IN  IF IsAlias(body, s.label) THEN body
        ELSE IF n < Len(f.sentences)
        THEN Emit(Place(body, s.label), "SJUMP", f.sentences[n + 1].label)
        ELSE Emit(Place(body, s.label), "FAIL", None)

WriteFunction(t, f) ==
    LET after[n \in 0 .. Len(f.sentences)] ==
            IF n = 0 THEN Emit(Place(t, f.label), "SJUMP", f.sentences[1].label)
            ELSE WriteSentence(after[n - 1], f, n)
    IN  after[Len(f.sentences)]

\* function_pool_finalize()
WriteFunctions(t) ==
    LET after[i \in 0 .. Len(functions)] ==
            IF i = 0 THEN t ELSE WriteFunction(after[i - 1], functions[i])
    IN  after[Len(functions)]

\* check_identifier()
IsFaulty(t, name) ==
    LET root == Resolve(t, name)
    IN  \/ Kind(t, name) = {}
        \/ "entry" \in t.mode[name] /\ Kind(t, root) = {"extern"}
        \/ type[root] = {"function", "specifier"}

\* module_end(), macrocode_end(): every label that is looked at is resolved.
End == /\ phase = "module"
       /\ table' = IF errors = 0 THEN WriteFunctions(WriteSpecifiers(table)) ELSE table
       /\ LET t == table'
              looked == used \cup (IF errors # 0 THEN {}
                          ELSE ({t.code[i].to : i \in DOMAIN t.code} \ {None})
                                  \cup {entries[i].label : i \in DOMAIN entries})
          IN  phase' = IF \E l \in looked : Resolve(t, l) = Wild THEN "crashed"
                       ELSE IF errors # 0 \/ \E n \in used : IsFaulty(t, n) THEN "rejected"
                       ELSE "accepted"
       /\ UNCHANGED <<type, used, pools, tables, errors, directives, equated>>

Next == \/ \E n \in Name : \/ EmptyOrSwap(n, "EMPTY") \/ EmptyOrSwap(n, "SWAP")
                           \/ \E x \in External : Extern(n, x) \/ Entry(n, x)
                           \/ \E r \in Name \cup {None} : Specifier(n, r)
                           \/ \E m \in Name : Equ(n, m)
                           \/ \E b \in Body : Function(n, b)
        \/ End

Spec == Init /\ [][Next]_vars
-----------------------------------------------------------------------------
(* What the labels of a module must mean *)

\* A name that was redirected or made external after its $FUNC: until its code is
\* written, at the end of the module, nothing marks it as described.
Misled == \E f \in Range(functions) : "extern" \in table.mode[f.label]

\* Names that $EQU has made equivalent, directly or in a chain, denote one object,
\* whatever is described afterwards, and no chain of aliases is closed or leads
\* astray; the one exception is a module, otherwise right, that misled a name: there
\* the address of the function takes the place of the pointer, and End fails.
EquivalentNames ==
    /\ phase # "crashed" =>
           \A p \in equated : Root(p[1]) = Root(p[2]) /\ Root(p[1]) # Wild
    /\ phase = "crashed" <=> phase # "module" /\ errors = 0 /\ Misled

\* docs/R_1.md:1338, 1345: if only one of the names of $EQU is described, the other
\* becomes equivalent to it, and all names so connected denote one object.
AllNamesEquivalent ==
    \A p \in equated : Root(p[1]) = Root(p[2]) /\ Root(p[1]) # Wild

Target(l) == table.code[table.info[Resolve(table, l)].value]
IsLatest(i) == \A k \in i + 1 .. Len(functions) : functions[k].label # functions[i].label

\* In the module that is written, every address leads to a place in the code or to
\* an external reference; a name is the last function described under it, which
\* begins with its own first sentence; a sentence that fails leads to the next one
\* and the last one to a FAIL, which functions share; equal specifiers are shared by
\* what they mean; entry points are inside.
CodeLinked ==
    phase = "accepted" =>
        /\ \A i \in DOMAIN table.code :
              table.code[i].to # None =>
                  LET root == Resolve(table, table.code[i].to)
                  IN  CASE Kind(table, root) = {"placed"} ->
                             table.info[root].value \in DOMAIN table.code
                        [] Kind(table, root) = {"extern"} ->
                             table.info[root].value \in DOMAIN externs
                        [] OTHER -> FALSE
        /\ \A i \in DOMAIN functions :
              LET f == functions[i]
              IN  /\ IsLatest(i) =>
                         Target(f.label) = [op |-> "SJUMP", to |-> f.sentences[1].label]
                  /\ \A n \in DOMAIN f.sentences :
                        Target(f.sentences[n].label) =
                            IF n = Len(f.sentences) THEN [op |-> "FAIL", to |-> None]
                            ELSE [op |-> "SJUMP", to |-> f.sentences[n + 1].label]
        /\ \A p \in Range(specifiers) :
              /\ Target(p.label).op = "CLL"
              /\ Resolve(table, Target(p.label).to) = Resolve(table, p.address)
        /\ \A i \in DOMAIN entries :
              Kind(table, Resolve(table, entries[i].label)) = {"placed"}

\* A call never enters a specifier and a specifier never calls a function, however
\* the name was used and by whatever chain of equivalent names it got there.
KindsChecked ==
    phase = "accepted" =>
        \A i \in DOMAIN table.code :
            LET item == table.code[i]
                into == Resolve(table, item.to)
            IN  item.to # None /\ Kind(table, into) = {"placed"} =>
                    /\ item.op = "BLF" => Target(item.to).op \in {"SJUMP", "EMPTY", "SWAP"}
                    /\ item.op \in {"WSPC", "CLL"} => Target(item.to).op \in {"SPEC", "CLL"}
=============================================================================
