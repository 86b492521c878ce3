# RefalAB: a verification project

RefalAB is a dialect of Refal-2. A compiler (`src/comp`, C) turns a module of
sentences into byte code inside LLVM assembly text; a run time (`src/inter`, C
and Refal) interprets that code over *list memory*, doubly linked rings of
cells. One thread computes; what makes the program hard is not parallelism but
**surgery on shared lists that may be abandoned half way**: any step can run out
of free cells in its middle, is given up, and is run again after a garbage
collection or after the memory has grown.

Paths below are those of the repository. `PROJECT.json` maps every definition
that models code to its lines and names the runs, the mutants (plausible bugs,
each of which makes the property beside it fail), the hazards, the findings and
the theorems.

## 1. The system

### Components

| component | source | state it keeps | operations |
|---|---|---|---|
| list memory | `inter/interface.c` 129-309, 625-641, 822-840 | rings of cells (`previous`, `next`), the free list, blocks from `malloc`, limits `-minsz -incsz -maxsz` | grow, take cells, release a segment, move a segment |
| processes | `interface.c` 325-440, 688-729 | a status table: view field, burial store, chain of calls, step counter, state 1..4 | create, delete, activate, run until a stop |
| interpreter: recognition | `interpreter.c` 619-1476 | two boards (the hole), the table of elements, the jump stack, the program counter | 60 operators that project an argument on a left part and backtrack |
| interpreter: specifiers | `interpreter.c` 1788-2018 | a stack of return points | runs the code of a specifier on one term |
| interpreter: right part | `interpreter.c` 1469-1740 | the frontier in the free list, chains of open brackets and of calls, planned transplantations | write, open, close, copy, move; put the result in place |
| interpreter: calls of C | `interpreter.c` 1741-1786 | the global `refal` block | CFUNC, CFDONE, CFLACK |
| boxes | `inter/xbox.c` | chains `static_boxes`, `dynamic_boxes`; a ring for each box | Gtr, Rdr, Ptr, Wtr, Swr, New, and the call of a box |
| collector | `interface.c` 731-820, 141-153 | marks in the heads, reversed pointers while it marks | mark, sweep, count the gain |
| Try | `inter/xtry.c` | a process inside a step of another | one call, four outcomes N, R, S and lack |
| burial store | `inter/xstore.c` | a list of named values in a process | Br, Rp, Dg, Cp, Dgall |
| arithmetic | `inter/xariphmetics.c`, `xcompare.c`, `interface.c` 900-1000 | none: works in place on the argument | Add to Gcd, Dr, P1, M1, Nrel |
| compiler: labels | `comp/identifiers.c`, `avl_identifiers.c`, `macrocode.c` | mode and info of every label, entry points, external references | one operation for each directive, aliases, addresses |
| compiler: pools | `comp/function_pool.c`, `specifier_pool.c` | functions with their sentences, specifiers: written when the module ends | begin, add, find or create, finalize |
| compiler: left parts | `comp/compile_sentence.c` 231-1408, 1920-2101 | the list of holes, elements with numbers, variables, the two counters of the stacks | chooses the order of projection, writes operators |
| compiler: right parts | `comp/compile_sentence.c` 1409-1918 | which elements were moved | moves, copies, `try_transplant`, errors |
| compiler: specifiers | `comp/compiler.c` 1383-1936 | none | `compile_specifer`, `compile_range` |
| lexical and character functions | `inter/xlexical.c`, `xchar_func.c`, `xdelf.c`, `interface.c` 452-624 | a table of labels that were made at run time | Numb, Symb, First to Multe, Chr, Ord, Upper, Lower, Empty, Reverse, Existw, Existn, Delf, Ftochar, Functab, Chartof |
| bits | `inter/xbitarray.c`, `xbitwise.c`, `xbool.c` | none | Bitand to Bitrot and Bit on arrays, Band to Shr on numbers |
| files and folders | `inter/xfileio.c`, `xio.c` | a hash table of open files by number; the disk | Fopen to Ftell, Remove_file, Rename, Make_dir to Get_current_dir, Card, Print and its kin |
| system | `inter/xsystem.c`, `xrandom.c`, `xtime.c` | a generator of random numbers | Arg, Get_env, System, Exit, Step, Random, Random_number, the clock |
| debugger, start | `inter/debugger*.c`, `initiator.c` | tracing | commands between two steps |

### How they interact

`refal_execute` calls `refal_run`, which executes the byte code of one sentence
after another on the leading functional term. A function written in C is called
with the global block `refal`, finds its argument between two cells in it, and
answers through `refal.upshot`: 1 done, 2 impossible, 3 lack of memory. Lack ends
`refal_run` in state 3, wherever it is met; `refal_execute` (or Try, around a
process of its own) calls `more_free_memory`, which collects, then grows, and the
step is run again **from its beginning**. Try calls `refal_run` from within a C
function that `refal_run` has called, so both share the block, the interpreter's
static registers and the memory. The collector runs between two attempts of a
step, or in the middle of a C function (`extended_insert_from_free_memory`), and
takes as roots the fields of all processes and the static boxes used so far.
Between compiler and interpreter the contract is implicit: the compiler counts at
compile time the entries of the jump stack and of the table of elements.

### What is hard

* abandonment and retry: a lack of cells between any two operations of a step;
* structures that are inconsistent for a while: brackets chained through their
  own info, the chain of calls relinked while the result is still in the free
  list, list pointers reversed by marking;
* nested processes that share the block, the counter of steps and one store;
* backtracking: the jump stack keeps boards and a length, never the contents of
  the table, and some operators write above its top in advance;
* order: holes are filled in the order that leaves no choice, the code of a
  function is written when its module ends, aliases may come after uses;
* functions that take effect outside list memory (a line read, a command run, a
  folder half emptied) before they find that cells are lacking, and run again;
* edges of numbers: carries in 32 bits, guesses of quotient digits, signs set in
  two places, limits of memory, counters that are reset.

### What correctness means

* every list is a ring in both directions; no cell is in two lists or in none;
* an abandoned step leaves no trace, and is repeated only if memory grew;
* with collector and growth the program runs as in endless memory; exactly the
  garbage is collected and live lists are restored;
* Try is invisible to the step around it, to the store and to the counter;
* a sentence is applied in the *first* way of the language, to exactly the
  arguments that have one, and the right part means what is written;
* equivalent names denote one object; the code of a module is linked as written;
* arithmetic is that of whole numbers, and every loop ends;
* a call of the library becomes what the manual says of the *expressions* in it,
  whatever cells it overwrote, moved or took on the way, or else is impossible.

## 2. The modules

| module | models | on top of it |
|---|---|---|
| `Rings` | the splices of cells, operators on the two pointers | used by `ListMemory`, `Collector`, `RightPart`; `RingsProofs` |
| `Lists` | *abstract*: lists are sequences, operations move segments | implemented by `ListMemory` |
| `ListMemory` | growth, life of a process table, activation, insert, release, move | `MCListMemory`, `ListMemoryProofs` |
| `IdealBoxes` | *abstract*: boxes in endless memory, no collector | implemented by `Boxes` |
| `Boxes` | the calls of boxes in bounded memory, retry, collection | `MCBoxes`, `BoxesProofs` |
| `Collector` | marking by pointer reversal, sweep, count | `MCCollector`, `CollectorProofs` |
| `Burial` | *abstract*: one store for the whole program | implemented by `Processes` |
| `Processes` | `refal_execute`, `refal_run`, Try, burial functions, lack of memory | `MCProcesses`, `ProcessesProofs` |
| `RightSide` | *abstract*: what a right part means | implemented by `RightPart` |
| `RightPart` | EOR to EOS, pointer by pointer, with LACK anywhere | `MCRightPart`, `RightPartProofs` |
| `Patterns` | *reference*: what left parts and specifiers mean (`docs/R_1.md` 1.4, 1.6, 1.7) | judges `Matching` |
| `Specifiers` | `compile_specifer`, `specifier_interpretator` | extends `Patterns` |
| `LeftPart` | the compiler of left parts, one step for each operator | extends `Specifiers` |
| `RightCode` | the compiler of right parts, `try_transplant` | extends `LeftPart` |
| `Matching` | the recognition operators | extends `RightCode` |
| `Sentences` | a sentence from its text to its result on an argument | extends `Matching`; `MCMatching` |
| `Labels` | directives, aliases, pools, object code | `MCLabels`, `LabelsProofs` |
| `Numbers` | arithmetic on sequences of macrodigits | `MCNumbers` |
| `CFunctions` | the call of a function in C and its return (CFUNC, CFDONE, CFLACK, RCGIMP), memory, the four pointers | base of the library, extends `Rings` |
| `Lexical` | characters, lengths, parts of an expression, Delf; labels made at run time | extends `CFunctions` |
| `BitFunctions` | bit arrays, bits of numbers, shifts | extends `Lexical` |
| `Relations` | comparisons of numbers and of expressions | extends `BitFunctions` |
| `Stdio`, `Paths` | *external*: what the C library does with streams, files, folders | used by `Files`, `FileMeanings` |
| `Files`, `Commands` | the table of open files, reading and writing; command line, environment, exit, random numbers; folders | composed in `Library` |
| `Meanings`, `FileMeanings` | *reference*: what `docs/R_2.md` says that each call becomes | judge `Library` |
| `Library` | all library functions at work in a view field | `MCLibrary` |
| `Lemmas` | no code: finite sums, remainders, least elements, sequences that are told place by place, steps done one after the other | used by the proof modules |

The same thing is modelled at the grain that each question needs: cells and two
pointers where splices matter (`ListMemory`, `Collector`, `RightPart`, the library), sequences
and counted cells where histories of calls matter (`Boxes`), counted cells only
where whole programs with nested processes matter (`Processes`).

### Correspondence with the code

**Rings, ListMemory.** A heap is the pair of functions `next`, `previous` on
cells; `Splice` is the four-neighbour surgery that the C functions share,
`Transplantation`, `InsertToFreeMemory`, `InsertFromFreeMemory`, `JoinRing` and
`AddFreeMemory` are the functions of the same names. The cells that `malloc` may
return are handed out in the order of the constant `Block`. An action is one call
of a function of `interface.c`; `Insert`, `Release` and `Move` are the calls that
functions in C make on lists of their process, with any pair of cells that the
callers may pass. `malloc` succeeds up to the limit.

**Boxes.** `view` is the view field together with the store (what the collector
starts from), `call` the leading term, `content` the boxes, `dynamic` and
`registered` the two chains, `free` the number of free cells. Every function of
`xbox.c` is one action; a step that lacks cells notes its need in `lacking` and waits for
`MoreFreeMemory`, which collects and grows as the code does. `New` calls
`extended_insert_from_free_memory`, so the collector may run inside its step.
Ordinary functions are the environment: they write, drop and arrange symbols.

**Collector.** Cells of a list are numbered one after the other; `heap`, `tag`
and `codep` are the fields that marking rewrites. `Pass`, `Descend`, `Ascend` are
the three branches of the loop in `mark_dynamic_box_heads`, `RootDone` the loop
over roots, `Keep` and `Unchain` the two branches of the sweep, `Count` the loop
in `more_free_memory`. `Marked` of `Boxes` is the closed form of the first five.

**Processes.** `process` is the stack of nested activations: what its status
table and its frame of `refal_run` hold. `block` is the shared `refal` block,
`free` and `total` count cells. `Lead` chooses what the leading function will do;
`Rewrite`, `Impossible` and the burial functions do it or lack memory; `Try`,
`Open`, `Again` and `Finish` are the four parts of `try_`; `Continue` is the loop
of `refal_execute`. `MaxStop` and `Wrap` stand for `MAX_STOP` and 2^32.

**RightPart.** `heap`, `tag`, `code` are the memory, `quasi_k` included;
`current`, `acted`, `left`, `stack` are the variables of `refal_run` that the
operators keep. Each operator is an action, MULE one action per copied cell, and
each that takes a cell may end in `Lack` instead. `SwapReference` is the call of
a box. A scene gives the memory in which a step begins.

**Specifiers, LeftPart, Matching.** A left part is a sequence of elements, the
code a sequence of `<<operator, side, operand>>`. The compiler's pairs of mirror
labels (LSW1/RSW1, ...) are one operator with a side. `compiling` holds the holes,
the numbers of the elements, the variables and the two counters; a step of
`Compile` writes the next operators, in the order of the code. Then `Start` picks
an argument and whether the sentence is the last of its function, and `Match`
executes one operator per step. Cells are numbered in the order of the argument,
so the neighbour and the partner of a cell are arithmetic. `board`, `table`,
`element`, `stack`, `pointer`, `pc` are the variables of the interpreter; the
table keeps its contents when its length is cut, as in the code.

**RightCode, Sentences.** `RightCode` is `compile_sentence` from its label RCGFIN
on: one step per element of the right part, with `try_transplant` (the longest run
of the left part that stands in the right part too is moved as a whole) and the
errors that `syntax_error` reports there; a sentence with an error gets no code.
`Sentences` runs the compiled right part on the elements that the left part has
recorded and keeps the result as a sequence of symbols; what the same operators do
to the cells is `RightPart`. `ResultIsMeant` compares the result with the right
part *as it is written*, variables replaced by their values: wherever a range was
moved that was already gone or is needed again, the two differ.

**Labels.** `table` is mode and info of every label, info a tagged value so that
an address read as a pointer can be told; `code` lists operators with the label
each refers to. One action for each directive, `End` for the end of the module:
pools first, checks next, then the resolution of every label that is looked at.

**Numbers.** A number is a sign and its macrodigits, last digit first. One pass
of the outer loops of multiplication, division and Gcd is a step; everything
else is one. `SHIFT_MAX` is the width of a macrodigit: arithmetic that the code
does in `uint32_t` is done modulo `Base`, that in `uint64_t` exactly.

**The library.** `memory` is the heap with tag and info of each cell, `dot` the
chain of `>`; `refal` the four pointers that a C function gets, `outside` whatever
it can change besides list memory (labels, open files, the disk, the current
folder, commands run). `Start` is CFUNC, `Done` is CFDONE with RCGIMP and EXIT,
`Undone` is CFLACK, `Again` the retry after `more_free_memory`. Each function is
one action with the name it has in C. The functions overwrite their argument,
return whole segments of it and take cells in the middle of a step; so the model
keeps every cell. `began` holds the view field and the world at the beginning of
the step, and the world when the function was entered last. After each step
`Library` cuts the leading call out of `began` and asks the reference modules
what it may become there. `CallsMean` starts from the world at the last entry,
since some functions change it before they ask for cells: Fgets, Card, Fclose,
System, Clear_Dir. For three calls the code does something else than the manual says: Chr of
a number, a number that Delf takes for `#`, and Chartof when two labels have one
name. `Promised` gives what the code does there; they are listed under *Findings*. Abstracted away:

* 8 bits per digit for 32 (`W`), lengths up to 4 (`MAX_LENGTH`), names of labels
  up to 3 characters (`UINT8_MAX`), paths up to 4 (`MAX_PATHFILENAME`);
* no garbage, so memory grows by `BLOCK` until the spare cells are used up; cells
  that become available only at the retry stand for what a collection would free;
* labels are pairs of owner and name, ordered by the constant `Address`; their
  first byte, which `infoc` of a label reads, is taken to be no `#`;
* a function written in Refal ends the run; Exit's value is not kept;
* streams have no buffers (what a buffer loses shows in the result of Fclose), a
  file holds at most `DiskSize` bytes, end of file stays until it is reset
  by a seek, texts of `strerror` are shortened, the standard streams exist;
* no links, no `.` and `..` in paths, no folder opened or renamed as a file; the disk
  may fail under Ftell (a pipe has no position) and anywhere in Clear_Dir (reading or
  closing a folder, looking at an entry), with one text each;
* System returns one of -1, 0, 2 and a random digit is one of four numbers.

## 3. The runs

States are distinct states. Deadlock is checked in `library`, where a finished
program stutters; elsewhere not, because these programs, or the bounded
environment that drives them, do stop.

| run | states | bounds | shows |
|---|---|---|---|
| `list_memory` | 16 009 | 7 numbered cells, blocks of 4, 3 (cut to 2), limit 6; one process | types; `previous` and `next` agree; every obtained cell in exactly one list; each operation does what `Lists` says |
| `boxes` | 419 904 | 2 dynamic boxes, 1 static one, 1 plain symbol; memory 5 to 10 cells by 3; `-freesz` 2; view of 2 symbols | no dangling reference; cells add up; implements `IdealBoxes`; a call returns, fails or memory is exhausted |
| `collector` | 390 576 | every placing of 4 cells, references or not, in 3 boxes, 2 roots and the free list | marks are on live boxes; the way back exists; live lists are restored; exactly garbage is freed; the gain is counted; it ends |
| `processes` | 223 062 | 3 nested processes, 2 terms, 5 cells, 2 items with 2 names and 2 values; memory 5 to 18; steps reset at 3, wrap at 8 | the block is restored; no abort; cells add up; the step counter counts; one store; every step ends |
| `right_part` | 172 639 | two scenes of 19 cells, 4 free cells, 4 parts of an argument that nest, two boxes | cells conserved, pairs of brackets, chain of calls, lack leaves nothing, implements `RightSide` |
| `matching` | 465 671 | 3300 sentences, many ill-formed, both directions; 211 left parts of up to 7 elements, right parts of up to 5 for seven of them; last sentence or not; some forty arguments each | the first way is found, or that there is none; the counters of compiler and interpreter agree; the result is the right part; only sentences get code; it ends |
| `labels` | 1 373 962 | 5 directives in any order over 3 names and 1 external one | equivalent names denote one object, also when they are described or redirected later, and the end of the module fails exactly where a name was redirected after its `$FUNC`; linked code, kinds of names |
| `numbers` | 151 188 | macrodigits of 2 bits; every pair of signed numbers of 3 and 2 digits, some with 4 by 3, odd forms | types; exact results in normal form and the law of the dividend at every digit, where no carry is lost; every call ends but a division that puts the divisor back |
| `library` | 313 101 | every modelled function at the edges of its cases, alone, nested, up to four in sequence; 5 shapes of memory; two open files in one chain of the table, five folders, one of them sealed | each call becomes what it means or is impossible (`CallsMean`); rings, brackets and calls are kept and no cell is lost (`ListsKept`); table of files, streams and disk agree (`FilesKept`) |
| `numbers_add` | violation | the greatest digit plus two | finding 1 |
| `sentence_equals` | violation | one sentence with a second `=` | finding 2 |
| `labels_redirected` | violation | three directives in any order | finding 3 |

Why the bounds are enough: the limit of memory is not a sum of block sizes, so
the cut of the last block happens; a lack can happen at every operation, since
the sizes leave from none to enough free cells; boxes can refer to themselves and
to each other in circles, and the chain loses its first, middle and last box; two
levels of Try make "the outer of the inner" and the reset of the counter inside
both; the parts of the argument in `right_part` lie one inside the other, share
an end, and are empty; the left parts hold two and three open variables, repeated
variables on both sides of open ones, brackets around open variables in each
order, and variables that are settled early. Outside the runs that are kept, the
model of recognition was also run on all left parts of up to four elements over
ten kinds (2.2 million states); a macrodigit of two bits is the smallest width in
which normalisation, an overestimate by one and one by two, and borrows over two
columns all occur. In `library` the memories leave plenty, some, a growing number
of, no, or too late any cells, so each function meets a lack at its beginning, in
its middle and again at its retry; arrays of one to three digits of 8 bits make
shifts by less than, exactly and more than a digit; files have lines with and
without an end.

**Fairness.** `Boxes`, `Collector`, `Processes`, `Matching` and `Numbers` assume
`WF_vars(Next)` and nothing else: one thread executes, nothing can block it, so
while a step is possible one is taken. No choice of the environment is assumed
fair: `CallsReturn` and `EveryStepEnds` speak of calls already begun, and
`EveryStepEnds` excludes the call of Try, whose term need not end. The other
modules state safety only.

## 4. Proofs

Checked by TLAPS for all values of the constants that satisfy the named
assumptions: any number of cells, boxes, processes, symbols, any sizes of memory,
any scene. A theorem about an invariant `I` goes by an inductive invariant `Inv`
(`Init => Inv`, one lemma for each action, `Inv => I`).

| theorem | says |
|---|---|
| `ListMemoryProofs!TypeCorrect` | pointers lead to cells, the count of memory stays below its limit |
| `ListMemoryProofs!AlwaysDoublyLinked` | `previous` and `next` of all cells agree after every operation |
| `ListMemoryProofs!EveryCellInOneList` | every cell obtained is in exactly one list, a walk from a head meets each of its cells once |
| `ListMemoryProofs!ListsImplemented` | every step is the step of `Lists` on sequences that it means, or shows nothing |
| `ProcessesProofs!BlockIsRestored`, `ProcessesNeverAbort`, `ProcessesCellsAccounted`, `AllStepsCounted` | the four invariants of the run `processes` |
| `ProcessesProofs!OneStoreImplemented` | the stores that travel between processes implement one store (`Burial`) |
| `BoxesProofs!NoReferenceDangles` | no reference in view field, call or live box refers to a freed box |
| `BoxesProofs!BoxCellsAccounted` | free cells, view field, call and boxes add up to the memory obtained |
| `BoxesProofs!CollectorIsInvisible` | bounded memory with a collector implements `IdealBoxes` |
| `CollectorProofs!CollectorKeepsInvariant` | the reversed path while marking, chain and rings while sweeping |
| `CollectorProofs!OnlyLiveBoxesMarked`, `WayBackIsKept`, `LiveListsUntouched`, `ExactlyGarbageCollected`, `GainIsCounted` | the five invariants of the run `collector` |
| `RightPartProofs!NothingLeftBehind` | a right side given up for lack of cells left no trace outside the free list |
| `RightPartProofs!ListsConserved` | a right side or a swap that is over has lost no cell and put none in two lists |
| `LabelsProofs!LabelsKeepInvariant` | for directives in any order: chains of aliases end, and what is written or waits in the pools is linked |
| `LabelsProofs!EquivalentNamesMeanOne`, `AcceptedCodeIsLinked`, `KindsAreChecked` | for directives in any order: the three invariants of the run `labels` |

**List memory.** The pointers: `Inv` adds to the two properties that cells not yet
obtained are rings of their own (else chaining in a block would break a list), that
the free list's head is the head of no process, and that view and store exist
together. One lemma for each splice (`SpliceGood`, `TransplantationGood`,
`InsertToFreeMemoryGood`, `JoinRingGood`, `AddFreeMemoryGood`) says under which
condition on its arguments it keeps a heap good: the early return of
`transplantation` is exactly what its lemma needs, and `insert_to_free_memory`,
which has no such test, needs its segment not to be free.

The lists: `Layout` says that the cells obtained are *laid* as sequences, one for
each head, whose neighbours are the pointers `next`, and that no head belongs to
two lists. Every splice of the code is an exchange of the `next` pointers of two
cells, or two or three of them: exchanging two pointers in one ring cuts it in
two, exchanging one of each of two rings joins them (`CutRing`, `JoinRings`). A
move of a segment is a cut and a join (`SpliceMoves`), a block that is chained in a
join, the creation and deletion of a process two cuts or two joins. Each lemma
gives the sequences after the splice by those before it; what a walk along the
pointers finds is what was constructed (`WalkIs`, `WalksFound`), and these sequences are
the ones that the operations of `Lists` are stated with. So conservation and
refinement come from the same lemmas.

**Processes.** The four invariants hold together only: whether the counter wraps
correctly depends on the depth, the state of a process on what the refal block
held when it was called, its cells on the lists lent to Try. `Inv` says of each
process below the top that it is *waiting* in a call of Try, having saved the block
of its own depth; of the top one that it is *resting* in one of three places, or
has just been created (`Opening`); that the counters are congruent to the steps
performed plus the depth; that only the top process has the store (`StoreMoved`);
and that the cells add up. Cells are a sum over the stack of processes, so the
lemmas about finite sums in `Lemmas` carry the account. For the refinement,
`TheStore` is the store of the top process except while it is being lent, and the
`FirstIsYoungest` value of a name is the one the chain of the process finds first.

**Boxes.** `NoDangling` is not inductive: `Inv` adds types, the place of the
result, and that a static box not yet registered is empty; without the last the
collector, whose roots are registered boxes only, could free what such a box
holds. `MarkedClosed` shows from the definition of the marks as a least closed set
that they are closed, `CollectGarbageSafe` that collection keeps the invariant,
`ReturnSafe` serves the six functions. For the account, `Counted` adds that the
live boxes are finitely many; a collection gives the sum of the boxes freed to the
free list. For the refinement, what an ideal state shows is the content of the boxes
that can be reached; a least closed set does not depend on the set it is taken in
(`LeastInside`), which is why boxes already freed do not matter, and each
access changes what can be reached only through the result it returns
(`ReturnIdeal`).

**Collector.** While marks are put, `MarkInv(p)` names the *way* `p`: the lists
entered and not yet left, from the root to the one walked through, all different.
Each box on the way holds in `previous` the reference it was entered through, a
symbol of the list before it, whose `codep` is that list; every other pointer is
the original one. So ascending restores the last of them (`AscendMarks`), and the
way cannot be longer than there are boxes (`WayLeadsBack`). That *all* live boxes
are marked needs more: what the walk has passed in a list on the way, and all of
each list it has left, is *settled*, no reference to a box without a mark. At the
end of the last root the marked boxes are closed under reference, and hence are the
reachable ones (`MarksAreExact`). `SweepInv(L, g, k)` describes the sweep after `k`
boxes: marks are gone before `k` and exact behind it, the kept boxes are chained
up to the next one, the lists are laid as rings `L` without the heads collected,
and the free list begins with the `g` cells collected. A removal is two exchanges of
pointers (`FreeListGrows`, from `JoinRings`); counting is then a walk along the
first `g` cells of the free list, which ends at the old first cell whether or not
that is the head (`CountIsGain`).

**Right side.** While a right side is being written the open brackets are chained
through their `info` fields, a call's `>` will write into the `k` closed last, and a
copy may close brackets. `Inv` says that the places of the open brackets in
the free list form the chain the code follows (`Chained`), that the `k` closed last
is not open (`ActedClosed`), and that the brackets which the rest of a copy
still closes are at most those that are open (`CopyDeep`): so every cell these
writes meet is one already taken from the free list. This is where it is used that a
variable's value is balanced in brackets. `Open`, `Close`, `Activate` and the copy
of a cell each keep the chain (`OpenWritten`, `CloseWritten`, `ActivateWritten`).

For conservation `ListsInv` adds what `transplant` tests before it plans a move: a
part planned later lies around an earlier one or beside it (`Plans`). EOS makes the
moves from the last planned to the first, so a part is moved after those around it. `Stage(g, k)`
holds when `k` moves are left: each part still to be moved hangs together, what is
left of the view field is in its old order with `<` and `>` in it, and the free list,
with all that was moved into it, has all its cells. `StageStep` shows one move: wherever the
part is by now, it is a stretch of a ring that does not reach the cell it goes behind
(`StretchIs`), and moving a stretch from one ring to another, or within one, loses nothing
(`StretchMoves`, from `JoinRings`). What EOS does then is one more such move, of the
result, and one of `<` to `>` to the free list, whether or not the result is
empty (`EndPointers`, `EndKeeps`); SWAPREF is three, with the box or the argument
empty or not (`SwapPointers`, `SwapKeeps`).

**Labels.** A table is `Sound` when every label has a distance from the end of its
chain of aliases. Then resolution ends at a label that is no alias (`ResolveIs`),
and every function that is constant along the aliases is resolution (`OnlyRoots`).
From these two follows what `$EQU` does (`EquateJoins`): if both labels are the ends
of their chains, the distances of all that ended at the first one grow by those of
the second, and nothing else resolves otherwise. That the code always equates such
ends is what each directive has to show. `ModuleInv` is what holds while the module is
read. It says of a name that it resolves to a name in the tree (`Named`) and that what is placed
or external is also marked as defined (`Described`); of the code, that each operator
refers to labels that were used in its way and that what stands behind a name has one
of the kinds the name was used as (`Coded`); of labels without a name, that they are
free, or are last sentences, which are aliases of `fail` (`Nameless`); of the pools,
that the labels waiting there have no code yet, belong to one specifier or sentence
only (`Specified`, `Pending`, `Apart`), and that `fail` is the last sentence
of the first function (`FirstFails`), which holds only as long as there were no errors.

A name that `$FUNC` has described has no mark until the end of the module, and another
directive can still take it: a second `$FUNC`, `$EMPTY`, `$SWAP`, `$EXTERN`, or an `$EQU`
that makes it the alias of another name. No theorem excludes this. `Pending` says of a
function's name only that it is used as a function, so two functions may have one label,
and `CodeLinked` says that the one ended last is the one meant (`IsLatest`). A name that
has become an alias or external by the end of the module is *misled* (`Misled`): writing the
function puts an address where a pointer or the number of the external reference was, so
that nothing can be said of the table that results. `FunctionStands` and `FunctionsStand`
show that it is so for each such name, `WritesAre` that the walks otherwise leave
the other names as they were, and `MisledStep` that the end of a module without other errors
then fails; that is the one case in which `EquivalentNames` makes an exception, and it says so in
both directions. That the manual makes none is finding 3.

The end of the module goes by three walks over the pools (`MergeSpecifiers`,
`WriteSpecifiers`, `WriteFunctions`), each with an invariant over the steps made so far
(`Merged`, `Written`, `Part` and `Finished`). `Extends` is the point of them: writing
adds code and gives places to the labels of the pool, but changes no alias, so all names resolve
as they did (`ExtendsRoots`). `Final` sums up the table that results. In an accepted module
every name used passed `check_identifier`, so what a name resolves to is placed or external,
and was used as a function or as a specifier but not as both (`UsedIs`); with
`Coded` this gives `CodeLinked` and `KindsChecked`.

**Assumptions.** `LabelsAssumption` says that the names are finitely many and differ from
the labels without a name, from `NULL` and from a wild pointer, and that a function has
a sentence. `CollectorAssumption` says that the chain and the roots name
different heads and that symbols are finitely many. `ListMemoryAssumption`, `BoxesAssumption` and
`ProcessesAssumption` name what the code has by construction: kinds of names are
disjoint, sizes are positive, a memory holds at least the cells of one process
(two in `Boxes`, five in `Processes`, which begin with that process), static boxes
are finitely many (they are in the text of the program), the counter's width
exceeds the limit of steps. `NoCallAssumption` separates a mark from the calls.
`RightPartAssumption` describes the memory that a right side finds: finitely many
cells; lists are rings of distinct cells, no two share one, and the view field is no
box; the argument is what is between `<` and `>` there; the value of a variable that is not
empty lies behind the label and before `>`, with its brackets in pairs, which
recognition leaves (`matching`). TLC evaluates all of them in the runs.

**Induction.** The provers cannot use an induction rule that takes a predicate, so
induction is done with a set: a set of natural numbers that is not empty has a
least element (`LeastElement`), what holds zero and all successors holds all
(`NaturalsInSet`). In this way `Lemmas` proves the laws of the community modules'
sums and that steps can be made one after the other (`StepsExist`), `RingsProofs` what a walk
along the pointers collects, and `LabelsProofs` what the walks over the pools write.

Only model-checked:

* liveness (there is no prover for fairness here);
* the refinement of `RightSide` and `BracketsPaired` and `DotsChained` of
  `RightPart`: what they say is about the order of the cells in the result, which
  is built by recursion over the parts of the right side; the proof of
  `CellsConserved` shows that there is a list, and not which;
* recognition, sentences, numbers and the library: their meaning is defined by
  recursive operators, and a module that reaches one is closed to the provers.

## 5. Findings

1. *A lost carry* (`numbers_add`). `xariphmetics.c:211` adds two `uint32_t`
   digits in 32 bits; `<Add (4294967295) 2>` of the manual gives 1, not `1 1`.
   `Exact` and `DividendConserved` speak of calls in which no carry was lost (`lost`).
2. *A sign taken for an element* (`sentence_equals`). The `=` of the left part
   counts among the elements that `try_transplant` compares
   (`compile_sentence.c:429`), so `s.X = s.X =;` compiles and its result takes the
   `>` of the leading term along; elsewhere a second `=` is error 405.
3. *A function whose name is redirected* (`labels_redirected`). `$EQU f g` after the
   `$FUNC` of `f` makes `f` the alias of `g`, though of the two only `f` is
   described (`identifiers.c:244`; `docs/R_1.md:1338`), and at the end of the module the
   address of the function is written over the pointer to `g`: the compiler dies of it.
   `$EQU g f`, and either order before the `$FUNC`, work.

The properties that pass say of four more places what the code does, and that it is
not what the manual says:

* a division that puts the divisor back after a guess that was too big adds it with the sum
  of finding 1 (`xariphmetics.c:476`) and waits at line 481 for a carry that never comes:
  `<Dr (2147483648 0 0) 1 1>` does not return (`docs/R_2.md:1537`; second part of `Ends`);
* at the end of a long division (`xariphmetics.c:510`, 522) the remainder gets the sign of the
  quotient and the other way round, so that both are wrong when the divisor is negative:
  `<Dr (1 0) '-' 3>` is `1431655765 ('-' 1)` (`docs/R_2.md:1545`; `LongByNegative` in `Exact`);
* `xlexical.c:586` clears the union from which the next line reads the number, so Chr makes the
  character 0 of every number, where the manual's `<Chr 318 'h' ('j') (65)>` ends in `('A')`
  (`docs/R_2.md:1236`; `ChrMeaning`);
* Functab appends a label without looking for its name, and Chartof (`xchar_func.c:109`) takes
  the first one of the name: after `<Chartof 'f'>`, `<Functab F>` is of no effect
  (`docs/R_2.md:2306`; `Labelled`).

Noticed besides, each where the code and the manual or the reader's expectation differ:

* `interface.c:155`: at the limit of memory a collection that freed fewer than
  `-freesz` cells counts as none, so a program stops whose step would have its cells;
* Delf looks for `#` by its character and not its tag (`xdelf.c:32`), so a number
  whose low byte is 35 stops it too (`MarkedDots`);
* Symb of zero to the base 8 gives `00`;
* Fgets and Card that lack cells lose what they read (Card asks again), a Fclose
  whose retry finds the file gone answers Null, System runs its command again, and
  a name that Clear_Dir could not remove is cut at `MAX_PATHFILENAME`
  (`xfileio.c:36`, 1047) and may be reported after a retry on a disk that has
  already changed. The models have all of these; `CallsMean` is stated from the
  last entry of the function for this reason.

## 6. Not modelled

* scanning, listing and error messages, the encoding of operators as bytes and
  LLVM text, the rotations of the identifier tree: text and containers;
* Time, Tm, Tm_elapsed (they format the clock), Get_max_number (a constant), what
  Step displays (its counter is in `Processes`), the algorithm behind random numbers;
* the buffers of streams, links, `.` and `..`; see *The library* above;
* the debugger, which reads commands between two steps, and `mdebug` builds;
* library functions written in Refal, examples and tests are programs for the
  machine, not the machine;
* a failing `malloc` before the limit, the release of memory at exit, Try's test of
  the stack address;
* the depth of the interpreter's fixed stacks (jump stack, table of elements,
  the 64 entries for specifiers at `interpreter.c:1873`): the models' stacks are
  unbounded.

What remains is text processing, formatting or code without state of its own; the
parts with control worth checking are modelled.

## 7. Plan

Done, in this order: list memory, boxes and collector, processes and Try, right
part, labels and pools, numbers, left parts with recognition and specifiers; then
right parts and whole sentences, calls of C, lexical functions, bits, comparisons,
files, folders and commands.

Then the proofs of section 4: list memory and its refinement, processes and the
one store, boxes and the ideal boxes, the collector's pointer reversal and sweep,
the lack of cells and the conservation of cells in a right side, the label table.

Next, proofs:
1. `RightPart`: `BracketsPaired` and `DotsChained`, from a `Stage` that also says
   which cells are behind which.
2. `Numbers`: `TypeOK`, if the recursive operators it needs can be written as
   functions without changing the model.
