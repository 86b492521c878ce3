------------------------------- MODULE Boxes -------------------------------
(***************************************************************************)
(* Static and dynamic boxes in a bounded list memory: the primitive        *)
(* functions of inter/xbox.c, the call of a box (SWAP, SWAPREF and REF of  *)
(* inter/interpreter.c), the collector of inter/interface.c, and the       *)
(* retry of a step that found too few free cells (refal_execute).  A list  *)
(* is a sequence of symbols here, its cells are counted; module ListMemory *)
(* shows what the splices do to the cells.                                 *)
(***************************************************************************)
EXTENDS Naturals, Sequences, Functions, FiniteSets, FiniteSetsExt, SequencesExt

CONSTANTS
    Box,        \* cells that can be the head of a dynamic box
    Static,     \* the static boxes of the program, and the symbols that name them
    Plain,      \* every other symbol
    NoCall,     \* the view field holds no functional term
    MinSize,    \* options.min_list_memory
    Increase,   \* options.increase_list_memory
    MaxSize,    \* options.max_list_memory, here always a limit
    FreeCount,  \* options.free_memory_count
    MaxView     \* bound of the model: symbols in the view field

Primitive == {"New", "Gtr", "Rdr", "Ptr", "Wtr", "Swr"}

ASSUME BoxesAssumption ==
    /\ Box \cap Static = {} /\ Box \cap Plain = {} /\ Static \cap Plain = {}
    /\ Box \cap Primitive = {} /\ Static \cap Primitive = {}
    /\ IsFiniteSet(Static)
    /\ MinSize \in Nat \ {0, 1} /\ Increase \in Nat \ {0} /\ FreeCount \in Nat \ {0}
    /\ MaxSize \in Nat /\ MaxSize >= MinSize /\ MaxView \in Nat

VARIABLES
    view,       \* the symbols of the view field, the functional term left out
    call,       \* the functional term: function, argument, and its place in view
    content,    \* content[b]: the symbols of box b
    dynamic,    \* the boxes of the chain dynamic_boxes
    registered, \* the static boxes met so far: the chain static_boxes
    free,       \* the number of cells in the free list
    total,      \* list_memory_count
    lacking,    \* the cells that the current step found missing, 0 if it did not
    state       \* "run", "stuck" (recognition impossible), "exhausted" or "done"

vars == <<view, call, content, dynamic, registered, free, total, lacking, state>>

Symbol == Box \cup Static \cup Plain
Symbols(s) == {s[i] : i \in DOMAIN s}

Calls == [function : Primitive \cup Box \cup Static, argument : Seq(Symbol), at : Nat]

ASSUME NoCallAssumption == NoCall \notin Calls

\* The view and store heads of the process are taken first (create_status_table).
Init == /\ view = <<>> /\ call = NoCall
        /\ content = [b \in Box \cup Static |-> <<>>]
        /\ dynamic = {} /\ registered = {}
        /\ free = MinSize - 2 /\ total = MinSize
        /\ lacking = 0 /\ state = "run"

\* A step may be (re)tried: memory has been asked for since it was interrupted.
Running == state = "run" /\ lacking = 0

\* A step that needs n cells is interrupted when the free list is shorter.
Lack(n) == /\ Running /\ free < n
           /\ lacking' = n
           /\ UNCHANGED <<view, call, content, dynamic, registered, free, total, state>>

-----------------------------------------------------------------------------
(* The collector. *)

\* A faulty marking: the contents of static boxes are no roots.
MarkedWithoutStatic ==
    LET named == Symbols(view) \cup (IF call = NoCall THEN {}
                                     ELSE {call.function} \cup Symbols(call.argument))
        Closed(S) == /\ named \cap Box \subseteq S
                     /\ \A o \in S : Symbols(content[o]) \cap Box \subseteq S
    IN  {b \in dynamic : \A S \in SUBSET Box : Closed(S) => b \in S}

\* mark_dynamic_box_heads() from the view field, the store and the registered
\* static boxes: the least set of boxes closed under the references in it.
Marked ==
    LET named == Symbols(view) \cup (IF call = NoCall THEN {}
                                     ELSE {call.function} \cup Symbols(call.argument))
        Closed(S) == /\ named \cap Box \subseteq S
                     /\ \A o \in S \cup registered :
                            Symbols(content[o]) \cap Box \subseteq S
    IN  {b \in dynamic : \A S \in SUBSET Box : Closed(S) => b \in S}

Garbage == dynamic \ Marked

\* The cells of some boxes; the head of a dynamic box is one of them.
Cells(b) == Len(content[b]) + (IF b \in Box THEN 1 ELSE 0)
InBoxes(S) == SumFunctionOnSet([b \in Box \cup Static |-> Cells(b)], S)

\* A faulty collector: the heads of the boxes are not given back.
FreedWithoutHeads == SumFunctionOnSet([b \in Box |-> Len(content[b])], Garbage)

\* collect_garbage(): the cells of the unmarked boxes, heads included, become free.
Freed == InBoxes(Garbage)
CollectGarbage ==
    /\ dynamic' = dynamic \cap Marked
    /\ content' = [b \in Box \cup Static |-> IF b \in Garbage THEN <<>> ELSE content[b]]
    /\ UNCHANGED registered

\* The size of the next block of memory.
Grown == IF MaxSize - total >= Increase THEN Increase ELSE MaxSize - total

\* A faulty retry: at the limit the step is tried again.
MoreFreeMemoryHopeful ==
    /\ state = "run" /\ lacking # 0
    /\ CollectGarbage
    /\ lacking' = 0
    /\ LET grown == IF Freed >= FreeCount THEN 0 ELSE Grown
       IN  free' = free + Freed + grown /\ total' = total + grown
    /\ UNCHANGED <<view, call, state>>

\* more_free_memory() between two attempts of a step, called by refal_execute()
\* or by extended_insert_from_free_memory(); malloc succeeds up to the limit.
MoreFreeMemory ==
    /\ state = "run" /\ lacking # 0
    /\ CollectGarbage
    /\ IF Freed >= FreeCount
       THEN free' = free + Freed /\ lacking' = 0 /\ UNCHANGED <<total, state>>
       ELSE IF total = MaxSize
       THEN free' = free + Freed /\ state' = "exhausted" /\ UNCHANGED <<total, lacking>>
       ELSE /\ free' = free + Freed + Grown /\ total' = total + Grown
            /\ lacking' = 0 /\ UNCHANGED state
    /\ UNCHANGED <<view, call>>

-----------------------------------------------------------------------------
(* The program: ordinary functions rewrite the view field between calls.   *)

Prefix(s, i) == SubSeq(s, 1, i)
Suffix(s, i) == SubSeq(s, i + 1, Len(s))

\* A right side writes a symbol (NS) or copies one that the left side matched (MULS).
Write == \E x \in Static \cup Plain \cup Symbols(view) :
    /\ Running /\ call = NoCall
    /\ Len(view) < MaxView    \* bound
    /\ free >= 1
    /\ view' = Append(view, x)
    /\ free' = free - 1
    /\ UNCHANGED <<call, content, dynamic, registered, total, lacking, state>>

\* A right side leaves out a symbol: EOS sends its cell to the free list.
Discard == \E i \in DOMAIN view :
    /\ Running /\ call = NoCall
    /\ view' = Prefix(view, i - 1) \o Suffix(view, i)
    /\ free' = free + 1
    /\ UNCHANGED <<call, content, dynamic, registered, total, lacking, state>>

\* A right side builds a functional term over some symbols (BLF or BL, TPL, BRACT).
Apply == \E f \in Primitive \cup Static \cup (Box \cap Symbols(view)) :
         \E i \in 1 .. Len(view) + 1 : \E j \in i - 1 .. Len(view) :
    /\ Running /\ call = NoCall
    /\ f = "New" => Box \ dynamic # {}    \* bound: heads of boxes
    /\ free >= 3
    /\ call' = [function |-> f, argument |-> SubSeq(view, i, j), at |-> i - 1]
    /\ view' = Prefix(view, i - 1) \o Suffix(view, j)
    /\ free' = free - 3
    /\ UNCHANGED <<content, dynamic, registered, total, lacking, state>>

\* CFDONE: the result stands for the functional term.
Return(result) == /\ view' = Prefix(view, call.at) \o result \o Suffix(view, call.at)
                  /\ call' = NoCall
                  /\ UNCHANGED <<total, lacking, state>>

\* A faulty first use of a static box: it is not put in the chain static_boxes.
RegisterNever(b) == UNCHANGED registered

\* legal_argument_box(): the argument begins with a reference to a dynamic box
\* or with the name of a static one ...
Names(b) == call.argument # <<>> /\ Head(call.argument) = b
Rest == Tail(call.argument)
\* ... which is put in the chain static_boxes on first use.
Register(b) == registered' = registered \cup ({b} \cap Static)
-----------------------------------------------------------------------------
(* One action for each primitive function of xbox.c and for the box itself. *)

Called(f) == Running /\ call # NoCall /\ call.function = f

Gtr(b) == /\ Called("Gtr") /\ Names(b) /\ Rest = <<>>
          /\ Register(b)
          /\ Return(content[b])
          /\ content' = [content EXCEPT ![b] = <<>>]
          /\ free' = free + 4
          /\ UNCHANGED dynamic

Rdr(b) == /\ Called("Rdr") /\ Names(b) /\ Rest = <<>>
          /\ Register(b)
          /\ UNCHANGED <<content, dynamic>>
          /\ \/ /\ free >= Len(content[b])
                /\ Return(content[b])
                /\ free' = free - Len(content[b]) + 4
             \/ /\ free < Len(content[b])
                /\ lacking' = Len(content[b])
                /\ UNCHANGED <<view, call, free, total, state>>

Ptr(b) == /\ Called("Ptr") /\ Names(b)
          /\ Register(b)
          /\ Return(<<>>)
          /\ content' = [content EXCEPT ![b] = @ \o Rest]
          /\ free' = free + 4
          /\ UNCHANGED dynamic

Wtr(b) == /\ Called("Wtr") /\ Names(b)
          /\ Register(b)
          /\ Return(<<>>)
          /\ content' = [content EXCEPT ![b] = Rest]
          /\ free' = free + Len(content[b]) + 4
          /\ UNCHANGED dynamic

Swr(b) == /\ Called("Swr") /\ Names(b)
          /\ Register(b)
          /\ Return(content[b])
          /\ content' = [content EXCEPT ![b] = Rest]
          /\ free' = free + 4
          /\ UNCHANGED dynamic

\* SWAP and SWAPREF: the box itself is called, and exchanges contents with the argument.
Swap(b) == /\ Called(b)
           /\ Register(b)
           /\ Return(content[b])
           /\ content' = [content EXCEPT ![b] = call.argument]
           /\ free' = free + 3
           /\ UNCHANGED dynamic

\* New: one free cell becomes the reference, the cell of the called function
\* becomes the head of the box that holds the argument.
New == \E b \in Box \ dynamic :
    /\ Called("New") /\ free >= 1
    /\ Return(<<b>>)
    /\ content' = [content EXCEPT ![b] = call.argument]
    /\ dynamic' = dynamic \cup {b}
    /\ free' = free + 1
    /\ UNCHANGED registered

\* The argument names no box, or more than a box: recognition impossible.
Fail == /\ Running /\ call # NoCall
        /\ call.function \in Primitive \ {"New"}
        /\ ~ \E b \in Box \cup Static :
                Names(b) /\ (call.function \in {"Gtr", "Rdr"} => Rest = <<>>)
        /\ state' = "stuck"
        /\ UNCHANGED <<view, call, content, dynamic, registered, free, total, lacking>>

Access == \E b \in Box \cup Static :
              Gtr(b) \/ Rdr(b) \/ Ptr(b) \/ Wtr(b) \/ Swr(b) \/ Swap(b)

Next == \/ Write \/ Discard \/ Apply
        \/ call = NoCall /\ (Lack(1) \/ Lack(3))
        \/ Called("New") /\ Lack(1)
        \/ New \/ Access \/ Fail \/ MoreFreeMemory

\* One thread computes the term: it goes on as long as it can.
Spec == Init /\ [][Next]_vars /\ WF_vars(Next)
-----------------------------------------------------------------------------

\* A symbol-reference that the program can still reach refers to a box, never
\* to cells that the collector has given back (collect_garbage frees whatever
\* no mark reached, and the marks start from the lists of the processes and
\* from the static boxes registered so far only).
NoDangling ==
    LET holders == dynamic \cup Static
    IN  /\ Symbols(view) \cap Box \subseteq dynamic
        /\ call # NoCall => ({call.function} \cup Symbols(call.argument)) \cap Box
                                \subseteq dynamic
        /\ \A o \in holders : Symbols(content[o]) \cap Box \subseteq dynamic

\* Every cell obtained is free, in a list or the head of a box: neither the
\* calls nor the collector lose one or count one twice.
CellsAccounted ==
    total = free + 2 + Len(view)
            + (IF call = NoCall THEN 0 ELSE 3 + Len(call.argument))
            + InBoxes(dynamic \cup Static)

\* The collector and the growth of memory are invisible: up to the boxes that
\* it can no longer name, the program runs as in endless memory.
Reachable == [o \in Static \cup Marked |-> content[o]]
Ideal == INSTANCE IdealBoxes WITH content <- Reachable
Transparent == Ideal!Spec

\* A call is not retried for ever: it returns, fails, or memory is exhausted.
CallsReturn == call # NoCall ~> (call = NoCall \/ state # "run")

=============================================================================
