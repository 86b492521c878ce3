------------------------------ MODULE Processes ------------------------------
(***************************************************************************)
(* A Refal program at run time: refal_execute() of inter/interface.c runs  *)
(* the main process, refal_run() of inter/interpreter.c its steps, and the *)
(* function Try of inter/xtry.c, called in the middle of a step, a process *)
(* inside it that shares the refal block, the interpreter and the memory.  *)
(* The functions of inter/xstore.c work on the burial store of the process *)
(* that runs.  A view field is a number of functional terms and a number   *)
(* of other cells; its two heads are counted with it.                      *)
(***************************************************************************)
EXTENDS Naturals, Sequences, FiniteSets, FiniteSetsExt, Functions, SequencesExt

CONSTANTS
    Name, Value,    \* what can be buried
    None,           \* nothing
    MinSize,        \* options.min_list_memory
    Increase,       \* options.increase_list_memory
    MaxSize,        \* options.max_list_memory, here always a limit
    MaxStop,        \* MAX_STOP
    Wrap,           \* the numbers of type uint32_t
    MaxTerms,       \* bound: functional terms in a view field
    MaxPlain,       \* bound: other cells in a view field
    MaxItems,       \* bound: items in the burial store
    MaxDepth        \* bound: processes at a time

ASSUME ProcessesAssumption ==
    /\ Increase \in Nat \ {0} /\ MinSize \in Nat /\ MinSize >= 5
    /\ MaxSize \in Nat /\ MaxSize >= MinSize
    /\ MaxStop \in Nat \ {0, 1} /\ Wrap \in Nat /\ Wrap > MaxStop + 1
    /\ MaxTerms \in Nat \ {0} /\ MaxPlain \in Nat \ {0}
    /\ MaxItems \in Nat /\ MaxDepth \in Nat \ {0}

VARIABLES
    process,    \* the processes, each but the first inside a Try of the one before it
    block,      \* the part of the refal block that refal_run() saves
    free,       \* the number of cells in the free list
    total,      \* list_memory_count
    outcome,    \* "running", "done", "stuck", "exhausted", or "abort" (refal_abort_end)
    performed   \* the steps completed since the start, modulo MaxStop

vars == <<process, block, free, total, outcome, performed>>

Top == Len(process)
Running == process[Top]

ItemCells == 4      \* two brackets, a name and a value
Outside == [upshot |-> 1, current |-> 0, argument |-> 0]

\* Every process is created by create_status_table().
Created == [state |-> 1, at |-> "idle", terms |-> 0, plain |-> 0, store |-> <<>>,
            step |-> 0, saved |-> Outside, leading |-> None]

\* refal_execute() up to its loop: the view field is < F >.
Init == /\ process = <<[Created EXCEPT !.terms = 1, !.plain = 1]>>
        /\ block = Outside
        /\ free = MinSize - 5 /\ total = MinSize
        /\ outcome = "running" /\ performed = 0

At(where) == outcome = "running" /\ Running.at = where
Put(p) == process' = [process EXCEPT ![Top] = p]

\* more_free_memory() without boxes: a block of memory, or none at the limit.
Grown(m) == LET size == Min({Increase, MaxSize - m.total})
            IN  [free |-> m.free + size, total |-> m.total + size]
Memory == [free |-> free, total |-> total]
CanGrow == total < MaxSize
MoreFreeMemory == free' = Grown(Memory).free /\ total' = Grown(Memory).total

\* What extended_insert_from_free_memory() finds for one or two cells.
Extended(n) == LET once == IF free >= n THEN Memory ELSE Grown(Memory)
               IN  IF once.free >= n THEN once ELSE Grown(once)
-----------------------------------------------------------------------------
(* refal_run() *)

RunProcess ==
    /\ At("idle")
    /\ IF Running.state = 4
       THEN outcome' = "abort" /\ UNCHANGED <<process, block>>
       ELSE /\ Put([Running EXCEPT !.saved = block, !.state = 4, !.at = "start"])
            /\ block' = [block EXCEPT !.current = Top]
            /\ UNCHANGED outcome
    /\ UNCHANGED <<free, total, performed>>

\* Two faulty exits: the state stays "in the middle of a step" ...
ExitActive(p, state) ==
    /\ Put([p EXCEPT !.at = "returned"])
    /\ block' = p.saved
    /\ UNCHANGED <<outcome, performed>>
\* ... and the refal block stays with the process that has stopped.
ExitUnrestored(p, state) ==
    /\ Put([p EXCEPT !.state = state, !.at = "returned"])
    /\ UNCHANGED <<block, outcome, performed>>

\* EXIT
Exit(p, state) ==
    /\ Put([p EXCEPT !.state = state, !.at = "returned"])
    /\ block' = p.saved
    /\ UNCHANGED <<outcome, performed>>

\* ADVSTEP, in the process p that completes its step.
Advance(p) ==
    /\ Put([p EXCEPT !.step = (@ + 1) % Wrap, !.leading = None])
    /\ performed' = (performed + 1) % MaxStop
    /\ UNCHANGED outcome

\* The refal block as CFUNC leaves it for a C function of the process at depth d.
Calling(d) == [upshot |-> 1, current |-> d, argument |-> d]

\* START: no step is left to do.
Stop == /\ At("start") /\ (Running.step >= MaxStop \/ Running.terms = 0)
        /\ Exit(Running, 1)
        /\ UNCHANGED <<free, total>>

\* The leading functional term and what its function will do with it; the
\* same again when the step is retried.
Plain == MapThenSumSet(LAMBDA i : process[i].plain, 1 .. Top)
Rewrites == [kind : {"rewrite"}, calls : 0 .. 2, symbols : 0 .. 2, used : 1 .. MaxPlain]
Functions ==
    [kind : {"Br", "Rp"}, name : Name, value : Value]
        \cup [kind : {"Dg", "Cp"}, name : Name]
        \cup [kind : {"Dgall", "impossible"}]
        \cup [kind : {"Try"}, argument : 0 .. MaxPlain - 1]
ArgumentCells(f) == CASE f.kind \in {"Br", "Rp"} -> 2
                      [] f.kind \in {"Dg", "Cp"} -> 1
                      [] f.kind = "Try" -> f.argument
                      [] OTHER -> 0

Lead == /\ At("start") /\ Running.step < MaxStop /\ Running.terms > 0
        /\ Running.leading = None
        /\ \/ \E r \in Rewrites :
                 /\ r.used <= Running.plain
                 /\ Running.terms - 1 + r.calls <= MaxTerms    \* bound
                 /\ Plain - r.used + r.symbols <= MaxPlain     \* bound
                 /\ Put([Running EXCEPT !.leading = r])
           \/ \E f \in Functions :
                 /\ f.kind # "impossible" => ArgumentCells(f) < Running.plain
                 /\ f.kind \in {"Br", "Rp"} => Len(Running.store) < MaxItems     \* bound
                 /\ f.kind = "Dgall" =>
                        Plain - 1 + ItemCells * Len(Running.store) <= MaxPlain   \* bound
                 /\ f.kind = "Try" => Top < MaxDepth                             \* bound
                 /\ Put([Running EXCEPT !.leading = f])
        /\ UNCHANGED <<block, free, total, outcome, performed>>

Led(kind) == /\ At("start") /\ Running.step < MaxStop /\ Running.leading # None
             /\ Running.leading.kind = kind

\* A right side takes cells for new brackets and symbols; the rest of the term is freed.
Rewrite ==
    /\ Led("rewrite")
    /\ LET r    == Running.leading
           need == 2 * r.calls + r.symbols
       IN  IF free < need
           THEN Exit(Running, 3) /\ UNCHANGED free
           ELSE /\ Advance([Running EXCEPT !.terms = @ - 1 + r.calls,
                                           !.plain = @ - r.used + r.symbols])
                /\ free' = free - need + 2 + r.used
                /\ UNCHANGED block
    /\ UNCHANGED total

Impossible == Led("impossible") /\ Exit(Running, 2) /\ UNCHANGED <<free, total>>
-----------------------------------------------------------------------------
(* The functions of xstore.c; a C function that lacks memory says so by    *)
(* upshot = 3, and CFLACK stops the process in state 3.                    *)

\* CFDONE: the call of f is replaced by result cells; gain cells are freed with < and >.
Return(store, used, result, gain) ==
    /\ Advance([Running EXCEPT !.terms = @ - 1, !.plain = @ - used + result, !.store = store])
    /\ block' = Calling(Top)
    /\ free' = gain + 2 /\ UNCHANGED total

Named(n) == {i \in DOMAIN Running.store : Running.store[i].name = n}
Youngest(n) == Min(Named(n))

\* br_(), and rp_() when nothing has the name: the cell of the label is the right bracket.
Bury(n, v) ==
    LET m == Extended(1)
    IN  IF m.free < 1
        THEN Exit(Running, 3) /\ free' = m.free /\ total' = m.total
        ELSE /\ Advance([Running EXCEPT !.terms = @ - 1, !.plain = @ - 3,
                            !.store = <<[name |-> n, value |-> v]>> \o @])
             /\ block' = Calling(Top)
             /\ free' = m.free - 1 + 2 /\ total' = m.total

Br == Led("Br") /\ Bury(Running.leading.name, Running.leading.value)

Rp == /\ Led("Rp")
      /\ LET n == Running.leading.name
             v == Running.leading.value
         IN  IF Named(n) = {} THEN Bury(n, v)
             ELSE Return([Running.store EXCEPT ![Youngest(n)].value = v], 3, 0, free + 3)

\* The brackets and the name of the item are freed, its value is the result.
Dg == /\ Led("Dg")
      /\ LET n == Running.leading.name
         IN  IF Named(n) = {} THEN Return(Running.store, 2, 0, free + 2)
             ELSE Return(RemoveAt(Running.store, Youngest(n)), 2, 1, free + 5)

\* A copy of the value: copy_expression() does not ask for memory itself.
Cp == /\ Led("Cp")
      /\ IF Named(Running.leading.name) = {} THEN Return(Running.store, 2, 0, free + 2)
         ELSE IF free < 1 THEN Exit(Running, 3) /\ UNCHANGED <<free, total>>
         ELSE Return(Running.store, 2, 1, free - 1 + 2)

Dgall == /\ Led("Dgall")
         /\ Return(<<>>, 1, ItemCells * Len(Running.store), free + 1)
-----------------------------------------------------------------------------
(* try_() *)

\* A new process: create_status_table() takes two cells, or the call lacks memory.
Try == /\ Led("Try")
       /\ IF free < 2
          THEN Exit(Running, 3) /\ UNCHANGED free
          ELSE /\ process' = Append([process EXCEPT ![Top].at = "try"],
                                    [Created EXCEPT !.at = "opening"])
               /\ block' = Calling(Top)
               /\ free' = free - 2
               /\ UNCHANGED <<outcome, performed>>
       /\ UNCHANGED total

Caller == process[Top - 1]
Close(p) == process' = Append(SubSeq(process, 1, Top - 2), p)

\* A faulty opening: the table of the new process is not deleted for want of memory.
OpenLeak ==
    /\ At("opening")
    /\ LET m == Extended(2)
           a == Caller.leading.argument
           s == (Caller.step + 1) % Wrap
       IN  IF m.free < 2
           THEN /\ Close([Caller EXCEPT !.state = 3, !.at = "returned"])
                /\ block' = Caller.saved
                /\ free' = m.free
                /\ total' = m.total
           ELSE /\ process' = [process EXCEPT
                        ![Top - 1] = [Caller EXCEPT !.plain = @ - a, !.store = <<>>, !.step = s],
                        ![Top] = [Running EXCEPT !.terms = 1, !.plain = a, !.store = Caller.store,
                                                 !.step = s, !.at = "idle"]]
                /\ free' = m.free - 2
                /\ total' = m.total
                /\ UNCHANGED block
    /\ UNCHANGED <<outcome, performed>>

\* Two more cells make < and >; the argument and the burial store go to the new process.
Open ==
    /\ At("opening")
    /\ LET m == Extended(2)
           a == Caller.leading.argument
           s == (Caller.step + 1) % Wrap
       IN  IF m.free < 2
           THEN /\ Close([Caller EXCEPT !.state = 3, !.at = "returned"])
                /\ block' = Caller.saved
                /\ free' = m.free + 2
                /\ total' = m.total
           ELSE /\ process' = [process EXCEPT
                        ![Top - 1] = [Caller EXCEPT !.plain = @ - a, !.store = <<>>, !.step = s],
                        ![Top] = [Running EXCEPT !.terms = 1, !.plain = a, !.store = Caller.store,
                                                 !.step = s, !.at = "idle"]]
                /\ free' = m.free - 2
                /\ total' = m.total
                /\ UNCHANGED block
    /\ UNCHANGED <<outcome, performed>>

\* The loop of try_(): the process has stopped and will be run again.
Again ==
    /\ At("returned") /\ Top > 1 /\ Running.terms > 0
    /\ \/ /\ Running.state = 1
          /\ Put([Running EXCEPT !.step = 0, !.at = "idle"])
          /\ UNCHANGED <<free, total>>
       \/ /\ Running.state = 3 /\ CanGrow
          /\ Put([Running EXCEPT !.state = 1, !.at = "idle"])
          /\ MoreFreeMemory
    /\ UNCHANGED <<block, outcome, performed>>

\* What the call of Try is replaced by: 'N' and the view field, 'R' and the
\* contents of the term that failed, or 'S'.
Results(p) == CASE p.state = 1 -> {p.plain}
                [] p.state = 2 -> 0 .. p.plain
                [] p.state = 3 -> {0}

\* Two faulty ends of Try: the burial store stays in the deleted process ...
FinishStoreLost ==
    /\ At("returned") /\ Top > 1
    /\ Running.terms = 0 \/ Running.state = 2 \/ (Running.state = 3 /\ ~CanGrow)
    /\ \E result \in Results(Running) :
        /\ Close([Caller EXCEPT !.step = Running.step, !.at = "start", !.leading = None,
                                !.terms = @ - 1, !.plain = @ + result])
        /\ free' = free + 2 + 2 * Running.terms + Running.plain - result + 2
    /\ performed' = (performed + 1) % MaxStop
    /\ UNCHANGED <<block, total, outcome>>
\* ... and the call of Try is counted twice.
FinishMiscounted ==
    /\ At("returned") /\ Top > 1
    /\ Running.terms = 0 \/ Running.state = 2 \/ (Running.state = 3 /\ ~CanGrow)
    /\ \E result \in Results(Running) :
        /\ Close([Caller EXCEPT !.step = (Running.step + 1) % Wrap,
                                !.store = Running.store, !.at = "start", !.leading = None,
                                !.terms = @ - 1, !.plain = @ + result])
        /\ free' = free + 2 + 2 * Running.terms + Running.plain - result + 2
    /\ performed' = (performed + 1) % MaxStop
    /\ UNCHANGED <<block, total, outcome>>

\* The end of try_() with delete_status_table(), and CFDONE or CFLACK in the caller.
Finish ==
    /\ At("returned") /\ Top > 1
    /\ Running.terms = 0 \/ Running.state = 2 \/ (Running.state = 3 /\ ~CanGrow)
    /\ \E result \in Results(Running) :
        LET before == (Running.step + Wrap - 1) % Wrap
        IN  /\ Close([Caller EXCEPT !.step = (before + 1) % Wrap,
                                    !.store = Running.store, !.at = "start", !.leading = None,
                                    !.terms = @ - 1, !.plain = @ + result])
            /\ free' = free + 2 + 2 * Running.terms + Running.plain - result + 2
    /\ performed' = (performed + 1) % MaxStop
    /\ UNCHANGED <<block, total, outcome>>
-----------------------------------------------------------------------------
(* refal_execute() *)

\* A faulty loop: a process that lacks memory is run again whether there is more or not.
ContinueHopeful ==
    /\ At("returned") /\ Top = 1
    /\ IF Running.state = 3
       THEN /\ Put([Running EXCEPT !.at = "idle"])
            /\ MoreFreeMemory
            /\ UNCHANGED outcome
       ELSE /\ IF Running.state = 1 /\ Running.terms > 0
               THEN Put([Running EXCEPT !.step = 0, !.at = "idle"]) /\ UNCHANGED outcome
               ELSE /\ outcome' = IF Running.terms = 0 THEN "done" ELSE "stuck"
                    /\ UNCHANGED process
            /\ UNCHANGED <<free, total>>
    /\ UNCHANGED <<block, performed>>

Continue ==
    /\ At("returned") /\ Top = 1
    /\ IF Running.state = 3 /\ CanGrow
       THEN /\ Put([Running EXCEPT !.at = "idle"])
            /\ MoreFreeMemory
            /\ UNCHANGED outcome
       ELSE /\ IF Running.state = 1 /\ Running.terms > 0
               THEN Put([Running EXCEPT !.step = 0, !.at = "idle"]) /\ UNCHANGED outcome
               ELSE /\ outcome' = CASE Running.terms = 0 -> "done"
                                    [] Running.state = 2 -> "stuck"
                                    [] OTHER -> "exhausted"
                    /\ UNCHANGED process
            /\ UNCHANGED <<free, total>>
    /\ UNCHANGED <<block, performed>>

Next == \/ RunProcess \/ Stop \/ Lead \/ Rewrite \/ Impossible
        \/ Br \/ Rp \/ Dg \/ Cp \/ Dgall
        \/ Try \/ Open \/ Again \/ Finish \/ Continue

\* One thread: it goes on as long as it can.
Spec == Init /\ [][Next]_vars /\ WF_vars(Next)
-----------------------------------------------------------------------------
\* When refal_run() has returned, the C function that called it - Try, or the
\* main program - finds in the refal block the call that it is executing, and
\* no upshot of the process inside.
BlockRestored == Running.at \in {"idle", "opening", "returned"} => block = Calling(Top - 1)

\* No sequence of calls of Try reaches an abort of refal_run() or
\* delete_status_table(): only the processes that wait for a Try are in state 4.
NeverAborts == /\ outcome # "abort"
               /\ \A i \in 1 .. Top : process[i].state = 4 <=> process[i].at \in {"start", "try"}

\* The cells of the two lists of a process: heads, terms, other cells, and the store.
Held(p) == 2 + 2 * p.terms + p.plain + ItemCells * Len(p.store)

\* Whatever processes are opened, retried and deleted, each cell obtained is in
\* one list: a Try that fails at any point gives back what it took.
CellsAccounted ==
    total = free + SumFunction([i \in 1 .. Top |-> Held(process[i])])

\* The counter that Step and the debugger read: the steps done in all processes,
\* and the calls of Try that are under way, through every reset of the counter.
StepsCounted == Running.at = "start" =>
                    Running.step % MaxStop = (performed + Top - 1) % MaxStop

\* The program has one burial store: Br, Dg, Rp and Dgall act on it as if no Try
\* had moved it, and what a failed Try has buried stays.
OneStore == INSTANCE Burial WITH
    store <- IF Running.at = "opening" THEN Caller.store ELSE Running.store,
    call  <- IF Running.at = "start" /\ Running.leading # None THEN Running.leading
             ELSE [kind |-> "none"]
StoreFollows == OneStore!Spec

\* A step other than a call of Try ends: it is completed, or its process stops.
EveryStepEnds ==
    \A d \in 1 .. MaxDepth :
        (Top = d /\ Running.leading # None /\ Running.leading.kind # "Try")
            ~> (Top # d \/ Running.leading = None \/ outcome # "running")
=============================================================================
