---------------------------- MODULE BoxesProofs ----------------------------
(***************************************************************************)
(* For every number of boxes, cells and symbols: no symbol-reference that  *)
(* the program can reach refers to a box that the collector has freed, no  *)
(* cell is lost or counted twice, and the boxes of a bounded memory with a *)
(* collector implement those of IdealBoxes.                                *)
(***************************************************************************)
EXTENDS Boxes, Lemmas

\* No symbols are in the empty list.
LEMMA SymbolsEmpty == Symbols(<<>>) = {}
BY DEF Symbols

\* The symbols of two lists together are those of both.
LEMMA SymbolsConcat ==
    ASSUME NEW S, NEW s \in Seq(S), NEW t \in Seq(S)
    PROVE  s \o t \in Seq(S) /\ Symbols(s \o t) = Symbols(s) \cup Symbols(t)
<1>1. s \o t \in Seq(S) /\ Len(s \o t) = Len(s) + Len(t)
      /\ DOMAIN (s \o t) = 1 .. Len(s) + Len(t)
      /\ DOMAIN s = 1 .. Len(s) /\ DOMAIN t = 1 .. Len(t)
      /\ Len(s) \in Nat /\ Len(t) \in Nat
  OBVIOUS
<1>2. \A i \in 1 .. Len(s) : (s \o t)[i] = s[i]
  OBVIOUS
<1>3. \A i \in 1 .. Len(t) : (s \o t)[Len(s) + i] = t[i]
  OBVIOUS
<1>4. ASSUME NEW i \in DOMAIN (s \o t) PROVE (s \o t)[i] \in Symbols(s) \cup Symbols(t)
  <2>1. CASE i <= Len(s)
    BY <1>1, <1>2, <2>1 DEF Symbols
  <2>2. CASE i > Len(s)
    <3>1. i - Len(s) \in 1 .. Len(t) /\ i = Len(s) + (i - Len(s))
      BY <1>1, <2>2
    <3>2. (s \o t)[i] = t[i - Len(s)]
      BY <1>3, <3>1
    <3>3. QED
      BY <1>1, <3>1, <3>2 DEF Symbols
  <2>3. QED
    BY <1>1, <2>1, <2>2
<1>5. ASSUME NEW i \in DOMAIN s PROVE s[i] \in Symbols(s \o t)
  <2>1. i \in DOMAIN (s \o t) /\ (s \o t)[i] = s[i]
    BY <1>1, <1>2
  <2>2. QED
    BY <2>1 DEF Symbols
<1>6. ASSUME NEW i \in DOMAIN t PROVE t[i] \in Symbols(s \o t)
  <2>1. Len(s) + i \in DOMAIN (s \o t) /\ (s \o t)[Len(s) + i] = t[i]
    BY <1>1, <1>3
  <2>2. QED
    BY <2>1 DEF Symbols
<1>7. QED
  BY <1>1, <1>4, <1>5, <1>6 DEF Symbols

\* A part of a list has no other symbols than the list, ...
LEMMA SymbolsSubSeq ==
    ASSUME NEW S, NEW s \in Seq(S), NEW i \in Nat, NEW j \in Nat, i >= 1, j <= Len(s)
    PROVE  SubSeq(s, i, j) \in Seq(S) /\ Symbols(SubSeq(s, i, j)) \subseteq Symbols(s)
<1>1. SubSeq(s, i, j) \in Seq(S)
  OBVIOUS
<1>2. ASSUME NEW k \in DOMAIN SubSeq(s, i, j) PROVE SubSeq(s, i, j)[k] \in Symbols(s)
  <2>1. i + k - 1 \in DOMAIN s /\ SubSeq(s, i, j)[k] = s[i + k - 1]
    OBVIOUS
  <2>2. QED
    BY <2>1 DEF Symbols
<1>3. QED
  BY <1>1, <1>2 DEF Symbols

\* ... be it the beginning, ...
LEMMA SymbolsPrefix ==
    ASSUME NEW S, NEW s \in Seq(S), NEW i \in 0 .. Len(s)
    PROVE  Prefix(s, i) \in Seq(S) /\ Symbols(Prefix(s, i)) \subseteq Symbols(s)
BY SymbolsSubSeq DEF Prefix

\* ... the end ...
LEMMA SymbolsSuffix ==
    ASSUME NEW S, NEW s \in Seq(S), NEW i \in 0 .. Len(s)
    PROVE  Suffix(s, i) \in Seq(S) /\ Symbols(Suffix(s, i)) \subseteq Symbols(s)
BY SymbolsSubSeq DEF Suffix

\* ... or all but the first.
LEMMA SymbolsOfRest ==
    ASSUME NEW S, NEW s \in Seq(S), s # <<>>
    PROVE  /\ Head(s) \in S /\ Tail(s) \in Seq(S)
           /\ Symbols(Tail(s)) \subseteq Symbols(s)
<1>1. Head(s) \in S /\ Tail(s) \in Seq(S) /\ Len(s) \in Nat /\ Len(s) >= 1
      /\ Tail(s) = SubSeq(s, 2, Len(s))
  OBVIOUS
<1>2. Symbols(SubSeq(s, 2, Len(s))) \subseteq Symbols(s)
  <2>1. 2 \in Nat /\ 2 >= 1 /\ Len(s) <= Len(s)
    BY <1>1
  <2> HIDE <1>1
  <2>2. QED
    BY <1>1, <2>1, SymbolsSubSeq
<1>3. QED
  BY <1>1, <1>2
-----------------------------------------------------------------------------
Types == /\ view \in Seq(Symbol)
         /\ call \in {NoCall} \cup Calls
         /\ content \in [Box \cup Static -> Seq(Symbol)]
         /\ dynamic \subseteq Box
         /\ registered \subseteq Static

\* The inductive invariant adds where the result of a call will go, and that a
\* static box that is not registered yet, so no root of the collector, is empty.
Inv == /\ Types
       /\ call # NoCall => call.at \in 0 .. Len(view)
       /\ \A s \in Static \ registered : content[s] = <<>>
       /\ NoDangling

\* What the collector starts from.
Named == Symbols(view) \cup (IF call = NoCall THEN {}
                             ELSE {call.function} \cup Symbols(call.argument))

\* NoDangling in terms of the sets of references that an action can change.
LEMMA NoDanglingParts ==
    NoDangling <=> /\ Named \cap Box \subseteq dynamic
                   /\ \A o \in dynamic \cup Static : Symbols(content[o]) \cap Box \subseteq dynamic
BY DEF NoDangling, Named

\* The marks are closed: what the roots and the marked boxes name is marked.
LEMMA MarkedClosed ==
    ASSUME Inv
    PROVE  /\ Marked \subseteq dynamic
           /\ Named \cap Box \subseteq Marked
           /\ \A o \in Marked \cup registered : Symbols(content[o]) \cap Box \subseteq Marked
<1> DEFINE Closed(S) == /\ Named \cap Box \subseteq S
                        /\ \A o \in S \cup registered : Symbols(content[o]) \cap Box \subseteq S
<1>1. Marked = {b \in dynamic : \A S \in SUBSET Box : Closed(S) => b \in S}
  BY DEF Marked, Named
<1>2. Marked \subseteq dynamic
  BY <1>1
<1>3. ASSUME NEW r \in Named \cap Box PROVE r \in Marked
  BY <1>1, NoDanglingParts DEF Inv
<1>4. ASSUME NEW o \in Marked \cup registered, NEW r \in Symbols(content[o]) \cap Box
      PROVE  r \in Marked
  <2>1. r \in dynamic
    BY <1>2, NoDanglingParts DEF Inv, Types
  <2>2. ASSUME NEW S \in SUBSET Box, Closed(S) PROVE r \in S
    <3>1. o \in S \cup registered
      BY <1>1, <2>2
    <3>2. QED
      BY <2>2, <3>1
  <2>3. QED
    BY <1>1, <2>1, <2>2
<1>5. QED
  BY <1>2, <1>3, <1>4

\* So collecting frees no box that something still refers to.
LEMMA CollectGarbageSafe ==
    ASSUME Inv, CollectGarbage, UNCHANGED <<view, call>>
    PROVE  Inv'
<1>1. /\ dynamic' = dynamic \cap Marked /\ UNCHANGED registered
      /\ content' = [b \in Box \cup Static |-> IF b \in Garbage THEN <<>> ELSE content[b]]
  BY DEF CollectGarbage
<1>2. Types'
  BY <1>1 DEF Inv, Types
<1>3. ASSUME NEW s \in Static \ registered PROVE content'[s] = <<>>
  BY <1>1 DEF Inv
<1>4. Named' \cap Box \subseteq dynamic'
  BY <1>1, MarkedClosed DEF Named
<1>5. ASSUME NEW o \in dynamic' \cup Static
      PROVE  Symbols(content'[o]) \cap Box \subseteq dynamic'
  <2>1. o \in (Marked \cup registered) \cup (Static \ registered)
    BY <1>1 DEF Inv, Types
  <2>2. CASE content'[o] = <<>>
    BY <2>2, SymbolsEmpty
  <2>3. CASE o \in Marked \cup registered /\ content'[o] = content[o]
    BY <1>1, <2>3, MarkedClosed
  <2>4. content'[o] = <<>> \/ content'[o] = content[o]
    BY <1>1 DEF Inv, Types
  <2>5. CASE o \in Static \ registered
    BY <1>1, <1>3, <2>5, SymbolsEmpty
  <2>6. QED
    BY <2>1, <2>2, <2>3, <2>4, <2>5
<1>6. NoDangling'
  <2>1. /\ Named' \cap Box \subseteq dynamic'
        /\ \A o \in dynamic' \cup Static : Symbols(content'[o]) \cap Box \subseteq dynamic'
    BY <1>4, <1>5
  <2>2. QED
    BY <2>1 DEF NoDangling, Named
<1>7. QED
  BY <1>1, <1>2, <1>3, <1>6 DEF Inv
-----------------------------------------------------------------------------
\* The initial states satisfy the invariant.
LEMMA InvInit == Init => Inv
<1> SUFFICES ASSUME Init PROVE Inv
  OBVIOUS
<1>1. Types
  BY DEF Init, Types
<1>2. NoDangling
  BY SymbolsEmpty DEF Init, NoDangling
<1>3. QED
  BY <1>1, <1>2 DEF Init, Inv

\* A call that returns: the result takes its place in the view field.
LEMMA ReturnView ==
    ASSUME Inv, call # NoCall, NEW result \in Seq(Symbol), Return(result)
    PROVE  /\ view' \in Seq(Symbol) /\ call' = NoCall
           /\ Named' \subseteq Symbols(view) \cup Symbols(result)
<1> DEFINE before == Prefix(view, call.at)
           behind == Suffix(view, call.at)
<1>1. view \in Seq(Symbol) /\ call.at \in 0 .. Len(view)
  BY DEF Inv, Types
<1>2. /\ before \in Seq(Symbol) /\ Symbols(before) \subseteq Symbols(view)
      /\ behind \in Seq(Symbol) /\ Symbols(behind) \subseteq Symbols(view)
  BY <1>1, SymbolsPrefix, SymbolsSuffix
<1> HIDE DEF before, behind
<1> DEFINE front == before \o result
<1>3. front \in Seq(Symbol) /\ Symbols(front) = Symbols(before) \cup Symbols(result)
  BY <1>2, SymbolsConcat
<1>4. view' = front \o behind /\ call' = NoCall
  BY DEF Return, before, behind
<1> HIDE DEF front
<1>5. /\ front \o behind \in Seq(Symbol)
      /\ Symbols(front \o behind) = Symbols(front) \cup Symbols(behind)
  BY <1>2, <1>3, SymbolsConcat
<1>6. QED
  BY <1>2, <1>3, <1>4, <1>5 DEF Named

\* A call that gives one box the contents new and returns the contents of a box
\* or nothing: everything it moves was named by the call or by a box.
LEMMA ReturnSafe ==
    ASSUME Inv, call # NoCall,
           NEW result \in Seq(Symbol), Return(result),
           NEW b \in Box \cup Static, b \in Box => b \in dynamic,
           NEW new \in Seq(Symbol),
           content' = [content EXCEPT ![b] = new],
           Symbols(result) \cap Box \subseteq dynamic,
           Symbols(new) \cap Box \subseteq dynamic,
           dynamic' = dynamic, registered' = registered \cup ({b} \cap Static)
    PROVE  Inv'
<1>1. /\ view' \in Seq(Symbol) /\ call' = NoCall
      /\ Named' \subseteq Symbols(view) \cup Symbols(result)
  BY ReturnView
<1>2. Types'
  BY <1>1 DEF Inv, Types
<1>3. ASSUME NEW s \in Static \ registered' PROVE content'[s] = <<>>
  BY <1>3 DEF Inv, Types
<1>4. Named' \cap Box \subseteq dynamic'
  BY <1>1, NoDanglingParts DEF Named, Inv
<1>5. ASSUME NEW o \in dynamic' \cup Static
      PROVE  Symbols(content'[o]) \cap Box \subseteq dynamic'
  BY NoDanglingParts DEF Inv, Types
<1>6. NoDangling'
  BY <1>4, <1>5 DEF NoDangling, Named
<1>7. QED
  BY <1>1, <1>2, <1>3, <1>6 DEF Inv

\* The box that a call names is in the chain, and so is all that it holds.
LEMMA NamedBox ==
    ASSUME Inv, call # NoCall, NEW b \in Box \cup Static,
           b \in {call.function} \cup Symbols(call.argument)
    PROVE  /\ b \in Box => b \in dynamic
           /\ content[b] \in Seq(Symbol)
           /\ Symbols(content[b]) \cap Box \subseteq dynamic
BY NoDanglingParts DEF Inv, Types, Named

\* The box a primitive function is given, and the rest of its argument, refer to live boxes only.
LEMMA ArgumentParts ==
    ASSUME Inv, call # NoCall, call.argument # <<>>
    PROVE  /\ Head(call.argument) \in Symbols(call.argument)
           /\ Tail(call.argument) \in Seq(Symbol)
           /\ Symbols(Tail(call.argument)) \cap Box \subseteq dynamic
<1>1. call.argument \in Seq(Symbol) /\ Symbols(call.argument) \cap Box \subseteq dynamic
  BY NoDanglingParts DEF Inv, Types, Calls, Named
<1>2. /\ Tail(call.argument) \in Seq(Symbol)
      /\ Symbols(Tail(call.argument)) \subseteq Symbols(call.argument)
  BY <1>1, SymbolsOfRest
<1>3. Head(call.argument) = call.argument[1] /\ 1 \in DOMAIN call.argument
  BY <1>1
<1>4. QED
  BY <1>1, <1>2, <1>3 DEF Symbols

\* One lemma for each operation: it preserves the invariant.
LEMMA WriteStep == ASSUME Inv, Write PROVE Inv'
<1>1. PICK x \in Static \cup Plain \cup Symbols(view) : view' = Append(view, x)
  BY DEF Write
<1>2. view \in Seq(Symbol) /\ call = NoCall /\ UNCHANGED <<call, content, dynamic, registered>>
  BY DEF Inv, Types, Write
<1>3. x \in Symbol /\ (x \in Box => x \in dynamic)
  <2>1. x \in Symbols(view) => x \in Symbol
    BY <1>2 DEF Symbols
  <2>2. QED
    BY <2>1, NoDanglingParts, BoxesAssumption DEF Inv, Symbol, Named
<1>4. view' \in Seq(Symbol) /\ Symbols(view') \subseteq Symbols(view) \cup {x}
  <2> DEFINE new == <<x>>
  <2>1. new \in Seq(Symbol) /\ view' = view \o new /\ Symbols(new) = {x}
    BY <1>1, <1>2, <1>3 DEF Symbols
  <2> HIDE DEF new
  <2>2. view \o new \in Seq(Symbol) /\ Symbols(view \o new) = Symbols(view) \cup Symbols(new)
    BY <1>2, <2>1, SymbolsConcat
  <2>3. QED
    BY <2>1, <2>2
<1>5. Types'
  BY <1>2, <1>4 DEF Inv, Types
<1>6. NoDangling'
  BY <1>2, <1>3, <1>4 DEF Inv, NoDangling
<1>7. QED
  BY <1>2, <1>5, <1>6 DEF Inv

\* A sentence that drops a part of the view field preserves it.
LEMMA DiscardStep == ASSUME Inv, Discard PROVE Inv'
<1>1. PICK i \in DOMAIN view : view' = Prefix(view, i - 1) \o Suffix(view, i)
  BY DEF Discard
<1>2. view \in Seq(Symbol) /\ call = NoCall /\ UNCHANGED <<call, content, dynamic, registered>>
  BY DEF Inv, Types, Discard
<1>3. i - 1 \in 0 .. Len(view) /\ i \in 0 .. Len(view)
  BY <1>2
<1>4. view' \in Seq(Symbol) /\ Symbols(view') \subseteq Symbols(view)
  <2> DEFINE before == Prefix(view, i - 1)
             behind == Suffix(view, i)
  <2>1. /\ before \in Seq(Symbol) /\ behind \in Seq(Symbol)
        /\ Symbols(before) \subseteq Symbols(view) /\ Symbols(behind) \subseteq Symbols(view)
    BY <1>2, <1>3, SymbolsPrefix, SymbolsSuffix
  <2> HIDE DEF before, behind
  <2>2. /\ before \o behind \in Seq(Symbol)
        /\ Symbols(before \o behind) = Symbols(before) \cup Symbols(behind)
    BY <2>1, SymbolsConcat
  <2>3. QED
    BY <1>1, <2>1, <2>2 DEF before, behind
<1>5. Types' /\ NoDangling'
  BY <1>2, <1>4 DEF Inv, Types, NoDangling
<1>6. QED
  BY <1>2, <1>5 DEF Inv

\* The call of a box preserves it.
LEMMA ApplyStep == ASSUME Inv, Apply PROVE Inv'
<1>1. PICK f \in Primitive \cup Static \cup (Box \cap Symbols(view)),
           i \in 1 .. Len(view) + 1 : \E j \in i - 1 .. Len(view) :
        /\ call' = [function |-> f, argument |-> SubSeq(view, i, j), at |-> i - 1]
        /\ view' = Prefix(view, i - 1) \o Suffix(view, j)
  BY DEF Apply
<1>0. PICK j \in i - 1 .. Len(view) :
        /\ call' = [function |-> f, argument |-> SubSeq(view, i, j), at |-> i - 1]
        /\ view' = Prefix(view, i - 1) \o Suffix(view, j)
  BY <1>1
<1>2. view \in Seq(Symbol) /\ Len(view) \in Nat /\ UNCHANGED <<content, dynamic, registered>>
      /\ Symbols(view) \cap Box \subseteq dynamic
  BY DEF Inv, Types, Apply, NoDangling
<1>3. i \in Nat /\ i >= 1 /\ j \in Nat /\ j <= Len(view)
      /\ i - 1 \in 0 .. Len(view) /\ j \in 0 .. Len(view) /\ i - 1 <= j
  BY <1>2
<1> DEFINE before == Prefix(view, i - 1)
           behind == Suffix(view, j)
           middle == SubSeq(view, i, j)
<1>4. /\ before \in Seq(Symbol) /\ behind \in Seq(Symbol) /\ middle \in Seq(Symbol)
      /\ Symbols(before) \subseteq Symbols(view) /\ Symbols(behind) \subseteq Symbols(view)
      /\ Symbols(middle) \subseteq Symbols(view)
  BY <1>2, <1>3, SymbolsPrefix, SymbolsSuffix, SymbolsSubSeq
<1>5. Len(before) = i - 1
  BY <1>2, <1>3 DEF Prefix
<1>6. call' = [function |-> f, argument |-> middle, at |-> i - 1] /\ view' = before \o behind
  BY <1>0
<1> HIDE DEF before, behind, middle
<1>7. /\ view' \in Seq(Symbol) /\ Symbols(view') \subseteq Symbols(view)
      /\ i - 1 \in 0 .. Len(view')
  <2>1. Len(before \o behind) = Len(before) + Len(behind) /\ Len(behind) \in Nat
    BY <1>4
  <2>2. QED
    BY <1>3, <1>4, <1>5, <1>6, <2>1, SymbolsConcat
<1>8. Types'
  <2>1. i - 1 \in Nat
    BY <1>3
  <2>2. call' \in Calls
    BY <1>4, <1>6, <2>1 DEF Calls
  <2>3. QED
    BY <1>2, <1>7, <2>2 DEF Inv, Types
<1>9. NoDangling'
  <2>1. f \in Box => f \in dynamic
    BY <1>2, BoxesAssumption
  <2>2. QED
    BY <1>2, <1>4, <1>6, <1>7, <2>1 DEF Inv, NoDangling
<1>10. QED
  BY <1>2, <1>6, <1>7, <1>8, <1>9 DEF Inv

\* Gtr preserves it.
LEMMA GtrStep == ASSUME NEW b \in Box \cup Static, Inv, Gtr(b) PROVE Inv'
<1>1. call # NoCall /\ b \in Symbols(call.argument)
  BY ArgumentParts DEF Gtr, Called, Names
<1>2. b \in Box => b \in dynamic
  BY <1>1, NamedBox
<1>3. content[b] \in Seq(Symbol) /\ Symbols(content[b]) \cap Box \subseteq dynamic
  BY <1>1, NamedBox
<1>4. <<>> \in Seq(Symbol) /\ Symbols(<<>>) \cap Box \subseteq dynamic
  BY SymbolsEmpty
<1>5. QED
  BY <1>1, <1>2, <1>3, <1>4, ReturnSafe DEF Gtr, Register

\* Rdr preserves it.
LEMMA RdrStep == ASSUME NEW b \in Box \cup Static, Inv, Rdr(b) PROVE Inv'
<1>1. call # NoCall /\ b \in Symbols(call.argument)
  BY ArgumentParts DEF Rdr, Called, Names
<1>2. /\ b \in Box => b \in dynamic
      /\ content[b] \in Seq(Symbol) /\ Symbols(content[b]) \cap Box \subseteq dynamic
  BY <1>1, NamedBox
<1>3. CASE Return(content[b])
  <2>1. content' = [content EXCEPT ![b] = content[b]]
    BY DEF Rdr, Inv, Types
  <2>2. QED
    BY <1>1, <1>2, <1>3, <2>1, ReturnSafe DEF Rdr, Register
<1>4. CASE UNCHANGED <<view, call>>
  BY <1>4 DEF Rdr, Register, Inv, Types, NoDangling
<1>5. QED
  BY <1>3, <1>4 DEF Rdr

\* Ptr preserves it.
LEMMA PtrStep == ASSUME NEW b \in Box \cup Static, Inv, Ptr(b) PROVE Inv'
<1>1. call # NoCall /\ call.argument # <<>> /\ b \in Symbols(call.argument)
  BY ArgumentParts DEF Ptr, Called, Names
<1>2. /\ b \in Box => b \in dynamic
      /\ content[b] \in Seq(Symbol) /\ Symbols(content[b]) \cap Box \subseteq dynamic
  BY <1>1, NamedBox
<1>3. /\ Tail(call.argument) \in Seq(Symbol)
      /\ Symbols(Tail(call.argument)) \cap Box \subseteq dynamic
  BY <1>1, ArgumentParts
<1> DEFINE old  == content[b]
           rest == Tail(call.argument)
           new  == old \o rest
<1>5. content' = [content EXCEPT ![b] = new]
  BY DEF Ptr, Rest
<1>4. new \in Seq(Symbol) /\ Symbols(new) \cap Box \subseteq dynamic
  <2> HIDE DEF old, rest
  <2>1. /\ old \in Seq(Symbol) /\ Symbols(old) \cap Box \subseteq dynamic
        /\ rest \in Seq(Symbol) /\ Symbols(rest) \cap Box \subseteq dynamic
    BY <1>2, <1>3 DEF old, rest
  <2>2. QED
    BY <2>1, SymbolsConcat
<1> HIDE DEF new
<1>6. <<>> \in Seq(Symbol) /\ Symbols(<<>>) \cap Box \subseteq dynamic
  BY SymbolsEmpty
<1>7. QED
  BY <1>1, <1>2, <1>4, <1>5, <1>6, ReturnSafe DEF Ptr, Register

\* Wtr preserves it.
LEMMA WtrStep == ASSUME NEW b \in Box \cup Static, Inv, Wtr(b) PROVE Inv'
<1>1. call # NoCall /\ call.argument # <<>> /\ b \in Symbols(call.argument)
  BY ArgumentParts DEF Wtr, Called, Names
<1>2. b \in Box => b \in dynamic
  BY <1>1, NamedBox
<1>3. /\ Tail(call.argument) \in Seq(Symbol)
      /\ Symbols(Tail(call.argument)) \cap Box \subseteq dynamic
  BY <1>1, ArgumentParts
<1>4. content' = [content EXCEPT ![b] = Tail(call.argument)]
  BY DEF Wtr, Rest
<1>5. <<>> \in Seq(Symbol) /\ Symbols(<<>>) \cap Box \subseteq dynamic
  BY SymbolsEmpty
<1>6. QED
  BY <1>1, <1>2, <1>3, <1>4, <1>5, ReturnSafe DEF Wtr, Register

\* Swr preserves it.
LEMMA SwrStep == ASSUME NEW b \in Box \cup Static, Inv, Swr(b) PROVE Inv'
<1>1. call # NoCall /\ call.argument # <<>> /\ b \in Symbols(call.argument)
  BY ArgumentParts DEF Swr, Called, Names
<1>2. /\ b \in Box => b \in dynamic
      /\ content[b] \in Seq(Symbol) /\ Symbols(content[b]) \cap Box \subseteq dynamic
  BY <1>1, NamedBox
<1>3. /\ Tail(call.argument) \in Seq(Symbol)
      /\ Symbols(Tail(call.argument)) \cap Box \subseteq dynamic
  BY <1>1, ArgumentParts
<1>4. content' = [content EXCEPT ![b] = Tail(call.argument)]
  BY DEF Swr, Rest
<1>5. QED
  BY <1>1, <1>2, <1>3, <1>4, ReturnSafe DEF Swr, Register

\* The call of a box itself, which exchanges its contents, preserves it.
LEMMA SwapStep == ASSUME NEW b \in Box \cup Static, Inv, Swap(b) PROVE Inv'
<1>1. call # NoCall /\ b = call.function
  BY DEF Swap, Called
<1>2. /\ b \in Box => b \in dynamic
      /\ content[b] \in Seq(Symbol) /\ Symbols(content[b]) \cap Box \subseteq dynamic
  BY <1>1, NamedBox
<1>3. call.argument \in Seq(Symbol) /\ Symbols(call.argument) \cap Box \subseteq dynamic
  BY <1>1, NoDanglingParts DEF Inv, Types, Calls, Named
<1>4. QED
  BY <1>1, <1>2, <1>3, ReturnSafe DEF Swap, Register

\* New preserves it.
LEMMA NewStep == ASSUME Inv, New PROVE Inv'
<1>1. PICK b \in Box \ dynamic :
        /\ Called("New") /\ Return(<<b>>)
        /\ content' = [content EXCEPT ![b] = call.argument]
        /\ dynamic' = dynamic \cup {b}
        /\ UNCHANGED registered
  BY DEF New
<1>2. call # NoCall /\ <<b>> \in Seq(Symbol) /\ Symbols(<<b>>) = {b}
  BY <1>1 DEF Called, Symbol, Symbols
<1>3. call.argument \in Seq(Symbol) /\ Symbols(call.argument) \cap Box \subseteq dynamic
  BY <1>2, NoDanglingParts DEF Inv, Types, Calls, Named
<1>4. /\ view' \in Seq(Symbol) /\ call' = NoCall
      /\ Named' \subseteq Symbols(view) \cup {b}
  BY <1>1, <1>2, ReturnView
<1>5. Types'
  BY <1>1, <1>3, <1>4 DEF Inv, Types
<1>6. Named' \cap Box \subseteq dynamic'
  BY <1>1, <1>4, NoDanglingParts DEF Inv, Named
<1>7. ASSUME NEW o \in dynamic' \cup Static
      PROVE  Symbols(content'[o]) \cap Box \subseteq dynamic'
  BY <1>1, <1>3, NoDanglingParts DEF Inv, Types
<1>8. NoDangling'
  BY <1>6, <1>7 DEF NoDangling, Named
<1>9. \A s \in Static \ registered' : content'[s] = <<>>
  BY <1>1, BoxesAssumption DEF Inv, Types
<1>10. QED
  BY <1>4, <1>5, <1>8, <1>9 DEF Inv
-----------------------------------------------------------------------------
\* Every step preserves the invariant.
LEMMA InvStep == Inv /\ [Next]_vars => Inv'
<1> SUFFICES ASSUME Inv, [Next]_vars PROVE Inv'
  OBVIOUS
<1>1. CASE Write
  BY <1>1, WriteStep
<1>2. CASE Discard
  BY <1>2, DiscardStep
<1>3. CASE Apply
  BY <1>3, ApplyStep
<1>4. CASE New
  BY <1>4, NewStep
<1>5. CASE Access
  BY <1>5, GtrStep, RdrStep, PtrStep, WtrStep, SwrStep, SwapStep DEF Access
<1>6. CASE MoreFreeMemory
  <2>1. CollectGarbage /\ UNCHANGED <<view, call>>
    BY <1>6 DEF MoreFreeMemory
  <2>2. QED
    BY <2>1, CollectGarbageSafe
<1>7. CASE UNCHANGED <<view, call, content, dynamic, registered>>
  BY <1>7 DEF Inv, Types, NoDangling
<1>8. QED
  BY <1>1, <1>2, <1>3, <1>4, <1>5, <1>6, <1>7 DEF Next, Lack, Fail, vars

\* Whatever the program does with its boxes and whenever the collector runs,
\* every reference that the program can reach is a box of the chain.
THEOREM NoReferenceDangles == Spec => []NoDangling
<1>1. Inv => NoDangling
  BY DEF Inv
<1>2. QED
  BY InvInit, InvStep, <1>1, PTL DEF Spec
-----------------------------------------------------------------------------
\* The cells of the boxes of a set when c gives their contents.
HeadCell(b) == IF b \in Box THEN 1 ELSE 0
Size(c, b) == Len(c[b]) + HeadCell(b)
BoxCells(c, S) == SumFunctionOnSet([b \in Box \cup Static |-> Size(c, b)], S)
Contents == [Box \cup Static -> Seq(Symbol)]

\* A box holds as many cells as symbols, and its head unless it is static.
LEMMA Sizes ==
    ASSUME NEW c \in Contents, NEW b \in Box \cup Static
    PROVE  /\ Size(c, b) \in Nat /\ Size(c, b) = Len(c[b]) + HeadCell(b)
           /\ Len(c[b]) \in Nat /\ HeadCell(b) \in Nat /\ (b \in Box => HeadCell(b) = 1)
<1>1. Len(c[b]) \in Nat
  BY DEF Contents
<1>2. HeadCell(b) \in Nat /\ (b \in Box => HeadCell(b) = 1)
  BY DEF HeadCell
<1>3. QED
  BY <1>1, <1>2 DEF Size

\* The cells of finitely many boxes are the sum of their sizes.
LEMMA BoxCellsOf ==
    ASSUME NEW c \in Contents, NEW S \in SUBSET (Box \cup Static), IsFiniteSet(S)
    PROVE  LET f == [b \in Box \cup Static |-> Size(c, b)]
           IN  /\ \A b \in S : f[b] \in Nat /\ f[b] = Size(c, b)
               /\ BoxCells(c, S) = SumFunctionOnSet(f, S)
               /\ BoxCells(c, S) \in Nat
<1> DEFINE f == [b \in Box \cup Static |-> Size(c, b)]
<1>1. \A b \in S : f[b] = Size(c, b)
  OBVIOUS
<1>2. \A b \in S : f[b] \in Nat
  BY <1>1, Sizes
<1>3. BoxCells(c, S) = SumFunctionOnSet(f, S)
  BY DEF BoxCells
<1> HIDE DEF f
<1>4. SumFunctionOnSet(f, S) \in Nat
  BY <1>2, SumNat
<1>5. QED
  BY <1>1, <1>2, <1>3, <1>4 DEF f

\* One box has other contents.
LEMMA BoxCellsPut ==
    ASSUME NEW c \in Contents, NEW S \in SUBSET (Box \cup Static), IsFiniteSet(S),
           NEW b \in S, NEW s \in Seq(Symbol)
    PROVE  BoxCells([c EXCEPT ![b] = s], S) = BoxCells(c, S) - Len(c[b]) + Len(s)
<1> DEFINE d == [c EXCEPT ![b] = s]
           f == [o \in Box \cup Static |-> Size(c, o)]
           g == [o \in Box \cup Static |-> Size(d, o)]
           h == HeadCell(b)
<1>1. d \in Contents /\ d[b] = s /\ \A o \in S \ {b} : d[o] = c[o]
  BY DEF Contents
<1> HIDE DEF d
<1>2. /\ \A o \in S : f[o] \in Nat /\ f[o] = Size(c, o)
      /\ BoxCells(c, S) = SumFunctionOnSet(f, S) /\ BoxCells(c, S) \in Nat
  BY BoxCellsOf
<1>3. /\ \A o \in S : g[o] \in Nat /\ g[o] = Size(d, o)
      /\ BoxCells(d, S) = SumFunctionOnSet(g, S)
  BY <1>1, BoxCellsOf
<1> HIDE DEF f, g
<1>4. \A o \in S \ {b} : g[o] = f[o]
  BY <1>1, <1>2, <1>3 DEF Size
<1>5. SumFunctionOnSet(g, S) = SumFunctionOnSet(f, S) - f[b] + g[b]
  <2>1. (\A o \in S : f[o] \in Int) /\ g[b] \in Int
    <3>1. (\A o \in S : f[o] \in Nat) /\ g[b] \in Nat
      BY <1>2, <1>3
    <3>2. QED
      BY <3>1
  <2>2. QED
    BY <1>4, <2>1, SumExcept
<1>6. f[b] = Len(c[b]) + h /\ g[b] = Len(s) + h /\ h \in Nat
  BY <1>1, <1>2, <1>3, Sizes
<1>7. Len(c[b]) \in Nat /\ Len(s) \in Nat
  BY Sizes
<1> DEFINE x == BoxCells(c, S)
           y == BoxCells(d, S)
           u == f[b]
           v == g[b]
           p == Len(c[b])
           q == Len(s)
<1>8. /\ x \in Int /\ p \in Int /\ q \in Int /\ h \in Int /\ u = p + h /\ v = q + h
      /\ y = x - u + v
  BY <1>2, <1>3, <1>5, <1>6, <1>7
<1> HIDE DEF x, y, u, v, p, q, h
<1>9. y = x - p + q
  BY <1>8
<1>10. QED
  BY <1>9 DEF x, y, p, q, d

\* The contents of the boxes of a set decide on their cells.
LEMMA BoxCellsSame ==
    ASSUME NEW c \in Contents, NEW d \in Contents, NEW S \in SUBSET (Box \cup Static),
           IsFiniteSet(S), \A b \in S : d[b] = c[b]
    PROVE  BoxCells(d, S) = BoxCells(c, S)
<1> DEFINE f == [o \in Box \cup Static |-> Size(c, o)]
           g == [o \in Box \cup Static |-> Size(d, o)]
<1>1. \A o \in S : f[o] = g[o]
  BY DEF Size
<1> HIDE DEF f, g
<1>2. SumFunctionOnSet(f, S) = SumFunctionOnSet(g, S)
  BY <1>1, SumSame
<1>3. QED
  BY <1>2 DEF BoxCells, f, g

\* A new box.
LEMMA BoxCellsAdd ==
    ASSUME NEW c \in Contents, NEW S \in SUBSET (Box \cup Static), IsFiniteSet(S),
           NEW b \in Box, b \notin S, NEW s \in Seq(Symbol)
    PROVE  BoxCells([c EXCEPT ![b] = s], S \cup {b}) = BoxCells(c, S) + Len(s) + 1
<1> DEFINE d == [c EXCEPT ![b] = s]
           T == S \cup {b}
           g == [o \in Box \cup Static |-> Size(d, o)]
<1>1. d \in Contents /\ d[b] = s /\ \A o \in S : d[o] = c[o]
  BY DEF Contents
<1>2. T \in SUBSET (Box \cup Static) /\ IsFiniteSet(T)
  BY FS_AddElement
<1> HIDE DEF d
<1>3. /\ \A o \in T : g[o] \in Nat /\ g[o] = Size(d, o)
      /\ BoxCells(d, T) = SumFunctionOnSet(g, T)
  BY <1>1, <1>2, BoxCellsOf
<1>4. BoxCells(d, S) = SumFunctionOnSet(g, S)
  BY <1>1, BoxCellsOf
<1> HIDE DEF g
<1>5. SumFunctionOnSet(g, S \cup {b}) = g[b] + SumFunctionOnSet(g, S)
  <2>1. \A o \in S \cup {b} : g[o] \in Int
    <3>1. \A o \in T : g[o] \in Nat
      BY <1>3
    <3> HIDE DEF T
    <3>2. \A o \in T : g[o] \in Int
      BY <3>1
    <3>3. QED
      BY <3>2 DEF T
  <2>2. QED
    BY <2>1, SumAdd
<1>6. BoxCells(d, S) = BoxCells(c, S) /\ BoxCells(c, S) \in Nat
  BY <1>1, BoxCellsSame, BoxCellsOf
<1>7. g[b] = Len(s) + 1 /\ Len(s) \in Nat
  <2>1. g[b] = Size(d, b)
    BY <1>3
  <2>2. QED
    BY <1>1, <2>1, Sizes
<1> DEFINE x == BoxCells(c, S)
           l == Len(s)
<1>8. BoxCells(d, T) = l + 1 + x /\ x \in Nat /\ l \in Nat
  BY <1>3, <1>4, <1>5, <1>6, <1>7
<1> HIDE DEF x, l
<1>9. l + 1 + x = x + l + 1
  BY <1>8
<1>10. QED
  BY <1>8, <1>9 DEF x, l, d
-----------------------------------------------------------------------------
\* The numbers that the count of the cells adds.
InCall == IF call = NoCall THEN 0 ELSE 3 + Len(call.argument)
InAll == BoxCells(content, dynamic \cup Static)
Counted == /\ IsFiniteSet(dynamic)
           /\ free \in Nat /\ total \in Nat /\ total <= MaxSize
           /\ total = free + 2 + Len(view) + InCall + InAll

\* The account, with every part named.
LEMMA CountIsAccount == CellsAccounted <=> total = free + 2 + Len(view) + InCall + InAll
BY DEF CellsAccounted, InBoxes, Cells, InCall, InAll, BoxCells, Size, HeadCell

\* Every part of the account is a natural number.
LEMMA CountedNumbers ==
    ASSUME Inv, Counted
    PROVE  /\ Len(view) \in Nat /\ InCall \in Nat /\ InAll \in Nat
           /\ IsFiniteSet(dynamic \cup Static)
           /\ dynamic \cup Static \in SUBSET (Box \cup Static)
           /\ content \in Contents
           /\ call # NoCall => Len(call.argument) \in Nat /\ InCall = 3 + Len(call.argument)
           /\ call = NoCall => InCall = 0
<1>1. IsFiniteSet(dynamic \cup Static) /\ dynamic \cup Static \in SUBSET (Box \cup Static)
  BY FS_Union, BoxesAssumption DEF Inv, Types, Counted
<1>2. content \in Contents
  BY DEF Inv, Types, Contents
<1>3. InAll \in Nat
  BY <1>1, <1>2, BoxCellsOf DEF InAll
<1>4. call # NoCall => call.argument \in Seq(Symbol)
  BY DEF Inv, Types, Calls
<1>5. /\ call # NoCall => Len(call.argument) \in Nat /\ InCall = 3 + Len(call.argument)
      /\ call = NoCall => InCall = 0
  BY <1>4 DEF InCall
<1>6. Len(view) \in Nat
  BY DEF Inv, Types
<1>7. QED
  BY <1>1, <1>2, <1>3, <1>5, <1>6

\* Two lists together are as long as both.
LEMMA Joined ==
    ASSUME NEW S, NEW s \in Seq(S), NEW t \in Seq(S)
    PROVE  s \o t \in Seq(S) /\ Len(s \o t) = Len(s) + Len(t)
OBVIOUS

\* All but the first symbol is one symbol shorter.
LEMMA WithoutHead ==
    ASSUME NEW S, NEW s \in Seq(S), s # <<>>
    PROVE  Tail(s) \in Seq(S) /\ Len(Tail(s)) \in Nat /\ Len(s) = 1 + Len(Tail(s))
<1>1. Len(s) \in Nat /\ Len(s) > 0 /\ Tail(s) \in Seq(S) /\ Len(Tail(s)) = Len(s) - 1
  OBVIOUS
<1>2. QED
  BY <1>1

\* The beginning and the end of a list add up to it.
LEMMA Divided ==
    ASSUME NEW s \in Seq(Symbol), NEW i \in 0 .. Len(s)
    PROVE  Len(Prefix(s, i)) = i /\ Len(Suffix(s, i)) = Len(s) - i
BY DEF Prefix, Suffix

\* A call that returns.
LEMMA ReturnCells ==
    ASSUME Inv, call # NoCall, NEW result \in Seq(Symbol), Return(result)
    PROVE  Len(view') = Len(view) + Len(result) /\ call' = NoCall /\ total' = total
<1> DEFINE before == Prefix(view, call.at)
           behind == Suffix(view, call.at)
<1>1. view \in Seq(Symbol) /\ call.at \in 0 .. Len(view)
  BY DEF Inv, Types
<1>2. /\ before \in Seq(Symbol) /\ behind \in Seq(Symbol)
      /\ Len(before) = call.at /\ Len(behind) = Len(view) - call.at
  BY <1>1, SymbolsPrefix, SymbolsSuffix, Divided
<1>3. view' = before \o result \o behind /\ call' = NoCall /\ total' = total
  BY DEF Return
<1> HIDE DEF before, behind
<1>4. Len(before \o result \o behind) = Len(before) + Len(result) + Len(behind)
  <2> DEFINE front == before \o result
  <2>1. front \in Seq(Symbol) /\ Len(front) = Len(before) + Len(result)
    BY <1>2, Joined
  <2> HIDE DEF front
  <2>2. Len(front \o behind) = Len(front) + Len(behind)
    BY <1>2, <2>1, Joined
  <2>3. QED
    BY <2>1, <2>2 DEF front
<1>5. call.at + Len(result) + (Len(view) - call.at) = Len(view) + Len(result)
  BY <1>1
<1> DEFINE v == Len(view)
           r == Len(result)
           w == Len(view')
<1>6. w = v + r
  <2>1. w = Len(before) + r + Len(behind)
    BY <1>3, <1>4
  <2>2. w = call.at + r + (v - call.at)
    BY <1>2, <2>1
  <2>3. QED
    BY <1>5, <2>2
<1>7. QED
  BY <1>3, <1>6

\* A call that returns and gives the box b new contents divides its cells, and those that
\* b had, between the result, the box and the free list.
LEMMA AccessCounted ==
    ASSUME Inv, Counted, call # NoCall, NEW result \in Seq(Symbol), Return(result),
           NEW b \in dynamic \cup Static, NEW new \in Seq(Symbol),
           content' = [content EXCEPT ![b] = new], dynamic' = dynamic, NEW f \in Nat, free' = f,
           f + Len(result) + Len(new) = free + 3 + Len(call.argument) + Len(content[b])
    PROVE  Counted'
<1>1. /\ Len(view) \in Nat /\ InCall = 3 + Len(call.argument) /\ InAll \in Nat
      /\ IsFiniteSet(dynamic \cup Static) /\ content \in Contents
      /\ dynamic \cup Static \in SUBSET (Box \cup Static) /\ Len(call.argument) \in Nat
  BY CountedNumbers
<1>2. Len(view') = Len(view) + Len(result) /\ call' = NoCall /\ total' = total
  BY ReturnCells
<1>3. InAll' = InAll - Len(content[b]) + Len(new)
  BY <1>1, BoxCellsPut DEF InAll
<1>4. InCall' = 0
  BY <1>2 DEF InCall
<1>5. Len(content[b]) \in Nat /\ Len(new) \in Nat /\ Len(result) \in Nat
  BY <1>1 DEF Contents
<1> DEFINE v == Len(view)
           w == Len(view')
           a == Len(call.argument)
           x == InAll
           y == InAll'
           o == Len(content[b])
           n == Len(new)
           r == Len(result)
           k == InCall
           z == InCall'
<1>6. /\ v \in Nat /\ a \in Nat /\ x \in Nat /\ o \in Nat /\ n \in Nat /\ r \in Nat
      /\ free \in Nat /\ total \in Nat /\ f \in Nat /\ k = 3 + a /\ z = 0
      /\ w = v + r /\ y = x - o + n
      /\ total = free + 2 + v + k + x /\ f + r + n = free + 3 + a + o
  BY <1>1, <1>2, <1>3, <1>4, <1>5 DEF Counted
<1> HIDE DEF v, w, a, x, y, o, n, r, k, z
<1>7. total = f + 2 + w + z + y
  BY <1>6
<1>8. total' = free' + 2 + Len(view') + InCall' + InAll'
  BY <1>2, <1>7 DEF w, y, z
<1>9. QED
  BY <1>2, <1>8 DEF Counted

\* A call that names one box has it in the first symbol of its argument.
LEMMA ArgumentCells ==
    ASSUME Inv, call # NoCall, call.argument # <<>>
    PROVE  /\ Rest \in Seq(Symbol) /\ Len(Rest) \in Nat
           /\ Len(call.argument) = 1 + Len(Rest)
           /\ Rest = <<>> => Len(call.argument) = 1
<1>1. call.argument \in Seq(Symbol)
  BY DEF Inv, Types, Calls
<1>2. /\ Tail(call.argument) \in Seq(Symbol) /\ Len(Tail(call.argument)) \in Nat
      /\ Len(call.argument) = 1 + Len(Tail(call.argument))
  BY <1>1, WithoutHead
<1>3. Len(<<>>) = 0
  OBVIOUS
<1> DEFINE a == call.argument
           r == Tail(a)
<1>4. r = <<>> => Len(r) = 0
  BY <1>3, Zenon
<1> HIDE DEF r, a
<1>5. r = <<>> => Len(a) = 1
  BY <1>2, <1>4 DEF r, a
<1>6. QED
  BY <1>2, <1>5 DEF Rest, r, a

\* A box that is called or named in an argument is a live one, with a list in it.
LEMMA NamedCells ==
    ASSUME Inv, call # NoCall, NEW b \in Box \cup Static,
           b \in {call.function} \cup Symbols(call.argument)
    PROVE  b \in dynamic \cup Static /\ content[b] \in Seq(Symbol) /\ Len(content[b]) \in Nat
<1>1. (b \in Box => b \in dynamic) /\ content[b] \in Seq(Symbol)
  BY NamedBox
<1>2. QED
  BY <1>1

\* The six primitive functions only move cells between the view field, the call and the boxes.
LEMMA AccessStep ==
    ASSUME Inv, Counted, NEW b \in Box \cup Static,
           Gtr(b) \/ Rdr(b) \/ Ptr(b) \/ Wtr(b) \/ Swr(b) \/ Swap(b)
    PROVE  Counted'
<1> DEFINE o == Len(content[b])
           a == Len(call.argument)
           r == Len(Rest)
           none == << >>
<1>0. free \in Nat /\ none \in Seq(Symbol) /\ Len(none) = 0
  BY DEF Counted
<1>1. call # NoCall /\ dynamic' = dynamic
  BY DEF Gtr, Rdr, Ptr, Wtr, Swr, Swap, Called
<1>2. CASE ~ Swap(b)
  <2>1. Names(b) /\ b \in Symbols(call.argument) /\ call.argument # <<>>
    BY <1>1, <1>2, ArgumentParts DEF Gtr, Rdr, Ptr, Wtr, Swr, Names
  <2>2. /\ b \in dynamic \cup Static /\ content[b] \in Seq(Symbol) /\ o \in Nat
        /\ Rest \in Seq(Symbol) /\ r \in Nat /\ a = 1 + r /\ (Rest = <<>> => a = 1)
    BY <1>1, <2>1, NamedCells, ArgumentCells
  <2>3. CASE Gtr(b)
    <3> DEFINE f == free + 4
    <3>1. /\ Return(content[b]) /\ content' = [content EXCEPT ![b] = none] /\ free' = f /\ a = 1
      BY <2>2, <2>3 DEF Gtr
    <3> HIDE DEF a, o, none
    <3>2. f \in Nat /\ f + o + Len(none) = free + 3 + a + o
      BY <1>0, <2>2, <3>1
    <3> HIDE DEF f
    <3>3. QED
      BY <1>0, <1>1, <2>2, <3>1, <3>2, AccessCounted DEF a, o
  <2>4. CASE Rdr(b)
    <3>1. CASE free >= o /\ Return(content[b]) /\ free' = free - o + 4
      <4> DEFINE f == free - o + 4
      <4>1. content' = [content EXCEPT ![b] = content[b]] /\ a = 1
        BY <2>2, <2>4 DEF Rdr, Inv, Types
      <4> HIDE DEF a, o
      <4>2. f \in Nat /\ f + o + o = free + 3 + a + o
        BY <1>0, <2>2, <3>1, <4>1
      <4>3. free' = f
        BY <3>1
      <4> HIDE DEF f
      <4>4. QED
        BY <1>1, <2>2, <3>1, <4>1, <4>2, <4>3, AccessCounted DEF a, o
    <3>2. CASE UNCHANGED <<view, call, content, dynamic, free, total>>
      BY <3>2 DEF Counted, InCall, InAll
    <3>3. QED
      BY <2>4, <3>1, <3>2 DEF Rdr
  <2>5. CASE Ptr(b)
    <3> DEFINE f == free + 4
               new == content[b] \o Rest
    <3>1. /\ Return(none) /\ content' = [content EXCEPT ![b] = new] /\ free' = f
      BY <2>5 DEF Ptr
    <3>2. new \in Seq(Symbol) /\ Len(new) = o + r
      BY <2>2, Joined
    <3> HIDE DEF a, o, r, none, new
    <3>3. f \in Nat /\ f + Len(none) + Len(new) = free + 3 + a + o
      BY <1>0, <2>2, <3>2
    <3> HIDE DEF f
    <3>4. QED
      BY <1>0, <1>1, <2>2, <3>1, <3>2, <3>3, AccessCounted DEF a, o
  <2>6. CASE Wtr(b)
    <3> DEFINE f == free + o + 4
    <3>1. /\ Return(none) /\ content' = [content EXCEPT ![b] = Rest] /\ free' = f
      BY <2>6 DEF Wtr
    <3> HIDE DEF a, o, r, none
    <3>2. f \in Nat /\ f + Len(none) + r = free + 3 + a + o
      BY <1>0, <2>2
    <3> HIDE DEF f
    <3>3. QED
      BY <1>0, <1>1, <2>2, <3>1, <3>2, AccessCounted DEF a, o, r
  <2>7. CASE Swr(b)
    <3> DEFINE f == free + 4
    <3>1. /\ Return(content[b]) /\ content' = [content EXCEPT ![b] = Rest] /\ free' = f
      BY <2>7 DEF Swr
    <3> HIDE DEF a, o, r
    <3>2. f \in Nat /\ f + o + r = free + 3 + a + o
      BY <1>0, <2>2
    <3> HIDE DEF f
    <3>3. QED
      BY <1>0, <1>1, <2>2, <3>1, <3>2, AccessCounted DEF a, o, r
  <2>8. QED
    BY <1>2, <2>3, <2>4, <2>5, <2>6, <2>7
<1>3. CASE Swap(b)
  <2> DEFINE f == free + 3
  <2>1. /\ b \in dynamic \cup Static /\ content[b] \in Seq(Symbol) /\ o \in Nat
    BY <1>1, <1>3, NamedCells DEF Swap, Called
  <2>2. call.argument \in Seq(Symbol) /\ a \in Nat
    BY <1>1 DEF Inv, Types, Calls
  <2>3. /\ Return(content[b]) /\ content' = [content EXCEPT ![b] = call.argument] /\ free' = f
    BY <1>3 DEF Swap
  <2> HIDE DEF a, o
  <2>4. f \in Nat /\ f + o + a = free + 3 + a + o
    BY <1>0, <2>1, <2>2
  <2> HIDE DEF f
  <2>5. QED
    BY <1>1, <2>1, <2>2, <2>3, <2>4, AccessCounted DEF a, o
<1>4. QED
  BY <1>2, <1>3

\* A step that changes the view field, the functional term and the free list only.
LEMMA ViewCounted ==
    ASSUME Inv, Counted, UNCHANGED <<content, dynamic, total>>, NEW f \in Nat, free' = f,
           NEW w \in Nat, Len(view') = w, NEW k \in Nat, InCall' = k,
           f + w + k = free + Len(view) + InCall
    PROVE  Counted'
<1>1. /\ Len(view) \in Nat /\ InCall \in Nat /\ InAll \in Nat /\ free \in Nat /\ total \in Nat
      /\ total = free + 2 + Len(view) + InCall + InAll
  BY CountedNumbers DEF Counted
<1>2. InAll' = InAll
  BY DEF InAll
<1> DEFINE v == Len(view)
           j == InCall
           x == InAll
<1> HIDE DEF v, j, x
<1>3. total = f + 2 + w + k + x
  BY <1>1 DEF v, j, x
<1>4. total' = free' + 2 + Len(view') + InCall' + InAll'
  BY <1>2, <1>3 DEF x
<1>5. QED
  BY <1>4 DEF Counted

\* A sentence takes the symbols it writes from the free list.
LEMMA WriteCounted == ASSUME Inv, Counted, Write PROVE Counted'
<1> DEFINE f == free - 1
           v == Len(view)
           w == v + 1
<1>1. PICK x \in Static \cup Plain \cup Symbols(view) : view' = Append(view, x)
  BY DEF Write
<1>2. /\ call = NoCall /\ UNCHANGED <<call, content, dynamic, total>> /\ free' = f /\ free >= 1
      /\ view \in Seq(Symbol) /\ free \in Nat
  BY DEF Write, Inv, Types, Counted
<1>3. v \in Nat /\ Len(Append(view, x)) = w
  BY <1>2
<1>4. f \in Nat /\ w \in Nat /\ InCall = 0 /\ InCall' = 0 /\ f + w + 0 = free + v + 0
  BY <1>2, <1>3 DEF InCall
<1> HIDE DEF f, v, w
<1>5. QED
  BY <1>1, <1>2, <1>3, <1>4, ViewCounted DEF v

\* A sentence gives the symbols it drops to the free list.
LEMMA DiscardCounted == ASSUME Inv, Counted, Discard PROVE Counted'
<1> DEFINE f == free + 1
           v == Len(view)
           w == v - 1
<1>1. PICK i \in DOMAIN view : view' = Prefix(view, i - 1) \o Suffix(view, i)
  BY DEF Discard
<1>2. /\ call = NoCall /\ UNCHANGED <<call, content, dynamic, total>> /\ free' = f
      /\ view \in Seq(Symbol) /\ free \in Nat
  BY DEF Discard, Inv, Types, Counted
<1>3. v \in Nat /\ i \in 1 .. v /\ i - 1 \in 0 .. v /\ i \in 0 .. v
  BY <1>2
<1> DEFINE before == Prefix(view, i - 1)
           behind == Suffix(view, i)
<1>4. /\ before \in Seq(Symbol) /\ Len(before) = i - 1
      /\ behind \in Seq(Symbol) /\ Len(behind) = v - i
  BY <1>2, <1>3, SymbolsPrefix, SymbolsSuffix, Divided
<1> HIDE DEF before, behind, v
<1>5. Len(before \o behind) = w
  <2>1. Len(before \o behind) = Len(before) + Len(behind)
    BY <1>4, Joined
  <2>2. QED
    BY <1>3, <1>4, <2>1
<1>6. f \in Nat /\ w \in Nat /\ InCall = 0 /\ InCall' = 0 /\ f + w + 0 = free + v + 0
  BY <1>2, <1>3 DEF InCall
<1> HIDE DEF f, w
<1>7. QED
  BY <1>1, <1>2, <1>5, <1>6, ViewCounted DEF v, before, behind

\* A part of a list is as long as its places.
LEMMA Taken ==
    ASSUME NEW s \in Seq(Symbol), NEW i \in 1 .. Len(s) + 1, NEW j \in i - 1 .. Len(s)
    PROVE  SubSeq(s, i, j) \in Seq(Symbol) /\ Len(SubSeq(s, i, j)) = j - (i - 1)
OBVIOUS

\* The call of a box takes its argument out of the view field.
LEMMA ApplyCounted == ASSUME Inv, Counted, Apply PROVE Counted'
<1> DEFINE f == free - 3
           v == Len(view)
<1>1. PICK g \in Primitive \cup Static \cup (Box \cap Symbols(view)), i \in 1 .. v + 1 :
          \E j \in i - 1 .. v :
              /\ call' = [function |-> g, argument |-> SubSeq(view, i, j), at |-> i - 1]
              /\ view' = Prefix(view, i - 1) \o Suffix(view, j)
  BY DEF Apply
<1>2. PICK j \in i - 1 .. v :
          /\ call' = [function |-> g, argument |-> SubSeq(view, i, j), at |-> i - 1]
          /\ view' = Prefix(view, i - 1) \o Suffix(view, j)
  BY <1>1
<1>3. /\ call = NoCall /\ UNCHANGED <<content, dynamic, total>> /\ free' = f /\ free >= 3
      /\ view \in Seq(Symbol) /\ free \in Nat /\ v \in Nat
  BY DEF Apply, Inv, Types, Counted
<1> DEFINE d == i - 1
           before == Prefix(view, d)
           behind == Suffix(view, j)
           middle == SubSeq(view, i, j)
           w == v - (j - d)
           k == 3 + (j - d)
<1>4. /\ before \in Seq(Symbol) /\ Len(before) = d /\ behind \in Seq(Symbol) /\ Len(behind) = v - j
      /\ middle \in Seq(Symbol) /\ Len(middle) = j - d
  <2>1. d \in 0 .. v /\ j \in 0 .. v
    BY <1>3
  <2>2. QED
    BY <1>3, <2>1, SymbolsPrefix, SymbolsSuffix, Divided, Taken
<1>5. d \in Nat /\ j \in Nat /\ d <= j /\ j <= v
  BY <1>3
<1>6. call' = [function |-> g, argument |-> middle, at |-> d] /\ view' = before \o behind
  BY <1>2
<1>7. call' # NoCall
  <2>1. call' \in Calls
    BY <1>3, <1>4, <1>5, <1>6 DEF Calls
  <2>2. QED
    BY <2>1, NoCallAssumption
<1> HIDE DEF before, behind, middle, v, d
<1>8. Len(before \o behind) = w
  <2>1. Len(before \o behind) = Len(before) + Len(behind)
    BY <1>4, Joined
  <2>2. QED
    BY <1>3, <1>4, <1>5, <2>1
<1>9. InCall' = k
  BY <1>4, <1>6, <1>7 DEF InCall
<1>10. f \in Nat /\ w \in Nat /\ k \in Nat /\ InCall = 0 /\ f + w + k = free + v + 0
  BY <1>3, <1>5 DEF InCall
<1> HIDE DEF f, w, k
<1>11. QED
  BY <1>3, <1>6, <1>8, <1>9, <1>10, ViewCounted DEF v

\* The argument, a new reference and the head of a new box are the cells of the call.
LEMMA NewCounted == ASSUME Inv, Counted, New PROVE Counted'
<1>1. PICK b \in Box \ dynamic :
        /\ Called("New") /\ free >= 1 /\ Return(<<b>>)
        /\ content' = [content EXCEPT ![b] = call.argument]
        /\ dynamic' = dynamic \cup {b} /\ free' = free + 1
  BY DEF New
<1> DEFINE s == call.argument
           r == <<b>>
           S == dynamic \cup Static
           f == free + 1
<1>2. /\ call # NoCall /\ s \in Seq(Symbol) /\ r \in Seq(Symbol) /\ Len(r) = 1
  BY <1>1 DEF Called, Symbol, Inv, Types, Calls
<1>3. /\ Len(view) \in Nat /\ Len(s) \in Nat /\ InCall = 3 + Len(s) /\ InAll \in Nat
      /\ IsFiniteSet(S) /\ S \in SUBSET (Box \cup Static) /\ content \in Contents
  BY <1>2, CountedNumbers
<1>4. Len(view') = Len(view) + Len(r) /\ call' = NoCall /\ total' = total
  BY <1>1, <1>2, ReturnCells
<1>5. b \notin S /\ dynamic' \cup Static = S \cup {b} /\ IsFiniteSet(dynamic')
  BY <1>1, BoxesAssumption, FS_AddElement DEF Counted
<1>6. InAll' = InAll + Len(s) + 1
  <2>1. b \in Box /\ content' = [content EXCEPT ![b] = s]
    BY <1>1
  <2>2. InAll = BoxCells(content, S) /\ InAll' = BoxCells(content', S \cup {b})
    BY <1>5 DEF InAll
  <2> HIDE DEF s, S
  <2>3. BoxCells([content EXCEPT ![b] = s], S \cup {b}) = BoxCells(content, S) + Len(s) + 1
    BY <1>2, <1>3, <1>5, <2>1, BoxCellsAdd, ZenonT(60)
  <2>4. QED
    BY <2>1, <2>2, <2>3
<1>7. InCall' = 0
  BY <1>4 DEF InCall
<1> DEFINE v == Len(view)
           w == Len(view')
           a == Len(s)
           x == InAll
           y == InAll'
           k == InCall
           z == InCall'
<1>8. /\ v \in Nat /\ a \in Nat /\ x \in Nat /\ free \in Nat /\ total \in Nat
      /\ k = 3 + a /\ z = 0 /\ w = v + 1 /\ y = x + a + 1
      /\ total = free + 2 + v + k + x
  BY <1>2, <1>3, <1>4, <1>6, <1>7 DEF Counted
<1>9. free' = f
  BY <1>1
<1> HIDE DEF v, w, a, x, y, k, z
<1>10. f \in Nat /\ total = f + 2 + w + z + y
  BY <1>8
<1> HIDE DEF f
<1>11. total' = free' + 2 + Len(view') + InCall' + InAll'
  BY <1>4, <1>9, <1>10 DEF w, y, z
<1>12. QED
  BY <1>4, <1>5, <1>9, <1>10, <1>11 DEF Counted

\* The collector gives back the cells of the boxes that it empties and leaves out.
LEMMA CollectedCells ==
    ASSUME Inv, Counted, CollectGarbage
    PROVE  /\ Freed \in Nat /\ IsFiniteSet(dynamic')
           /\ InAll' \in Nat /\ InAll = InAll' + Freed
<1> DEFINE G == Garbage
           K == dynamic' \cup Static
           c == content
           d == content'
           h == [b \in Box \cup Static |-> Size(c, b)]
<1>1. /\ dynamic' = dynamic \cap Marked /\ Marked \subseteq dynamic
      /\ content' = [b \in Box \cup Static |-> IF b \in G THEN <<>> ELSE content[b]]
  BY MarkedClosed DEF CollectGarbage
<1>2. /\ dynamic \subseteq Box /\ G \subseteq dynamic /\ K \cap G = {}
      /\ dynamic \cup Static = K \cup G
  BY <1>1, BoxesAssumption DEF Inv, Types, Garbage
<1>3. /\ IsFiniteSet(K) /\ IsFiniteSet(G) /\ IsFiniteSet(dynamic') /\ IsFiniteSet(K \cup G)
      /\ K \in SUBSET (Box \cup Static) /\ G \in SUBSET (Box \cup Static)
      /\ K \cup G \in SUBSET (Box \cup Static)
  <2>1. IsFiniteSet(dynamic) /\ IsFiniteSet(Static)
    BY BoxesAssumption DEF Counted
  <2>2. IsFiniteSet(G) /\ IsFiniteSet(dynamic')
    BY <1>1, <1>2, <2>1, FS_Subset
  <2>3. QED
    BY <1>2, <2>1, <2>2, FS_Union
<1>4. c \in Contents /\ d \in Contents /\ \A b \in K : d[b] = c[b]
  BY <1>1, <1>2 DEF Inv, Types, Contents
<1>5. Freed = BoxCells(c, G)
  BY DEF Freed, InBoxes, BoxCells, Size, HeadCell, Cells
<1>6. InAll = BoxCells(c, K \cup G) /\ InAll' = BoxCells(d, K)
  BY <1>2 DEF InAll
<1> HIDE DEF G, K, c, d
<1>7. BoxCells(d, K) = BoxCells(c, K)
  BY <1>3, <1>4, BoxCellsSame
<1>8. BoxCells(c, K \cup G) = BoxCells(c, K) + BoxCells(c, G)
  <2>1. (\A b \in K \cup G : h[b] \in Nat) /\ BoxCells(c, K \cup G) = SumFunctionOnSet(h, K \cup G)
    BY <1>3, <1>4, BoxCellsOf
  <2>2. BoxCells(c, K) = SumFunctionOnSet(h, K) /\ BoxCells(c, G) = SumFunctionOnSet(h, G)
    BY DEF BoxCells
  <2> HIDE DEF h
  <2>3. \A b \in K \cup G : h[b] \in Int
    BY <2>1
  <2>4. QED
    BY <1>2, <1>3, <2>1, <2>2, <2>3, SumUnion
<1>9. BoxCells(c, K) \in Nat /\ BoxCells(c, G) \in Nat
  BY <1>3, <1>4, BoxCellsOf
<1>10. QED
  BY <1>3, <1>5, <1>6, <1>7, <1>8, <1>9

\* A collection gives the cells of the boxes it frees, and no others, to the free list.
LEMMA CollectorCounted == ASSUME Inv, Counted, MoreFreeMemory PROVE Counted'
<1>1. CollectGarbage /\ UNCHANGED <<view, call>>
  BY DEF MoreFreeMemory
<1>2. /\ Freed \in Nat /\ IsFiniteSet(dynamic') /\ InAll' \in Nat /\ InAll = InAll' + Freed
  BY <1>1, CollectedCells
<1>3. /\ Len(view) \in Nat /\ InCall \in Nat /\ InCall' = InCall /\ Len(view') = Len(view)
      /\ free \in Nat /\ total \in Nat /\ total <= MaxSize
      /\ total = free + 2 + Len(view) + InCall + InAll
  BY <1>1, CountedNumbers DEF Counted, InCall
<1>4. PICK g \in Nat : free' = free + Freed + g /\ total' = total + g /\ total + g <= MaxSize
  <2>1. CASE free' = free + Freed /\ total' = total
    BY <1>2, <1>3, <2>1
  <2>2. CASE free' = free + Freed + Grown /\ total' = total + Grown
    <3>1. Grown \in Nat /\ total + Grown <= MaxSize
      BY <1>3, BoxesAssumption DEF Grown
    <3>2. QED
      BY <2>2, <3>1
  <2>3. QED
    BY <2>1, <2>2 DEF MoreFreeMemory
<1> DEFINE v == Len(view)
           k == InCall
           x == InAll
           y == InAll'
           e == Freed
           f == free + e + g
           t == total + g
<1>5. f \in Nat /\ t \in Nat /\ t <= MaxSize /\ t = f + 2 + v + k + y
  <2>1. /\ v \in Nat /\ k \in Nat /\ y \in Nat /\ e \in Nat /\ x = y + e
        /\ total = free + 2 + v + k + x /\ total + g <= MaxSize
    BY <1>2, <1>3, <1>4
  <2> HIDE DEF v, k, x, y, e
  <2>2. QED
    BY <1>3, <2>1
<1>6. free' = f /\ total' = t
  BY <1>4
<1> HIDE DEF f, t
<1>7. total' = free' + 2 + Len(view') + InCall' + InAll'
  BY <1>3, <1>5, <1>6
<1>8. QED
  BY <1>2, <1>5, <1>6, <1>7 DEF Counted
-----------------------------------------------------------------------------
\* The account is right in the beginning ...
LEMMA CountedInit == Init => Counted
<1> SUFFICES ASSUME Init PROVE Counted
  OBVIOUS
<1>1. Inv
  BY InvInit
<1>2. /\ view = <<>> /\ call = NoCall /\ dynamic = {} /\ free = MinSize - 2 /\ total = MinSize
      /\ content = [b \in Box \cup Static |-> <<>>]
  BY DEF Init
<1> DEFINE f == [b \in Box \cup Static |-> Size(content, b)]
<1>3. \A b \in Static : f[b] = 0
  <2>1. \A b \in Static : Len(content[b]) = 0 /\ HeadCell(b) = 0
    BY <1>2, BoxesAssumption DEF HeadCell
  <2>2. QED
    BY <2>1 DEF Size
<1>4. IsFiniteSet(Static) /\ IsFiniteSet({}) /\ dynamic \cup Static = Static
  BY <1>2, BoxesAssumption, FS_EmptySet
<1>5. InAll = SumFunctionOnSet(f, Static)
  BY <1>4 DEF InAll, BoxCells
<1> HIDE DEF f
<1>6. SumFunctionOnSet(f, Static) = 0
  BY <1>3, <1>4, SumOfZeros
<1>7. Len(view) = 0 /\ InCall = 0
  BY <1>2 DEF InCall
<1>8. QED
  BY <1>2, <1>4, <1>5, <1>6, <1>7, BoxesAssumption DEF Counted

\* ... and after every step.
LEMMA CountedStep == Inv /\ Counted /\ [Next]_vars => Counted'
<1> SUFFICES ASSUME Inv, Counted, [Next]_vars PROVE Counted'
  OBVIOUS
<1>1. CASE Write \/ Discard \/ Apply
  BY <1>1, WriteCounted, DiscardCounted, ApplyCounted
<1>2. CASE New \/ Access
  BY <1>2, NewCounted, AccessStep DEF Access
<1>3. CASE MoreFreeMemory
  BY <1>3, CollectorCounted
<1>4. CASE UNCHANGED <<view, call, content, dynamic, free, total>>
  BY <1>4 DEF Counted, InCall, InAll
<1>5. QED
  BY <1>1, <1>2, <1>3, <1>4 DEF Next, Lack, Fail, vars

\* Whatever the calls move between the view field, the boxes and the free list, and whatever
\* the collector frees, every cell obtained is in one place.
THEOREM BoxCellsAccounted == Spec => []CellsAccounted
<1>1. Counted => CellsAccounted
  BY CountIsAccount DEF Counted
<1>2. QED
  BY InvInit, InvStep, CountedInit, CountedStep, <1>1, PTL DEF Spec
-----------------------------------------------------------------------------
(* The boxes as a program sees them: IdealBoxes *)

\* The least set of boxes that holds those named in N and those named in the contents of
\* its members and of the static boxes, where c gives the contents of the boxes of D.
ClosedUnder(S, N, c, D) ==
    /\ N \cap Box \subseteq S
    /\ \A o \in S \cup Static : o \in D => Symbols(c[o]) \cap Box \subseteq S
Least(N, c, D) == {b \in Box : \A S \in SUBSET Box : ClosedUnder(S, N, c, D) => b \in S}

\* Only the contents of a closed set of boxes matter.
LEMMA LeastInside ==
    ASSUME NEW N, NEW c, NEW d, NEW D \in SUBSET Box, NEW E, D \cup Static \subseteq E,
           N \cap Box \subseteq D,
           \A o \in D \cup Static : Symbols(c[o]) \cap Box \subseteq D /\ d[o] = c[o]
    PROVE  Least(N, d, D \cup Static) = Least(N, c, E) /\ Least(N, c, E) \subseteq D
<1>1. ASSUME NEW S \in SUBSET Box, ClosedUnder(S, N, c, E)
      PROVE  ClosedUnder(S, N, d, D \cup Static)
  BY <1>1 DEF ClosedUnder
<1>2. ASSUME NEW S \in SUBSET Box, ClosedUnder(S, N, d, D \cup Static)
      PROVE  S \cap D \in SUBSET Box /\ ClosedUnder(S \cap D, N, c, E)
  <2>1. N \cap Box \subseteq S \cap D
    BY <1>2 DEF ClosedUnder
  <2>2. ASSUME NEW o \in (S \cap D) \cup Static PROVE Symbols(c[o]) \cap Box \subseteq S \cap D
    <3>1. o \in S \cup Static /\ o \in D \cup Static
      OBVIOUS
    <3>2. Symbols(d[o]) \cap Box \subseteq S /\ Symbols(c[o]) \cap Box \subseteq D /\ d[o] = c[o]
      BY <1>2, <3>1 DEF ClosedUnder
    <3>3. QED
      BY <3>2
  <2>3. QED
    BY <2>1, <2>2 DEF ClosedUnder
<1>3. Least(N, d, D \cup Static) \subseteq Least(N, c, E)
  BY <1>1 DEF Least
<1>4. Least(N, c, E) \subseteq Least(N, d, D \cup Static)
  BY <1>2 DEF Least
<1>5. ClosedUnder(D, N, c, E)
  BY DEF ClosedUnder
<1>6. Least(N, c, E) \subseteq D
  BY <1>5 DEF Least
<1>7. QED
  BY <1>3, <1>4, <1>6

\* The collector marks the boxes that the program can still name, though it starts from
\* the registered static boxes only.
LEMMA MarkedIsLeast == Inv => Marked = Least(Named, content, Box \cup Static)
<1> SUFFICES ASSUME Inv PROVE Marked = Least(Named, content, Box \cup Static)
  OBVIOUS
<1> DEFINE Closed(S) == /\ Named \cap Box \subseteq S
                        /\ \A o \in S \cup registered : Symbols(content[o]) \cap Box \subseteq S
<1>1. Marked = {b \in dynamic : \A S \in SUBSET Box : Closed(S) => b \in S}
  BY DEF Marked, Named
<1>2. dynamic \subseteq Box /\ registered \subseteq Static
      /\ \A s \in Static \ registered : content[s] = <<>>
  BY DEF Inv, Types
<1>3. ASSUME NEW S \in SUBSET Box
      PROVE  Closed(S) <=> ClosedUnder(S, Named, content, Box \cup Static)
  <2>1. \A s \in Static \ registered : Symbols(content[s]) \cap Box \subseteq S
    BY <1>2, SymbolsEmpty
  <2>2. QED
    BY <1>2, <2>1 DEF ClosedUnder
<1>4. ClosedUnder(dynamic, Named, content, Box \cup Static)
  BY NoDanglingParts DEF Inv, ClosedUnder
<1> HIDE DEF Closed
<1>5. QED
  BY <1>1, <1>2, <1>3, <1>4 DEF Least

\* Also after a step, what can be reached is the least set closed under reference.
LEMMA MarkedNext == Inv' => (Marked = Least(Named, content, Box \cup Static))'
BY MarkedIsLeast, PTL

\* What the program can name is marked, and so is what that holds.
LEMMA MarkedHolds ==
    ASSUME Inv
    PROVE  /\ Marked \in SUBSET Box /\ Marked \subseteq dynamic /\ Named \cap Box \subseteq Marked
           /\ \A o \in Marked \cup Static : /\ Symbols(content[o]) \cap Box \subseteq Marked
                                            /\ content[o] \in Seq(Symbol)
           /\ DOMAIN Reachable = Static \cup Marked
           /\ \A o \in Marked \cup Static : Reachable[o] = content[o]
<1>1. /\ Marked \subseteq dynamic /\ Named \cap Box \subseteq Marked
      /\ \A o \in Marked \cup registered : Symbols(content[o]) \cap Box \subseteq Marked
  BY MarkedClosed
<1>2. \A s \in Static \ registered : Symbols(content[s]) = {}
  BY SymbolsEmpty DEF Inv
<1>3. Marked \in SUBSET Box /\ \A o \in Marked \cup Static : content[o] \in Seq(Symbol)
  BY <1>1 DEF Inv, Types
<1>4. QED
  BY <1>1, <1>2, <1>3 DEF Reachable

\* The same holds of the boxes of endless memory.
LEMMA IdealReached ==
    ASSUME NEW N, NEW c
    PROVE  Ideal!Reached(N, c) = Least(N, c, DOMAIN c)
BY DEF Ideal!Reached, Ideal!Symbols, Least, ClosedUnder, Symbols

\* A step shows the contents c when they are the new ones of a closed set of boxes.
LEMMA LiveNext ==
    ASSUME Inv', NEW D \in SUBSET Box, Named' \cap Box \subseteq D,
           NEW c, DOMAIN c = D \cup Static,
           \A o \in D \cup Static : Symbols(content'[o]) \cap Box \subseteq D /\ c[o] = content'[o]
    PROVE  Reachable' = Ideal!Live(view', call', c)
<1>1. /\ Least(Named', c, D \cup Static) = Least(Named', content', Box \cup Static)
      /\ Least(Named', content', Box \cup Static) \subseteq D
  BY LeastInside, SMTT(30)
<1>2. Marked' = Least(Named', content', Box \cup Static)
  BY MarkedNext
<1>3. Ideal!Live(view', call', c) = Restrict(c, Static \cup Ideal!Reached(Named', c))
  BY DEF Ideal!Live, Ideal!Symbols, Ideal!Restrict, Restrict, Named, Symbols
<1>4. Ideal!Reached(Named', c) = Marked'
  BY <1>1, <1>2, IdealReached
<1>5. Reachable' = [o \in Static \cup Marked' |-> content'[o]]
  BY DEF Reachable
<1>6. QED
  BY <1>1, <1>2, <1>3, <1>4, <1>5 DEF Restrict
-----------------------------------------------------------------------------
\* A step that leaves the view field and the marked boxes alone shows nothing: neither
\* does the collector, nor a step interrupted for want of memory.
LEMMA NothingShown ==
    ASSUME Inv, Inv', UNCHANGED <<view, call>>,
           \A o \in Marked \cup Static : content'[o] = content[o]
    PROVE  UNCHANGED <<view, call, Reachable>>
<1> DEFINE before == content
           after == content'
           M == Marked
           N == Named
<1>1. /\ M \in SUBSET Box /\ N \cap Box \subseteq M
      /\ \A o \in M \cup Static : Symbols(before[o]) \cap Box \subseteq M /\ after[o] = before[o]
  BY MarkedHolds
<1>2. M \cup Static \subseteq Box \cup Static
  BY <1>1
<1>3. M = Least(N, before, Box \cup Static)
  BY MarkedIsLeast
<1>4. Named' = Named
  BY DEF Named
<1>5. Marked' = Least(N, after, Box \cup Static)
  BY <1>4, MarkedNext
<1> HIDE DEF before, after, M, N
<1>6. Least(N, after, M \cup Static) = Least(N, before, Box \cup Static)
  BY <1>1, <1>2, LeastInside, SMTT(60)
<1>7. Least(N, after, M \cup Static) = Least(N, after, Box \cup Static)
  <2>1. \A o \in M \cup Static : Symbols(after[o]) \cap Box \subseteq M /\ after[o] = after[o]
    BY <1>1
  <2>2. QED
    BY <1>1, <1>2, <2>1, LeastInside
<1>8. Marked' = Marked
  BY <1>3, <1>5, <1>6, <1>7 DEF M
<1>9. Reachable' = Reachable
  BY <1>8 DEF Reachable
<1>10. QED
  BY <1>9

\* The collector empties only boxes without a mark.
LEMMA MoreFreeMemoryIdeal ==
    ASSUME Inv, Inv', MoreFreeMemory PROVE UNCHANGED <<view, call, Reachable>>
<1>1. /\ UNCHANGED <<view, call>>
      /\ content' = [b \in Box \cup Static |-> IF b \in Garbage THEN <<>> ELSE content[b]]
  BY DEF MoreFreeMemory, CollectGarbage
<1>2. \A o \in Marked \cup Static : o \in Box \cup Static /\ o \notin Garbage
  BY MarkedHolds, BoxesAssumption DEF Garbage, Inv, Types
<1>3. \A o \in Marked \cup Static : content'[o] = content[o]
  BY <1>1, <1>2
<1>4. QED
  BY <1>1, <1>3, NothingShown

\* A sentence moves what the program can name, and changes no box.
LEMMA SentenceIdeal ==
    ASSUME Inv, Inv', Named' \cap Box \subseteq Named, UNCHANGED content
    PROVE  Reachable' = Ideal!Live(view', call', Reachable)
<1>1. /\ Marked \in SUBSET Box /\ Named' \cap Box \subseteq Marked
      /\ DOMAIN Reachable = Marked \cup Static
      /\ \A o \in Marked \cup Static : /\ Symbols(content'[o]) \cap Box \subseteq Marked
                                       /\ Reachable[o] = content'[o]
  BY MarkedHolds
<1>2. QED
  BY <1>1, LiveNext

\* One lemma for each operation: it is one on the boxes of endless memory.
LEMMA WriteIdeal == ASSUME Inv, Inv', Write PROVE Ideal!Rewrite
<1>1. PICK x \in Static \cup Plain \cup Symbols(view) : view' = Append(view, x)
  BY DEF Write
<1>2. call = NoCall /\ call' = NoCall /\ UNCHANGED content /\ view \in Seq(Symbol)
  BY DEF Write, Inv, Types
<1>3. Symbols(view') \cap Box \subseteq Symbols(view)
  <2>1. ASSUME NEW i \in DOMAIN view' PROVE view'[i] \in Symbols(view) \cup {x}
    <3>1. i \in DOMAIN view \/ view'[i] = x
      BY <1>1, <1>2
    <3>2. i \in DOMAIN view => view'[i] = view[i]
      BY <1>1, <1>2
    <3>3. QED
      BY <3>1, <3>2 DEF Symbols
  <2>2. QED
    BY <2>1, BoxesAssumption DEF Symbols
<1>4. Reachable' = Ideal!Live(view', call', Reachable)
  <2>1. Named' \cap Box \subseteq Named
    BY <1>2, <1>3 DEF Named
  <2>2. QED
    BY <1>2, <2>1, SentenceIdeal
<1>5. \E y \in Static \cup Plain \cup Ideal!Symbols(view) : view' = Append(view, y)
  BY <1>1 DEF Ideal!Symbols, Symbols
<1>6. QED
  BY <1>2, <1>4, <1>5 DEF Ideal!Rewrite

\* Dropping a part of the view field is a rewriting.
LEMMA DiscardIdeal == ASSUME Inv, Inv', Discard PROVE Ideal!Rewrite
<1>1. PICK i \in DOMAIN view : view' = Prefix(view, i - 1) \o Suffix(view, i)
  BY DEF Discard
<1>2. call = NoCall /\ call' = NoCall /\ UNCHANGED content /\ view \in Seq(Symbol)
  BY DEF Discard, Inv, Types
<1>3. i - 1 \in 0 .. Len(view) /\ i \in 0 .. Len(view)
  BY <1>2
<1>4. Symbols(view') \subseteq Symbols(view)
  <2> DEFINE before == Prefix(view, i - 1)
             behind == Suffix(view, i)
  <2>1. /\ before \in Seq(Symbol) /\ behind \in Seq(Symbol)
        /\ Symbols(before) \subseteq Symbols(view) /\ Symbols(behind) \subseteq Symbols(view)
    BY <1>2, <1>3, SymbolsPrefix, SymbolsSuffix
  <2> HIDE DEF before, behind
  <2>2. Symbols(before \o behind) = Symbols(before) \cup Symbols(behind)
    BY <2>1, SymbolsConcat
  <2>3. QED
    BY <1>1, <2>1, <2>2 DEF before, behind
<1>5. Reachable' = Ideal!Live(view', call', Reachable)
  <2>1. Named' \cap Box \subseteq Named
    BY <1>2, <1>4 DEF Named
  <2>2. QED
    BY <1>2, <2>1, SentenceIdeal
<1>6. \E k \in DOMAIN view : view' = Ideal!Prefix(view, k - 1) \o Ideal!Suffix(view, k)
  BY <1>1 DEF Ideal!Prefix, Ideal!Suffix, Prefix, Suffix
<1>7. QED
  BY <1>2, <1>5, <1>6 DEF Ideal!Rewrite

\* The call of a box is the call of a box.
LEMMA ApplyIdeal == ASSUME Inv, Inv', Apply PROVE Ideal!Apply
<1>1. PICK f \in Primitive \cup Static \cup (Box \cap Symbols(view)),
           i \in 1 .. Len(view) + 1 : \E j \in i - 1 .. Len(view) :
        /\ call' = [function |-> f, argument |-> SubSeq(view, i, j), at |-> i - 1]
        /\ view' = Prefix(view, i - 1) \o Suffix(view, j)
  BY DEF Apply
<1>2. PICK j \in i - 1 .. Len(view) :
        /\ call' = [function |-> f, argument |-> SubSeq(view, i, j), at |-> i - 1]
        /\ view' = Prefix(view, i - 1) \o Suffix(view, j)
  BY <1>1
<1>3. call = NoCall /\ UNCHANGED content /\ view \in Seq(Symbol) /\ Len(view) \in Nat
  BY DEF Apply, Inv, Types
<1>4. i \in Nat /\ i >= 1 /\ j \in Nat /\ j <= Len(view)
      /\ i - 1 \in 0 .. Len(view) /\ j \in 0 .. Len(view)
  BY <1>3
<1> DEFINE before == Prefix(view, i - 1)
           behind == Suffix(view, j)
           middle == SubSeq(view, i, j)
<1>5. /\ before \in Seq(Symbol) /\ behind \in Seq(Symbol)
      /\ Symbols(before) \subseteq Symbols(view) /\ Symbols(behind) \subseteq Symbols(view)
      /\ Symbols(middle) \subseteq Symbols(view)
  BY <1>3, <1>4, SymbolsPrefix, SymbolsSuffix, SymbolsSubSeq
<1>6. call'.function = f /\ call'.argument = middle /\ view' = before \o behind
  BY <1>2
<1> HIDE DEF before, behind, middle
<1>7. Symbols(view') \subseteq Symbols(view)
  BY <1>5, <1>6, SymbolsConcat
<1>8. Reachable' = Ideal!Live(view', call', Reachable)
  <2>1. f \in Box => f \in Symbols(view)
    BY BoxesAssumption
  <2>2. Named' \cap Box \subseteq Named
    BY <1>3, <1>5, <1>6, <1>7, <2>1 DEF Named
  <2>3. QED
    BY <1>3, <2>2, SentenceIdeal
<1>9. f \in Ideal!Primitive \cup Static \cup (Box \cap Ideal!Symbols(view))
  BY DEF Ideal!Primitive, Ideal!Symbols, Primitive, Symbols
<1>10. view' = Ideal!Prefix(view, i - 1) \o Ideal!Suffix(view, j)
  BY <1>2 DEF Ideal!Prefix, Ideal!Suffix, Prefix, Suffix
<1>11. \E g \in Ideal!Primitive \cup Static \cup (Box \cap Ideal!Symbols(view)) :
       \E k \in 1 .. Len(view) + 1 : \E l \in k - 1 .. Len(view) :
          /\ call' = [function |-> g, argument |-> SubSeq(view, k, l), at |-> k - 1]
          /\ view' = Ideal!Prefix(view, k - 1) \o Ideal!Suffix(view, l)
  BY <1>2, <1>9, <1>10
<1>12. QED
  BY <1>3, <1>8, <1>11 DEF Ideal!Apply
-----------------------------------------------------------------------------
\* A call that returns what the program could name and gives a box other such contents.
LEMMA ReturnIdeal ==
    ASSUME Inv, Inv', call # NoCall,
           NEW b \in Marked \cup Static,
           NEW result \in Seq(Symbol), Return(result), Symbols(result) \cap Box \subseteq Marked,
           NEW new, content' = [content EXCEPT ![b] = new], Symbols(new) \cap Box \subseteq Marked
    PROVE  Ideal!Return(result, [Reachable EXCEPT ![b] = new])
<1> DEFINE c == [Reachable EXCEPT ![b] = new]
<1>1. /\ Marked \in SUBSET Box /\ Named \cap Box \subseteq Marked
      /\ DOMAIN Reachable = Static \cup Marked
      /\ \A o \in Marked \cup Static : /\ Symbols(content[o]) \cap Box \subseteq Marked
                                       /\ Reachable[o] = content[o]
  BY MarkedHolds
<1>2. call' = NoCall /\ Named' \subseteq Symbols(view) \cup Symbols(result)
  BY ReturnView
<1>3. DOMAIN content = Box \cup Static
  BY DEF Inv, Types
<1>4. Named' \cap Box \subseteq Marked
  BY <1>1, <1>2 DEF Named
<1>5. DOMAIN c = Marked \cup Static
  BY <1>1
<1>6. \A o \in Marked \cup Static : /\ Symbols(content'[o]) \cap Box \subseteq Marked
                                    /\ c[o] = content'[o]
  BY <1>1, <1>3
<1> HIDE DEF c
<1>7. Reachable' = Ideal!Live(view', call', c)
  BY <1>1, <1>4, <1>5, <1>6, LiveNext
<1>8. view' = Ideal!Prefix(view, call.at) \o result \o Ideal!Suffix(view, call.at)
  BY DEF Return, Prefix, Suffix, Ideal!Prefix, Ideal!Suffix
<1>9. QED
  BY <1>2, <1>7, <1>8 DEF Ideal!Return, c

\* What a call names is marked, and what it holds too.
LEMMA MarkedBox ==
    ASSUME Inv, call # NoCall, NEW b \in Box \cup Static,
           b \in {call.function} \cup Symbols(call.argument)
    PROVE  /\ b \in Marked \cup Static
           /\ content[b] \in Seq(Symbol) /\ Symbols(content[b]) \cap Box \subseteq Marked
           /\ Reachable[b] = content[b]
<1>1. b \in Named
  BY DEF Named
<1>2. b \in Marked \cup Static
  BY <1>1, MarkedHolds
<1>3. QED
  BY <1>2, MarkedHolds

\* The box a primitive function is given, and those named in its argument, can be reached.
LEMMA MarkedArgument ==
    ASSUME Inv, call # NoCall
    PROVE  /\ call.argument \in Seq(Symbol) /\ Symbols(call.argument) \cap Box \subseteq Marked
           /\ call.argument # <<>> =>
                 /\ Head(call.argument) = call.argument[1]
                 /\ Head(call.argument) \in Symbols(call.argument)
                 /\ Tail(call.argument) \in Seq(Symbol)
                 /\ Symbols(Tail(call.argument)) \cap Box \subseteq Marked
<1>1. call.argument \in Seq(Symbol)
  BY DEF Inv, Types, Calls
<1>2. Symbols(call.argument) \cap Box \subseteq Marked
  BY MarkedHolds DEF Named
<1>3. ASSUME call.argument # <<>>
      PROVE  /\ Head(call.argument) = call.argument[1] /\ 1 \in DOMAIN call.argument
             /\ Tail(call.argument) \in Seq(Symbol)
             /\ Symbols(Tail(call.argument)) \subseteq Symbols(call.argument)
  <2>1. Head(call.argument) = call.argument[1] /\ 1 \in DOMAIN call.argument
    BY <1>1, <1>3
  <2>2. QED
    BY <1>1, <1>3, <2>1, SymbolsOfRest
<1>4. QED
  BY <1>1, <1>2, <1>3 DEF Symbols

\* Gtr is an access to a box.
LEMMA GtrIdeal == ASSUME NEW b \in Box \cup Static, Inv, Inv', Gtr(b)
                  PROVE  call # NoCall /\ Ideal!Access
<1>1. call # NoCall /\ call.function = "Gtr" /\ call.argument # <<>> /\ Tail(call.argument) = <<>>
      /\ Head(call.argument) = b
  BY DEF Gtr, Called, Names, Rest
<1>2. b = call.argument[1] /\ b \in Symbols(call.argument)
  BY <1>1, MarkedArgument
<1>3. Ideal!Return(content[b], [Reachable EXCEPT ![b] = <<>>]) /\ Reachable[b] = content[b]
  BY <1>1, <1>2, MarkedBox, ReturnIdeal, SymbolsEmpty DEF Gtr
<1>4. QED
  BY <1>1, <1>2, <1>3 DEF Ideal!Access

\* Rdr is one, or is retried after a lack of cells, which shows nothing.
LEMMA RdrIdeal == ASSUME NEW b \in Box \cup Static, Inv, Inv', Rdr(b)
                  PROVE  (call # NoCall /\ Ideal!Access) \/ UNCHANGED <<view, call, Reachable>>
<1>1. call # NoCall /\ call.function = "Rdr" /\ call.argument # <<>> /\ Tail(call.argument) = <<>>
      /\ Head(call.argument) = b /\ UNCHANGED content
  BY DEF Rdr, Called, Names, Rest
<1>2. b = call.argument[1] /\ b \in Symbols(call.argument)
  BY <1>1, MarkedArgument
<1>3. CASE UNCHANGED <<view, call>>
  BY <1>1, <1>3, NothingShown
<1>4. CASE Return(content[b])
  <2>1. content' = [content EXCEPT ![b] = content[b]]
    BY <1>1 DEF Inv, Types
  <2>2. Ideal!Return(content[b], [Reachable EXCEPT ![b] = content[b]]) /\ Reachable[b] = content[b]
    BY <1>1, <1>2, <1>4, <2>1, MarkedBox, ReturnIdeal
  <2>3. [Reachable EXCEPT ![b] = content[b]] = Reachable
    BY <2>2 DEF Reachable
  <2>4. QED
    BY <1>1, <1>2, <2>2, <2>3 DEF Ideal!Access
<1>5. QED
  BY <1>3, <1>4 DEF Rdr

\* Ptr is an access to a box.
LEMMA PtrIdeal == ASSUME NEW b \in Box \cup Static, Inv, Inv', Ptr(b)
                  PROVE  call # NoCall /\ Ideal!Access
<1> DEFINE old  == content[b]
           rest == Tail(call.argument)
<1>1. call # NoCall /\ call.function = "Ptr" /\ call.argument # <<>> /\ Head(call.argument) = b
      /\ content' = [content EXCEPT ![b] = old \o rest] /\ Return(<<>>)
  BY DEF Ptr, Called, Names, Rest
<1>2. b = call.argument[1] /\ b \in Symbols(call.argument)
  BY <1>1, MarkedArgument
<1>3. /\ old \in Seq(Symbol) /\ Symbols(old) \cap Box \subseteq Marked
      /\ rest \in Seq(Symbol) /\ Symbols(rest) \cap Box \subseteq Marked
      /\ b \in Marked \cup Static /\ Reachable[b] = old
  BY <1>1, <1>2, MarkedBox, MarkedArgument
<1> HIDE DEF old, rest
<1>4. Symbols(old \o rest) \cap Box \subseteq Marked
  BY <1>3, SymbolsConcat
<1>5. Ideal!Return(<<>>, [Reachable EXCEPT ![b] = old \o rest])
  <2>1. <<>> \in Seq(Symbol) /\ Symbols(<<>>) \cap Box \subseteq Marked
    BY SymbolsEmpty
  <2>2. QED
    BY <1>1, <1>3, <1>4, <2>1, ReturnIdeal
<1>6. [Reachable EXCEPT ![b] = old \o rest] = [Reachable EXCEPT ![b] = @ \o rest]
  BY <1>3
<1>7. Ideal!Return(<<>>, [Reachable EXCEPT ![call.argument[1]] = @ \o Tail(call.argument)])
  BY <1>2, <1>5, <1>6 DEF rest
<1>8. QED
  BY <1>1, <1>2, <1>7 DEF Ideal!Access

\* Wtr is one.
LEMMA WtrIdeal == ASSUME NEW b \in Box \cup Static, Inv, Inv', Wtr(b)
                  PROVE  call # NoCall /\ Ideal!Access
<1>1. call # NoCall /\ call.function = "Wtr" /\ call.argument # <<>> /\ Head(call.argument) = b
      /\ content' = [content EXCEPT ![b] = Tail(call.argument)] /\ Return(<<>>)
  BY DEF Wtr, Called, Names, Rest
<1>2. b = call.argument[1] /\ b \in Symbols(call.argument)
  BY <1>1, MarkedArgument
<1>3. <<>> \in Seq(Symbol) /\ Symbols(<<>>) \cap Box \subseteq Marked
  BY SymbolsEmpty
<1>4. b \in Marked \cup Static /\ Symbols(Tail(call.argument)) \cap Box \subseteq Marked
  BY <1>1, <1>2, MarkedBox, MarkedArgument
<1>5. Ideal!Return(<<>>, [Reachable EXCEPT ![b] = Tail(call.argument)])
  BY <1>1, <1>3, <1>4, ReturnIdeal
<1>6. QED
  BY <1>1, <1>2, <1>5 DEF Ideal!Access

\* Swr is one.
LEMMA SwrIdeal == ASSUME NEW b \in Box \cup Static, Inv, Inv', Swr(b)
                  PROVE  call # NoCall /\ Ideal!Access
<1>1. call # NoCall /\ call.function = "Swr" /\ call.argument # <<>> /\ Head(call.argument) = b
      /\ content' = [content EXCEPT ![b] = Tail(call.argument)] /\ Return(content[b])
  BY DEF Swr, Called, Names, Rest
<1>2. b = call.argument[1] /\ b \in Symbols(call.argument)
  BY <1>1, MarkedArgument
<1>3. /\ b \in Marked \cup Static /\ Reachable[b] = content[b]
      /\ content[b] \in Seq(Symbol) /\ Symbols(content[b]) \cap Box \subseteq Marked
      /\ Symbols(Tail(call.argument)) \cap Box \subseteq Marked
  BY <1>1, <1>2, MarkedBox, MarkedArgument
<1>4. Ideal!Return(content[b], [Reachable EXCEPT ![b] = Tail(call.argument)])
  BY <1>1, <1>3, ReturnIdeal
<1>5. QED
  BY <1>1, <1>2, <1>3, <1>4 DEF Ideal!Access

\* The call of a box itself is one.
LEMMA SwapIdeal == ASSUME NEW b \in Box \cup Static, Inv, Inv', Swap(b)
                   PROVE  call # NoCall /\ Ideal!Access
<1>1. call # NoCall /\ call.function = b
      /\ content' = [content EXCEPT ![b] = call.argument] /\ Return(content[b])
  BY DEF Swap, Called
<1>2. /\ b \in Marked \cup Static /\ Reachable[b] = content[b]
      /\ content[b] \in Seq(Symbol) /\ Symbols(content[b]) \cap Box \subseteq Marked
      /\ Symbols(call.argument) \cap Box \subseteq Marked
  BY <1>1, MarkedBox, MarkedArgument
<1>3. Ideal!Return(content[b], [Reachable EXCEPT ![b] = call.argument])
  BY <1>1, <1>2, ReturnIdeal
<1>4. QED
  BY <1>1, <1>2, <1>3 DEF Ideal!Access

\* The cell that becomes the head of a new box is none that the program can name.
LEMMA NewIdeal == ASSUME Inv, Inv', New PROVE call # NoCall /\ Ideal!New
<1>1. PICK b \in Box \ dynamic :
        Called("New") /\ Return(<<b>>) /\ content' = [content EXCEPT ![b] = call.argument]
  BY DEF New
<1> DEFINE D == Marked \cup {b}
           c == [o \in DOMAIN Reachable \cup {b} |->
                   IF o = b THEN call.argument ELSE Reachable[o]]
<1>2. /\ Marked \in SUBSET Box /\ Marked \subseteq dynamic /\ Named \cap Box \subseteq Marked
      /\ DOMAIN Reachable = Static \cup Marked
      /\ \A o \in Marked \cup Static : /\ Symbols(content[o]) \cap Box \subseteq Marked
                                       /\ Reachable[o] = content[o]
  BY MarkedHolds
<1>3. call # NoCall /\ call.function = "New" /\ b \in Box \ DOMAIN Reachable
  BY <1>1, <1>2, BoxesAssumption DEF Called
<1>4. <<b>> \in Seq(Symbol) /\ Symbols(<<b>>) = {b}
  BY DEF Symbol, Symbols
<1>5. call' = NoCall /\ Named' \subseteq Symbols(view) \cup {b}
  BY <1>1, <1>3, <1>4, ReturnView
<1>6. Named' \cap Box \subseteq D /\ D \in SUBSET Box
  BY <1>2, <1>5 DEF Named
<1>7. DOMAIN c = D \cup Static
  BY <1>2
<1>8. \A o \in D \cup Static : /\ Symbols(content'[o]) \cap Box \subseteq D
                               /\ c[o] = content'[o]
  <2>1. Symbols(call.argument) \cap Box \subseteq Marked
    BY <1>3, MarkedArgument
  <2>2. DOMAIN content = Box \cup Static
    BY DEF Inv, Types
  <2>3. content'[b] = call.argument /\ c[b] = call.argument
    BY <1>1, <2>2
  <2>4. ASSUME NEW o \in (Marked \cup Static) \ {b} PROVE content'[o] = content[o] /\ c[o] = content[o]
    BY <1>1, <1>2, <2>2
  <2>5. QED
    BY <1>2, <2>1, <2>3, <2>4
<1> HIDE DEF c, D
<1>9. Reachable' = Ideal!Live(view', call', c)
  BY <1>6, <1>7, <1>8, LiveNext
<1>10. view' = Ideal!Prefix(view, call.at) \o <<b>> \o Ideal!Suffix(view, call.at)
  BY <1>1 DEF Return, Prefix, Suffix, Ideal!Prefix, Ideal!Suffix
<1>11. Ideal!Return(<<b>>, c)
  BY <1>5, <1>9, <1>10 DEF Ideal!Return
<1>12. QED
  BY <1>3, <1>11 DEF Ideal!New, c
-----------------------------------------------------------------------------
\* The initial states are those of endless memory ...
LEMMA InitIdeal == Init => Ideal!Init
<1> SUFFICES ASSUME Init PROVE Ideal!Init
  OBVIOUS
<1>1. dynamic = {} /\ content = [b \in Box \cup Static |-> <<>>] /\ view = <<>> /\ call = NoCall
  BY DEF Init
<1>2. Marked = {}
  BY <1>1, InvInit, MarkedHolds
<1>3. Reachable = [s \in Static |-> <<>>]
  BY <1>1, <1>2 DEF Reachable
<1>4. QED
  BY <1>1, <1>3 DEF Ideal!Init

\* ... and every step is one of its steps or shows nothing.
LEMMA StepIdeal == Inv /\ Inv' /\ [Next]_vars => [Ideal!Next]_<<view, call, Reachable>>
<1> SUFFICES ASSUME Inv, Inv', [Next]_vars PROVE [Ideal!Next]_<<view, call, Reachable>>
  OBVIOUS
<1>1. CASE Write
  BY <1>1, WriteIdeal DEF Ideal!Next
<1>2. CASE Discard
  BY <1>2, DiscardIdeal DEF Ideal!Next
<1>3. CASE Apply
  BY <1>3, ApplyIdeal DEF Ideal!Next
<1>4. CASE New
  BY <1>4, NewIdeal DEF Ideal!Next
<1>5. CASE Access
  <2>1. PICK b \in Box \cup Static : Gtr(b) \/ Rdr(b) \/ Ptr(b) \/ Wtr(b) \/ Swr(b) \/ Swap(b)
    BY <1>5 DEF Access
  <2>2. (call # NoCall /\ Ideal!Access) \/ UNCHANGED <<view, call, Reachable>>
    BY <2>1, GtrIdeal, RdrIdeal, PtrIdeal, WtrIdeal, SwrIdeal, SwapIdeal
  <2>3. QED
    BY <2>2 DEF Ideal!Next
<1>6. CASE MoreFreeMemory
  BY <1>6, MoreFreeMemoryIdeal
<1>7. CASE UNCHANGED <<view, call, content>>
  BY <1>7, NothingShown
<1>8. QED
  BY <1>1, <1>2, <1>3, <1>4, <1>5, <1>6, <1>7 DEF Next, Lack, Fail, vars

\* The collector, the retries of interrupted steps and the growth of memory are invisible:
\* with any number of boxes and cells the program sees what it sees in endless memory.
THEOREM CollectorIsInvisible == Spec => Transparent
BY InvInit, InvStep, InitIdeal, StepIdeal, PTL
DEF Spec, Transparent, Ideal!Spec
=============================================================================
