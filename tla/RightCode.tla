------------------------------- MODULE RightCode -------------------------------
(***************************************************************************)
(* The compiler of right parts, comp/compile_sentence.c from RCGFIN to     *)
(* RPE10.  What the left part has found may be moved into the result       *)
(* instead of being copied: try_transplant() looks for the longest run of  *)
(* elements of the left part that the right part goes on with.  Elements   *)
(* moved before may lie within the run; they will leave it again.          *)
(***************************************************************************)
EXTENDS LeftPart

CONSTANTS
    UINT8_MAX,      \* the most characters of one TEXT
    DEEPEST         \* the brackets_k_level up to which a sign < may stand

VARIABLES
    used,       \* the elements of the left part that are moved
    brackets    \* brackets_count up to brackets_k_level

right == <<used, brackets>>

NoRight == used = {} /\ brackets = <<>>

\* RCGFIN
Finish ==
    /\ at = "HSCH" /\ holes = <<>>
    /\ Emit(<<<<"EOR", "", <<>>>>>>) /\ at' = "SW_RPE"
    /\ cursor' = cursor + 1 /\ brackets' = <<0>>
    /\ UNCHANGED <<source, errors, pattern, pair, elements, place, top, depth, used>>
-----------------------------------------------------------------------------
(* try_transplant() *)

EQ == [END EXCEPT !.type = "EQ", !.what = "="]
\* The elements of the left part, its sign = among them.
LeftElements == Append(pattern, EQ)

Same(e, f) == [e EXCEPT !.specifier = None] = [f EXCEPT !.specifier = None]

\* Steps 2 and 3: as far as the elements from i on are used or are what the right
\* part goes on with.
Goes(i, n) == \A k \in i .. i + n - 1 :
                 k \in used \/ Same(LeftElements[k], Ahead(Cardinality((i .. k - 1) \ used)))
Extent(i) == IF i \in used THEN 0 ELSE Max({n \in 0 .. Len(LeftElements) - i + 1 : Goes(i, n)})

\* A mutant: a run may end between two brackets.
WholeUnpaired(i, n) == n

\* Step 4: the run of n elements from i on, up to a bracket whose pair is not in it.
Whole(i, n) ==
    LET run == i .. i + n - 1
        lone == {p \in run \cap DOMAIN pattern : IsBracket(p) /\ PairBracket(p) \notin run}
    IN  IF lone = {} THEN n ELSE Min(lone) - i

\* Step 5: the longest run, the first of these.
Best ==
    LET length == [i \in DOMAIN LeftElements |-> Whole(i, Extent(i))]
        longest == Max(Range(length))
    IN  [from |-> Min({i \in DOMAIN length : length[i] = longest}), length |-> longest]

\* Step 6: how the run is moved depends on whether it may be empty.
Movement(i, n) ==
    LET run == i .. i + n - 1
        firm == \E e \in {LeftElements[k] : k \in run} :
                   e.type \in {"SC", "LB", "RB", "S", "W"} \/ (e.type = "E" /\ e.v)
        ends == <<number[i][1], number[i + n - 1][2]>>
    IN  CASE n > 1 -> <<IF firm THEN "TPLM" ELSE "TPL", "", ends>>
          [] n = 1 /\ ~ firm -> <<"TPLE", "", ends[2]>>
          [] n = 1 /\ Type(i) \in {"S", "SC"} -> <<"TPLS", "", ends[2]>>
          [] OTHER -> <<"TPLV", "", ends[2]>>

\* SW_RPE: what cannot be moved is written.
TryTransplant ==
    /\ at = "SW_RPE"
    /\ \E best \in {IF Current.type \in {"SC", "LB", "S", "W", "E"} THEN Best ELSE [from |-> 1, length |-> 0]} :
           LET run == best.from .. best.from + best.length - 1
           IN  IF best.length = 0 THEN at' = "RPE" /\ UNCHANGED <<code, used, cursor>>
               ELSE /\ Emit(<<Movement(best.from, best.length)>>)
                    /\ used' = used \cup run
                    /\ cursor' = cursor + Cardinality(run \ used)
                    /\ UNCHANGED at
    /\ UNCHANGED <<source, errors, pattern, pair, elements, place, top, depth, brackets>>
-----------------------------------------------------------------------------
(* RPE0 to RPE10: one action for each type *)

Reading(type) == at = "RPE" /\ Current.type = type
Keeping == UNCHANGED <<source, pattern, pair, elements, place, top, depth, used>>
Proceed(n) == cursor' = cursor + n /\ at' = "SW_RPE"
Report(faults) == errors' = errors \cup faults
IsFunction(k) == Ahead(k).type = "SC" /\ Tag[Ahead(k).what] = "F"

\* RPE1, TEXT: characters are written together, and are not looked for once more.
Symbol ==
    /\ Reading("SC")
    /\ LET IsCharacter(k) == Ahead(k).type = "SC" /\ Tag[Ahead(k).what] = "O"
           n == IF ~ IsCharacter(0) THEN 1
                ELSE Max({n \in 1 .. UINT8_MAX : \A k \in 0 .. n - 1 : IsCharacter(k)})
       IN  /\ Emit(<<<<IF ~ IsCharacter(0) THEN "NS" ELSE IF n = 1 THEN "NSO" ELSE "TEXT", "",
                       [k \in 1 .. n |-> Ahead(k - 1).what]>>>>)
           /\ Proceed(n)
    /\ UNCHANGED <<errors, brackets>> /\ Keeping

\* RPE2
LeftBracket ==
    /\ Reading("LB")
    /\ LET l == Len(brackets)
       IN  IF Ahead(1).type = "RB"
           THEN Emit(<<<<"BLR", "", <<>>>>>>) /\ Proceed(2) /\ UNCHANGED brackets
           ELSE /\ brackets' = [brackets EXCEPT ![l] = @ + 1]
                /\ IF IsFunction(1)
                   THEN Emit(<<<<"BLF", "", Ahead(1).what>>>>) /\ Proceed(2)
                   ELSE Emit(<<<<"BL", "", <<>>>>>>) /\ Proceed(1)
    /\ UNCHANGED errors /\ Keeping

\* RPE3
RightBracket ==
    /\ Reading("RB")
    /\ LET l == Len(brackets)
       IN  IF brackets[l] = 0 THEN Report({402}) /\ UNCHANGED brackets
           ELSE brackets' = [brackets EXCEPT ![l] = @ - 1] /\ UNCHANGED errors
    /\ Emit(<<<<"BR", "", <<>>>>>>)
    /\ Proceed(1)
    /\ Keeping

\* RPE4, RPE5, RPE6: all that the left part has found for the variable is moved.
Copy ==
    /\ at = "RPE" /\ Variable(Current)
    /\ IF ~ \E i \in DOMAIN pattern : Variable(pattern[i]) /\ Name(i) = Current.what
       THEN Report({406}) /\ UNCHANGED code
       ELSE IF Clash(Current) THEN Report({303}) /\ UNCHANGED code
       ELSE /\ Emit(<<<<IF Current.type = "S" THEN "MULS" ELSE "MULE", "", main[Current.what]>>>>)
            /\ UNCHANGED errors
    /\ Proceed(1)
    /\ UNCHANGED brackets /\ Keeping

\* RPE7
LeftSign ==
    /\ Reading("K") /\ Len(brackets) <= DEEPEST
    /\ brackets' = Append(brackets, 0)
    /\ IF IsFunction(1)
       THEN Emit(<<<<"BLF", "", Ahead(1).what>>>>) /\ Proceed(2)
       ELSE Emit(<<<<"BL", "", <<>>>>>>) /\ Proceed(1)
    /\ UNCHANGED errors /\ Keeping

\* A mutant: the brackets left open within < > are not counted.
RightSignTrusting ==
    /\ Reading("DOT")
    /\ IF Len(brackets) = 1 THEN Report({404}) /\ UNCHANGED <<brackets, code>>
       ELSE /\ UNCHANGED errors
            /\ Emit(<<<<"BRACT", "", <<>>>>>>) /\ brackets' = Front(brackets)
    /\ Proceed(1)
    /\ Keeping

\* RPE8
RightSign ==
    /\ Reading("DOT")
    /\ IF Len(brackets) = 1 THEN Report({404}) /\ UNCHANGED <<brackets, code>>
       ELSE /\ Report(IF Last(brackets) # 0 THEN {401} ELSE {})
            /\ Emit(<<<<"BRACT", "", <<>>>>>>) /\ brackets' = Front(brackets)
    /\ Proceed(1)
    /\ Keeping

\* RPE9
StraySign ==
    /\ Reading("EQ") /\ Report({405})
    /\ Proceed(1)
    /\ UNCHANGED <<code, brackets>> /\ Keeping

\* RPE10
EndOfSentence ==
    /\ Reading("END")
    /\ Emit(<<<<"EOS", "", <<>>>>>>)
    /\ Report((IF Len(brackets) # 1 THEN {403} ELSE {}) \cup (IF Last(brackets) # 0 THEN {401} ELSE {}))
    /\ at' = "END"
    /\ UNCHANGED <<cursor, brackets>> /\ Keeping

\* RP_OSH300
Unscanned ==
    /\ \/ Reading("NONE") /\ Report({300})
       \/ Reading("K") /\ Len(brackets) > DEEPEST /\ Report({407, 300})
    /\ at' = "stopped"
    /\ UNCHANGED <<cursor, code, brackets>> /\ Keeping

CompileRight == \/ TryTransplant \/ Symbol \/ LeftBracket \/ RightBracket \/ Copy
                \/ LeftSign \/ RightSign \/ StraySign \/ EndOfSentence \/ Unscanned
=============================================================================
