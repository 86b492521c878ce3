------------------------------- MODULE Burial -------------------------------
(***************************************************************************)
(* The burial store as a Refal program sees it: one list of named values,  *)
(* the youngest first, that only a call of Br, Rp, Dg or Dgall changes,    *)
(* whatever number of processes Try has opened.                            *)
(***************************************************************************)
EXTENDS Sequences, Naturals

CONSTANTS Name, Value

VARIABLES store,    \* the items
          call      \* the call that is being executed, and its argument

First(n) == CHOOSE i \in DOMAIN store :
                store[i].name = n /\ \A j \in 1 .. i - 1 : store[j].name # n
Buried(n) == \E i \in DOMAIN store : store[i].name = n

Br(n, v) == store' = <<[name |-> n, value |-> v]>> \o store
Dg(n) == IF Buried(n)
         THEN store' = SubSeq(store, 1, First(n) - 1)
                       \o SubSeq(store, First(n) + 1, Len(store))
         ELSE UNCHANGED store
Rp(n, v) == IF Buried(n) THEN store' = [store EXCEPT ![First(n)].value = v] ELSE Br(n, v)
Dgall == store' = <<>>

Init == store = <<>>

Return == \/ call.kind = "Br" /\ Br(call.name, call.value)
          \/ call.kind = "Rp" /\ Rp(call.name, call.value)
          \/ call.kind = "Dg" /\ Dg(call.name)
          \/ call.kind = "Dgall" /\ Dgall

Next == Return \/ UNCHANGED store

Spec == Init /\ [][Next]_<<store, call>>
=============================================================================
