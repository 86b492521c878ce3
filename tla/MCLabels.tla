------------------------------- MODULE MCLabels -------------------------------
(***************************************************************************)
(* Modules of up to five directives on three names and one external name.  *)
(***************************************************************************)
EXTENDS Labels, TLC

CONSTANTS n1, n2, n3

Calls(n, m) == [call |-> n, spec |-> m]
MCBody == {<<Calls(n1, None)>>, <<Calls(n1, n2), Calls(n1, n3)>>}
=============================================================================
