-------------------------- MODULE MCFlowController --------------------------
(* Three callers compete for a window of two credits; MaxSupply leaves     *)
(* room for grants and a reset.  -1, 1 and 3 debit, grant and overflow the *)
(* window.                                                                 *)
EXTENDS FlowController

CONSTANTS f1, c1, c2, c3

Adjustments == {-1, 1, 3}
=============================================================================
