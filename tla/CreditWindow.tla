---------------------------- MODULE CreditWindow ----------------------------
(* What both sides of flow control share: the flows, the window of a flow, *)
(* and the balance at which the receiver asks for, or grants, more.        *)
EXTENDS Integers

CONSTANTS
  Flows,           (* flow identifiers                                     *)
  InitialWindow    (* constructor argument of FlowController               *)

ASSUME WindowAssumption == InitialWindow \in Nat \ {0}

LowWatermark == InitialWindow \div 4

LeastOf(a, b)    == IF a < b THEN a ELSE b
GreatestOf(a, b) == IF a > b THEN a ELSE b
=============================================================================
