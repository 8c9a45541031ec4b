----------------------------- MODULE CreditPool -----------------------------
(***************************************************************************)
(* What a flow controller promises its callers, with none of the machinery *)
(* that keeps the promise: every flow has a pool of at most Window         *)
(* credits; a caller takes one credit or is blocked on an empty pool; and  *)
(* while a pool has credits somebody blocked on it is served.              *)
(*                                                                         *)
(* FlowController implements this specification with a per-flow condition  *)
(* variable and a debounced notifier.                                      *)
(***************************************************************************)
EXTENDS Naturals

CONSTANTS
  Flows,      (* identifiers of the flows of one endpoint *)
  Callers,    (* coroutines that ask for credits          *)
  Window      (* size of a pool                           *)

VARIABLES
  pool,       (* pool[f]    : credits left on flow f          *)
  blocked     (* blocked[f] : callers that await a credit on f *)

vars == <<pool, blocked>>

Init ==
  /\ pool    = [f \in Flows |-> Window]
  /\ blocked = [f \in Flows |-> {}]

(* A caller takes a credit, at once or after having been blocked.          *)
Take(f, c) ==
  /\ pool[f] > 0
  /\ \A g \in Flows \ {f} : c \notin blocked[g]
  /\ pool'    = [pool EXCEPT ![f] = @ - 1]
  /\ blocked' = [blocked EXCEPT ![f] = @ \ {c}]

(* A caller finds the pool empty.                                          *)
Block(f, c) ==
  /\ pool[f] = 0
  /\ \A g \in Flows : c \notin blocked[g]
  /\ blocked' = [blocked EXCEPT ![f] = @ \cup {c}]
  /\ UNCHANGED pool

(* The balance is changed by somebody who is not blocked.                  *)
Adjust(f) ==
  /\ \E n \in 0 .. Window : pool' = [pool EXCEPT ![f] = n]
  /\ UNCHANGED blocked

Serve(f) == \E c \in blocked[f] : Take(f, c)

Next ==
  \E f \in Flows :
    \/ \E c \in Callers : Take(f, c) \/ Block(f, c)
    \/ Adjust(f)

Spec == Init /\ [][Next]_vars

FairSpec == Spec /\ \A f \in Flows : WF_vars(Serve(f))
=============================================================================
