----------------------------- MODULE CreditLink -----------------------------
(***************************************************************************)
(* The credit protocol between the connectors of neighbouring nodes:       *)
(* send(), _recvLoop() and _maybeEmitCredit() of connector/                *)
(* base-async-connector.ts over the credits of channel/flow-controller.ts, *)
(* and the forwarding of a router (sentinel/sentinel.ts), whose handler    *)
(* runs inside the receive loop of one connector and sends on another.     *)
(*                                                                         *)
(* Each end keeps a balance per flow that serves both as the window it may *)
(* send into and as the window it grants: a send and a received envelope   *)
(* both debit it.  Callers blocked in acquire() are served as CreditPool   *)
(* promises, so they need no state of their own.  A wire is the send queue *)
(* of an end and the transport behind it: reliable and in order.           *)
(***************************************************************************)
EXTENDS CreditWindow, Sequences

CONSTANTS
  Ends,          (* connectors                                             *)
  Peer,          (* Peer[e]: the connector at the other side of the wire   *)
  Route,         (* Route[e]: where the handler of e may send an envelope  *)
  Sources,       (* Sources[e]: flows on which the node of e originates    *)
  Here,          (* the route of what is delivered at the node itself      *)
  Oversized,     (* flows whose envelopes may exceed FAME_MAX_MESSAGE_SIZE *)
  MaxSends       (* bound on the sends of an end on a flow                 *)

ASSUME EndAssumption ==
  /\ Peer \in [Ends -> Ends] /\ \A e \in Ends : Peer[Peer[e]] = e
  /\ Here \notin Ends
  /\ Route \in [Ends -> (SUBSET (Ends \cup {Here})) \ {{}}]
  /\ Sources \in [Ends -> SUBSET Flows]
ASSUME ChoiceAssumption == Oversized \subseteq Flows /\ MaxSends \in Nat

VARIABLES
  balances,  (* balances[e][f]: credits of flow f                          *)
  wire,      (* wire[e]: what e has sent and its peer has not received yet *)
  recv,      (* recv[e]: where the receive loop of e is                    *)
  sends      (* sends[e][f]: history, calls of send() by local senders     *)

linkVars == <<balances, wire, recv, sends>>

Kinds    == {"data", "credit"}
Messages == [kind : Kinds, flow : Flows]
Data(f)   == [kind |-> "data", flow |-> f]
Credit(f) == [kind |-> "credit", flow |-> f]

(* The receive loop waits for the transport, awaits the handler with an    *)
(* envelope of a flow, or is back from it.                                 *)
Receiving == [step : {"receiving"}]
Busy      == [step : {"handling"}, flow : Flows, to : Ends \cup {Here}]
               \cup [step : {"settling"}, flow : Flows]

LinkTypeOK ==
  /\ balances \in [Ends -> [Flows -> 0 .. InitialWindow]]
  /\ wire \in [Ends -> Seq(Messages)]
  /\ recv \in [Ends -> Receiving \cup Busy]
  /\ sends \in [Ends -> [Flows -> 0 .. MaxSends]]

LinkInit ==
  /\ balances = [e \in Ends |-> [f \in Flows |-> InitialWindow]]
  /\ wire = [e \in Ends |-> <<>>]
  /\ recv = [e \in Ends |-> [step |-> "receiving"]]
  /\ sends = [e \in Ends |-> [f \in Flows |-> 0]]
-----------------------------------------------------------------------------
At(e, step) == recv[e].step = step
AtFlow(e, step, f) == At(e, step) /\ recv[e].flow = f

(* What acquire() takes before send() goes on.                             *)
Acquired(e, f) ==
  /\ balances[e][f] > 0
  /\ balances' = [balances EXCEPT ![e][f] = @ - 1]

Enqueued(e, m) == wire' = [wire EXCEPT ![e] = Append(@, m)]

(* A local sender sends on a flow of its own.                              *)
Send(e, f) ==
  /\ f \in Sources[e] /\ sends[e][f] < MaxSends
  /\ sends' = [sends EXCEPT ![e][f] = @ + 1]
  /\ Acquired(e, f)
  /\ Enqueued(e, Data(f))
  /\ UNCHANGED recv

(* FameMessageTooLarge is thrown after acquire(), nothing gives the credit *)
(* back.                                                                   *)
SendTooLarge(e, f) ==
  /\ f \in Sources[e] \cap Oversized /\ sends[e][f] < MaxSends
  /\ sends' = [sends EXCEPT ![e][f] = @ + 1]
  /\ Acquired(e, f)
  /\ UNCHANGED <<wire, recv>>

(* addCredits(): a grant of a whole window, clamped.                       *)
Raised(balance) == LeastOf(InitialWindow, balance + InitialWindow)

(* _recvLoop(): the next message is a grant, or goes to the handler.       *)
Receive(e) ==
  /\ At(e, "receiving") /\ wire[Peer[e]] # <<>>
  /\ wire' = [wire EXCEPT ![Peer[e]] = Tail(@)]
  /\ LET m == Head(wire[Peer[e]]) IN
       IF m.kind = "credit"
       THEN /\ balances' = [balances EXCEPT ![e][m.flow] = Raised(@)]
            /\ UNCHANGED recv
       ELSE /\ \E to \in Route[e] :
                 recv' = [recv EXCEPT ![e] =
                   [step |-> "handling", flow |-> m.flow, to |-> to]]
            /\ UNCHANGED balances
  /\ UNCHANGED sends

Settling(e, f) == recv' = [recv EXCEPT ![e] = [step |-> "settling", flow |-> f]]

(* The handler delivers locally and returns.                               *)
Deliver(e) ==
  /\ At(e, "handling") /\ recv[e].to = Here
  /\ Settling(e, recv[e].flow)
  /\ UNCHANGED <<balances, wire, sends>>

(* The handler forwards: it awaits send() on the other connector.          *)
Forward(e) ==
  /\ At(e, "handling") /\ recv[e].to # Here
  /\ Acquired(recv[e].to, recv[e].flow)
  /\ Enqueued(recv[e].to, Data(recv[e].flow))
  /\ Settling(e, recv[e].flow)
  /\ UNCHANGED sends

(* A plausible slip: needsRefill() compares with "<".                      *)
NeedsRefillBelow(balance) == balance < LowWatermark

NeedsRefill(balance) == balance <= LowWatermark

(* consume(): one credit, not below zero.                                  *)
Charged(e, f) == GreatestOf(balances[e][f] - 1, 0)

(* The finally block: consume(), then _maybeEmitCredit().                  *)
Settle(e) ==
  /\ At(e, "settling")
  /\ LET f == recv[e].flow
         balance == Charged(e, f)
     IN  IF NeedsRefill(balance)
         THEN /\ balances' = [balances EXCEPT ![e][f] = Raised(balance)]
              /\ Enqueued(e, Credit(f))
         ELSE /\ balances' = [balances EXCEPT ![e][f] = balance]
              /\ UNCHANGED wire
  /\ recv' = [recv EXCEPT ![e] = [step |-> "receiving"]]
  /\ UNCHANGED sends

Quiet == \A e \in Ends : wire[e] = <<>> /\ At(e, "receiving")

(* Everything has been handled, and every local sender is through or has   *)
(* used up its window with envelopes that were too large.                  *)
Done ==
  /\ Quiet
  /\ \A e \in Ends : \A f \in Sources[e] :
       sends[e][f] = MaxSends \/ (f \in Oversized /\ balances[e][f] = 0)
  /\ UNCHANGED linkVars

Handle(e) == Receive(e) \/ Deliver(e) \/ Forward(e) \/ Settle(e)

LinkNext ==
  \/ \E e \in Ends : Handle(e)
  \/ \E e \in Ends, f \in Flows : Send(e, f) \/ SendTooLarge(e, f)
  \/ Done

LinkSpec == LinkInit /\ [][LinkNext]_linkVars

(* The event loop runs every receive loop.                                 *)
LinkFairSpec == LinkSpec /\ \A e \in Ends : WF_linkVars(Handle(e))
-----------------------------------------------------------------------------
(* The two balances of a wire never drift apart: an idle link on which a   *)
(* local sender is blocked would stay blocked, because only an envelope    *)
(* makes the peer grant credits.  Sends that fail do use up a window.      *)
NeverStarved ==
  Quiet => \A e \in Ends : \A f \in Sources[e] \ Oversized :
             balances[e][f] > 0

(* A flow crosses a wire one way only: carries[e] are the flows on which   *)
(* an end may send data.  So it is while flow identifiers are those that   *)
(* connectors generate; an application that names a flow itself and sends  *)
(* on it in both directions does without what NeverStarved says.           *)
OneWay(carries) ==
  /\ carries \in [Ends -> SUBSET Flows]
  /\ \A e \in Ends :
       /\ Sources[e] \subseteq carries[e]
       /\ carries[e] \cap carries[Peer[e]] = {}
       /\ \A to \in Route[e] \ {Here} : carries[Peer[e]] \subseteq carries[to]

(* A sender blocked on a flow is served.                                   *)
Replenishes ==
  \A e \in Ends : \A f \in Sources[e] \ Oversized :
    (balances[e][f] = 0) ~> (balances[e][f] > 0)
=============================================================================
