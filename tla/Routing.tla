------------------------------ MODULE Routing -------------------------------
(***************************************************************************)
(* One data envelope makes its way through nodes, sentinel and root, by    *)
(* its address or by a capability, while bindings, routes and connections  *)
(* change: FameNode.deliver(), Sentinel.deliver() and its two policies.    *)
(* Who of several candidates is chosen is left to the load balancer.       *)
(***************************************************************************)
EXTENDS AddressBinding

CONSTANTS
  Mid, Root     \* the sentinel and its parent

ASSUME NodesAssumption ==
  /\ Mid \notin Child /\ Root \notin Child /\ Mid # Root
  /\ "none" \notin {Mid, Root}

VARIABLE envelope      \* where it is, and where that node has it from

vars == <<bindingVars, envelope>>

Nodes == Child \cup {Mid, Root}
HopLimit == 4          \* hops are not counted further (bound of the model)

TypeOK ==
  /\ BindingTypeOK
  /\ envelope \in [at : {"none", Mid, Root}, from : Nodes,
                   origin : {"UPSTREAM", "DOWNSTREAM"},
                   by : {"address", "capability"}, hops : 0 .. HopLimit]

NoEnvelope ==
  [at |-> "none", from |-> Root, origin |-> "UPSTREAM", by |-> "address",
   hops |-> 0]

Init == BindingInit /\ envelope = NoEnvelope
-----------------------------------------------------------------------------
Settle == envelope' = NoEnvelope

HopTo(n, origin) ==
  envelope' = [envelope EXCEPT !.at = n, !.from = envelope.at,
                 !.origin = origin,
                 !.hops = IF @ < HopLimit THEN @ + 1 ELSE @]

(* A plausible slip: the check of the origin is left to the policies.      *)
ForwardUpstreamAlways(parent) == HopTo(parent, "DOWNSTREAM")

(* forwardUpstream(): what came from upstream is not sent there; nobody is *)
(* told.                                                                   *)
ForwardUpstream(parent) ==
  \/ envelope.origin = "UPSTREAM" /\ Settle
  \/ envelope.origin # "UPSTREAM" /\ HopTo(parent, "DOWNSTREAM")

(* forwardToRoute(), and FameNode.deliver() at a child: what comes from    *)
(* upstream ends there, delivered or dropped.  A connector that is closed  *)
(* loses its route, but not its addresses.                                 *)
ForwardChild(m) ==
  \/ m = Mid /\ HopTo(Mid, "UPSTREAM") /\ UNCHANGED routed
  \/ m \in routed \cap linked /\ Settle /\ UNCHANGED routed
  \/ m \in Child \ routed /\ Settle /\ UNCHANGED routed
  \/ m \in routed \ linked /\ Settle /\ routed' = routed \ {m}

(* What a sentinel knows of who has the address, and who offers.           *)
Bearers(n) ==
  IF n = Mid THEN members ELSE IF listed THEN {Mid} ELSE {}
Offerers(n) ==
  IF n = Mid THEN providers ELSE IF known # {} THEN {Mid} ELSE {}

OriginMatches(m) == envelope.origin = "DOWNSTREAM" /\ envelope.from = m

(* HybridPathRoutingPolicy.decide() and the action it returns              *)
RouteByAddress(n) ==
  \/ \E m \in Bearers(n) :
       \/ OriginMatches(m) /\ Settle /\ UNCHANGED routed
       \/ ~OriginMatches(m) /\ ForwardChild(m)
  \/ /\ Bearers(n) = {} /\ UNCHANGED routed
     /\ \/ /\ n = Mid /\ envelope.origin # "UPSTREAM"
           /\ ForwardUpstream(Root)
        \/ /\ n = Root \/ envelope.origin = "UPSTREAM"
           /\ Settle

(* CapabilityAwareRoutingPolicy.decide() does not ask where it comes from. *)
RouteByCapability(n) ==
  \/ \E m \in Offerers(n) : ForwardChild(m)
  \/ Offerers(n) = {} /\ n = Mid /\ ForwardUpstream(Root) /\ UNCHANGED routed
  \/ Offerers(n) = {} /\ n = Root /\ Settle /\ UNCHANGED routed

AtSentinel(n) ==
  /\ envelope.at = n
  /\ \/ envelope.by = "address" /\ RouteByAddress(n)
     \/ envelope.by = "capability" /\ RouteByCapability(n)
  /\ UNCHANGED <<childVars, wireVars, linked, midVars, rootVars, pooled>>
  /\ Calm

(* FameNode.deliver() at a child that sends: to somebody here, and         *)
(* otherwise to its parent.  Others below the root send as well, from as   *)
(* far.                                                                    *)
HasLocal(c, by) ==
  \/ by = "address" /\ c \in bound
  \/ by = "capability" /\ c \in offered

SendEnvelope ==
  /\ envelope.at = "none" /\ UNCHANGED bindingVars
  /\ \E by \in {"address", "capability"} :
       \/ \E c \in Child :
            /\ ~HasLocal(c, by)
            /\ envelope' = [at |-> Mid, from |-> c, origin |-> "DOWNSTREAM",
                            by |-> by, hops |-> 1]
       \/ envelope' = [at |-> Root, from |-> Root, origin |-> "DOWNSTREAM",
                       by |-> by, hops |-> 2]

Next ==
  \/ BindingNext /\ UNCHANGED envelope
  \/ SendEnvelope
  \/ \E n \in {Mid, Root} : AtSentinel(n)

Spec == Init /\ [][Next]_vars
-----------------------------------------------------------------------------
(* bind() has answered and unbind() was not called: the sentinel has the   *)
(* node among the members of the pool, whatever timed out, was rolled back *)
(* or lost in between, and though routes come and go.                      *)
MemberStaysRouted == pooled => granted \subseteq members

(* A sentinel and its parent that disagree about where an address or a     *)
(* capability is do not send an envelope to and fro: from a child to the   *)
(* root and back to the sentinel at most.                                  *)
FewHops == envelope.hops <= 3

(* Nothing under way, and no call either.                                  *)
AtRest ==
  /\ trunk = <<>>
  /\ \A c \in Child : /\ up[c] = <<>> /\ worker[c].todo = <<>>
                      /\ caller[c] = "idle"

(* The root hears of the first provider and of the last withdrawal only;   *)
(* handlers of different children overtake each other on the way to it.    *)
(* While a member of the pool offers, the root has somewhere to send to.   *)
OffersReachRoot ==
  AtRest /\ faults = 0 /\ pooled /\ providers # {} => known # {}

(* Nodes and sentinel agree once the calls have returned: the sentinel     *)
(* sends an envelope only to who has the address, or offers; in a pool to  *)
(* every one of them.                                                      *)
CalmAgreement == AtRest /\ faults = 0 =>
  /\ members \subseteq bound /\ (pooled => members = bound)
  /\ providers \subseteq offered /\ (pooled => providers = offered)
=============================================================================
