--------------------------- MODULE AddressBinding --------------------------
(***************************************************************************)
(* Nodes below a sentinel bind one address, and may offer a capability     *)
(* with it.  The BindingManager of a node asks its sentinel (here "mid")   *)
(* and waits for the acknowledgement; the handlers of the sentinel keep    *)
(* who has bound the address and who offers the capability, and tell their *)
(* own parent ("root").  A handler is a row of steps with awaits between   *)
(* them; frames of one child are handled one after the other, those of     *)
(* different children interleave.                                          *)
(***************************************************************************)
EXTENDS Naturals, Sequences

CONSTANTS
  Child,        \* the nodes below the sentinel
  PoolKinds,    \* whether the address is a pool, with members, or has an owner
  MaxCalls,     \* bind() and unbind() calls (bound of the model)
  MaxTrunk,     \* frames of the sentinel not yet read (bound of the model)
  MaxFaults     \* lost connections, late answers and new epochs (likewise)

ASSUME BindingAssumption ==
  /\ PoolKinds \subseteq BOOLEAN
  /\ MaxCalls \in Nat /\ MaxTrunk \in Nat /\ MaxFaults \in Nat

VARIABLES
  pooled,     \* the address is a pool
  caller,     \* what the bind() or unbind() of a child waits for
  bound,      \* BindingManager.bindings has the address
  offered,    \* BindingManager.capabilitiesByAddress has the capability
  granted,    \* bind() has returned, and unbind() was not called since
  rebind,     \* what a rebind in the child's receive loop waits for
  up,         \* frames of a child on their way to the sentinel
  acks,       \* children whose request has an acknowledgement under way
  linked,     \* children whose connection is up
  routed,     \* children with a route at the sentinel
  members,    \* who has bound the address, says the sentinel
  providers,  \* who offers the capability, says the sentinel
  worker,     \* the handler of a child's frame, at the sentinel
  trunk,      \* frames of the sentinel on their way to the root
  listed,     \* the root has the sentinel under the address
  known,      \* the providers the root knows, all behind the sentinel
  calls, faults

childVars == <<caller, bound, offered, granted, calls>>
wireVars == <<up, acks>>
linkVars == <<linked, routed>>
midVars == <<members, providers, worker>>
rootVars == <<trunk, listed, known>>
bindingVars == <<childVars, wireVars, linkVars, midVars, rootVars,
                 rebind, faults, pooled>>

Steps == {"idle", "binding", "bindingOffer", "advertising", "rollback",
          "withdrawing", "unbinding"}
Types == {"Bind", "Unbind", "Advertise", "Withdraw"}
Frames == [type : Types, waiting : BOOLEAN]
Idle == [frame |-> [type |-> "Bind", waiting |-> FALSE], todo |-> <<>>]

BindingTypeOK ==
  /\ pooled \in PoolKinds
  /\ caller \in [Child -> Steps]
  /\ bound \subseteq Child /\ offered \subseteq Child /\ granted \subseteq Child
  /\ rebind \in [Child -> {"no", "address", "capability"}]
  /\ up \in [Child -> Seq(Frames)] /\ acks \subseteq Child
  /\ linked \subseteq Child /\ routed \subseteq Child
  /\ members \subseteq Child /\ providers \subseteq Child
  /\ worker \in [Child -> [frame : Frames, todo : Seq({"join", "ack", "up"})]]
  /\ trunk \in Seq([type : Types, child : Child])
  /\ listed \in BOOLEAN /\ known \subseteq Child
  /\ calls \in 0 .. MaxCalls /\ faults \in 0 .. MaxFaults

BindingInit ==
  /\ pooled \in PoolKinds
  /\ caller = [c \in Child |-> "idle"]
  /\ bound = {} /\ offered = {} /\ granted = {}
  /\ rebind = [c \in Child |-> "no"]
  /\ up = [c \in Child |-> <<>>] /\ acks = {}
  /\ linked = Child /\ routed = Child
  /\ members = {} /\ providers = {} /\ worker = [c \in Child |-> Idle]
  /\ trunk = <<>> /\ listed = FALSE /\ known = {}
  /\ calls = 0 /\ faults = 0
-----------------------------------------------------------------------------
(***************************************************************************)
(* The child.  A request carries an id that its acknowledgement repeats:   *)
(* nobody waits for those of earlier requests any more.                    *)
(***************************************************************************)
Unawaited(frames) ==
  [i \in DOMAIN frames |-> [frames[i] EXCEPT !.waiting = FALSE]]

Hush(c) ==
  /\ up' = [up EXCEPT ![c] = Unawaited(@)] /\ acks' = acks \ {c}
  /\ worker' = [worker EXCEPT ![c].frame.waiting = FALSE]

Ask(c, type) ==
  /\ up' = [up EXCEPT ![c] =
              Append(Unawaited(@), [type |-> type, waiting |-> TRUE])]
  /\ acks' = acks \ {c}
  /\ worker' = [worker EXCEPT ![c].frame.waiting = FALSE]

Goto(c, step) == caller' = [caller EXCEPT ![c] = step]

AtChild == UNCHANGED <<linkVars, members, providers, rootVars>>
Fault == faults < MaxFaults /\ faults' = faults + 1 /\ UNCHANGED rebind
Calm == UNCHANGED <<rebind, faults>>

(* bind(): the binding is there before the sentinel has been asked.        *)
CallBind(c, offering) ==
  /\ caller[c] = "idle" /\ calls < MaxCalls
  /\ bound' = bound \cup {c} /\ calls' = calls + 1
  /\ Goto(c, IF offering THEN "bindingOffer" ELSE "binding") /\ Ask(c, "Bind")
  /\ UNCHANGED <<offered, granted>> /\ Calm /\ AtChild

CallUnbind(c) ==
  /\ caller[c] = "idle" /\ calls < MaxCalls /\ c \in bound
  /\ granted' = granted \ {c} /\ calls' = calls + 1
  /\ \/ /\ c \in offered /\ Goto(c, "withdrawing") /\ Ask(c, "Withdraw")
     \/ /\ c \notin offered /\ Goto(c, "unbinding") /\ Ask(c, "Unbind")
  /\ UNCHANGED <<bound, offered>> /\ Calm /\ AtChild

(* The receive loop hands over an acknowledgement, unless it is itself     *)
(* waiting for one: in a rebind.                                           *)
Answered(c) == c \in acks /\ rebind[c] = "no" /\ UNCHANGED calls /\ Calm

BindReturns(c) ==
  /\ Answered(c) /\ caller[c] = "binding"
  /\ granted' = granted \cup {c} /\ Goto(c, "idle") /\ Hush(c)
  /\ UNCHANGED <<bound, offered>> /\ AtChild

BindGoesOn(c) ==
  /\ Answered(c) /\ caller[c] = "bindingOffer"
  /\ Goto(c, "advertising") /\ Ask(c, "Advertise")
  /\ UNCHANGED <<bound, offered, granted>> /\ AtChild

OfferReturns(c) ==
  /\ Answered(c) /\ caller[c] = "advertising"
  /\ granted' = granted \cup {c} /\ offered' = offered \cup {c}
  /\ Goto(c, "idle") /\ Hush(c) /\ UNCHANGED bound /\ AtChild

WithdrawGoesOn(c) ==
  /\ Answered(c) /\ caller[c] = "withdrawing"
  /\ offered' = offered \ {c} /\ Goto(c, "unbinding") /\ Ask(c, "Unbind")
  /\ UNCHANGED <<bound, granted>> /\ AtChild

UnbindReturns(c) ==
  /\ Answered(c) /\ caller[c] = "unbinding"
  /\ bound' = bound \ {c} /\ offered' = offered \ {c}
  /\ Goto(c, "idle") /\ Hush(c) /\ UNCHANGED granted /\ AtChild

(* bind() fails: the binding goes, an earlier one with it.                 *)
BindFails(c) ==
  /\ caller[c] \in {"binding", "bindingOffer", "rollback"}
  /\ bound' = bound \ {c} /\ granted' = granted \ {c}
  /\ Goto(c, "idle") /\ Hush(c)
  /\ UNCHANGED <<offered, calls>> /\ AtChild

BindTimesOut(c) == Fault /\ BindFails(c)
RollbackReturns(c) == Answered(c) /\ caller[c] = "rollback" /\ BindFails(c)

(* No acknowledgement in time: the caller gives up, or takes back what it  *)
(* had bound.  A failed unbind() leaves the binding.                       *)
OfferTimesOut(c) ==
  /\ Fault /\ caller[c] = "advertising" /\ granted' = granted \ {c}
  /\ Goto(c, "rollback") /\ Ask(c, "Unbind")
  /\ UNCHANGED <<bound, offered, calls>> /\ AtChild

UnbindTimesOut(c) ==
  /\ Fault /\ caller[c] \in {"withdrawing", "unbinding"}
  /\ Goto(c, "idle") /\ Hush(c)
  /\ UNCHANGED <<bound, offered, granted, calls>> /\ AtChild

(***************************************************************************)
(* A heartbeat ack with a new epoch binds and offers again, inside the     *)
(* receive loop: no acknowledgement can be read until these have timed     *)
(* out, one after the other.                                               *)
(***************************************************************************)
SendUnawaited(c, type) ==
  up' = [up EXCEPT ![c] = Append(@, [type |-> type, waiting |-> FALSE])]

AtRebind ==
  UNCHANGED <<childVars, acks, linkVars, midVars, rootVars>>

Readvertise(c) ==
  \/ /\ c \in offered /\ SendUnawaited(c, "Advertise")
     /\ rebind' = [rebind EXCEPT ![c] = "capability"]
  \/ /\ c \notin offered /\ rebind' = [rebind EXCEPT ![c] = "no"]
     /\ UNCHANGED up

EpochChanges(c) ==
  /\ rebind[c] = "no" /\ faults < MaxFaults /\ faults' = faults + 1
  /\ \/ /\ c \in bound /\ SendUnawaited(c, "Bind")
        /\ rebind' = [rebind EXCEPT ![c] = "address"]
     \/ c \notin bound /\ Readvertise(c)
  /\ AtRebind

RebindTimesOut(c) ==
  /\ \/ rebind[c] = "address" /\ Readvertise(c)
     \/ /\ rebind[c] = "capability" /\ rebind' = [rebind EXCEPT ![c] = "no"]
        /\ UNCHANGED up
  /\ UNCHANGED faults /\ AtRebind
-----------------------------------------------------------------------------
(***************************************************************************)
(* The sentinel.  Sentinel.deliver() does not return after the handlers of *)
(* addresses: the routing policy sends these frames upstream as well, once *)
(* more, or although the handler had kept them.                            *)
(***************************************************************************)
Joined(c) == IF pooled THEN members \cup {c} ELSE {c}
(* A plausible slip: the pool goes with the first of its members.          *)
LeftAll(c) == {}

Left(c) == members \ {c}

(* What is offered is kept by address, that of a member or the owner's.    *)
Offering(set, c) == IF pooled THEN set \cup {c} ELSE {c}

Begin(c, todo) ==
  worker' = [worker EXCEPT ![c] = [frame |-> Head(up[c]), todo |-> todo]]

Next1(c) ==
  LET todo == worker[c].todo IN
  worker' = [worker EXCEPT ![c] = IF Len(todo) = 1 THEN Idle
                                  ELSE [@ EXCEPT !.todo = Tail(todo)]]

(* The handlers of one child's frames come one after the other.  That is   *)
(* so on one connection; a handler that a reattachment leaves behind runs, *)
(* in the code, beside those of the new connection, and here ends before   *)
(* the first of their frames is taken.                                     *)
Takes(c, type) ==
  /\ c \in linked /\ worker[c].todo = <<>> /\ up[c] # <<>>
  /\ Head(up[c]).type = type /\ up' = [up EXCEPT ![c] = Tail(@)]
  /\ UNCHANGED <<childVars, acks, linkVars, rootVars>> /\ Calm

(* acceptAddressBind(): an owner is written after the store has been read. *)
AcceptBind(c) ==
  /\ Takes(c, "Bind") /\ UNCHANGED providers
  /\ \/ /\ c \in routed /\ pooled /\ members' = Joined(c)
        /\ Begin(c, <<"ack", "up", "up">>)
     \/ /\ c \in routed /\ ~pooled /\ UNCHANGED members
        /\ Begin(c, <<"join", "ack", "up", "up">>)
     \/ /\ c \notin routed /\ UNCHANGED <<members, worker>>

AcceptUnbind(c) ==
  /\ Takes(c, "Unbind") /\ members' = Left(c) /\ UNCHANGED providers
  /\ Begin(c, IF c \in members THEN <<"up", "ack", "up">> ELSE <<"ack", "up">>)

(* A plausible slip: whether it is the first is asked when it is in.       *)
AcceptAdvertiseLate(c) ==
  /\ Takes(c, "Advertise") /\ UNCHANGED members
  /\ \/ /\ c \in routed /\ providers' = Offering(providers, c)
        /\ Begin(c, IF providers' = {} THEN <<"ack", "up">> ELSE <<"ack">>)
     \/ /\ c \notin routed /\ UNCHANGED <<providers, worker>>

(* acceptCapabilityAdvertise(): the root hears of the first provider only, *)
(* acceptCapabilityWithdraw(): and of the last.                            *)
AcceptAdvertise(c) ==
  /\ Takes(c, "Advertise") /\ UNCHANGED members
  /\ \/ /\ c \in routed /\ providers' = Offering(providers, c)
        /\ Begin(c, IF providers = {} THEN <<"ack", "up">> ELSE <<"ack">>)
     \/ /\ c \notin routed /\ UNCHANGED <<providers, worker>>

AcceptWithdraw(c) ==
  /\ Takes(c, "Withdraw") /\ UNCHANGED members
  /\ providers' = providers \ {c}
  /\ Begin(c, IF providers = {c} THEN <<"ack", "up">> ELSE <<"ack">>)

GoesOn(c, step) ==
  /\ worker[c].todo # <<>> /\ Head(worker[c].todo) = step
  /\ UNCHANGED <<childVars, up, linkVars, providers>> /\ Calm

WriteOwner(c) ==
  /\ GoesOn(c, "join") /\ members' = Joined(c) /\ Next1(c)
  /\ UNCHANGED <<acks, rootVars>>

(* An acknowledgement for a connection that is lost ends the handler; for  *)
(* a route that is gone it is dropped.                                     *)
SendAck(c) ==
  /\ GoesOn(c, "ack") /\ UNCHANGED <<members, rootVars>>
  /\ \/ /\ c \in routed \cap linked /\ Next1(c)
        /\ acks' = IF worker[c].frame.waiting THEN acks \cup {c} ELSE acks
     \/ /\ c \notin routed /\ Next1(c) /\ UNCHANGED acks
     \/ /\ c \in routed \ linked /\ worker' = [worker EXCEPT ![c] = Idle]
        /\ UNCHANGED acks

SendUp(c) ==
  /\ GoesOn(c, "up") /\ Next1(c) /\ Len(trunk) < MaxTrunk
  /\ trunk' = Append(trunk, [type |-> worker[c].frame.type, child |-> c])
  /\ UNCHANGED <<acks, members, listed, known>>

(* The root: the same handlers, with one child and no parent.              *)
RootAccepts ==
  /\ trunk # <<>> /\ trunk' = Tail(trunk)
  /\ LET f == Head(trunk) IN
       /\ listed' = CASE f.type = "Bind" -> TRUE
                      [] f.type = "Unbind" -> FALSE
                      [] OTHER -> listed
       /\ known' = CASE f.type = "Advertise" -> Offering(known, f.child)
                     [] f.type = "Withdraw" ->
                          IF pooled THEN known \ {f.child} ELSE {}
                     [] OTHER -> known
  /\ UNCHANGED <<childVars, wireVars, linkVars, midVars>> /\ Calm
-----------------------------------------------------------------------------
(* A connection is lost, with the first of the frames under way.           *)
ConnectionLost(c) ==
  /\ Fault /\ c \in linked /\ linked' = linked \ {c}
  /\ \E n \in 0 .. Len(up[c]) :
       up' = [up EXCEPT ![c] = SubSeq(@, n + 1, Len(@))]
  /\ acks' = acks \ {c}
  /\ UNCHANGED <<childVars, routed, midVars, rootVars>>

(* A plausible slip: an expired route takes its place in the pool along.   *)
PurgedEverywhere(c) == members \ {c}

(* purgeRouteReferences(): the pools it looks through are not those that   *)
(* the handler of binds keeps; capabilities stay as well.                  *)
Purged(c) == IF pooled THEN members ELSE members \ {c}

RouteExpires(c) ==
  /\ c \in routed \ linked
  /\ routed' = routed \ {c} /\ members' = Purged(c)
  /\ UNCHANGED <<childVars, wireVars, linked, providers, worker,
                 rootVars>> /\ Calm

Reattach(c) ==
  /\ c \notin linked /\ linked' = linked \cup {c}
  /\ routed' = routed \cup {c}
  /\ UNCHANGED <<childVars, wireVars, midVars, rootVars>> /\ Calm

ChildNext ==
  \E c \in Child :
    \/ \E offering \in BOOLEAN : CallBind(c, offering)
    \/ CallUnbind(c) \/ BindReturns(c) \/ BindGoesOn(c) \/ OfferReturns(c)
    \/ WithdrawGoesOn(c) \/ UnbindReturns(c) \/ RollbackReturns(c)
    \/ BindTimesOut(c) \/ OfferTimesOut(c) \/ UnbindTimesOut(c)
    \/ EpochChanges(c) \/ RebindTimesOut(c)

MidNext ==
  \E c \in Child :
    \/ AcceptBind(c) \/ AcceptUnbind(c)
    \/ AcceptAdvertise(c) \/ AcceptWithdraw(c)
    \/ WriteOwner(c) \/ SendAck(c) \/ SendUp(c)

LinkNext ==
  \E c \in Child : ConnectionLost(c) \/ RouteExpires(c) \/ Reattach(c)

BindingNext ==
  (ChildNext \/ MidNext \/ RootAccepts \/ LinkNext) /\ UNCHANGED pooled
=============================================================================
