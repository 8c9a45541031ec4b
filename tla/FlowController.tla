--------------------------- MODULE FlowController ---------------------------
(***************************************************************************)
(* Credit windows of one connector endpoint (channel/flow-controller.ts).  *)
(*                                                                         *)
(* JavaScript runs one segment of a coroutine at a time, so an action is a *)
(* segment between two awaits.  acquire() awaits a condition variable while*)
(* the balance is zero; addCredits() and resetFlow() wake the waiters      *)
(* through a notifier that runs one event-loop turn later, at most one per *)
(* flow; a woken caller runs again after the notifier, and anything may run*)
(* before it.                                                              *)
(*                                                                         *)
(* ensureFlow() creates a flow with a full window on first use: here every *)
(* flow exists from the start with its initial balance.                    *)
(***************************************************************************)
EXTENDS CreditWindow, FiniteSets

CONSTANTS
  Callers,         (* coroutines that call acquire()                       *)
  Deltas,          (* arguments of addCredits(): any integer               *)
  MaxSupply,       (* bound on the credits ever supplied to a flow         *)
  MaxWindowId      (* bound on the window ids of a flow                    *)

ASSUME DeltaAssumption  == Deltas \subseteq Int
ASSUME BoundAssumption  == MaxSupply \in Nat /\ MaxWindowId \in Nat

VARIABLES
  credits,         (* credits[f]                                           *)
  waiters,         (* conditions[f].waiters : callers inside wait()        *)
  woken,           (* callers whose wait() has resolved, not yet running   *)
  notifiers,       (* flows with a live entry in activeNotifiers           *)
  windowIds,       (* windowIds[f], NoWindow when the map has no entry     *)
  resetRequested,  (* flows that owe the peer a RESET                      *)
  supplied,        (* history: credits handed to the flow so far           *)
  taken,           (* history: credits handed out by acquire()             *)
  stream           (* history: the last [id, flags] nextWindow() returned  *)

creditVars == <<credits, waiters, woken, notifiers, supplied, taken>>
windowVars == <<windowIds, resetRequested, stream>>
vars       == <<credits, waiters, woken, notifiers, supplied, taken,
                windowIds, resetRequested, stream>>

NoWindow == -1
NoEnvelope == [id |-> NoWindow, flags |-> {}]
Flags == SUBSET {"SYN", "RESET"}

(* The new balance after adding an integer: clamped into the window.       *)
Clamped(n) == GreatestOf(0, LeastOf(InitialWindow, n))

Blocked(f) == waiters[f] \cup woken[f]
Idle(c)    == \A f \in Flows : c \notin Blocked(f)

TypeOK ==
  /\ credits        \in [Flows -> 0 .. InitialWindow]
  /\ waiters        \in [Flows -> SUBSET Callers]
  /\ woken          \in [Flows -> SUBSET Callers]
  /\ notifiers      \in SUBSET Flows
  /\ windowIds      \in [Flows -> Nat \cup {NoWindow}]
  /\ resetRequested \in SUBSET Flows
  /\ supplied       \in [Flows -> Nat]
  /\ taken          \in [Flows -> Nat]
  /\ stream         \in [Flows -> [id : Nat \cup {NoWindow}, flags : Flags]]

Init ==
  /\ credits        = [f \in Flows |-> InitialWindow]
  /\ waiters        = [f \in Flows |-> {}]
  /\ woken          = [f \in Flows |-> {}]
  /\ notifiers      = {}
  /\ windowIds      = [f \in Flows |-> NoWindow]
  /\ resetRequested = {}
  /\ supplied       = [f \in Flows |-> InitialWindow]
  /\ taken          = [f \in Flows |-> 0]
  /\ stream         = [f \in Flows |-> NoEnvelope]
-----------------------------------------------------------------------------
(* A plausible slip: the wake-up is skipped while somebody woken earlier   *)
(* has not run yet.                                                        *)
WakeWaitersLazily(f) ==
  IF woken[f] = {} THEN notifiers \cup {f} ELSE notifiers

(* wakeWaiters: schedules the notifier unless one is already active.       *)
WakeWaiters(f) == notifiers \cup {f}

(* A plausible slip: the zero crossing is tested on the wrong side.        *)
AddCreditsFromBelow(f, delta) ==
  LET balance == Clamped(credits[f] + delta)
      gain    == GreatestOf(0, delta)
  IN  /\ supplied[f] + gain <= MaxSupply
      /\ credits'   = [credits EXCEPT ![f] = balance]
      /\ notifiers' = IF credits[f] < 0 /\ balance > 0
                      THEN WakeWaiters(f) ELSE notifiers
      /\ supplied'  = [supplied EXCEPT ![f] = @ + gain]
      /\ UNCHANGED <<waiters, woken, taken>> /\ UNCHANGED windowVars

(* addCredits(): clamps, and wakes only when the balance leaves zero.      *)
AddCredits(f, delta) ==
  LET balance == Clamped(credits[f] + delta)
      gain    == GreatestOf(0, delta)
  IN  /\ supplied[f] + gain <= MaxSupply
      /\ credits'   = [credits EXCEPT ![f] = balance]
      /\ notifiers' = IF credits[f] <= 0 /\ balance > 0
                      THEN WakeWaiters(f) ELSE notifiers
      /\ supplied'  = [supplied EXCEPT ![f] = @ + gain]
      /\ UNCHANGED <<waiters, woken, taken>> /\ UNCHANGED windowVars

(* The deferred notifier: notifyAll(), then its entry is deleted.          *)
Notify(f) ==
  /\ f \in notifiers
  /\ waiters'   = [waiters EXCEPT ![f] = {}]
  /\ woken'     = [woken EXCEPT ![f] = @ \cup waiters[f]]
  /\ notifiers' = notifiers \ {f}
  /\ UNCHANGED <<credits, supplied, taken>> /\ UNCHANGED windowVars

TakeCredit(f) ==
  /\ credits' = [credits EXCEPT ![f] = @ - 1]
  /\ taken'   = [taken EXCEPT ![f] = @ + 1]

(* acquire() up to its first await.                                        *)
Acquire(c, f) ==
  /\ Idle(c)
  /\ \/ /\ credits[f] > 0
        /\ TakeCredit(f)
        /\ UNCHANGED waiters
     \/ /\ credits[f] <= 0
        /\ waiters' = [waiters EXCEPT ![f] = @ \cup {c}]
        /\ UNCHANGED <<credits, taken>>
  /\ UNCHANGED <<woken, notifiers, supplied>> /\ UNCHANGED windowVars

(* A plausible slip: "if" instead of "while" around the wait.              *)
ResumeWithoutRecheck(c, f) ==
  /\ c \in woken[f]
  /\ woken' = [woken EXCEPT ![f] = @ \ {c}]
  /\ credits' = [credits EXCEPT ![f] = GreatestOf(0, @ - 1)]
  /\ taken'   = [taken EXCEPT ![f] = @ + 1]
  /\ UNCHANGED <<waiters, notifiers, supplied>> /\ UNCHANGED windowVars

(* acquire() after wait() has resolved: the loop tests the balance again.  *)
Resume(c, f) ==
  /\ c \in woken[f]
  /\ woken' = [woken EXCEPT ![f] = @ \ {c}]
  /\ \/ /\ credits[f] > 0
        /\ TakeCredit(f)
        /\ UNCHANGED waiters
     \/ /\ credits[f] <= 0
        /\ waiters' = [waiters EXCEPT ![f] = @ \cup {c}]
        /\ UNCHANGED <<credits, taken>>
  /\ UNCHANGED <<notifiers, supplied>> /\ UNCHANGED windowVars

(* consume(): a receiver's non-blocking debit, clamped at zero.            *)
Consume(f, n) ==
  /\ credits' = [credits EXCEPT ![f] = GreatestOf(@ - n, 0)]
  /\ UNCHANGED <<waiters, woken, notifiers, supplied, taken>>
  /\ UNCHANGED windowVars

ResetFlow(f) ==
  /\ supplied[f] + InitialWindow <= MaxSupply
  /\ resetRequested' = resetRequested \cup {f}
  /\ windowIds' = [windowIds EXCEPT ![f] = NoWindow]
  /\ credits'   = [credits EXCEPT ![f] = InitialWindow]
  /\ notifiers' = WakeWaiters(f)
  /\ supplied'  = [supplied EXCEPT ![f] = @ + InitialWindow]
  /\ UNCHANGED <<waiters, woken, taken, stream>>

Emit(f, id, flags) ==
  /\ windowIds' = [windowIds EXCEPT ![f] = id]
  /\ stream'    = [stream EXCEPT ![f] = [id |-> id, flags |-> flags]]

(* A plausible slip: a flow without a window id is taken for a new one     *)
(* before the pending reset is looked at.                                  *)
NextWindowNewFirst(f) ==
  /\ \/ /\ windowIds[f] = NoWindow
        /\ Emit(f, 0, {"SYN"})
        /\ UNCHANGED resetRequested
     \/ /\ windowIds[f] # NoWindow
        /\ f \in resetRequested
        /\ resetRequested' = resetRequested \ {f}
        /\ Emit(f, 0, {"RESET", "SYN"})
     \/ /\ windowIds[f] # NoWindow
        /\ f \notin resetRequested
        /\ windowIds[f] < MaxWindowId
        /\ Emit(f, windowIds[f] + 1, {})
        /\ UNCHANGED resetRequested
  /\ UNCHANGED creditVars

(* nextWindow(): the window id and flags of the next outbound envelope.    *)
NextWindow(f) ==
  /\ \/ /\ f \in resetRequested
        /\ resetRequested' = resetRequested \ {f}
        /\ Emit(f, 0, {"RESET", "SYN"})
     \/ /\ f \notin resetRequested
        /\ windowIds[f] = NoWindow
        /\ Emit(f, 0, {"SYN"})
        /\ UNCHANGED resetRequested
     \/ /\ f \notin resetRequested
        /\ windowIds[f] # NoWindow
        /\ windowIds[f] < MaxWindowId
        /\ Emit(f, windowIds[f] + 1, {})
        /\ UNCHANGED resetRequested
  /\ UNCHANGED creditVars

Next ==
  \E f \in Flows :
    \/ \E d \in Deltas : AddCredits(f, d)
    \/ Notify(f)
    \/ \E c \in Callers : Acquire(c, f) \/ Resume(c, f)
    \/ \E n \in 1 .. InitialWindow : Consume(f, n)
    \/ ResetFlow(f)
    \/ NextWindow(f)

Spec == Init /\ [][Next]_vars

(* The event loop runs every deferred notifier and every resolved promise. *)
Fairness ==
  \A f \in Flows :
    /\ WF_vars(Notify(f))
    /\ \A c \in Callers : WF_vars(Resume(c, f))

FairSpec == Spec /\ Fairness
-----------------------------------------------------------------------------
(* No wake-up is lost: a caller that waits although its flow has credits   *)
(* has a notifier on the way (the debounce in wakeWaiters and the          *)
(* "crossed zero" test in addCredits never leave one behind).              *)
NoLostWakeup ==
  \A f \in Flows : waiters[f] # {} /\ credits[f] > 0 => f \in notifiers

(* acquire() never hands out a credit nobody supplied, however many callers*)
(* one notification wakes: what was taken and what is left were supplied.  *)
NoOverdraw ==
  \A f \in Flows : taken[f] + credits[f] <= supplied[f]

(* A caller is suspended in at most one acquire(), in at most one way: a   *)
(* part of the inductive invariant that the refinement needs.              *)
OneSuspension ==
  \A f, g \in Flows :
    /\ waiters[f] \cap woken[f] = {}
    /\ f # g => Blocked(f) \cap Blocked(g) = {}

(* What a receiver may rely on in the stream of window ids: they are       *)
(* consecutive, and a flow that has spoken restarts only with RESET|SYN,   *)
(* even when resetFlow() and nextWindow() interleave.                      *)
WellFormedStep ==
  \A f \in Flows :
    stream'[f] # stream[f] =>
      \/ /\ stream[f] # NoEnvelope
         /\ stream'[f] = [id |-> stream[f].id + 1, flags |-> {}]
      \/ stream'[f] = [id |-> 0, flags |-> {"RESET", "SYN"}]
      \/ /\ stream[f] = NoEnvelope
         /\ stream'[f] = [id |-> 0, flags |-> {"SYN"}]

StreamWellFormed == [][WellFormedStep]_vars

(* Why it holds: the map knows the id of the last envelope, and forgets it *)
(* only while a reset is owed.                                             *)
WindowsTracked ==
  \A f \in Flows :
    /\ windowIds[f] # NoWindow =>
         stream[f] # NoEnvelope /\ windowIds[f] = stream[f].id
    /\ windowIds[f] = NoWindow /\ f \notin resetRequested =>
         stream[f] = NoEnvelope

(* The inductive strengthening of the invariants above.                    *)
IInv == TypeOK /\ NoLostWakeup /\ NoOverdraw /\ OneSuspension

(* The promise made to callers: see CreditPool.                            *)
Pool == INSTANCE CreditPool
          WITH Window  <- InitialWindow,
               pool    <- credits,
               blocked <- [f \in Flows |-> Blocked(f)]

ImplementsPool == Pool!Spec
ServesWaiters  == Pool!FairSpec
=============================================================================
