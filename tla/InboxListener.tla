---------------------------- MODULE InboxListener ----------------------------
(***************************************************************************)
(* The receiving side of at-least-once delivery: the inbox of              *)
(* delivery/default-delivery-tracker.ts, the listener of a service with    *)
(* its handler and its retries (node/envelope-listener-manager.ts), the    *)
(* loop that polls its channel (node/channel-polling-manager.ts), and the  *)
(* recovery of what an earlier life of the node has left in the inbox.     *)
(*                                                                         *)
(* Two workers run the handler: the poll loop and, after listen(), the     *)
(* recovery.  Both may hold the same message, each with its own copy of    *)
(* the entry: the store is durable and hands out copies.  A message is one *)
(* envelope that asks for an acknowledgement; its sender repeats it.       *)
(***************************************************************************)
EXTENDS Integers, Sequences

CONSTANTS
  Messages,    (* envelope ids                                             *)
  MaxAttempts, (* receiverRetryPolicy.maxRetries + 1; 1 without a policy   *)
  MaxSends,    (* bound on the copies of a message that are sent           *)
  MaxCrashes   (* bound on the crashes of the node                         *)

ASSUME PolicyAssumption  == MaxAttempts \in Nat \ {0}
ASSUME MessageAssumption == Messages # {}
ASSUME BoundAssumption   == MaxSends \in Nat /\ MaxCrashes \in Nat

VARIABLES
  inbox,    (* inbox[m]: the attempts that its entry counts; Absent        *)
  dlq,      (* the messages in the dead-letter store                       *)
  channel,  (* the channel of the binding                                  *)
  worker,   (* worker[w]: where it is, its message, its copy of the entry  *)
  cache,    (* pendingRecoveryEnvelopes: copies made when the node started *)
  recovery, (* what the recovery has taken from the cache                  *)
  node,     (* has start() listed the inbox, does the service listen?      *)
  sends, crashes,
  acked,    (* history: the messages that were acknowledged                *)
  handled,  (* history: the messages whose handler has returned            *)
  failures  (* history: failures of the handler, counted up to MaxAttempts *)

stored  == <<inbox, dlq>>
history == <<acked, handled, failures>>
vars == <<stored, channel, worker, cache, recovery, node, sends, crashes,
          history>>

Absent   == -1
Attempts == 0 .. MaxAttempts - 1
Copies   == [Messages -> Attempts \cup {Absent}]
Nothing  == [m \in Messages |-> Absent]
Workers  == {"loop", "recovery"}
Idle     == [at |-> "off", msg |-> CHOOSE m \in Messages : TRUE, attempt |-> 0]

Places == {"off", "polling", "looking", "saving", "acking", "handling",
           "noting", "burying", "unlisting", "deleting", "ended"}
Work   == [at : Places, msg : Messages, attempt : 0 .. MaxAttempts]

TypeOK ==
  /\ inbox \in Copies /\ dlq \in SUBSET Messages
  /\ channel \in Seq(Messages)
  /\ worker \in [Workers -> Work]
  /\ cache \in Copies /\ recovery \in Copies
  /\ node \in [up : BOOLEAN, listed : BOOLEAN]
  /\ sends \in [Messages -> 0 .. MaxSends] /\ crashes \in 0 .. MaxCrashes
  /\ acked \in SUBSET Messages /\ handled \in SUBSET Messages
  /\ failures \in [Messages -> 0 .. MaxAttempts]

Init ==
  /\ inbox = Nothing /\ dlq = {} /\ channel = <<>>
  /\ worker = [w \in Workers |-> Idle]
  /\ cache = Nothing /\ recovery = Nothing
  /\ node = [up |-> TRUE, listed |-> FALSE]
  /\ sends = [m \in Messages |-> 0] /\ crashes = 0
  /\ acked = {} /\ handled = {} /\ failures = [m \in Messages |-> 0]

Holds(w, at)     == worker[w].at = at
Goes(w, at)      == [worker EXCEPT ![w].at = at]
Msg(w)           == worker[w].msg
Put(m, attempt)  == [inbox EXCEPT ![m] = attempt]
workerOnly       == <<channel, cache, recovery, node, sends, crashes>>
-----------------------------------------------------------------------------
(* The node and its service.                                               *)

(* envelopeListenerManager.start(): the inbox is listed, once.  A service  *)
(* that listens before finds an empty cache.                               *)
StartLists ==
  /\ node.up /\ ~node.listed
  /\ node' = [node EXCEPT !.listed = TRUE]
  /\ cache' = inbox
  /\ UNCHANGED <<stored, channel, worker, recovery, sends, crashes, history>>

(* listen(), also again when the loop has ended: the recovery takes the    *)
(* cache, and a loop polls the channel.                                    *)
Listen ==
  /\ node.up /\ worker["loop"].at \in {"off", "ended"}
  /\ worker' = Goes("loop", "polling")
  /\ IF Holds("recovery", "off") /\ recovery = Nothing
     THEN recovery' = cache /\ cache' = Nothing
     ELSE UNCHANGED <<recovery, cache>>
  /\ UNCHANGED <<stored, channel, node, sends, crashes, history>>

(* The process ends: the inbox and the dead letters remain.                *)
Crash ==
  /\ node.up /\ crashes < MaxCrashes
  /\ crashes' = crashes + 1
  /\ node' = [up |-> FALSE, listed |-> FALSE]
  /\ channel' = <<>> /\ worker' = [w \in Workers |-> Idle]
  /\ cache' = Nothing /\ recovery' = Nothing
  /\ UNCHANGED <<stored, sends, history>>

Restart ==
  /\ ~node.up
  /\ node' = [node EXCEPT !.up = TRUE]
  /\ UNCHANGED <<stored, channel, worker, cache, recovery, sends, crashes,
                 history>>

(* The sender sends m, or again: its acknowledgement may be late or lost.  *)
(* The channel belongs to the binding and outlives a loop that has ended.  *)
Send(m) ==
  /\ node.up /\ ~Holds("loop", "off") /\ sends[m] < MaxSends
  /\ sends' = [sends EXCEPT ![m] = @ + 1]
  /\ channel' = Append(channel, m)
  /\ UNCHANGED <<stored, worker, cache, recovery, node, crashes, history>>
-----------------------------------------------------------------------------
(* The poll loop, up to the handler: startPollingLoop(), and               *)
(* onEnvelopeDelivered(), which the tracking handler awaits.               *)

Poll ==
  /\ Holds("loop", "polling") /\ channel # <<>>
  /\ channel' = Tail(channel)
  /\ worker' = [worker EXCEPT !["loop"] =
       [at |-> "looking", msg |-> Head(channel), attempt |-> 0]]
  /\ UNCHANGED <<stored, cache, recovery, node, sends, crashes, history>>

(* A plausible slip: the acknowledgement goes out before the entry is in.  *)
AfterLookingAcked == "acking"

AfterLooking == "saving"

(* An entry that was handled has been deleted: the message counts as new.  *)
LookUp ==
  /\ Holds("loop", "looking")
  /\ worker' = [worker EXCEPT !["loop"] =
       [at |-> AfterLooking, msg |-> Msg("loop"),
        attempt |-> IF inbox[Msg("loop")] = Absent THEN 0
                    ELSE inbox[Msg("loop")]]]
  /\ UNCHANGED <<stored, workerOnly, history>>

SaveReceived ==
  /\ Holds("loop", "saving")
  /\ inbox' = Put(Msg("loop"), worker["loop"].attempt)
  /\ worker' = Goes("loop", "acking")
  /\ UNCHANGED <<dlq, workerOnly, history>>

SendAck ==
  /\ Holds("loop", "acking")
  /\ acked' = acked \cup {Msg("loop")}
  /\ worker' = Goes("loop", "handling")
  /\ UNCHANGED <<stored, workerOnly, handled, failures>>

(* The acknowledgement cannot be sent: the error ends the loop.            *)
AckFails ==
  /\ Holds("loop", "acking")
  /\ worker' = Goes("loop", "ended")
  /\ UNCHANGED <<stored, workerOnly, history>>
-----------------------------------------------------------------------------
(* recoverServiceEnvelopes(): one entry after the other, in the order of   *)
(* the store.                                                              *)

RecoverNext ==
  /\ Holds("recovery", "off")
  /\ \E m \in Messages :
       /\ recovery[m] # Absent
       /\ recovery' = [recovery EXCEPT ![m] = Absent]
       /\ worker' = [worker EXCEPT !["recovery"] =
            [at |-> "handling", msg |-> m, attempt |-> recovery[m]]]
  /\ UNCHANGED <<stored, channel, cache, node, sends, crashes, history>>
-----------------------------------------------------------------------------
(* executeHandlerWithRetries(), by either worker.                          *)

HandlerReturns(w) ==
  /\ Holds(w, "handling")
  /\ handled' = handled \cup {Msg(w)}
  /\ worker' = Goes(w, "deleting")
  /\ UNCHANGED <<stored, workerOnly, acked, failures>>

(* A plausible slip: the last retry is not made.                           *)
IsFinalTooEarly(attempt) == attempt + 1 >= MaxAttempts

IsFinalAttempt(attempt) == attempt >= MaxAttempts

HandlerFails(w) ==
  LET attempt == worker[w].attempt + 1 IN
  /\ Holds(w, "handling")
  /\ failures' = [failures EXCEPT ![Msg(w)] = IF @ < MaxAttempts THEN @ + 1
                                              ELSE @]
  /\ worker' = [worker EXCEPT ![w] =
       [at |-> IF IsFinalAttempt(attempt) THEN "burying" ELSE "noting",
        msg |-> Msg(w), attempt |-> attempt]]
  /\ UNCHANGED <<stored, workerOnly, acked, handled>>

(* A failure that is not final is put into the inbox, after whatever the   *)
(* other worker has done to the entry; then the handler is tried again.    *)
NoteFailure(w) ==
  /\ Holds(w, "noting")
  /\ inbox' = Put(Msg(w), worker[w].attempt)
  /\ worker' = Goes(w, "handling")
  /\ UNCHANGED <<dlq, workerOnly, history>>

Bury(w) ==
  /\ Holds(w, "burying")
  /\ dlq' = dlq \cup {Msg(w)}
  /\ worker' = Goes(w, "unlisting")
  /\ UNCHANGED <<inbox, workerOnly, history>>

(* A plausible slip: the failure of one message ends the recovery.         *)
AfterErrorAlways(w) == "ended"

(* The error goes on: it ends the loop; the recovery catches it.           *)
AfterError(w) == IF w = "loop" THEN "ended" ELSE "off"

Unlist(w) ==
  /\ Holds(w, "unlisting")
  /\ inbox' = Put(Msg(w), Absent)
  /\ worker' = Goes(w, AfterError(w))
  /\ UNCHANGED <<dlq, workerOnly, history>>

(* onEnvelopeHandled(): the entry is deleted.  The loop then delivers the  *)
(* response, if there is one; an error of that ends it.                    *)
DeleteHandled(w) ==
  /\ Holds(w, "deleting")
  /\ inbox' = Put(Msg(w), Absent)
  /\ \E at \in IF w = "loop" THEN {"polling", "ended"} ELSE {"off"} :
       worker' = Goes(w, at)
  /\ UNCHANGED <<dlq, workerOnly, history>>
-----------------------------------------------------------------------------
HandleStep(w) ==
  \/ HandlerReturns(w) \/ HandlerFails(w) \/ NoteFailure(w) \/ Bury(w)
  \/ Unlist(w) \/ DeleteHandled(w)
LoopStep     == Poll \/ LookUp \/ SaveReceived \/ SendAck \/ AckFails
RecoveryStep == RecoverNext \/ HandleStep("recovery")

Next ==
  \/ StartLists \/ Listen \/ Crash \/ Restart
  \/ LoopStep \/ RecoverNext
  \/ \E m \in Messages : Send(m)
  \/ \E w \in Workers : HandleStep(w)

Spec == Init /\ [][Next]_vars

(* A handler returns or throws, and the store answers.                     *)
Fairness == WF_vars(RecoveryStep)

FairSpec == Spec /\ Fairness
-----------------------------------------------------------------------------
(* The promise behind an acknowledgement: once it was sent, the message is *)
(* handled, or waits in the inbox, or is a dead letter, whatever crashes   *)
(* and whoever else works on the same message.                             *)
AckedNotLost ==
  \A m \in acked : m \in handled \/ inbox[m] # Absent \/ m \in dlq

(* A message is given up only after its handler has failed as often as the *)
(* policy allows: attempts that a crash has cut short, or that two workers *)
(* make at once, do not count twice.                                       *)
BuriedDeservedly == \A m \in dlq : failures[m] = MaxAttempts

(* Every message that the recovery has taken over is worked off: one that  *)
(* fails for good does not keep the others from their turn.                *)
RecoveryCompletes ==
  \A m \in Messages :
    recovery[m] # Absent ~> (m \in handled \/ m \in dlq \/ ~node.up)
=============================================================================
