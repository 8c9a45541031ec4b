--------------------------- MODULE UpstreamSession ---------------------------
(***************************************************************************)
(* The connection of a node to its parent: the loop of                     *)
(* node/upstream-session-manager.ts with its three subtasks, the handshake *)
(* of node/admission/default-node-attach-client.ts that it awaits, and the *)
(* node that starts and stops it (node/node.ts).                           *)
(*                                                                         *)
(* A connection attempt ("cycle") makes one connector; link[c] is the one  *)
(* of cycle c, with what the parent has done and sent on it.  An attempt   *)
(* that fails leaves its connector open, and the attach client keeps its   *)
(* buffer and its handshake flag from one attempt to the next: so the      *)
(* links of several cycles are live at once.                               *)
(*                                                                         *)
(* What a connector promises is taken from Connector: frames arrive in     *)
(* order, a closed one rejects what is sent, and a sender that waits for   *)
(* credits waits on when it closes.                                        *)
(***************************************************************************)
EXTENDS Integers, Sequences

CONSTANTS
  MaxInitialAttempts, (* of the retry policy; 0 stands for unlimited       *)
  BackoffInitial, BackoffCap,
  QueueMax,           (* TX_QUEUE_MAX                                      *)
  MaxCycles,          (* bound on connection attempts                      *)
  MaxMessages,        (* bound on the messages given to send()             *)
  MaxFrames,          (* bound on the frames a parent sends per connection *)
  Starves             (* may a sender wait for credits?                    *)

ASSUME PolicyAssumption ==
  /\ MaxInitialAttempts \in Nat
  /\ BackoffInitial \in Nat \ {0} /\ BackoffCap \in Nat
  /\ BackoffInitial <= BackoffCap
ASSUME BoundAssumption ==
  /\ QueueMax \in Nat \ {0} /\ MaxCycles \in Nat
  /\ MaxMessages \in Nat /\ MaxFrames \in Nat /\ Starves \in BOOLEAN

VARIABLES
  fsm,          (* where fsmLoop() is, its delay, and initialAttempts      *)
  connectEpoch, (* the number of the current cycle                         *)
  connector,    (* this.connector: the number of its cycle, 0 for null     *)
  link,         (* link[c]                                                 *)
  inHandshake, buffer,              (* of the attach client                *)
  readyEvent, stopEvent, queueEvent,
  stopSubtasks, (* event of the current subtasks; "none" between cycles    *)
  hadSuccessfulAttach,
  pump, heartbeat, guard,           (* the subtasks                        *)
  messageQueue,
  accepted,     (* history: messages accepted by send(), numbered from 1   *)
  lastSent,     (* history: the last message a connector has taken         *)
  caller        (* the node: inside start(), started, stopping...          *)

handshakeVars == <<inHandshake, buffer>>
events        == <<readyEvent, stopEvent>>
queueVars     == <<messageQueue, queueEvent, accepted>>
tasks         == <<stopSubtasks, pump, heartbeat, guard>>
cycleVars     == <<connectEpoch, connector, hadSuccessfulAttach>>
vars == <<fsm, cycleVars, link, handshakeVars, events, queueVars, tasks,
          lastSent, caller>>

Cycles   == 1 .. MaxCycles
Failures == {"close", "connect", "other"}
Frames   == [kind : {"accept", "refuse", "data"}, of : Cycles]

Places == {"idle", "hello", "offering", "attaching", "accepting", "replaying",
           "attached", "running", "joining", "backoff", "done", "failed"}
States == [at : Places, delay : BackoffInitial .. BackoffCap, attempts : Nat,
           failure : Failures \cup {"none"}]
Links  == [state : {"none", "open", "closed"}, interim : BOOLEAN,
           parent : {"unasked", "asked", "accepted", "refused"},
           sent : 0 .. MaxFrames, wire : Seq(Frames)]
Pumps  == [at : {"off", "idle", "sending", "blocked", "ended", "close",
                 "other"}, hand : 0 .. MaxMessages]

TypeOK ==
  /\ fsm \in States
  /\ connectEpoch \in 0 .. MaxCycles /\ connector \in 0 .. MaxCycles
  /\ link \in [Cycles -> Links]
  /\ inHandshake \in BOOLEAN /\ buffer \in Seq(Frames)
  /\ readyEvent \in BOOLEAN /\ stopEvent \in BOOLEAN /\ queueEvent \in BOOLEAN
  /\ hadSuccessfulAttach \in BOOLEAN
  /\ stopSubtasks \in {"none", "clear", "set"}
  /\ pump \in Pumps
  /\ heartbeat \in {"off", "on", "blocked", "ended", "close", "connect"}
  /\ guard \in {"off", "on", "ended"}
  /\ messageQueue \in Seq(1 .. MaxMessages)
  /\ Len(messageQueue) <= QueueMax + 1
  /\ accepted \in 0 .. MaxMessages /\ lastSent \in 0 .. MaxMessages
  /\ caller \in {"starting", "started", "failed", "stopping", "stoppingEarly",
                 "stopped"}

Init ==
  /\ fsm = [at |-> "idle", delay |-> BackoffInitial, attempts |-> 0,
            failure |-> "none"]
  /\ connectEpoch = 0 /\ connector = 0 /\ hadSuccessfulAttach = FALSE
  /\ link = [c \in Cycles |-> [state |-> "none", interim |-> FALSE,
                               parent |-> "unasked", sent |-> 0,
                               wire |-> <<>>]]
  /\ inHandshake = FALSE /\ buffer = <<>>
  /\ readyEvent = FALSE /\ stopEvent = FALSE /\ queueEvent = FALSE
  /\ stopSubtasks = "none" /\ pump = [at |-> "off", hand |-> 0]
  /\ heartbeat = "off" /\ guard = "off"
  /\ messageQueue = <<>> /\ accepted = 0 /\ lastSent = 0
  /\ caller = "starting"

Open(c) == link[c].state = "open"
(* The current connector: connectCycle() keeps it in a local variable.     *)
Current == link[connectEpoch]
Close(c) == [link EXCEPT ![c].state = "closed", ![c].wire = <<>>]
-----------------------------------------------------------------------------
(* fsmLoop(): the loop, its catch clause and the backoff.                  *)

BeginCycle ==
  /\ fsm.at = "idle" /\ ~stopEvent /\ connectEpoch < MaxCycles
  /\ connectEpoch' = connectEpoch + 1
  /\ fsm' = [fsm EXCEPT !.at = "hello", !.attempts = @ + 1]
  /\ UNCHANGED <<connector, hadSuccessfulAttach, link, handshakeVars, events,
                 queueVars, tasks, lastSent, caller>>

FsmEnds ==
  /\ fsm.at = "idle" /\ stopEvent
  /\ fsm' = [fsm EXCEPT !.at = "done"]
  /\ UNCHANGED <<cycleVars, link, handshakeVars, events, queueVars, tasks,
                 lastSent, caller>>

(* Without a policy the first error counts: MaxInitialAttempts = 1.        *)
ShouldFailFast ==
  /\ ~hadSuccessfulAttach
  /\ MaxInitialAttempts # 0 /\ fsm.attempts >= MaxInitialAttempts

(* The delay starts again when the cycle has lasted more than ten seconds. *)
Catch(failure) ==
  \E delay \in {fsm.delay, BackoffInitial} :
    fsm' = [fsm EXCEPT
      !.at = IF ShouldFailFast /\ failure # "close" THEN "failed"
             ELSE "backoff",
      !.delay = delay, !.failure = "none"]

NextDelay == IF 2 * fsm.delay <= BackoffCap THEN 2 * fsm.delay ELSE BackoffCap

(* applyBackoff(): time, stop() or a tab that becomes visible ends it.     *)
BackoffEnds ==
  /\ fsm.at = "backoff"
  /\ \E delay \in {BackoffInitial, NextDelay} :
       fsm' = [fsm EXCEPT !.at = "idle", !.delay = delay]
  /\ UNCHANGED <<cycleVars, link, handshakeVars, events, queueVars, tasks,
                 lastSent, caller>>
-----------------------------------------------------------------------------
(* connectCycle() up to the handshake.                                     *)

(* hello(), the grants, onWelcome() or the start of the connector throws.  *)
HelloFails ==
  /\ fsm.at = "hello"
  /\ Catch("connect") \/ Catch("other")
  /\ UNCHANGED <<cycleVars, link, handshakeVars, events, queueVars, tasks,
                 lastSent, caller>>

(* The connector is started and attach() runs up to its first await.       *)
ConnectorStarts ==
  /\ fsm.at = "hello"
  /\ fsm' = [fsm EXCEPT !.at = "offering"]
  /\ connector' = connectEpoch
  /\ link' = [link EXCEPT ![connectEpoch].state = "open",
                          ![connectEpoch].interim = TRUE]
  /\ inHandshake' = TRUE
  /\ UNCHANGED <<connectEpoch, hadSuccessfulAttach, buffer, events, queueVars,
                 tasks, lastSent, caller>>

OfferAttach ==
  /\ fsm.at = "offering" /\ Open(connectEpoch)
  /\ fsm' = [fsm EXCEPT !.at = "attaching"]
  /\ link' = [link EXCEPT ![connectEpoch].parent = "asked"]
  /\ UNCHANGED <<cycleVars, handshakeVars, events, queueVars, tasks, lastSent,
                 caller>>

(* The connector has closed, its queue is full or a listener objects.      *)
OfferFails ==
  /\ fsm.at = "offering"
  /\ Catch(IF Open(connectEpoch) THEN "other" ELSE "close")
  /\ UNCHANGED <<cycleVars, link, handshakeVars, events, queueVars, tasks,
                 lastSent, caller>>
-----------------------------------------------------------------------------
(* attach() from awaitAck() to its end.                                    *)

(* A plausible slip: whichever answer comes is the answer.                 *)
AnswersUsAlways(f) == TRUE

AnswersUs(f) == f.of = connectEpoch

(* One round of the poll: frames before the answer are dropped.            *)
PollBuffer ==
  /\ fsm.at = "attaching" /\ Open(connectEpoch) /\ buffer # <<>>
  /\ buffer' = Tail(buffer)
  /\ \/ Head(buffer).kind = "data" /\ UNCHANGED fsm
     \/ /\ Head(buffer).kind = "accept" /\ AnswersUs(Head(buffer))
        /\ fsm' = [fsm EXCEPT !.at = "accepting"]
     \/ /\ Head(buffer).kind # "data"
        /\ ~AnswersUs(Head(buffer)) \/ Head(buffer).kind = "refuse"
        /\ Catch("other")
  /\ UNCHANGED <<cycleVars, link, inHandshake, events, queueVars, tasks,
                 lastSent, caller>>

(* The deadline, a connector that has closed, or, after the answer, a key  *)
(* that is not valid or a listener that throws.                            *)
AttachFails ==
  /\ fsm.at \in {"attaching", "accepting"}
  /\ Catch("other")
  /\ UNCHANGED <<cycleVars, link, handshakeVars, events, queueVars, tasks,
                 lastSent, caller>>

(* A plausible slip: the flag is left set until the session is up.         *)
InstallHandlerOnly ==
  /\ fsm.at = "accepting"
  /\ fsm' = [fsm EXCEPT !.at = "replaying"]
  /\ UNCHANGED <<cycleVars, link, handshakeVars, events, queueVars, tasks,
                 lastSent, caller>>

InstallHandler ==
  /\ fsm.at = "accepting"
  /\ fsm' = [fsm EXCEPT !.at = "replaying"]
  /\ inHandshake' = FALSE
  /\ link' = [link EXCEPT ![connectEpoch].interim = FALSE]
  /\ UNCHANGED <<cycleVars, buffer, events, queueVars, tasks, lastSent,
                 caller>>

(* finalHandler() is awaited for one buffered frame, and may throw.        *)
Replay ==
  /\ fsm.at = "replaying" /\ buffer # <<>>
  /\ buffer' = Tail(buffer)
  /\ UNCHANGED fsm \/ Catch("other")
  /\ UNCHANGED <<cycleVars, link, inHandshake, events, queueVars, tasks,
                 lastSent, caller>>

ReplayEnds ==
  /\ fsm.at = "replaying" /\ buffer = <<>>
  /\ fsm' = [fsm EXCEPT !.at = "attached"]
  /\ UNCHANGED <<cycleVars, link, handshakeVars, events, queueVars, tasks,
                 lastSent, caller>>

(* An answer without a path, onAttach() or close() of the admission client.*)
AttachedFails ==
  /\ fsm.at = "attached" /\ Catch("other")
  /\ UNCHANGED <<cycleVars, link, handshakeVars, events, queueVars, tasks,
                 lastSent, caller>>
-----------------------------------------------------------------------------
(* connectCycle() from the start of the subtasks to its end.               *)

SessionUp ==
  /\ fsm.at = "attached"
  /\ fsm' = [fsm EXCEPT !.at = "running"]
  /\ readyEvent' = TRUE /\ hadSuccessfulAttach' = TRUE
  /\ queueEvent' = (queueEvent \/ messageQueue # <<>>)
  /\ stopSubtasks' = "clear"
  /\ pump' = [at |-> "idle", hand |-> 0] /\ heartbeat' = "on" /\ guard' = "on"
  /\ UNCHANGED <<connectEpoch, connector, link, handshakeVars, stopEvent,
                 messageQueue, accepted, lastSent, caller>>

Over(task) == task \in Failures \cup {"ended"}
Outcome(task) == IF task = "ended" THEN "none" ELSE task

(* waitForFailureOrStop(): the first subtask that settles, or the event,   *)
(* decides whether the cycle fails.                                        *)
RunEnds ==
  /\ fsm.at = "running"
  /\ \E failure \in {"none"} \cup Failures :
       /\ \/ stopSubtasks = "set" /\ failure = "none"
          \/ \E t \in {pump.at, heartbeat, guard} :
               Over(t) /\ failure = Outcome(t)
       /\ fsm' = [fsm EXCEPT !.at = "joining", !.failure = failure]
  /\ stopSubtasks' = "set"
  /\ UNCHANGED <<cycleVars, link, handshakeVars, events, queueVars, pump,
                 heartbeat, guard, lastSent, caller>>

(* All subtasks have settled, the connector is stopped and forgotten.      *)
CycleEnds ==
  /\ fsm.at = "joining" /\ Over(pump.at) /\ Over(heartbeat) /\ Over(guard)
  /\ link' = Close(connector) /\ connector' = 0
  /\ stopSubtasks' = "none"
  /\ pump' = [at |-> "off", hand |-> 0] /\ heartbeat' = "off" /\ guard' = "off"
  /\ IF fsm.failure = "none"
     THEN fsm' = [fsm EXCEPT !.at = "idle", !.delay = BackoffInitial,
                             !.attempts = 0]
     ELSE Catch(fsm.failure)
  /\ UNCHANGED <<connectEpoch, hadSuccessfulAttach, handshakeVars, events,
                 queueVars, lastSent, caller>>
-----------------------------------------------------------------------------
(* messagePumpLoop() and takeMessage().                                    *)

TakeMessage ==
  /\ pump.at = "idle" /\ stopSubtasks = "clear"
  /\ messageQueue # <<>> /\ queueEvent
  /\ pump' = [at |-> "sending", hand |-> Head(messageQueue)]
  /\ messageQueue' = Tail(messageQueue)
  /\ queueEvent' = (messageQueue' # <<>>)
  /\ UNCHANGED <<fsm, cycleVars, link, handshakeVars, events, accepted,
                 stopSubtasks, heartbeat, guard, lastSent, caller>>

PumpSends ==
  /\ pump.at = "sending" /\ Current.state = "open"
  /\ lastSent' = pump.hand
  /\ pump' = [at |-> "idle", hand |-> 0]
  /\ UNCHANGED <<fsm, cycleVars, link, handshakeVars, events, queueVars,
                 stopSubtasks, heartbeat, guard, caller>>

(* The message is too large: it is answered with a nack and the loop goes  *)
(* on.  Or the connector refuses it for another reason (its own queue is   *)
(* full): the loop ends and the message is gone.                           *)
PumpDrops ==
  /\ pump.at = "sending" /\ Current.state = "open"
  /\ \/ pump' = [at |-> "idle", hand |-> 0]
     \/ pump' = [at |-> "other", hand |-> 0]
  /\ UNCHANGED <<fsm, cycleVars, link, handshakeVars, events, queueVars,
                 stopSubtasks, heartbeat, guard, lastSent, caller>>

(* A plausible slip: what could not be sent goes to the end of the queue.  *)
RequeueBack(m) == messageQueue' = Append(messageQueue, m) /\ queueEvent' = TRUE
(* A plausible slip: nobody is told.                                       *)
RequeueSilently(m) ==
  messageQueue' = <<m>> \o messageQueue /\ UNCHANGED queueEvent

RequeueFront(m) ==
  messageQueue' = <<m>> \o messageQueue /\ queueEvent' = TRUE

PumpFindsClosed ==
  /\ pump.at = "sending" /\ Current.state = "closed"
  /\ RequeueFront(pump.hand)
  /\ pump' = [at |-> "close", hand |-> 0]
  /\ UNCHANGED <<fsm, cycleVars, link, handshakeVars, events, accepted,
                 stopSubtasks, heartbeat, guard, lastSent, caller>>

PumpEnds ==
  /\ pump.at = "idle" /\ stopSubtasks = "set"
  /\ pump' = [pump EXCEPT !.at = "ended"]
  /\ UNCHANGED <<fsm, cycleVars, link, handshakeVars, events, queueVars,
                 stopSubtasks, heartbeat, guard, lastSent, caller>>

(* A sender waits for credits in acquire() and gets them only while the    *)
(* connector is open; its end does not wake it, nor does cancellation.     *)
PumpStarves ==
  /\ Starves
  /\ \/ pump.at = "sending" /\ pump' = [pump EXCEPT !.at = "blocked"]
     \/ pump.at = "blocked" /\ pump' = [pump EXCEPT !.at = "sending"]
  /\ Current.state = "open"
  /\ UNCHANGED <<fsm, cycleVars, link, handshakeVars, events, queueVars,
                 stopSubtasks, heartbeat, guard, lastSent, caller>>
-----------------------------------------------------------------------------
(* heartbeatLoop() and expiryGuard().                                      *)

(* A plausible slip: the error of the send is swallowed.                   *)
HeartbeatOutcomeSwallowed ==
  IF Current.state = "closed" THEN "on" ELSE "connect"

HeartbeatOutcome == IF Current.state = "closed" THEN "close" ELSE "connect"

(* The heartbeat cannot be sent, or its answers have stayed away; a paused *)
(* connector is the case in which neither is noticed.                      *)
HeartbeatFails ==
  /\ heartbeat = "on" /\ stopSubtasks = "clear"
  /\ heartbeat' = HeartbeatOutcome
  /\ UNCHANGED <<fsm, cycleVars, link, handshakeVars, events, queueVars,
                 stopSubtasks, pump, guard, lastSent, caller>>

HeartbeatEnds ==
  /\ heartbeat = "on" /\ stopSubtasks = "set"
  /\ heartbeat' = "ended"
  /\ UNCHANGED <<fsm, cycleVars, link, handshakeVars, events, queueVars,
                 stopSubtasks, pump, guard, lastSent, caller>>

HeartbeatStarves ==
  /\ Starves
  /\ \/ heartbeat = "on" /\ heartbeat' = "blocked"
     \/ heartbeat = "blocked" /\ heartbeat' = "on"
  /\ Current.state = "open"
  /\ UNCHANGED <<fsm, cycleVars, link, handshakeVars, events, queueVars,
                 stopSubtasks, pump, guard, lastSent, caller>>

(* The admission or the attachment is about to expire: the guard stops the *)
(* connector, and the cycle that ends is no failure.                       *)
GuardFires ==
  /\ guard = "on" /\ stopSubtasks = "clear"
  /\ guard' = "ended"
  /\ link' = Close(connectEpoch)
  /\ UNCHANGED <<fsm, cycleVars, handshakeVars, events, queueVars,
                 stopSubtasks, pump, heartbeat, lastSent, caller>>

GuardEnds ==
  /\ guard = "on" /\ stopSubtasks = "set"
  /\ guard' = "ended"
  /\ UNCHANGED <<fsm, cycleVars, link, handshakeVars, events, queueVars,
                 stopSubtasks, pump, heartbeat, lastSent, caller>>
-----------------------------------------------------------------------------
(* The node: start(), stop() and send() of the session manager.            *)

StartReturns ==
  /\ caller = "starting"
  /\ \/ readyEvent /\ caller' = "started"
     \/ ~readyEvent /\ fsm.at = "failed" /\ caller' = "failed"
  /\ UNCHANGED <<fsm, cycleVars, link, handshakeVars, events, queueVars, tasks,
                 lastSent>>

Attempt  == {"hello", "offering", "attaching", "accepting", "replaying",
             "attached"}
Stopping == {"stopping", "stoppingEarly"}

(* A plausible slip: the subtasks are left to themselves.                  *)
SignalLoop == UNCHANGED stopSubtasks

SignalSubtasks ==
  stopSubtasks' = IF stopSubtasks = "clear" THEN "set" ELSE stopSubtasks

(* The node stops a session it has started, or one that failed to start.   *)
(* Cancellation of the loop has no effect: it does not look at its signal. *)
(* A stop is early if it comes during an attempt.                          *)
Stop ==
  /\ caller \in {"started", "failed"}
  /\ caller' = IF fsm.at \in Attempt THEN "stoppingEarly" ELSE "stopping"
  /\ stopEvent' = TRUE
  /\ SignalSubtasks
  /\ UNCHANGED <<fsm, cycleVars, link, handshakeVars, readyEvent, queueVars,
                 pump, heartbeat, guard, lastSent>>

StopReturns ==
  /\ caller \in Stopping /\ fsm.at \in {"done", "failed"}
  /\ caller' = "stopped"
  /\ link' = IF connector = 0 THEN link ELSE Close(connector)
  /\ connector' = 0
  /\ UNCHANGED <<fsm, connectEpoch, hadSuccessfulAttach, handshakeVars, events,
                 queueVars, tasks, lastSent>>

Send ==
  /\ caller # "stopped" /\ accepted < MaxMessages
  /\ Len(messageQueue) < QueueMax
  /\ accepted' = accepted + 1
  /\ messageQueue' = Append(messageQueue, accepted + 1)
  /\ queueEvent' = TRUE
  /\ UNCHANGED <<fsm, cycleVars, link, handshakeVars, events, tasks, lastSent,
                 caller>>
-----------------------------------------------------------------------------
(* The parent, and the connectors between the two.                         *)

Reply(c, kind) == Append(link[c].wire, [kind |-> kind, of |-> c])

ParentAnswers(c) ==
  /\ Open(c) /\ link[c].parent = "asked"
  /\ \/ link' = [link EXCEPT ![c].parent = "accepted",
                             ![c].wire = Reply(c, "accept")]
     \/ link' = [link EXCEPT ![c].parent = "refused",
                             ![c].wire = Reply(c, "refuse")]
  /\ UNCHANGED <<fsm, cycleVars, handshakeVars, events, queueVars, tasks,
                 lastSent, caller>>

ParentSends(c) ==
  /\ Open(c) /\ link[c].parent = "accepted" /\ link[c].sent < MaxFrames
  /\ link' = [link EXCEPT ![c].sent = @ + 1, ![c].wire = Reply(c, "data")]
  /\ UNCHANGED <<fsm, cycleVars, handshakeVars, events, queueVars, tasks,
                 lastSent, caller>>

LinkLost(c) ==
  /\ Open(c)
  /\ link' = Close(c)
  /\ UNCHANGED <<fsm, cycleVars, handshakeVars, events, queueVars, tasks,
                 lastSent, caller>>

(* The receive loop calls the handler: the interim one buffers during a    *)
(* handshake, of whichever attempt; otherwise the frame is delivered (an   *)
(* answer to an attempt that was given up is ignored).                     *)
Receive(c) ==
  /\ Open(c) /\ link[c].wire # <<>>
  /\ link' = [link EXCEPT ![c].wire = Tail(@)]
  /\ buffer' = IF link[c].interim /\ inHandshake
               THEN Append(buffer, Head(link[c].wire)) ELSE buffer
  /\ UNCHANGED <<fsm, cycleVars, inHandshake, events, queueVars, tasks,
                 lastSent, caller>>
-----------------------------------------------------------------------------
Blocked == "blocked" \in {pump.at, heartbeat}

(* The session has ended; or the loop waits for a subtask that waits for   *)
(* credits of a lost connector; or the bound on attempts is used up.       *)
Rest ==
  /\ \/ caller = "stopped" \/ Blocked
     \/ fsm.at = "idle" /\ connectEpoch = MaxCycles
  /\ UNCHANGED vars

Attaching == PollBuffer \/ AttachFails
FsmSteps ==
  \/ BeginCycle \/ FsmEnds \/ BackoffEnds
  \/ HelloFails \/ ConnectorStarts \/ OfferAttach \/ OfferFails
  \/ Attaching \/ InstallHandler \/ Replay \/ ReplayEnds \/ AttachedFails
  \/ SessionUp \/ RunEnds \/ CycleEnds
PumpSteps ==
  TakeMessage \/ PumpSends \/ PumpDrops \/ PumpFindsClosed \/ PumpEnds
CallerSteps == StartReturns \/ StopReturns

Next ==
  \/ FsmSteps \/ PumpSteps \/ PumpStarves
  \/ HeartbeatFails \/ HeartbeatEnds \/ HeartbeatStarves
  \/ GuardFires \/ GuardEnds
  \/ CallerSteps \/ Stop \/ Send
  \/ \E c \in Cycles :
       ParentAnswers(c) \/ ParentSends(c) \/ LinkLost(c) \/ Receive(c)
  \/ Rest

Spec == Init /\ [][Next]_vars

(* The event loop runs what is runnable and timers fire; hello() and the   *)
(* callbacks of the node return.  Nothing is assumed of the parent, of     *)
(* senders, of stop() and of the expiry.                                   *)
Fairness ==
  /\ WF_vars(FsmSteps) /\ WF_vars(PumpSteps) /\ WF_vars(CallerSteps)
  /\ WF_vars(HeartbeatFails /\ Current.state = "closed")
  /\ WF_vars(HeartbeatEnds) /\ WF_vars(GuardEnds)

FairSpec == Spec /\ Fairness
-----------------------------------------------------------------------------
(* Messages leave in the order in which send() accepted them, across       *)
(* reconnections: the queue holds the last ones, without a gap, the pump   *)
(* at most the one before them, and no later one has been sent.            *)
MessagesInOrder ==
  LET gone == accepted - Len(messageQueue)
  IN  /\ \A i \in 1 .. Len(messageQueue) : messageQueue[i] = gone + i
      /\ pump.hand \in {0, gone} /\ lastSent <= gone
      /\ pump.hand # 0 => lastSent < pump.hand

(* A pump that goes to sleep is woken for what is in the queue: the event  *)
(* is cleared by the one who takes the last message, and set by everybody  *)
(* who puts one in.                                                        *)
QueueAnnounced == messageQueue # <<>> => queueEvent

(* Once a session is up no frame of the parent lies in the buffer of the   *)
(* handshake, where nobody would look at it: not even one that an older    *)
(* connector received.                                                     *)
NothingStranded == fsm.at \in {"attached", "running"} => buffer = <<>>

(* The node takes itself for attached only if the parent has accepted this *)
(* very connection, although answers to earlier attempts reach the same    *)
(* buffer.                                                                 *)
ParentAgrees ==
  fsm.at \in {"replaying", "attached", "running", "joining"}
    => link[connectEpoch].parent = "accepted"

(* A connection that is lost is noticed and the cycle ends, unless a       *)
(* subtask waits for credits of the lost connector.                        *)
LossNoticed ==
  (fsm.at = "running" /\ Current.state = "closed")
    ~> (fsm.at \notin {"running", "joining"} \/ Blocked)

(* stop() returns when it comes during a session or between two attempts.  *)
StopsWhenUp == (caller = "stopping") ~> (caller = "stopped" \/ Blocked)
=============================================================================
