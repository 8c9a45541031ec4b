------------------------------ MODULE Connector ------------------------------
(***************************************************************************)
(* The life of one connector: connector/base-async-connector.ts over a     *)
(* transport that behaves as connector/websocket-connector.ts uses it.     *)
(*                                                                         *)
(* Two tasks run between start() and the end, the send loop and the        *)
(* receive loop; local senders, callers of stop() and close(), a caller of *)
(* waitUntilClosed() and the peer run beside them, and either loop may     *)
(* itself call _shutdown() and then wait for its own task.  An action is a *)
(* segment between two awaits.                                             *)
(*                                                                         *)
(* Of flow control only the outgoing balance is kept: CreditLink models    *)
(* what both ends make of it.  Whether a received envelope makes the       *)
(* receive loop grant credits is left open.                                *)
(***************************************************************************)
EXTENDS Integers, Sequences, FiniteSets

CONSTANTS
  Senders,       (* local coroutines, each sends one envelope              *)
  Closers,       (* coroutines that call stop() or close() once            *)
  InitialWindow, (* credits of the outgoing flow                           *)
  MaxQueue,      (* maxQueueSize                                           *)
  LoopsMayFail,  (* transport and peer may do what makes a loop throw      *)
  MaxInbound     (* bound on the messages the transport receives           *)

ASSUME SizeAssumption ==
  InitialWindow \in Nat \ {0} /\ MaxQueue \in Nat \ {0} /\ MaxInbound \in Nat
ASSUME ChoiceAssumption == LoopsMayFail \in BOOLEAN
ASSUME NameAssumption ==
  /\ Senders \cap {"credit"} = {}
  /\ Closers \cap {"sendLoop", "recvLoop", "nobody"} = {}

VARIABLES
  state,      (* _state                                                    *)
  closed,     (* _closed                                                   *)
  shutdown,   (* where the run of _shutdown() is, and who called it        *)
  sendLoop, recvLoop,
  queue,      (* _sendQueue: senders stand for their envelopes             *)
  credits,    (* balance of the outgoing flow                              *)
  sender,     (* sender[s]                                                 *)
  closer,     (* closer[c]                                                 *)
  waiter,     (* the caller of waitUntilClosed()                           *)
  inbound,    (* messages received from the transport                      *)
  wire,       (* history: what has been written to the transport           *)
  accepted,   (* history: what send() has accepted                         *)
  shutdowns,  (* history: runs of _shutdown() that got past its guard      *)
  late        (* history: handler calls begun after _closed was set        *)

lifeVars  == <<state, closed, shutdown, closer, waiter, shutdowns>>
sendVars  == <<queue, credits, sender, accepted>>
vars == <<lifeVars, sendVars, sendLoop, recvLoop, inbound, wire, late>>

Loops  == {"sendLoop", "recvLoop"}
Items  == Senders \cup {"credit"}
Final  == {"STOPPED", "CLOSED"}
Live   == {"idle", "sending", "top", "receiving", "handling", "settling",
           "settlingClosed", "shutting"}

States    == {"INITIALIZED", "STARTED", "PAUSED"} \cup Final
Shutdowns == [step : {"none", "closing", "joining", "expired", "done"},
              by : Closers \cup Loops \cup {"nobody"}]

TypeOK ==
  /\ state \in States
  /\ closed \in BOOLEAN
  /\ shutdown \in Shutdowns
  /\ sendLoop \in {"none", "idle", "sending", "shutting", "ended", "failed"}
  /\ recvLoop \in {"none", "top", "receiving", "handling", "settling",
                   "settlingClosed", "shutting", "ended", "failed"}
  /\ queue \in Seq(Items) /\ Len(queue) <= MaxQueue
  /\ credits \in 0 .. InitialWindow
  /\ sender \in [Senders -> {"idle", "acquiring", "accepted", "refused"}]
  /\ closer \in [Closers -> {"idle", "closing", "returned"}]
  /\ waiter \in {"none", "waiting", "released"}
  /\ inbound \in 0 .. MaxInbound
  /\ wire \in Seq(Items) /\ accepted \in Seq(Items)
  /\ shutdowns \in Nat /\ late \in Nat

Init ==
  /\ state = "INITIALIZED" /\ closed = FALSE
  /\ shutdown = [step |-> "none", by |-> "nobody"]
  /\ sendLoop = "none" /\ recvLoop = "none"
  /\ queue = <<>> /\ credits = InitialWindow
  /\ sender = [s \in Senders |-> "idle"]
  /\ closer = [c \in Closers |-> "idle"]
  /\ waiter = "none" /\ inbound = 0
  /\ wire = <<>> /\ accepted = <<>> /\ shutdowns = 0 /\ late = 0
-----------------------------------------------------------------------------
(* start(), pause(), resume().                                             *)
Start ==
  /\ state = "INITIALIZED"
  /\ state' = "STARTED"
  /\ sendLoop' = "idle" /\ recvLoop' = "top"
  /\ UNCHANGED <<closed, shutdown, closer, waiter, shutdowns, sendVars,
                 inbound, wire, late>>

Pause ==
  /\ state = "STARTED" /\ state' = "PAUSED"
  /\ UNCHANGED <<closed, shutdown, closer, waiter, shutdowns, sendVars,
                 sendLoop, recvLoop, inbound, wire, late>>

Resume ==
  /\ state = "PAUSED" /\ state' = "STARTED"
  /\ UNCHANGED <<closed, shutdown, closer, waiter, shutdowns, sendVars,
                 sendLoop, recvLoop, inbound, wire, late>>
-----------------------------------------------------------------------------
(* _shutdown().                                                            *)

(* A plausible slip: the flag is set when the transport has been closed.   *)
MayShutDownUntilClosed == shutdown.step \in {"none", "closing"}

MayShutDown == ~closed

(* Up to the await of _transportClose().                                   *)
BeginShutdown(by, final) ==
  /\ closed' = TRUE
  /\ state' = IF state \in Final THEN state ELSE final
  /\ shutdown' = [step |-> "closing", by |-> by]
  /\ shutdowns' = shutdowns + 1

TransportClosed == shutdown.step \in {"joining", "expired", "done"}

(* The transport is closed; shutdownTasks() aborts the loops and waits.    *)
TransportCloses ==
  /\ shutdown.step = "closing"
  /\ shutdown' = [shutdown EXCEPT !.step = "joining"]
  /\ UNCHANGED <<state, closed, closer, waiter, shutdowns, sendVars,
                 sendLoop, recvLoop, inbound, wire, late>>

(* gracePeriod, then joinTimeout, have passed.                             *)
JoinExpires ==
  /\ shutdown.step = "joining"
  /\ shutdown' = [shutdown EXCEPT !.step = "expired"]
  /\ UNCHANGED <<state, closed, closer, waiter, shutdowns, sendVars,
                 sendLoop, recvLoop, inbound, wire, late>>

LoopsOver == sendLoop \notin Live /\ recvLoop \notin Live

(* A plausible slip: the loops are awaited without a limit.                *)
JoinOverUnlimited == TransportClosed /\ LoopsOver

JoinOver ==
  \/ shutdown.step = "joining" /\ LoopsOver
  \/ shutdown.step = "expired"

(* The rest: _closeResolver() is called and the caller goes on.            *)
EndShutdown ==
  /\ JoinOver /\ shutdown.step # "done"
  /\ shutdown' = [shutdown EXCEPT !.step = "done"]
  /\ waiter' = IF waiter = "waiting" THEN "released" ELSE waiter
  /\ sendLoop' = IF shutdown.by = "sendLoop" THEN "ended" ELSE sendLoop
  /\ recvLoop' = IF shutdown.by = "recvLoop" THEN "ended" ELSE recvLoop
  /\ closer' = [c \in Closers |->
                  IF c = shutdown.by THEN "returned" ELSE closer[c]]
  /\ UNCHANGED <<state, closed, shutdowns, sendVars, inbound, wire, late>>

(* stop() and close().  _shutdown() returns at once when it has already    *)
(* begun.                                                                  *)
Call(c, final) ==
  /\ closer[c] = "idle"
  /\ IF MayShutDown
     THEN /\ BeginShutdown(c, final)
          /\ closer' = [closer EXCEPT ![c] = "closing"]
     ELSE /\ state' = final
          /\ closer' = [closer EXCEPT ![c] = "returned"]
          /\ UNCHANGED <<closed, shutdown, shutdowns>>
  /\ UNCHANGED <<waiter, sendVars, sendLoop, recvLoop, inbound, wire, late>>

Stop(c)  == state \in {"STARTED", "PAUSED"} /\ Call(c, "STOPPED")
Close(c) == state # "CLOSED" /\ Call(c, "CLOSED")

(* handleClose() of the transport: _shutdown() is begun and nobody waits   *)
(* for it; the receive that is rejected is ReceiveFindsClosed.             *)
PeerCloses ==
  /\ MayShutDown
  /\ BeginShutdown("nobody", "CLOSED")
  /\ UNCHANGED <<closer, waiter, sendVars, sendLoop, recvLoop, inbound, wire,
                 late>>

(* waitUntilClosed() makes a promise that the end of _shutdown() resolves. *)
WaitUntilClosed ==
  /\ waiter = "none"
  /\ waiter' = "waiting"
  /\ UNCHANGED <<state, closed, shutdown, closer, shutdowns, sendVars,
                 sendLoop, recvLoop, inbound, wire, late>>
-----------------------------------------------------------------------------
(* send().                                                                 *)

Full == Len(queue) >= MaxQueue

Push(item) ==
  /\ queue' = Append(queue, item)
  /\ accepted' = Append(accepted, item)

(* Up to the await of acquire().                                           *)
Send(s) ==
  /\ sender[s] = "idle"
  /\ sender' = [sender EXCEPT ![s] = IF closed THEN "refused" ELSE "acquiring"]
  /\ UNCHANGED <<lifeVars, queue, credits, accepted, sendLoop, recvLoop,
                 inbound, wire, late>>

(* acquire() returns; BackPressureFull is thrown with the credit spent.    *)
Proceed(s) ==
  /\ sender[s] = "acquiring" /\ credits > 0
  /\ credits' = credits - 1
  /\ sender' = [sender EXCEPT ![s] = IF Full THEN "refused" ELSE "accepted"]
  /\ IF Full THEN UNCHANGED <<queue, accepted>> ELSE Push(s)
  /\ UNCHANGED <<lifeVars, sendLoop, recvLoop, inbound, wire, late>>
-----------------------------------------------------------------------------
(* _sendLoop().                                                            *)

(* The oldest item is looked at, and sent before it is removed.            *)
SendOldest ==
  /\ sendLoop = "idle" /\ ~closed /\ queue # <<>>
  /\ sendLoop' = "sending"
  /\ UNCHANGED <<lifeVars, sendVars, recvLoop, inbound, wire, late>>

(* A plausible slip: what has been sent is taken from the wrong end.       *)
SentPopped ==
  /\ sendLoop = "sending"
  /\ wire' = Append(wire, Head(queue))
  /\ queue' = SubSeq(queue, 1, Len(queue) - 1)
  /\ sendLoop' = "idle"
  /\ UNCHANGED <<lifeVars, credits, sender, accepted, recvLoop, inbound, late>>

Sent ==
  /\ sendLoop = "sending"
  /\ wire' = Append(wire, Head(queue))
  /\ queue' = Tail(queue)
  /\ sendLoop' = "idle"
  /\ UNCHANGED <<lifeVars, credits, sender, accepted, recvLoop, inbound, late>>

(* The transport throws FameTransportClose, or any other error.            *)
SendFindsClosed ==
  /\ sendLoop = "sending"
  /\ IF MayShutDown
     THEN /\ BeginShutdown("sendLoop", "CLOSED") /\ sendLoop' = "shutting"
     ELSE /\ sendLoop' = "ended"
          /\ UNCHANGED <<state, closed, shutdown, shutdowns>>
  /\ UNCHANGED <<closer, waiter, sendVars, recvLoop, inbound, wire, late>>

SendFails ==
  /\ LoopsMayFail /\ sendLoop = "sending"
  /\ sendLoop' = "failed"
  /\ UNCHANGED <<lifeVars, sendVars, recvLoop, inbound, wire, late>>

SendLoopEnds ==
  /\ sendLoop = "idle" /\ closed
  /\ sendLoop' = "ended"
  /\ UNCHANGED <<lifeVars, sendVars, recvLoop, inbound, wire, late>>
-----------------------------------------------------------------------------
(* _recvLoop().                                                            *)

(* A plausible slip: the loop runs for as long as there are messages.      *)
GoesOnForever == recvLoop = "top"

GoesOn == recvLoop = "top" /\ ~closed

AwaitMessage ==
  /\ GoesOn
  /\ recvLoop' = "receiving"
  /\ UNCHANGED <<lifeVars, sendVars, sendLoop, inbound, wire, late>>

RecvLoopEnds ==
  /\ recvLoop = "top" /\ closed
  /\ recvLoop' = "ended"
  /\ UNCHANGED <<lifeVars, sendVars, sendLoop, inbound, wire, late>>

(* A message: _closed is not looked at again after the await.              *)
TakeMessage ==
  /\ recvLoop = "receiving" /\ inbound < MaxInbound
  /\ inbound' = inbound + 1

ReceiveCredits ==
  /\ TakeMessage
  /\ credits' = InitialWindow
  /\ recvLoop' = "top"
  /\ UNCHANGED <<lifeVars, queue, sender, accepted, sendLoop, wire, late>>

ReceiveEnvelope ==
  /\ TakeMessage
  /\ recvLoop' = "handling"
  /\ late' = IF closed THEN late + 1 ELSE late
  /\ UNCHANGED <<lifeVars, sendVars, sendLoop, wire>>

(* Neither an envelope, nor bytes, nor FameTransportClose.                 *)
ReceiveUnexpected ==
  /\ LoopsMayFail /\ TakeMessage
  /\ recvLoop' = "failed"
  /\ UNCHANGED <<lifeVars, sendVars, sendLoop, wire, late>>

RecvShutsDown ==
  IF MayShutDown
  THEN /\ BeginShutdown("recvLoop", "CLOSED") /\ recvLoop' = "shutting"
  ELSE /\ recvLoop' = "ended"
       /\ UNCHANGED <<state, closed, shutdown, shutdowns>>

(* A plausible slip: only the peer's close ends a pending receive.         *)
ReceiveRejectedByPeer == recvLoop = "receiving" /\ ~TransportClosed

ReceiveRejected == recvLoop = "receiving"

(* FameTransportClose, of the peer, of a timeout or of _transportClose().  *)
ReceiveFindsClosed ==
  /\ ReceiveRejected
  /\ RecvShutsDown
  /\ UNCHANGED <<closer, waiter, sendVars, sendLoop, inbound, wire, late>>

(* The handler returns or throws; FameTransportClose passes through.       *)
Handled ==
  /\ recvLoop = "handling"
  /\ recvLoop' \in {"settling", "settlingClosed"}
  /\ UNCHANGED <<lifeVars, sendVars, sendLoop, inbound, wire, late>>

(* The finally block: no grant is due ...                                  *)
SettleQuietly ==
  /\ \/ recvLoop = "settling" /\ recvLoop' = "top"
        /\ UNCHANGED <<state, closed, shutdown, shutdowns>>
     \/ recvLoop = "settlingClosed" /\ RecvShutsDown
  /\ UNCHANGED <<closer, waiter, sendVars, sendLoop, inbound, wire, late>>

(* ... or one is sent ...                                                  *)
SettleGranting ==
  /\ ~closed /\ ~Full
  /\ Push("credit")
  /\ \/ recvLoop = "settling" /\ recvLoop' = "top"
        /\ UNCHANGED <<state, closed, shutdown, shutdowns>>
     \/ recvLoop = "settlingClosed" /\ RecvShutsDown
  /\ UNCHANGED <<closer, waiter, credits, sender, sendLoop, inbound, wire,
                 late>>

(* ... or send() throws: FameTransportClose, or BackPressureFull.          *)
SettleRefused ==
  /\ recvLoop \in {"settling", "settlingClosed"}
  /\ \/ closed /\ recvLoop' = "ended"
     \/ ~closed /\ Full /\ LoopsMayFail /\ recvLoop' = "failed"
  /\ UNCHANGED <<lifeVars, sendVars, sendLoop, inbound, wire, late>>
-----------------------------------------------------------------------------
(* The connector has come to its end.                                      *)
Over ==
  /\ shutdown.step = "done"
  /\ UNCHANGED vars

SendLoopSteps ==
  SendOldest \/ Sent \/ SendFindsClosed \/ SendFails \/ SendLoopEnds
Handling      == Handled \/ SettleQuietly \/ SettleGranting \/ SettleRefused
Receptions    == ReceiveCredits \/ ReceiveEnvelope \/ ReceiveUnexpected
RecvLoopSteps == AwaitMessage \/ RecvLoopEnds \/ Handling
ShutdownSteps == TransportCloses \/ JoinExpires \/ EndShutdown

Next ==
  \/ Start \/ Pause \/ Resume \/ WaitUntilClosed \/ PeerCloses
  \/ \E c \in Closers : Stop(c) \/ Close(c)
  \/ \E s \in Senders : Send(s) \/ Proceed(s)
  \/ SendLoopSteps \/ RecvLoopSteps \/ Receptions \/ ReceiveFindsClosed
  \/ ShutdownSteps \/ Over

Spec == Init /\ [][Next]_vars

(* The event loop runs what is runnable, timers fire, handlers and the     *)
(* transport's send return, and a closed transport rejects its receiver.   *)
Fairness ==
  /\ WF_vars(SendLoopSteps) /\ WF_vars(RecvLoopSteps) /\ WF_vars(ShutdownSteps)
  /\ WF_vars(TransportClosed /\ ReceiveFindsClosed)
  /\ \A s \in Senders : WF_vars(Proceed(s))

FairSpec == Spec /\ Fairness
-----------------------------------------------------------------------------
(* stop(), close(), the peer and a failing send may all end the connector  *)
(* at once: the transport is closed and the tasks are joined by one of     *)
(* them only.                                                              *)
ShutdownOnce == shutdowns <= 1

(* The receive loop looks at _closed before it awaits a message, not       *)
(* after: one envelope may still reach the handler, never a second one.    *)
AtMostOneLate == late <= 1

(* Envelopes leave in the order send() accepted them, none twice and none  *)
(* skipped, although the loop removes an item only after it has been sent. *)
QueueIsRemainder == accepted = wire \o queue

(* Whoever waits for the end of the connector is told, also when a loop    *)
(* that calls _shutdown() waits for itself; but who comes after the end    *)
(* waits for ever.                                                         *)
WaiterReleased ==
  (waiter = "waiting" /\ closed /\ shutdown.step # "done")
    ~> (waiter = "released")

(* Closing sets the loops free wherever they are.                          *)
LoopsEnd == closed ~> LoopsOver
=============================================================================
