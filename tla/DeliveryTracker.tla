--------------------------- MODULE DeliveryTracker ---------------------------
(***************************************************************************)
(* The sender side of one tracked envelope: delivery/default-delivery-     *)
(* tracker.ts with the part of node.ts (send) that drives it.              *)
(*                                                                         *)
(* The coroutines that touch the envelope are the sender (node.send), the  *)
(* chain of timer tasks (scheduleTimer), two inbox loops that handle what  *)
(* the peer answers (acks and nacks on the system inbox, replies on the    *)
(* reply inbox; a loop handles one envelope at a time), the sweeper, and   *)
(* the node's start and stop.  An action is a segment between two awaits.  *)
(*                                                                         *)
(* The outbox is a key-value store.  The in-memory one hands every holder  *)
(* the same object (byReference): an assignment to a field is seen by all  *)
(* at once.  The SQLite, IndexedDB and encrypted ones hand out copies: an  *)
(* assignment stays private until set() takes effect.                      *)
(*                                                                         *)
(* Envelopes share nothing but the inbox loops, so one of them is modelled.*)
(* Streams (FameResponseType.STREAM) and the inbox side are left out.      *)
(***************************************************************************)
EXTENDS Integers, FiniteSets

CONSTANTS
  StoreKinds,      (* values of byReference                                *)
  ExpectedTypes,   (* expectedResponseType: sets of "ACK" and "REPLY"      *)
  MaxRetries,      (* senderRetryPolicy.maxRetries, 0 without a policy     *)
  RetryDelays,     (* values nextDelayMs() returns (jitter, backoff)       *)
  Timeout,         (* timeoutMs of the call to send()                      *)
  ShutdownGrace,   (* shutdownRetryGraceMs                                 *)
  SweepGrace,      (* futGcGraceSecs                                       *)
  DeliverMayThrow, (* a call of the delivery function may be rejected      *)
  MaxTime,         (* bound: the clock saturates here                      *)
  MaxAnswers,      (* bound on the frames the peer sends back              *)
  MaxStarts        (* bound on the starts of the node                      *)

ASSUME KindAssumption ==
  StoreKinds \subseteq BOOLEAN /\ DeliverMayThrow \in BOOLEAN
ASSUME ExpectAssumption ==
  ExpectedTypes \subseteq (SUBSET {"ACK", "REPLY"}) \ {{}}
ASSUME RetryAssumption ==
  MaxRetries \in Nat /\ RetryDelays \subseteq Nat \ {0} /\ RetryDelays # {}
ASSUME TimeAssumption ==
  /\ Timeout \in Nat /\ ShutdownGrace \in Nat /\ SweepGrace \in Nat
  /\ MaxTime \in Nat /\ Timeout <= MaxTime
ASSUME CountAssumption == MaxAnswers \in Nat /\ MaxStarts \in Nat

VARIABLES
  now,          (* the clock, saturated at MaxTime                          *)
  life,         (* where the node is between start and stop                *)
  shutdownAt,   (* shutdownRequestedAtMs                                   *)
  starts,       (* starts so far                                           *)
  byReference,  (* the store returns its own object, not a copy            *)
  expects,      (* expectedResponseType of the envelope                    *)
  disk,         (* the outbox entry: [status, attempt, due] or NoEntry     *)
  held,         (* held[p]: the entry in the hands of coroutine p          *)
  future,       (* future["ACK"] and future["REPLY"]: the promises         *)
  listed,       (* those still in ackFutures / replyFutures                *)
  doneSince,    (* ackDoneSince / replyDoneSince                           *)
  timer,        (* the youngest timer task of the envelope                 *)
  handler,      (* what each inbox loop is doing                           *)
  sender,       (* what node.send() is doing                               *)
  sent,         (* the delivery function has been called                   *)
  retries,      (* calls of it made by timers                              *)
  answers       (* history: frames received from the peer                  *)

given      == <<byReference, expects>>
lifeVars   == <<life, shutdownAt, starts>>
recordVars == <<disk, held>>
futureVars == <<future, listed, doneSince>>
sentVars   == <<sent, retries>>
vars == <<now, lifeVars, given, recordVars, futureVars, timer,
          handler, sender, sentVars, answers>>

Loops     == {"sys", "rpc"}
Holders   == Loops \cup {"timer"}
Kinds     == {"ack", "nack", "reply"}
Futures   == {"ACK", "REPLY"}
Statuses  == {"PENDING", "ACKED", "NACKED", "RESPONDED", "TIMED_OUT"}
Answered  == {"ACKED", "NACKED", "RESPONDED"}
Time      == 0 .. MaxTime
Never     == -1

NoEntry == [status |-> "none", attempt |-> 0, due |-> 0]
Entries == [status : Statuses, attempt : Nat, due : 0 .. Timeout]
             \cup {NoEntry}

LeastOf(a, b) == IF a < b THEN a ELSE b
After(d)      == LeastOf(now + d, MaxTime)

IdleLoop == [step |-> "idle", kind |-> "ack"]
NoTimer  == [step |-> "none", wakeAt |-> 0, policy |-> FALSE,
             aborted |-> FALSE, mapped |-> FALSE, joiners |-> {}]

LiveSteps   == {"sleeping", "loaded", "storing", "rejecting", "resending",
                "arming"}
TimerLive   == timer.step \in LiveSteps
Running     == life \in {"up", "preparing", "stopping"}

Lives == {"up", "preparing", "stopping", "joining", "draining", "stopped",
          "down"}

FutureStates == {"none", "pending", "resolved", "rejected"}
Timers ==
  [step : LiveSteps \cup {"none", "failed"}, wakeAt : Time,
   policy : BOOLEAN, aborted : BOOLEAN, mapped : BOOLEAN,
   joiners : SUBSET (Loops \cup {"stop"})]
Handlers ==
  [step : {"idle", "loaded", "orphan", "storing", "settling", "clearing",
           "joining"},
   kind : Kinds]
Senders ==
  [step : {"idle", "tracked", "delivering", "awaiting", "done", "acked",
           "failed", "timedOut", "crashed"},
   until : Time]

TypeOK ==
  /\ now \in Time /\ life \in Lives /\ starts \in Nat
  /\ shutdownAt \in Time \cup {Never}
  /\ byReference \in StoreKinds /\ expects \in ExpectedTypes
  /\ disk \in Entries /\ held \in [Holders -> Entries]
  /\ future \in [Futures -> FutureStates] /\ listed \subseteq Futures
  /\ doneSince \in [Futures -> Time \cup {Never}]
  /\ timer \in Timers /\ handler \in [Loops -> Handlers]
  /\ sender \in Senders
  /\ sent \in BOOLEAN /\ retries \in Nat
  /\ answers \in Nat

Init ==
  /\ now = 0 /\ life = "up" /\ shutdownAt = Never /\ starts = 1
  /\ byReference \in StoreKinds /\ expects \in ExpectedTypes
  /\ disk = NoEntry /\ held = [p \in Holders |-> NoEntry]
  /\ future = [f \in Futures |-> "none"] /\ listed = {}
  /\ doneSince = [f \in Futures |-> Never]
  /\ timer = NoTimer
  /\ handler = [h \in Loops |-> IdleLoop]
  /\ sender = [step |-> "idle", until |-> 0]
  /\ sent = FALSE /\ retries = 0 /\ answers = 0
-----------------------------------------------------------------------------
(* The store.                                                              *)

(* outbox.get(): the entry comes into the hands of p.  Who holds an entry  *)
(* that has been removed keeps it.                                         *)
Load(p) ==
  held' = [q \in Holders |->
             IF q = p \/ (byReference /\ disk # NoEntry) THEN disk
             ELSE held[q]]

(* A field of the entry in the hands of p is assigned.                     *)
Amend(p, entry) ==
  IF byReference
  THEN /\ held' = [q \in Holders |-> entry]
       /\ disk' = IF disk = NoEntry THEN NoEntry ELSE entry
  ELSE /\ held' = [held EXCEPT ![p] = entry]
       /\ UNCHANGED disk

(* outbox.set() takes effect.                                              *)
Save(p) == disk' = held[p] /\ UNCHANGED held

(* The futures in fs that are in the maps settle, if they are pending.     *)
SettleTo(fs, outcome) ==
  /\ future' = [f \in Futures |->
                  IF f \in fs \cap listed /\ future[f] = "pending"
                  THEN outcome ELSE future[f]]
  /\ doneSince' = [f \in Futures |->
                     IF f \in fs \cap listed /\ doneSince[f] = Never
                     THEN now ELSE doneSince[f]]
  /\ UNCHANGED listed

(* scheduleTimer(): the new task replaces the previous one in the map.     *)
Arm(due, policy) ==
  timer' = [NoTimer EXCEPT !.step = "sleeping", !.policy = policy,
                           !.wakeAt = LeastOf(due, Timeout), !.mapped = TRUE]
-----------------------------------------------------------------------------
(* node.send().                                                            *)

(* track() under the lock: futures, then the outbox entry.                 *)
Track ==
  /\ sender.step = "idle" /\ life = "up"
  /\ sender' = [sender EXCEPT !.step = "tracked"]
  /\ future' = [f \in Futures |-> IF f \in expects THEN "pending" ELSE "none"]
  /\ listed' = expects
  /\ \E d \in RetryDelays :
       disk' = [status |-> "PENDING", attempt |-> 0,
                due |-> IF MaxRetries > 0 THEN LeastOf(d, Timeout)
                                          ELSE Timeout]
  /\ UNCHANGED <<now, lifeVars, given, held, doneSince, timer, handler,
                 sentVars, answers>>

(* track() schedules the timer; send() calls the delivery function.        *)
Deliver ==
  /\ sender.step = "tracked"
  /\ Arm(disk.due, MaxRetries > 0)
  /\ sender' = [sender EXCEPT !.step = "delivering"]
  /\ sent' = TRUE
  /\ UNCHANGED <<now, lifeVars, given, recordVars, futureVars, handler,
                 retries, answers>>

(* The delivery function returns: send() is done, or calls awaitAck().     *)
Delivered ==
  /\ sender.step = "delivering"
  /\ sender' = IF "ACK" \notin expects \/ "ACK" \notin listed
               THEN [step |-> IF "ACK" \in expects THEN "failed" ELSE "done",
                     until |-> 0]
               ELSE [step |-> "awaiting", until |-> After(Timeout)]
  /\ UNCHANGED <<now, lifeVars, given, recordVars, futureVars, timer,
                 handler, sentVars, answers>>

(* The delivery function throws: send() throws, the envelope stays tracked.*)
DeliverThrows ==
  /\ DeliverMayThrow /\ sender.step = "delivering"
  /\ sender' = [sender EXCEPT !.step = "failed"]
  /\ UNCHANGED <<now, lifeVars, given, recordVars, futureVars, timer,
                 handler, sentVars, answers>>

(* awaitAck() returns, throws, or gives up after its own timeout.          *)
AckAwaited ==
  /\ sender.step = "awaiting"
  /\ sender' = [until |-> 0,
                step |-> CASE future["ACK"] = "resolved" -> "acked"
                           [] future["ACK"] = "rejected" -> "failed"
                           [] OTHER -> "timedOut"]
  /\ future["ACK"] = "pending" => now >= sender.until
  /\ UNCHANGED <<now, lifeVars, given, recordVars, futureVars, timer,
                 handler, sentVars, answers>>
-----------------------------------------------------------------------------
(* The inbox loops: onAck() and onNack() on "sys", onReply() on "rpc".     *)

LoopOf(kind) == IF kind = "reply" THEN "rpc" ELSE "sys"

StatusFor(kind) ==
  CASE kind = "ack" -> "ACKED" [] kind = "nack" -> "NACKED"
    [] kind = "reply" -> "RESPONDED"

(* A frame of the peer is taken from the inbox and the entry is looked up. *)
(* Frames for an unknown envelope are dropped, but an ack is not yet.      *)
Receive(kind) ==
  LET h == LoopOf(kind) IN
  /\ handler[h].step = "idle" /\ Running
  /\ sent /\ answers < MaxAnswers
  /\ kind = "ack" => "ACK" \in expects
  /\ kind = "reply" => "REPLY" \in expects
  /\ answers' = answers + 1
  /\ Load(h)
  /\ handler' = [handler EXCEPT ![h] =
       [step |-> IF disk # NoEntry THEN "loaded"
                 ELSE IF kind = "ack" THEN "orphan" ELSE "idle",
        kind |-> kind]]
  /\ UNCHANGED <<now, lifeVars, given, disk, futureVars, timer, sender,
                 sentVars>>

Goto(h, step) ==
  handler' = [handler EXCEPT ![h] = IF step = "idle" THEN IdleLoop
                                    ELSE [@ EXCEPT !.step = step]]

(* The entry gets its new status.                                          *)
Mark(h) ==
  /\ handler[h].step = "loaded"
  /\ Amend(h, [held[h] EXCEPT !.status = StatusFor(handler[h].kind)])
  /\ Goto(h, "storing")
  /\ UNCHANGED <<now, lifeVars, given, futureVars, timer, sender,
                 sentVars, answers>>

(* set() has taken effect: a reply stops the timer before it settles the   *)
(* futures, an ack or a nack afterwards.                                   *)
Stored(h) ==
  /\ handler[h].step = "storing"
  /\ Save(h)
  /\ Goto(h, IF h = "rpc" THEN "clearing" ELSE "settling")
  /\ UNCHANGED <<now, lifeVars, given, futureVars, timer, sender,
                 sentVars, answers>>

Settle(h) ==
  /\ handler[h].step = "settling"
  /\ CASE handler[h].kind = "ack"   -> SettleTo({"ACK"}, "resolved")
       [] handler[h].kind = "nack"  -> SettleTo(Futures, "rejected")
       [] handler[h].kind = "reply" -> SettleTo(Futures, "resolved")
  /\ Goto(h, IF h = "rpc" THEN "idle" ELSE "clearing")
  /\ UNCHANGED <<now, lifeVars, given, recordVars, timer, sender,
                 sentVars, answers>>

(* An ack whose entry is gone may still find a pending future.             *)
SettleOrphan(h) ==
  /\ handler[h].step = "orphan"
  /\ IF "ACK" \in listed /\ future["ACK"] = "pending"
     THEN SettleTo({"ACK"}, "resolved") /\ Goto(h, "clearing")
     ELSE UNCHANGED futureVars /\ Goto(h, "idle")
  /\ UNCHANGED <<now, lifeVars, given, recordVars, timer, sender,
                 sentVars, answers>>

AfterClear(h) == IF h = "rpc" THEN "settling" ELSE "idle"

(* clearTimer(): look the task up and cancel it ...                        *)
CancelTimer(h) ==
  /\ handler[h].step = "clearing"
  /\ IF timer.mapped
     THEN /\ timer' = [timer EXCEPT !.aborted = TRUE, !.joiners = @ \cup {h}]
          /\ Goto(h, "joining")
     ELSE /\ Goto(h, AfterClear(h))
          /\ UNCHANGED timer
  /\ UNCHANGED <<now, lifeVars, given, recordVars, futureVars,
                 sender, sentVars, answers>>

(* A plausible slip: only a task that has been replaced counts as ended.   *)
JoinedReplaced(p) == p \notin timer.joiners

Joined(p) == p \notin timer.joiners \/ ~TimerLive

(* ... wait for its end, then drop whatever the map holds by now.          *)
JoinTimer(h) ==
  /\ handler[h].step = "joining" /\ Joined(h)
  /\ timer' = [timer EXCEPT !.mapped = FALSE]
  /\ Goto(h, AfterClear(h))
  /\ UNCHANGED <<now, lifeVars, given, recordVars, futureVars,
                 sender, sentVars, answers>>

Handle(h) ==
  \/ Mark(h) \/ Stored(h) \/ Settle(h) \/ SettleOrphan(h)
  \/ CancelTimer(h) \/ JoinTimer(h)
-----------------------------------------------------------------------------
(* The timer task.                                                         *)

TimerAt(step) == timer' = [timer EXCEPT !.step = step]
TimerEnds     == timer' = [NoTimer EXCEPT !.mapped = timer.mapped]

(* delay() is rejected, or the signal is seen right after it.              *)
TimerAborted ==
  /\ timer.step = "sleeping" /\ timer.aborted
  /\ TimerEnds
  /\ UNCHANGED <<now, lifeVars, given, recordVars, futureVars,
                 handler, sender, sentVars, answers>>

TimerWakes ==
  /\ timer.step = "sleeping" /\ ~timer.aborted /\ now >= timer.wakeAt
  /\ Load("timer")
  /\ TimerAt("loaded")
  /\ UNCHANGED <<now, lifeVars, given, disk, futureVars, handler,
                 sender, sentVars, answers>>

mine == held["timer"]

(* The entry is gone or answered: nothing to do.                           *)
TimerQuits ==
  /\ timer.step = "loaded" /\ mine.status # "PENDING"
  /\ TimerEnds
  /\ UNCHANGED <<now, lifeVars, given, recordVars, futureVars,
                 handler, sender, sentVars, answers>>

(* A plausible slip: the overall timeout is looked at before the status.   *)
TimerExpiresAnyway ==
  /\ timer.step = "loaded" /\ mine # NoEntry /\ now >= Timeout
  /\ Amend("timer", [mine EXCEPT !.status = "TIMED_OUT"])
  /\ TimerAt("storing")
  /\ UNCHANGED <<now, lifeVars, given, futureVars, handler, sender,
                 sentVars, answers>>

TimerExpires ==
  /\ timer.step = "loaded" /\ mine.status = "PENDING" /\ now >= Timeout
  /\ Amend("timer", [mine EXCEPT !.status = "TIMED_OUT"])
  /\ TimerAt("storing")
  /\ UNCHANGED <<now, lifeVars, given, futureVars, handler, sender,
                 sentVars, answers>>

(* A plausible slip: one attempt too many.                                 *)
MayRetryAgain ==
  /\ timer.step = "loaded" /\ mine.status = "PENDING" /\ now < Timeout
  /\ timer.policy /\ mine.attempt <= MaxRetries

MayRetry ==
  /\ timer.step = "loaded" /\ mine.status = "PENDING" /\ now < Timeout
  /\ timer.policy /\ mine.attempt < MaxRetries

(* getShutdownRetryDeferDelay() returns a delay.                           *)
Deferring ==
  life \in {"preparing", "stopping"} /\ now < shutdownAt + ShutdownGrace

TimerDefers ==
  /\ MayRetry /\ Deferring
  /\ Amend("timer", [mine EXCEPT !.due =
                       LeastOf(Timeout, shutdownAt + ShutdownGrace)])
  /\ TimerAt("storing")
  /\ UNCHANGED <<now, lifeVars, given, futureVars, handler, sender,
                 sentVars, answers>>

(* The attempt is counted in the entry at hand, which is not stored.       *)
TimerRetries ==
  /\ MayRetry /\ ~Deferring
  /\ \E d \in RetryDelays :
       Amend("timer", [mine EXCEPT !.attempt = @ + 1,
                                   !.due = LeastOf(Timeout, After(d))])
  /\ TimerAt("resending")
  /\ sent' = TRUE
  /\ retries' = retries + 1
  /\ UNCHANGED <<now, lifeVars, given, futureVars, handler, sender,
                 answers>>

(* No retry is left: sleep until the overall timeout.                      *)
TimerExhausted ==
  /\ timer.step = "loaded" /\ mine.status = "PENDING" /\ now < Timeout
  /\ ~MayRetry
  /\ Amend("timer", [mine EXCEPT !.due = Timeout])
  /\ TimerAt("storing")
  /\ UNCHANGED <<now, lifeVars, given, futureVars, handler, sender,
                 sentVars, answers>>

(* A plausible slip: the timer is not set again after the last retry.      *)
TimerStoresAndEnds ==
  /\ timer.step = "storing"
  /\ Save("timer")
  /\ IF mine.status = "TIMED_OUT" THEN TimerAt("rejecting") ELSE TimerEnds
  /\ UNCHANGED <<now, lifeVars, given, futureVars, handler, sender,
                 sentVars, answers>>

TimerStores ==
  /\ timer.step = "storing"
  /\ Save("timer")
  /\ TimerAt(IF mine.status = "TIMED_OUT" THEN "rejecting" ELSE "arming")
  /\ UNCHANGED <<now, lifeVars, given, futureVars, handler, sender,
                 sentVars, answers>>

(* A plausible slip: only the reply future is rejected.                    *)
TimerRejectsReply ==
  /\ timer.step = "rejecting"
  /\ SettleTo({"REPLY"}, "rejected")
  /\ TimerEnds
  /\ UNCHANGED <<now, lifeVars, given, recordVars, handler, sender,
                 sentVars, answers>>

TimerRejects ==
  /\ timer.step = "rejecting"
  /\ SettleTo(Futures, "rejected")
  /\ TimerEnds
  /\ UNCHANGED <<now, lifeVars, given, recordVars, handler, sender,
                 sentVars, answers>>

Resent ==
  /\ timer.step = "resending"
  /\ TimerAt("arming")
  /\ UNCHANGED <<now, lifeVars, given, recordVars, futureVars,
                 handler, sender, sentVars, answers>>

(* onRetryNeeded() throws: the task logs the error and ends, and nothing   *)
(* guards the envelope any more.                                           *)
ResendThrows ==
  /\ DeliverMayThrow /\ timer.step = "resending"
  /\ timer' = [NoTimer EXCEPT !.step = "failed", !.mapped = timer.mapped]
  /\ UNCHANGED <<now, lifeVars, given, recordVars, futureVars,
                 handler, sender, sentVars, answers>>

TimerRearms ==
  /\ timer.step = "arming"
  /\ Arm(mine.due, timer.policy)
  /\ UNCHANGED <<now, lifeVars, given, recordVars, futureVars, handler,
                 sender, sentVars, answers>>

TimerSteps ==
  \/ TimerAborted \/ TimerWakes \/ TimerQuits \/ TimerExpires \/ TimerDefers
  \/ TimerRetries \/ TimerExhausted \/ TimerStores \/ TimerRejects
  \/ Resent \/ TimerRearms
-----------------------------------------------------------------------------
(* sweepFuturesLoop() forgets futures settled long enough ago.             *)
Sweep ==
  /\ life \in {"up", "preparing", "stopping"}
  /\ disk.status # "PENDING"
  /\ LET old == {f \in Futures : /\ doneSince[f] # Never
                                 /\ now - doneSince[f] >= SweepGrace} IN
       /\ old # {}
       /\ listed' = listed \ old
       /\ doneSince' = [f \in Futures |->
                          IF f \in old THEN Never ELSE doneSince[f]]
  /\ UNCHANGED <<now, lifeVars, given, recordVars, future, timer,
                 handler, sender, sentVars, answers>>
-----------------------------------------------------------------------------
(* Start and stop of the node.                                             *)

AckPending == "ACK" \in listed /\ future["ACK"] = "pending"

(* onNodePreparingToStop(): retries are deferred from now on, and a        *)
(* pending ack is waited for.                                              *)
PrepareToStop ==
  /\ life = "up"
  /\ life' = IF AckPending THEN "preparing" ELSE "stopping"
  /\ shutdownAt' = now
  /\ UNCHANGED <<now, starts, given, recordVars, futureVars, timer,
                 handler, sender, sentVars, answers>>

(* The wait ends; an acknowledged envelope leaves the outbox.              *)
AckWaitEnds ==
  /\ life = "preparing"
  /\ future["ACK"] # "pending" \/ now >= Timeout
  /\ disk' = IF future["ACK"] = "resolved" THEN NoEntry ELSE disk
  /\ life' = "stopping"
  /\ UNCHANGED <<now, shutdownAt, starts, given, held, futureVars,
                 timer, handler, sender, sentVars, answers>>

(* onNodeStopped(): cleanup() settles and forgets everything, cancels the  *)
(* timer of the map ...                                                    *)
Cleanup ==
  /\ life = "stopping"
  /\ shutdownAt' = Never
  /\ future' = [f \in Futures |-> IF f \in listed /\ future[f] = "pending"
                                  THEN "rejected" ELSE future[f]]
  /\ listed' = {}
  /\ doneSince' = [f \in Futures |-> Never]
  /\ IF timer.mapped
     THEN /\ life' = "joining"
          /\ timer' = [timer EXCEPT !.aborted = TRUE, !.mapped = FALSE,
                                    !.joiners = @ \cup {"stop"}]
     ELSE /\ life' = "draining"
          /\ UNCHANGED timer
  /\ UNCHANGED <<now, starts, given, recordVars, handler, sender,
                 sentVars, answers>>

(* ... waits for its end ...                                               *)
CleanupJoins ==
  /\ life = "joining"
  /\ Joined("stop")
  /\ life' = "draining"
  /\ UNCHANGED <<now, shutdownAt, starts, given, recordVars, futureVars,
                 timer, handler, sender, sentVars, answers>>

(* ... and shutdownTasks() aborts every task that is left.                 *)
ShutdownTasks ==
  /\ life = "draining"
  /\ life' = "stopped"
  /\ timer' = [timer EXCEPT !.aborted = TimerLive \/ @]
  /\ UNCHANGED <<now, shutdownAt, starts, given, recordVars, futureVars,
                 handler, sender, sentVars, answers>>

(* The process dies: what is not in a persistent store is lost.            *)
Crash ==
  /\ ~byReference /\ life # "down"
  /\ life' = "down" /\ shutdownAt' = Never
  /\ held' = [p \in Holders |-> NoEntry]
  /\ future' = [f \in Futures |-> "none"] /\ listed' = {}
  /\ doneSince' = [f \in Futures |-> Never]
  /\ timer' = NoTimer
  /\ handler' = [h \in Loops |-> IdleLoop]
  /\ sender' = [until |-> 0, step |-> IF sender.step = "idle" THEN "idle"
                                         ELSE "crashed"]
  /\ UNCHANGED <<now, starts, given, disk, sentVars,
                 answers>>

(* onNodeStarted(): recoverPending() tracks a pending entry again, with    *)
(* neither a retry policy nor a retry handler.  The coroutines of the      *)
(* previous life have ended by then.                                       *)
Restart ==
  /\ life \in {"stopped", "down"} /\ starts < MaxStarts
  /\ ~TimerLive /\ sender.step \notin {"tracked", "delivering", "awaiting"}
  /\ \A h \in Loops : handler[h].step = "idle"
  /\ life' = "up" /\ starts' = starts + 1
  /\ IF disk.status = "PENDING"
     THEN /\ held' = [held EXCEPT !["timer"] = disk]
          /\ future' = [f \in Futures |->
                          IF f \in expects THEN "pending" ELSE "none"]
          /\ listed' = expects
          /\ Arm(disk.due, FALSE)
     ELSE UNCHANGED <<held, future, listed, timer>>
  /\ UNCHANGED <<now, shutdownAt, given, disk, doneSince,
                 handler, sender, sentVars, answers>>

(* The clock starts with the call of send(): its overall timeout is due at *)
(* Timeout.                                                                *)
Tick ==
  /\ now < MaxTime /\ sender.step # "idle"
  /\ now' = now + 1
  /\ UNCHANGED <<lifeVars, given, recordVars, futureVars, timer,
                 handler, sender, sentVars, answers>>

(* The run is over: nothing is in flight and the node is not coming back.  *)
Stopped ==
  /\ life \in {"stopped", "down"} /\ starts = MaxStarts
  /\ now = MaxTime \/ sender.step = "idle"
  /\ ~TimerLive /\ \A h \in Loops : handler[h].step = "idle"
  /\ sender.step \in {"idle", "done", "acked", "failed", "timedOut", "crashed"}
  /\ UNCHANGED vars

SenderSteps == Track \/ Deliver \/ Delivered \/ AckAwaited
LifeSteps   == PrepareToStop \/ AckWaitEnds \/ Cleanup \/ CleanupJoins
                 \/ ShutdownTasks \/ Crash \/ Restart

Next ==
  \/ SenderSteps \/ DeliverThrows
  \/ \E k \in Kinds : Receive(k)
  \/ \E h \in Loops : Handle(h)
  \/ TimerSteps \/ ResendThrows
  \/ Sweep \/ LifeSteps \/ Tick \/ Stopped

Spec == Init /\ [][Next]_vars

(* The event loop and the clock go on; the delivery function returns; a    *)
(* stop that has begun is carried on.                                      *)
Fairness ==
  /\ WF_vars(Tick) /\ WF_vars(SenderSteps) /\ WF_vars(TimerSteps)
  /\ \A h \in Loops : WF_vars(Handle(h))
  /\ WF_vars(AckWaitEnds) /\ WF_vars(Cleanup) /\ WF_vars(CleanupJoins)
  /\ WF_vars(ShutdownTasks)

FairSpec == Spec /\ Fairness
-----------------------------------------------------------------------------
(* An envelope is never forgotten: while its entry is pending and somebody *)
(* may still wait for an ack or a reply, a timer task is alive for it,     *)
(* or an answer is being recorded, whatever retries, deferrals, answers,   *)
(* clearTimer() calls, crashes and restarts interleave.  Only a retry      *)
(* whose delivery throws ends the chain of timers.  A reply is guarded     *)
(* like an ack with the in-memory store; a copying one may lose the record *)
(* of an ack that has stopped the timer.                                   *)
ReplyPending == "REPLY" \in listed /\ future["REPLY"] = "pending"

PendingIsGuarded ==
  Running /\ disk.status = "PENDING" /\ timer.step # "failed"
    /\ (AckPending \/ (byReference /\ ReplyPending))
    => \/ TimerLive
       \/ sender.step = "tracked"
       \/ \E h \in Loops : handler[h].step \notin {"idle", "loaded"}

(* The sender's retry policy bounds the retries of an envelope, with the   *)
(* in-memory store; a copying one forgets how many there were.             *)
RetriesBoundedInMemory == byReference => retries <= MaxRetries

(* A resolved ack future means that the outbox says so too: the entry is   *)
(* answered, or has been removed; it is neither pending (and about to be   *)
(* retried or recovered) nor timed out.  With a copying store the last     *)
(* writer wins instead.                                                    *)
ResolvedIsRecorded ==
  byReference /\ future["ACK"] = "resolved"
    => disk.status \in Answered \cup {"none"}

(* An answered entry is never put back to pending or timed out, unless a   *)
(* copying store loses the answer.                                         *)
AnswerSticks ==
  [][byReference /\ disk.status \in Answered
       => disk'.status \in Answered \cup {"none"}]_vars

(* Somebody waits for an ack only so long: the tracker settles the future, *)
(* unless a retry has thrown.                                              *)
AckSettles == AckPending ~> (~AckPending \/ timer.step = "failed")

(* A stop comes to its end, and no timer of the envelope survives it.      *)
StopCompletes ==
  (life = "preparing") ~> (life \in {"stopped", "down"} /\ ~TimerLive)
=============================================================================
