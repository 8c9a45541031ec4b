------------------------ MODULE DeliveryTrackerProofs -----------------------
(***************************************************************************)
(* The sender side of a tracked envelope: for any retry policy, delays,    *)
(* graces, answers and restarts, whatever the order of the coroutines.     *)
(***************************************************************************)
EXTENDS DeliveryTracker, TLAPS

(* No object for the envelope, or one that says it has been answered.      *)
IsAnswered(entry) == entry = NoEntry \/ entry.status \in Answered
AnsweredNow == IsAnswered(disk) /\ \A p \in Holders : IsAnswered(held[p])

(* Nothing happens before the envelope is tracked.                         *)
Fresh ==
  sender.step = "idle" =>
    /\ disk = NoEntry /\ \A p \in Holders : held[p] = NoEntry
    /\ sent = FALSE /\ retries = 0 /\ timer.step = "none"
    /\ \A h \in Loops : handler[h].step = "idle"
    /\ listed = {} /\ \A f \in Futures : future[f] = "none"

(* The in-memory store has one object, in the outbox and in all hands.     *)
Agree ==
  byReference =>
    \A p \in Holders : held[p] # NoEntry =>
      /\ disk # NoEntry => held[p] = disk
      /\ \A q \in Holders : held[q] # NoEntry => held[p] = held[q]

(* That object counts the retries.                                         *)
Counted ==
  byReference =>
    /\ retries <= MaxRetries
    /\ disk # NoEntry => disk.attempt = retries
    /\ \A p \in Holders : held[p] # NoEntry => held[p].attempt = retries

(* That object has been answered once an answer is on its way out.         *)
Recorded ==
  byReference =>
    /\ future["ACK"] = "resolved" => AnsweredNow
    /\ \A h \in Loops :
         handler[h].step \in {"storing", "settling", "clearing", "joining"}
           => AnsweredNow

(* That object leaves the outbox only when the envelope has been acked.    *)
Removed ==
  byReference /\ disk = NoEntry /\ sender.step # "idle"
    => future["ACK"] = "resolved"

Orphaned ==
  byReference => \A h \in Loops :
    handler[h].step = "orphan" => future["ACK"] = "resolved"

(* What is about to be written is an answer, or something.                 *)
Writes ==
  /\ \A h \in Loops :
       /\ handler[h].step = "loaded" => held[h] # NoEntry
       /\ handler[h].step = "storing" => held[h].status \in Answered
  /\ timer.step = "storing" => mine # NoEntry

(* Who has cancelled a timer of a running node waits for its end.          *)
Aborted ==
  timer.aborted = TRUE /\ TimerLive /\ Running =>
    \E h \in Loops : handler[h].step = "joining" /\ h \in timer.joiners

(* The system inbox stops the timer after it has settled the ack.          *)
SysDone == handler["sys"].step \in {"clearing", "joining"} => ~AckPending

(* A timer that finds an answer is not mistaken.                           *)
LoadedSees ==
  timer.step = "loaded" /\ mine.status # "PENDING" => disk.status # "PENDING"

Memory == Fresh /\ Agree /\ Counted /\ Recorded /\ Removed /\ Orphaned /\ Writes
Guard == Aborted /\ SysDone /\ LoadedSees /\ PendingIsGuarded

IInv == TypeOK /\ Memory /\ Guard
-----------------------------------------------------------------------------
TimerSets == LiveSteps \cup {"none", "failed"}

(* The lesser of two numbers is one of them.                               *)
LEMMA LeastIs ==
  ASSUME NEW a \in Int, NEW b \in Int
  PROVE  /\ LeastOf(a, b) \in {a, b}
         /\ LeastOf(a, b) <= a /\ LeastOf(a, b) <= b
BY DEF LeastOf

(* An entry is something that has one of its statuses.                     *)
LEMMA EntryIs ==
  /\ NoEntry \in Entries /\ NoEntry.status = "none" /\ NoEntry.attempt = 0
  /\ \A e \in Entries : e # NoEntry <=> e.status \in Statuses
  /\ \A e \in Entries : e.attempt \in Nat /\ e.due \in 0 .. Timeout
<1>1. NoEntry \in Entries /\ NoEntry.status = "none" /\ NoEntry.attempt = 0
  BY DEF NoEntry, Entries
<1>2. NoEntry.due \in 0 .. Timeout
  BY TimeAssumption DEF NoEntry
<1>3. "none" \notin Statuses
  BY DEF Statuses
<1>4. ASSUME NEW e \in Entries, e # NoEntry
      PROVE  e.status \in Statuses /\ e.attempt \in Nat /\ e.due \in 0 .. Timeout
  BY <1>4 DEF Entries
<1>5. QED
  BY <1>1, <1>2, <1>3, <1>4

(* An entry that is written to: its status ...                             *)
LEMMA EntryStatus ==
  ASSUME NEW e \in Entries, NEW s \in Statuses
  PROVE  LET n == [e EXCEPT !.status = s]
         IN  /\ n \in Entries /\ n # NoEntry /\ n.status = s
             /\ n.attempt = e.attempt
<1> DEFINE n == [e EXCEPT !.status = s]
<1>1. e \in [status : Statuses \cup {"none"}, attempt : Nat,
             due : 0 .. Timeout]
  BY TimeAssumption DEF Entries, NoEntry
<1>2. n \in [status : Statuses, attempt : Nat, due : 0 .. Timeout]
  BY <1>1
<1>3. n.status = s /\ n.attempt = e.attempt
  BY <1>1
<1> HIDE DEF n
<1>4. n \in Entries
  BY <1>2 DEF Entries
<1>5. QED
  BY <1>3, <1>4, EntryIs DEF n

(* ... or when it is due.                                                  *)
LEMMA EntryDue ==
  ASSUME NEW e \in Entries, e # NoEntry, NEW d \in 0 .. Timeout
  PROVE  LET n == [e EXCEPT !.due = d]
         IN  n \in Entries /\ n # NoEntry /\ n.attempt = e.attempt
<1> DEFINE n == [e EXCEPT !.due = d]
<1>1. e \in [status : Statuses, attempt : Nat, due : 0 .. Timeout]
  BY DEF Entries
<1>2. n \in [status : Statuses, attempt : Nat, due : 0 .. Timeout]
  BY <1>1
<1>3. /\ n.status = e.status /\ n.attempt = e.attempt
      /\ e.status \in Statuses
  BY <1>1
<1> HIDE DEF n
<1>4. n \in Entries
  BY <1>2 DEF Entries
<1>5. QED
  BY <1>3, <1>4, EntryIs DEF n

(* The timer goes on, ends or is set again.                                *)
LEMMA TimerGoes ==
  ASSUME timer \in Timers, NEW step \in TimerSets, TimerAt(step)
  PROVE  /\ timer' \in Timers /\ timer'.step = step
         /\ timer'.aborted = timer.aborted /\ timer'.mapped = timer.mapped
         /\ timer'.joiners = timer.joiners /\ timer'.policy = timer.policy
BY DEF TimerAt, Timers, TimerSets

(* The timer that is not there.                                            *)
LEMMA TimerStops ==
  ASSUME timer \in Timers, NEW step \in {"none", "failed"},
         timer' = [NoTimer EXCEPT !.step = step, !.mapped = timer.mapped]
  PROVE  timer' \in Timers /\ timer'.step = step
<1>1. NoTimer \in Timers
  BY TimeAssumption DEF NoTimer, Timers, Time
<1>2. timer.mapped \in BOOLEAN
  BY DEF Timers
<1>3. QED
  BY <1>1, <1>2 DEF Timers

(* The same when it has come to its end.                                   *)
LEMMA TimerEnded ==
  ASSUME timer \in Timers, TimerEnds
  PROVE  timer' \in Timers /\ timer'.step = "none"
<1>1. NoTimer \in Timers /\ NoTimer.step = "none"
  BY TimeAssumption DEF NoTimer, Timers, Time
<1>2. timer.mapped \in BOOLEAN
  BY DEF Timers
<1>3. timer' = [NoTimer EXCEPT !.mapped = timer.mapped]
  BY DEF TimerEnds
<1>4. QED
  BY <1>1, <1>2, <1>3 DEF Timers

(* A new timer has not been cancelled.                                     *)
LEMMA Armed ==
  ASSUME NEW due \in 0 .. Timeout, NEW policy \in BOOLEAN, Arm(due, policy)
  PROVE  /\ timer' \in Timers /\ timer'.step = "sleeping"
         /\ timer'.aborted = FALSE
<1>1. NoTimer \in Timers /\ NoTimer.aborted = FALSE
  BY TimeAssumption DEF NoTimer, Timers, Time
<1>2. LeastOf(due, Timeout) \in Time
  BY TimeAssumption, LeastIs DEF Time
<1> DEFINE w == LeastOf(due, Timeout)
<1>3. timer' = [NoTimer EXCEPT !.step = "sleeping", !.policy = policy,
                               !.wakeAt = w, !.mapped = TRUE]
  BY DEF Arm
<1> HIDE DEF w
<1>4. w \in Time
  BY <1>2 DEF w
<1>5. QED
  BY <1>1, <1>3, <1>4 DEF Timers, LiveSteps

(* A loop goes on with the frame at hand, or is free.                      *)
LEMMA Went ==
  ASSUME handler \in [Loops -> Handlers], NEW h \in Loops,
         NEW step \in {"idle", "loaded", "orphan", "storing", "settling",
                       "clearing", "joining"},
         Goto(h, step)
  PROVE  /\ handler' \in [Loops -> Handlers]
         /\ handler'[h].step = step
         /\ \A g \in Loops : g # h => handler'[g] = handler[g]
<1> DEFINE n == IF step = "idle" THEN IdleLoop
                ELSE [handler[h] EXCEPT !.step = step]
<1>1. handler[h] \in Handlers
  OBVIOUS
<1>2. n \in Handlers /\ n.step = step
  BY <1>1 DEF Handlers, IdleLoop, Kinds
<1>3. handler' = [handler EXCEPT ![h] = n]
  BY DEF Goto
<1> HIDE DEF n
<1>4. QED
  BY <1>2, <1>3

(* The entry comes into somebody's hands.                                  *)
LEMMA Loaded ==
  ASSUME held \in [Holders -> Entries], disk \in Entries,
         NEW p \in Holders, Load(p)
  PROVE  /\ held' \in [Holders -> Entries] /\ held'[p] = disk
         /\ \A q \in Holders :
              /\ byReference /\ disk # NoEntry => held'[q] = disk
              /\ q # p /\ ~(byReference /\ disk # NoEntry) =>
                   held'[q] = held[q]
BY DEF Load

(* A field of it is assigned.                                              *)
LEMMA Amended ==
  ASSUME held \in [Holders -> Entries], disk \in Entries,
         NEW p \in Holders, NEW entry \in Entries, Amend(p, entry)
  PROVE  /\ held' \in [Holders -> Entries] /\ disk' \in Entries
         /\ held'[p] = entry
         /\ byReference => /\ \A q \in Holders : held'[q] = entry
                           /\ disk = NoEntry => disk' = NoEntry
                           /\ disk # NoEntry => disk' = entry
         /\ ~byReference => /\ \A q \in Holders : q # p => held'[q] = held[q]
                            /\ disk' = disk
BY EntryIs DEF Amend

(* Futures settle.                                                         *)
LEMMA Settled ==
  ASSUME future \in [Futures -> FutureStates], listed \subseteq Futures,
         doneSince \in [Futures -> Time \cup {Never}], now \in Time,
         NEW fs \in SUBSET Futures, NEW outcome \in {"resolved", "rejected"},
         SettleTo(fs, outcome)
  PROVE  /\ future' \in [Futures -> FutureStates] /\ listed' = listed
         /\ doneSince' \in [Futures -> Time \cup {Never}]
         /\ \A f \in Futures :
              /\ f \in fs \cap listed /\ future[f] = "pending" =>
                   future'[f] = outcome
              /\ ~(f \in fs \cap listed /\ future[f] = "pending") =>
                   future'[f] = future[f]
<1>1. outcome \in FutureStates
  BY DEF FutureStates
<1>2. QED
  BY <1>1 DEF SettleTo
-----------------------------------------------------------------------------
(* Time passes.                                                            *)
LEMMA TickKeeps ==
  ASSUME IInv, Tick
  PROVE  IInv'
<1>1. UNCHANGED <<life, shutdownAt, starts, byReference,
                  expects, disk, held, future, listed,
                  doneSince, timer, handler, sender, sent,
                  retries, answers>>
  BY DEF Tick, lifeVars, given, recordVars, futureVars, sentVars
<1>2. /\ timer \in Timers /\ handler \in [Loops -> Handlers]
      /\ held \in [Holders -> Entries] /\ disk \in Entries
      /\ future \in [Futures -> FutureStates] /\ listed \subseteq Futures
      /\ doneSince \in [Futures -> Time \cup {Never}] /\ now \in Time
      /\ retries \in Nat /\ sender \in Senders
  BY DEF IInv, TypeOK
<1>3. now' \in Time
  BY TimeAssumption DEF IInv, TypeOK, Tick, Time
<1>4. TypeOK'
  BY <1>1, <1>3 DEF IInv, TypeOK
<1>5. Fresh'
  BY <1>1 DEF IInv, Memory, Fresh
<1>6. Agree'
  BY <1>1 DEF IInv, Memory, Agree
<1>7. Counted'
  BY <1>1 DEF IInv, Memory, Counted
<1>8. Recorded'
  BY <1>1 DEF IInv, Memory, Recorded, AnsweredNow, IsAnswered
<1>9. Removed'
  BY <1>1 DEF IInv, Memory, Removed
<1>10. Orphaned'
  BY <1>1 DEF IInv, Memory, Orphaned
<1>11. Writes'
  BY <1>1 DEF IInv, Memory, Writes, mine
<1>12. Aborted'
  BY <1>1 DEF IInv, Guard, Aborted, TimerLive, Running
<1>13. SysDone'
  BY <1>1 DEF IInv, Guard, SysDone, AckPending, Loops
<1>14. LoadedSees'
  BY <1>1 DEF IInv, Guard, LoadedSees, mine
<1>15. PendingIsGuarded'
  BY <1>1 DEF IInv, Guard, PendingIsGuarded, TimerLive, Running,
     AckPending, ReplyPending
<1>16. QED
  BY <1>4, <1>5, <1>6, <1>7, <1>8, <1>9, <1>10, <1>11, <1>12, <1>13,
     <1>14, <1>15 DEF IInv, Memory, Guard

(* The delivery function returns or throws.                                *)
LEMMA DeliveredKeeps ==
  ASSUME IInv, Delivered \/ DeliverThrows
  PROVE  IInv'
<1>1. UNCHANGED <<now, life, shutdownAt, starts,
                  byReference, expects, disk, held, future,
                  listed, doneSince, timer, handler, sent,
                  retries, answers>>
  BY DEF Delivered, DeliverThrows, lifeVars, given, recordVars,
     futureVars, sentVars
<1>2. /\ timer \in Timers /\ handler \in [Loops -> Handlers]
      /\ held \in [Holders -> Entries] /\ disk \in Entries
      /\ future \in [Futures -> FutureStates] /\ listed \subseteq Futures
      /\ doneSince \in [Futures -> Time \cup {Never}] /\ now \in Time
      /\ retries \in Nat /\ sender \in Senders
  BY DEF IInv, TypeOK
<1>3. /\ sender' \in Senders /\ sender.step = "delivering"
      /\ sender'.step \notin {"idle", "tracked"}
  <2>1. CASE Delivered
    <3>1. After(Timeout) \in Time /\ 0 \in Time
      BY <1>2, TimeAssumption, LeastIs DEF After, Time
    <3>2. QED
      BY <1>2, <2>1, <3>1 DEF Delivered, Senders
  <2>2. CASE DeliverThrows
    BY <1>2, <2>2 DEF DeliverThrows, Senders
  <2>3. QED
    BY <2>1, <2>2
<1>4. TypeOK'
  BY <1>1, <1>3 DEF IInv, TypeOK
<1>5. Fresh'
  BY <1>1, <1>3 DEF IInv, Memory, Fresh
<1>6. Agree'
  BY <1>1 DEF IInv, Memory, Agree
<1>7. Counted'
  BY <1>1 DEF IInv, Memory, Counted
<1>8. Recorded'
  BY <1>1 DEF IInv, Memory, Recorded, AnsweredNow, IsAnswered
<1>9. Removed'
  BY <1>1, <1>3 DEF IInv, Memory, Removed
<1>10. Orphaned'
  BY <1>1 DEF IInv, Memory, Orphaned
<1>11. Writes'
  BY <1>1 DEF IInv, Memory, Writes, mine
<1>12. Aborted'
  BY <1>1 DEF IInv, Guard, Aborted, TimerLive, Running
<1>13. SysDone'
  BY <1>1 DEF IInv, Guard, SysDone, AckPending, Loops
<1>14. LoadedSees'
  BY <1>1 DEF IInv, Guard, LoadedSees, mine
<1>15. PendingIsGuarded'
  BY <1>1, <1>3 DEF IInv, Guard, PendingIsGuarded, TimerLive, Running,
     AckPending, ReplyPending
<1>16. QED
  BY <1>4, <1>5, <1>6, <1>7, <1>8, <1>9, <1>10, <1>11, <1>12, <1>13,
     <1>14, <1>15 DEF IInv, Memory, Guard

(* The wait for the ack ends.                                              *)
LEMMA AckAwaitedKeeps ==
  ASSUME IInv, AckAwaited
  PROVE  IInv'
<1>1. UNCHANGED <<now, life, shutdownAt, starts,
                  byReference, expects, disk, held, future,
                  listed, doneSince, timer, handler, sent,
                  retries, answers>>
  BY DEF AckAwaited, lifeVars, given, recordVars, futureVars, sentVars
<1>2. /\ timer \in Timers /\ handler \in [Loops -> Handlers]
      /\ held \in [Holders -> Entries] /\ disk \in Entries
      /\ future \in [Futures -> FutureStates] /\ listed \subseteq Futures
      /\ doneSince \in [Futures -> Time \cup {Never}] /\ now \in Time
      /\ retries \in Nat /\ sender \in Senders
  BY DEF IInv, TypeOK
<1>3. /\ sender' \in Senders /\ sender.step = "awaiting"
      /\ sender'.step \notin {"idle", "tracked"}
  <2>1. 0 \in Time
    BY TimeAssumption DEF Time
  <2>2. QED
    BY <1>2, <2>1 DEF AckAwaited, Senders
<1>4. TypeOK'
  BY <1>1, <1>3 DEF IInv, TypeOK
<1>5. Fresh'
  BY <1>1, <1>3 DEF IInv, Memory, Fresh
<1>6. Agree'
  BY <1>1 DEF IInv, Memory, Agree
<1>7. Counted'
  BY <1>1 DEF IInv, Memory, Counted
<1>8. Recorded'
  BY <1>1 DEF IInv, Memory, Recorded, AnsweredNow, IsAnswered
<1>9. Removed'
  BY <1>1, <1>3 DEF IInv, Memory, Removed
<1>10. Orphaned'
  BY <1>1 DEF IInv, Memory, Orphaned
<1>11. Writes'
  BY <1>1 DEF IInv, Memory, Writes, mine
<1>12. Aborted'
  BY <1>1 DEF IInv, Guard, Aborted, TimerLive, Running
<1>13. SysDone'
  BY <1>1 DEF IInv, Guard, SysDone, AckPending, Loops
<1>14. LoadedSees'
  BY <1>1 DEF IInv, Guard, LoadedSees, mine
<1>15. PendingIsGuarded'
  BY <1>1, <1>3 DEF IInv, Guard, PendingIsGuarded, TimerLive, Running,
     AckPending, ReplyPending
<1>16. QED
  BY <1>4, <1>5, <1>6, <1>7, <1>8, <1>9, <1>10, <1>11, <1>12, <1>13,
     <1>14, <1>15 DEF IInv, Memory, Guard

(* The envelope is tracked: nothing has been said about it yet.            *)
LEMMA TrackKeeps ==
  ASSUME IInv, Track
  PROVE  IInv'
<1>1. UNCHANGED <<now, life, shutdownAt, starts,
                  byReference, expects, held, doneSince,
                  timer, handler, sent, retries, answers>>
  BY DEF Track, lifeVars, given, recordVars, futureVars, sentVars
<1>2. /\ timer \in Timers /\ handler \in [Loops -> Handlers]
      /\ held \in [Holders -> Entries] /\ disk \in Entries
      /\ future \in [Futures -> FutureStates] /\ listed \subseteq Futures
      /\ doneSince \in [Futures -> Time \cup {Never}] /\ now \in Time
      /\ retries \in Nat /\ sender \in Senders
  BY DEF IInv, TypeOK
<1>3. /\ sender' \in Senders /\ sender.step = "idle"
      /\ sender'.step = "tracked"
  BY <1>2 DEF Track, Senders
<1>4. /\ disk' \in Entries /\ disk'.status = "PENDING"
      /\ disk'.attempt = 0 /\ disk' # NoEntry
  <2>1. PICK d \in RetryDelays :
          disk' = [status |-> "PENDING", attempt |-> 0,
                   due |-> IF MaxRetries > 0 THEN LeastOf(d, Timeout)
                                             ELSE Timeout]
    BY DEF Track
  <2> DEFINE due == IF MaxRetries > 0 THEN LeastOf(d, Timeout) ELSE Timeout
  <2>2. due \in 0 .. Timeout
    BY RetryAssumption, TimeAssumption, LeastIs
  <2> HIDE DEF due
  <2>3. disk' = [status |-> "PENDING", attempt |-> 0, due |-> due]
    BY <2>1 DEF due
  <2>4. disk' \in Entries /\ disk'.status = "PENDING" /\ disk'.attempt = 0
    BY <2>2, <2>3 DEF Entries, Statuses
  <2>5. QED
    BY <2>4, EntryIs
<1>5. /\ future' \in [Futures -> FutureStates]
      /\ future'["ACK"] # "resolved" /\ listed' \subseteq Futures
  <2>1. expects \subseteq Futures
    BY ExpectAssumption DEF IInv, TypeOK, Futures
  <2>2. QED
    BY <2>1 DEF Track, FutureStates, Futures
<1>6. /\ \A p \in Holders : held[p] = NoEntry
      /\ retries = 0 /\ timer.step = "none"
      /\ \A h \in Loops : handler[h].step = "idle"
  BY <1>3 DEF IInv, Memory, Fresh
<1>7. TypeOK'
  BY <1>1, <1>3, <1>4, <1>5 DEF IInv, TypeOK
<1>8. Fresh'
  BY <1>1, <1>3 DEF IInv, Memory, Fresh
<1>9. Agree'
  BY <1>1, <1>6 DEF IInv, Memory, Agree
<1>10. Counted'
  BY <1>1, <1>4, <1>6, RetryAssumption DEF Counted
<1>11. Recorded'
  BY <1>1, <1>5, <1>6 DEF IInv, Memory, Recorded, AnsweredNow, IsAnswered
<1>12. Removed'
  BY <1>1, <1>4 DEF IInv, Memory, Removed
<1>13. Orphaned'
  BY <1>1, <1>6 DEF IInv, Memory, Orphaned
<1>14. Writes'
  BY <1>1 DEF IInv, Memory, Writes, mine
<1>15. Aborted'
  BY <1>1 DEF IInv, Guard, Aborted, TimerLive, Running
<1>16. SysDone'
  BY <1>1, <1>6 DEF IInv, Guard, SysDone, AckPending, Loops
<1>17. LoadedSees'
  BY <1>1, <1>6 DEF IInv, Guard, LoadedSees, mine
<1>18. PendingIsGuarded'
  BY <1>1, <1>3 DEF IInv, Guard, PendingIsGuarded, TimerLive, Running,
     AckPending, ReplyPending
<1>19. QED
  BY <1>7, <1>8, <1>9, <1>10, <1>11, <1>12, <1>13, <1>14, <1>15, <1>16,
     <1>17, <1>18 DEF IInv, Memory, Guard

(* The timer is set and the envelope is delivered.                         *)
LEMMA DeliverKeeps ==
  ASSUME IInv, Deliver
  PROVE  IInv'
<1>1. UNCHANGED <<now, life, shutdownAt, starts,
                  byReference, expects, disk, held, future,
                  listed, doneSince, handler, retries,
                  answers>>
  BY DEF Deliver, lifeVars, given, recordVars, futureVars, sentVars
<1>2. /\ timer \in Timers /\ handler \in [Loops -> Handlers]
      /\ held \in [Holders -> Entries] /\ disk \in Entries
      /\ future \in [Futures -> FutureStates] /\ listed \subseteq Futures
      /\ doneSince \in [Futures -> Time \cup {Never}] /\ now \in Time
      /\ retries \in Nat /\ sender \in Senders
  BY DEF IInv, TypeOK
<1>3. /\ sender' \in Senders /\ sender.step = "tracked"
      /\ sender'.step = "delivering" /\ sent' = TRUE
  BY <1>2 DEF Deliver, Senders
<1>4. /\ timer' \in Timers /\ timer'.step = "sleeping"
      /\ timer'.aborted = FALSE
  <2>1. disk.due \in 0 .. Timeout /\ (MaxRetries > 0) \in BOOLEAN
    BY <1>2, EntryIs
  <2>2. Arm(disk.due, MaxRetries > 0)
    BY DEF Deliver
  <2>3. QED
    BY <2>1, <2>2, Armed
<1>5. TypeOK'
  BY <1>1, <1>3, <1>4 DEF IInv, TypeOK
<1>6. Fresh'
  BY <1>1, <1>3 DEF IInv, Memory, Fresh
<1>7. Agree'
  BY <1>1 DEF IInv, Memory, Agree
<1>8. Counted'
  BY <1>1 DEF IInv, Memory, Counted
<1>9. Recorded'
  BY <1>1 DEF IInv, Memory, Recorded, AnsweredNow, IsAnswered
<1>10. Removed'
  BY <1>1, <1>3 DEF IInv, Memory, Removed
<1>11. Orphaned'
  BY <1>1 DEF IInv, Memory, Orphaned
<1>12. Writes'
  BY <1>1, <1>4 DEF IInv, Memory, Writes, mine
<1>13. Aborted'
  BY <1>4 DEF Aborted
<1>14. SysDone'
  BY <1>1 DEF IInv, Guard, SysDone, AckPending, Loops
<1>15. LoadedSees'
  BY <1>1, <1>4 DEF IInv, Guard, LoadedSees, mine
<1>16. PendingIsGuarded'
  BY <1>4 DEF PendingIsGuarded, TimerLive, LiveSteps
<1>17. QED
  BY <1>5, <1>6, <1>7, <1>8, <1>9, <1>10, <1>11, <1>12, <1>13, <1>14,
     <1>15, <1>16 DEF IInv, Memory, Guard

(* A frame arrives at an idle loop.                                        *)
LEMMA ReceiveKeeps ==
  ASSUME IInv, NEW k \in Kinds, Receive(k)
  PROVE  IInv'
<1>1. UNCHANGED <<now, life, shutdownAt, starts,
                  byReference, expects, disk, future,
                  listed, doneSince, timer, sender, sent,
                  retries>>
  BY DEF Receive, lifeVars, given, recordVars, futureVars, sentVars
<1>2. /\ timer \in Timers /\ handler \in [Loops -> Handlers]
      /\ held \in [Holders -> Entries] /\ disk \in Entries
      /\ future \in [Futures -> FutureStates] /\ listed \subseteq Futures
      /\ doneSince \in [Futures -> Time \cup {Never}] /\ now \in Time
      /\ retries \in Nat /\ sender \in Senders
  BY DEF IInv, TypeOK
<1>3. answers' \in Nat
  BY DEF Receive, IInv, TypeOK
<1>4. PICK h \in Loops : h = LoopOf(k)
  BY DEF LoopOf, Loops
<1>5. handler[h].step = "idle" /\ sent = TRUE /\ Load(h) /\ Running
  BY <1>4 DEF Receive, IInv, TypeOK
<1>6. /\ handler' \in [Loops -> Handlers]
      /\ handler'[h].step \in {"loaded", "orphan", "idle"}
      /\ handler'[h].step = "loaded" => disk # NoEntry
      /\ handler'[h].step = "orphan" => disk = NoEntry
      /\ \A g \in Loops : g # h => handler'[g] = handler[g]
  <2> DEFINE s == IF disk # NoEntry THEN "loaded"
                  ELSE IF k = "ack" THEN "orphan" ELSE "idle"
             n == [step |-> s, kind |-> k]
  <2>1. n \in Handlers /\ n.step = s
    BY DEF Handlers
  <2>2. /\ s \in {"loaded", "orphan", "idle"}
        /\ s = "loaded" => disk # NoEntry
        /\ s = "orphan" => disk = NoEntry
    OBVIOUS
  <2>3. handler' = [handler EXCEPT ![h] = n]
    BY <1>4 DEF Receive
  <2> HIDE DEF n, s
  <2>4. QED
    BY <1>2, <2>1, <2>2, <2>3
<1>7. /\ held' \in [Holders -> Entries] /\ held'[h] = disk
      /\ \A q \in Holders :
           /\ byReference /\ disk # NoEntry => held'[q] = disk
           /\ q # h /\ ~(byReference /\ disk # NoEntry) =>
                held'[q] = held[q]
  <2>1. h \in Holders
    BY DEF Holders
  <2>2. QED
    BY <1>2, <1>5, <2>1, Loaded
<1>8. sender.step # "idle"
  BY <1>5 DEF IInv, Memory, Fresh
<1>9. h \in Holders /\ h # "timer" /\ "timer" \in Holders
  BY DEF Holders, Loops
<1>10. TypeOK'
  BY <1>1, <1>3, <1>6, <1>7 DEF IInv, TypeOK
<1>11. Fresh'
  BY <1>1, <1>8 DEF IInv, Memory, Fresh
<1>12. Agree'
  BY <1>1, <1>7 DEF IInv, Memory, Agree
<1>13. Counted'
  BY <1>1, <1>7 DEF IInv, Memory, Counted
<1>14. Recorded'
  BY <1>1, <1>6, <1>7 DEF IInv, Memory, Recorded, AnsweredNow, IsAnswered
<1>15. Removed'
  BY <1>1 DEF IInv, Memory, Removed
<1>16. Orphaned'
  BY <1>1, <1>6, <1>8 DEF IInv, Memory, Orphaned, Removed
<1>17. Writes'
  <2>1. mine' = held'["timer"] /\ mine = held["timer"]
    BY DEF mine
  <2>2. CASE byReference /\ disk # NoEntry
    <3>1. \A q \in Holders : held'[q] = disk
      BY <1>7, <2>2
    <3>2. ASSUME NEW g \in Loops, handler'[g].step = "storing"
          PROVE  disk.status \in Answered
      <4>1. handler[g].step = "storing"
        BY <1>6, <3>2
      <4>2. AnsweredNow
        BY <2>2, <4>1 DEF IInv, Memory, Recorded
      <4>3. QED
        BY <2>2, <4>2 DEF AnsweredNow, IsAnswered
    <3>3. QED
      BY <1>9, <2>1, <2>2, <3>1, <3>2 DEF Writes, Holders
  <2>3. CASE ~(byReference /\ disk # NoEntry)
    <3>1. \A q \in Holders : q # h => held'[q] = held[q]
      BY <1>7, <2>3
    <3>2. QED
      BY <1>1, <1>6, <1>7, <1>9, <2>1, <3>1 DEF IInv, Memory, Writes, Holders
  <2>4. QED
    BY <2>2, <2>3
<1>18. Aborted'
  BY <1>1, <1>5, <1>6 DEF IInv, Guard, Aborted, TimerLive, Running
<1>19. SysDone'
  BY <1>1, <1>6 DEF IInv, Guard, SysDone, AckPending, Loops
<1>20. LoadedSees'
  BY <1>1, <1>7, <1>9 DEF IInv, Guard, LoadedSees, mine
<1>21. PendingIsGuarded'
  BY <1>1, <1>5, <1>6 DEF IInv, Guard, PendingIsGuarded, TimerLive,
     Running, AckPending, ReplyPending
<1>22. QED
  BY <1>10, <1>11, <1>12, <1>13, <1>14, <1>15, <1>16, <1>17, <1>18, <1>19,
     <1>20, <1>21 DEF IInv, Memory, Guard

(* The entry gets its new status.                                          *)
LEMMA MarkKeeps ==
  ASSUME IInv, NEW h \in Loops, Mark(h)
  PROVE  IInv'
<1>1. UNCHANGED <<now, life, shutdownAt, starts,
                  byReference, expects, future, listed,
                  doneSince, timer, sender, sent, retries,
                  answers>>
  BY DEF Mark, lifeVars, given, recordVars, futureVars, sentVars
<1>2. /\ timer \in Timers /\ handler \in [Loops -> Handlers]
      /\ held \in [Holders -> Entries] /\ disk \in Entries
      /\ future \in [Futures -> FutureStates] /\ listed \subseteq Futures
      /\ doneSince \in [Futures -> Time \cup {Never}] /\ now \in Time
      /\ retries \in Nat /\ sender \in Senders
  BY DEF IInv, TypeOK
<1>3. /\ handler' \in [Loops -> Handlers]
      /\ handler'[h].step = "storing"
      /\ \A g \in Loops : g # h => handler'[g] = handler[g]
  <2>1. Goto(h, "storing")
    BY DEF Mark
  <2>2. QED
    BY <1>2, <2>1, Went
<1>4. /\ handler[h].step = "loaded" /\ held[h] # NoEntry
      /\ h \in Holders /\ h # "timer" /\ "timer" \in Holders
  BY DEF Mark, IInv, Memory, Writes, Holders, Loops
<1>5. PICK n \in Entries :
        /\ Amend(h, n) /\ n # NoEntry /\ n.status \in Answered
        /\ n.attempt = held[h].attempt
  <2>1. StatusFor(handler[h].kind) \in Answered
    <3>1. handler[h].kind \in Kinds
      BY <1>2 DEF Handlers
    <3>2. QED
      BY <3>1 DEF StatusFor, Answered, Kinds
  <2>2. StatusFor(handler[h].kind) \in Statuses
    BY <2>1 DEF Answered, Statuses
  <2>3. held[h] \in Entries
    BY <1>2, <1>4
  <2> DEFINE s == StatusFor(handler[h].kind)
             n == [held[h] EXCEPT !.status = s]
  <2>4. Amend(h, n)
    BY DEF Mark
  <2> HIDE DEF s
  <2>5. n \in Entries /\ n # NoEntry /\ n.status = s /\ n.attempt = held[h].attempt
    BY <2>2, <2>3, EntryStatus DEF s
  <2> HIDE DEF n
  <2>6. s \in Answered
    BY <2>1 DEF s
  <2>7. QED
    BY <2>4, <2>5, <2>6
<1>6. /\ held' \in [Holders -> Entries] /\ disk' \in Entries
      /\ held'[h] = n
      /\ byReference => /\ \A q \in Holders : held'[q] = n
                        /\ disk = NoEntry => disk' = NoEntry
                        /\ disk # NoEntry => disk' = n
      /\ ~byReference => /\ \A q \in Holders : q # h => held'[q] = held[q]
                         /\ disk' = disk
  BY <1>2, <1>4, <1>5, Amended
<1>7. sender.step # "idle"
  BY <1>4 DEF IInv, Memory, Fresh
<1>8. TypeOK'
  BY <1>1, <1>3, <1>6 DEF IInv, TypeOK
<1>9. Fresh'
  BY <1>1, <1>7 DEF IInv, Memory, Fresh
<1>10. Agree'
  BY <1>1, <1>6 DEF IInv, Memory, Agree
<1>11. Counted'
  BY <1>1, <1>4, <1>5, <1>6 DEF IInv, Memory, Counted
<1>12. Recorded'
  BY <1>1, <1>5, <1>6 DEF IInv, Memory, Recorded, AnsweredNow, IsAnswered
<1>13. Removed'
  BY <1>1, <1>5, <1>6 DEF IInv, Memory, Removed
<1>14. Orphaned'
  BY <1>1, <1>3 DEF IInv, Memory, Orphaned
<1>15. Writes'
  <2>1. mine' = held'["timer"] /\ mine = held["timer"]
    BY DEF mine
  <2>2. CASE byReference
    BY <1>1, <1>3, <1>4, <1>5, <1>6, <2>1, <2>2 DEF IInv, Memory,
       Writes, Holders
  <2>3. CASE ~byReference
    BY <1>1, <1>3, <1>4, <1>5, <1>6, <2>1, <2>3 DEF IInv, Memory,
       Writes, Holders
  <2>4. QED
    BY <2>2, <2>3
<1>16. Aborted'
  BY <1>1, <1>3, <1>4 DEF IInv, Guard, Aborted, TimerLive, Running
<1>17. SysDone'
  BY <1>1, <1>3 DEF IInv, Guard, SysDone, AckPending, Loops
<1>18. LoadedSees'
  <2>1. n.status # "PENDING" /\ NoEntry.status # "PENDING"
    BY <1>5, EntryIs DEF Answered
  <2>2. mine' = held'["timer"] /\ mine = held["timer"]
    BY DEF mine
  <2>3. QED
    BY <1>1, <1>4, <1>6, <2>1, <2>2 DEF IInv, Guard, LoadedSees
<1>19. PendingIsGuarded'
  BY <1>1, <1>3 DEF IInv, Guard, PendingIsGuarded, TimerLive, Running,
     AckPending, ReplyPending
<1>20. QED
  BY <1>8, <1>9, <1>10, <1>11, <1>12, <1>13, <1>14, <1>15, <1>16, <1>17,
     <1>18, <1>19 DEF IInv, Memory, Guard

(* The entry is written.                                                   *)
LEMMA StoredKeeps ==
  ASSUME IInv, NEW h \in Loops, Stored(h)
  PROVE  IInv'
<1>1. UNCHANGED <<now, life, shutdownAt, starts,
                  byReference, expects, held, future,
                  listed, doneSince, timer, sender, sent,
                  retries, answers>>
  BY DEF Stored, Save, lifeVars, given, recordVars, futureVars, sentVars
<1>2. /\ timer \in Timers /\ handler \in [Loops -> Handlers]
      /\ held \in [Holders -> Entries] /\ disk \in Entries
      /\ future \in [Futures -> FutureStates] /\ listed \subseteq Futures
      /\ doneSince \in [Futures -> Time \cup {Never}] /\ now \in Time
      /\ retries \in Nat /\ sender \in Senders
  BY DEF IInv, TypeOK
<1>3. /\ handler[h].step = "storing" /\ disk' = held[h]
      /\ held[h].status \in Answered /\ held[h] # NoEntry
      /\ h \in Holders
  <2>1. /\ handler[h].step = "storing" /\ disk' = held[h]
        /\ held[h].status \in Answered /\ h \in Holders
    BY DEF Stored, Save, IInv, Memory, Writes, Holders, Loops
  <2>2. QED
    BY <1>2, <2>1, EntryIs DEF Answered
<1>4. /\ handler' \in [Loops -> Handlers]
      /\ handler'[h].step = IF h = "rpc" THEN "clearing" ELSE "settling"
      /\ \A g \in Loops : g # h => handler'[g] = handler[g]
  <2> DEFINE s == IF h = "rpc" THEN "clearing" ELSE "settling"
  <2>1. Goto(h, s) /\ s \in {"clearing", "settling"}
    BY DEF Stored
  <2> HIDE DEF s
  <2>2. /\ handler' \in [Loops -> Handlers] /\ handler'[h].step = s
        /\ \A g \in Loops : g # h => handler'[g] = handler[g]
    BY <1>2, <2>1, Went
  <2>3. QED
    BY <2>2 DEF s
<1>5. sender.step # "idle"
  BY <1>3 DEF IInv, Memory, Fresh
<1>6. TypeOK'
  BY <1>1, <1>3, <1>4 DEF IInv, TypeOK
<1>7. Fresh'
  BY <1>1, <1>5 DEF IInv, Memory, Fresh
<1>8. Agree'
  BY <1>1, <1>3 DEF IInv, Memory, Agree
<1>9. Counted'
  BY <1>1, <1>3 DEF IInv, Memory, Counted
<1>10. Recorded'
  BY <1>1, <1>3 DEF IInv, Memory, Recorded, AnsweredNow, IsAnswered
<1>11. Removed'
  BY <1>1, <1>3 DEF IInv, Memory, Removed
<1>12. Orphaned'
  BY <1>1, <1>4 DEF IInv, Memory, Orphaned
<1>13. Writes'
  BY <1>1, <1>4 DEF IInv, Memory, Writes, mine
<1>14. Aborted'
  BY <1>1, <1>3, <1>4 DEF IInv, Guard, Aborted, TimerLive, Running
<1>15. SysDone'
  BY <1>1, <1>4 DEF IInv, Guard, SysDone, AckPending, Loops
<1>16. LoadedSees'
  BY <1>3 DEF LoadedSees, Answered
<1>17. PendingIsGuarded'
  BY <1>1, <1>4 DEF IInv, Guard, PendingIsGuarded, TimerLive, Running,
     AckPending, ReplyPending
<1>18. QED
  BY <1>6, <1>7, <1>8, <1>9, <1>10, <1>11, <1>12, <1>13, <1>14, <1>15,
     <1>16, <1>17 DEF IInv, Memory, Guard

(* The futures of a frame settle.                                          *)
LEMMA SettleKeeps ==
  ASSUME IInv, NEW h \in Loops, Settle(h)
  PROVE  IInv'
<1>1. UNCHANGED <<now, life, shutdownAt, starts,
                  byReference, expects, disk, held, timer,
                  sender, sent, retries, answers>>
  BY DEF Settle, lifeVars, given, recordVars, futureVars, sentVars
<1>2. /\ timer \in Timers /\ handler \in [Loops -> Handlers]
      /\ held \in [Holders -> Entries] /\ disk \in Entries
      /\ future \in [Futures -> FutureStates] /\ listed \subseteq Futures
      /\ doneSince \in [Futures -> Time \cup {Never}] /\ now \in Time
      /\ retries \in Nat /\ sender \in Senders
  BY DEF IInv, TypeOK
<1>3. "ACK" \in Futures /\ "REPLY" \in Futures /\ "sys" \in Loops /\ "rpc" \in Loops
  BY DEF Futures, Loops
<1>4. handler[h].step = "settling" /\ handler[h].kind \in Kinds
  BY <1>2 DEF Settle, Handlers
<1>5. PICK fs \in SUBSET Futures, outcome \in {"resolved", "rejected"} :
        SettleTo(fs, outcome) /\ "ACK" \in fs
          /\ (handler[h].kind # "ack" => fs = Futures)
  <2>1. CASE handler[h].kind = "ack"
    BY <1>3, <2>1 DEF Settle
  <2>2. CASE handler[h].kind = "nack"
    BY <1>3, <2>2 DEF Settle
  <2>3. CASE handler[h].kind = "reply"
    BY <1>3, <2>3 DEF Settle
  <2>4. QED
    BY <1>4, <2>1, <2>2, <2>3 DEF Kinds
<1>6. /\ future' \in [Futures -> FutureStates] /\ listed' = listed
      /\ doneSince' \in [Futures -> Time \cup {Never}]
      /\ \A f \in Futures : future[f] # "pending" => future'[f] = future[f]
      /\ \A f \in fs \cap listed : future'[f] # "pending"
  <2>1. SettleTo(fs, outcome) /\ fs \in SUBSET Futures
    BY <1>5
  <2>2. /\ future' \in [Futures -> FutureStates] /\ listed' = listed
        /\ doneSince' \in [Futures -> Time \cup {Never}]
        /\ \A f \in Futures :
             /\ f \in fs \cap listed /\ future[f] = "pending" =>
                  future'[f] = outcome
             /\ ~(f \in fs \cap listed /\ future[f] = "pending") =>
                  future'[f] = future[f]
    BY <1>2, <2>1, Settled
  <2>3. QED
    BY <2>1, <2>2
<1>7. /\ handler' \in [Loops -> Handlers]
      /\ \A g \in Loops : g # h => handler'[g] = handler[g]
      /\ h = "rpc" => handler'[h].step = "idle"
      /\ h # "rpc" => handler'[h].step = "clearing"
  <2> DEFINE s == IF h = "rpc" THEN "idle" ELSE "clearing"
  <2>1. Goto(h, s) /\ s \in {"idle", "clearing"}
    BY DEF Settle
  <2> HIDE DEF s
  <2>2. /\ handler' \in [Loops -> Handlers] /\ handler'[h].step = s
        /\ \A g \in Loops : g # h => handler'[g] = handler[g]
    BY <1>2, <2>1, Went
  <2>3. QED
    BY <2>2 DEF s
<1>8. /\ ~AckPending'
      /\ byReference => AnsweredNow /\ disk.status # "PENDING"
  <2>1. ~AckPending'
    BY <1>3, <1>5, <1>6 DEF AckPending
  <2>2. byReference => AnsweredNow
    BY <1>4 DEF IInv, Memory, Recorded
  <2>3. AnsweredNow => disk.status # "PENDING"
    BY EntryIs DEF AnsweredNow, IsAnswered, Answered
  <2>4. QED
    BY <2>1, <2>2, <2>3
<1>9. sender.step # "idle"
  BY <1>4 DEF IInv, Memory, Fresh
<1>10. TypeOK'
  BY <1>1, <1>6, <1>7 DEF IInv, TypeOK
<1>11. Fresh'
  BY <1>1, <1>9 DEF IInv, Memory, Fresh
<1>12. Agree'
  BY <1>1 DEF IInv, Memory, Agree
<1>13. Counted'
  BY <1>1 DEF IInv, Memory, Counted
<1>14. Recorded'
  BY <1>1, <1>8 DEF Recorded, AnsweredNow
<1>15. Removed'
  BY <1>1, <1>3, <1>6 DEF IInv, Memory, Removed
<1>16. Orphaned'
  BY <1>1, <1>3, <1>6, <1>7 DEF IInv, Memory, Orphaned
<1>17. Writes'
  BY <1>1, <1>7 DEF IInv, Memory, Writes, mine
<1>18. Aborted'
  BY <1>1, <1>4, <1>7 DEF IInv, Guard, Aborted, TimerLive, Running
<1>19. SysDone'
  BY <1>8 DEF SysDone
<1>20. LoadedSees'
  BY <1>1 DEF IInv, Guard, LoadedSees, mine
<1>21. PendingIsGuarded'
  <2>1. CASE h = "rpc"
    BY <1>1, <1>3, <1>8, <2>1 DEF PendingIsGuarded, Running
  <2>2. CASE h # "rpc"
    BY <1>7, <2>2 DEF PendingIsGuarded
  <2>3. QED
    BY <2>1, <2>2
<1>22. QED
  BY <1>10, <1>11, <1>12, <1>13, <1>14, <1>15, <1>16, <1>17, <1>18, <1>19,
     <1>20, <1>21 DEF IInv, Memory, Guard

(* An ack without an entry may settle the future.                          *)
LEMMA SettleOrphanKeeps ==
  ASSUME IInv, NEW h \in Loops, SettleOrphan(h)
  PROVE  IInv'
<1>1. UNCHANGED <<now, life, shutdownAt, starts,
                  byReference, expects, disk, held, timer,
                  sender, sent, retries, answers>>
  BY DEF SettleOrphan, lifeVars, given, recordVars, futureVars, sentVars
<1>2. /\ timer \in Timers /\ handler \in [Loops -> Handlers]
      /\ held \in [Holders -> Entries] /\ disk \in Entries
      /\ future \in [Futures -> FutureStates] /\ listed \subseteq Futures
      /\ doneSince \in [Futures -> Time \cup {Never}] /\ now \in Time
      /\ retries \in Nat /\ sender \in Senders
  BY DEF IInv, TypeOK
<1>3. "ACK" \in Futures /\ "REPLY" \in Futures /\ "sys" \in Loops /\ "rpc" \in Loops
  BY DEF Futures, Loops
<1>4. handler[h].step = "orphan"
  BY DEF SettleOrphan
<1>5. byReference => future["ACK"] = "resolved"
  BY <1>4 DEF IInv, Memory, Orphaned
<1>6. /\ future' \in [Futures -> FutureStates] /\ listed' = listed
      /\ doneSince' \in [Futures -> Time \cup {Never}]
      /\ \A f \in Futures : future[f] # "pending" => future'[f] = future[f]
      /\ AckPending => handler'[h].step = "clearing"
      /\ ~AckPending => handler'[h].step = "idle" /\ future' = future
      /\ ~AckPending'
  <2>1. CASE AckPending
    <3>1. SettleTo({"ACK"}, "resolved") /\ Goto(h, "clearing")
      BY <2>1 DEF SettleOrphan, AckPending
    <3>2. {"ACK"} \in SUBSET Futures
      BY <1>3
    <3>3. /\ future' \in [Futures -> FutureStates] /\ listed' = listed
          /\ doneSince' \in [Futures -> Time \cup {Never}]
          /\ \A f \in Futures :
               /\ f \in {"ACK"} \cap listed /\ future[f] = "pending" =>
                    future'[f] = "resolved"
               /\ ~(f \in {"ACK"} \cap listed /\ future[f] = "pending") =>
                    future'[f] = future[f]
      BY <1>2, <3>1, <3>2, Settled
    <3>4. handler'[h].step = "clearing"
      BY <1>2, <3>1, Went
    <3>5. QED
      BY <1>3, <2>1, <3>3, <3>4 DEF AckPending
  <2>2. CASE ~AckPending
    <3>1. UNCHANGED <<future, listed, doneSince>> /\ Goto(h, "idle")
      BY <2>2 DEF SettleOrphan, AckPending, futureVars
    <3>2. handler'[h].step = "idle"
      BY <1>2, <3>1, Went
    <3>3. QED
      BY <1>2, <2>2, <3>1, <3>2 DEF AckPending
  <2>3. QED
    BY <2>1, <2>2
<1>7. /\ handler' \in [Loops -> Handlers]
      /\ \A g \in Loops : g # h => handler'[g] = handler[g]
  <2>1. Goto(h, "clearing") \/ Goto(h, "idle")
    BY DEF SettleOrphan
  <2>2. QED
    BY <1>2, <2>1, Went
<1>8. sender.step # "idle"
  BY <1>4 DEF IInv, Memory, Fresh
<1>9. TypeOK'
  BY <1>1, <1>6, <1>7 DEF IInv, TypeOK
<1>10. Fresh'
  BY <1>1, <1>8 DEF IInv, Memory, Fresh
<1>11. Agree'
  BY <1>1 DEF IInv, Memory, Agree
<1>12. Counted'
  BY <1>1 DEF IInv, Memory, Counted
<1>13. Recorded'
  <2>1. SUFFICES ASSUME byReference PROVE AnsweredNow'
    BY <1>1 DEF Recorded
  <2>2. QED
    BY <1>1, <1>5, <2>1 DEF IInv, Memory, Recorded, AnsweredNow
<1>14. Removed'
  BY <1>1, <1>3, <1>6 DEF IInv, Memory, Removed
<1>15. Orphaned'
  BY <1>1, <1>3, <1>6, <1>7 DEF IInv, Memory, Orphaned
<1>16. Writes'
  BY <1>1, <1>6, <1>7 DEF IInv, Memory, Writes, mine
<1>17. Aborted'
  BY <1>1, <1>4, <1>7 DEF IInv, Guard, Aborted, TimerLive, Running
<1>18. SysDone'
  BY <1>6 DEF SysDone
<1>19. LoadedSees'
  BY <1>1 DEF IInv, Guard, LoadedSees, mine
<1>20. PendingIsGuarded'
  <2>1. CASE AckPending
    BY <1>6, <2>1 DEF PendingIsGuarded
  <2>2. CASE ~AckPending
    <3>1. byReference => AnsweredNow
      BY <1>5 DEF IInv, Memory, Recorded
    <3>2. byReference => disk.status # "PENDING"
      BY <3>1, EntryIs DEF AnsweredNow, IsAnswered, Answered
    <3>3. QED
      BY <1>1, <1>6, <2>2, <3>2 DEF PendingIsGuarded
  <2>3. QED
    BY <2>1, <2>2
<1>21. QED
  BY <1>9, <1>10, <1>11, <1>12, <1>13, <1>14, <1>15, <1>16, <1>17, <1>18,
     <1>19, <1>20 DEF IInv, Memory, Guard

(* A loop cancels the timer, if there is one.                              *)
LEMMA CancelTimerKeeps ==
  ASSUME IInv, NEW h \in Loops, CancelTimer(h)
  PROVE  IInv'
<1>1. UNCHANGED <<now, life, shutdownAt, starts,
                  byReference, expects, disk, held, future,
                  listed, doneSince, sender, sent, retries,
                  answers>>
  BY DEF CancelTimer, lifeVars, given, recordVars, futureVars, sentVars
<1>2. /\ timer \in Timers /\ handler \in [Loops -> Handlers]
      /\ held \in [Holders -> Entries] /\ disk \in Entries
      /\ future \in [Futures -> FutureStates] /\ listed \subseteq Futures
      /\ doneSince \in [Futures -> Time \cup {Never}] /\ now \in Time
      /\ retries \in Nat /\ sender \in Senders
  BY DEF IInv, TypeOK
<1>3. handler[h].step = "clearing"
  BY DEF CancelTimer
<1>4. /\ byReference => AnsweredNow /\ disk.status # "PENDING"
      /\ h # "rpc" => h = "sys" /\ ~AckPending
  <2>1. byReference => AnsweredNow
    BY <1>3 DEF IInv, Memory, Recorded
  <2>2. AnsweredNow => disk.status # "PENDING"
    BY EntryIs DEF AnsweredNow, IsAnswered, Answered
  <2>3. h # "rpc" => h = "sys"
    BY DEF Loops
  <2>4. QED
    BY <1>3, <2>1, <2>2, <2>3 DEF IInv, Guard, SysDone
<1>5. /\ handler' \in [Loops -> Handlers]
      /\ \A g \in Loops : g # h => handler'[g] = handler[g]
      /\ \/ /\ timer' = timer
            /\ handler'[h].step = IF h = "rpc" THEN "settling" ELSE "idle"
         \/ /\ handler'[h].step = "joining"
            /\ timer' \in Timers /\ timer'.step = timer.step
            /\ timer'.joiners = timer.joiners \cup {h}
  <2>1. CASE timer.mapped
    <3>1. /\ timer' = [timer EXCEPT !.aborted = TRUE, !.joiners = @ \cup {h}]
          /\ Goto(h, "joining")
      BY <2>1 DEF CancelTimer
    <3>2. /\ timer' \in Timers /\ timer'.step = timer.step
          /\ timer'.joiners = timer.joiners \cup {h}
      BY <1>2, <3>1 DEF Timers
    <3>3. QED
      BY <1>2, <3>1, <3>2, Went
  <2>2. CASE ~timer.mapped
    <3> DEFINE s == AfterClear(h)
    <3>1. s = IF h = "rpc" THEN "settling" ELSE "idle"
      BY DEF AfterClear
    <3>2. timer' = timer /\ Goto(h, s)
      BY <2>2 DEF CancelTimer
    <3> HIDE DEF s
    <3>3. s \in {"settling", "idle"}
      BY <3>1
    <3>4. /\ handler' \in [Loops -> Handlers] /\ handler'[h].step = s
          /\ \A g \in Loops : g # h => handler'[g] = handler[g]
      BY <1>2, <3>2, <3>3, Went
    <3>5. QED
      BY <3>1, <3>2, <3>4
  <2>3. QED
    BY <2>1, <2>2
<1>6. sender.step # "idle"
  BY <1>3 DEF IInv, Memory, Fresh
<1>7. timer' \in Timers /\ timer'.step = timer.step
  BY <1>2, <1>5
<1>8. TypeOK'
  BY <1>1, <1>2, <1>5, <1>7 DEF IInv, TypeOK
<1>9. Fresh'
  BY <1>1, <1>6 DEF IInv, Memory, Fresh
<1>10. Agree'
  BY <1>1 DEF IInv, Memory, Agree
<1>11. Counted'
  BY <1>1 DEF IInv, Memory, Counted
<1>12. Recorded'
  BY <1>1, <1>4 DEF IInv, Memory, Recorded, AnsweredNow, IsAnswered
<1>13. Removed'
  BY <1>1 DEF IInv, Memory, Removed
<1>14. Orphaned'
  BY <1>1, <1>5 DEF IInv, Memory, Orphaned
<1>15. Writes'
  BY <1>1, <1>5 DEF IInv, Memory, Writes, mine
<1>16. Aborted'
  BY <1>1, <1>3, <1>5 DEF IInv, Guard, Aborted, TimerLive, Running
<1>17. SysDone'
  BY <1>1, <1>4, <1>5 DEF IInv, Guard, SysDone, AckPending, Loops
<1>18. LoadedSees'
  BY <1>1, <1>7 DEF IInv, Guard, LoadedSees, mine
<1>19. PendingIsGuarded'
  <2>1. CASE handler'[h].step = "idle"
    BY <1>1, <1>4, <1>5, <2>1 DEF PendingIsGuarded, AckPending
  <2>2. CASE handler'[h].step # "idle"
    BY <1>5, <2>2 DEF PendingIsGuarded
  <2>3. QED
    BY <2>1, <2>2
<1>20. QED
  BY <1>8, <1>9, <1>10, <1>11, <1>12, <1>13, <1>14, <1>15, <1>16, <1>17,
     <1>18, <1>19 DEF IInv, Memory, Guard

(* The timer that a loop has cancelled has ended.                          *)
LEMMA JoinTimerKeeps ==
  ASSUME IInv, NEW h \in Loops, JoinTimer(h)
  PROVE  IInv'
<1>1. UNCHANGED <<now, life, shutdownAt, starts,
                  byReference, expects, disk, held, future,
                  listed, doneSince, sender, sent, retries,
                  answers>>
  BY DEF JoinTimer, lifeVars, given, recordVars, futureVars, sentVars
<1>2. /\ timer \in Timers /\ handler \in [Loops -> Handlers]
      /\ held \in [Holders -> Entries] /\ disk \in Entries
      /\ future \in [Futures -> FutureStates] /\ listed \subseteq Futures
      /\ doneSince \in [Futures -> Time \cup {Never}] /\ now \in Time
      /\ retries \in Nat /\ sender \in Senders
  BY DEF IInv, TypeOK
<1>3. handler[h].step = "joining" /\ (h \notin timer.joiners \/ ~TimerLive)
  BY DEF JoinTimer, Joined
<1>4. /\ byReference => AnsweredNow /\ disk.status # "PENDING"
      /\ h # "rpc" => h = "sys" /\ ~AckPending
  <2>1. byReference => AnsweredNow
    BY <1>3 DEF IInv, Memory, Recorded
  <2>2. AnsweredNow => disk.status # "PENDING"
    BY EntryIs DEF AnsweredNow, IsAnswered, Answered
  <2>3. h # "rpc" => h = "sys"
    BY DEF Loops
  <2>4. QED
    BY <1>3, <2>1, <2>2, <2>3 DEF IInv, Guard, SysDone
<1>5. /\ handler' \in [Loops -> Handlers]
      /\ \A g \in Loops : g # h => handler'[g] = handler[g]
      /\ handler'[h].step = IF h = "rpc" THEN "settling" ELSE "idle"
  <2> DEFINE s == AfterClear(h)
  <2>1. s = IF h = "rpc" THEN "settling" ELSE "idle"
    BY DEF AfterClear
  <2>2. Goto(h, s)
    BY DEF JoinTimer
  <2> HIDE DEF s
  <2>3. s \in {"settling", "idle"}
    BY <2>1
  <2>4. /\ handler' \in [Loops -> Handlers] /\ handler'[h].step = s
        /\ \A g \in Loops : g # h => handler'[g] = handler[g]
    BY <1>2, <2>2, <2>3, Went
  <2>5. QED
    BY <2>1, <2>4
<1>6. sender.step # "idle"
  BY <1>3 DEF IInv, Memory, Fresh
<1>7. /\ timer' \in Timers /\ timer'.step = timer.step
      /\ timer'.aborted = timer.aborted /\ timer'.joiners = timer.joiners
  <2>1. timer' = [timer EXCEPT !.mapped = FALSE]
    BY DEF JoinTimer
  <2>2. QED
    BY <1>2, <2>1 DEF Timers
<1>8. TypeOK'
  BY <1>1, <1>5, <1>7 DEF IInv, TypeOK
<1>9. Fresh'
  BY <1>1, <1>6 DEF IInv, Memory, Fresh
<1>10. Agree'
  BY <1>1 DEF IInv, Memory, Agree
<1>11. Counted'
  BY <1>1 DEF IInv, Memory, Counted
<1>12. Recorded'
  BY <1>1, <1>4 DEF IInv, Memory, Recorded, AnsweredNow, IsAnswered
<1>13. Removed'
  BY <1>1 DEF IInv, Memory, Removed
<1>14. Orphaned'
  BY <1>1, <1>5 DEF IInv, Memory, Orphaned
<1>15. Writes'
  BY <1>1, <1>5, <1>7 DEF IInv, Memory, Writes, mine
<1>16. Aborted'
  BY <1>1, <1>3, <1>5, <1>7 DEF IInv, Guard, Aborted, TimerLive, Running
<1>17. SysDone'
  BY <1>1, <1>5 DEF IInv, Guard, SysDone, AckPending, Loops
<1>18. LoadedSees'
  BY <1>1, <1>7 DEF IInv, Guard, LoadedSees, mine
<1>19. PendingIsGuarded'
  <2>1. CASE handler'[h].step = "idle"
    BY <1>1, <1>4, <1>5, <2>1 DEF PendingIsGuarded, AckPending
  <2>2. CASE handler'[h].step # "idle"
    BY <1>5, <2>2 DEF PendingIsGuarded
  <2>3. QED
    BY <2>1, <2>2
<1>20. QED
  BY <1>8, <1>9, <1>10, <1>11, <1>12, <1>13, <1>14, <1>15, <1>16, <1>17,
     <1>18, <1>19 DEF IInv, Memory, Guard

(* A cancelled timer ends.                                                 *)
LEMMA TimerAbortedKeeps ==
  ASSUME IInv, TimerAborted
  PROVE  IInv'
<1>1. UNCHANGED <<now, life, shutdownAt, starts,
                  byReference, expects, disk, held, future,
                  listed, doneSince, handler, sender, sent,
                  retries, answers>>
  BY DEF TimerAborted, lifeVars, given, recordVars, futureVars, sentVars
<1>2. /\ timer \in Timers /\ handler \in [Loops -> Handlers]
      /\ held \in [Holders -> Entries] /\ disk \in Entries
      /\ future \in [Futures -> FutureStates] /\ listed \subseteq Futures
      /\ doneSince \in [Futures -> Time \cup {Never}] /\ now \in Time
      /\ retries \in Nat /\ sender \in Senders
  BY DEF IInv, TypeOK
<1>3. timer.step = "sleeping" /\ timer.aborted = TRUE
  BY <1>2 DEF TimerAborted, Timers
<1>4. /\ timer' \in Timers /\ timer'.step = "none"
  <2>1. TimerEnds
    BY DEF TimerAborted
  <2>2. QED
    BY <1>2, <2>1, TimerEnded
<1>5. sender.step # "idle"
  BY <1>3 DEF IInv, Memory, Fresh
<1>6. TypeOK'
  BY <1>1, <1>4 DEF IInv, TypeOK
<1>7. Fresh'
  BY <1>1, <1>5 DEF IInv, Memory, Fresh
<1>8. Agree'
  BY <1>1 DEF IInv, Memory, Agree
<1>9. Counted'
  BY <1>1 DEF IInv, Memory, Counted
<1>10. Recorded'
  BY <1>1 DEF IInv, Memory, Recorded, AnsweredNow, IsAnswered
<1>11. Removed'
  BY <1>1 DEF IInv, Memory, Removed
<1>12. Orphaned'
  BY <1>1 DEF IInv, Memory, Orphaned
<1>13. Writes'
  BY <1>1, <1>4 DEF IInv, Memory, Writes, mine
<1>14. Aborted'
  BY <1>4 DEF Aborted, TimerLive, LiveSteps
<1>15. SysDone'
  BY <1>1 DEF IInv, Guard, SysDone, AckPending, Loops
<1>16. LoadedSees'
  BY <1>1, <1>4 DEF IInv, Guard, LoadedSees, mine
<1>17. PendingIsGuarded'
  <2>1. SUFFICES ASSUME Running'
                 PROVE  \E h \in Loops : handler'[h].step \notin {"idle", "loaded"}
    BY DEF PendingIsGuarded
  <2>2. timer.aborted = TRUE /\ TimerLive /\ Running
    BY <1>1, <1>3, <2>1 DEF TimerLive, LiveSteps, Running
  <2>3. PICK h \in Loops : handler[h].step = "joining"
    BY <2>2 DEF IInv, Guard, Aborted
  <2>4. QED
    BY <1>1, <2>3
<1>18. QED
  BY <1>6, <1>7, <1>8, <1>9, <1>10, <1>11, <1>12, <1>13, <1>14, <1>15,
     <1>16, <1>17 DEF IInv, Memory, Guard

(* A timer wakes and looks the entry up.                                   *)
LEMMA TimerWakesKeeps ==
  ASSUME IInv, TimerWakes
  PROVE  IInv'
<1>1. UNCHANGED <<now, life, shutdownAt, starts,
                  byReference, expects, disk, future,
                  listed, doneSince, handler, sender, sent,
                  retries, answers>>
  BY DEF TimerWakes, lifeVars, given, recordVars, futureVars, sentVars
<1>2. /\ timer \in Timers /\ handler \in [Loops -> Handlers]
      /\ held \in [Holders -> Entries] /\ disk \in Entries
      /\ future \in [Futures -> FutureStates] /\ listed \subseteq Futures
      /\ doneSince \in [Futures -> Time \cup {Never}] /\ now \in Time
      /\ retries \in Nat /\ sender \in Senders
  BY DEF IInv, TypeOK
<1>3. timer.step = "sleeping" /\ timer.aborted = FALSE
  BY <1>2 DEF TimerWakes, Timers
<1>4. /\ timer' \in Timers /\ timer'.step = "loaded"
      /\ timer'.aborted = timer.aborted /\ timer'.joiners = timer.joiners
  <2>1. TimerAt("loaded") /\ "loaded" \in TimerSets
    BY DEF TimerWakes, TimerSets, LiveSteps
  <2>2. QED
    BY <1>2, <2>1, TimerGoes
<1>5. sender.step # "idle"
  BY <1>3 DEF IInv, Memory, Fresh
<1>6. /\ held' \in [Holders -> Entries] /\ mine' = disk /\ mine = held["timer"]
      /\ \A q \in Holders :
           /\ byReference /\ disk # NoEntry => held'[q] = disk
           /\ q # "timer" /\ ~(byReference /\ disk # NoEntry) =>
                held'[q] = held[q]
  <2>1. "timer" \in Holders /\ Load("timer")
    BY DEF Holders, TimerWakes
  <2>2. QED
    BY <1>2, <2>1, Loaded DEF mine
<1>7. /\ \A h \in Loops : h # "timer" /\ h \in Holders
      /\ \A h \in Loops : byReference /\ handler[h].step = "storing" =>
           IsAnswered(disk)
  BY DEF Loops, Holders, IInv, Memory, Recorded, AnsweredNow
<1>8. TypeOK'
  BY <1>1, <1>4, <1>6 DEF IInv, TypeOK
<1>9. Fresh'
  BY <1>1, <1>5 DEF IInv, Memory, Fresh
<1>10. Agree'
  <2>1. CASE byReference /\ disk # NoEntry
    BY <1>1, <1>6, <2>1 DEF Agree
  <2>2. CASE byReference /\ disk = NoEntry
    <3>1. \A q \in Holders : held'[q] = held[q] \/ held'[q] = NoEntry
      BY <1>6, <2>2 DEF mine
    <3>2. QED
      BY <1>1, <2>2, <3>1 DEF IInv, Memory, Agree
  <2>3. QED
    BY <1>1, <2>1, <2>2 DEF Agree
<1>11. Counted'
  <2>1. \A q \in Holders : held'[q] = held[q] \/ held'[q] = disk
    BY <1>6 DEF mine
  <2>2. QED
    BY <1>1, <2>1 DEF IInv, Memory, Counted
<1>12. Recorded'
  <2>1. \A q \in Holders : held'[q] = held[q] \/ held'[q] = disk
    BY <1>6 DEF mine
  <2>2. AnsweredNow => AnsweredNow'
    BY <1>1, <2>1 DEF AnsweredNow, IsAnswered
  <2>3. QED
    BY <1>1, <2>2 DEF IInv, Memory, Recorded
<1>13. Removed'
  BY <1>1 DEF IInv, Memory, Removed
<1>14. Orphaned'
  BY <1>1 DEF IInv, Memory, Orphaned
<1>15. Writes'
  <2>1. ASSUME NEW h \in Loops
        PROVE  /\ handler[h].step = "loaded" => held'[h] # NoEntry
               /\ handler[h].step = "storing" => held'[h].status \in Answered
    <3>1. CASE byReference /\ disk # NoEntry
      BY <1>6, <1>7, <3>1 DEF IsAnswered
    <3>2. CASE ~(byReference /\ disk # NoEntry)
      BY <1>6, <1>7, <3>2 DEF IInv, Memory, Writes
    <3>3. QED
      BY <3>1, <3>2
  <2>2. QED
    BY <1>1, <1>4, <2>1 DEF Writes
<1>16. Aborted'
  BY <1>1, <1>3, <1>4 DEF IInv, Guard, Aborted, TimerLive, Running
<1>17. SysDone'
  BY <1>1 DEF IInv, Guard, SysDone, AckPending, Loops
<1>18. LoadedSees'
  BY <1>1, <1>6 DEF LoadedSees
<1>19. PendingIsGuarded'
  BY <1>4 DEF PendingIsGuarded, TimerLive, LiveSteps
<1>20. QED
  BY <1>8, <1>9, <1>10, <1>11, <1>12, <1>13, <1>14, <1>15, <1>16, <1>17,
     <1>18, <1>19 DEF IInv, Memory, Guard

(* A timer finds the entry gone or answered.                               *)
LEMMA TimerQuitsKeeps ==
  ASSUME IInv, TimerQuits
  PROVE  IInv'
<1>1. UNCHANGED <<now, life, shutdownAt, starts,
                  byReference, expects, disk, held, future,
                  listed, doneSince, handler, sender, sent,
                  retries, answers>>
  BY DEF TimerQuits, lifeVars, given, recordVars, futureVars, sentVars
<1>2. /\ timer \in Timers /\ handler \in [Loops -> Handlers]
      /\ held \in [Holders -> Entries] /\ disk \in Entries
      /\ future \in [Futures -> FutureStates] /\ listed \subseteq Futures
      /\ doneSince \in [Futures -> Time \cup {Never}] /\ now \in Time
      /\ retries \in Nat /\ sender \in Senders
  BY DEF IInv, TypeOK
<1>3. timer.step = "loaded" /\ mine.status # "PENDING"
  BY DEF TimerQuits
<1>4. /\ timer' \in Timers /\ timer'.step = "none"
  <2>1. TimerEnds
    BY DEF TimerQuits
  <2>2. QED
    BY <1>2, <2>1, TimerEnded
<1>5. sender.step # "idle"
  BY <1>3 DEF IInv, Memory, Fresh
<1>6. disk.status # "PENDING"
  BY <1>3 DEF IInv, Guard, LoadedSees
<1>7. TypeOK'
  BY <1>1, <1>4 DEF IInv, TypeOK
<1>8. Fresh'
  BY <1>1, <1>5 DEF IInv, Memory, Fresh
<1>9. Agree'
  BY <1>1 DEF IInv, Memory, Agree
<1>10. Counted'
  BY <1>1 DEF IInv, Memory, Counted
<1>11. Recorded'
  BY <1>1 DEF IInv, Memory, Recorded, AnsweredNow, IsAnswered
<1>12. Removed'
  BY <1>1 DEF IInv, Memory, Removed
<1>13. Orphaned'
  BY <1>1 DEF IInv, Memory, Orphaned
<1>14. Writes'
  BY <1>1, <1>4 DEF IInv, Memory, Writes, mine
<1>15. Aborted'
  BY <1>4 DEF Aborted, TimerLive, LiveSteps
<1>16. SysDone'
  BY <1>1 DEF IInv, Guard, SysDone, AckPending, Loops
<1>17. LoadedSees'
  BY <1>1, <1>6 DEF IInv, Guard, LoadedSees, mine
<1>18. PendingIsGuarded'
  BY <1>1, <1>6 DEF PendingIsGuarded
<1>19. QED
  BY <1>7, <1>8, <1>9, <1>10, <1>11, <1>12, <1>13, <1>14, <1>15, <1>16,
     <1>17, <1>18 DEF IInv, Memory, Guard

(* A timer writes that the time is over, or when it will come back.        *)
LEMMA TimerWritesKeeps ==
  ASSUME IInv, TimerExpires \/ TimerDefers \/ TimerExhausted
  PROVE  IInv'
<1>1. UNCHANGED <<now, life, shutdownAt, starts,
                  byReference, expects, future, listed,
                  doneSince, handler, sender, sent,
                  retries, answers>>
  BY DEF TimerExpires, TimerDefers, TimerExhausted, lifeVars, given,
     recordVars, futureVars, sentVars
<1>2. /\ timer \in Timers /\ handler \in [Loops -> Handlers]
      /\ held \in [Holders -> Entries] /\ disk \in Entries
      /\ future \in [Futures -> FutureStates] /\ listed \subseteq Futures
      /\ doneSince \in [Futures -> Time \cup {Never}] /\ now \in Time
      /\ retries \in Nat /\ sender \in Senders
  BY DEF IInv, TypeOK
<1>3. /\ timer.step = "loaded" /\ mine.status = "PENDING"
      /\ mine \in Entries /\ mine # NoEntry /\ mine = held["timer"]
      /\ "timer" \in Holders
  <2>1. timer.step = "loaded" /\ mine.status = "PENDING"
    BY DEF TimerExpires, TimerDefers, TimerExhausted, MayRetry
  <2>2. mine \in Entries /\ "timer" \in Holders /\ mine = held["timer"]
    BY <1>2 DEF mine, Holders
  <2>3. QED
    BY <2>1, <2>2, EntryIs
<1>4. sender.step # "idle"
  BY <1>3 DEF IInv, Memory, Fresh
<1>5. byReference =>
        /\ future["ACK"] # "resolved"
        /\ \A h \in Loops : handler[h].step \notin
             {"storing", "settling", "clearing", "joining"}
        /\ disk = mine
  <2>1. ~AnsweredNow
    BY <1>3 DEF AnsweredNow, IsAnswered, Answered
  <2>2. SUFFICES ASSUME byReference
                 PROVE  /\ future["ACK"] # "resolved"
                        /\ \A h \in Loops : handler[h].step \notin
                             {"storing", "settling", "clearing", "joining"}
                        /\ disk = mine
    OBVIOUS
  <2>3. /\ future["ACK"] # "resolved"
        /\ \A h \in Loops : handler[h].step \notin
             {"storing", "settling", "clearing", "joining"}
    BY <2>1, <2>2 DEF IInv, Memory, Recorded
  <2>4. disk # NoEntry
    BY <1>4, <2>2, <2>3 DEF IInv, Memory, Removed
  <2>5. QED
    BY <1>3, <2>2, <2>3, <2>4 DEF IInv, Memory, Agree
<1>6. PICK n \in Entries :
        /\ Amend("timer", n) /\ n # NoEntry /\ n.attempt = mine.attempt
  <2>1. CASE TimerExpires
    <3> DEFINE n == [mine EXCEPT !.status = "TIMED_OUT"]
    <3>1. Amend("timer", n) /\ "TIMED_OUT" \in Statuses
      BY <2>1 DEF TimerExpires, Statuses
    <3>2. n \in Entries /\ n # NoEntry /\ n.attempt = mine.attempt
      BY <1>3, <3>1, EntryStatus
    <3> HIDE DEF n
    <3>3. QED
      BY <3>1, <3>2
  <2>2. CASE TimerDefers \/ TimerExhausted
    <3>1. PICK d \in 0 .. Timeout : Amend("timer", [mine EXCEPT !.due = d])
      <4>1. CASE TimerDefers
        <5>1. shutdownAt \in Int /\ now < shutdownAt + ShutdownGrace /\ now >= 0
          BY <1>2, <4>1, TimeAssumption
             DEF TimerDefers, Deferring, IInv, TypeOK, Time, Never
        <5>2. LeastOf(Timeout, shutdownAt + ShutdownGrace) \in 0 .. Timeout
          BY <1>2, <5>1, TimeAssumption, LeastIs DEF Time
        <5>3. QED
          BY <4>1, <5>2 DEF TimerDefers
      <4>2. CASE TimerExhausted
        BY <4>2, TimeAssumption DEF TimerExhausted
      <4>3. QED
        BY <2>2, <4>1, <4>2
    <3> DEFINE n == [mine EXCEPT !.due = d]
    <3>2. n \in Entries /\ n # NoEntry /\ n.attempt = mine.attempt
      BY <1>3, EntryDue
    <3>3. Amend("timer", n)
      BY <3>1
    <3> HIDE DEF n
    <3>4. QED
      BY <3>2, <3>3
  <2>3. QED
    BY <2>1, <2>2
<1>7. /\ held' \in [Holders -> Entries] /\ disk' \in Entries
      /\ mine' = n
      /\ byReference => (\A q \in Holders : held'[q] = n) /\ disk' = n
      /\ ~byReference => /\ \A q \in Holders : q # "timer" => held'[q] = held[q]
                         /\ disk' = disk
  <2>1. /\ held' \in [Holders -> Entries] /\ disk' \in Entries
        /\ held'["timer"] = n
        /\ byReference => /\ \A q \in Holders : held'[q] = n
                          /\ disk = NoEntry => disk' = NoEntry
                          /\ disk # NoEntry => disk' = n
        /\ ~byReference => /\ \A q \in Holders : q # "timer" => held'[q] = held[q]
                           /\ disk' = disk
    BY <1>2, <1>3, <1>6, Amended
  <2>2. byReference => disk # NoEntry
    BY <1>3, <1>5
  <2>3. mine' = held'["timer"]
    BY DEF mine
  <2>4. QED
    BY <2>1, <2>2, <2>3
<1>8. /\ timer' \in Timers /\ timer'.step = "storing"
      /\ timer'.aborted = timer.aborted /\ timer'.joiners = timer.joiners
  <2>1. TimerAt("storing") /\ "storing" \in TimerSets
    BY DEF TimerExpires, TimerDefers, TimerExhausted, TimerSets, LiveSteps
  <2>2. QED
    BY <1>2, <2>1, TimerGoes
<1>9. \A h \in Loops : h # "timer" /\ h \in Holders
  BY DEF Loops, Holders
<1>10. TypeOK'
  BY <1>1, <1>7, <1>8 DEF IInv, TypeOK
<1>11. Fresh'
  BY <1>1, <1>4 DEF Fresh
<1>12. Agree'
  BY <1>1, <1>7 DEF Agree
<1>13. Counted'
  <2>1. byReference => n.attempt = retries
    BY <1>3, <1>6 DEF IInv, Memory, Counted
  <2>2. QED
    BY <1>1, <1>7, <2>1 DEF IInv, Memory, Counted
<1>14. Recorded'
  BY <1>1, <1>5 DEF Recorded
<1>15. Removed'
  BY <1>1, <1>6, <1>7 DEF Removed
<1>16. Orphaned'
  BY <1>1 DEF IInv, Memory, Orphaned
<1>17. Writes'
  <2>1. CASE byReference
    BY <1>1, <1>5, <1>6, <1>7, <1>8, <1>9, <2>1 DEF IInv, Memory, Writes
  <2>2. CASE ~byReference
    BY <1>1, <1>6, <1>7, <1>8, <1>9, <2>2 DEF IInv, Memory, Writes
  <2>3. QED
    BY <2>1, <2>2
<1>18. Aborted'
  BY <1>1, <1>3, <1>8 DEF IInv, Guard, Aborted, TimerLive, LiveSteps, Running
<1>19. SysDone'
  BY <1>1 DEF IInv, Guard, SysDone, AckPending, Loops
<1>20. LoadedSees'
  BY <1>8 DEF LoadedSees
<1>21. PendingIsGuarded'
  BY <1>8 DEF PendingIsGuarded, TimerLive, LiveSteps
<1>22. QED
  BY <1>10, <1>11, <1>12, <1>13, <1>14, <1>15, <1>16, <1>17, <1>18, <1>19,
     <1>20, <1>21 DEF IInv, Memory, Guard

(* A timer retries: the attempt is counted.                                *)
LEMMA TimerRetriesKeeps ==
  ASSUME IInv, TimerRetries
  PROVE  IInv'
<1>1. UNCHANGED <<now, life, shutdownAt, starts,
                  byReference, expects, future, listed,
                  doneSince, handler, sender, answers>>
  BY DEF TimerRetries, lifeVars, given, recordVars, futureVars, sentVars
<1>2. /\ timer \in Timers /\ handler \in [Loops -> Handlers]
      /\ held \in [Holders -> Entries] /\ disk \in Entries
      /\ future \in [Futures -> FutureStates] /\ listed \subseteq Futures
      /\ doneSince \in [Futures -> Time \cup {Never}] /\ now \in Time
      /\ retries \in Nat /\ sender \in Senders
  BY DEF IInv, TypeOK
<1>3. /\ timer.step = "loaded" /\ mine.status = "PENDING"
      /\ mine \in Entries /\ mine # NoEntry /\ mine = held["timer"]
      /\ "timer" \in Holders
  <2>1. timer.step = "loaded" /\ mine.status = "PENDING"
    BY DEF TimerRetries, MayRetry
  <2>2. mine \in Entries /\ "timer" \in Holders /\ mine = held["timer"]
    BY <1>2 DEF mine, Holders
  <2>3. QED
    BY <2>1, <2>2, EntryIs
<1>4. sender.step # "idle"
  BY <1>3 DEF IInv, Memory, Fresh
<1>5. byReference =>
        /\ future["ACK"] # "resolved"
        /\ \A h \in Loops : handler[h].step \notin
             {"storing", "settling", "clearing", "joining"}
        /\ disk = mine
  <2>1. ~AnsweredNow
    BY <1>3 DEF AnsweredNow, IsAnswered, Answered
  <2>2. SUFFICES ASSUME byReference
                 PROVE  /\ future["ACK"] # "resolved"
                        /\ \A h \in Loops : handler[h].step \notin
                             {"storing", "settling", "clearing", "joining"}
                        /\ disk = mine
    OBVIOUS
  <2>3. /\ future["ACK"] # "resolved"
        /\ \A h \in Loops : handler[h].step \notin
             {"storing", "settling", "clearing", "joining"}
    BY <2>1, <2>2 DEF IInv, Memory, Recorded
  <2>4. disk # NoEntry
    BY <1>4, <2>2, <2>3 DEF IInv, Memory, Removed
  <2>5. QED
    BY <1>3, <2>2, <2>3, <2>4 DEF IInv, Memory, Agree
<1>6. PICK n \in Entries :
        /\ Amend("timer", n) /\ n # NoEntry /\ n.attempt = mine.attempt + 1
  <2>1. PICK d \in RetryDelays :
          Amend("timer", [mine EXCEPT !.attempt = @ + 1,
                                      !.due = LeastOf(Timeout, After(d))])
    BY DEF TimerRetries
  <2> DEFINE a == mine.attempt + 1
             due == LeastOf(Timeout, After(d))
             n == [mine EXCEPT !.attempt = a, !.due = due]
  <2>2. a \in Nat
    BY <1>3, EntryIs
  <2>3. After(d) \in Nat
    BY <1>2, RetryAssumption, TimeAssumption, LeastIs DEF After, Time
  <2>4. due \in 0 .. Timeout
    BY <2>3, TimeAssumption, LeastIs
  <2>5. Amend("timer", n)
    BY <1>3, <2>1 DEF Entries, NoEntry
  <2> HIDE DEF a, due
  <2>6. mine \in [status : Statuses, attempt : Nat, due : 0 .. Timeout]
    BY <1>3 DEF Entries
  <2>7. /\ n \in [status : Statuses, attempt : Nat, due : 0 .. Timeout]
        /\ n.status = mine.status /\ n.attempt = a
        /\ mine.status \in Statuses
    BY <2>2, <2>4, <2>6
  <2> HIDE DEF n
  <2>8. n \in Entries
    BY <2>7 DEF Entries
  <2>9. n # NoEntry
    BY <2>7, <2>8, EntryIs
  <2>10. QED
    BY <2>5, <2>7, <2>8, <2>9 DEF a
<1>7. /\ held' \in [Holders -> Entries] /\ disk' \in Entries
      /\ mine' = n
      /\ byReference => (\A q \in Holders : held'[q] = n) /\ disk' = n
      /\ ~byReference => /\ \A q \in Holders : q # "timer" => held'[q] = held[q]
                         /\ disk' = disk
  <2>1. /\ held' \in [Holders -> Entries] /\ disk' \in Entries
        /\ held'["timer"] = n
        /\ byReference => /\ \A q \in Holders : held'[q] = n
                          /\ disk = NoEntry => disk' = NoEntry
                          /\ disk # NoEntry => disk' = n
        /\ ~byReference => /\ \A q \in Holders : q # "timer" => held'[q] = held[q]
                           /\ disk' = disk
    BY <1>2, <1>3, <1>6, Amended
  <2>2. byReference => disk # NoEntry
    BY <1>3, <1>5
  <2>3. mine' = held'["timer"]
    BY DEF mine
  <2>4. QED
    BY <2>1, <2>2, <2>3
<1>8. /\ timer' \in Timers /\ timer'.step = "resending"
      /\ timer'.aborted = timer.aborted /\ timer'.joiners = timer.joiners
  <2>1. TimerAt("resending") /\ "resending" \in TimerSets
    BY DEF TimerRetries, TimerSets, LiveSteps
  <2>2. QED
    BY <1>2, <2>1, TimerGoes
<1>9. \A h \in Loops : h # "timer" /\ h \in Holders
  BY DEF Loops, Holders
<1>10. sent' = TRUE /\ retries' = retries + 1 /\ mine.attempt < MaxRetries
  BY DEF TimerRetries, MayRetry
<1>11. TypeOK'
  BY <1>1, <1>7, <1>8, <1>10 DEF IInv, TypeOK
<1>12. Fresh'
  BY <1>1, <1>4 DEF Fresh
<1>13. Agree'
  BY <1>1, <1>7 DEF Agree
<1>14. Counted'
  <2>1. SUFFICES ASSUME byReference
                 PROVE  retries' <= MaxRetries /\ n.attempt = retries'
    BY <1>1, <1>7 DEF Counted
  <2>2. mine.attempt = retries
    BY <1>3, <2>1 DEF IInv, Memory, Counted
  <2>3. QED
    BY <1>2, <1>6, <1>10, <2>2, RetryAssumption
<1>15. Recorded'
  BY <1>1, <1>5 DEF Recorded
<1>16. Removed'
  BY <1>1, <1>6, <1>7 DEF Removed
<1>17. Orphaned'
  BY <1>1 DEF IInv, Memory, Orphaned
<1>18. Writes'
  <2>1. CASE byReference
    BY <1>1, <1>5, <1>6, <1>7, <1>8, <1>9, <2>1 DEF IInv, Memory, Writes
  <2>2. CASE ~byReference
    BY <1>1, <1>6, <1>7, <1>8, <1>9, <2>2 DEF IInv, Memory, Writes
  <2>3. QED
    BY <2>1, <2>2
<1>19. Aborted'
  BY <1>1, <1>3, <1>8 DEF IInv, Guard, Aborted, TimerLive, LiveSteps, Running
<1>20. SysDone'
  BY <1>1 DEF IInv, Guard, SysDone, AckPending, Loops
<1>21. LoadedSees'
  BY <1>8 DEF LoadedSees
<1>22. PendingIsGuarded'
  BY <1>8 DEF PendingIsGuarded, TimerLive, LiveSteps
<1>23. QED
  BY <1>11, <1>12, <1>13, <1>14, <1>15, <1>16, <1>17, <1>18, <1>19, <1>20,
     <1>21, <1>22 DEF IInv, Memory, Guard

(* The timer writes the entry.                                             *)
LEMMA TimerStoresKeeps ==
  ASSUME IInv, TimerStores
  PROVE  IInv'
<1>1. UNCHANGED <<now, life, shutdownAt, starts,
                  byReference, expects, held, future,
                  listed, doneSince, handler, sender, sent,
                  retries, answers>>
  BY DEF TimerStores, Save, lifeVars, given, recordVars, futureVars, sentVars
<1>2. /\ timer \in Timers /\ handler \in [Loops -> Handlers]
      /\ held \in [Holders -> Entries] /\ disk \in Entries
      /\ future \in [Futures -> FutureStates] /\ listed \subseteq Futures
      /\ doneSince \in [Futures -> Time \cup {Never}] /\ now \in Time
      /\ retries \in Nat /\ sender \in Senders
  BY DEF IInv, TypeOK
<1>3. /\ timer.step = "storing" /\ disk' = mine /\ mine # NoEntry
      /\ mine = held["timer"] /\ "timer" \in Holders
  BY DEF TimerStores, Save, mine, Holders, IInv, Memory, Writes
<1>4. /\ timer' \in Timers /\ timer'.step \in {"rejecting", "arming"}
      /\ timer'.aborted = timer.aborted /\ timer'.joiners = timer.joiners
  <2>1. \E s \in {"rejecting", "arming"} : TimerAt(s) /\ s \in TimerSets
    BY DEF TimerStores, TimerSets, LiveSteps
  <2>2. QED
    BY <1>2, <2>1, TimerGoes
<1>5. sender.step # "idle"
  BY <1>3 DEF IInv, Memory, Fresh
<1>6. TypeOK'
  BY <1>1, <1>3, <1>4 DEF IInv, TypeOK
<1>7. Fresh'
  BY <1>1, <1>5 DEF IInv, Memory, Fresh
<1>8. Agree'
  BY <1>1, <1>3 DEF IInv, Memory, Agree
<1>9. Counted'
  BY <1>1, <1>3 DEF IInv, Memory, Counted
<1>10. Recorded'
  BY <1>1, <1>3 DEF IInv, Memory, Recorded, AnsweredNow, IsAnswered
<1>11. Removed'
  BY <1>1, <1>3 DEF IInv, Memory, Removed
<1>12. Orphaned'
  BY <1>1 DEF IInv, Memory, Orphaned
<1>13. Writes'
  BY <1>1, <1>4 DEF IInv, Memory, Writes, mine
<1>14. Aborted'
  BY <1>1, <1>3, <1>4 DEF IInv, Guard, Aborted, TimerLive, LiveSteps, Running
<1>15. SysDone'
  BY <1>1 DEF IInv, Guard, SysDone, AckPending, Loops
<1>16. LoadedSees'
  BY <1>1, <1>4 DEF IInv, Guard, LoadedSees, mine
<1>17. PendingIsGuarded'
  BY <1>4 DEF PendingIsGuarded, TimerLive, LiveSteps
<1>18. QED
  BY <1>6, <1>7, <1>8, <1>9, <1>10, <1>11, <1>12, <1>13, <1>14, <1>15,
     <1>16, <1>17 DEF IInv, Memory, Guard

(* The time is over: the futures are rejected.                             *)
LEMMA TimerRejectsKeeps ==
  ASSUME IInv, TimerRejects
  PROVE  IInv'
<1>1. UNCHANGED <<now, life, shutdownAt, starts,
                  byReference, expects, disk, held,
                  handler, sender, sent, retries, answers>>
  BY DEF TimerRejects, lifeVars, given, recordVars, futureVars, sentVars
<1>2. /\ timer \in Timers /\ handler \in [Loops -> Handlers]
      /\ held \in [Holders -> Entries] /\ disk \in Entries
      /\ future \in [Futures -> FutureStates] /\ listed \subseteq Futures
      /\ doneSince \in [Futures -> Time \cup {Never}] /\ now \in Time
      /\ retries \in Nat /\ sender \in Senders
  BY DEF IInv, TypeOK
<1>3. timer.step = "rejecting"
  BY DEF TimerRejects
<1>4. /\ timer' \in Timers /\ timer'.step = "none"
  <2>1. TimerEnds
    BY DEF TimerRejects
  <2>2. QED
    BY <1>2, <2>1, TimerEnded
<1>5. sender.step # "idle"
  BY <1>3 DEF IInv, Memory, Fresh
<1>6. /\ future' \in [Futures -> FutureStates] /\ listed' = listed
      /\ doneSince' \in [Futures -> Time \cup {Never}]
      /\ \A f \in Futures : future[f] # "pending" => future'[f] = future[f]
      /\ \A f \in Futures : future[f] = "pending" =>
           future'[f] \in {"rejected", "pending"}
      /\ \A f \in listed : future'[f] # "pending"
      /\ "ACK" \in Futures /\ "REPLY" \in Futures
  <2>1. SettleTo(Futures, "rejected")
    BY DEF TimerRejects
  <2>2. /\ future' \in [Futures -> FutureStates] /\ listed' = listed
        /\ doneSince' \in [Futures -> Time \cup {Never}]
        /\ \A f \in Futures :
             /\ f \in Futures \cap listed /\ future[f] = "pending" =>
                  future'[f] = "rejected"
             /\ ~(f \in Futures \cap listed /\ future[f] = "pending") =>
                  future'[f] = future[f]
    BY <1>2, <2>1, Settled
  <2>3. QED
    BY <1>2, <2>2 DEF Futures
<1>7. TypeOK'
  BY <1>1, <1>4, <1>6 DEF IInv, TypeOK
<1>8. Fresh'
  BY <1>1, <1>5 DEF IInv, Memory, Fresh
<1>9. Agree'
  BY <1>1 DEF IInv, Memory, Agree
<1>10. Counted'
  BY <1>1 DEF IInv, Memory, Counted
<1>11. Recorded'
  BY <1>1, <1>6 DEF IInv, Memory, Recorded, AnsweredNow, IsAnswered
<1>12. Removed'
  BY <1>1, <1>6 DEF IInv, Memory, Removed
<1>13. Orphaned'
  BY <1>1, <1>6 DEF IInv, Memory, Orphaned
<1>14. Writes'
  BY <1>1, <1>4 DEF IInv, Memory, Writes, mine
<1>15. Aborted'
  BY <1>4 DEF Aborted, TimerLive, LiveSteps
<1>16. SysDone'
  BY <1>1, <1>6 DEF IInv, Guard, SysDone, AckPending, Loops
<1>17. LoadedSees'
  BY <1>1, <1>4 DEF IInv, Guard, LoadedSees, mine
<1>18. PendingIsGuarded'
  BY <1>6 DEF PendingIsGuarded, AckPending, ReplyPending
<1>19. QED
  BY <1>7, <1>8, <1>9, <1>10, <1>11, <1>12, <1>13, <1>14, <1>15, <1>16,
     <1>17, <1>18 DEF IInv, Memory, Guard

(* The retry has been delivered.                                           *)
LEMMA ResentKeeps ==
  ASSUME IInv, Resent
  PROVE  IInv'
<1>1. UNCHANGED <<now, life, shutdownAt, starts,
                  byReference, expects, disk, held, future,
                  listed, doneSince, handler, sender, sent,
                  retries, answers>>
  BY DEF Resent, lifeVars, given, recordVars, futureVars, sentVars
<1>2. /\ timer \in Timers /\ handler \in [Loops -> Handlers]
      /\ held \in [Holders -> Entries] /\ disk \in Entries
      /\ future \in [Futures -> FutureStates] /\ listed \subseteq Futures
      /\ doneSince \in [Futures -> Time \cup {Never}] /\ now \in Time
      /\ retries \in Nat /\ sender \in Senders
  BY DEF IInv, TypeOK
<1>3. timer.step = "resending"
  BY DEF Resent
<1>4. /\ timer' \in Timers /\ timer'.step = "arming"
      /\ timer'.aborted = timer.aborted /\ timer'.joiners = timer.joiners
  <2>1. TimerAt("arming") /\ "arming" \in TimerSets
    BY DEF Resent, TimerSets, LiveSteps
  <2>2. QED
    BY <1>2, <2>1, TimerGoes
<1>5. sender.step # "idle"
  BY <1>3 DEF IInv, Memory, Fresh
<1>6. TypeOK'
  BY <1>1, <1>4 DEF IInv, TypeOK
<1>7. Fresh'
  BY <1>1, <1>5 DEF IInv, Memory, Fresh
<1>8. Agree'
  BY <1>1 DEF IInv, Memory, Agree
<1>9. Counted'
  BY <1>1 DEF IInv, Memory, Counted
<1>10. Recorded'
  BY <1>1 DEF IInv, Memory, Recorded, AnsweredNow, IsAnswered
<1>11. Removed'
  BY <1>1 DEF IInv, Memory, Removed
<1>12. Orphaned'
  BY <1>1 DEF IInv, Memory, Orphaned
<1>13. Writes'
  BY <1>1, <1>4 DEF IInv, Memory, Writes, mine
<1>14. Aborted'
  BY <1>1, <1>3, <1>4 DEF IInv, Guard, Aborted, TimerLive, LiveSteps, Running
<1>15. SysDone'
  BY <1>1 DEF IInv, Guard, SysDone, AckPending, Loops
<1>16. LoadedSees'
  BY <1>1, <1>4 DEF IInv, Guard, LoadedSees, mine
<1>17. PendingIsGuarded'
  BY <1>4 DEF PendingIsGuarded, TimerLive, LiveSteps
<1>18. QED
  BY <1>6, <1>7, <1>8, <1>9, <1>10, <1>11, <1>12, <1>13, <1>14, <1>15,
     <1>16, <1>17 DEF IInv, Memory, Guard

(* The delivery of a retry throws.                                         *)
LEMMA ResendThrowsKeeps ==
  ASSUME IInv, ResendThrows
  PROVE  IInv'
<1>1. UNCHANGED <<now, life, shutdownAt, starts,
                  byReference, expects, disk, held, future,
                  listed, doneSince, handler, sender, sent,
                  retries, answers>>
  BY DEF ResendThrows, lifeVars, given, recordVars, futureVars, sentVars
<1>2. /\ timer \in Timers /\ handler \in [Loops -> Handlers]
      /\ held \in [Holders -> Entries] /\ disk \in Entries
      /\ future \in [Futures -> FutureStates] /\ listed \subseteq Futures
      /\ doneSince \in [Futures -> Time \cup {Never}] /\ now \in Time
      /\ retries \in Nat /\ sender \in Senders
  BY DEF IInv, TypeOK
<1>3. timer.step = "resending"
  BY DEF ResendThrows
<1>4. /\ timer' \in Timers /\ timer'.step = "failed"
  <2>1. timer' = [NoTimer EXCEPT !.step = "failed", !.mapped = timer.mapped]
    BY DEF ResendThrows
  <2>2. QED
    BY <1>2, <2>1, TimerStops
<1>5. sender.step # "idle"
  BY <1>3 DEF IInv, Memory, Fresh
<1>6. TypeOK'
  BY <1>1, <1>4 DEF IInv, TypeOK
<1>7. Fresh'
  BY <1>1, <1>5 DEF IInv, Memory, Fresh
<1>8. Agree'
  BY <1>1 DEF IInv, Memory, Agree
<1>9. Counted'
  BY <1>1 DEF IInv, Memory, Counted
<1>10. Recorded'
  BY <1>1 DEF IInv, Memory, Recorded, AnsweredNow, IsAnswered
<1>11. Removed'
  BY <1>1 DEF IInv, Memory, Removed
<1>12. Orphaned'
  BY <1>1 DEF IInv, Memory, Orphaned
<1>13. Writes'
  BY <1>1, <1>4 DEF IInv, Memory, Writes, mine
<1>14. Aborted'
  BY <1>4 DEF Aborted, TimerLive, LiveSteps
<1>15. SysDone'
  BY <1>1 DEF IInv, Guard, SysDone, AckPending, Loops
<1>16. LoadedSees'
  BY <1>1, <1>4 DEF IInv, Guard, LoadedSees, mine
<1>17. PendingIsGuarded'
  BY <1>1, <1>4 DEF IInv, Guard, PendingIsGuarded, TimerLive, Running,
     AckPending, ReplyPending
<1>18. QED
  BY <1>6, <1>7, <1>8, <1>9, <1>10, <1>11, <1>12, <1>13, <1>14, <1>15,
     <1>16, <1>17 DEF IInv, Memory, Guard

(* The next timer is set.                                                  *)
LEMMA TimerRearmsKeeps ==
  ASSUME IInv, TimerRearms
  PROVE  IInv'
<1>1. UNCHANGED <<now, life, shutdownAt, starts,
                  byReference, expects, disk, held, future,
                  listed, doneSince, handler, sender, sent,
                  retries, answers>>
  BY DEF TimerRearms, lifeVars, given, recordVars, futureVars, sentVars
<1>2. /\ timer \in Timers /\ handler \in [Loops -> Handlers]
      /\ held \in [Holders -> Entries] /\ disk \in Entries
      /\ future \in [Futures -> FutureStates] /\ listed \subseteq Futures
      /\ doneSince \in [Futures -> Time \cup {Never}] /\ now \in Time
      /\ retries \in Nat /\ sender \in Senders
  BY DEF IInv, TypeOK
<1>3. timer.step = "arming"
  BY DEF TimerRearms
<1>4. /\ timer' \in Timers /\ timer'.step = "sleeping"
      /\ timer'.aborted = FALSE
  <2>1. mine.due \in 0 .. Timeout /\ timer.policy \in BOOLEAN
    BY <1>2, EntryIs DEF mine, Holders, Timers
  <2>2. Arm(mine.due, timer.policy)
    BY DEF TimerRearms
  <2>3. QED
    BY <2>1, <2>2, Armed
<1>5. sender.step # "idle"
  BY <1>3 DEF IInv, Memory, Fresh
<1>6. TypeOK'
  BY <1>1, <1>4 DEF IInv, TypeOK
<1>7. Fresh'
  BY <1>1, <1>5 DEF IInv, Memory, Fresh
<1>8. Agree'
  BY <1>1 DEF IInv, Memory, Agree
<1>9. Counted'
  BY <1>1 DEF IInv, Memory, Counted
<1>10. Recorded'
  BY <1>1 DEF IInv, Memory, Recorded, AnsweredNow, IsAnswered
<1>11. Removed'
  BY <1>1 DEF IInv, Memory, Removed
<1>12. Orphaned'
  BY <1>1 DEF IInv, Memory, Orphaned
<1>13. Writes'
  BY <1>1, <1>4 DEF IInv, Memory, Writes, mine
<1>14. Aborted'
  BY <1>4 DEF Aborted
<1>15. SysDone'
  BY <1>1 DEF IInv, Guard, SysDone, AckPending, Loops
<1>16. LoadedSees'
  BY <1>1, <1>4 DEF IInv, Guard, LoadedSees, mine
<1>17. PendingIsGuarded'
  BY <1>4 DEF PendingIsGuarded, TimerLive, LiveSteps
<1>18. QED
  BY <1>6, <1>7, <1>8, <1>9, <1>10, <1>11, <1>12, <1>13, <1>14, <1>15,
     <1>16, <1>17 DEF IInv, Memory, Guard

(* Settled futures are forgotten.                                          *)
LEMMA SweepKeeps ==
  ASSUME IInv, Sweep
  PROVE  IInv'
<1>1. UNCHANGED <<now, life, shutdownAt, starts,
                  byReference, expects, disk, held, future,
                  timer, handler, sender, sent, retries,
                  answers>>
  BY DEF Sweep, lifeVars, given, recordVars, futureVars, sentVars
<1>2. /\ timer \in Timers /\ handler \in [Loops -> Handlers]
      /\ held \in [Holders -> Entries] /\ disk \in Entries
      /\ future \in [Futures -> FutureStates] /\ listed \subseteq Futures
      /\ doneSince \in [Futures -> Time \cup {Never}] /\ now \in Time
      /\ retries \in Nat /\ sender \in Senders
  BY DEF IInv, TypeOK
<1>3. /\ listed' \subseteq listed
      /\ doneSince' \in [Futures -> Time \cup {Never}]
  BY <1>2 DEF Sweep
<1>4. TypeOK'
  BY <1>1, <1>3 DEF IInv, TypeOK
<1>5. Fresh'
  BY <1>1, <1>3 DEF IInv, Memory, Fresh
<1>6. Agree'
  BY <1>1 DEF IInv, Memory, Agree
<1>7. Counted'
  BY <1>1 DEF IInv, Memory, Counted
<1>8. Recorded'
  BY <1>1 DEF IInv, Memory, Recorded, AnsweredNow, IsAnswered
<1>9. Removed'
  BY <1>1 DEF IInv, Memory, Removed
<1>10. Orphaned'
  BY <1>1 DEF IInv, Memory, Orphaned
<1>11. Writes'
  BY <1>1 DEF IInv, Memory, Writes, mine
<1>12. Aborted'
  BY <1>1 DEF IInv, Guard, Aborted, TimerLive, Running
<1>13. SysDone'
  BY <1>1, <1>3 DEF IInv, Guard, SysDone, AckPending, Loops
<1>14. LoadedSees'
  BY <1>1 DEF IInv, Guard, LoadedSees, mine
<1>15. PendingIsGuarded'
  BY <1>1, <1>3 DEF IInv, Guard, PendingIsGuarded, TimerLive, Running,
     AckPending, ReplyPending
<1>16. QED
  BY <1>4, <1>5, <1>6, <1>7, <1>8, <1>9, <1>10, <1>11, <1>12, <1>13,
     <1>14, <1>15 DEF IInv, Memory, Guard

(* The node prepares to stop.                                              *)
LEMMA PrepareKeeps ==
  ASSUME IInv, PrepareToStop
  PROVE  IInv'
<1>1. UNCHANGED <<now, starts, byReference, expects, disk,
                  held, future, listed, doneSince, timer,
                  handler, sender, sent, retries, answers>>
  BY DEF PrepareToStop, lifeVars, given, recordVars, futureVars, sentVars
<1>2. /\ timer \in Timers /\ handler \in [Loops -> Handlers]
      /\ held \in [Holders -> Entries] /\ disk \in Entries
      /\ future \in [Futures -> FutureStates] /\ listed \subseteq Futures
      /\ doneSince \in [Futures -> Time \cup {Never}] /\ now \in Time
      /\ retries \in Nat /\ sender \in Senders
  BY DEF IInv, TypeOK
<1>3. /\ life' \in Lives /\ (Running' => Running) /\ shutdownAt' \in Time \cup {Never}
  BY <1>2 DEF PrepareToStop, Lives, Running
<1>4. TypeOK'
  BY <1>1, <1>3 DEF IInv, TypeOK
<1>5. Fresh'
  BY <1>1 DEF IInv, Memory, Fresh
<1>6. Agree'
  BY <1>1 DEF IInv, Memory, Agree
<1>7. Counted'
  BY <1>1 DEF IInv, Memory, Counted
<1>8. Recorded'
  BY <1>1 DEF IInv, Memory, Recorded, AnsweredNow, IsAnswered
<1>9. Removed'
  BY <1>1 DEF IInv, Memory, Removed
<1>10. Orphaned'
  BY <1>1 DEF IInv, Memory, Orphaned
<1>11. Writes'
  BY <1>1 DEF IInv, Memory, Writes, mine
<1>12. Aborted'
  BY <1>1, <1>3 DEF IInv, Guard, Aborted, TimerLive
<1>13. SysDone'
  BY <1>1 DEF IInv, Guard, SysDone, AckPending, Loops
<1>14. LoadedSees'
  BY <1>1 DEF IInv, Guard, LoadedSees, mine
<1>15. PendingIsGuarded'
  BY <1>1, <1>3 DEF IInv, Guard, PendingIsGuarded, TimerLive, AckPending,
     ReplyPending
<1>16. QED
  BY <1>4, <1>5, <1>6, <1>7, <1>8, <1>9, <1>10, <1>11, <1>12, <1>13,
     <1>14, <1>15 DEF IInv, Memory, Guard

(* The wait of the stop for the ack ends.                                  *)
LEMMA AckWaitEndsKeeps ==
  ASSUME IInv, AckWaitEnds
  PROVE  IInv'
<1>1. UNCHANGED <<now, shutdownAt, starts, byReference,
                  expects, held, future, listed, doneSince,
                  timer, handler, sender, sent, retries,
                  answers>>
  BY DEF AckWaitEnds, lifeVars, given, recordVars, futureVars, sentVars
<1>2. /\ timer \in Timers /\ handler \in [Loops -> Handlers]
      /\ held \in [Holders -> Entries] /\ disk \in Entries
      /\ future \in [Futures -> FutureStates] /\ listed \subseteq Futures
      /\ doneSince \in [Futures -> Time \cup {Never}] /\ now \in Time
      /\ retries \in Nat /\ sender \in Senders
  BY DEF IInv, TypeOK
<1>3. life' \in Lives /\ (Running' => Running)
  BY <1>2 DEF AckWaitEnds, Lives, Running
<1>4. \/ disk' = disk
      \/ /\ disk' = NoEntry /\ NoEntry \in Entries
         /\ future["ACK"] = "resolved" /\ NoEntry.status = "none"
  BY EntryIs DEF AckWaitEnds
<1>5. TypeOK'
  BY <1>1, <1>3, <1>4 DEF IInv, TypeOK
<1>6. Fresh'
  BY <1>1, <1>4 DEF IInv, Memory, Fresh
<1>7. Agree'
  BY <1>1, <1>4 DEF IInv, Memory, Agree
<1>8. Counted'
  BY <1>1, <1>4 DEF IInv, Memory, Counted
<1>9. Recorded'
  BY <1>1, <1>4 DEF IInv, Memory, Recorded, AnsweredNow, IsAnswered
<1>10. Removed'
  BY <1>1, <1>4 DEF IInv, Memory, Removed
<1>11. Orphaned'
  BY <1>1 DEF IInv, Memory, Orphaned
<1>12. Writes'
  BY <1>1 DEF IInv, Memory, Writes, mine
<1>13. Aborted'
  BY <1>1, <1>3 DEF IInv, Guard, Aborted, TimerLive
<1>14. SysDone'
  BY <1>1 DEF IInv, Guard, SysDone, AckPending, Loops
<1>15. LoadedSees'
  BY <1>1, <1>4 DEF IInv, Guard, LoadedSees, mine
<1>16. PendingIsGuarded'
  BY <1>1, <1>3, <1>4 DEF IInv, Guard, PendingIsGuarded, TimerLive,
     AckPending, ReplyPending
<1>17. QED
  BY <1>5, <1>6, <1>7, <1>8, <1>9, <1>10, <1>11, <1>12, <1>13, <1>14,
     <1>15, <1>16 DEF IInv, Memory, Guard

(* The tracker forgets everything and cancels its timer.                   *)
LEMMA CleanupKeeps ==
  ASSUME IInv, Cleanup
  PROVE  IInv'
<1>1. UNCHANGED <<now, starts, byReference, expects, disk,
                  held, handler, sender, sent, retries,
                  answers>>
  BY DEF Cleanup, lifeVars, given, recordVars, futureVars, sentVars
<1>2. /\ timer \in Timers /\ handler \in [Loops -> Handlers]
      /\ held \in [Holders -> Entries] /\ disk \in Entries
      /\ future \in [Futures -> FutureStates] /\ listed \subseteq Futures
      /\ doneSince \in [Futures -> Time \cup {Never}] /\ now \in Time
      /\ retries \in Nat /\ sender \in Senders
  BY DEF IInv, TypeOK
<1>3. /\ life' \in Lives /\ ~Running' /\ shutdownAt' \in Time \cup {Never}
  BY DEF Cleanup, Lives, Running
<1>4. /\ timer' \in Timers /\ timer'.step = timer.step
  <2>1. CASE timer.mapped
    <3>1. timer' = [timer EXCEPT !.aborted = TRUE, !.mapped = FALSE,
                                 !.joiners = @ \cup {"stop"}]
      BY <2>1 DEF Cleanup
    <3>2. QED
      BY <1>2, <3>1 DEF Timers
  <2>2. CASE ~timer.mapped
    BY <1>2, <2>2 DEF Cleanup
  <2>3. QED
    BY <2>1, <2>2
<1>5. /\ future' \in [Futures -> FutureStates] /\ listed' = {}
      /\ doneSince' \in [Futures -> Time \cup {Never}]
      /\ \A f \in Futures : future'[f] \in {future[f], "rejected"}
      /\ \A f \in Futures : future[f] # "pending" => future'[f] = future[f]
      /\ "ACK" \in Futures
  BY <1>2 DEF Cleanup, FutureStates, Futures
<1>6. TypeOK'
  BY <1>1, <1>3, <1>4, <1>5 DEF IInv, TypeOK
<1>7. Fresh'
  BY <1>1, <1>4, <1>5 DEF IInv, Memory, Fresh
<1>8. Agree'
  BY <1>1 DEF IInv, Memory, Agree
<1>9. Counted'
  BY <1>1 DEF IInv, Memory, Counted
<1>10. Recorded'
  <2>1. future'["ACK"] = "resolved" => future["ACK"] = "resolved"
    BY <1>5
  <2>2. QED
    BY <1>1, <2>1 DEF IInv, Memory, Recorded, AnsweredNow
<1>11. Removed'
  BY <1>1, <1>5 DEF IInv, Memory, Removed
<1>12. Orphaned'
  BY <1>1, <1>5 DEF IInv, Memory, Orphaned
<1>13. Writes'
  BY <1>1, <1>4 DEF IInv, Memory, Writes, mine
<1>14. Aborted'
  BY <1>3 DEF Aborted
<1>15. SysDone'
  BY <1>5 DEF SysDone, AckPending
<1>16. LoadedSees'
  BY <1>1, <1>4 DEF IInv, Guard, LoadedSees, mine
<1>17. PendingIsGuarded'
  BY <1>3 DEF PendingIsGuarded
<1>18. QED
  BY <1>6, <1>7, <1>8, <1>9, <1>10, <1>11, <1>12, <1>13, <1>14, <1>15,
     <1>16, <1>17 DEF IInv, Memory, Guard

(* The timer has ended.                                                    *)
LEMMA CleanupJoinsKeeps ==
  ASSUME IInv, CleanupJoins
  PROVE  IInv'
<1>1. UNCHANGED <<now, shutdownAt, starts, byReference,
                  expects, disk, held, future, listed,
                  doneSince, timer, handler, sender, sent,
                  retries, answers>>
  BY DEF CleanupJoins, lifeVars, given, recordVars, futureVars, sentVars
<1>2. /\ timer \in Timers /\ handler \in [Loops -> Handlers]
      /\ held \in [Holders -> Entries] /\ disk \in Entries
      /\ future \in [Futures -> FutureStates] /\ listed \subseteq Futures
      /\ doneSince \in [Futures -> Time \cup {Never}] /\ now \in Time
      /\ retries \in Nat /\ sender \in Senders
  BY DEF IInv, TypeOK
<1>3. life' \in Lives /\ ~Running'
  BY DEF CleanupJoins, Lives, Running
<1>4. TypeOK'
  BY <1>1, <1>3 DEF IInv, TypeOK
<1>5. Fresh'
  BY <1>1 DEF IInv, Memory, Fresh
<1>6. Agree'
  BY <1>1 DEF IInv, Memory, Agree
<1>7. Counted'
  BY <1>1 DEF IInv, Memory, Counted
<1>8. Recorded'
  BY <1>1 DEF IInv, Memory, Recorded, AnsweredNow, IsAnswered
<1>9. Removed'
  BY <1>1 DEF IInv, Memory, Removed
<1>10. Orphaned'
  BY <1>1 DEF IInv, Memory, Orphaned
<1>11. Writes'
  BY <1>1 DEF IInv, Memory, Writes, mine
<1>12. Aborted'
  BY <1>3 DEF Aborted
<1>13. SysDone'
  BY <1>1 DEF IInv, Guard, SysDone, AckPending, Loops
<1>14. LoadedSees'
  BY <1>1 DEF IInv, Guard, LoadedSees, mine
<1>15. PendingIsGuarded'
  BY <1>3 DEF PendingIsGuarded
<1>16. QED
  BY <1>4, <1>5, <1>6, <1>7, <1>8, <1>9, <1>10, <1>11, <1>12, <1>13,
     <1>14, <1>15 DEF IInv, Memory, Guard

(* Every task that is left is cancelled.                                   *)
LEMMA ShutdownTasksKeeps ==
  ASSUME IInv, ShutdownTasks
  PROVE  IInv'
<1>1. UNCHANGED <<now, shutdownAt, starts, byReference,
                  expects, disk, held, future, listed,
                  doneSince, handler, sender, sent,
                  retries, answers>>
  BY DEF ShutdownTasks, lifeVars, given, recordVars, futureVars, sentVars
<1>2. /\ timer \in Timers /\ handler \in [Loops -> Handlers]
      /\ held \in [Holders -> Entries] /\ disk \in Entries
      /\ future \in [Futures -> FutureStates] /\ listed \subseteq Futures
      /\ doneSince \in [Futures -> Time \cup {Never}] /\ now \in Time
      /\ retries \in Nat /\ sender \in Senders
  BY DEF IInv, TypeOK
<1>3. life' \in Lives /\ ~Running'
  BY DEF ShutdownTasks, Lives, Running
<1>4. /\ timer' \in Timers /\ timer'.step = timer.step
  <2> DEFINE b == TimerLive \/ timer.aborted
  <2>1. b \in BOOLEAN
    BY <1>2 DEF TimerLive, Timers
  <2>2. timer' = [timer EXCEPT !.aborted = b]
    BY DEF ShutdownTasks
  <2> HIDE DEF b
  <2>3. QED
    BY <1>2, <2>1, <2>2 DEF Timers
<1>5. TypeOK'
  BY <1>1, <1>3, <1>4 DEF IInv, TypeOK
<1>6. Fresh'
  BY <1>1, <1>4 DEF IInv, Memory, Fresh
<1>7. Agree'
  BY <1>1 DEF IInv, Memory, Agree
<1>8. Counted'
  BY <1>1 DEF IInv, Memory, Counted
<1>9. Recorded'
  BY <1>1 DEF IInv, Memory, Recorded, AnsweredNow, IsAnswered
<1>10. Removed'
  BY <1>1 DEF IInv, Memory, Removed
<1>11. Orphaned'
  BY <1>1 DEF IInv, Memory, Orphaned
<1>12. Writes'
  BY <1>1, <1>4 DEF IInv, Memory, Writes, mine
<1>13. Aborted'
  BY <1>3 DEF Aborted
<1>14. SysDone'
  BY <1>1 DEF IInv, Guard, SysDone, AckPending, Loops
<1>15. LoadedSees'
  BY <1>1, <1>4 DEF IInv, Guard, LoadedSees, mine
<1>16. PendingIsGuarded'
  BY <1>3 DEF PendingIsGuarded
<1>17. QED
  BY <1>5, <1>6, <1>7, <1>8, <1>9, <1>10, <1>11, <1>12, <1>13, <1>14,
     <1>15, <1>16 DEF IInv, Memory, Guard

(* What is not on disk is lost.                                            *)
LEMMA CrashKeeps ==
  ASSUME IInv, Crash
  PROVE  IInv'
<1>1. UNCHANGED <<now, starts, byReference, expects, disk,
                  sent, retries, answers>>
  BY DEF Crash, lifeVars, given, recordVars, futureVars, sentVars
<1>2. /\ timer \in Timers /\ handler \in [Loops -> Handlers]
      /\ held \in [Holders -> Entries] /\ disk \in Entries
      /\ future \in [Futures -> FutureStates] /\ listed \subseteq Futures
      /\ doneSince \in [Futures -> Time \cup {Never}] /\ now \in Time
      /\ retries \in Nat /\ sender \in Senders
  BY DEF IInv, TypeOK
<1>3. /\ life' \in Lives /\ ~Running' /\ shutdownAt' \in Time \cup {Never}
      /\ byReference = FALSE
  BY DEF Crash, Lives, Running, IInv, TypeOK
<1>4. /\ held' \in [Holders -> Entries] /\ \A p \in Holders : held'[p] = NoEntry
      /\ future' \in [Futures -> FutureStates] /\ listed' = {}
      /\ \A f \in Futures : future'[f] = "none"
      /\ doneSince' \in [Futures -> Time \cup {Never}]
  BY EntryIs DEF Crash, FutureStates
<1>5. /\ timer' \in Timers /\ timer'.step = "none" /\ timer'.aborted = FALSE
      /\ handler' \in [Loops -> Handlers]
      /\ \A h \in Loops : handler'[h].step = "idle"
  BY TimeAssumption DEF Crash, NoTimer, Timers, Time, IdleLoop, Handlers,
     Kinds
<1>6. /\ sender' \in Senders
      /\ sender'.step = "idle" => sender.step = "idle"
  <2> DEFINE s == IF sender.step = "idle" THEN "idle" ELSE "crashed"
  <2>1. sender' = [until |-> 0, step |-> s]
    BY DEF Crash
  <2>2. s \in {"idle", "crashed"} /\ (s = "idle" => sender.step = "idle")
    OBVIOUS
  <2> HIDE DEF s
  <2>3. 0 \in Time
    BY TimeAssumption DEF Time
  <2>4. QED
    BY <2>1, <2>2, <2>3 DEF Senders
<1>7. "sys" \in Loops
  BY DEF Loops
<1>8. TypeOK'
  BY <1>1, <1>3, <1>4, <1>5, <1>6 DEF IInv, TypeOK
<1>9. Fresh'
  BY <1>1, <1>4, <1>5, <1>6 DEF IInv, Memory, Fresh
<1>10. Agree'
  BY <1>1, <1>3 DEF Agree
<1>11. Counted'
  BY <1>1, <1>3 DEF Counted
<1>12. Recorded'
  BY <1>1, <1>3 DEF Recorded
<1>13. Removed'
  BY <1>1, <1>3 DEF Removed
<1>14. Orphaned'
  BY <1>1, <1>3 DEF Orphaned
<1>15. Writes'
  BY <1>5 DEF Writes
<1>16. Aborted'
  BY <1>3 DEF Aborted
<1>17. SysDone'
  BY <1>5, <1>7 DEF SysDone
<1>18. LoadedSees'
  BY <1>5 DEF LoadedSees
<1>19. PendingIsGuarded'
  BY <1>3 DEF PendingIsGuarded
<1>20. QED
  BY <1>8, <1>9, <1>10, <1>11, <1>12, <1>13, <1>14, <1>15, <1>16, <1>17,
     <1>18, <1>19 DEF IInv, Memory, Guard

(* A pending entry is tracked again.                                       *)
LEMMA RestartKeeps ==
  ASSUME IInv, Restart
  PROVE  IInv'
<1>1. UNCHANGED <<now, shutdownAt, byReference, expects,
                  disk, doneSince, handler, sender, sent,
                  retries, answers>>
  BY DEF Restart, lifeVars, given, recordVars, futureVars, sentVars
<1>2. /\ timer \in Timers /\ handler \in [Loops -> Handlers]
      /\ held \in [Holders -> Entries] /\ disk \in Entries
      /\ future \in [Futures -> FutureStates] /\ listed \subseteq Futures
      /\ doneSince \in [Futures -> Time \cup {Never}] /\ now \in Time
      /\ retries \in Nat /\ sender \in Senders
  BY DEF IInv, TypeOK
<1>3. /\ life' \in Lives /\ starts' \in Nat
      /\ ~TimerLive /\ sender.step # "tracked"
      /\ \A h \in Loops : handler[h].step = "idle"
  BY DEF Restart, Lives, IInv, TypeOK
<1>4. disk.status = "PENDING" =>
        /\ held' = [held EXCEPT !["timer"] = disk]
        /\ future' \in [Futures -> FutureStates] /\ listed' \subseteq Futures
        /\ future'["ACK"] # "resolved"
        /\ timer' \in Timers /\ timer'.step = "sleeping"
        /\ timer'.aborted = FALSE
  <2>1. SUFFICES ASSUME disk.status = "PENDING"
                 PROVE  /\ held' = [held EXCEPT !["timer"] = disk]
                        /\ future' \in [Futures -> FutureStates]
                        /\ listed' \subseteq Futures
                        /\ future'["ACK"] # "resolved"
                        /\ timer' \in Timers /\ timer'.step = "sleeping"
                        /\ timer'.aborted = FALSE
    OBVIOUS
  <2>2. expects \subseteq Futures
    BY ExpectAssumption DEF IInv, TypeOK, Futures
  <2>3. disk.due \in 0 .. Timeout /\ FALSE \in BOOLEAN
    BY <1>2, EntryIs
  <2>4. Arm(disk.due, FALSE)
    BY <2>1 DEF Restart
  <2>5. QED
    BY <2>1, <2>2, <2>3, <2>4, Armed DEF Restart, FutureStates, Futures
<1>5. disk.status # "PENDING" => UNCHANGED <<held, future, listed, timer>>
  BY DEF Restart
<1>6. "timer" \in Holders /\ "sys" \in Loops
  BY DEF Holders, Loops
<1>7. /\ held' \in [Holders -> Entries]
      /\ \A p \in Holders : held'[p] \in {held[p], disk}
      /\ timer' \in Timers /\ timer'.step # "loaded" /\ timer'.step # "storing"
      /\ timer'.step \in LiveSteps => timer'.aborted = FALSE
  <2>1. CASE disk.status = "PENDING"
    <3>1. /\ held' = [held EXCEPT !["timer"] = disk]
          /\ timer' \in Timers /\ timer'.step = "sleeping"
          /\ timer'.aborted = FALSE
      BY <1>4, <2>1
    <3>2. QED
      BY <1>2, <1>6, <3>1
  <2>2. CASE disk.status # "PENDING"
    BY <1>2, <1>3, <1>5, <2>2 DEF TimerLive, LiveSteps
  <2>3. QED
    BY <2>1, <2>2
<1>8. /\ sender.step = "idle" => disk.status # "PENDING"
      /\ byReference /\ disk.status = "PENDING" => ~AnsweredNow
  <2>1. sender.step = "idle" => disk.status # "PENDING"
    BY EntryIs DEF IInv, Memory, Fresh
  <2>2. disk.status = "PENDING" => ~AnsweredNow
    BY EntryIs DEF AnsweredNow, IsAnswered, Answered
  <2>3. QED
    BY <2>1, <2>2
<1>9. TypeOK'
  <2>1. /\ future' \in [Futures -> FutureStates] /\ listed' \subseteq Futures
    BY <1>2, <1>4, <1>5
  <2>2. QED
    BY <1>1, <1>3, <1>7, <2>1 DEF IInv, TypeOK
<1>10. Fresh'
  BY <1>1, <1>5, <1>8 DEF IInv, Memory, Fresh
<1>11. Agree'
  <2>1. SUFFICES ASSUME byReference, NEW p \in Holders, held'[p] # NoEntry
                 PROVE  /\ disk # NoEntry => held'[p] = disk
                        /\ \A q \in Holders :
                             held'[q] # NoEntry => held'[p] = held'[q]
    BY <1>1 DEF Agree
  <2>2. CASE disk.status = "PENDING"
    <3>1. disk # NoEntry
      BY <2>2, EntryIs
    <3>2. \A q \in Holders : held'[q] # NoEntry => held'[q] = disk
      BY <1>7, <2>1, <3>1 DEF IInv, Memory, Agree
    <3>3. QED
      BY <2>1, <3>2
  <2>3. CASE disk.status # "PENDING"
    BY <1>5, <2>1, <2>3 DEF IInv, Memory, Agree
  <2>4. QED
    BY <2>2, <2>3
<1>12. Counted'
  BY <1>1, <1>7 DEF IInv, Memory, Counted
<1>13. Recorded'
  <2>1. CASE disk.status = "PENDING"
    BY <1>1, <1>3, <1>4, <2>1 DEF Recorded
  <2>2. CASE disk.status # "PENDING"
    BY <1>1, <1>5, <2>2 DEF IInv, Memory, Recorded, AnsweredNow
  <2>3. QED
    BY <2>1, <2>2
<1>14. Removed'
  <2>1. disk = NoEntry => disk.status # "PENDING"
    BY EntryIs
  <2>2. QED
    BY <1>1, <1>5, <2>1 DEF IInv, Memory, Removed
<1>15. Orphaned'
  BY <1>1, <1>3 DEF Orphaned
<1>16. Writes'
  BY <1>1, <1>3, <1>7 DEF Writes
<1>17. Aborted'
  BY <1>7 DEF Aborted, TimerLive
<1>18. SysDone'
  BY <1>1, <1>3, <1>6 DEF SysDone
<1>19. LoadedSees'
  BY <1>7 DEF LoadedSees
<1>20. PendingIsGuarded'
  BY <1>1, <1>4 DEF PendingIsGuarded, TimerLive, LiveSteps
<1>21. QED
  BY <1>9, <1>10, <1>11, <1>12, <1>13, <1>14, <1>15, <1>16, <1>17, <1>18,
     <1>19, <1>20 DEF IInv, Memory, Guard
-----------------------------------------------------------------------------
(* Nothing has happened in the beginning.                                  *)
LEMMA InitOK == Init => IInv
<1> SUFFICES ASSUME Init PROVE IInv
  OBVIOUS
<1>1. /\ NoTimer \in Timers /\ NoTimer.step = "none"
      /\ NoTimer.aborted = FALSE
  BY TimeAssumption DEF NoTimer, Timers, Time
<1>2. IdleLoop \in Handlers /\ IdleLoop.step = "idle"
  BY DEF IdleLoop, Handlers, Kinds
<1>3. 0 \in Time
  BY TimeAssumption DEF Time
<1>4. [step |-> "idle", until |-> 0] \in Senders
  BY <1>3 DEF Senders
<1>5. TypeOK
  BY <1>1, <1>2, <1>3, <1>4, EntryIs DEF Init, TypeOK, Lives, FutureStates
<1>6. Fresh
  BY <1>1, <1>2 DEF Init, Fresh
<1>7. Agree
  BY DEF Init, Agree
<1>8. Counted
  BY RetryAssumption DEF Init, Counted
<1>9. Recorded /\ Removed
  BY <1>2 DEF Init, Recorded, Removed, Futures
<1>10. Orphaned /\ Writes
  BY <1>1, <1>2 DEF Init, Orphaned, Writes
<1>11. Aborted
  BY <1>1 DEF Init, Aborted
<1>12. SysDone /\ LoadedSees
  BY <1>1, <1>2 DEF Init, SysDone, LoadedSees, Loops
<1>13. PendingIsGuarded
  BY EntryIs DEF Init, PendingIsGuarded
<1>14. QED
  BY <1>5, <1>6, <1>7, <1>8, <1>9, <1>10, <1>11, <1>12, <1>13
     DEF IInv, Memory, Guard

(* Steps that change nothing.                                              *)
LEMMA StutterKeeps ==
  ASSUME IInv, UNCHANGED vars
  PROVE  IInv'
<1>1. UNCHANGED <<now, life, shutdownAt, starts, byReference, expects, disk,
                  held, future, listed, doneSince, timer, handler, sender,
                  sent, retries, answers>>
  BY DEF vars, lifeVars, given, recordVars, futureVars, sentVars
<1>2. TypeOK'
  BY <1>1 DEF IInv, TypeOK
<1>3. Fresh' /\ Agree' /\ Counted'
  BY <1>1 DEF IInv, Memory, Fresh, Agree, Counted
<1>4. Recorded' /\ Removed' /\ Orphaned' /\ Writes'
  BY <1>1 DEF IInv, Memory, Recorded, AnsweredNow, Removed, Orphaned, Writes,
              mine
<1>5. Aborted' /\ SysDone' /\ LoadedSees'
  BY <1>1 DEF IInv, Guard, Aborted, TimerLive, Running, SysDone, AckPending,
              LoadedSees, mine
<1>6. PendingIsGuarded'
  BY <1>1 DEF IInv, Guard, PendingIsGuarded, TimerLive, Running, AckPending,
              ReplyPending
<1>7. QED
  BY <1>2, <1>3, <1>4, <1>5, <1>6 DEF IInv, Memory, Guard

(* One case per action.                                                    *)
LEMMA IInvKept == IInv /\ [Next]_vars => IInv'
<1> SUFFICES ASSUME IInv, [Next]_vars PROVE IInv'
  OBVIOUS
<1>1. CASE SenderSteps \/ DeliverThrows
  BY <1>1, TrackKeeps, DeliverKeeps, DeliveredKeeps, AckAwaitedKeeps
     DEF SenderSteps
<1>2. ASSUME NEW k \in Kinds, Receive(k) PROVE IInv'
  BY <1>2, ReceiveKeeps
<1>3. ASSUME NEW h \in Loops, Handle(h) PROVE IInv'
  BY <1>3, MarkKeeps, StoredKeeps, SettleKeeps, SettleOrphanKeeps,
     CancelTimerKeeps, JoinTimerKeeps DEF Handle
<1>4. CASE TimerSteps \/ ResendThrows
  <2>1. CASE TimerExpires \/ TimerDefers \/ TimerExhausted
    BY <2>1, TimerWritesKeeps
  <2>2. CASE TimerAborted \/ TimerWakes \/ TimerQuits \/ TimerRetries
    BY <2>2, TimerAbortedKeeps, TimerWakesKeeps, TimerQuitsKeeps,
       TimerRetriesKeeps
  <2>3. CASE TimerStores \/ TimerRejects \/ Resent \/ TimerRearms
    BY <2>3, TimerStoresKeeps, TimerRejectsKeeps, ResentKeeps,
       TimerRearmsKeeps
  <2>4. CASE ResendThrows
    BY <2>4, ResendThrowsKeeps
  <2>5. QED
    BY <1>4, <2>1, <2>2, <2>3, <2>4 DEF TimerSteps
<1>5. CASE LifeSteps
  BY <1>5, PrepareKeeps, AckWaitEndsKeeps, CleanupKeeps, CleanupJoinsKeeps,
     ShutdownTasksKeeps, CrashKeeps, RestartKeeps DEF LifeSteps
<1>6. CASE Sweep \/ Tick
  BY <1>6, SweepKeeps, TickKeeps
<1>7. CASE Stopped \/ UNCHANGED vars
  BY <1>7, StutterKeeps DEF Stopped
<1>8. QED
  BY <1>1, <1>2, <1>3, <1>4, <1>5, <1>6, <1>7 DEF Next
-----------------------------------------------------------------------------
(* An answer that is recorded is not lost by any step.                     *)
LEMMA AnswerIsKept ==
  ASSUME IInv, [Next]_vars, byReference, disk.status \in Answered
  PROVE  disk'.status \in Answered \cup {"none"}
<1>1. disk \in Entries /\ disk # NoEntry
  BY EntryIs DEF IInv, TypeOK, Answered
<1>2. \A p \in Holders : held[p] # NoEntry => held[p] = disk
  BY <1>1 DEF IInv, Memory, Agree
<1>3. mine # NoEntry => mine.status \in Answered
  BY <1>2 DEF mine, Holders
<1>4. CASE UNCHANGED disk
  BY <1>4
<1>5. CASE Track
  BY <1>1, <1>5 DEF Track, IInv, Memory, Fresh
<1>6. ASSUME NEW h \in Loops, Mark(h)
      PROVE  disk'.status \in Answered \cup {"none"}
  <2> DEFINE s == StatusFor(handler[h].kind)
             n == [held[h] EXCEPT !.status = s]
  <2>1. /\ held \in [Holders -> Entries] /\ h \in Holders
        /\ handler[h].kind \in Kinds
    BY DEF IInv, TypeOK, Holders, Handlers
  <2>2. s \in Answered /\ s \in Statuses
    BY <2>1 DEF StatusFor, Answered, Statuses, Kinds
  <2>3. disk' = n
    BY <1>1, <1>6 DEF Mark, Amend
  <2> HIDE DEF s
  <2>4. held[h] \in Entries
    BY <2>1
  <2>5. n.status = s
    BY <2>2, <2>4, EntryStatus
  <2>6. QED
    BY <2>2, <2>3, <2>5
<1>7. ASSUME NEW h \in Loops, Stored(h)
      PROVE  disk'.status \in Answered \cup {"none"}
  BY <1>7 DEF Stored, Save, IInv, Memory, Writes
<1>8. CASE TimerExpires \/ TimerDefers \/ TimerRetries \/ TimerExhausted
  <2>1. mine.status = "PENDING"
    BY <1>8 DEF TimerExpires, TimerDefers, TimerRetries, TimerExhausted,
                MayRetry
  <2>2. mine # NoEntry
    BY <2>1, EntryIs
  <2>3. QED
    BY <1>3, <2>1, <2>2 DEF Answered
<1>9. CASE TimerStores
  BY <1>3, <1>9 DEF TimerStores, Save, mine, IInv, Memory, Writes
<1>10. CASE AckWaitEnds
  BY <1>10, EntryIs DEF AckWaitEnds
<1>11. CASE SenderSteps \/ DeliverThrows
  BY <1>4, <1>5, <1>11 DEF SenderSteps, Deliver, Delivered, AckAwaited,
                           DeliverThrows, recordVars
<1>12. ASSUME NEW k \in Kinds, Receive(k)
       PROVE  UNCHANGED disk
  BY <1>12 DEF Receive
<1>13. ASSUME NEW h \in Loops, Handle(h)
       PROVE  disk'.status \in Answered \cup {"none"}
  <2>1. CASE Mark(h) \/ Stored(h)
    BY <1>6, <1>7, <2>1
  <2>2. CASE Settle(h) \/ SettleOrphan(h) \/ CancelTimer(h) \/ JoinTimer(h)
    BY <1>4, <2>2 DEF Settle, SettleOrphan, CancelTimer, JoinTimer,
       recordVars
  <2>3. QED
    BY <1>13, <2>1, <2>2 DEF Handle
<1>14. CASE TimerSteps \/ ResendThrows
  <2>1. CASE TimerAborted \/ TimerWakes \/ TimerQuits \/ TimerRejects
    BY <1>4, <2>1 DEF TimerAborted, TimerWakes, TimerQuits, TimerRejects,
                      recordVars
  <2>2. CASE Resent \/ TimerRearms \/ ResendThrows
    BY <1>4, <2>2 DEF Resent, TimerRearms, ResendThrows, recordVars
  <2>3. QED
    BY <1>8, <1>9, <1>14, <2>1, <2>2 DEF TimerSteps
<1>15. CASE LifeSteps
  <2>1. CASE PrepareToStop \/ Cleanup \/ CleanupJoins \/ ShutdownTasks
    BY <1>4, <2>1 DEF PrepareToStop, Cleanup, CleanupJoins, ShutdownTasks,
                      recordVars
  <2>2. CASE Crash \/ Restart
    BY <1>4, <2>2 DEF Crash, Restart
  <2>3. QED
    BY <1>10, <1>15, <2>1, <2>2 DEF LifeSteps
<1>16. CASE Sweep \/ Tick
  BY <1>4, <1>16 DEF Sweep, Tick, recordVars
<1>17. CASE Stopped \/ UNCHANGED vars
  BY <1>4, <1>17 DEF Stopped, vars, recordVars
<1>18. QED
  BY <1>4, <1>11, <1>12, <1>13, <1>14, <1>15, <1>16, <1>17 DEF Next
-----------------------------------------------------------------------------
(* The invariant on which the others rest.                                 *)
THEOREM Inductive == Spec => []IInv
<1>1. QED
  BY InitOK, IInvKept, PTL DEF Spec

(* The tracker's record, timer, futures and loops stay within their types. *)
THEOREM TypeCorrect == Spec => []TypeOK
<1>1. IInv => TypeOK
  BY DEF IInv
<1>2. QED
  BY <1>1, Inductive, PTL

(* A pending envelope that somebody may still wait for has a timer, or an  *)
(* answer is being recorded (scheduleTimer(), clearTimer(), recovery).     *)
THEOREM NeverForgotten == Spec => []PendingIsGuarded
<1>1. IInv => PendingIsGuarded
  BY DEF IInv, Guard
<1>2. QED
  BY <1>1, Inductive, PTL

(* With the in-memory store the retry policy bounds the retries.           *)
THEOREM RetriesAreBounded == Spec => []RetriesBoundedInMemory
<1>1. IInv => RetriesBoundedInMemory
  BY DEF IInv, Memory, Counted, RetriesBoundedInMemory
<1>2. QED
  BY <1>1, Inductive, PTL

(* With the in-memory store a resolved ack is in the outbox, or its entry  *)
(* has been removed.                                                       *)
THEOREM ResolvedMeansRecorded == Spec => []ResolvedIsRecorded
<1>1. IInv => ResolvedIsRecorded
  <2>1. IInv /\ byReference /\ future["ACK"] = "resolved" => AnsweredNow
    BY DEF IInv, Memory, Recorded
  <2>2. AnsweredNow => disk.status \in Answered \cup {"none"}
    BY EntryIs DEF AnsweredNow, IsAnswered
  <2>3. QED
    BY <2>1, <2>2 DEF ResolvedIsRecorded
<1>2. QED
  BY <1>1, Inductive, PTL

(* With the in-memory store no timer puts an answered entry back to        *)
(* pending or timed out.                                                   *)
THEOREM AnswersStick == Spec => AnswerSticks
<1>1. IInv /\ [Next]_vars =>
        [byReference /\ disk.status \in Answered
           => disk'.status \in Answered \cup {"none"}]_vars
  BY AnswerIsKept
<1>2. QED
  BY <1>1, Inductive, PTL DEF Spec, AnswerSticks
=============================================================================
