----------------------- MODULE UpstreamSessionProofs -----------------------
(***************************************************************************)
(* The safety of the connection to the parent for any retry policy, queue, *)
(* number of connection attempts, of messages and of frames.               *)
(***************************************************************************)
EXTENDS UpstreamSession, SequenceTheorems, TLAPS

(* The message in the hand of the pump keeps its place in the queue: it    *)
(* may have to be put back although the queue has filled up meanwhile.     *)
Room ==
  Len(messageQueue) + (IF pump.hand = 0 THEN 0 ELSE 1) <= QueueMax + 1
HandHeld == pump.at \in {"sending", "blocked"} => pump.hand # 0

(* The part of the invariant that is about the queue.                      *)
QueueInv == Room /\ HandHeld /\ MessagesInOrder /\ QueueAnnounced
-----------------------------------------------------------------------------
(* Types: every way in which the loop, a link and the pump change.         *)

(* The delays of the backoff.                                              *)
LEMMA Delays ==
  /\ BackoffInitial \in BackoffInitial .. BackoffCap
  /\ BackoffCap \in BackoffInitial .. BackoffCap
  /\ \A d \in BackoffInitial .. BackoffCap :
       2 * d <= BackoffCap => 2 * d \in BackoffInitial .. BackoffCap
BY PolicyAssumption

(* The loop moves on, ends a run, begins again.                            *)
LEMMA LoopMoves ==
  ASSUME NEW s \in States, NEW at \in Places,
         NEW d \in BackoffInitial .. BackoffCap,
         NEW f \in Failures \cup {"none"}
  PROVE  /\ [s EXCEPT !.at = at] \in States
         /\ [s EXCEPT !.at = at, !.delay = d] \in States
         /\ [s EXCEPT !.at = at, !.failure = f] \in States
         /\ [s EXCEPT !.at = at, !.delay = d, !.failure = "none"] \in States
         /\ [s EXCEPT !.at = at, !.delay = d, !.attempts = 0] \in States
BY DEF States

(* An attempt is counted.                                                  *)
LEMMA LoopCounts ==
  ASSUME NEW s \in States, NEW at \in Places
  PROVE  [s EXCEPT !.at = at, !.attempts = @ + 1] \in States
<1>1. s.attempts + 1 \in Nat
  BY DEF States
<1>2. [s EXCEPT !.at = at, !.attempts = s.attempts + 1] \in States
  BY <1>1 DEF States
<1>3. QED
  BY <1>2

(* The catch clause of the loop.                                           *)
LEMMA Caught ==
  ASSUME fsm \in States, NEW failure, Catch(failure)
  PROVE  fsm' \in States
<1>1. fsm.delay \in BackoffInitial .. BackoffCap
  BY DEF States
<1>2. PICK d \in {fsm.delay, BackoffInitial} :
        fsm' = [fsm EXCEPT
          !.at = IF ShouldFailFast /\ failure # "close" THEN "failed"
                 ELSE "backoff",
          !.delay = d, !.failure = "none"]
  BY DEF Catch
<1>3. d \in BackoffInitial .. BackoffCap /\ "none" \in Failures \cup {"none"}
  BY <1>1, Delays
<1>4. QED
  BY <1>2, <1>3, LoopMoves DEF Places

(* A link is closed; in any cycle, of which there may be none.             *)
LEMMA LinkCloses ==
  ASSUME link \in [Cycles -> Links], NEW c
  PROVE  Close(c) \in [Cycles -> Links]
<1>1. CASE c \in Cycles
  <2>1. link[c] \in Links /\ <<>> \in Seq(Frames)
    BY <1>1
  <2>2. [link[c] EXCEPT !.state = "closed", !.wire = <<>>] \in Links
    BY <2>1 DEF Links
  <2>3. QED
    BY <1>1, <2>2 DEF Close
<1>2. CASE c \notin Cycles
  BY <1>2 DEF Close
<1>3. QED
  BY <1>1, <1>2

(* The pump moves on.                                                      *)
LEMMA PumpMoves ==
  ASSUME NEW p \in Pumps,
         NEW at \in {"off", "idle", "sending", "blocked", "ended", "close",
                     "other"}
  PROVE  /\ [p EXCEPT !.at = at] \in Pumps
         /\ [at |-> at, hand |-> 0] \in Pumps
BY BoundAssumption DEF Pumps
-----------------------------------------------------------------------------
(* The steps of the loop keep the types.                                   *)
LEMMA LoopTyped ==
  ASSUME TypeOK, FsmSteps
  PROVE  TypeOK'
<1>0. /\ fsm \in States /\ link \in [Cycles -> Links]
      /\ "none" \in Failures \cup {"none"}
      /\ BackoffInitial \in BackoffInitial .. BackoffCap
  BY Delays DEF TypeOK
<1>1. CASE BeginCycle
  <2>1. fsm' \in States
    BY <1>0, <1>1, LoopCounts DEF BeginCycle, Places
  <2>2. connectEpoch' \in 0 .. MaxCycles
    BY <1>1, BoundAssumption DEF TypeOK, BeginCycle
  <2>3. QED
    BY <1>1, <2>1, <2>2 DEF TypeOK, BeginCycle, handshakeVars, events,
       queueVars, tasks
<1>2. CASE FsmEnds \/ ReplayEnds
  <2>1. fsm' \in States
    BY <1>0, <1>2, LoopMoves DEF FsmEnds, ReplayEnds, Places
  <2>2. QED
    BY <1>2, <2>1 DEF TypeOK, FsmEnds, ReplayEnds, cycleVars, handshakeVars,
       events, queueVars, tasks
<1>3. CASE BackoffEnds
  <2>1. NextDelay \in BackoffInitial .. BackoffCap
    BY <1>0, Delays DEF NextDelay, States
  <2>2. PICK d \in BackoffInitial .. BackoffCap :
          fsm' = [fsm EXCEPT !.at = "idle", !.delay = d]
    BY <1>0, <1>3, <2>1 DEF BackoffEnds
  <2>3. fsm' \in States
    BY <1>0, <2>2, LoopMoves DEF Places
  <2>4. QED
    BY <1>3, <2>3 DEF TypeOK, BackoffEnds, cycleVars, handshakeVars, events,
       queueVars, tasks
<1>4. CASE HelloFails \/ OfferFails \/ AttachFails \/ AttachedFails
  <2>1. fsm' \in States
    BY <1>0, <1>4, Caught DEF HelloFails, OfferFails, AttachFails,
       AttachedFails
  <2>2. QED
    BY <1>4, <2>1 DEF TypeOK, HelloFails, OfferFails, AttachFails,
       AttachedFails, cycleVars, handshakeVars, events, queueVars, tasks
<1>5. CASE ConnectorStarts
  <2>1. fsm' \in States
    BY <1>0, <1>5, LoopMoves DEF ConnectorStarts, Places
  <2>2. link' \in [Cycles -> Links]
    BY <1>0, <1>5 DEF ConnectorStarts, Links
  <2>3. QED
    BY <1>5, <2>1, <2>2 DEF TypeOK, ConnectorStarts, events, queueVars, tasks
<1>6. CASE OfferAttach
  <2>1. fsm' \in States
    BY <1>0, <1>6, LoopMoves DEF OfferAttach, Places
  <2>2. link' \in [Cycles -> Links]
    BY <1>0, <1>6 DEF OfferAttach, Links
  <2>3. QED
    BY <1>6, <2>1, <2>2 DEF TypeOK, OfferAttach, cycleVars, handshakeVars,
       events, queueVars, tasks
<1>7. CASE PollBuffer
  <2>1. fsm' \in States
    BY <1>0, <1>7, LoopMoves, Caught DEF PollBuffer, Places
  <2>2. buffer' \in Seq(Frames)
    BY <1>7, HeadTailProperties DEF TypeOK, PollBuffer
  <2>3. QED
    BY <1>7, <2>1, <2>2 DEF TypeOK, PollBuffer, cycleVars, events, queueVars,
       tasks
<1>8. CASE InstallHandler
  <2>1. fsm' \in States
    BY <1>0, <1>8, LoopMoves DEF InstallHandler, Places
  <2>2. link' \in [Cycles -> Links]
    BY <1>0, <1>8 DEF InstallHandler, Links
  <2>3. QED
    <3>1. inHandshake' \in BOOLEAN /\ UNCHANGED buffer
      BY <1>8 DEF InstallHandler
    <3>2. QED
      BY <1>8, <2>1, <2>2, <3>1 DEF TypeOK, InstallHandler, cycleVars, events,
         queueVars, tasks
<1>9. CASE Replay
  <2>1. fsm' \in States
    BY <1>0, <1>9, Caught DEF Replay
  <2>2. buffer' \in Seq(Frames)
    BY <1>9, HeadTailProperties DEF TypeOK, Replay
  <2>3. QED
    BY <1>9, <2>1, <2>2 DEF TypeOK, Replay, cycleVars, events, queueVars,
       tasks
<1>10. CASE SessionUp
  <2>1. fsm' \in States
    BY <1>0, <1>10, LoopMoves DEF SessionUp, Places
  <2>2. pump' \in Pumps
    BY <1>10, PumpMoves DEF TypeOK, SessionUp
  <2>3. QED
    BY <1>10, <2>1, <2>2 DEF TypeOK, SessionUp, handshakeVars
<1>11. CASE RunEnds
  <2>1. PICK f \in Failures \cup {"none"} :
          fsm' = [fsm EXCEPT !.at = "joining", !.failure = f]
    BY <1>11 DEF RunEnds
  <2>2. fsm' \in States
    BY <1>0, <2>1, LoopMoves DEF Places
  <2>3. QED
    BY <1>11, <2>2 DEF TypeOK, RunEnds, cycleVars, handshakeVars, events,
       queueVars
<1>12. CASE CycleEnds
  <2>1. fsm' \in States
    <3>1. CASE fsm.failure = "none"
      <4>1. fsm' = [fsm EXCEPT !.at = "idle", !.delay = BackoffInitial,
                               !.attempts = 0]
        BY <1>12, <3>1 DEF CycleEnds
      <4>2. QED
        BY <1>0, <4>1, LoopMoves DEF Places
    <3>2. CASE fsm.failure # "none"
      BY <1>0, <1>12, <3>2, Caught DEF CycleEnds
    <3>3. QED
      BY <3>1, <3>2
  <2>2. link' \in [Cycles -> Links]
    BY <1>0, <1>12, LinkCloses DEF CycleEnds
  <2>3. pump' \in Pumps
    BY <1>12, PumpMoves DEF TypeOK, CycleEnds
  <2>4. QED
    BY <1>12, <2>1, <2>2, <2>3, BoundAssumption
       DEF TypeOK, CycleEnds, handshakeVars, events, queueVars
<1>13. QED
  BY <1>1, <1>2, <1>3, <1>4, <1>5, <1>6, <1>7, <1>8, <1>9, <1>10, <1>11,
     <1>12 DEF FsmSteps, Attaching

(* So do the steps of the subtasks.                                        *)
LEMMA PumpTyped ==
  ASSUME TypeOK, QueueInv, PumpSteps \/ PumpStarves
  PROVE  TypeOK'
<1>0. /\ pump \in Pumps /\ messageQueue \in Seq(1 .. MaxMessages)
      /\ pump.hand \in 0 .. MaxMessages
  BY DEF TypeOK, Pumps
<1>1. CASE TakeMessage
  <2>1. /\ Head(messageQueue) \in 1 .. MaxMessages
        /\ Tail(messageQueue) \in Seq(1 .. MaxMessages)
        /\ Len(Tail(messageQueue)) = Len(messageQueue) - 1
    BY <1>0, <1>1, HeadTailProperties DEF TakeMessage
  <2>2. pump' \in Pumps
    BY <1>0, <1>1, <2>1, BoundAssumption DEF TakeMessage, Pumps
  <2>3. Len(messageQueue') <= QueueMax + 1
    BY <1>0, <1>1, <2>1, LenProperties, BoundAssumption
       DEF TypeOK, TakeMessage
  <2>4. QED
    BY <1>1, <2>1, <2>2, <2>3 DEF TypeOK, TakeMessage, cycleVars,
       handshakeVars, events
<1>2. CASE PumpSends
  <2>1. pump' \in Pumps
    BY <1>0, <1>2, PumpMoves DEF PumpSends
  <2>2. QED
    BY <1>0, <1>2, <2>1 DEF TypeOK, PumpSends, cycleVars, handshakeVars,
       events, queueVars
<1>3. CASE PumpDrops
  <2>1. pump' \in Pumps
    BY <1>0, <1>3, PumpMoves DEF PumpDrops
  <2>2. QED
    BY <1>3, <2>1 DEF TypeOK, PumpDrops, cycleVars, handshakeVars, events,
       queueVars
<1>4. CASE PumpFindsClosed
  <2>1. pump.hand \in 1 .. MaxMessages /\ Len(messageQueue) <= QueueMax
    BY <1>0, <1>4, LenProperties, BoundAssumption
       DEF QueueInv, Room, HandHeld, PumpFindsClosed
  <2>2. <<pump.hand>> \in Seq(1 .. MaxMessages) /\ Len(<<pump.hand>>) = 1
    BY <2>1
  <2>3. /\ <<pump.hand>> \o messageQueue \in Seq(1 .. MaxMessages)
        /\ Len(<<pump.hand>> \o messageQueue) = 1 + Len(messageQueue)
    BY <1>0, <2>2, ConcatProperties
  <2>4. pump' \in Pumps
    BY <1>0, <1>4, PumpMoves DEF PumpFindsClosed
  <2>5. Len(messageQueue') <= QueueMax + 1
    BY <1>0, <1>4, <2>1, <2>3, LenProperties, BoundAssumption
       DEF PumpFindsClosed, RequeueFront
  <2>6. QED
    BY <1>4, <2>3, <2>4, <2>5 DEF TypeOK, PumpFindsClosed, RequeueFront,
       cycleVars, handshakeVars, events
<1>5. CASE PumpEnds \/ PumpStarves
  <2>1. pump' \in Pumps
    BY <1>0, <1>5, PumpMoves DEF PumpEnds, PumpStarves
  <2>2. QED
    BY <1>5, <2>1 DEF TypeOK, PumpEnds, PumpStarves, cycleVars,
       handshakeVars, events, queueVars
<1>6. QED
  BY <1>1, <1>2, <1>3, <1>4, <1>5 DEF PumpSteps

(* The heartbeat and the guard.                                            *)
LEMMA SubtasksTyped ==
  ASSUME TypeOK, \/ HeartbeatFails \/ HeartbeatEnds \/ HeartbeatStarves
                 \/ GuardFires \/ GuardEnds
  PROVE  TypeOK'
<1>1. CASE GuardFires
  <2>1. link' \in [Cycles -> Links]
    BY <1>1, LinkCloses DEF TypeOK, GuardFires
  <2>2. QED
    BY <1>1, <2>1 DEF TypeOK, GuardFires, cycleVars, handshakeVars, events,
       queueVars
<1>2. CASE HeartbeatFails
  BY <1>2 DEF TypeOK, HeartbeatFails, HeartbeatOutcome, cycleVars,
     handshakeVars, events, queueVars
<1>3. CASE HeartbeatEnds \/ HeartbeatStarves
  BY <1>3 DEF TypeOK, HeartbeatEnds, HeartbeatStarves, cycleVars,
     handshakeVars, events, queueVars
<1>4. CASE GuardEnds
  BY <1>4 DEF TypeOK, GuardEnds, cycleVars, handshakeVars, events, queueVars
<1>5. QED
  BY <1>1, <1>2, <1>3, <1>4

(* And those of the node and of the parent.                                *)
LEMMA CallerTyped ==
  ASSUME TypeOK, CallerSteps \/ Stop \/ Send
  PROVE  TypeOK'
<1>1. CASE StartReturns
  BY <1>1 DEF TypeOK, StartReturns, cycleVars, handshakeVars, events,
     queueVars, tasks
<1>2. CASE StopReturns
  <2>1. link' \in [Cycles -> Links]
    BY <1>2, LinkCloses DEF TypeOK, StopReturns
  <2>2. connector' \in 0 .. MaxCycles
    BY <1>2, BoundAssumption DEF StopReturns
  <2>3. QED
    BY <1>2, <2>1, <2>2 DEF TypeOK, StopReturns, handshakeVars, events,
       queueVars, tasks
<1>3. CASE Stop
  BY <1>3 DEF TypeOK, Stop, SignalSubtasks, cycleVars, handshakeVars,
     queueVars
<1>4. CASE Send
  <2>1. /\ messageQueue \in Seq(1 .. MaxMessages)
        /\ accepted' \in 0 .. MaxMessages /\ accepted + 1 \in 1 .. MaxMessages
    BY <1>4, BoundAssumption DEF TypeOK, Send
  <2>2. /\ messageQueue' \in Seq(1 .. MaxMessages)
        /\ Len(messageQueue') = Len(messageQueue) + 1
    BY <1>4, <2>1, AppendProperties DEF Send
  <2>3. Len(messageQueue') <= QueueMax + 1
    BY <1>4, <2>1, <2>2, LenProperties, BoundAssumption DEF Send
  <2>4. QED
    BY <1>4, <2>1, <2>2, <2>3 DEF TypeOK, Send, cycleVars, handshakeVars,
       events, tasks
<1>5. QED
  BY <1>1, <1>2, <1>3, <1>4 DEF CallerSteps

(* A frame on the wire, a lost link.                                       *)
LEMMA ParentTyped ==
  ASSUME TypeOK, NEW c \in Cycles,
         ParentAnswers(c) \/ ParentSends(c) \/ LinkLost(c) \/ Receive(c)
  PROVE  TypeOK'
<1>0. /\ link \in [Cycles -> Links] /\ link[c].wire \in Seq(Frames)
      /\ link[c].sent \in 0 .. MaxFrames
  BY DEF TypeOK, Links
<1>1. ASSUME NEW kind \in {"accept", "refuse", "data"}
      PROVE  Reply(c, kind) \in Seq(Frames)
  <2>1. [kind |-> kind, of |-> c] \in Frames
    BY DEF Frames
  <2>2. QED
    BY <1>0, <2>1, AppendProperties DEF Reply
<1>2. CASE ParentAnswers(c)
  <2>1. /\ Reply(c, "accept") \in Seq(Frames)
        /\ Reply(c, "refuse") \in Seq(Frames)
    BY <1>1
  <2>2. [link EXCEPT ![c].parent = "accepted",
                     ![c].wire = Reply(c, "accept")] \in [Cycles -> Links]
    BY <1>0, <2>1 DEF Links
  <2>3. [link EXCEPT ![c].parent = "refused",
                     ![c].wire = Reply(c, "refuse")] \in [Cycles -> Links]
    BY <1>0, <2>1 DEF Links
  <2>4. link' \in [Cycles -> Links]
    BY <1>2, <2>2, <2>3 DEF ParentAnswers
  <2>5. QED
    BY <1>2, <2>4 DEF TypeOK, ParentAnswers, cycleVars, handshakeVars,
       events, queueVars, tasks
<1>3. CASE ParentSends(c)
  <2>1. link[c].sent + 1 \in 0 .. MaxFrames
    BY <1>0, <1>3, BoundAssumption DEF ParentSends
  <2>2. link' = [link EXCEPT ![c].sent = link[c].sent + 1,
                             ![c].wire = Reply(c, "data")]
    BY <1>3 DEF ParentSends
  <2>3. link' \in [Cycles -> Links]
    BY <1>0, <1>1, <2>1, <2>2 DEF Links
  <2>4. QED
    BY <1>3, <2>3 DEF TypeOK, ParentSends, cycleVars, handshakeVars,
       events, queueVars, tasks
<1>4. CASE LinkLost(c)
  <2>1. link' \in [Cycles -> Links]
    BY <1>0, <1>4, LinkCloses DEF LinkLost
  <2>2. QED
    BY <1>4, <2>1 DEF TypeOK, LinkLost, cycleVars, handshakeVars, events,
       queueVars, tasks
<1>5. CASE Receive(c)
  <2>1. /\ Head(link[c].wire) \in Frames
        /\ Tail(link[c].wire) \in Seq(Frames)
    BY <1>0, <1>5, HeadTailProperties DEF Receive
  <2>2. link' = [link EXCEPT ![c].wire = Tail(link[c].wire)]
    BY <1>5 DEF Receive
  <2>3. link' \in [Cycles -> Links]
    BY <1>0, <2>1, <2>2 DEF Links
  <2>4. buffer' \in Seq(Frames)
    BY <1>5, <2>1, AppendProperties DEF TypeOK, Receive
  <2>5. QED
    BY <1>5, <2>3, <2>4 DEF TypeOK, Receive, cycleVars, events, queueVars,
       tasks
<1>6. QED
  BY <1>2, <1>3, <1>4, <1>5

(* Every step keeps the types, for the queue has room for what comes back. *)
LEMMA TypeKept ==
  ASSUME TypeOK, QueueInv, [Next]_vars
  PROVE  TypeOK'
<1>1. CASE UNCHANGED vars
  BY <1>1 DEF vars, TypeOK, cycleVars, handshakeVars, events, queueVars,
     tasks
<1>2. CASE Rest
  BY <1>1, <1>2 DEF Rest
<1>3. QED
  BY <1>1, <1>2, LoopTyped, PumpTyped, SubtasksTyped, CallerTyped,
     ParentTyped DEF Next
-----------------------------------------------------------------------------
(* The queue.  Sequences of consecutive numbers: append, tail, put back.   *)

Consecutive(q, first) == \A i \in 1 .. Len(q) : q[i] = first + i

(* send() appends the next number.                                         *)
LEMMA Appended ==
  ASSUME NEW q \in Seq(Nat), NEW first \in Nat, Consecutive(q, first),
         NEW x \in Nat, x = first + Len(q) + 1
  PROVE  /\ Consecutive(Append(q, x), first)
         /\ Len(Append(q, x)) = Len(q) + 1 /\ Append(q, x) # <<>>
<1>1. /\ Append(q, x) \in Seq(Nat) /\ Len(Append(q, x)) = Len(q) + 1
      /\ \A i \in 1 .. Len(q) : Append(q, x)[i] = q[i]
      /\ Append(q, x)[Len(q) + 1] = x
  BY AppendProperties
<1>2. Len(q) \in Nat
  BY LenProperties
<1>3. ASSUME NEW i \in 1 .. Len(q) + 1
      PROVE  Append(q, x)[i] = first + i
  BY <1>1, <1>2, <1>3 DEF Consecutive
<1>4. QED
  BY <1>1, <1>2, <1>3, EmptySeq DEF Consecutive

(* The pump takes the first one.                                           *)
LEMMA TakenFrom ==
  ASSUME NEW q \in Seq(Nat), q # <<>>, NEW first \in Nat,
         Consecutive(q, first)
  PROVE  /\ Head(q) = first + 1 /\ Consecutive(Tail(q), first + 1)
         /\ Len(Tail(q)) = Len(q) - 1
<1>1. /\ Len(q) \in Nat /\ Len(q) # 0 /\ Tail(q) \in Seq(Nat)
      /\ Len(Tail(q)) = Len(q) - 1
      /\ \A i \in 1 .. Len(q) - 1 : Tail(q)[i] = q[i + 1]
  BY LenProperties, HeadTailProperties, EmptySeq
<1>2. Head(q) = q[1]
  BY <1>1
<1>3. QED
  BY <1>1, <1>2 DEF Consecutive

(* What could not be sent goes back to where it came from.                 *)
LEMMA PutBack ==
  ASSUME NEW q \in Seq(Nat), NEW m \in Nat \ {0}, Consecutive(q, m)
  PROVE  /\ Consecutive(<<m>> \o q, m - 1)
         /\ Len(<<m>> \o q) = Len(q) + 1
<1>1. /\ <<m>> \in Seq(Nat) /\ Len(<<m>>) = 1 /\ <<m>>[1] = m
      /\ Len(q) \in Nat
  BY LenProperties
<1>2. /\ Len(<<m>> \o q) = 1 + Len(q)
      /\ \A i \in 1 .. 1 + Len(q) :
           (<<m>> \o q)[i] = IF i <= 1 THEN <<m>>[i] ELSE q[i - 1]
  BY <1>1, ConcatProperties
<1>3. ASSUME NEW i \in 1 .. Len(q) + 1
      PROVE  (<<m>> \o q)[i] = (m - 1) + i
  BY <1>1, <1>2 DEF Consecutive
<1>4. QED
  BY <1>1, <1>2, <1>3 DEF Consecutive

(* The queue keeps the order, the event and the place of what the pump     *)
(* holds.                                                                  *)
LEMMA QueueKept ==
  ASSUME TypeOK, QueueInv, [Next]_vars
  PROVE  QueueInv'
<1> DEFINE q    == messageQueue
           gone == accepted - Len(messageQueue)
<1>0. /\ q \in Seq(Nat) /\ q \in Seq(1 .. MaxMessages) /\ Len(q) \in Nat
      /\ accepted \in Nat /\ gone \in Nat /\ Consecutive(q, gone)
      /\ lastSent \in Nat /\ pump.hand \in Nat
  BY LenProperties, BoundAssumption
     DEF TypeOK, Pumps, QueueInv, MessagesInOrder, Consecutive
<1>a. /\ lastSent <= gone /\ pump.hand \in {0, gone}
      /\ pump.hand # 0 => lastSent < pump.hand
  BY DEF QueueInv, MessagesInOrder
<1>b. /\ Len(q) + (IF pump.hand = 0 THEN 0 ELSE 1) <= QueueMax + 1
      /\ q # <<>> => queueEvent
  BY DEF QueueInv, Room, QueueAnnounced
<1>1. CASE UNCHANGED <<queueVars, pump, lastSent>>
  BY <1>1 DEF QueueInv, Room, HandHeld, MessagesInOrder, QueueAnnounced,
     queueVars
<1>2. CASE SessionUp \/ CycleEnds
  <2>1. /\ UNCHANGED <<messageQueue, accepted, lastSent>>
        /\ pump'.hand = 0 /\ pump'.at \in {"idle", "off"}
    BY <1>2 DEF SessionUp, CycleEnds, queueVars
  <2>2. messageQueue # <<>> => queueEvent'
    <3>1. CASE SessionUp
      <4>1. queueEvent' = (queueEvent \/ messageQueue # <<>>)
        BY <3>1 DEF SessionUp
      <4>2. QED
        BY <4>1, Zenon
    <3>2. CASE CycleEnds
      BY <1>b, <3>2 DEF CycleEnds, queueVars
    <3>3. QED
      BY <1>2, <3>1, <3>2
  <2>3. Room' /\ HandHeld' /\ MessagesInOrder'
    BY <1>0, <1>a, <1>b, <2>1, BoundAssumption
       DEF Room, HandHeld, MessagesInOrder, Consecutive
  <2>4. QED
    BY <2>1, <2>2, <2>3 DEF QueueInv, QueueAnnounced
<1>3. CASE TakeMessage
  <2>1. /\ Head(q) = gone + 1 /\ Consecutive(Tail(q), gone + 1)
        /\ Len(Tail(q)) = Len(q) - 1
    BY <1>0, <1>3, TakenFrom DEF TakeMessage
  <2>2. /\ pump'.at = "sending" /\ pump'.hand = gone + 1
        /\ UNCHANGED <<accepted, lastSent>>
    BY <1>3, <2>1 DEF TakeMessage
  <2>3. /\ Len(messageQueue') = Len(messageQueue) - 1
        /\ \A i \in 1 .. Len(messageQueue') :
             messageQueue'[i] = (gone + 1) + i
    BY <1>3, <2>1 DEF TakeMessage, Consecutive
  <2>4. MessagesInOrder'
    <3>1. accepted' - Len(messageQueue') = gone + 1
      BY <1>0, <2>2, <2>3
    <3>2. lastSent' <= gone + 1 /\ lastSent' < pump'.hand
      BY <1>0, <1>a, <2>2
    <3>3. QED
      BY <2>2, <2>3, <3>1, <3>2 DEF MessagesInOrder
  <2>5. Room'
    BY <1>0, <1>b, <2>2, <2>3, BoundAssumption DEF Room
  <2>6. QueueAnnounced'
    <3>1. queueEvent' = (messageQueue' # <<>>)
      BY <1>3 DEF TakeMessage
    <3>2. QED
      BY <3>1, Zenon DEF QueueAnnounced
  <2>7. HandHeld'
    BY <1>0, <2>2 DEF HandHeld
  <2>8. QED
    BY <2>4, <2>5, <2>6, <2>7 DEF QueueInv
<1>4. CASE PumpSends \/ PumpDrops
  <2>1. /\ UNCHANGED <<messageQueue, queueEvent, accepted>>
        /\ pump'.hand = 0 /\ pump'.at \in {"idle", "other"}
        /\ lastSent' \in {lastSent, pump.hand}
    BY <1>4 DEF PumpSends, PumpDrops, queueVars
  <2>2. QED
    BY <1>0, <1>a, <1>b, <2>1, BoundAssumption
       DEF QueueInv, Room, HandHeld, MessagesInOrder, Consecutive,
       QueueAnnounced
<1>5. CASE PumpFindsClosed
  <2>1. pump.hand = gone /\ gone \in Nat \ {0}
    BY <1>0, <1>5, <1>a DEF QueueInv, HandHeld, PumpFindsClosed
  <2>2. /\ Consecutive(<<gone>> \o q, gone - 1)
        /\ Len(<<gone>> \o q) = Len(q) + 1
    BY <1>0, <2>1, PutBack
  <2>3. /\ messageQueue' = <<gone>> \o q /\ queueEvent' = TRUE
        /\ pump'.hand = 0 /\ pump'.at = "close"
        /\ UNCHANGED <<accepted, lastSent>>
    BY <1>5, <2>1 DEF PumpFindsClosed, RequeueFront
  <2>4. accepted' - Len(messageQueue') = gone - 1
    BY <1>0, <2>2, <2>3
  <2>5. MessagesInOrder'
    BY <1>0, <1>a, <2>1, <2>2, <2>3, <2>4 DEF MessagesInOrder, Consecutive
  <2>6. Room'
    BY <1>0, <1>b, <2>1, <2>2, <2>3, BoundAssumption DEF Room
  <2>7. QED
    BY <2>3, <2>5, <2>6 DEF QueueInv, HandHeld, QueueAnnounced
<1>6. CASE PumpEnds \/ PumpStarves
  <2>1. /\ UNCHANGED <<queueVars, lastSent>> /\ pump'.hand = pump.hand
        /\ pump.at \notin {"sending", "blocked"} =>
             pump'.at \notin {"sending", "blocked"}
    BY <1>6 DEF TypeOK, Pumps, PumpEnds, PumpStarves
  <2>2. QED
    BY <2>1 DEF QueueInv, Room, HandHeld, MessagesInOrder, QueueAnnounced,
       queueVars
<1>7. CASE Send
  <2>1. /\ Consecutive(Append(q, accepted + 1), gone)
        /\ Len(Append(q, accepted + 1)) = Len(q) + 1
    BY <1>0, Appended
  <2>2. /\ messageQueue' = Append(q, accepted + 1) /\ queueEvent' = TRUE
        /\ accepted' = accepted + 1 /\ UNCHANGED <<pump, lastSent>>
        /\ Len(q) < QueueMax
    BY <1>7 DEF Send, tasks
  <2>3. accepted' - Len(messageQueue') = gone
    BY <1>0, <2>1, <2>2
  <2>4. MessagesInOrder'
    BY <1>0, <1>a, <2>1, <2>2, <2>3 DEF MessagesInOrder, Consecutive
  <2>5. Room'
    BY <1>0, <2>1, <2>2, BoundAssumption DEF Room
  <2>6. QED
    BY <2>2, <2>4, <2>5 DEF QueueInv, HandHeld, QueueAnnounced
<1>8. CASE FsmSteps /\ ~SessionUp /\ ~CycleEnds
  BY <1>1, <1>8 DEF FsmSteps, Attaching, BeginCycle, FsmEnds, BackoffEnds,
     HelloFails, ConnectorStarts, OfferAttach, OfferFails, PollBuffer,
     AttachFails, InstallHandler, Replay, ReplayEnds, AttachedFails, RunEnds,
     tasks
<1>9. CASE \/ HeartbeatFails \/ HeartbeatEnds \/ HeartbeatStarves
           \/ GuardFires \/ GuardEnds \/ CallerSteps \/ Stop
  BY <1>1, <1>9 DEF HeartbeatFails, HeartbeatEnds, HeartbeatStarves,
     GuardFires, GuardEnds, CallerSteps, StartReturns, StopReturns, Stop,
     tasks
<1>10. ASSUME NEW c \in Cycles,
              \/ ParentAnswers(c) \/ ParentSends(c) \/ LinkLost(c)
              \/ Receive(c)
       PROVE  QueueInv'
  BY <1>1, <1>10 DEF ParentAnswers, ParentSends, LinkLost, Receive, tasks
<1>11. CASE Rest \/ UNCHANGED vars
  BY <1>1, <1>11 DEF Rest, vars, tasks
<1>12. QED
  BY <1>2, <1>3, <1>4, <1>5, <1>6, <1>7, <1>8, <1>9, <1>10, <1>11
     DEF Next, PumpSteps
-----------------------------------------------------------------------------
(* The handshake.                                                          *)

Settled == {"replaying", "attached", "running", "joining"}

(* After the handshake nothing more is buffered.                           *)
OutOfHandshake == fsm.at \in Settled => ~inHandshake

(* The parent knows nothing of a connection before the offer.              *)
FreshLinks ==
  \A c \in Cycles :
    (\/ c > connectEpoch
     \/ c = connectEpoch /\ fsm.at \in {"hello", "offering"})
      => link[c].parent = "unasked"

(* A cycle has a number.                                                   *)
InCycle == connectEpoch = 0 => fsm.at \in {"idle", "done"}

AcceptedHere ==
  fsm.at \in Settled \cup {"accepting"} =>
    link[connectEpoch].parent = "accepted"

LoopInv ==
  OutOfHandshake /\ NothingStranded /\ FreshLinks /\ InCycle /\ AcceptedHere

(* An acceptance on its way, or in the buffer, was given by the parent and *)
(* is not taken back.                                                      *)
TrueFrames ==
  {f \in Frames : f.kind = "accept" => link[f.of].parent = "accepted"}
FramesTrue ==
  /\ buffer \in Seq(TrueFrames)
  /\ \A c \in Cycles : link[c].wire \in Seq(TrueFrames)

(* The part of the invariant that is about the handshake.                  *)
HandshakeInv == LoopInv /\ FramesTrue

(* A sequence over a set is one over any larger set.                       *)
LEMMA LargerSet ==
  ASSUME NEW S, NEW T, S \subseteq T, NEW s \in Seq(S)
  PROVE  s \in Seq(T)
<1>1. Len(s) \in Nat /\ s \in [1 .. Len(s) -> S]
  BY LenProperties
<1>2. s \in [1 .. Len(s) -> T]
  BY <1>1
<1>3. QED
  BY <1>1, <1>2, IsASeq

(* The loop after an error.                                                *)
LEMMA CaughtAt ==
  ASSUME TypeOK, NEW failure, Catch(failure)
  PROVE  fsm'.at \in {"failed", "backoff"}
BY DEF TypeOK, States, Catch

(* Closing a link leaves the parent's answer, and may lose frames.         *)
LEMMA CloseLoses ==
  ASSUME TypeOK, NEW c, link' = Close(c)
  PROVE  \A d \in Cycles : /\ link'[d].parent = link[d].parent
                           /\ link'[d].wire \in {link[d].wire, <<>>}
<1>1. link \in [Cycles -> Links]
  BY DEF TypeOK
<1>2. ASSUME NEW d \in Cycles
      PROVE  link'[d] \in {link[d], [link[d] EXCEPT !.state = "closed",
                                                    !.wire = <<>>]}
  BY <1>1, <1>2 DEF Close
<1>3. ASSUME NEW d \in Cycles
      PROVE  /\ link'[d].parent = link[d].parent
             /\ link'[d].wire \in {link[d].wire, <<>>}
  BY <1>1, <1>2, <1>3 DEF Links
<1>4. QED
  BY <1>3

LinkSteps ==
  \/ ConnectorStarts \/ OfferAttach \/ InstallHandler
  \/ GuardFires \/ CycleEnds \/ StopReturns
  \/ \E c \in Cycles :
       ParentAnswers(c) \/ ParentSends(c) \/ LinkLost(c) \/ Receive(c)

(* Nothing else touches a link.                                            *)
LEMMA OtherSteps ==
  ASSUME [Next]_vars, ~LinkSteps
  PROVE  link' = link
BY DEF LinkSteps, Next, FsmSteps, Attaching, PumpSteps, CallerSteps, Rest,
   vars, BeginCycle, FsmEnds, BackoffEnds, HelloFails, OfferFails, PollBuffer,
   AttachFails, Replay, ReplayEnds, AttachedFails, SessionUp, RunEnds,
   TakeMessage, PumpSends, PumpDrops, PumpFindsClosed, PumpEnds, PumpStarves,
   HeartbeatFails, HeartbeatEnds, HeartbeatStarves, GuardEnds, StartReturns,
   Stop, Send

(* How a step may change the answer of a parent: it is asked by the offer, *)
(* and answers once.                                                       *)
LEMMA Answers ==
  ASSUME TypeOK, LoopInv, [Next]_vars, NEW c \in Cycles
  PROVE  \/ link'[c].parent = link[c].parent
         \/ /\ link[c].parent = "asked"
            /\ link'[c].parent \in {"accepted", "refused"}
         \/ /\ link[c].parent = "unasked" /\ link'[c].parent = "asked"
            /\ c = connectEpoch /\ fsm'.at = "attaching"
<1>0. /\ link \in [Cycles -> Links] /\ link[c] \in Links
      /\ fsm \in States /\ connectEpoch \in 0 .. MaxCycles
  BY DEF TypeOK
<1>1. CASE ConnectorStarts \/ InstallHandler
  BY <1>0, <1>1 DEF ConnectorStarts, InstallHandler, Links
<1>2. CASE OfferAttach
  <2>1. fsm'.at = "attaching" /\ fsm.at = "offering"
    BY <1>0, <1>2 DEF OfferAttach, States
  <2>2. c # connectEpoch => link'[c] = link[c]
    BY <1>0, <1>2 DEF OfferAttach
  <2>3. c = connectEpoch => link'[c].parent = "asked"
    BY <1>0, <1>2 DEF OfferAttach, Links
  <2>4. c = connectEpoch => link[c].parent = "unasked"
    BY <2>1 DEF LoopInv, FreshLinks
  <2>5. QED
    BY <2>1, <2>2, <2>3, <2>4
<1>3. CASE \/ GuardFires \/ CycleEnds \/ StopReturns
           \/ \E d \in Cycles : LinkLost(d)
  <2>1. link' = link \/ \E d : link' = Close(d)
    BY <1>3 DEF GuardFires, CycleEnds, StopReturns, LinkLost
  <2>2. QED
    BY <2>1, CloseLoses
<1>4. ASSUME NEW d \in Cycles,
             ParentAnswers(d) \/ ParentSends(d) \/ Receive(d)
      PROVE  \/ link'[c].parent = link[c].parent
             \/ /\ link[c].parent = "asked"
                /\ link'[c].parent \in {"accepted", "refused"}
  <2>1. CASE ParentAnswers(d)
    <3>1. /\ c # d => link'[c] = link[c]
          /\ c = d => link'[c].parent \in {"accepted", "refused"}
      BY <1>0, <2>1 DEF ParentAnswers, Links
    <3>2. link[d].parent = "asked"
      BY <2>1 DEF ParentAnswers
    <3>3. QED
      BY <3>1, <3>2
  <2>2. CASE ParentSends(d)
    BY <1>0, <2>2 DEF ParentSends, Links
  <2>3. CASE Receive(d)
    BY <1>0, <2>3 DEF Receive, Links
  <2>4. QED
    BY <1>4, <2>1, <2>2, <2>3
<1>5. QED
  BY <1>1, <1>2, <1>3, <1>4, OtherSteps DEF LinkSteps

(* What lies on a wire after a step was there, or is true.                 *)
LEMMA FramesKept ==
  ASSUME TypeOK, HandshakeInv, [Next]_vars
  PROVE  FramesTrue'
<1>0. /\ link \in [Cycles -> Links] /\ fsm \in States
      /\ buffer \in Seq(TrueFrames)
      /\ \A c \in Cycles :
           link[c] \in Links /\ link[c].wire \in Seq(TrueFrames)
  BY DEF TypeOK, HandshakeInv, FramesTrue
<1>1. \A c \in Cycles : link[c].parent = "accepted" =>
                          link'[c].parent = "accepted"
  BY Answers DEF HandshakeInv
<1>2. TrueFrames \subseteq TrueFrames'
  BY <1>1 DEF TrueFrames, Frames
<1>3. \A s \in Seq(TrueFrames) : s \in Seq(TrueFrames')
  BY <1>2, LargerSet
<1>4. <<>> \in Seq(TrueFrames')
  OBVIOUS
<1>5. ASSUME NEW c \in Cycles, NEW d \in Cycles,
             ParentAnswers(d) \/ ParentSends(d)
      PROVE  link'[c].wire \in Seq(TrueFrames')
  <2>1. PICK kind \in {"accept", "refuse", "data"} :
          /\ c = d => link'[c].wire = Reply(d, kind)
          /\ c # d => link'[c].wire = link[c].wire
          /\ kind = "accept" => link'[d].parent = "accepted"
    BY <1>0, <1>5 DEF ParentAnswers, ParentSends, Links
  <2>2. [kind |-> kind, of |-> d] \in TrueFrames'
    BY <2>1 DEF TrueFrames, Frames
  <2>3. Reply(d, kind) \in Seq(TrueFrames')
    BY <1>0, <1>3, <2>2, AppendProperties DEF Reply
  <2>4. QED
    BY <1>0, <1>3, <2>1, <2>3
<1>6. ASSUME NEW d \in Cycles, Receive(d)
      PROVE  /\ Head(link[d].wire) \in TrueFrames
             /\ \A c \in Cycles : link'[c].wire \in Seq(TrueFrames)
  <2>1. /\ Head(link[d].wire) \in TrueFrames
        /\ Tail(link[d].wire) \in Seq(TrueFrames)
    BY <1>0, <1>6, HeadTailProperties DEF Receive
  <2>2. \A c \in Cycles :
          link'[c].wire = IF c = d THEN Tail(link[d].wire) ELSE link[c].wire
    BY <1>0, <1>6 DEF Receive, Links
  <2>3. QED
    BY <1>0, <2>1, <2>2
<1>7. ASSUME NEW c \in Cycles PROVE link'[c].wire \in Seq(TrueFrames')
  <2>1. CASE ConnectorStarts \/ OfferAttach \/ InstallHandler
    <3>1. link'[c].wire = link[c].wire
      <4>1. CASE ConnectorStarts
        BY <1>0, <4>1 DEF ConnectorStarts, Links
      <4>2. CASE OfferAttach
        BY <1>0, <4>2 DEF OfferAttach, Links
      <4>3. CASE InstallHandler
        BY <1>0, <4>3 DEF InstallHandler, Links
      <4>4. QED
        BY <2>1, <4>1, <4>2, <4>3
    <3>2. QED
      BY <1>0, <1>3, <3>1
  <2>2. CASE \/ GuardFires \/ CycleEnds \/ StopReturns
             \/ \E d \in Cycles : LinkLost(d)
    <3>1. link' = link \/ \E d : link' = Close(d)
      BY <2>2 DEF GuardFires, CycleEnds, StopReturns, LinkLost
    <3>2. link'[c].wire \in {link[c].wire, <<>>}
      BY <3>1, CloseLoses
    <3>3. QED
      BY <1>0, <1>3, <1>4, <3>2
  <2>3. CASE ~LinkSteps
    BY <1>0, <1>3, <2>3, OtherSteps
  <2>4. QED
    BY <1>3, <1>5, <1>6, <2>1, <2>2, <2>3 DEF LinkSteps
<1>8. buffer' \in Seq(TrueFrames')
  <2>1. CASE PollBuffer \/ Replay
    <3>1. Tail(buffer) \in Seq(TrueFrames)
      BY <1>0, <2>1, HeadTailProperties DEF PollBuffer, Replay
    <3>2. QED
      BY <1>3, <2>1, <3>1 DEF PollBuffer, Replay
  <2>2. ASSUME NEW d \in Cycles, Receive(d) PROVE buffer' \in Seq(TrueFrames)
    <3>1. buffer' \in {buffer, Append(buffer, Head(link[d].wire))}
      BY <2>2 DEF Receive
    <3>2. QED
      BY <1>0, <1>6, <2>2, <3>1, AppendProperties
  <2>3. CASE ~PollBuffer /\ ~Replay /\ ~\E d \in Cycles : Receive(d)
    <3>1. buffer' = buffer
      BY <2>3 DEF Next, FsmSteps, Attaching, PumpSteps, CallerSteps, Rest,
         vars, BeginCycle, FsmEnds, BackoffEnds, HelloFails, ConnectorStarts,
         OfferAttach, OfferFails, AttachFails, InstallHandler, ReplayEnds,
         AttachedFails, SessionUp, RunEnds, CycleEnds, TakeMessage, PumpSends,
         PumpDrops, PumpFindsClosed, PumpEnds, PumpStarves, HeartbeatFails,
         HeartbeatEnds, HeartbeatStarves, GuardFires, GuardEnds,
         StartReturns, StopReturns, Stop, Send, ParentAnswers, ParentSends,
         LinkLost, handshakeVars
    <3>2. QED
      BY <1>0, <1>3, <3>1
  <2>4. QED
    BY <1>3, <2>1, <2>2, <2>3
<1>9. QED
  BY <1>7, <1>8 DEF FramesTrue

(* Steps that leave the number of the cycle and the flag of the handshake  *)
(* alone, and the buffer too once a session is up.                         *)
LEMMA LoopStays ==
  ASSUME TypeOK, LoopInv, [Next]_vars,
         UNCHANGED <<connectEpoch, inHandshake>>,
         \/ fsm'.at = fsm.at
         \/ /\ fsm'.at \in {"idle", "done", "failed", "backoff", "attaching"}
            /\ fsm.at \in {"idle", "done"} => fsm'.at \in {"idle", "done"}
         \/ fsm.at \in Settled /\ fsm'.at \in Settled,
         fsm'.at \in {"attached", "running"} => buffer' = <<>>
  PROVE  LoopInv'
<1>0. connectEpoch \in 0 .. MaxCycles /\ MaxCycles \in Nat
  BY BoundAssumption DEF TypeOK
<1>1. OutOfHandshake' /\ NothingStranded'
  BY DEF LoopInv, OutOfHandshake, NothingStranded, Settled
<1>2. FreshLinks'
  <2>1. ASSUME NEW c \in Cycles,
               \/ c > connectEpoch
               \/ c = connectEpoch /\ fsm'.at \in {"hello", "offering"}
        PROVE  link'[c].parent = "unasked"
    <3>1. /\ link[c].parent = "unasked"
          /\ c = connectEpoch => fsm'.at # "attaching"
      BY <1>0, <2>1 DEF LoopInv, FreshLinks, Settled, Cycles
    <3>2. QED
      BY <2>1, <3>1, Answers
  <2>2. QED
    BY <2>1 DEF FreshLinks
<1>3. InCycle'
  BY DEF LoopInv, InCycle, Settled
<1>4. AcceptedHere'
  <2>1. ASSUME fsm'.at \in Settled \cup {"accepting"}
        PROVE  link'[connectEpoch].parent = "accepted"
    <3>1. fsm.at \in Settled \cup {"accepting"}
      BY <2>1 DEF Settled
    <3>2. connectEpoch \in Cycles /\ link[connectEpoch].parent = "accepted"
      BY <1>0, <3>1 DEF LoopInv, InCycle, AcceptedHere, Settled, Cycles
    <3>3. QED
      BY <3>2, Answers
  <2>2. QED
    BY <2>1 DEF AcceptedHere
<1>5. QED
  BY <1>1, <1>2, <1>3, <1>4 DEF LoopInv

(* Every step keeps what is said of the loop.                              *)
LEMMA LoopKept ==
  ASSUME TypeOK, HandshakeInv, [Next]_vars
  PROVE  LoopInv'
<1>0. /\ fsm \in States /\ connectEpoch \in 0 .. MaxCycles
      /\ link \in [Cycles -> Links] /\ MaxCycles \in Nat
      /\ LoopInv /\ FramesTrue
  BY BoundAssumption DEF TypeOK, HandshakeInv
<1>1. CASE BeginCycle
  <2>1. /\ fsm'.at = "hello" /\ connectEpoch' = connectEpoch + 1
        /\ UNCHANGED <<link, inHandshake, buffer>>
    BY <1>0, <1>1 DEF BeginCycle, States, handshakeVars
  <2>2. FreshLinks'
    BY <1>0, <2>1 DEF LoopInv, FreshLinks, Cycles
  <2>3. QED
    BY <1>0, <2>1, <2>2 DEF LoopInv, OutOfHandshake, NothingStranded, InCycle,
       AcceptedHere, Settled
<1>2. CASE ConnectorStarts
  <2>1. /\ fsm.at = "hello" /\ fsm'.at = "offering"
        /\ UNCHANGED <<connectEpoch, buffer>>
        /\ \A c \in Cycles : link'[c].parent = link[c].parent
    BY <1>0, <1>2 DEF ConnectorStarts, States, Links
  <2>2. FreshLinks'
    BY <1>0, <2>1 DEF LoopInv, FreshLinks
  <2>3. QED
    BY <1>0, <2>1, <2>2 DEF LoopInv, OutOfHandshake, NothingStranded, InCycle,
       AcceptedHere, Settled
<1>3. CASE InstallHandler
  <2>1. /\ fsm.at = "accepting" /\ fsm'.at = "replaying" /\ ~inHandshake'
        /\ UNCHANGED connectEpoch
        /\ \A c \in Cycles : link'[c].parent = link[c].parent
    <3>1. fsm'.at = "replaying"
      BY <1>0, <1>3 DEF InstallHandler, States
    <3>2. \A c \in Cycles : link'[c].parent = link[c].parent
      BY <1>0, <1>3 DEF InstallHandler, Links
    <3>3. QED
      BY <1>3, <3>1, <3>2 DEF InstallHandler, cycleVars
  <2>2. connectEpoch \in Cycles
    BY <1>0, <2>1 DEF LoopInv, InCycle, Cycles
  <2>3. AcceptedHere'
    BY <1>0, <2>1, <2>2 DEF LoopInv, AcceptedHere
  <2>4. QED
    BY <1>0, <2>1, <2>3 DEF LoopInv, OutOfHandshake, NothingStranded,
       FreshLinks, InCycle, Settled
<1>4. CASE PollBuffer
  <2>0. fsm.at = "attaching" /\ UNCHANGED <<connectEpoch, inHandshake, link>>
    BY <1>4 DEF PollBuffer, cycleVars
  <2>1. CASE UNCHANGED fsm
    BY <1>0, <2>0, <2>1, LoopStays
  <2>2. CASE Catch("other")
    BY <1>0, <2>0, <2>2, CaughtAt, LoopStays
  <2>3. CASE /\ Head(buffer).kind = "accept" /\ AnswersUs(Head(buffer))
             /\ fsm' = [fsm EXCEPT !.at = "accepting"]
    <3>1. Head(buffer) \in TrueFrames
      BY <1>0, <1>4, HeadTailProperties DEF PollBuffer, FramesTrue
    <3>2. link[connectEpoch].parent = "accepted"
      BY <2>3, <3>1 DEF TrueFrames, AnswersUs
    <3>3. fsm'.at = "accepting"
      BY <1>0, <2>3 DEF States
    <3>4. QED
      BY <1>0, <2>0, <3>2, <3>3 DEF LoopInv, OutOfHandshake, NothingStranded,
         FreshLinks, InCycle, AcceptedHere, Settled
  <2>4. QED
    BY <1>4, <2>1, <2>2, <2>3 DEF PollBuffer
<1>5. CASE OfferAttach
  <2>1. /\ fsm.at = "offering" /\ fsm'.at = "attaching"
        /\ UNCHANGED <<connectEpoch, inHandshake>>
    BY <1>0, <1>5 DEF OfferAttach, States, cycleVars, handshakeVars
  <2>2. QED
    BY <1>0, <2>1, LoopStays
<1>6. CASE HelloFails \/ OfferFails \/ AttachFails \/ AttachedFails
  <2>1. /\ fsm'.at \in {"failed", "backoff"}
        /\ fsm.at \in {"hello", "offering", "attaching", "accepting",
                       "attached"}
        /\ UNCHANGED <<connectEpoch, inHandshake>>
    BY <1>6, CaughtAt DEF HelloFails, OfferFails, AttachFails, AttachedFails,
       cycleVars, handshakeVars
  <2>2. QED
    BY <1>0, <2>1, LoopStays
<1>7. CASE FsmEnds \/ BackoffEnds
  <2>1. /\ fsm'.at \in {"idle", "done"}
        /\ UNCHANGED <<connectEpoch, inHandshake>>
    BY <1>0, <1>7 DEF FsmEnds, BackoffEnds, States, cycleVars, handshakeVars
  <2>2. QED
    BY <1>0, <2>1, LoopStays
<1>8. CASE Replay
  <2>1. fsm.at = "replaying" /\ UNCHANGED <<connectEpoch, inHandshake>>
    BY <1>8 DEF Replay, cycleVars
  <2>2. fsm' = fsm \/ fsm'.at \in {"failed", "backoff"}
    BY <1>8, CaughtAt DEF Replay
  <2>3. QED
    BY <1>0, <2>1, <2>2, LoopStays
<1>9. CASE ReplayEnds \/ SessionUp
  <2>1. /\ fsm.at \in Settled /\ fsm'.at \in Settled /\ buffer' = <<>>
        /\ UNCHANGED <<connectEpoch, inHandshake>>
    <3>1. fsm.at \in Settled /\ fsm'.at \in Settled
      BY <1>0, <1>9 DEF ReplayEnds, SessionUp, States, Settled
    <3>2. buffer = <<>>
      BY <1>0, <1>9 DEF ReplayEnds, SessionUp, LoopInv, NothingStranded
    <3>3. UNCHANGED <<connectEpoch, inHandshake, buffer>>
      BY <1>9 DEF ReplayEnds, SessionUp, cycleVars, handshakeVars
    <3>4. QED
      BY <3>1, <3>2, <3>3
  <2>2. QED
    BY <1>0, <2>1, LoopStays
<1>10. CASE RunEnds
  <2>1. fsm.at \in Settled /\ fsm'.at = "joining"
    BY <1>0, <1>10 DEF RunEnds, States, Settled
  <2>2. UNCHANGED <<connectEpoch, inHandshake>>
    BY <1>10 DEF RunEnds, cycleVars, handshakeVars
  <2>3. QED
    BY <1>0, <2>1, <2>2, LoopStays DEF Settled
<1>11. CASE CycleEnds
  <2>1. fsm'.at \in {"idle", "failed", "backoff"}
    <3>1. CASE fsm.failure = "none"
      BY <1>0, <1>11, <3>1 DEF CycleEnds, States
    <3>2. CASE fsm.failure # "none"
      BY <1>11, <3>2, CaughtAt DEF CycleEnds
    <3>3. QED
      BY <3>1, <3>2
  <2>2. fsm.at = "joining" /\ UNCHANGED <<connectEpoch, inHandshake>>
    BY <1>11 DEF CycleEnds, handshakeVars
  <2>3. QED
    BY <1>0, <2>1, <2>2, LoopStays
<1>12. ASSUME NEW c \in Cycles, Receive(c)
       PROVE  LoopInv'
  <2>1. /\ UNCHANGED <<fsm, connectEpoch, inHandshake>>
        /\ ~inHandshake => buffer' = buffer
    BY <1>12 DEF Receive, cycleVars
  <2>2. fsm.at \in {"attached", "running"} => buffer' = <<>>
    BY <1>0, <2>1 DEF LoopInv, OutOfHandshake, NothingStranded, Settled
  <2>3. QED
    BY <1>0, <2>1, <2>2, LoopStays
<1>13. CASE UNCHANGED <<fsm, connectEpoch, inHandshake, buffer>>
  <2>1. fsm'.at \in {"attached", "running"} => buffer' = <<>>
    BY <1>0, <1>13 DEF LoopInv, NothingStranded
  <2>2. QED
    BY <1>0, <1>13, <2>1, LoopStays
<1>14. CASE \/ PumpSteps \/ PumpStarves \/ HeartbeatFails \/ HeartbeatEnds
            \/ HeartbeatStarves \/ GuardFires \/ GuardEnds \/ CallerSteps
            \/ Stop \/ Send \/ Rest \/ UNCHANGED vars
            \/ \E c \in Cycles :
                 ParentAnswers(c) \/ ParentSends(c) \/ LinkLost(c)
  <2>1. UNCHANGED <<fsm, connectEpoch, inHandshake, buffer>>
    BY <1>14 DEF PumpSteps, CallerSteps, Rest, vars, TakeMessage, PumpSends,
       PumpDrops, PumpFindsClosed, PumpEnds, PumpStarves, HeartbeatFails,
       HeartbeatEnds, HeartbeatStarves, GuardFires, GuardEnds, StartReturns,
       StopReturns, Stop, Send, ParentAnswers, ParentSends, LinkLost,
       cycleVars, handshakeVars
  <2>2. QED
    BY <1>13, <2>1
<1>15. QED
  BY <1>1, <1>2, <1>3, <1>4, <1>5, <1>6, <1>7, <1>8, <1>9, <1>10, <1>11,
     <1>12, <1>14 DEF Next, FsmSteps, Attaching
-----------------------------------------------------------------------------
(* The strengthened invariant: the types need the room in the queue, the   *)
(* order and the agreement what is said of the pump and the handshake.     *)
IInv == TypeOK /\ QueueInv /\ HandshakeInv

(* The initial state.                                                      *)
LEMMA InitOK == Init => IInv
<1> SUFFICES ASSUME Init PROVE IInv
  OBVIOUS
<1>1. TypeOK
  <2>1. fsm \in States
    BY Delays DEF Init, States, Places
  <2>2. link \in [Cycles -> Links]
    BY BoundAssumption DEF Init, Links
  <2>3. pump \in Pumps
    BY BoundAssumption DEF Init, Pumps
  <2>4. /\ messageQueue \in Seq(1 .. MaxMessages) /\ buffer \in Seq(Frames)
        /\ Len(messageQueue) <= QueueMax + 1
    BY BoundAssumption DEF Init
  <2>5. /\ connectEpoch \in 0 .. MaxCycles /\ connector \in 0 .. MaxCycles
        /\ accepted \in 0 .. MaxMessages /\ lastSent \in 0 .. MaxMessages
    BY BoundAssumption DEF Init
  <2>6. /\ inHandshake \in BOOLEAN /\ readyEvent \in BOOLEAN
        /\ stopEvent \in BOOLEAN /\ queueEvent \in BOOLEAN
        /\ hadSuccessfulAttach \in BOOLEAN
    BY DEF Init
  <2>7. /\ stopSubtasks = "none" /\ heartbeat = "off" /\ guard = "off"
        /\ caller = "starting"
    BY DEF Init
  <2>8. QED
    BY <2>1, <2>2, <2>3, <2>4, <2>5, <2>6, <2>7 DEF TypeOK
<1>2. QueueInv
  BY BoundAssumption
     DEF Init, QueueInv, Room, HandHeld, MessagesInOrder, QueueAnnounced
<1>3. LoopInv
  BY DEF Init, LoopInv, OutOfHandshake, NothingStranded, FreshLinks, InCycle,
     AcceptedHere, Settled
<1>4. FramesTrue
  <2>1. <<>> \in Seq(TrueFrames) /\ buffer = <<>>
    BY DEF Init
  <2>2. \A c \in Cycles : link[c].wire = <<>>
    BY DEF Init
  <2>3. QED
    BY <2>1, <2>2 DEF FramesTrue
<1>5. QED
  BY <1>1, <1>2, <1>3, <1>4 DEF IInv, HandshakeInv

(* The strengthened invariant holds whatever the parent answers, and       *)
(* however connections are lost and attempts fail.                         *)
THEOREM Inductive == Spec => []IInv
<1>1. Init => IInv
  BY InitOK
<1>2. IInv /\ [Next]_vars => IInv'
  BY TypeKept, QueueKept, FramesKept, LoopKept DEF IInv, HandshakeInv
<1>3. QED
  BY <1>1, <1>2, PTL DEF Spec

(* The types: the backoff stays within its cap, and the queue exceeds      *)
(* TX_QUEUE_MAX at most by the message that came back (line 1187).         *)
THEOREM TypeCorrect == Spec => []TypeOK
<1>1. IInv => TypeOK
  BY DEF IInv
<1>2. QED
  BY <1>1, Inductive, PTL

(* takeMessage() and requeueFront(): messages leave in the order in which  *)
(* send() accepted them, across any number of reconnections.               *)
THEOREM InOrder == Spec => []MessagesInOrder
<1>1. IInv => MessagesInOrder
  BY DEF IInv, QueueInv
<1>2. QED
  BY <1>1, Inductive, PTL

(* The event of the queue: no message lies in it that the pump would not   *)
(* be woken for.                                                           *)
THEOREM Announced == Spec => []QueueAnnounced
<1>1. IInv => QueueAnnounced
  BY DEF IInv, QueueInv
<1>2. QED
  BY <1>1, Inductive, PTL

(* attach(): once a session is up no frame lies in the buffer of the       *)
(* handshake, however many connectors of earlier attempts still receive.   *)
THEOREM NothingLeftBehind == Spec => []NothingStranded
<1>1. IInv => NothingStranded
  BY DEF IInv, HandshakeInv, LoopInv
<1>2. QED
  BY <1>1, Inductive, PTL

(* awaitAck(): the node takes itself for attached only if the parent has   *)
(* accepted this very connection.                                          *)
THEOREM AgreesWithParent == Spec => []ParentAgrees
<1>1. IInv => ParentAgrees
  BY DEF IInv, HandshakeInv, LoopInv, AcceptedHere, ParentAgrees, Settled
<1>2. QED
  BY <1>1, Inductive, PTL
=============================================================================
