--------------------------- MODULE ConnectorProofs ---------------------------
(***************************************************************************)
(* The safety of a connector for any number of senders and of callers of   *)
(* stop() and close(), any queue size, any window and any number of        *)
(* messages.                                                               *)
(***************************************************************************)
EXTENDS Connector, SequenceTheorems, TLAPS

(* The run of _shutdown() is counted with the flag that guards it.         *)
FlagCounts == shutdowns = IF closed THEN 1 ELSE 0

(* The item the send loop is sending stays in the queue.                   *)
SendingHasItem == sendLoop = "sending" => queue # <<>>

(* After the one late envelope the loop waits for no other.                *)
LateIsLast ==
  /\ late \in {0, 1}
  /\ late = 1 => closed /\ recvLoop # "receiving"

(* The inductive invariant.                                                *)
IInv ==
  TypeOK /\ FlagCounts /\ SendingHasItem /\ QueueIsRemainder /\ LateIsLast

(* Sequences of items: appending to the queue, and moving its head to the  *)
(* end of the wire, as the queue and the wire are concatenated.            *)
LEMMA AppendRight ==
  ASSUME NEW S, NEW w \in Seq(S), NEW q \in Seq(S), NEW x \in S
  PROVE  /\ Append(q, x) \in Seq(S) /\ Append(q, x) # <<>>
         /\ Len(Append(q, x)) = Len(q) + 1
         /\ Append(w \o q, x) = w \o Append(q, x)
<1>1. /\ Append(q, x) \in Seq(S) /\ Append(q, x) # <<>>
      /\ Len(Append(q, x)) = Len(q) + 1 /\ Append(q, x) = q \o <<x>>
  BY AppendProperties, AppendIsConcat
<1>2. w \o q \in Seq(S) /\ <<x>> \in Seq(S)
  BY ConcatProperties
<1>3. Append(w \o q, x) = (w \o q) \o <<x>>
  BY <1>2, AppendIsConcat
<1>4. (w \o q) \o <<x>> = w \o (q \o <<x>>)
  BY <1>2, ConcatAssociative
<1>5. QED
  BY <1>1, <1>3, <1>4

LEMMA MoveHead ==
  ASSUME NEW S, NEW w \in Seq(S), NEW q \in Seq(S), q # <<>>
  PROVE  /\ Head(q) \in S /\ Tail(q) \in Seq(S) /\ Len(Tail(q)) = Len(q) - 1
         /\ Append(w, Head(q)) \in Seq(S)
         /\ Append(w, Head(q)) \o Tail(q) = w \o q
<1> DEFINE h == <<Head(q)>>
<1>1. /\ Head(q) \in S /\ Tail(q) \in Seq(S) /\ Len(Tail(q)) = Len(q) - 1
  BY HeadTailProperties
<1>2. h \in Seq(S) /\ Append(w, Head(q)) \in Seq(S)
  BY <1>1, AppendProperties
<1>3. Append(w, Head(q)) = w \o h
  BY <1>1, AppendIsConcat
<1>4. h \o Tail(q) = q
  <2>1. h \o Tail(q) \in Seq(S) /\ Len(h \o Tail(q)) = Len(q)
    BY <1>1, <1>2, ConcatProperties
  <2>2. ASSUME NEW i \in 1 .. Len(q) PROVE (h \o Tail(q))[i] = q[i]
    BY <1>1, <1>2, ConcatProperties
  <2>3. QED
    BY <2>1, <2>2
<1>5. (w \o h) \o Tail(q) = w \o (h \o Tail(q))
  BY <1>1, <1>2, ConcatAssociative
<1>6. QED
  BY <1>1, <1>2, <1>3, <1>4, <1>5

LEMMA InitEstablishes == Init => IInv
<1> SUFFICES ASSUME Init PROVE IInv
  OBVIOUS
<1>1. TypeOK
  <2>1. <<>> \in Seq(Items) /\ Len(<<>>) = 0
    BY EmptySeq
  <2>2. shutdown \in Shutdowns
    BY DEF Init, Shutdowns
  <2>3. state \in States /\ credits \in 0 .. InitialWindow
        /\ inbound \in 0 .. MaxInbound /\ Len(queue) <= MaxQueue
    BY <2>1, SizeAssumption DEF Init, States
  <2>4. /\ sender \in [Senders -> {"idle", "acquiring", "accepted", "refused"}]
        /\ closer \in [Closers -> {"idle", "closing", "returned"}]
    BY DEF Init
  <2>5. QED
    BY <2>1, <2>2, <2>3, <2>4 DEF Init, TypeOK
<1>2. FlagCounts /\ SendingHasItem /\ LateIsLast
  BY DEF Init, FlagCounts, SendingHasItem, LateIsLast
<1>3. QueueIsRemainder
  BY EmptySeq, ConcatEmptySeq DEF Init, QueueIsRemainder
<1>4. QED
  BY <1>1, <1>2, <1>3 DEF IInv

(* What begins, moves on and ends a run of _shutdown() keeps its record,   *)
(* and only a run that begins is counted.                                  *)
LEMMA ShutdownMoves ==
  ASSUME NEW r \in Shutdowns,
         NEW x \in {"closing", "joining", "expired", "done"}
  PROVE  [r EXCEPT !.step = x] \in Shutdowns
BY DEF Shutdowns

LEMMA BeginCounts ==
  ASSUME IInv, NEW by \in Closers \cup Loops \cup {"nobody"},
         NEW final \in Final,
         MayShutDown, BeginShutdown(by, final)
  PROVE  /\ closed' = TRUE /\ state' \in States /\ shutdown' \in Shutdowns
         /\ shutdowns' \in Nat /\ FlagCounts'
<1>1. shutdown' \in Shutdowns
  BY DEF BeginShutdown, Shutdowns
<1>2. state' \in States
  BY DEF IInv, TypeOK, BeginShutdown, States
<1>3. QED
  BY <1>1, <1>2 DEF IInv, FlagCounts, MayShutDown, BeginShutdown

(* An item that send() accepts.                                            *)
LEMMA PushKeepsOrder ==
  ASSUME IInv, ~Full, NEW x \in Items, Push(x)
  PROVE  /\ queue' \in Seq(Items) /\ Len(queue') <= MaxQueue /\ queue' # <<>>
         /\ accepted' \in Seq(Items) /\ accepted' = wire \o queue'
<1>1. /\ wire \in Seq(Items) /\ queue \in Seq(Items) /\ accepted \in Seq(Items)
      /\ accepted = wire \o queue
  BY DEF IInv, TypeOK, QueueIsRemainder
<1>2. /\ Append(queue, x) \in Seq(Items) /\ Append(queue, x) # <<>>
      /\ Len(Append(queue, x)) = Len(queue) + 1
      /\ Append(wire \o queue, x) = wire \o Append(queue, x)
  <2>1. /\ Append(queue, x) \in Seq(Items) /\ Append(queue, x) # <<>>
        /\ Len(Append(queue, x)) = Len(queue) + 1
    BY <1>1, AppendProperties
  <2>2. Append(wire \o queue, x) = wire \o Append(queue, x)
    BY <1>1, AppendRight
  <2>3. QED
    BY <2>1, <2>2
<1>3. Append(accepted, x) \in Seq(Items)
  BY <1>1, AppendProperties
<1>4. Len(queue) + 1 <= MaxQueue
  BY <1>1, SizeAssumption DEF Full
<1>5. QED
  BY <1>1, <1>2, <1>3, <1>4 DEF Push

(* Where the receive loop ends itself, or finds that it has been ended.    *)
LEMMA RecvShutdownCounts ==
  ASSUME IInv, RecvShutsDown
  PROVE  /\ closed' = TRUE /\ state' \in States /\ shutdown' \in Shutdowns
         /\ shutdowns' \in Nat /\ FlagCounts'
         /\ recvLoop' \in {"shutting", "ended"}
<1>1. CASE MayShutDown
  BY <1>1, BeginCounts DEF RecvShutsDown, Loops, Final
<1>2. CASE ~MayShutDown
  BY <1>2 DEF RecvShutsDown, MayShutDown, IInv, TypeOK, FlagCounts
<1>3. QED
  BY <1>1, <1>2

LEMMA SentPreserves == ASSUME IInv, Sent PROVE IInv'
<1>1. queue # <<>> /\ wire \in Seq(Items) /\ queue \in Seq(Items)
  BY DEF IInv, TypeOK, Sent, SendingHasItem
<1>2. /\ queue' \in Seq(Items) /\ Len(queue') = Len(queue) - 1
      /\ wire' \in Seq(Items) /\ wire' \o queue' = wire \o queue
  BY <1>1, MoveHead DEF Sent
<1>3. Len(queue) \in Nat
  BY <1>1
<1>4. TypeOK'
  BY <1>2, <1>3, SizeAssumption DEF IInv, TypeOK, Sent, lifeVars
<1>5. QED
  BY <1>2, <1>4 DEF IInv, FlagCounts, SendingHasItem, QueueIsRemainder,
     LateIsLast, Sent, lifeVars

LEMMA ProceedPreserves ==
  ASSUME IInv, NEW s \in Senders, Proceed(s) PROVE IInv'
<1>1. credits' \in 0 .. InitialWindow
  BY SizeAssumption DEF IInv, TypeOK, Proceed
<1>2. sender' \in [Senders -> {"idle", "acquiring", "accepted", "refused"}]
  BY DEF IInv, TypeOK, Proceed
<1>3. /\ queue' \in Seq(Items) /\ Len(queue') <= MaxQueue
      /\ accepted' \in Seq(Items) /\ accepted' = wire \o queue'
      /\ queue # <<>> => queue' # <<>>
  <2>1. CASE Full
    BY <2>1 DEF IInv, TypeOK, QueueIsRemainder, Proceed
  <2>2. CASE ~Full
    BY <2>2, PushKeepsOrder DEF Proceed, Items
  <2>3. QED
    BY <2>1, <2>2
<1>4. TypeOK'
  BY <1>1, <1>2, <1>3 DEF IInv, TypeOK, Proceed, lifeVars
<1>5. QED
  BY <1>3, <1>4 DEF IInv, FlagCounts, SendingHasItem, QueueIsRemainder,
     LateIsLast, Proceed, lifeVars

LEMMA SettleGrantingPreserves == ASSUME IInv, SettleGranting PROVE IInv'
<1>1. /\ queue' \in Seq(Items) /\ Len(queue') <= MaxQueue /\ queue' # <<>>
      /\ accepted' \in Seq(Items) /\ accepted' = wire \o queue'
  BY PushKeepsOrder DEF SettleGranting, Items
<1>2. /\ closed' \in BOOLEAN /\ state' \in States /\ shutdown' \in Shutdowns
      /\ shutdowns' \in Nat /\ FlagCounts'
      /\ recvLoop' \in {"top", "shutting", "ended"}
  <2>1. CASE recvLoop = "settling"
    BY <2>1 DEF SettleGranting, IInv, TypeOK, FlagCounts
  <2>2. CASE recvLoop = "settlingClosed"
    BY <2>2, RecvShutdownCounts DEF SettleGranting
  <2>3. QED
    BY <2>1, <2>2 DEF SettleGranting
<1>3. TypeOK'
  BY <1>1, <1>2 DEF IInv, TypeOK, SettleGranting
<1>4. late' = 0
  BY DEF IInv, LateIsLast, SettleGranting
<1>5. QED
  BY <1>1, <1>2, <1>3, <1>4 DEF IInv, SendingHasItem, QueueIsRemainder,
     LateIsLast, SettleGranting

LEMMA SettleQuietlyPreserves == ASSUME IInv, SettleQuietly PROVE IInv'
<1>1. /\ closed' \in BOOLEAN /\ state' \in States /\ shutdown' \in Shutdowns
      /\ shutdowns' \in Nat /\ FlagCounts' /\ (closed => closed')
      /\ recvLoop' \in {"top", "shutting", "ended"}
  <2>1. CASE recvLoop = "settling"
    BY <2>1 DEF SettleQuietly, IInv, TypeOK, FlagCounts
  <2>2. CASE recvLoop = "settlingClosed"
    BY <2>2, RecvShutdownCounts DEF SettleQuietly
  <2>3. QED
    BY <2>1, <2>2 DEF SettleQuietly
<1>2. UNCHANGED <<closer, waiter, sendVars, sendLoop, inbound, wire, late>>
  BY DEF SettleQuietly
<1>3. TypeOK'
  BY <1>1, <1>2 DEF IInv, TypeOK, sendVars
<1>4. QED
  BY <1>1, <1>2, <1>3 DEF IInv, SendingHasItem, QueueIsRemainder, LateIsLast,
     sendVars

LEMMA ReceiveFindsClosedPreserves ==
  ASSUME IInv, ReceiveFindsClosed PROVE IInv'
<1>1. /\ closed' = TRUE /\ state' \in States /\ shutdown' \in Shutdowns
      /\ shutdowns' \in Nat /\ FlagCounts'
      /\ recvLoop' \in {"shutting", "ended"}
  BY RecvShutdownCounts DEF ReceiveFindsClosed
<1>2. TypeOK'
  BY <1>1 DEF IInv, TypeOK, ReceiveFindsClosed, sendVars
<1>3. QED
  BY <1>1, <1>2 DEF IInv, SendingHasItem, QueueIsRemainder, LateIsLast,
     ReceiveFindsClosed, sendVars

LEMMA SendFindsClosedPreserves == ASSUME IInv, SendFindsClosed PROVE IInv'
<1>1. /\ closed' = TRUE /\ state' \in States /\ shutdown' \in Shutdowns
      /\ shutdowns' \in Nat /\ FlagCounts'
      /\ sendLoop' \in {"shutting", "ended"}
  <2>1. CASE MayShutDown
    BY <2>1, BeginCounts DEF SendFindsClosed, Loops, Final
  <2>2. CASE ~MayShutDown
    BY <2>2 DEF SendFindsClosed, MayShutDown, IInv, TypeOK, FlagCounts
  <2>3. QED
    BY <2>1, <2>2
<1>2. TypeOK'
  BY <1>1 DEF IInv, TypeOK, SendFindsClosed, sendVars
<1>3. QED
  BY <1>1, <1>2 DEF IInv, SendingHasItem, QueueIsRemainder, LateIsLast,
     SendFindsClosed, sendVars

LEMMA CallPreserves ==
  ASSUME IInv, NEW c \in Closers, NEW final \in Final, Call(c, final)
  PROVE  IInv'
<1>1. /\ closed' = TRUE /\ state' \in States /\ shutdown' \in Shutdowns
      /\ shutdowns' \in Nat /\ FlagCounts'
  <2>1. CASE MayShutDown
    BY <2>1, BeginCounts DEF Call
  <2>2. CASE ~MayShutDown
    BY <2>2 DEF Call, MayShutDown, IInv, TypeOK, FlagCounts, States
  <2>3. QED
    BY <2>1, <2>2
<1>2. closer' \in [Closers -> {"idle", "closing", "returned"}]
  BY DEF IInv, TypeOK, Call
<1>3. TypeOK'
  BY <1>1, <1>2 DEF IInv, TypeOK, Call, sendVars
<1>4. QED
  BY <1>1, <1>3 DEF IInv, SendingHasItem, QueueIsRemainder, LateIsLast,
     Call, sendVars

LEMMA PeerClosesPreserves == ASSUME IInv, PeerCloses PROVE IInv'
<1>1. /\ closed' = TRUE /\ state' \in States /\ shutdown' \in Shutdowns
      /\ shutdowns' \in Nat /\ FlagCounts'
  BY BeginCounts DEF PeerCloses, Final
<1>2. TypeOK'
  BY <1>1 DEF IInv, TypeOK, PeerCloses, sendVars
<1>3. QED
  BY <1>1, <1>2 DEF IInv, SendingHasItem, QueueIsRemainder, LateIsLast,
     PeerCloses, sendVars

LEMMA ShutdownStepPreserves == ASSUME IInv, ShutdownSteps PROVE IInv'
<1>1. shutdown' \in Shutdowns
  BY ShutdownMoves DEF IInv, TypeOK, ShutdownSteps, TransportCloses,
     JoinExpires, EndShutdown
<1>2. TypeOK'
  <2>1. CASE TransportCloses
    BY <1>1, <2>1 DEF IInv, TypeOK, TransportCloses, sendVars
  <2>2. CASE JoinExpires
    BY <1>1, <2>2 DEF IInv, TypeOK, JoinExpires, sendVars
  <2>3. CASE EndShutdown
    BY <1>1, <2>3 DEF IInv, TypeOK, EndShutdown, sendVars
  <2>4. QED
    BY <2>1, <2>2, <2>3 DEF ShutdownSteps
<1>3. QED
  BY SMTT(20), <1>2
     DEF IInv, FlagCounts, SendingHasItem, QueueIsRemainder, LateIsLast,
     ShutdownSteps, TransportCloses, JoinExpires, EndShutdown, sendVars

(* Every step preserves the invariant.                                     *)
LEMMA StepPreserves == IInv /\ [Next]_vars => IInv'
<1> SUFFICES ASSUME IInv, [Next]_vars PROVE IInv'
  OBVIOUS
<1> USE SizeAssumption
<1>1. CASE Start
  BY <1>1 DEF Start, sendVars, States,
     IInv, TypeOK, FlagCounts, SendingHasItem, QueueIsRemainder, LateIsLast
<1>2. CASE Pause
  BY <1>2 DEF Pause, sendVars, States,
     IInv, TypeOK, FlagCounts, SendingHasItem, QueueIsRemainder, LateIsLast
<1>3. CASE Resume
  BY <1>3 DEF Resume, sendVars, States,
     IInv, TypeOK, FlagCounts, SendingHasItem, QueueIsRemainder, LateIsLast
<1>4. CASE WaitUntilClosed
  BY <1>4 DEF WaitUntilClosed, sendVars, States,
     IInv, TypeOK, FlagCounts, SendingHasItem, QueueIsRemainder, LateIsLast
<1>5. CASE SendOldest
  BY <1>5 DEF SendOldest, lifeVars, sendVars, States,
     IInv, TypeOK, FlagCounts, SendingHasItem, QueueIsRemainder, LateIsLast
<1>6. CASE SendFails
  BY <1>6 DEF SendFails, lifeVars, sendVars, States,
     IInv, TypeOK, FlagCounts, SendingHasItem, QueueIsRemainder, LateIsLast
<1>7. CASE SendLoopEnds
  BY <1>7 DEF SendLoopEnds, lifeVars, sendVars, States,
     IInv, TypeOK, FlagCounts, SendingHasItem, QueueIsRemainder, LateIsLast
<1>8. CASE AwaitMessage
  BY <1>8 DEF AwaitMessage, GoesOn, lifeVars, sendVars, States,
     IInv, TypeOK, FlagCounts, SendingHasItem, QueueIsRemainder, LateIsLast
<1>9. CASE RecvLoopEnds
  BY <1>9 DEF RecvLoopEnds, lifeVars, sendVars, States,
     IInv, TypeOK, FlagCounts, SendingHasItem, QueueIsRemainder, LateIsLast
<1>10. CASE Handled
  BY <1>10 DEF Handled, lifeVars, sendVars, States,
     IInv, TypeOK, FlagCounts, SendingHasItem, QueueIsRemainder, LateIsLast
<1>11. CASE SettleRefused
  BY <1>11 DEF SettleRefused, lifeVars, sendVars, States,
     IInv, TypeOK, FlagCounts, SendingHasItem, QueueIsRemainder, LateIsLast
<1>12. CASE ReceiveCredits
  BY <1>12 DEF ReceiveCredits, TakeMessage, lifeVars, States,
     IInv, TypeOK, FlagCounts, SendingHasItem, QueueIsRemainder, LateIsLast
<1>13. CASE ReceiveEnvelope
  BY <1>13 DEF ReceiveEnvelope, TakeMessage, lifeVars, sendVars, States,
     IInv, TypeOK, FlagCounts, SendingHasItem, QueueIsRemainder, LateIsLast
<1>14. CASE ReceiveUnexpected
  BY <1>14 DEF ReceiveUnexpected, TakeMessage, lifeVars, sendVars, States,
     IInv, TypeOK, FlagCounts, SendingHasItem, QueueIsRemainder, LateIsLast
<1>15. ASSUME NEW s \in Senders, Send(s) PROVE IInv'
  BY <1>15 DEF Send, lifeVars,
     IInv, TypeOK, FlagCounts, SendingHasItem, QueueIsRemainder, LateIsLast
<1>16. ASSUME NEW s \in Senders, Proceed(s) PROVE IInv'
  BY <1>16, ProceedPreserves
<1>17. ASSUME NEW c \in Closers, Stop(c) PROVE IInv'
  BY <1>17, CallPreserves DEF Stop, Final
<1>18. ASSUME NEW c \in Closers, Close(c) PROVE IInv'
  BY <1>18, CallPreserves DEF Close, Final
<1>19. CASE Sent
  BY <1>19, SentPreserves
<1>20. CASE SendFindsClosed
  BY <1>20, SendFindsClosedPreserves
<1>21. CASE SettleQuietly
  BY <1>21, SettleQuietlyPreserves
<1>22. CASE SettleGranting
  BY <1>22, SettleGrantingPreserves
<1>23. CASE ReceiveFindsClosed
  BY <1>23, ReceiveFindsClosedPreserves
<1>24. CASE ShutdownSteps
  BY <1>24, ShutdownStepPreserves
<1>25. CASE PeerCloses
  BY <1>25, PeerClosesPreserves
<1>26. CASE Over \/ UNCHANGED vars
  <2>1. UNCHANGED vars
    BY <1>26 DEF Over
  <2>2. TypeOK'
    BY <2>1 DEF IInv, TypeOK, vars, lifeVars, sendVars
  <2>3. QED
    BY <2>1, <2>2 DEF vars, lifeVars, sendVars,
       IInv, FlagCounts, SendingHasItem, QueueIsRemainder, LateIsLast
<1>27. QED
  BY <1>1, <1>2, <1>3, <1>4, <1>5, <1>6, <1>7, <1>8, <1>9, <1>10, <1>11,
     <1>12, <1>13, <1>14, <1>15, <1>16, <1>17, <1>18, <1>19, <1>20,
     <1>21, <1>22, <1>23, <1>24, <1>25, <1>26
     DEF Next, SendLoopSteps, RecvLoopSteps, Handling, Receptions

(* The inductive invariant holds throughout.                               *)
THEOREM Inductive == Spec => []IInv
  BY InitEstablishes, StepPreserves, PTL DEF Spec

(* The queue never exceeds maxQueueSize, no balance leaves its window, and *)
(* every record of the connector keeps its shape (base-async-connector.ts).*)
THEOREM TypeCorrect == Spec => []TypeOK
<1>1. IInv => TypeOK
  BY DEF IInv, TypeOK
<1>2. QED
  BY <1>1, Inductive, PTL

(* However many callers, loops and peers end the connector, one run of     *)
(* _shutdown() gets past its guard.                                        *)
THEOREM OneShutdown == Spec => []ShutdownOnce
<1>1. IInv => ShutdownOnce
  BY DEF IInv, FlagCounts, ShutdownOnce
<1>2. QED
  BY <1>1, Inductive, PTL

(* At most one envelope reaches the handler after _closed has been set.    *)
THEOREM FewLate == Spec => []AtMostOneLate
<1>1. IInv => AtMostOneLate
  BY DEF IInv, LateIsLast, AtMostOneLate
<1>2. QED
  BY <1>1, Inductive, PTL

(* What has been written to the transport and what is queued is what       *)
(* send() has accepted, in that order.                                     *)
THEOREM InOrder == Spec => []QueueIsRemainder
<1>1. IInv => QueueIsRemainder
  BY DEF IInv, QueueIsRemainder
<1>2. QED
  BY <1>1, Inductive, PTL
=============================================================================
