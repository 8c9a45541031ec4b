--------------------------- MODULE ListenerProofs ---------------------------
(***************************************************************************)
(* What listens for the messages of a node.  InboxListener: the safety of  *)
(* the receiving side for any number of messages, attempts, copies that    *)
(* are sent and crashes.  RpcCalls: for all calls and paths, streams of    *)
(* any length, and any number of faults, restarts and attachments.         *)
(***************************************************************************)
EXTENDS InboxListener, RpcCalls, SequenceTheorems, TLAPS

Safe(m) == m \in handled \/ inbox[m] # Absent \/ m \in dlq

(* No copy of an entry counts an attempt that the handler has not failed:  *)
(* neither the stored one nor those that a worker, the cache or the        *)
(* recovery holds.                                                         *)
CountsBacked ==
  /\ \A m \in Messages : /\ inbox[m] <= failures[m]
                         /\ cache[m] <= failures[m]
                         /\ recovery[m] <= failures[m]
  /\ \A w \in Workers : worker[w].attempt <= failures[worker[w].msg]

(* A worker that tries the handler has an attempt left; one that gives up  *)
(* has none.                                                               *)
AttemptsLeft ==
  \A w \in Workers :
    /\ worker[w].at \in {"saving", "acking", "handling", "noting"} =>
         worker[w].attempt \in Attempts
    /\ worker[w].at \in {"burying", "unlisting"} =>
         worker[w].attempt = MaxAttempts

(* Who is about to acknowledge has stored the message, or it has been dealt*)
(* with since; who is about to delete an entry knows a reason to.          *)
StepsBacked ==
  /\ worker["loop"].at = "acking" => Safe(worker["loop"].msg)
  /\ \A w \in Workers :
       /\ worker[w].at = "unlisting" => worker[w].msg \in dlq
       /\ worker[w].at = "deleting" => worker[w].msg \in handled

(* The inductive invariant.                                                *)
IInv ==
  /\ TypeOK /\ CountsBacked /\ AttemptsLeft /\ StepsBacked
  /\ AckedNotLost /\ BuriedDeservedly

USE PolicyAssumption, MessageAssumption, BoundAssumption
    DEF Absent, Attempts, Copies, Workers

-----------------------------------------------------------------------------
(* A worker that goes elsewhere keeps its message and its attempt; the     *)
(* other worker stays where it is.                                         *)
LEMMA GoesThere ==
  ASSUME TypeOK, NEW w \in Workers, NEW at \in Places
  PROVE  /\ Goes(w, at) \in [Workers -> Work]
         /\ Goes(w, at)[w] = [at |-> at, msg |-> worker[w].msg,
                              attempt |-> worker[w].attempt]
         /\ \A v \in Workers \ {w} : Goes(w, at)[v] = worker[v]
<1>1. worker \in [Workers -> Work] /\ worker[w] \in Work
  BY DEF TypeOK
<1>2. [worker[w] EXCEPT !.at = at] =
        [at |-> at, msg |-> worker[w].msg, attempt |-> worker[w].attempt]
  BY <1>1 DEF Work
<1>3. [worker[w] EXCEPT !.at = at] \in Work
  BY <1>1, <1>2 DEF Work
<1>4. Goes(w, at) = [worker EXCEPT ![w] = [worker[w] EXCEPT !.at = at]]
  BY <1>1 DEF Goes
<1>5. QED
  BY <1>1, <1>2, <1>3, <1>4

(* The same when the attempt changes too, or all of it.                    *)
LEMMA WorksThere ==
  ASSUME TypeOK, NEW w \in Workers, NEW job \in Work
  PROVE  /\ [worker EXCEPT ![w] = job] \in [Workers -> Work]
         /\ [worker EXCEPT ![w] = job][w] = job
         /\ \A v \in Workers \ {w} : [worker EXCEPT ![w] = job][v] = worker[v]
BY DEF TypeOK

-----------------------------------------------------------------------------
(* Nothing is stored, counted or promised at the start.                   *)
LEMMA InitKeeps == Init => IInv
<1> SUFFICES ASSUME Init PROVE IInv
  OBVIOUS
<1>1. TypeOK
  BY DEF Init, TypeOK, Nothing, Idle, Work, Places
<1>2. CountsBacked /\ AttemptsLeft /\ StepsBacked
  BY DEF Init, CountsBacked, AttemptsLeft, StepsBacked, Nothing, Idle
<1>3. AckedNotLost /\ BuriedDeservedly
  BY DEF Init, AckedNotLost, BuriedDeservedly
<1>4. QED
  BY <1>1, <1>2, <1>3 DEF IInv

(* Listing the inbox only copies its counts.                               *)
LEMMA StartListsKeeps ==
  ASSUME IInv, StartLists
  PROVE  IInv'
<1>1. cache' = inbox /\ inbox' = inbox /\ worker' = worker
  BY DEF StartLists, stored
<1>2. TypeOK'
  BY <1>1 DEF IInv, TypeOK, StartLists, stored, history
<1>3. CountsBacked'
  BY <1>1 DEF IInv, TypeOK, CountsBacked, StartLists, stored, history
<1>4. AttemptsLeft'
  BY <1>1 DEF IInv, TypeOK, AttemptsLeft, StartLists, stored, history
<1>5. StepsBacked'
  BY <1>1 DEF IInv, TypeOK, StepsBacked, StartLists, Safe, stored, history
<1>6. AckedNotLost'
  BY <1>1 DEF IInv, TypeOK, AckedNotLost, StartLists, stored, history
<1>7. BuriedDeservedly'
  BY <1>1 DEF IInv, TypeOK, BuriedDeservedly, StartLists, stored, history
<1>8. QED
  BY <1>2, <1>3, <1>4, <1>5, <1>6, <1>7 DEF IInv

(* The recovery takes over copies that are backed already.                 *)
LEMMA ListenKeeps ==
  ASSUME IInv, Listen
  PROVE  IInv'
<1>a. worker' = Goes("loop", "polling") /\ "polling" \in Places
  BY DEF Listen, Places
<1>b. worker["loop"] \in Work /\ worker["loop"].msg \in Messages
  BY DEF IInv, TypeOK, Work
<1>1. /\ worker' \in [Workers -> Work]
      /\ worker'["loop"] = [at |-> "polling", msg |-> worker["loop"].msg,
                        attempt |-> worker["loop"].attempt]
      /\ \A v \in Workers \ {"loop"} : worker'[v] = worker[v]
  BY <1>a, GoesThere DEF IInv
<1>2. TypeOK'
  BY <1>1 DEF IInv, TypeOK, Listen, stored, history, Nothing
<1>3. CountsBacked'
  BY DEF IInv, TypeOK, CountsBacked, Listen, Holds, Goes, Safe, stored,
     history
<1>4. AttemptsLeft'
  BY <1>1 DEF IInv, TypeOK, AttemptsLeft, Listen, stored, history, Nothing
<1>5. StepsBacked'
  BY DEF IInv, TypeOK, StepsBacked, Listen, Holds, Goes, Safe, stored,
     history
<1>6. AckedNotLost'
  BY <1>1 DEF IInv, TypeOK, AckedNotLost, Listen, stored, history, Nothing
<1>7. BuriedDeservedly'
  BY <1>1 DEF IInv, TypeOK, BuriedDeservedly, Listen, stored, history,
     Nothing
<1>8. QED
  BY <1>2, <1>3, <1>4, <1>5, <1>6, <1>7 DEF IInv

(* A crash leaves the inbox and the dead letters alone.                    *)
LEMMA CrashKeeps ==
  ASSUME IInv, Crash
  PROVE  IInv'
<1>1. /\ worker' \in [Workers -> Work]
      /\ \A v \in Workers : /\ worker'[v].at = "off"
                            /\ worker'[v].attempt = 0
                            /\ worker'[v].msg \in Messages
  BY DEF Crash, Idle, Work, Places
<1>2. TypeOK'
  BY <1>1 DEF IInv, TypeOK, Crash, stored, history, Nothing
<1>3. CountsBacked'
  BY <1>1 DEF IInv, TypeOK, CountsBacked, Crash, stored, history, Nothing
<1>4. AttemptsLeft'
  BY <1>1 DEF IInv, TypeOK, AttemptsLeft, Crash, stored, history, Nothing
<1>5. StepsBacked'
  BY <1>1 DEF IInv, TypeOK, StepsBacked, Crash, Safe, stored, history,
     Nothing
<1>6. AckedNotLost'
  BY <1>1 DEF IInv, TypeOK, AckedNotLost, Crash, stored, history, Nothing
<1>7. BuriedDeservedly'
  BY <1>1 DEF IInv, TypeOK, BuriedDeservedly, Crash, stored, history,
     Nothing
<1>8. QED
  BY <1>2, <1>3, <1>4, <1>5, <1>6, <1>7 DEF IInv

(* A restart changes no count.                                             *)
LEMMA RestartKeeps ==
  ASSUME IInv, Restart
  PROVE  IInv'
<1>1. UNCHANGED <<stored, worker, cache, recovery, history>>
  BY DEF Restart
<1>2. TypeOK'
  BY <1>1 DEF IInv, TypeOK, Restart, stored, history
<1>3. CountsBacked'
  BY <1>1 DEF IInv, TypeOK, CountsBacked, Restart, stored, history
<1>4. AttemptsLeft'
  BY <1>1 DEF IInv, TypeOK, AttemptsLeft, Restart, stored, history
<1>5. StepsBacked'
  BY <1>1 DEF IInv, TypeOK, StepsBacked, Restart, Safe, stored, history
<1>6. AckedNotLost'
  BY <1>1 DEF IInv, TypeOK, AckedNotLost, Restart, stored, history
<1>7. BuriedDeservedly'
  BY <1>1 DEF IInv, TypeOK, BuriedDeservedly, Restart, stored, history
<1>8. QED
  BY <1>2, <1>3, <1>4, <1>5, <1>6, <1>7 DEF IInv

(* A message on its way has promised nothing.                              *)
LEMMA SendKeeps ==
  ASSUME IInv, NEW m \in Messages, Send(m)
  PROVE  IInv'
<1>1. channel' \in Seq(Messages)
  BY AppendProperties DEF IInv, TypeOK, Send
<1>2. TypeOK'
  BY <1>1 DEF IInv, TypeOK, Send, stored, history
<1>3. CountsBacked'
  BY <1>1 DEF IInv, TypeOK, CountsBacked, Send, stored, history
<1>4. AttemptsLeft'
  BY <1>1 DEF IInv, TypeOK, AttemptsLeft, Send, stored, history
<1>5. StepsBacked'
  BY <1>1 DEF IInv, TypeOK, StepsBacked, Send, Safe, stored, history
<1>6. AckedNotLost'
  BY <1>1 DEF IInv, TypeOK, AckedNotLost, Send, stored, history
<1>7. BuriedDeservedly'
  BY <1>1 DEF IInv, TypeOK, BuriedDeservedly, Send, stored, history
<1>8. QED
  BY <1>2, <1>3, <1>4, <1>5, <1>6, <1>7 DEF IInv

(* A copy that comes in starts without an attempt.                         *)
LEMMA PollKeeps ==
  ASSUME IInv, Poll
  PROVE  IInv'
<1>1. channel' \in Seq(Messages) /\ Head(channel) \in Messages
  BY HeadTailProperties DEF IInv, TypeOK, Poll
<1> DEFINE job == [at |-> "looking", msg |-> Head(channel), attempt |-> 0]
<1>a. job \in Work
  BY <1>1 DEF Work, Places
<1>b. /\ worker' \in [Workers -> Work] /\ worker'["loop"] = job
      /\ worker'["recovery"] = worker["recovery"]
  BY <1>a, WorksThere DEF IInv, Poll
<1>2. TypeOK'
  BY <1>1, <1>b DEF IInv, TypeOK, Poll, stored, history
<1>3. CountsBacked'
  BY <1>1, <1>b DEF IInv, TypeOK, CountsBacked, Poll, stored, history
<1>4. AttemptsLeft'
  BY <1>1, <1>b DEF IInv, TypeOK, AttemptsLeft, Poll, stored, history
<1>5. StepsBacked'
  BY <1>1, <1>b DEF IInv, TypeOK, StepsBacked, Poll, Safe, stored, history
<1>6. AckedNotLost'
  BY <1>1, <1>b DEF IInv, TypeOK, AckedNotLost, Poll, stored, history
<1>7. BuriedDeservedly'
  BY <1>1, <1>b DEF IInv, TypeOK, BuriedDeservedly, Poll, stored, history
<1>8. QED
  BY <1>2, <1>3, <1>4, <1>5, <1>6, <1>7 DEF IInv

(* A copy of a stored message goes on from the stored count.               *)
LEMMA LookUpKeeps ==
  ASSUME IInv, LookUp
  PROVE  IInv'
<1> DEFINE m == worker["loop"].msg
           k == IF inbox[m] = Absent THEN 0 ELSE inbox[m]
           job == [at |-> "saving", msg |-> m, attempt |-> k]
<1>1. m \in Messages /\ k \in Attempts /\ k <= failures[m]
  BY DEF IInv, TypeOK, CountsBacked, Work
<1>a. job \in Work
  BY <1>1 DEF Work, Places
<1>b. worker' = [worker EXCEPT !["loop"] = job]
  BY DEF IInv, TypeOK, Work, LookUp, AfterLooking, Msg
<1>c. /\ worker' \in [Workers -> Work] /\ worker'["loop"] = job
      /\ worker'["recovery"] = worker["recovery"]
  BY <1>a, <1>b, WorksThere DEF IInv
<1>2. TypeOK'
  BY <1>1, <1>b, <1>c DEF IInv, TypeOK, LookUp, stored, history,
     workerOnly
<1>3. CountsBacked'
  BY <1>1, <1>b, <1>c DEF IInv, TypeOK, CountsBacked, LookUp, stored,
     history, workerOnly
<1>4. AttemptsLeft'
  BY <1>1, <1>b, <1>c DEF IInv, TypeOK, AttemptsLeft, LookUp, stored,
     history, workerOnly
<1>5. StepsBacked'
  BY <1>1, <1>b, <1>c DEF IInv, TypeOK, StepsBacked, LookUp, Safe, stored,
     history, workerOnly
<1>6. AckedNotLost'
  BY <1>1, <1>b, <1>c DEF IInv, TypeOK, AckedNotLost, LookUp, stored,
     history, workerOnly
<1>7. BuriedDeservedly'
  BY <1>1, <1>b, <1>c DEF IInv, TypeOK, BuriedDeservedly, LookUp, stored,
     history, workerOnly
<1>8. QED
  BY <1>2, <1>3, <1>4, <1>5, <1>6, <1>7 DEF IInv

(* Storing a message keeps every one safe.                                 *)
LEMMA SaveReceivedKeeps ==
  ASSUME IInv, SaveReceived
  PROVE  IInv'
<1>a. worker' = Goes("loop", "acking") /\ "acking" \in Places
  BY DEF SaveReceived, Places
<1>b. worker["loop"] \in Work /\ worker["loop"].msg \in Messages
  BY DEF IInv, TypeOK, Work
<1>1. /\ worker' \in [Workers -> Work]
      /\ worker'["loop"] = [at |-> "acking", msg |-> worker["loop"].msg,
                        attempt |-> worker["loop"].attempt]
      /\ \A v \in Workers \ {"loop"} : worker'[v] = worker[v]
  BY <1>a, GoesThere DEF IInv
<1>c. worker["loop"].attempt \in Attempts
  BY DEF IInv, AttemptsLeft, SaveReceived, Holds
<1>2. TypeOK'
  BY <1>1, <1>b, <1>c DEF IInv, TypeOK, SaveReceived, history, workerOnly,
     Put, Msg, Holds, Work
<1>3. CountsBacked'
  BY <1>1, <1>b, <1>c DEF IInv, TypeOK, CountsBacked, SaveReceived,
     history, workerOnly, Put, Msg, Holds, Work
<1>4. AttemptsLeft'
  BY <1>1, <1>b, <1>c DEF IInv, TypeOK, AttemptsLeft, SaveReceived,
     history, workerOnly, Put, Msg, Holds, Work
<1>5. StepsBacked'
  BY SMTT(20), <1>1, <1>b, <1>c
     DEF IInv, TypeOK, StepsBacked, SaveReceived, Safe,
     history, workerOnly, Put, Msg, Holds, Work
<1>6. AckedNotLost'
  BY <1>1, <1>b, <1>c DEF IInv, TypeOK, AckedNotLost, SaveReceived,
     history, workerOnly, Put, Msg, Holds, Work
<1>7. BuriedDeservedly'
  BY <1>1, <1>b, <1>c DEF IInv, TypeOK, BuriedDeservedly, SaveReceived,
     history, workerOnly, Put, Msg, Holds, Work
<1>8. QED
  BY <1>2, <1>3, <1>4, <1>5, <1>6, <1>7 DEF IInv

(* An acknowledged message has been stored, or dealt with since.           *)
LEMMA SendAckKeeps ==
  ASSUME IInv, SendAck
  PROVE  IInv'
<1>a. worker' = Goes("loop", "handling") /\ "handling" \in Places
  BY DEF SendAck, Places
<1>b. worker["loop"] \in Work /\ worker["loop"].msg \in Messages
  BY DEF IInv, TypeOK, Work
<1>1. /\ worker' \in [Workers -> Work]
      /\ worker'["loop"] = [at |-> "handling", msg |-> worker["loop"].msg,
                        attempt |-> worker["loop"].attempt]
      /\ \A v \in Workers \ {"loop"} : worker'[v] = worker[v]
  BY <1>a, GoesThere DEF IInv
<1>2. TypeOK'
  BY <1>1 DEF IInv, TypeOK, SendAck, stored, workerOnly, Msg, Holds, Work
<1>3. CountsBacked'
  BY <1>1 DEF IInv, TypeOK, CountsBacked, SendAck, stored, workerOnly,
     Msg, Holds, Work
<1>4. AttemptsLeft'
  BY SMTT(20), <1>1 DEF IInv, TypeOK, AttemptsLeft, SendAck, stored, workerOnly,
     Msg, Holds, Work
<1>5. StepsBacked'
  <2>1. worker'["loop"].at = "handling"
    BY <1>1
  <2>2. dlq' = dlq /\ handled' = handled
    BY DEF SendAck, stored
  <2>3. ASSUME NEW v \in Workers
        PROVE  /\ worker'[v].at = "unlisting" => worker'[v].msg \in dlq'
               /\ worker'[v].at = "deleting" => worker'[v].msg \in handled'
    <3>1. CASE v = "loop"
      BY <2>1, <3>1
    <3>2. CASE v # "loop"
      <4>1. worker'[v] = worker[v]
        BY <1>1, <3>2
      <4>2. QED
        BY <2>2, <4>1 DEF IInv, StepsBacked
    <3>3. QED
      BY <3>1, <3>2
  <2>4. QED
    BY <2>1, <2>3 DEF StepsBacked
<1>6. AckedNotLost'
  <2>1. Safe(worker["loop"].msg)
    BY DEF IInv, StepsBacked, SendAck, Holds
  <2>2. QED
    BY <2>1 DEF IInv, AckedNotLost, SendAck, Safe, stored, Msg
<1>7. BuriedDeservedly'
  BY <1>1 DEF IInv, TypeOK, BuriedDeservedly, SendAck, stored, workerOnly,
     Msg, Holds, Work
<1>8. QED
  BY <1>2, <1>3, <1>4, <1>5, <1>6, <1>7 DEF IInv

(* An acknowledgement that fails leaves the entry.                         *)
LEMMA AckFailsKeeps ==
  ASSUME IInv, AckFails
  PROVE  IInv'
<1>a. worker' = Goes("loop", "ended") /\ "ended" \in Places
  BY DEF AckFails, Places
<1>b. worker["loop"] \in Work /\ worker["loop"].msg \in Messages
  BY DEF IInv, TypeOK, Work
<1>1. /\ worker' \in [Workers -> Work]
      /\ worker'["loop"] = [at |-> "ended", msg |-> worker["loop"].msg,
                        attempt |-> worker["loop"].attempt]
      /\ \A v \in Workers \ {"loop"} : worker'[v] = worker[v]
  BY <1>a, GoesThere DEF IInv
<1>2. TypeOK'
  BY <1>1 DEF IInv, TypeOK, AckFails, stored, history, workerOnly
<1>3. CountsBacked'
  BY DEF IInv, TypeOK, CountsBacked, AckFails, Holds, Goes, Safe, stored,
     history, workerOnly
<1>4. AttemptsLeft'
  BY <1>1 DEF IInv, TypeOK, AttemptsLeft, AckFails, stored, history,
     workerOnly
<1>5. StepsBacked'
  BY DEF IInv, TypeOK, StepsBacked, AckFails, Holds, Goes, Safe, stored,
     history, workerOnly
<1>6. AckedNotLost'
  BY <1>1 DEF IInv, TypeOK, AckedNotLost, AckFails, stored, history,
     workerOnly
<1>7. BuriedDeservedly'
  BY <1>1 DEF IInv, TypeOK, BuriedDeservedly, AckFails, stored, history,
     workerOnly
<1>8. QED
  BY <1>2, <1>3, <1>4, <1>5, <1>6, <1>7 DEF IInv

(* A recovered entry has an attempt left.                                  *)
LEMMA RecoverNextKeeps ==
  ASSUME IInv, RecoverNext
  PROVE  IInv'
<1>1. PICK m \in Messages :
        /\ recovery[m] # Absent
        /\ recovery' = [recovery EXCEPT ![m] = Absent]
        /\ worker' = [worker EXCEPT !["recovery"] =
             [at |-> "handling", msg |-> m, attempt |-> recovery[m]]]
  BY DEF RecoverNext
<1> DEFINE job == [at |-> "handling", msg |-> m, attempt |-> recovery[m]]
<1>a. job \in Work /\ recovery[m] \in Attempts /\ recovery[m] <= failures[m]
  BY SMTT(20), <1>1 DEF IInv, TypeOK, CountsBacked, Work, Places
<1>b. /\ worker' \in [Workers -> Work] /\ worker'["recovery"] = job
      /\ worker'["loop"] = worker["loop"]
  BY <1>1, <1>a, WorksThere DEF IInv
<1>2. TypeOK'
  BY <1>1, <1>a, <1>b DEF IInv, TypeOK, RecoverNext, stored, history
<1>3. CountsBacked'
  BY <1>1, <1>a, <1>b DEF IInv, TypeOK, CountsBacked, RecoverNext, stored,
     history
<1>4. AttemptsLeft'
  BY <1>1, <1>a, <1>b DEF IInv, TypeOK, AttemptsLeft, RecoverNext, stored,
     history
<1>5. StepsBacked'
  BY <1>1, <1>a, <1>b DEF IInv, TypeOK, StepsBacked, RecoverNext, Safe,
     stored, history
<1>6. AckedNotLost'
  BY <1>1, <1>a, <1>b DEF IInv, TypeOK, AckedNotLost, RecoverNext, stored,
     history
<1>7. BuriedDeservedly'
  BY <1>1, <1>a, <1>b DEF IInv, TypeOK, BuriedDeservedly, RecoverNext,
     stored, history
<1>8. QED
  BY <1>2, <1>3, <1>4, <1>5, <1>6, <1>7 DEF IInv

(* A handler that returns makes its message safe.                          *)
LEMMA HandlerReturnsKeeps ==
  ASSUME IInv, NEW w \in Workers, HandlerReturns(w)
  PROVE  IInv'
<1>a. worker' = Goes(w, "deleting") /\ "deleting" \in Places
  BY DEF HandlerReturns, Places
<1>b. worker[w] \in Work /\ worker[w].msg \in Messages
  BY DEF IInv, TypeOK, Work
<1>1. /\ worker' \in [Workers -> Work]
      /\ worker'[w] = [at |-> "deleting", msg |-> worker[w].msg,
                        attempt |-> worker[w].attempt]
      /\ \A v \in Workers \ {w} : worker'[v] = worker[v]
  BY <1>a, GoesThere DEF IInv
<1>2. TypeOK'
  BY <1>1 DEF IInv, TypeOK, HandlerReturns, stored, workerOnly, Msg,
     Holds, Work
<1>3. CountsBacked'
  BY DEF IInv, TypeOK, CountsBacked, HandlerReturns, Holds, Goes, Msg,
     Safe, stored, workerOnly
<1>4. AttemptsLeft'
  BY DEF IInv, TypeOK, AttemptsLeft, HandlerReturns, Holds, Goes, Msg,
     Safe, stored, workerOnly
<1>5. StepsBacked'
  BY DEF IInv, TypeOK, StepsBacked, HandlerReturns, Holds, Goes, Msg,
     Safe, stored, workerOnly
<1>6. AckedNotLost'
  BY <1>1 DEF IInv, TypeOK, AckedNotLost, HandlerReturns, stored,
     workerOnly, Msg, Holds, Work
<1>7. BuriedDeservedly'
  BY <1>1 DEF IInv, TypeOK, BuriedDeservedly, HandlerReturns, stored,
     workerOnly, Msg, Holds, Work
<1>8. QED
  BY <1>2, <1>3, <1>4, <1>5, <1>6, <1>7 DEF IInv

(* A failure is counted by the worker and by the handler alike.            *)
LEMMA HandlerFailsKeeps ==
  ASSUME IInv, NEW w \in Workers, HandlerFails(w)
  PROVE  IInv'
<1> DEFINE m == worker[w].msg
           k == worker[w].attempt + 1
           job == [at |-> IF k >= MaxAttempts THEN "burying" ELSE "noting",
                   msg |-> m, attempt |-> k]
<1>1. /\ m \in Messages /\ worker[w].attempt \in Attempts
      /\ worker[w].attempt <= failures[m] /\ failures[m] \in 0 .. MaxAttempts
  BY DEF IInv, TypeOK, CountsBacked, AttemptsLeft, Work, HandlerFails,
     Holds
<1>a. job \in Work
  BY <1>1 DEF Work, Places
<1>b. worker' = [worker EXCEPT ![w] = job]
  BY DEF HandlerFails, IsFinalAttempt, Msg
<1>c. /\ worker' \in [Workers -> Work] /\ worker'[w] = job
      /\ \A v \in Workers \ {w} : worker'[v] = worker[v]
  BY <1>a, <1>b, WorksThere DEF IInv
<1>d. /\ failures' \in [Messages -> 0 .. MaxAttempts]
      /\ k <= failures'[m] /\ failures[m] <= failures'[m]
      /\ \A n \in Messages \ {m} : failures'[n] = failures[n]
  <2> DEFINE f == IF failures[m] < MaxAttempts THEN failures[m] + 1
                  ELSE failures[m]
  <2>1. failures \in [Messages -> 0 .. MaxAttempts]
    BY DEF IInv, TypeOK
  <2>2. failures' = [failures EXCEPT ![m] = f]
    BY <1>1, <2>1 DEF HandlerFails, Msg
  <2>3. f \in 0 .. MaxAttempts /\ failures[m] <= f /\ k <= f
    BY <1>1
  <2> HIDE DEF f, k
  <2>4. QED
    BY <1>1, <2>1, <2>2, <2>3
<1>2. TypeOK'
  BY <1>1, <1>c, <1>d DEF IInv, TypeOK, HandlerFails, stored, workerOnly,
     Work, Msg
<1>3. CountsBacked'
  <2>1. ASSUME NEW n \in Messages PROVE failures[n] <= failures'[n]
    <3>1. CASE n = m
      BY <1>d, <3>1
    <3>2. CASE n # m
      <4>1. failures'[n] = failures[n] /\ failures[n] \in Nat
        BY <1>d, <3>2 DEF IInv, TypeOK
      <4>2. QED
        BY <4>1
    <3>3. QED
      BY <3>1, <3>2
  <2>2. UNCHANGED <<inbox, cache, recovery>>
    BY DEF HandlerFails, stored, workerOnly
  <2>3. ASSUME NEW n \in Messages
        PROVE  /\ inbox'[n] <= failures'[n] /\ cache'[n] <= failures'[n]
               /\ recovery'[n] <= failures'[n]
    <3>1. /\ inbox[n] <= failures[n] /\ cache[n] <= failures[n]
          /\ recovery[n] <= failures[n]
      BY DEF IInv, CountsBacked
    <3>2. /\ inbox[n] \in Int /\ cache[n] \in Int /\ recovery[n] \in Int
          /\ failures[n] \in Int /\ failures'[n] \in Int
      BY <1>d DEF IInv, TypeOK
    <3>3. QED
      BY <2>1, <2>2, <3>1, <3>2
  <2>4. ASSUME NEW v \in Workers
        PROVE  worker'[v].attempt <= failures'[worker'[v].msg]
    <3>1. CASE v = w
      BY <1>c, <1>d, <3>1
    <3>2. CASE v # w
      <4>1. worker'[v] = worker[v] /\ worker[v] \in Work
        BY <1>c, <3>2 DEF IInv, TypeOK
      <4>2. /\ worker[v].attempt <= failures[worker[v].msg]
            /\ failures[worker[v].msg] <= failures'[worker[v].msg]
        BY <2>1, <4>1 DEF IInv, CountsBacked, Work
      <4>3. QED
        BY SMTT(20), <1>d, <4>1, <4>2 DEF IInv, TypeOK, Work
    <3>3. QED
      BY <3>1, <3>2
  <2>5. QED
    BY <2>3, <2>4 DEF CountsBacked
<1>4. AttemptsLeft'
  BY <1>1, <1>c DEF IInv, AttemptsLeft
<1>5. StepsBacked'
  BY <1>1, <1>c, <1>d DEF IInv, TypeOK, StepsBacked, HandlerFails, Safe,
     stored, workerOnly, Work, Msg
<1>6. AckedNotLost'
  BY <1>1, <1>c, <1>d DEF IInv, TypeOK, AckedNotLost, HandlerFails,
     stored, workerOnly, Work, Msg
<1>7. BuriedDeservedly'
  BY <1>1, <1>c, <1>d DEF IInv, TypeOK, BuriedDeservedly, HandlerFails,
     stored, workerOnly, Work, Msg
<1>8. QED
  BY <1>2, <1>3, <1>4, <1>5, <1>6, <1>7 DEF IInv

(* Noting a failure stores the entry again.                                *)
LEMMA NoteFailureKeeps ==
  ASSUME IInv, NEW w \in Workers, NoteFailure(w)
  PROVE  IInv'
<1>a. worker' = Goes(w, "handling") /\ "handling" \in Places
  BY DEF NoteFailure, Places
<1>b. worker[w] \in Work /\ worker[w].msg \in Messages
  BY DEF IInv, TypeOK, Work
<1>1. /\ worker' \in [Workers -> Work]
      /\ worker'[w] = [at |-> "handling", msg |-> worker[w].msg,
                        attempt |-> worker[w].attempt]
      /\ \A v \in Workers \ {w} : worker'[v] = worker[v]
  BY <1>a, GoesThere DEF IInv
<1>c. worker[w].attempt \in Attempts
  BY DEF IInv, AttemptsLeft, NoteFailure, Holds
<1>d. inbox' = [inbox EXCEPT ![worker[w].msg] = worker[w].attempt]
      /\ UNCHANGED <<dlq, acked, handled>>
  BY DEF NoteFailure, Put, Msg, history
<1>e. \A n \in Messages : Safe(n) => Safe(n)'
  BY <1>b, <1>c, <1>d DEF IInv, TypeOK, Safe
<1>2. TypeOK'
  BY <1>1, <1>b, <1>c DEF IInv, TypeOK, NoteFailure, history, workerOnly,
     Put, Msg, Holds, Work
<1>3. CountsBacked'
  BY DEF IInv, TypeOK, CountsBacked, NoteFailure, Holds, Goes, Put, Msg,
     Safe, history, workerOnly
<1>4. AttemptsLeft'
  BY DEF IInv, TypeOK, AttemptsLeft, NoteFailure, Holds, Goes, Put, Msg,
     Safe, history, workerOnly
<1>5. StepsBacked'
  <2>1. worker'["loop"].at = "acking" =>
          Safe(worker["loop"].msg) /\ worker'["loop"] = worker["loop"]
    BY <1>1 DEF IInv, StepsBacked
  <2>2. worker["loop"].msg \in Messages
    BY DEF IInv, TypeOK, Work
  <2>3. worker'["loop"].at = "acking" => Safe(worker["loop"].msg)'
    BY <1>d, <1>e, <2>1, <2>2 DEF Safe
  <2>4. ASSUME NEW v \in Workers
        PROVE  /\ worker'[v].at = "unlisting" => worker'[v].msg \in dlq'
               /\ worker'[v].at = "deleting" => worker'[v].msg \in handled'
    BY <1>1, <1>d DEF IInv, StepsBacked
  <2>5. QED
    BY <2>3, <2>4 DEF StepsBacked
<1>6. AckedNotLost'
  BY <1>d, <1>e DEF IInv, TypeOK, AckedNotLost, Safe
<1>7. BuriedDeservedly'
  BY <1>1, <1>b, <1>c DEF IInv, TypeOK, BuriedDeservedly, NoteFailure,
     history, workerOnly, Put, Msg, Holds, Work
<1>8. QED
  BY <1>2, <1>3, <1>4, <1>5, <1>6, <1>7 DEF IInv

(* Who buries a message has used up its attempts.                          *)
LEMMA BuryKeeps ==
  ASSUME IInv, NEW w \in Workers, Bury(w)
  PROVE  IInv'
<1>a. worker' = Goes(w, "unlisting") /\ "unlisting" \in Places
  BY DEF Bury, Places
<1>b. worker[w] \in Work /\ worker[w].msg \in Messages
  BY DEF IInv, TypeOK, Work
<1>1. /\ worker' \in [Workers -> Work]
      /\ worker'[w] = [at |-> "unlisting", msg |-> worker[w].msg,
                        attempt |-> worker[w].attempt]
      /\ \A v \in Workers \ {w} : worker'[v] = worker[v]
  BY <1>a, GoesThere DEF IInv
<1>c. failures[worker[w].msg] = MaxAttempts
  BY <1>b DEF IInv, TypeOK, AttemptsLeft, CountsBacked, Bury, Holds
<1>2. TypeOK'
  BY <1>1, <1>b, <1>c DEF IInv, TypeOK, Bury, history, workerOnly, Msg,
     Holds, Work
<1>3. CountsBacked'
  BY DEF IInv, TypeOK, CountsBacked, Bury, Holds, Goes, Msg, Safe,
     history, workerOnly
<1>4. AttemptsLeft'
  BY DEF IInv, TypeOK, AttemptsLeft, Bury, Holds, Goes, Msg, Safe,
     history, workerOnly
<1>5. StepsBacked'
  BY DEF IInv, TypeOK, StepsBacked, Bury, Holds, Goes, Msg, Safe, history,
     workerOnly
<1>6. AckedNotLost'
  BY <1>1, <1>b, <1>c DEF IInv, TypeOK, AckedNotLost, Bury, history,
     workerOnly, Msg, Holds, Work
<1>7. BuriedDeservedly'
  BY <1>1, <1>b, <1>c DEF IInv, TypeOK, BuriedDeservedly, Bury, history,
     workerOnly, Msg, Holds, Work
<1>8. QED
  BY <1>2, <1>3, <1>4, <1>5, <1>6, <1>7 DEF IInv

(* An entry goes after its message has become a dead letter.               *)
LEMMA UnlistKeeps ==
  ASSUME IInv, NEW w \in Workers, Unlist(w)
  PROVE  IInv'
<1>a. worker' = Goes(w, AfterError(w)) /\ AfterError(w) \in Places
  BY DEF Unlist, Places, AfterError
<1>b. worker[w] \in Work /\ worker[w].msg \in Messages
  BY DEF IInv, TypeOK, Work
<1>1. /\ worker' \in [Workers -> Work]
      /\ worker'[w] = [at |-> AfterError(w), msg |-> worker[w].msg,
                        attempt |-> worker[w].attempt]
      /\ \A v \in Workers \ {w} : worker'[v] = worker[v]
  BY <1>a, GoesThere DEF IInv
<1>c. worker[w].msg \in dlq
  BY DEF IInv, StepsBacked, Unlist, Holds
<1>2. TypeOK'
  BY <1>1, <1>b, <1>c DEF IInv, TypeOK, Unlist, history, workerOnly, Put,
     Msg, Holds, Work, AfterError
<1>3. CountsBacked'
  BY DEF IInv, TypeOK, CountsBacked, Unlist, Holds, Goes, Put, Msg, Safe,
     history, workerOnly, AfterError
<1>4. AttemptsLeft'
  BY DEF IInv, TypeOK, AttemptsLeft, Unlist, Holds, Goes, Put, Msg, Safe,
     history, workerOnly, AfterError
<1>5. StepsBacked'
  BY DEF IInv, TypeOK, StepsBacked, Unlist, Holds, Goes, Put, Msg, Safe,
     history, workerOnly, AfterError
<1>6. AckedNotLost'
  BY <1>1, <1>b, <1>c DEF IInv, TypeOK, AckedNotLost, Unlist, history,
     workerOnly, Put, Msg, Holds, Work, AfterError
<1>7. BuriedDeservedly'
  BY <1>1, <1>b, <1>c DEF IInv, TypeOK, BuriedDeservedly, Unlist, history,
     workerOnly, Put, Msg, Holds, Work, AfterError
<1>8. QED
  BY <1>2, <1>3, <1>4, <1>5, <1>6, <1>7 DEF IInv

(* An entry goes after its message has been handled.                       *)
LEMMA DeleteHandledKeeps ==
  ASSUME IInv, NEW w \in Workers, DeleteHandled(w)
  PROVE  IInv'
<1>1. worker[w].msg \in Messages /\ worker[w].msg \in handled
  BY DEF IInv, TypeOK, StepsBacked, DeleteHandled, Holds, Work
<1>a. PICK at \in {"polling", "ended", "off"} : worker' = Goes(w, at)
  BY DEF DeleteHandled
<1>b. /\ worker' \in [Workers -> Work]
      /\ worker'[w] = [at |-> at, msg |-> worker[w].msg,
                       attempt |-> worker[w].attempt]
      /\ \A v \in Workers \ {w} : worker'[v] = worker[v]
  <2>1. TypeOK /\ at \in Places
    BY DEF IInv, Places
  <2>2. QED
    BY <1>a, <2>1, GoesThere
<1>c. inbox' = [inbox EXCEPT ![worker[w].msg] = Absent]
      /\ UNCHANGED <<dlq, cache, recovery, handled, failures>>
  BY DEF DeleteHandled, Put, Msg, workerOnly, history
<1>2. TypeOK'
  BY <1>1, <1>b DEF IInv, TypeOK, DeleteHandled, history, workerOnly, Put,
     Msg, Holds, Work
<1>3. CountsBacked'
  <2>1. ASSUME NEW n \in Messages PROVE inbox'[n] <= failures[n]
    BY <1>1, <1>c DEF IInv, TypeOK, CountsBacked
  <2>2. ASSUME NEW v \in Workers
        PROVE  worker'[v].attempt <= failures[worker'[v].msg]
    BY <1>b DEF IInv, CountsBacked
  <2>3. QED
    BY <1>c, <2>1, <2>2 DEF IInv, CountsBacked
<1>4. AttemptsLeft'
  BY <1>b DEF IInv, AttemptsLeft
<1>5. StepsBacked'
  <2>1. ASSUME worker'["loop"].at = "acking" PROVE Safe(worker["loop"].msg)'
    <3>1. w # "loop" /\ worker'["loop"] = worker["loop"]
      BY <1>b, <2>1
    <3>2. Safe(worker["loop"].msg) /\ worker["loop"].msg \in Messages
      BY <2>1, <3>1 DEF IInv, StepsBacked, TypeOK, Work
    <3>3. CASE worker["loop"].msg = worker[w].msg
      BY <1>1, <1>c, <3>1, <3>3 DEF Safe
    <3>4. CASE worker["loop"].msg # worker[w].msg
      BY <1>1, <1>c, <3>1, <3>2, <3>4 DEF Safe, IInv, TypeOK
    <3>5. QED
      BY <3>3, <3>4
  <2>2. ASSUME NEW v \in Workers
        PROVE  /\ worker'[v].at = "unlisting" => worker'[v].msg \in dlq'
               /\ worker'[v].at = "deleting" => worker'[v].msg \in handled'
    BY <1>b, <1>c DEF IInv, StepsBacked
  <2>3. QED
    BY <2>1, <2>2 DEF StepsBacked
<1>6. AckedNotLost'
  BY <1>1, <1>b DEF IInv, TypeOK, AckedNotLost, DeleteHandled, history,
     workerOnly, Put, Msg, Holds, Work
<1>7. BuriedDeservedly'
  BY <1>1, <1>b DEF IInv, TypeOK, BuriedDeservedly, DeleteHandled,
     history, workerOnly, Put, Msg, Holds, Work
<1>8. QED
  BY <1>2, <1>3, <1>4, <1>5, <1>6, <1>7 DEF IInv

(* Every step keeps the invariant.                                        *)
THEOREM IInvKept == IInv /\ [Next]_vars => IInv'
<1> SUFFICES ASSUME IInv, [Next]_vars PROVE IInv'
  OBVIOUS
<1>1. CASE StartLists
  BY <1>1, StartListsKeeps
<1>2. CASE Listen
  BY <1>2, ListenKeeps
<1>3. CASE Crash
  BY <1>3, CrashKeeps
<1>4. CASE Restart
  BY <1>4, RestartKeeps
<1>5. CASE LoopStep
  BY <1>5, PollKeeps, LookUpKeeps, SaveReceivedKeeps, SendAckKeeps,
     AckFailsKeeps DEF LoopStep
<1>6. CASE RecoverNext
  BY <1>6, RecoverNextKeeps
<1>7. ASSUME NEW m \in Messages, Send(m) PROVE IInv'
  BY <1>7, SendKeeps
<1>8. ASSUME NEW w \in Workers, HandleStep(w) PROVE IInv'
  BY <1>8, HandlerReturnsKeeps, HandlerFailsKeeps, NoteFailureKeeps,
     BuryKeeps, UnlistKeeps, DeleteHandledKeeps DEF HandleStep
<1>9. CASE UNCHANGED vars
  BY <1>9 DEF vars, stored, history, IInv, TypeOK, CountsBacked,
     AttemptsLeft, StepsBacked, Safe, AckedNotLost, BuriedDeservedly
<1>10. QED
  BY <1>1, <1>2, <1>3, <1>4, <1>5, <1>6, <1>7, <1>8, <1>9 DEF Next
-----------------------------------------------------------------------------
(* The strengthened invariant holds in every state that the receiving side *)
(* reaches, whatever crashes and however the two workers interleave.       *)
THEOREM Inductive == Spec => []IInv
<1>1. Init => IInv
  BY InitKeeps
<1>2. IInv /\ [Next]_vars => IInv'
  BY IInvKept
<1>3. QED
  BY <1>1, <1>2, PTL DEF Spec

(* Every counter, copy and worker of the receiving side has its type: no   *)
(* attempt is counted beyond those that the retry policy allows.           *)
THEOREM TypeCorrect == Spec => []TypeOK
<1>1. IInv => TypeOK
  BY DEF IInv
<1>2. QED
  BY <1>1, Inductive, PTL

(* sendAck() after onEnvelopeDelivered(): what was acknowledged is handled,*)
(* in the inbox or a dead letter, for any number of copies and crashes.    *)
THEOREM AckIsKept == Spec => []AckedNotLost
<1>1. IInv => AckedNotLost
  BY DEF IInv
<1>2. QED
  BY <1>1, Inductive, PTL

(* onEnvelopeHandleFailed(): a message becomes a dead letter only after    *)
(* its handler has failed as often as the policy allows.                   *)
THEOREM BurialIsDeserved == Spec => []BuriedDeservedly
<1>1. IInv => BuriedDeservedly
  BY DEF IInv
<1>2. QED
  BY <1>1, Inductive, PTL
-----------------------------------------------------------------------------
(* What invoke() has not yet tracked.                                      *)
Before(c) == caller[c].at \in {"idle", "listening", "bound"}

Blank == [queue |-> <<>>, waits |-> FALSE, completed |-> FALSE]

(* The replies a service gives: items and an end to streams only, a result *)
(* to single calls only.                                                   *)
Fit == {m \in Replies : /\ m.kind \in {"item", "end"} => m.call \in Streams
                        /\ m.kind = "result" => m.call \in Singles
                        /\ m.kind = "item" => m.item \in Yields}

(* A call that is not tracked has left no trace.                           *)
Untouched(c) ==
  /\ c \notin pending /\ promise[c] = "open" /\ stream[c] = Blank
  /\ got[c] = <<>> /\ verdict[c] = "open" /\ replyTo[c] = NoPath
  /\ service.call # c /\ \A i \in 1 .. Len(requests) : requests[i] # c

(* A queue that the end of the stream has been put into.                   *)
Closing(q) ==
  /\ q # <<>> /\ q[Len(q)] \notin Yields
  /\ \A i \in 1 .. Len(q) - 1 : q[i] \in Yields

(* What a call is while it is open, and what its iterator is afterwards.   *)
EntryOK(c) ==
  /\ Before(c) => Untouched(c)
  /\ At(c, "listening") => caller[c].path \in Paths
  /\ c \in Singles => stream[c] = Blank
  /\ c \in Streams => promise[c] = "open"
  /\ c \in pending => verdict[c] = "open" /\ stream[c].queue \in Seq(Yields)
  /\ stream[c].completed => verdict[c] # "open" \/ Closing(stream[c].queue)

Entries ==
  /\ replies \in [Paths -> Seq(Fit)]
  /\ \A c \in Calls : EntryOK(c)

(* Replies are where their call asks for them.                             *)
Placed ==
  \A p \in Paths : \A i \in 1 .. Len(replies[p]) :
    replyTo[replies[p][i].call] = p

(* Every item of a run of the handler follows the ones before it.          *)
Tight(s) ==
  \A i \in 1 .. Len(s) :
    /\ s[i] <= i
    /\ \A j \in 0 .. s[i] - 1 : s[i - j] = s[i] - j

Complete(s) ==
  /\ Len(s) >= Items
  /\ SubSeq(s, Len(s) - Items + 1, Len(s)) = [i \in 1 .. Items |-> i]

Arrived(c) == got[c] \o stream[c].queue

IsData(m, c) == m.call = c /\ m.kind \in {"item", "end", "error"}

NoData(c, q, i, j) == \A l \in i .. j : ~IsData(q[l], c)

(* What of the stream c comes last before place i of the channel q is item *)
(* k; there may be nothing of it, when "otherwise" holds.                  *)
Follows(c, q, i, k, otherwise) ==
  \/ \E j \in 1 .. i - 1 : /\ q[j].call = c /\ q[j].kind = "item"
                           /\ q[j].item = k /\ NoData(c, q, j + 1, i - 1)
  \/ NoData(c, q, 1, i - 1) /\ otherwise

(* Item k is the last that has arrived, of a stream that is still open.    *)
EndsWith(open, a, k) == open => a # <<>> /\ a[Len(a)] = k

(* The channel q goes on where the items a that have arrived end, each run *)
(* of the handler in order; the run under way has sent n.                  *)
InTurn(c, q, n, open, a) ==
  /\ \A i \in 1 .. Len(q) :
       /\ q[i].call = c /\ q[i].kind = "item" /\ q[i].item > 1
            => Follows(c, q, i, q[i].item - 1,
                       EndsWith(open, a, q[i].item - 1))
       /\ q[i].call = c /\ q[i].kind = "end" /\ Items > 0
            => Follows(c, q, i, Items, EndsWith(open, a, Items))
  /\ n > 0 => Follows(c, q, Len(q) + 1, n, EndsWith(open, a, n))

Sent(c) == IF service.call = c THEN service.sent ELSE 0

Coming(c) ==
  replyTo[c] # NoPath
    => InTurn(c, replies[replyTo[c]], Sent(c), c \in pending, Arrived(c))

Come(c) ==
  /\ c \in pending => Tight(Arrived(c))
  /\ stream[c].completed /\ verdict[c] = "open"
       /\ stream[c].queue[Len(stream[c].queue)] = End
       => Complete(SubSeq(Arrived(c), 1, Len(Arrived(c)) - 1))
  /\ verdict[c] = "end" => Complete(got[c])

(* The binding of the reply listener.                                      *)
Listens ==
  /\ listener.bound /\ ~(\E c \in Calls : At(c, "listening"))
       => listener.reply = listener.at /\ listener.at \in loops
  /\ listener.bound /\ listener.at = path
       => listener.reply = path /\ path \in loops
  /\ \A c \in Calls :
       /\ At(c, "listening")
            => caller[c].path = path /\ listener.reply = path /\ path \in loops
       /\ At(c, "bound") /\ c \in fresh
            => listener.reply = path /\ path \in loops
       /\ c \in pending \cap fresh => replyTo[c] = path /\ path \in loops

Heard == life = "up" /\ ~raced => Listens

RInv ==
  /\ OpenIsPending /\ Entries /\ Placed
  /\ \A c \in Streams \ hit : Coming(c) /\ Come(c)
  /\ Heard

(* Sequences: what Append and Tail do, in the form the proofs below need.  *)
LEMMA TailFacts ==
  ASSUME NEW S, NEW q \in Seq(S), q # <<>>
  PROVE  /\ Head(q) = q[1] /\ Head(q) \in S /\ Tail(q) \in Seq(S)
         /\ Len(q) \in Nat \ {0} /\ Len(Tail(q)) = Len(q) - 1
         /\ \A i \in 1 .. Len(q) - 1 : Tail(q)[i] = q[i + 1]
BY HeadTailProperties, EmptySeq

LEMMA AppendFacts ==
  ASSUME NEW S, NEW q \in Seq(S), NEW x \in S
  PROVE  /\ Append(q, x) \in Seq(S) /\ Append(q, x) # <<>>
         /\ Len(q) \in Nat /\ Len(Append(q, x)) = Len(q) + 1
         /\ Append(q, x)[Len(q) + 1] = x
         /\ \A i \in 1 .. Len(q) : Append(q, x)[i] = q[i]
BY AppendProperties

LEMMA MoveHead ==
  ASSUME NEW S, NEW w \in Seq(S), NEW q \in Seq(S), q # <<>>
  PROVE  Append(w, Head(q)) \o Tail(q) = w \o q
<1> DEFINE h == <<Head(q)>>
<1>1. /\ Head(q) \in S /\ Tail(q) \in Seq(S) /\ Len(Tail(q)) = Len(q) - 1
  BY HeadTailProperties
<1>2. h \in Seq(S) /\ Append(w, Head(q)) \in Seq(S)
  BY <1>1, AppendProperties
<1>3. Append(w, Head(q)) = w \o h
  BY <1>1, AppendIsConcat
<1>4. h \o Tail(q) = q
  <2>1. h \o Tail(q) \in Seq(S) /\ Len(h \o Tail(q)) = Len(q)
    BY <1>1, <1>2, ConcatProperties
  <2>2. ASSUME NEW i \in 1 .. Len(q) PROVE (h \o Tail(q))[i] = q[i]
    BY <1>1, <1>2, ConcatProperties
  <2>3. QED
    BY <2>1, <2>2
<1>5. (w \o h) \o Tail(q) = w \o (h \o Tail(q))
  BY <1>1, <1>2, ConcatAssociative
<1>6. QED
  BY <1>3, <1>4, <1>5

LEMMA AppendRight ==
  ASSUME NEW S, NEW w \in Seq(S), NEW q \in Seq(S), NEW x \in S
  PROVE  w \o Append(q, x) = Append(w \o q, x)
<1>1. Append(q, x) = q \o <<x>> /\ <<x>> \in Seq(S)
  BY AppendIsConcat
<1>2. w \o q \in Seq(S)
  BY ConcatProperties
<1>3. Append(w \o q, x) = (w \o q) \o <<x>>
  BY <1>2, AppendIsConcat
<1>4. (w \o q) \o <<x>> = w \o (q \o <<x>>)
  BY <1>1, ConcatAssociative
<1>5. QED
  BY <1>1, <1>3, <1>4

LEMMA FrontOfAppend ==
  ASSUME NEW S, NEW s \in Seq(S), NEW x \in S
  PROVE  SubSeq(Append(s, x), 1, Len(Append(s, x)) - 1) = s
<1>1. /\ Append(s, x) \in Seq(S) /\ Len(s) \in Nat
      /\ Len(Append(s, x)) = Len(s) + 1
      /\ \A i \in 1 .. Len(s) : Append(s, x)[i] = s[i]
  BY AppendFacts
<1> DEFINE t == SubSeq(Append(s, x), 1, Len(s))
<1>2. t \in Seq(S) /\ Len(t) = Len(s) /\ \A i \in 1 .. Len(s) : t[i] = s[i]
  BY <1>1, SubSeqProperties
<1>3. t = s
  BY <1>2, SeqEqual
<1>4. QED
  BY <1>1, <1>3

(* A run of a handler: one more item keeps it tight, and when the last has *)
(* come all of them have.                                                  *)
LEMMA TightAppend ==
  ASSUME NEW s \in Seq(Yields), Tight(s), NEW k \in Yields,
         k > 1 => s # <<>> /\ s[Len(s)] = k - 1
  PROVE  Tight(Append(s, k))
<1> DEFINE t == Append(s, k)
           n == Len(s)
<1>1. /\ t \in Seq(Yields) /\ n \in Nat /\ Len(t) = n + 1 /\ t[n + 1] = k
      /\ \A i \in 1 .. n : t[i] = s[i]
  BY AppendFacts
<1>2. \A i \in 1 .. n : s[i] \in Yields
  OBVIOUS
<1>3. k \in Int /\ k >= 1 /\ \A i \in 1 .. n : s[i] \in Int /\ s[i] >= 1
  BY <1>2, FaultAssumption DEF Yields
<1>4. k > 1 => n > 0
  BY EmptySeq
<1> HIDE DEF t, n
<1>5. ASSUME NEW i \in 1 .. n
      PROVE  t[i] <= i /\ \A j \in 0 .. t[i] - 1 : t[i - j] = t[i] - j
  <2>1. s[i] <= i /\ \A j \in 0 .. s[i] - 1 : s[i - j] = s[i] - j
    BY DEF n, Tight
  <2>2. ASSUME NEW j \in 0 .. s[i] - 1 PROVE i - j \in 1 .. n
    BY <1>1, <1>3, <2>1
  <2>3. QED
    BY <1>1, <2>1, <2>2
<1>6. k <= n + 1
  BY <1>1, <1>3, <1>4 DEF Tight, n
<1>7. ASSUME NEW j \in 0 .. k - 1 PROVE t[n + 1 - j] = k - j
  <2>1. CASE j = 0
    BY <1>1, <1>3, <2>1
  <2>2. CASE j > 0
    <3>1. k > 1 /\ s[n] = k - 1 /\ n \in 1 .. n /\ j - 1 \in 0 .. s[n] - 1
      BY <1>1, <1>3, <1>4, <2>2 DEF n
    <3>2. s[n - (j - 1)] = (k - 1) - (j - 1)
      BY <3>1 DEF Tight, n
    <3>3. n - (j - 1) = n + 1 - j /\ n + 1 - j \in 1 .. n
      BY <1>1, <1>3, <1>6, <2>2
    <3>4. QED
      BY <1>1, <1>3, <3>2, <3>3
  <2>3. QED
    BY <2>1, <2>2
<1>8. ASSUME NEW i \in 1 .. n + 1
      PROVE  t[i] <= i /\ \A j \in 0 .. t[i] - 1 : t[i - j] = t[i] - j
  <2>1. CASE i \in 1 .. n
    BY <2>1, <1>5
  <2>2. CASE i = n + 1
    BY <1>1, <1>6, <1>7, <2>2
  <2>3. QED
    BY <1>1, <2>1, <2>2
<1>9. QED
  BY <1>1, <1>8 DEF Tight, t

LEMMA TightComplete ==
  ASSUME NEW s \in Seq(Yields), Tight(s),
         Items > 0 => s # <<>> /\ s[Len(s)] = Items
  PROVE  Complete(s)
<1> DEFINE n == Len(s)
           t == SubSeq(s, n - Items + 1, n)
<1>1. n \in Nat /\ Items \in Nat /\ (Items > 0 => n > 0)
  BY EmptySeq, FaultAssumption
<1>2. n >= Items
  BY <1>1 DEF Tight
<1>3. /\ t \in Seq(Yields) /\ Len(t) = Items
      /\ \A i \in 1 .. Items : t[i] = s[n - Items + 1 + i - 1]
  <2>1. n - Items + 1 \in 1 .. n + 1 /\ n \in (n - Items) .. n
    BY <1>1, <1>2
  <2>2. QED
    BY <1>1, <1>2, <2>1, SubSeqProperties
<1>4. ASSUME NEW i \in 1 .. Items PROVE t[i] = i
  <2>1. n \in 1 .. Len(s) /\ Items - i \in 0 .. s[n] - 1 /\ s[n] = Items
    BY <1>1, <1>2
  <2>2. s[n - (Items - i)] = Items - (Items - i)
    BY <2>1 DEF Tight
  <2>3. n - Items + 1 + i - 1 = n - (Items - i)
    BY <1>1
  <2>4. QED
    BY <1>1, <1>3, <2>2, <2>3
<1>5. t = [i \in 1 .. Items |-> i]
  BY <1>1, <1>3, <1>4, SeqDef
<1>6. QED
  BY <1>2, <1>5 DEF Complete

(* What follows what in a channel, when a message joins it or leaves it.   *)
LEMMA FollowsAppend ==
  ASSUME NEW c, NEW q \in Seq(Fit), NEW m \in Fit, NEW i \in 1 .. Len(q) + 1,
         NEW k, NEW o, Follows(c, q, i, k, o)
  PROVE  Follows(c, Append(q, m), i, k, o)
<1>1. Len(q) \in Nat /\ \A l \in 1 .. Len(q) : Append(q, m)[l] = q[l]
  BY AppendFacts
<1>2. ASSUME NEW a \in 1 .. i, NoData(c, q, a, i - 1)
      PROVE  NoData(c, Append(q, m), a, i - 1)
  BY <1>1, <1>2 DEF NoData
<1>3. CASE NoData(c, q, 1, i - 1) /\ o
  BY <1>1, <1>2, <1>3 DEF Follows
<1>4. ASSUME NEW j \in 1 .. i - 1, q[j].call = c, q[j].kind = "item",
             q[j].item = k, NoData(c, q, j + 1, i - 1)
      PROVE  Follows(c, Append(q, m), i, k, o)
  <2>1. j \in 1 .. Len(q) /\ j + 1 \in 1 .. i
    BY <1>1
  <2>2. Append(q, m)[j] = q[j] /\ NoData(c, Append(q, m), j + 1, i - 1)
    BY <1>1, <1>2, <1>4, <2>1
  <2>3. QED
    BY <1>4, <2>2 DEF Follows
<1>5. QED
  BY <1>3, <1>4 DEF Follows

LEMMA FollowsPast ==
  ASSUME NEW c, NEW q \in Seq(Fit), NEW m \in Fit, ~IsData(m, c),
         NEW k, NEW o, Follows(c, q, Len(q) + 1, k, o)
  PROVE  Follows(c, Append(q, m), Len(q) + 2, k, o)
<1> DEFINE n == Len(q)
           t == Append(q, m)
<1>1. n \in Nat /\ t[n + 1] = m /\ \A l \in 1 .. n : t[l] = q[l]
  BY AppendFacts
<1> HIDE DEF n, t
<1>2. ASSUME NEW a \in 1 .. n + 1, NoData(c, q, a, n)
      PROVE  NoData(c, t, a, n + 1)
  <2>1. ASSUME NEW l \in a .. n + 1 PROVE ~IsData(t[l], c)
    <3>1. CASE l = n + 1
      BY <1>1, <3>1
    <3>2. CASE l \in a .. n
      BY <1>1, <1>2, <3>2 DEF NoData
    <3>3. QED
      BY <1>1, <3>1, <3>2
  <2>2. QED
    BY <1>1, <2>1 DEF NoData
<1>3. n + 1 - 1 = n /\ n + 2 - 1 = n + 1
  BY <1>1
<1>4. CASE NoData(c, q, 1, n) /\ o
  BY <1>1, <1>2, <1>3, <1>4 DEF Follows, t, n
<1>5. ASSUME NEW j \in 1 .. n, q[j].call = c, q[j].kind = "item",
             q[j].item = k, NoData(c, q, j + 1, n)
      PROVE  Follows(c, t, n + 2, k, o)
  <2>1. j + 1 \in 1 .. n + 1 /\ j \in 1 .. n + 1
    BY <1>1
  <2>2. t[j] = q[j] /\ NoData(c, t, j + 1, n + 1)
    BY <1>1, <1>2, <1>5, <2>1
  <2>3. QED
    BY <1>1, <1>3, <1>5, <2>1, <2>2 DEF Follows
<1>6. Follows(c, q, n + 1, k, o)
  BY DEF n
<1>7. \/ NoData(c, q, 1, n) /\ o
      \/ \E j \in 1 .. n : /\ q[j].call = c /\ q[j].kind = "item"
                           /\ q[j].item = k /\ NoData(c, q, j + 1, n)
  BY <1>1, <1>3, <1>6 DEF Follows
<1>8. QED
  BY <1>4, <1>5, <1>7 DEF n, t

LEMMA FollowsNew ==
  ASSUME NEW c, NEW q \in Seq(Fit), NEW m \in Fit, NEW o,
         m.call = c, m.kind = "item"
  PROVE  Follows(c, Append(q, m), Len(q) + 2, m.item, o)
<1>1. Len(q) \in Nat /\ Append(q, m)[Len(q) + 1] = m
  BY AppendFacts
<1>2. NoData(c, Append(q, m), Len(q) + 1 + 1, Len(q) + 2 - 1)
  BY <1>1 DEF NoData
<1>3. QED
  BY <1>1, <1>2 DEF Follows

LEMMA FollowsFirst ==
  ASSUME NEW c, NEW q, NEW k, NEW o, Follows(c, q, 1, k, o) PROVE o
BY DEF Follows

LEMMA FollowsTail ==
  ASSUME NEW c, NEW q \in Seq(Fit), q # <<>>, NEW i \in 2 .. Len(q) + 1,
         NEW k, NEW o, NEW p, Follows(c, q, i, k, o),
         ~IsData(Head(q), c) /\ o => p,
         Head(q).call = c /\ Head(q).kind = "item" /\ Head(q).item = k => p
  PROVE  Follows(c, Tail(q), i - 1, k, p)
<1> DEFINE t == Tail(q)
           n == Len(q)
<1>1. /\ n \in Nat \ {0} /\ Head(q) = q[1]
      /\ \A l \in 1 .. n - 1 : t[l] = q[l + 1]
  BY TailFacts
<1> HIDE DEF n, t
<1>2. ASSUME NEW a \in 2 .. i, NoData(c, q, a, i - 1)
      PROVE  NoData(c, t, a - 1, i - 1 - 1)
  <2>1. ASSUME NEW l \in a - 1 .. i - 2 PROVE ~IsData(t[l], c)
    <3>1. l \in 1 .. n - 1 /\ l + 1 \in a .. i - 1
      BY <1>1 DEF n
    <3>2. QED
      BY <1>1, <1>2, <3>1 DEF NoData
  <2>2. QED
    BY <1>1, <2>1 DEF NoData, n
<1>3. CASE NoData(c, q, 1, i - 1) /\ o
  <2>1. NoData(c, q, 2, i - 1)
    BY <1>3 DEF NoData
  <2>2. ~IsData(Head(q), c)
    BY <1>1, <1>3 DEF NoData, n
  <2>3. NoData(c, t, 1, i - 1 - 1)
    <3>1. 2 \in 2 .. i /\ 2 - 1 = 1
      OBVIOUS
    <3>2. QED
      BY <1>2, <2>1, <3>1
  <2>4. p
    BY <1>3, <2>2
  <2>5. QED
    BY <2>3, <2>4 DEF Follows, t
<1>4. ASSUME NEW j \in 1 .. i - 1, q[j].call = c, q[j].kind = "item",
             q[j].item = k, NoData(c, q, j + 1, i - 1)
      PROVE  Follows(c, t, i - 1, k, p)
  <2>1. j + 1 \in 2 .. i
    BY <1>1 DEF n
  <2>2. NoData(c, t, j, i - 1 - 1)
    BY <1>2, <1>4, <2>1
  <2>3. CASE j = 1
    <3>1. NoData(c, t, 1, i - 1 - 1)
      BY <2>2, <2>3
    <3>2. p
      BY <1>1, <1>4, <2>3
    <3>3. QED
      BY <3>1, <3>2 DEF Follows
  <2>4. CASE j > 1
    <3>1. j - 1 \in 1 .. i - 1 - 1 /\ j - 1 \in 1 .. n - 1
      BY <1>1, <2>4 DEF n
    <3>2. t[j - 1] = q[j] /\ NoData(c, t, (j - 1) + 1, i - 1 - 1)
      BY <1>1, <2>2, <3>1
    <3>3. QED
      BY <1>4, <3>1, <3>2 DEF Follows
  <2>5. QED
    BY <2>3, <2>4
<1>5. QED
  BY <1>3, <1>4 DEF Follows, t

(* The same of InTurn.                                                     *)
LEMMA FollowsWeaken ==
  ASSUME NEW c, NEW q, NEW i, NEW k, NEW o, NEW p, o => p,
         Follows(c, q, i, k, o)
  PROVE  Follows(c, q, i, k, p)
BY DEF Follows

LEMMA TurnWeaken ==
  ASSUME NEW c, NEW q, NEW n, NEW open, NEW a, InTurn(c, q, n, open, a),
         NEW m \in {0, n}, NEW still, NEW b, still => open /\ b = a
  PROVE  InTurn(c, q, m, still, b)
<1>1. ASSUME NEW k PROVE EndsWith(open, a, k) => EndsWith(still, b, k)
  BY DEF EndsWith
<1>2. ASSUME NEW i, NEW k, Follows(c, q, i, k, EndsWith(open, a, k))
      PROVE  Follows(c, q, i, k, EndsWith(still, b, k))
  BY <1>1, <1>2, FollowsWeaken
<1>3. m > 0 => n > 0 /\ m = n
  OBVIOUS
<1>4. QED
  BY <1>2, <1>3 DEF InTurn

LEMMA TurnAppend ==
  ASSUME NEW c, NEW q \in Seq(Fit), NEW n, NEW open, NEW a,
         InTurn(c, q, n, open, a), NEW m \in Fit, NEW sent,
         m.call = c /\ m.kind = "item" /\ m.item > 1
           => n = m.item - 1 /\ n > 0,
         m.call = c /\ m.kind = "end" /\ Items > 0 => n = Items,
         sent > 0 => \/ sent = n /\ ~IsData(m, c)
                     \/ m.call = c /\ m.kind = "item" /\ m.item = sent
  PROVE  InTurn(c, Append(q, m), sent, open, a)
<1> DEFINE t == Append(q, m)
           N == Len(q)
<1>1. /\ N \in Nat /\ Len(t) = N + 1 /\ t[N + 1] = m
      /\ \A i \in 1 .. N : t[i] = q[i]
  BY AppendFacts
<1>2. ASSUME NEW i \in 1 .. N + 1, NEW k,
             Follows(c, q, i, k, EndsWith(open, a, k))
      PROVE  Follows(c, t, i, k, EndsWith(open, a, k))
  BY <1>2, FollowsAppend
<1>3. n > 0 => Follows(c, t, N + 1, n, EndsWith(open, a, n))
  BY <1>1, <1>2 DEF InTurn
<1>4. sent > 0 => Follows(c, t, N + 2, sent, EndsWith(open, a, sent))
  <2>1. CASE sent > 0 /\ sent = n /\ ~IsData(m, c)
    <3>1. Follows(c, q, N + 1, n, EndsWith(open, a, n))
      BY <2>1 DEF InTurn
    <3>2. QED
      BY <2>1, <3>1, FollowsPast
  <2>2. CASE m.call = c /\ m.kind = "item" /\ m.item = sent
    BY <2>2, FollowsNew
  <2>3. QED
    BY <2>1, <2>2
<1> HIDE DEF N, t
<1>5. ASSUME NEW i \in 1 .. N + 1
      PROVE  /\ t[i].call = c /\ t[i].kind = "item" /\ t[i].item > 1
                  => Follows(c, t, i, t[i].item - 1,
                             EndsWith(open, a, t[i].item - 1))
             /\ t[i].call = c /\ t[i].kind = "end" /\ Items > 0
                  => Follows(c, t, i, Items, EndsWith(open, a, Items))
  <2>1. CASE i \in 1 .. N
    BY <1>1, <1>2, <2>1 DEF InTurn, N
  <2>2. CASE i = N + 1
    BY <1>1, <1>3, <2>2, FaultAssumption
  <2>3. QED
    BY <1>1, <2>1, <2>2
<1>6. Len(t) + 1 = N + 2
  BY <1>1
<1>7. QED
  BY <1>1, <1>4, <1>5, <1>6 DEF InTurn, t

LEMMA TurnHead ==
  ASSUME NEW c \in pending, NEW q \in Seq(Fit), q # <<>>, NEW n, NEW a,
         InTurn(c, q, n, c \in pending, a), Head(q).call = c
  PROVE  /\ Head(q).kind = "item" /\ Head(q).item > 1
              => a # <<>> /\ a[Len(a)] = Head(q).item - 1
         /\ Head(q).kind = "end" /\ Items > 0
              => a # <<>> /\ a[Len(a)] = Items
<1>1. Head(q) = q[1] /\ 1 \in 1 .. Len(q)
  BY TailFacts
<1>2. ASSUME NEW k, Follows(c, q, 1, k, EndsWith(c \in pending, a, k))
      PROVE  a # <<>> /\ a[Len(a)] = k
  BY <1>2, FollowsFirst DEF EndsWith
<1>3. QED
  BY <1>1, <1>2 DEF InTurn

LEMMA TurnTail ==
  ASSUME NEW c, NEW q \in Seq(Fit), q # <<>>, NEW n, NEW open, NEW a,
         InTurn(c, q, n, open, a), NEW still, NEW b,
         still => open /\ \/ ~IsData(Head(q), c) /\ b = a
                          \/ /\ Head(q).call = c /\ Head(q).kind = "item"
                             /\ b # <<>> /\ b[Len(b)] = Head(q).item
  PROVE  InTurn(c, Tail(q), n, still, b)
<1> DEFINE t == Tail(q)
           N == Len(q)
<1>1. /\ N \in Nat \ {0} /\ Len(t) = N - 1 /\ t \in Seq(Fit)
      /\ \A i \in 1 .. N - 1 : t[i] = q[i + 1]
  BY TailFacts
<1>2. ASSUME NEW i \in 2 .. N + 1, NEW k,
             Follows(c, q, i, k, EndsWith(open, a, k))
      PROVE  Follows(c, t, i - 1, k, EndsWith(still, b, k))
  <2>1. ~IsData(Head(q), c) /\ EndsWith(open, a, k) => EndsWith(still, b, k)
    BY DEF EndsWith, IsData
  <2>2. Head(q).call = c /\ Head(q).kind = "item" /\ Head(q).item = k
          => EndsWith(still, b, k)
    BY DEF EndsWith, IsData
  <2>3. QED
    BY <1>2, <2>1, <2>2, FollowsTail
<1> HIDE DEF N, t
<1>3. n > 0 => Follows(c, t, Len(t) + 1, n, EndsWith(still, b, n))
  <2>1. N + 1 \in 2 .. N + 1 /\ N + 1 - 1 = Len(t) + 1
    BY <1>1
  <2>2. QED
    BY <1>2, <2>1 DEF InTurn, N
<1>4. ASSUME NEW i \in 1 .. N - 1
      PROVE  /\ t[i].call = c /\ t[i].kind = "item" /\ t[i].item > 1
                  => Follows(c, t, i, t[i].item - 1,
                             EndsWith(still, b, t[i].item - 1))
             /\ t[i].call = c /\ t[i].kind = "end" /\ Items > 0
                  => Follows(c, t, i, Items, EndsWith(still, b, Items))
  <2>1. i + 1 \in 2 .. N + 1 /\ i + 1 \in 1 .. Len(q) /\ i + 1 - 1 = i
    BY <1>1 DEF N
  <2>2. t[i] = q[i + 1]
    BY <1>1
  <2>3. QED
    BY <1>2, <2>1, <2>2 DEF InTurn
<1>5. QED
  BY <1>1, <1>3, <1>4 DEF InTurn, t

LEMMA TurnBegins ==
  ASSUME NEW c, NEW q, \A i \in 1 .. Len(q) : q[i].call # c, NEW open, NEW a
  PROVE  InTurn(c, q, 0, open, a)
BY DEF InTurn

LEMMA RpcInitEstablishes == RpcInit => RInv
<1> SUFFICES ASSUME RpcInit PROVE RInv
  OBVIOUS
<1> USE PathAssumption, FaultAssumption
<1>1. path \in Paths
  BY DEF RpcInit
<1>2. /\ <<>> \in Seq(Queued) /\ <<>> \in Seq(Yields) /\ <<>> \in Seq(Replies)
      /\ <<>> \in Seq(Fit) /\ <<>> \in Seq(Calls \cup {Stop}) /\ Len(<<>>) = 0
  BY EmptySeq
<1>3. RpcTypeOK
  <2>1. stream \in [Calls -> [queue : Seq(Queued), waits : BOOLEAN,
                             completed : BOOLEAN]]
    BY <1>2 DEF RpcInit
  <2>2. 0 \in 0 .. Items /\ 0 \in 0 .. MaxFaults
    OBVIOUS
  <2>3. QED
    BY <1>1, <1>2, <2>1, <2>2 DEF RpcInit, RpcTypeOK, CallPlaces
<1>4. \A c \in Calls : Before(c) /\ ~At(c, "listening") /\ ~At(c, "bound")
  BY DEF RpcInit, Before, At
<1>5. ASSUME NEW c \in Calls
      PROVE  stream[c] = Blank /\ Untouched(c) /\ Blank.queue = <<>>
             /\ ~Blank.waits /\ ~Blank.completed
  BY <1>2, CallAssumption DEF RpcInit, Blank, Untouched
<1>6. OpenIsPending
  BY <1>3, <1>4, <1>5 DEF RpcInit, OpenIsPending, At
<1>7. Entries
  <2>1. replies \in [Paths -> Seq(Fit)]
    BY <1>2 DEF RpcInit
  <2>2. ASSUME NEW c \in Calls PROVE EntryOK(c)
    BY <1>4, <1>5 DEF EntryOK, RpcInit
  <2>3. QED
    BY <2>1, <2>2 DEF Entries
<1>8. Placed
  BY <1>2 DEF RpcInit, Placed
<1>9. ASSUME NEW c \in Streams PROVE Coming(c) /\ Come(c)
  <2>1. c \in Calls
    BY CallAssumption
  <2>2. /\ c \notin pending /\ replyTo[c] = NoPath /\ verdict[c] = "open"
        /\ ~stream[c].completed
    BY <1>5, <2>1 DEF Untouched
  <2>3. QED
    BY <2>2 DEF Coming, Come
<1>10. Heard
  BY <1>4 DEF RpcInit, Heard, Listens
<1>11. QED
  BY <1>6, <1>7, <1>8, <1>9, <1>10 DEF RInv

(* What RInv says of one call, and of the channels.                        *)
LEMMA Known ==
  ASSUME RInv
  PROVE  /\ RpcTypeOK /\ byEnvelope = pending /\ timers \subseteq pending
         /\ replies \in [Paths -> Seq(Fit)] /\ Placed /\ Heard
         /\ \A c \in Calls : EntryOK(c)
         /\ \A c \in Streams \ hit : Coming(c) /\ Come(c)
BY DEF RInv, OpenIsPending, Entries

(* A step that leaves the entries alone, and tracks no call.               *)
Unasked(c) ==
  service.call # c /\ \A i \in 1 .. Len(requests) : requests[i] # c

LEMMA EntriesKept ==
  ASSUME RInv, RpcTypeOK', UNCHANGED <<entries, reader, replyTo>>,
         \A c \in Calls : Before(c)' = Before(c),
         \A c \in Calls : At(c, "listening")' => caller'[c].path \in Paths,
         \A c \in Calls : Before(c) => Unasked(c)',
         replies' \in [Paths -> Seq(Fit)]
  PROVE  OpenIsPending' /\ Entries'
<1>1. OpenIsPending'
  <2>1. \A c \in Calls :
          (At(c, "idle") \/ At(c, "listening") \/ At(c, "bound")) = Before(c)
    BY DEF Before, At
  <2>2. \A c \in Calls :
          (At(c, "idle") \/ At(c, "listening") \/ At(c, "bound"))' = Before(c)'
    BY DEF Before, At
  <2>3. QED
    BY <2>1, <2>2 DEF RInv, OpenIsPending, entries, reader
<1>2. ASSUME NEW c \in Calls PROVE EntryOK(c)'
  <2>1. EntryOK(c)
    BY Known
  <2>2. Before(c)' => Untouched(c)'
    BY <2>1 DEF EntryOK, Untouched, Unasked, entries, reader
  <2>3. QED
    BY <2>1, <2>2 DEF EntryOK, entries, reader
<1>3. QED
  BY <1>1, <1>2 DEF Entries

LEMMA HeardKept ==
  ASSUME RInv, UNCHANGED binding, life' = "up" => life = "up",
         \A c \in Calls : \/ caller'[c] = caller[c]
                          \/ ~At(c, "listening") /\ ~At(c, "listening")'
                             /\ ~At(c, "bound")',
         \A c \in pending' \cap fresh :
           c \in pending /\ replyTo'[c] = replyTo[c]
  PROVE  Heard'
<1> SUFFICES ASSUME life' = "up", ~raced' PROVE Listens'
  BY DEF Heard
<1>1. Listens
  BY Known DEF Heard, binding
<1>2. \A c \in Calls : /\ At(c, "listening")' = At(c, "listening")
                       /\ At(c, "listening")' => caller'[c] = caller[c]
                       /\ At(c, "bound")' => At(c, "bound")
  BY DEF At
<1>3. QED
  BY <1>1, <1>2 DEF Listens, binding

(* What has come of a stream stays when only its channel changes.          *)
LEMMA ComeKept ==
  ASSUME RInv, UNCHANGED <<pending, stream, got, verdict>>, hit \subseteq hit'
  PROVE  \A c \in Streams \ hit' : Come(c)' /\ Arrived(c)' = Arrived(c)
BY Known DEF Come, Arrived

LEMMA ComingKept ==
  ASSUME RInv, UNCHANGED <<pending, stream, got, verdict, replyTo, replies>>,
         hit \subseteq hit',
         \A c \in Streams \ hit' : Sent(c)' \in {0, Sent(c)}
  PROVE  \A c \in Streams \ hit' : Coming(c)' /\ Come(c)'
<1> SUFFICES ASSUME NEW c \in Streams \ hit' PROVE Coming(c)' /\ Come(c)'
  OBVIOUS
<1>1. Come(c)' /\ Arrived(c)' = Arrived(c)
  BY ComeKept
<1>2. Coming(c)
  BY Known
<1>3. ASSUME replyTo[c] # NoPath,
             InTurn(c, replies[replyTo[c]], Sent(c), c \in pending, Arrived(c))
      PROVE  InTurn(c, replies[replyTo[c]], Sent(c)', c \in pending, Arrived(c))
  BY <1>3, TurnWeaken
<1>4. QED
  BY <1>1, <1>2, <1>3 DEF Coming

LEMMA QuietStep ==
  ASSUME RInv, RpcTypeOK', UNCHANGED <<entries, reader, replyTo, replies>>,
         \A c \in Calls : Before(c)' = Before(c),
         \A c \in Calls : At(c, "listening")' => caller'[c].path \in Paths,
         \A c \in Calls : Before(c) => Unasked(c)',
         \A c \in Streams \ hit' : Sent(c)' \in {0, Sent(c)},
         hit \subseteq hit', Heard'
  PROVE  RInv'
<1>1. OpenIsPending' /\ Entries'
  BY Known, EntriesKept
<1>2. Placed'
  BY Known DEF Placed
<1>3. \A c \in Streams \ hit' : Coming(c)' /\ Come(c)'
  BY ComingKept DEF entries, reader
<1>4. QED
  BY <1>1, <1>2, <1>3 DEF RInv

(* What a call that is not tracked leaves alone.                           *)
LEMMA UnaskedKept ==
  ASSUME RInv, UNCHANGED <<requests, service>>
  PROVE  /\ \A c \in Calls : Before(c) => Unasked(c)'
         /\ \A c \in Calls : Sent(c)' = Sent(c)
BY Known DEF EntryOK, Untouched, Unasked, Sent

Serviced ==
  [at : {"idle", "calling", "awaiting", "answering", "ended"},
   call : Calls \cup {NoCall}, sent : 0 .. Items]

LEMMA ListenReturnsPreserves ==
  ASSUME RInv, NEW c \in Calls, ListenReturns(c) PROVE RInv'
<1>1. caller[c].path \in Paths /\ RpcTypeOK
  BY Known DEF ListenReturns, EntryOK
<1>2. /\ loops' \subseteq Paths
      /\ caller' \in [Calls -> [at : CallPlaces, path : Paths \cup {NoPath}]]
      /\ listener' \in [bound : BOOLEAN, at : Paths \cup {NoPath},
                   reply : Paths \cup {NoPath}, slot : Paths \cup {NoPath}]
  BY <1>1 DEF ListenReturns, RpcTypeOK, CallPlaces
<1>3. RpcTypeOK'
  BY <1>1, <1>2 DEF ListenReturns, RpcTypeOK, entries, server, network, reader
<1>4. \A d \in Calls : /\ Before(d)' = Before(d)
                       /\ At(d, "listening")' => caller'[d].path \in Paths
  <2>1. /\ caller' = [caller EXCEPT ![c] = [at |-> "bound", path |-> NoPath]]
        /\ caller[c].at = "listening" /\ c \in DOMAIN caller
    BY <1>1 DEF ListenReturns, At, RpcTypeOK
  <2>2. caller'[c].at = "bound" /\ \A d \in Calls \ {c} : caller'[d] = caller[d]
    BY <1>1, <2>1 DEF RpcTypeOK
  <2>3. \A d \in Calls : At(d, "listening") => caller[d].path \in Paths
    BY Known DEF EntryOK
  <2>4. QED
    BY <2>1, <2>2, <2>3 DEF Before, At
<1>5. Heard'
  <2> SUFFICES ASSUME life = "up", ~raced PROVE Listens'
    BY DEF Heard, ListenReturns
  <2>1. Listens
    BY Known DEF Heard
  <2>2. caller[c].path = path /\ listener.reply = path
    BY <2>1 DEF Listens, ListenReturns
  <2>3. /\ listener'.bound /\ listener'.at = path /\ listener'.reply = path
        /\ path \in loops'
    BY <1>1, <2>2 DEF ListenReturns, RpcTypeOK
  <2>4. \A d \in Calls : At(d, "listening")'
                         => At(d, "listening") /\ caller'[d] = caller[d]
    BY <1>1 DEF ListenReturns, At, RpcTypeOK
  <2>5. QED
    BY <2>1, <2>3, <2>4 DEF Listens, ListenReturns, entries
<1>6. QED
  BY <1>3, <1>4, <1>5, UnaskedKept, QuietStep, CallAssumption
     DEF ListenReturns, server, network

LEMMA BeginPreserves ==
  ASSUME RInv, NEW c \in Calls, Begin(c) PROVE RInv'
<1>1. RpcTypeOK
  BY Known
<1>2. RpcTypeOK'
  <2>1. caller' \in [Calls -> [at : CallPlaces, path : Paths \cup {NoPath}]]
    <3>1. /\ [at |-> "bound", path |-> NoPath]
               \in [at : CallPlaces, path : Paths \cup {NoPath}]
          /\ [at |-> "listening", path |-> path]
               \in [at : CallPlaces, path : Paths \cup {NoPath}]
      BY <1>1 DEF RpcTypeOK, CallPlaces
    <3>2. caller \in [Calls -> [at : CallPlaces, path : Paths \cup {NoPath}]]
      BY <1>1 DEF RpcTypeOK
    <3>3. QED
      BY <3>1, <3>2 DEF Begin
  <2>2. /\ path \in Paths /\ loops \subseteq Paths /\ fresh \subseteq Calls
        /\ listener \in [bound : BOOLEAN, at : Paths \cup {NoPath},
                         reply : Paths \cup {NoPath},
                         slot : Paths \cup {NoPath}]
        /\ service \in Serviced
    BY <1>1 DEF RpcTypeOK, Serviced
  <2>3. \/ UNCHANGED <<listener, loops>>
        \/ /\ listener' = [listener EXCEPT !.reply = path]
           /\ loops' = loops \cup {path}
    BY DEF Begin
  <2>4. listener' \in [bound : BOOLEAN, at : Paths \cup {NoPath},
                       reply : Paths \cup {NoPath},
                       slot : Paths \cup {NoPath}]
    BY <2>2, <2>3
  <2>5. loops' \subseteq Paths
    BY <2>2, <2>3
  <2>6. fresh' \subseteq Calls
    BY <2>2 DEF Begin
  <2>7. service' \in Serviced
    <3>1. service' = service \/ service' = [service EXCEPT !.at = "awaiting"]
      BY DEF Begin
    <3>2. QED
      BY <2>2, <3>1 DEF Serviced
  <2>8. UNCHANGED <<path, raced, pending, byEnvelope, timers, promise, stream,
                    replyTo, requests, replies, faults, hit, life, got,
                    verdict>>
    BY DEF Begin, entries, network, reader
  <2>9. QED
    BY <1>1, <2>1, <2>4, <2>5, <2>6, <2>7, <2>8 DEF RpcTypeOK, Serviced
<1>3. \A d \in Calls : /\ Before(d)' = Before(d)
                       /\ At(d, "listening")' => caller'[d].path \in Paths
  <2>1. PICK place \in {"bound", "listening"} :
          caller' = [caller EXCEPT ![c] =
            [at |-> place, path |-> IF place = "bound" THEN NoPath ELSE path]]
    BY DEF Begin
  <2>2. /\ path \in Paths
        /\ caller \in [Calls -> [at : CallPlaces, path : Paths \cup {NoPath}]]
    BY <1>1 DEF RpcTypeOK
  <2>3. /\ caller'[c].at = place
        /\ place = "listening" => caller'[c].path = path
        /\ \A d \in Calls : d # c => caller'[d] = caller[d]
    BY <2>1, <2>2
  <2>4. Before(c)
    BY DEF Begin, Before, At
  <2>5. ASSUME NEW d \in Calls
        PROVE  /\ Before(d)' = Before(d)
               /\ At(d, "listening")' => caller'[d].path \in Paths
    <3>1. CASE d = c
      BY <2>2, <2>3, <2>4, <3>1 DEF Before, At
    <3>2. CASE d # c
      BY <2>3, <3>2, Known DEF Before, At, EntryOK
    <3>3. QED
      BY <3>1, <3>2
  <2>6. QED
    BY <2>5
<1>4. \A d \in Calls : /\ Before(d) => Unasked(d)'
                       /\ Sent(d)' = Sent(d)
  BY Known DEF Begin, EntryOK, Untouched, Unasked, Sent, RpcTypeOK
<1>5. Heard'
  <2> SUFFICES ASSUME life = "up", ~raced PROVE Listens'
    BY DEF Heard, Begin
  <2>1. Listens
    BY Known DEF Heard
  <2>2. c \notin pending
    BY Known DEF Begin, EntryOK, Untouched, Before, At
  <2>3. CASE ListensHere
    <3>1. UNCHANGED <<listener, loops>> /\ listener.reply = path
          /\ path \in loops
      BY <2>1, <2>3 DEF Begin, Listens, ListensHere
    <3>2. \A d \in Calls : /\ At(d, "listening")' = At(d, "listening")
                           /\ At(d, "listening") => caller'[d] = caller[d]
                           /\ At(d, "bound")' => d = c \/ At(d, "bound")
      BY <1>1, <2>3 DEF Begin, At, RpcTypeOK
    <3>3. QED
      BY <2>1, <2>2, <3>1, <3>2 DEF Listens, Begin, entries
  <2>4. CASE ~ListensHere
    <3>1. /\ listener'.reply = path /\ path \in loops' /\ loops \subseteq loops'
          /\ listener'.bound = listener.bound /\ listener'.at = listener.at
      BY <1>1, <2>4 DEF Begin, RpcTypeOK
    <3>2. ASSUME NEW d \in Calls
          PROVE  /\ At(d, "listening")'
                      => \/ d = c
                         \/ At(d, "listening") /\ caller'[d] = caller[d]
                 /\ At(d, "bound")' => At(d, "bound")
      <4>1. caller'[c] = [at |-> "listening", path |-> path]
        BY <1>1, <2>4 DEF Begin, RpcTypeOK
      <4>2. CASE d = c
        BY <4>1, <4>2 DEF At
      <4>3. d # c => caller'[d] = caller[d]
        BY <1>1, <2>4 DEF Begin, RpcTypeOK
      <4>4. QED
        BY <4>2, <4>3 DEF At
    <3>3. At(c, "listening")' /\ ~At(c, "bound")' /\ caller'[c].path = path
      <4>1. caller'[c] = [at |-> "listening", path |-> path]
        BY <1>1, <2>4 DEF Begin, RpcTypeOK
      <4>2. QED
        BY <4>1 DEF At
    <3>4. ~(listener'.bound /\ listener'.at = path)
      BY <2>4, <3>1 DEF ListensHere
    <3>5. ASSUME NEW d \in Calls
          PROVE  /\ At(d, "listening")' => caller'[d].path = path
                 /\ ~(At(d, "bound")' /\ d \in fresh') \/ listener'.reply = path
                 /\ d \in pending \cap fresh' => replyTo[d] = path
      BY <2>1, <2>2, <3>1, <3>2, <3>3 DEF Listens, Begin
    <3>6. path' = path /\ pending' = pending /\ replyTo' = replyTo
      BY DEF Begin, entries
    <3>7. (\E d \in Calls : At(d, "listening"))'
      BY <3>3
    <3>8. \A d \in Calls :
            /\ At(d, "listening")' => caller'[d].path = path'
                 /\ listener'.reply = path' /\ path' \in loops'
            /\ At(d, "bound")' /\ d \in fresh'
                 => listener'.reply = path' /\ path' \in loops'
            /\ d \in pending' \cap fresh'
                 => replyTo'[d] = path' /\ path' \in loops'
      BY <3>1, <3>5, <3>6
    <3>9. QED
      BY <3>4, <3>6, <3>7, <3>8 DEF Listens
  <2>5. QED
    BY <2>3, <2>4
<1>6. QED
  BY <1>2, <1>3, <1>4, <1>5, QuietStep, CallAssumption DEF Begin, network

LEMMA ReattachPreserves ==
  ASSUME RInv, NEW p \in Paths, Reattach(p) PROVE RInv'
<1>1. RpcTypeOK'
  BY SMTT(20), Known, FaultAssumption
     DEF Reattach, RpcTypeOK, entries, server, reader
<1>2. \A d \in Calls : /\ Before(d)' = Before(d)
                       /\ At(d, "listening")' => caller'[d].path \in Paths
  BY Known DEF Reattach, Before, At, EntryOK
<1>3. Heard'
  BY Known DEF Heard, Listens, Reattach, At
<1>4. QED
  BY <1>1, <1>2, <1>3, UnaskedKept, QuietStep, CallAssumption
     DEF Reattach, server

(* invoke() once it is tracked, and the delivery of its request.           *)
LEMMA GoesOn ==
  ASSUME RInv, NEW c \in Calls, NEW place \in CallPlaces, GoesTo(c, place),
         At(c, "tracking") \/ At(c, "delivering"),
         place \notin {"idle", "listening", "bound"}
  PROVE  /\ caller' \in [Calls -> [at : CallPlaces, path : Paths \cup {NoPath}]]
         /\ ~Before(c)
         /\ \A d \in Calls :
              /\ Before(d)' = Before(d)
              /\ At(d, "listening")' => caller'[d].path \in Paths
              /\ \/ caller'[d] = caller[d]
                 \/ ~At(d, "listening") /\ ~At(d, "listening")'
                    /\ ~At(d, "bound")'
<1>1. caller \in [Calls -> [at : CallPlaces, path : Paths \cup {NoPath}]]
  BY Known DEF RpcTypeOK
<1>2. caller' \in [Calls -> [at : CallPlaces, path : Paths \cup {NoPath}]]
  BY <1>1 DEF GoesTo
<1>3. caller'[c].at = place /\ \A d \in Calls : d # c => caller'[d] = caller[d]
  BY <1>1 DEF GoesTo
<1>4. ~Before(c)
  BY DEF At, Before
<1>5. ASSUME NEW d \in Calls
      PROVE  /\ Before(d)' = Before(d)
             /\ At(d, "listening")' => caller'[d].path \in Paths
             /\ \/ caller'[d] = caller[d]
                \/ ~At(d, "listening") /\ ~At(d, "listening")'
                   /\ ~At(d, "bound")'
  <2>1. CASE d = c
    BY <1>3, <1>4, <2>1 DEF At, Before
  <2>2. CASE d # c
    BY <1>3, <2>2, Known DEF At, Before, EntryOK
  <2>3. QED
    BY <2>1, <2>2
<1>6. QED
  BY <1>2, <1>4, <1>5

LEMMA DeliverPreserves ==
  ASSUME RInv, NEW c \in Calls, Deliver(c) PROVE RInv'
<1>1. "delivering" \in CallPlaces
  BY DEF CallPlaces
<1>2. /\ caller' \in [Calls -> [at : CallPlaces, path : Paths \cup {NoPath}]]
      /\ ~Before(c)
      /\ \A d \in Calls :
           /\ Before(d)' = Before(d)
           /\ At(d, "listening")' => caller'[d].path \in Paths
           /\ \/ caller'[d] = caller[d]
              \/ ~At(d, "listening") /\ ~At(d, "listening")'
                 /\ ~At(d, "bound")'
  BY <1>1, GoesOn DEF Deliver
<1>3. requests \in Seq(Calls \cup {Stop}) /\ requests' = Append(requests, c)
  BY Known DEF RpcTypeOK, Deliver
<1>4. /\ requests' \in Seq(Calls \cup {Stop})
      /\ Len(requests) \in Nat /\ Len(requests') = Len(requests) + 1
      /\ requests'[Len(requests) + 1] = c
      /\ \A i \in 1 .. Len(requests) : requests'[i] = requests[i]
  BY <1>3, AppendFacts
<1>5. RpcTypeOK'
  BY SMTT(20), <1>2, <1>4, Known
     DEF Deliver, RpcTypeOK, binding, entries, network, reader
<1>6. ASSUME NEW d \in Calls, Before(d) PROVE Unasked(d)'
  BY <1>2, <1>4, <1>6, Known DEF Deliver, Unasked, EntryOK, Untouched
<1>7. Heard'
  BY <1>2, HeardKept DEF Deliver, entries
<1>8. \A d \in Streams : Sent(d)' = Sent(d)
  BY DEF Sent, Deliver
<1>9. QED
  BY <1>2, <1>5, <1>6, <1>7, <1>8, QuietStep DEF Deliver, network

LEMMA DeliveryEndsPreserves ==
  ASSUME RInv, NEW c \in Calls, DeliverReturns(c) \/ DeliverThrows(c)
  PROVE  RInv'
<1>1. PICK place \in {"returned", "failed"} : GoesTo(c, place)
  BY DEF DeliverReturns, DeliverThrows
<1>2. place \in CallPlaces /\ place \notin {"idle", "listening", "bound"}
  BY DEF CallPlaces
<1>3. /\ UNCHANGED <<binding, entries, replyTo, server, network, life, reader>>
      /\ At(c, "tracking") \/ At(c, "delivering")
  BY DEF DeliverReturns, DeliverThrows
<1>4. /\ caller' \in [Calls -> [at : CallPlaces, path : Paths \cup {NoPath}]]
      /\ \A d \in Calls :
           /\ Before(d)' = Before(d)
           /\ At(d, "listening")' => caller'[d].path \in Paths
           /\ \/ caller'[d] = caller[d]
              \/ ~At(d, "listening") /\ ~At(d, "listening")'
                 /\ ~At(d, "bound")'
  BY <1>1, <1>2, <1>3, GoesOn
<1>5. RpcTypeOK'
  BY SMTT(20), <1>3, <1>4, Known
     DEF RpcTypeOK, binding, entries, server, network, reader
<1>6. Heard'
  BY <1>3, <1>4, HeardKept DEF entries
<1>7. QED
  BY <1>3, <1>4, <1>5, <1>6, UnaskedKept, QuietStep, CallAssumption
     DEF server, network

(* What the service and the network do to a request leaves the callers     *)
(* alone.                                                                  *)
LEMMA CallersKept ==
  ASSUME RInv, UNCHANGED <<binding, caller, entries, replyTo>>,
         life' = "up" => life = "up"
  PROVE  /\ \A d \in Calls : /\ Before(d)' = Before(d)
                             /\ At(d, "listening")' => caller'[d].path \in Paths
         /\ Heard'
<1>1. Heard'
  BY HeardKept DEF entries
<1>2. QED
  BY <1>1, Known DEF Before, At, EntryOK

LEMMA QuietService ==
  ASSUME RInv, RpcTypeOK', life' = "up" => life = "up", hit \subseteq hit',
         UNCHANGED <<binding, caller, entries, replyTo, replies, reader>>,
         service'.call \in {NoCall, service.call},
         service'.call = service.call
           => service'.sent = service.sent,
         \A d \in Calls : (\A i \in 1 .. Len(requests) : requests[i] # d)
                            /\ service.call # d
           => \A i \in 1 .. Len(requests') : requests'[i] # d
  PROVE  RInv'
<1>1. \A d \in Calls : /\ Before(d)' = Before(d)
                       /\ At(d, "listening")' => caller'[d].path \in Paths
  BY CallersKept
<1>2. Heard'
  BY CallersKept
<1>3. ASSUME NEW d \in Calls, Before(d) PROVE Unasked(d)'
  BY <1>3, Known, CallAssumption DEF Unasked, EntryOK, Untouched
<1>4. \A d \in Streams : Sent(d)' \in {0, Sent(d)}
  BY CallAssumption DEF Sent
<1>5. QED
  BY <1>1, <1>2, <1>3, <1>4, QuietStep

LEMMA HandlerGoesOnPreserves ==
  ASSUME RInv, HandlerGoesOn PROVE RInv'
<1>1. RpcTypeOK' /\ service'.call = service.call /\ service'.sent = service.sent
  BY Known DEF HandlerGoesOn, ServiceOnly, RpcTypeOK, binding, entries, reader
<1>2. QED
  BY <1>1, QuietService DEF HandlerGoesOn, ServiceOnly

LEMMA LoseRequestPreserves ==
  ASSUME RInv, LoseRequest PROVE RInv'
<1>1. requests \in Seq(Calls \cup {Stop}) /\ requests # <<>>
  BY Known DEF RpcTypeOK, LoseRequest, FirstRequest
<1>2. /\ Head(requests) \in Calls /\ requests' \in Seq(Calls \cup {Stop})
      /\ Len(requests) \in Nat \ {0} /\ Len(requests') = Len(requests) - 1
      /\ \A i \in 1 .. Len(requests) - 1 : requests'[i] = requests[i + 1]
  <2>1. requests' = Tail(requests) /\ Head(requests) # Stop
    BY DEF LoseRequest, FirstRequest
  <2>2. QED
    BY <1>1, <2>1, TailFacts
<1>3. RpcTypeOK'
  <2>1. RpcTypeOK /\ hit' = hit \cup {Head(requests)}
        /\ UNCHANGED <<service, replies>> /\ Fault
    BY Known DEF LoseRequest
  <2>2. hit' \subseteq Calls /\ faults' \in 0 .. MaxFaults
    BY <1>2, <2>1, FaultAssumption DEF RpcTypeOK, Fault
  <2>3. QED
    BY SMTT(20), <1>2, <2>1, <2>2 DEF Fault, RpcTypeOK, binding, entries, reader
<1>4. QED
  BY <1>2, <1>3, QuietService DEF LoseRequest, Fault

LEMMA RepeatRequestPreserves ==
  ASSUME RInv, NEW c \in Calls, RepeatRequest(c) PROVE RInv'
<1>1. requests \in Seq(Calls \cup {Stop}) /\ requests' = Append(requests, c)
  BY Known DEF RpcTypeOK, RepeatRequest
<1>2. /\ requests' \in Seq(Calls \cup {Stop})
      /\ Len(requests) \in Nat /\ Len(requests') = Len(requests) + 1
      /\ requests'[Len(requests) + 1] = c
      /\ \A i \in 1 .. Len(requests) : requests'[i] = requests[i]
  BY <1>1, AppendFacts
<1>3. RpcTypeOK'
  <2>1. RpcTypeOK /\ UNCHANGED <<service, replies, hit>> /\ Fault
    BY Known DEF RepeatRequest
  <2>2. faults' \in 0 .. MaxFaults
    BY <2>1, FaultAssumption DEF RpcTypeOK, Fault
  <2>3. QED
    BY SMTT(20), <1>2, <2>1, <2>2 DEF Fault, RpcTypeOK, binding, entries, reader
<1>4. \A d \in Calls : /\ Before(d)' = Before(d)
                       /\ At(d, "listening")' => caller'[d].path \in Paths
  BY CallersKept DEF RepeatRequest, Fault
<1>5. Heard'
  BY CallersKept DEF RepeatRequest, Fault
<1>6. ASSUME NEW d \in Calls, Before(d) PROVE Unasked(d)'
  <2>1. d # c /\ Untouched(d)
    BY <1>6, Known DEF RepeatRequest, At, Before, EntryOK
  <2>2. QED
    BY <1>2, <2>1 DEF RepeatRequest, Unasked, Untouched
<1>7. \A d \in Streams : Sent(d)' = Sent(d)
  BY DEF Sent, RepeatRequest
<1>8. QED
  BY <1>3, <1>4, <1>5, <1>6, <1>7, QuietStep DEF RepeatRequest, Fault

LEMMA ServiceRestartsPreserves ==
  ASSUME RInv, ServiceRestarts PROVE RInv'
<1> DEFINE c == service.call
<1>1. /\ c \in Calls /\ requests \in Seq(Calls \cup {Stop})
      /\ hit \subseteq Calls
  BY Known DEF RpcTypeOK, ServiceRestarts
<1>2. /\ requests' \in Seq(Calls \cup {Stop}) /\ hit' \subseteq Calls
      /\ hit \subseteq hit'
      /\ \A d \in Calls : (\A i \in 1 .. Len(requests) : requests[i] # d)
                             /\ c # d
           => \A i \in 1 .. Len(requests') : requests'[i] # d
  <2>1. CASE requests' = <<c>> \o requests /\ UNCHANGED hit
    <3>1. <<c>> \in Seq(Calls \cup {Stop}) /\ Len(<<c>>) = 1 /\ <<c>>[1] = c
      BY <1>1
    <3>2. /\ requests' \in Seq(Calls \cup {Stop}) /\ Len(requests) \in Nat
          /\ Len(requests') = Len(requests) + 1
          /\ \A i \in 1 .. Len(requests') :
               requests'[i] = IF i <= 1 THEN <<c>>[i] ELSE requests[i - 1]
      BY <1>1, <2>1, <3>1, ConcatProperties
    <3>3. ASSUME NEW i \in 1 .. Len(requests')
          PROVE  \/ requests'[i] = c
                 \/ /\ i - 1 \in 1 .. Len(requests)
                    /\ requests'[i] = requests[i - 1]
      BY <3>1, <3>2
    <3>4. QED
      BY <1>1, <2>1, <3>2, <3>3
  <2>2. CASE hit' = hit \cup {c} /\ UNCHANGED requests
    BY <1>1, <2>2
  <2>3. QED
    BY <2>1, <2>2 DEF ServiceRestarts
<1>3. RpcTypeOK'
  <2>1. RpcTypeOK /\ UNCHANGED replies /\ Fault /\ ServiceWaits
    BY Known DEF ServiceRestarts
  <2>2. faults' \in 0 .. MaxFaults
    BY <2>1, FaultAssumption DEF RpcTypeOK, Fault
  <2>3. service' \in Serviced
    BY <2>1, FaultAssumption DEF ServiceWaits, Serviced
  <2>4. QED
    BY <1>2, <2>1, <2>2, <2>3
       DEF Fault, RpcTypeOK, binding, entries, reader, Serviced
<1>4. service'.call = NoCall /\ service'.sent = 0 /\ c # NoCall
  BY DEF ServiceRestarts, ServiceWaits
<1>5. QED
  BY <1>2, <1>3, <1>4, QuietService DEF ServiceRestarts, Fault

LEMMA StopBeginsPreserves ==
  ASSUME RInv, StopBegins PROVE RInv'
<1>1. requests \in Seq(Calls \cup {Stop}) /\ requests' = Append(requests, Stop)
  BY Known DEF RpcTypeOK, StopBegins
<1>2. /\ requests' \in Seq(Calls \cup {Stop})
      /\ Len(requests) \in Nat /\ Len(requests') = Len(requests) + 1
      /\ requests'[Len(requests) + 1] = Stop
      /\ \A i \in 1 .. Len(requests) : requests'[i] = requests[i]
  BY <1>1, AppendFacts
<1>3. RpcTypeOK'
  <2>1. loops' \subseteq Paths /\ life' \in {"up", "stopping", "draining", "down"}
    BY Known DEF StopBegins, RpcTypeOK
  <2>2. QED
    BY <1>2, <2>1, Known DEF StopBegins, RpcTypeOK, entries, network, reader
<1>4. \A d \in Calls : d # Stop
  BY CallAssumption DEF Stop
<1>5. \A d \in Calls : /\ Before(d)' = Before(d)
                       /\ At(d, "listening")' => caller'[d].path \in Paths
  BY Known DEF StopBegins, Before, At, EntryOK
<1>6. Heard'
  BY DEF StopBegins, Heard
<1>7. ASSUME NEW d \in Calls, Before(d) PROVE Unasked(d)'
  BY <1>2, <1>4, <1>7, Known
     DEF StopBegins, Unasked, EntryOK, Untouched
<1>8. \A d \in Streams \ hit' : Sent(d)' \in {0, Sent(d)}
  BY DEF StopBegins, Sent
<1>9. QED
  BY <1>3, <1>5, <1>6, <1>7, <1>8, QuietStep DEF StopBegins, network

LEMMA ServiceEndsPreserves ==
  ASSUME RInv, ServiceEnds PROVE RInv'
<1>1. requests \in Seq(Calls \cup {Stop}) /\ requests # <<>>
      /\ requests' = Tail(requests)
  BY Known DEF RpcTypeOK, ServiceEnds
<1>2. /\ requests' \in Seq(Calls \cup {Stop})
      /\ Len(requests) \in Nat \ {0} /\ Len(requests') = Len(requests) - 1
      /\ \A i \in 1 .. Len(requests) - 1 : requests'[i] = requests[i + 1]
  BY <1>1, TailFacts
<1>3. RpcTypeOK' /\ service'.call = service.call
      /\ service'.sent = service.sent
  BY <1>2, Known
     DEF ServiceEnds, RpcTypeOK, binding, entries, network, reader
<1>4. QED
  BY <1>2, <1>3, QuietService DEF ServiceEnds, network

(* A reply joins the channel that its call asks for, in the turn of the    *)
(* handler.                                                                *)
LEMMA ReplyKept ==
  ASSUME RInv, NEW c \in Calls, NEW kind, NEW item, Reply(c, kind, item),
         [call |-> c, kind |-> kind, item |-> item] \in Fit,
         UNCHANGED <<binding, caller, entries, replyTo, life, reader>>,
         requests' \in Seq(Calls \cup {Stop}), service' \in Serviced,
         faults' \in 0 .. MaxFaults,
         \A d \in Calls : Before(d) => Unasked(d)',
         c \in Streams /\ kind = "item" /\ item > 1 => Sent(c) = item - 1,
         c \in Streams /\ kind = "end" /\ Items > 0 => Sent(c) = Items,
         \/ Sent(c)' = 0
         \/ Sent(c)' = Sent(c) /\ kind \notin {"item", "end", "error"}
         \/ Sent(c)' = item /\ kind = "item",
         \A d \in Streams : d # c => Sent(d)' \in {0, Sent(d)}
  PROVE  RInv'
<1> DEFINE m == [call |-> c, kind |-> kind, item |-> item]
           p == replyTo[c]
<1>1. /\ m \in Fit /\ m \in Replies /\ m.call = c /\ m.kind = kind
      /\ m.item = item
  BY DEF Fit
<1> HIDE DEF m
<1>2. /\ \A d \in Calls : /\ Before(d)' = Before(d)
                          /\ At(d, "listening")' => caller'[d].path \in Paths
      /\ Heard'
  BY CallersKept
<1>3. /\ RpcTypeOK /\ Placed /\ replies \in [Paths -> Seq(Fit)]
      /\ \A d \in Streams \ hit : Coming(d) /\ Come(d)
  BY Known
<1>4. ASSUME replies' \in [Paths -> Seq(Replies)], hit' \subseteq Calls
      PROVE  RpcTypeOK'
  BY <1>3, <1>4 DEF RpcTypeOK, binding, entries, reader, Serviced
<1>5. CASE p = NoPath
  <2>1. hit' = hit \cup {c} /\ UNCHANGED replies
    BY <1>5 DEF Reply
  <2>2. RpcTypeOK'
    BY <1>3, <1>4, <2>1 DEF RpcTypeOK
  <2>3. \A d \in Streams \ hit' : Sent(d)' \in {0, Sent(d)}
    BY <2>1
  <2>4. UNCHANGED <<entries, reader, replyTo, replies>> /\ hit \subseteq hit'
    BY <2>1
  <2>5. QED
    BY <1>2, <2>2, <2>3, <2>4, QuietStep
<1>6. CASE p # NoPath
  <2>1. /\ p \in Paths /\ UNCHANGED hit
        /\ replies' = [replies EXCEPT ![p] = Append(@, m)]
    BY <1>3, <1>6 DEF Reply, RpcTypeOK, m
  <2>2. /\ replies[p] \in Seq(Fit) /\ Append(replies[p], m) \in Seq(Fit)
        /\ replies[p] \in Seq(Replies)
        /\ Append(replies[p], m) \in Seq(Replies)
        /\ Len(replies[p]) \in Nat
        /\ Len(Append(replies[p], m)) = Len(replies[p]) + 1
        /\ Append(replies[p], m)[Len(replies[p]) + 1] = m
        /\ \A i \in 1 .. Len(replies[p]) :
             Append(replies[p], m)[i] = replies[p][i]
    BY <1>1, <1>3, <2>1, AppendFacts DEF RpcTypeOK
  <2>3. /\ replies' \in [Paths -> Seq(Fit)]
        /\ replies' \in [Paths -> Seq(Replies)]
    BY <1>3, <2>1, <2>2 DEF RpcTypeOK
  <2>4. replies'[p] = Append(replies[p], m)
        /\ \A r \in Paths : r # p => replies'[r] = replies[r]
    BY <1>3, <2>1
  <2>5. RpcTypeOK'
    BY <1>3, <1>4, <2>1, <2>3 DEF RpcTypeOK
  <2>6. OpenIsPending' /\ Entries'
    <3>1. UNCHANGED <<entries, reader, replyTo>>
      OBVIOUS
    <3>2. QED
      BY <1>2, <2>3, <2>5, <3>1, EntriesKept
  <2>7. Placed'
    <3>1. ASSUME NEW r \in Paths, NEW i \in 1 .. Len(replies'[r])
          PROVE  replyTo'[replies'[r][i].call] = r
      <4>1. CASE r # p \/ i \in 1 .. Len(replies[p])
        BY <1>3, <2>2, <2>4, <4>1 DEF Placed
      <4>2. CASE r = p /\ i = Len(replies[p]) + 1
        BY <1>1, <2>2, <2>4, <4>2
      <4>3. QED
        BY <2>2, <2>4, <4>1, <4>2
    <3>2. QED
      BY <3>1 DEF Placed
  <2>8. ASSUME NEW d \in Streams \ hit' PROVE Coming(d)' /\ Come(d)'
    <3>1. /\ d \in Streams \ hit /\ Come(d)' /\ Arrived(d)' = Arrived(d)
          /\ pending' = pending
      BY <2>1, ComeKept DEF entries, reader
    <3>2. SUFFICES ASSUME replyTo[d] # NoPath
                   PROVE  InTurn(d, replies'[replyTo[d]], Sent(d)',
                                 d \in pending, Arrived(d))
      BY <3>1 DEF Coming
    <3>3. InTurn(d, replies[replyTo[d]], Sent(d), d \in pending, Arrived(d))
      BY <1>3, <3>1, <3>2 DEF Coming
    <3>4. d \in Calls /\ replyTo[d] \in Paths
      BY <1>3, <3>2, CallAssumption DEF RpcTypeOK
    <3>5. CASE replyTo[d] # p
      <4>1. replies'[replyTo[d]] = replies[replyTo[d]]
            /\ Sent(d)' \in {0, Sent(d)}
        BY <2>4, <3>4, <3>5
      <4>2. QED
        BY <3>3, <4>1, TurnWeaken
    <3>6. CASE replyTo[d] = p
      <4>1. InTurn(d, replies[p], Sent(d), d \in pending, Arrived(d))
        BY <3>3, <3>6
      <4>2. /\ m.call = d /\ m.kind = "item" /\ m.item > 1
                 => Sent(d) = m.item - 1 /\ Sent(d) > 0
            /\ m.call = d /\ m.kind = "end" /\ Items > 0 => Sent(d) = Items
        BY <1>1, FaultAssumption DEF Fit, Yields
      <4>3. Sent(d)' > 0
              => \/ Sent(d)' = Sent(d) /\ ~IsData(m, d)
                 \/ m.call = d /\ m.kind = "item" /\ m.item = Sent(d)'
        <5>1. ~(0 > 0)
          OBVIOUS
        <5>2. QED
          BY <1>1, <5>1 DEF IsData
      <4>4. InTurn(d, Append(replies[p], m), Sent(d)', d \in pending,
                   Arrived(d))
        BY <1>1, <2>2, <4>1, <4>2, <4>3, TurnAppend
      <4>5. QED
        BY <2>4, <3>6, <4>4
    <3>7. QED
      BY <3>5, <3>6
  <2>9. QED
    BY <1>2, <2>6, <2>7, <2>8 DEF RInv
<1>7. QED
  BY <1>5, <1>6

LEMMA TakeRequestPreserves ==
  ASSUME RInv, TakeRequest PROVE RInv'
<1> PICK c : c = Head(requests)
  OBVIOUS
<1>1. requests \in Seq(Calls \cup {Stop}) /\ requests # <<>> /\ c # Stop
      /\ requests' = Tail(requests)
  BY Known DEF RpcTypeOK, TakeRequest
<1>2. /\ c \in Calls /\ c = requests[1] /\ requests' \in Seq(Calls \cup {Stop})
      /\ Len(requests) \in Nat \ {0} /\ Len(requests') = Len(requests) - 1
      /\ \A i \in 1 .. Len(requests) - 1 : requests'[i] = requests[i + 1]
  BY <1>1, TailFacts
<1>3. Reply(c, "ack", 0) /\ ServiceOnly
  BY DEF TakeRequest
<1>4. [call |-> c, kind |-> "ack", item |-> 0] \in Fit
  BY <1>2, FaultAssumption DEF Fit, Replies, Kinds
<1>5. service' = [at |-> IF Inner[c] = NoCall THEN "answering" ELSE "calling",
                  call |-> c, sent |-> 0]
  BY DEF TakeRequest
<1>6. service' \in Serviced /\ service'.call = c /\ service'.sent = 0
  BY <1>2, <1>5, FaultAssumption DEF Serviced
<1>7. ASSUME NEW d \in Calls, Before(d) PROVE Unasked(d)'
  <2>1. Untouched(d)
    BY <1>7, Known DEF EntryOK
  <2>2. QED
    BY <1>2, <1>6, <2>1 DEF Unasked, Untouched
<1>8. \A d \in Calls : Sent(d)' = 0
  BY <1>6 DEF Sent
<1>9. faults' \in 0 .. MaxFaults
  BY <1>3, Known DEF ServiceOnly, RpcTypeOK
<1>10. /\ Sent(c)' = 0 /\ \A d \in Streams : Sent(d)' \in {0, Sent(d)}
       /\ UNCHANGED <<binding, caller, entries, replyTo, life, reader>>
  BY <1>2, <1>3, <1>8, CallAssumption DEF ServiceOnly
<1>11. QED
  BY <1>2, <1>3, <1>4, <1>6, <1>7, <1>9, <1>10, ReplyKept

(* The service answers, and its loop goes on to the next request or not.   *)
LEMMA AnswerPreserves ==
  ASSUME RInv, NEW kind, NEW item, Reply(service.call, kind, item),
         [call |-> service.call, kind |-> kind, item |-> item] \in Fit,
         ServiceOnly, UNCHANGED requests,
         kind = "item" => item = service.sent + 1 /\ item \in Yields
                          /\ service' = [service EXCEPT !.sent = @ + 1],
         kind = "end" => service.sent = Items,
         kind # "item" => ServiceWaits
  PROVE  RInv'
<1> PICK c : c = service.call
  OBVIOUS
<1>1. RpcTypeOK /\ service \in Serviced /\ c \in Calls
  BY Known DEF RpcTypeOK, Serviced, Fit, Replies
<1>2. /\ service' \in Serviced
      /\ kind = "item" => service'.call = c /\ service'.sent = item
      /\ kind # "item" => service'.call = NoCall
  BY <1>1, FaultAssumption DEF Serviced, ServiceWaits, Yields
<1>3. requests' \in Seq(Calls \cup {Stop}) /\ faults' \in 0 .. MaxFaults
  BY <1>1 DEF RpcTypeOK, ServiceOnly
<1>4. ASSUME NEW d \in Calls, Before(d) PROVE Unasked(d)'
  <2>1. Untouched(d)
    BY <1>4, Known DEF EntryOK
  <2>2. QED
    BY <1>2, <2>1, CallAssumption DEF Unasked, Untouched
<1>5. Sent(c) = service.sent
  BY DEF Sent
<1>6. /\ kind = "item" /\ item > 1 => Sent(c) = item - 1
      /\ kind = "end" => Sent(c) = Items
  BY <1>1, <1>5 DEF Serviced
<1>7. /\ \/ Sent(c)' = 0
         \/ Sent(c)' = item /\ kind = "item"
      /\ \A d \in Streams : d # c => Sent(d)' \in {0, Sent(d)}
  BY <1>1, <1>2, CallAssumption DEF Sent
<1>8. UNCHANGED <<binding, caller, entries, replyTo, life, reader>>
  BY DEF ServiceOnly
<1>9. QED
  BY <1>1, <1>2, <1>3, <1>4, <1>6, <1>7, <1>8, ReplyKept

LEMMA ServiceAnswersPreserves ==
  ASSUME RInv, Returns \/ YieldItem \/ EndStream \/ StreamFails PROVE RInv'
<1>1. service.sent \in 0 .. Items
  BY Known DEF RpcTypeOK
<1>2. ASSUME Returns PROVE RInv'
  <2>1. PICK kind \in {"result", "error"} : Reply(service.call, kind, 0)
    BY <1>2 DEF Returns
  <2>2. [call |-> service.call, kind |-> kind, item |-> 0] \in Fit
    BY <1>2, FaultAssumption DEF Returns, Fit, Replies, Kinds, Singles
  <2>3. kind # "item" /\ kind # "end" /\ ServiceOnly /\ UNCHANGED requests
        /\ ServiceWaits
    BY <1>2 DEF Returns
  <2>4. QED
    BY <2>1, <2>2, <2>3, AnswerPreserves
<1>3. ASSUME YieldItem PROVE RInv'
  <2>1. service.sent + 1 \in Yields /\ service.call \in Calls
    BY <1>1, <1>3, FaultAssumption, CallAssumption DEF YieldItem, Yields
  <2>2. [call |-> service.call, kind |-> "item", item |-> service.sent + 1]
          \in Fit
    BY <1>3, <2>1, FaultAssumption DEF YieldItem, Fit, Replies, Kinds, Yields
  <2>3. /\ Reply(service.call, "item", service.sent + 1) /\ ServiceOnly
        /\ UNCHANGED requests /\ service' = [service EXCEPT !.sent = @ + 1]
    BY <1>3 DEF YieldItem
  <2>4. QED
    BY <2>1, <2>2, <2>3, AnswerPreserves
<1>4. ASSUME NEW kind \in {"end", "error"}, Reply(service.call, kind, 0),
             service.call \in Streams, kind = "end" => service.sent = Items,
             ServiceOnly, UNCHANGED requests, ServiceWaits
      PROVE  RInv'
  <2>1. [call |-> service.call, kind |-> kind, item |-> 0] \in Fit
    BY <1>4, FaultAssumption, CallAssumption DEF Fit, Replies, Kinds, Singles
  <2>2. kind # "item"
    OBVIOUS
  <2>3. QED
    BY <1>4, <2>1, <2>2, AnswerPreserves
<1>5. QED
  BY <1>2, <1>3, <1>4 DEF EndStream, StreamFails

LEMMA RefuseRequestPreserves ==
  ASSUME RInv, RefuseRequest PROVE RInv'
<1> PICK c : c = Head(requests)
  OBVIOUS
<1>1. requests \in Seq(Calls \cup {Stop}) /\ requests # <<>> /\ c # Stop
      /\ requests' = Tail(requests)
  BY Known DEF RpcTypeOK, RefuseRequest, FirstRequest
<1>2. /\ c \in Calls /\ requests' \in Seq(Calls \cup {Stop})
      /\ Len(requests) \in Nat \ {0} /\ Len(requests') = Len(requests) - 1
      /\ \A i \in 1 .. Len(requests) - 1 : requests'[i] = requests[i + 1]
  BY <1>1, TailFacts
<1>3. Reply(c, "nack", 0) /\ UNCHANGED service /\ Fault
  BY DEF RefuseRequest
<1>4. [call |-> c, kind |-> "nack", item |-> 0] \in Fit
  BY <1>2, FaultAssumption DEF Fit, Replies, Kinds
<1>5. ASSUME NEW d \in Calls, Before(d) PROVE Unasked(d)'
  <2>1. Untouched(d)
    BY <1>5, Known DEF EntryOK
  <2>2. QED
    BY <1>2, <1>3, <2>1 DEF Unasked, Untouched
<1>6. \A d \in Calls : Sent(d)' = Sent(d)
  BY <1>3 DEF Sent
<1>7. service' \in Serviced /\ faults' \in 0 .. MaxFaults
  BY <1>3, Known, FaultAssumption DEF Fault, RpcTypeOK, Serviced
<1>8. /\ Sent(c)' = Sent(c) /\ \A d \in Streams : Sent(d)' \in {0, Sent(d)}
      /\ UNCHANGED <<binding, caller, entries, replyTo, life, reader>>
  BY <1>2, <1>3, <1>6, CallAssumption DEF Fault
<1>9. QED
  BY <1>2, <1>3, <1>4, <1>5, <1>7, <1>8, ReplyKept

(* A reply leaves its channel, handled or lost.                            *)
Leaves(p) == replies[p] # <<>> /\ replies' = [replies EXCEPT ![p] = Tail(@)]

LEMMA ChannelTail ==
  ASSUME RInv, NEW p \in Paths, Leaves(p), UNCHANGED replyTo
  PROVE  /\ replies[p] \in Seq(Fit) /\ Head(replies[p]) \in Fit
         /\ Head(replies[p]).call \in Calls
         /\ replyTo[Head(replies[p]).call] = p
         /\ replies' \in [Paths -> Seq(Fit)]
         /\ replies' \in [Paths -> Seq(Replies)]
         /\ replies'[p] = Tail(replies[p])
         /\ \A r \in Paths : r # p => replies'[r] = replies[r]
         /\ Placed'
<1>1. /\ replies \in [Paths -> Seq(Fit)] /\ Placed
      /\ replies \in [Paths -> Seq(Replies)]
  BY Known DEF RpcTypeOK
<1>2. replies[p] \in Seq(Fit) /\ replies[p] \in Seq(Replies)
      /\ replies[p] # <<>>
  BY <1>1 DEF Leaves
<1>3. /\ Head(replies[p]) = replies[p][1] /\ Head(replies[p]) \in Fit
      /\ Tail(replies[p]) \in Seq(Fit) /\ Tail(replies[p]) \in Seq(Replies)
      /\ Len(replies[p]) \in Nat \ {0}
      /\ Len(Tail(replies[p])) = Len(replies[p]) - 1
      /\ \A i \in 1 .. Len(replies[p]) - 1 :
           Tail(replies[p])[i] = replies[p][i + 1]
  BY <1>2, TailFacts
<1>4. /\ replies' \in [Paths -> Seq(Fit)]
      /\ replies' \in [Paths -> Seq(Replies)]
      /\ replies'[p] = Tail(replies[p])
      /\ \A r \in Paths : r # p => replies'[r] = replies[r]
  BY <1>1, <1>3 DEF Leaves
<1>5. ASSUME NEW r \in Paths, NEW i \in 1 .. Len(replies'[r])
      PROVE  replyTo'[replies'[r][i].call] = r
  <2>1. CASE r # p
    BY <1>1, <1>4, <2>1 DEF Placed
  <2>2. CASE r = p
    <3>1. i \in 1 .. Len(replies[p]) - 1
          /\ replies'[r][i] = Tail(replies[p])[i]
      <4>1. replies'[r] = Tail(replies[p])
        BY <1>4, <2>2
      <4>2. QED
        BY <1>3, <4>1
    <3>2. i + 1 \in 1 .. Len(replies[p]) /\ replies'[r][i] = replies[p][i + 1]
      BY <1>3, <3>1
    <3>3. QED
      BY <1>1, <2>2, <3>2 DEF Placed
  <2>3. QED
    BY <2>1, <2>2
<1>6. 1 \in 1 .. Len(replies[p])
  BY <1>3
<1>7. QED
  BY <1>1, <1>2, <1>3, <1>4, <1>5, <1>6 DEF Placed, Fit, Replies

(* A call that a step does not touch; its replies stay, or one of another  *)
(* call leaves their channel.                                              *)
Same(d) ==
  /\ (d \in pending') = (d \in pending) /\ (d \in timers') = (d \in timers)
  /\ promise'[d] = promise[d] /\ stream'[d] = stream[d]
  /\ got'[d] = got[d] /\ verdict'[d] = verdict[d]
  /\ replyTo'[d] = replyTo[d] /\ caller'[d] = caller[d]

RepliesStay(d) ==
  \A p \in Paths : \/ replies'[p] = replies[p]
                   \/ Leaves(p) /\ Head(replies[p]).call # d

Opened(c) ==
  /\ c \in pending =>
       /\ promise[c] = "open" /\ ~stream[c].completed
       /\ \/ c \in timers
          \/ c \in Streams /\ (got[c] # <<>> \/ stream[c].queue # <<>>)
  /\ c \notin pending
       => \/ At(c, "idle") \/ At(c, "listening") \/ At(c, "bound")
          \/ promise[c] # "open" \/ stream[c].completed
  /\ stream[c].waits => c \in pending /\ stream[c].queue = <<>>

LEMMA SameEntry ==
  ASSUME RInv, NEW d \in Calls, Same(d), UNCHANGED <<requests, service>>
  PROVE  EntryOK(d)' /\ Opened(d)'
<1>1. EntryOK(d) /\ Opened(d)
  BY DEF RInv, OpenIsPending, Entries, Opened
<1>2. Before(d)' = Before(d) /\ \A place : At(d, place)' = At(d, place)
  BY DEF Same, Before, At
<1>3. Untouched(d) => Untouched(d)'
  BY DEF Same, Untouched
<1>4. EntryOK(d)'
  BY <1>1, <1>2, <1>3 DEF EntryOK, Same
<1>5. Opened(d)'
  BY <1>1, <1>2 DEF Opened, Same
<1>6. QED
  BY <1>4, <1>5

LEMMA SameStream ==
  ASSUME RInv, NEW d \in Streams \ hit', hit \subseteq hit', Same(d),
         UNCHANGED service, RepliesStay(d)
  PROVE  Coming(d)' /\ Come(d)'
<1>1. Coming(d) /\ Come(d) /\ replies \in [Paths -> Seq(Fit)] /\ RpcTypeOK
  BY Known
<1>2. /\ Arrived(d)' = Arrived(d) /\ Sent(d)' = Sent(d)
      /\ replyTo'[d] = replyTo[d]
  BY DEF Arrived, Sent, Same
<1>3. Come(d)'
  BY <1>1, <1>2 DEF Come, Same
<1>4. ASSUME replyTo[d] # NoPath
      PROVE  InTurn(d, replies'[replyTo[d]], Sent(d), d \in pending, Arrived(d))
  <2>1. /\ InTurn(d, replies[replyTo[d]], Sent(d), d \in pending, Arrived(d))
        /\ replyTo[d] \in Paths
    BY <1>1, <1>4, CallAssumption DEF Coming, RpcTypeOK
  <2>2. ASSUME NEW p, p = replyTo[d], Leaves(p), Head(replies[p]).call # d
        PROVE  InTurn(d, replies'[p], Sent(d), d \in pending, Arrived(d))
    <3>1. /\ replies[p] \in Seq(Fit) /\ replies[p] # <<>>
          /\ replies'[p] = Tail(replies[p])
      BY <1>1, <2>1, <2>2 DEF Leaves
    <3>2. ~IsData(Head(replies[p]), d)
      BY <2>2 DEF IsData
    <3>3. InTurn(d, replies[p], Sent(d), d \in pending, Arrived(d))
      BY <2>1, <2>2
    <3>4. QED
      BY <3>1, <3>2, <3>3, TurnTail
  <2>3. QED
    BY <2>1, <2>2 DEF RepliesStay
<1>5. QED
  BY <1>2, <1>3, <1>4 DEF Coming, Same

LEMMA LoseReplyPreserves ==
  ASSUME RInv, NEW p \in Paths, LoseReply(p) PROVE RInv'
<1>1. Leaves(p) /\ UNCHANGED replyTo /\ Fault /\ UNCHANGED server
      /\ hit' = hit \cup {Head(replies[p]).call}
  BY DEF LoseReply, Leaves, Fault
<1>2. /\ Head(replies[p]).call \in Calls /\ replies' \in [Paths -> Seq(Fit)]
      /\ replies' \in [Paths -> Seq(Replies)] /\ Placed'
      /\ \A r \in Paths : r # p => replies'[r] = replies[r]
  BY <1>1, ChannelTail
<1>3. hit' \subseteq Calls /\ faults' \in 0 .. MaxFaults
  <2>1. hit \subseteq Calls /\ faults \in 0 .. MaxFaults
    BY Known DEF RpcTypeOK
  <2>2. QED
    BY <1>1, <1>2, <2>1, FaultAssumption DEF Fault
<1>4. RpcTypeOK'
  <2>1. RpcTypeOK
    BY Known
  <2>2. UNCHANGED <<path, listener, loops, fresh, raced, caller, pending,
                    byEnvelope, timers, promise, stream, replyTo, requests,
                    service, life, got, verdict>>
    BY <1>1 DEF Fault, binding, entries, server, reader
  <2>3. /\ path' \in Paths /\ loops' \subseteq Paths
        /\ listener' \in [bound : BOOLEAN, at : Paths \cup {NoPath},
                   reply : Paths \cup {NoPath}, slot : Paths \cup {NoPath}]
        /\ caller' \in [Calls -> [at : CallPlaces, path : Paths \cup {NoPath}]]
        /\ pending' \subseteq Calls /\ byEnvelope' \subseteq Calls
        /\ timers' \subseteq Calls
        /\ replyTo' \in [Calls -> Paths \cup {NoPath}]
        /\ promise' \in [Calls -> {"open", "resolved", "rejected"}]
    BY <2>1, <2>2 DEF RpcTypeOK
  <2>4. /\ stream' \in [Calls -> [queue : Seq(Queued), waits : BOOLEAN,
                                 completed : BOOLEAN]]
        /\ requests' \in Seq(Calls \cup {Stop}) /\ service' \in Serviced
        /\ life' \in {"up", "stopping", "draining", "down"}
        /\ got' \in [Calls -> Seq(Yields)]
        /\ verdict' \in [Calls -> {"open", "end", "error", "left"}]
        /\ fresh' \subseteq Calls /\ raced' \in BOOLEAN
    BY <2>1, <2>2 DEF RpcTypeOK, Serviced
  <2>5. QED
    BY <1>2, <1>3, <2>3, <2>4 DEF RpcTypeOK, Serviced
<1>5. /\ \A d \in Calls : Before(d)' = Before(d)
      /\ \A d \in Calls : At(d, "listening")' => caller'[d].path \in Paths
      /\ Heard'
  BY <1>1, CallersKept DEF Fault
<1>6. UNCHANGED <<entries, reader, replyTo>>
      /\ \A d \in Calls : Before(d) => Unasked(d)'
  BY <1>1, UnaskedKept DEF Fault, server
<1>7. OpenIsPending' /\ Entries'
  BY <1>2, <1>4, <1>5, <1>6, EntriesKept
<1>8. ASSUME NEW d \in Streams \ hit' PROVE Coming(d)' /\ Come(d)'
  <2>1. Same(d) /\ hit \subseteq hit' /\ UNCHANGED service
    BY <1>1 DEF Same, Fault, entries, reader, server
  <2>2. RepliesStay(d)
    BY <1>1, <1>2 DEF RepliesStay
  <2>3. QED
    BY <2>1, <2>2, SameStream
<1>9. QED
  BY <1>2, <1>5, <1>7, <1>8 DEF RInv

(* A step of one call.                                                     *)
Changed(c) ==
  /\ pending' \subseteq Calls /\ byEnvelope' = pending'
  /\ timers' \subseteq pending'
  /\ promise' \in [Calls -> {"open", "resolved", "rejected"}]
  /\ stream' \in [Calls -> [queue : Seq(Queued), waits : BOOLEAN,
                           completed : BOOLEAN]]
  /\ got' \in [Calls -> Seq(Yields)]
  /\ verdict' \in [Calls -> {"open", "end", "error", "left"}]
  /\ EntryOK(c)' /\ Opened(c)'
  /\ \A d \in Calls \ {c} : Same(d)

LEMMA CallStep ==
  ASSUME RInv, NEW c \in Calls, Changed(c), Placed', Heard',
         UNCHANGED <<binding, server, life, faults, hit>>,
         caller' \in [Calls -> [at : CallPlaces, path : Paths \cup {NoPath}]],
         replyTo' \in [Calls -> Paths \cup {NoPath}],
         replies' \in [Paths -> Seq(Fit)],
         replies' \in [Paths -> Seq(Replies)],
         \A d \in Calls \ {c} : RepliesStay(d),
         c \in Streams \ hit => Coming(c)' /\ Come(c)'
  PROVE  RInv'
<1>1. RpcTypeOK'
  <2>1. RpcTypeOK
    BY Known
  <2>2. UNCHANGED <<path, listener, loops, fresh, raced, requests, service,
                    life, faults, hit>>
    BY DEF binding, server
  <2>3. byEnvelope' \subseteq Calls /\ timers' \subseteq Calls
    BY DEF Changed
  <2>4. /\ path' \in Paths /\ loops' \subseteq Paths
        /\ listener' \in [bound : BOOLEAN, at : Paths \cup {NoPath},
                   reply : Paths \cup {NoPath}, slot : Paths \cup {NoPath}]
        /\ requests' \in Seq(Calls \cup {Stop}) /\ service' \in Serviced
        /\ life' \in {"up", "stopping", "draining", "down"}
        /\ faults' \in 0 .. MaxFaults
        /\ hit' \subseteq Calls /\ fresh' \subseteq Calls /\ raced' \in BOOLEAN
    BY <2>1, <2>2 DEF RpcTypeOK, Serviced
  <2>5. QED
    BY <2>3, <2>4 DEF RpcTypeOK, Serviced, Changed
<1>2. UNCHANGED <<requests, service>>
  BY DEF server
<1>3. \A d \in Calls : EntryOK(d)' /\ Opened(d)'
  BY <1>2, SameEntry DEF Changed
<1>4. OpenIsPending'
  BY <1>1, <1>3 DEF OpenIsPending, Opened, Changed
<1>5. Entries'
  BY <1>3 DEF Entries
<1>6. ASSUME NEW d \in Streams \ hit' PROVE Coming(d)' /\ Come(d)'
  <2>1. CASE d = c
    BY <1>6, <2>1
  <2>2. CASE d # c
    <3>1. d \in Calls \ {c}
      BY <2>2, CallAssumption
    <3>2. Same(d) /\ RepliesStay(d) /\ UNCHANGED service /\ hit \subseteq hit'
      BY <1>2, <3>1 DEF Changed
    <3>3. QED
      BY <3>2, SameStream
  <2>3. QED
    BY <2>1, <2>2
<1>7. QED
  BY <1>4, <1>5, <1>6 DEF RInv

(* What is known of a call that is open.                                   *)
LEMMA YieldsQueue ==
  ASSUME NEW q \in Seq(Yields) PROVE q \in Seq(Queued)
BY SeqDef DEF Queued

LEMMA AppendQueued ==
  ASSUME NEW q \in Seq(Queued), NEW x \in Queued
  PROVE  /\ Append(q, x) \in Seq(Queued) /\ Append(q, x) # <<>>
         /\ Len(q) \in Nat /\ Len(Append(q, x)) = Len(q) + 1
         /\ Append(q, x)[Len(q) + 1] = x
         /\ \A i \in 1 .. Len(q) : Append(q, x)[i] = q[i]
BY AppendFacts

LEMMA AppendRightQueued ==
  ASSUME NEW v \in Seq(Queued), NEW q \in Seq(Queued), NEW x \in Queued
  PROVE  v \o Append(q, x) = Append(v \o q, x)
BY AppendRight

LEMMA EndsDiffer ==
  /\ End \notin Yields /\ Failure \notin Yields /\ End # Failure
  /\ End \in Queued /\ Failure \in Queued
BY FaultAssumption DEF Yields, Queued, End, Failure

Streamed == [queue : Seq(Queued), waits : BOOLEAN, completed : BOOLEAN]

LEMMA Held ==
  ASSUME RInv, NEW c \in pending
  PROVE  /\ c \in Calls /\ ~Before(c) /\ promise[c] = "open"
         /\ ~stream[c].completed /\ verdict[c] = "open"
         /\ stream[c] \in Streamed /\ stream[c].waits \in BOOLEAN
         /\ stream[c].queue \in Seq(Yields) /\ stream[c].queue \in Seq(Queued)
         /\ got[c] \in Seq(Yields) /\ got[c] \in Seq(Queued)
         /\ Arrived(c) \in Seq(Yields)
         /\ stream[c].waits
              => stream[c].queue = <<>> /\ Arrived(c) = got[c]
         /\ c \in Singles => stream[c] = Blank
         /\ c \in Streams \/ c \in Singles
<1>1. /\ c \in Calls /\ stream[c] \in Streamed /\ got[c] \in Seq(Yields)
      /\ EntryOK(c)
  BY Known DEF RpcTypeOK, Streamed
<1>2. /\ stream[c].waits \in BOOLEAN /\ stream[c].queue \in Seq(Queued)
      /\ stream[c].queue \in Seq(Yields) /\ verdict[c] = "open"
      /\ ~Before(c)
      /\ c \in Singles => stream[c] = Blank
  BY <1>1 DEF Streamed, EntryOK, Untouched
<1>3. got[c] \in Seq(Queued) /\ Arrived(c) \in Seq(Yields)
  BY <1>1, <1>2, YieldsQueue, ConcatProperties DEF Arrived
<1>4. /\ promise[c] = "open" /\ ~stream[c].completed
      /\ stream[c].waits => stream[c].queue = <<>>
  BY <1>1 DEF RInv, OpenIsPending
<1>5. stream[c].queue = <<>> => Arrived(c) = got[c]
  BY <1>1, ConcatEmptySeq DEF Arrived
<1>6. QED
  BY <1>1, <1>2, <1>3, <1>4, <1>5 DEF Singles

(* The end of a stream, which its consumer learns at once when it waits.   *)
LEMMA ClosedOK ==
  ASSUME RInv, NEW c \in pending, c \in Streams, NEW x \in {End, Failure},
         stream'[c] = [queue     |-> IF stream[c].waits THEN <<>>
                                     ELSE Append(stream[c].queue, x),
                       waits     |-> FALSE,
                       completed |-> TRUE],
         verdict'[c] = IF stream[c].waits
                       THEN IF x = End THEN "end" ELSE "error"
                       ELSE "open",
         UNCHANGED <<got[c], promise[c], caller[c]>>, c \notin pending',
         x = End /\ c \notin hit => Complete(Arrived(c))
  PROVE  /\ stream'[c] \in Streamed /\ EntryOK(c)' /\ Opened(c)'
         /\ c \notin hit => Come(c)'
<1> DEFINE q == stream[c].queue
<1>1. /\ x \notin Yields /\ x \in Queued /\ q \in Seq(Yields)
      /\ q \in Seq(Queued) /\ got[c] \in Seq(Queued)
      /\ ~Before(c) /\ promise[c] = "open" /\ stream[c].waits \in BOOLEAN
  BY Held, EndsDiffer
<1>2. /\ Append(q, x) \in Seq(Queued) /\ Append(q, x) # <<>>
      /\ Len(q) \in Nat /\ Len(Append(q, x)) = Len(q) + 1
      /\ Append(q, x)[Len(q) + 1] = x
      /\ \A i \in 1 .. Len(q) : Append(q, x)[i] = q[i]
  BY <1>1, AppendQueued
<1>3. <<>> \in Seq(Queued)
  BY EmptySeq
<1>4. /\ ~Before(c)' /\ ~At(c, "listening")' /\ promise'[c] = "open"
      /\ stream'[c].completed /\ ~stream'[c].waits /\ c \notin Singles
  BY <1>1 DEF Before, At, Singles
<1>5. stream'[c] \in Streamed /\ Opened(c)'
  BY <1>1, <1>2, <1>3, <1>4 DEF Streamed, Opened
<1>6. CASE stream[c].waits
  <2>1. verdict'[c] # "open"
    BY <1>6
  <2>2. EntryOK(c)'
    BY <1>4, <2>1 DEF EntryOK
  <2>3. ASSUME c \notin hit, verdict'[c] = "end" PROVE Complete(got'[c])
    <3>1. x = End /\ Arrived(c) = got[c]
      BY <1>6, <2>3, Held
    <3>2. QED
      BY <2>3, <3>1
  <2>4. c \notin hit => Come(c)'
    BY <2>1, <2>3 DEF Come
  <2>5. QED
    BY <1>5, <2>2, <2>4
<1>7. CASE ~stream[c].waits
  <2>1. stream'[c].queue = Append(q, x) /\ verdict'[c] = "open"
    BY <1>7
  <2>2. Closing(Append(q, x))
    <3>1. \A i \in 1 .. Len(q) : q[i] \in Yields
      BY <1>1
    <3>2. QED
      BY <1>1, <1>2, <3>1 DEF Closing
  <2>3. EntryOK(c)'
    BY <1>4, <2>1, <2>2 DEF EntryOK
  <2>4. Come(c)' \/ c \in hit
    <3>1. CASE x # End
      BY <1>2, <2>1, <3>1 DEF Come
    <3>2. CASE x = End /\ c \notin hit
      <4>1. Arrived(c)' = Append(Arrived(c), x)
        <5>1. got[c] \o Append(q, x) = Append(got[c] \o q, x)
          BY <1>1, AppendRightQueued
        <5>2. QED
          BY <2>1, <5>1 DEF Arrived
      <4>2. Arrived(c) \in Seq(Queued)
        BY <1>1, ConcatProperties DEF Arrived
      <4>3. SubSeq(Arrived(c)', 1, Len(Arrived(c)') - 1) = Arrived(c)
        BY <1>1, <4>1, <4>2, FrontOfAppend
      <4>4. Complete(SubSeq(Arrived(c)', 1, Len(Arrived(c)') - 1))
        BY <3>2, <4>3
      <4>5. QED
        BY <2>1, <4>4 DEF Come
    <3>3. QED
      BY <3>1, <3>2
  <2>5. QED
    BY <1>5, <2>3, <2>4
<1>8. QED
  BY <1>6, <1>7

LEMMA CloseKept ==
  ASSUME RInv, NEW c \in pending, c \in Streams, NEW x \in {End, Failure},
         CloseStream(c, x), UNCHANGED <<caller, replyTo>>,
         x = End /\ c \notin hit => Complete(Arrived(c))
  PROVE  Changed(c) /\ c \notin pending' /\ (c \in Streams \ hit => Come(c)')
<1>1. RpcTypeOK /\ byEnvelope = pending /\ timers \subseteq pending
  BY Known
<1>2. /\ c \in Calls /\ verdict[c] = "open" /\ x \notin Yields
      /\ stream[c].waits \in BOOLEAN
  BY Held, EndsDiffer
<1>3. /\ pending' = pending \ {c} /\ byEnvelope' = byEnvelope \ {c}
      /\ timers' = timers \ {c} /\ UNCHANGED promise
  BY DEF CloseStream, Forget
<1>4. stream' = [stream EXCEPT ![c] =
        [queue     |-> IF stream[c].waits THEN <<>>
                       ELSE Append(stream[c].queue, x),
         waits     |-> FALSE,
         completed |-> TRUE]]
  BY <1>2 DEF CloseStream, Hand, Added
<1>5. /\ UNCHANGED got
      /\ verdict' = [verdict EXCEPT ![c] =
           IF stream[c].waits THEN IF x = End THEN "end" ELSE "error"
           ELSE "open"]
  BY <1>1, <1>2 DEF CloseStream, Hand, Receives, RpcTypeOK, reader
<1>6. /\ stream'[c] = [queue     |-> IF stream[c].waits THEN <<>>
                                     ELSE Append(stream[c].queue, x),
                       waits     |-> FALSE,
                       completed |-> TRUE]
      /\ verdict'[c] = IF stream[c].waits
                       THEN IF x = End THEN "end" ELSE "error"
                       ELSE "open"
      /\ \A d \in Calls \ {c} : stream'[d] = stream[d]
                               /\ verdict'[d] = verdict[d]
  BY <1>1, <1>2, <1>4, <1>5 DEF RpcTypeOK
<1>7. UNCHANGED <<got[c], promise[c], caller[c]>> /\ c \notin pending'
  BY <1>3, <1>5
<1>8. /\ stream'[c] \in Streamed /\ EntryOK(c)' /\ Opened(c)'
      /\ c \notin hit => Come(c)'
  BY <1>6, <1>7, ClosedOK
<1>9. stream' \in [Calls -> Streamed]
  BY <1>1, <1>4, <1>6, <1>8 DEF RpcTypeOK, Streamed
<1>10. verdict' \in [Calls -> {"open", "end", "error", "left"}]
  BY <1>1, <1>5 DEF RpcTypeOK
<1>11. /\ pending' \subseteq Calls /\ byEnvelope' = pending'
       /\ timers' \subseteq pending'
       /\ promise' \in [Calls -> {"open", "resolved", "rejected"}]
       /\ got' \in [Calls -> Seq(Yields)]
  BY <1>1, <1>3, <1>5 DEF RpcTypeOK
<1>12. \A d \in Calls \ {c} : Same(d)
  BY <1>3, <1>5, <1>6 DEF Same
<1>13. QED
  BY <1>7, <1>8, <1>9, <1>10, <1>11, <1>12 DEF Changed, Streamed

LEMMA SettleKept ==
  ASSUME RInv, NEW c \in pending, c \in Singles,
         NEW outcome \in {"resolved", "rejected"}, Settle(c, outcome),
         UNCHANGED <<caller, replyTo>>
  PROVE  Changed(c) /\ c \notin pending'
<1>1. RpcTypeOK /\ byEnvelope = pending /\ timers \subseteq pending
  BY Known
<1>2. /\ c \in Calls /\ ~Before(c) /\ stream[c] = Blank /\ c \notin Streams
      /\ verdict[c] = "open" /\ ~stream[c].waits /\ ~stream[c].completed
  BY Held DEF Singles, Blank
<1>3. /\ pending' = pending \ {c} /\ byEnvelope' = byEnvelope \ {c}
      /\ timers' = timers \ {c} /\ promise' = [promise EXCEPT ![c] = outcome]
      /\ UNCHANGED <<stream, got, verdict>>
  BY DEF Settle, Forget, reader
<1>4. promise'[c] = outcome
      /\ \A d \in Calls \ {c} : promise'[d] = promise[d]
  BY <1>1, <1>2, <1>3 DEF RpcTypeOK
<1>5. ~Before(c)' /\ ~At(c, "listening")'
  BY <1>2 DEF Before, At
<1>6. EntryOK(c)'
  BY <1>2, <1>3, <1>5 DEF EntryOK
<1>7. Opened(c)'
  BY <1>2, <1>3, <1>4 DEF Opened
<1>8. \A d \in Calls \ {c} : Same(d)
  BY <1>3, <1>4 DEF Same
<1>9. promise' \in [Calls -> {"open", "resolved", "rejected"}]
  BY <1>1, <1>3 DEF RpcTypeOK
<1>10. QED
  BY <1>1, <1>3, <1>6, <1>7, <1>8, <1>9 DEF Changed, RpcTypeOK

LEMMA RejectKept ==
  ASSUME RInv, NEW c \in pending, Reject(c), UNCHANGED <<caller, replyTo>>
  PROVE  Changed(c) /\ c \notin pending' /\ (c \in Streams \ hit => Come(c)')
<1>1. c \in Streams \/ c \in Singles
  BY Held
<1>2. CASE c \in Singles
  <2>1. Settle(c, "rejected") /\ c \notin Streams
    BY <1>2 DEF Reject, Singles
  <2>2. QED
    BY <1>2, <2>1, SettleKept
<1>3. CASE c \in Streams
  <2>1. CloseStream(c, Failure) /\ Failure # End
    BY <1>3, EndsDiffer DEF Reject, Singles
  <2>2. QED
    BY <1>3, <2>1, CloseKept
<1>4. QED
  BY <1>1, <1>2, <1>3

(* Nothing is asked of the channel once the call is closed.                *)
LEMMA ComingClosed ==
  ASSUME RInv, NEW c \in Streams \ hit, c \notin pending',
         UNCHANGED <<replyTo, service>>,
         \A p \in Paths : replies'[p] = replies[p] \/ Leaves(p)
  PROVE  Coming(c)'
<1> SUFFICES ASSUME replyTo[c] # NoPath
             PROVE  InTurn(c, replies'[replyTo[c]], Sent(c), c \in pending',
                           Arrived(c)')
  BY DEF Coming, Sent
<1> DEFINE p == replyTo[c]
<1>1. /\ InTurn(c, replies[p], Sent(c), c \in pending, Arrived(c))
      /\ p \in Paths /\ replies[p] \in Seq(Fit)
      /\ replies \in [Paths -> Seq(Fit)]
  BY Known, CallAssumption DEF Coming, RpcTypeOK
<1> HIDE DEF p
<1>2. CASE replies'[p] = replies[p]
  BY <1>1, <1>2, TurnWeaken DEF p
<1>3. CASE Leaves(p)
  <2>1. replies[p] # <<>> /\ replies'[p] = Tail(replies[p])
    BY <1>1, <1>3 DEF Leaves
  <2>2. InTurn(c, Tail(replies[p]), Sent(c), c \in pending', Arrived(c)')
    BY <1>1, <2>1, TurnTail
  <2>3. QED
    BY <2>1, <2>2 DEF p
<1>4. QED
  BY <1>1, <1>2, <1>3

LEMMA TimeoutPreserves ==
  ASSUME RInv, NEW c \in Calls, Timeout(c) PROVE RInv'
<1>1. /\ c \in pending /\ Reject(c)
      /\ UNCHANGED <<binding, caller, replyTo, server, network, life>>
  BY Known DEF Timeout
<1>2. Changed(c) /\ c \notin pending' /\ (c \in Streams \ hit => Come(c)')
  BY <1>1, RejectKept
<1>3. /\ RpcTypeOK /\ Placed /\ replies \in [Paths -> Seq(Fit)]
      /\ UNCHANGED <<replies, faults, hit, requests, service>>
  BY <1>1, Known DEF network, server
<1>4. c \in Streams \ hit => Coming(c)'
  BY <1>1, <1>2, <1>3, ComingClosed
<1>5. pending' \subseteq pending
  BY <1>2 DEF Changed, Same
<1>6. Heard'
  BY <1>1, <1>5, HeardKept
<1>7. Placed'
  BY <1>1, <1>3 DEF Placed
<1>8. \A d \in Calls \ {c} : RepliesStay(d)
  BY <1>3 DEF RepliesStay
<1>9. QED
  BY <1>1, <1>2, <1>3, <1>4, <1>6, <1>7, <1>8, CallStep DEF RpcTypeOK

(* A step of the consumer of a stream leaves the channels alone.           *)
LEMMA ConsumerStep ==
  ASSUME RInv, NEW c \in Streams, Changed(c), c \notin hit => Come(c)',
         UNCHANGED <<binding, caller, replyTo, server, network, life>>,
         c \in pending' => c \in pending /\ Arrived(c)' = Arrived(c)
  PROVE  RInv'
<1>1. /\ RpcTypeOK /\ Placed /\ replies \in [Paths -> Seq(Fit)]
      /\ UNCHANGED <<replies, faults, hit, requests, service>>
      /\ c \in Calls
  BY Known, CallAssumption DEF network, server
<1>2. ASSUME c \notin hit PROVE Coming(c)'
  <2>1. Coming(c)
    BY <1>2, Known
  <2>2. ASSUME replyTo[c] # NoPath
        PROVE  InTurn(c, replies[replyTo[c]], Sent(c), c \in pending',
                      Arrived(c)')
    <3>1. InTurn(c, replies[replyTo[c]], Sent(c), c \in pending, Arrived(c))
      BY <2>1, <2>2 DEF Coming
    <3>2. QED
      BY <3>1, TurnWeaken
  <2>3. Sent(c)' = Sent(c)
    BY <1>1 DEF Sent
  <2>4. QED
    BY <1>1, <2>2, <2>3 DEF Coming
<1>3. pending' \subseteq pending
  BY DEF Changed, Same
<1>4. Heard'
  BY <1>3, HeardKept
<1>5. Placed'
  BY <1>1 DEF Placed
<1>6. \A d \in Calls \ {c} : RepliesStay(d)
  BY <1>1 DEF RepliesStay
<1>7. QED
  BY <1>1, <1>2, <1>4, <1>5, <1>6, CallStep DEF RpcTypeOK

LEMMA Consumed ==
  ASSUME RInv, NEW c \in Streams, At(c, "returned"), verdict[c] = "open"
  PROVE  /\ c \in Calls /\ ~Before(c) /\ c \notin Singles
         /\ stream[c] \in Streamed /\ promise[c] = "open"
         /\ got[c] \in Seq(Yields) /\ EntryOK(c) /\ Opened(c)
         /\ c \notin pending
              => stream[c].completed /\ Closing(stream[c].queue)
<1>1. c \in Calls /\ RpcTypeOK /\ EntryOK(c) /\ Opened(c)
  BY Known, CallAssumption DEF RInv, OpenIsPending, Opened
<1>2. ~Before(c) /\ c \notin Singles /\ promise[c] = "open"
  BY <1>1 DEF Before, At, Singles, EntryOK
<1>3. c \notin pending => stream[c].completed
  BY <1>1, <1>2 DEF Opened, Before, At
<1>4. QED
  BY <1>1, <1>2, <1>3 DEF EntryOK, RpcTypeOK, Streamed

LEMMA LeavePreserves ==
  ASSUME RInv, NEW c \in Calls, Leave(c) PROVE RInv'
<1>1. /\ c \in Streams /\ verdict[c] = "open"
      /\ ~Before(c) /\ c \notin Singles /\ promise[c] = "open"
      /\ stream[c] \in Streamed /\ Opened(c)
      /\ c \notin pending => stream[c].completed
  BY Consumed DEF Leave
<1>2. /\ RpcTypeOK /\ byEnvelope = pending /\ timers \subseteq pending
      /\ UNCHANGED <<binding, caller, replyTo, server, network, life>>
      /\ UNCHANGED <<promise, got>> /\ verdict' = [verdict EXCEPT ![c] = "left"]
  BY Known DEF Leave
<1>3. /\ verdict'[c] = "left"
      /\ \A d \in Calls \ {c} : verdict'[d] = verdict[d]
      /\ verdict' \in [Calls -> {"open", "end", "error", "left"}]
  BY <1>2 DEF RpcTypeOK
<1>4. ~Before(c)' /\ ~At(c, "listening")'
  BY <1>1, <1>2 DEF Before, At
<1>5. /\ c \notin pending' /\ pending' \subseteq pending
      /\ byEnvelope' = pending' /\ timers' \subseteq pending'
      /\ stream'[c].completed /\ ~stream'[c].waits
      /\ stream' \in [Calls -> Streamed]
      /\ \A d \in Calls \ {c} : /\ (d \in pending') = (d \in pending)
                               /\ (d \in timers') = (d \in timers)
                               /\ stream'[d] = stream[d]
  <2>1. stream \in [Calls -> Streamed]
    BY <1>2 DEF RpcTypeOK, Streamed
  <2>2. CASE stream[c].completed
    <3>1. UNCHANGED <<pending, byEnvelope, timers, stream>>
      BY <2>2 DEF Leave
    <3>2. c \notin pending /\ ~stream[c].waits
      BY <1>1, <2>2 DEF Opened
    <3>3. QED
      BY <1>2, <2>1, <2>2, <3>1, <3>2
  <2>3. CASE ~stream[c].completed
    <3>1. /\ stream' = [stream EXCEPT
               ![c] = [queue |-> IF @.waits THEN <<>> ELSE Added(@.queue, End),
                       waits |-> FALSE, completed |-> TRUE]]
          /\ timers' = timers \ {c} /\ pending' = pending \ {c}
          /\ byEnvelope' = byEnvelope \ {c}
      BY <2>3 DEF Leave, Forget
    <3>2. [queue |-> IF stream[c].waits THEN <<>>
                     ELSE Append(stream[c].queue, End),
           waits |-> FALSE, completed |-> TRUE] \in Streamed
      <4>1. <<>> \in Seq(Queued) /\ stream[c].queue \in Seq(Queued)
        BY <1>1, EmptySeq DEF Streamed
      <4>2. Append(stream[c].queue, End) \in Seq(Queued)
        BY <4>1, EndsDiffer, AppendFacts
      <4>3. QED
        BY <4>1, <4>2 DEF Streamed
    <3>3. QED
      BY <1>2, <2>1, <3>1, <3>2 DEF Added
  <2>4. QED
    BY <2>2, <2>3
<1>6. EntryOK(c)'
  BY <1>1, <1>2, <1>3, <1>4, <1>5 DEF EntryOK
<1>7. Opened(c)'
  BY <1>5 DEF Opened
<1>8. Come(c)'
  BY <1>3, <1>5 DEF Come
<1>9. \A d \in Calls \ {c} : Same(d)
  BY <1>2, <1>3, <1>5 DEF Same
<1>10. Changed(c)
  BY <1>2, <1>3, <1>5, <1>6, <1>7, <1>9 DEF Changed, RpcTypeOK, Streamed
<1>11. QED
  BY <1>1, <1>2, <1>5, <1>8, <1>10, ConsumerStep

(* A closed queue, when its consumer takes what comes first.               *)
LEMMA ClosingTail ==
  ASSUME NEW q \in Seq(Queued), Closing(q), Head(q) \in Yields
  PROVE  Closing(Tail(q)) /\ Tail(q)[Len(Tail(q))] = q[Len(q)]
<1> DEFINE n == Len(q)
           t == Tail(q)
<1>1. q # <<>> /\ q[n] \notin Yields /\ \A i \in 1 .. n - 1 : q[i] \in Yields
  BY DEF Closing
<1>2. /\ Head(q) = q[1] /\ t \in Seq(Queued) /\ n \in Nat \ {0}
      /\ Len(t) = n - 1 /\ \A i \in 1 .. n - 1 : t[i] = q[i + 1]
  BY <1>1, TailFacts
<1> HIDE DEF n, t
<1>3. n # 1
  BY <1>1, <1>2
<1>4. n - 1 \in 1 .. n - 1 /\ n - 1 + 1 = n
  BY <1>2, <1>3
<1>5. t[n - 1] = q[n]
  BY <1>2, <1>4
<1>6. ASSUME NEW i \in 1 .. n - 1 - 1 PROVE t[i] \in Yields
  <2>1. i \in 1 .. n - 1 /\ i + 1 \in 1 .. n - 1
    BY <1>2
  <2>2. QED
    BY <1>1, <1>2, <2>1
<1>7. t # <<>>
  BY <1>2, <1>3, EmptySeq
<1>8. QED
  BY <1>1, <1>2, <1>5, <1>6, <1>7 DEF Closing, n, t

LEMMA ClosingLast ==
  ASSUME NEW q \in Seq(Queued), Closing(q), Head(q) \notin Yields
  PROVE  q[Len(q)] = Head(q) /\ q = Append(<<>>, Head(q))
<1>1. q # <<>> /\ \A i \in 1 .. Len(q) - 1 : q[i] \in Yields
  BY DEF Closing
<1>2. /\ Head(q) = q[1] /\ Head(q) \in Queued /\ Tail(q) \in Seq(Queued)
      /\ Len(q) \in Nat \ {0} /\ Len(Tail(q)) = Len(q) - 1
  BY <1>1, TailFacts
<1>3. Len(q) = 1
  <2>1. ~(1 \in 1 .. Len(q) - 1)
    BY <1>1, <1>2
  <2>2. QED
    BY <1>2, <2>1
<1>4. /\ <<>> \in Seq(Queued) /\ Len(<<>>) = 0
      /\ Append(<<>>, Head(q)) \in Seq(Queued)
      /\ Len(Append(<<>>, Head(q))) = 1
      /\ Append(<<>>, Head(q))[1] = Head(q)
  BY <1>2, EmptySeq, AppendFacts
<1>5. q = Append(<<>>, Head(q))
  BY <1>2, <1>3, <1>4, SeqEqual
<1>6. QED
  BY <1>2, <1>3, <1>5

LEMMA NextItemPreserves ==
  ASSUME RInv, NEW c \in Calls, NextItem(c) PROVE RInv'
<1> DEFINE q == stream[c].queue
<1>1. c \in Streams /\ verdict[c] = "open" /\ ~stream[c].waits
      /\ At(c, "returned")
  BY DEF NextItem
<1>2. /\ ~Before(c) /\ c \notin Singles /\ promise[c] = "open"
      /\ stream[c] \in Streamed /\ got[c] \in Seq(Yields)
      /\ EntryOK(c) /\ Opened(c)
      /\ c \notin pending => stream[c].completed /\ Closing(q)
  BY <1>1, Consumed
<1>3. /\ RpcTypeOK /\ byEnvelope = pending /\ timers \subseteq pending
      /\ UNCHANGED <<binding, caller, replyTo, server, network, life>>
      /\ UNCHANGED <<pending, byEnvelope, timers, promise>>
      /\ stream \in [Calls -> Streamed]
  BY Known DEF NextItem, RpcTypeOK, Streamed
<1>4. /\ ~Before(c)' /\ ~At(c, "listening")' /\ q \in Seq(Queued)
      /\ c \in pending => q \in Seq(Yields)
      /\ got[c] \in Seq(Queued)
      /\ c \notin hit => Come(c)
  BY <1>1, <1>2, <1>3, Known, YieldsQueue DEF Before, At, Streamed, EntryOK
<1>5. ASSUME stream' \in [Calls -> Streamed],
             got' \in [Calls -> Seq(Yields)],
             verdict' \in [Calls -> {"open", "end", "error", "left"}],
             EntryOK(c)', Opened(c)',
             \A d \in Calls \ {c} : /\ stream'[d] = stream[d]
                                   /\ got'[d] = got[d]
                                   /\ verdict'[d] = verdict[d]
      PROVE  Changed(c)
  <2>1. \A d \in Calls \ {c} : Same(d)
    BY <1>3, <1>5 DEF Same
  <2>2. QED
    BY <1>3, <1>5, <2>1 DEF Changed, Streamed, RpcTypeOK
<1>6. CASE q = <<>>
  <2>1. c \in pending
    BY <1>2, <1>6 DEF Closing
  <2>2. /\ stream' = [stream EXCEPT ![c].waits = TRUE]
        /\ UNCHANGED <<got, verdict>>
    BY <1>6 DEF NextItem, reader
  <2>3. /\ stream'[c] \in Streamed /\ stream'[c].queue = q
        /\ stream'[c].completed = stream[c].completed
        /\ \A d \in Calls \ {c} : stream'[d] = stream[d]
        /\ stream' \in [Calls -> Streamed]
    BY <1>3, <2>2 DEF Streamed
  <2>4. EntryOK(c)'
    BY <1>2, <1>3, <1>4, <2>2, <2>3 DEF EntryOK
  <2>5. Opened(c)'
    BY <1>2, <1>3, <1>6, <2>1, <2>2, <2>3 DEF Opened
  <2>6. Changed(c)
    BY <1>3, <1>5, <2>2, <2>3, <2>4, <2>5 DEF RpcTypeOK
  <2>7. Arrived(c)' = Arrived(c)
    BY <2>2, <2>3 DEF Arrived
  <2>8. c \notin hit => Come(c)'
    BY <1>3, <1>4, <2>2, <2>3, <2>7 DEF Come
  <2>9. QED
    BY <1>1, <1>3, <2>6, <2>7, <2>8, ConsumerStep
<1>7. CASE q # <<>>
  <2>1. stream' = [stream EXCEPT ![c].queue = Tail(@)] /\ Receives(c, Head(q))
    BY <1>7 DEF NextItem
  <2>2. /\ Head(q) = q[1] /\ Head(q) \in Queued /\ Tail(q) \in Seq(Queued)
        /\ Len(q) \in Nat \ {0} /\ Len(Tail(q)) = Len(q) - 1
        /\ \A i \in 1 .. Len(q) - 1 : Tail(q)[i] = q[i + 1]
    BY <1>4, <1>7, TailFacts
  <2>3. /\ stream'[c].queue = Tail(q) /\ stream'[c].waits = FALSE
        /\ stream'[c].completed = stream[c].completed
        /\ stream' \in [Calls -> Streamed]
        /\ \A d \in Calls \ {c} : stream'[d] = stream[d]
    BY <1>1, <1>3, <2>1, <2>2 DEF Streamed
  <2>4. CASE Head(q) \in Yields
    <3>1. got' = [got EXCEPT ![c] = Append(@, Head(q))] /\ UNCHANGED verdict
      BY <2>1, <2>4 DEF Receives
    <3>2. Append(got[c], Head(q)) \in Seq(Yields)
          /\ Append(got[c], Head(q)) # <<>>
      BY <1>2, <2>4, AppendFacts
    <3>3. /\ got'[c] = Append(got[c], Head(q))
          /\ got' \in [Calls -> Seq(Yields)]
          /\ \A d \in Calls \ {c} : got'[d] = got[d]
      BY <1>3, <3>1, <3>2 DEF RpcTypeOK
    <3>4. Arrived(c)' = Arrived(c)
      <4>1. Append(got[c], Head(q)) \o Tail(q) = got[c] \o q
        BY <1>4, <1>7, MoveHead
      <4>2. QED
        BY <2>3, <3>3, <4>1 DEF Arrived
    <3>5. c \in pending => Tail(q) \in Seq(Yields)
      BY <1>4, <1>7, TailFacts
    <3>6. c \notin pending
            => Closing(Tail(q)) /\ Tail(q)[Len(Tail(q))] = q[Len(q)]
      <4>1. Closing(q) => Closing(Tail(q))
                          /\ Tail(q)[Len(Tail(q))] = q[Len(q)]
        BY <1>4, <2>4, ClosingTail
      <4>2. QED
        BY <1>2, <4>1
    <3>7. EntryOK(c)'
      <4>1. /\ promise'[c] = "open" /\ pending' = pending
            /\ verdict'[c] = verdict[c]
        BY <1>2, <1>3, <3>1
      <4>2. c \in pending' => verdict'[c] = "open"
                              /\ stream'[c].queue \in Seq(Yields)
        BY <1>1, <2>3, <3>5, <4>1
      <4>3. stream'[c].completed => Closing(stream'[c].queue)
        BY <1>2, <2>3, <3>6 DEF Opened
      <4>4. QED
        BY <1>2, <1>4, <4>1, <4>2, <4>3 DEF EntryOK
    <3>8. Opened(c)'
      <4>1. ~stream'[c].waits /\ got'[c] # <<>> /\ c \in Streams
        BY <1>1, <2>3, <3>2, <3>3
      <4>2. c \in pending => promise'[c] = "open" /\ ~stream'[c].completed
        BY <1>2, <1>3, <2>3 DEF Opened
      <4>3. c \notin pending => stream'[c].completed
        BY <1>2, <2>3
      <4>4. QED
        BY <1>3, <4>1, <4>2, <4>3 DEF Opened
    <3>9. Changed(c)
      BY <1>3, <1>5, <2>3, <3>1, <3>3, <3>7, <3>8 DEF RpcTypeOK
    <3>10. ASSUME c \notin hit PROVE Come(c)'
      <4>1. CASE c \in pending
        BY <1>1, <1>2, <1>3, <1>4, <2>3, <3>1, <3>4, <3>10, <4>1
           DEF Come, Opened
      <4>2. CASE c \notin pending
        BY <1>1, <1>2, <1>3, <1>4, <2>3, <3>1, <3>4, <3>6, <3>10, <4>2 DEF Come
      <4>3. QED
        BY <4>1, <4>2
    <3>11. QED
      BY <1>1, <1>3, <3>4, <3>9, <3>10, ConsumerStep
  <2>5. CASE Head(q) \notin Yields
    <3>1. c \notin pending /\ Closing(q) /\ stream[c].completed
      BY <1>2, <1>4, <1>7, <2>5, TailFacts
    <3>2. /\ q[Len(q)] = Head(q) /\ q = Append(<<>>, Head(q))
      BY <1>4, <2>5, <3>1, ClosingLast
    <3>3. /\ UNCHANGED got
          /\ verdict' = [verdict EXCEPT ![c] =
                           IF Head(q) = End THEN "end" ELSE "error"]
      BY <1>1, <1>3, <2>1, <2>5 DEF Receives, RpcTypeOK
    <3>4. /\ verdict'[c] = IF Head(q) = End THEN "end" ELSE "error"
          /\ verdict' \in [Calls -> {"open", "end", "error", "left"}]
          /\ \A d \in Calls \ {c} : verdict'[d] = verdict[d]
      BY <1>3, <3>3 DEF RpcTypeOK
    <3>5. EntryOK(c)'
      BY <1>2, <1>3, <1>4, <3>1, <3>4 DEF EntryOK
    <3>6. Opened(c)'
      BY <1>3, <2>3, <3>1 DEF Opened
    <3>7. Changed(c)
      BY <1>3, <1>5, <2>3, <3>3, <3>4, <3>5, <3>6 DEF RpcTypeOK
    <3>8. ASSUME c \notin hit, Head(q) = End PROVE Complete(got[c])
      <4>1. Complete(SubSeq(Arrived(c), 1, Len(Arrived(c)) - 1))
        BY <1>1, <1>4, <2>2, <3>1, <3>2, <3>8 DEF Come
      <4>3. got[c] \o Append(<<>>, Head(q)) = Append(got[c] \o <<>>, Head(q))
        BY <1>4, <2>2, AppendRight, EmptySeq
      <4>4. got[c] \o <<>> = got[c]
        BY <1>4, ConcatEmptySeq
      <4>5. Arrived(c) = Append(got[c], Head(q))
        BY <3>2, <4>3, <4>4 DEF Arrived
      <4>6. SubSeq(Append(got[c], Head(q)), 1, Len(Append(got[c], Head(q))) - 1)
              = got[c]
        BY <1>4, <2>2, FrontOfAppend
      <4>7. QED
        BY <4>1, <4>5, <4>6
    <3>9. c \notin hit => Come(c)'
      BY <1>3, <3>1, <3>3, <3>4, <3>8 DEF Come
    <3>10. QED
      BY <1>1, <1>3, <3>1, <3>7, <3>9, ConsumerStep
  <2>6. QED
    BY <2>4, <2>5
<1>8. QED
  BY <1>6, <1>7

(* An item reaches an open stream.                                         *)
LEMMA ItemKept ==
  ASSUME RInv, NEW c \in pending, c \in Streams, NEW k \in Yields, Hand(c, k),
         timers' = timers \ {c},
         UNCHANGED <<pending, byEnvelope, promise, caller, replyTo>>
  PROVE  /\ Changed(c) /\ Arrived(c)' = Append(Arrived(c), k)
         /\ Tight(Append(Arrived(c), k)) => Come(c)'
<1> DEFINE q == stream[c].queue
<1>1. /\ c \in Calls /\ ~Before(c) /\ promise[c] = "open"
      /\ verdict[c] = "open" /\ stream[c].waits \in BOOLEAN
      /\ q \in Seq(Yields) /\ got[c] \in Seq(Yields)
      /\ stream[c].waits => q = <<>> /\ Arrived(c) = got[c]
  BY Held
<1>2. RpcTypeOK /\ byEnvelope = pending /\ timers \subseteq pending
      /\ stream \in [Calls -> Streamed]
  BY Known DEF RpcTypeOK, Streamed
<1>3. /\ Append(q, k) \in Seq(Yields) /\ Append(q, k) # <<>>
      /\ Append(got[c], k) \in Seq(Yields) /\ Append(got[c], k) # <<>>
      /\ <<>> \in Seq(Yields)
  BY <1>1, AppendFacts, EmptySeq
<1>4. Append(q, k) \in Seq(Queued) /\ <<>> \in Seq(Queued)
  BY <1>3, YieldsQueue
<1>5. stream' = [stream EXCEPT ![c] =
        [queue |-> IF stream[c].waits THEN <<>> ELSE Append(q, k),
         waits |-> FALSE, completed |-> FALSE]]
  BY <1>1 DEF Hand, Added
<1>6. /\ stream'[c].queue = IF stream[c].waits THEN <<>> ELSE Append(q, k)
      /\ ~stream'[c].waits /\ ~stream'[c].completed
      /\ stream'[c].queue \in Seq(Yields)
      /\ stream' \in [Calls -> Streamed]
      /\ \A d \in Calls \ {c} : stream'[d] = stream[d]
  BY <1>1, <1>2, <1>3, <1>4, <1>5 DEF Streamed
<1>7. /\ UNCHANGED verdict
      /\ got' \in [Calls -> Seq(Yields)]
      /\ got'[c] = IF stream[c].waits THEN Append(got[c], k) ELSE got[c]
      /\ \A d \in Calls \ {c} : got'[d] = got[d]
  <2>1. CASE stream[c].waits
    <3>1. got' = [got EXCEPT ![c] = Append(@, k)] /\ UNCHANGED verdict
      BY <2>1 DEF Hand, Receives
    <3>2. QED
      BY <1>1, <1>2, <1>3, <2>1, <3>1 DEF RpcTypeOK
  <2>2. CASE ~stream[c].waits
    BY <1>2, <2>2 DEF Hand, reader, RpcTypeOK
  <2>3. QED
    BY <1>1, <2>1, <2>2
<1>8. ~Before(c)' /\ ~At(c, "listening")'
  BY <1>1 DEF Before, At
<1>9. EntryOK(c)'
  BY <1>1, <1>6, <1>7, <1>8 DEF EntryOK, Singles
<1>10. Opened(c)'
  BY <1>1, <1>3, <1>6, <1>7 DEF Opened
<1>11. \A d \in Calls \ {c} : Same(d)
  BY <1>6, <1>7 DEF Same
<1>12. Changed(c)
  BY <1>2, <1>6, <1>7, <1>9, <1>10, <1>11 DEF Changed, RpcTypeOK, Streamed
<1>13. Arrived(c)' = Append(Arrived(c), k)
  <2>1. Append(got[c], k) \o <<>> = Append(got[c], k)
    BY <1>3, ConcatEmptySeq
  <2>2. ASSUME NEW v \in Seq(Yields), NEW u \in Seq(Yields)
        PROVE  v \o Append(u, k) = Append(v \o u, k)
    BY AppendRight
  <2>3. got[c] \o Append(q, k) = Append(got[c] \o q, k)
    BY <1>1, <2>2
  <2>4. CASE stream[c].waits
    BY <1>1, <1>6, <1>7, <2>1, <2>4 DEF Arrived
  <2>5. CASE ~stream[c].waits
    BY <1>1, <1>6, <1>7, <2>3, <2>5 DEF Arrived
  <2>6. QED
    BY <1>1, <2>4, <2>5
<1>14. Tight(Append(Arrived(c), k)) => Come(c)'
  BY <1>1, <1>6, <1>7, <1>13 DEF Come
<1>15. QED
  BY <1>12, <1>13, <1>14

(* One reply of one call is handled.                                       *)
LEMMA AnswerStep ==
  ASSUME RInv, NEW p \in Paths, Leaves(p), NEW c, c = Head(replies[p]).call,
         Changed(c), c \in Streams \ hit => Coming(c)' /\ Come(c)',
         UNCHANGED <<binding, caller, replyTo, server, faults, hit, life>>,
         pending' \subseteq pending
  PROVE  RInv'
<1>1. /\ c \in Calls /\ replies' \in [Paths -> Seq(Fit)]
      /\ replies' \in [Paths -> Seq(Replies)] /\ Placed'
      /\ \A r \in Paths : r # p => replies'[r] = replies[r]
  BY ChannelTail
<1>2. \A d \in Calls \ {c} : RepliesStay(d)
  BY <1>1 DEF RepliesStay
<1>3. Heard'
  BY HeardKept
<1>4. QED
  BY <1>1, <1>2, <1>3, Known, CallStep DEF RpcTypeOK

LEMMA HandleReplyPreserves ==
  ASSUME RInv, NEW p \in Paths, HandleReply(p) PROVE RInv'
<1> DEFINE m == Head(replies[p])
<1>1. PICK c : c = m.call
  OBVIOUS
<1>2. /\ Leaves(p) /\ UNCHANGED replyTo
      /\ UNCHANGED <<binding, caller, replyTo, server, faults, hit, life>>
      /\ UNCHANGED service
  BY DEF HandleReply, Leaves, server
<1>3. /\ replies[p] \in Seq(Fit) /\ replies[p] # <<>> /\ m \in Fit
      /\ c \in Calls /\ replyTo[c] = p /\ replies'[p] = Tail(replies[p])
      /\ \A r \in Paths : r # p => replies'[r] = replies[r]
  BY <1>1, <1>2, ChannelTail DEF Leaves
<1>4. /\ m.kind \in Kinds
      /\ m.kind \in {"item", "end"} => c \in Streams
      /\ m.kind = "result" => c \in Singles
      /\ m.kind = "item" => m.item \in Yields
  BY <1>1, <1>3 DEF Fit, Replies
<1>5. /\ \A r \in Paths : replies'[r] = replies[r] \/ Leaves(r)
      /\ c \in Streams \ hit /\ c \notin pending' => Coming(c)'
  <2>1. \A r \in Paths : replies'[r] = replies[r] \/ Leaves(r)
    BY <1>2, <1>3
  <2>2. QED
    BY <1>2, <2>1, ComingClosed
<1>6. ASSUME c \in Streams \ hit
      PROVE  InTurn(c, replies[p], Sent(c), c \in pending, Arrived(c))
  <2>1. Coming(c) /\ p # NoPath
    BY <1>6, Known, PathAssumption
  <2>2. QED
    BY <1>3, <2>1 DEF Coming
<1>7. Sent(c)' = Sent(c) /\ replyTo'[c] = p /\ p # NoPath
  BY <1>2, <1>3, PathAssumption DEF Sent
<1>8. ASSUME UNCHANGED <<entries, reader>>, c \notin pending \/ m.kind = "ack"
      PROVE  RInv'
  <2>1. \A d \in Calls : Same(d)
    BY <1>2, <1>8 DEF Same, entries, reader
  <2>2. EntryOK(c)' /\ Opened(c)'
    BY <1>2, <1>3, <2>1, SameEntry DEF server
  <2>3. Changed(c)
    BY <1>8, <2>1, <2>2, Known DEF Changed, RpcTypeOK, entries, reader
  <2>4. ASSUME c \in Streams \ hit PROVE Coming(c)' /\ Come(c)'
    <3>1. Come(c)' /\ Arrived(c)' = Arrived(c) /\ pending' = pending
      BY <1>2, <1>8, <2>4, ComeKept DEF entries, reader
    <3>2. CASE c \notin pending
      BY <1>5, <2>4, <3>1, <3>2
    <3>3. CASE m.kind = "ack"
      <4>1. ~IsData(m, c)
        BY <3>3 DEF IsData
      <4>2. InTurn(c, Tail(replies[p]), Sent(c), c \in pending, Arrived(c))
        BY <1>3, <1>6, <2>4, <4>1, TurnTail
      <4>3. QED
        BY <1>3, <1>7, <3>1, <4>2 DEF Coming
    <3>4. QED
      BY <1>8, <3>2, <3>3
  <2>5. QED
    BY <1>1, <1>2, <1>8, <2>3, <2>4, AnswerStep DEF entries
<1>9. ASSUME Changed(c), c \notin pending', c \in Streams \ hit => Come(c)'
      PROVE  RInv'
  <2>1. pending' \subseteq pending
    BY <1>9 DEF Changed, Same
  <2>2. QED
    BY <1>1, <1>2, <1>5, <1>9, <2>1, AnswerStep
<1>10. CASE c \notin pending
  BY <1>1, <1>8, <1>10 DEF HandleReply
<1>11. CASE c \in pending
  <2>1. Answer(c, m.kind, m.item)
    BY <1>1, <1>11 DEF HandleReply
  <2>2. c \in Streams \ hit
          => InTurn(c, replies[p], Sent(c), c \in pending, Arrived(c))
    BY <1>6
  <2>3. CASE m.kind \in {"nack", "error"}
    <3>1. Reject(c)
      BY <2>1, <2>3 DEF Answer
    <3>2. QED
      BY <1>2, <1>9, <1>11, <3>1, RejectKept
  <2>4. CASE m.kind = "result"
    <3>1. Settle(c, "resolved") /\ c \in Singles
      BY <1>4, <2>1, <2>4 DEF Answer
    <3>2. Changed(c) /\ c \notin pending' /\ c \notin Streams
      BY <1>2, <1>11, <3>1, SettleKept DEF Singles
    <3>3. QED
      BY <1>9, <3>2
  <2>5. CASE m.kind = "end"
    <3>1. CloseStream(c, End) /\ c \in Streams
      BY <1>4, <2>1, <2>5 DEF Answer
    <3>2. ASSUME c \notin hit PROVE Complete(Arrived(c))
      <4>1. Items > 0 => /\ Arrived(c) # <<>>
                         /\ Arrived(c)[Len(Arrived(c))] = Items
        BY <1>1, <1>3, <1>11, <2>2, <2>5, <3>1, <3>2, TurnHead
      <4>2. Tight(Arrived(c)) /\ Arrived(c) \in Seq(Yields)
        BY <1>11, <3>1, <3>2, Known, Held DEF Come
      <4>3. QED
        BY <4>1, <4>2, TightComplete
    <3>3. QED
      BY <1>2, <1>9, <1>11, <3>1, <3>2, CloseKept
  <2>6. CASE m.kind = "item"
    <3>1. /\ Hand(c, m.item) /\ timers' = timers \ {c}
          /\ UNCHANGED <<pending, byEnvelope, promise>>
          /\ m.item \in Yields /\ c \in Streams
      BY <1>4, <2>1, <2>6 DEF Answer
    <3>2. /\ Changed(c) /\ Arrived(c)' = Append(Arrived(c), m.item)
          /\ Tight(Append(Arrived(c), m.item)) => Come(c)'
      BY <1>2, <1>11, <3>1, ItemKept
    <3>3. Arrived(c) \in Seq(Yields)
      BY <1>11, Held
    <3>4. ASSUME c \notin hit PROVE Coming(c)' /\ Come(c)'
      <4>1. m.item > 1 => /\ Arrived(c) # <<>>
                          /\ Arrived(c)[Len(Arrived(c))] = m.item - 1
        BY <1>1, <1>3, <1>11, <2>2, <2>6, <3>1, <3>4, TurnHead
      <4>2. Tight(Arrived(c))
        BY <1>11, <3>1, <3>4, Known DEF Come
      <4>3. Tight(Append(Arrived(c), m.item))
        BY <3>1, <3>3, <4>1, <4>2, TightAppend
      <4>4. /\ Arrived(c)' # <<>> /\ Len(Arrived(c)) \in Nat
            /\ Len(Arrived(c)') = Len(Arrived(c)) + 1
            /\ Arrived(c)'[Len(Arrived(c)')] = m.item
        BY <3>1, <3>2, <3>3, AppendFacts
      <4>5. m.call = c /\ m.kind = "item" /\ Arrived(c)' # <<>>
            /\ Arrived(c)'[Len(Arrived(c)')] = Head(replies[p]).item
        BY <1>1, <2>6, <4>4
      <4>6. InTurn(c, Tail(replies[p]), Sent(c), c \in pending', Arrived(c)')
        BY <1>3, <1>11, <2>2, <3>1, <3>4, <4>5, TurnTail
      <4>7. QED
        BY <1>3, <1>7, <3>2, <4>3, <4>6 DEF Coming
    <3>5. QED
      BY <1>1, <1>2, <3>1, <3>2, <3>4, AnswerStep
  <2>7. CASE m.kind = "ack"
    <3>1. UNCHANGED <<timers, pending, byEnvelope, promise, stream, reader>>
      BY <2>1, <2>7 DEF Answer, StopsTimer
    <3>2. QED
      BY <1>8, <2>7, <3>1 DEF entries
  <2>8. QED
    BY <1>4, <2>3, <2>4, <2>5, <2>6, <2>7 DEF Kinds
<1>12. QED
  BY <1>10, <1>11

LEMMA TrackPreserves ==
  ASSUME RInv, NEW c \in Calls, Track(c) PROVE RInv'
<1>1. /\ RpcTypeOK /\ byEnvelope = pending /\ timers \subseteq pending
      /\ replies \in [Paths -> Seq(Fit)] /\ Placed
  BY Known
<1>2. /\ c \notin pending /\ promise[c] = "open" /\ stream[c] = Blank
      /\ got[c] = <<>> /\ verdict[c] = "open" /\ replyTo[c] = NoPath
      /\ service.call # c
  BY Known DEF Track, EntryOK, Before, At, Untouched
<1>3. /\ pending' = pending \cup {c} /\ byEnvelope' = byEnvelope \cup {c}
      /\ timers' = timers \cup {c}
      /\ UNCHANGED <<binding, promise, stream, server, network, life, got,
                     verdict>>
      /\ replyTo' = [replyTo EXCEPT ![c] = listener.reply]
      /\ caller' = [caller EXCEPT ![c].at = "tracking"]
  BY DEF Track, GoesTo, reader
<1>4. /\ replyTo' \in [Calls -> Paths \cup {NoPath}]
      /\ replyTo'[c] = listener.reply
      /\ \A d \in Calls \ {c} : replyTo'[d] = replyTo[d]
  BY <1>1, <1>3 DEF RpcTypeOK
<1>5. /\ caller' \in [Calls -> [at : CallPlaces, path : Paths \cup {NoPath}]]
      /\ caller'[c].at = "tracking"
      /\ \A d \in Calls \ {c} : caller'[d] = caller[d]
  <2>1. "tracking" \in CallPlaces
    BY DEF CallPlaces
  <2>2. caller \in [Calls -> [at : CallPlaces, path : Paths \cup {NoPath}]]
    BY <1>1 DEF RpcTypeOK
  <2>3. QED
    BY <1>3, <2>1, <2>2
<1>6. ~Before(c)' /\ ~At(c, "listening")' /\ ~At(c, "bound")'
  BY <1>5 DEF Before, At
<1>7. Blank.queue = <<>> /\ ~Blank.waits /\ ~Blank.completed
      /\ <<>> \in Seq(Yields)
  BY EmptySeq DEF Blank
<1>8. EntryOK(c)'
  BY <1>2, <1>3, <1>6, <1>7 DEF EntryOK
<1>9. Opened(c)'
  BY <1>2, <1>3, <1>7 DEF Opened
<1>10. \A d \in Calls \ {c} : Same(d)
  BY <1>3, <1>4, <1>5 DEF Same
<1>11. Changed(c)
  BY <1>1, <1>3, <1>8, <1>9, <1>10 DEF Changed, RpcTypeOK
<1>12. /\ UNCHANGED <<replies, faults, hit, requests, service>>
       /\ \A d \in Calls \ {c} : RepliesStay(d)
  BY <1>3 DEF network, server, RepliesStay
<1>13. ASSUME NEW r \in Paths, NEW i \in 1 .. Len(replies[r])
       PROVE  replies[r][i].call # c /\ replyTo'[replies[r][i].call] = r
  <2>1. replies[r] \in Seq(Fit) /\ replyTo[replies[r][i].call] = r
    BY <1>1 DEF Placed
  <2>2. replies[r][i].call \in Calls
    BY <2>1 DEF Fit, Replies
  <2>3. replies[r][i].call # c
    BY <1>2, <2>1, PathAssumption
  <2>4. QED
    BY <1>4, <2>1, <2>2, <2>3
<1>14. Placed'
  BY <1>12, <1>13 DEF Placed
<1>15. ASSUME c \in Streams PROVE Coming(c)' /\ Come(c)'
  <2>1. Arrived(c)' = <<>>
    <3>1. <<>> \o <<>> = <<>>
      BY <1>7, ConcatEmptySeq
    <3>2. QED
      BY <1>2, <1>3, <1>7, <3>1 DEF Arrived
  <2>2. Tight(<<>>)
    BY DEF Tight
  <2>3. Come(c)'
    BY <1>2, <1>3, <1>7, <2>1, <2>2 DEF Come
  <2>4. Sent(c)' = 0
    BY <1>2, <1>12 DEF Sent
  <2>5. ASSUME replyTo'[c] # NoPath
        PROVE  InTurn(c, replies[replyTo'[c]], 0, c \in pending', Arrived(c)')
    <3>1. replyTo'[c] \in Paths
      BY <1>4, <2>5
    <3>2. QED
      BY <1>13, <3>1, TurnBegins
  <2>6. QED
    BY <1>12, <2>3, <2>4, <2>5 DEF Coming
<1>16. Heard'
  <2> SUFFICES ASSUME life = "up", ~raced PROVE Listens'
    BY <1>3 DEF Heard, binding
  <2>1. Listens
    BY Known DEF Heard
  <2>2. UNCHANGED <<path, listener, loops, fresh>>
    BY <1>3 DEF binding
  <2>3. At(c, "bound") /\ ~At(c, "listening")
    BY DEF Track, At
  <2>4. ASSUME NEW d \in Calls
        PROVE  /\ At(d, "listening")' => At(d, "listening")
                                          /\ caller'[d] = caller[d]
               /\ At(d, "listening") => At(d, "listening")'
               /\ At(d, "bound")' => At(d, "bound")
    BY <1>5, <1>6, <2>3 DEF At
  <2>5. c \in fresh => replyTo'[c] = path /\ path \in loops
    BY <1>4, <2>1, <2>3 DEF Listens
  <2>6. ASSUME NEW d \in Calls, d \in pending' \cap fresh
        PROVE  replyTo'[d] = path /\ path \in loops
    BY <1>3, <1>4, <2>1, <2>5, <2>6 DEF Listens
  <2>7. QED
    BY <2>1, <2>2, <2>4, <2>6 DEF Listens
<1>17. QED
  BY <1>3, <1>4, <1>5, <1>1, <1>11, <1>12, <1>14, <1>15, <1>16, CallStep
     DEF RpcTypeOK

LEMMA CleanUpPreserves ==
  ASSUME RInv, CleanUp PROVE RInv'
<1>1. /\ RpcTypeOK /\ byEnvelope = pending /\ timers \subseteq pending
      /\ replies \in [Paths -> Seq(Fit)] /\ Placed
  BY Known
<1>2. /\ pending' = {} /\ byEnvelope' = {} /\ timers' = {} /\ life' = "down"
      /\ UNCHANGED <<path, fresh, raced, caller, replyTo, requests, service,
                     replies, faults, hit, got>>
      /\ loops' \subseteq Paths
      /\ listener' = [bound |-> FALSE, at |-> NoPath, reply |-> NoPath,
                      slot |-> NoPath]
  BY <1>1 DEF CleanUp, server, network, RpcTypeOK
<1>3. ASSUME NEW c \in Calls
      PROVE  /\ promise'[c] = IF c \in pending \cap Singles THEN "rejected"
                              ELSE promise[c]
             /\ stream'[c] = IF c \notin Open THEN stream[c]
                  ELSE [queue |-> IF stream[c].waits THEN <<>>
                                  ELSE Append(stream[c].queue, Failure),
                        waits |-> FALSE, completed |-> TRUE]
             /\ verdict'[c] = IF c \in Open /\ stream[c].waits THEN "error"
                              ELSE verdict[c]
  BY DEF CleanUp, Added
<1>4. ASSUME NEW c \in Calls
      PROVE  /\ promise'[c] \in {"open", "resolved", "rejected"}
             /\ stream'[c] \in Streamed
             /\ verdict'[c] \in {"open", "end", "error", "left"}
             /\ EntryOK(c)' /\ Opened(c)'
             /\ c \in Streams \ hit => Come(c)'
  <2>1. /\ promise[c] \in {"open", "resolved", "rejected"}
        /\ verdict[c] \in {"open", "end", "error", "left"}
        /\ stream[c] \in Streamed /\ EntryOK(c) /\ Opened(c)
        /\ c \in Streams \ hit => Come(c)
    BY <1>1, Known DEF RpcTypeOK, Streamed, RInv, OpenIsPending, Opened
  <2>2. Before(c)' = Before(c) /\ \A place : At(c, place)' = At(c, place)
    BY <1>2 DEF Before, At
  <2>3. CASE c \notin pending
    <3>1. /\ promise'[c] = promise[c] /\ stream'[c] = stream[c]
          /\ verdict'[c] = verdict[c] /\ Arrived(c)' = Arrived(c)
      BY <1>2, <1>3, <2>3 DEF Open, Arrived
    <3>2. EntryOK(c)'
      <4>1. Before(c)' => Untouched(c)'
        BY <1>2, <2>1, <3>1 DEF EntryOK, Before, Untouched
      <4>2. QED
        BY <1>2, <2>1, <2>2, <3>1, <4>1 DEF EntryOK
    <3>3. Opened(c)'
      BY <1>2, <2>1, <2>2, <2>3, <3>1 DEF Opened
    <3>4. c \in Streams \ hit => Come(c)'
      BY <1>2, <2>1, <3>1 DEF Come
    <3>5. QED
      BY <2>1, <3>1, <3>2, <3>3, <3>4
  <2>4. CASE c \in pending /\ c \in Singles
    <3>1. /\ promise'[c] = "rejected" /\ stream'[c] = stream[c]
          /\ verdict'[c] = verdict[c] /\ c \notin Streams
          /\ ~Before(c) /\ stream[c] = Blank
          /\ ~stream[c].completed /\ ~stream[c].waits
      <4>1. /\ c \notin Streams /\ c \notin Open /\ c \in pending \cap Singles
        BY <2>4 DEF Open, Singles
      <4>2. ~Before(c) /\ stream[c] = Blank
        BY <2>4, Held
      <4>3. ~Blank.completed /\ ~Blank.waits
        BY DEF Blank
      <4>4. QED
        BY <1>3, <4>1, <4>2, <4>3
    <3>2. EntryOK(c)'
      BY <1>2, <2>2, <3>1 DEF EntryOK, Before, At
    <3>3. Opened(c)'
      BY <1>2, <3>1 DEF Opened
    <3>4. QED
      BY <2>1, <3>1, <3>2, <3>3
  <2>5. CASE c \in pending /\ c \in Streams
    <3>1. /\ Failure \in {End, Failure} /\ Failure # End /\ verdict[c] = "open"
          /\ stream[c].waits \in BOOLEAN
      BY <2>5, EndsDiffer, Held
    <3>2. /\ stream'[c] = [queue     |-> IF stream[c].waits THEN <<>>
                                         ELSE Append(stream[c].queue, Failure),
                           waits     |-> FALSE,
                           completed |-> TRUE]
          /\ verdict'[c] = IF stream[c].waits THEN "error" ELSE "open"
          /\ promise'[c] = promise[c]
      BY <1>3, <2>5, <3>1 DEF Open, Singles
    <3>3. UNCHANGED <<got[c], promise[c], caller[c]>> /\ c \notin pending'
      BY <1>2, <3>2
    <3>4. /\ stream'[c] \in Streamed /\ EntryOK(c)' /\ Opened(c)'
          /\ c \notin hit => Come(c)'
      BY <2>5, <3>1, <3>2, <3>3, ClosedOK
    <3>5. QED
      BY <2>1, <3>2, <3>4
  <2>6. QED
    BY <2>3, <2>4, <2>5 DEF Singles
<1>5. /\ promise' \in [Calls -> {"open", "resolved", "rejected"}]
      /\ stream' \in [Calls -> Streamed]
      /\ verdict' \in [Calls -> {"open", "end", "error", "left"}]
  BY <1>4 DEF CleanUp
<1>6. RpcTypeOK'
  BY <1>1, <1>2, <1>5 DEF RpcTypeOK, Streamed
<1>7. OpenIsPending'
  BY <1>2, <1>4, <1>6 DEF OpenIsPending, Opened
<1>8. Entries' /\ Placed'
  BY <1>1, <1>2, <1>4 DEF Entries, Placed
<1>9. ASSUME NEW c \in Streams \ hit' PROVE Coming(c)' /\ Come(c)'
  <2>1. Come(c)' /\ c \in Streams \ hit
    BY <1>2, <1>4, CallAssumption
  <2>2. Coming(c)'
    BY <1>2, <2>1, ComingClosed
  <2>3. QED
    BY <2>1, <2>2
<1>10. Heard'
  BY <1>2 DEF Heard
<1>11. QED
  BY <1>7, <1>8, <1>9, <1>10 DEF RInv

LEMMA RpcStutter ==
  ASSUME RInv, UNCHANGED rpcVars PROVE RInv'
<1>1. RpcTypeOK' /\ \A c \in Calls : Same(c)
  BY Known DEF RpcTypeOK, rpcVars, binding, entries, server, network, reader,
               Same
<1>2. UNCHANGED <<binding, caller, entries, replyTo, life, reader, requests,
                  service, replies, hit>>
  BY DEF rpcVars, server, network
<1>3. QED
  BY <1>1, <1>2, CallersKept, UnaskedKept, QuietStep, CallAssumption

LEMMA RpcStepPreserves == RInv /\ [RpcNext]_rpcVars => RInv'
<1> SUFFICES ASSUME RInv, [RpcNext]_rpcVars PROVE RInv'
  OBVIOUS
<1>1. ASSUME NEW c \in Calls,
             \/ Begin(c) \/ ListenReturns(c) \/ ClientStep(c)
             \/ Timeout(c) \/ NextItem(c) \/ Leave(c) \/ RepeatRequest(c)
      PROVE  RInv'
  BY <1>1, BeginPreserves, ListenReturnsPreserves, TrackPreserves,
     DeliverPreserves, DeliveryEndsPreserves, TimeoutPreserves,
     NextItemPreserves, LeavePreserves, RepeatRequestPreserves DEF ClientStep
<1>2. ASSUME NEW p \in Paths, Reattach(p) \/ HandleReply(p) \/ LoseReply(p)
      PROVE  RInv'
  BY <1>2, ReattachPreserves, HandleReplyPreserves, LoseReplyPreserves
<1>3. ASSUME ServiceStep PROVE RInv'
  BY <1>3, TakeRequestPreserves, HandlerGoesOnPreserves,
     ServiceAnswersPreserves DEF ServiceStep
<1>4. ASSUME \/ LoseRequest \/ RefuseRequest \/ ServiceRestarts
             \/ StopBegins \/ StopStep
      PROVE  RInv'
  BY <1>4, LoseRequestPreserves, RefuseRequestPreserves,
     ServiceRestartsPreserves, StopBeginsPreserves, ServiceEndsPreserves,
     CleanUpPreserves DEF StopStep
<1>5. CASE UNCHANGED rpcVars
  BY <1>5, RpcStutter
<1>6. QED
  BY <1>1, <1>2, <1>3, <1>4, <1>5 DEF RpcNext

(* The invariant holds for all calls, items, paths and numbers of faults.  *)
THEOREM RpcInductive == RpcSpec => []RInv
BY RpcInitEstablishes, RpcStepPreserves, PTL DEF RpcSpec

(* The types of the client manager, the reply listener and the service.    *)
THEOREM RpcTypes == RpcSpec => []RpcTypeOK
<1>1. RInv => RpcTypeOK
  BY Known
<1>2. QED
  BY <1>1, RpcInductive, PTL

(* A call that has not been settled is in both maps of the client manager, *)
(* with its timer or with an item of its stream, and nobody waits in       *)
(* next() for an iterator that is closed or has an item buffered.          *)
THEOREM OpenCallsPend == RpcSpec => []OpenIsPending
<1>1. RInv => OpenIsPending
  BY DEF RInv
<1>2. QED
  BY <1>1, RpcInductive, PTL

(* A consumer of a stream that reads the end has read every item of the    *)
(* last run of the handler, whatever was repeated or restarted before,     *)
(* unless a message of the stream was lost.                                *)
THEOREM StreamsComplete == RpcSpec => []EndMeansComplete
<1>1. RInv => EndMeansComplete
  BY Known DEF EndMeansComplete, Come, Complete
<1>2. QED
  BY <1>1, RpcInductive, PTL

(* A call that was begun since the last attachment asks for its reply      *)
(* where a loop polls.                                                     *)
THEOREM RepliesAreHeard == RpcSpec => []ReplyAddressHeard
<1>1. RInv => ReplyAddressHeard
  BY Known DEF ReplyAddressHeard, Heard, Listens, RpcTypeOK
<1>2. QED
  BY <1>1, RpcInductive, PTL
=============================================================================
