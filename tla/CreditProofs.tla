---------------------------- MODULE CreditProofs ----------------------------
(* Theorems about FlowController, for every window size, every set of      *)
(* flows and callers, and every bound; and about CreditLink, for every     *)
(* number of connectors, routes and flows.                                 *)
EXTENDS FlowController, CreditLink, SequenceTheorems, FiniteSetTheorems, TLAPS

(* Clamping keeps a balance inside the window, and never invents more than *)
(* the credits that were added.                                            *)
LEMMA ClampedRange ==
  ASSUME NEW n \in Int
  PROVE  Clamped(n) \in 0 .. InitialWindow
BY WindowAssumption DEF Clamped, GreatestOf, LeastOf

LEMMA ClampedGain ==
  ASSUME NEW b \in 0 .. InitialWindow, NEW d \in Int
  PROVE  Clamped(b + d) <= b + GreatestOf(0, d)
BY WindowAssumption DEF Clamped, GreatestOf, LeastOf

LEMMA InitEstablishes == Init => IInv
<1> SUFFICES ASSUME Init PROVE IInv
  OBVIOUS
<1>1. TypeOK
  <2>1. NoEnvelope \in [id : Nat \cup {NoWindow}, flags : Flags]
    BY DEF NoEnvelope, NoWindow, Flags
  <2>2. InitialWindow \in Nat /\ InitialWindow \in 0 .. InitialWindow
    BY WindowAssumption
  <2>3. /\ stream \in [Flows -> [id : Nat \cup {NoWindow}, flags : Flags]]
        /\ windowIds \in [Flows -> Nat \cup {NoWindow}]
        /\ resetRequested \in SUBSET Flows
    BY <2>1 DEF Init
  <2>4. /\ credits \in [Flows -> 0 .. InitialWindow]
        /\ supplied \in [Flows -> Nat] /\ taken \in [Flows -> Nat]
    BY <2>2 DEF Init
  <2>5. /\ waiters \in [Flows -> SUBSET Callers]
        /\ woken \in [Flows -> SUBSET Callers]
        /\ notifiers \in SUBSET Flows
    BY DEF Init
  <2>6. QED
    BY <2>3, <2>4, <2>5 DEF TypeOK
<1>2. NoLostWakeup
  BY DEF Init, NoLostWakeup
<1>3. NoOverdraw
  <2>1. \A f \in Flows : taken[f] + credits[f] = 0 + InitialWindow
                         /\ supplied[f] = InitialWindow
    BY DEF Init
  <2>2. 0 + InitialWindow <= InitialWindow
    BY WindowAssumption
  <2>3. QED
    BY <2>1, <2>2 DEF NoOverdraw
<1>4. OneSuspension
  BY DEF Init, OneSuspension, Blocked
<1>5. QED
  BY <1>1, <1>2, <1>3, <1>4 DEF IInv

(* The window half of the state: the four operations on credits leave it   *)
(* alone, and the two operations on windows leave the waiters alone.       *)
LEMMA AddCreditsPreserves ==
  ASSUME IInv, NEW f \in Flows, NEW d \in Deltas, AddCredits(f, d)
  PROVE  IInv'
<1> DEFINE b == Clamped(credits[f] + d)
<1>1. d \in Int /\ credits[f] \in 0 .. InitialWindow
  BY DeltaAssumption DEF IInv, TypeOK
<1>2. b \in 0 .. InitialWindow
  BY <1>1, ClampedRange
<1>3. b <= credits[f] + GreatestOf(0, d)
  BY <1>1, ClampedGain
<1>4. GreatestOf(0, d) \in Nat
  BY <1>1 DEF GreatestOf
<1> HIDE DEF b
<1>5. TypeOK'
  BY <1>2, <1>4 DEF b, IInv, TypeOK, AddCredits, WakeWaiters, windowVars
<1>6. NoLostWakeup'
  BY <1>2 DEF b, IInv, TypeOK, NoLostWakeup, AddCredits, WakeWaiters
<1>7. NoOverdraw'
  BY <1>1, <1>2, <1>3, <1>4 DEF b, IInv, TypeOK, NoOverdraw, AddCredits
<1>8. OneSuspension'
  BY DEF IInv, OneSuspension, Blocked, AddCredits
<1>9. QED
  BY <1>5, <1>6, <1>7, <1>8 DEF IInv

LEMMA NotifyPreserves ==
  ASSUME IInv, NEW f \in Flows, Notify(f)
  PROVE  IInv'
<1>1. TypeOK'
  BY DEF IInv, TypeOK, Notify, windowVars
<1>2. NoLostWakeup'
  BY DEF IInv, TypeOK, NoLostWakeup, Notify
<1>3. NoOverdraw'
  BY DEF IInv, NoOverdraw, Notify
<1>4. OneSuspension'
  BY DEF IInv, TypeOK, OneSuspension, Blocked, Notify
<1>5. QED
  BY <1>1, <1>2, <1>3, <1>4 DEF IInv

LEMMA AcquirePreserves ==
  ASSUME IInv, NEW f \in Flows, NEW c \in Callers, Acquire(c, f)
  PROVE  IInv'
<1>1. CASE credits[f] > 0
  <2>1. /\ credits' = [credits EXCEPT ![f] = @ - 1]
        /\ taken'   = [taken EXCEPT ![f] = @ + 1]
        /\ UNCHANGED <<waiters, woken, notifiers, supplied>>
        /\ UNCHANGED windowVars
    BY <1>1 DEF IInv, TypeOK, Acquire, TakeCredit
  <2>2. TypeOK'
    <3>1. credits[f] - 1 \in 0 .. InitialWindow /\ taken[f] + 1 \in Nat
      BY <1>1, WindowAssumption DEF IInv, TypeOK
    <3>2. QED
      BY <2>1, <3>1 DEF IInv, TypeOK, windowVars
  <2>3. NoLostWakeup' /\ NoOverdraw'
    BY <1>1, <2>1 DEF IInv, TypeOK, NoLostWakeup, NoOverdraw
  <2>4. OneSuspension'
    BY <2>1 DEF IInv, OneSuspension, Blocked
  <2>5. QED
    BY <2>2, <2>3, <2>4 DEF IInv
<1>2. CASE credits[f] <= 0
  <2>1. /\ waiters' = [waiters EXCEPT ![f] = @ \cup {c}]
        /\ UNCHANGED <<credits, taken, woken, notifiers, supplied>>
        /\ UNCHANGED windowVars
    BY <1>2 DEF IInv, TypeOK, Acquire
  <2>2. TypeOK'
    BY <2>1 DEF IInv, TypeOK, windowVars
  <2>3. NoLostWakeup' /\ NoOverdraw'
    BY <1>2, <2>1 DEF IInv, TypeOK, NoLostWakeup, NoOverdraw
  <2>4. OneSuspension'
    BY <2>1 DEF IInv, TypeOK, OneSuspension, Blocked, Idle, Acquire
  <2>5. QED
    BY <2>2, <2>3, <2>4 DEF IInv
<1>3. QED
  BY <1>1, <1>2, WindowAssumption DEF IInv, TypeOK

LEMMA ResumePreserves ==
  ASSUME IInv, NEW f \in Flows, NEW c \in Callers, Resume(c, f)
  PROVE  IInv'
<1>1. TypeOK'
  BY WindowAssumption DEF IInv, TypeOK, Resume, TakeCredit, windowVars
<1>2. NoLostWakeup'
  BY WindowAssumption DEF IInv, TypeOK, NoLostWakeup, Resume, TakeCredit
<1>3. NoOverdraw'
  BY WindowAssumption DEF IInv, TypeOK, NoOverdraw, Resume, TakeCredit
<1>4. OneSuspension'
  BY DEF IInv, TypeOK, OneSuspension, Blocked, Resume, TakeCredit
<1>5. QED
  BY <1>1, <1>2, <1>3, <1>4 DEF IInv

LEMMA ConsumePreserves ==
  ASSUME IInv, NEW f \in Flows, NEW n \in 1 .. InitialWindow, Consume(f, n)
  PROVE  IInv'
<1>1. TypeOK'
  BY WindowAssumption DEF IInv, TypeOK, Consume, GreatestOf, windowVars
<1>2. NoLostWakeup'
  BY WindowAssumption DEF IInv, TypeOK, NoLostWakeup, Consume, GreatestOf
<1>3. NoOverdraw'
  BY WindowAssumption DEF IInv, TypeOK, NoOverdraw, Consume, GreatestOf
<1>4. OneSuspension'
  BY DEF IInv, OneSuspension, Blocked, Consume
<1>5. QED
  BY <1>1, <1>2, <1>3, <1>4 DEF IInv

LEMMA ResetFlowPreserves ==
  ASSUME IInv, NEW f \in Flows, ResetFlow(f)
  PROVE  IInv'
<1>1. TypeOK'
  BY WindowAssumption DEF IInv, TypeOK, ResetFlow, WakeWaiters, NoWindow
<1>2. NoLostWakeup'
  BY WindowAssumption DEF IInv, TypeOK, NoLostWakeup, ResetFlow, WakeWaiters
<1>3. NoOverdraw'
  BY WindowAssumption DEF IInv, TypeOK, NoOverdraw, ResetFlow
<1>4. OneSuspension'
  BY DEF IInv, OneSuspension, Blocked, ResetFlow
<1>5. QED
  BY <1>1, <1>2, <1>3, <1>4 DEF IInv

LEMMA NextWindowPreserves ==
  ASSUME IInv, NEW f \in Flows, NextWindow(f)
  PROVE  IInv'
<1>1. TypeOK'
  BY DEF IInv, TypeOK, NextWindow, Emit, NoWindow, Flags, creditVars
<1>2. NoLostWakeup' /\ NoOverdraw' /\ OneSuspension'
  BY DEF IInv, NoLostWakeup, NoOverdraw, OneSuspension, Blocked,
         NextWindow, creditVars
<1>3. QED
  BY <1>1, <1>2 DEF IInv

LEMMA StepPreserves == IInv /\ [Next]_vars => IInv'
<1> SUFFICES ASSUME IInv, [Next]_vars PROVE IInv'
  OBVIOUS
<1>1. ASSUME NEW f \in Flows, NEW d \in Deltas, AddCredits(f, d)
      PROVE  IInv'
  BY <1>1, AddCreditsPreserves
<1>2. ASSUME NEW f \in Flows, Notify(f)
      PROVE  IInv'
  BY <1>2, NotifyPreserves
<1>3. ASSUME NEW f \in Flows, NEW c \in Callers, Acquire(c, f)
      PROVE  IInv'
  BY <1>3, AcquirePreserves
<1>4. ASSUME NEW f \in Flows, NEW c \in Callers, Resume(c, f)
      PROVE  IInv'
  BY <1>4, ResumePreserves
<1>5. ASSUME NEW f \in Flows, NEW n \in 1 .. InitialWindow, Consume(f, n)
      PROVE  IInv'
  BY <1>5, ConsumePreserves
<1>6. ASSUME NEW f \in Flows, ResetFlow(f)
      PROVE  IInv'
  BY <1>6, ResetFlowPreserves
<1>7. ASSUME NEW f \in Flows, NextWindow(f)
      PROVE  IInv'
  BY <1>7, NextWindowPreserves
<1>8. CASE UNCHANGED vars
  BY <1>8 DEF vars, IInv, TypeOK, NoLostWakeup, NoOverdraw, OneSuspension,
              Blocked
<1>9. QED
  BY <1>1, <1>2, <1>3, <1>4, <1>5, <1>6, <1>7, <1>8 DEF Next

(* The strengthening is inductive.                                         *)
THEOREM Inductive == Spec => []IInv
<1>1. Init => IInv
  BY InitEstablishes
<1>2. IInv /\ [Next]_vars => IInv'
  BY StepPreserves
<1>3. QED
  BY <1>1, <1>2, PTL DEF Spec

(* Every balance stays within the window, whatever deltas peers send.      *)
THEOREM TypeCorrect == Spec => []TypeOK
<1>1. IInv => TypeOK
  BY DEF IInv
<1>2. QED
  BY <1>1, Inductive, PTL

(* The debounced notifier never loses a wake-up.                           *)
THEOREM WakeupsKept == Spec => []NoLostWakeup
<1>1. IInv => NoLostWakeup
  BY DEF IInv
<1>2. QED
  BY <1>1, Inductive, PTL

(* acquire() hands out only credits that were supplied.                    *)
THEOREM CreditsBacked == Spec => []NoOverdraw
<1>1. IInv => NoOverdraw
  BY DEF IInv
<1>2. QED
  BY <1>1, Inductive, PTL
-----------------------------------------------------------------------------
(* Emitting a window touches one flow.                                     *)
LEMMA EmitFrame ==
  ASSUME TypeOK, NEW f \in Flows, NEW id, NEW flags, Emit(f, id, flags)
  PROVE  /\ \A g \in Flows :
              g # f => windowIds'[g] = windowIds[g] /\ stream'[g] = stream[g]
         /\ windowIds'[f] = id
         /\ stream'[f] = [id |-> id, flags |-> flags]
BY DEF TypeOK, Emit

(* nextWindow() emits one of three kinds of window on its flow.            *)
NewWindow(f) ==
  \/ stream'[f] = [id |-> 0, flags |-> {"RESET", "SYN"}]
  \/ /\ f \notin resetRequested /\ windowIds[f] = NoWindow
     /\ stream'[f] = [id |-> 0, flags |-> {"SYN"}]
  \/ /\ windowIds[f] # NoWindow
     /\ stream'[f] = [id |-> windowIds[f] + 1, flags |-> {}]

LEMMA NextWindowCases ==
  ASSUME TypeOK, NEW f \in Flows, NextWindow(f)
  PROVE  /\ \A g \in Flows :
              g # f => /\ windowIds'[g] = windowIds[g]
                       /\ stream'[g] = stream[g]
                       /\ (g \in resetRequested') = (g \in resetRequested)
         /\ windowIds'[f] = stream'[f].id
         /\ windowIds'[f] \in Nat
         /\ NewWindow(f)
<1>1. CASE f \in resetRequested
  <2>1. Emit(f, 0, {"RESET", "SYN"}) /\ resetRequested' = resetRequested \ {f}
    BY <1>1 DEF NextWindow
  <2>2. /\ \A g \in Flows :
             g # f => windowIds'[g] = windowIds[g] /\ stream'[g] = stream[g]
        /\ windowIds'[f] = 0
        /\ stream'[f] = [id |-> 0, flags |-> {"RESET", "SYN"}]
    BY <2>1 DEF TypeOK, Emit
  <2>3. \A g \in Flows :
          g # f => (g \in resetRequested') = (g \in resetRequested)
    BY <2>1
  <2>4. QED
    BY <2>2, <2>3 DEF NewWindow
<1>2. CASE f \notin resetRequested /\ windowIds[f] = NoWindow
  <2>1. Emit(f, 0, {"SYN"}) /\ resetRequested' = resetRequested
    BY <1>2 DEF NextWindow
  <2>2. QED
    BY <1>2, <2>1, EmitFrame DEF NewWindow
<1>3. CASE f \notin resetRequested /\ windowIds[f] # NoWindow
  <2>1. Emit(f, windowIds[f] + 1, {}) /\ resetRequested' = resetRequested
    BY <1>3 DEF NextWindow
  <2>2. windowIds[f] + 1 \in Nat
    BY <1>3 DEF TypeOK
  <2>3. QED
    BY <1>3, <2>1, <2>2, EmitFrame DEF NewWindow
<1>4. QED
  BY <1>1, <1>2, <1>3

LEMMA WindowsTrackedInductive == Spec => [](TypeOK /\ WindowsTracked)
<1>1. Init => WindowsTracked
  BY DEF Init, WindowsTracked
<1>2. ASSUME TypeOK, TypeOK', WindowsTracked, [Next]_vars
      PROVE  WindowsTracked'
  <2>1. ASSUME NEW f \in Flows, ResetFlow(f)
        PROVE  WindowsTracked'
    BY <1>2, <2>1 DEF TypeOK, WindowsTracked, ResetFlow
  <2>2. ASSUME NEW f \in Flows, NextWindow(f)
        PROVE  WindowsTracked'
    <3> SUFFICES ASSUME NEW g \in Flows
                 PROVE  /\ windowIds'[g] # NoWindow =>
                             stream'[g] # NoEnvelope /\ windowIds'[g] = stream'[g].id
                        /\ windowIds'[g] = NoWindow /\ g \notin resetRequested' =>
                             stream'[g] = NoEnvelope
      BY DEF WindowsTracked
    <3>1. CASE g = f
      <4>1. windowIds'[f] = stream'[f].id /\ windowIds'[f] \in Nat
        BY <1>2, <2>2, NextWindowCases
      <4>2. stream'[f].id # NoEnvelope.id
        BY <4>1 DEF NoEnvelope, NoWindow
      <4>3. QED
        BY <3>1, <4>1, <4>2 DEF NoWindow
    <3>2. CASE g # f
      BY <1>2, <2>2, <3>2, NextWindowCases DEF WindowsTracked
    <3>3. QED
      BY <3>1, <3>2
  <2>3. ASSUME UNCHANGED windowVars
        PROVE  WindowsTracked'
    BY <1>2, <2>3 DEF WindowsTracked, windowVars
  <2>4. CASE UNCHANGED vars
    BY <2>3, <2>4 DEF vars, windowVars
  <2>5. ASSUME NEW f \in Flows,
               \/ \E d \in Deltas : AddCredits(f, d)
               \/ Notify(f)
               \/ \E c \in Callers : Acquire(c, f) \/ Resume(c, f)
               \/ \E n \in 1 .. InitialWindow : Consume(f, n)
        PROVE  UNCHANGED windowVars
    BY <2>5 DEF AddCredits, Notify, Acquire, Resume, Consume
  <2>6. QED
    BY <1>2, <2>1, <2>2, <2>3, <2>4, <2>5 DEF Next
<1>3. QED
  BY <1>1, <1>2, TypeCorrect, PTL DEF Spec

(* The stream of window ids is well formed in every interleaving of        *)
(* resetFlow() and nextWindow().                                           *)
THEOREM StreamsWellFormed == Spec => StreamWellFormed
<1>1. ASSUME TypeOK, WindowsTracked, [Next]_vars
      PROVE  [WellFormedStep]_vars
  <2>1. ASSUME NEW f \in Flows, NextWindow(f)
        PROVE  WellFormedStep
    <3> SUFFICES ASSUME NEW g \in Flows, stream'[g] # stream[g]
                 PROVE  \/ /\ stream[g] # NoEnvelope
                           /\ stream'[g] = [id |-> stream[g].id + 1, flags |-> {}]
                        \/ stream'[g] = [id |-> 0, flags |-> {"RESET", "SYN"}]
                        \/ /\ stream[g] = NoEnvelope
                           /\ stream'[g] = [id |-> 0, flags |-> {"SYN"}]
      BY DEF WellFormedStep
    <3>1. g = f
      BY <1>1, <2>1, NextWindowCases
    <3>2. CASE stream'[f] = [id |-> 0, flags |-> {"RESET", "SYN"}]
      BY <3>1, <3>2
    <3>3. CASE /\ f \notin resetRequested /\ windowIds[f] = NoWindow
               /\ stream'[f] = [id |-> 0, flags |-> {"SYN"}]
      BY <1>1, <3>1, <3>3 DEF WindowsTracked
    <3>4. CASE /\ windowIds[f] # NoWindow
               /\ stream'[f] = [id |-> windowIds[f] + 1, flags |-> {}]
      BY <1>1, <3>1, <3>4 DEF WindowsTracked
    <3>5. QED
      BY <1>1, <2>1, <3>2, <3>3, <3>4, NextWindowCases DEF NewWindow
  <2>2. ASSUME UNCHANGED stream
        PROVE  WellFormedStep
    BY <2>2 DEF WellFormedStep
  <2>3. ASSUME NEW f \in Flows,
               \/ \E d \in Deltas : AddCredits(f, d)
               \/ Notify(f)
               \/ \E c \in Callers : Acquire(c, f) \/ Resume(c, f)
               \/ \E n \in 1 .. InitialWindow : Consume(f, n)
               \/ ResetFlow(f)
        PROVE  UNCHANGED stream
    BY <2>3 DEF AddCredits, Notify, Acquire, Resume, Consume, ResetFlow,
                windowVars
  <2>4. QED
    BY <1>1, <2>1, <2>2, <2>3 DEF Next, vars
<1>2. QED
  BY <1>1, WindowsTrackedInductive, PTL DEF Spec, StreamWellFormed
-----------------------------------------------------------------------------
(* Every step of the controller is a step of the abstract pool or leaves   *)
(* it alone: the notifier and the wait queue are invisible to callers.     *)
THEOREM Refines == Spec => ImplementsPool
<1> USE DEF Pool!vars
<1>1. Init => Pool!Init
  BY DEF Init, Pool!Init, Blocked
<1>2. ASSUME IInv, [Next]_vars
      PROVE  [Pool!Next]_(Pool!vars)
  <2>1. ASSUME NEW f \in Flows, UNCHANGED <<waiters, woken>>,
               NEW n \in 0 .. InitialWindow,
               credits' = [credits EXCEPT ![f] = n]
        PROVE  Pool!Next
    BY <2>1 DEF Pool!Next, Pool!Adjust, Blocked
  <2>2. ASSUME NEW f \in Flows, NEW d \in Deltas, AddCredits(f, d)
        PROVE  Pool!Next
    <3>1. Clamped(credits[f] + d) \in 0 .. InitialWindow
      BY <1>2, ClampedRange, DeltaAssumption DEF IInv, TypeOK
    <3>2. QED
      BY <2>1, <2>2, <3>1 DEF AddCredits
  <2>3. ASSUME NEW f \in Flows, Notify(f)
        PROVE  UNCHANGED Pool!vars
    <3>1. \A g \in Flows : Blocked(g)' = Blocked(g)
      BY <1>2, <2>3 DEF IInv, TypeOK, Notify, Blocked
    <3>2. QED
      BY <2>3, <3>1 DEF Notify
  <2>4. ASSUME NEW f \in Flows, NEW c \in Callers, Acquire(c, f)
        PROVE  Pool!Next
    <3>1. CASE credits[f] > 0
      <4>1. /\ UNCHANGED <<waiters, woken>>
            /\ credits' = [credits EXCEPT ![f] = @ - 1]
        BY <1>2, <2>4, <3>1 DEF IInv, TypeOK, Acquire, TakeCredit
      <4>2. credits[f] - 1 \in 0 .. InitialWindow
        BY <1>2, <3>1, WindowAssumption DEF IInv, TypeOK
      <4>3. QED
        BY <2>1, <4>1, <4>2
    <3>2. CASE credits[f] <= 0
      <4>1. /\ waiters' = [waiters EXCEPT ![f] = @ \cup {c}]
            /\ UNCHANGED <<credits, woken>>
        BY <1>2, <2>4, <3>2 DEF IInv, TypeOK, Acquire
      <4>2. credits[f] = 0
        BY <1>2, <3>2, WindowAssumption DEF IInv, TypeOK
      <4>3. [g \in Flows |-> Blocked(g)]'
              = [[g \in Flows |-> Blocked(g)] EXCEPT ![f] = @ \cup {c}]
        BY <1>2, <4>1 DEF IInv, TypeOK, Blocked
      <4>4. \A g \in Flows : c \notin Blocked(g)
        BY <2>4 DEF Acquire, Idle
      <4>5. Pool!Block(f, c)
        BY <4>1, <4>2, <4>3, <4>4 DEF Pool!Block
      <4>6. QED
        BY <4>5 DEF Pool!Next
    <3>3. QED
      BY <1>2, <3>1, <3>2, WindowAssumption DEF IInv, TypeOK
  <2>5. ASSUME NEW f \in Flows, NEW c \in Callers, Resume(c, f)
        PROVE  Pool!Next \/ UNCHANGED Pool!vars
    <3>1. CASE credits[f] > 0
      <4>1. /\ c \in woken[f]
            /\ woken' = [woken EXCEPT ![f] = @ \ {c}]
            /\ credits' = [credits EXCEPT ![f] = @ - 1]
            /\ UNCHANGED waiters
        BY <1>2, <2>5, <3>1 DEF IInv, TypeOK, Resume, TakeCredit
      <4>2. \A g \in Flows : c \notin waiters[f] /\ (g # f => c \notin Blocked(g))
        BY <1>2, <4>1 DEF IInv, TypeOK, OneSuspension, Blocked
      <4>3. [g \in Flows |-> Blocked(g)]'
              = [[g \in Flows |-> Blocked(g)] EXCEPT ![f] = @ \ {c}]
        <5>1. \A g \in Flows : Blocked(g)' = IF g = f THEN Blocked(g) \ {c}
                                                     ELSE Blocked(g)
          BY <1>2, <4>1, <4>2 DEF IInv, TypeOK, Blocked
        <5>2. QED
          BY <5>1
      <4>4. Pool!Take(f, c)
        BY <3>1, <4>1, <4>2, <4>3 DEF Pool!Take
      <4>5. QED
        BY <4>4 DEF Pool!Next
    <3>2. CASE credits[f] <= 0
      <4>1. /\ c \in woken[f]
            /\ woken' = [woken EXCEPT ![f] = @ \ {c}]
            /\ waiters' = [waiters EXCEPT ![f] = @ \cup {c}]
            /\ UNCHANGED credits
        BY <1>2, <2>5, <3>2 DEF IInv, TypeOK, Resume
      <4>2. \A g \in Flows : Blocked(g)' = Blocked(g)
        BY <1>2, <4>1 DEF IInv, TypeOK, Blocked
      <4>3. QED
        BY <4>1, <4>2
    <3>3. QED
      BY <1>2, <3>1, <3>2, WindowAssumption DEF IInv, TypeOK
  <2>6. ASSUME NEW f \in Flows, NEW n \in 1 .. InitialWindow, Consume(f, n)
        PROVE  Pool!Next
    <3>1. GreatestOf(credits[f] - n, 0) \in 0 .. InitialWindow
      BY <1>2, WindowAssumption DEF IInv, TypeOK, GreatestOf
    <3>2. QED
      BY <2>1, <2>6, <3>1 DEF Consume
  <2>7. ASSUME NEW f \in Flows, ResetFlow(f)
        PROVE  Pool!Next
    <3>1. InitialWindow \in 0 .. InitialWindow
      BY WindowAssumption
    <3>2. QED
      BY <2>1, <2>7, <3>1 DEF ResetFlow
  <2>8. ASSUME NEW f \in Flows, NextWindow(f)
        PROVE  UNCHANGED Pool!vars
    BY <2>8 DEF NextWindow, creditVars, Blocked
  <2>9. CASE UNCHANGED vars
    BY <2>9 DEF vars, Blocked
  <2>10. QED
    BY <1>2, <2>2, <2>3, <2>4, <2>5, <2>6, <2>7, <2>8, <2>9 DEF Next
<1>3. QED
  BY <1>1, <1>2, Inductive, PTL DEF Spec, ImplementsPool, Pool!Spec
-----------------------------------------------------------------------------
(* CreditLink.  What is on a wire, and how much of it.                     *)
Contains(s, m)  == \E i \in 1 .. Len(s) : s[i] = m
DataCount(f, s) == Cardinality({i \in 1 .. Len(s) : s[i] = Data(f)})

(* The receive loop of e has an envelope of flow f in hand.                *)
Held(e, f) == recv[e].step # "receiving" /\ recv[e].flow = f
InHand(e, f) == IF Held(e, f) THEN 1 ELSE 0

(* What is on its way was sent by an end that carries it, and is granted   *)
(* and forwarded accordingly.                                              *)
CarriedOK(carries) ==
  /\ \A e \in Ends, f \in Flows :
       /\ Contains(wire[e], Data(f)) => f \in carries[e]
       /\ Contains(wire[e], Credit(f)) => f \in carries[Peer[e]]
       /\ Held(e, f) => f \in carries[Peer[e]]
  /\ \A e \in Ends : At(e, "handling") => recv[e].to \in Route[e]

(* The receiving side always has credits: it grants before it runs dry.    *)
GrantsInTime(carries) ==
  \A e \in Ends : \A f \in carries[e] : balances[Peer[e]][f] > 0

(* Unless a grant is on its way, the sender's balance and what it has sent *)
(* that is not settled yet cover the receiver's balance.                   *)
Covered(e, f) ==
  balances[e][f] + DataCount(f, wire[e]) + InHand(Peer[e], f)
    >= balances[Peer[e]][f]
NoDrift(carries) ==
  \A e \in Ends : \A f \in carries[e] \ Oversized :
    Contains(wire[Peer[e]], Credit(f)) \/ Covered(e, f)

LinkInv(carries) ==
  /\ LinkTypeOK
  /\ CarriedOK(carries)
  /\ GrantsInTime(carries)
  /\ NoDrift(carries)

LEMMA MessageKinds ==
  ASSUME NEW f, NEW g
  PROVE  /\ Data(f) # Credit(g)
         /\ (Data(f) = Data(g)) <=> (f = g)
         /\ (Credit(f) = Credit(g)) <=> (f = g)
<1>1. Data(f).kind = "data" /\ Data(f).flow = f /\ Data(g).flow = g
  BY DEF Data
<1>2. Credit(g).kind = "credit" /\ Credit(f).flow = f /\ Credit(g).flow = g
  BY DEF Credit
<1>3. QED
  BY <1>1, <1>2

LEMMA MessageForms ==
  ASSUME NEW m \in Messages
  PROVE  /\ m.flow \in Flows
         /\ m.kind = "credit" => m = Credit(m.flow)
         /\ m.kind # "credit" => m = Data(m.flow)
BY DEF Messages, Kinds, Data, Credit

LEMMA DataAndCredit ==
  ASSUME NEW f \in Flows
  PROVE  Data(f) \in Messages /\ Credit(f) \in Messages
BY DEF Messages, Kinds, Data, Credit

LEMMA ContainsAppend ==
  ASSUME NEW s \in Seq(Messages), NEW m \in Messages, NEW x
  PROVE  Contains(Append(s, m), x) <=> (Contains(s, x) \/ x = m)
<1>1. Len(Append(s, m)) = Len(s) + 1 /\ Len(s) \in Nat
  OBVIOUS
<1>2. \A i \in 1 .. Len(s) : Append(s, m)[i] = s[i]
  OBVIOUS
<1>3. Append(s, m)[Len(s) + 1] = m
  OBVIOUS
<1>4. QED
  BY <1>1, <1>2, <1>3 DEF Contains

LEMMA ContainsTail ==
  ASSUME NEW s \in Seq(Messages), s # <<>>, NEW x
  PROVE  Contains(s, x) <=> (Contains(Tail(s), x) \/ x = Head(s))
<1>1. Len(s) \in Nat \ {0} /\ Len(Tail(s)) = Len(s) - 1 /\ Head(s) = s[1]
  OBVIOUS
<1>2. \A i \in 1 .. (Len(s) - 1) : Tail(s)[i] = s[i + 1]
  OBVIOUS
<1>3. ASSUME NEW i \in 1 .. Len(s), s[i] = x, i # 1
      PROVE  Contains(Tail(s), x)
  <2>1. i - 1 \in 1 .. (Len(s) - 1) /\ (i - 1) + 1 = i
    BY <1>1, <1>3
  <2>2. QED
    BY <1>1, <1>2, <1>3, <2>1 DEF Contains
<1>4. ASSUME NEW i \in 1 .. Len(Tail(s)), Tail(s)[i] = x
      PROVE  Contains(s, x)
  <2>1. i + 1 \in 1 .. Len(s) /\ s[i + 1] = x
    BY <1>1, <1>2, <1>4
  <2>2. QED
    BY <2>1 DEF Contains
<1>5. ASSUME x = Head(s)
      PROVE  Contains(s, x)
  BY <1>1, <1>5 DEF Contains
<1>6. QED
  BY <1>1, <1>3, <1>4, <1>5 DEF Contains

LEMMA DataIndices ==
  ASSUME NEW s \in Seq(Messages), NEW f
  PROVE  /\ IsFiniteSet({i \in 1 .. Len(s) : s[i] = Data(f)})
         /\ DataCount(f, s) \in Nat
<1>1. IsFiniteSet(1 .. Len(s))
  BY FS_Interval
<1>2. IsFiniteSet({i \in 1 .. Len(s) : s[i] = Data(f)})
  BY <1>1, FS_Subset
<1>3. QED
  BY <1>2, FS_CardinalityType DEF DataCount

LEMMA DataCountEmpty ==
  ASSUME NEW f
  PROVE  DataCount(f, << >>) = 0
<1>1. {i \in 1 .. Len(<< >>) : << >>[i] = Data(f)} = {}
  OBVIOUS
<1>2. QED
  BY <1>1, FS_EmptySet DEF DataCount

LEMMA DataCountAppend ==
  ASSUME NEW s \in Seq(Messages), NEW m \in Messages, NEW f
  PROVE  DataCount(f, Append(s, m)) =
           DataCount(f, s) + (IF m = Data(f) THEN 1 ELSE 0)
<1> DEFINE Old == {i \in 1 .. Len(s) : s[i] = Data(f)}
           New == {i \in 1 .. Len(Append(s, m)) : Append(s, m)[i] = Data(f)}
<1>1. Len(Append(s, m)) = Len(s) + 1 /\ Len(s) \in Nat
  OBVIOUS
<1>2. \A i \in 1 .. Len(s) : Append(s, m)[i] = s[i]
  OBVIOUS
<1>3. Append(s, m)[Len(s) + 1] = m
  OBVIOUS
<1>4. IsFiniteSet(Old) /\ Cardinality(Old) \in Nat
  BY DataIndices DEF DataCount
<1> DataCount(f, s) = Cardinality(Old)
  BY DEF DataCount
<1> DataCount(f, Append(s, m)) = Cardinality(New)
  BY DEF DataCount
<1>5. CASE m = Data(f)
  <2>1. New = Old \cup {Len(s) + 1}
    BY <1>1, <1>2, <1>3, <1>5
  <2>2. Len(s) + 1 \notin Old
    BY <1>1
  <2>3. Cardinality(New) = Cardinality(Old) + 1
    BY <1>4, <2>1, <2>2, FS_AddElement
  <2> HIDE DEF Old, New
  <2>4. QED
    BY <1>5, <2>3
<1>6. CASE m # Data(f)
  <2>1. New = Old
    BY <1>1, <1>2, <1>3, <1>6
  <2> HIDE DEF Old, New
  <2>2. QED
    BY <1>4, <1>6, <2>1
<1>7. QED
  BY <1>5, <1>6

LEMMA DataCountTail ==
  ASSUME NEW s \in Seq(Messages), s # <<>>, NEW f
  PROVE  DataCount(f, Tail(s)) =
           DataCount(f, s) - (IF Head(s) = Data(f) THEN 1 ELSE 0)
<1> DEFINE Old == {i \in 1 .. Len(s) : s[i] = Data(f)}
           Rest == {i \in 1 .. Len(Tail(s)) : Tail(s)[i] = Data(f)}
           shift == [i \in Rest |-> i + 1]
<1>1. Len(s) \in Nat \ {0} /\ Len(Tail(s)) = Len(s) - 1 /\ Head(s) = s[1]
  OBVIOUS
<1>2. \A i \in 1 .. (Len(s) - 1) : Tail(s)[i] = s[i + 1]
  OBVIOUS
<1>3. Tail(s) \in Seq(Messages)
  OBVIOUS
<1>4. IsFiniteSet(Old) /\ Cardinality(Old) \in Nat
  BY DataIndices DEF DataCount
<1>5. IsFiniteSet(Rest)
  BY <1>3, DataIndices
<1>6. shift \in Bijection(Rest, Old \ {1})
  <2>1. \A i \in Rest : i + 1 \in Old \ {1}
    BY <1>1, <1>2
  <2>2. \A i, j \in Rest : i + 1 = j + 1 => i = j
    BY <1>1
  <2>3. ASSUME NEW j \in Old \ {1}
        PROVE  \E i \in Rest : shift[i] = j
    <3>1. j - 1 \in 1 .. (Len(s) - 1) /\ (j - 1) + 1 = j
      BY <1>1
    <3>2. j - 1 \in Rest
      BY <1>1, <1>2, <3>1
    <3>3. QED
      BY <3>1, <3>2
  <2>4. shift \in [Rest -> Old \ {1}]
    BY <2>1
  <2>5. \A i, j \in Rest : shift[i] = shift[j] => i = j
    BY <2>2
  <2> HIDE DEF shift, Old, Rest
  <2>6. shift \in Injection(Rest, Old \ {1})
    BY <2>4, <2>5 DEF Injection, IsInjective
  <2>7. shift \in Surjection(Rest, Old \ {1})
    BY <2>3, <2>4 DEF Surjection
  <2>8. QED
    BY <2>6, <2>7 DEF Bijection
<1>7. Cardinality(Rest) = Cardinality(Old \ {1})
  BY <1>5, <1>6, FS_Bijection DEF ExistsBijection
<1>8. Cardinality(Old \ {1}) =
        IF 1 \in Old THEN Cardinality(Old) - 1 ELSE Cardinality(Old)
  BY <1>4, FS_RemoveElement
<1>9. (1 \in Old) <=> (Head(s) = Data(f))
  BY <1>1
<1>10. DataCount(f, s) = Cardinality(Old)
       /\ DataCount(f, Tail(s)) = Cardinality(Rest)
  BY DEF DataCount
<1> HIDE DEF shift, Old, Rest
<1>11. QED
  BY <1>4, <1>7, <1>8, <1>9, <1>10

(* Where the peer of an end is.                                            *)
LEMMA PeerFacts ==
  ASSUME NEW e \in Ends
  PROVE  /\ Peer[e] \in Ends /\ Peer[Peer[e]] = e
         /\ \A x \in Ends : x # Peer[e] => Peer[x] # e
         /\ \A x \in Ends : x # e => Peer[x] # Peer[e]
BY EndAssumption

LEMMA WindowFacts ==
  /\ InitialWindow \in Nat \ {0}
  /\ LowWatermark \in Nat /\ LowWatermark < InitialWindow
BY WindowAssumption DEF LowWatermark

LEMMA RaisedIsFull ==
  ASSUME NEW b \in Nat
  PROVE  Raised(b) = InitialWindow
BY WindowFacts DEF Raised, LeastOf

LEMMA LinkInitEstablishes ==
  ASSUME NEW carries, OneWay(carries), LinkInit
  PROVE  LinkInv(carries)
<1>1. InitialWindow \in Nat \ {0}
  BY WindowFacts
<1>2. LinkTypeOK
  <2>1. balances \in [Ends -> [Flows -> 0 .. InitialWindow]]
    BY <1>1 DEF LinkInit
  <2>2. sends \in [Ends -> [Flows -> 0 .. MaxSends]]
    BY ChoiceAssumption DEF LinkInit
  <2>3. wire \in [Ends -> Seq(Messages)]
    BY DEF LinkInit
  <2>4. recv \in [Ends -> Receiving \cup Busy]
    BY DEF LinkInit, Receiving
  <2>5. QED
    BY <2>1, <2>2, <2>3, <2>4 DEF LinkTypeOK
<1>3. \A e \in Ends : wire[e] = <<>> /\ recv[e].step = "receiving"
  BY DEF LinkInit
<1>4. ASSUME NEW x
      PROVE  ~Contains(<<>>, x)
  BY DEF Contains
<1>5. CarriedOK(carries)
  BY <1>3, <1>4 DEF CarriedOK, Held, At
<1>6. \A e \in Ends, f \in Flows : balances[e][f] = InitialWindow
  BY DEF LinkInit
<1>7. GrantsInTime(carries)
  BY <1>1, <1>6, PeerFacts DEF GrantsInTime, OneWay
<1>8. NoDrift(carries)
  <2> SUFFICES ASSUME NEW e \in Ends, NEW f \in carries[e]
               PROVE  Covered(e, f)
    BY DEF NoDrift
  <2>1. f \in Flows /\ Peer[e] \in Ends
    BY PeerFacts DEF OneWay
  <2>2. DataCount(f, wire[e]) = 0 /\ InHand(Peer[e], f) = 0
    BY <1>3, <2>1, DataCountEmpty DEF InHand, Held
  <2>3. QED
    BY <1>1, <1>6, <2>1, <2>2 DEF Covered
<1>9. QED
  BY <1>2, <1>5, <1>7, <1>8 DEF LinkInv

LEMMA BusyFacts ==
  ASSUME LinkTypeOK, NEW e \in Ends
  PROVE  /\ At(e, "handling") => /\ recv[e].flow \in Flows
                                 /\ recv[e].to \in Ends \cup {Here}
                                 /\ Held(e, recv[e].flow)
         /\ At(e, "settling") => /\ recv[e].flow \in Flows
                                 /\ Held(e, recv[e].flow)
BY DEF LinkTypeOK, Receiving, Busy, At, Held

LEMMA SettlingType ==
  ASSUME LinkTypeOK, NEW e \in Ends, NEW f \in Flows, Settling(e, f)
  PROVE  recv' \in [Ends -> Receiving \cup Busy]
<1>1. [step |-> "settling", flow |-> f] \in Receiving \cup Busy
  BY DEF Busy
<1>2. QED
  BY <1>1 DEF LinkTypeOK, Settling

(* A data envelope leaves on an end that carries its flow; what the        *)
(* receive loops hold stays the same.                                      *)
Sent(e, f) ==
  /\ Acquired(e, f)
  /\ Enqueued(e, Data(f))

LEMMA SentTypes ==
  ASSUME LinkTypeOK, NEW x \in Ends, NEW g \in Flows, Sent(x, g)
  PROVE  /\ balances' \in [Ends -> [Flows -> 0 .. InitialWindow]]
         /\ wire' \in [Ends -> Seq(Messages)]
<1>1. balances[x][g] \in 1 .. InitialWindow
  BY WindowFacts DEF LinkTypeOK, Sent, Acquired
<1>2. balances[x][g] - 1 \in 0 .. InitialWindow
  BY <1>1, WindowFacts
<1>3. balances' \in [Ends -> [Flows -> 0 .. InitialWindow]]
  BY <1>2 DEF LinkTypeOK, Sent, Acquired
<1>4. Append(wire[x], Data(g)) \in Seq(Messages)
  BY DataAndCredit DEF LinkTypeOK
<1>5. wire' \in [Ends -> Seq(Messages)]
  BY <1>4 DEF LinkTypeOK, Sent, Enqueued
<1>6. QED
  BY <1>3, <1>5

LEMMA SentPreserves ==
  ASSUME NEW carries, OneWay(carries), LinkInv(carries), LinkTypeOK',
         NEW x \in Ends, NEW g \in carries[x], Sent(x, g),
         \A e \in Ends, f \in Flows : Held(e, f)' <=> Held(e, f),
         \A e \in Ends : At(e, "handling")' =>
           At(e, "handling") /\ recv'[e] = recv[e]
  PROVE  LinkInv(carries)'
<1>1. g \in Flows /\ Data(g) \in Messages
  BY DataAndCredit DEF OneWay
<1>2. \A e \in Ends : wire[e] \in Seq(Messages)
  BY DEF LinkInv, LinkTypeOK
<1>3. wire'[x] = Append(wire[x], Data(g))
      /\ \A e \in Ends \ {x} : wire'[e] = wire[e]
  BY DEF LinkInv, LinkTypeOK, Sent, Enqueued
<1>4. \A e \in Ends, f \in Flows :
        balances'[e][f] = IF e = x /\ f = g THEN balances[e][f] - 1
                                            ELSE balances[e][f]
  BY DEF LinkInv, LinkTypeOK, Sent, Acquired
<1>5. \A e \in Ends, f \in Flows : balances[e][f] \in 0 .. InitialWindow
  BY DEF LinkInv, LinkTypeOK
<1> ASSUME NEW m
    PROVE  Contains(wire'[x], m) <=> (Contains(wire[x], m) \/ m = Data(g))
  <2>1. Contains(Append(wire[x], Data(g)), m)
          <=> (Contains(wire[x], m) \/ m = Data(g))
    BY <1>1, <1>2, ContainsAppend
  <2>2. QED
    BY <1>3, <2>1
<1>6. ASSUME NEW e \in Ends, NEW m, Contains(wire[e], m)
      PROVE  Contains(wire'[e], m)
  <2>1. CASE e = x
    BY <1>6, <2>1
  <2>2. CASE e # x
    BY <1>3, <1>6, <2>2
  <2>3. QED
    BY <2>1, <2>2
<1>7. ASSUME NEW e \in Ends, NEW m, Contains(wire'[e], m)
      PROVE  Contains(wire[e], m) \/ (e = x /\ m = Data(g))
  <2>1. CASE e = x
    BY <1>7, <2>1
  <2>2. CASE e # x
    BY <1>3, <1>7, <2>2
  <2>3. QED
    BY <2>1, <2>2
<1>8. CarriedOK(carries)'
  <2>1. ASSUME NEW e \in Ends, NEW f \in Flows, Contains(wire'[e], Data(f))
        PROVE  f \in carries[e]
    BY <1>7, <2>1, MessageKinds DEF LinkInv, CarriedOK
  <2>2. ASSUME NEW e \in Ends, NEW f \in Flows, Contains(wire'[e], Credit(f))
        PROVE  f \in carries[Peer[e]]
    BY <1>7, <2>2, MessageKinds DEF LinkInv, CarriedOK
  <2>3. ASSUME NEW e \in Ends, NEW f \in Flows, Held(e, f)'
        PROVE  f \in carries[Peer[e]]
    BY <2>3 DEF LinkInv, CarriedOK
  <2>4. ASSUME NEW e \in Ends, At(e, "handling")'
        PROVE  recv'[e].to \in Route[e]
    BY <2>4 DEF LinkInv, CarriedOK
  <2>5. QED
    BY <2>1, <2>2, <2>3, <2>4 DEF CarriedOK
<1>9. \A e \in Ends : \A f \in carries[e] :
        /\ f \in Flows /\ Peer[e] \in Ends
        /\ ~(Peer[e] = x /\ f = g)
  BY PeerFacts DEF OneWay
<1>10. GrantsInTime(carries)'
  BY <1>4, <1>9 DEF LinkInv, GrantsInTime
<1>11. NoDrift(carries)'
  <2> SUFFICES ASSUME NEW e \in Ends, NEW f \in carries[e] \ Oversized,
                      ~Contains(wire'[Peer[e]], Credit(f))
               PROVE  Covered(e, f)'
    BY DEF NoDrift
  <2>1. f \in Flows /\ Peer[e] \in Ends /\ ~(Peer[e] = x /\ f = g)
    BY <1>9
  <2>2. Covered(e, f)
    BY <1>6, <2>1 DEF LinkInv, NoDrift
  <2>3. balances'[Peer[e]][f] = balances[Peer[e]][f]
    BY <1>4, <2>1
  <2>4. InHand(Peer[e], f)' = InHand(Peer[e], f)
    BY <2>1 DEF InHand
  <2>5. DataCount(f, wire[e]) \in Nat /\ DataCount(f, wire'[e]) \in Nat
    BY <1>2, DataIndices DEF LinkTypeOK
  <2>6. balances'[e][f] + DataCount(f, wire'[e]) =
          balances[e][f] + DataCount(f, wire[e])
    <3>1. CASE e = x /\ f = g
      <4>1. balances'[e][f] = balances[e][f] - 1
        BY <1>4, <2>1, <3>1
      <4>2. DataCount(f, wire'[e]) = DataCount(f, wire[e]) + 1
        BY <1>1, <1>2, <1>3, <3>1, DataCountAppend
      <4>3. QED
        BY <1>5, <2>1, <2>5, <4>1, <4>2
    <3>2. CASE e = x /\ f # g
      <4>1. balances'[e][f] = balances[e][f]
        BY <1>4, <2>1, <3>2
      <4>2. Data(g) # Data(f)
        BY <3>2, MessageKinds
      <4>3. DataCount(f, wire'[e]) = DataCount(f, wire[e])
        <5>1. DataCount(f, Append(wire[e], Data(g))) =
                DataCount(f, wire[e]) + 0
          BY <1>1, <1>2, <4>2, DataCountAppend
        <5>2. QED
          <6>1. wire'[e] = Append(wire[e], Data(g))
            BY <1>3, <3>2
          <6>2. QED
            BY <2>5, <5>1, <6>1
      <4>4. QED
        BY <4>1, <4>3
    <3>3. CASE e # x
      BY <1>3, <1>4, <2>1, <3>3
    <3>4. QED
      BY <3>1, <3>2, <3>3
  <2>7. QED
    BY <2>2, <2>3, <2>4, <2>6 DEF Covered
<1>12. QED
  BY <1>8, <1>10, <1>11 DEF LinkInv

LEMMA SendPreserves ==
  ASSUME NEW carries, OneWay(carries), LinkInv(carries),
         NEW e \in Ends, NEW f \in Flows, Send(e, f)
  PROVE  LinkInv(carries)'
<1>1. Sent(e, f) /\ UNCHANGED recv /\ f \in carries[e]
  BY DEF Send, Sent, OneWay
<1>2. LinkTypeOK
  BY DEF LinkInv
<1>3. sends' \in [Ends -> [Flows -> 0 .. MaxSends]]
  BY <1>2, ChoiceAssumption DEF LinkTypeOK, Send
<1>4. LinkTypeOK'
  BY <1>1, <1>2, <1>3, SentTypes DEF LinkTypeOK
<1>5. \A x \in Ends, g \in Flows : Held(x, g)' <=> Held(x, g)
  BY <1>1 DEF Held
<1>6. \A x \in Ends : At(x, "handling")' =>
         At(x, "handling") /\ recv'[x] = recv[x]
  BY <1>1 DEF At
<1>7. QED
  BY <1>1, <1>4, <1>5, <1>6, SentPreserves

LEMMA SettlingEffect ==
  ASSUME LinkTypeOK, NEW e \in Ends, At(e, "handling"),
         Settling(e, recv[e].flow)
  PROVE  /\ \A x \in Ends, g \in Flows : Held(x, g)' <=> Held(x, g)
         /\ \A x \in Ends : At(x, "handling")' =>
              At(x, "handling") /\ recv'[x] = recv[x]
<1>1. recv'[e] = [step |-> "settling", flow |-> recv[e].flow]
      /\ \A x \in Ends \ {e} : recv'[x] = recv[x]
  BY DEF LinkTypeOK, Settling
<1>2. recv'[e].step = "settling" /\ recv'[e].flow = recv[e].flow
  BY <1>1
<1>3. recv[e].step = "handling"
  BY DEF At
<1>4. ASSUME NEW x \in Ends, NEW g \in Flows
      PROVE  Held(x, g)' <=> Held(x, g)
  <2>1. CASE x = e
    BY <1>2, <1>3, <2>1 DEF Held
  <2>2. CASE x # e
    BY <1>1, <2>2 DEF Held
  <2>3. QED
    BY <2>1, <2>2
<1>5. ASSUME NEW x \in Ends, At(x, "handling")'
      PROVE  At(x, "handling") /\ recv'[x] = recv[x]
  BY <1>1, <1>2, <1>5 DEF At
<1>6. QED
  BY <1>4, <1>5

LEMMA ForwardPreserves ==
  ASSUME NEW carries, OneWay(carries), LinkInv(carries),
         NEW e \in Ends, Forward(e)
  PROVE  LinkInv(carries)'
<1> DEFINE f == recv[e].flow
           to == recv[e].to
<1>1. LinkTypeOK /\ At(e, "handling") /\ to # Here /\ Sent(to, f)
      /\ Settling(e, f) /\ UNCHANGED sends
  BY DEF LinkInv, Forward, Sent
<1>2. f \in Flows /\ to \in Ends /\ Held(e, f)
  BY <1>1, BusyFacts
<1>3. f \in carries[Peer[e]] /\ to \in Route[e] \ {Here}
  BY <1>1, <1>2 DEF LinkInv, CarriedOK
<1>4. f \in carries[to]
  BY <1>3 DEF OneWay
<1>5. LinkTypeOK'
  BY <1>1, <1>2, SentTypes, SettlingType DEF LinkTypeOK
<1>6. QED
  BY <1>1, <1>2, <1>4, <1>5, SettlingEffect, SentPreserves

(* A step that moves no message, no credit and no flow in hand.            *)
LEMMA IdlePreserves ==
  ASSUME NEW carries, OneWay(carries), LinkInv(carries), LinkTypeOK',
         UNCHANGED <<balances, wire>>,
         \A e \in Ends, f \in Flows : Held(e, f)' <=> Held(e, f),
         \A e \in Ends : At(e, "handling")' =>
           At(e, "handling") /\ recv'[e] = recv[e]
  PROVE  LinkInv(carries)'
<1>1. CarriedOK(carries)'
  BY DEF LinkInv, CarriedOK
<1>2. GrantsInTime(carries)'
  BY DEF LinkInv, GrantsInTime
<1>3. \A e \in Ends : \A f \in carries[e] : Covered(e, f) => Covered(e, f)'
  <2> SUFFICES ASSUME NEW e \in Ends, NEW f \in carries[e], Covered(e, f)
               PROVE  Covered(e, f)'
    OBVIOUS
  <2>1. f \in Flows /\ Peer[e] \in Ends
    BY PeerFacts DEF OneWay
  <2>2. InHand(Peer[e], f)' = InHand(Peer[e], f)
    BY <2>1 DEF InHand
  <2>3. QED
    BY <2>2 DEF Covered
<1>4. NoDrift(carries)'
  BY <1>3 DEF LinkInv, NoDrift
<1>5. QED
  BY <1>1, <1>2, <1>4 DEF LinkInv

LEMMA DeliverPreserves ==
  ASSUME NEW carries, OneWay(carries), LinkInv(carries),
         NEW e \in Ends, Deliver(e)
  PROVE  LinkInv(carries)'
<1>1. LinkTypeOK /\ At(e, "handling") /\ Settling(e, recv[e].flow)
      /\ UNCHANGED <<balances, wire, sends>>
  BY DEF LinkInv, Deliver
<1>2. recv[e].flow \in Flows
  BY <1>1, BusyFacts
<1>3. LinkTypeOK'
  BY <1>1, <1>2, SettlingType DEF LinkTypeOK
<1>4. QED
  BY <1>1, <1>3, SettlingEffect, IdlePreserves

LEMMA StutterPreserves ==
  ASSUME NEW carries, OneWay(carries), LinkInv(carries), UNCHANGED linkVars
  PROVE  LinkInv(carries)'
<1>1. UNCHANGED <<balances, wire, recv, sends>>
  BY DEF linkVars
<1>2. LinkTypeOK'
  BY <1>1 DEF LinkInv, LinkTypeOK
<1>3. \A x \in Ends, g \in Flows : Held(x, g)' <=> Held(x, g)
  BY <1>1 DEF Held
<1>4. \A x \in Ends : At(x, "handling")' =>
         At(x, "handling") /\ recv'[x] = recv[x]
  BY <1>1 DEF At
<1>5. QED
  BY <1>1, <1>2, <1>3, <1>4, IdlePreserves

(* An envelope too large to send costs a credit of a flow that NoDrift     *)
(* does not speak of.                                                      *)
LEMMA SendTooLargePreserves ==
  ASSUME NEW carries, OneWay(carries), LinkInv(carries),
         NEW x \in Ends, NEW g \in Flows, SendTooLarge(x, g)
  PROVE  LinkInv(carries)'
<1>1. LinkTypeOK /\ g \in carries[x] /\ g \in Oversized /\ Acquired(x, g)
      /\ UNCHANGED <<wire, recv>>
  BY DEF LinkInv, SendTooLarge, OneWay
<1>2. LinkTypeOK'
  <2>1. sends' \in [Ends -> [Flows -> 0 .. MaxSends]]
    BY <1>1, ChoiceAssumption DEF LinkTypeOK, SendTooLarge
  <2>2. balances[x][g] - 1 \in 0 .. InitialWindow
    BY <1>1, WindowFacts DEF LinkTypeOK, Acquired
  <2>3. balances' \in [Ends -> [Flows -> 0 .. InitialWindow]]
    BY <1>1, <2>2 DEF LinkTypeOK, Acquired
  <2>4. QED
    BY <1>1, <2>1, <2>3 DEF LinkTypeOK
<1>3. \A e \in Ends, f \in Flows :
        ~(e = x /\ f = g) => balances'[e][f] = balances[e][f]
  BY <1>1 DEF LinkTypeOK, Acquired
<1>4. \A e \in Ends : \A f \in carries[e] :
        /\ f \in Flows /\ Peer[e] \in Ends
        /\ ~(Peer[e] = x /\ f = g)
  BY <1>1, PeerFacts DEF OneWay
<1>5. CarriedOK(carries)'
  BY <1>1 DEF LinkInv, CarriedOK, Held, At
<1>6. GrantsInTime(carries)'
  BY <1>3, <1>4 DEF LinkInv, GrantsInTime
<1>7. NoDrift(carries)'
  <2> SUFFICES ASSUME NEW e \in Ends, NEW f \in carries[e] \ Oversized,
                      ~Contains(wire[Peer[e]], Credit(f))
               PROVE  Covered(e, f)'
    BY <1>1 DEF NoDrift
  <2>1. Covered(e, f)
    BY DEF LinkInv, NoDrift
  <2>2. balances'[e][f] = balances[e][f]
        /\ balances'[Peer[e]][f] = balances[Peer[e]][f]
    BY <1>1, <1>3, <1>4
  <2>3. InHand(Peer[e], f)' = InHand(Peer[e], f)
    BY <1>1 DEF InHand, Held
  <2>4. QED
    BY <1>1, <2>1, <2>2, <2>3 DEF Covered
<1>8. QED
  BY <1>2, <1>5, <1>6, <1>7 DEF LinkInv

(* The receive loop of x takes the next message off the wire of its peer.  *)
Taken(x) ==
  /\ At(x, "receiving") /\ wire[Peer[x]] # <<>>
  /\ wire' = [wire EXCEPT ![Peer[x]] = Tail(@)]

LEMMA TakenEffect ==
  ASSUME LinkTypeOK, NEW x \in Ends, Taken(x)
  PROVE  /\ Head(wire[Peer[x]]) \in Messages
         /\ wire' \in [Ends -> Seq(Messages)]
         /\ \A e \in Ends \ {Peer[x]} : wire'[e] = wire[e]
         /\ \A m : Contains(wire[Peer[x]], m) <=>
              (Contains(wire'[Peer[x]], m) \/ m = Head(wire[Peer[x]]))
         /\ \A f : DataCount(f, wire'[Peer[x]]) =
              DataCount(f, wire[Peer[x]])
                - (IF Head(wire[Peer[x]]) = Data(f) THEN 1 ELSE 0)
<1> DEFINE q == Peer[x]
<1>1. q \in Ends /\ wire[q] \in Seq(Messages) /\ wire[q] # <<>>
  BY PeerFacts DEF LinkTypeOK, Taken
<1>2. Head(wire[q]) \in Messages /\ Tail(wire[q]) \in Seq(Messages)
  BY <1>1
<1>3. wire'[q] = Tail(wire[q]) /\ \A e \in Ends \ {q} : wire'[e] = wire[e]
  BY <1>1 DEF LinkTypeOK, Taken
<1>4. wire' \in [Ends -> Seq(Messages)]
  BY <1>1, <1>2 DEF LinkTypeOK, Taken
<1>5. ASSUME NEW m
      PROVE  Contains(wire[q], m) <=>
               (Contains(wire'[q], m) \/ m = Head(wire[q]))
  <2>1. Contains(wire[q], m) <=>
          (Contains(Tail(wire[q]), m) \/ m = Head(wire[q]))
    BY <1>1, ContainsTail
  <2>2. QED
    BY <1>3, <2>1
<1>6. ASSUME NEW f
      PROVE  DataCount(f, wire'[q]) = DataCount(f, wire[q])
               - (IF Head(wire[q]) = Data(f) THEN 1 ELSE 0)
  <2>1. DataCount(f, Tail(wire[q])) = DataCount(f, wire[q])
          - (IF Head(wire[q]) = Data(f) THEN 1 ELSE 0)
    BY <1>1, DataCountTail
  <2>2. QED
    BY <1>3, <2>1
<1>7. QED
  BY <1>2, <1>3, <1>4, <1>5, <1>6

(* What is left of the conjuncts that speak of the wires and the flows in  *)
(* hand, when an end takes a message.                                      *)
LEMMA CreditTakenPreserves ==
  ASSUME NEW carries, OneWay(carries), LinkInv(carries),
         NEW x \in Ends, NEW g \in Flows, Taken(x),
         Head(wire[Peer[x]]) = Credit(g),
         balances' = [balances EXCEPT ![x][g] = Raised(@)],
         UNCHANGED <<recv, sends>>
  PROVE  LinkInv(carries)'
<1> DEFINE q == Peer[x]
<1>1. LinkTypeOK /\ q \in Ends /\ Peer[q] = x
  BY PeerFacts DEF LinkInv
<1>2. \A e \in Ends, f \in Flows : balances[e][f] \in 0 .. InitialWindow
  BY <1>1 DEF LinkTypeOK
<1>3. \A e \in Ends, f \in Flows :
        balances'[e][f] =
          IF e = x /\ f = g THEN InitialWindow ELSE balances[e][f]
  <2>1. Raised(balances[x][g]) = InitialWindow
    BY <1>2, RaisedIsFull
  <2>2. QED
    BY <1>1, <2>1 DEF LinkTypeOK
<1>4. LinkTypeOK'
  <2>1. InitialWindow \in 0 .. InitialWindow
    BY WindowFacts
  <2>2. Raised(balances[x][g]) \in 0 .. InitialWindow
    BY <1>2, <2>1, RaisedIsFull
  <2>3. balances' \in [Ends -> [Flows -> 0 .. InitialWindow]]
    BY <1>1, <2>2 DEF LinkTypeOK
  <2>4. QED
    BY <1>1, <2>3, TakenEffect DEF LinkTypeOK
<1>5. \A e \in Ends \ {q} : wire'[e] = wire[e]
  BY <1>1, TakenEffect
<1>6. \A e \in Ends : \A m : Contains(wire'[e], m) => Contains(wire[e], m)
  BY <1>1, <1>5, TakenEffect
<1>7. \A e \in Ends : \A m :
        Contains(wire[e], m) =>
          (Contains(wire'[e], m) \/ (e = q /\ m = Credit(g)))
  BY <1>1, <1>5, TakenEffect
<1>8. \A e \in Ends : \A f : DataCount(f, wire'[e]) = DataCount(f, wire[e])
  <2> SUFFICES ASSUME NEW e \in Ends, NEW f
               PROVE  DataCount(f, wire'[e]) = DataCount(f, wire[e])
    OBVIOUS
  <2>1. CASE e # q
    BY <1>5, <2>1
  <2>2. CASE e = q
    <3>1. DataCount(f, wire'[q]) = DataCount(f, wire[q]) - 0
      <4>1. Head(wire[q]) # Data(f)
        BY MessageKinds
      <4>2. QED
        BY <1>1, <4>1, TakenEffect
    <3>2. DataCount(f, wire[q]) \in Nat
      BY <1>1, DataIndices DEF LinkTypeOK
    <3>3. QED
      BY <2>2, <3>1, <3>2
  <2>3. QED
    BY <2>1, <2>2
<1>9. CarriedOK(carries)'
  <2>1. ASSUME NEW e \in Ends, NEW f \in Flows
        PROVE  /\ Contains(wire'[e], Data(f)) => f \in carries[e]
               /\ Contains(wire'[e], Credit(f)) => f \in carries[Peer[e]]
    BY <1>6 DEF LinkInv, CarriedOK
  <2>2. QED
    BY <2>1 DEF LinkInv, CarriedOK, Held, At
<1>10. g \in carries[x]
  <2>1. Contains(wire[q], Credit(g))
    BY <1>1, TakenEffect
  <2>2. QED
    BY <1>1, <2>1 DEF LinkInv, CarriedOK
<1>11. \A e \in Ends : \A f \in carries[e] :
         /\ f \in Flows /\ Peer[e] \in Ends
         /\ ~(Peer[e] = x /\ f = g)
  BY <1>10, PeerFacts DEF OneWay
<1>12. GrantsInTime(carries)'
  BY <1>3, <1>11 DEF LinkInv, GrantsInTime
<1>13. NoDrift(carries)'
  <2> SUFFICES ASSUME NEW e \in Ends, NEW f \in carries[e] \ Oversized,
                      ~Contains(wire'[Peer[e]], Credit(f))
               PROVE  Covered(e, f)'
    BY DEF NoDrift
  <2>1. f \in Flows /\ Peer[e] \in Ends /\ ~(Peer[e] = x /\ f = g)
    BY <1>11
  <2>2. balances'[Peer[e]][f] = balances[Peer[e]][f]
    BY <1>3, <2>1
  <2>3. InHand(Peer[e], f)' = InHand(Peer[e], f) /\ InHand(Peer[e], f) \in Nat
    BY DEF InHand, Held
  <2>4. DataCount(f, wire[e]) \in Nat
    BY <1>1, DataIndices DEF LinkTypeOK
  <2>5. CASE e = x /\ f = g
    <3>1. balances'[e][f] = InitialWindow
      BY <1>3, <2>1, <2>5
    <3>2. balances'[Peer[e]][f] <= InitialWindow
      BY <1>2, <2>1, <2>2, WindowFacts
    <3>3. DataCount(f, wire'[e]) \in Nat
      BY <1>8, <2>4
    <3>4. balances'[Peer[e]][f] \in Int
      BY <1>2, <2>1, <2>2
    <3>5. QED
      BY <2>3, <3>1, <3>2, <3>3, <3>4, WindowFacts DEF Covered
  <2>6. CASE ~(e = x /\ f = g)
    <3>1. ~Contains(wire[Peer[e]], Credit(f))
      <4>1. (Peer[e] = q) => (e = x)
        BY PeerFacts
      <4>2. (Peer[e] = q) => (Credit(f) # Credit(g))
        BY <2>6, <4>1, MessageKinds
      <4>3. QED
        BY <1>7, <2>1, <4>2
    <3>2. Covered(e, f)
      BY <3>1 DEF LinkInv, NoDrift
    <3>3. balances'[e][f] = balances[e][f]
      BY <1>3, <2>1, <2>6
    <3>4. QED
      BY <1>8, <2>2, <2>3, <3>2, <3>3 DEF Covered
  <2>7. QED
    BY <2>5, <2>6
<1>14. QED
  BY <1>4, <1>9, <1>12, <1>13 DEF LinkInv

LEMMA DataTakenPreserves ==
  ASSUME NEW carries, OneWay(carries), LinkInv(carries),
         NEW x \in Ends, NEW g \in Flows, NEW to \in Route[x], Taken(x),
         Head(wire[Peer[x]]) = Data(g),
         recv' = [recv EXCEPT ![x] =
           [step |-> "handling", flow |-> g, to |-> to]],
         UNCHANGED <<balances, sends>>
  PROVE  LinkInv(carries)'
<1> DEFINE q == Peer[x]
<1>1. LinkTypeOK /\ q \in Ends /\ Peer[q] = x
  BY PeerFacts DEF LinkInv
<1>2. to \in Ends \cup {Here}
  BY EndAssumption
<1>3. LinkTypeOK'
  <2>1. [step |-> "handling", flow |-> g, to |-> to] \in Receiving \cup Busy
    BY <1>2 DEF Busy
  <2>2. recv' \in [Ends -> Receiving \cup Busy]
    BY <1>1, <2>1 DEF LinkTypeOK
  <2>3. QED
    BY <1>1, <2>2, TakenEffect DEF LinkTypeOK
<1>4. /\ recv'[x] = [step |-> "handling", flow |-> g, to |-> to]
      /\ \A e \in Ends \ {x} : recv'[e] = recv[e]
  BY <1>1 DEF LinkTypeOK
<1>5. /\ \A f \in Flows : Held(x, f)' <=> (f = g)
      /\ \A f \in Flows : ~Held(x, f)
      /\ \A e \in Ends \ {x} : \A f \in Flows : Held(e, f)' <=> Held(e, f)
  <2>1. recv'[x].step = "handling" /\ recv'[x].flow = g
    BY <1>4
  <2>2. recv[x].step = "receiving"
    BY DEF Taken, At
  <2>3. QED
    BY <1>4, <2>1, <2>2 DEF Held
<1>6. \A e \in Ends \ {q} : wire'[e] = wire[e]
  BY <1>1, TakenEffect
<1>7. \A e \in Ends : \A m : Contains(wire'[e], m) => Contains(wire[e], m)
  BY <1>1, <1>6, TakenEffect
<1>8. \A e \in Ends : \A f \in Flows :
        Contains(wire[e], Credit(f)) => Contains(wire'[e], Credit(f))
  <2> SUFFICES ASSUME NEW e \in Ends, NEW f \in Flows,
                      Contains(wire[e], Credit(f))
               PROVE  Contains(wire'[e], Credit(f))
    OBVIOUS
  <2>1. CASE e # q
    BY <1>6, <2>1
  <2>2. CASE e = q
    <3>1. Head(wire[q]) # Credit(f)
      BY MessageKinds
    <3>2. QED
      BY <1>1, <2>2, <3>1, TakenEffect
  <2>3. QED
    BY <2>1, <2>2
<1>9. CarriedOK(carries)'
  <2>1. ASSUME NEW e \in Ends, NEW f \in Flows
        PROVE  /\ Contains(wire'[e], Data(f)) => f \in carries[e]
               /\ Contains(wire'[e], Credit(f)) => f \in carries[Peer[e]]
    BY <1>7 DEF LinkInv, CarriedOK
  <2>2. g \in carries[q]
    <3>1. Contains(wire[q], Data(g))
      BY <1>1, TakenEffect
    <3>2. QED
      BY <1>1, <3>1 DEF LinkInv, CarriedOK
  <2>3. ASSUME NEW e \in Ends, NEW f \in Flows, Held(e, f)'
        PROVE  f \in carries[Peer[e]]
    BY <1>5, <2>2, <2>3 DEF LinkInv, CarriedOK
  <2>4. ASSUME NEW e \in Ends, At(e, "handling")'
        PROVE  recv'[e].to \in Route[e]
    BY <1>4, <2>4 DEF LinkInv, CarriedOK, At
  <2>5. QED
    BY <2>1, <2>3, <2>4 DEF CarriedOK
<1>10. GrantsInTime(carries)'
  BY DEF LinkInv, GrantsInTime
<1>11. NoDrift(carries)'
  <2> SUFFICES ASSUME NEW e \in Ends, NEW f \in carries[e] \ Oversized,
                      ~Contains(wire'[Peer[e]], Credit(f))
               PROVE  Covered(e, f)'
    BY DEF NoDrift
  <2>1. f \in Flows /\ Peer[e] \in Ends /\ Peer[Peer[e]] = e
    BY PeerFacts DEF OneWay
  <2>2. Covered(e, f)
    BY <1>8, <2>1 DEF LinkInv, NoDrift
  <2>3. DataCount(f, wire[e]) \in Nat
    BY <1>1, DataIndices DEF LinkTypeOK
  <2>4. DataCount(f, wire'[e]) + InHand(Peer[e], f)' =
          DataCount(f, wire[e]) + InHand(Peer[e], f)
    <3>1. CASE Peer[e] = x
      <4>1. e = q
        BY <2>1, <3>1
      <4>2. InHand(x, f) = 0 /\ InHand(x, f)' = IF f = g THEN 1 ELSE 0
        BY <1>5, <2>1 DEF InHand
      <4>3. DataCount(f, wire'[q]) = DataCount(f, wire[q])
              - (IF f = g THEN 1 ELSE 0)
        BY <1>1, TakenEffect, MessageKinds
      <4>4. QED
        BY <2>3, <3>1, <4>1, <4>2, <4>3
    <3>2. CASE Peer[e] # x
      <4>1. e # q
        BY <1>1, <3>2
      <4>2. InHand(Peer[e], f)' = InHand(Peer[e], f)
        BY <1>5, <2>1, <3>2 DEF InHand
      <4>3. QED
        BY <1>6, <4>1, <4>2
    <3>3. QED
      BY <3>1, <3>2
  <2>5. balances[e][f] \in Nat /\ InHand(Peer[e], f) \in Nat
        /\ InHand(Peer[e], f)' \in Nat /\ DataCount(f, wire'[e]) \in Nat
    <3>1. wire'[e] \in Seq(Messages)
      BY <1>3 DEF LinkTypeOK
    <3>2. DataCount(f, wire'[e]) \in Nat
      BY <3>1, DataIndices
    <3>3. balances[e][f] \in Nat
      BY <1>1, <2>1 DEF LinkTypeOK
    <3>4. QED
      BY <3>2, <3>3 DEF InHand
  <2>6. QED
    BY <2>2, <2>3, <2>4, <2>5 DEF Covered
<1>12. QED
  BY <1>3, <1>9, <1>10, <1>11 DEF LinkInv

LEMMA ReceivePreserves ==
  ASSUME NEW carries, OneWay(carries), LinkInv(carries),
         NEW x \in Ends, Receive(x)
  PROVE  LinkInv(carries)'
<1> DEFINE m == Head(wire[Peer[x]])
<1>1. Taken(x) /\ UNCHANGED sends /\ LinkTypeOK
  BY DEF LinkInv, Receive, Taken
<1>2. m \in Messages
  BY <1>1, TakenEffect
<1>3. CASE m.kind = "credit"
  <2>1. m = Credit(m.flow) /\ m.flow \in Flows
    BY <1>2, <1>3, MessageForms
  <2>2. balances' = [balances EXCEPT ![x][m.flow] = Raised(@)]
        /\ UNCHANGED recv
    BY <1>3 DEF Receive
  <2>3. QED
    BY <1>1, <2>1, <2>2, CreditTakenPreserves
<1>4. CASE m.kind # "credit"
  <2>1. m = Data(m.flow) /\ m.flow \in Flows
    BY <1>2, <1>4, MessageForms
  <2>2. UNCHANGED balances /\ \E to \in Route[x] :
          recv' = [recv EXCEPT ![x] =
            [step |-> "handling", flow |-> m.flow, to |-> to]]
    BY <1>4 DEF Receive
  <2>3. QED
    BY <1>1, <2>1, <2>2, DataTakenPreserves
<1>5. QED
  BY <1>3, <1>4

(* What a settled envelope does to the receiver's balance and wire.        *)
LEMMA SettleEffect ==
  ASSUME LinkTypeOK, NEW x \in Ends, Settle(x), NEW g, g = recv[x].flow,
         balances[x][g] > 0
  PROVE  /\ g \in Flows /\ Held(x, g)
         /\ LinkTypeOK'
         /\ recv' = [recv EXCEPT ![x] = [step |-> "receiving"]]
         /\ \A e \in Ends, f \in Flows :
              ~(e = x /\ f = g) => balances'[e][f] = balances[e][f]
         /\ \A e \in Ends \ {x} : wire'[e] = wire[e]
         /\ \/ /\ balances'[x][g] = InitialWindow
               /\ wire'[x] = Append(wire[x], Credit(g))
            \/ /\ balances'[x][g] = balances[x][g] - 1
               /\ balances'[x][g] > 0
               /\ wire'[x] = wire[x]
<1> DEFINE charged == Charged(x, g)
<1>1. g \in Flows /\ Held(x, g)
  BY BusyFacts DEF Settle
<1>2. balances[x][g] \in 1 .. InitialWindow
  BY <1>1, WindowFacts DEF LinkTypeOK
<1>3. charged = balances[x][g] - 1 /\ charged \in Nat
      /\ charged \in 0 .. InitialWindow
  BY <1>2, WindowFacts DEF Charged, GreatestOf
<1>4. recv' = [recv EXCEPT ![x] = [step |-> "receiving"]]
      /\ UNCHANGED sends
  BY DEF Settle
<1>5. recv' \in [Ends -> Receiving \cup Busy]
  <2>1. [step |-> "receiving"] \in Receiving \cup Busy
    BY DEF Receiving
  <2>2. QED
    BY <1>4, <2>1 DEF LinkTypeOK
<1>6. CASE NeedsRefill(charged)
  <2>1. balances' = [balances EXCEPT ![x][g] = InitialWindow]
        /\ Enqueued(x, Credit(g))
    BY <1>3, <1>6, RaisedIsFull DEF Settle
  <2>2. InitialWindow \in 0 .. InitialWindow
    BY WindowFacts
  <2>3. balances' \in [Ends -> [Flows -> 0 .. InitialWindow]]
    BY <2>1, <2>2 DEF LinkTypeOK
  <2>4. Append(wire[x], Credit(g)) \in Seq(Messages)
    BY <1>1, DataAndCredit DEF LinkTypeOK
  <2>5. wire' \in [Ends -> Seq(Messages)]
    BY <2>1, <2>4 DEF LinkTypeOK, Enqueued
  <2>6. LinkTypeOK'
    BY <1>4, <1>5, <2>3, <2>5 DEF LinkTypeOK
  <2>7. balances'[x][g] = InitialWindow
        /\ \A e \in Ends, f \in Flows :
              ~(e = x /\ f = g) => balances'[e][f] = balances[e][f]
    BY <1>1, <2>1 DEF LinkTypeOK
  <2>8. wire'[x] = Append(wire[x], Credit(g))
        /\ \A e \in Ends \ {x} : wire'[e] = wire[e]
    BY <2>1 DEF LinkTypeOK, Enqueued
  <2>9. QED
    BY <1>1, <1>4, <2>6, <2>7, <2>8
<1>7. CASE ~NeedsRefill(charged)
  <2>1. balances' = [balances EXCEPT ![x][g] = charged] /\ UNCHANGED wire
    BY <1>7 DEF Settle
  <2>2. charged > 0
    BY <1>3, <1>7, WindowFacts DEF NeedsRefill
  <2>3. balances' \in [Ends -> [Flows -> 0 .. InitialWindow]]
    BY <1>3, <2>1 DEF LinkTypeOK
  <2>4. LinkTypeOK'
    BY <1>4, <1>5, <2>1, <2>3 DEF LinkTypeOK
  <2>5. balances'[x][g] = charged
        /\ \A e \in Ends, f \in Flows :
              ~(e = x /\ f = g) => balances'[e][f] = balances[e][f]
    BY <1>1, <2>1 DEF LinkTypeOK
  <2>6. QED
    BY <1>1, <1>3, <1>4, <2>1, <2>2, <2>4, <2>5
<1>8. QED
  BY <1>6, <1>7

LEMMA SettlePreserves ==
  ASSUME NEW carries, OneWay(carries), LinkInv(carries),
         NEW x \in Ends, Settle(x)
  PROVE  LinkInv(carries)'
<1> PICK g : g = recv[x].flow
  OBVIOUS
<1>1. LinkTypeOK /\ Peer[x] \in Ends /\ Peer[Peer[x]] = x
  BY PeerFacts DEF LinkInv
<1>2. g \in Flows /\ Held(x, g)
  BY <1>1, BusyFacts DEF Settle
<1>3. g \in carries[Peer[x]]
  BY <1>2 DEF LinkInv, CarriedOK
<1>4. balances[x][g] > 0
  BY <1>1, <1>3 DEF LinkInv, GrantsInTime
<1>5. /\ LinkTypeOK'
      /\ recv' = [recv EXCEPT ![x] = [step |-> "receiving"]]
      /\ \A e \in Ends, f \in Flows :
           ~(e = x /\ f = g) => balances'[e][f] = balances[e][f]
      /\ \A e \in Ends \ {x} : wire'[e] = wire[e]
      /\ \/ /\ balances'[x][g] = InitialWindow
            /\ wire'[x] = Append(wire[x], Credit(g))
         \/ /\ balances'[x][g] = balances[x][g] - 1
            /\ balances'[x][g] > 0
            /\ wire'[x] = wire[x]
  BY <1>1, <1>4, SettleEffect
<1>6. /\ recv'[x] = [step |-> "receiving"]
      /\ \A e \in Ends \ {x} : recv'[e] = recv[e]
  BY <1>1, <1>5 DEF LinkTypeOK
<1>7. /\ \A f \in Flows : ~Held(x, f)' /\ (Held(x, f) <=> f = g)
      /\ \A e \in Ends \ {x} : \A f \in Flows : Held(e, f)' <=> Held(e, f)
  <2>1. recv'[x].step = "receiving"
    BY <1>6
  <2>2. QED
    BY <1>2, <1>6, <2>1 DEF Held
<1>8. wire[x] \in Seq(Messages) /\ Credit(g) \in Messages
  BY <1>1, <1>2, DataAndCredit DEF LinkTypeOK
<1>9. ASSUME NEW m
      PROVE  /\ Contains(wire[x], m) => Contains(wire'[x], m)
             /\ Contains(wire'[x], m) => (Contains(wire[x], m) \/ m = Credit(g))
  <2>1. Contains(Append(wire[x], Credit(g)), m)
          <=> (Contains(wire[x], m) \/ m = Credit(g))
    BY <1>8, ContainsAppend
  <2>2. QED
    BY <1>5, <2>1
<1>10. ASSUME NEW e \in Ends, NEW f \in Flows
       PROVE  DataCount(f, wire'[e]) = DataCount(f, wire[e])
  <2>1. CASE e # x
    BY <1>5, <2>1
  <2>2. CASE wire'[x] = wire[x] /\ e = x
    BY <2>2
  <2>3. CASE wire'[x] = Append(wire[x], Credit(g)) /\ e = x
    <3>1. Credit(g) # Data(f)
      BY MessageKinds
    <3>2. DataCount(f, Append(wire[x], Credit(g))) = DataCount(f, wire[x]) + 0
      BY <1>8, <3>1, DataCountAppend
    <3>3. DataCount(f, wire[x]) \in Nat
      BY <1>8, DataIndices
    <3>4. DataCount(f, wire'[x]) = DataCount(f, wire[x])
      <4>1. wire'[x] = Append(wire[x], Credit(g))
        BY <2>3
      <4>2. DataCount(f, wire[x]) + 0 = DataCount(f, wire[x])
        BY <3>3
      <4>3. QED
        BY <3>2, <4>1, <4>2
    <3>5. QED
      BY <2>3, <3>4
  <2>4. QED
    BY <1>5, <2>1, <2>2, <2>3
<1>11. CarriedOK(carries)'
  <2>1. ASSUME NEW e \in Ends, NEW f \in Flows, Contains(wire'[e], Data(f))
        PROVE  f \in carries[e]
    <3>1. Contains(wire[e], Data(f))
      BY <1>5, <1>9, <2>1, MessageKinds
    <3>2. QED
      BY <3>1 DEF LinkInv, CarriedOK
  <2>2. ASSUME NEW e \in Ends, NEW f \in Flows, Contains(wire'[e], Credit(f))
        PROVE  f \in carries[Peer[e]]
    <3>1. Contains(wire[e], Credit(f)) \/ (e = x /\ f = g)
      BY <1>5, <1>9, <2>2, MessageKinds
    <3>2. QED
      BY <1>3, <3>1 DEF LinkInv, CarriedOK
  <2>3. ASSUME NEW e \in Ends, NEW f \in Flows, Held(e, f)'
        PROVE  f \in carries[Peer[e]]
    BY <1>7, <2>3 DEF LinkInv, CarriedOK
  <2>4. ASSUME NEW e \in Ends, At(e, "handling")'
        PROVE  recv'[e].to \in Route[e]
    BY <1>6, <2>4 DEF LinkInv, CarriedOK, At
  <2>5. QED
    BY <2>1, <2>2, <2>3, <2>4 DEF CarriedOK
<1>12. GrantsInTime(carries)'
  <2> SUFFICES ASSUME NEW e \in Ends, NEW f \in carries[e]
               PROVE  balances'[Peer[e]][f] > 0
    BY DEF GrantsInTime
  <2>1. f \in Flows /\ Peer[e] \in Ends /\ balances[Peer[e]][f] > 0
    BY PeerFacts DEF OneWay, LinkInv, GrantsInTime
  <2>2. balances'[x][g] > 0
    BY <1>5, WindowFacts
  <2>3. QED
    BY <1>5, <2>1, <2>2
<1>13. NoDrift(carries)'
  <2> SUFFICES ASSUME NEW e \in Ends, NEW f \in carries[e] \ Oversized,
                      ~Contains(wire'[Peer[e]], Credit(f))
               PROVE  Covered(e, f)'
    BY DEF NoDrift
  <2>1. f \in Flows /\ Peer[e] \in Ends /\ Peer[Peer[e]] = e
    BY PeerFacts DEF OneWay
  <2>2. ~(e = x /\ f = g)
    BY <1>3, PeerFacts DEF OneWay
  <2>3. balances'[e][f] = balances[e][f]
    BY <1>5, <2>1, <2>2
  <2>4. ~Contains(wire[Peer[e]], Credit(f))
    BY <1>5, <1>9, <2>1
  <2>5. Covered(e, f)
    BY <2>4 DEF LinkInv, NoDrift
  <2>6. DataCount(f, wire'[e]) = DataCount(f, wire[e])
    BY <1>10, <2>1
  <2>7. CASE Peer[e] = x /\ f = g
    <3>1. ~Contains(wire'[x], Credit(g))
      BY <2>7
    <3>2. wire'[x] # Append(wire[x], Credit(g))
      BY <1>8, <3>1, ContainsAppend
    <3>3. balances'[x][g] = balances[x][g] - 1
      BY <1>5, <3>2
    <3>4. InHand(x, g) = 1 /\ InHand(x, g)' = 0
      BY <1>2, <1>7 DEF InHand
    <3>5. DataCount(f, wire[e]) \in Nat
      BY <1>1, DataIndices DEF LinkTypeOK
    <3>6. balances[e][f] \in Nat /\ balances[x][g] \in Nat
      BY <1>1, <1>2, <2>1 DEF LinkTypeOK
    <3>7. QED
      BY <2>3, <2>5, <2>6, <2>7, <3>3, <3>4, <3>5, <3>6 DEF Covered
  <2>8. CASE ~(Peer[e] = x /\ f = g)
    <3>1. balances'[Peer[e]][f] = balances[Peer[e]][f]
      BY <1>5, <2>1, <2>8
    <3>2. InHand(Peer[e], f)' = InHand(Peer[e], f)
      BY <1>7, <2>1, <2>8 DEF InHand
    <3>3. QED
      BY <2>3, <2>5, <2>6, <3>1, <3>2 DEF Covered
  <2>9. QED
    BY <2>7, <2>8
<1>14. QED
  BY <1>5, <1>11, <1>12, <1>13 DEF LinkInv

(* The invariant of the credit protocol on any network of connectors whose *)
(* flows cross each wire one way.                                          *)
THEOREM LinkInductive ==
  ASSUME NEW CONSTANT carries, OneWay(carries)
  PROVE  LinkSpec => []LinkInv(carries)
<1>1. LinkInit => LinkInv(carries)
  BY LinkInitEstablishes
<1>2. LinkInv(carries) /\ [LinkNext]_linkVars => LinkInv(carries)'
  <2> SUFFICES ASSUME LinkInv(carries), [LinkNext]_linkVars
               PROVE  LinkInv(carries)'
    OBVIOUS
  <2>1. ASSUME NEW e \in Ends, Handle(e)
        PROVE  LinkInv(carries)'
    BY <2>1, ReceivePreserves, DeliverPreserves, ForwardPreserves,
       SettlePreserves DEF Handle
  <2>2. ASSUME NEW e \in Ends, NEW f \in Flows,
               Send(e, f) \/ SendTooLarge(e, f)
        PROVE  LinkInv(carries)'
    BY <2>2, SendPreserves, SendTooLargePreserves
  <2>3. CASE Done \/ UNCHANGED linkVars
    BY <2>3, StutterPreserves DEF Done
  <2>4. QED
    BY <2>1, <2>2, <2>3 DEF LinkNext
<1>3. QED
  BY <1>1, <1>2, PTL DEF LinkSpec

(* No sender waits on an idle link: while flows cross each wire one way,   *)
(* whatever the topology and the number of envelopes, the receive loop has *)
(* granted what the sender needs by the time nothing is under way.         *)
THEOREM SendersNeverStarve ==
  ASSUME NEW CONSTANT carries, OneWay(carries)
  PROVE  LinkSpec => []NeverStarved
<1>1. ASSUME LinkInv(carries), Quiet,
             NEW e \in Ends, NEW f \in Sources[e] \ Oversized
      PROVE  balances[e][f] > 0
  <2>1. f \in carries[e] /\ f \in Flows /\ Peer[e] \in Ends
    BY PeerFacts, EndAssumption DEF OneWay
  <2>2. wire[e] = <<>> /\ wire[Peer[e]] = <<>>
    BY <1>1, <2>1 DEF Quiet
  <2>3. ~Contains(wire[Peer[e]], Credit(f))
    BY <2>2 DEF Contains
  <2>4. DataCount(f, wire[e]) = 0
    BY <2>2, DataCountEmpty
  <2>5. InHand(Peer[e], f) = 0
    BY <1>1, <2>1 DEF Quiet, InHand, Held, At
  <2>6. Covered(e, f) /\ balances[Peer[e]][f] > 0
    BY <1>1, <2>1, <2>3 DEF LinkInv, NoDrift, GrantsInTime
  <2>7. balances[e][f] \in Nat /\ balances[Peer[e]][f] \in Nat
    BY <1>1, <2>1 DEF LinkInv, LinkTypeOK
  <2>8. QED
    BY <2>4, <2>5, <2>6, <2>7 DEF Covered
<1>2. LinkInv(carries) => NeverStarved
  BY <1>1 DEF NeverStarved
<1>3. QED
  BY <1>2, LinkInductive, PTL
=============================================================================
