---------------------------- MODULE RoutingProofs ----------------------------
(***************************************************************************)
(* Safety of bindings and routing for any number of children, calls and    *)
(* faults, and either kind of address.                                     *)
(***************************************************************************)
EXTENDS Routing, SequenceTheorems, TLAPS

(* No unbind is on its way; none comes after the bind that is waited for.  *)
NoUnbind(frames) == \A i \in 1 .. Len(frames) : frames[i].type # "Unbind"

AfterBind(frames) ==
  \A i \in 1 .. Len(frames) : frames[i].waiting =>
    /\ frames[i].type = "Bind"
    /\ \A j \in i + 1 .. Len(frames) : frames[j].type # "Unbind"

(* A member, and nothing is under way that makes it leave.                 *)
Placed(c) == c \in members /\ NoUnbind(up[c])

(* What the sentinel and the frames to it have to do with what the child   *)
(* has been told.                                                          *)
Kept(c) ==
  /\ c \in granted \/ caller[c] = "advertising" => Placed(c)
  /\ caller[c] \in {"withdrawing", "unbinding", "rollback"} => c \notin granted
  /\ caller[c] \in {"binding", "bindingOffer"} =>
       /\ AfterBind(up[c])
       /\ worker[c].frame.waiting \/ c \in acks => Placed(c)

Membership == pooled => \A c \in Child : Kept(c)

(* The hops of an envelope follow from where it is and comes from.         *)
Hops ==
  /\ envelope.at = Root => envelope.hops = 2 /\ envelope.origin = "DOWNSTREAM"
  /\ envelope.at = Mid =>
       envelope.hops = IF envelope.origin = "DOWNSTREAM" THEN 1 ELSE 3
  /\ envelope.at = "none" => envelope.hops = 0

(* The inductive invariant, and its part about the bindings.               *)
BInv == BindingTypeOK /\ Membership
IInv == TypeOK /\ Membership /\ Hops

Todos  == Seq({"join", "ack", "up"})
Worker == [frame : Frames, todo : Todos]

USE BindingAssumption, NodesAssumption
-----------------------------------------------------------------------------
(* The frames under way: a suffix of them, one more, nobody waiting.       *)

Suffix(s, n) == SubSeq(s, n + 1, Len(s))

LEMMA SuffixKeeps ==
  ASSUME NEW s \in Seq(Frames), NEW n \in 0 .. Len(s)
  PROVE  /\ Suffix(s, n) \in Seq(Frames)
         /\ NoUnbind(s) => NoUnbind(Suffix(s, n))
         /\ AfterBind(s) => AfterBind(Suffix(s, n))
<1>1. Len(s) \in Nat
  BY LenProperties
<1>2. /\ Suffix(s, n) \in Seq(Frames)
      /\ Len(Suffix(s, n)) = Len(s) - n
      /\ \A i \in 1 .. Len(s) - n : Suffix(s, n)[i] = s[i + n]
  BY <1>1 DEF Suffix
<1> HIDE DEF Suffix
<1>3. ASSUME NoUnbind(s) PROVE NoUnbind(Suffix(s, n))
  <2> SUFFICES ASSUME NEW i \in 1 .. Len(s) - n
               PROVE  Suffix(s, n)[i].type # "Unbind"
    BY <1>2 DEF NoUnbind
  <2>1. i + n \in 1 .. Len(s)
    BY <1>1
  <2>2. QED
    BY <1>2, <1>3, <2>1 DEF NoUnbind
<1>4. ASSUME AfterBind(s) PROVE AfterBind(Suffix(s, n))
  <2> DEFINE t == Suffix(s, n)
  <2>1. Len(t) = Len(s) - n
    BY <1>2
  <2>2. \A i \in 1 .. Len(t) : t[i] = s[i + n] /\ i + n \in 1 .. Len(s)
    BY <1>1, <1>2
  <2> HIDE DEF t
  <2>3. ASSUME NEW i \in 1 .. Len(t), t[i].waiting
        PROVE  /\ t[i].type = "Bind"
               /\ \A j \in i + 1 .. Len(t) : t[j].type # "Unbind"
    <3>1. /\ s[i + n].type = "Bind"
          /\ \A j \in (i + n) + 1 .. Len(s) : s[j].type # "Unbind"
      BY <1>4, <2>2, <2>3 DEF AfterBind
    <3>2. ASSUME NEW j \in i + 1 .. Len(t)
          PROVE  j \in 1 .. Len(t) /\ j + n \in (i + n) + 1 .. Len(s)
      BY <1>1, <2>1
    <3>3. QED
      BY <2>2, <3>1, <3>2
  <2>4. QED
    BY <2>3 DEF AfterBind, t
<1>5. QED
  BY <1>2, <1>3, <1>4

(* The first of them, and the others.                                      *)
LEMMA HeadIsFrame ==
  ASSUME NEW s \in Seq(Frames), s # <<>>
  PROVE  /\ Head(s) \in Frames /\ Tail(s) \in Seq(Frames)
         /\ NoUnbind(s) => NoUnbind(Tail(s)) /\ Head(s).type # "Unbind"
         /\ AfterBind(s) => AfterBind(Tail(s))
         /\ AfterBind(s) /\ Head(s).waiting =>
              Head(s).type = "Bind" /\ NoUnbind(Tail(s))
<1>1. Len(s) \in Nat \ {0}
  BY LenProperties, EmptySeq
<1>2. Head(s) = s[1] /\ s[1] \in Frames
  BY <1>1, ElementOfSeq
<1>3. /\ Tail(s) = Suffix(s, 1) /\ Len(Tail(s)) = Len(s) - 1
      /\ \A i \in 1 .. Len(s) - 1 : Tail(s)[i] = s[i + 1]
  BY <1>1 DEF Suffix
<1>4. /\ Tail(s) \in Seq(Frames)
      /\ NoUnbind(s) => NoUnbind(Tail(s))
      /\ AfterBind(s) => AfterBind(Tail(s))
  <2>1. 1 \in 0 .. Len(s)
    BY <1>1
  <2>2. /\ Suffix(s, 1) \in Seq(Frames)
        /\ NoUnbind(s) => NoUnbind(Suffix(s, 1))
        /\ AfterBind(s) => AfterBind(Suffix(s, 1))
    BY <2>1, SuffixKeeps
  <2> HIDE DEF Suffix
  <2>3. QED
    BY <1>3, <2>2
<1>5. NoUnbind(s) => Head(s).type # "Unbind"
  BY <1>1, <1>2 DEF NoUnbind
<1>6. ASSUME AfterBind(s), Head(s).waiting
      PROVE  Head(s).type = "Bind" /\ NoUnbind(Tail(s))
  <2>1. /\ s[1].type = "Bind"
        /\ \A j \in 1 + 1 .. Len(s) : s[j].type # "Unbind"
    BY <1>1, <1>2, <1>6 DEF AfterBind
  <2>2. \A i \in 1 .. Len(s) - 1 : i + 1 \in 1 + 1 .. Len(s)
    BY <1>1
  <2>3. QED
    BY <1>2, <1>3, <2>1, <2>2 DEF NoUnbind
<1>7. QED
  BY <1>2, <1>4, <1>5, <1>6

(* Nobody waits for the answer to any of them any more.                    *)
LEMMA QuietFrame ==
  ASSUME NEW f \in Frames
  PROVE  /\ [f EXCEPT !.waiting = FALSE] \in Frames
         /\ ~[f EXCEPT !.waiting = FALSE].waiting
         /\ [f EXCEPT !.waiting = FALSE].type = f.type
<1>1. [f EXCEPT !.waiting = FALSE] \in Frames
  BY DEF Frames
<1>2. ~[f EXCEPT !.waiting = FALSE].waiting
  BY DEF Frames
<1>3. [f EXCEPT !.waiting = FALSE].type = f.type
  BY DEF Frames
<1>4. QED
  BY <1>1, <1>2, <1>3

LEMMA UnawaitedKeeps ==
  ASSUME NEW s \in Seq(Frames)
  PROVE  /\ Unawaited(s) \in Seq(Frames)
         /\ NoUnbind(s) => NoUnbind(Unawaited(s))
         /\ \A i \in 1 .. Len(Unawaited(s)) : ~Unawaited(s)[i].waiting
<1> DEFINE t == Unawaited(s)
<1>1. Len(s) \in Nat /\ DOMAIN s = 1 .. Len(s)
  BY LenProperties
<1>2. t = [i \in 1 .. Len(s) |-> [s[i] EXCEPT !.waiting = FALSE]]
  BY <1>1 DEF Unawaited
<1> HIDE DEF t
<1>3. ASSUME NEW i \in 1 .. Len(s)
      PROVE  t[i] \in Frames /\ ~t[i].waiting /\ t[i].type = s[i].type
  <2>1. s[i] \in Frames
    BY <1>1, <1>3, ElementOfSeq
  <2>2. t[i] = [s[i] EXCEPT !.waiting = FALSE]
    BY <1>2
  <2>3. QED
    BY <2>1, <2>2, QuietFrame
<1>4. t \in [1 .. Len(s) -> Frames]
  BY <1>2, <1>3
<1>5. t \in Seq(Frames)
  BY <1>1, <1>4, SeqDef
<1>6. Len(t) = Len(s)
  BY <1>1, <1>4, <1>5, LenProperties
<1>7. NoUnbind(s) => NoUnbind(t)
  BY <1>3, <1>6 DEF NoUnbind
<1>8. \A i \in 1 .. Len(t) : ~t[i].waiting
  BY <1>3, <1>6
<1>9. QED
  BY <1>5, <1>7, <1>8 DEF t

(* One more frame, which is no unbind.                                     *)
LEMMA AppendKeeps ==
  ASSUME NEW s \in Seq(Frames), NEW f \in Frames
  PROVE  /\ Append(s, f) \in Seq(Frames)
         /\ f.type # "Unbind" /\ NoUnbind(s) => NoUnbind(Append(s, f))
         /\ f.type # "Unbind" /\ ~f.waiting /\ AfterBind(s) =>
              AfterBind(Append(s, f))
         /\ f.type = "Bind" /\ (\A i \in 1 .. Len(s) : ~s[i].waiting) =>
              AfterBind(Append(s, f))
<1> DEFINE t == Append(s, f)
<1>1. Len(s) \in Nat
  BY LenProperties
<1>2. /\ t \in Seq(Frames) /\ Len(t) = Len(s) + 1 /\ t[Len(s) + 1] = f
      /\ \A i \in 1 .. Len(s) : t[i] = s[i]
  BY <1>1, AppendProperties
<1> HIDE DEF t
<1>3. \A i \in 1 .. Len(s) + 1 : i \in 1 .. Len(s) \/ i = Len(s) + 1
  BY <1>1
<1>4. ASSUME f.type # "Unbind", NoUnbind(s) PROVE NoUnbind(t)
  BY <1>2, <1>3, <1>4 DEF NoUnbind
<1>5. ASSUME f.type # "Unbind", ~f.waiting, AfterBind(s)
      PROVE  AfterBind(t)
  <2> SUFFICES ASSUME NEW i \in 1 .. Len(t), t[i].waiting
               PROVE  /\ t[i].type = "Bind"
                      /\ \A j \in i + 1 .. Len(t) : t[j].type # "Unbind"
    BY DEF AfterBind
  <2>1. i \in 1 .. Len(s) /\ t[i] = s[i]
    BY <1>2, <1>3, <1>5
  <2>2. /\ s[i].type = "Bind"
        /\ \A j \in i + 1 .. Len(s) : s[j].type # "Unbind"
    BY <1>5, <2>1 DEF AfterBind
  <2>3. ASSUME NEW j \in i + 1 .. Len(t) PROVE t[j].type # "Unbind"
    <3>1. CASE j = Len(s) + 1
      BY <1>2, <1>5, <3>1
    <3>2. CASE j # Len(s) + 1
      <4>1. j \in i + 1 .. Len(s) /\ j \in 1 .. Len(s)
        BY <1>1, <1>2, <2>1, <3>2
      <4>2. QED
        BY <1>2, <2>2, <4>1
    <3>3. QED
      BY <3>1, <3>2
  <2>4. QED
    BY <2>1, <2>2, <2>3
<1>6. ASSUME f.type = "Bind", \A i \in 1 .. Len(s) : ~s[i].waiting
      PROVE  AfterBind(t)
  <2> SUFFICES ASSUME NEW i \in 1 .. Len(t), t[i].waiting
               PROVE  /\ t[i].type = "Bind"
                      /\ \A j \in i + 1 .. Len(t) : t[j].type # "Unbind"
    BY DEF AfterBind
  <2>1. i = Len(s) + 1
    BY <1>2, <1>3, <1>6
  <2>2. t[i].type = "Bind" /\ i + 1 .. Len(t) = {}
    BY <1>1, <1>2, <1>6, <2>1
  <2>3. QED
    BY <2>2
<1>7. QED
  BY <1>2, <1>4, <1>5, <1>6 DEF t
-----------------------------------------------------------------------------
(* A step that concerns one child leaves the others as they are.           *)
Still(d) ==
  /\ d \in members => d \in members'
  /\ up'[d] = up[d] /\ caller'[d] = caller[d]
  /\ d \in granted' => d \in granted
  /\ worker'[d] = worker[d]
  /\ d \in acks' => d \in acks

LEMMA OthersStay ==
  ASSUME Membership, NEW c \in Child, pooled' = pooled,
         \A d \in Child \ {c} : pooled => Still(d),
         pooled => Kept(c)'
  PROVE  Membership'
<1>1. ASSUME NEW d \in Child \ {c}, pooled PROVE Kept(d)'
  <2>1. Kept(d) /\ Still(d)
    BY <1>1 DEF Membership
  <2>2. QED
    BY <2>1 DEF Kept, Still, Placed
<1>2. QED
  BY <1>1 DEF Membership

(* Nobody waits for what a worker is about to acknowledge.                 *)
LEMMA QuietWorker ==
  ASSUME BindingTypeOK, NEW c \in Child
  PROVE  LET w == [worker EXCEPT ![c].frame.waiting = FALSE] IN
         /\ w \in [Child -> Worker] /\ ~w[c].frame.waiting
         /\ \A d \in Child \ {c} : w[d] = worker[d]
<1> DEFINE f == [worker[c].frame EXCEPT !.waiting = FALSE]
           g == [worker[c] EXCEPT !.frame = f]
           w == [worker EXCEPT ![c].frame.waiting = FALSE]
<1>1. worker \in [Child -> Worker] /\ worker[c] \in Worker
  BY DEF BindingTypeOK, Worker, Todos
<1>2. f \in Frames /\ ~f.waiting
  BY <1>1, QuietFrame DEF Worker
<1>3. w = [worker EXCEPT ![c] = g]
  OBVIOUS
<1> HIDE DEF f, w
<1>4. g \in Worker /\ g.frame = f
  BY <1>1, <1>2 DEF Worker
<1> HIDE DEF g
<1>5. w \in [Child -> Worker] /\ w[c] = g
      /\ \A d \in Child \ {c} : w[d] = worker[d]
  BY <1>1, <1>3, <1>4
<1>6. QED
  BY <1>2, <1>4, <1>5 DEF w

(* A call goes on, with other frames under way.                            *)
LEMMA CallerGoes ==
  ASSUME BInv, NEW c \in Child, NEW step \in Steps, NEW s \in Seq(Frames),
         Goto(c, step), AtChild, pooled' = pooled, rebind' = rebind,
         up' = [up EXCEPT ![c] = s], acks' = acks \ {c},
         worker' = [worker EXCEPT ![c].frame.waiting = FALSE],
         granted' \subseteq Child, bound' \subseteq Child,
         offered' \subseteq Child,
         calls' \in 0 .. MaxCalls, faults' \in 0 .. MaxFaults,
         \A d \in Child \ {c} : d \in granted' => d \in granted,
         pooled /\ (c \in granted' \/ step = "advertising") =>
           c \in members /\ NoUnbind(s),
         pooled /\ step \in {"withdrawing", "unbinding", "rollback"} =>
           c \notin granted',
         step \in {"binding", "bindingOffer"} => AfterBind(s)
  PROVE  BInv'
<1>1. /\ worker' \in [Child -> Worker] /\ ~worker'[c].frame.waiting
      /\ \A d \in Child \ {c} : worker'[d] = worker[d]
  BY QuietWorker DEF BInv
<1>2. /\ caller' \in [Child -> Steps] /\ caller'[c] = step
      /\ \A d \in Child \ {c} : caller'[d] = caller[d]
  BY DEF BInv, BindingTypeOK, Goto
<1>3. /\ up' \in [Child -> Seq(Frames)] /\ up'[c] = s
      /\ \A d \in Child \ {c} : up'[d] = up[d]
  BY DEF BInv, BindingTypeOK
<1>4. UNCHANGED <<linked, routed, members, providers, trunk, listed, known>>
  BY DEF AtChild, linkVars, rootVars
<1>5. BindingTypeOK'
  BY <1>1, <1>2, <1>3, <1>4 DEF BInv, BindingTypeOK, Worker, Todos
<1>6. \A d \in Child \ {c} : Still(d)
  BY <1>1, <1>2, <1>3, <1>4 DEF Still
<1>7. ASSUME pooled PROVE Kept(c)'
  BY <1>1, <1>2, <1>3, <1>4, <1>7 DEF Kept, Placed
<1>8. QED
  BY <1>5, <1>6, <1>7, OthersStay DEF BInv

(* The frames after a step of the caller: nobody waits, or for the last.   *)
LEMMA CallerFrames ==
  ASSUME BInv, NEW c \in Child
  PROVE  /\ up[c] \in Seq(Frames) /\ Unawaited(up[c]) \in Seq(Frames)
         /\ NoUnbind(up[c]) => NoUnbind(Unawaited(up[c]))
         /\ \A type \in Types :
              LET s == Append(Unawaited(up[c]),
                              [type |-> type, waiting |-> TRUE]) IN
              /\ s \in Seq(Frames)
              /\ type # "Unbind" /\ NoUnbind(up[c]) => NoUnbind(s)
              /\ type = "Bind" => AfterBind(s)
<1>1. up[c] \in Seq(Frames)
  BY DEF BInv, BindingTypeOK
<1>2. /\ Unawaited(up[c]) \in Seq(Frames)
      /\ NoUnbind(up[c]) => NoUnbind(Unawaited(up[c]))
      /\ \A i \in 1 .. Len(Unawaited(up[c])) : ~Unawaited(up[c])[i].waiting
  BY <1>1, UnawaitedKeeps
<1>3. ASSUME NEW type \in Types
      PROVE  LET s == Append(Unawaited(up[c]),
                             [type |-> type, waiting |-> TRUE]) IN
             /\ s \in Seq(Frames)
             /\ type # "Unbind" /\ NoUnbind(up[c]) => NoUnbind(s)
             /\ type = "Bind" => AfterBind(s)
  <2> DEFINE f == [type |-> type, waiting |-> TRUE]
  <2>1. f \in Frames /\ f.type = type
    BY DEF Frames
  <2> HIDE DEF f
  <2>2. QED
    BY <1>2, <2>1, AppendKeeps DEF f
<1>4. QED
  BY <1>1, <1>2, <1>3

LEMMA AskKeeps ==
  ASSUME BInv, NEW c \in Child, NEW step \in Steps, NEW type \in Types,
         Goto(c, step), Ask(c, type), AtChild, pooled' = pooled,
         rebind' = rebind,
         granted' \subseteq Child, bound' \subseteq Child,
         offered' \subseteq Child,
         calls' \in 0 .. MaxCalls, faults' \in 0 .. MaxFaults,
         \A d \in Child \ {c} : d \in granted' => d \in granted,
         pooled /\ (c \in granted' \/ step = "advertising") =>
           Placed(c) /\ type # "Unbind",
         pooled /\ step \in {"withdrawing", "unbinding", "rollback"} =>
           c \notin granted',
         step \in {"binding", "bindingOffer"} => type = "Bind"
  PROVE  BInv'
<1> DEFINE s == Append(Unawaited(up[c]), [type |-> type, waiting |-> TRUE])
<1>1. /\ s \in Seq(Frames)
      /\ type # "Unbind" /\ NoUnbind(up[c]) => NoUnbind(s)
      /\ type = "Bind" => AfterBind(s)
  BY CallerFrames
<1>2. /\ up' = [up EXCEPT ![c] = s] /\ acks' = acks \ {c}
      /\ worker' = [worker EXCEPT ![c].frame.waiting = FALSE]
  BY DEF Ask, BInv, BindingTypeOK
<1> HIDE DEF s
<1>3. QED
  BY <1>1, <1>2, CallerGoes DEF Placed

LEMMA HushKeeps ==
  ASSUME BInv, NEW c \in Child, Goto(c, "idle"), Hush(c), AtChild,
         pooled' = pooled, rebind' = rebind,
         granted' \subseteq Child, bound' \subseteq Child,
         offered' \subseteq Child,
         calls' \in 0 .. MaxCalls, faults' \in 0 .. MaxFaults,
         \A d \in Child \ {c} : d \in granted' => d \in granted,
         pooled /\ c \in granted' => Placed(c)
  PROVE  BInv'
<1> DEFINE s == Unawaited(up[c])
           step == "idle"
<1>1. s \in Seq(Frames) /\ (NoUnbind(up[c]) => NoUnbind(s))
  BY CallerFrames
<1>2. /\ up' = [up EXCEPT ![c] = s] /\ acks' = acks \ {c}
      /\ worker' = [worker EXCEPT ![c].frame.waiting = FALSE]
  BY DEF Hush, BInv, BindingTypeOK
<1>3. /\ step \in Steps /\ Goto(c, step)
      /\ step \notin {"advertising", "withdrawing", "unbinding", "rollback",
                      "binding", "bindingOffer"}
  BY DEF Steps
<1> HIDE DEF s, step
<1>4. QED
  BY <1>1, <1>2, <1>3, CallerGoes DEF Placed

-----------------------------------------------------------------------------
(* bind() and what it waits for                                            *)
LEMMA CallBindKeeps ==
  ASSUME BInv, NEW c \in Child, NEW offering \in BOOLEAN,
         CallBind(c, offering), pooled' = pooled
  PROVE  BInv'
<1> DEFINE step == IF offering THEN "bindingOffer" ELSE "binding"
           type == "Bind"
<1>1. /\ Goto(c, step) /\ Ask(c, type) /\ AtChild /\ rebind' = rebind
      /\ granted' = granted /\ bound' = bound \cup {c} /\ offered' = offered
      /\ calls < MaxCalls /\ calls' = calls + 1 /\ faults' = faults
  BY DEF CallBind, Calm
<1>2. /\ granted' \subseteq Child /\ bound' \subseteq Child
      /\ offered' \subseteq Child
      /\ calls' \in 0 .. MaxCalls /\ faults' \in 0 .. MaxFaults
  BY <1>1, BindingAssumption DEF BInv, BindingTypeOK
<1>3. /\ step \in Steps /\ type \in Types /\ type = "Bind"
      /\ step \notin {"advertising", "withdrawing", "unbinding", "rollback"}
      /\ type # "Unbind"
  BY DEF Steps, Types
<1>4. pooled /\ c \in granted' => Placed(c)
  BY <1>1 DEF BInv, Membership, Kept
<1> HIDE DEF step, type
<1>5. QED
  BY <1>1, <1>2, <1>3, <1>4, AskKeeps

LEMMA BindReturnsKeeps ==
  ASSUME BInv, NEW c \in Child, BindReturns(c), pooled' = pooled
  PROVE  BInv'
<1>1. /\ Goto(c, "idle") /\ Hush(c) /\ AtChild /\ rebind' = rebind
      /\ granted' = granted \cup {c} /\ bound' = bound /\ offered' = offered
      /\ calls' = calls /\ faults' = faults
      /\ caller[c] = "binding" /\ c \in acks
  BY DEF BindReturns, Answered, Calm
<1>2. /\ granted' \subseteq Child /\ bound' \subseteq Child
      /\ offered' \subseteq Child
      /\ calls' \in 0 .. MaxCalls /\ faults' \in 0 .. MaxFaults
  BY <1>1, BindingAssumption DEF BInv, BindingTypeOK
<1>3. pooled => Placed(c)
  BY <1>1 DEF BInv, Membership, Kept
<1>4. QED
  BY <1>1, <1>2, <1>3, HushKeeps

LEMMA BindGoesOnKeeps ==
  ASSUME BInv, NEW c \in Child, BindGoesOn(c), pooled' = pooled
  PROVE  BInv'
<1>1. /\ Goto(c, "advertising") /\ Ask(c, "Advertise") /\ AtChild
      /\ rebind' = rebind
      /\ granted' = granted /\ bound' = bound /\ offered' = offered
      /\ calls' = calls /\ faults' = faults
      /\ caller[c] = "bindingOffer" /\ c \in acks
  BY DEF BindGoesOn, Answered, Calm
<1>2. /\ granted' \subseteq Child /\ bound' \subseteq Child
      /\ offered' \subseteq Child
      /\ calls' \in 0 .. MaxCalls /\ faults' \in 0 .. MaxFaults
  BY <1>1, BindingAssumption DEF BInv, BindingTypeOK
<1>3. pooled => Placed(c)
  BY <1>1 DEF BInv, Membership, Kept
<1>4. "advertising" \in Steps /\ "Advertise" \in Types
  BY DEF Steps, Types
<1>5. QED
  BY <1>1, <1>2, <1>3, <1>4, AskKeeps

LEMMA OfferReturnsKeeps ==
  ASSUME BInv, NEW c \in Child, OfferReturns(c), pooled' = pooled
  PROVE  BInv'
<1>1. /\ Goto(c, "idle") /\ Hush(c) /\ AtChild /\ rebind' = rebind
      /\ granted' = granted \cup {c} /\ bound' = bound
      /\ offered' = offered \cup {c}
      /\ calls' = calls /\ faults' = faults /\ caller[c] = "advertising"
  BY DEF OfferReturns, Answered, Calm
<1>2. /\ granted' \subseteq Child /\ bound' \subseteq Child
      /\ offered' \subseteq Child
      /\ calls' \in 0 .. MaxCalls /\ faults' \in 0 .. MaxFaults
  BY <1>1, BindingAssumption DEF BInv, BindingTypeOK
<1>3. pooled => Placed(c)
  BY <1>1 DEF BInv, Membership, Kept
<1>4. QED
  BY <1>1, <1>2, <1>3, HushKeeps

(* A failed bind() takes the grant of an earlier one along.                *)
LEMMA BindFailsKeeps ==
  ASSUME BInv, NEW c \in Child, BindFails(c), pooled' = pooled,
         rebind' = rebind, faults' \in 0 .. MaxFaults
  PROVE  BInv'
<1>1. /\ Goto(c, "idle") /\ Hush(c) /\ AtChild
      /\ granted' = granted \ {c} /\ bound' = bound \ {c}
      /\ offered' = offered /\ calls' = calls
  BY DEF BindFails
<1>2. /\ granted' \subseteq Child /\ bound' \subseteq Child
      /\ offered' \subseteq Child /\ calls' \in 0 .. MaxCalls
  BY <1>1 DEF BInv, BindingTypeOK
<1>3. QED
  BY <1>1, <1>2, HushKeeps

LEMMA OfferTimesOutKeeps ==
  ASSUME BInv, NEW c \in Child, OfferTimesOut(c), pooled' = pooled
  PROVE  BInv'
<1>1. /\ Goto(c, "rollback") /\ Ask(c, "Unbind") /\ AtChild
      /\ rebind' = rebind /\ granted' = granted \ {c} /\ bound' = bound
      /\ offered' = offered /\ calls' = calls
      /\ faults < MaxFaults /\ faults' = faults + 1
  BY DEF OfferTimesOut, Fault
<1>2. /\ granted' \subseteq Child /\ bound' \subseteq Child
      /\ offered' \subseteq Child
      /\ calls' \in 0 .. MaxCalls /\ faults' \in 0 .. MaxFaults
  BY <1>1, BindingAssumption DEF BInv, BindingTypeOK
<1>3. "rollback" \in Steps /\ "Unbind" \in Types
  BY DEF Steps, Types
<1>4. QED
  BY <1>1, <1>2, <1>3, AskKeeps

(* unbind() and what it waits for                                          *)
LEMMA CallUnbindKeeps ==
  ASSUME BInv, NEW c \in Child, CallUnbind(c), pooled' = pooled
  PROVE  BInv'
<1>1. /\ AtChild /\ rebind' = rebind
      /\ granted' = granted \ {c} /\ bound' = bound /\ offered' = offered
      /\ calls < MaxCalls /\ calls' = calls + 1 /\ faults' = faults
      /\ \/ Goto(c, "withdrawing") /\ Ask(c, "Withdraw")
         \/ Goto(c, "unbinding") /\ Ask(c, "Unbind")
  BY DEF CallUnbind, Calm
<1>2. /\ granted' \subseteq Child /\ bound' \subseteq Child
      /\ offered' \subseteq Child
      /\ calls' \in 0 .. MaxCalls /\ faults' \in 0 .. MaxFaults
  BY <1>1, BindingAssumption DEF BInv, BindingTypeOK
<1>3. /\ "withdrawing" \in Steps /\ "unbinding" \in Steps
      /\ "Withdraw" \in Types /\ "Unbind" \in Types
  BY DEF Steps, Types
<1>4. CASE Goto(c, "withdrawing") /\ Ask(c, "Withdraw")
  BY <1>1, <1>2, <1>3, <1>4, AskKeeps
<1>5. CASE Goto(c, "unbinding") /\ Ask(c, "Unbind")
  BY <1>1, <1>2, <1>3, <1>5, AskKeeps
<1>6. QED
  BY <1>1, <1>4, <1>5

LEMMA WithdrawGoesOnKeeps ==
  ASSUME BInv, NEW c \in Child, WithdrawGoesOn(c), pooled' = pooled
  PROVE  BInv'
<1>1. /\ Goto(c, "unbinding") /\ Ask(c, "Unbind") /\ AtChild
      /\ rebind' = rebind /\ granted' = granted /\ bound' = bound
      /\ offered' = offered \ {c} /\ calls' = calls /\ faults' = faults
      /\ caller[c] = "withdrawing"
  BY DEF WithdrawGoesOn, Answered, Calm
<1>2. /\ granted' \subseteq Child /\ bound' \subseteq Child
      /\ offered' \subseteq Child
      /\ calls' \in 0 .. MaxCalls /\ faults' \in 0 .. MaxFaults
  BY <1>1, BindingAssumption DEF BInv, BindingTypeOK
<1>3. "unbinding" \in Steps /\ "Unbind" \in Types
  BY DEF Steps, Types
<1>4. pooled => c \notin granted
  BY <1>1 DEF BInv, Membership, Kept
<1>5. QED
  BY <1>1, <1>2, <1>3, <1>4, AskKeeps

LEMMA UnbindReturnsKeeps ==
  ASSUME BInv, NEW c \in Child, UnbindReturns(c), pooled' = pooled
  PROVE  BInv'
<1>1. /\ Goto(c, "idle") /\ Hush(c) /\ AtChild /\ rebind' = rebind
      /\ granted' = granted /\ bound' = bound \ {c}
      /\ offered' = offered \ {c} /\ calls' = calls /\ faults' = faults
      /\ caller[c] = "unbinding"
  BY DEF UnbindReturns, Answered, Calm
<1>2. /\ granted' \subseteq Child /\ bound' \subseteq Child
      /\ offered' \subseteq Child
      /\ calls' \in 0 .. MaxCalls /\ faults' \in 0 .. MaxFaults
  BY <1>1, BindingAssumption DEF BInv, BindingTypeOK
<1>3. pooled => c \notin granted
  BY <1>1 DEF BInv, Membership, Kept
<1>4. QED
  BY <1>1, <1>2, <1>3, HushKeeps

LEMMA UnbindTimesOutKeeps ==
  ASSUME BInv, NEW c \in Child, UnbindTimesOut(c), pooled' = pooled
  PROVE  BInv'
<1>1. /\ Goto(c, "idle") /\ Hush(c) /\ AtChild /\ rebind' = rebind
      /\ granted' = granted /\ bound' = bound /\ offered' = offered
      /\ calls' = calls /\ faults < MaxFaults /\ faults' = faults + 1
      /\ caller[c] \in {"withdrawing", "unbinding"}
  BY DEF UnbindTimesOut, Fault
<1>2. /\ granted' \subseteq Child /\ bound' \subseteq Child
      /\ offered' \subseteq Child
      /\ calls' \in 0 .. MaxCalls /\ faults' \in 0 .. MaxFaults
  BY <1>1, BindingAssumption DEF BInv, BindingTypeOK
<1>3. pooled => c \notin granted
  BY <1>1 DEF BInv, Membership, Kept
<1>4. QED
  BY <1>1, <1>2, <1>3, HushKeeps

(* A new epoch sends frames for which no caller waits.                     *)
LEMMA RebindKeeps ==
  ASSUME BInv, NEW c \in Child, AtRebind, pooled' = pooled,
         faults' \in 0 .. MaxFaults,
         rebind' \in [Child -> {"no", "address", "capability"}],
         \/ UNCHANGED up
         \/ \E type \in {"Bind", "Advertise"} : SendUnawaited(c, type)
  PROVE  BInv'
<1>1. UNCHANGED <<caller, bound, offered, granted, calls, acks, linked, routed,
                  members, providers, worker, trunk, listed, known>>
  BY DEF AtRebind, childVars, linkVars, midVars, rootVars
<1>2. CASE UNCHANGED up
  <2>1. BindingTypeOK'
    BY <1>1, <1>2 DEF BInv, BindingTypeOK
  <2>2. Membership'
    BY <1>1, <1>2 DEF BInv, Membership, Kept, Placed
  <2>3. QED
    BY <2>1, <2>2 DEF BInv
<1>3. ASSUME NEW type \in {"Bind", "Advertise"}, SendUnawaited(c, type)
      PROVE  BInv'
  <2> DEFINE f == [type |-> type, waiting |-> FALSE]
             s == Append(up[c], f)
  <2>1. f \in Frames /\ f.type # "Unbind" /\ ~f.waiting
    BY DEF Frames, Types
  <2>2. up[c] \in Seq(Frames)
    BY DEF BInv, BindingTypeOK
  <2>3. up' = [up EXCEPT ![c] = s]
    BY <1>3 DEF SendUnawaited
  <2> HIDE DEF f
  <2>4. /\ s \in Seq(Frames)
        /\ NoUnbind(up[c]) => NoUnbind(s)
        /\ AfterBind(up[c]) => AfterBind(s)
    BY <2>1, <2>2, AppendKeeps
  <2> HIDE DEF s
  <2>5. /\ up' \in [Child -> Seq(Frames)] /\ up'[c] = s
        /\ \A d \in Child \ {c} : up'[d] = up[d]
    BY <2>3, <2>4 DEF BInv, BindingTypeOK
  <2>6. BindingTypeOK'
    BY <1>1, <2>5 DEF BInv, BindingTypeOK
  <2>7. \A d \in Child \ {c} : Still(d)
    BY <1>1, <2>5 DEF Still
  <2>8. ASSUME pooled PROVE Kept(c)'
    <3>1. Kept(c)
      BY <2>8 DEF BInv, Membership
    <3>2. QED
      BY <1>1, <2>4, <2>5, <3>1 DEF Kept, Placed
  <2>9. QED
    BY <2>6, <2>7, <2>8, OthersStay DEF BInv
<1>4. QED
  BY <1>2, <1>3

LEMMA ReadvertiseTyped ==
  ASSUME BInv, NEW c \in Child, Readvertise(c)
  PROVE  /\ rebind' \in [Child -> {"no", "address", "capability"}]
         /\ \/ UNCHANGED up
            \/ \E type \in {"Bind", "Advertise"} : SendUnawaited(c, type)
BY DEF Readvertise, BInv, BindingTypeOK

LEMMA EpochChangesKeeps ==
  ASSUME BInv, NEW c \in Child, EpochChanges(c), pooled' = pooled
  PROVE  BInv'
<1>1. /\ AtRebind /\ faults < MaxFaults /\ faults' = faults + 1
      /\ \/ /\ SendUnawaited(c, "Bind")
            /\ rebind' = [rebind EXCEPT ![c] = "address"]
         \/ Readvertise(c)
  BY DEF EpochChanges
<1>2. faults' \in 0 .. MaxFaults
  BY <1>1, BindingAssumption DEF BInv, BindingTypeOK
<1>3. rebind \in [Child -> {"no", "address", "capability"}]
  BY DEF BInv, BindingTypeOK
<1>4. CASE SendUnawaited(c, "Bind") /\ rebind' = [rebind EXCEPT ![c] = "address"]
  BY <1>1, <1>2, <1>3, <1>4, RebindKeeps
<1>5. CASE Readvertise(c)
  BY <1>1, <1>2, <1>5, ReadvertiseTyped, RebindKeeps
<1>6. QED
  BY <1>1, <1>4, <1>5

LEMMA RebindTimesOutKeeps ==
  ASSUME BInv, NEW c \in Child, RebindTimesOut(c), pooled' = pooled
  PROVE  BInv'
<1>1. /\ AtRebind /\ faults' = faults
      /\ \/ Readvertise(c)
         \/ rebind' = [rebind EXCEPT ![c] = "no"] /\ UNCHANGED up
  BY DEF RebindTimesOut
<1>2. faults' \in 0 .. MaxFaults
  BY <1>1 DEF BInv, BindingTypeOK
<1>3. rebind \in [Child -> {"no", "address", "capability"}]
  BY DEF BInv, BindingTypeOK
<1>4. CASE rebind' = [rebind EXCEPT ![c] = "no"] /\ UNCHANGED up
  BY <1>1, <1>2, <1>3, <1>4, RebindKeeps
<1>5. CASE Readvertise(c)
  BY <1>1, <1>2, <1>5, ReadvertiseTyped, RebindKeeps
<1>6. QED
  BY <1>1, <1>4, <1>5

-----------------------------------------------------------------------------
(* The sentinel takes the first frame of a child.                          *)
LEMMA TakeKeeps ==
  ASSUME BInv, NEW c \in Child, NEW type \in Types, Takes(c, type),
         pooled' = pooled,
         members' \subseteq Child, providers' \subseteq Child,
         \/ worker' = worker
         \/ \E todo \in Todos : Begin(c, todo) /\
              (pooled /\ type = "Bind" => c \in members'),
         pooled => \A d \in Child \ {c} : d \in members => d \in members',
         pooled /\ type # "Unbind" => (c \in members => c \in members')
  PROVE  BInv'
<1> DEFINE f == Head(up[c])
<1>1. UNCHANGED <<caller, bound, offered, granted, calls, acks, linked, routed,
                  trunk, listed, known, rebind, faults>>
  BY DEF Takes, childVars, linkVars, rootVars, Calm
<1>2. /\ up[c] \in Seq(Frames) /\ up[c] # <<>> /\ f.type = type
      /\ up' = [up EXCEPT ![c] = Tail(up[c])]
  BY DEF Takes, BInv, BindingTypeOK
<1>3. /\ f \in Frames /\ Tail(up[c]) \in Seq(Frames)
      /\ NoUnbind(up[c]) => NoUnbind(Tail(up[c])) /\ f.type # "Unbind"
      /\ AfterBind(up[c]) => AfterBind(Tail(up[c]))
      /\ AfterBind(up[c]) /\ f.waiting =>
           f.type = "Bind" /\ NoUnbind(Tail(up[c]))
  BY <1>2, HeadIsFrame
<1>4. /\ up' \in [Child -> Seq(Frames)] /\ up'[c] = Tail(up[c])
      /\ \A d \in Child \ {c} : up'[d] = up[d]
  BY <1>2, <1>3 DEF BInv, BindingTypeOK
<1>5. worker \in [Child -> Worker]
  BY DEF BInv, BindingTypeOK, Worker, Todos
<1>6. /\ worker' \in [Child -> Worker]
      /\ \A d \in Child \ {c} : worker'[d] = worker[d]
      /\ \/ worker'[c] = worker[c]
         \/ /\ worker'[c].frame = f
            /\ pooled /\ type = "Bind" => c \in members'
  <2>1. CASE worker' = worker
    BY <1>5, <2>1
  <2>2. ASSUME NEW todo \in Todos, Begin(c, todo),
               pooled /\ type = "Bind" => c \in members'
        PROVE  /\ worker' \in [Child -> Worker]
               /\ \A d \in Child \ {c} : worker'[d] = worker[d]
               /\ worker'[c].frame = f
    <3> DEFINE job == [frame |-> f, todo |-> todo]
    <3>1. worker' = [worker EXCEPT ![c] = job]
      BY <2>2 DEF Begin
    <3>2. job \in Worker /\ job.frame = f
      BY <1>3 DEF Worker
    <3> HIDE DEF job, f
    <3>3. QED
      BY <1>5, <2>2, <3>1, <3>2
  <2>3. QED
    BY <2>1, <2>2
<1> HIDE DEF f
<1>7. BindingTypeOK'
  BY <1>1, <1>4, <1>6 DEF BInv, BindingTypeOK, Worker, Todos
<1>8. pooled => \A d \in Child \ {c} : Still(d)
  BY <1>1, <1>4, <1>6 DEF Still
<1>9. ASSUME pooled PROVE Kept(c)'
  <2>1. Kept(c)
    BY <1>9 DEF BInv, Membership
  <2>2. Placed(c) => Placed(c)'
    BY <1>2, <1>3, <1>4, <1>9 DEF Placed
  <2>3. AfterBind(up[c]) /\ worker'[c].frame.waiting /\ worker'[c].frame = f
          => NoUnbind(up'[c]) /\ type = "Bind"
    BY <1>2, <1>3, <1>4
  <2>4. QED
    BY <1>1, <1>3, <1>4, <1>6, <1>9, <2>1, <2>2, <2>3 DEF Kept, Placed
<1>10. QED
  BY <1>7, <1>8, <1>9, OthersStay DEF BInv

LEMMA TodosTyped ==
  /\ <<"ack", "up", "up">> \in Todos /\ <<"join", "ack", "up", "up">> \in Todos
  /\ <<"up", "ack", "up">> \in Todos /\ <<"ack", "up">> \in Todos
  /\ <<"ack">> \in Todos /\ <<>> \in Todos
BY DEF Todos

LEMMA AcceptBindKeeps ==
  ASSUME BInv, NEW c \in Child, AcceptBind(c), pooled' = pooled
  PROVE  BInv'
<1>1. Takes(c, "Bind") /\ providers' = providers /\ "Bind" \in Types
  BY DEF AcceptBind, Types
<1>2. members \subseteq Child /\ providers' \subseteq Child
  BY <1>1 DEF BInv, BindingTypeOK
<1>3. \/ /\ pooled /\ members' = members \cup {c}
         /\ Begin(c, <<"ack", "up", "up">>)
      \/ /\ ~pooled /\ members' = members
         /\ Begin(c, <<"join", "ack", "up", "up">>)
      \/ members' = members /\ worker' = worker
  BY DEF AcceptBind, Joined
<1>4. /\ members' \subseteq Child /\ members \subseteq members'
      /\ \/ worker' = worker
         \/ \E todo \in Todos : Begin(c, todo) /\
              (pooled /\ "Bind" = "Bind" => c \in members')
  BY <1>2, <1>3, TodosTyped
<1>5. QED
  BY <1>1, <1>2, <1>4, TakeKeeps

LEMMA AcceptUnbindKeeps ==
  ASSUME BInv, NEW c \in Child, AcceptUnbind(c), pooled' = pooled
  PROVE  BInv'
<1>1. /\ Takes(c, "Unbind") /\ providers' = providers /\ "Unbind" \in Types
      /\ members' = members \ {c}
      /\ \/ Begin(c, <<"up", "ack", "up">>) \/ Begin(c, <<"ack", "up">>)
  BY DEF AcceptUnbind, Types, Left
<1>2. members' \subseteq Child /\ providers' \subseteq Child
  BY <1>1 DEF BInv, BindingTypeOK
<1>3. \E todo \in Todos : Begin(c, todo) /\
        (pooled /\ "Unbind" = "Bind" => c \in members')
  BY <1>1, TodosTyped
<1>4. QED
  BY <1>1, <1>2, <1>3, TakeKeeps

LEMMA AcceptOfferKeeps ==
  ASSUME BInv, NEW c \in Child, AcceptAdvertise(c) \/ AcceptWithdraw(c),
         pooled' = pooled
  PROVE  BInv'
<1> DEFINE Kinds == {"Advertise", "Withdraw"}
<1>1. PICK type \in Kinds :
        /\ Takes(c, type) /\ members' = members /\ providers' \subseteq Child
        /\ \/ worker' = worker
           \/ Begin(c, <<"ack", "up">>) \/ Begin(c, <<"ack">>)
  BY DEF AcceptAdvertise, AcceptWithdraw, Offering, BInv, BindingTypeOK
<1>2. /\ type \in Types /\ type # "Bind" /\ type # "Unbind"
      /\ members' \subseteq Child
  BY <1>1 DEF Types, BInv, BindingTypeOK
<1>3. \/ worker' = worker
      \/ \E todo \in Todos : Begin(c, todo) /\
           (pooled /\ type = "Bind" => c \in members')
  BY <1>1, <1>2, TodosTyped
<1>4. QED
  BY <1>1, <1>2, <1>3, TakeKeeps

(* A handler goes on after an await.                                       *)
LEMMA Next1Typed ==
  ASSUME BInv, NEW c \in Child, worker[c].todo # <<>>, Next1(c)
  PROVE  /\ worker' \in [Child -> Worker]
         /\ worker'[c].frame.waiting => worker[c].frame.waiting
         /\ \A d \in Child \ {c} : worker'[d] = worker[d]
<1> DEFINE more == [worker[c] EXCEPT !.todo = Tail(worker[c].todo)]
           job  == IF Len(worker[c].todo) = 1 THEN Idle ELSE more
<1>1. worker \in [Child -> Worker] /\ worker[c] \in Worker
  BY DEF BInv, BindingTypeOK, Worker, Todos
<1>2. worker' = [worker EXCEPT ![c] = job]
  BY <1>1 DEF Next1
<1>3. Idle \in Worker /\ ~Idle.frame.waiting
  BY DEF Idle, Worker, Todos, Frames, Types
<1>4. Tail(worker[c].todo) \in Todos
  BY <1>1, HeadTailProperties DEF Worker, Todos
<1>5. more \in Worker /\ more.frame = worker[c].frame
  BY <1>1, <1>4 DEF Worker
<1> HIDE DEF more
<1>6. job \in Worker /\ (job.frame.waiting => worker[c].frame.waiting)
  BY <1>3, <1>5
<1> HIDE DEF job
<1>7. QED
  BY <1>1, <1>2, <1>6

(* Where it goes on, it may acknowledge what the child waits for.          *)
LEMMA GoesOnKeeps ==
  ASSUME BInv, NEW c \in Child, NEW step, GoesOn(c, step), pooled' = pooled,
         members' \subseteq Child, trunk' \in Seq([type : Types, child : Child]),
         listed' = listed, known' = known,
         worker' \in [Child -> Worker],
         worker'[c].frame.waiting => worker[c].frame.waiting,
         \A d \in Child \ {c} : worker'[d] = worker[d],
         acks' = acks \/ (acks' = acks \cup {c} /\ worker[c].frame.waiting),
         pooled => members \subseteq members'
  PROVE  BInv'
<1>1. UNCHANGED <<caller, bound, offered, granted, calls, up, linked, routed,
                  providers, rebind, faults>>
  BY DEF GoesOn, childVars, linkVars, Calm
<1>2. BindingTypeOK'
  BY <1>1 DEF BInv, BindingTypeOK, Worker, Todos
<1>3. pooled => \A d \in Child \ {c} : Still(d)
  BY <1>1 DEF Still
<1>4. ASSUME pooled PROVE Kept(c)'
  <2>1. Kept(c)
    BY <1>4 DEF BInv, Membership
  <2>2. QED
    BY <1>1, <1>4, <2>1 DEF Kept, Placed
<1>5. QED
  BY <1>2, <1>3, <1>4, OthersStay DEF BInv

LEMMA WriteOwnerKeeps ==
  ASSUME BInv, NEW c \in Child, WriteOwner(c), pooled' = pooled
  PROVE  BInv'
<1>1. /\ GoesOn(c, "join") /\ Next1(c) /\ worker[c].todo # <<>>
      /\ members' = Joined(c)
      /\ UNCHANGED <<acks, trunk, listed, known>>
  BY DEF WriteOwner, GoesOn, rootVars
<1>2. /\ members' \subseteq Child /\ (pooled => members \subseteq members')
      /\ trunk' \in Seq([type : Types, child : Child])
  BY <1>1 DEF Joined, BInv, BindingTypeOK
<1>3. QED
  BY <1>1, <1>2, Next1Typed, GoesOnKeeps

LEMMA SendAckKeeps ==
  ASSUME BInv, NEW c \in Child, SendAck(c), pooled' = pooled
  PROVE  BInv'
<1>1. /\ GoesOn(c, "ack") /\ worker[c].todo # <<>>
      /\ UNCHANGED <<members, trunk, listed, known>>
      /\ Next1(c) \/ worker' = [worker EXCEPT ![c] = Idle]
      /\ acks' = acks \/ (acks' = acks \cup {c} /\ worker[c].frame.waiting)
  BY DEF SendAck, GoesOn, rootVars
<1>2. /\ members' \subseteq Child /\ members \subseteq members'
      /\ trunk' \in Seq([type : Types, child : Child])
  BY <1>1 DEF BInv, BindingTypeOK
<1>3. /\ worker' \in [Child -> Worker]
      /\ worker'[c].frame.waiting => worker[c].frame.waiting
      /\ \A d \in Child \ {c} : worker'[d] = worker[d]
  <2>1. CASE Next1(c)
    BY <1>1, <2>1, Next1Typed
  <2>2. CASE worker' = [worker EXCEPT ![c] = Idle]
    <3>1. Idle \in Worker /\ ~Idle.frame.waiting
      BY DEF Idle, Worker, Todos, Frames, Types
    <3>2. worker \in [Child -> Worker]
      BY DEF BInv, BindingTypeOK, Worker, Todos
    <3>3. QED
      BY <2>2, <3>1, <3>2
  <2>3. QED
    BY <1>1, <2>1, <2>2
<1>4. QED
  BY <1>1, <1>2, <1>3, GoesOnKeeps

LEMMA SendUpKeeps ==
  ASSUME BInv, NEW c \in Child, SendUp(c), pooled' = pooled
  PROVE  BInv'
<1> DEFINE f == [type |-> worker[c].frame.type, child |-> c]
<1>1. /\ GoesOn(c, "up") /\ Next1(c) /\ worker[c].todo # <<>>
      /\ UNCHANGED <<acks, members, listed, known>>
      /\ trunk' = Append(trunk, f)
  BY DEF SendUp, GoesOn
<1>2. f \in [type : Types, child : Child]
  BY DEF BInv, BindingTypeOK, Frames
<1> HIDE DEF f
<1>3. trunk \in Seq([type : Types, child : Child])
  BY DEF BInv, BindingTypeOK
<1>4. trunk' \in Seq([type : Types, child : Child])
  BY <1>1, <1>2, <1>3, AppendProperties
<1>5. members' \subseteq Child /\ members \subseteq members'
  BY <1>1 DEF BInv, BindingTypeOK
<1>6. QED
  BY <1>1, <1>4, <1>5, Next1Typed, GoesOnKeeps

(* The root keeps no more than its sentinel has told it.                   *)
LEMMA RootAcceptsKeeps ==
  ASSUME BInv, RootAccepts, pooled' = pooled
  PROVE  BInv'
<1> DEFINE Trunk == [type : Types, child : Child]
           f == Head(trunk)
<1>1. UNCHANGED <<caller, bound, offered, granted, calls, up, acks, linked,
                  routed, members, providers, worker, rebind, faults>>
  BY DEF RootAccepts, childVars, wireVars, linkVars, midVars, Calm
<1>2. trunk \in Seq(Trunk) /\ trunk # <<>> /\ trunk' = Tail(trunk)
  BY DEF RootAccepts, BInv, BindingTypeOK
<1>3. f \in Trunk /\ trunk' \in Seq(Trunk)
  BY <1>2, HeadTailProperties
<1>4. f.child \in Child
  BY <1>3
<1>5. listed \in BOOLEAN /\ known \subseteq Child
  BY DEF BInv, BindingTypeOK
<1>6. known' \in {known, Offering(known, f.child), known \ {f.child}, {}}
  <2>1. known' = CASE f.type = "Bind" -> known
                   [] f.type = "Unbind" -> known
                   [] f.type = "Advertise" -> Offering(known, f.child)
                   [] f.type = "Withdraw" ->
                        IF pooled THEN known \ {f.child} ELSE {}
                   [] OTHER -> known
    BY <1>2 DEF RootAccepts
  <2> HIDE DEF f
  <2>2. QED
    BY <2>1
<1>7. known' \subseteq Child
  BY <1>4, <1>5, <1>6 DEF Offering
<1>8. listed' \in {TRUE, FALSE, listed}
  BY DEF RootAccepts
<1>9. BindingTypeOK'
  BY <1>1, <1>3, <1>5, <1>7, <1>8 DEF BInv, BindingTypeOK
<1>10. Membership'
  BY <1>1 DEF BInv, Membership, Kept, Placed
<1>11. QED
  BY <1>9, <1>10 DEF BInv

(* A lost connection takes the first frames along, an expired route no     *)
(* place in a pool.                                                        *)
LEMMA ConnectionLostKeeps ==
  ASSUME BInv, NEW c \in Child, ConnectionLost(c), pooled' = pooled
  PROVE  BInv'
<1>1. /\ UNCHANGED <<caller, bound, offered, granted, calls, routed, members,
                     providers, worker, trunk, listed, known, rebind>>
      /\ linked' = linked \ {c} /\ acks' = acks \ {c}
      /\ faults < MaxFaults /\ faults' = faults + 1
  BY DEF ConnectionLost, Fault, childVars, midVars, rootVars
<1>2. faults' \in 0 .. MaxFaults
  BY <1>1, BindingAssumption DEF BInv, BindingTypeOK
<1>3. PICK n \in 0 .. Len(up[c]) : up' = [up EXCEPT ![c] = Suffix(up[c], n)]
  BY DEF ConnectionLost, Suffix, BInv, BindingTypeOK
<1>4. up[c] \in Seq(Frames)
  BY DEF BInv, BindingTypeOK
<1>5. /\ Suffix(up[c], n) \in Seq(Frames)
      /\ NoUnbind(up[c]) => NoUnbind(Suffix(up[c], n))
      /\ AfterBind(up[c]) => AfterBind(Suffix(up[c], n))
  BY <1>4, SuffixKeeps
<1>6. /\ up' \in [Child -> Seq(Frames)] /\ up'[c] = Suffix(up[c], n)
      /\ \A d \in Child \ {c} : up'[d] = up[d]
  BY <1>3, <1>5 DEF BInv, BindingTypeOK
<1>7. BindingTypeOK'
  BY <1>1, <1>2, <1>6 DEF BInv, BindingTypeOK
<1>8. \A d \in Child \ {c} : Still(d)
  BY <1>1, <1>6 DEF Still
<1>9. ASSUME pooled PROVE Kept(c)'
  <2>1. Kept(c)
    BY <1>9 DEF BInv, Membership
  <2>2. QED
    BY <1>1, <1>5, <1>6, <2>1 DEF Kept, Placed
<1>10. QED
  BY <1>7, <1>8, <1>9, OthersStay DEF BInv

LEMMA RouteChanges ==
  ASSUME BInv, NEW c \in Child, RouteExpires(c) \/ Reattach(c),
         pooled' = pooled
  PROVE  BInv'
<1>1. UNCHANGED <<caller, bound, offered, granted, calls, up, acks, providers,
                  worker, trunk, listed, known, rebind, faults>>
  BY DEF RouteExpires, Reattach, childVars, wireVars, midVars, rootVars, Calm
<1>2. /\ linked' \in {linked, linked \cup {c}}
      /\ routed' \in {routed \ {c}, routed \cup {c}}
      /\ members' \subseteq members /\ (pooled => members' = members)
  BY DEF RouteExpires, Reattach, Purged, midVars
<1>3. BindingTypeOK'
  BY <1>1, <1>2 DEF BInv, BindingTypeOK
<1>4. Membership'
  BY <1>1, <1>2 DEF BInv, Membership, Kept, Placed
<1>5. QED
  BY <1>3, <1>4 DEF BInv

-----------------------------------------------------------------------------
(* All together: nothing is bound at the start, and every step keeps it.   *)
LEMMA BindingInitKeeps == BindingInit => BInv
<1> SUFFICES ASSUME BindingInit PROVE BInv
  OBVIOUS
<1>1. Idle \in Worker /\ <<>> \in Seq(Frames)
      /\ <<>> \in Seq([type : Types, child : Child])
  BY DEF Idle, Worker, Todos, Frames, Types
<1>2. /\ worker \in [Child -> Worker] /\ up \in [Child -> Seq(Frames)]
      /\ trunk \in Seq([type : Types, child : Child])
  BY <1>1 DEF BindingInit
<1>3. /\ caller \in [Child -> Steps]
      /\ rebind \in [Child -> {"no", "address", "capability"}]
  BY DEF BindingInit, Steps
<1>4. /\ pooled \in PoolKinds /\ listed \in BOOLEAN
      /\ bound \subseteq Child /\ offered \subseteq Child
      /\ granted \subseteq Child /\ acks \subseteq Child
      /\ linked \subseteq Child /\ routed \subseteq Child
      /\ members \subseteq Child /\ providers \subseteq Child
      /\ known \subseteq Child
      /\ calls \in 0 .. MaxCalls /\ faults \in 0 .. MaxFaults
  <2>1. /\ pooled \in PoolKinds /\ listed = FALSE /\ calls = 0 /\ faults = 0
        /\ bound = {} /\ offered = {} /\ granted = {} /\ acks = {}
        /\ linked = Child /\ routed = Child
        /\ members = {} /\ providers = {} /\ known = {}
    BY DEF BindingInit
  <2>2. 0 \in 0 .. MaxCalls /\ 0 \in 0 .. MaxFaults
    BY BindingAssumption
  <2>3. QED
    BY <2>1, <2>2
<1>5. BindingTypeOK
  BY <1>2, <1>3, <1>4 DEF BindingTypeOK, Worker, Todos
<1>6. Membership
  BY DEF BindingInit, Membership, Kept
<1>7. QED
  BY <1>5, <1>6 DEF BInv

LEMMA BindingNextKeeps ==
  ASSUME BInv, BindingNext
  PROVE  BInv'
<1>1. pooled' = pooled
  BY DEF BindingNext
<1>2. CASE ChildNext
  <2>1. ASSUME NEW c \in Child, NEW offering \in BOOLEAN,
               CallBind(c, offering)
        PROVE  BInv'
    BY <1>1, <2>1, CallBindKeeps
  <2>2. ASSUME NEW c \in Child, RollbackReturns(c) \/ BindTimesOut(c)
        PROVE  BInv'
    <3>1. BindFails(c) /\ rebind' = rebind /\ faults' \in 0 .. MaxFaults
      BY <2>2, BindingAssumption DEF RollbackReturns, BindTimesOut, Answered,
         Fault, Calm, BInv, BindingTypeOK
    <3>2. QED
      BY <1>1, <3>1, BindFailsKeeps
  <2>3. ASSUME NEW c \in Child,
               \/ CallUnbind(c) \/ BindReturns(c) \/ BindGoesOn(c)
               \/ OfferReturns(c) \/ WithdrawGoesOn(c) \/ UnbindReturns(c)
        PROVE  BInv'
    BY <1>1, <2>3, CallUnbindKeeps, BindReturnsKeeps, BindGoesOnKeeps,
       OfferReturnsKeeps, WithdrawGoesOnKeeps, UnbindReturnsKeeps
  <2>4. ASSUME NEW c \in Child,
               \/ OfferTimesOut(c) \/ UnbindTimesOut(c)
               \/ EpochChanges(c) \/ RebindTimesOut(c)
        PROVE  BInv'
    BY <1>1, <2>4, OfferTimesOutKeeps, UnbindTimesOutKeeps,
       EpochChangesKeeps, RebindTimesOutKeeps
  <2>5. QED
    BY <1>2, <2>1, <2>2, <2>3, <2>4 DEF ChildNext
<1>3. CASE MidNext
  <2>1. ASSUME NEW c \in Child,
               \/ AcceptBind(c) \/ AcceptUnbind(c)
               \/ AcceptAdvertise(c) \/ AcceptWithdraw(c)
        PROVE  BInv'
    BY <1>1, <2>1, AcceptBindKeeps, AcceptUnbindKeeps, AcceptOfferKeeps
  <2>2. ASSUME NEW c \in Child, WriteOwner(c) \/ SendAck(c) \/ SendUp(c)
        PROVE  BInv'
    BY <1>1, <2>2, WriteOwnerKeeps, SendAckKeeps, SendUpKeeps
  <2>3. QED
    BY <1>3, <2>1, <2>2 DEF MidNext
<1>4. CASE RootAccepts
  BY <1>1, <1>4, RootAcceptsKeeps
<1>5. CASE LinkNext
  BY <1>1, <1>5, ConnectionLostKeeps, RouteChanges DEF LinkNext
<1>6. QED
  BY <1>2, <1>3, <1>4, <1>5 DEF BindingNext
-----------------------------------------------------------------------------
(***************************************************************************)
(* The envelope: at a sentinel it is settled or moves on, from the root    *)
(* down, and from the sentinel up if it came from below.                   *)
(***************************************************************************)
Places == {"none", Mid, Root}
Envelopes ==
  [at : Places, from : Nodes, origin : {"UPSTREAM", "DOWNSTREAM"},
   by : {"address", "capability"}, hops : 0 .. HopLimit]

LEMMA EnvelopeMoves ==
  ASSUME BInv, NEW n \in {Mid, Root}, AtSentinel(n)
  PROVE  /\ \/ Settle
            \/ n = Root /\ HopTo(Mid, "UPSTREAM")
            \/ /\ n = Mid /\ envelope.origin # "UPSTREAM"
               /\ HopTo(Root, "DOWNSTREAM")
         /\ routed' \subseteq routed
<1>1. Mid \notin members /\ Mid \notin providers
  BY NodesAssumption DEF BInv, BindingTypeOK
<1>2. \A m : ForwardChild(m) =>
        /\ Settle \/ (m = Mid /\ HopTo(Mid, "UPSTREAM"))
        /\ routed' \subseteq routed
  BY DEF ForwardChild
<1>3. \A m \in Bearers(n) \cup Offerers(n) : m = Mid => n = Root
  BY <1>1 DEF Bearers, Offerers
<1>4. ForwardUpstream(Root) =>
        Settle \/ (envelope.origin # "UPSTREAM" /\ HopTo(Root, "DOWNSTREAM"))
  BY DEF ForwardUpstream
<1> HIDE DEF Settle, HopTo, ForwardChild, ForwardUpstream
<1>5. CASE RouteByAddress(n)
  BY <1>2, <1>3, <1>4, <1>5 DEF RouteByAddress
<1>6. CASE RouteByCapability(n)
  BY <1>2, <1>3, <1>4, <1>6 DEF RouteByCapability
<1>7. QED
  BY <1>5, <1>6 DEF AtSentinel

LEMMA NoEnvelopeRests ==
  /\ NoEnvelope \in Envelopes
  /\ NoEnvelope.at = "none" /\ NoEnvelope.hops = 0
BY DEF NoEnvelope, Envelopes, Places, Nodes, HopLimit

LEMMA SettleKeeps ==
  ASSUME Settle
  PROVE  envelope' \in Envelopes /\ Hops'
BY NoEnvelopeRests, NodesAssumption DEF Settle, Hops

LEMMA HopKeeps ==
  ASSUME envelope \in Envelopes, Hops, NEW n \in {Mid, Root}, envelope.at = n,
         NEW m \in {Mid, Root}, NEW o \in {"UPSTREAM", "DOWNSTREAM"},
         HopTo(m, o),
         \/ n = Root /\ m = Mid /\ o = "UPSTREAM"
         \/ n = Mid /\ m = Root /\ o = "DOWNSTREAM"
              /\ envelope.origin # "UPSTREAM"
  PROVE  envelope' \in Envelopes /\ Hops'
<1>1. /\ envelope.hops \in 0 .. 4 /\ envelope.by \in {"address", "capability"}
      /\ envelope.origin \in {"UPSTREAM", "DOWNSTREAM"}
      /\ n \in Nodes /\ m \in Places
  BY DEF Envelopes, HopLimit, Nodes, Places
<1>2. \/ n = Root /\ envelope.hops = 2
      \/ n = Mid /\ envelope.hops = 1
  BY <1>1 DEF Hops
<1> DEFINE h == envelope.hops + 1
           moved == [envelope EXCEPT !.at = m, !.from = n, !.origin = o,
                                     !.hops = h]
<1>3. h \in 0 .. 4 /\ envelope' = moved
  <2>1. h \in 0 .. 4 /\ envelope.hops < HopLimit
    BY <1>2 DEF HopLimit
  <2>2. (IF envelope.hops < HopLimit THEN h ELSE envelope.hops) = h
    BY <2>1
  <2> HIDE DEF h
  <2>3. envelope' = [envelope EXCEPT !.at = m, !.from = envelope.at,
                       !.origin = o,
                       !.hops = IF envelope.hops < HopLimit THEN h
                                ELSE envelope.hops]
    BY DEF HopTo, h
  <2>4. QED
    BY <2>1, <2>2, <2>3
<1> HIDE DEF h
<1>4. moved \in Envelopes
  BY <1>1, <1>3 DEF Envelopes, HopLimit
<1>5. moved.at = m /\ moved.origin = o /\ moved.hops = h
  BY <1>1 DEF Envelopes
<1> HIDE DEF moved
<1>6. Hops'
  <2>1. envelope'.at = m /\ envelope'.origin = o /\ envelope'.hops = h
    BY <1>3, <1>5
  <2>2. \/ m = Mid /\ o = "UPSTREAM" /\ h = 3
        \/ m = Root /\ o = "DOWNSTREAM" /\ h = 2
    BY <1>2, NodesAssumption DEF h
  <2>3. CASE m = Mid /\ o = "UPSTREAM" /\ h = 3
    BY <2>1, <2>3, NodesAssumption DEF Hops
  <2>4. CASE m = Root /\ o = "DOWNSTREAM" /\ h = 2
    BY <2>1, <2>4, NodesAssumption DEF Hops
  <2>5. QED
    BY <2>2, <2>3, <2>4
<1>7. QED
  BY <1>3, <1>4, <1>6

LEMMA AtSentinelKeeps ==
  ASSUME IInv, NEW n \in {Mid, Root}, AtSentinel(n)
  PROVE  IInv'
<1>1. BInv /\ envelope \in Envelopes /\ Hops /\ envelope.at = n
  BY DEF IInv, TypeOK, BInv, Envelopes, Places, AtSentinel
<1>2. UNCHANGED <<caller, bound, offered, granted, calls, up, acks, linked,
                  members, providers, worker, trunk, listed, known, rebind,
                  faults, pooled>>
  BY DEF AtSentinel, childVars, wireVars, midVars, rootVars, Calm
<1>3. BindingTypeOK'
  BY <1>1, <1>2, EnvelopeMoves DEF BInv, BindingTypeOK
<1>4. Membership'
  BY <1>1, <1>2 DEF BInv, Membership, Kept, Placed
<1>5. envelope' \in Envelopes /\ Hops'
  <2>1. CASE Settle
    BY <2>1, SettleKeeps
  <2>2. CASE n = Root /\ HopTo(Mid, "UPSTREAM")
    BY <1>1, <2>2, HopKeeps
  <2>3. CASE /\ n = Mid /\ envelope.origin # "UPSTREAM"
             /\ HopTo(Root, "DOWNSTREAM")
    BY <1>1, <2>3, HopKeeps
  <2>4. QED
    BY <1>1, <2>1, <2>2, <2>3, EnvelopeMoves
<1>6. QED
  BY <1>3, <1>4, <1>5 DEF IInv, TypeOK, Envelopes, Places

LEMMA SendEnvelopeKeeps ==
  ASSUME IInv, SendEnvelope
  PROVE  IInv'
<1>1. BindingTypeOK /\ Membership /\ UNCHANGED bindingVars
  BY DEF IInv, TypeOK, SendEnvelope
<1>2. BindingTypeOK'
  BY <1>1 DEF BindingTypeOK, bindingVars, childVars, wireVars, linkVars,
     midVars, rootVars
<1>3. Membership'
  BY <1>1 DEF Membership, Kept, Placed, bindingVars, childVars, wireVars,
     linkVars, midVars, rootVars
<1>4. PICK by \in {"address", "capability"} :
        \/ \E c \in Child :
             envelope' = [at |-> Mid, from |-> c, origin |-> "DOWNSTREAM",
                          by |-> by, hops |-> 1]
        \/ envelope' = [at |-> Root, from |-> Root, origin |-> "DOWNSTREAM",
                        by |-> by, hops |-> 2]
  BY DEF SendEnvelope
<1>5. envelope' \in Envelopes
  BY <1>4 DEF Envelopes, Places, Nodes, HopLimit
<1>6. /\ envelope'.origin = "DOWNSTREAM"
      /\ \/ envelope'.at = Mid /\ envelope'.hops = 1
         \/ envelope'.at = Root /\ envelope'.hops = 2
  BY <1>4
<1>7. Hops'
  BY <1>6, NodesAssumption DEF Hops
<1>8. QED
  BY <1>2, <1>3, <1>5, <1>7 DEF IInv, TypeOK, Envelopes, Places

(* The invariant holds at the start, and every step keeps it.              *)
LEMMA InitKeeps == Init => IInv
<1> SUFFICES ASSUME Init PROVE IInv
  OBVIOUS
<1>1. BInv /\ envelope = NoEnvelope
  BY BindingInitKeeps DEF Init
<1>2. envelope \in Envelopes /\ Hops
  BY <1>1, NoEnvelopeRests, NodesAssumption DEF Hops
<1>3. QED
  BY <1>1, <1>2 DEF IInv, TypeOK, BInv, Envelopes, Places

LEMMA NextKeeps == IInv /\ [Next]_vars => IInv'
<1> SUFFICES ASSUME IInv, [Next]_vars PROVE IInv'
  OBVIOUS
<1>1. CASE BindingNext /\ UNCHANGED envelope
  <2>1. BInv'
    BY <1>1, BindingNextKeeps DEF IInv, TypeOK, BInv
  <2>2. QED
    BY <1>1, <2>1 DEF IInv, TypeOK, BInv, Hops
<1>2. CASE SendEnvelope
  BY <1>2, SendEnvelopeKeeps
<1>3. ASSUME NEW n \in {Mid, Root}, AtSentinel(n) PROVE IInv'
  BY <1>3, AtSentinelKeeps
<1>4. CASE UNCHANGED vars
  <2>1. BindingTypeOK'
    BY <1>4 DEF IInv, TypeOK, BindingTypeOK, vars, bindingVars, childVars,
       wireVars, linkVars, midVars, rootVars
  <2>2. Membership'
    BY <1>4 DEF IInv, Membership, Kept, Placed, vars, bindingVars, childVars,
       wireVars, linkVars, midVars, rootVars
  <2>3. envelope' = envelope
    BY <1>4 DEF vars
  <2>4. QED
    BY <2>1, <2>2, <2>3 DEF IInv, TypeOK, Hops
<1>5. QED
  BY <1>1, <1>2, <1>3, <1>4 DEF Next

LEMMA Invariance == Spec => []IInv
<1>1. Init => IInv
  BY InitKeeps
<1>2. IInv /\ [Next]_vars => IInv'
  BY NextKeeps
<1>3. QED
  BY <1>1, <1>2, PTL DEF Spec

-----------------------------------------------------------------------------
(* Children, sentinel, root and the envelope between them are what they    *)
(* are declared to be, whatever is lost or late.                           *)
THEOREM TypeCorrect == Spec => []TypeOK
<1>1. IInv => TypeOK
  BY DEF IInv
<1>2. QED
  BY <1>1, Invariance, PTL

(* MemberStaysRouted: a node whose bind() of a pool address has returned   *)
(* is a member at the sentinel until its unbind() is called, however its   *)
(* frames are lost, its route expires or its calls time out.               *)
THEOREM MembersStay == Spec => []MemberStaysRouted
<1>1. IInv => MemberStaysRouted
  <2> SUFFICES ASSUME IInv, pooled, NEW c \in granted PROVE c \in members
    BY DEF MemberStaysRouted
  <2>1. c \in Child
    BY DEF IInv, TypeOK, BindingTypeOK
  <2>2. QED
    BY <2>1 DEF IInv, Membership, Kept, Placed
<1>2. QED
  BY <1>1, Invariance, PTL

(* FewHops: whatever sentinel and root believe about who has bound the     *)
(* address or offers the capability, an envelope passes from node to node  *)
(* three times at most.                                                    *)
THEOREM EnvelopesTurnOnce == Spec => []FewHops
<1>1. IInv => FewHops
  BY DEF IInv, TypeOK, Hops, FewHops
<1>2. QED
  BY <1>1, Invariance, PTL
-----------------------------------------------------------------------------
(***************************************************************************)
(* While no connection is lost and no answer is late, a child and its      *)
(* sentinel work hand in hand: what the child asks for is on its way, or   *)
(* accepted and not answered yet.                                          *)
(***************************************************************************)
Asked(c, type) ==
  /\ up[c] = <<[type |-> type, waiting |-> TRUE]>>
  /\ c \notin acks /\ ~worker[c].frame.waiting

Accepted(c) == up[c] = <<>>

Follows(c, set, list) ==
  /\ c \in set => c \in list
  /\ pooled /\ c \in list => c \in set

(* An owner is written late, but not after the answer.                     *)
JoinsInTime(c) ==
  LET todo == worker[c].todo IN
  /\ \A i \in 2 .. Len(todo) : todo[i] # "join"
  /\ todo # <<>> /\ todo[1] = "join" =>
       /\ ~pooled /\ caller[c] \in {"binding", "bindingOffer"}
       /\ Accepted(c) /\ c \notin acks

InStep(c) ==
  /\ caller[c] # "rollback"
  /\ caller[c] = "idle" =>
       /\ Accepted(c) /\ c \notin acks /\ ~worker[c].frame.waiting
       /\ Follows(c, members, bound) /\ Follows(c, providers, offered)
  /\ caller[c] # "idle" => c \in bound
  /\ caller[c] \in {"binding", "bindingOffer"} =>
       /\ Asked(c, "Bind") \/ (Accepted(c) /\ (pooled => c \in members))
       /\ Follows(c, providers, offered)
  /\ caller[c] = "advertising" =>
       /\ pooled => c \in members
       /\ \/ Asked(c, "Advertise") /\ Follows(c, providers, offered)
          \/ Accepted(c) /\ (pooled => c \in providers)
  /\ caller[c] = "withdrawing" =>
       /\ pooled => c \in members
       /\ Asked(c, "Withdraw") \/ (Accepted(c) /\ c \notin providers)
  /\ caller[c] = "unbinding" =>
       /\ c \notin providers
       /\ \/ Asked(c, "Unbind") /\ (pooled => c \in members)
          \/ Accepted(c) /\ c \notin members

(* What the handler of a child still has to tell the root.                 *)
Told(x, type) ==
  /\ worker[x].frame.type = type
  /\ \E i \in 1 .. Len(worker[x].todo) : worker[x].todo[i] = "up"

Word(x, type) == [type |-> type, child |-> x]

(* The last word about a child is that it offers: with its handler, on the *)
(* way, or with the root.                                                  *)
WillBeKnown(x) ==
  \/ Told(x, "Advertise")
  \/ /\ ~Told(x, "Withdraw")
     /\ \/ /\ x \in known
           /\ \A j \in 1 .. Len(trunk) : trunk[j] # Word(x, "Withdraw")
        \/ \E i \in 1 .. Len(trunk) :
             /\ trunk[i] = Word(x, "Advertise")
             /\ \A j \in i + 1 .. Len(trunk) : trunk[j] # Word(x, "Withdraw")

Undisturbed ==
  linked = Child /\ routed = Child /\ \A c \in Child : rebind[c] = "no"

RootHears ==
  pooled /\ providers # {} => \E x \in Child : WillBeKnown(x)

CalmInv ==
  faults = 0 =>
    /\ Undisturbed /\ RootHears
    /\ \A c \in Child : JoinsInTime(c) /\ InStep(c)

(* A step of another child.                                                *)
Untouched(d) ==
  /\ up'[d] = up[d] /\ caller'[d] = caller[d] /\ worker'[d] = worker[d]
  /\ (d \in acks') <=> (d \in acks)
  /\ (d \in bound') <=> (d \in bound)
  /\ (d \in offered') <=> (d \in offered)
  /\ d \in members' => d \in members
  /\ d \in providers' => d \in providers
  /\ pooled => (d \in members => d \in members')
  /\ pooled => (d \in providers => d \in providers')

LEMMA UntouchedStays ==
  ASSUME NEW d \in Child, pooled' = pooled, Untouched(d),
         JoinsInTime(d), InStep(d)
  PROVE  JoinsInTime(d)' /\ InStep(d)'
<1>1. JoinsInTime(d)'
  BY DEF JoinsInTime, Untouched, Accepted
<1>2. InStep(d)'
  BY DEF InStep, Untouched, Accepted, Asked, Follows
<1>3. QED
  BY <1>1, <1>2

LEMMA NoneUnawaited == Unawaited(<<>>) = <<>>
BY DEF Unawaited

(* The child asks, or is through.                                          *)
LEMMA CallerEffect ==
  ASSUME BindingTypeOK, NEW c \in Child, NEW step \in Steps, Goto(c, step),
         AtChild, pooled' = pooled, Accepted(c), NEW s \in Seq(Frames),
         up' = [up EXCEPT ![c] = s], acks' = acks \ {c},
         worker' = [worker EXCEPT ![c].frame.waiting = FALSE],
         \A d \in Child \ {c} : /\ (d \in bound') <=> (d \in bound)
                                /\ (d \in offered') <=> (d \in offered)
  PROVE  /\ \A d \in Child \ {c} : Untouched(d)
         /\ caller'[c] = step /\ up'[c] = s /\ c \notin acks'
         /\ ~worker'[c].frame.waiting /\ worker'[c].todo = worker[c].todo
         /\ \A d \in Child : /\ worker'[d].todo = worker[d].todo
                             /\ worker'[d].frame.type = worker[d].frame.type
         /\ UNCHANGED <<members, providers, linked, routed, trunk, known>>
<1>1. ~worker'[c].frame.waiting
      /\ \A d \in Child \ {c} : worker'[d] = worker[d]
  BY QuietWorker
<1>2. \A d \in Child : /\ worker'[d].todo = worker[d].todo
                       /\ worker'[d].frame.type = worker[d].frame.type
  <2>1. worker[c] \in Worker /\ worker \in [Child -> Worker]
    BY DEF BindingTypeOK, Worker, Todos
  <2>2. worker'[c] = [worker[c] EXCEPT !.frame.waiting = FALSE]
    BY <2>1
  <2>3. worker'[c].todo = worker[c].todo
        /\ worker'[c].frame = [worker[c].frame EXCEPT !.waiting = FALSE]
    BY <2>1, <2>2 DEF Worker
  <2>4. worker'[c].frame.type = worker[c].frame.type
    BY <2>1, <2>3 DEF Worker, Frames
  <2>5. QED
    BY <1>1, <2>3, <2>4
<1>3. caller'[c] = step /\ \A d \in Child \ {c} : caller'[d] = caller[d]
  BY DEF BindingTypeOK, Goto
<1>4. up'[c] = s /\ \A d \in Child \ {c} : up'[d] = up[d]
  BY DEF BindingTypeOK
<1>5. UNCHANGED <<linked, routed, members, providers, trunk, listed, known>>
  BY DEF AtChild, linkVars, rootVars
<1>6. \A d \in Child \ {c} : Untouched(d)
  BY <1>1, <1>3, <1>4, <1>5 DEF Untouched
<1>7. QED
  BY <1>1, <1>2, <1>3, <1>4, <1>5, <1>6

LEMMA AskEffect ==
  ASSUME BindingTypeOK, NEW c \in Child, NEW step \in Steps, NEW type \in Types,
         Goto(c, step), Ask(c, type), AtChild, pooled' = pooled, Accepted(c),
         \A d \in Child \ {c} : /\ (d \in bound') <=> (d \in bound)
                                /\ (d \in offered') <=> (d \in offered)
  PROVE  /\ \A d \in Child \ {c} : Untouched(d)
         /\ caller'[c] = step /\ Asked(c, type)'
         /\ \A d \in Child : /\ worker'[d].todo = worker[d].todo
                             /\ worker'[d].frame.type = worker[d].frame.type
         /\ UNCHANGED <<members, providers, linked, routed, trunk, known>>
<1> DEFINE s == <<[type |-> type, waiting |-> TRUE]>>
<1>1. [type |-> type, waiting |-> TRUE] \in Frames
  BY DEF Frames
<1>2. s \in Seq(Frames)
  BY <1>1
<1>3. Append(Unawaited(up[c]), [type |-> type, waiting |-> TRUE]) = s
  <2>1. Unawaited(up[c]) = <<>>
    BY NoneUnawaited DEF Accepted
  <2>2. \A f \in Frames : Append(<<>>, f) = <<f>>
    OBVIOUS
  <2>3. QED
    BY <1>1, <2>1, <2>2
<1>4. /\ up' = [up EXCEPT ![c] = s] /\ acks' = acks \ {c}
      /\ worker' = [worker EXCEPT ![c].frame.waiting = FALSE]
  BY <1>3 DEF Ask
<1> HIDE DEF s
<1>5. /\ \A d \in Child \ {c} : Untouched(d)
      /\ caller'[c] = step /\ up'[c] = s /\ c \notin acks'
      /\ ~worker'[c].frame.waiting
      /\ \A d \in Child : /\ worker'[d].todo = worker[d].todo
                          /\ worker'[d].frame.type = worker[d].frame.type
      /\ UNCHANGED <<members, providers, linked, routed, trunk, known>>
  BY <1>2, <1>4, CallerEffect
<1>6. QED
  BY <1>5 DEF Asked, s

LEMMA HushEffect ==
  ASSUME BindingTypeOK, NEW c \in Child, Goto(c, "idle"), Hush(c), AtChild,
         pooled' = pooled, Accepted(c),
         \A d \in Child \ {c} : /\ (d \in bound') <=> (d \in bound)
                                /\ (d \in offered') <=> (d \in offered)
  PROVE  /\ \A d \in Child \ {c} : Untouched(d)
         /\ caller'[c] = "idle" /\ Accepted(c)' /\ c \notin acks'
         /\ ~worker'[c].frame.waiting
         /\ \A d \in Child : /\ worker'[d].todo = worker[d].todo
                             /\ worker'[d].frame.type = worker[d].frame.type
         /\ UNCHANGED <<members, providers, linked, routed, trunk, known>>
<1> DEFINE s == <<>>
<1>1. s \in Seq(Frames) /\ "idle" \in Steps
  BY DEF Steps
<1>2. /\ up' = [up EXCEPT ![c] = s] /\ acks' = acks \ {c}
      /\ worker' = [worker EXCEPT ![c].frame.waiting = FALSE]
  BY NoneUnawaited DEF Hush, Accepted
<1> HIDE DEF s
<1>3. /\ \A d \in Child \ {c} : Untouched(d)
      /\ caller'[c] = "idle" /\ up'[c] = s /\ c \notin acks'
      /\ ~worker'[c].frame.waiting
      /\ \A d \in Child : /\ worker'[d].todo = worker[d].todo
                          /\ worker'[d].frame.type = worker[d].frame.type
      /\ UNCHANGED <<members, providers, linked, routed, trunk, known>>
  BY <1>1, <1>2, CallerEffect
<1>4. QED
  BY <1>3 DEF Accepted, s

(* Nothing changes that the root might hear of.                            *)
Silent ==
  /\ \A d \in Child : /\ worker'[d].todo = worker[d].todo
                      /\ worker'[d].frame.type = worker[d].frame.type
  /\ UNCHANGED <<providers, linked, routed, trunk, known>>

LEMMA TypesAndSteps ==
  /\ {"Bind", "Unbind", "Advertise", "Withdraw"} = Types
  /\ {"idle", "binding", "bindingOffer", "advertising", "rollback",
      "withdrawing", "unbinding"} = Steps
BY DEF Types, Steps

LEMMA JoinStays ==
  ASSUME NEW c \in Child, pooled' = pooled, JoinsInTime(c),
         worker'[c].todo = worker[c].todo,
         ~(/\ caller[c] \in {"binding", "bindingOffer"}
           /\ Accepted(c) /\ c \notin acks)
  PROVE  JoinsInTime(c)'
BY DEF JoinsInTime

LEMMA CallBindInStep ==
  ASSUME BindingTypeOK, NEW c \in Child, NEW offering \in BOOLEAN,
         CallBind(c, offering), pooled' = pooled, JoinsInTime(c), InStep(c)
  PROVE  /\ \A d \in Child \ {c} : Untouched(d)
         /\ JoinsInTime(c)' /\ InStep(c)' /\ Silent /\ Calm
<1> PICK step \in {"binding", "bindingOffer"} :
      step = IF offering THEN "bindingOffer" ELSE "binding"
  OBVIOUS
<1>1. /\ caller[c] = "idle" /\ Goto(c, step) /\ Ask(c, "Bind") /\ AtChild
      /\ bound' = bound \cup {c} /\ offered' = offered /\ Calm
  BY DEF CallBind
<1>2. /\ Accepted(c) /\ c \notin acks /\ Follows(c, providers, offered)
  BY <1>1 DEF InStep
<1>3. step \in Steps /\ "Bind" \in Types
  BY TypesAndSteps
<1>4. /\ \A d \in Child \ {c} : Untouched(d)
      /\ caller'[c] = step /\ Asked(c, "Bind")'
      /\ \A d \in Child : /\ worker'[d].todo = worker[d].todo
                          /\ worker'[d].frame.type = worker[d].frame.type
      /\ UNCHANGED <<members, providers, linked, routed, trunk, known>>
  BY <1>1, <1>2, <1>3, AskEffect
<1>5. JoinsInTime(c)'
  BY <1>1, <1>4, JoinStays
<1>6. Follows(c, providers, offered)'
  BY <1>1, <1>2, <1>4 DEF Follows
<1>7. InStep(c)'
  BY <1>1, <1>4, <1>6 DEF InStep
<1>8. QED
  BY <1>1, <1>4, <1>5, <1>7 DEF Silent

LEMMA CallUnbindInStep ==
  ASSUME BindingTypeOK, NEW c \in Child, CallUnbind(c), pooled' = pooled,
         JoinsInTime(c), InStep(c)
  PROVE  /\ \A d \in Child \ {c} : Untouched(d)
         /\ JoinsInTime(c)' /\ InStep(c)' /\ Silent /\ Calm
<1>1. /\ caller[c] = "idle" /\ AtChild /\ c \in bound
      /\ bound' = bound /\ offered' = offered /\ Calm
      /\ \/ c \in offered /\ Goto(c, "withdrawing") /\ Ask(c, "Withdraw")
         \/ c \notin offered /\ Goto(c, "unbinding") /\ Ask(c, "Unbind")
  BY DEF CallUnbind
<1>2. /\ Accepted(c) /\ c \notin acks
      /\ Follows(c, members, bound) /\ Follows(c, providers, offered)
  BY <1>1 DEF InStep
<1>3. (pooled => c \in members) /\ (c \notin offered => c \notin providers)
  BY <1>1, <1>2 DEF Follows
<1>4. CASE c \in offered /\ Goto(c, "withdrawing") /\ Ask(c, "Withdraw")
  <2>1. /\ \A d \in Child \ {c} : Untouched(d)
        /\ caller'[c] = "withdrawing" /\ Asked(c, "Withdraw")'
        /\ \A d \in Child : /\ worker'[d].todo = worker[d].todo
                            /\ worker'[d].frame.type = worker[d].frame.type
        /\ UNCHANGED <<members, providers, linked, routed, trunk, known>>
    BY <1>1, <1>2, <1>4, TypesAndSteps, AskEffect
  <2>2. JoinsInTime(c)'
    BY <1>1, <2>1, JoinStays
  <2>3. InStep(c)'
    BY <1>1, <1>3, <2>1 DEF InStep
  <2>4. QED
    BY <1>1, <2>1, <2>2, <2>3 DEF Silent
<1>5. CASE c \notin offered /\ Goto(c, "unbinding") /\ Ask(c, "Unbind")
  <2>1. /\ \A d \in Child \ {c} : Untouched(d)
        /\ caller'[c] = "unbinding" /\ Asked(c, "Unbind")'
        /\ \A d \in Child : /\ worker'[d].todo = worker[d].todo
                            /\ worker'[d].frame.type = worker[d].frame.type
        /\ UNCHANGED <<members, providers, linked, routed, trunk, known>>
    BY <1>1, <1>2, <1>5, TypesAndSteps, AskEffect
  <2>2. JoinsInTime(c)'
    BY <1>1, <2>1, JoinStays
  <2>3. InStep(c)'
    BY <1>1, <1>3, <1>5, <2>1 DEF InStep
  <2>4. QED
    BY <1>1, <2>1, <2>2, <2>3 DEF Silent
<1>6. QED
  BY <1>1, <1>4, <1>5

(* An answer is there: what the child had asked for was accepted.          *)
LEMMA AnsweredIsAccepted ==
  ASSUME NEW c \in Child, c \in acks, InStep(c), caller[c] \in Steps
  PROVE  /\ Accepted(c) /\ c \in bound
         /\ caller[c] \in {"binding", "bindingOffer"} =>
              /\ pooled => c \in members
              /\ Follows(c, providers, offered)
         /\ caller[c] = "advertising" =>
              /\ pooled => c \in members
              /\ pooled => c \in providers
         /\ caller[c] = "withdrawing" =>
              (pooled => c \in members) /\ c \notin providers
         /\ caller[c] = "unbinding" => c \notin members /\ c \notin providers
BY DEF InStep, Asked, Steps

LEMMA ReturnsInStep ==
  ASSUME BindingTypeOK, NEW c \in Child, pooled' = pooled, JoinsInTime(c),
         InStep(c),
         BindReturns(c) \/ OfferReturns(c) \/ UnbindReturns(c)
  PROVE  /\ \A d \in Child \ {c} : Untouched(d)
         /\ JoinsInTime(c)' /\ InStep(c)' /\ Silent /\ Calm
<1>1. /\ c \in acks /\ Goto(c, "idle") /\ Hush(c) /\ AtChild /\ Calm
      /\ caller[c] \in Steps /\ bound \subseteq Child /\ offered \subseteq Child
  BY DEF BindReturns, OfferReturns, UnbindReturns, Answered, BindingTypeOK
<1>2. \/ /\ caller[c] = "binding" /\ bound' = bound /\ offered' = offered
      \/ /\ caller[c] = "advertising" /\ bound' = bound
         /\ offered' = offered \cup {c}
      \/ /\ caller[c] = "unbinding" /\ bound' = bound \ {c}
         /\ offered' = offered \ {c}
  BY DEF BindReturns, OfferReturns, UnbindReturns
<1>3. Accepted(c)
  BY <1>1, AnsweredIsAccepted
<1>4. /\ \A d \in Child \ {c} : Untouched(d)
      /\ caller'[c] = "idle" /\ Accepted(c)' /\ c \notin acks'
      /\ ~worker'[c].frame.waiting
      /\ \A d \in Child : /\ worker'[d].todo = worker[d].todo
                          /\ worker'[d].frame.type = worker[d].frame.type
      /\ UNCHANGED <<members, providers, linked, routed, trunk, known>>
  BY <1>1, <1>2, <1>3, HushEffect
<1>5. JoinsInTime(c)'
  BY <1>1, <1>4, JoinStays
<1>6. Follows(c, members, bound)' /\ Follows(c, providers, offered)'
  <2>1. CASE caller[c] = "binding" /\ bound' = bound /\ offered' = offered
    BY <1>1, <1>4, <2>1, AnsweredIsAccepted DEF Follows
  <2>2. CASE /\ caller[c] = "advertising" /\ bound' = bound
             /\ offered' = offered \cup {c}
    BY <1>1, <1>4, <2>2, AnsweredIsAccepted DEF Follows
  <2>3. CASE /\ caller[c] = "unbinding" /\ bound' = bound \ {c}
             /\ offered' = offered \ {c}
    BY <1>1, <1>4, <2>3, AnsweredIsAccepted DEF Follows
  <2>4. QED
    BY <1>2, <2>1, <2>2, <2>3
<1>7. InStep(c)'
  BY <1>4, <1>6 DEF InStep
<1>8. QED
  BY <1>1, <1>4, <1>5, <1>7 DEF Silent

LEMMA GoesOnInStep ==
  ASSUME BindingTypeOK, NEW c \in Child, pooled' = pooled, JoinsInTime(c),
         InStep(c), BindGoesOn(c) \/ WithdrawGoesOn(c)
  PROVE  /\ \A d \in Child \ {c} : Untouched(d)
         /\ JoinsInTime(c)' /\ InStep(c)' /\ Silent /\ Calm
<1>1. /\ c \in acks /\ AtChild /\ Calm /\ bound' = bound /\ caller[c] \in Steps
  BY DEF BindGoesOn, WithdrawGoesOn, Answered, BindingTypeOK
<1>2. Accepted(c) /\ c \in bound
  BY <1>1, AnsweredIsAccepted
<1>3. CASE BindGoesOn(c)
  <2>1. /\ caller[c] = "bindingOffer" /\ offered' = offered
        /\ Goto(c, "advertising") /\ Ask(c, "Advertise")
    BY <1>3 DEF BindGoesOn
  <2>2. /\ \A d \in Child \ {c} : Untouched(d)
        /\ caller'[c] = "advertising" /\ Asked(c, "Advertise")'
        /\ \A d \in Child : /\ worker'[d].todo = worker[d].todo
                            /\ worker'[d].frame.type = worker[d].frame.type
        /\ UNCHANGED <<members, providers, linked, routed, trunk, known>>
    BY <1>1, <1>2, <2>1, TypesAndSteps, AskEffect
  <2>3. JoinsInTime(c)'
    BY <1>1, <2>2, JoinStays
  <2>4. (pooled => c \in members) /\ Follows(c, providers, offered)
    BY <1>1, <2>1, AnsweredIsAccepted
  <2>5. Follows(c, providers, offered)'
    BY <2>1, <2>2, <2>4 DEF Follows
  <2>6. InStep(c)'
    BY <1>1, <1>2, <2>2, <2>4, <2>5 DEF InStep
  <2>7. QED
    BY <1>1, <2>2, <2>3, <2>6 DEF Silent
<1>4. CASE WithdrawGoesOn(c)
  <2>1. /\ caller[c] = "withdrawing" /\ offered' = offered \ {c}
        /\ Goto(c, "unbinding") /\ Ask(c, "Unbind")
    BY <1>4 DEF WithdrawGoesOn
  <2>2. /\ \A d \in Child \ {c} : Untouched(d)
        /\ caller'[c] = "unbinding" /\ Asked(c, "Unbind")'
        /\ \A d \in Child : /\ worker'[d].todo = worker[d].todo
                            /\ worker'[d].frame.type = worker[d].frame.type
        /\ UNCHANGED <<members, providers, linked, routed, trunk, known>>
    BY <1>1, <1>2, <2>1, TypesAndSteps, AskEffect
  <2>3. JoinsInTime(c)'
    BY <1>1, <2>2, JoinStays
  <2>4. (pooled => c \in members) /\ c \notin providers
    BY <1>1, <2>1, AnsweredIsAccepted
  <2>5. InStep(c)'
    BY <1>1, <1>2, <2>2, <2>4 DEF InStep
  <2>6. QED
    BY <1>1, <2>2, <2>3, <2>5 DEF Silent
<1>5. QED
  BY <1>3, <1>4

(* The sentinel takes what a child has asked for.                          *)
LEMMA TakenWasAsked ==
  ASSUME BindingTypeOK, NEW c \in Child, NEW type \in Types, Takes(c, type),
         InStep(c)
  PROVE  /\ Asked(c, type) /\ c \in bound
         /\ type = "Bind" => /\ caller[c] \in {"binding", "bindingOffer"}
                             /\ Follows(c, providers, offered)
         /\ type = "Advertise" => /\ caller[c] = "advertising"
                                  /\ pooled => c \in members
         /\ type = "Withdraw" => /\ caller[c] = "withdrawing"
                                 /\ pooled => c \in members
         /\ type = "Unbind" => caller[c] = "unbinding" /\ c \notin providers
<1>1. ASSUME NEW t \in Types, Asked(c, t) PROVE t = type
  <2>1. Head(up[c]) = [type |-> t, waiting |-> TRUE]
    BY <1>1 DEF Asked
  <2>2. QED
    BY <2>1 DEF Takes
<1>2. ~Accepted(c) /\ caller[c] \in Steps
  BY DEF Takes, Accepted, BindingTypeOK
<1>3. CASE caller[c] \in {"binding", "bindingOffer"}
  <2>1. Asked(c, "Bind") /\ Follows(c, providers, offered) /\ c \in bound
    BY <1>2, <1>3 DEF InStep
  <2>2. type = "Bind"
    BY <1>1, <2>1, TypesAndSteps
  <2>3. QED
    BY <1>3, <2>1, <2>2
<1>4. CASE caller[c] = "advertising"
  <2>1. Asked(c, "Advertise") /\ (pooled => c \in members) /\ c \in bound
    BY <1>2, <1>4 DEF InStep
  <2>2. type = "Advertise"
    BY <1>1, <2>1, TypesAndSteps
  <2>3. QED
    BY <1>4, <2>1, <2>2
<1>5. CASE caller[c] = "withdrawing"
  <2>1. Asked(c, "Withdraw") /\ (pooled => c \in members) /\ c \in bound
    BY <1>2, <1>5 DEF InStep
  <2>2. type = "Withdraw"
    BY <1>1, <2>1, TypesAndSteps
  <2>3. QED
    BY <1>5, <2>1, <2>2
<1>6. CASE caller[c] = "unbinding"
  <2>1. Asked(c, "Unbind") /\ c \notin providers /\ c \in bound
    BY <1>2, <1>6 DEF InStep
  <2>2. type = "Unbind"
    BY <1>1, <2>1, TypesAndSteps
  <2>3. QED
    BY <1>6, <2>1, <2>2
<1>7. QED
  BY <1>2, <1>3, <1>4, <1>5, <1>6 DEF InStep, Steps

LEMMA TakenEffect ==
  ASSUME BindingTypeOK, NEW c \in Child, NEW type \in Types, Takes(c, type),
         InStep(c), NEW todo \in Todos, Begin(c, todo)
  PROVE  /\ Accepted(c)' /\ \A d \in Child \ {c} : up'[d] = up[d]
         /\ \A d \in Child \ {c} : worker'[d] = worker[d]
         /\ worker[c].todo = <<>>
         /\ worker'[c].frame.type = type /\ worker'[c].todo = todo
         /\ UNCHANGED <<caller, bound, offered, granted, calls, acks, linked,
                        routed, trunk, listed, known, rebind, faults>>
<1>1. up[c] = <<[type |-> type, waiting |-> TRUE]>>
  BY TakenWasAsked DEF Asked
<1>2. Tail(up[c]) = <<>>
  BY <1>1
<1>3. up' = [up EXCEPT ![c] = Tail(up[c])] /\ Head(up[c]).type = type
      /\ worker[c].todo = <<>>
  BY DEF Takes, BindingTypeOK
<1>4. Accepted(c)' /\ \A d \in Child \ {c} : up'[d] = up[d]
  BY <1>2, <1>3 DEF Accepted, BindingTypeOK
<1>5. worker'[c] = [frame |-> Head(up[c]), todo |-> todo]
      /\ \A d \in Child \ {c} : worker'[d] = worker[d]
  BY DEF Begin, BindingTypeOK
<1>6. worker'[c].frame.type = type /\ worker'[c].todo = todo
  BY <1>3, <1>5
<1>7. UNCHANGED <<caller, bound, offered, granted, calls, acks, linked, routed,
                  trunk, listed, known, rebind, faults>>
  BY DEF Takes, childVars, linkVars, rootVars, Calm
<1>8. QED
  BY <1>3, <1>4, <1>5, <1>6, <1>7

LEMMA JoinsComeFirst ==
  /\ \A i \in 2 .. Len(<<"ack", "up", "up">>) :
       <<"ack", "up", "up">>[i] # "join"
  /\ \A i \in 2 .. Len(<<"join", "ack", "up", "up">>) :
       <<"join", "ack", "up", "up">>[i] # "join"
  /\ \A i \in 2 .. Len(<<"up", "ack", "up">>) :
       <<"up", "ack", "up">>[i] # "join"
  /\ \A i \in 2 .. Len(<<"ack", "up">>) : <<"ack", "up">>[i] # "join"
  /\ \A i \in 2 .. Len(<<"ack">>) : <<"ack">>[i] # "join"
  /\ <<"ack", "up", "up">>[1] = "ack" /\ <<"up", "ack", "up">>[1] = "up"
  /\ <<"ack", "up">>[1] = "ack" /\ <<"ack">>[1] = "ack"
OBVIOUS

LEMMA AcceptBindInStep ==
  ASSUME BindingTypeOK, NEW c \in Child, AcceptBind(c), pooled' = pooled,
         c \in routed, InStep(c)
  PROVE  /\ \A d \in Child \ {c} : Untouched(d)
         /\ JoinsInTime(c)' /\ InStep(c)'
<1>1. Takes(c, "Bind") /\ providers' = providers /\ "Bind" \in Types
  BY TypesAndSteps DEF AcceptBind
<1>2. /\ Asked(c, "Bind") /\ c \in bound /\ c \notin acks
      /\ caller[c] \in {"binding", "bindingOffer"}
      /\ Follows(c, providers, offered)
  BY <1>1, TakenWasAsked DEF Asked
<1>3. PICK todo \in Todos :
        /\ Begin(c, todo)
        /\ \/ /\ pooled /\ members' = members \cup {c}
              /\ todo = <<"ack", "up", "up">>
           \/ /\ ~pooled /\ members' = members
              /\ todo = <<"join", "ack", "up", "up">>
  BY TodosTyped DEF AcceptBind, Joined
<1>4. /\ Accepted(c)' /\ \A d \in Child \ {c} : up'[d] = up[d]
      /\ \A d \in Child \ {c} : worker'[d] = worker[d]
      /\ worker'[c].todo = todo
      /\ UNCHANGED <<caller, bound, offered, acks>>
  BY <1>1, <1>3, TakenEffect
<1>5. \A d \in Child \ {c} : Untouched(d)
  BY <1>1, <1>3, <1>4 DEF Untouched
<1>6. JoinsInTime(c)'
  <2>1. CASE pooled /\ todo = <<"ack", "up", "up">>
    BY <1>4, <2>1, JoinsComeFirst DEF JoinsInTime
  <2>2. CASE ~pooled /\ todo = <<"join", "ack", "up", "up">>
    BY <1>2, <1>4, <2>2, JoinsComeFirst DEF JoinsInTime
  <2>3. QED
    BY <1>3, <2>1, <2>2
<1>7. Follows(c, providers, offered)'
  BY <1>1, <1>2, <1>4 DEF Follows
<1>8. InStep(c)'
  BY <1>2, <1>3, <1>4, <1>7 DEF InStep
<1>9. QED
  BY <1>5, <1>6, <1>8

LEMMA AcceptUnbindInStep ==
  ASSUME BindingTypeOK, NEW c \in Child, AcceptUnbind(c), pooled' = pooled,
         InStep(c)
  PROVE  /\ \A d \in Child \ {c} : Untouched(d)
         /\ JoinsInTime(c)' /\ InStep(c)'
<1>1. Takes(c, "Unbind") /\ providers' = providers /\ "Unbind" \in Types
      /\ members' = members \ {c}
  BY TypesAndSteps DEF AcceptUnbind, Left
<1>2. caller[c] = "unbinding" /\ c \notin providers /\ c \in bound
  BY <1>1, TakenWasAsked
<1>3. PICK todo \in Todos :
        /\ Begin(c, todo)
        /\ todo = <<"up", "ack", "up">> \/ todo = <<"ack", "up">>
  BY TodosTyped DEF AcceptUnbind
<1>4. /\ Accepted(c)' /\ \A d \in Child \ {c} : up'[d] = up[d]
      /\ \A d \in Child \ {c} : worker'[d] = worker[d]
      /\ worker'[c].todo = todo
      /\ UNCHANGED <<caller, bound, offered, acks>>
  BY <1>1, <1>3, TakenEffect
<1>5. \A d \in Child \ {c} : Untouched(d)
  BY <1>1, <1>4 DEF Untouched
<1>6. JoinsInTime(c)'
  <2>1. CASE todo = <<"up", "ack", "up">>
    BY <1>4, <2>1, JoinsComeFirst DEF JoinsInTime
  <2>2. CASE todo = <<"ack", "up">>
    BY <1>4, <2>2, JoinsComeFirst DEF JoinsInTime
  <2>3. QED
    BY <1>3, <2>1, <2>2
<1>7. InStep(c)'
  BY <1>1, <1>2, <1>4 DEF InStep
<1>8. QED
  BY <1>5, <1>6, <1>7

LEMMA AcceptOfferInStep ==
  ASSUME BindingTypeOK, NEW c \in Child, pooled' = pooled, c \in routed,
         InStep(c), AcceptAdvertise(c) \/ AcceptWithdraw(c)
  PROVE  /\ \A d \in Child \ {c} : Untouched(d)
         /\ JoinsInTime(c)' /\ InStep(c)'
<1>1. PICK type \in Types, todo \in Todos :
        /\ Takes(c, type) /\ members' = members /\ Begin(c, todo)
        /\ todo = <<"ack", "up">> \/ todo = <<"ack">>
        /\ \/ type = "Advertise" /\ providers' = Offering(providers, c)
           \/ type = "Withdraw" /\ providers' = providers \ {c}
  <2>1. "Advertise" \in Types /\ "Withdraw" \in Types
    BY TypesAndSteps
  <2>2. CASE AcceptAdvertise(c)
    BY <2>1, <2>2, TodosTyped DEF AcceptAdvertise
  <2>3. CASE AcceptWithdraw(c)
    BY <2>1, <2>3, TodosTyped DEF AcceptWithdraw
  <2>4. QED
    BY <2>2, <2>3
<1>2. /\ c \in bound /\ (pooled => c \in members)
      /\ type = "Advertise" => caller[c] = "advertising"
      /\ type = "Withdraw" => caller[c] = "withdrawing"
  BY <1>1, TakenWasAsked
<1>3. /\ Accepted(c)' /\ \A d \in Child \ {c} : up'[d] = up[d]
      /\ \A d \in Child \ {c} : worker'[d] = worker[d]
      /\ worker'[c].todo = todo
      /\ UNCHANGED <<caller, bound, offered, acks>>
  BY <1>1, TakenEffect
<1>4. /\ type = "Advertise" => c \in providers'
      /\ type = "Withdraw" => c \notin providers'
      /\ \A d \in Child \ {c} :
           /\ d \in providers' => d \in providers
           /\ pooled /\ d \in providers => d \in providers'
  BY <1>1 DEF Offering
<1>5. \A d \in Child \ {c} : Untouched(d)
  BY <1>1, <1>3, <1>4 DEF Untouched
<1>6. JoinsInTime(c)'
  <2>1. CASE todo = <<"ack", "up">>
    BY <1>3, <2>1, JoinsComeFirst DEF JoinsInTime
  <2>2. CASE todo = <<"ack">>
    BY <1>3, <2>2, JoinsComeFirst DEF JoinsInTime
  <2>3. QED
    BY <1>1, <2>1, <2>2
<1>7. InStep(c)'
  BY <1>1, <1>2, <1>3, <1>4 DEF InStep
<1>8. QED
  BY <1>5, <1>6, <1>7

(* What is left to do after a step of a handler.                           *)
LEMMA Next1Todo ==
  ASSUME BindingTypeOK, NEW c \in Child, worker[c].todo # <<>>, Next1(c)
  PROVE  /\ worker[c].todo \in Todos /\ Len(worker[c].todo) \in Nat \ {0}
         /\ Head(worker[c].todo) = worker[c].todo[1]
         /\ \/ Len(worker[c].todo) = 1 /\ worker'[c] = Idle
            \/ /\ Len(worker[c].todo) > 1
               /\ worker'[c].todo = Tail(worker[c].todo)
               /\ worker'[c].frame = worker[c].frame
         /\ worker'[c].todo \in Todos
         /\ \A i \in 1 .. Len(worker'[c].todo) :
              /\ worker'[c].todo[i] = worker[c].todo[i + 1]
              /\ i + 1 \in 2 .. Len(worker[c].todo)
         /\ \A i \in 2 .. Len(worker[c].todo) :
              /\ i - 1 \in 1 .. Len(worker'[c].todo)
              /\ worker'[c].todo[i - 1] = worker[c].todo[i]
         /\ \A d \in Child \ {c} : worker'[d] = worker[d]
<1> DEFINE todo == worker[c].todo
           more == [worker[c] EXCEPT !.todo = Tail(todo)]
           job  == IF Len(todo) = 1 THEN Idle ELSE more
           left == worker'[c].todo
<1>1. worker \in [Child -> Worker] /\ worker[c] \in Worker
  BY DEF BindingTypeOK, Worker, Todos
<1>2. worker' = [worker EXCEPT ![c] = job]
  BY <1>1 DEF Next1
<1>3. todo \in Todos /\ Len(todo) \in Nat \ {0} /\ Head(todo) = todo[1]
  BY <1>1, EmptySeq, LenProperties, HeadTailProperties DEF Worker, Todos
<1>4. /\ Tail(todo) \in Todos /\ Len(Tail(todo)) = Len(todo) - 1
      /\ \A i \in 1 .. Len(todo) - 1 : Tail(todo)[i] = todo[i + 1]
  BY <1>3 DEF Todos
<1>5. more.todo = Tail(todo) /\ more.frame = worker[c].frame
  BY <1>1 DEF Worker
<1>6. worker'[c] = job /\ \A d \in Child \ {c} : worker'[d] = worker[d]
  BY <1>1, <1>2
<1>7. Idle.todo = <<>> /\ <<>> \in Todos
  BY DEF Idle, Todos
<1> HIDE DEF more, todo
<1>8. /\ left \in Todos /\ Len(left) = Len(todo) - 1
      /\ \A i \in 1 .. Len(todo) - 1 : left[i] = todo[i + 1]
      /\ \/ Len(todo) = 1 /\ worker'[c] = Idle
         \/ /\ Len(todo) > 1 /\ left = Tail(todo)
            /\ worker'[c].frame = worker[c].frame
  <2>1. CASE Len(todo) = 1
    <3>1. worker'[c] = Idle /\ left = <<>> /\ Len(<<>>) = 0
      BY <1>6, <1>7, <2>1
    <3>2. Len(todo) - 1 = 0 /\ 1 .. 0 = {}
      BY <2>1
    <3>3. \A i \in 1 .. Len(todo) - 1 : left[i] = todo[i + 1]
      BY <3>2
    <3> HIDE DEF left
    <3>4. QED
      BY <1>7, <2>1, <3>1, <3>2, <3>3
  <2>2. CASE Len(todo) # 1
    <3>1. Len(todo) > 1
      <4>1. Len(todo) \in Nat \ {0}
        BY <1>3
      <4>2. QED
        BY SMTT(20), <2>2, <4>1
    <3>2. left = Tail(todo) /\ worker'[c].frame = worker[c].frame
      BY <1>5, <1>6, <2>2
    <3>3. QED
      BY <1>4, <3>1, <3>2
  <2>3. QED
    BY <2>1, <2>2
<1> HIDE DEF left
<1>9. \A i \in 1 .. Len(left) :
        left[i] = todo[i + 1] /\ i + 1 \in 2 .. Len(todo)
  BY <1>3, <1>8
<1>10. ASSUME NEW i \in 2 .. Len(todo)
       PROVE  i - 1 \in 1 .. Len(left) /\ left[i - 1] = todo[i]
  <2>1. i - 1 \in 1 .. Len(todo) - 1 /\ (i - 1) + 1 = i
    BY <1>3
  <2>2. QED
    BY <1>8, <2>1
<1>11. QED
  BY <1>3, <1>6, <1>8, <1>9, <1>10 DEF todo, left

(* A handler goes on: what it had to write is written, or stays.           *)
LEMMA HandlerInStep ==
  ASSUME BindingTypeOK, NEW c \in Child, Next1(c), pooled' = pooled,
         worker[c].todo # <<>>, JoinsInTime(c), InStep(c),
         UNCHANGED <<caller, bound, offered, up, providers>>,
         \/ acks' = acks
         \/ acks' = acks \cup {c} /\ worker[c].frame.waiting,
         \/ members' = members
         \/ ~pooled /\ members' = {c} /\ worker[c].todo[1] = "join"
  PROVE  /\ \A d \in Child \ {c} : Untouched(d)
         /\ JoinsInTime(c)' /\ InStep(c)'
<1> DEFINE todo == worker[c].todo
           left == worker'[c].todo
<1>1. /\ \A i \in 1 .. Len(left) :
           left[i] = todo[i + 1] /\ i + 1 \in 2 .. Len(todo)
      /\ \A d \in Child \ {c} : worker'[d] = worker[d]
  BY Next1Todo
<1>2. worker'[c].frame.waiting => worker[c].frame.waiting
  <2>1. ~Idle.frame.waiting
    BY DEF Idle
  <2>2. worker'[c] = Idle \/ worker'[c].frame = worker[c].frame
    BY Next1Todo
  <2>3. QED
    BY <2>1, <2>2
<1>3. \A d \in Child \ {c} : Untouched(d)
  BY <1>1 DEF Untouched
<1>4. left \in Todos
  BY Next1Todo
<1>5. JoinsInTime(c)'
  <2>1. \A i \in 2 .. Len(todo) : todo[i] # "join"
    BY DEF JoinsInTime
  <2>2. \A i \in 1 .. Len(left) : left[i] # "join"
    BY <1>1, <2>1
  <2>3. Len(left) \in Nat /\ (left # <<>> => 1 \in 1 .. Len(left))
    BY <1>4, EmptySeq, LenProperties DEF Todos
  <2>4. \A i \in 2 .. Len(left) : i \in 1 .. Len(left)
    BY <2>3
  <2> HIDE DEF left
  <2>5. QED
    BY <2>2, <2>3, <2>4 DEF JoinsInTime, left
<1>6. InStep(c)'
  <2>1. CASE members' = members
    <3>1. \A t : Asked(c, t) => Asked(c, t)'
      BY <1>2 DEF Asked
    <3>2. caller[c] = "idle" => c \notin acks' /\ ~worker'[c].frame.waiting
      BY <1>2 DEF InStep
    <3>3. QED
      BY <2>1, <3>1, <3>2 DEF InStep, Follows, Accepted
  <2>2. CASE ~pooled /\ members' = {c} /\ todo[1] = "join"
    <3>1. /\ caller[c] \in {"binding", "bindingOffer"} /\ Accepted(c)
      BY <2>2 DEF JoinsInTime
    <3>2. c \in bound /\ Follows(c, providers, offered)
      BY <3>1 DEF InStep
    <3>3. QED
      BY <2>2, <3>1, <3>2 DEF InStep, Follows, Accepted
  <2>3. QED
    BY <2>1, <2>2
<1>7. QED
  BY <1>3, <1>5, <1>6

LEMMA GoesOnEffect ==
  ASSUME BindingTypeOK, NEW c \in Child, pooled' = pooled, Undisturbed,
         JoinsInTime(c), InStep(c),
         WriteOwner(c) \/ SendAck(c) \/ SendUp(c)
  PROVE  /\ worker[c].todo # <<>> /\ Next1(c)
         /\ UNCHANGED <<linked, routed, rebind, providers, known>>
         /\ \/ SendUp(c)
            \/ trunk' = trunk /\ worker[c].todo[1] # "up"
         /\ \A d \in Child \ {c} : Untouched(d)
         /\ JoinsInTime(c)' /\ InStep(c)'
<1>1. /\ worker[c].todo # <<>>
      /\ UNCHANGED <<caller, bound, offered, up, providers, linked, routed,
                     rebind>>
  BY DEF WriteOwner, SendAck, SendUp, GoesOn, childVars, linkVars, Calm
<1>2. Next1(c) /\ UNCHANGED known
  BY DEF WriteOwner, SendAck, SendUp, Undisturbed, rootVars
<1>3. Head(worker[c].todo) = worker[c].todo[1]
  BY <1>1, <1>2, Next1Todo
<1>4. \/ acks' = acks
      \/ acks' = acks \cup {c} /\ worker[c].frame.waiting
  BY DEF WriteOwner, SendAck, SendUp
<1>5. \/ members' = members
      \/ ~pooled /\ members' = {c} /\ worker[c].todo[1] = "join"
  <2>1. CASE WriteOwner(c)
    <3>1. worker[c].todo[1] = "join" /\ members' = Joined(c)
      BY <1>3, <2>1 DEF WriteOwner, GoesOn
    <3>2. ~pooled
      BY <1>1, <3>1 DEF JoinsInTime
    <3>3. QED
      BY <3>1, <3>2 DEF Joined
  <2>2. CASE SendAck(c) \/ SendUp(c)
    BY <2>2 DEF SendAck, SendUp
  <2>3. QED
    BY <2>1, <2>2
<1>6. /\ \A d \in Child \ {c} : Untouched(d)
      /\ JoinsInTime(c)' /\ InStep(c)'
  BY <1>1, <1>2, <1>4, <1>5, HandlerInStep
<1>7. \/ SendUp(c)
      \/ trunk' = trunk /\ worker[c].todo[1] # "up"
  BY <1>3 DEF WriteOwner, SendAck, GoesOn, rootVars
<1>8. QED
  BY <1>1, <1>2, <1>6, <1>7

-----------------------------------------------------------------------------
(* What the root will know.                                                *)
LEMMA WordsDiffer ==
  ASSUME NEW x, NEW y, NEW t, NEW u
  PROVE  Word(x, t) = Word(y, u) <=> (x = y /\ t = u)
<1>1. /\ Word(x, t).child = x /\ Word(x, t).type = t
      /\ Word(y, u).child = y /\ Word(y, u).type = u
  BY DEF Word
<1>2. QED
  BY <1>1 DEF Word

LEMMA QuietRoot ==
  ASSUME trunk' = trunk, known' = known, NEW x \in Child,
         \A t \in {"Advertise", "Withdraw"} : Told(x, t)' <=> Told(x, t),
         WillBeKnown(x)
  PROVE  WillBeKnown(x)'
BY DEF WillBeKnown

LEMMA SilentRoot ==
  ASSUME Silent, RootHears, pooled' = pooled
  PROVE  RootHears'
<1>1. \A x \in Child : \A t : Told(x, t)' <=> Told(x, t)
  BY DEF Silent, Told
<1>2. QED
  BY <1>1, QuietRoot DEF Silent, RootHears

LEMMA SendUpRoot ==
  ASSUME BindingTypeOK, NEW c \in Child, SendUp(c), Next1(c), RootHears,
         pooled' = pooled, providers' = providers, known' = known
  PROVE  RootHears'
<1> DEFINE type == worker[c].frame.type
           new  == Word(c, type)
<1>1. /\ worker[c].todo # <<>> /\ Head(worker[c].todo) = "up"
      /\ trunk' = Append(trunk, new)
  BY DEF SendUp, GoesOn, Word
<1>2. type \in Types /\ trunk \in Seq([type : Types, child : Child])
  BY DEF BindingTypeOK, Frames
<1>3. new \in [type : Types, child : Child]
  BY <1>2 DEF Word
<1>4. /\ Len(trunk) \in Nat /\ Len(trunk') = Len(trunk) + 1
      /\ trunk'[Len(trunk) + 1] = new
      /\ \A j \in 1 .. Len(trunk) : trunk'[j] = trunk[j]
  BY <1>1, <1>2, <1>3, AppendProperties, LenProperties
<1>5. /\ Len(worker[c].todo) \in Nat \ {0} /\ worker[c].todo[1] = "up"
      /\ \A d \in Child \ {c} : worker'[d] = worker[d]
  BY <1>1, Next1Todo
<1>6. Told(c, type)
  <2>1. 1 \in 1 .. Len(worker[c].todo)
    BY <1>5
  <2>2. QED
    BY <1>5, <2>1 DEF Told
<1>7. worker'[c].frame.type \in {"Bind", type}
  <2>1. Idle.frame.type = "Bind"
    BY DEF Idle
  <2>2. QED
    BY <1>1, <2>1, Next1Todo
<1> HIDE DEF type, new
<1>8. ASSUME NEW x \in Child \ {c}, WillBeKnown(x)
      PROVE  WillBeKnown(x)'
  <2>1. \A t : Told(x, t)' <=> Told(x, t)
    BY <1>5 DEF Told
  <2>2. \A t : new # Word(x, t)
    BY WordsDiffer DEF new
  <2>3. CASE Told(x, "Advertise")
    BY <2>1, <2>3 DEF WillBeKnown
  <2>4. CASE /\ ~Told(x, "Withdraw") /\ x \in known
             /\ \A j \in 1 .. Len(trunk) : trunk[j] # Word(x, "Withdraw")
    <3>1. \A j \in 1 .. Len(trunk) + 1 : trunk'[j] # Word(x, "Withdraw")
      <4>1. \A j \in 1 .. Len(trunk) + 1 :
              j \in 1 .. Len(trunk) \/ j = Len(trunk) + 1
        BY <1>4
      <4>2. QED
        BY <1>4, <2>2, <2>4, <4>1
    <3>2. QED
      BY <1>4, <2>1, <2>4, <3>1 DEF WillBeKnown
  <2>5. ASSUME ~Told(x, "Withdraw"), NEW i \in 1 .. Len(trunk),
               trunk[i] = Word(x, "Advertise"),
               \A j \in i + 1 .. Len(trunk) : trunk[j] # Word(x, "Withdraw")
        PROVE  WillBeKnown(x)'
    <3>1. i \in 1 .. Len(trunk) + 1 /\ trunk'[i] = Word(x, "Advertise")
      BY <1>4, <2>5
    <3>2. \A j \in i + 1 .. Len(trunk) + 1 : trunk'[j] # Word(x, "Withdraw")
      <4>1. \A j \in i + 1 .. Len(trunk) + 1 :
              /\ j \in i + 1 .. Len(trunk) \/ j = Len(trunk) + 1
              /\ j \in i + 1 .. Len(trunk) => j \in 1 .. Len(trunk)
        BY <1>4
      <4>2. QED
        BY <1>4, <2>2, <2>5, <4>1
    <3>3. QED
      BY <1>4, <2>1, <2>5, <3>1, <3>2 DEF WillBeKnown
  <2>6. QED
    BY <1>8, <2>3, <2>4, <2>5 DEF WillBeKnown
<1>9. ASSUME WillBeKnown(c)
      PROVE  WillBeKnown(c)'
  <2>1. type = "Advertise" \/ (type # "Withdraw" /\ ~Told(c, "Advertise")
                                 /\ type # "Advertise")
    BY <1>6, <1>9 DEF WillBeKnown, Told
  <2>2. ~Told(c, "Withdraw")'
    BY <1>7, <2>1 DEF Told
  <2>3. CASE type = "Advertise"
    <3>1. /\ Len(trunk) + 1 \in 1 .. Len(trunk')
          /\ trunk'[Len(trunk) + 1] = Word(c, "Advertise")
          /\ (Len(trunk) + 1) + 1 .. Len(trunk') = {}
      BY <1>4, <2>3 DEF new
    <3>2. QED
      BY <2>2, <3>1 DEF WillBeKnown
  <2>4. CASE type # "Withdraw" /\ ~Told(c, "Advertise") /\ type # "Advertise"
    <3>1. new # Word(c, "Withdraw")
      BY <2>4, WordsDiffer DEF new
    <3>2. CASE /\ c \in known
               /\ \A j \in 1 .. Len(trunk) : trunk[j] # Word(c, "Withdraw")
      <4>1. \A j \in 1 .. Len(trunk) + 1 :
              j \in 1 .. Len(trunk) \/ j = Len(trunk) + 1
        BY <1>4
      <4>2. \A j \in 1 .. Len(trunk') : trunk'[j] # Word(c, "Withdraw")
        BY <1>4, <3>1, <3>2, <4>1
      <4>3. QED
        BY <2>2, <3>2, <4>2 DEF WillBeKnown
    <3>3. ASSUME NEW i \in 1 .. Len(trunk),
                 trunk[i] = Word(c, "Advertise"),
                 \A j \in i + 1 .. Len(trunk) : trunk[j] # Word(c, "Withdraw")
          PROVE  WillBeKnown(c)'
      <4>1. i \in 1 .. Len(trunk') /\ trunk'[i] = Word(c, "Advertise")
        BY <1>4, <3>3
      <4>2. \A j \in i + 1 .. Len(trunk') :
              /\ j \in i + 1 .. Len(trunk) \/ j = Len(trunk) + 1
              /\ j \in i + 1 .. Len(trunk) => j \in 1 .. Len(trunk)
        BY <1>4
      <4>3. \A j \in i + 1 .. Len(trunk') : trunk'[j] # Word(c, "Withdraw")
        BY <1>4, <3>1, <3>3, <4>2
      <4>4. QED
        BY <2>2, <4>1, <4>3 DEF WillBeKnown
    <3>4. QED
      BY <1>9, <2>4, <3>2, <3>3 DEF WillBeKnown
  <2>5. QED
    BY <2>1, <2>3, <2>4
<1>10. QED
  BY <1>8, <1>9 DEF RootHears

(* A handler that begins has had nothing to tell.                          *)
LEMMA TakesRoot ==
  ASSUME BindingTypeOK, NEW c \in Child, NEW type \in Types, Takes(c, type),
         InStep(c), NEW todo \in Todos, Begin(c, todo), pooled' = pooled,
         RootHears,
         pooled /\ providers' # {} =>
           \/ type = "Advertise" /\ todo = <<"ack", "up">>
           \/ providers # {} /\ type \in {"Bind", "Unbind"}
           \/ providers # {} /\ todo = <<"ack">>
  PROVE  RootHears'
<1>1. /\ \A d \in Child \ {c} : worker'[d] = worker[d]
      /\ worker[c].todo = <<>>
      /\ worker'[c].frame.type = type /\ worker'[c].todo = todo
      /\ trunk' = trunk /\ known' = known
  BY TakenEffect
<1>2. \A t : ~Told(c, t)
  <2>1. 1 .. Len(worker[c].todo) = {}
    BY <1>1
  <2>2. QED
    BY <2>1 DEF Told
<1>3. \A x \in Child \ {c} : \A t : Told(x, t)' <=> Told(x, t)
  BY <1>1 DEF Told
<1>4. CASE type = "Advertise" /\ todo = <<"ack", "up">>
  <2>1. 2 \in 1 .. Len(todo) /\ todo[2] = "up"
    BY <1>4
  <2>2. Told(c, "Advertise")'
    BY <1>1, <1>4, <2>1 DEF Told
  <2>3. QED
    BY <2>2 DEF WillBeKnown, RootHears
<1>5. CASE providers # {} /\ (type \in {"Bind", "Unbind"} \/ todo = <<"ack">>)
  <2>1. \A t \in {"Advertise", "Withdraw"} : ~Told(c, t)'
    <3>1. CASE type \in {"Bind", "Unbind"}
      BY <1>1, <3>1 DEF Told
    <3>2. CASE todo = <<"ack">>
      <4>1. \A i \in 1 .. Len(todo) : todo[i] # "up"
        BY <3>2
      <4>2. QED
        BY <1>1, <4>1 DEF Told
    <3>3. QED
      BY <1>5, <3>1, <3>2
  <2>2. \A x \in Child : \A t \in {"Advertise", "Withdraw"} :
          Told(x, t)' <=> Told(x, t)
    BY <1>2, <1>3, <2>1
  <2>3. pooled => \E x \in Child : WillBeKnown(x)
    BY <1>5 DEF RootHears
  <2>4. \A x \in Child : WillBeKnown(x) => WillBeKnown(x)'
    BY <1>1, <2>2, QuietRoot
  <2>5. QED
    BY <2>3, <2>4 DEF RootHears
<1>6. CASE ~(pooled /\ providers' # {})
  BY <1>6 DEF RootHears
<1>7. QED
  BY <1>4, <1>5, <1>6

LEMMA AcceptRoot ==
  ASSUME BindingTypeOK, NEW c \in Child, pooled' = pooled, c \in routed,
         InStep(c), RootHears,
         \/ AcceptBind(c) \/ AcceptUnbind(c)
         \/ AcceptAdvertise(c) \/ AcceptWithdraw(c)
  PROVE  RootHears'
<1>1. PICK type \in Types, todo \in Todos :
        /\ Takes(c, type) /\ Begin(c, todo)
        /\ pooled /\ providers' # {} =>
             \/ type = "Advertise" /\ todo = <<"ack", "up">>
             \/ providers # {} /\ type \in {"Bind", "Unbind"}
             \/ providers # {} /\ todo = <<"ack">>
  <2>1. CASE AcceptBind(c)
    BY <2>1, TypesAndSteps, TodosTyped DEF AcceptBind
  <2>2. CASE AcceptUnbind(c)
    BY <2>2, TypesAndSteps, TodosTyped DEF AcceptUnbind
  <2>3. CASE AcceptAdvertise(c)
    BY <2>3, TypesAndSteps, TodosTyped DEF AcceptAdvertise
  <2>4. CASE AcceptWithdraw(c)
    BY <2>4, TypesAndSteps, TodosTyped DEF AcceptWithdraw
  <2>5. QED
    BY <2>1, <2>2, <2>3, <2>4
<1>2. QED
  BY <1>1, TakesRoot

(* A handler that does not speak to the root has said all that it had.     *)
LEMMA HandlerRoot ==
  ASSUME BindingTypeOK, NEW c \in Child, worker[c].todo # <<>>, Next1(c),
         worker[c].todo[1] # "up", RootHears,
         UNCHANGED <<pooled, providers, trunk, known>>
  PROVE  RootHears'
<1>1. Len(worker[c].todo) \in Nat \ {0}
      /\ \A d \in Child \ {c} : worker'[d] = worker[d]
  BY Next1Todo
<1>2. \A t \in {"Advertise", "Withdraw"} : Told(c, t)' <=> Told(c, t)
  <2>1. CASE Len(worker[c].todo) = 1 /\ worker'[c] = Idle
    <3>1. ~\E i \in 1 .. Len(worker[c].todo) : worker[c].todo[i] = "up"
      BY <2>1
    <3>2. worker'[c].frame.type = "Bind"
      BY <2>1 DEF Idle
    <3>3. QED
      BY <3>1, <3>2 DEF Told
  <2>2. CASE worker'[c].frame = worker[c].frame
    <3>1. \A i \in 1 .. Len(worker'[c].todo) :
            /\ worker'[c].todo[i] = worker[c].todo[i + 1]
            /\ i + 1 \in 2 .. Len(worker[c].todo)
      BY Next1Todo
    <3>2. \A i \in 2 .. Len(worker[c].todo) :
            /\ i - 1 \in 1 .. Len(worker'[c].todo)
            /\ worker'[c].todo[i - 1] = worker[c].todo[i]
      BY Next1Todo
    <3>3. \A i : /\ i \in 2 .. Len(worker[c].todo) =>
                      i \in 1 .. Len(worker[c].todo)
                 /\ i \in 1 .. Len(worker[c].todo) =>
                      i = 1 \/ i \in 2 .. Len(worker[c].todo)
      BY <1>1
    <3>4. (\E i \in 1 .. Len(worker'[c].todo) : worker'[c].todo[i] = "up")
            <=> (\E i \in 2 .. Len(worker[c].todo) : worker[c].todo[i] = "up")
      <4>1. ASSUME NEW i \in 1 .. Len(worker'[c].todo),
                   worker'[c].todo[i] = "up"
            PROVE  \E j \in 2 .. Len(worker[c].todo) : worker[c].todo[j] = "up"
        BY <3>1, <4>1
      <4>2. ASSUME NEW i \in 2 .. Len(worker[c].todo), worker[c].todo[i] = "up"
            PROVE  \E j \in 1 .. Len(worker'[c].todo) :
                     worker'[c].todo[j] = "up"
        BY <3>2, <4>2
      <4>3. QED
        BY <4>1, <4>2
    <3>5. (\E i \in 1 .. Len(worker[c].todo) : worker[c].todo[i] = "up")
            <=> (\E i \in 2 .. Len(worker[c].todo) : worker[c].todo[i] = "up")
      BY <3>3
    <3>6. QED
      BY <2>2, <3>4, <3>5 DEF Told
  <2>3. QED
    BY <2>1, <2>2, Next1Todo
<1>3. \A x \in Child : \A t \in {"Advertise", "Withdraw"} :
        Told(x, t)' <=> Told(x, t)
  BY <1>1, <1>2 DEF Told
<1>4. \A x \in Child : WillBeKnown(x) => WillBeKnown(x)'
  BY <1>3, QuietRoot
<1>5. QED
  BY <1>4 DEF RootHears

(* The root reads the next word.                                           *)
LEMMA RootAcceptsRoot ==
  ASSUME BindingTypeOK, RootAccepts, pooled' = pooled, RootHears
  PROVE  RootHears'
<1> DEFINE f == Head(trunk)
<1>1. /\ trunk # <<>> /\ trunk' = Tail(trunk)
      /\ providers' = providers /\ worker' = worker
      /\ known' = CASE f.type = "Advertise" -> Offering(known, f.child)
                    [] f.type = "Withdraw" ->
                         IF pooled THEN known \ {f.child} ELSE {}
                    [] OTHER -> known
  BY DEF RootAccepts, midVars
<1>2. trunk \in Seq([type : Types, child : Child])
  BY DEF BindingTypeOK
<1>3. /\ Len(trunk) \in Nat \ {0} /\ f = trunk[1]
      /\ Len(trunk') = Len(trunk) - 1
      /\ \A j \in 1 .. Len(trunk) - 1 : trunk'[j] = trunk[j + 1]
  BY <1>1, <1>2, EmptySeq, LenProperties, HeadTailProperties
<1>4. f \in [type : Types, child : Child]
  <2>1. 1 \in 1 .. Len(trunk)
    BY <1>3
  <2>2. trunk[1] \in [type : Types, child : Child]
    BY <1>2, <2>1, ElementOfSeq
  <2>3. QED
    BY <1>3, <2>2
<1>5. f = Word(f.child, f.type)
  BY <1>4 DEF Word
<1>6. \A x \in Child : \A t : Told(x, t)' <=> Told(x, t)
  BY <1>1 DEF Told
<1>7. ASSUME pooled, NEW x \in Child
      PROVE  /\ f = Word(x, "Advertise") => x \in known'
             /\ x \in known /\ f # Word(x, "Withdraw") => x \in known'
  <2>1. f = Word(x, "Advertise") => f.type = "Advertise" /\ f.child = x
    BY DEF Word
  <2>2. f.type = "Withdraw" /\ f.child = x => f = Word(x, "Withdraw")
    BY <1>5
  <2> HIDE DEF f
  <2>3. QED
    BY <1>1, <1>7, <2>1, <2>2 DEF Offering
<1> HIDE DEF f
<1>8. \A j \in 1 .. Len(trunk') :
        /\ trunk'[j] = trunk[j + 1] /\ j + 1 \in 1 .. Len(trunk)
        /\ \A i \in Nat : j >= i => j + 1 \in i + 1 .. Len(trunk)
  BY <1>3
<1>9. ASSUME pooled, NEW x \in Child, WillBeKnown(x)
      PROVE  WillBeKnown(x)'
  <2>1. CASE Told(x, "Advertise")
    BY <1>6, <2>1 DEF WillBeKnown
  <2>2. CASE /\ ~Told(x, "Withdraw") /\ x \in known
             /\ \A j \in 1 .. Len(trunk) : trunk[j] # Word(x, "Withdraw")
    <3>1. 1 \in 1 .. Len(trunk)
      BY <1>3
    <3>2. f # Word(x, "Withdraw")
      BY <1>3, <2>2, <3>1
    <3>3. \A j \in 1 .. Len(trunk') : trunk'[j] # Word(x, "Withdraw")
      BY <1>8, <2>2
    <3>4. x \in known'
      BY <1>7, <1>9, <2>2, <3>2
    <3>5. QED
      BY <1>6, <2>2, <3>3, <3>4 DEF WillBeKnown
  <2>3. ASSUME ~Told(x, "Withdraw"), NEW i \in 1 .. Len(trunk),
               trunk[i] = Word(x, "Advertise"),
               \A j \in i + 1 .. Len(trunk) : trunk[j] # Word(x, "Withdraw")
        PROVE  WillBeKnown(x)'
    <3>1. \A j \in 1 .. Len(trunk') :
            j >= i => trunk'[j] # Word(x, "Withdraw")
      BY <1>8, <2>3
    <3>2. CASE i = 1
      <4>1. x \in known'
        BY <1>3, <1>7, <1>9, <2>3, <3>2
      <4>2. \A j \in 1 .. Len(trunk') : j >= i
        BY <1>3, <3>2
      <4>3. QED
        BY <1>6, <2>3, <3>1, <4>1, <4>2 DEF WillBeKnown
    <3>3. CASE i # 1
      <4>1. i - 1 \in 1 .. Len(trunk') /\ (i - 1) + 1 = i
        BY <1>3, <3>3
      <4>2. trunk'[i - 1] = Word(x, "Advertise")
        BY <1>8, <2>3, <4>1
      <4>3. \A j \in (i - 1) + 1 .. Len(trunk') :
              j \in 1 .. Len(trunk') /\ j >= i
        BY <1>3
      <4>4. QED
        BY <1>6, <2>3, <3>1, <4>1, <4>2, <4>3 DEF WillBeKnown
    <3>4. QED
      BY <3>2, <3>3
  <2>4. QED
    BY <1>9, <2>1, <2>2, <2>3 DEF WillBeKnown
<1>10. QED
  BY <1>1, <1>9 DEF RootHears

-----------------------------------------------------------------------------
(* Every step keeps child, sentinel and root in step.                      *)
LEMMA OneChildSteps ==
  ASSUME CalmInv, faults = 0, pooled' = pooled, NEW c \in Child,
         \A d \in Child \ {c} : Untouched(d), JoinsInTime(c)', InStep(c)',
         UNCHANGED <<linked, routed, rebind>>, RootHears'
  PROVE  CalmInv'
<1>1. Undisturbed /\ \A d \in Child : JoinsInTime(d) /\ InStep(d)
  BY DEF CalmInv
<1>2. \A d \in Child : JoinsInTime(d)' /\ InStep(d)'
  BY <1>1, UntouchedStays
<1>3. Undisturbed'
  BY <1>1 DEF Undisturbed
<1>4. QED
  BY <1>2, <1>3 DEF CalmInv

LEMMA NoFault ==
  ASSUME BindingTypeOK, faults' = 0
  PROVE  ~Fault /\ \A c \in Child : ~EpochChanges(c)
<1>1. faults \in Nat
  BY BindingAssumption DEF BindingTypeOK
<1>2. QED
  BY <1>1 DEF Fault, EpochChanges

LEMMA ChildCalm ==
  ASSUME BindingTypeOK, CalmInv, ChildNext, pooled' = pooled, faults' = 0
  PROVE  CalmInv'
<1>1. PICK c \in Child :
        \/ \E offering \in BOOLEAN : CallBind(c, offering)
        \/ CallUnbind(c) \/ BindReturns(c) \/ BindGoesOn(c) \/ OfferReturns(c)
        \/ WithdrawGoesOn(c) \/ UnbindReturns(c) \/ RollbackReturns(c)
        \/ RebindTimesOut(c)
  BY NoFault DEF ChildNext, BindTimesOut, OfferTimesOut, UnbindTimesOut
<1>2. faults = 0
  BY <1>1 DEF CallBind, CallUnbind, BindReturns, BindGoesOn, OfferReturns,
     WithdrawGoesOn, UnbindReturns, RollbackReturns, RebindTimesOut, Answered,
     Calm
<1>3. /\ rebind[c] = "no" /\ caller[c] # "rollback"
      /\ JoinsInTime(c) /\ InStep(c) /\ RootHears
  BY <1>2 DEF CalmInv, Undisturbed, InStep
<1>4. ~RollbackReturns(c) /\ ~RebindTimesOut(c)
  BY <1>3 DEF RollbackReturns, RebindTimesOut
<1>5. /\ \A d \in Child \ {c} : Untouched(d)
      /\ JoinsInTime(c)' /\ InStep(c)' /\ Silent /\ Calm
  <2>1. ASSUME NEW offering \in BOOLEAN, CallBind(c, offering)
        PROVE  /\ \A d \in Child \ {c} : Untouched(d)
               /\ JoinsInTime(c)' /\ InStep(c)' /\ Silent /\ Calm
    BY <1>3, <2>1, CallBindInStep
  <2>2. CASE CallUnbind(c)
    BY <1>3, <2>2, CallUnbindInStep
  <2>3. CASE BindReturns(c) \/ OfferReturns(c) \/ UnbindReturns(c)
    BY <1>3, <2>3, ReturnsInStep
  <2>4. CASE BindGoesOn(c) \/ WithdrawGoesOn(c)
    BY <1>3, <2>4, GoesOnInStep
  <2>5. QED
    BY <1>1, <1>4, <2>1, <2>2, <2>3, <2>4
<1>6. UNCHANGED <<linked, routed, rebind>> /\ RootHears'
  BY <1>3, <1>5, SilentRoot DEF Silent, Calm
<1>7. QED
  BY <1>2, <1>5, <1>6, OneChildSteps

LEMMA MidCalm ==
  ASSUME BindingTypeOK, CalmInv, MidNext, pooled' = pooled, faults' = 0
  PROVE  CalmInv'
<1>1. PICK c \in Child :
        \/ AcceptBind(c) \/ AcceptUnbind(c)
        \/ AcceptAdvertise(c) \/ AcceptWithdraw(c)
        \/ WriteOwner(c) \/ SendAck(c) \/ SendUp(c)
  BY DEF MidNext
<1>2. faults = 0
  BY <1>1 DEF AcceptBind, AcceptUnbind, AcceptAdvertise, AcceptWithdraw, Takes,
     WriteOwner, SendAck, SendUp, GoesOn, Calm
<1>3. Undisturbed /\ c \in routed /\ JoinsInTime(c) /\ InStep(c) /\ RootHears
  BY <1>2 DEF CalmInv, Undisturbed
<1>4. CASE \/ AcceptBind(c) \/ AcceptUnbind(c)
           \/ AcceptAdvertise(c) \/ AcceptWithdraw(c)
  <2>1. UNCHANGED <<linked, routed, rebind>>
    BY <1>4 DEF AcceptBind, AcceptUnbind, AcceptAdvertise, AcceptWithdraw,
       Takes, linkVars, Calm
  <2>2. RootHears'
    BY <1>3, <1>4, AcceptRoot
  <2>3. /\ \A d \in Child \ {c} : Untouched(d)
        /\ JoinsInTime(c)' /\ InStep(c)'
    <3>1. CASE AcceptBind(c)
      BY <1>3, <3>1, AcceptBindInStep
    <3>2. CASE AcceptUnbind(c)
      BY <1>3, <3>2, AcceptUnbindInStep
    <3>3. CASE AcceptAdvertise(c) \/ AcceptWithdraw(c)
      BY <1>3, <3>3, AcceptOfferInStep
    <3>4. QED
      BY <1>4, <3>1, <3>2, <3>3
  <2>4. QED
    BY <1>2, <2>1, <2>2, <2>3, OneChildSteps
<1>5. CASE WriteOwner(c) \/ SendAck(c) \/ SendUp(c)
  <2>1. /\ worker[c].todo # <<>> /\ Next1(c)
        /\ UNCHANGED <<linked, routed, rebind, providers, known>>
        /\ \/ SendUp(c)
           \/ trunk' = trunk /\ worker[c].todo[1] # "up"
        /\ \A d \in Child \ {c} : Untouched(d)
        /\ JoinsInTime(c)' /\ InStep(c)'
    BY <1>3, <1>5, GoesOnEffect
  <2>2. CASE SendUp(c)
    <3>1. RootHears'
      BY <1>3, <2>1, <2>2, SendUpRoot
    <3>2. QED
      BY <1>2, <2>1, <3>1, OneChildSteps
  <2>3. CASE trunk' = trunk /\ worker[c].todo[1] # "up"
    <3>1. RootHears'
      BY <1>3, <2>1, <2>3, HandlerRoot
    <3>2. QED
      BY <1>2, <2>1, <3>1, OneChildSteps
  <2>4. QED
    BY <2>1, <2>2, <2>3
<1>6. QED
  BY <1>1, <1>4, <1>5

LEMMA RootCalm ==
  ASSUME BindingTypeOK, CalmInv, RootAccepts, pooled' = pooled, faults' = 0
  PROVE  CalmInv'
<1>1. /\ faults = 0 /\ UNCHANGED <<childVars, wireVars, linkVars, midVars, rebind>>
  BY DEF RootAccepts, Calm
<1>2. Undisturbed /\ RootHears /\ \A d \in Child : JoinsInTime(d) /\ InStep(d)
  BY <1>1 DEF CalmInv
<1>3. \A d \in Child : Untouched(d)
  BY <1>1 DEF Untouched, childVars, wireVars, midVars
<1>4. \A d \in Child : JoinsInTime(d)' /\ InStep(d)'
  BY <1>2, <1>3, UntouchedStays
<1>5. RootHears'
  BY <1>2, RootAcceptsRoot
<1>6. Undisturbed'
  BY <1>1, <1>2 DEF Undisturbed, linkVars
<1>7. QED
  BY <1>4, <1>5, <1>6 DEF CalmInv

LEMMA LinkCalm ==
  ASSUME BindingTypeOK, CalmInv, LinkNext, faults' = 0
  PROVE  CalmInv'
<1>1. PICK c \in Child : RouteExpires(c) \/ Reattach(c)
  BY NoFault DEF LinkNext, ConnectionLost
<1>2. faults = 0
  BY <1>1 DEF RouteExpires, Reattach, Calm
<1>3. linked = Child
  BY <1>2 DEF CalmInv, Undisturbed
<1>4. QED
  BY <1>1, <1>3 DEF RouteExpires, Reattach

(* A step that leaves the bindings alone.                                  *)
LEMMA StillCalm ==
  ASSUME CalmInv, UNCHANGED bindingVars
  PROVE  CalmInv'
<1>1. /\ UNCHANGED <<caller, bound, offered, up, acks, linked, routed, members,
                     providers, worker, trunk, known, rebind, faults, pooled>>
  BY DEF bindingVars, childVars, wireVars, linkVars, midVars, rootVars
<1>2. \A d \in Child : Untouched(d)
  BY <1>1 DEF Untouched
<1>3. CASE faults = 0
  <2>1. \A d \in Child : JoinsInTime(d)' /\ InStep(d)'
    BY <1>1, <1>2, <1>3, UntouchedStays DEF CalmInv
  <2>2. Silent /\ RootHears
    BY <1>1, <1>3 DEF Silent, CalmInv
  <2>3. RootHears'
    BY <1>1, <2>2, SilentRoot
  <2>4. Undisturbed'
    BY <1>1, <1>3 DEF CalmInv, Undisturbed
  <2>5. QED
    BY <2>1, <2>3, <2>4 DEF CalmInv
<1>4. CASE faults # 0
  BY <1>1, <1>4 DEF CalmInv
<1>5. QED
  BY <1>3, <1>4

(* A sentinel that forwards finds every connection open.                   *)
LEMMA ForwardIsCalm ==
  ASSUME CalmInv, NEW n \in {Mid, Root}, AtSentinel(n)
  PROVE  CalmInv'
<1>1. UNCHANGED <<childVars, wireVars, linked, midVars, rootVars, pooled>> /\ Calm
  BY DEF AtSentinel
<1>2. CASE faults = 0
  <2>1. linked = Child
    BY <1>2 DEF CalmInv, Undisturbed
  <2>2. routed = Child
    BY <1>2 DEF CalmInv, Undisturbed
  <2>3. routed' = routed
    BY <2>1, <2>2 DEF AtSentinel, RouteByAddress, RouteByCapability,
       ForwardChild
  <2>4. UNCHANGED bindingVars
    BY <1>1, <2>3 DEF bindingVars, linkVars, Calm
  <2>5. QED
    BY <2>4, StillCalm
<1>3. CASE faults # 0
  BY <1>1, <1>3 DEF CalmInv, Calm
<1>4. QED
  BY <1>2, <1>3

LEMMA CalmInit == Init => CalmInv
<1> SUFFICES ASSUME Init PROVE CalmInv
  OBVIOUS
<1>1. /\ linked = Child /\ routed = Child /\ providers = {} /\ members = {}
      /\ acks = {} /\ bound = {} /\ offered = {}
      /\ \A c \in Child : /\ rebind[c] = "no" /\ caller[c] = "idle"
                          /\ up[c] = <<>> /\ worker[c] = Idle
  BY DEF Init, BindingInit
<1>2. Undisturbed /\ RootHears
  BY <1>1 DEF Undisturbed, RootHears
<1>3. ASSUME NEW c \in Child PROVE JoinsInTime(c) /\ InStep(c)
  <2>1. worker[c].todo = <<>> /\ ~worker[c].frame.waiting
    BY <1>1 DEF Idle
  <2>2. \A i \in 2 .. Len(<<>>) : <<>>[i] # "join"
    OBVIOUS
  <2>3. JoinsInTime(c)
    BY <2>1, <2>2 DEF JoinsInTime
  <2>4. InStep(c)
    BY <1>1, <2>1 DEF InStep, Accepted, Follows
  <2>5. QED
    BY <2>3, <2>4
<1>4. QED
  BY <1>2, <1>3 DEF CalmInv

LEMMA CalmNext == IInv /\ CalmInv /\ [Next]_vars => CalmInv'
<1> SUFFICES ASSUME IInv, CalmInv, [Next]_vars PROVE CalmInv'
  OBVIOUS
<1>1. BindingTypeOK
  BY DEF IInv, TypeOK
<1>2. CASE BindingNext
  <2>1. CASE faults' = 0
    BY <1>1, <1>2, <2>1, ChildCalm, MidCalm, RootCalm, LinkCalm
       DEF BindingNext
  <2>2. CASE faults' # 0
    BY <2>2 DEF CalmInv
  <2>3. QED
    BY <2>1, <2>2
<1>3. ASSUME NEW n \in {Mid, Root}, AtSentinel(n) PROVE CalmInv'
  BY <1>3, ForwardIsCalm
<1>4. CASE SendEnvelope \/ UNCHANGED vars
  BY <1>4, StillCalm DEF SendEnvelope, vars
<1>5. QED
  BY <1>2, <1>3, <1>4 DEF Next

LEMMA Calmness == Spec => []CalmInv
<1>1. Init => CalmInv
  BY CalmInit
<1>2. IInv /\ CalmInv /\ [Next]_vars => CalmInv'
  BY CalmNext
<1>3. QED
  BY <1>1, <1>2, Invariance, PTL DEF Spec

-----------------------------------------------------------------------------
(* OffersReachRoot: as long as a member of the pool offers, the root has   *)
(* somewhere to send to once nothing is under way: handlers of different   *)
(* children may overtake each other on their way to it, but the last word  *)
(* about one of those that offer is that it does.                          *)
THEOREM OffersAreHeard == Spec => []OffersReachRoot
<1>1. CalmInv => OffersReachRoot
  <2> SUFFICES ASSUME CalmInv, AtRest, faults = 0, pooled, providers # {}
               PROVE  known # {}
    BY DEF OffersReachRoot
  <2>1. PICK x \in Child : WillBeKnown(x)
    BY DEF CalmInv, RootHears
  <2>2. trunk = <<>> /\ worker[x].todo = <<>>
    BY DEF AtRest
  <2>3. 1 .. Len(trunk) = {} /\ 1 .. Len(worker[x].todo) = {}
    BY <2>2
  <2>4. QED
    BY <2>1, <2>3 DEF WillBeKnown, Told
<1>2. QED
  BY <1>1, Calmness, PTL

(* CalmAgreement: child and sentinel agree about who has bound the address *)
(* and who offers, when the calls have returned and nothing was lost.      *)
THEOREM CallsAgree == Spec => []CalmAgreement
<1>1. IInv /\ CalmInv => CalmAgreement
  <2> SUFFICES ASSUME IInv, CalmInv, AtRest, faults = 0
               PROVE  /\ members \subseteq bound /\ (pooled => members = bound)
                      /\ providers \subseteq offered
                      /\ pooled => providers = offered
    BY DEF CalmAgreement
  <2>1. /\ members \subseteq Child /\ bound \subseteq Child
        /\ providers \subseteq Child /\ offered \subseteq Child
    BY DEF IInv, TypeOK, BindingTypeOK
  <2>2. \A c \in Child : Follows(c, members, bound)
                         /\ Follows(c, providers, offered)
    BY DEF AtRest, CalmInv, InStep
  <2>3. QED
    BY <2>1, <2>2 DEF Follows
<1>2. QED
  BY <1>1, Invariance, Calmness, PTL
=============================================================================
