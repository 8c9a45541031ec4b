-------------------------- MODULE RouteTableProofs --------------------------
(***************************************************************************)
(* The safety of the routes to the children for any number of children, of *)
(* connections and of failed forwards.                                     *)
(*                                                                         *)
(* The life of a connector has a direction: it is on its way to the table, *)
(* in it, or on its way out.  The connector that somebody is about to stop *)
(* is on its way out, and does not come back.                              *)
(***************************************************************************)
EXTENDS RouteTable, TLAPS

Attaching ==
  {"validating", "unregistering", "stoppingOld", "deletingEntry",
   "announcing"}

Pending(c)   == \E x \in Children : pendingRoutes[x] = c
Restoring(c) ==
  \E x \in Children : restored[x].at = "registering" /\ restored[x].of = c
Coming(c) == attach[c].at \in Attaching \/ Pending(c) \/ Restoring(c)
Routed(c) == \E x \in Children : downstreamRoutes[x] = c
Leaving(c) ==
  \/ conn[c].state = "stopped" \/ attach[c].at = "rejected"
  \/ timeout[c] = "stopping" \/ c \in cleanup.armed \/ janitor.stopping = c
  \/ \E d \in Connections : attach[d].old = c
  \/ \E x \in Children : forward[x].of = c
  \/ \E x \in Children : restored[x].expiry = "stopping" /\ restored[x].of = c

OneWay ==
  manager = "running" =>
    \A c \in Connections : /\ Coming(c) => ~Routed(c)
                           /\ Leaving(c) => ~Coming(c) /\ ~Routed(c)

(* Who is referred to has been created.                                    *)
Born ==
  /\ \A c \in Connections :
       conn[c].state = "none" =>
         /\ attach[c].at = "idle" /\ ~conn[c].attached /\ timeout[c] = "off"
         /\ janitor.stopping # c /\ c \notin cleanup.armed
         /\ \A d \in Connections : attach[d].old # c
         /\ \A x \in Children : forward[x].of # c /\ restored[x].of # c

(* What is kept for a child is a connector of that child.                  *)
PendingOwned ==
  \A x \in Children, c \in Connections :
    pendingRoutes[x] = c =>
      /\ conn[c].child = x /\ conn[c].state # "none"
      /\ attach[c].at = "idle" /\ ~conn[c].attached
RouteOwned ==
  \A x \in Children, c \in Connections :
    downstreamRoutes[x] = c => conn[c].child = x /\ conn[c].state # "none"
CleanupOwned ==
  \A x \in Children, c \in Connections :
    cleanup.of[x] = c => conn[c].child = x /\ conn[c].state # "none"
RestoreOwned ==
  \A x \in Children :
    restored[x].at # "done" =>
      /\ restored[x].expiry = "off"
      /\ \A c \in Connections :
           restored[x].of = c =>
             /\ conn[c].child = x /\ conn[c].attached
             /\ attach[c].at = "idle" /\ restored[x].at = "registering"
Owned == PendingOwned /\ RouteOwned /\ CleanupOwned /\ RestoreOwned

IInv == TypeOK /\ OneWay /\ Born /\ Owned
-----------------------------------------------------------------------------
(* Records: what an update of one field does, point by point.              *)

(* The numbers of the connectors.                                          *)
LEMMA Bounds ==
  /\ MaxConnections \in Nat /\ 0 \in Maybe /\ 0 \notin Connections
  /\ Maybe = Connections \cup {0}
BY BoundAssumption DEF Maybe, Connections

(* A connector ends, or is stopped.                                        *)
LEMMA ConnSet ==
  ASSUME conn \in [Connections -> Conns], NEW c,
         NEW st \in {"none", "open", "gone", "stopped"}
  PROVE  LET f == [conn EXCEPT ![c].state = st]
         IN  /\ f \in [Connections -> Conns]
             /\ \A d \in Connections :
                  /\ f[d].child = conn[d].child
                  /\ f[d].attached = conn[d].attached
                  /\ f[d].state = IF d = c THEN st ELSE conn[d].state
<1> DEFINE f == [conn EXCEPT ![c].state = st]
<1>1. CASE c \in Connections
  <2>1. conn[c] \in Conns
    BY <1>1
  <2>2. [conn[c] EXCEPT !.state = st] \in Conns
    BY <2>1 DEF Conns
  <2>3. \A d \in Connections :
          f[d] = IF d = c THEN [conn[c] EXCEPT !.state = st] ELSE conn[d]
    BY <1>1
  <2>4. f \in [Connections -> Conns]
    BY <1>1, <2>2
  <2>5. QED
    BY <2>1, <2>3, <2>4 DEF Conns
<1>2. CASE c \notin Connections
  BY <1>2
<1>3. QED
  BY <1>1, <1>2

(* safeStop().                                                             *)
LEMMA StopSet ==
  ASSUME conn \in [Connections -> Conns], NEW c \in Maybe
  PROVE  LET f == StoppedIfAny(c)
         IN  /\ f \in [Connections -> Conns]
             /\ \A d \in Connections :
                  /\ f[d].child = conn[d].child
                  /\ f[d].attached = conn[d].attached
                  /\ f[d].state = IF d = c THEN "stopped" ELSE conn[d].state
<1>1. CASE c = 0
  BY <1>1, Bounds DEF StoppedIfAny
<1>2. CASE c # 0
  BY <1>2, ConnSet DEF StoppedIfAny, Stopped
<1>3. QED
  BY <1>1, <1>2

(* A connector is created.                                                 *)
LEMMA ConnNew ==
  ASSUME conn \in [Connections -> Conns], NEW c \in Connections,
         NEW x \in Children
  PROVE  LET f == [conn EXCEPT ![c].state = "open", ![c].child = x]
         IN  /\ f \in [Connections -> Conns]
             /\ \A d \in Connections : d # c => f[d] = conn[d]
             /\ f[c].state = "open" /\ f[c].child = x
             /\ f[c].attached = conn[c].attached
<1>1. conn[c] \in Conns
  OBVIOUS
<1>2. [conn[c] EXCEPT !.state = "open", !.child = x] \in Conns
  BY <1>1 DEF Conns
<1>3. QED
  BY <1>1, <1>2 DEF Conns

(* The gate of a connector opens.                                          *)
LEMMA ConnOpens ==
  ASSUME conn \in [Connections -> Conns], NEW c \in Connections
  PROVE  LET f == [conn EXCEPT ![c].attached = TRUE]
         IN  /\ f \in [Connections -> Conns]
             /\ \A d \in Connections :
                  /\ f[d].child = conn[d].child /\ f[d].state = conn[d].state
                  /\ d # c => f[d] = conn[d]
<1>1. conn[c] \in Conns
  OBVIOUS
<1>2. [conn[c] EXCEPT !.attached = TRUE] \in Conns
  BY <1>1 DEF Conns
<1>3. QED
  BY <1>1, <1>2 DEF Conns

Stages == {"idle", "validating", "unregistering", "stoppingOld",
           "deletingEntry", "announcing", "acking", "storing", "rejected",
           "done", "failed"}

(* An attachment goes on.                                                  *)
LEMMA AttachSet ==
  ASSUME attach \in [Connections -> Attachments], NEW c \in Connections,
         NEW at \in Stages
  PROVE  /\ At(c, at) \in [Connections -> Attachments]
         /\ \A d \in Connections :
              /\ At(c, at)[d].old = attach[d].old
              /\ d # c => At(c, at)[d] = attach[d]
         /\ At(c, at)[c].at = at
<1>1. attach[c] \in Attachments
  OBVIOUS
<1>2. [attach[c] EXCEPT !.at = at] \in Attachments
  BY <1>1 DEF Attachments, Stages
<1>3. QED
  BY <1>1, <1>2 DEF At, Attachments

(* It takes over, or lets go of, the connector that it replaces.           *)
LEMMA AttachTakes ==
  ASSUME attach \in [Connections -> Attachments], NEW c \in Connections,
         NEW at \in Stages, NEW o \in Maybe
  PROVE  LET f == [attach EXCEPT ![c] = [at |-> at, old |-> o]]
         IN  /\ f \in [Connections -> Attachments]
             /\ \A d \in Connections : d # c => f[d] = attach[d]
             /\ f[c].at = at /\ f[c].old = o
BY DEF Attachments, Stages

(* A forward that failed.                                                  *)
LEMMA ForwardSet ==
  ASSUME forward \in [Children -> Forwards], NEW x \in Children,
         NEW at \in {"idle", "removing", "stopping", "deleting"},
         NEW o \in Maybe
  PROVE  /\ Forward(x, at, o) \in [Children -> Forwards]
         /\ \A y \in Children : y # x => Forward(x, at, o)[y] = forward[y]
         /\ Forward(x, at, o)[x].at = at /\ Forward(x, at, o)[x].of = o
<1>1. forward[x] \in Forwards
  OBVIOUS
<1>2. [forward[x] EXCEPT !.at = at, !.of = o] \in Forwards
  BY <1>1 DEF Forwards
<1>3. QED
  BY <1>1, <1>2 DEF Forward, Forwards
-----------------------------------------------------------------------------
(* A connection is lost.                                                   *)
LEMMA ConnectionLostKeeps ==
  ASSUME IInv, NEW c \in Connections, ConnectionLost(c)
  PROVE  IInv'
<1>0. /\ TypeOK /\ conn \in [Connections -> Conns]
      /\ attach \in [Connections -> Attachments]
      /\ restored \in [Children -> Restorations]
      /\ forward \in [Children -> Forwards]
  BY DEF IInv, TypeOK
<1>1. UNCHANGED <<attach, timeout, pendingRoutes,
                  downstreamRoutes, cleanup, store,
                  janitor, restored, forward, manager>>
  BY DEF ConnectionLost, connVars, attachOnly
<1>2. /\ conn' \in [Connections -> Conns]
      /\ \A d \in Connections :
           /\ conn'[d].child = conn[d].child
           /\ conn'[d].attached = conn[d].attached
           /\ conn'[d].state = IF d = c THEN "gone" ELSE conn[d].state
  BY <1>0, ConnSet DEF ConnectionLost
<1>3. TypeOK'
  BY <1>0, <1>1, <1>2, Bounds DEF TypeOK, Controlled
<1>4. Owned'
  BY <1>1, <1>2, Bounds DEF IInv, Owned, PendingOwned, RouteOwned,
     CleanupOwned, RestoreOwned
<1>5. Born'
  BY <1>1, <1>2, Bounds DEF IInv, Born
<1>6. OneWay'
  BY <1>1, <1>2, Bounds DEF IInv, OneWay, Attaching, Coming, Routed,
     Leaving, Pending, Restoring
<1>7. QED
  BY <1>3, <1>4, <1>5, <1>6 DEF IInv

(* A connection is made: its number is new.                                *)
LEMMA ConnectKeeps ==
  ASSUME IInv, NEW x \in Children, Connect(x)
  PROVE  IInv'
<1>0. /\ TypeOK /\ conn \in [Connections -> Conns]
      /\ attach \in [Connections -> Attachments]
      /\ restored \in [Children -> Restorations]
      /\ forward \in [Children -> Forwards]
  BY DEF IInv, TypeOK
<1>1. UNCHANGED <<attach, downstreamRoutes, cleanup, store,
                  janitor, restored, forward, manager>>
  BY DEF Connect, connVars, attachOnly
<1>2. PICK n \in Connections :
        /\ conn[n].state = "none"
        /\ conn' = [conn EXCEPT ![n].state = "open", ![n].child = x]
        /\ timeout' = [timeout EXCEPT ![n] = "armed"]
        /\ pendingRoutes' = [pendingRoutes EXCEPT ![x] = n]
  BY DEF Connect, IsNext
<1>3. /\ timeout' \in [Connections -> {"off", "armed", "fired", "stopping"}]
      /\ pendingRoutes' \in [Children -> Maybe]
      /\ \A d \in Connections :
           timeout'[d] = IF d = n THEN "armed" ELSE timeout[d]
      /\ \A y \in Children :
           pendingRoutes'[y] = IF y = x THEN n ELSE pendingRoutes[y]
  BY <1>0, <1>2, Bounds DEF TypeOK
<1>4. /\ conn' \in [Connections -> Conns]
      /\ \A d \in Connections : d # n => conn'[d] = conn[d]
      /\ conn'[n].state = "open" /\ conn'[n].child = x
      /\ conn'[n].attached = conn[n].attached
  <2>1. conn' = [conn EXCEPT ![n].state = "open", ![n].child = x]
    BY <1>2
  <2>2. QED
    BY <1>0, <2>1, ConnNew
<1>5. TypeOK'
  BY <1>0, <1>1, <1>2, <1>3, <1>4, Bounds DEF TypeOK, Controlled
<1>6. Owned'
  BY <1>1, <1>2, <1>3, <1>4, Bounds DEF IInv, Owned, PendingOwned,
     RouteOwned, CleanupOwned, RestoreOwned, Born
<1>7. Born'
  BY <1>1, <1>2, <1>3, <1>4, Bounds DEF IInv, Born
<1>8. OneWay'
  BY <1>1, <1>2, <1>3, <1>4, Bounds DEF IInv, OneWay, Born, Owned,
     PendingOwned, RouteOwned, CleanupOwned, RestoreOwned, Attaching,
     Coming, Routed, Leaving, Pending, Restoring
<1>9. QED
  BY <1>5, <1>6, <1>7, <1>8 DEF IInv

(* Its timeout.                                                            *)
LEMMA TimeoutFiresKeeps ==
  ASSUME IInv, NEW c \in Connections, TimeoutFires(c)
  PROVE  IInv'
<1>0. /\ TypeOK /\ conn \in [Connections -> Conns]
      /\ attach \in [Connections -> Attachments]
      /\ restored \in [Children -> Restorations]
      /\ forward \in [Children -> Forwards]
  BY DEF IInv, TypeOK
<1>1. UNCHANGED <<conn, attach, pendingRoutes,
                  downstreamRoutes, cleanup, store,
                  janitor, restored, forward, manager>>
  BY DEF TimeoutFires, connVars, attachOnly
<1>2. timeout[c] = "armed" /\ timeout' = [timeout EXCEPT ![c] = "fired"]
  BY DEF TimeoutFires
<1>3. TypeOK'
  BY <1>0, <1>1, <1>2, Bounds DEF TypeOK, Controlled
<1>4. Owned'
  BY <1>1, <1>2, Bounds DEF IInv, Owned, PendingOwned, RouteOwned,
     CleanupOwned, RestoreOwned
<1>5. Born'
  BY <1>1, <1>2, Bounds DEF IInv, Born
<1>6. OneWay'
  BY <1>1, <1>2, Bounds DEF IInv, OneWay, Attaching, Coming, Routed,
     Leaving, Pending, Restoring
<1>7. QED
  BY <1>3, <1>4, <1>5, <1>6 DEF IInv

(* Its entry is given up, if it is still there.                            *)
LEMMA TimeoutExpiresKeeps ==
  ASSUME IInv, NEW c \in Connections, TimeoutExpires(c)
  PROVE  IInv'
<1>0. /\ TypeOK /\ conn \in [Connections -> Conns]
      /\ attach \in [Connections -> Attachments]
      /\ restored \in [Children -> Restorations]
      /\ forward \in [Children -> Forwards]
  BY DEF IInv, TypeOK
<1>1. UNCHANGED <<conn, attach, downstreamRoutes, cleanup,
                  store, janitor, restored, forward,
                  manager>>
  BY DEF TimeoutExpires, connVars, attachOnly
<1>2. /\ timeout[c] = "fired" /\ conn[c].child \in Children
      /\ \/ /\ pendingRoutes[conn[c].child] = c
            /\ pendingRoutes' = [pendingRoutes EXCEPT ![conn[c].child] = 0]
            /\ timeout' = [timeout EXCEPT ![c] = "stopping"]
         \/ /\ timeout' = [timeout EXCEPT ![c] = "off"]
            /\ UNCHANGED pendingRoutes
  BY <1>0 DEF TypeOK, Conns, TimeoutExpires, StillPending
<1>3. /\ \A d \in Connections : /\ d # c => timeout'[d] = timeout[d]
                                /\ timeout'[d] = "stopping" /\ d = c =>
                                     /\ pendingRoutes[conn[c].child] = c
                                     /\ pendingRoutes'[conn[c].child] = 0
      /\ \A y \in Children : pendingRoutes'[y] \in {pendingRoutes[y], 0}
  BY <1>0, <1>2 DEF TypeOK
<1>4. TypeOK'
  BY <1>0, <1>1, <1>2, <1>3, Bounds DEF TypeOK, Controlled
<1>5. Owned'
  BY <1>1, <1>2, <1>3, Bounds DEF IInv, Owned, PendingOwned, RouteOwned,
     CleanupOwned, RestoreOwned, Born
<1>6. Born'
  BY <1>1, <1>2, <1>3, Bounds DEF IInv, Born
<1>7. OneWay'
  BY <1>1, <1>2, <1>3, Bounds DEF IInv, OneWay, Born, Owned, PendingOwned,
     RouteOwned, CleanupOwned, RestoreOwned, Attaching, Coming, Routed,
     Leaving, Pending, Restoring
<1>8. QED
  BY <1>4, <1>5, <1>6, <1>7 DEF IInv

(* And its connector stopped.                                              *)
LEMMA TimeoutStopsKeeps ==
  ASSUME IInv, NEW c \in Connections, TimeoutStops(c)
  PROVE  IInv'
<1>0. /\ TypeOK /\ conn \in [Connections -> Conns]
      /\ attach \in [Connections -> Attachments]
      /\ restored \in [Children -> Restorations]
      /\ forward \in [Children -> Forwards]
  BY DEF IInv, TypeOK
<1>1. UNCHANGED <<attach, pendingRoutes, downstreamRoutes,
                  cleanup, store, janitor, restored,
                  forward, manager>>
  BY DEF TimeoutStops, connVars, attachOnly
<1>2. /\ conn' \in [Connections -> Conns]
      /\ \A d \in Connections :
           /\ conn'[d].child = conn[d].child
           /\ conn'[d].attached = conn[d].attached
           /\ conn'[d].state =
                IF d = c THEN "stopped" ELSE conn[d].state
  BY <1>0, ConnSet DEF TimeoutStops, Stopped
<1>3. timeout[c] = "stopping" /\ timeout' = [timeout EXCEPT ![c] = "off"]
  BY DEF TimeoutStops
<1>4. TypeOK'
  BY <1>0, <1>1, <1>2, <1>3, Bounds DEF TypeOK, Controlled
<1>5. Owned'
  BY <1>1, <1>2, <1>3, Bounds DEF IInv, Owned, PendingOwned, RouteOwned,
     CleanupOwned, RestoreOwned
<1>6. Born'
  BY <1>1, <1>2, <1>3, Bounds DEF IInv, Born
<1>7. OneWay'
  BY <1>1, <1>2, <1>3, Bounds DEF IInv, OneWay, Attaching, Coming, Routed,
     Leaving, Pending, Restoring
<1>8. QED
  BY <1>4, <1>5, <1>6, <1>7 DEF IInv

(* The attachment takes the pending entry of the child.                    *)
LEMMA AttachArrivesKeeps ==
  ASSUME IInv, NEW c \in Connections, AttachArrives(c)
  PROVE  IInv'
<1>0. /\ TypeOK /\ conn \in [Connections -> Conns]
      /\ attach \in [Connections -> Attachments]
      /\ restored \in [Children -> Restorations]
      /\ forward \in [Children -> Forwards]
  BY DEF IInv, TypeOK
<1>1. UNCHANGED <<conn, downstreamRoutes, cleanup, store,
                  janitor, restored, forward, manager>>
  BY DEF AttachArrives, connVars, attachOnly
<1>2. conn[c].child \in Children /\ conn[c].state = "open"
  BY <1>0 DEF TypeOK, Conns, AttachArrives, Listening
<1>3. /\ attach' \in [Connections -> Attachments]
      /\ \A d \in Connections : /\ attach'[d].old = attach[d].old
                                /\ d # c => attach'[d] = attach[d]
      /\ attach'[c].at = IF pendingRoutes[conn[c].child] = c THEN "validating"
                           ELSE "failed"
  BY <1>0, AttachSet DEF TypeOK, AttachArrives, Stages
<1>4. /\ pendingRoutes' \in [Children -> Maybe]
      /\ \A y \in Children :
           pendingRoutes'[y] =
             IF y = conn[c].child THEN 0 ELSE pendingRoutes[y]
      /\ attach[c].at = "idle" /\ ~conn[c].attached
      /\ timeout' \in [Connections -> {"off", "armed", "fired", "stopping"}]
      /\ \A d \in Connections : timeout'[d] \in {timeout[d], "off"}
  BY <1>0, <1>2, Bounds DEF TypeOK, AttachArrives
<1>5. TypeOK'
  BY <1>0, <1>1, <1>2, <1>3, <1>4, Bounds DEF TypeOK, Controlled
<1>6. Owned'
  BY <1>1, <1>2, <1>3, <1>4, Bounds DEF IInv, Owned, PendingOwned,
     RouteOwned, CleanupOwned, RestoreOwned, Born
<1>7. Born'
  BY <1>1, <1>2, <1>3, <1>4, Bounds DEF IInv, Born
<1>8. OneWay'
  BY <1>1, <1>2, <1>3, <1>4, Bounds DEF IInv, OneWay, Attaching, Coming,
     Routed, Leaving, Pending, Restoring
<1>9. QED
  BY <1>5, <1>6, <1>7, <1>8 DEF IInv

(* A connection that is refused is closed.                                 *)
LEMMA AttachRejectedKeeps ==
  ASSUME IInv, NEW c \in Connections, AttachRejected(c)
  PROVE  IInv'
<1>0. /\ TypeOK /\ conn \in [Connections -> Conns]
      /\ attach \in [Connections -> Attachments]
      /\ restored \in [Children -> Restorations]
      /\ forward \in [Children -> Forwards]
  BY DEF IInv, TypeOK
<1>1. UNCHANGED <<conn, timeout, pendingRoutes,
                  downstreamRoutes, cleanup, store,
                  janitor, restored, forward, manager>>
  BY DEF AttachRejected, connVars, attachOnly
<1>2. /\ attach' \in [Connections -> Attachments]
      /\ \A d \in Connections : /\ attach'[d].old = attach[d].old
                                /\ d # c => attach'[d] = attach[d]
      /\ attach'[c].at = "rejected" /\ attach[c].at = "validating"
  BY <1>0, AttachSet DEF TypeOK, AttachRejected, Stages
<1>3. TypeOK'
  BY <1>0, <1>1, <1>2, Bounds DEF TypeOK, Controlled
<1>4. Owned'
  BY <1>1, <1>2, Bounds DEF IInv, Owned, PendingOwned, RouteOwned,
     CleanupOwned, RestoreOwned
<1>5. Born'
  BY <1>1, <1>2, Bounds DEF IInv, Born
<1>6. OneWay'
  BY <1>1, <1>2, Bounds DEF IInv, OneWay, Born, Owned, PendingOwned,
     RouteOwned, CleanupOwned, RestoreOwned, Attaching, Coming, Routed,
     Leaving, Pending, Restoring
<1>7. QED
  BY <1>3, <1>4, <1>5, <1>6 DEF IInv

(* By a task of its own.                                                   *)
LEMMA RejectedClosesKeeps ==
  ASSUME IInv, NEW c \in Connections, RejectedCloses(c)
  PROVE  IInv'
<1>0. /\ TypeOK /\ conn \in [Connections -> Conns]
      /\ attach \in [Connections -> Attachments]
      /\ restored \in [Children -> Restorations]
      /\ forward \in [Children -> Forwards]
  BY DEF IInv, TypeOK
<1>1. UNCHANGED <<attach, timeout, pendingRoutes,
                  downstreamRoutes, cleanup, store,
                  janitor, restored, forward, manager>>
  BY DEF RejectedCloses, connVars, attachOnly
<1>2. /\ conn' \in [Connections -> Conns]
      /\ \A d \in Connections :
           /\ conn'[d].child = conn[d].child
           /\ conn'[d].attached = conn[d].attached
           /\ conn'[d].state =
                IF d = c THEN "stopped" ELSE conn[d].state
  BY <1>0, ConnSet DEF RejectedCloses, Stopped
<1>3. attach[c].at = "rejected" /\ conn[c].state = "open"
  BY DEF RejectedCloses
<1>4. TypeOK'
  BY <1>0, <1>1, <1>2, <1>3, Bounds DEF TypeOK, Controlled
<1>5. Owned'
  BY <1>1, <1>2, <1>3, Bounds DEF IInv, Owned, PendingOwned, RouteOwned,
     CleanupOwned, RestoreOwned
<1>6. Born'
  BY <1>1, <1>2, <1>3, Bounds DEF IInv, Born
<1>7. OneWay'
  BY <1>1, <1>2, <1>3, Bounds DEF IInv, OneWay, Attaching, Coming, Routed,
     Leaving, Pending, Restoring
<1>8. QED
  BY <1>4, <1>5, <1>6, <1>7 DEF IInv

(* The gate opens.                                                         *)
LEMMA AttachAcceptedKeeps ==
  ASSUME IInv, NEW c \in Connections, AttachAccepted(c)
  PROVE  IInv'
<1>0. /\ TypeOK /\ conn \in [Connections -> Conns]
      /\ attach \in [Connections -> Attachments]
      /\ restored \in [Children -> Restorations]
      /\ forward \in [Children -> Forwards]
  BY DEF IInv, TypeOK
<1>1. UNCHANGED <<timeout, pendingRoutes, downstreamRoutes,
                  cleanup, store, janitor, restored,
                  forward, manager>>
  BY DEF AttachAccepted, connVars, attachOnly
<1>2. /\ conn' \in [Connections -> Conns]
      /\ \A d \in Connections :
           /\ conn'[d].child = conn[d].child /\ conn'[d].state = conn[d].state
           /\ d # c => conn'[d] = conn[d]
  BY <1>0, ConnOpens DEF TypeOK, AttachAccepted
<1>3. /\ attach' \in [Connections -> Attachments]
      /\ \A d \in Connections : /\ attach'[d].old = attach[d].old
                                /\ d # c => attach'[d] = attach[d]
      /\ attach'[c].at \in {"unregistering", "announcing", "failed"}
      /\ attach[c].at = "validating"
  BY SMTT(20), <1>0, AttachSet DEF TypeOK, AttachAccepted, Stages
<1>4. TypeOK'
  BY <1>0, <1>1, <1>2, <1>3, Bounds DEF TypeOK, Controlled
<1>5. Owned'
  BY <1>1, <1>2, <1>3, Bounds DEF IInv, Owned, PendingOwned, RouteOwned,
     CleanupOwned, RestoreOwned
<1>6. Born'
  BY <1>1, <1>2, <1>3, Bounds DEF IInv, Born
<1>7. OneWay'
  BY <1>1, <1>2, <1>3, Bounds DEF IInv, OneWay, Attaching, Coming, Routed,
     Leaving, Pending, Restoring
<1>8. QED
  BY <1>4, <1>5, <1>6, <1>7 DEF IInv

(* The connector that is replaced leaves the table and is stopped.         *)
LEMMA UnregisterKeeps ==
  ASSUME IInv, NEW c \in Connections, Unregister(c)
  PROVE  IInv'
<1>0. /\ TypeOK /\ conn \in [Connections -> Conns]
      /\ attach \in [Connections -> Attachments]
      /\ restored \in [Children -> Restorations]
      /\ forward \in [Children -> Forwards]
  BY DEF IInv, TypeOK
<1>1. UNCHANGED <<conn, timeout, pendingRoutes, cleanup,
                  store, janitor, restored, forward,
                  manager>>
  BY DEF Unregister, connVars, attachOnly
<1>2. /\ conn[c].child \in Children
      /\ downstreamRoutes[conn[c].child] \in Maybe
      /\ downstreamRoutes' \in [Children -> Maybe]
      /\ \A y \in Children : downstreamRoutes'[y] =
           IF y = conn[c].child THEN 0 ELSE downstreamRoutes[y]
  BY <1>0, Bounds DEF TypeOK, Conns, Unregister
<1>3. /\ attach' \in [Connections -> Attachments]
      /\ \A d \in Connections : d # c => attach'[d] = attach[d]
      /\ attach'[c].at = "stoppingOld"
      /\ attach'[c].old = downstreamRoutes[conn[c].child]
      /\ attach[c].at = "unregistering"
  BY <1>0, <1>2, AttachTakes DEF TypeOK, Unregister, Stages
<1>4. TypeOK'
  BY <1>0, <1>1, <1>2, <1>3, Bounds DEF TypeOK, Controlled
<1>5. Owned'
  BY <1>1, <1>2, <1>3, Bounds DEF IInv, Owned, PendingOwned, RouteOwned,
     CleanupOwned, RestoreOwned
<1>6. Born'
  BY <1>1, <1>2, <1>3, Bounds DEF IInv, Born, Owned, PendingOwned,
     RouteOwned, CleanupOwned, RestoreOwned
<1>7. OneWay'
  BY <1>1, <1>2, <1>3, Bounds DEF IInv, OneWay, Born, Owned, PendingOwned,
     RouteOwned, CleanupOwned, RestoreOwned, Attaching, Coming, Routed,
     Leaving, Pending, Restoring
<1>8. QED
  BY <1>4, <1>5, <1>6, <1>7 DEF IInv

(* It is stopped,                                                          *)
LEMMA StopOldKeeps ==
  ASSUME IInv, NEW c \in Connections, StopOld(c)
  PROVE  IInv'
<1>0. /\ TypeOK /\ conn \in [Connections -> Conns]
      /\ attach \in [Connections -> Attachments]
      /\ restored \in [Children -> Restorations]
      /\ forward \in [Children -> Forwards]
  BY DEF IInv, TypeOK
<1>1. UNCHANGED <<timeout, pendingRoutes, downstreamRoutes,
                  cleanup, store, janitor, restored,
                  forward, manager>>
  BY DEF StopOld, connVars, attachOnly
<1>2. attach[c].old \in Maybe
  BY <1>0 DEF TypeOK, Attachments
<1>3. /\ conn' \in [Connections -> Conns]
      /\ \A d \in Connections :
           /\ conn'[d].child = conn[d].child
           /\ conn'[d].attached = conn[d].attached
           /\ conn'[d].state =
                IF d = attach[c].old THEN "stopped" ELSE conn[d].state
  BY <1>0, <1>2, StopSet DEF StopOld
<1>4. /\ attach' \in [Connections -> Attachments]
      /\ \A d \in Connections : d # c => attach'[d] = attach[d]
      /\ attach'[c].at = "deletingEntry"
      /\ attach'[c].old = 0
      /\ attach[c].at = "stoppingOld"
  BY <1>0, Bounds, AttachTakes DEF TypeOK, StopOld, Stages
<1>5. TypeOK'
  BY <1>0, <1>1, <1>2, <1>3, <1>4, Bounds DEF TypeOK, Controlled
<1>6. Owned'
  BY <1>1, <1>2, <1>3, <1>4, Bounds DEF IInv, Owned, PendingOwned,
     RouteOwned, CleanupOwned, RestoreOwned
<1>7. Born'
  BY <1>1, <1>2, <1>3, <1>4, Bounds DEF IInv, Born
<1>8. OneWay'
  BY <1>1, <1>2, <1>3, <1>4, Bounds DEF IInv, OneWay, Attaching, Coming,
     Routed, Leaving, Pending, Restoring
<1>9. QED
  BY <1>5, <1>6, <1>7, <1>8 DEF IInv

(* and its entry deleted.                                                  *)
LEMMA DeleteOldEntryKeeps ==
  ASSUME IInv, NEW c \in Connections, DeleteOldEntry(c)
  PROVE  IInv'
<1>0. /\ TypeOK /\ conn \in [Connections -> Conns]
      /\ attach \in [Connections -> Attachments]
      /\ restored \in [Children -> Restorations]
      /\ forward \in [Children -> Forwards]
  BY DEF IInv, TypeOK
<1>1. UNCHANGED <<conn, timeout, pendingRoutes,
                  downstreamRoutes, cleanup, janitor,
                  restored, forward, manager>>
  BY DEF DeleteOldEntry, connVars, attachOnly
<1>2. store' \in [Children -> Entries]
  BY <1>0 DEF TypeOK, DeleteOldEntry, Entries
<1>3. /\ attach' \in [Connections -> Attachments]
      /\ \A d \in Connections : /\ attach'[d].old = attach[d].old
                                /\ d # c => attach'[d] = attach[d]
      /\ attach'[c].at = "announcing" /\ attach[c].at = "deletingEntry"
  BY <1>0, AttachSet DEF TypeOK, DeleteOldEntry, Stages
<1>4. TypeOK'
  BY <1>0, <1>1, <1>2, <1>3, Bounds DEF TypeOK, Controlled
<1>5. Owned'
  BY <1>1, <1>2, <1>3, Bounds DEF IInv, Owned, PendingOwned, RouteOwned,
     CleanupOwned, RestoreOwned
<1>6. Born'
  BY <1>1, <1>2, <1>3, Bounds DEF IInv, Born
<1>7. OneWay'
  BY <1>1, <1>2, <1>3, Bounds DEF IInv, OneWay, Attaching, Coming, Routed,
     Leaving, Pending, Restoring
<1>8. QED
  BY <1>4, <1>5, <1>6, <1>7 DEF IInv

(* The announcement fails.                                                 *)
LEMMA AnnounceFailsKeeps ==
  ASSUME IInv, NEW c \in Connections, AnnounceFails(c)
  PROVE  IInv'
<1>0. /\ TypeOK /\ conn \in [Connections -> Conns]
      /\ attach \in [Connections -> Attachments]
      /\ restored \in [Children -> Restorations]
      /\ forward \in [Children -> Forwards]
  BY DEF IInv, TypeOK
<1>1. UNCHANGED <<conn, timeout, pendingRoutes,
                  downstreamRoutes, cleanup, store,
                  janitor, restored, forward, manager>>
  BY DEF AnnounceFails, connVars, attachOnly
<1>2. /\ attach' \in [Connections -> Attachments]
      /\ \A d \in Connections : /\ attach'[d].old = attach[d].old
                                /\ d # c => attach'[d] = attach[d]
      /\ attach'[c].at = "failed" /\ attach[c].at = "announcing"
  BY <1>0, AttachSet DEF TypeOK, AnnounceFails, Stages
<1>3. TypeOK'
  BY <1>0, <1>1, <1>2, Bounds DEF TypeOK, Controlled
<1>4. Owned'
  BY <1>1, <1>2, Bounds DEF IInv, Owned, PendingOwned, RouteOwned,
     CleanupOwned, RestoreOwned
<1>5. Born'
  BY <1>1, <1>2, Bounds DEF IInv, Born
<1>6. OneWay'
  BY <1>1, <1>2, Bounds DEF IInv, OneWay, Attaching, Coming, Routed,
     Leaving, Pending, Restoring
<1>7. QED
  BY <1>3, <1>4, <1>5, <1>6 DEF IInv

(* The route is registered; a delayed stop for the child is cancelled.     *)
LEMMA RegisterKeeps ==
  ASSUME IInv, NEW c \in Connections, Register(c)
  PROVE  IInv'
<1>0. /\ TypeOK /\ conn \in [Connections -> Conns]
      /\ attach \in [Connections -> Attachments]
      /\ restored \in [Children -> Restorations]
      /\ forward \in [Children -> Forwards]
  BY DEF IInv, TypeOK
<1>1. UNCHANGED <<conn, timeout, pendingRoutes, store,
                  janitor, restored, forward, manager>>
  BY DEF Register, connVars, attachOnly
<1>2. conn[c].child \in Children /\ conn[c].state # "none"
  BY <1>0 DEF IInv, Conns, Born, Register
<1>3. /\ downstreamRoutes' \in [Children -> Maybe]
      /\ \A y \in Children : downstreamRoutes'[y] =
           IF y = conn[c].child THEN c ELSE downstreamRoutes[y]
  BY <1>0, <1>2, Bounds DEF TypeOK, Register
<1>4. /\ attach' \in [Connections -> Attachments]
      /\ \A d \in Connections : /\ attach'[d].old = attach[d].old
                                /\ d # c => attach'[d] = attach[d]
      /\ attach'[c].at = "acking" /\ attach[c].at = "announcing"
  BY <1>0, AttachSet DEF TypeOK, Register, Stages
<1>5. /\ cleanup' \in Cleanups
      /\ cleanup'.armed = cleanup.armed \ {cleanup.of[conn[c].child]}
      /\ cleanup'.of = [cleanup.of EXCEPT ![conn[c].child] = 0]
  BY <1>0, <1>2, Bounds DEF TypeOK, Register, CancelCleanup, Cleanups
<1>6. Controlled'
  BY <1>0, <1>1, <1>2, <1>3, <1>4, <1>5, Bounds DEF IInv, TypeOK,
     Controlled, Owned, CleanupOwned, Cleanups
<1>7. TypeOK'
  BY <1>0, <1>6, <1>1, <1>2, <1>3, <1>4, <1>5, Bounds DEF TypeOK, Cleanups
<1>8. Owned'
  BY <1>1, <1>2, <1>3, <1>4, <1>5, Bounds DEF IInv, Owned, PendingOwned,
     RouteOwned, CleanupOwned, RestoreOwned, Cleanups
<1>9. Born'
  BY <1>1, <1>2, <1>3, <1>4, <1>5, Bounds DEF IInv, Born, Cleanups
<1>10. OneWay'
  BY <1>1, <1>2, <1>3, <1>4, <1>5, Bounds DEF IInv, OneWay, Born, Owned,
     PendingOwned, RouteOwned, CleanupOwned, RestoreOwned, Attaching,
     Coming, Routed, Leaving, Pending, Restoring, Cleanups
<1>11. QED
  BY <1>7, <1>8, <1>9, <1>10 DEF IInv

(* The answer and the durable entry.                                       *)
LEMMA SendAckKeeps ==
  ASSUME IInv, NEW c \in Connections, SendAck(c)
  PROVE  IInv'
<1>0. /\ TypeOK /\ conn \in [Connections -> Conns]
      /\ attach \in [Connections -> Attachments]
      /\ restored \in [Children -> Restorations]
      /\ forward \in [Children -> Forwards]
  BY DEF IInv, TypeOK
<1>1. UNCHANGED <<conn, timeout, pendingRoutes,
                  downstreamRoutes, cleanup, store,
                  janitor, restored, forward, manager>>
  BY DEF SendAck, connVars, attachOnly
<1>2. /\ attach' \in [Connections -> Attachments]
      /\ \A d \in Connections : /\ attach'[d].old = attach[d].old
                                /\ d # c => attach'[d] = attach[d]
      /\ attach'[c].at \in {"storing", "done", "failed"}
      /\ attach[c].at = "acking"
  BY SMTT(20), <1>0, AttachSet DEF TypeOK, SendAck, Stages
<1>3. TypeOK'
  BY <1>0, <1>1, <1>2, Bounds DEF TypeOK, Controlled
<1>4. Owned'
  BY <1>1, <1>2, Bounds DEF IInv, Owned, PendingOwned, RouteOwned,
     CleanupOwned, RestoreOwned
<1>5. Born'
  BY <1>1, <1>2, Bounds DEF IInv, Born
<1>6. OneWay'
  BY <1>1, <1>2, Bounds DEF IInv, OneWay, Attaching, Coming, Routed,
     Leaving, Pending, Restoring
<1>7. QED
  BY <1>3, <1>4, <1>5, <1>6 DEF IInv

(* The entry of the new one.                                               *)
LEMMA StoreEntryKeeps ==
  ASSUME IInv, NEW c \in Connections, StoreEntry(c)
  PROVE  IInv'
<1>0. /\ TypeOK /\ conn \in [Connections -> Conns]
      /\ attach \in [Connections -> Attachments]
      /\ restored \in [Children -> Restorations]
      /\ forward \in [Children -> Forwards]
  BY DEF IInv, TypeOK
<1>1. UNCHANGED <<conn, timeout, pendingRoutes,
                  downstreamRoutes, cleanup, janitor,
                  restored, forward, manager>>
  BY DEF StoreEntry, connVars, attachOnly
<1>2. store' \in [Children -> Entries]
  BY <1>0 DEF TypeOK, StoreEntry, Entries
<1>3. /\ attach' \in [Connections -> Attachments]
      /\ \A d \in Connections : /\ attach'[d].old = attach[d].old
                                /\ d # c => attach'[d] = attach[d]
      /\ attach'[c].at = "done" /\ attach[c].at = "storing"
  BY <1>0, AttachSet DEF TypeOK, StoreEntry, Stages
<1>4. TypeOK'
  BY <1>0, <1>1, <1>2, <1>3, Bounds DEF TypeOK, Controlled
<1>5. Owned'
  BY <1>1, <1>2, <1>3, Bounds DEF IInv, Owned, PendingOwned, RouteOwned,
     CleanupOwned, RestoreOwned
<1>6. Born'
  BY <1>1, <1>2, <1>3, Bounds DEF IInv, Born
<1>7. OneWay'
  BY <1>1, <1>2, <1>3, Bounds DEF IInv, OneWay, Attaching, Coming, Routed,
     Leaving, Pending, Restoring
<1>8. QED
  BY <1>4, <1>5, <1>6, <1>7 DEF IInv

(* The removal of a route by a forward.                                    *)
LEMMA ForwardFailsKeeps ==
  ASSUME IInv, NEW x \in Children, ForwardFails(x)
  PROVE  IInv'
<1>0. /\ TypeOK /\ conn \in [Connections -> Conns]
      /\ attach \in [Connections -> Attachments]
      /\ restored \in [Children -> Restorations]
      /\ forward \in [Children -> Forwards]
  BY DEF IInv, TypeOK
<1>1. UNCHANGED <<conn, attach, timeout, pendingRoutes,
                  downstreamRoutes, cleanup, store,
                  janitor, restored, manager>>
  BY DEF ForwardFails, connVars, attachOnly
<1>2. /\ forward' \in [Children -> Forwards]
      /\ \A y \in Children : forward'[y].of = forward[y].of
  <2>1. /\ forward[x] \in Forwards
        /\ forward[x].failures + 1 \in 0 .. MaxFailures
    BY <1>0, BoundAssumption DEF Forwards, ForwardFails
  <2>2. [forward[x] EXCEPT !.at = "removing",
                           !.failures = forward[x].failures + 1] \in Forwards
    BY <2>1 DEF Forwards
  <2>3. forward' = [forward EXCEPT ![x] =
          [forward[x] EXCEPT !.at = "removing",
                             !.failures = forward[x].failures + 1]]
    BY <1>0 DEF ForwardFails
  <2>4. QED
    BY <1>0, <2>1, <2>2, <2>3 DEF Forwards
<1>3. TypeOK'
  BY <1>0, <1>1, <1>2, Bounds DEF TypeOK, Controlled
<1>4. Owned'
  BY <1>1, <1>2, Bounds DEF IInv, Owned, PendingOwned, RouteOwned,
     CleanupOwned, RestoreOwned
<1>5. Born'
  BY <1>1, <1>2, Bounds DEF IInv, Born
<1>6. OneWay'
  BY <1>1, <1>2, Bounds DEF IInv, OneWay, Attaching, Coming, Routed,
     Leaving, Pending, Restoring
<1>7. QED
  BY <1>3, <1>4, <1>5, <1>6 DEF IInv

(* The route is taken and the stop of its connector armed.                 *)
LEMMA RemoveRouteKeeps ==
  ASSUME IInv, NEW x \in Children, RemoveRoute(x)
  PROVE  IInv'
<1>0. /\ TypeOK /\ conn \in [Connections -> Conns]
      /\ attach \in [Connections -> Attachments]
      /\ restored \in [Children -> Restorations]
      /\ forward \in [Children -> Forwards]
  BY DEF IInv, TypeOK
<1>1. UNCHANGED <<conn, attach, timeout, pendingRoutes,
                  store, janitor, restored, manager>>
  BY DEF RemoveRoute, connVars, attachOnly
<1>2. /\ downstreamRoutes[x] \in Maybe
      /\ downstreamRoutes' \in [Children -> Maybe]
      /\ \A y \in Children : downstreamRoutes'[y] =
           IF y = x THEN 0 ELSE downstreamRoutes[y]
  BY <1>0, Bounds DEF TypeOK, RemoveRoute
<1>3. /\ forward' \in [Children -> Forwards]
      /\ \A y \in Children : y # x => forward'[y] = forward[y]
      /\ forward'[x].of \in {0, downstreamRoutes[x]}
  BY <1>0, <1>2, Bounds, ForwardSet DEF RemoveRoute
<1>4. /\ cleanup' \in Cleanups
      /\ \/ cleanup' = cleanup
         \/ /\ downstreamRoutes[x] # 0
            /\ cleanup'.armed = (cleanup.armed \ {cleanup.of[x]})
                                  \cup {downstreamRoutes[x]}
            /\ cleanup'.of = [cleanup.of EXCEPT ![x] = downstreamRoutes[x]]
  BY <1>0, <1>2, Bounds DEF TypeOK, RemoveRoute, Cleanups
<1>5. cleanup.of \in [Children -> Maybe]
  BY <1>0 DEF TypeOK, Cleanups
<1>6. Controlled'
  BY <1>0, <1>1, <1>2, <1>3, <1>4, <1>5, Bounds DEF IInv, TypeOK,
     Controlled, Owned, CleanupOwned
<1>7. TypeOK'
  BY <1>0, <1>6, <1>1, <1>2, <1>3, <1>4, <1>5, Bounds DEF TypeOK
<1>8. Owned'
  BY <1>1, <1>2, <1>3, <1>4, <1>5, Bounds DEF IInv, Owned, PendingOwned,
     RouteOwned, CleanupOwned, RestoreOwned, Born
<1>9. Born'
  BY <1>1, <1>2, <1>3, <1>4, <1>5, Bounds DEF IInv, Born, Owned,
     PendingOwned, RouteOwned, CleanupOwned, RestoreOwned
<1>10. OneWay'
  BY <1>1, <1>2, <1>3, <1>4, <1>5, Bounds DEF IInv, OneWay, Born, Owned,
     PendingOwned, RouteOwned, CleanupOwned, RestoreOwned, Attaching,
     Coming, Routed, Leaving, Pending, Restoring
<1>11. QED
  BY <1>7, <1>8, <1>9, <1>10 DEF IInv

(* Or the connector is stopped at once.                                    *)
LEMMA RemoveStopsKeeps ==
  ASSUME IInv, NEW x \in Children, RemoveStops(x)
  PROVE  IInv'
<1>0. /\ TypeOK /\ conn \in [Connections -> Conns]
      /\ attach \in [Connections -> Attachments]
      /\ restored \in [Children -> Restorations]
      /\ forward \in [Children -> Forwards]
  BY DEF IInv, TypeOK
<1>1. UNCHANGED <<attach, timeout, pendingRoutes,
                  downstreamRoutes, cleanup, store,
                  janitor, restored, manager>>
  BY DEF RemoveStops, connVars, attachOnly
<1>2. forward[x].of \in Maybe
  BY <1>0 DEF Forwards
<1>3. /\ conn' \in [Connections -> Conns]
      /\ \A d \in Connections :
           /\ conn'[d].child = conn[d].child
           /\ conn'[d].attached = conn[d].attached
           /\ conn'[d].state =
                IF d = forward[x].of THEN "stopped" ELSE conn[d].state
  BY <1>0, <1>2, StopSet DEF RemoveStops
<1>4. /\ forward' \in [Children -> Forwards]
      /\ \A y \in Children : y # x => forward'[y] = forward[y]
      /\ forward'[x].of = 0 /\ forward[x].at = "stopping"
  BY <1>0, Bounds, ForwardSet DEF RemoveStops
<1>5. TypeOK'
  BY <1>0, <1>1, <1>2, <1>3, <1>4, Bounds DEF TypeOK, Controlled
<1>6. Owned'
  BY <1>1, <1>2, <1>3, <1>4, Bounds DEF IInv, Owned, PendingOwned,
     RouteOwned, CleanupOwned, RestoreOwned
<1>7. Born'
  BY <1>1, <1>2, <1>3, <1>4, Bounds DEF IInv, Born
<1>8. OneWay'
  BY <1>1, <1>2, <1>3, <1>4, Bounds DEF IInv, OneWay, Attaching, Coming,
     Routed, Leaving, Pending, Restoring
<1>9. QED
  BY <1>5, <1>6, <1>7, <1>8 DEF IInv

(* Its entry is deleted.                                                   *)
LEMMA RemoveDeletesKeeps ==
  ASSUME IInv, NEW x \in Children, RemoveDeletes(x)
  PROVE  IInv'
<1>0. /\ TypeOK /\ conn \in [Connections -> Conns]
      /\ attach \in [Connections -> Attachments]
      /\ restored \in [Children -> Restorations]
      /\ forward \in [Children -> Forwards]
  BY DEF IInv, TypeOK
<1>1. UNCHANGED <<conn, attach, timeout, pendingRoutes,
                  downstreamRoutes, cleanup, janitor,
                  restored, manager>>
  BY DEF RemoveDeletes, connVars, attachOnly
<1>2. store' \in [Children -> Entries]
  BY <1>0 DEF TypeOK, RemoveDeletes, Entries
<1>3. /\ forward' \in [Children -> Forwards]
      /\ \A y \in Children : y # x => forward'[y] = forward[y]
      /\ forward'[x].of = 0 /\ forward[x].at = "deleting"
  BY <1>0, Bounds, ForwardSet DEF RemoveDeletes
<1>4. TypeOK'
  BY <1>0, <1>1, <1>2, <1>3, Bounds DEF TypeOK, Controlled
<1>5. Owned'
  BY <1>1, <1>2, <1>3, Bounds DEF IInv, Owned, PendingOwned, RouteOwned,
     CleanupOwned, RestoreOwned
<1>6. Born'
  BY <1>1, <1>2, <1>3, Bounds DEF IInv, Born
<1>7. OneWay'
  BY <1>1, <1>2, <1>3, Bounds DEF IInv, OneWay, Attaching, Coming, Routed,
     Leaving, Pending, Restoring
<1>8. QED
  BY <1>4, <1>5, <1>6, <1>7 DEF IInv

(* A delayed stop.                                                         *)
LEMMA CleanupStopsKeeps ==
  ASSUME IInv, NEW c \in Connections, CleanupStops(c)
  PROVE  IInv'
<1>0. /\ TypeOK /\ conn \in [Connections -> Conns]
      /\ attach \in [Connections -> Attachments]
      /\ restored \in [Children -> Restorations]
      /\ forward \in [Children -> Forwards]
  BY DEF IInv, TypeOK
<1>1. UNCHANGED <<attach, timeout, pendingRoutes,
                  downstreamRoutes, store, janitor,
                  restored, forward, manager>>
  BY DEF CleanupStops, connVars, attachOnly
<1>2. /\ conn' \in [Connections -> Conns]
      /\ \A d \in Connections :
           /\ conn'[d].child = conn[d].child
           /\ conn'[d].attached = conn[d].attached
           /\ conn'[d].state =
                IF d = c THEN "stopped" ELSE conn[d].state
  BY <1>0, ConnSet DEF CleanupStops, Stopped
<1>3. /\ c \in cleanup.armed /\ cleanup' \in Cleanups
      /\ cleanup'.armed = cleanup.armed \ {c}
      /\ \A y \in Children :
           cleanup'.of[y] = IF cleanup.of[y] = c THEN 0 ELSE cleanup.of[y]
  BY <1>0, Bounds DEF TypeOK, CleanupStops, Cleanups
<1>4. Controlled'
  BY <1>0, <1>1, <1>2, <1>3, Bounds DEF IInv, TypeOK, Controlled, Owned,
     CleanupOwned
<1>5. TypeOK'
  BY <1>0, <1>4, <1>1, <1>2, <1>3, Bounds DEF TypeOK
<1>6. Owned'
  BY <1>1, <1>2, <1>3, Bounds DEF IInv, Owned, PendingOwned, RouteOwned,
     CleanupOwned, RestoreOwned
<1>7. Born'
  BY <1>1, <1>2, <1>3, Bounds DEF IInv, Born
<1>8. OneWay'
  BY <1>1, <1>2, <1>3, Bounds DEF IInv, OneWay, Attaching, Coming, Routed,
     Leaving, Pending, Restoring
<1>9. QED
  BY <1>5, <1>6, <1>7, <1>8 DEF IInv

(* An entry expires.                                                       *)
LEMMA EntryExpiresKeeps ==
  ASSUME IInv, NEW x \in Children, EntryExpires(x)
  PROVE  IInv'
<1>0. /\ TypeOK /\ conn \in [Connections -> Conns]
      /\ attach \in [Connections -> Attachments]
      /\ restored \in [Children -> Restorations]
      /\ forward \in [Children -> Forwards]
  BY DEF IInv, TypeOK
<1>1. UNCHANGED <<conn, attach, timeout, pendingRoutes,
                  downstreamRoutes, cleanup, janitor,
                  restored, forward, manager>>
  BY DEF EntryExpires, connVars, attachOnly
<1>2. store' \in [Children -> Entries]
  BY <1>0 DEF TypeOK, EntryExpires, Entries
<1>3. TypeOK'
  BY <1>0, <1>1, <1>2, Bounds DEF TypeOK, Controlled
<1>4. Owned'
  BY <1>1, <1>2, Bounds DEF IInv, Owned, PendingOwned, RouteOwned,
     CleanupOwned, RestoreOwned
<1>5. Born'
  BY <1>1, <1>2, Bounds DEF IInv, Born
<1>6. OneWay'
  BY <1>1, <1>2, Bounds DEF IInv, OneWay, Attaching, Coming, Routed,
     Leaving, Pending, Restoring
<1>7. QED
  BY <1>3, <1>4, <1>5, <1>6 DEF IInv

(* The janitor lists what has expired,                                     *)
LEMMA JanitorListsKeeps ==
  ASSUME IInv, JanitorLists
  PROVE  IInv'
<1>0. /\ TypeOK /\ conn \in [Connections -> Conns]
      /\ attach \in [Connections -> Attachments]
      /\ restored \in [Children -> Restorations]
      /\ forward \in [Children -> Forwards]
  BY DEF IInv, TypeOK
<1>1. UNCHANGED <<conn, attach, timeout, pendingRoutes,
                  downstreamRoutes, cleanup, store,
                  restored, forward, manager>>
  BY DEF JanitorLists, connVars, attachOnly
<1>2. janitor' \in Janitors /\ janitor'.stopping = janitor.stopping
  BY <1>0 DEF TypeOK, JanitorLists, Janitors
<1>3. TypeOK'
  BY <1>0, <1>1, <1>2, Bounds DEF TypeOK, Controlled
<1>4. Owned'
  BY <1>1, <1>2, Bounds DEF IInv, Owned, PendingOwned, RouteOwned,
     CleanupOwned, RestoreOwned
<1>5. Born'
  BY <1>1, <1>2, Bounds DEF IInv, Born
<1>6. OneWay'
  BY <1>1, <1>2, Bounds DEF IInv, OneWay, Attaching, Coming, Routed,
     Leaving, Pending, Restoring
<1>7. QED
  BY <1>3, <1>4, <1>5, <1>6 DEF IInv

(* takes the routes,                                                       *)
LEMMA JanitorTakesKeeps ==
  ASSUME IInv, NEW x \in Children, JanitorTakes(x)
  PROVE  IInv'
<1>0. /\ TypeOK /\ conn \in [Connections -> Conns]
      /\ attach \in [Connections -> Attachments]
      /\ restored \in [Children -> Restorations]
      /\ forward \in [Children -> Forwards]
  BY DEF IInv, TypeOK
<1>1. UNCHANGED <<conn, attach, timeout, pendingRoutes,
                  cleanup, store, restored, forward,
                  manager>>
  BY DEF JanitorTakes, connVars, attachOnly
<1>2. /\ downstreamRoutes[x] \in Maybe
      /\ downstreamRoutes' \in [Children -> Maybe]
      /\ \A y \in Children : downstreamRoutes'[y] =
           IF y = x THEN 0 ELSE downstreamRoutes[y]
  BY <1>0, Bounds DEF TypeOK, JanitorTakes
<1>3. janitor' \in Janitors /\ janitor'.stopping = downstreamRoutes[x]
  BY <1>0, <1>2 DEF TypeOK, JanitorTakes, Janitors, AfterTaking
<1>4. TypeOK'
  BY <1>0, <1>1, <1>2, <1>3, Bounds DEF TypeOK, Controlled
<1>5. Owned'
  BY <1>1, <1>2, <1>3, Bounds DEF IInv, Owned, PendingOwned, RouteOwned,
     CleanupOwned, RestoreOwned
<1>6. Born'
  BY <1>1, <1>2, <1>3, Bounds DEF IInv, Born, Owned, PendingOwned,
     RouteOwned, CleanupOwned, RestoreOwned
<1>7. OneWay'
  BY <1>1, <1>2, <1>3, Bounds DEF IInv, OneWay, Born, Owned, PendingOwned,
     RouteOwned, CleanupOwned, RestoreOwned, Attaching, Coming, Routed,
     Leaving, Pending, Restoring
<1>8. QED
  BY <1>4, <1>5, <1>6, <1>7 DEF IInv

(* stops their connectors                                                  *)
LEMMA JanitorStopsKeeps ==
  ASSUME IInv, NEW x \in Children, JanitorStops(x)
  PROVE  IInv'
<1>0. /\ TypeOK /\ conn \in [Connections -> Conns]
      /\ attach \in [Connections -> Attachments]
      /\ restored \in [Children -> Restorations]
      /\ forward \in [Children -> Forwards]
  BY DEF IInv, TypeOK
<1>1. UNCHANGED <<attach, timeout, pendingRoutes,
                  downstreamRoutes, cleanup, store,
                  restored, forward, manager>>
  BY DEF JanitorStops, connVars, attachOnly
<1>2. /\ conn' \in [Connections -> Conns]
      /\ \A d \in Connections :
           /\ conn'[d].child = conn[d].child
           /\ conn'[d].attached = conn[d].attached
           /\ conn'[d].state =
                IF d = janitor.stopping THEN "stopped" ELSE conn[d].state
  BY <1>0, ConnSet DEF JanitorStops, Stopped
<1>3. janitor' \in Janitors /\ janitor'.stopping = 0
  BY <1>0, Bounds DEF TypeOK, JanitorStops, Janitors
<1>4. TypeOK'
  BY <1>0, <1>1, <1>2, <1>3, Bounds DEF TypeOK, Controlled
<1>5. Owned'
  BY <1>1, <1>2, <1>3, Bounds DEF IInv, Owned, PendingOwned, RouteOwned,
     CleanupOwned, RestoreOwned
<1>6. Born'
  BY <1>1, <1>2, <1>3, Bounds DEF IInv, Born
<1>7. OneWay'
  BY <1>1, <1>2, <1>3, Bounds DEF IInv, OneWay, Attaching, Coming, Routed,
     Leaving, Pending, Restoring
<1>8. QED
  BY <1>4, <1>5, <1>6, <1>7 DEF IInv

(* and deletes their entries.                                              *)
LEMMA JanitorDeletesKeeps ==
  ASSUME IInv, NEW x \in Children, JanitorDeletes(x)
  PROVE  IInv'
<1>0. /\ TypeOK /\ conn \in [Connections -> Conns]
      /\ attach \in [Connections -> Attachments]
      /\ restored \in [Children -> Restorations]
      /\ forward \in [Children -> Forwards]
  BY DEF IInv, TypeOK
<1>1. UNCHANGED <<conn, attach, timeout, pendingRoutes,
                  downstreamRoutes, cleanup, restored,
                  forward, manager>>
  BY DEF JanitorDeletes, connVars, attachOnly
<1>2. store' \in [Children -> Entries]
  BY <1>0 DEF TypeOK, JanitorDeletes, Entries
<1>3. janitor' \in Janitors /\ janitor'.stopping = janitor.stopping
  BY <1>0 DEF TypeOK, JanitorDeletes, Janitors
<1>4. TypeOK'
  BY <1>0, <1>1, <1>2, <1>3, Bounds DEF TypeOK, Controlled
<1>5. Owned'
  BY <1>1, <1>2, <1>3, Bounds DEF IInv, Owned, PendingOwned, RouteOwned,
     CleanupOwned, RestoreOwned
<1>6. Born'
  BY <1>1, <1>2, <1>3, Bounds DEF IInv, Born
<1>7. OneWay'
  BY <1>1, <1>2, <1>3, Bounds DEF IInv, OneWay, Attaching, Coming, Routed,
     Leaving, Pending, Restoring
<1>8. QED
  BY <1>4, <1>5, <1>6, <1>7 DEF IInv

(* A route that cannot be restored.                                        *)
LEMMA RestoreFailsKeeps ==
  ASSUME IInv, NEW x \in Children, RestoreConnects(x),
         restored' = [restored EXCEPT ![x].at = "done"], UNCHANGED conn
  PROVE  IInv'
<1>0. /\ TypeOK /\ conn \in [Connections -> Conns]
      /\ attach \in [Connections -> Attachments]
      /\ restored \in [Children -> Restorations]
      /\ forward \in [Children -> Forwards]
  BY DEF IInv, TypeOK
<1>1. UNCHANGED <<conn, attach, timeout, pendingRoutes,
                  downstreamRoutes, cleanup, store,
                  janitor, forward, manager>>
  BY DEF RestoreConnects, connVars, attachOnly
<1>2. /\ restored' \in [Children -> Restorations]
      /\ \A y \in Children : y # x => restored'[y] = restored[y]
      /\ restored'[x].at = "done" /\ restored'[x].of = restored[x].of
      /\ restored'[x].expiry = "off"
  <2>1. restored[x] \in Restorations /\ restored[x].expiry = "off"
    BY <1>0 DEF RestoreConnects, IInv, Owned, RestoreOwned
  <2>2. [restored[x] EXCEPT !.at = "done"] \in Restorations
    BY <2>1 DEF Restorations
  <2>3. QED
    BY <1>0, <2>1, <2>2 DEF Restorations
<1>3. TypeOK'
  BY <1>0, <1>1, <1>2, Bounds DEF TypeOK, Controlled
<1>4. Owned'
  BY <1>1, <1>2, Bounds DEF IInv, Owned, PendingOwned, RouteOwned,
     CleanupOwned, RestoreOwned
<1>5. Born'
  BY <1>1, <1>2, Bounds DEF IInv, Born
<1>6. OneWay'
  BY <1>1, <1>2, Bounds DEF IInv, OneWay, Attaching, Coming, Routed,
     Leaving, Pending, Restoring
<1>7. QED
  BY <1>3, <1>4, <1>5, <1>6 DEF IInv

(* One that can.                                                           *)
LEMMA RestoreMakesKeeps ==
  ASSUME IInv, NEW x \in Children, RestoreConnects(x),
         NEW n \in Connections, conn[n].state = "none",
         conn' = [conn EXCEPT ![n].state = "open", ![n].child = x,
                              ![n].attached = TRUE],
         restored' = [restored EXCEPT ![x].at = "registering", ![x].of = n]
  PROVE  IInv'
<1>0. /\ TypeOK /\ conn \in [Connections -> Conns]
      /\ attach \in [Connections -> Attachments]
      /\ restored \in [Children -> Restorations]
      /\ forward \in [Children -> Forwards]
  BY DEF IInv, TypeOK
<1>1. UNCHANGED <<attach, timeout, pendingRoutes,
                  downstreamRoutes, cleanup, store,
                  janitor, forward, manager>>
  BY DEF RestoreConnects, connVars, attachOnly
<1>2. /\ conn' \in [Connections -> Conns]
      /\ \A d \in Connections : d # n => conn'[d] = conn[d]
      /\ conn'[n].state = "open" /\ conn'[n].child = x
      /\ conn'[n].attached = TRUE
      /\ conn[n].state = "none"
  <2>1. conn[n] \in Conns
    BY <1>0
  <2>2. [conn[n] EXCEPT !.state = "open", !.child = x, !.attached = TRUE]
          \in Conns
    BY <2>1 DEF Conns
  <2>3. QED
    BY <1>0, <2>1, <2>2 DEF Conns
<1>3. /\ restored' \in [Children -> Restorations]
      /\ \A y \in Children : y # x => restored'[y] = restored[y]
      /\ restored'[x].at = "registering" /\ restored'[x].of = n
      /\ restored'[x].expiry = "off"
  <2>1. restored[x] \in Restorations /\ restored[x].expiry = "off"
    BY <1>0 DEF RestoreConnects, IInv, Owned, RestoreOwned
  <2>2. [restored[x] EXCEPT !.at = "registering", !.of = n] \in Restorations
    BY <2>1, Bounds DEF Restorations
  <2>3. QED
    BY <1>0, <2>1, <2>2 DEF Restorations
<1>4. TypeOK'
  BY <1>0, <1>1, <1>2, <1>3, Bounds DEF TypeOK, Controlled
<1>5. Owned'
  BY <1>1, <1>2, <1>3, Bounds DEF IInv, Owned, PendingOwned, RouteOwned,
     CleanupOwned, RestoreOwned, Born
<1>6. Born'
  BY <1>1, <1>2, <1>3, Bounds DEF IInv, Born
<1>7. OneWay'
  BY <1>1, <1>2, <1>3, Bounds DEF IInv, OneWay, Born, Owned, PendingOwned,
     RouteOwned, CleanupOwned, RestoreOwned, Attaching, Coming, Routed,
     Leaving, Pending, Restoring
<1>8. QED
  BY <1>4, <1>5, <1>6, <1>7 DEF IInv

(* The two together.                                                       *)
LEMMA RestoreConnectsKeeps ==
  ASSUME IInv, NEW x \in Children, RestoreConnects(x)
  PROVE  IInv'
<1>1. CASE /\ restored' = [restored EXCEPT ![x].at = "done"]
           /\ UNCHANGED conn
  BY <1>1, RestoreFailsKeeps
<1>2. ASSUME NEW n \in Connections, conn[n].state = "none",
             conn' = [conn EXCEPT ![n].state = "open", ![n].child = x,
                                  ![n].attached = TRUE],
             restored' = [restored EXCEPT ![x].at = "registering",
                                          ![x].of = n]
      PROVE  IInv'
  BY <1>2, RestoreMakesKeeps
<1>3. QED
  BY <1>1, <1>2 DEF RestoreConnects, IsNext

(* The route that is restored is registered.                               *)
LEMMA RestoreRegistersKeeps ==
  ASSUME IInv, NEW x \in Children, RestoreRegisters(x)
  PROVE  IInv'
<1>0. /\ TypeOK /\ conn \in [Connections -> Conns]
      /\ attach \in [Connections -> Attachments]
      /\ restored \in [Children -> Restorations]
      /\ forward \in [Children -> Forwards]
  BY DEF IInv, TypeOK
<1>1. UNCHANGED <<conn, attach, timeout, pendingRoutes,
                  cleanup, store, janitor, forward,
                  manager>>
  BY DEF RestoreRegisters, connVars, attachOnly
<1>2. /\ restored[x].of \in Maybe /\ downstreamRoutes' \in [Children -> Maybe]
      /\ restored[x].at = "registering"
      /\ \A y \in Children : downstreamRoutes'[y] =
           IF y = x THEN restored[x].of ELSE downstreamRoutes[y]
  BY <1>0, Bounds DEF TypeOK, RestoreRegisters, Restorations
<1>3. /\ restored' \in [Children -> Restorations]
      /\ \A y \in Children : y # x => restored'[y] = restored[y]
      /\ restored'[x].at = "done" /\ restored'[x].of = 0
      /\ restored'[x].expiry \in {"off", "armed"}
  BY <1>0, Bounds DEF RestoreRegisters, Restorations
<1>4. TypeOK'
  BY <1>0, <1>1, <1>2, <1>3, Bounds DEF TypeOK, Controlled
<1>5. Owned'
  BY <1>1, <1>2, <1>3, Bounds DEF IInv, Owned, PendingOwned, RouteOwned,
     CleanupOwned, RestoreOwned, Born
<1>6. Born'
  BY <1>1, <1>2, <1>3, Bounds DEF IInv, Born
<1>7. OneWay'
  BY <1>1, <1>2, <1>3, Bounds DEF IInv, OneWay, Born, Owned, PendingOwned,
     RouteOwned, CleanupOwned, RestoreOwned, Attaching, Coming, Routed,
     Leaving, Pending, Restoring
<1>8. QED
  BY <1>4, <1>5, <1>6, <1>7 DEF IInv

(* Its expiry takes the route that there is now,                           *)
LEMMA LateExpiresKeeps ==
  ASSUME IInv, NEW x \in Children, LateExpires(x)
  PROVE  IInv'
<1>0. /\ TypeOK /\ conn \in [Connections -> Conns]
      /\ attach \in [Connections -> Attachments]
      /\ restored \in [Children -> Restorations]
      /\ forward \in [Children -> Forwards]
  BY DEF IInv, TypeOK
<1>1. UNCHANGED <<conn, attach, timeout, pendingRoutes,
                  cleanup, store, janitor, forward,
                  manager>>
  BY DEF LateExpires, connVars, attachOnly
<1>2. /\ downstreamRoutes[x] \in Maybe
      /\ downstreamRoutes' \in [Children -> Maybe]
      /\ \A y \in Children : downstreamRoutes'[y] =
           IF y = x THEN 0 ELSE downstreamRoutes[y]
  BY <1>0, Bounds DEF TypeOK, LateExpires
<1>3. /\ restored' \in [Children -> Restorations]
      /\ \A y \in Children : y # x => restored'[y] = restored[y]
      /\ restored'[x].at = restored[x].at
      /\ restored'[x].of = downstreamRoutes[x]
      /\ restored[x].expiry = "armed" /\ restored'[x].expiry = "stopping"
  <2>1. restored[x] \in Restorations /\ restored[x].expiry = "armed"
    BY <1>0 DEF LateExpires
  <2>2. [restored[x] EXCEPT !.expiry = "stopping", !.of = downstreamRoutes[x]]
          \in Restorations
    BY <1>2, <2>1 DEF Restorations
  <2>3. QED
    BY <1>0, <2>1, <2>2 DEF LateExpires, Restorations
<1>4. TypeOK'
  BY <1>0, <1>1, <1>2, <1>3, Bounds DEF TypeOK, Controlled
<1>5. Owned'
  BY <1>1, <1>2, <1>3, Bounds DEF IInv, Owned, PendingOwned, RouteOwned,
     CleanupOwned, RestoreOwned
<1>6. Born'
  BY <1>1, <1>2, <1>3, Bounds DEF IInv, Born, Owned, PendingOwned,
     RouteOwned, CleanupOwned, RestoreOwned
<1>7. OneWay'
  BY <1>1, <1>2, <1>3, Bounds DEF IInv, OneWay, Born, Owned, PendingOwned,
     RouteOwned, CleanupOwned, RestoreOwned, Attaching, Coming, Routed,
     Leaving, Pending, Restoring
<1>8. QED
  BY <1>4, <1>5, <1>6, <1>7 DEF IInv

(* stops its connector                                                     *)
LEMMA LateStopsKeeps ==
  ASSUME IInv, NEW x \in Children, LateStops(x)
  PROVE  IInv'
<1>0. /\ TypeOK /\ conn \in [Connections -> Conns]
      /\ attach \in [Connections -> Attachments]
      /\ restored \in [Children -> Restorations]
      /\ forward \in [Children -> Forwards]
  BY DEF IInv, TypeOK
<1>1. UNCHANGED <<attach, timeout, pendingRoutes,
                  downstreamRoutes, cleanup, store,
                  janitor, forward, manager>>
  BY DEF LateStops, connVars, attachOnly
<1>2. restored[x].of \in Maybe
  BY <1>0 DEF Restorations
<1>3. /\ conn' \in [Connections -> Conns]
      /\ \A d \in Connections :
           /\ conn'[d].child = conn[d].child
           /\ conn'[d].attached = conn[d].attached
           /\ conn'[d].state =
                IF d = restored[x].of THEN "stopped" ELSE conn[d].state
  BY <1>0, <1>2, StopSet DEF LateStops
<1>4. /\ restored' \in [Children -> Restorations]
      /\ \A y \in Children : y # x => restored'[y] = restored[y]
      /\ restored'[x].at = restored[x].at /\ restored'[x].of = 0
      /\ restored[x].expiry = "stopping" /\ restored'[x].expiry = "deleting"
  <2>1. restored[x] \in Restorations /\ restored[x].expiry = "stopping"
    BY <1>0 DEF LateStops
  <2>2. [restored[x] EXCEPT !.expiry = "deleting", !.of = 0] \in Restorations
    BY <2>1, Bounds DEF Restorations
  <2>3. QED
    BY <1>0, <2>1, <2>2 DEF LateStops, Restorations
<1>5. TypeOK'
  BY <1>0, <1>1, <1>2, <1>3, <1>4, Bounds DEF TypeOK, Controlled
<1>6. Owned'
  BY <1>1, <1>2, <1>3, <1>4, Bounds DEF IInv, Owned, PendingOwned,
     RouteOwned, CleanupOwned, RestoreOwned
<1>7. Born'
  BY <1>1, <1>2, <1>3, <1>4, Bounds DEF IInv, Born
<1>8. OneWay'
  BY <1>1, <1>2, <1>3, <1>4, Bounds DEF IInv, OneWay, Attaching, Coming,
     Routed, Leaving, Pending, Restoring
<1>9. QED
  BY <1>5, <1>6, <1>7, <1>8 DEF IInv

(* and deletes its entry.                                                  *)
LEMMA LateDeletesKeeps ==
  ASSUME IInv, NEW x \in Children, LateDeletes(x)
  PROVE  IInv'
<1>0. /\ TypeOK /\ conn \in [Connections -> Conns]
      /\ attach \in [Connections -> Attachments]
      /\ restored \in [Children -> Restorations]
      /\ forward \in [Children -> Forwards]
  BY DEF IInv, TypeOK
<1>1. UNCHANGED <<conn, attach, timeout, pendingRoutes,
                  downstreamRoutes, cleanup, janitor,
                  forward, manager>>
  BY DEF LateDeletes, connVars, attachOnly
<1>2. store' \in [Children -> Entries]
  BY <1>0 DEF TypeOK, LateDeletes, Entries
<1>3. /\ restored' \in [Children -> Restorations]
      /\ \A y \in Children : y # x => restored'[y] = restored[y]
      /\ restored'[x].at = restored[x].at /\ restored'[x].of = restored[x].of
      /\ restored'[x].expiry = "off"
  <2>1. restored[x] \in Restorations
    BY <1>0
  <2>2. [restored[x] EXCEPT !.expiry = "off"] \in Restorations
    BY <2>1 DEF Restorations
  <2>3. QED
    BY <1>0, <2>1, <2>2 DEF LateDeletes, Restorations
<1>4. TypeOK'
  BY <1>0, <1>1, <1>2, <1>3, Bounds DEF TypeOK, Controlled
<1>5. Owned'
  BY <1>1, <1>2, <1>3, Bounds DEF IInv, Owned, PendingOwned, RouteOwned,
     CleanupOwned, RestoreOwned
<1>6. Born'
  BY <1>1, <1>2, <1>3, Bounds DEF IInv, Born
<1>7. OneWay'
  BY <1>1, <1>2, <1>3, Bounds DEF IInv, OneWay, Attaching, Coming, Routed,
     Leaving, Pending, Restoring
<1>8. QED
  BY <1>4, <1>5, <1>6, <1>7 DEF IInv

(* The router stops.                                                       *)
LEMMA StopBeginsKeeps ==
  ASSUME IInv, StopBegins
  PROVE  IInv'
<1>0. /\ TypeOK /\ conn \in [Connections -> Conns]
      /\ attach \in [Connections -> Attachments]
      /\ restored \in [Children -> Restorations]
      /\ forward \in [Children -> Forwards]
  BY DEF IInv, TypeOK
<1>1. UNCHANGED <<conn, attach, timeout, pendingRoutes,
                  downstreamRoutes, cleanup, store,
                  janitor, restored, forward>>
  BY DEF StopBegins, connVars, attachOnly
<1>2. manager' = "aborted"
  BY DEF StopBegins
<1>3. TypeOK'
  BY <1>0, <1>1, <1>2, Bounds DEF TypeOK, Controlled
<1>4. Owned'
  BY <1>1, <1>2, Bounds DEF IInv, Owned, PendingOwned, RouteOwned,
     CleanupOwned, RestoreOwned
<1>5. Born'
  BY <1>1, <1>2, Bounds DEF IInv, Born
<1>6. OneWay'
  BY <1>1, <1>2, Bounds DEF IInv, OneWay, Attaching, Coming, Routed,
     Leaving, Pending, Restoring
<1>7. QED
  BY <1>3, <1>4, <1>5, <1>6 DEF IInv

(* The routes are stopped and forgotten,                                   *)
LEMMA StopRoutesKeeps ==
  ASSUME IInv, StopRoutes
  PROVE  IInv'
<1>0. /\ TypeOK /\ conn \in [Connections -> Conns]
      /\ attach \in [Connections -> Attachments]
      /\ restored \in [Children -> Restorations]
      /\ forward \in [Children -> Forwards]
  BY DEF IInv, TypeOK
<1>1. UNCHANGED <<attach, timeout, pendingRoutes, cleanup,
                  store, janitor, restored, forward>>
  BY DEF StopRoutes, connVars, attachOnly
<1>2. manager = "aborted" /\ manager' = "cleared"
  BY DEF StopRoutes
<1>3. /\ conn' \in [Connections -> Conns]
      /\ \A d \in Connections :
           /\ conn'[d].child = conn[d].child
           /\ conn'[d].attached = conn[d].attached
           /\ conn[d].state # "none" => conn'[d].state # "none"
           /\ conn'[d].state = "none" => conn[d].state = "none"
  <2>1. \A d \in Connections :
          conn'[d] \in {conn[d], [conn[d] EXCEPT !.state = "stopped"]}
    BY DEF StopRoutes
  <2>2. \A d \in Connections :
          conn[d] \in Conns /\ [conn[d] EXCEPT !.state = "stopped"] \in Conns
    BY <1>0 DEF Conns
  <2>3. conn' \in [Connections -> Conns]
    BY <2>1, <2>2 DEF StopRoutes
  <2>4. QED
    BY <2>1, <2>2, <2>3 DEF Conns
<1>4. /\ downstreamRoutes' \in [Children -> Maybe]
      /\ \A y \in Children : downstreamRoutes'[y] = 0
  BY Bounds DEF StopRoutes
<1>5. TypeOK'
  BY <1>0, <1>1, <1>2, <1>3, <1>4, Bounds DEF TypeOK, Controlled
<1>6. Owned'
  BY <1>1, <1>2, <1>3, <1>4, Bounds DEF IInv, Owned, PendingOwned,
     RouteOwned, CleanupOwned, RestoreOwned
<1>7. Born'
  BY <1>1, <1>2, <1>3, <1>4, Bounds DEF IInv, Born
<1>8. OneWay'
  BY <1>1, <1>2, <1>3, <1>4, Bounds DEF IInv, OneWay, Attaching, Coming,
     Routed, Leaving, Pending, Restoring
<1>9. QED
  BY <1>5, <1>6, <1>7, <1>8 DEF IInv

(* then what is pending.                                                   *)
LEMMA StopPendingKeeps ==
  ASSUME IInv, StopPending
  PROVE  IInv'
<1>0. /\ TypeOK /\ conn \in [Connections -> Conns]
      /\ attach \in [Connections -> Attachments]
      /\ restored \in [Children -> Restorations]
      /\ forward \in [Children -> Forwards]
  BY DEF IInv, TypeOK
<1>1. UNCHANGED <<attach, downstreamRoutes, store, janitor,
                  restored, forward>>
  BY DEF StopPending, connVars, attachOnly
<1>2. manager = "cleared" /\ manager' = "stopped"
  BY DEF StopPending
<1>3. /\ conn' \in [Connections -> Conns]
      /\ \A d \in Connections :
           /\ conn'[d].child = conn[d].child
           /\ conn'[d].attached = conn[d].attached
           /\ conn[d].state # "none" => conn'[d].state # "none"
           /\ conn'[d].state = "none" => conn[d].state = "none"
  <2>1. \A d \in Connections :
          conn'[d] \in {conn[d], [conn[d] EXCEPT !.state = "stopped"]}
    BY DEF StopPending
  <2>2. \A d \in Connections :
          conn[d] \in Conns /\ [conn[d] EXCEPT !.state = "stopped"] \in Conns
    BY <1>0 DEF Conns
  <2>3. conn' \in [Connections -> Conns]
    BY <2>1, <2>2 DEF StopPending
  <2>4. QED
    BY <2>1, <2>2, <2>3 DEF Conns
<1>4. /\ pendingRoutes' \in [Children -> Maybe]
      /\ \A y \in Children : pendingRoutes'[y] = 0
  BY Bounds DEF StopPending
<1>5. /\ timeout' \in [Connections -> {"off", "armed", "fired", "stopping"}]
      /\ \A d \in Connections : timeout'[d] \in {timeout[d], "off"}
  BY <1>0 DEF TypeOK, StopPending
<1>6. /\ cleanup' \in Cleanups /\ cleanup'.armed = {}
      /\ \A y \in Children : cleanup'.of[y] = 0
  BY Bounds DEF StopPending, Cleanups
<1>7. Controlled'
  BY <1>0, <1>1, <1>2, <1>3, <1>4, <1>5, <1>6, Bounds DEF IInv, TypeOK,
     Controlled, Owned, CleanupOwned
<1>8. TypeOK'
  BY <1>0, <1>7, <1>1, <1>2, <1>3, <1>4, <1>5, <1>6, Bounds DEF TypeOK
<1>9. Owned'
  BY <1>1, <1>2, <1>3, <1>4, <1>5, <1>6, Bounds DEF IInv, Owned,
     PendingOwned, RouteOwned, CleanupOwned, RestoreOwned
<1>10. Born'
  BY <1>1, <1>2, <1>3, <1>4, <1>5, <1>6, Bounds DEF IInv, Born
<1>11. OneWay'
  BY <1>1, <1>2, <1>3, <1>4, <1>5, <1>6, Bounds DEF IInv, OneWay,
     Attaching, Coming, Routed, Leaving, Pending, Restoring
<1>12. QED
  BY <1>8, <1>9, <1>10, <1>11 DEF IInv

-----------------------------------------------------------------------------
(* The initial state.                                                      *)
LEMMA InitOK == Init => IInv
<1> SUFFICES ASSUME Init PROVE IInv
  OBVIOUS
<1>1. conn \in [Connections -> Conns]
  BY BoundAssumption DEF Init, Conns
<1>2. /\ attach \in [Connections -> Attachments]
      /\ timeout \in [Connections -> {"off", "armed", "fired", "stopping"}]
  BY Bounds DEF Init, Attachments
<1>3. restored \in [Children -> Restorations]
  BY Bounds DEF Init, Restorations
<1>4. forward \in [Children -> Forwards]
  BY Bounds, BoundAssumption DEF Init, Forwards
<1>5. /\ store \in [Children -> Entries] /\ manager = "running"
      /\ janitor \in Janitors /\ cleanup \in Cleanups
      /\ pendingRoutes \in [Children -> Maybe]
      /\ downstreamRoutes \in [Children -> Maybe]
  BY Bounds DEF Init, Entries, Janitors, Cleanups
<1>6. Controlled
  BY DEF Init, Controlled
<1>7. TypeOK
  BY <1>1, <1>2, <1>3, <1>4, <1>5, <1>6 DEF TypeOK
<1>8. Born
  BY Bounds DEF Init, Born
<1>9. Owned
  BY Bounds DEF Init, Owned, PendingOwned, RouteOwned, CleanupOwned,
     RestoreOwned
<1>10. OneWay
  BY Bounds DEF Init, OneWay, Attaching, Coming, Routed, Leaving, Pending,
     Restoring
<1>11. QED
  BY <1>7, <1>8, <1>9, <1>10 DEF IInv

(* Every step keeps the invariant.                                         *)
LEMMA IInvKept == IInv /\ [Next]_vars => IInv'
<1> SUFFICES ASSUME IInv, [Next]_vars PROVE IInv'
  OBVIOUS
<1>1. ASSUME NEW c \in Connections,
             \/ ConnectionLost(c) \/ AttachArrives(c) \/ AttachRejected(c)
             \/ AnnounceFails(c) \/ RejectedCloses(c) \/ AttachStep(c)
             \/ TimeoutStep(c) \/ CleanupStops(c)
      PROVE  IInv'
  BY <1>1, ConnectionLostKeeps, AttachArrivesKeeps, AttachRejectedKeeps,
     AnnounceFailsKeeps, RejectedClosesKeeps, AttachAcceptedKeeps,
     UnregisterKeeps, StopOldKeeps, DeleteOldEntryKeeps, RegisterKeeps,
     SendAckKeeps, StoreEntryKeeps, TimeoutFiresKeeps, TimeoutExpiresKeeps,
     TimeoutStopsKeeps, CleanupStopsKeeps DEF AttachStep, TimeoutStep
<1>2. ASSUME NEW x \in Children,
             \/ Connect(x) \/ ForwardFails(x) \/ RemoveStep(x)
             \/ EntryExpires(x) \/ JanitorStep(x) \/ RestoreStep(x)
             \/ LateStep(x)
      PROVE  IInv'
  BY <1>2, ConnectKeeps, ForwardFailsKeeps, RemoveRouteKeeps,
     RemoveStopsKeeps, RemoveDeletesKeeps, EntryExpiresKeeps,
     JanitorTakesKeeps, JanitorStopsKeeps, JanitorDeletesKeeps,
     RestoreConnectsKeeps, RestoreRegistersKeeps, LateExpiresKeeps,
     LateStopsKeeps, LateDeletesKeeps
     DEF RemoveStep, JanitorStep, RestoreStep, LateStep
<1>3. CASE JanitorLists \/ StopBegins \/ StopStep
  BY <1>3, JanitorListsKeeps, StopBeginsKeeps, StopRoutesKeeps,
     StopPendingKeeps DEF StopStep
<1>4. CASE UNCHANGED vars
  BY <1>4 DEF vars, connVars, IInv, TypeOK, Controlled, OneWay, Born, Owned,
     PendingOwned, RouteOwned, CleanupOwned, RestoreOwned, Coming, Routed,
     Leaving, Pending, Restoring
<1>5. QED
  BY <1>1, <1>2, <1>3, <1>4 DEF Next

(* The strengthened invariant holds whatever connects, expires, fails or   *)
(* is restored: a connector goes one way.                                  *)
THEOREM Inductive == Spec => []IInv
<1>1. QED
  BY InitOK, IInvKept, PTL DEF Spec

(* The table, its entries and the delayed stops are of their types: a stop *)
(* is armed for exactly the connectors whose controllers are kept.         *)
THEOREM TypeCorrect == Spec => []TypeOK
<1>1. IInv => TypeOK
  BY DEF IInv
<1>2. QED
  BY <1>1, Inductive, PTL

(* registerDownstreamRoute(), the attach timeout, the delayed clean-ups,   *)
(* the janitor and the late expiries: none of them stops the connector of  *)
(* a route in the table, for any number of children and connections.       *)
THEOREM RoutesAreAlive == Spec => []StoppedIsUnrouted
<1>1. IInv => StoppedIsUnrouted
  <2>1. SUFFICES ASSUME IInv, manager = "running", NEW x \in Children,
                        downstreamRoutes[x] # 0
                 PROVE  conn[downstreamRoutes[x]].state # "stopped"
    BY DEF StoppedIsUnrouted
  <2>2. downstreamRoutes[x] \in Connections
    BY <2>1, Bounds DEF IInv, TypeOK
  <2>3. QED
    BY <2>1, <2>2 DEF IInv, OneWay, Routed, Leaving
<1>2. QED
  BY <1>1, Inductive, PTL
=============================================================================
