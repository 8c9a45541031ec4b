----------------------------- MODULE RouteTable -----------------------------
(***************************************************************************)
(* How a router comes to have a route to each of its children, and loses   *)
(* it: the connections it admits (sentinel/sentinel.ts), the attachment    *)
(* they ask for (sentinel/node-attach-frame-handler.ts), the table, its    *)
(* clean-ups and its janitor (sentinel/route-manager.ts), the removal of a *)
(* route on which forwarding fails (sentinel/router.ts).  The table of     *)
(* peers is handled by the same code and is left out.                      *)
(*                                                                         *)
(* A connection is the number of its connector.  Its receive loop awaits   *)
(* its handler, so nothing more of it is handled while its attachment is;  *)
(* the attachments of several connections interleave at their awaits.      *)
(* routesLock is held across an await by the janitor alone; every other    *)
(* critical section is one step, enabled while the lock is free.           *)
(***************************************************************************)
EXTENDS Integers

CONSTANTS
  Children,       (* system ids                                            *)
  MaxConnections, (* bound on the connectors that are created              *)
  MaxFailures,    (* bound on the forwards that meet a closed connector    *)
  Delayed,        (* is cleanupDelayMs positive?                           *)
  Durable         (* does the configuration of the connectors say durable? *)

ASSUME BoundAssumption ==
  /\ Children # {}
  /\ MaxConnections \in Nat /\ MaxFailures \in Nat
  /\ Delayed \in BOOLEAN /\ Durable \in BOOLEAN

VARIABLES
  conn,          (* conn[c]: a connector, its child and its gate           *)
  attach,        (* attach[c]: the acceptNodeAttach() it waits for         *)
  timeout,       (* timeout[c]: its attach timeout                         *)
  pendingRoutes, (* _pending_routes with its metadata; 0 for no entry      *)
  downstreamRoutes, (* connector of a child; 0 for no entry                *)
  cleanup,       (* the delayed stops, and the controller of each child    *)
  store,         (* the durable entry of a child                           *)
  janitor,       (* janitorLoop(), child by child                          *)
  restored,      (* restoreRoutes() and the expiry that it arms            *)
  forward,       (* the removal of a route by a forward that failed        *)
  manager        (* "running", and the phases of stop()                    *)

connVars == <<conn, attach, timeout>>
vars == <<connVars, pendingRoutes, downstreamRoutes, cleanup, store, janitor,
          restored, forward, manager>>

Connections == 1 .. MaxConnections
Maybe       == 0 .. MaxConnections  (* a connector, or none                *)
Entries     == {"none", "valid", "expired"}

Conns == [state : {"none", "open", "gone", "stopped"}, child : Children,
          attached : BOOLEAN]
Attachments ==
  [at : {"idle", "validating", "unregistering", "stoppingOld",
         "deletingEntry", "announcing", "acking", "storing", "rejected",
         "done", "failed"}, old : Maybe]
Cleanups == [armed : SUBSET Connections, of : [Children -> Maybe]]
Janitors ==
  [at : [Children -> {"idle", "listed", "stopping", "deleting"}],
   stopping : Maybe]
Restorations ==
  [at : {"listed", "registering", "done"}, of : Maybe,
   expiry : {"off", "armed", "stopping", "deleting"}]
Forwards ==
  [at : {"idle", "removing", "stopping", "deleting"}, of : Maybe,
   failures : 0 .. MaxFailures]

(* A delayed stop is armed for those that a controller is kept for.        *)
Controlled == cleanup.armed = {cleanup.of[x] : x \in Children} \ {0}

TypeOK ==
  /\ conn \in [Connections -> Conns]
  /\ attach \in [Connections -> Attachments]
  /\ timeout \in [Connections -> {"off", "armed", "fired", "stopping"}]
  /\ pendingRoutes \in [Children -> Maybe]
  /\ downstreamRoutes \in [Children -> Maybe]
  /\ cleanup \in Cleanups /\ Controlled
  /\ store \in [Children -> Entries]
  /\ janitor \in Janitors
  /\ restored \in [Children -> Restorations]
  /\ forward \in [Children -> Forwards]
  /\ manager \in {"running", "aborted", "cleared", "stopped"}

(* The store is what an earlier life of the router has left; an entry that *)
(* is valid when start() lists the store is restored.                      *)
Init ==
  /\ conn = [c \in Connections |->
       [state |-> "none", child |-> CHOOSE x \in Children : TRUE,
        attached |-> FALSE]]
  /\ attach = [c \in Connections |-> [at |-> "idle", old |-> 0]]
  /\ timeout = [c \in Connections |-> "off"]
  /\ pendingRoutes = [x \in Children |-> 0]
  /\ downstreamRoutes = [x \in Children |-> 0]
  /\ cleanup = [armed |-> {}, of |-> [x \in Children |-> 0]]
  /\ store \in [Children -> IF Durable THEN Entries ELSE {"none"}]
  /\ janitor = [at |-> [x \in Children |-> "idle"], stopping |-> 0]
  /\ restored = [x \in Children |->
       [at |-> IF store[x] = "valid" THEN "listed" ELSE "done",
        of |-> 0, expiry |-> "off"]]
  /\ forward = [x \in Children |-> [at |-> "idle", of |-> 0, failures |-> 0]]
  /\ manager = "running"

LockFree == janitor.stopping = 0
Aborted  == manager # "running"
Stopped(c) == [conn EXCEPT ![c].state = "stopped"]
(* safeStop() of the connector that was found, if one was.                 *)
StoppedIfAny(c) == IF c = 0 THEN conn ELSE Stopped(c)
(* Connectors are created in the order of their numbers.                   *)
IsNext(c) == /\ conn[c].state = "none"
             /\ \A d \in 1 .. c - 1 : conn[d].state # "none"
-----------------------------------------------------------------------------
(* createOriginConnector() and the attach timeout.  The frames that the    *)
(* gated handler keeps until the attachment are left out: the receive loop *)
(* handles one frame at a time, so only the flush touches them.            *)

(* The entry of an earlier connection of the same child is overwritten.    *)
Connect(x) ==
  /\ ~Aborted
  /\ \E c \in Connections :
       /\ IsNext(c)
       /\ conn' = [conn EXCEPT ![c].state = "open", ![c].child = x]
       /\ timeout' = [timeout EXCEPT ![c] = "armed"]
       /\ pendingRoutes' = [pendingRoutes EXCEPT ![x] = c]
  /\ UNCHANGED <<attach, downstreamRoutes, cleanup, store, janitor, restored,
                 forward, manager>>

Listening(c) ==
  /\ conn[c].state = "open"
  /\ attach[c].at \in {"idle", "rejected", "done", "failed"}

TimeoutFires(c) ==
  /\ timeout[c] = "armed"
  /\ timeout' = [timeout EXCEPT ![c] = "fired"]
  /\ UNCHANGED <<conn, attach, pendingRoutes, downstreamRoutes, cleanup,
                 store, janitor, restored, forward, manager>>

(* A plausible slip: the timer does not ask, and stops its connector.      *)
StillPendingAssumed(c) == TRUE

(* Under the lock: is the entry that is pending still this connection's?   *)
StillPending(c) == pendingRoutes[conn[c].child] = c

TimeoutExpires(c) ==
  /\ timeout[c] = "fired" /\ LockFree
  /\ IF StillPending(c)
     THEN /\ pendingRoutes' = [pendingRoutes EXCEPT ![conn[c].child] = 0]
          /\ timeout' = [timeout EXCEPT ![c] = "stopping"]
     ELSE /\ timeout' = [timeout EXCEPT ![c] = "off"]
          /\ UNCHANGED pendingRoutes
  /\ UNCHANGED <<conn, attach, downstreamRoutes, cleanup, store, janitor,
                 restored, forward, manager>>

TimeoutStops(c) ==
  /\ timeout[c] = "stopping"
  /\ conn' = Stopped(c)
  /\ timeout' = [timeout EXCEPT ![c] = "off"]
  /\ UNCHANGED <<attach, pendingRoutes, downstreamRoutes, cleanup, store,
                 janitor, restored, forward, manager>>

(* The transport ends: the child has gone, or the network.                 *)
ConnectionLost(c) ==
  /\ conn[c].state = "open"
  /\ conn' = [conn EXCEPT ![c].state = "gone"]
  /\ UNCHANGED <<attach, timeout, pendingRoutes, downstreamRoutes, cleanup,
                 store, janitor, restored, forward, manager>>
-----------------------------------------------------------------------------
(* acceptNodeAttach().                                                     *)

At(c, at) == [attach EXCEPT ![c].at = at]
attachOnly == <<timeout, pendingRoutes, cleanup, janitor, restored, forward,
                manager>>

(* A NodeAttach takes the entry of its system id, whose connection may be  *)
(* another than the one it came by: then it throws, and the entry is lost. *)
AttachArrives(c) ==
  LET x == conn[c].child
      entry == pendingRoutes[x] IN
  /\ Listening(c) /\ attach[c].at = "idle" /\ ~conn[c].attached
  /\ attach' = At(c, IF entry = c THEN "validating" ELSE "failed")
  /\ pendingRoutes' = [pendingRoutes EXCEPT ![x] = 0]
  /\ timeout' = IF entry # 0 /\ timeout[entry] = "armed"
                THEN [timeout EXCEPT ![entry] = "off"] ELSE timeout
  /\ UNCHANGED <<conn, downstreamRoutes, cleanup, store, janitor, restored,
                 forward, manager>>

(* The keys are refused: a negative answer, and the connection is closed   *)
(* later by a task of its own.                                             *)
AttachRejected(c) ==
  /\ attach[c].at = "validating"
  /\ attach' = At(c, "rejected")
  /\ UNCHANGED <<conn, downstreamRoutes, store, attachOnly>>

RejectedCloses(c) ==
  /\ attach[c].at = "rejected" /\ conn[c].state = "open"
  /\ conn' = Stopped(c)
  /\ UNCHANGED <<attach, downstreamRoutes, store, attachOnly>>

(* The gate opens, and what was buffered is delivered; a delivery that     *)
(* throws ends the attachment, with the gate open and no route.            *)
AttachAccepted(c) ==
  /\ attach[c].at = "validating"
  /\ conn' = [conn EXCEPT ![c].attached = TRUE]
  /\ attach' \in {At(c, IF downstreamRoutes[conn[c].child] # 0
                        THEN "unregistering" ELSE "announcing"),
                  At(c, "failed")}
  /\ UNCHANGED <<downstreamRoutes, store, attachOnly>>

(* unregisterDownstreamRoute() with a delay of zero: the old connector is  *)
(* stopped, its entry deleted, and only then the new one announced.        *)
Unregister(c) ==
  LET x == conn[c].child IN
  /\ attach[c].at = "unregistering" /\ LockFree
  /\ downstreamRoutes' = [downstreamRoutes EXCEPT ![x] = 0]
  /\ attach' = [attach EXCEPT ![c] = [at |-> "stoppingOld",
                                      old |-> downstreamRoutes[x]]]
  /\ UNCHANGED <<conn, store, attachOnly>>

StopOld(c) ==
  /\ attach[c].at = "stoppingOld"
  /\ conn' = StoppedIfAny(attach[c].old)
  /\ attach' = [attach EXCEPT ![c] = [at |-> "deletingEntry", old |-> 0]]
  /\ UNCHANGED <<downstreamRoutes, store, attachOnly>>

DeleteOldEntry(c) ==
  /\ attach[c].at = "deletingEntry"
  /\ store' = [store EXCEPT ![conn[c].child] = "none"]
  /\ attach' = At(c, "announcing")
  /\ UNCHANGED <<conn, downstreamRoutes, attachOnly>>

(* onChildAttach throws: the gate is open and there is no route.           *)
AnnounceFails(c) ==
  /\ attach[c].at = "announcing"
  /\ attach' = At(c, "failed")
  /\ UNCHANGED <<conn, downstreamRoutes, store, attachOnly>>

(* registerDownstreamRoute(), when onChildAttach has returned.  The        *)
(* clean-up that is aborted was to stop the connector before: it is left.  *)
CancelCleanup(x) ==
  [cleanup EXCEPT !.armed = @ \ {cleanup.of[x]}, !.of[x] = 0]

Register(c) ==
  LET x == conn[c].child IN
  /\ attach[c].at = "announcing" /\ LockFree
  /\ cleanup' = CancelCleanup(x)
  /\ downstreamRoutes' = [downstreamRoutes EXCEPT ![x] = c]
  /\ attach' = At(c, "acking")
  /\ UNCHANGED <<conn, timeout, pendingRoutes, store, janitor, restored,
                 forward, manager>>

(* The answer: the route stays when sending it fails.                      *)
SendAck(c) ==
  /\ attach[c].at = "acking"
  /\ \/ /\ conn[c].state = "open"
        /\ attach' = At(c, IF Durable THEN "storing" ELSE "done")
     \/ attach' = At(c, "failed")
  /\ UNCHANGED <<conn, downstreamRoutes, store, attachOnly>>

StoreEntry(c) ==
  /\ attach[c].at = "storing"
  /\ store' = [store EXCEPT ![conn[c].child] = "valid"]
  /\ attach' = At(c, "done")
  /\ UNCHANGED <<conn, downstreamRoutes, attachOnly>>
-----------------------------------------------------------------------------
(* removeRoute() by a forward, and the delayed stop of what it removes.    *)

Forward(x, at, of) == [forward EXCEPT ![x].at = at, ![x].of = of]

(* The send is refused by the connector that is in the table now; the      *)
(* removal asks for the lock later, and by the name of the child.          *)
ForwardFails(x) ==
  LET c == downstreamRoutes[x] IN
  /\ forward[x].at = "idle" /\ forward[x].failures < MaxFailures
  /\ c # 0 /\ conn[c].state # "open"
  /\ forward' = [forward EXCEPT ![x].at = "removing", ![x].failures = @ + 1]
  /\ UNCHANGED <<connVars, pendingRoutes, downstreamRoutes, cleanup, store,
                 janitor, restored, manager>>

RemoveRoute(x) ==
  LET c == downstreamRoutes[x] IN
  /\ forward[x].at = "removing" /\ LockFree
  /\ downstreamRoutes' = [downstreamRoutes EXCEPT ![x] = 0]
  /\ IF Delayed /\ c # 0
     THEN /\ cleanup' = [armed |-> (cleanup.armed \ {cleanup.of[x]}) \cup {c},
                         of |-> [cleanup.of EXCEPT ![x] = c]]
          /\ forward' = Forward(x, "deleting", 0)
     ELSE /\ forward' = Forward(x, "stopping", c)
          /\ UNCHANGED cleanup
  /\ UNCHANGED <<connVars, pendingRoutes, store, janitor, restored, manager>>

RemoveStops(x) ==
  /\ forward[x].at = "stopping"
  /\ conn' = StoppedIfAny(forward[x].of)
  /\ forward' = Forward(x, "deleting", 0)
  /\ UNCHANGED <<attach, timeout, pendingRoutes, downstreamRoutes, cleanup,
                 store, janitor, restored, manager>>

RemoveDeletes(x) ==
  /\ forward[x].at = "deleting"
  /\ store' = [store EXCEPT ![x] = "none"]
  /\ forward' = Forward(x, "idle", 0)
  /\ UNCHANGED <<connVars, pendingRoutes, downstreamRoutes, cleanup, janitor,
                 restored, manager>>

CleanupStops(c) ==
  /\ c \in cleanup.armed
  /\ conn' = Stopped(c)
  /\ cleanup' = [armed |-> cleanup.armed \ {c},
                 of |-> [x \in Children |-> IF cleanup.of[x] = c THEN 0
                                            ELSE cleanup.of[x]]]
  /\ UNCHANGED <<attach, timeout, pendingRoutes, downstreamRoutes, store,
                 janitor, restored, forward, manager>>
-----------------------------------------------------------------------------
(* Time, and the janitor.                                                  *)

(* attachExpiresAt passes; that of an entry without one never does.        *)
EntryExpires(x) ==
  /\ store[x] = "valid"
  /\ store' = [store EXCEPT ![x] = "expired"]
  /\ UNCHANGED <<connVars, pendingRoutes, downstreamRoutes, cleanup, janitor,
                 restored, forward, manager>>

(* start() has restored the routes before it spawns the janitor.           *)
JanitorLists ==
  /\ ~Aborted
  /\ \A x \in Children : janitor.at[x] = "idle" /\ restored[x].at = "done"
  /\ \E x \in Children : store[x] = "expired"
  /\ janitor' = [janitor EXCEPT !.at =
       [x \in Children |-> IF store[x] = "expired" THEN "listed" ELSE "idle"]]
  /\ UNCHANGED <<connVars, pendingRoutes, downstreamRoutes, cleanup, store,
                 restored, forward, manager>>

(* A plausible slip: without a route there is nothing to do.               *)
AfterTakingRoute(c) == IF c # 0 THEN "stopping" ELSE "idle"

AfterTaking(c) == IF c # 0 THEN "stopping" ELSE "deleting"

JanitorTakes(x) ==
  LET c == downstreamRoutes[x] IN
  /\ janitor.at[x] = "listed" /\ LockFree
  /\ downstreamRoutes' = [downstreamRoutes EXCEPT ![x] = 0]
  /\ janitor' = [at |-> [janitor.at EXCEPT ![x] = AfterTaking(c)],
                 stopping |-> c]
  /\ UNCHANGED <<connVars, pendingRoutes, cleanup, store, restored, forward,
                 manager>>

JanitorStops(x) ==
  /\ janitor.at[x] = "stopping"
  /\ conn' = Stopped(janitor.stopping)
  /\ janitor' = [at |-> [janitor.at EXCEPT ![x] = "deleting"], stopping |-> 0]
  /\ UNCHANGED <<attach, timeout, pendingRoutes, downstreamRoutes, cleanup,
                 store, restored, forward, manager>>

JanitorDeletes(x) ==
  /\ janitor.at[x] = "deleting"
  /\ store' = [store EXCEPT ![x] = "none"]
  /\ janitor' = [janitor EXCEPT !.at[x] = "idle"]
  /\ UNCHANGED <<connVars, pendingRoutes, downstreamRoutes, cleanup, restored,
                 forward, manager>>
-----------------------------------------------------------------------------
(* restoreRoutes() and expireRouteLater().                                 *)

(* A restored connector is not gated.  One that cannot be created, after   *)
(* the retries of a transient error, is given up.                          *)
RestoreConnects(x) ==
  /\ restored[x].at = "listed"
  /\ \/ \E c \in Connections :
          /\ IsNext(c)
          /\ conn' = [conn EXCEPT ![c].state = "open", ![c].child = x,
                                  ![c].attached = TRUE]
          /\ restored' = [restored EXCEPT ![x].at = "registering",
                                          ![x].of = c]
     \/ /\ restored' = [restored EXCEPT ![x].at = "done"]
        /\ UNCHANGED conn
  /\ UNCHANGED <<attach, timeout, pendingRoutes, downstreamRoutes, cleanup,
                 store, janitor, forward, manager>>

(* Whatever route there is, of a child that was quicker, is overwritten.   *)
RestoreRegisters(x) ==
  /\ restored[x].at = "registering" /\ LockFree
  /\ downstreamRoutes' = [downstreamRoutes EXCEPT ![x] = restored[x].of]
  /\ \E expiry \in {"off", "armed"} :
       restored' = [restored EXCEPT ![x] = [at |-> "done", of |-> 0,
                                            expiry |-> expiry]]
  /\ UNCHANGED <<connVars, pendingRoutes, cleanup, store, janitor, forward,
                 manager>>

(* The expiry takes the route that the child has now.                      *)
LateExpires(x) ==
  /\ restored[x].expiry = "armed" /\ ~Aborted /\ LockFree
  /\ downstreamRoutes' = [downstreamRoutes EXCEPT ![x] = 0]
  /\ restored' = [restored EXCEPT ![x].expiry = "stopping",
                                  ![x].of = downstreamRoutes[x]]
  /\ UNCHANGED <<connVars, pendingRoutes, cleanup, store, janitor, forward,
                 manager>>

LateStops(x) ==
  /\ restored[x].expiry = "stopping"
  /\ conn' = StoppedIfAny(restored[x].of)
  /\ restored' = [restored EXCEPT ![x].expiry = "deleting", ![x].of = 0]
  /\ UNCHANGED <<attach, timeout, pendingRoutes, downstreamRoutes, cleanup,
                 store, janitor, forward, manager>>

LateDeletes(x) ==
  /\ restored[x].expiry = "deleting"
  /\ store' = [store EXCEPT ![x] = "none"]
  /\ restored' = [restored EXCEPT ![x].expiry = "off"]
  /\ UNCHANGED <<connVars, pendingRoutes, downstreamRoutes, cleanup, janitor,
                 forward, manager>>
-----------------------------------------------------------------------------
(* stop(): abort, stop and forget the routes, stop and forget what is      *)
(* pending, and cancel the delayed stops.                                  *)

StopBegins ==
  /\ manager = "running" /\ \A x \in Children : restored[x].at = "done"
  /\ manager' = "aborted"
  /\ UNCHANGED <<connVars, pendingRoutes, downstreamRoutes, cleanup, store,
                 janitor, restored, forward>>

StopRoutes ==
  LET routed == {downstreamRoutes[x] : x \in Children} IN
  /\ manager = "aborted" /\ LockFree
  /\ conn' = [c \in Connections |->
       IF c \in routed THEN [conn[c] EXCEPT !.state = "stopped"] ELSE conn[c]]
  /\ downstreamRoutes' = [x \in Children |-> 0]
  /\ manager' = "cleared"
  /\ UNCHANGED <<attach, timeout, pendingRoutes, cleanup, store, janitor,
                 restored, forward>>

StopPending ==
  LET pending == {pendingRoutes[x] : x \in Children} IN
  /\ manager = "cleared"
  /\ conn' = [c \in Connections |->
       IF c \in pending THEN [conn[c] EXCEPT !.state = "stopped"] ELSE conn[c]]
  /\ timeout' = [c \in Connections |->
       IF c \in pending /\ timeout[c] = "armed" THEN "off" ELSE timeout[c]]
  /\ pendingRoutes' = [x \in Children |-> 0]
  /\ cleanup' = [armed |-> {}, of |-> [x \in Children |-> 0]]
  /\ manager' = "stopped"
  /\ UNCHANGED <<attach, downstreamRoutes, store, janitor, restored, forward>>
-----------------------------------------------------------------------------
AttachStep(c) ==
  \/ AttachAccepted(c) \/ Unregister(c) \/ StopOld(c) \/ DeleteOldEntry(c)
  \/ Register(c) \/ SendAck(c) \/ StoreEntry(c)
TimeoutStep(c) == TimeoutFires(c) \/ TimeoutExpires(c) \/ TimeoutStops(c)
RemoveStep(x)  == RemoveRoute(x) \/ RemoveStops(x) \/ RemoveDeletes(x)
JanitorStep(x) == JanitorTakes(x) \/ JanitorStops(x) \/ JanitorDeletes(x)
RestoreStep(x) == RestoreConnects(x) \/ RestoreRegisters(x)
LateStep(x)    == LateExpires(x) \/ LateStops(x) \/ LateDeletes(x)
StopStep       == StopRoutes \/ StopPending

Next ==
  \/ \E c \in Connections :
       \/ ConnectionLost(c) \/ AttachArrives(c)
       \/ AttachRejected(c) \/ AnnounceFails(c) \/ RejectedCloses(c)
       \/ AttachStep(c) \/ TimeoutStep(c) \/ CleanupStops(c)
  \/ \E x \in Children :
       \/ Connect(x) \/ ForwardFails(x) \/ RemoveStep(x) \/ EntryExpires(x)
       \/ JanitorStep(x) \/ RestoreStep(x) \/ LateStep(x)
  \/ JanitorLists \/ StopBegins \/ StopStep

Spec == Init /\ [][Next]_vars

(* Timers fire, and what is awaited returns: the keys are checked, a       *)
(* connector stops, the store answers.                                     *)
Fairness ==
  /\ \A c \in Connections :
       /\ WF_vars(AttachStep(c) \/ AttachRejected(c))
       /\ WF_vars(TimeoutStep(c)) /\ WF_vars(CleanupStops(c))
       /\ WF_vars(RejectedCloses(c))
  /\ \A x \in Children :
       /\ WF_vars(RemoveStep(x)) /\ WF_vars(JanitorStep(x))
       /\ WF_vars(RestoreStep(x)) /\ WF_vars(LateStep(x))
  /\ WF_vars(JanitorLists) /\ WF_vars(StopStep)

FairSpec == Spec /\ Fairness
-----------------------------------------------------------------------------
(* A connector that this router has stopped is in nobody's reach: neither  *)
(* the attach timeout nor a delayed clean-up nor a rebind stops the        *)
(* connector of a route that is in the table, whatever else happens to the *)
(* same child in between.                                                  *)
StoppedIsUnrouted ==
  manager = "running" =>
    \A x \in Children :
      downstreamRoutes[x] # 0 => conn[downstreamRoutes[x]].state # "stopped"

(* An attachment that has expired does not stay: its entry leaves the      *)
(* store, even when start() is still restoring and while its child comes   *)
(* and goes.                                                               *)
ExpiredLeaves ==
  \A x \in Children : store[x] = "expired" ~> (store[x] # "expired" \/ Aborted)
=============================================================================
