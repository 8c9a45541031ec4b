------------------------------ MODULE RpcCalls ------------------------------
(***************************************************************************)
(* Remote calls of one node: node/rpc-client-manager.ts with the listener  *)
(* for replies that it binds (node/envelope-listener-manager.ts), a        *)
(* service that answers (node/rpc-server-handler.ts, node/streaming-       *)
(* response-handler.ts), and the node's stop().                            *)
(*                                                                         *)
(* A call expects one reply or a stream of them; the handler of a service  *)
(* may make a call of its own before it answers.  The service may be on    *)
(* this node, whose stop() then waits for it, or behind a network that     *)
(* loses messages and repeats requests; the model allows both at once.     *)
(* Messages of one sender to one address stay in order.  A reply is taken  *)
(* from its channel and handled in one step.                               *)
(***************************************************************************)
EXTENDS Integers, Sequences, FiniteSets

CONSTANTS
  Calls,    (* request ids                                                 *)
  Streams,  (* the calls made with invokeStream()                          *)
  Inner,    (* Inner[c]: the call that the handler of c makes, or NoCall   *)
  NoCall,
  Items,    (* what a handler that streams yields before it returns        *)
  Paths,    (* physical paths that an attachment may give the node         *)
  NoPath,
  MaxFaults (* bound on lost, refused and repeated messages, restarts of   *)
            (* the service and attachments elsewhere                       *)

ASSUME CallAssumption ==
  /\ Streams \subseteq Calls /\ NoCall \notin Calls
  /\ Inner \in [Calls -> (Calls \ Streams) \cup {NoCall}]
ASSUME PathAssumption  == Paths # {} /\ NoPath \notin Paths
ASSUME FaultAssumption == Items \in Nat /\ MaxFaults \in Nat

VARIABLES
  path,       (* physicalPath of the node                                  *)
  listener,   (* bound, at, reply: rpcBound, boundPhysicalPath and         *)
              (* rpcReplyAddress; slot: its entry in listeners             *)
  loops,      (* the reply addresses whose channel a loop polls            *)
  caller,     (* caller[c]: where invoke() is, the path it has read        *)
  pending, byEnvelope, (* keys of pending and values of pendingByEnvelopeId *)
  timers,     (* the calls whose timer runs                                *)
  replyTo,    (* replyTo[c]: the reply address of the request              *)
  promise,    (* promise[c] of a call with one reply                       *)
  stream,     (* stream[c]: queue, waits (pendingResolver), completed      *)
  requests,   (* channel of the service; Stop is the null of its listener  *)
  service,    (* its poll loop: where it is, its request, items sent       *)
  replies,    (* replies[p]: the channel of the reply address at p         *)
  life,       (* stop() of the node                                        *)
  faults,
  got,        (* history: the items that the consumer of c has received    *)
  verdict,    (* history: how the stream has ended for its consumer        *)
  hit,        (* history: the calls that lost a message                    *)
  fresh,      (* history: calls begun since the path changed last          *)
  raced       (* history: the path changed while a call was binding        *)

binding == <<path, listener, loops, fresh, raced>>
entries == <<pending, byEnvelope, timers, promise, stream>>
server  == <<requests, service>>
network == <<replies, faults, hit>>
reader  == <<got, verdict>>
rpcVars == <<binding, caller, entries, replyTo, server, network, life, reader>>

Singles == Calls \ Streams
Stop    == NoCall
End     == 0  (* null in place of an item *)
Failure == -1 (* an error *)
Yields  == 1 .. Items
Queued  == Yields \cup {End, Failure}
CallPlaces == {"idle", "listening", "bound", "tracking", "delivering",
               "returned", "failed"}
Kinds   == {"ack", "nack", "result", "item", "end", "error"}
Replies == [call : Calls, kind : Kinds, item : 0 .. Items]

RpcTypeOK ==
  /\ path \in Paths /\ loops \subseteq Paths
  /\ listener \in [bound : BOOLEAN, at : Paths \cup {NoPath},
                   reply : Paths \cup {NoPath}, slot : Paths \cup {NoPath}]
  /\ caller \in [Calls -> [at : CallPlaces, path : Paths \cup {NoPath}]]
  /\ pending \subseteq Calls /\ byEnvelope \subseteq Calls
  /\ timers \subseteq Calls
  /\ replyTo \in [Calls -> Paths \cup {NoPath}]
  /\ promise \in [Calls -> {"open", "resolved", "rejected"}]
  /\ stream \in [Calls -> [queue : Seq(Queued), waits : BOOLEAN,
                          completed : BOOLEAN]]
  /\ requests \in Seq(Calls \cup {Stop})
  /\ service \in [at : {"idle", "calling", "awaiting", "answering", "ended"},
                  call : Calls \cup {NoCall}, sent : 0 .. Items]
  /\ replies \in [Paths -> Seq(Replies)]
  /\ life \in {"up", "stopping", "draining", "down"}
  /\ faults \in 0 .. MaxFaults
  /\ got \in [Calls -> Seq(Yields)]
  /\ verdict \in [Calls -> {"open", "end", "error", "left"}]
  /\ hit \subseteq Calls /\ fresh \subseteq Calls /\ raced \in BOOLEAN

RpcInit ==
  /\ path = CHOOSE p \in Paths : TRUE
  /\ loops = {}
  /\ listener = [bound |-> FALSE, at |-> NoPath, reply |-> NoPath,
                 slot |-> NoPath]
  /\ caller = [c \in Calls |-> [at |-> "idle", path |-> NoPath]]
  /\ pending = {} /\ byEnvelope = {} /\ timers = {}
  /\ replyTo = [c \in Calls |-> NoPath]
  /\ promise = [c \in Calls |-> "open"]
  /\ stream = [c \in Calls |->
       [queue |-> <<>>, waits |-> FALSE, completed |-> FALSE]]
  /\ requests = <<>>
  /\ service = [at |-> "idle", call |-> NoCall, sent |-> 0]
  /\ replies = [p \in Paths |-> <<>>]
  /\ life = "up" /\ faults = 0
  /\ got = [c \in Calls |-> <<>>] /\ verdict = [c \in Calls |-> "open"]
  /\ hit = {} /\ fresh = {} /\ raced = FALSE

At(c, place) == caller[c].at = place
GoesTo(c, place) == caller' = [caller EXCEPT ![c].at = place]

(* invoke() has returned and its promise is settled, or it has thrown.     *)
Done(c) ==
  \/ At(c, "failed")
  \/ At(c, "returned") /\ (c \in Streams \/ promise[c] # "open")
-----------------------------------------------------------------------------
(* The reply listener: ensureReplyListener() and listen().                 *)

(* A plausible slip: bound once, bound for ever.                           *)
ListensHereOnce == listener.bound

ListensHere == listener.bound /\ listener.at = path

(* Up to the lock of the listeners.  The reply address is taken at once;   *)
(* bind() of a physical address asks nobody, and the new loop starts.      *)
Begin(c) ==
  /\ At(c, "idle") /\ life # "down"
  /\ \/ /\ \A outer \in Calls : Inner[outer] # c
        /\ UNCHANGED service
     \/ /\ service.at = "calling" /\ Inner[service.call] = c
        /\ service' = [service EXCEPT !.at = "awaiting"]
  /\ fresh' = fresh \cup {c}
  /\ IF ListensHere
     THEN /\ caller' = [caller EXCEPT ![c] = [at |-> "bound", path |-> NoPath]]
          /\ UNCHANGED <<listener, loops>>
     ELSE /\ caller' = [caller EXCEPT
               ![c] = [at |-> "listening", path |-> path]]
          /\ listener' = [listener EXCEPT !.reply = path]
          /\ loops' = loops \cup {path}
  /\ UNCHANGED <<path, raced, entries, replyTo, requests, network, life,
                 reader>>

(* With the lock, which stop() holds while it waits for the listeners: the *)
(* loop that is replaced empties its channel and ends.                     *)
ListenReturns(c) ==
  LET old == listener.slot
      new == caller[c].path
  IN
  /\ At(c, "listening") /\ life \in {"up", "down"}
  /\ old \in loops /\ old # new => replies[old] = <<>>
  /\ loops' = (loops \ {old}) \cup {new}
  /\ listener' = [listener EXCEPT !.bound = TRUE, !.at = new, !.slot = new]
  /\ caller' = [caller EXCEPT ![c] = [at |-> "bound", path |-> NoPath]]
  /\ UNCHANGED <<path, fresh, raced, entries, replyTo, server, network, life,
                 reader>>

(* handleAttach(): the node is attached elsewhere.                         *)
Reattach(p) ==
  /\ p # path /\ life = "up"
  /\ faults < MaxFaults /\ faults' = faults + 1
  /\ path' = p
  /\ fresh' = {}
  /\ raced' = (raced \/ \E c \in Calls : At(c, "listening"))
  /\ UNCHANGED <<listener, loops, caller, entries, replyTo, server, replies,
                 hit, life, reader>>
-----------------------------------------------------------------------------
(* The entry of a call, and the iterator of a stream.                      *)

(* A plausible slip: the index by envelope is forgotten.                   *)
ForgetOne(c) == pending' = pending \ {c} /\ UNCHANGED byEnvelope

Forget(c) == pending' = pending \ {c} /\ byEnvelope' = byEnvelope \ {c}

Settle(c, outcome) ==
  /\ promise' = [promise EXCEPT ![c] = outcome]
  /\ timers' = timers \ {c}
  /\ Forget(c)
  /\ UNCHANGED <<stream, reader>>

(* What a consumer that waits in next() receives.                          *)
Receives(c, x) ==
  IF x \in Yields
  THEN got' = [got EXCEPT ![c] = Append(@, x)] /\ UNCHANGED verdict
  ELSE verdict' = [verdict EXCEPT ![c] =
         IF @ # "open" THEN @ ELSE IF x = End THEN "end" ELSE "error"]
       /\ UNCHANGED got

(* A plausible slip: the end of a stream discards what is buffered.        *)
AddedLast(queue, x) == IF x \in Yields THEN Append(queue, x) ELSE <<x>>

Added(queue, x) == Append(queue, x)

(* push() and end(): to the consumer that waits, or to the queue.          *)
Hand(c, x) ==
  /\ stream' = [stream EXCEPT ![c] =
       [queue     |-> IF @.waits THEN <<>> ELSE Added(@.queue, x),
        waits     |-> FALSE,
        completed |-> x \notin Yields]]
  /\ IF stream[c].waits THEN Receives(c, x) ELSE UNCHANGED reader

CloseStream(c, x) ==
  /\ Hand(c, x)
  /\ timers' = timers \ {c}
  /\ Forget(c)
  /\ UNCHANGED promise

Reject(c) == IF c \in Singles THEN Settle(c, "rejected")
             ELSE CloseStream(c, Failure)

(* trackPendingRequest(), createStreamIterator(): entry and timer are set  *)
(* before the request is tracked and sent.                                 *)
Track(c) ==
  /\ At(c, "bound")
  /\ GoesTo(c, "tracking")
  /\ pending' = pending \cup {c} /\ byEnvelope' = byEnvelope \cup {c}
  /\ timers' = timers \cup {c}
  /\ replyTo' = [replyTo EXCEPT ![c] = listener.reply]
  /\ UNCHANGED <<binding, promise, stream, server, network, life, reader>>

Deliver(c) ==
  /\ At(c, "tracking")
  /\ GoesTo(c, "delivering")
  /\ requests' = Append(requests, c)
  /\ UNCHANGED <<binding, entries, replyTo, service, network, life, reader>>

(* The delivery returns, with an acknowledgement where one is required.    *)
DeliverReturns(c) ==
  /\ At(c, "delivering")
  /\ GoesTo(c, "returned")
  /\ UNCHANGED <<binding, entries, replyTo, server, network, life, reader>>

(* It throws, before or after the request has left: so does invoke(), and  *)
(* the entry stays until its timer fires.                                  *)
DeliverThrows(c) ==
  /\ At(c, "tracking") \/ At(c, "delivering")
  /\ GoesTo(c, "failed")
  /\ UNCHANGED <<binding, entries, replyTo, server, network, life, reader>>

Timeout(c) ==
  /\ c \in timers
  /\ Reject(c)
  /\ UNCHANGED <<binding, caller, replyTo, server, network, life>>

(* next(), by one consumer that waits for each answer before it asks again *)
(* and stops at the end.                                                   *)
NextItem(c) ==
  /\ c \in Streams /\ At(c, "returned")
  /\ verdict[c] = "open" /\ ~stream[c].waits
  /\ IF stream[c].queue # <<>>
     THEN /\ stream' = [stream EXCEPT ![c].queue = Tail(@)]
          /\ Receives(c, Head(stream[c].queue))
     ELSE /\ stream' = [stream EXCEPT ![c].waits = TRUE]
          /\ UNCHANGED reader
  /\ UNCHANGED <<binding, caller, pending, byEnvelope, timers, promise,
                 replyTo, server, network, life>>

(* return(), also while next() waits: the consumer has had enough.         *)
Leave(c) ==
  /\ c \in Streams /\ At(c, "returned") /\ verdict[c] = "open"
  /\ verdict' = [verdict EXCEPT ![c] = "left"]
  /\ IF stream[c].completed
     THEN UNCHANGED <<pending, byEnvelope, timers, stream>>
     ELSE /\ stream' = [stream EXCEPT
               ![c] = [queue |-> IF @.waits THEN <<>> ELSE Added(@.queue, End),
                       waits |-> FALSE, completed |-> TRUE]]
          /\ timers' = timers \ {c} /\ Forget(c)
  /\ UNCHANGED <<binding, caller, promise, replyTo, server, network, life,
                 got>>
-----------------------------------------------------------------------------
(* A reply reaches the listener: handleReplyEnvelope(), and before it, for *)
(* a nack, handleDeliveryNack().                                           *)

(* A plausible slip: an acknowledgement stops the timer as a reply does.   *)
StopsTimerAlways(kind) == TRUE

StopsTimer(kind) == kind # "ack"

Answer(c, kind, item) ==
  CASE kind \in {"nack", "error"} -> Reject(c)
    [] kind = "result" -> Settle(c, "resolved")
    [] kind = "end"    -> CloseStream(c, End)
    [] kind = "item"   -> /\ Hand(c, item)
                          /\ timers' = timers \ {c}
                          /\ UNCHANGED <<pending, byEnvelope, promise>>
    [] kind = "ack"    -> /\ timers' = IF StopsTimer(kind) THEN timers \ {c}
                                       ELSE timers
                          /\ UNCHANGED <<pending, byEnvelope, promise,
                                         stream, reader>>

HandleReply(p) ==
  /\ p \in loops /\ replies[p] # <<>>
  /\ replies' = [replies EXCEPT ![p] = Tail(@)]
  /\ LET m == Head(replies[p]) IN
       IF m.call \in pending THEN Answer(m.call, m.kind, m.item)
       ELSE UNCHANGED <<entries, reader>>
  /\ UNCHANGED <<binding, caller, replyTo, server, faults, hit, life>>
-----------------------------------------------------------------------------
(* The service.                                                            *)

Reply(c, kind, item) ==
  IF replyTo[c] = NoPath
  THEN hit' = hit \cup {c} /\ UNCHANGED replies
  ELSE /\ replies' = [replies EXCEPT ![replyTo[c]] =
            Append(@, [call |-> c, kind |-> kind, item |-> item])]
       /\ UNCHANGED hit

ServiceOnly == UNCHANGED <<binding, caller, entries, replyTo, faults, life,
                           reader>>

(* The request is taken and, with at-least-once delivery, acknowledged.    *)
TakeRequest ==
  /\ service.at = "idle" /\ requests # <<>> /\ Head(requests) # Stop
  /\ LET c == Head(requests) IN
       /\ service' = [at   |-> IF Inner[c] = NoCall THEN "answering"
                               ELSE "calling",
                      call |-> c, sent |-> 0]
       /\ Reply(c, "ack", 0)
  /\ requests' = Tail(requests)
  /\ ServiceOnly

(* The handler makes no call (when it runs again), or has its answer.      *)
HandlerGoesOn ==
  /\ \/ service.at = "calling" /\ ~At(Inner[service.call], "idle")
     \/ service.at = "awaiting" /\ Done(Inner[service.call])
  /\ service' = [service EXCEPT !.at = "answering"]
  /\ ServiceOnly /\ UNCHANGED <<requests, replies, hit>>

ServiceWaits == service' = [at |-> "idle", call |-> NoCall, sent |-> 0]

Returns ==
  /\ service.at = "answering" /\ service.call \in Singles
  /\ \E kind \in {"result", "error"} : Reply(service.call, kind, 0)
  /\ ServiceWaits /\ UNCHANGED requests
  /\ ServiceOnly

(* handleStreamingResponse(): the items, and null for the end.             *)
YieldItem ==
  /\ service.at = "answering" /\ service.call \in Streams
  /\ service.sent < Items
  /\ service' = [service EXCEPT !.sent = @ + 1]
  /\ Reply(service.call, "item", service.sent + 1)
  /\ UNCHANGED requests
  /\ ServiceOnly

EndStream ==
  /\ service.at = "answering" /\ service.call \in Streams
  /\ service.sent = Items
  /\ Reply(service.call, "end", 0)
  /\ ServiceWaits /\ UNCHANGED requests
  /\ ServiceOnly

(* The handler throws, or an item cannot be delivered.                     *)
StreamFails ==
  /\ service.at = "answering" /\ service.call \in Streams
  /\ Reply(service.call, "error", 0)
  /\ ServiceWaits /\ UNCHANGED requests
  /\ ServiceOnly
-----------------------------------------------------------------------------
(* Faults of the network and of the service.                               *)

Fault ==
  /\ faults < MaxFaults /\ faults' = faults + 1
  /\ UNCHANGED <<binding, caller, entries, replyTo, life, reader>>

FirstRequest == requests # <<>> /\ Head(requests) # Stop

LoseRequest ==
  /\ FirstRequest
  /\ requests' = Tail(requests) /\ hit' = hit \cup {Head(requests)}
  /\ UNCHANGED <<service, replies>>
  /\ Fault

(* A router on the way has no route: it answers with a nack.               *)
RefuseRequest ==
  /\ FirstRequest
  /\ requests' = Tail(requests)
  /\ Reply(Head(requests), "nack", 0)
  /\ UNCHANGED service
  /\ Fault

LoseReply(p) ==
  /\ replies[p] # <<>>
  /\ replies' = [replies EXCEPT ![p] = Tail(@)]
  /\ hit' = hit \cup {Head(replies[p]).call}
  /\ UNCHANGED server
  /\ Fault

(* The sender's retry: no acknowledgement has come in time.                *)
RepeatRequest(c) ==
  /\ At(c, "delivering")
  /\ requests' = Append(requests, c)
  /\ UNCHANGED <<service, replies, hit>>
  /\ Fault

(* The process of the service ends: its inbox still holds the request, and *)
(* the recovery starts the handler again, or the request was not tracked.  *)
ServiceRestarts ==
  /\ service.call # NoCall
  /\ \/ requests' = <<service.call>> \o requests /\ UNCHANGED hit
     \/ hit' = hit \cup {service.call} /\ UNCHANGED requests
  /\ ServiceWaits /\ UNCHANGED replies
  /\ Fault
-----------------------------------------------------------------------------
(* stop(): under the lock of the listeners the loops end one after the     *)
(* other, in the order of their registration, each on the null that it     *)
(* finds in its channel; then cleanup() rejects what is pending.           *)

(* The loop for replies has handled what lay before its null.              *)
RepliesRead == listener.slot \in loops => replies[listener.slot] = <<>>

(* The service was registered first; or the replies were, and their loop   *)
(* has ended while the service went on.  That loop waits for nobody: while *)
(* it comes to its end the lock keeps others back, which might as well     *)
(* have been slow, so that stop() appears to begin when it has ended.      *)
StopBegins ==
  /\ life = "up"
  /\ life' = "stopping"
  /\ requests' = Append(requests, Stop)
  /\ \/ UNCHANGED loops
     \/ RepliesRead /\ loops' = loops \ {listener.slot}
  /\ UNCHANGED <<path, listener, fresh, raced, caller, entries, replyTo,
                 service, network, reader>>

ServiceEnds ==
  /\ life = "stopping" /\ service.at = "idle"
  /\ requests # <<>> /\ Head(requests) = Stop
  /\ life' = "draining"
  /\ requests' = Tail(requests)
  /\ service' = [service EXCEPT !.at = "ended"]
  /\ UNCHANGED <<binding, caller, entries, replyTo, network, reader>>

Open == pending \cap Streams

CleanUp ==
  /\ life = "draining" /\ RepliesRead
  /\ life' = "down"
  /\ loops' = loops \ {listener.slot}
  /\ listener' = [bound |-> FALSE, at |-> NoPath, reply |-> NoPath,
                  slot |-> NoPath]
  /\ pending' = {} /\ byEnvelope' = {} /\ timers' = timers \ pending
  /\ promise' = [c \in Calls |-> IF c \in pending \cap Singles
                                 THEN "rejected" ELSE promise[c]]
  /\ stream' = [c \in Calls |->
       IF c \notin Open THEN stream[c]
       ELSE [queue |-> IF stream[c].waits THEN <<>>
                       ELSE Added(stream[c].queue, Failure),
             waits |-> FALSE, completed |-> TRUE]]
  /\ verdict' = [c \in Calls |-> IF c \in Open /\ stream[c].waits
                                 THEN "error" ELSE verdict[c]]
  /\ UNCHANGED <<path, fresh, raced, caller, replyTo, server, network, got>>
-----------------------------------------------------------------------------
ClientStep(c) == Track(c) \/ Deliver(c) \/ DeliverReturns(c) \/ DeliverThrows(c)
ServiceStep   == TakeRequest \/ HandlerGoesOn \/ Returns \/ YieldItem
                   \/ EndStream \/ StreamFails
StopStep      == ServiceEnds \/ CleanUp

RpcNext ==
  \/ \E c \in Calls : \/ Begin(c) \/ ListenReturns(c) \/ ClientStep(c)
                      \/ Timeout(c) \/ NextItem(c) \/ Leave(c)
                      \/ RepeatRequest(c)
  \/ \E p \in Paths : Reattach(p) \/ HandleReply(p) \/ LoseReply(p)
  \/ ServiceStep \/ LoseRequest \/ RefuseRequest \/ ServiceRestarts
  \/ StopBegins \/ StopStep

RpcSpec == RpcInit /\ [][RpcNext]_rpcVars

(* Timers fire, the coroutines go on, a delivery returns or throws, and a  *)
(* handler yields, returns or throws.                                      *)
RpcFairness ==
  /\ \A c \in Calls : /\ WF_rpcVars(ListenReturns(c))
                      /\ WF_rpcVars(ClientStep(c)) /\ WF_rpcVars(Timeout(c))
                      /\ WF_rpcVars(service.at = "calling" /\ Begin(c))
  /\ \A p \in Paths : WF_rpcVars(HandleReply(p))
  /\ WF_rpcVars(ServiceStep) /\ WF_rpcVars(StopStep)

RpcFairSpec == RpcSpec /\ RpcFairness
-----------------------------------------------------------------------------
(* A call that is open can still be answered and still ends: both maps     *)
(* hold it, its timer runs, or it is a stream that has had an item; nobody *)
(* waits in next() for an iterator that is closed or has something for it. *)
OpenIsPending ==
  /\ RpcTypeOK
  /\ byEnvelope = pending /\ timers \subseteq pending
  /\ \A c \in Calls :
       /\ c \in pending =>
            /\ promise[c] = "open" /\ ~stream[c].completed
            /\ \/ c \in timers
               \/ c \in Streams /\ (got[c] # <<>> \/ stream[c].queue # <<>>)
       /\ c \notin pending
            => \/ At(c, "idle") \/ At(c, "listening") \/ At(c, "bound")
               \/ promise[c] # "open" \/ stream[c].completed
       /\ stream[c].waits => c \in pending /\ stream[c].queue = <<>>

(* A consumer that is told of the end of its stream has received all of    *)
(* it: once the handler has been started again by a retry or a restart,    *)
(* the items of its last run, after those of runs that were cut short.     *)
EndMeansComplete ==
  \A c \in Streams :
    verdict[c] = "end" /\ c \notin hit
      => /\ Len(got[c]) >= Items
         /\ SubSeq(got[c], Len(got[c]) - Items + 1, Len(got[c]))
              = [i \in 1 .. Items |-> i]

(* A call asks for its reply where the node is and listens, as long as the *)
(* node is not attached elsewhere after the call has begun; the exception  *)
(* is an attachment that fell into the binding of a listener.              *)
ReplyAddressHeard ==
  life = "up" /\ ~raced
    => \A c \in pending \cap fresh : replyTo[c] = path /\ path \in loops

(* Every call ends, by its reply, a nack, its timer or the stop of the     *)
(* node, also when the service waits for a call to itself; and a consumer  *)
(* that waits is answered unless a message was lost or goes to an address  *)
(* that is not polled any more.  The exception: a handler whose first call *)
(* falls into stop() waits for the lock that stop() holds while it waits   *)
(* for the handler.                                                        *)
Wedged(c) == life = "stopping" /\ At(c, "listening")

CallEnds ==
  /\ \A c \in Calls : ~At(c, "idle") ~> (Done(c) \/ []Wedged(c))
  /\ \A c \in Streams :
       stream[c].waits
         ~> (~stream[c].waits \/ c \in hit \/ replyTo[c] \notin loops)
=============================================================================
