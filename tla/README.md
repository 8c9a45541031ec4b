# Specifications of the naylence runtime

TLA+ models of the parts of `naylence-runtime-ts` whose correctness depends on
the order in which things happen, checked with TLC on small instances and, where
marked, proved with TLAPS for every instance. Paths below are relative to
`src/src/naylence/fame/` of the repository unless they say otherwise.

The program is single-threaded JavaScript: between two `await`s a coroutine is
not interrupted. **An action is therefore a segment of a coroutine between two
awaits**, and every interleaving of segments is explored. A segment that only
continues at once with the next one is merged with it.

## 1. Inventory

| Part | State it keeps | Operations | Hard because |
|---|---|---|---|
| Flow control (`channel/flow-controller.ts`) | balance, waiters, notifier, window id per flow | `addCredits`, `acquire`, `consume`, `resetFlow`, `nextWindow` | deferred and debounced wake-ups, several callers per wake-up |
| Connector (`connector/base-async-connector.ts`, `connector/websocket-connector.ts`) | life cycle state, `_closed`, send queue, two loops | `start`, `stop`, `close`, `pause`, `resume`, `send`, `waitUntilClosed` | every party may close it; a loop that closes waits for itself |
| Credit protocol (two connectors, or four around a router) | a balance at each end of a link | send, receive, grant, forward | the receive loop waits for its handler, which may wait for credits of another link |
| Delivery tracker (`delivery/default-delivery-tracker.ts`), driven by `node/node.ts` | outbox entry, futures, timers per envelope | `track`, `awaitAck`, `onAck`, `onNack`, `onReply`, timer, sweeper, recovery, cleanup | retries, timeouts, late and contradicting answers, crash and stop |
| Tracker, inbox side, and envelope listeners (`node/envelope-listener-manager.ts`) | inbox entries, handler attempts | delivered, handled, failed, retried | duplicates, retries of a handler, shutdown |
| Upstream session (`node/upstream-session-manager.ts`) | connection cycle, ready event, message queue, heartbeat | `start`, `stop`, `send`, connect cycle, pump | reconnection races with stop and with senders |
| Attachment (`node/admission/default-node-attach-client.ts`, `sentinel/node-attach-frame-handler.ts`) | handshake buffer, pending routes | attach, accept, reject, reattach | buffered frames, late answers, acceptance and durability |
| Route manager (`sentinel/route-manager.ts`, `sentinel/store/route-store.ts`) | routes, delayed stops, expiries | register, remove, expire, restore | timers of an old life, removal by an old connector |
| Address binding (`node/binding-manager.ts`, `sentinel/address-bind-frame-handler.ts`) | bindings, pools, capabilities, acknowledgements | bind, unbind, rebind on a new epoch | timeouts and rollback, propagation to the parent |
| Sentinel (`sentinel/sentinel.ts`, `sentinel/router.ts`) | peers, gated handler | route, forward, accept a child | buffer flushed while frames arrive |
| RPC (`node/rpc-*.ts`, `node/streaming-response-handler.ts`) | pending requests, streams | call, reply, cancel | late replies, timeouts, stream order |
| Task spawner (`util/task-spawner.ts`) | live tasks | spawn, cancel, bounded join | self-join, time limits |
| Routing policies, load balancing, stickiness | none, or a small table | choose a route | pure, but the order of rules matters |
| Key exchange (`sentinel/key-frame-handler.ts`, `security/keys/key-management-handler.ts`, `node/secure-channel-frame-handler.ts`) | envelopes that wait for a key | request, install, expire | replay after a key arrives |
| Storage, listeners, servers, grants, OAuth2, configuration, telemetry, cryptography | | | I/O and configuration, no protocol of their own |

How they interact: `FameNode.send()` records an envelope with the tracker and
calls the delivery function; that ends in `connector.send()` of the upstream
session's connector or, in a sentinel, of the connector of a route. A connector
takes a credit from its flow controller, queues the envelope, and its send loop
writes it. The receive loop of the other end awaits the node's handler for one
envelope at a time; the handler delivers to a binding, forwards to another
connector, or gives an acknowledgement to the tracker. Afterwards the receive
loop debits its own balance and may send a grant.

What makes each part correct: no lost wake-up, no credit handed out twice, one
shutdown, order kept, nobody blocked for ever, every tracked envelope settled,
bounded retries, answers that stick, no route for a dead connector, no frame
lost in a handshake, no acknowledged message lost in a crash, tables of neighbours
that agree. `PROJECT.json` lists the hazards line by line.

## 2. Modules

| Module | What it is |
|---|---|
| `CreditWindow` | what both sides of flow control share: flows, window, low watermark |
| `CreditPool` | abstract promise of a flow controller: take a credit or be blocked, be served while there are credits |
| `FlowController` | the flow controller with its condition variable, debounced notifier and window ids; implements `CreditPool` |
| `CreditLink` | the credit protocol between neighbours and through a router; uses what `CreditPool` promises |
| `Connector` | the life of one connector |
| `UpstreamSession` | the connection of a node to its parent: cycles, handshake, subtasks, queue, start and stop |
| `RouteTable` | the router's side: pending connections, attachments, routes, clean-ups, expiry, restoration |
| `AddressBinding` | what nodes bind and offer, and what their sentinel and its parent know of it |
| `Routing` | extends `AddressBinding` by an envelope and the two routing policies |
| `DeliveryTracker` | the sender side of one tracked envelope, with the node's start, stop and crash |
| `InboxListener` | the receiver side: inbox, handler, retries, dead letters, recovery |
| `KeyExchange` | envelopes that wait for signing or encryption keys |
| `RpcCalls` | calls and streams of one node, the listener for their replies, the service that answers, and the node's stop |
| `...Proofs` | theorems about the module they extend; `CreditProofs` about `FlowController` and `CreditLink`, `ListenerProofs` about `InboxListener` and `RpcCalls` |
| `MC...` | the values of the constants for TLC |

How they compose: `CreditLink` uses `CreditPool`, which `FlowController`
implements; `UpstreamSession` takes from `Connector` that frames arrive in order,
that a closed connector rejects what is sent, and that a sender waiting for
credits waits on when it closes; `Routing` extends `AddressBinding`, whose routes
come and go as `RouteTable` lets them; `DeliveryTracker` and `InboxListener` are
the two ends of at-least-once delivery. `CreditLink` and `RpcCalls` prefix the
usual names (`LinkSpec`, `RpcTypeOK`), since one module proves things about each
of them and another component.

Operators commented "a plausible slip" are wrong variants of the definition that
follows them; nothing uses them. Each stands for a mistake a programmer could
make there, and the property listed with it in `PROJECT.json` fails when the
variant takes the definition's place: this is how we know that the properties
can fail.

### FlowController

State is the class's own maps: `credits`, `waiters` (the `Condition`), `woken`
(promises that are resolved and whose coroutine has not run yet), `notifiers`
(`activeNotifiers`), `windowIds`, `resetRequested`. `Acquire` and `Resume` are
`acquire()` before and after its await; `Notify` is the deferred `notifyAll()`.
`supplied`, `taken` and `stream` are histories that properties need. The wait in
`acquire()` is a loop: a caller that finds the credits gone waits again.
Abstraction: `ensureFlow()` creates a flow with a full window on first use; here
every flow exists from the start.

### CreditLink

Each end of a link keeps one balance per flow for both directions, as the code
does. `Receive`, `Deliver`/`Forward` and `Settle` are the receive loop around the
awaited handler: `Forward` is enabled only when `acquire()` of the other
connector would return, so a blocked receive loop is a receive loop in step
"handling". Callers blocked in `acquire()` need no state here: `FlowController`
implements `CreditPool`, which serves them. Send queue and transport are one
reliable wire in order. `SendTooLarge` is a send that throws after `acquire()`.

### Connector

`_shutdown()` is `BeginShutdown` (up to the await of `_transportClose()`),
`TransportCloses`, `JoinExpires` or the end of both loops, and `EndShutdown`.
It may be begun by `stop()`, by `close()`, by either loop or, with nobody waiting
for it, by the close event of the transport (`PeerCloses`); a loop that begins it is
then "shutting" and waits for itself until the join's time limits have passed. The
limits are abstracted to `JoinExpires`, which may come at any time. Of flow control only the
outgoing balance is kept; whether a received envelope makes a grant due is left
open (`SettleQuietly`, `SettleGranting`), which covers every balance. Received
bytes that are not JSON only make the loop go round and are left out. Transport
behaviour (a closed transport rejects its receiver) is the websocket connector's.

### DeliveryTracker

One envelope, since envelopes share nothing but the two inbox loops that process
answers. The coroutines are the sender (`node.send()`), the chain of timer
tasks, the loops "sys" (`onAck`, `onNack`) and "rpc" (`onReply`), the sweeper,
and start and stop. `held[p]` is the outbox entry in the hands of coroutine `p`:
with the in-memory store everybody holds the same object, with a persistent one
everybody holds a copy; `Load`, `Amend` and `Save` are get, assignment and set.
Time is a clock that starts with the call of `send()` and saturates at `MaxTime`. `Restart`
happens when no coroutine of the previous life is left. `timer.step = "failed"`
means that a retry threw and the chain of timers has ended.
Left out: streams, `awaitReply` with a timeout of its own, event handlers, the
inbox side.

### UpstreamSession

`fsm` is where `fsmLoop()` is, with its backoff delay and its count of initial
attempts; `link[c]` is the connector of cycle `c` together with what the parent
has done and sent on it. An attempt that fails leaves its connector open, and the
attach client keeps `buffer` and `inHandshake` from one attempt to the next, so
links of several cycles are live at once: a late answer to the first attempt may
arrive during the second. `pump`, `heartbeat` and `guard` are the three subtasks;
a session ends when one of them does, and the cycle then waits for the other two.
`caller` is `node.start()` and `node.stop()`. Epochs, grants and the contents of
frames are data and left out; so is the wake event of a visible browser tab,
which only shortens a backoff.

What the model shows of the code besides its properties: a pump or heartbeat that
waits for credits of a connector that has closed keeps the cycle, and with it
`stop()`, waiting (`Blocked` in `LossNoticed` and `StopsWhenUp`); `stop()` during
an attempt that then succeeds waits for a session nobody ends
(`upstream-session-manager.ts:393`); a late accept of an earlier attempt makes
the current one fail by its correlation id; `readyEvent` is never cleared; frames
replayed from the buffer may be overtaken by new ones; `node.stop()` before
`start()` has returned does nothing.

### RouteTable

A connection is the number of its connector. `attach[c]` is `acceptNodeAttach()`
between its awaits, `timeout[c]` the attach timeout, `cleanup` the delayed stops
with the one controller kept per child, `janitor`, `restored` and `forward` the
other three coroutines that remove routes. `routesLock` is held across an await
by the janitor only. The table of peers is handled by the same code and left out.

What the code does in the model: a second connection of a child overwrites its
pending entry, and the attach timeout of the first stops nothing
(`sentinel.ts:918`, although `sentinel/__tests__/sentinel.test.ts:537` "enforces
attach timeout for pending origin connectors"); two attachments of one child that
overlap both find no route, and the connector that loses is stopped by nobody;
forward failure, janitor and late expiry remove the route of the child, not of
the connector they are about; a new registration cancels the delayed stop of the
old connector, which then stays open; restoration overwrites the route of a child
that was quicker; an attachment in progress during `stop()` registers itself in
the cleared table; attachments that are not durable never expire;
`closeConnectionAfterDelay(connector, 100)` waits 100 seconds.

### AddressBinding and Routing

One address, exact or that of a pool (`pooled`, chosen at the start). The state of
a child is `BindingManager`: `bound` and `offered` are its maps, `granted` says
that `bind()` has returned, `caller` is what `bind()` or `unbind()` waits for,
`rebind` the same inside the receive loop. A request carries an id; `waiting` in a
frame says that somebody still waits for its answer, so an answer to an earlier
request is dropped, as the tracker does. At the sentinel a handler is a row of
steps, "join" (an owner is written after the store was read), "ack" and "up"
(pass on to the parent); handlers of one child come one after the other, those of
different children interleave, and what is passed on may be reordered. After a
reattachment the code may run a handler of the old connection beside the first ones
of the new connection; the model has one handler for each child, so the frames of
the new connection wait until the old one's handler has ended (a second handler
for each child adds a fifth to the states of the longest run). The
root is the same code with one child. The envelope of `Routing` walks by the
tables as they are when it arrives.

Left out: address syntax and accepted logicals, the instance address a pool
member binds and rebinds besides (another address, with its own timeouts), peers,
encryption keys, the announcement of bindings when the sentinel itself attaches,
rejected requests, and which of several candidates the balancer chooses.

What the code does in the model, or was seen while writing it:

- `Sentinel.deliver()` does not return after the handlers of binds
  (`sentinel.ts:464`); `HybridPathRoutingPolicy` sends `AddressBind` and
  `AddressUnbind` upstream again (`hybrid-path-routing-policy.ts:27`). Every bind
  goes up twice, and an unbind by a node that no longer owns the address goes up
  although the handler keeps it, as its tests ask (`sentinel/__tests__/address-bind-frame-handler.test.ts:942`,
  `:1031`): the root then forgets an address that another child has taken over. The
  same holds for one member of a pool leaving the others.
- The root hears of the first provider and of the last withdrawal, each with its
  own address: A offers, B offers, A withdraws, B withdraws leaves A at the root.
  For an exact address, where both share a key, a withdrawal overtaken by a new
  offer leaves nothing at the root (`OffersReachRoot` speaks of pools).
- An acknowledgement that cannot be sent ends the handler before it has told the
  parent.
- `RouteManager.purgeRouteReferences()` purges pools that nobody fills
  (`route-manager.ts:148`, `:537`); the pools in use keep an expired child. Since
  a node does not bind again when it reattaches to the same epoch, that is what
  keeps `MemberStaysRouted` true. A failed forward keeps exact addresses as well.
- A capability envelope that comes from upstream and finds no provider vanishes
  without a NACK; the choice may fall on the node it came from.
- A rebind waits inside the receive loop that would have to read its
  acknowledgement, so each one takes its whole timeout, and the node reads
  nothing meanwhile. `unbind()` that times out leaves the binding; a second
  `bind()` that fails removes the first one's; an acknowledgement that says no is
  resolved like any other.

### InboxListener

`worker` is the poll loop and the recovery, each with its message and its own copy
of the entry; `inbox[m]` is the attempt counter of the stored entry. `Poll`,
`LookUp`, `SaveReceived`, `SendAck` are the arrival; `HandlerReturns`,
`HandlerFails`, `NoteFailure`, `Bury`, `Unlist`, `DeleteHandled` what follows the
handler; `StartLists`, `Listen`, `RecoverNext` the recovery after `Restart`.

What the code does in the model: an entry is deleted when it is handled, so a
later copy of the same message is handled again, and the test for a handled
duplicate (`default-delivery-tracker.ts:617`) never applies; the final failure of
a handler, a failed acknowledgement or an undeliverable response ends the poll
loop, and the service stays bound and deaf until `listen()` is called again
(`node/__tests__/channel-polling-manager.test.ts:338`); a service that listens before
`start()` has listed the inbox misses the recovery until its next `listen()`; a
recovery and a copy that comes in may run the handler twice and put a handled
entry back. Left out: untracked messages, a `listen()` that replaces a running
loop, the draining of `stop()`, replies, and the in-memory store.

### KeyExchange

`requests` and `queue` are the two pairs of maps of `KeyManagementHandler`, one
for signing and one for encryption keys; `at[e]` is how far the delivery of an
envelope is, `announce[a]` how far an announcement is in its up to six segments;
`store` is the key store. Time is `Expire`, which marks a request as over before
the `Sweep` looks at it.

What the code does in the model: the retry of a request finds it in the table and
sends nothing (`key-management-handler.ts:444`, `:530`, `:916`); drops are silent; a
request on behalf of an envelope from a child is recorded and never sent; the
store keeps one path per key; a key that does not verify sends its envelope
round and round; a root queues without a request (hence `HasParent` in
`Matched`); `correlationToAddress` keeps an entry that was answered under its
address. `correlated` holds the addresses that have a correlation id and does not
count the ids, so an answer to one of them may or may not be the last (`NewKeys`).
`retryPendingKeyRequestsAfterAttachment` has nothing to do where
`Matched` holds and is left out, and with it the answering side, secure channels
and cryptography. So is the branch of `maybeRequestSigningKey` for a node whose
`physicalPath` throws (`key-management-handler.ts:448`): the path of a `FameNode` is
always there.

### RpcCalls

A call has a number; `pending` and `byEnvelope` are the two maps of
`RPCClientManager`, `timers` its timers, `promise` and `stream` what `invoke()` and
`invokeStream()` give to their callers. `caller[c]` is where `invoke()` is, `listener`
the fields of the reply listener, `loops` the reply addresses that somebody polls.
`service` is one poll loop that handles one request after the other; its handler
may make a call of its own first (`Inner`), with the client of the same node. The
service may as well be elsewhere: the network may lose, refuse or repeat a message and
the service may restart, and the node may be attached at another path; `MaxFaults`
bounds all of these together. `hit`, `fresh`, `raced`, `got` and `verdict` are histories
that properties need. A reply is taken from its channel and handled in one step: the
handler of replies has no await before its effect. `stop()` ends the listeners in the
order in which they were registered; either may have been first, the service
(`ServiceEnds`, then `CleanUp`) or the replies (`StopBegins` without their address).

What the code does in the model: after the first item of a stream no timer guards
it, so a stream whose server dies has no end (`rpc-client-manager.ts:798`; `hit` in
`CallEnds`); `stop()` holds the lock of the listeners (`envelope-listener-manager.ts:206`)
while it waits for a service whose handler waits for that lock in its first
`invoke()` (`:414`), and neither gets on (`Wedged`); the path that a listener binds at
is read before an await and stored after it (`raced`); a call whose request could
not be delivered leaves its entry to the timer; items of a run of the handler that
was cut short stay in the stream before those of the next run.

Left out: requests that cannot be parsed, handlers that return messages of their
own, `throw()` of an iterator, two `next()` at once, a handler that yields `null`
(which ends its stream), the copy of a stream that the tracker keeps, and two
loops that poll one reply channel.

## 3. What is checked

"States" are distinct states. The runs of `tracker_live` and `routing` take two to
three and a half minutes with two workers, the others less.

| Run | Bounds | States | Shows |
|---|---|---|---|
| `flow_controller` | 1 flow, 3 callers, window 2, 5 credits supplied, ids to 2 | 9.9 k | `NoLostWakeup`, `NoOverdraw`, `StreamWellFormed`; implements `CreditPool` with (`ServesWaiters`) and without (`ImplementsPool`) its fairness |
| `credit_relay` | router between two leaves, window 2, 6 sends each way, one flow with oversized envelopes | 56 k | `NeverStarved`, `Replenishes` |
| `connector` | 2 senders, 2 closers, window 1, queue 2, 2 messages received, loops may fail | 435 k | `ShutdownOnce`, `AtMostOneLate`, `QueueIsRemainder`, `WaiterReleased`, `LoopsEnd` |
| `upstream_session` | 2 initial attempts, backoff 1 to 2, queue 1, 2 cycles, 2 messages, 1 frame per connection, senders may wait for credits | 360 k | `MessagesInOrder`, `QueueAnnounced`, `NothingStranded`, `ParentAgrees`, `LossNoticed`, `StopsWhenUp` |
| `route_table` | 1 child, 2 connections, 1 failed forward, delayed clean-up, durable entries | 507 k | `StoppedIsUnrouted`, `ExpiredLeaves` |
| `routing` | 2 children, both kinds of address, 3 calls, 1 fault, 1 frame between sentinel and root, one envelope after the other | 3.6 M | `MemberStaysRouted`, `FewHops`, `OffersReachRoot`, `CalmAgreement` |
| `tracker` | in-memory store, timeout 3, clock to 4, delays 1 and 2, 1 retry, 2 answers, deliveries may throw | 4.9 M | `RetriesBoundedInMemory`, `ResolvedIsRecorded`, `AnswerSticks` |
| `tracker_live` | both stores, timeout 3, 1 retry, 1 answer, crash, 2 starts | 409 k | `PendingIsGuarded`, `AckSettles`, `StopCompletes` |
| `inbox_listener` | 2 messages, 2 attempts, 2 copies of each, 1 crash | 920 k | `AckedNotLost`, `BuriedDeservedly`, `RecoveryCompletes` |
| `key_exchange` | 1 signed and 1 sealed envelope, 1 key, 1 address, 2 announcements at a time, 2 retries | 385 k | `Matched`, `WaitsOnce`, `WaitEnds` |
| `rpc_calls` | a stream of 2 items whose handler makes a call, 2 paths, 1 fault | 421 k | `OpenIsPending`, `EndMeansComplete`, `ReplyAddressHeard`, `CallEnds` |

Where a run does not list the type invariant it is a conjunct of one of the others
(`OpenIsPending`) or is proved in section 4.

Why the bounds are enough. Three callers on a window of two: one notification
wakes more callers than there are credits. A window of two has a low watermark of
zero, where a grant comes at the last moment, and six sends go through three
windows. Two senders and a grant overfill a queue of two. Two cycles give a late
answer of the first during the second, and a queue of one is full with the
message that came back. Two connections of one child are what pending entry,
table, delayed stop and expiry have to tell apart. Three calls on two children are
two offers and a withdrawal, or a takeover and the unbind of the former owner; one
fault is a timeout, a lost connection or a new epoch, each at any moment. A timeout
of three ticks has room for a retry, for the wait after the last one and for the
overall timeout; two answers make a duplicate, a contradiction, or an ack
followed by a reply. Two messages, two attempts and one crash: recovery and a new
copy of the same message meet, and one that fails for good stands before another.
Two announcements interleave segment by segment on one key.
A call inside a handler is what `stop()` and a busy service can wait for in a circle; a stream of two items has a first,
a later and a last message; one fault cuts it short at any of them, or moves the
node.

Fairness. The event loop runs what is runnable and timers fire: weak fairness of
notifiers and resumed callers, of the connector's loops and shutdown, of the
timer chain, the clock and an answer's handler. In `UpstreamSession` it is that
of the loop, the pump, start and stop, and of heartbeat and guard once their link
has closed or they were told to stop; in `RouteTable` that of accepted attachments,
attach timeouts, delayed stops, janitor, restoration, late expiry and `stop()`; in
`KeyExchange` of expiry and sweep; in `InboxListener` of the recovery. In `RpcCalls`
it is that of the steps of `invoke()`, timers, the reply loop, the service and `stop()`;
a call by a handler begins, a call by the application need not, and no consumer
has to ask for the next item. The code never withholds those steps. No fairness is assumed of the peer (it may never
answer, grant or send), of `stop()`, `close()` and crashes, of delivery failures, or
of local callers starting anything. Two assumptions are about the environment: a
call of the delivery function or of a handler returns, which for a delivery means
that its connector has credits or fails; and a closed transport rejects its
receiver, which `_transportClose()` of the websocket connector does. In
`CreditLink` fairness is that of the receive loops only. `AddressBinding` and
`Routing` state safety only and assume none.

Deadlock is checked where the specification says explicitly when it may stop
(`Done`, `Over`, `Stopped`, `Rest`). It is not checked in `route_table`,
`inbox_listener`, `routing` and `rpc_calls`, where children, senders and callers may simply do
nothing more and the bounds run out, nor in `credit_deadlock`, whose subject it is.

### Claims the code does not meet

One run checks what a comment of the repository says, and TLC finds a behaviour of
the code that violates it:

- `credit_deadlock`: a router that serves addresses of its own besides forwarding
  can use up the credits of both links so that each of its receive loops waits in
  `acquire()` of the other's connector, and the grants stay unread behind them.
  A router that only forwards is safe (`credit_relay`).

More of this kind, which the models show but no run is devoted to (and see the
sections on the modules above):

- an envelope recorded and not yet sent when the process died is waited for after
  the restart and never sent: `recoverPending()` passes no retry handler
  (`default-delivery-tracker.ts:1245`), although the policy
  "ensures envelopes are delivered at least once" (`delivery/at-least-once-delivery-policy.ts:9`);
- with a persistent outbox the attempt counter is increased in a copy that is
  never stored, so `maxRetries` bounds nothing (`default-delivery-tracker.ts:1460`);
- an ack cancels the timer of an envelope that also expects a reply, and no other
  timer settles the reply (`default-delivery-tracker.ts:805`);
- grants are a whole window although only part of it has been handled, so what is
  under way grows with every grant (`base-async-connector.ts:700`); and where both
  ends of a link send on the same flow, a grant resets one balance while envelopes
  the other way are still charged to it, and the balances drift until a sender is
  at zero with the receiver above its watermark and nothing under way, whatever
  the window (TLC finds it for windows of 2 to 5). Flow identifiers are those that
  connectors generate (`base-async-connector.ts:399`, `flow-controller.ts:63`), so
  this takes an application that names a flow and uses it both ways; `OneWay`
  in `CreditLink` says that nobody does, `MCCreditLink` assumes it of its topology;
- an unexpected error ends the receive loop and leaves the connector started
  (`base-async-connector.ts:589`); so does a grant that cannot be queued (`:644`).

Other behaviours the properties exclude by their premises: with a copying store a
timer may overwrite an acknowledged entry with its pending copy
(`ResolvedIsRecorded` and `AnswerSticks` speak of the in-memory store,
`PendingIsGuarded` of replies likewise); a retry whose delivery throws ends the
chain of timers, and nothing applies the overall timeout (`timer.step = "failed"`
in `PendingIsGuarded`, `AckSettles`); `waitUntilClosed()` called after the end
waits for ever (`WaiterReleased` speaks of earlier callers); a send that waited
for a credit is accepted by a connector closed meanwhile (`Send` and `Proceed`); a
send that throws after `acquire()` loses its credit for good (`NeverStarved` and
`Replenishes` except such flows); `CalmAgreement` and `OffersReachRoot` speak of
executions without faults, since a lost frame or a timeout leaves tables that
nothing repairs before the next epoch.

## 4. What is proved

All theorems hold for every value of the constants that satisfies the named
assumptions of the module: a positive window and queue size, integer deltas, a
backoff below its cap, names of coroutines that do not clash, bounds that are
natural numbers. Each rests on an inductive invariant `IInv` (or the conjunction
named below), shown to hold initially and to be kept by every action.

`CreditProofs`, about `FlowController`: `TypeCorrect`, `WakeupsKept`, `CreditsBacked`,
`StreamsWellFormed`, `Refines`. The invariant is the conjunction of `TypeOK`,
`NoLostWakeup`, `NoOverdraw` and `OneSuspension` (no caller is suspended twice):
the step of a resumed caller keeps `NoLostWakeup` only because a caller that waits
again does so on an empty pool, and the refinement needs `OneSuspension`, for a
caller blocked twice would take two credits. `StreamsWellFormed` rests on
`WindowsTracked`: the map knows the id of the last envelope, and forgets it only
while a reset is owed. `Refines` maps `credits` to the pool and waiting and woken
callers alike to blocked ones; waking is a stutter.

`CreditProofs`, about `CreditLink`: `LinkInductive`, `SendersNeverStarve`, for any
links, routes between them, windows and flows, on the one hypothesis `OneWay`: each
end has a set of flows that it may send on, disjoint from that of its peer. `LinkInv` says of
such a flow that the receiver's balance is above zero (`GrantsInTime`: it is debited
when an envelope is settled, and a grant sets it back before it can run out); and
that the sender's balance, what is on the wire and what the receiver has in hand
cover the receiver's balance, unless a grant is on its way (`NoDrift`). With nothing
under way the sender's balance is then above zero itself. `CarriedOK` says that what is
on a wire is there in the direction the hypothesis allows. Without the hypothesis
the statement is false, see section 3.

`ConnectorProofs`: `TypeCorrect`, `OneShutdown`, `FewLate`, `InOrder`. The
invariant adds to `TypeOK` and `QueueIsRemainder` that `shutdowns` counts `closed`
(a second run would find the flag set), that a loop in "sending" has an item, and
that a late envelope is the last one: once it has been handed over after the
close, the receive loop is no longer in a step from which it could receive.

`UpstreamSessionProofs`: `TypeCorrect`, `InOrder`, `Announced`,
`NothingLeftBehind`, `AgreesWithParent`. Two halves. `QueueInv` ties the queue, the
message in the pump's hand and the history together, and adds that the message in
hand is the only one the queue may exceed its limit by. `HandshakeInv` says that
the buffer is empty and the interim handler gone outside a handshake, that links
of later cycles are untouched, that a frame on the wire or in the buffer bears
the number of the cycle that asked for it, and that an accept on its way
implies a parent that has accepted.

`RouteTableProofs`: `TypeCorrect`, `RoutesAreAlive`. `OneWay`: a connector is on its
way into the table, in it, or on its way out, and what is on its way out (armed
clean-up, stopped by the janitor, taken by a removal, unregistered) is not routed
and is never registered again. `Born` and `Owned` say that connectors get their
child once, and that tables refer to existing ones of the right child.

`ListenerProofs`, about `InboxListener`: `TypeCorrect`, `AckIsKept`, `BurialIsDeserved`. `CountsBacked`:
no counter, of an entry or a copy of one, exceeds the failures of the handler;
`StepsBacked` the same for a worker between two steps, together with what its step
implies about the entry, so that whoever removes an entry has either handled or
buried its message.

`ListenerProofs`, about `RpcCalls`: `RpcInductive`, `RpcTypes`, `OpenCallsPend`,
`StreamsComplete`, `RepliesAreHeard`. `RInv` says per call what its entry looks like
before it is tracked, while it is open and afterwards (`EntryOK`), and that replies
lie where their call asks for them (`Placed`). For a stream that has lost no
message, `Come` says that in what has arrived every item stands behind those
that precede it in a run of the handler; `Coming` that the channel goes on from there:
an item follows its predecessor in the channel or, with nothing of this stream before
it, in what has arrived, the end follows the last item, and the service's count agrees with
the last that was sent. This is what makes `EndMeansComplete` inductive: a run that
is cut short and begun again may stop anywhere, but from the first item of the
last run on nothing comes in between. `Heard` ties the fields of the
listener to the path of the node and the loops, while nobody binds.

`KeyExchangeProofs`: `TypeCorrect`, `WhatWaitsIsAskedFor`, `NothingIsReleasedTwice`.
To `Matched` and `WaitsOnce` the invariant adds that announcements know what they
say at each segment (`Announced`) and that queues hold envelopes of their kind
(`Known`).

`DeliveryTrackerProofs`: `TypeCorrect`, `NeverForgotten`, `RetriesAreBounded`,
`ResolvedMeansRecorded`, `AnswersStick`. The invariant has two halves. `Memory` says
what the copies in the hands of timer, loops and sender may differ in from the
stored entry at each step, for either kind of store, and that retries are counted
where they are bounded. `Guard` says who will settle an envelope: after a timer
was aborted there is a successor or an answer being recorded, a handler that has
loaded a pending entry keeps the promise alive, and with it `PendingIsGuarded`.

`RoutingProofs`: `TypeCorrect`, `MembersStay`, `EnvelopesTurnOnce`. `Kept` relates what
a child of a pool has been told to the frames on their way. Who has the promise
of `bind()`, or waits for the acknowledgement of its offer, is a member and has
no unbind under way; who withdraws, unbinds or rolls back has no promise; and
while a bind is waited for, no unbind comes after it, so its acknowledgement
finds the child a member still. The fault that would break it, a connection
lost with the bind and not with a later unbind, is excluded by the order of
frames. `Hops` says how many hops an envelope has by where it is and came from.

The same module, for as long as there are no faults: `OffersAreHeard` and
`CallsAgree`. `CalmInv` has three parts. `Undisturbed`: every child is linked and
routed and none rebinds. `InStep(c)`: the request the caller waits for is on its
way and `members` and `providers` are as before it, or it was accepted and they are
as `bound` and `offered` are going to be once the caller reads the answer; `JoinsInTime` that an owner is written before its acknowledgement is sent.
`RootHears`: while somebody offers, there is a child of which the last word is that it
does: its handler has yet to say so, or it stands on the trunk with no withdrawal of
its own after it, or the root knows and no withdrawal is on the trunk. It need not be the child that offers: when the
first provider withdraws and another remains, the root keeps the first. The handler
that makes the first offer has a word for the root and makes it the witness; the
handler that withdraws the last one ends the obligation; every other step leaves the
witness alone or moves it one place on.

Every safety property that a run checks is stated by a theorem. Only model-checked is liveness
(`ServesWaiters`, `Replenishes`, `WaiterReleased`, `LoopsEnd`, `LossNoticed`,
`StopsWhenUp`, `ExpiredLeaves`, `AckSettles`, `StopCompletes`, `RecoveryCompletes`,
`WaitEnds`, `CallEnds`): it needs fairness and ENABLED, which the prover does not
reach, and so is the part of `CreditPool` that promises service.

## 5. Not modelled, and plan

Not modelled: cryptography, policies and authentication (decisions over
configuration, without interleavings of their own), storage back ends, listeners
and servers (I/O), configuration, telemetry, grants and OAuth2 (request handlers
over HTTP). They are most of the lines of the repository and have no protocol
state a model checker could explore.

Next, in this order:

1. `DeliveryTracker` and `InboxListener` over a lossy link, with "handled at least
   once" as the abstract specification; `AckPromise` (pending, then settled once) as
   the abstract specification of the tracker.
2. `TaskSpawner`: bounded join and cancellation, to discharge `JoinExpires`; the
   session of a root node, a retry loop like that of `UpstreamSession`.
3. Peers and the announcement of bindings by a sentinel that attaches; paths and
   stickiness in the routing policies; the answering side of the key exchange.
4. What `RpcCalls` leaves out of `throw()` and of streams kept by the tracker.

## 6. Running

    tlc -workers 2 -config MCConnector.cfg MCConnector
    tlapm ConnectorProofs.tla
