----------------------------- MODULE KeyExchange -----------------------------
(***************************************************************************)
(* Envelopes that wait for keys: security/keys/key-management-handler.ts,  *)
(* the part of node/envelope-security-handler.ts that hands envelopes to   *)
(* it, and the key store between them.                                     *)
(*                                                                         *)
(* A signed envelope from elsewhere whose signing key is unknown, and a    *)
(* local one to be sealed for an address whose key is unknown, are queued  *)
(* under the missing thing and a request is sent.  An announcement stores  *)
(* the keys and gives the queue to node.deliver() again, which starts from *)
(* the beginning: the key may be gone by then.  A sweep gives up requests. *)
(*                                                                         *)
(* Every read and write of the key store is awaited, so announcements,     *)
(* look-ups and sweeps interleave.                                         *)
(***************************************************************************)
EXTENDS Integers, FiniteSets

CONSTANTS
  Signed, Sealed,   (* envelopes, by what they need                        *)
  Kids, Addresses,  (* keys, and the addresses of the node that owns them  *)
  SignedBy,         (* the key of a signed envelope                        *)
  Recipient,        (* the address of an envelope to be sealed             *)
  Retries,          (* KEY_REQUEST_RETRIES                                 *)
  HasParent,        (* hasParent of the node's configuration               *)
  Announcers,       (* coroutines in acceptKeyAnnounce(): a bound          *)
  Path              (* the physical path of the node that owns the keys    *)

Ids       == Kids \cup Addresses
Envelopes == Signed \cup Sealed
Tables    == {"signing", "encryption"}
NoPlace   == "none"  (* the key is unknown                                 *)
NoId      == "none"  (* an announcement without an address                 *)
Places    == Addresses \cup {Path, NoPlace}

ASSUME EnvelopeAssumption ==
  /\ Signed \cap Sealed = {} /\ Kids \cap Addresses = {}
  /\ SignedBy \in [Signed -> Kids] /\ Recipient \in [Sealed -> Addresses]
  /\ Retries \in Nat \ {0} /\ HasParent \in BOOLEAN
ASSUME NameAssumption ==
  Path # NoPlace /\ NoId \notin Ids /\ NoPlace \notin Addresses

VARIABLES
  gc,          (* is gcKeyRequests() running?                              *)
  store,       (* key store: the physical_path under which a key is known  *)
  requests,    (* pendingKeyRequests and pendingEncryptionKeyRequests      *)
  queue,       (* pendingEnvelopes and pendingEncryptionEnvelopes          *)
  correlated,  (* the range of correlationToAddress                        *)
  at,          (* how far the delivery of an envelope is, for which id     *)
  announce     (* how far an announcement is, and what it says             *)

vars == <<gc, store, requests, queue, correlated, at, announce>>

Requests == [open : BOOLEAN, over : BOOLEAN, retries : 0 .. Retries - 1]
Deliveries ==
  [step : {"new", "delivering", "found", "missing", "queued", "passed",
           "refused", "dropped"},
   id : Ids \cup {NoId}]
Announcements ==
  [step : {"idle", "adding", "added", "addingCorrelated", "addedCorrelated",
           "addingAddress", "addedAddress"},
   kid : Kids \cup {NoId}, correlates : Addresses \cup {NoId},
   address : Addresses \cup {NoId}]

TypeOK ==
  /\ gc \in BOOLEAN
  /\ store \in [Kids -> Places]
  /\ requests \in [Tables -> [Ids -> Requests]]
  /\ queue \in [Tables -> [Ids -> SUBSET Envelopes]]
  /\ correlated \in SUBSET Addresses
  /\ at \in [Envelopes -> Deliveries]
  /\ announce \in [Announcers -> Announcements]

NoRequest == [open |-> FALSE, over |-> FALSE, retries |-> 0]
NoAnnounce ==
  [step |-> "idle", kid |-> NoId, correlates |-> NoId, address |-> NoId]

Init ==
  /\ gc = TRUE
  /\ store = [k \in Kids |-> NoPlace]
  /\ requests = [t \in Tables |-> [i \in Ids |-> NoRequest]]
  /\ queue = [t \in Tables |-> [i \in Ids |-> {}]]
  /\ correlated = {}
  /\ at = [e \in Envelopes |-> [step |-> "new", id |-> NoId]]
  /\ announce = [a \in Announcers |-> NoAnnounce]
-----------------------------------------------------------------------------
(* node.deliver() as far as the security handler: look up, then verify,    *)
(* seal or queue.                                                          *)

Arrive(e) ==
  /\ at[e].step = "new"
  /\ at' = [at EXCEPT ![e] = [step |-> "delivering", id |-> NoId]]
  /\ UNCHANGED <<gc, store, requests, queue, correlated, announce>>

(* lookupRecipientEncryptionKey(): the address first, then its path.       *)
KeysFor(address) ==
  LET exact == {k \in Kids : store[k] = address}
  IN  IF exact # {} THEN exact ELSE {k \in Kids : store[k] = Path}

LookUp(e) ==
  /\ at[e].step = "delivering"
  /\ \/ /\ e \in Signed
        /\ at' = [at EXCEPT ![e] =
             [step |-> IF store[SignedBy[e]] # NoPlace THEN "found"
                       ELSE "missing",
              id |-> SignedBy[e]]]
     \/ /\ e \in Sealed /\ KeysFor(Recipient[e]) = {}
        /\ at' = [at EXCEPT ![e] =
             [step |-> "missing", id |-> Recipient[e]]]
     \/ /\ e \in Sealed
        /\ \E k \in KeysFor(Recipient[e]) :
             at' = [at EXCEPT ![e] = [step |-> "found", id |-> k]]
  /\ UNCHANGED <<gc, store, requests, queue, correlated, announce>>

(* verifyEnvelope() or encryptEnvelope() with a key that is still there;   *)
(* the signature may be wrong.                                             *)
Pass(e) ==
  /\ at[e].step = "found" /\ store[at[e].id] # NoPlace
  /\ \/ at' = [at EXCEPT ![e].step = "passed"]
     \/ e \in Signed /\ at' = [at EXCEPT ![e].step = "refused"]
  /\ UNCHANGED <<gc, store, requests, queue, correlated, announce>>

(* The key has gone since hasKey(): verifyEnvelope() throws.               *)
Refuse(e) ==
  /\ e \in Signed /\ at[e].step = "found" /\ store[at[e].id] = NoPlace
  /\ at' = [at EXCEPT ![e].step = "refused"]
  /\ UNCHANGED <<gc, store, requests, queue, correlated, announce>>

Requested == [NoRequest EXCEPT !.open = TRUE]

(* A plausible slip: the table of the other kind of request is consulted.  *)
MaybeRequestByOther(t, i) ==
  LET other == CHOOSE o \in Tables : o # t
      due == HasParent /\ ~requests[other][i].open
  IN  /\ requests' = IF due THEN [requests EXCEPT ![t][i] = Requested]
                     ELSE requests
      /\ correlated' = IF due /\ i \in Addresses THEN correlated \cup {i}
                       ELSE correlated

(* maybeRequestSigningKey() and the two for encryption keys.  Whether the  *)
(* request reaches anybody is not the concern of this module.  Left out is *)
(* the branch where node.physicalPath throws and nothing is recorded: the  *)
(* path of this repository's nodes is always a string.                     *)
MaybeRequest(t, i) ==
  LET due == HasParent /\ ~requests[t][i].open
  IN  /\ requests' = IF due THEN [requests EXCEPT ![t][i] = Requested]
                     ELSE requests
      /\ correlated' = IF due /\ i \in Addresses THEN correlated \cup {i}
                       ELSE correlated

TableOf(e) == IF e \in Signed THEN "signing" ELSE "encryption"

(* An envelope found to lack its key is queued although the key may have   *)
(* come since.  An encryption manager queues what it has no key for.       *)
Queue(e) ==
  /\ \/ at[e].step = "missing"
     \/ e \in Sealed /\ at[e].step = "found" /\ store[at[e].id] = NoPlace
  /\ LET t == TableOf(e)
         i == at[e].id
     IN  /\ queue' = [queue EXCEPT ![t][i] = @ \cup {e}]
         /\ MaybeRequest(t, i)
  /\ at' = [at EXCEPT ![e].step = "queued"]
  /\ UNCHANGED <<gc, store, announce>>
-----------------------------------------------------------------------------
(* acceptKeyAnnounce().                                                    *)

(* The keys it carries have passed the validator.                          *)
AnnounceArrives(a) ==
  /\ announce[a].step = "idle"
  /\ \E k \in Kids, c, x \in Addresses \cup {NoId} :
       announce' = [announce EXCEPT ![a] =
         [step |-> "adding", kid |-> k, correlates |-> c, address |-> x]]
  /\ UNCHANGED <<gc, store, requests, queue, correlated, at>>

(* addKeys() of the store: a key has one path, the last one; older keys of *)
(* the same place and use are removed; a key that is not valid is ignored. *)
Stored(k, place) ==
  \/ UNCHANGED store
  \/ \E gone \in SUBSET (Kids \ {k}) :
       store' = [j \in Kids |-> IF j = k THEN place
                                ELSE IF j \in gone THEN NoPlace ELSE store[j]]

Place(m) == CASE m.step = "adding"           -> Path
              [] m.step = "addingCorrelated" -> m.correlates
              [] m.step = "addingAddress"    -> m.address
Adding == {"adding", "addingCorrelated", "addingAddress"}
Added(step) == CASE step = "adding"           -> "added"
                 [] step = "addingCorrelated" -> "addedCorrelated"
                 [] step = "addingAddress"    -> "addedAddress"

AddKeys(a) ==
  /\ announce[a].step \in Adding
  /\ Stored(announce[a].kid, Place(announce[a]))
  /\ announce' = [announce EXCEPT ![a].step = Added(@)]
  /\ UNCHANGED <<gc, requests, queue, correlated, at>>

(* addKeys() throws (a path that does not fit the origin): the rest of the *)
(* announcement is skipped, unless it was about the announced address.     *)
AddKeysFails(a) ==
  /\ announce[a].step \in Adding \ {"addingAddress"}
  /\ announce' = [announce EXCEPT ![a] = NoAnnounce]
  /\ UNCHANGED <<gc, store, requests, queue, correlated, at>>

(* A plausible slip: the requests are closed, the queue is kept.           *)
ReleaseKeepingQueue(ts, i) ==
  /\ requests' = [t \in Tables |-> IF t \in ts
                    THEN [requests[t] EXCEPT ![i] = NoRequest]
                    ELSE requests[t]]
  /\ queue' = queue
  /\ at' = [e \in Envelopes |->
              IF \E t \in ts : e \in queue[t][i]
              THEN [step |-> "delivering", id |-> NoId] ELSE at[e]]

(* onNewKey(), onNewKeyForAddress(), onNewKeyForAddressByCorrelation(): in *)
(* the tables ts the request for i is closed, and what waits for i is      *)
(* delivered from the start.                                               *)
Release(ts, i) ==
  /\ requests' = [t \in Tables |-> IF t \in ts
                    THEN [requests[t] EXCEPT ![i] = NoRequest]
                    ELSE requests[t]]
  /\ queue' = [t \in Tables |-> IF t \in ts THEN [queue[t] EXCEPT ![i] = {}]
                                ELSE queue[t]]
  /\ at' = [e \in Envelopes |->
              IF \E t \in ts : e \in queue[t][i]
              THEN [step |-> "delivering", id |-> NoId] ELSE at[e]]

(* What follows for the address of the announcement m, handled or not by   *)
(* its correlation already.                                                *)
Onward(m, handled) ==
  IF m.address = NoId THEN NoAnnounce
  ELSE [m EXCEPT !.step = IF m.address = handled THEN "addedAddress"
                          ELSE "addingAddress"]

(* An id is removed when it is answered.  Ids are not counted: another     *)
(* request for the same address may have left its own.                     *)
NewKeys(a) ==
  LET m == announce[a]
  IN  /\ m.step = "added"
      /\ Release(Tables, m.kid)
      /\ correlated' \in {correlated, correlated \ {m.correlates}}
      /\ announce' = [announce EXCEPT ![a] =
           IF m.correlates \in correlated
           THEN [m EXCEPT !.step = "addingCorrelated"] ELSE Onward(m, NoId)]
      /\ UNCHANGED <<gc, store>>

NewKeyForCorrelation(a) ==
  LET m == announce[a]
  IN  /\ m.step = "addedCorrelated"
      /\ Release({"encryption"}, m.correlates)
      /\ announce' = [announce EXCEPT ![a] = Onward(m, m.correlates)]
      /\ UNCHANGED <<gc, store, correlated>>

NewKeyForAddress(a) ==
  /\ announce[a].step = "addedAddress"
  /\ Release({"encryption"}, announce[a].address)
  /\ announce' = [announce EXCEPT ![a] = NoAnnounce]
  /\ UNCHANGED <<gc, store, correlated>>
-----------------------------------------------------------------------------
(* gcKeyRequests() and stop().                                             *)

(* Five seconds have passed since the request was made or renewed.         *)
Expire(t, i) ==
  /\ requests[t][i].open /\ ~requests[t][i].over
  /\ requests' = [requests EXCEPT ![t][i].over = TRUE]
  /\ UNCHANGED <<gc, store, queue, correlated, at, announce>>

Renewable(r) == r.retries + 1 < Retries
(* A plausible slip: retries are not counted.                              *)
RenewedForever(r) == [r EXCEPT !.over = FALSE]
Renewed(r) == [r EXCEPT !.over = FALSE, !.retries = @ + 1]

(* The sweep of both tables.  The retry asks for a request that is in the  *)
(* table already, so nothing is sent.  Nobody is told of what is dropped.  *)
Sweep ==
  LET over(t, i)  == requests[t][i].over
      fails(t, i) == over(t, i) /\ ~Renewable(requests[t][i])
  IN  /\ gc
      /\ \E t \in Tables, i \in Ids : over(t, i)
      /\ requests' = [t \in Tables |-> [i \in Ids |->
           IF fails(t, i) THEN NoRequest
           ELSE IF over(t, i) THEN Renewed(requests[t][i])
           ELSE requests[t][i]]]
      /\ queue' = [t \in Tables |-> [i \in Ids |->
           IF fails(t, i) THEN {} ELSE queue[t][i]]]
      /\ at' = [e \in Envelopes |->
           IF \E t \in Tables, i \in Ids : fails(t, i) /\ e \in queue[t][i]
           THEN [at[e] EXCEPT !.step = "dropped"] ELSE at[e]]
      /\ correlated' = {i \in correlated : ~fails("encryption", i)}
      /\ UNCHANGED <<gc, store, announce>>

(* The task is cancelled and clears all maps on its way out.               *)
Stop ==
  /\ gc /\ gc' = FALSE
  /\ requests' = [t \in Tables |-> [i \in Ids |-> NoRequest]]
  /\ queue' = [t \in Tables |-> [i \in Ids |-> {}]]
  /\ correlated' = {}
  /\ at' = [e \in Envelopes |->
       IF at[e].step = "queued" THEN [at[e] EXCEPT !.step = "dropped"]
       ELSE at[e]]
  /\ UNCHANGED <<store, announce>>
-----------------------------------------------------------------------------
(* removeKeysForPath(): a child that binds again.                          *)

KeysRemoved ==
  /\ \E gone \in (SUBSET Kids) \ {{}} :
       /\ \A k \in gone : store[k] # NoPlace
       /\ store' = [k \in Kids |-> IF k \in gone THEN NoPlace ELSE store[k]]
  /\ UNCHANGED <<gc, requests, queue, correlated, at, announce>>
-----------------------------------------------------------------------------
Deliver(e) == LookUp(e) \/ Pass(e) \/ Refuse(e) \/ Queue(e)
Announcing(a) ==
  AddKeys(a) \/ NewKeys(a) \/ NewKeyForCorrelation(a) \/ NewKeyForAddress(a)

Next ==
  \/ \E e \in Envelopes : Arrive(e) \/ Deliver(e)
  \/ \E a \in Announcers :
       AnnounceArrives(a) \/ Announcing(a) \/ AddKeysFails(a)
  \/ \E t \in Tables, i \in Ids : Expire(t, i)
  \/ Sweep \/ Stop \/ KeysRemoved

Spec == Init /\ [][Next]_vars

(* Time passes and the sweep runs every ten seconds.  Nothing is assumed of *)
(* those who may answer.                                                   *)
Fairness ==
  /\ \A t \in Tables, i \in Ids : WF_vars(Expire(t, i))
  /\ WF_vars(Sweep)

FairSpec == Spec /\ Fairness
-----------------------------------------------------------------------------
(* Whatever waits has a request that will be answered or given up, and no  *)
(* request is kept up for nothing: the two tables and the two queues are   *)
(* changed by four different handlers, between awaits.                     *)
Matched ==
  HasParent => \A t \in Tables, i \in Ids :
                 requests[t][i].open <=> queue[t][i] # {}

(* An envelope waits in one place, of its own kind, and only while its     *)
(* delivery is suspended: one that is being delivered, has been delivered  *)
(* or dropped can never be delivered again by a late announcement.         *)
WaitsOnce ==
  \A e \in Envelopes, t \in Tables, i \in Ids :
    e \in queue[t][i] <=>
      (at[e].step = "queued" /\ t = TableOf(e) /\ i = at[e].id)

(* No envelope waits for ever: it is delivered again or dropped.           *)
WaitEnds ==
  \A e \in Envelopes :
    (gc /\ HasParent /\ at[e].step = "queued")
      ~> (~gc \/ at[e].step # "queued")
=============================================================================
