-------------------------- MODULE KeyExchangeProofs -------------------------
(***************************************************************************)
(* The envelopes that wait for keys: for any envelopes, keys, addresses,   *)
(* retries and announcements in progress, whatever the order of the        *)
(* handlers between their awaits.                                          *)
(***************************************************************************)
EXTENDS KeyExchange, TLAPS

(* What an announcement still has to do is about something that it has.    *)
Announced ==
  \A a \in Announcers :
    LET m == announce[a]
    IN  /\ m.step # "idle" => m.kid \in Kids
        /\ m.step \in {"addingCorrelated", "addedCorrelated"} =>
             m.correlates \in Addresses
        /\ m.step \in {"addingAddress", "addedAddress"} =>
             m.address \in Addresses

(* What an envelope was found to have or to lack is known.                 *)
Known ==
  \A e \in Envelopes :
    /\ at[e].step \in {"found", "missing", "queued"} => at[e].id \in Ids
    /\ at[e].step = "found" => at[e].id \in Kids

IInv == TypeOK /\ Announced /\ Known /\ Matched /\ WaitsOnce
-----------------------------------------------------------------------------
(* The delivery of an envelope goes on.                                    *)
LEMMA DeliverySet ==
  ASSUME at \in [Envelopes -> Deliveries], NEW e \in Envelopes,
         NEW step \in {"new", "delivering", "found", "missing", "queued",
                       "passed", "refused", "dropped"}
  PROVE  LET f == [at EXCEPT ![e].step = step]
         IN  /\ f \in [Envelopes -> Deliveries]
             /\ \A d \in Envelopes : d # e => f[d] = at[d]
             /\ f[e].step = step /\ f[e].id = at[e].id
<1>1. at[e] \in Deliveries
  OBVIOUS
<1>2. [at[e] EXCEPT !.step = step] \in Deliveries
  BY <1>1 DEF Deliveries
<1>3. QED
  BY <1>1, <1>2 DEF Deliveries

(* Steps of the delivery alone, of an envelope that does not wait.         *)
LEMMA DeliveryKeeps ==
  ASSUME IInv, NEW e \in Envelopes,
         Arrive(e) \/ LookUp(e) \/ Pass(e) \/ Refuse(e)
  PROVE  IInv'
<1>1. /\ UNCHANGED <<gc, store, requests, queue, correlated, announce>>
      /\ at[e].step # "queued"
  BY DEF Arrive, LookUp, Pass, Refuse
<1>2. /\ at' \in [Envelopes -> Deliveries]
      /\ \A d \in Envelopes : d # e => at'[d] = at[d]
      /\ at'[e].step # "queued"
      /\ at'[e].step \in {"found", "missing"} => at'[e].id \in Ids
      /\ at'[e].step = "found" => at'[e].id \in Kids
  <2>0. at \in [Envelopes -> Deliveries] /\ at[e] \in Deliveries
    BY DEF IInv, TypeOK
  <2>1. CASE Arrive(e)
    BY <2>0, <2>1 DEF Arrive, Deliveries
  <2>2. CASE LookUp(e)
    <3>1. PICK step \in {"found", "missing"}, id \in Ids :
            /\ at' = [at EXCEPT ![e] = [step |-> step, id |-> id]]
            /\ step = "found" => id \in Kids
      BY <2>2, EnvelopeAssumption DEF LookUp, KeysFor, Ids
    <3>2. [step |-> step, id |-> id] \in Deliveries
      BY DEF Deliveries
    <3>3. QED
      BY <2>0, <3>1, <3>2
  <2>3. CASE Pass(e) \/ Refuse(e)
    <3>1. \/ at' = [at EXCEPT ![e].step = "passed"]
          \/ at' = [at EXCEPT ![e].step = "refused"]
      BY <2>3 DEF Pass, Refuse
    <3>2. CASE at' = [at EXCEPT ![e].step = "passed"]
      BY <2>0, <3>2, DeliverySet
    <3>3. CASE at' = [at EXCEPT ![e].step = "refused"]
      BY <2>0, <3>3, DeliverySet
    <3>4. QED
      BY <3>1, <3>2, <3>3
  <2>4. QED
    BY <2>1, <2>2, <2>3
<1>3. TypeOK' /\ Announced'
  BY <1>1, <1>2 DEF IInv, TypeOK, Announced
<1>4. Known' /\ Matched'
  BY <1>1, <1>2 DEF IInv, Known, Matched
<1>5. WaitsOnce'
  BY <1>1, <1>2 DEF IInv, WaitsOnce
<1>6. QED
  BY <1>3, <1>4, <1>5 DEF IInv

(* An envelope that has no key is queued, and there is a request.          *)
LEMMA QueueKeeps ==
  ASSUME IInv, NEW e \in Envelopes, Queue(e)
  PROVE  IInv'
<1> DEFINE t == TableOf(e)
           i == at[e].id
<1>1. t \in Tables /\ i \in Ids /\ at[e].step # "queued"
  BY DEF IInv, Known, Queue, TableOf, Tables
<1>2. /\ queue' = [queue EXCEPT ![t][i] = @ \cup {e}]
      /\ MaybeRequest(t, i)
      /\ at' = [at EXCEPT ![e].step = "queued"]
      /\ UNCHANGED <<gc, store, announce>>
  BY DEF Queue
<1>3. /\ at' \in [Envelopes -> Deliveries]
      /\ \A d \in Envelopes : d # e => at'[d] = at[d]
      /\ at'[e].step = "queued" /\ at'[e].id = i
  <2>1. at \in [Envelopes -> Deliveries]
    BY DEF IInv, TypeOK
  <2>2. QED
    BY <1>2, <2>1, DeliverySet
<1>4. /\ queue' \in [Tables -> [Ids -> SUBSET Envelopes]]
      /\ \A u \in Tables, j \in Ids :
           queue'[u][j] = IF u = t /\ j = i THEN queue[t][i] \cup {e}
                          ELSE queue[u][j]
  BY <1>1, <1>2 DEF IInv, TypeOK
<1>5. /\ requests' \in [Tables -> [Ids -> Requests]]
      /\ \A u \in Tables, j \in Ids :
           u # t \/ j # i => requests'[u][j] = requests[u][j]
      /\ HasParent => requests'[t][i].open
      /\ correlated' \in SUBSET Addresses
  <2>1. requests \in [Tables -> [Ids -> Requests]] /\ Requested \in Requests
    <3>1. NoRequest \in Requests
      BY EnvelopeAssumption DEF NoRequest, Requests
    <3>2. Requested = [NoRequest EXCEPT !.open = TRUE]
      BY DEF Requested
    <3>3. Requested \in Requests
      BY <3>1, <3>2 DEF Requests
    <3>4. QED
      BY <3>3 DEF IInv, TypeOK
  <2>2. Requested.open
    BY DEF Requested, NoRequest
  <2>3. CASE HasParent /\ ~requests[t][i].open
    <3>1. requests' = [requests EXCEPT ![t][i] = Requested]
      BY <1>2, <2>3 DEF MaybeRequest
    <3>2. correlated' \in SUBSET Addresses
      BY <1>2, <2>3 DEF MaybeRequest, IInv, TypeOK
    <3>3. QED
      BY <1>1, <2>1, <2>2, <3>1, <3>2
  <2>4. CASE ~(HasParent /\ ~requests[t][i].open)
    <3>1. requests' = requests /\ correlated' = correlated
      BY <1>2, <2>4 DEF MaybeRequest
    <3>2. QED
      BY <2>1, <2>4, <3>1 DEF IInv, TypeOK
  <2>5. QED
    BY <2>3, <2>4
<1>6. TypeOK'
  BY <1>2, <1>3, <1>4, <1>5 DEF IInv, TypeOK
<1>7. Announced'
  BY <1>2 DEF IInv, Announced
<1>8. Known'
  BY <1>1, <1>3 DEF IInv, Known
<1>9. Matched'
  <2>1. SUFFICES ASSUME HasParent, NEW u \in Tables, NEW j \in Ids
                 PROVE  requests'[u][j].open <=> queue'[u][j] # {}
    BY DEF Matched
  <2>2. CASE u = t /\ j = i
    <3>1. e \in queue'[u][j]
      BY <1>1, <1>4, <2>2
    <3>2. requests'[u][j].open
      BY <1>5, <2>1, <2>2
    <3>3. QED
      BY <3>1, <3>2
  <2>3. CASE u # t \/ j # i
    <3>1. requests[u][j].open <=> queue[u][j] # {}
      BY <2>1 DEF IInv, Matched
    <3>2. queue'[u][j] = queue[u][j]
      BY <1>4, <2>3
    <3>3. requests'[u][j] = requests[u][j]
      BY <1>5, <2>3
    <3>4. QED
      BY <3>1, <3>2, <3>3
  <2>4. QED
    BY <2>2, <2>3
<1>10. WaitsOnce'
  BY <1>1, <1>3, <1>4 DEF IInv, WaitsOnce
<1>11. QED
  BY <1>6, <1>7, <1>8, <1>9, <1>10 DEF IInv
-----------------------------------------------------------------------------
(* An announcement goes on.                                                *)
LEMMA AnnounceSet ==
  ASSUME announce \in [Announcers -> Announcements], Announced,
         NEW a \in Announcers, NEW m \in Announcements,
         m.step # "idle" => m.kid \in Kids,
         m.step \in {"addingCorrelated", "addedCorrelated"} =>
           m.correlates \in Addresses,
         m.step \in {"addingAddress", "addedAddress"} =>
           m.address \in Addresses,
         announce' = [announce EXCEPT ![a] = m]
  PROVE  announce' \in [Announcers -> Announcements] /\ Announced'
<1>1. announce' \in [Announcers -> Announcements]
  OBVIOUS
<1>2. \A b \in Announcers : announce'[b] = IF b = a THEN m ELSE announce[b]
  OBVIOUS
<1>3. QED
  BY <1>1, <1>2 DEF Announced

(* The announcement that says nothing.                                     *)
LEMMA Silent ==
  NoAnnounce \in Announcements /\ NoAnnounce.step = "idle"
BY DEF NoAnnounce, Announcements

(* The step of an announcement is replaced.                                *)
LEMMA AnnounceStep ==
  ASSUME NEW m \in Announcements,
         NEW step \in {"idle", "adding", "added", "addingCorrelated",
                       "addedCorrelated", "addingAddress", "addedAddress"}
  PROVE  LET n == [m EXCEPT !.step = step]
         IN  /\ n \in Announcements /\ n.step = step
             /\ n.kid = m.kid /\ n.correlates = m.correlates
             /\ n.address = m.address
BY DEF Announcements

(* Announcements that arrive, fail or put a key into the store.            *)
LEMMA AnnounceKeeps ==
  ASSUME IInv, NEW a \in Announcers,
         AnnounceArrives(a) \/ AddKeys(a) \/ AddKeysFails(a)
  PROVE  IInv'
<1>1. UNCHANGED <<gc, requests, queue, correlated, at>>
  BY DEF AnnounceArrives, AddKeys, AddKeysFails
<1>2. /\ announce \in [Announcers -> Announcements] /\ Announced
      /\ announce[a] \in Announcements
  BY DEF IInv, TypeOK
<1>3. announce' \in [Announcers -> Announcements] /\ Announced'
  <2>1. CASE AnnounceArrives(a)
    <3>1. PICK k \in Kids, c \in Addresses \cup {NoId},
               x \in Addresses \cup {NoId} :
            announce' = [announce EXCEPT ![a] =
              [step |-> "adding", kid |-> k, correlates |-> c,
               address |-> x]]
      BY <2>1 DEF AnnounceArrives
    <3> DEFINE m == [step |-> "adding", kid |-> k, correlates |-> c,
                     address |-> x]
    <3>2. m \in Announcements /\ m.step = "adding" /\ m.kid \in Kids
      BY DEF Announcements
    <3>3. QED
      BY <1>2, <3>1, <3>2, AnnounceSet
  <2>2. CASE AddKeysFails(a)
    <3>1. announce' = [announce EXCEPT ![a] = NoAnnounce]
      BY <2>2 DEF AddKeysFails
    <3>2. QED
      BY <1>2, <3>1, Silent, AnnounceSet
  <2>3. CASE AddKeys(a)
    <3>1. announce[a].step \in Adding
      BY <2>3 DEF AddKeys
    <3> DEFINE step == Added(announce[a].step)
               m    == [announce[a] EXCEPT !.step = step]
    <3>2. /\ step \in {"added", "addedCorrelated", "addedAddress"}
          /\ step = "addedCorrelated" =>
               announce[a].step = "addingCorrelated"
          /\ step = "addedAddress" => announce[a].step = "addingAddress"
      BY <3>1 DEF Added, Adding
    <3>3. announce' = [announce EXCEPT ![a] = m]
      BY <1>2, <2>3 DEF AddKeys
    <3> HIDE DEF step
    <3>4. /\ m \in Announcements /\ m.step = step
          /\ m.kid = announce[a].kid
          /\ m.correlates = announce[a].correlates
          /\ m.address = announce[a].address
      BY <1>2, <3>2 DEF Announcements
    <3>5. /\ m.kid \in Kids
          /\ m.step = "addedCorrelated" => m.correlates \in Addresses
          /\ m.step = "addedAddress" => m.address \in Addresses
      BY <1>2, <3>1, <3>2, <3>4 DEF Announced, Adding
    <3>6. m.step \notin {"addingCorrelated", "addingAddress", "idle"}
      BY <3>2, <3>4
    <3> HIDE DEF m
    <3>7. QED
      BY <1>2, <3>3, <3>4, <3>5, <3>6, AnnounceSet
  <2>4. QED
    BY <2>1, <2>2, <2>3
<1>4. store' \in [Kids -> Places]
  <2>1. CASE AnnounceArrives(a) \/ AddKeysFails(a)
    BY <2>1 DEF AnnounceArrives, AddKeysFails, IInv, TypeOK
  <2>2. CASE AddKeys(a)
    <3>1. store \in [Kids -> Places] /\ NoPlace \in Places
      BY DEF IInv, TypeOK, Places
    <3>2. Place(announce[a]) \in Places
      BY <1>2, <2>2 DEF AddKeys, Adding, Place, Places, Announced
    <3>3. Stored(announce[a].kid, Place(announce[a]))
      BY <2>2 DEF AddKeys
    <3>4. QED
      BY <3>1, <3>2, <3>3 DEF Stored
  <2>3. QED
    BY <2>1, <2>2
<1>5. TypeOK'
  BY <1>1, <1>3, <1>4 DEF IInv, TypeOK
<1>6. Known' /\ Matched' /\ WaitsOnce'
  BY <1>1 DEF IInv, Known, Matched, WaitsOnce
<1>7. QED
  BY <1>3, <1>5, <1>6 DEF IInv

(* What waits for i in the tables ts is delivered from the start: nothing  *)
(* that waits elsewhere is touched.                                        *)
LEMMA ReleaseKeeps ==
  ASSUME IInv, NEW ts \in SUBSET Tables, NEW i \in Ids, Release(ts, i)
  PROVE  /\ requests' \in [Tables -> [Ids -> Requests]]
         /\ queue' \in [Tables -> [Ids -> SUBSET Envelopes]]
         /\ at' \in [Envelopes -> Deliveries]
         /\ Known' /\ Matched' /\ WaitsOnce'
<1>1. /\ requests \in [Tables -> [Ids -> Requests]]
      /\ queue \in [Tables -> [Ids -> SUBSET Envelopes]]
      /\ at \in [Envelopes -> Deliveries]
  BY DEF IInv, TypeOK
<1>2. NoRequest \in Requests /\ NoRequest.open = FALSE
  BY EnvelopeAssumption DEF NoRequest, Requests
<1>3. /\ requests' \in [Tables -> [Ids -> Requests]]
      /\ \A t \in Tables, j \in Ids :
           requests'[t][j] = IF t \in ts /\ j = i THEN NoRequest
                             ELSE requests[t][j]
  BY <1>1, <1>2 DEF Release
<1>4. /\ queue' \in [Tables -> [Ids -> SUBSET Envelopes]]
      /\ \A t \in Tables, j \in Ids :
           queue'[t][j] = IF t \in ts /\ j = i THEN {} ELSE queue[t][j]
  BY <1>1 DEF Release
<1> DEFINE again == [step |-> "delivering", id |-> NoId]
           free(e) == \E t \in ts : e \in queue[t][i]
<1>5. again \in Deliveries /\ again.step = "delivering"
  BY DEF Deliveries
<1>6. /\ at' \in [Envelopes -> Deliveries]
      /\ \A e \in Envelopes : free(e) => at'[e] = again
      /\ \A e \in Envelopes : ~free(e) => at'[e] = at[e]
  BY <1>1, <1>5 DEF Release
<1>7. Known'
  <2>1. SUFFICES ASSUME NEW e \in Envelopes
                 PROVE  /\ at'[e].step \in {"found", "missing", "queued"} =>
                             at'[e].id \in Ids
                        /\ at'[e].step = "found" => at'[e].id \in Kids
    BY DEF Known
  <2>2. CASE free(e)
    BY <1>5, <1>6, <2>2
  <2>3. CASE ~free(e)
    BY <1>6, <2>3 DEF IInv, Known
  <2>4. QED
    BY <2>2, <2>3
<1>8. Matched'
  BY <1>2, <1>3, <1>4 DEF IInv, Matched
<1>9. WaitsOnce'
  <2>1. SUFFICES ASSUME NEW e \in Envelopes, NEW t \in Tables, NEW j \in Ids
                 PROVE  e \in queue'[t][j] <=>
                          (at'[e].step = "queued" /\ t = TableOf(e)
                             /\ j = at'[e].id)
    BY DEF WaitsOnce
  <2>2. e \in queue[t][j] <=>
          (at[e].step = "queued" /\ t = TableOf(e) /\ j = at[e].id)
    BY DEF IInv, WaitsOnce
  <2>3. CASE free(e)
    <3>1. TableOf(e) \in ts /\ at[e].id = i
      BY <2>3 DEF IInv, WaitsOnce
    <3>2. e \notin queue'[t][j]
      BY <1>4, <2>2, <3>1
    <3>3. QED
      BY <1>5, <1>6, <2>3, <3>2
  <2>4. CASE ~free(e)
    <3>1. at'[e] = at[e]
      BY <1>6, <2>4
    <3>2. e \in queue'[t][j] <=> e \in queue[t][j]
      BY <1>4, <2>4
    <3>3. QED
      BY <2>2, <3>1, <3>2
  <2>5. QED
    BY <2>3, <2>4
<1>10. QED
  BY <1>3, <1>4, <1>6, <1>7, <1>8, <1>9

(* What follows for the announced address is about one.                    *)
LEMMA OnwardIsAnnounced ==
  ASSUME NEW m \in Announcements, m.kid \in Kids, NEW handled
  PROVE  LET n == Onward(m, handled)
         IN  /\ n \in Announcements
             /\ n.step \in {"idle", "addingAddress", "addedAddress"}
             /\ n.step # "idle" => n.kid \in Kids
             /\ n.step # "idle" => n.address \in Addresses
<1>1. CASE m.address = NoId
  BY <1>1, Silent DEF Onward
<1>2. CASE m.address # NoId
  <2>1. m.address \in Addresses
    BY <1>2 DEF Announcements
  <2>2. CASE m.address = handled
    <3> DEFINE n == [m EXCEPT !.step = "addedAddress"]
    <3>1. Onward(m, handled) = n
      BY <1>2, <2>2 DEF Onward
    <3>2. /\ n \in Announcements /\ n.kid = m.kid /\ n.address = m.address
          /\ n.step \in {"addingAddress", "addedAddress"}
      BY AnnounceStep
    <3> HIDE DEF n
    <3>3. QED
      BY <2>1, <3>1, <3>2
  <2>3. CASE m.address # handled
    <3> DEFINE n == [m EXCEPT !.step = "addingAddress"]
    <3>1. Onward(m, handled) = n
      BY <1>2, <2>3 DEF Onward
    <3>2. /\ n \in Announcements /\ n.kid = m.kid /\ n.address = m.address
          /\ n.step \in {"addingAddress", "addedAddress"}
      BY AnnounceStep
    <3> HIDE DEF n
    <3>3. QED
      BY <2>1, <3>1, <3>2
  <2>4. QED
    BY <2>2, <2>3
<1>3. QED
  BY <1>1, <1>2

(* The handlers that close requests and deliver what waited.               *)
LEMMA NewKeysKeep ==
  ASSUME IInv, NEW a \in Announcers,
         NewKeys(a) \/ NewKeyForCorrelation(a) \/ NewKeyForAddress(a)
  PROVE  IInv'
<1> DEFINE m == announce[a]
<1>1. /\ announce \in [Announcers -> Announcements] /\ Announced
      /\ m \in Announcements /\ correlated \in SUBSET Addresses
  BY DEF IInv, TypeOK
<1>2. /\ m.step # "idle" => m.kid \in Kids
      /\ m.step = "addedCorrelated" => m.correlates \in Addresses
      /\ m.step = "addedAddress" => m.address \in Addresses
  BY <1>1 DEF Announced
<1>3. \E ts \in SUBSET Tables, i \in Ids : Release(ts, i)
  BY <1>2 DEF NewKeys, NewKeyForCorrelation, NewKeyForAddress, Ids, Tables
<1>4. UNCHANGED <<gc, store>> /\ correlated' \in SUBSET Addresses
  BY <1>1 DEF NewKeys, NewKeyForCorrelation, NewKeyForAddress
<1>5. announce' \in [Announcers -> Announcements] /\ Announced'
  <2>1. CASE NewKeys(a)
    <3>1. m.kid \in Kids
      BY <1>2, <2>1 DEF NewKeys
    <3>2. CASE m.correlates \in correlated
      <4>1. announce' =
              [announce EXCEPT ![a] = [m EXCEPT !.step = "addingCorrelated"]]
        BY <2>1, <3>2 DEF NewKeys
      <4>2. m.correlates \in Addresses
        BY <1>1, <3>2
      <4> DEFINE n == [m EXCEPT !.step = "addingCorrelated"]
      <4>3. /\ n \in Announcements /\ n.step = "addingCorrelated"
            /\ n.kid \in Kids /\ n.correlates \in Addresses
        BY <1>1, <3>1, <4>2, AnnounceStep
      <4>4. announce' = [announce EXCEPT ![a] = n]
        BY <4>1
      <4> HIDE DEF n, m
      <4>5. QED
        BY <1>1, <4>3, <4>4, AnnounceSet
    <3>3. CASE m.correlates \notin correlated
      <4> DEFINE n == Onward(m, NoId)
      <4>1. announce' = [announce EXCEPT ![a] = n]
        BY <2>1, <3>3 DEF NewKeys
      <4>2. /\ n \in Announcements
            /\ n.step \in {"idle", "addingAddress", "addedAddress"}
            /\ n.step # "idle" => n.kid \in Kids
            /\ n.step # "idle" => n.address \in Addresses
        BY <1>1, <3>1, OnwardIsAnnounced
      <4> HIDE DEF n, m
      <4>3. QED
        BY <1>1, <4>1, <4>2, AnnounceSet
    <3>4. QED
      BY <3>2, <3>3
  <2>2. CASE NewKeyForCorrelation(a)
    <3> DEFINE n == Onward(m, m.correlates)
    <3>1. announce' = [announce EXCEPT ![a] = n]
      BY <2>2 DEF NewKeyForCorrelation
    <3>2. m.kid \in Kids
      BY <1>2, <2>2 DEF NewKeyForCorrelation
    <3>3. /\ n \in Announcements
          /\ n.step \in {"idle", "addingAddress", "addedAddress"}
          /\ n.step # "idle" => n.kid \in Kids
          /\ n.step # "idle" => n.address \in Addresses
      BY <1>1, <3>2, OnwardIsAnnounced
    <3> HIDE DEF n, m
    <3>4. QED
      BY <1>1, <3>1, <3>3, AnnounceSet
  <2>3. CASE NewKeyForAddress(a)
    <3>1. announce' = [announce EXCEPT ![a] = NoAnnounce]
      BY <2>3 DEF NewKeyForAddress
    <3>2. QED
      BY <1>1, <3>1, Silent, AnnounceSet
  <2>4. QED
    BY <2>1, <2>2, <2>3
<1>6. /\ requests' \in [Tables -> [Ids -> Requests]]
      /\ queue' \in [Tables -> [Ids -> SUBSET Envelopes]]
      /\ at' \in [Envelopes -> Deliveries]
      /\ Known' /\ Matched' /\ WaitsOnce'
  BY <1>3, ReleaseKeeps
<1>7. TypeOK'
  BY <1>4, <1>5, <1>6 DEF IInv, TypeOK
<1>8. QED
  BY <1>5, <1>6, <1>7 DEF IInv
-----------------------------------------------------------------------------
(* Time passes for a request.                                              *)
LEMMA ExpireKeeps ==
  ASSUME IInv, NEW t \in Tables, NEW i \in Ids, Expire(t, i)
  PROVE  IInv'
<1>1. /\ UNCHANGED <<gc, store, queue, correlated, at, announce>>
      /\ requests' = [requests EXCEPT ![t][i].over = TRUE]
  BY DEF Expire
<1> DEFINE r == [requests[t][i] EXCEPT !.over = TRUE]
<1>2. /\ requests \in [Tables -> [Ids -> Requests]]
      /\ requests[t][i] \in Requests
  BY DEF IInv, TypeOK
<1>3. r \in Requests /\ r.open = requests[t][i].open
  BY <1>2 DEF Requests
<1>4. requests' = [requests EXCEPT ![t][i] = r]
  BY <1>1, <1>2
<1> HIDE DEF r
<1>5. /\ requests' \in [Tables -> [Ids -> Requests]]
      /\ \A u \in Tables, j \in Ids :
           requests'[u][j].open = requests[u][j].open
  BY <1>2, <1>3, <1>4
<1>6. TypeOK'
  BY <1>1, <1>5 DEF IInv, TypeOK
<1>7. Announced' /\ Known' /\ WaitsOnce'
  BY <1>1 DEF IInv, Announced, Known, WaitsOnce
<1>8. Matched'
  BY <1>1, <1>5 DEF IInv, Matched
<1>9. QED
  BY <1>6, <1>7, <1>8 DEF IInv

(* A request that is renewed has retries left.                             *)
LEMMA RenewedIsRequest ==
  ASSUME NEW r \in Requests, Renewable(r)
  PROVE  Renewed(r) \in Requests /\ Renewed(r).open = r.open
<1>1. r.retries + 1 \in 0 .. Retries - 1
  BY EnvelopeAssumption DEF Renewable, Requests
<1>2. Renewed(r) = [r EXCEPT !.over = FALSE, !.retries = r.retries + 1]
  BY DEF Renewed, Requests
<1>3. QED
  BY <1>1, <1>2 DEF Requests

(* Requests are given up together with what waits for them.                *)
LEMMA SweepKeeps ==
  ASSUME IInv, Sweep
  PROVE  IInv'
<1> DEFINE over(t, i)  == requests[t][i].over
           fails(t, i) == over(t, i) /\ ~Renewable(requests[t][i])
           gone(e) == \E t \in Tables, i \in Ids :
                        fails(t, i) /\ e \in queue[t][i]
<1>1. /\ UNCHANGED <<gc, store, announce>>
      /\ requests' = [t \in Tables |-> [i \in Ids |->
           IF fails(t, i) THEN NoRequest
           ELSE IF over(t, i) THEN Renewed(requests[t][i])
           ELSE requests[t][i]]]
      /\ queue' = [t \in Tables |-> [i \in Ids |->
           IF fails(t, i) THEN {} ELSE queue[t][i]]]
      /\ at' = [e \in Envelopes |->
           IF gone(e) THEN [at[e] EXCEPT !.step = "dropped"] ELSE at[e]]
      /\ correlated' \in SUBSET correlated
  BY DEF Sweep
<1>2. /\ requests \in [Tables -> [Ids -> Requests]]
      /\ queue \in [Tables -> [Ids -> SUBSET Envelopes]]
      /\ at \in [Envelopes -> Deliveries]
      /\ correlated \in SUBSET Addresses
  BY DEF IInv, TypeOK
<1>3. NoRequest \in Requests /\ NoRequest.open = FALSE
  BY EnvelopeAssumption DEF NoRequest, Requests
<1>4. ASSUME NEW t \in Tables, NEW i \in Ids
      PROVE  /\ requests'[t][i] \in Requests
             /\ fails(t, i) => requests'[t][i].open = FALSE
             /\ ~fails(t, i) => requests'[t][i].open = requests[t][i].open
             /\ fails(t, i) => queue'[t][i] = {}
             /\ ~fails(t, i) => queue'[t][i] = queue[t][i]
  <2>1. requests[t][i] \in Requests
    BY <1>2
  <2>2. /\ fails(t, i) => queue'[t][i] = {}
        /\ ~fails(t, i) => queue'[t][i] = queue[t][i]
    BY <1>1
  <2>3. CASE fails(t, i)
    <3>1. requests'[t][i] = NoRequest
      BY <1>1, <2>3
    <3>2. QED
      BY <1>3, <2>2, <2>3, <3>1
  <2>4. CASE ~fails(t, i) /\ over(t, i)
    <3>1. requests'[t][i] = Renewed(requests[t][i])
      BY <1>1, <2>4
    <3>2. Renewable(requests[t][i])
      BY <2>4
    <3>3. QED
      BY <2>1, <2>2, <2>4, <3>1, <3>2, RenewedIsRequest
  <2>5. CASE ~fails(t, i) /\ ~over(t, i)
    <3>1. requests'[t][i] = requests[t][i]
      BY <1>1, <2>5
    <3>2. QED
      BY <2>1, <2>2, <2>5, <3>1
  <2>6. QED
    BY <2>3, <2>4, <2>5
<1> HIDE DEF fails, over
<1>5. requests' \in [Tables -> [Ids -> Requests]]
  <2>1. \A t \in Tables, i \in Ids : requests'[t][i] \in Requests
    BY <1>4
  <2>2. QED
    BY <1>1, <2>1
<1>6. queue' \in [Tables -> [Ids -> SUBSET Envelopes]]
  BY <1>1, <1>2
<1>7. ASSUME NEW e \in Envelopes
      PROVE  /\ at'[e] \in Deliveries /\ at'[e].id = at[e].id
             /\ gone(e) => at'[e].step = "dropped"
             /\ ~gone(e) => at'[e] = at[e]
  <2>1. at[e] \in Deliveries
    BY <1>2
  <2>2. CASE gone(e)
    <3>1. at'[e] = [at[e] EXCEPT !.step = "dropped"]
      BY <1>1, <2>2
    <3>2. QED
      BY <2>1, <2>2, <3>1 DEF Deliveries
  <2>3. CASE ~gone(e)
    BY <1>1, <2>1, <2>3
  <2>4. QED
    BY <2>2, <2>3
<1>8. at' \in [Envelopes -> Deliveries]
  BY <1>1, <1>7
<1>9. TypeOK'
  BY <1>1, <1>2, <1>5, <1>6, <1>8 DEF IInv, TypeOK
<1>10. Announced'
  BY <1>1 DEF IInv, Announced
<1>11. Known'
  <2>1. SUFFICES ASSUME NEW e \in Envelopes
                 PROVE  /\ at'[e].step \in {"found", "missing", "queued"} =>
                             at'[e].id \in Ids
                        /\ at'[e].step = "found" => at'[e].id \in Kids
    BY DEF Known
  <2>2. CASE gone(e)
    BY <1>7, <2>2
  <2>3. CASE ~gone(e)
    BY <1>7, <2>3 DEF IInv, Known
  <2>4. QED
    BY <2>2, <2>3
<1>12. Matched'
  <2>1. SUFFICES ASSUME HasParent, NEW t \in Tables, NEW i \in Ids
                 PROVE  requests'[t][i].open <=> queue'[t][i] # {}
    BY DEF Matched
  <2>2. requests[t][i].open <=> queue[t][i] # {}
    BY <2>1 DEF IInv, Matched
  <2>3. QED
    BY <1>4, <2>2
<1>13. WaitsOnce'
  <2>1. SUFFICES ASSUME NEW e \in Envelopes, NEW t \in Tables, NEW i \in Ids
                 PROVE  e \in queue'[t][i] <=>
                          (at'[e].step = "queued" /\ t = TableOf(e)
                             /\ i = at'[e].id)
    BY DEF WaitsOnce
  <2>2. \A u \in Tables, j \in Ids :
          e \in queue[u][j] <=>
            (at[e].step = "queued" /\ u = TableOf(e) /\ j = at[e].id)
    BY DEF IInv, WaitsOnce
  <2>3. CASE gone(e)
    <3>1. PICK u \in Tables, j \in Ids : fails(u, j) /\ e \in queue[u][j]
      BY <2>3
    <3>2. u = TableOf(e) /\ j = at[e].id
      BY <2>2, <3>1
    <3>3. CASE t = u /\ i = j
      BY <1>4, <1>7, <2>3, <3>1, <3>3
    <3>4. CASE t # u \/ i # j
      <4>1. e \notin queue[t][i]
        BY <2>2, <3>2, <3>4
      <4>2. e \notin queue'[t][i]
        BY <1>4, <4>1
      <4>3. QED
        BY <1>7, <2>3, <4>2
    <3>5. QED
      BY <3>3, <3>4
  <2>4. CASE ~gone(e)
    <3>1. e \in queue'[t][i] <=> e \in queue[t][i]
      BY <1>4, <2>4
    <3>2. QED
      BY <1>7, <2>2, <2>4, <3>1
  <2>5. QED
    BY <2>3, <2>4
<1>14. QED
  BY <1>9, <1>10, <1>11, <1>12, <1>13 DEF IInv

(* The end of the node.                                                    *)
LEMMA StopKeeps ==
  ASSUME IInv, Stop
  PROVE  IInv'
<1>1. /\ gc' = FALSE /\ UNCHANGED <<store, announce>> /\ correlated' = {}
      /\ requests' = [t \in Tables |-> [i \in Ids |-> NoRequest]]
      /\ queue' = [t \in Tables |-> [i \in Ids |-> {}]]
      /\ at' = [e \in Envelopes |->
           IF at[e].step = "queued" THEN [at[e] EXCEPT !.step = "dropped"]
           ELSE at[e]]
  BY DEF Stop
<1>2. NoRequest \in Requests /\ NoRequest.open = FALSE
  BY EnvelopeAssumption DEF NoRequest, Requests
<1>3. ASSUME NEW e \in Envelopes
      PROVE  /\ at'[e] \in Deliveries /\ at'[e].step # "queued"
             /\ at'[e].step = at[e].step \/ at'[e].step = "dropped"
             /\ at'[e].id = at[e].id
  <2>1. at[e] \in Deliveries
    BY DEF IInv, TypeOK
  <2>2. CASE at[e].step = "queued"
    <3>1. at'[e] = [at[e] EXCEPT !.step = "dropped"]
      BY <1>1, <2>2
    <3>2. QED
      BY <2>1, <3>1 DEF Deliveries
  <2>3. CASE at[e].step # "queued"
    BY <1>1, <2>1, <2>3
  <2>4. QED
    BY <2>2, <2>3
<1>4. /\ requests' \in [Tables -> [Ids -> Requests]]
      /\ queue' \in [Tables -> [Ids -> SUBSET Envelopes]]
      /\ at' \in [Envelopes -> Deliveries]
  BY <1>1, <1>2, <1>3
<1>5. TypeOK'
  BY <1>1, <1>4 DEF IInv, TypeOK
<1>6. Announced' /\ Known'
  BY <1>1, <1>3 DEF IInv, Announced, Known
<1>7. Matched'
  BY <1>1, <1>2 DEF Matched
<1>8. WaitsOnce'
  BY <1>1, <1>3 DEF WaitsOnce
<1>9. QED
  BY <1>5, <1>6, <1>7, <1>8 DEF IInv

(* The store forgets keys.                                                 *)
LEMMA RemovalKeeps ==
  ASSUME IInv, KeysRemoved
  PROVE  IInv'
<1>1. UNCHANGED <<gc, requests, queue, correlated, at, announce>>
  BY DEF KeysRemoved
<1>2. store' \in [Kids -> Places]
  BY DEF KeysRemoved, IInv, TypeOK, Places
<1>3. TypeOK'
  BY <1>1, <1>2 DEF IInv, TypeOK
<1>4. Announced' /\ Known' /\ Matched' /\ WaitsOnce'
  BY <1>1 DEF IInv, Announced, Known, Matched, WaitsOnce
<1>5. QED
  BY <1>3, <1>4 DEF IInv
-----------------------------------------------------------------------------
(* Nothing waits and nothing is asked for in the beginning.                *)
LEMMA InitOK == Init => IInv
<1> SUFFICES ASSUME Init PROVE IInv
  OBVIOUS
<1>1. NoRequest \in Requests /\ NoRequest.open = FALSE
  BY EnvelopeAssumption DEF NoRequest, Requests
<1>2. [step |-> "new", id |-> NoId] \in Deliveries
  BY DEF Deliveries
<1>3. NoPlace \in Places
  BY DEF Places
<1>4. TypeOK
  BY <1>1, <1>2, <1>3, Silent DEF Init, TypeOK
<1>5. Announced /\ Known
  BY Silent DEF Init, Announced, Known
<1>6. Matched
  BY <1>1 DEF Init, Matched
<1>7. WaitsOnce
  BY DEF Init, WaitsOnce
<1>8. QED
  BY <1>4, <1>5, <1>6, <1>7 DEF IInv

(* One case per action.                                                    *)
LEMMA IInvKept == IInv /\ [Next]_vars => IInv'
<1> SUFFICES ASSUME IInv, [Next]_vars PROVE IInv'
  OBVIOUS
<1>1. ASSUME NEW e \in Envelopes, Arrive(e) \/ Deliver(e)
      PROVE  IInv'
  <2>1. CASE Queue(e)
    BY <2>1, QueueKeeps
  <2>2. CASE ~Queue(e)
    <3>1. Arrive(e) \/ LookUp(e) \/ Pass(e) \/ Refuse(e)
      BY <1>1, <2>2 DEF Deliver
    <3>2. QED
      BY <3>1, DeliveryKeeps
  <2>3. QED
    BY <2>1, <2>2
<1>2. ASSUME NEW a \in Announcers,
             AnnounceArrives(a) \/ Announcing(a) \/ AddKeysFails(a)
      PROVE  IInv'
  <2>1. CASE AnnounceArrives(a) \/ AddKeys(a) \/ AddKeysFails(a)
    BY <2>1, AnnounceKeeps
  <2>2. CASE NewKeys(a) \/ NewKeyForCorrelation(a) \/ NewKeyForAddress(a)
    BY <2>2, NewKeysKeep
  <2>3. QED
    BY <1>2, <2>1, <2>2 DEF Announcing
<1>3. ASSUME NEW t \in Tables, NEW i \in Ids, Expire(t, i)
      PROVE  IInv'
  BY <1>3, ExpireKeeps
<1>4. CASE Sweep \/ Stop \/ KeysRemoved
  BY <1>4, SweepKeeps, StopKeeps, RemovalKeeps
<1>5. CASE UNCHANGED vars
  BY <1>5 DEF vars, IInv, TypeOK, Announced, Known, Matched, WaitsOnce
<1>6. QED
  BY <1>1, <1>2, <1>3, <1>4, <1>5 DEF Next
-----------------------------------------------------------------------------
(* The invariant on which the others rest.                                 *)
THEOREM Inductive == Spec => []IInv
<1>1. QED
  BY InitOK, IInvKept, PTL DEF Spec

(* key-management-handler.ts keeps its maps, and the deliveries around it  *)
(* their variables, within their types.                                    *)
THEOREM TypeCorrect == Spec => []TypeOK
<1>1. IInv => TypeOK
  BY DEF IInv
<1>2. QED
  BY <1>1, Inductive, PTL

(* Under a parent, whatever waits for a key has a request that an answer   *)
(* or the sweep will end, and no request is kept up for nothing, however   *)
(* the handlers of announcements, look-ups and sweeps interleave.          *)
THEOREM WhatWaitsIsAskedFor == Spec => []Matched
<1>1. IInv => Matched
  BY DEF IInv
<1>2. QED
  BY <1>1, Inductive, PTL

(* An envelope waits in one place and only while its delivery is           *)
(* suspended: no announcement delivers it a second time.                   *)
THEOREM NothingIsReleasedTwice == Spec => []WaitsOnce
<1>1. IInv => WaitsOnce
  BY DEF IInv
<1>2. QED
  BY <1>1, Inductive, PTL
=============================================================================
