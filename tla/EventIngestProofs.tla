-------------------------- MODULE EventIngestProofs --------------------------
(****************************************************************************)
(* Proofs about EventIngest, for any batches, webhooks, instances, requests *)
(* and bounds: nothing is published, projected or dispatched before it is   *)
(* in the audit log, sessions never restart, and an answered batch is done. *)
(****************************************************************************)
EXTENDS EventIngest, TLAPS

(* A request that is under way has a batch, one that is past its INSERT has
   stored it, and one that projects an event projects one of its batch. *)
RequestStored(r) ==
    /\ req[r].pc # "idle" => req[r].n \in Posts /\ Batch(req[r].n) # None
    /\ req[r].pc \notin {"idle", "store"} => EventsOf(req[r].n) \subseteq audit
    /\ req[r].pc \in {"session", "tcts"} => req[r].k \in DOMAIN Batch(req[r].n)

UnderWayStored == \A r \in Requests : RequestStored(r)

(* What has been published is in the log. *)
PublishedStored ==
    \A n \in Posts : \A k \in 1 .. observed.published[n] : <<n, k>> \in audit

SessionsStored ==
    \A s \in Sessions :
        /\ session[s].started # None => session[s].started \in audit
        /\ session[s].ended # None => session[s].ended \in audit

DeliveriesStored == \A o \in outgoing \union delivery : o[1] \in audit

StoredInv ==
    TypeOK /\ UnderWayStored /\ PublishedStored /\ SessionsStored /\ DeliveriesStored

LEMMA BatchFacts ==
  ASSUME TypeOK, NEW n \in Posts, Batch(n) # None
  PROVE  /\ Batch(n) \in Seq(Reported)
         /\ Len(Batch(n)) \in Nat
         /\ DOMAIN Batch(n) = 1 .. Len(Batch(n))
         /\ EventsOf(n) \subseteq Ids
<1>1. Batch(n) \in Seq(Reported)
  BY IngestAssumption DEF TypeOK, Batch
<1>2. Len(Batch(n)) \in Nat /\ DOMAIN Batch(n) = 1 .. Len(Batch(n))
  BY <1>1
<1> QED
  BY <1>1, <1>2 DEF EventsOf, Ids

LEMMA EventFacts ==
  ASSUME TypeOK, NEW n \in Posts, Batch(n) # None, NEW k \in DOMAIN Batch(n)
  PROVE  k \in Nat \ {0} /\ Batch(n)[k] \in Reported
<1>1. Batch(n) \in Seq(Reported) /\ k \in 1 .. Len(Batch(n)) /\ Len(Batch(n)) \in Nat
  BY BatchFacts
<1> QED
  BY <1>1

(* The rows that the projection writes: the old one, or one that names the
   event as what started or ended it. *)
LEMMA ProjectedFacts ==
  ASSUME NEW row \in Rows, NEW id \in Ids
  PROVE  /\ Projected(row, id) \in Rows
         /\ Projected(row, id).started \in {row.started, id, None}
         /\ Projected(row, id).ended \in {row.ended, id, None}
<1>1. /\ Started(row, id) \in Rows
      /\ Started(row, id).started \in {row.started, id, None}
      /\ Started(row, id).ended \in {row.ended, id, None}
  BY DEF Started, Rows
<1>2. ASSUME NEW status \in {"complete", "failed"}
      PROVE  /\ Ended(row, id, status) \in Rows
             /\ Ended(row, id, status).started \in {row.started, id, None}
             /\ Ended(row, id, status).ended \in {row.ended, id, None}
  BY DEF Ended, Rows
<1> QED
  BY <1>1, <1>2 DEF Projected

LEMMA RecordFacts ==
  /\ \A f \in [db : Nat, crash : Nat, admin : Nat] :
        /\ f.db > 0 => [f EXCEPT !.db = f.db - 1] \in [db : Nat, crash : Nat, admin : Nat]
        /\ f.crash > 0 => [f EXCEPT !.crash = f.crash - 1] \in [db : Nat, crash : Nat, admin : Nat]
        /\ f.admin > 0 => [f EXCEPT !.admin = f.admin - 1] \in [db : Nat, crash : Nat, admin : Nat]
  /\ \A q \in RequestStates : \A pc \in {"list", "touch", "tcts"} :
        LET x == [q EXCEPT !.pc = pc] IN
        x \in RequestStates /\ x.pc = pc /\ x.n = q.n /\ x.hooks = q.hooks /\ x.k = q.k
  /\ NoRequest \in RequestStates
  BY DEF RequestStates, NoRequest

LEMMA InitInv == Init => StoredInv
<1> SUFFICES ASSUME Init PROVE StoredInv
  OBVIOUS
<1>1. TypeOK
  BY IngestAssumption, RecordFacts DEF Init, TypeOK, Rows, NoRow, Observations
<1>2. UnderWayStored
  BY DEF Init, UnderWayStored, RequestStored, NoRequest
<1>3. PublishedStored
  BY DEF Init, PublishedStored
<1>4. SessionsStored /\ DeliveriesStored
  BY DEF Init, SessionsStored, DeliveriesStored, NoRow
<1> QED
  BY <1>1, <1>2, <1>3, <1>4 DEF StoredInv

LEMMA BeginInv ==
  ASSUME StoredInv, NEW r \in Requests, NEW i \in Instances, NEW b \in Batches, Begin(r, i, b)
  PROVE  StoredInv'
<1> USE DEF StoredInv
<1>1. PICK n \in Posts :
        /\ At(r, "idle") /\ Batch(n) = None
        /\ post' = [post EXCEPT ![n] = [batch |-> b, inst |-> i]]
        /\ req' = [req EXCEPT ![r] = [pc |-> "store", n |-> n, hooks |-> {}, k |-> 0]]
        /\ observed' = [observed EXCEPT !.steady[n] = active]
        /\ UNCHANGED <<audit, session, active, delivery, outgoing, faults>>
  BY DEF Begin
<1>2. observed' \in Observations /\ observed'.published = observed.published
  BY <1>1 DEF TypeOK, Observations
<1>3. TypeOK'
  BY <1>1, <1>2 DEF TypeOK, RequestStates
<1>4. UnderWayStored'
  <2> SUFFICES ASSUME NEW q \in Requests PROVE RequestStored(q)'
    BY DEF UnderWayStored
  <2>1. CASE q = r
    BY <1>1, <2>1, IngestAssumption DEF TypeOK, Batch, RequestStored
  <2>2. CASE q # r
    <3>1. req'[q] = req[q]
      BY <1>1, <2>2 DEF TypeOK
    <3>2. req[q].pc # "idle" => Batch(req[q].n)' = Batch(req[q].n)
      BY <1>1, <3>1 DEF TypeOK, Batch, UnderWayStored, RequestStored
    <3> QED
      BY <1>1, <3>1, <3>2 DEF UnderWayStored, RequestStored, EventsOf
  <2> QED
    BY <2>1, <2>2
<1>5. PublishedStored'
  BY <1>1, <1>2 DEF PublishedStored
<1>6. SessionsStored' /\ DeliveriesStored'
  BY <1>1 DEF SessionsStored, DeliveriesStored
<1> QED
  BY <1>3, <1>4, <1>5, <1>6

(* A step that stores no less, posts nothing and changes at most request r
   keeps UnderWayStored when it keeps it for r. *)
LEMMA OthersUnderWay ==
  ASSUME UnderWayStored, post' = post, audit \subseteq audit', NEW r,
         \A q \in Requests \ {r} : req'[q] = req[q],
         r \in Requests => RequestStored(r)'
  PROVE  UnderWayStored'
<1> SUFFICES ASSUME NEW q \in Requests, q # r PROVE RequestStored(q)'
  BY DEF UnderWayStored
<1>1. req'[q] = req[q] /\ RequestStored(q)
  BY DEF UnderWayStored
<1> QED
  BY <1>1 DEF RequestStored, Batch, EventsOf

LEMMA StoreInv ==
  ASSUME StoredInv, NEW r \in Requests, Store(r) PROVE StoredInv'
<1> USE DEF StoredInv
<1> DEFINE n == req[r].n
<1>1. n \in Posts /\ Batch(n) # None
  BY DEF UnderWayStored, RequestStored, Store, At
<1>2. EventsOf(n) \subseteq Ids
  BY <1>1, BatchFacts
<1>3. /\ req' \in [Requests -> RequestStates]
      /\ req'[r].pc = "list" /\ req'[r].n = n
      /\ \A q \in Requests \ {r} : req'[q] = req[q]
  BY RecordFacts DEF Store, TypeOK
<1>4. TypeOK'
  BY <1>2, <1>3 DEF TypeOK, Store
<1>5. RequestStored(r)'
  BY <1>1, <1>3 DEF RequestStored, Store, Batch, EventsOf
<1>6. UnderWayStored'
  BY <1>3, <1>5, OthersUnderWay DEF Store, TypeOK
<1>7. PublishedStored' /\ SessionsStored' /\ DeliveriesStored'
  BY DEF PublishedStored, SessionsStored, DeliveriesStored, Store
<1> QED
  BY <1>4, <1>6, <1>7

LEMMA StoreFailsInv ==
  ASSUME StoredInv, NEW r \in Requests, StoreFails(r) PROVE StoredInv'
<1> USE DEF StoredInv
<1>1. req' = [req EXCEPT ![r] = NoRequest]
  BY DEF StoreFails, AfterStoreFailure
<1>2. TypeOK'
  BY <1>1, RecordFacts DEF TypeOK, StoreFails, DbFails
<1>3. RequestStored(r)'
  BY <1>1 DEF RequestStored, TypeOK, NoRequest
<1>4. UnderWayStored'
  BY <1>1, <1>3, OthersUnderWay DEF StoreFails, TypeOK
<1>5. PublishedStored' /\ SessionsStored' /\ DeliveriesStored'
  BY DEF PublishedStored, SessionsStored, DeliveriesStored, StoreFails
<1> QED
  BY <1>2, <1>4, <1>5

LEMMA ListWebhooksInv ==
  ASSUME StoredInv, NEW r \in Requests, ListWebhooks(r) PROVE StoredInv'
<1> USE DEF StoredInv
<1> DEFINE q == [pc |-> "touch", n |-> req[r].n, hooks |-> active, k |-> 0]
<1>1. req' = [req EXCEPT ![r] = q] /\ req'[r] = q
  BY DEF ListWebhooks, TypeOK
<1>2. q \in RequestStates
  BY DEF TypeOK, RequestStates
<1>3. TypeOK'
  BY <1>1, <1>2 DEF TypeOK, ListWebhooks
<1>4. RequestStored(r)'
  BY <1>1 DEF UnderWayStored, RequestStored, ListWebhooks, At, Batch, EventsOf
<1>5. UnderWayStored'
  BY <1>1, <1>4, OthersUnderWay DEF ListWebhooks, TypeOK
<1>6. PublishedStored' /\ SessionsStored' /\ DeliveriesStored'
  BY DEF PublishedStored, SessionsStored, DeliveriesStored, ListWebhooks
<1> QED
  BY <1>3, <1>5, <1>6

LEMMA ListFailsInv ==
  ASSUME StoredInv, NEW r \in Requests, ListFails(r) PROVE StoredInv'
<1> USE DEF StoredInv
<1>1. /\ req' \in [Requests -> RequestStates]
      /\ req'[r].pc = "touch" /\ req'[r].n = req[r].n
      /\ \A q \in Requests \ {r} : req'[q] = req[q]
  BY RecordFacts DEF ListFails, TypeOK
<1>2. observed' \in Observations /\ observed'.published = observed.published
  BY DEF TypeOK, Observations, ListFails
<1>3. TypeOK'
  BY <1>1, <1>2, RecordFacts DEF TypeOK, ListFails, DbFails
<1>4. RequestStored(r)'
  BY <1>1 DEF UnderWayStored, RequestStored, ListFails, At, Batch, EventsOf
<1>5. UnderWayStored'
  BY <1>1, <1>4, OthersUnderWay DEF ListFails, TypeOK
<1>6. PublishedStored' /\ SessionsStored' /\ DeliveriesStored'
  BY <1>2 DEF PublishedStored, SessionsStored, DeliveriesStored, ListFails
<1> QED
  BY <1>3, <1>5, <1>6

(* Publishing event k, or answering. *)
LEMMA ContinueFacts ==
  ASSUME StoredInv, NEW r \in Requests, NEW k \in Nat \ {0}, Continue(r, k),
         req[r].pc \in {"touch", "tcts"}, audit' = audit, post' = post
  PROVE  /\ req' \in [Requests -> RequestStates]
         /\ observed' \in Observations
         /\ UnderWayStored'
         /\ PublishedStored'
<1> USE DEF StoredInv
<1> DEFINE n == req[r].n
<1>1. /\ n \in Posts /\ Batch(n) # None /\ EventsOf(n) \subseteq audit
      /\ Len(Batch(n)) \in Nat /\ DOMAIN Batch(n) = 1 .. Len(Batch(n))
  BY BatchFacts DEF UnderWayStored, RequestStored
<1>2. CASE k <= Len(Batch(n))
  <2> DEFINE q == [pc |-> "session", n |-> n, hooks |-> req[r].hooks, k |-> k]
  <2>1. /\ req' = [req EXCEPT ![r] = q]
        /\ observed' = [observed EXCEPT !.published[n] = k]
    BY <1>2 DEF Continue
  <2>2. q \in RequestStates
    BY <1>1 DEF TypeOK, RequestStates
  <2>3. req' \in [Requests -> RequestStates] /\ req'[r] = q
    BY <2>1, <2>2 DEF TypeOK
  <2>4. /\ observed' \in Observations
        /\ observed'.published = [observed.published EXCEPT ![n] = k]
    BY <2>1, <1>1 DEF TypeOK, Observations
  <2>5. k \in DOMAIN Batch(n)
    BY <1>1, <1>2
  <2>6. RequestStored(r)'
    BY <1>1, <2>3, <2>5 DEF RequestStored, Batch, EventsOf
  <2>7. UnderWayStored'
    BY <2>1, <2>6, OthersUnderWay DEF TypeOK
  <2>8. PublishedStored'
    <3> SUFFICES ASSUME NEW m \in Posts, NEW j \in 1 .. observed'.published[m]
                 PROVE  <<m, j>> \in audit
      BY DEF PublishedStored
    <3>1. CASE m = n
      <4>1. j \in DOMAIN Batch(n)
        BY <3>1, <2>4, <1>1, <1>2 DEF TypeOK, Observations
      <4> QED
        BY <3>1, <4>1, <1>1 DEF EventsOf
    <3>2. CASE m # n
      BY <3>2, <2>4 DEF PublishedStored, TypeOK, Observations
    <3> QED
      BY <3>1, <3>2
  <2> QED
    BY <2>3, <2>4, <2>7, <2>8
<1>3. CASE ~ (k <= Len(Batch(n)))
  <2>1. /\ req' = [req EXCEPT ![r] = NoRequest]
        /\ observed' = [observed EXCEPT !.answered = observed.answered \union {n}]
    BY <1>3 DEF Continue
  <2>2. req' \in [Requests -> RequestStates] /\ req'[r] = NoRequest
    BY <2>1, RecordFacts DEF TypeOK
  <2>3. observed' \in Observations /\ observed'.published = observed.published
    BY <2>1, <1>1 DEF TypeOK, Observations
  <2>4. RequestStored(r)'
    BY <2>2 DEF RequestStored, NoRequest
  <2>5. UnderWayStored'
    BY <2>1, <2>4, OthersUnderWay DEF TypeOK
  <2> QED
    BY <2>2, <2>3, <2>5 DEF PublishedStored
<1> QED
  BY <1>2, <1>3

LEMMA TouchInv ==
  ASSUME StoredInv, NEW r \in Requests, Touch(r) PROVE StoredInv'
<1> USE DEF StoredInv
<1>1. /\ req' \in [Requests -> RequestStates] /\ observed' \in Observations
      /\ UnderWayStored' /\ PublishedStored'
  BY ContinueFacts DEF Touch, At
<1>2. TypeOK'
  BY <1>1 DEF TypeOK, Touch
<1>3. SessionsStored' /\ DeliveriesStored'
  BY DEF SessionsStored, DeliveriesStored, Touch
<1> QED
  BY <1>1, <1>2, <1>3

(* The event that a request is at is one of its batch, and is stored. *)
LEMMA CurrentFacts ==
  ASSUME StoredInv, NEW r \in Requests, req[r].pc \in {"session", "tcts"}
  PROVE  /\ req[r].n \in Posts /\ req[r].k \in Nat \ {0}
         /\ Current(r) \in Ids /\ Current(r) \in audit
         /\ Event(Current(r)) \in Reported
<1> USE DEF StoredInv
<1> DEFINE n == req[r].n
           k == req[r].k
<1>1. /\ n \in Posts /\ Batch(n) # None /\ EventsOf(n) \subseteq audit
      /\ k \in DOMAIN Batch(n)
  BY DEF UnderWayStored, RequestStored
<1>2. Batch(n) \in Seq(Reported) /\ DOMAIN Batch(n) = 1 .. Len(Batch(n)) /\ Len(Batch(n)) \in Nat
  BY <1>1, BatchFacts
<1>3. k \in Nat \ {0} /\ Batch(n)[k] \in Reported
  BY <1>1, <1>2
<1> QED
  BY <1>1, <1>3 DEF Current, Event, EventsOf, Ids

LEMMA ProjectSessionInv ==
  ASSUME StoredInv, NEW r \in Requests, ProjectSession(r) PROVE StoredInv'
<1> USE DEF StoredInv
<1> DEFINE id == Current(r)
           s == Event(id).session
<1>1. id \in Ids /\ id \in audit
  BY CurrentFacts DEF ProjectSession, At
<1>2. /\ req' \in [Requests -> RequestStates]
      /\ req'[r].pc = "tcts" /\ req'[r].n = req[r].n /\ req'[r].k = req[r].k
      /\ \A q \in Requests \ {r} : req'[q] = req[q]
  BY RecordFacts DEF ProjectSession, TypeOK
<1>3. session' \in [Sessions -> Rows] /\ SessionsStored'
  <2>1. CASE s = None
    BY <2>1 DEF ProjectSession, TypeOK, SessionsStored
  <2>2. CASE s # None
    <3>1. session' = [session EXCEPT ![s] = Projected(session[s], id)]
      BY <2>2 DEF ProjectSession
    <3>2. ASSUME NEW t \in Sessions
          PROVE  /\ session'[t] \in Rows
                 /\ session'[t].started # None => session'[t].started \in audit
                 /\ session'[t].ended # None => session'[t].ended \in audit
      <4>1. session[t] \in Rows
        BY DEF TypeOK
      <4>2. CASE t = s
        <5>1. session'[t] = Projected(session[t], id)
          BY <3>1, <4>2 DEF TypeOK
        <5> QED
          BY <5>1, <4>1, <1>1, ProjectedFacts DEF SessionsStored
      <4>3. CASE t # s
        BY <3>1, <4>1, <4>3 DEF TypeOK, SessionsStored
      <4> QED
        BY <4>2, <4>3
    <3>3. audit' = audit /\ session' \in [Sessions -> Rows]
      BY <3>1, <3>2 DEF ProjectSession, TypeOK
    <3> QED
      BY <3>2, <3>3 DEF SessionsStored
  <2> QED
    BY <2>1, <2>2
<1>4. TypeOK'
  BY <1>2, <1>3 DEF TypeOK, ProjectSession
<1>5. RequestStored(r)'
  BY <1>2 DEF UnderWayStored, RequestStored, ProjectSession, At, Batch, EventsOf
<1>6. UnderWayStored'
  BY <1>2, <1>5, OthersUnderWay DEF ProjectSession
<1>7. PublishedStored' /\ DeliveriesStored'
  BY DEF PublishedStored, DeliveriesStored, ProjectSession
<1> QED
  BY <1>3, <1>4, <1>6, <1>7

LEMMA ProjectFailsInv ==
  ASSUME StoredInv, NEW r \in Requests, ProjectFails(r) PROVE StoredInv'
<1> USE DEF StoredInv
<1>1. Current(r) \in Ids
  BY CurrentFacts DEF ProjectFails, At
<1>2. /\ req' \in [Requests -> RequestStates]
      /\ req'[r].pc = "tcts" /\ req'[r].n = req[r].n /\ req'[r].k = req[r].k
      /\ \A q \in Requests \ {r} : req'[q] = req[q]
  BY RecordFacts DEF ProjectFails, TypeOK
<1>3. observed' \in Observations /\ observed'.published = observed.published
  BY <1>1 DEF TypeOK, Observations, ProjectFails
<1>4. TypeOK'
  BY <1>2, <1>3, RecordFacts DEF TypeOK, ProjectFails, DbFails
<1>5. RequestStored(r)'
  BY <1>2 DEF UnderWayStored, RequestStored, ProjectFails, At, Batch, EventsOf
<1>6. UnderWayStored'
  BY <1>2, <1>5, OthersUnderWay DEF ProjectFails
<1>7. PublishedStored' /\ SessionsStored' /\ DeliveriesStored'
  BY <1>3 DEF PublishedStored, SessionsStored, DeliveriesStored, ProjectFails
<1> QED
  BY <1>4, <1>6, <1>7

LEMMA DispatchInv ==
  ASSUME StoredInv, NEW r \in Requests, Dispatch(r) PROVE StoredInv'
<1> USE DEF StoredInv
<1> DEFINE hooks == {h \in req[r].hooks : Wants(h, Event(Current(r)).type)}
<1>1. Current(r) \in Ids /\ Current(r) \in audit /\ req[r].k + 1 \in Nat \ {0}
  BY CurrentFacts DEF Dispatch, At
<1>2. hooks \subseteq Webhooks
  BY DEF TypeOK, RequestStates
<1>3. /\ req' \in [Requests -> RequestStates] /\ observed' \in Observations
      /\ UnderWayStored' /\ PublishedStored'
  BY <1>1, ContinueFacts DEF Dispatch, At
<1>4. outgoing' = outgoing \union {Current(r)} \X hooks
  BY DEF Dispatch
<1>5. TypeOK'
  BY <1>1, <1>2, <1>3, <1>4 DEF TypeOK, Dispatch
<1>6. SessionsStored' /\ DeliveriesStored'
  BY <1>1, <1>4 DEF SessionsStored, DeliveriesStored, Dispatch
<1> QED
  BY <1>3, <1>5, <1>6

LEMMA OutgoingInv ==
  ASSUME StoredInv, NEW o \in outgoing, InsertDelivery(o) \/ InsertFails(o)
  PROVE  StoredInv'
<1> USE DEF StoredInv
<1>1. o \in Ids \X Webhooks /\ o[1] \in audit
  BY DEF TypeOK, DeliveriesStored
<1>2. observed' \in Observations /\ observed'.published = observed.published
  BY <1>1 DEF TypeOK, Observations, InsertDelivery, InsertFails
<1>3. TypeOK'
  <2>1. faults' \in [db : Nat, crash : Nat, admin : Nat]
    BY RecordFacts DEF TypeOK, InsertDelivery, InsertFails, DbFails
  <2> QED
    BY <1>1, <1>2, <2>1 DEF TypeOK, InsertDelivery, InsertFails
<1>4. UnderWayStored' /\ SessionsStored'
  BY DEF UnderWayStored, RequestStored, Batch, EventsOf, SessionsStored,
         InsertDelivery, InsertFails
<1>5. PublishedStored'
  BY <1>2 DEF PublishedStored, InsertDelivery, InsertFails
<1>6. DeliveriesStored'
  BY DEF DeliveriesStored, InsertDelivery, InsertFails
<1> QED
  BY <1>3, <1>4, <1>5, <1>6

LEMMA SetActiveInv ==
  ASSUME StoredInv, NEW h \in Webhooks, SetActive(h) PROVE StoredInv'
<1> USE DEF StoredInv
<1>1. observed' \in Observations /\ observed'.published = observed.published
  <2>1. CASE UNCHANGED observed
    BY <2>1 DEF TypeOK
  <2>2. CASE observed' = [observed EXCEPT
                !.steady = [n \in Posts |-> observed.steady[n] \ {h}]]
    BY <2>2 DEF TypeOK, Observations
  <2> QED
    BY <2>1, <2>2 DEF SetActive
<1>2. TypeOK'
  BY <1>1, RecordFacts DEF TypeOK, SetActive
<1>3. UnderWayStored' /\ SessionsStored' /\ DeliveriesStored'
  BY DEF UnderWayStored, RequestStored, Batch, EventsOf, SessionsStored,
         DeliveriesStored, SetActive
<1> QED
  BY <1>1, <1>2, <1>3 DEF PublishedStored, SetActive

LEMMA CrashInv ==
  ASSUME StoredInv, NEW i \in Instances, Crash(i) PROVE StoredInv'
<1> USE DEF StoredInv
<1> DEFINE gone == {o \in outgoing : post[o[1][1]].inst = i}
<1>1. observed' = [observed EXCEPT !.lost = observed.lost \union gone]
  BY DEF Crash
<1>2. gone \subseteq Ids \X Webhooks
  BY DEF TypeOK
<1>3. observed' \in Observations /\ observed'.published = observed.published
  BY <1>1, <1>2 DEF TypeOK, Observations
<1>4. \A q \in Requests : req'[q] = req[q] \/ req'[q] = NoRequest
  BY DEF Crash
<1>5. req' \in [Requests -> RequestStates]
  BY RecordFacts DEF Crash, TypeOK
<1>6. TypeOK'
  BY <1>3, <1>5, RecordFacts DEF TypeOK, Crash
<1>7. UnderWayStored'
  <2> SUFFICES ASSUME NEW q \in Requests PROVE RequestStored(q)'
    BY DEF UnderWayStored
  <2>1. CASE req'[q] = NoRequest
    BY <2>1 DEF RequestStored, NoRequest
  <2>2. CASE req'[q] = req[q]
    BY <2>2 DEF UnderWayStored, RequestStored, Batch, EventsOf, Crash
  <2> QED
    BY <1>4, <2>1, <2>2
<1>8. PublishedStored' /\ SessionsStored' /\ DeliveriesStored'
  BY <1>3 DEF PublishedStored, SessionsStored, DeliveriesStored, Crash
<1> QED
  BY <1>6, <1>7, <1>8

LEMMA StepInv == StoredInv /\ [Next]_vars => StoredInv'
<1> SUFFICES ASSUME StoredInv, [Next]_vars PROVE StoredInv'
  OBVIOUS
<1>1. CASE \E r \in Requests :
              \/ \E i \in Instances, b \in Batches : Begin(r, i, b)
              \/ Store(r) \/ StoreFails(r) \/ ListWebhooks(r) \/ ListFails(r) \/ Touch(r)
              \/ ProjectSession(r) \/ ProjectFails(r) \/ Dispatch(r)
  BY <1>1, BeginInv, StoreInv, StoreFailsInv, ListWebhooksInv, ListFailsInv, TouchInv,
     ProjectSessionInv, ProjectFailsInv, DispatchInv
<1>2. CASE \E o \in outgoing : InsertDelivery(o) \/ InsertFails(o)
  BY <1>2, OutgoingInv
<1>3. CASE \E h \in Webhooks : SetActive(h)
  BY <1>3, SetActiveInv
<1>4. CASE \E i \in Instances : Crash(i)
  BY <1>4, CrashInv
<1>5. CASE UNCHANGED vars
  BY <1>5 DEF vars, StoredInv, TypeOK, UnderWayStored, RequestStored, PublishedStored,
     SessionsStored, DeliveriesStored, Batch, EventsOf
<1> QED
  BY <1>1, <1>2, <1>3, <1>4, <1>5 DEF Next

LEMMA Invariance == Spec => []StoredInv
  BY InitInv, StepInv, PTL DEF Spec

(* The invariant includes what the run checks. *)
LEMMA StoredInvSuffices == StoredInv => TypeOK /\ StoredBeforeSeen
  BY DEF StoredInv, PublishedStored, SessionsStored, DeliveriesStored, StoredBeforeSeen

(* Every state of the ingest route has the types stated, whatever the number
   of events, agents' batches, webhooks and processes. *)
THEOREM TypeCorrect == Spec => []TypeOK
  BY Invariance, StoredInvSuffices, PTL

(* Nothing is published, projected on a session or dispatched to a webhook
   under an id that the audit log lacks (events/route.ts:146-173), whichever
   requests overlap, fail or die. *)
THEOREM EventsAreStoredFirst == Spec => []StoredBeforeSeen
  BY Invariance, StoredInvSuffices, PTL

(* What one projection does to the row of a session. *)
LEMMA ProjectedNeverRestarts ==
  ASSUME NEW row \in Rows, NEW id, row.status # "absent"
  PROVE  /\ Projected(row, id).started = row.started
         /\ row.status # "started" => Projected(row, id).status # "started"
<1>1. Started(row, id) = row
  BY DEF Started
<1>2. ASSUME NEW status \in {"complete", "failed"}
      PROVE  /\ Ended(row, id, status).started = row.started
             /\ Ended(row, id, status).status # "started"
  BY <1>2 DEF Ended
<1> QED
  BY <1>1, <1>2 DEF Projected

(* What a step may do to the row of a session. *)
LEMMA SessionSteps ==
  ASSUME StoredInv, [Next]_vars, NEW s \in Sessions
  PROVE  session'[s] = session[s] \/ \E id \in Ids : session'[s] = Projected(session[s], id)
<1>1. ASSUME NEW r \in Requests, ProjectSession(r)
      PROVE  /\ Current(r) \in Ids
             /\ session'[s] = session[s] \/ session'[s] = Projected(session[s], Current(r))
  BY <1>1, CurrentFacts DEF ProjectSession, At, StoredInv, TypeOK
<1>2. CASE \E r \in Requests : ProjectSession(r)
  BY <1>1, <1>2
<1> QED
  BY <1>2
     DEF Next, vars, Begin, Store, StoreFails, ListWebhooks, ListFails, Touch,
         ProjectFails, Dispatch, InsertDelivery, InsertFails, SetActive, Crash

(* No report, however late and from whichever batch, gives a session that
   exists another start, or takes one that is over back to "started"
   (sessions/monitor.ts:19-55). *)
THEOREM SessionsNeverRestart == Spec => SessionNeverRestarts
<1>1. ASSUME StoredInv, [Next]_vars, NEW s \in Sessions, session[s].status # "absent"
      PROVE  /\ session'[s].started = session[s].started
             /\ session[s].status # "started" => session'[s].status # "started"
  BY <1>1, SessionSteps, ProjectedNeverRestarts DEF StoredInv, TypeOK
<1>2. StoredInv /\ [Next]_vars
         => [ \A s \in Sessions :
                session[s].status # "absent" =>
                    /\ session'[s].started = session[s].started
                    /\ session[s].status # "started" => session'[s].status # "started" ]_vars
  BY <1>1
<1>3. QED
  BY <1>2, Invariance, PTL DEF Spec, SessionNeverRestarts

(* A session that has a row keeps one, and one that is over stays over. *)
LEMMA SessionsForward ==
  ASSUME StoredInv, [Next]_vars, NEW s \in Sessions
  PROVE  /\ session[s].status # "absent" => session'[s].status # "absent"
         /\ session[s].status \in {"complete", "failed"}
               => session'[s].status \in {"complete", "failed"}
<1>1. session[s] \in Rows
  BY DEF StoredInv, TypeOK
<1>2. ASSUME NEW id \in Ids
      PROVE  /\ session[s].status # "absent" => Projected(session[s], id).status # "absent"
             /\ session[s].status \in {"complete", "failed"}
                  => Projected(session[s], id).status \in {"complete", "failed"}
  BY <1>1, ProjectedFacts, ProjectedNeverRestarts DEF Projected, Started, Ended, Rows
<1> QED
  BY <1>2, SessionSteps

-----------------------------------------------------------------------------
(* What a request has done so far, and what an answered one has done. *)

Due(n, j, h) ==
    /\ Batch(n)[j].type \in {"handshake.complete", "handshake.failed"}
    /\ Subscribed[h] = {} \/ Batch(n)[j].type \in Subscribed[h]

(* The first d events have been handed to the webhooks that are due. *)
Handed(n, d) ==
    \A j \in DOMAIN Batch(n) : \A h \in observed.steady[n] :
        j <= d /\ Due(n, j, h)
            => <<<<n, j>>, h>> \in delivery \union outgoing \union observed.lost

(* The session of the k-th event has a row if the event starts it, and is over
   if the event ends what an earlier one has started. *)
Recorded(n, k) ==
    LET e == Batch(n)[k] IN
    <<n, k>> \notin observed.missed /\ e.session # None =>
        /\ e.type = "handshake.started" => session[e.session].status # "absent"
        /\ e.type \in {"handshake.complete", "handshake.failed"} =>
              \A j \in DOMAIN Batch(n) :
                  /\ j < k /\ <<n, j>> \notin observed.missed
                  /\ Batch(n)[j].session = e.session
                  /\ Batch(n)[j].type = "handshake.started"
                  => session[e.session].status \in {"complete", "failed"}

RecordedUpTo(n, p) == \A k \in DOMAIN Batch(n) : k <= p => Recorded(n, k)

Progress(r) ==
    LET n == req[r].n
        k == req[r].k
    IN  /\ req[r].pc \in {"store", "list", "touch"} => observed.published[n] = 0
        /\ req[r].pc \in {"touch", "session", "tcts"} =>
              observed.steady[n] \subseteq req[r].hooks
        /\ req[r].pc \in {"session", "tcts"} =>
              /\ observed.published[n] = k
              /\ Handed(n, k - 1)
              /\ RecordedUpTo(n, k - 1)
        /\ req[r].pc = "tcts" => Recorded(n, k)

Finished(n) ==
    /\ Batch(n) # None
    /\ EventsOf(n) \subseteq audit
    /\ observed.published[n] = Len(Batch(n))
    /\ Handed(n, Len(Batch(n)))
    /\ RecordedUpTo(n, Len(Batch(n)))

UnderWay(r) == req[r].pc # "idle"

(* No two requests have the same events, and an answered one is over. *)
OnePerPost ==
    /\ \A q, r \in Requests : q # r /\ UnderWay(q) /\ UnderWay(r) => req[q].n # req[r].n
    /\ \A r \in Requests : UnderWay(r) => req[r].n \notin observed.answered

WorkInv ==
    /\ \A n \in Posts : observed.steady[n] \subseteq active
    /\ \A n \in Posts : Batch(n) = None => observed.published[n] = 0
    /\ \A n \in observed.answered : Finished(n)
    /\ \A r \in Requests : Progress(r)
    /\ OnePerPost

-----------------------------------------------------------------------------
(* What is done stays done *)

(* A step leaves a request's events alone, forgets nothing that was done or
   missed, and adds no webhook to those that have been active all the time. *)
LEMMA NothingUndone ==
  ASSUME StoredInv, [Next]_vars, NEW n \in Posts, Batch(n) # None
  PROVE  /\ Batch(n)' = Batch(n)
         /\ audit \subseteq audit'
         /\ observed'.steady[n] \subseteq observed.steady[n]
         /\ observed.missed \subseteq observed'.missed
         /\ observed.answered \subseteq observed'.answered
         /\ delivery \union outgoing \union observed.lost
               \subseteq delivery' \union outgoing' \union observed'.lost
<1> USE DEF StoredInv
<1>1. ASSUME NEW r \in Requests, NEW i \in Instances, NEW b \in Batches, Begin(r, i, b)
      PROVE  /\ Batch(n)' = Batch(n)
             /\ observed'.steady[n] = observed.steady[n]
             /\ observed'.missed = observed.missed
             /\ observed'.answered = observed.answered
             /\ observed'.lost = observed.lost
             /\ UNCHANGED <<audit, delivery, outgoing>>
  BY <1>1 DEF Begin, TypeOK, Observations, Batch
<1>2. ASSUME NEW r \in Requests,
             Store(r) \/ StoreFails(r) \/ ListWebhooks(r) \/ ProjectSession(r)
      PROVE  /\ UNCHANGED <<delivery, outgoing, post, observed>>
             /\ audit \subseteq audit'
  BY <1>2 DEF Store, StoreFails, ListWebhooks, ProjectSession
<1>3. ASSUME NEW r \in Requests, ListFails(r) \/ ProjectFails(r)
      PROVE  /\ UNCHANGED <<audit, delivery, outgoing, post>>
             /\ observed'.steady[n] \subseteq observed.steady[n]
             /\ observed.missed \subseteq observed'.missed
             /\ observed'.answered = observed.answered
             /\ observed'.lost = observed.lost
  BY <1>3 DEF ListFails, ProjectFails, TypeOK, Observations
<1>4. ASSUME NEW r \in Requests, NEW k, Continue(r, k)
      PROVE  /\ observed'.steady = observed.steady
             /\ observed'.missed = observed.missed
             /\ observed.answered \subseteq observed'.answered
             /\ observed'.lost = observed.lost
  BY <1>4 DEF Continue, TypeOK, Observations
<1>5. ASSUME NEW r \in Requests, Touch(r) \/ Dispatch(r)
      PROVE  /\ UNCHANGED <<audit, delivery, post>>
             /\ outgoing \subseteq outgoing'
             /\ observed'.steady = observed.steady
             /\ observed'.missed = observed.missed
             /\ observed.answered \subseteq observed'.answered
             /\ observed'.lost = observed.lost
  BY <1>5, <1>4 DEF Touch, Dispatch
<1>6. ASSUME NEW o \in outgoing, InsertDelivery(o) \/ InsertFails(o)
      PROVE  /\ UNCHANGED <<audit, post>>
             /\ observed'.steady = observed.steady
             /\ observed'.missed = observed.missed
             /\ observed'.answered = observed.answered
             /\ delivery \union outgoing \union observed.lost
                   \subseteq delivery' \union outgoing' \union observed'.lost
  BY <1>6 DEF InsertDelivery, InsertFails, TypeOK, Observations
<1>7. ASSUME NEW h \in Webhooks, SetActive(h)
      PROVE  /\ UNCHANGED <<audit, delivery, outgoing, post>>
             /\ observed'.steady[n] \subseteq observed.steady[n]
             /\ observed'.missed = observed.missed
             /\ observed'.answered = observed.answered
             /\ observed'.lost = observed.lost
  BY <1>7 DEF SetActive, TypeOK, Observations
<1>8. ASSUME NEW i \in Instances, Crash(i)
      PROVE  /\ UNCHANGED <<audit, delivery, post>>
             /\ observed'.steady = observed.steady
             /\ observed'.missed = observed.missed
             /\ observed'.answered = observed.answered
             /\ outgoing \union observed.lost \subseteq outgoing' \union observed'.lost
  BY <1>8 DEF Crash, TypeOK, Observations
<1>9. CASE UNCHANGED vars
  BY <1>9 DEF vars, Batch
<1> QED
  BY <1>1, <1>2, <1>3, <1>5, <1>6, <1>7, <1>8, <1>9 DEF Next, Batch

(* What was handed over or recorded is so after the step. *)
LEMMA DoneStays ==
  ASSUME StoredInv, [Next]_vars, NEW n \in Posts, Batch(n) # None
  PROVE  /\ \A d \in Int : Handed(n, d) => Handed(n, d)'
         /\ \A k \in DOMAIN Batch(n) : Recorded(n, k) => Recorded(n, k)'
         /\ \A p \in Int : RecordedUpTo(n, p) => RecordedUpTo(n, p)'
<1>1. /\ Batch(n)' = Batch(n)
      /\ observed'.steady[n] \subseteq observed.steady[n]
      /\ observed.missed \subseteq observed'.missed
      /\ delivery \union outgoing \union observed.lost
            \subseteq delivery' \union outgoing' \union observed'.lost
  BY NothingUndone
<1>2. \A j, h : Due(n, j, h)' = Due(n, j, h)
  BY <1>1 DEF Due
<1>3. \A d \in Int : Handed(n, d) => Handed(n, d)'
  BY <1>1, <1>2 DEF Handed
<1>4. ASSUME NEW k \in DOMAIN Batch(n), Recorded(n, k)
      PROVE  Recorded(n, k)'
  <2>1. Batch(n)[k].session \in Sessions \union {None}
    BY EventFacts DEF StoredInv, Reported
  <2>2. Batch(n)[k].session # None =>
           LET s == Batch(n)[k].session IN
           /\ session[s].status # "absent" => session'[s].status # "absent"
           /\ session[s].status \in {"complete", "failed"}
                 => session'[s].status \in {"complete", "failed"}
    BY <2>1, SessionsForward
  <2> QED
    BY <1>1, <1>4, <2>2 DEF Recorded
<1>5. \A p \in Int : RecordedUpTo(n, p) => RecordedUpTo(n, p)'
  BY <1>1, <1>4 DEF RecordedUpTo
<1> QED
  BY <1>3, <1>4, <1>5

(* A request that a step leaves alone, and an answered one, keep what they
   have. *)
LEMMA ProgressKept ==
  ASSUME StoredInv, [Next]_vars, NEW r \in Requests, Progress(r), req'[r] = req[r],
         UnderWay(r) => observed'.published[req[r].n] = observed.published[req[r].n]
  PROVE  Progress(r)'
<1>1. CASE ~ UnderWay(r)
  BY <1>1 DEF Progress, UnderWay
<1>2. CASE UnderWay(r)
  <2>1. req[r].k \in Nat /\ req[r].n \in Posts /\ Batch(req[r].n) # None
    BY <1>2 DEF UnderWay, StoredInv, TypeOK, RequestStates, UnderWayStored, RequestStored
  <2>2. PICK n \in Posts, k \in Nat : n = req[r].n /\ k = req[r].k
    BY <2>1
  <2>3. req[r].pc = "tcts" => k \in DOMAIN Batch(n)
    BY <2>2 DEF StoredInv, UnderWayStored, RequestStored
  <2>4. observed'.steady[n] \subseteq observed.steady[n]
    BY <2>1, <2>2, NothingUndone
  <2>5. k - 1 \in Int
    BY <2>2
  <2>6. /\ Handed(n, k - 1) => Handed(n, k - 1)'
        /\ RecordedUpTo(n, k - 1) => RecordedUpTo(n, k - 1)'
        /\ k \in DOMAIN Batch(n) /\ Recorded(n, k) => Recorded(n, k)'
    BY <2>1, <2>2, <2>5, DoneStays
  <2> QED
    BY <1>2, <2>2, <2>3, <2>4, <2>6 DEF Progress, UnderWay
<1> QED
  BY <1>1, <1>2

LEMMA FinishedKept ==
  ASSUME StoredInv, [Next]_vars, NEW n \in Posts, Finished(n),
         observed'.published[n] = observed.published[n]
  PROVE  Finished(n)'
<1>1. /\ Batch(n) # None /\ Batch(n)' = Batch(n)
      /\ audit \subseteq audit'
  BY NothingUndone DEF Finished
<1>2. Len(Batch(n)) \in Int
  BY <1>1, BatchFacts DEF StoredInv
<1>3. Handed(n, Len(Batch(n)))' /\ RecordedUpTo(n, Len(Batch(n)))'
  <2>1. \A d \in Int : Handed(n, d)' /\ d = Len(Batch(n)) => Handed(n, Len(Batch(n)))'
    BY <1>1 DEF Handed
  <2>2. \A d \in Int :
           RecordedUpTo(n, d)' /\ d = Len(Batch(n)) => RecordedUpTo(n, Len(Batch(n)))'
    BY <1>1 DEF RecordedUpTo
  <2> QED
    BY <1>1, <1>2, <2>1, <2>2, DoneStays DEF Finished
<1> QED
  BY <1>1, <1>3 DEF Finished, EventsOf

-----------------------------------------------------------------------------
(* Every step keeps WorkInv *)

LEMMA InitWork == Init => WorkInv
<1> SUFFICES ASSUME Init PROVE WorkInv
  OBVIOUS
<1>1. \A r \in Requests : ~ UnderWay(r) /\ Progress(r)
  BY DEF Init, NoRequest, UnderWay, Progress
<1>2. /\ observed.answered = {}
      /\ \A n \in Posts : observed.steady[n] = {} /\ observed.published[n] = 0
  BY DEF Init
<1> QED
  BY <1>1, <1>2 DEF WorkInv, OnePerPost

(* Steps that publish and answer nothing: each request is left alone, is gone,
   or goes on with the same events. *)
LEMMA QuietWork ==
  ASSUME StoredInv, WorkInv, [Next]_vars, post' = post,
         observed'.published = observed.published,
         observed'.answered = observed.answered,
         \A n \in Posts : observed'.steady[n] \subseteq active',
         \A q \in Requests : \/ req'[q] = req[q]
                             \/ req'[q] = NoRequest
                             \/ UnderWay(q) /\ req'[q].n = req[q].n /\ Progress(q)'
  PROVE  WorkInv'
<1>1. \A n \in Posts : Batch(n)' = None => observed'.published[n] = 0
  BY DEF WorkInv, Batch
<1>2. \A n \in observed'.answered : Finished(n)'
  BY FinishedKept DEF WorkInv, StoredInv, TypeOK, Observations
<1>3. \A q \in Requests : Progress(q)'
  <2> SUFFICES ASSUME NEW q \in Requests PROVE Progress(q)'
    OBVIOUS
  <2>1. CASE req'[q] = req[q]
    BY <2>1, ProgressKept DEF WorkInv
  <2>2. CASE req'[q] = NoRequest
    BY <2>2 DEF NoRequest, Progress
  <2> QED
    BY <2>1, <2>2
<1>4. \A q \in Requests : UnderWay(q)' => UnderWay(q) /\ req'[q].n = req[q].n
  BY DEF UnderWay, NoRequest
<1>5. OnePerPost'
  BY <1>4 DEF WorkInv, OnePerPost
<1> QED
  BY <1>1, <1>2, <1>3, <1>5 DEF WorkInv

LEMMA BeginWork ==
  ASSUME StoredInv, WorkInv, NEW r \in Requests, NEW i \in Instances, NEW b \in Batches,
         Begin(r, i, b)
  PROVE  WorkInv'
<1>1. PICK n \in Posts :
        /\ At(r, "idle") /\ Batch(n) = None
        /\ post' = [post EXCEPT ![n] = [batch |-> b, inst |-> i]]
        /\ req' = [req EXCEPT ![r] = [pc |-> "store", n |-> n, hooks |-> {}, k |-> 0]]
        /\ observed' = [observed EXCEPT !.steady[n] = active]
        /\ UNCHANGED <<audit, session, active, delivery, outgoing, faults>>
  BY DEF Begin
<1>2. [Next]_vars
  BY DEF Next
<1>3. /\ observed'.published = observed.published
      /\ observed'.answered = observed.answered
      /\ observed'.steady = [observed.steady EXCEPT ![n] = active]
  BY <1>1 DEF StoredInv, TypeOK, Observations
<1>4. \A m \in Posts : observed'.steady[m] \subseteq active'
  BY <1>1, <1>3 DEF WorkInv, StoredInv, TypeOK, Observations
<1>5. \A m \in Posts : Batch(m)' = IF m = n THEN b ELSE Batch(m)
  BY <1>1 DEF StoredInv, TypeOK, Batch
<1>6. \A m \in Posts : Batch(m)' = None => observed'.published[m] = 0
  BY <1>1, <1>3, <1>5 DEF WorkInv
<1>7. \A m \in observed'.answered : Finished(m)'
  BY <1>2, <1>3, FinishedKept DEF WorkInv, StoredInv, TypeOK, Observations
<1>8. req'[r] = [pc |-> "store", n |-> n, hooks |-> {}, k |-> 0]
  BY <1>1 DEF StoredInv, TypeOK
<1>9. \A q \in Requests \ {r} : req'[q] = req[q]
  BY <1>1 DEF StoredInv, TypeOK
<1>10. \A q \in Requests : Progress(q)'
  <2>1. Progress(r)'
    BY <1>1, <1>3, <1>8 DEF WorkInv, Progress
  <2> QED
    BY <1>2, <1>3, <1>9, <2>1, ProgressKept DEF WorkInv
<1>11. \A q \in Requests : UnderWay(q) => req[q].n # n
  BY <1>1 DEF UnderWay, StoredInv, UnderWayStored, RequestStored
<1>12. n \notin observed.answered
  BY <1>1 DEF WorkInv, Finished
<1>13. OnePerPost'
  BY <1>3, <1>8, <1>9, <1>11, <1>12 DEF WorkInv, OnePerPost, UnderWay
<1> QED
  BY <1>4, <1>6, <1>7, <1>10, <1>13 DEF WorkInv

LEMMA StoreWork ==
  ASSUME StoredInv, WorkInv, NEW r \in Requests, Store(r) PROVE WorkInv'
<1>1. [Next]_vars
  BY DEF Next
<1>2. /\ req'[r].pc = "list" /\ req'[r].n = req[r].n /\ req[r].pc = "store"
      /\ \A q \in Requests \ {r} : req'[q] = req[q]
  BY RecordFacts DEF Store, At, StoredInv, TypeOK
<1>3. Progress(r)'
  BY <1>2 DEF Progress, Store, WorkInv
<1> QED
  BY <1>1, <1>2, <1>3, QuietWork DEF Store, WorkInv, UnderWay

LEMMA StoreFailsWork ==
  ASSUME StoredInv, WorkInv, NEW r \in Requests, StoreFails(r) PROVE WorkInv'
<1>1. [Next]_vars
  BY DEF Next
<1>2. \A q \in Requests : req'[q] = req[q] \/ req'[q] = NoRequest
  BY DEF StoreFails, AfterStoreFailure, StoredInv, TypeOK
<1> QED
  BY <1>1, <1>2, QuietWork DEF StoreFails, WorkInv

LEMMA ListWebhooksWork ==
  ASSUME StoredInv, WorkInv, NEW r \in Requests, ListWebhooks(r) PROVE WorkInv'
<1>1. [Next]_vars
  BY DEF Next
<1>2. /\ req'[r] = [pc |-> "touch", n |-> req[r].n, hooks |-> active, k |-> 0]
      /\ req[r].pc = "list"
      /\ \A q \in Requests \ {r} : req'[q] = req[q]
  BY DEF ListWebhooks, At, StoredInv, TypeOK
<1>3. req[r].n \in Posts
  BY <1>2 DEF StoredInv, UnderWayStored, RequestStored
<1>4. Progress(r)'
  BY <1>2, <1>3 DEF Progress, ListWebhooks, WorkInv
<1> QED
  BY <1>1, <1>2, <1>4, QuietWork DEF ListWebhooks, WorkInv, UnderWay

LEMMA ListFailsWork ==
  ASSUME StoredInv, WorkInv, NEW r \in Requests, ListFails(r) PROVE WorkInv'
<1>1. [Next]_vars
  BY DEF Next
<1>2. /\ req'[r].pc = "touch" /\ req'[r].n = req[r].n /\ req[r].pc = "list"
      /\ \A q \in Requests \ {r} : req'[q] = req[q]
  BY RecordFacts DEF ListFails, At, StoredInv, TypeOK
<1>3. req[r].n \in Posts
  BY <1>2 DEF StoredInv, UnderWayStored, RequestStored
<1>4. /\ observed'.published = observed.published
      /\ observed'.answered = observed.answered
      /\ observed'.steady = [observed.steady EXCEPT ![req[r].n] = {}]
  BY DEF ListFails, StoredInv, TypeOK, Observations
<1>5. \A n \in Posts : observed'.steady[n] \subseteq active'
  BY <1>4 DEF ListFails, WorkInv, StoredInv, TypeOK, Observations
<1>6. observed'.steady[req[r].n] = {}
  BY <1>3, <1>4 DEF StoredInv, TypeOK, Observations
<1>7. Progress(r)'
  BY <1>2, <1>4, <1>6 DEF Progress, WorkInv
<1> QED
  BY <1>1, <1>2, <1>4, <1>5, <1>7, QuietWork DEF ListFails, UnderWay

(* The request goes on to "tcts" once event k is recorded. *)
LEMMA RecordedWork ==
  ASSUME StoredInv, WorkInv, [Next]_vars, NEW r \in Requests,
         req[r].pc = "session", req' = [req EXCEPT ![r].pc = "tcts"],
         observed'.published = observed.published,
         observed'.answered = observed.answered,
         observed'.steady = observed.steady,
         UNCHANGED <<active, post>>,
         Recorded(req[r].n, req[r].k)'
  PROVE  WorkInv'
<1>1. /\ req'[r].pc = "tcts" /\ req'[r].n = req[r].n /\ req'[r].k = req[r].k
      /\ req'[r].hooks = req[r].hooks
      /\ \A q \in Requests \ {r} : req'[q] = req[q]
  BY RecordFacts DEF StoredInv, TypeOK
<1>2. req[r].n \in Posts /\ Batch(req[r].n) # None /\ req[r].k \in Nat
  BY DEF StoredInv, UnderWayStored, RequestStored, TypeOK, RequestStates
<1>3. PICK n \in Posts, k \in Nat : n = req[r].n /\ k = req[r].k
  BY <1>2
<1>4. k - 1 \in Int /\ Batch(n) # None
  BY <1>2, <1>3
<1>5. Handed(n, k - 1)' /\ RecordedUpTo(n, k - 1)'
  BY <1>3, <1>4, DoneStays DEF WorkInv, Progress
<1>6. Recorded(n, k)'
  BY <1>1, <1>3 DEF Recorded, Batch
<1>7. Progress(r)'
  BY <1>1, <1>3, <1>5, <1>6 DEF Progress, WorkInv
<1> QED
  BY <1>1, <1>7, QuietWork DEF WorkInv, UnderWay

LEMMA ProjectSessionWork ==
  ASSUME StoredInv, WorkInv, NEW r \in Requests, ProjectSession(r) PROVE WorkInv'
<1>1. [Next]_vars
  BY DEF Next
<1>2. /\ req[r].pc = "session" /\ req' = [req EXCEPT ![r].pc = "tcts"]
      /\ UNCHANGED <<active, post, observed>>
  BY DEF ProjectSession, At
<1>3. /\ req[r].n \in Posts /\ Batch(req[r].n) # None
      /\ req[r].k \in DOMAIN Batch(req[r].n)
  BY <1>2 DEF StoredInv, UnderWayStored, RequestStored
<1>4. PICK n \in Posts, k \in DOMAIN Batch(req[r].n) : n = req[r].n /\ k = req[r].k
  BY <1>3
<1>5. PICK e \in Reported : e = Batch(n)[k]
  BY <1>3, <1>4, EventFacts DEF StoredInv
<1>6. Current(r) = <<n, k>> /\ Event(Current(r)) = e
  BY <1>4, <1>5 DEF Current, Event
<1>7. RecordedUpTo(n, k - 1) /\ Batch(n)' = Batch(n) /\ k \in Nat
  BY <1>2, <1>3, <1>4, EventFacts DEF WorkInv, Progress, StoredInv, Batch
<1>8. Recorded(n, k)'
  <2> SUFFICES ASSUME <<n, k>> \notin observed.missed, e.session # None
               PROVE  /\ e.type = "handshake.started" => session'[e.session].status # "absent"
                      /\ e.type \in {"handshake.complete", "handshake.failed"} =>
                            \A j \in DOMAIN Batch(n) :
                                /\ j < k /\ <<n, j>> \notin observed.missed
                                /\ Batch(n)[j].session = e.session
                                /\ Batch(n)[j].type = "handshake.started"
                                => session'[e.session].status \in {"complete", "failed"}
    BY <1>2, <1>5, <1>7 DEF Recorded
  <2>1. e.session \in Sessions /\ session[e.session] \in Rows
    BY DEF Reported, StoredInv, TypeOK
  <2>2. session'[e.session] = Projected(session[e.session], <<n, k>>)
    BY <1>6, <2>1 DEF ProjectSession, StoredInv, TypeOK
  <2>3. Event(<<n, k>>) = e
    BY <1>6
  <2>4. CASE e.type = "handshake.started"
    BY <2>1, <2>2, <2>3, <2>4 DEF Projected, Started
  <2>5. CASE e.type \in {"handshake.complete", "handshake.failed"}
    <3> SUFFICES ASSUME NEW j \in DOMAIN Batch(n), j < k, <<n, j>> \notin observed.missed,
                        Batch(n)[j].session = e.session,
                        Batch(n)[j].type = "handshake.started"
                 PROVE  session'[e.session].status \in {"complete", "failed"}
      BY <2>5
    <3>1. j \in Nat
      BY <1>3, <1>4, EventFacts DEF StoredInv
    <3>2. Recorded(n, j)
      BY <1>7, <3>1 DEF RecordedUpTo
    <3>3. session[e.session].status # "absent"
      BY <3>2 DEF Recorded
    <3> QED
      BY <2>2, <2>3, <2>5, <3>3 DEF Projected, Ended
  <2> QED
    BY <2>4, <2>5
<1>9. req'[r].n = n /\ req'[r].k = k
  BY <1>2, <1>4, RecordFacts DEF StoredInv, TypeOK
<1>10. Recorded(req[r].n, req[r].k)'
  BY <1>8, <1>9 DEF Recorded, Batch
<1> QED
  BY <1>1, <1>2, <1>10, RecordedWork

LEMMA ProjectFailsWork ==
  ASSUME StoredInv, WorkInv, NEW r \in Requests, ProjectFails(r) PROVE WorkInv'
<1>1. [Next]_vars
  BY DEF Next
<1>2. /\ req[r].pc = "session" /\ req' = [req EXCEPT ![r].pc = "tcts"]
      /\ observed' = [observed EXCEPT !.missed = observed.missed \union {Current(r)}]
      /\ UNCHANGED <<active, post>>
  BY DEF ProjectFails, At
<1>3. /\ observed'.published = observed.published
      /\ observed'.answered = observed.answered
      /\ observed'.steady = observed.steady
      /\ Current(r) \in observed'.missed
  BY <1>2 DEF StoredInv, TypeOK, Observations
<1>4. req'[r].n = req[r].n /\ req'[r].k = req[r].k
  BY <1>2, RecordFacts DEF StoredInv, TypeOK
<1>5. Recorded(req[r].n, req[r].k)'
  BY <1>3, <1>4 DEF Recorded, Current
<1> QED
  BY <1>1, <1>2, <1>3, <1>5, RecordedWork

(* The first k events are done: the next one is published, or the request is
   answered. *)
LEMMA AdvanceWork ==
  ASSUME StoredInv, WorkInv, [Next]_vars, NEW r \in Requests,
         NEW n \in Posts, NEW k \in Nat,
         UnderWay(r), n = req[r].n, Continue(r, k + 1),
         observed.steady[n] \subseteq req[r].hooks, observed.published[n] = k,
         Batch(n) # None, EventsOf(n) \subseteq audit, k <= Len(Batch(n)),
         Handed(n, k)', RecordedUpTo(n, k)',
         UNCHANGED <<audit, active, post>>
  PROVE  WorkInv'
<1>1. Len(Batch(n)) \in Nat /\ Batch(n)' = Batch(n) /\ EventsOf(n)' \subseteq audit'
  BY BatchFacts DEF StoredInv, Batch, EventsOf
<1>2. \A m \in Posts : Batch(m)' = Batch(m)
  BY DEF Batch
<1>3. \A q \in Requests \ {r} : req'[q] = req[q]
  BY DEF Continue, StoredInv, TypeOK
<1>4. \A q \in Requests \ {r} : UnderWay(q) => req[q].n # n
  BY DEF WorkInv, OnePerPost
<1>5. n \notin observed.answered
  BY DEF WorkInv, OnePerPost
<1>6. CASE k + 1 <= Len(Batch(n))
  <2> DEFINE x == [pc |-> "session", n |-> n, hooks |-> req[r].hooks, k |-> k + 1]
  <2>1. req'[r] = x
    BY <1>6 DEF Continue, StoredInv, TypeOK
  <2>2. /\ observed'.published = [observed.published EXCEPT ![n] = k + 1]
        /\ observed'.answered = observed.answered
        /\ observed'.steady = observed.steady
    BY <1>6 DEF Continue, StoredInv, TypeOK, Observations
  <2>3. /\ observed'.published[n] = k + 1
        /\ \A m \in Posts \ {n} : observed'.published[m] = observed.published[m]
    BY <2>2 DEF StoredInv, TypeOK, Observations
  <2>4. (k + 1) - 1 = k
    OBVIOUS
  <2>5. Progress(r)'
    BY <2>1, <2>2, <2>3, <2>4 DEF Progress
  <2>6. \A q \in Requests : Progress(q)'
    <3> SUFFICES ASSUME NEW q \in Requests \ {r} PROVE Progress(q)'
      BY <2>5
    <3>1. UnderWay(q) => req[q].n \in Posts \ {n}
      BY <1>4 DEF UnderWay, StoredInv, UnderWayStored, RequestStored
    <3> QED
      BY <1>3, <2>3, <3>1, ProgressKept DEF WorkInv
  <2>7. \A m \in observed'.answered : Finished(m)'
    BY <1>5, <2>2, <2>3, FinishedKept DEF WorkInv, StoredInv, TypeOK, Observations
  <2>8. OnePerPost'
    BY <1>3, <1>4, <1>5, <2>1, <2>2 DEF WorkInv, OnePerPost, UnderWay
  <2>9. \A m \in Posts : Batch(m)' = None => observed'.published[m] = 0
    BY <1>2, <2>3 DEF WorkInv
  <2> QED
    BY <2>2, <2>6, <2>7, <2>8, <2>9 DEF WorkInv
<1>7. CASE ~ (k + 1 <= Len(Batch(n)))
  <2>1. k = Len(Batch(n))
    BY <1>1, <1>7
  <2>2. req'[r] = NoRequest
    BY <1>7 DEF Continue, StoredInv, TypeOK
  <2>3. /\ observed'.published = observed.published
        /\ observed'.answered = observed.answered \union {n}
        /\ observed'.steady = observed.steady
    BY <1>7 DEF Continue, StoredInv, TypeOK, Observations
  <2>4. Finished(n)'
    <3>1. Handed(n, Len(Batch(n)))' /\ RecordedUpTo(n, Len(Batch(n)))'
      BY <1>1, <2>1 DEF Handed, RecordedUpTo
    <3> QED
      BY <1>1, <2>1, <2>3, <3>1 DEF Finished
  <2>5. \A m \in observed'.answered : Finished(m)'
    BY <2>3, <2>4, FinishedKept DEF WorkInv, StoredInv, TypeOK, Observations
  <2>6. \A q \in Requests : Progress(q)'
    <3>1. Progress(r)'
      BY <2>2 DEF Progress, NoRequest
    <3> QED
      BY <1>3, <2>3, <3>1, ProgressKept DEF WorkInv
  <2>7. OnePerPost'
    BY <1>3, <1>4, <2>2, <2>3 DEF WorkInv, OnePerPost, UnderWay, NoRequest
  <2>8. \A m \in Posts : Batch(m)' = None => observed'.published[m] = 0
    BY <1>2, <2>3 DEF WorkInv
  <2> QED
    BY <2>3, <2>5, <2>6, <2>7, <2>8 DEF WorkInv
<1> QED
  BY <1>6, <1>7

LEMMA TouchWork ==
  ASSUME StoredInv, WorkInv, NEW r \in Requests, Touch(r) PROVE WorkInv'
<1>1. [Next]_vars
  BY DEF Next
<1>2. req[r].pc = "touch" /\ UnderWay(r) /\ UNCHANGED <<audit, active, post>>
  BY DEF Touch, At, UnderWay
<1>3. /\ req[r].n \in Posts /\ Batch(req[r].n) # None
      /\ EventsOf(req[r].n) \subseteq audit
  BY <1>2 DEF StoredInv, UnderWayStored, RequestStored
<1>4. PICK n \in Posts : n = req[r].n
  BY <1>3
<1>5. /\ observed.published[n] = 0 /\ observed.steady[n] \subseteq req[r].hooks
  BY <1>2, <1>4 DEF WorkInv, Progress
<1>6. 0 <= Len(Batch(n)) /\ \A k \in DOMAIN Batch(n) : k > 0
  BY <1>3, <1>4, BatchFacts DEF StoredInv
<1>7. Handed(n, 0) /\ RecordedUpTo(n, 0)
  <2>1. \A k \in DOMAIN Batch(n) : k \in Nat /\ ~ (k <= 0)
    BY <1>3, <1>4, EventFacts DEF StoredInv
  <2> QED
    BY <2>1 DEF Handed, RecordedUpTo
<1>8. Handed(n, 0)' /\ RecordedUpTo(n, 0)'
  BY <1>1, <1>3, <1>4, <1>7, DoneStays
<1>9. Continue(r, 0 + 1)
  BY DEF Touch
<1> QED
  BY <1>1, <1>2, <1>3, <1>4, <1>5, <1>6, <1>8, <1>9, AdvanceWork

LEMMA DispatchWork ==
  ASSUME StoredInv, WorkInv, NEW r \in Requests, Dispatch(r) PROVE WorkInv'
<1>1. [Next]_vars
  BY DEF Next
<1>2. /\ req[r].pc = "tcts" /\ UnderWay(r) /\ Continue(r, req[r].k + 1)
      /\ UNCHANGED <<audit, active, post, delivery>>
  BY DEF Dispatch, At, UnderWay
<1>3. /\ req[r].n \in Posts /\ Batch(req[r].n) # None
      /\ EventsOf(req[r].n) \subseteq audit
      /\ req[r].k \in DOMAIN Batch(req[r].n)
  BY <1>2 DEF StoredInv, UnderWayStored, RequestStored
<1>4. PICK n \in Posts, k \in DOMAIN Batch(req[r].n) : n = req[r].n /\ k = req[r].k
  BY <1>3
<1>5. /\ k \in Nat /\ k <= Len(Batch(n)) /\ k - 1 \in Int
      /\ \A j \in DOMAIN Batch(n) : j \in Nat
  BY <1>3, <1>4, BatchFacts DEF StoredInv
<1>6. /\ observed.published[n] = k /\ observed.steady[n] \subseteq req[r].hooks
      /\ Handed(n, k - 1) /\ RecordedUpTo(n, k - 1) /\ Recorded(n, k)
  BY <1>2, <1>4 DEF WorkInv, Progress
<1>7. Handed(n, k - 1)' /\ RecordedUpTo(n, k - 1)' /\ Recorded(n, k)'
  BY <1>1, <1>3, <1>4, <1>5, <1>6, DoneStays
<1>8. \A j \in DOMAIN Batch(n) : j <= k => j <= k - 1 \/ j = k
  BY <1>5
<1>9. Batch(n)' = Batch(n)
  BY <1>2 DEF Batch
<1>10. RecordedUpTo(n, k)'
  BY <1>7, <1>8, <1>9 DEF RecordedUpTo
<1>11. \A h \in observed'.steady[n] :
          Due(n, k, h)' => <<<<n, k>>, h>> \in delivery' \union outgoing' \union observed'.lost
  <2> SUFFICES ASSUME NEW h \in observed'.steady[n], Due(n, k, h)'
               PROVE  <<<<n, k>>, h>> \in outgoing'
    OBVIOUS
  <2>1. h \in req[r].hooks
    BY <1>1, <1>3, <1>4, <1>6, NothingUndone
  <2>2. Current(r) = <<n, k>> /\ Event(Current(r)) = Batch(n)[k]
    BY <1>4 DEF Current, Event
  <2>3. Wants(h, Batch(n)[k].type)
    BY <1>9 DEF Due, Wants, Deliverable
  <2> QED
    BY <2>1, <2>2, <2>3 DEF Dispatch
<1>12. Handed(n, k)'
  BY <1>7, <1>8, <1>9, <1>11 DEF Handed
<1> QED
  BY <1>1, <1>2, <1>3, <1>4, <1>5, <1>6, <1>10, <1>12, AdvanceWork

LEMMA OtherWork ==
  ASSUME StoredInv, WorkInv,
         \/ \E o \in outgoing : InsertDelivery(o) \/ InsertFails(o)
         \/ \E h \in Webhooks : SetActive(h)
         \/ \E i \in Instances : Crash(i)
  PROVE  WorkInv'
<1>1. [Next]_vars
  BY DEF Next
<1>2. ASSUME NEW o \in outgoing, InsertDelivery(o) \/ InsertFails(o)
      PROVE  WorkInv'
  <2>1. /\ observed'.published = observed.published
        /\ observed'.answered = observed.answered
        /\ observed'.steady = observed.steady
    BY <1>2 DEF InsertDelivery, InsertFails, StoredInv, TypeOK, Observations
  <2> QED
    BY <1>1, <1>2, <2>1, QuietWork DEF InsertDelivery, InsertFails, WorkInv
<1>3. ASSUME NEW h \in Webhooks, SetActive(h)
      PROVE  WorkInv'
  <2>1. /\ observed'.published = observed.published
        /\ observed'.answered = observed.answered
        /\ \A n \in Posts : observed'.steady[n] \subseteq active'
    BY <1>3 DEF SetActive, WorkInv, StoredInv, TypeOK, Observations
  <2> QED
    BY <1>1, <1>3, <2>1, QuietWork DEF SetActive
<1>4. ASSUME NEW i \in Instances, Crash(i)
      PROVE  WorkInv'
  <2>1. /\ observed'.published = observed.published
        /\ observed'.answered = observed.answered
        /\ observed'.steady = observed.steady
    BY <1>4 DEF Crash, StoredInv, TypeOK, Observations
  <2>2. \A q \in Requests : req'[q] = req[q] \/ req'[q] = NoRequest
    BY <1>4 DEF Crash
  <2> QED
    BY <1>1, <1>4, <2>1, <2>2, QuietWork DEF Crash, WorkInv
<1> QED
  BY <1>2, <1>3, <1>4

LEMMA StepWork == StoredInv /\ WorkInv /\ [Next]_vars => WorkInv'
<1> SUFFICES ASSUME StoredInv, WorkInv, [Next]_vars PROVE WorkInv'
  OBVIOUS
<1>1. CASE \E r \in Requests :
              \/ \E i \in Instances, b \in Batches : Begin(r, i, b)
              \/ Store(r) \/ StoreFails(r) \/ ListWebhooks(r) \/ ListFails(r) \/ Touch(r)
              \/ ProjectSession(r) \/ ProjectFails(r) \/ Dispatch(r)
  BY <1>1, BeginWork, StoreWork, StoreFailsWork, ListWebhooksWork, ListFailsWork,
     TouchWork, ProjectSessionWork, ProjectFailsWork, DispatchWork
<1>2. CASE \/ \E o \in outgoing : InsertDelivery(o) \/ InsertFails(o)
           \/ \E h \in Webhooks : SetActive(h)
           \/ \E i \in Instances : Crash(i)
  BY <1>2, OtherWork
<1>3. CASE UNCHANGED vars
  <2>1. /\ \A n : Finished(n)' = Finished(n)
        /\ \A r : Progress(r)' = Progress(r)
        /\ OnePerPost' = OnePerPost
    BY <1>3 DEF vars, Finished, Progress, OnePerPost, Handed, RecordedUpTo, Recorded, Due,
                Batch, EventsOf, UnderWay
  <2> QED
    BY <1>3, <2>1 DEF vars, WorkInv, Batch
<1> QED
  BY <1>1, <1>2, <1>3 DEF Next

(* What 200 means (events/route.ts:146-175): for any batches, overlapping
   requests, failures and crashes, each event of an answered batch is stored
   and published, each delivery that is due has been recorded or given up by a
   failed insert, and a handshake that starts and ends in the batch is over. *)
THEOREM AnswersMeanDone == Spec => []AnsweredMeansDone
<1>1. Spec => []WorkInv
  BY InitInv, StepInv, InitWork, StepWork, PTL DEF Spec
<1>2. ASSUME StoredInv, WorkInv, NEW n \in observed.answered
      PROVE  /\ EventsOf(n) \subseteq audit
             /\ observed.published[n] = Len(Batch(n))
             /\ \A id \in EventsOf(n), h \in observed.steady[n] :
                   (/\ Event(id).type \in {"handshake.complete", "handshake.failed"}
                    /\ Subscribed[h] = {} \/ Event(id).type \in Subscribed[h])
                   => <<id, h>> \in delivery \union outgoing \union observed.lost
             /\ \A j, k \in DOMAIN Batch(n) :
                   (/\ j < k /\ Batch(n)[j].session = Batch(n)[k].session
                    /\ Batch(n)[j].session # None
                    /\ Batch(n)[j].type = "handshake.started"
                    /\ Batch(n)[k].type \in {"handshake.complete", "handshake.failed"}
                    /\ {<<n, j>>, <<n, k>>} \intersect observed.missed = {})
                   => session[Batch(n)[j].session].status \in {"complete", "failed"}
  <2>1. Finished(n) /\ n \in Posts
    BY <1>2 DEF WorkInv, StoredInv, TypeOK, Observations
  <2>2. \A j \in DOMAIN Batch(n) : j <= Len(Batch(n))
    BY <1>2, <2>1, BatchFacts DEF Finished, StoredInv
  <2>3. \A id \in EventsOf(n) :
           \E j \in DOMAIN Batch(n) : id = <<n, j>> /\ Event(id) = Batch(n)[j]
    BY DEF EventsOf, Event
  <2>4. \A j \in DOMAIN Batch(n), h \in observed.steady[n] :
           Due(n, j, h) => <<<<n, j>>, h>> \in delivery \union outgoing \union observed.lost
    BY <2>1, <2>2 DEF Finished, Handed
  <2>5. \A id \in EventsOf(n), h \in observed.steady[n] :
           (/\ Event(id).type \in {"handshake.complete", "handshake.failed"}
            /\ Subscribed[h] = {} \/ Event(id).type \in Subscribed[h])
           => <<id, h>> \in delivery \union outgoing \union observed.lost
    BY <2>3, <2>4 DEF Due
  <2>6. \A k \in DOMAIN Batch(n) : Recorded(n, k)
    BY <2>1, <2>2 DEF Finished, RecordedUpTo
  <2> QED
    BY <2>1, <2>5, <2>6 DEF Finished, Recorded
<1>3. StoredInv /\ WorkInv => AnsweredMeansDone
  BY <1>2 DEF AnsweredMeansDone
<1> QED
  BY <1>1, <1>3, Invariance, PTL

=============================================================================
