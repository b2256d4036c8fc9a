----------------------------- MODULE EventIngest -----------------------------
(***************************************************************************)
(* POST /api/events: a batch is stored, and then, event by event, it is    *)
(* published, projected onto the handshake sessions and the trust records, *)
(* and handed to the webhook outbox (src/src/app/api/events/route.ts,      *)
(* src/src/lib/audit/event-store.ts, src/src/lib/sessions/monitor.ts).     *)
(*                                                                         *)
(* An action ends where the code awaits.  What follows a publication is    *)
(* EventStream, what the trust records become is TrustRecords, and what    *)
(* becomes of an inserted delivery is WebhookDelivery.                     *)
(***************************************************************************)
EXTENDS Integers, Sequences

CONSTANTS
    Batches,      \* batches that agents report: sequences of [type, session]
    Sessions,     \* handshakes
    Webhooks,
    Subscribed,   \* Subscribed[h]: the event types of webhook h; {} is all
    Instances,    \* control-plane processes
    Requests,     \* bound: requests under way at once
    MaxPosts,     \* bound on the requests sent, retries included
    MaxDbErrors,  \* bound on failing statements
    MaxCrashes,   \* bound on crashes
    MaxAdmin,     \* bound on switching webhooks on and off
    None

Types == {"handshake.started", "handshake.complete", "handshake.failed", "other"}

Reported == [type : Types, session : Sessions \union {None}]

ASSUME IngestAssumption ==
    /\ Batches \subseteq Seq(Reported)
    /\ Subscribed \in [Webhooks -> SUBSET Types]
    /\ MaxPosts \in Nat /\ MaxDbErrors \in Nat /\ MaxCrashes \in Nat /\ MaxAdmin \in Nat
    /\ None \notin Sessions /\ None \notin Batches /\ None \notin Instances

VARIABLES
    audit,      \* audit_events: the ids of the stored events
    session,    \* handshake_sessions
    active,     \* the webhooks that are active
    delivery,   \* webhook_deliveries: <<event id, webhook>>
    req,        \* requests under way
    outgoing,   \* inserts into webhook_deliveries that nobody waits for
    post,       \* history: the n-th request
    observed,   \* history, see Observations
    faults

vars == <<audit, session, active, delivery, req, outgoing, post, observed, faults>>

-----------------------------------------------------------------------------

(* Every request gives its events new ids. *)
Posts == 1 .. MaxPosts

Ids == Posts \X Nat

Rows ==
    [ status : {"absent", "started", "complete", "failed"},
      started : Ids \union {None},    \* the event that inserted the row
      ended : Ids \union {None} ]     \* the event that updated it last

NoRow == [status |-> "absent", started |-> None, ended |-> None]

(* pc: the statement whose result is awaited.  k: the event being projected. *)
RequestStates ==
    [ pc : {"idle", "store", "list", "touch", "session", "tcts"},
      n : Posts \union {0},
      hooks : SUBSET Webhooks,        \* activeWebhooks, read once
      k : Nat ]

NoRequest == [pc |-> "idle", n |-> 0, hooks |-> {}, k |-> 0]

(* published[n]: how many events of request n were published.  answered: the
   requests that were answered 200.  missed: the events whose update of the
   sessions failed.  lost: the deliveries that were not inserted.  steady[n]:
   the webhooks that have been active ever since request n began and that it
   could read. *)
Observations ==
    [ published : [Posts -> Nat], answered : SUBSET Posts, missed : SUBSET Ids,
      lost : SUBSET (Ids \X Webhooks), steady : [Posts -> SUBSET Webhooks] ]

TypeOK ==
    /\ audit \in SUBSET Ids
    /\ session \in [Sessions -> Rows]
    /\ active \in SUBSET Webhooks
    /\ delivery \in SUBSET (Ids \X Webhooks)
    /\ req \in [Requests -> RequestStates]
    /\ outgoing \in SUBSET (Ids \X Webhooks)
    /\ post \in [Posts -> [batch : Batches \union {None}, inst : Instances \union {None}]]
    /\ observed \in Observations
    /\ faults \in [db : Nat, crash : Nat, admin : Nat]

Init ==
    /\ audit = {}
    /\ session = [s \in Sessions |-> NoRow]
    /\ active = Webhooks
    /\ delivery = {}
    /\ req = [r \in Requests |-> NoRequest]
    /\ outgoing = {}
    /\ post = [n \in Posts |-> [batch |-> None, inst |-> None]]
    /\ observed = [ published |-> [n \in Posts |-> 0], answered |-> {}, missed |-> {},
                    lost |-> {}, steady |-> [n \in Posts |-> {}] ]
    /\ faults = [db |-> MaxDbErrors, crash |-> MaxCrashes, admin |-> MaxAdmin]

-----------------------------------------------------------------------------
(* Helpers *)

At(r, pc) == req[r].pc = pc

Batch(n) == post[n].batch

Event(id) == Batch(id[1])[id[2]]

EventsOf(n) == {n} \X DOMAIN Batch(n)

Current(r) == <<req[r].n, req[r].k>>

DbFails ==
    /\ faults.db > 0
    /\ faults' = [faults EXCEPT !.db = @ - 1]

(* DELIVERABLE_EVENT_TYPES.  The four that belong to agents and tokens fare
   like handshake.failed without a session and are left out. *)
Deliverable == {"handshake.complete", "handshake.failed"}

(* Mutant of Wants: a webhook without a list of types wants none. *)
WantsListed(h, type) == type \in Deliverable /\ type \in Subscribed[h]

Wants(h, type) ==
    /\ type \in Deliverable
    /\ Subscribed[h] = {} \/ type \in Subscribed[h]

(* Mutant of Started: the insert updates the row that is there. *)
StartedAgain(row, id) == [status |-> "started", started |-> id, ended |-> None]

(* INSERT ... ON CONFLICT DO NOTHING *)
Started(row, id) ==
    IF row.status = "absent"
    THEN [status |-> "started", started |-> id, ended |-> None]
    ELSE row

(* Mutant of Ended: the status is spelt like the event in docs/api.md. *)
EndedCompleted(row, id, status) ==
    IF row.status = "absent"
    THEN row
    ELSE [ status |-> IF status = "complete" THEN "completed" ELSE status,
           started |-> row.started, ended |-> id ]

(* UPDATE ... WHERE session_id = s, whatever the status is. *)
Ended(row, id, status) ==
    IF row.status = "absent"
    THEN row
    ELSE [status |-> status, started |-> row.started, ended |-> id]

(* sessionMonitor.onEvent: what the row of its session becomes. *)
Projected(row, id) ==
    CASE Event(id).type = "handshake.started"  -> Started(row, id)
      [] Event(id).type = "handshake.complete" -> Ended(row, id, "complete")
      [] Event(id).type = "handshake.failed"   -> Ended(row, id, "failed")
      [] OTHER                                 -> row

-----------------------------------------------------------------------------
(* The handler *)

(* The body has been read and its events have got their ids. *)
Begin(r, i, b) ==
    \E n \in Posts :
        /\ At(r, "idle")
        /\ Batch(n) = None
        /\ \A m \in 1 .. (n - 1) : Batch(m) # None
        /\ post' = [post EXCEPT ![n] = [batch |-> b, inst |-> i]]
        /\ req' = [req EXCEPT ![r] = [pc |-> "store", n |-> n, hooks |-> {}, k |-> 0]]
        /\ observed' = [observed EXCEPT !.steady[n] = active]
        /\ UNCHANGED <<audit, session, active, delivery, outgoing, faults>>

(* One INSERT for the batch. *)
Store(r) ==
    /\ At(r, "store")
    /\ audit' = audit \union EventsOf(req[r].n)
    /\ req' = [req EXCEPT ![r].pc = "list"]
    /\ UNCHANGED <<session, active, delivery, outgoing, post, observed, faults>>

(* Mutant of AfterStoreFailure: the error is caught, like the next two. *)
AfterStoreFailureCaught(r) ==
    [pc |-> "list", n |-> req[r].n, hooks |-> {}, k |-> 0]

(* Nobody catches the error of the insert: the request fails. *)
AfterStoreFailure(r) == NoRequest

StoreFails(r) ==
    /\ At(r, "store")
    /\ DbFails
    /\ req' = [req EXCEPT ![r] = AfterStoreFailure(r)]
    /\ UNCHANGED <<audit, session, active, delivery, outgoing, post, observed>>

ListWebhooks(r) ==
    /\ At(r, "list")
    /\ req' = [req EXCEPT ![r] = [pc |-> "touch", n |-> req[r].n, hooks |-> active, k |-> 0]]
    /\ UNCHANGED <<audit, session, active, delivery, outgoing, post, observed, faults>>

(* Without the list the batch goes to no webhook. *)
ListFails(r) ==
    /\ At(r, "list")
    /\ DbFails
    /\ req' = [req EXCEPT ![r].pc = "touch"]
    /\ observed' = [observed EXCEPT !.steady[req[r].n] = {}]
    /\ UNCHANGED <<audit, session, active, delivery, outgoing, post>>

(* Publish event k and send its update of the sessions, or answer 200. *)
Continue(r, k) ==
    LET n == req[r].n IN
    IF k <= Len(Batch(n))
    THEN /\ req' = [req EXCEPT ![r] = [pc |-> "session", n |-> n,
                                       hooks |-> req[r].hooks, k |-> k]]
         /\ observed' = [observed EXCEPT !.published[n] = k]
    ELSE /\ req' = [req EXCEPT ![r] = NoRequest]
         /\ observed' = [observed EXCEPT !.answered = @ \union {n}]

(* The agents in the batch have been seen (or not: the error is caught). *)
Touch(r) ==
    /\ At(r, "touch")
    /\ Continue(r, 1)
    /\ UNCHANGED <<audit, session, active, delivery, outgoing, post, faults>>

ProjectSession(r) ==
    LET id == Current(r)
        s  == Event(id).session
    IN  /\ At(r, "session")
        /\ session' = IF s = None THEN session
                      ELSE [session EXCEPT ![s] = Projected(session[s], id)]
        /\ req' = [req EXCEPT ![r].pc = "tcts"]
        /\ UNCHANGED <<audit, active, delivery, outgoing, post, observed, faults>>

(* onEvent logs the error and returns. *)
ProjectFails(r) ==
    /\ At(r, "session")
    /\ DbFails
    /\ req' = [req EXCEPT ![r].pc = "tcts"]
    /\ observed' = [observed EXCEPT !.missed = @ \union {Current(r)}]
    /\ UNCHANGED <<audit, session, active, delivery, outgoing, post>>

(* tctMonitor.onEvent has returned, with or without success; the event is
   dispatched to the webhooks of the list, and nobody waits for that. *)
Dispatch(r) ==
    /\ At(r, "tcts")
    /\ outgoing' = outgoing \union
          {Current(r)} \X {h \in req[r].hooks : Wants(h, Event(Current(r)).type)}
    /\ Continue(r, req[r].k + 1)
    /\ UNCHANGED <<audit, session, active, delivery, post, faults>>

-----------------------------------------------------------------------------
(* enqueueDelivery *)

InsertDelivery(o) ==
    /\ delivery' = delivery \union {o}
    /\ outgoing' = outgoing \ {o}
    /\ UNCHANGED <<audit, session, active, req, post, observed, faults>>

InsertFails(o) ==
    /\ DbFails
    /\ outgoing' = outgoing \ {o}
    /\ observed' = [observed EXCEPT !.lost = @ \union {o}]
    /\ UNCHANGED <<audit, session, active, delivery, req, post>>

(* An operator switches a webhook on or off. *)
SetActive(h) ==
    /\ faults.admin > 0
    /\ faults' = [faults EXCEPT !.admin = @ - 1]
    /\ \/ h \notin active /\ active' = active \union {h} /\ UNCHANGED observed
       \/ /\ h \in active
          /\ active' = active \ {h}
          /\ observed' = [observed EXCEPT
                !.steady = [n \in Posts |-> observed.steady[n] \ {h}]]
    /\ UNCHANGED <<audit, session, delivery, req, outgoing, post>>

(* The process dies with its requests and its unfinished inserts. *)
Crash(i) ==
    LET gone == {o \in outgoing : post[o[1][1]].inst = i} IN
    /\ faults.crash > 0
    /\ faults' = [faults EXCEPT !.crash = @ - 1]
    /\ req' = [r \in Requests |->
          IF req[r].n # 0 /\ post[req[r].n].inst = i THEN NoRequest ELSE req[r]]
    /\ outgoing' = outgoing \ gone
    /\ observed' = [observed EXCEPT !.lost = @ \union gone]
    /\ UNCHANGED <<audit, session, active, delivery, post>>

Next ==
    \/ \E r \in Requests :
          \/ \E i \in Instances, b \in Batches : Begin(r, i, b)
          \/ Store(r) \/ StoreFails(r) \/ ListWebhooks(r) \/ ListFails(r) \/ Touch(r)
          \/ ProjectSession(r) \/ ProjectFails(r) \/ Dispatch(r)
    \/ \E o \in outgoing : InsertDelivery(o) \/ InsertFails(o)
    \/ \E h \in Webhooks : SetActive(h)
    \/ \E i \in Instances : Crash(i)

Spec == Init /\ [][Next]_vars

-----------------------------------------------------------------------------
(* Properties *)

(* Whatever fails or dies in between, nothing is published, projected or
   dispatched under an id that is not in the audit log
   (events/route.ts:146-173): subscribers can look it up. *)
StoredBeforeSeen ==
    /\ \A n \in Posts : \A k \in 1 .. observed.published[n] : <<n, k>> \in audit
    /\ \A s \in Sessions : {session[s].started, session[s].ended} \ {None} \subseteq audit
    /\ \A o \in outgoing \union delivery : o[1] \in audit

(* What 200 means, although projections fail and other batches about the same
   handshake are processed meanwhile: every event is stored and published; a
   deliverable one has a delivery for each webhook that wants it and was
   active all the time, unless its insert failed; and a handshake whose start
   and end are in the batch is over (events/route.ts:166-175). *)
AnsweredMeansDone ==
    \A n \in observed.answered :
        /\ EventsOf(n) \subseteq audit
        /\ observed.published[n] = Len(Batch(n))
        /\ \A id \in EventsOf(n), h \in observed.steady[n] :
              (/\ Event(id).type \in {"handshake.complete", "handshake.failed"}
               /\ Subscribed[h] = {} \/ Event(id).type \in Subscribed[h])
              => <<id, h>> \in delivery \union outgoing \union observed.lost
        /\ \A j, k \in DOMAIN Batch(n) :
              (/\ j < k /\ Batch(n)[j].session = Batch(n)[k].session
               /\ Batch(n)[j].session # None
               /\ Batch(n)[j].type = "handshake.started"
               /\ Batch(n)[k].type \in {"handshake.complete", "handshake.failed"}
               /\ {<<n, j>>, <<n, k>>} \intersect observed.missed = {})
              => session[Batch(n)[j].session].status \in {"complete", "failed"}

(* A report that arrives late or again never takes a session back to its
   start (sessions/monitor.ts:19-31). *)
SessionNeverRestarts ==
    [][ \A s \in Sessions :
          session[s].status # "absent" =>
              /\ session'[s].started = session[s].started
              /\ session[s].status # "started" => session'[s].status # "started" ]_vars

-----------------------------------------------------------------------------
(* A claim of the documentation that the code does not keep. *)

(* "Tolerate duplicate `id`s (the playground may retry; the CP uses ON
   CONFLICT DO NOTHING on the audit-events insert)"
   (docs/integration-playground.md:71): a batch that is sent again is not
   stored again. *)
RetriedStoredOnce ==
    \A m, n \in Posts :
        m # n /\ Batch(m) # None /\ Batch(m) = Batch(n)
            => EventsOf(m) \intersect audit = {} \/ EventsOf(n) \intersect audit = {}
=============================================================================
