--------------------------- MODULE WebhookDelivery ---------------------------
(***************************************************************************)
(* The webhook outbox: rows of webhook_deliveries, the attempts that work  *)
(* on them, the retry timers, the reaper and the per-process circuit       *)
(* breakers (src/src/lib/webhooks/service.ts), on several control-plane    *)
(* instances that share one Postgres database.                             *)
(*                                                                         *)
(* One action is one database statement, or one step of the HTTP exchange, *)
(* with the synchronous code that runs on its result up to the next await. *)
(* Anything may happen between two actions: statements of other attempts,  *)
(* admin requests, a crash of the process.                                 *)
(*                                                                         *)
(* Wall-clock time appears as the classes the code compares: nextRetryAt   *)
(* is "null", "future" or "due", and openedAt is as in Breaker.            *)
(***************************************************************************)
EXTENDS Breaker, FiniteSets

CONSTANTS
    Webhooks,     \* subscriptions that exist initially
    Deliveries,   \* one per (event, webhook) pair; ids are fresh UUIDs
    HookOf,       \* the webhook of each delivery
    Legacy,       \* rows enqueued before the signature column existed
    Instances,    \* control-plane processes
    Workers,      \* bound: attemptDelivery invocations under way at once
    RetryLimit,   \* config.webhookRetryAttempts
    FlushLimit,   \* FLUSH_BATCH_LIMIT
    PromptCalls,  \* TRUE: back-off (30 s) and reset timeout (60 s) run out
                  \* between attempts (10 s) only
    MaxAttempts,  \* bound: an attempt starts only below this attempt count
    MaxSecret,    \* bound: secrets a webhook can have
    MaxCrashes, MaxDbErrors, MaxAdmin,  \* bounds on those events
    None

ASSUME DeliveryAssumption ==
    /\ IsFiniteSet(Deliveries)
    /\ HookOf \in [Deliveries -> Webhooks]
    /\ Legacy \subseteq Deliveries
    /\ RetryLimit \in Nat \ {0}
    /\ FlushLimit \in Nat \ {0}
    /\ PromptCalls \in BOOLEAN
    /\ MaxAttempts \in Nat /\ MaxSecret \in Nat \ {0}
    /\ MaxCrashes \in Nat /\ MaxDbErrors \in Nat /\ MaxAdmin \in Nat
    /\ None \notin Deliveries \union Instances

VARIABLES
    \* Postgres
    hook,      \* rows of webhooks
    row,       \* rows of webhook_deliveries
    \* memory of the processes
    dispatch,  \* the fan-out of each delivery's event
    job,       \* the attemptDelivery invocations
    timer,     \* timer[i][d]: setTimeout retries of d armed on i
    reaping,   \* processes that run the reaper
    batch,     \* batch[i]: ids a reaper pass of i has selected, not yet taken
    breaker,   \* breaker[i][h]
    \* observed at the receiver, by attempt number of the delivery
    posted,    \* requests that have left
    acked,     \* requests whose 2xx response came back
    sigs,      \* signatures the requests carried
    \* what bounds the environment
    faults

database == <<hook, row>>
observed == <<posted, acked, sigs>>
vars == <<hook, row, dispatch, job, timer, batch, reaping, breaker,
          posted, acked, sigs, faults>>

-----------------------------------------------------------------------------

Hooks ==
    [ status : {"active", "inactive", "deleted"},
      secret : Nat,
      everPaused : BOOLEAN ]   \* history: has been inactive or deleted

Rows ==
    [ status : {"absent", "pending", "delivered", "failed"},
      attempts : Nat,
      nextRetryAt : {"null", "future", "due"},
      signature : Nat ]        \* the secret it was made with; 0 on Legacy rows

NoRow == [ status |-> "absent", attempts |-> 0, nextRetryAt |-> "null",
           signature |-> 0 ]

NewRow(s) == [ status |-> "pending", attempts |-> 0, nextRetryAt |-> "null",
               signature |-> s ]

Dispatches ==
    [ pc : {"none", "listed", "done"},
      inst : Instances \union {None},
      secret : Nat ]

Steps == {"idle", "readRow", "readHook", "markMissing", "park", "claim", "send",
          "await", "markDelivered", "markExhausted", "scheduleRetry"}

Jobs ==
    [ pc : Steps,
      inst : Instances \union {None},
      did : Deliveries \union {None},
      attempts : Nat,     \* the count read, then the one claimed
      signature : Nat ]

NoJob == [ pc |-> "idle", inst |-> None, did |-> None, attempts |-> 0,
           signature |-> 0 ]

TypeOK ==
    /\ hook \in [Webhooks -> Hooks]
    /\ row \in [Deliveries -> Rows]
    /\ dispatch \in [Deliveries -> Dispatches]
    /\ job \in [Workers -> Jobs]
    /\ timer \in [Instances -> [Deliveries -> Nat]]
    /\ reaping \subseteq Instances
    /\ batch \in [Instances -> SUBSET Deliveries]
    /\ breaker \in [Instances -> [Webhooks -> Entries]]
    /\ posted \in [Deliveries -> SUBSET Nat]
    /\ acked \in [Deliveries -> SUBSET Nat]
    /\ sigs \in [Deliveries -> SUBSET Nat]
    /\ faults \in [crash : Nat, db : Nat, admin : Nat]

Init ==
    /\ hook = [h \in Webhooks |->
                 [status |-> "active", secret |-> 1, everPaused |-> FALSE]]
    /\ row = [d \in Deliveries |-> IF d \in Legacy THEN NewRow(0) ELSE NoRow]
    /\ dispatch = [d \in Deliveries |->
                     [pc |-> IF d \in Legacy THEN "done" ELSE "none",
                      inst |-> None, secret |-> 0]]
    /\ job = [w \in Workers |-> NoJob]
    /\ timer = [i \in Instances |-> [d \in Deliveries |-> 0]]
    /\ reaping = {}
    /\ batch = [i \in Instances |-> {}]
    /\ breaker = [i \in Instances |-> [h \in Webhooks |-> FreshEntry]]
    /\ posted = [d \in Deliveries |-> {}]
    /\ acked = [d \in Deliveries |-> {}]
    /\ sigs = [d \in Deliveries |-> {}]
    /\ faults = [crash |-> MaxCrashes, db |-> MaxDbErrors, admin |-> MaxAdmin]

-----------------------------------------------------------------------------
(* Helpers *)

(* UPDATE ... WHERE id = d: no effect on a row that has been deleted. *)
Updated(d, r) ==
    IF row[d].status = "absent" THEN row ELSE [row EXCEPT ![d] = r]

At(w, pc) == job[w].pc = pc

Goto(w, pc) == job' = [job EXCEPT ![w].pc = pc]

Return(w) == job' = [job EXCEPT ![w] = NoJob]

(* attemptDelivery(d) is called on instance i. *)
StartAttempt(w, i, d) ==
    /\ At(w, "idle")
    /\ job' = [job EXCEPT ![w] = [pc |-> "readRow", inst |-> i, did |-> d,
                                  attempts |-> 0, signature |-> 0]]

(* Mutant of Due: rows that were never attempted are overlooked. *)
DueScheduledOnly == { d \in Deliveries : /\ row[d].status = "pending"
                                         /\ row[d].nextRetryAt = "due" }

(* What flushDueRetries selects. *)
Due == { d \in Deliveries : /\ row[d].status = "pending"
                            /\ row[d].nextRetryAt \in {"null", "due"} }

-----------------------------------------------------------------------------
(* Fan-out *)

(* The event's handler on i reads the webhook list, which it may use much
   later: the ingest route reads it once for a batch of events. *)
ListWebhooks(i, d) ==
    LET h == hook[HookOf[d]] IN
    /\ dispatch[d].pc = "none"
    /\ dispatch' = [dispatch EXCEPT ![d] =
          IF h.status = "active"
          THEN [pc |-> "listed", inst |-> i, secret |-> h.secret]
          ELSE [pc |-> "done", inst |-> None, secret |-> 0]]
    /\ UNCHANGED <<database, job, timer, batch, reaping, breaker, observed, faults>>

Dispatched(d) ==
    dispatch' = [dispatch EXCEPT ![d] = [pc |-> "done", inst |-> None, secret |-> 0]]

(* enqueueDelivery: insert the row, signed with the secret in the list, and
   call attemptDelivery without awaiting it. *)
Enqueue(w, d) ==
    /\ dispatch[d].pc = "listed"
    /\ hook[HookOf[d]].status # "deleted"
    /\ row' = [row EXCEPT ![d] = NewRow(dispatch[d].secret)]
    /\ StartAttempt(w, dispatch[d].inst, d)
    /\ Dispatched(d)
    /\ UNCHANGED <<hook, timer, batch, reaping, breaker, observed, faults>>

(* The insert fails: the webhook is gone (foreign key), or the database is. *)
EnqueueFails(d) ==
    /\ dispatch[d].pc = "listed"
    /\ \/ hook[HookOf[d]].status = "deleted" /\ UNCHANGED faults
       \/ faults.db > 0 /\ faults' = [faults EXCEPT !.db = @ - 1]
    /\ Dispatched(d)
    /\ UNCHANGED <<database, job, timer, batch, reaping, breaker, observed>>

-----------------------------------------------------------------------------
(* attemptDelivery *)

ReadRow(w) ==
    LET r == row[job[w].did] IN
    /\ At(w, "readRow")
    /\ \/ /\ r.status \in {"absent", "delivered"}
          /\ Return(w)
       \/ /\ r.status \notin {"absent", "delivered"}
          /\ job' = [job EXCEPT ![w] = [@ EXCEPT !.pc = "readHook",
                                                 !.attempts = r.attempts,
                                                 !.signature = r.signature]]
    /\ UNCHANGED <<database, dispatch, timer, batch, reaping, breaker, observed, faults>>

(* Mutant of SigningSecret: every attempt is signed afresh. *)
SigningSecretAfresh(w, h) == hook[h].secret

(* The signature stored at enqueue; a legacy row is signed with the secret of
   the webhook row just read. *)
SigningSecret(w, h) ==
    IF job[w].signature = 0 THEN hook[h].secret ELSE job[w].signature

(* SELECT the webhook and, on its result, consult the breaker of this
   process. *)
ReadHook(w) ==
    LET i == job[w].inst
        h == HookOf[job[w].did]
        e == breaker[i][h]
    IN
    /\ At(w, "readHook")
    /\ \/ /\ hook[h].status # "active"
          /\ Goto(w, "markMissing")
          /\ UNCHANGED breaker
       \/ /\ hook[h].status = "active"
          /\ ~ShouldAttempt(e)
          /\ Goto(w, "park")
          /\ UNCHANGED breaker
       \/ /\ hook[h].status = "active"
          /\ ShouldAttempt(e)
          /\ breaker' = [breaker EXCEPT ![i] = [@ EXCEPT ![h] = Admitted(e)]]
          /\ job' = [job EXCEPT ![w] =
                [@ EXCEPT !.pc = "claim", !.signature = SigningSecret(w, h)]]
    /\ UNCHANGED <<database, dispatch, timer, batch, reaping, observed, faults>>

(* Mutant of MarkMissing: the row gets a status of its own, which neither the
   reaper nor the retention sweep knows; the column takes any text. *)
MarkMissingInactive(w) ==
    LET d == job[w].did IN
    /\ At(w, "markMissing")
    /\ row' = Updated(d, [row[d] EXCEPT !.status = "inactive"])
    /\ Return(w)
    /\ UNCHANGED <<hook, dispatch, timer, batch, reaping, breaker, observed, faults>>

MarkMissing(w) ==
    LET d == job[w].did IN
    /\ At(w, "markMissing")
    /\ row' = Updated(d, [row[d] EXCEPT !.status = "failed"])
    /\ Return(w)
    /\ UNCHANGED <<hook, dispatch, timer, batch, reaping, breaker, observed, faults>>

(* Mutant of Parked: parking starts the delivery over. *)
ParkedAfresh(r) ==
    [r EXCEPT !.status = "pending", !.attempts = 0, !.nextRetryAt = "future"]

Parked(r) == [r EXCEPT !.status = "pending", !.nextRetryAt = "future"]

(* The breaker refused: the row waits for the reaper. *)
Park(w) ==
    LET d == job[w].did IN
    /\ At(w, "park")
    /\ row' = Updated(d, Parked(row[d]))
    /\ Return(w)
    /\ UNCHANGED <<hook, dispatch, timer, batch, reaping, breaker, observed, faults>>

(* Mutant of Claimable: the WHERE clause does not pin the count. *)
ClaimableAnyCount(w) == row[job[w].did].status = "pending"

Claimable(w) ==
    LET r == row[job[w].did] IN
    r.status = "pending" /\ r.attempts = job[w].attempts

(* The optimistic claim: UPDATE ... WHERE attempts = <the count read> AND
   status = 'pending'.  The loser returns as it is. *)
Claim(w) ==
    LET d == job[w].did IN
    /\ At(w, "claim")
    /\ \/ /\ Claimable(w)
          /\ row' = [row EXCEPT ![d] = [@ EXCEPT !.attempts = job[w].attempts + 1]]
          /\ job' = [job EXCEPT ![w] = [@ EXCEPT !.pc = "send", !.attempts = job[w].attempts + 1]]
       \/ ~Claimable(w) /\ Return(w) /\ UNCHANGED row
    /\ UNCHANGED <<hook, dispatch, timer, batch, reaping, breaker, observed, faults>>

(* fetch: the request leaves. *)
Send(w) ==
    LET d == job[w].did IN
    /\ At(w, "send")
    /\ posted' = [posted EXCEPT ![d] = @ \union {job[w].attempts}]
    /\ sigs' = [sigs EXCEPT ![d] = @ \union {job[w].signature}]
    /\ Goto(w, "await")
    /\ UNCHANGED <<database, dispatch, timer, batch, reaping, breaker, acked, faults>>

(* A 2xx response: the breaker is told before the row is written. *)
Accepted(w) ==
    LET i == job[w].inst
        d == job[w].did
    IN
    /\ At(w, "await")
    /\ acked' = [acked EXCEPT ![d] = @ \union {job[w].attempts}]
    /\ breaker' = [breaker EXCEPT ![i] =
          [@ EXCEPT ![HookOf[d]] = AfterSuccess(breaker[i][HookOf[d]])]]
    /\ Goto(w, "markDelivered")
    /\ UNCHANGED <<database, dispatch, timer, batch, reaping, posted, sigs, faults>>

(* Mutant of AfterRejection: any response counts as a delivery. *)
AfterRejectionAnyResponse(w) ==
    IF job[w].attempts >= RetryLimit THEN "markExhausted" ELSE "markDelivered"

AfterRejection(w) ==
    IF job[w].attempts >= RetryLimit THEN "markExhausted" ELSE "scheduleRetry"

(* Any other response, a network error, or the 10 s timeout. *)
Rejected(w) ==
    LET i == job[w].inst
        d == job[w].did
    IN
    /\ At(w, "await")
    /\ breaker' = [breaker EXCEPT ![i] =
          [@ EXCEPT ![HookOf[d]] = AfterFailure(breaker[i][HookOf[d]])]]
    /\ Goto(w, AfterRejection(w))
    /\ UNCHANGED <<database, dispatch, timer, batch, reaping, observed, faults>>

MarkDelivered(w) ==
    LET d == job[w].did IN
    /\ At(w, "markDelivered")
    /\ row' = Updated(d, [row[d] EXCEPT !.status = "delivered", !.nextRetryAt = "null"])
    /\ Return(w)
    /\ UNCHANGED <<hook, dispatch, timer, batch, reaping, breaker, observed, faults>>

MarkExhausted(w) ==
    LET d == job[w].did IN
    /\ At(w, "markExhausted")
    /\ row' = Updated(d, [row[d] EXCEPT !.status = "failed", !.nextRetryAt = "null"])
    /\ Return(w)
    /\ UNCHANGED <<hook, dispatch, timer, batch, reaping, breaker, observed, faults>>

(* Persist the back-off for the reaper, then arm the in-process timer. *)
ScheduleRetry(w) ==
    LET i == job[w].inst
        d == job[w].did
    IN
    /\ At(w, "scheduleRetry")
    /\ row' = Updated(d, [row[d] EXCEPT !.status = "pending", !.nextRetryAt = "future"])
    /\ timer' = [timer EXCEPT ![i][d] = @ + 1]
    /\ Return(w)
    /\ UNCHANGED <<hook, dispatch, batch, reaping, breaker, observed, faults>>

(* A statement of the attempt fails; the rejection is logged by its caller. *)
DbError(w) ==
    /\ job[w].pc \notin {"idle", "send", "await"}
    /\ faults.db > 0
    /\ faults' = [faults EXCEPT !.db = @ - 1]
    /\ Return(w)
    /\ UNCHANGED <<database, dispatch, timer, batch, reaping, breaker, observed>>

AttemptStep(w) ==
    \/ ReadRow(w) \/ ReadHook(w) \/ MarkMissing(w) \/ Park(w) \/ Claim(w)
    \/ Send(w) \/ Accepted(w) \/ Rejected(w)
    \/ MarkDelivered(w) \/ MarkExhausted(w) \/ ScheduleRetry(w)

-----------------------------------------------------------------------------
(* Retries *)

FireTimer(w, i, d) ==
    /\ timer[i][d] > 0
    /\ row[d].attempts < MaxAttempts
    /\ timer' = [timer EXCEPT ![i][d] = @ - 1]
    /\ StartAttempt(w, i, d)
    /\ UNCHANGED <<database, dispatch, batch, reaping, breaker, observed, faults>>

(* The first POST /api/events that a process gets starts its reaper; its first
   pass, and then one a minute, is Flush. *)
StartReaper(i) ==
    /\ i \notin reaping
    /\ reaping' = reaping \union {i}
    /\ UNCHANGED <<database, dispatch, job, timer, batch, breaker, observed, faults>>

(* A reaper pass selects at most FlushLimit due rows, in no stated order... *)
Flush(i) ==
    \E S \in SUBSET Due :
        /\ i \in reaping
        /\ ~(S \subseteq batch[i])
        /\ Cardinality(S) = FlushLimit \/ (Cardinality(S) < FlushLimit /\ S = Due)
        /\ batch' = [batch EXCEPT ![i] = @ \union S]
        /\ UNCHANGED <<database, dispatch, job, timer, reaping, breaker, observed, faults>>

(* ...and attempts them slice by slice, however long after the SELECT. *)
TakeFromBatch(w, i, d) ==
    /\ d \in batch[i]
    /\ row[d].attempts < MaxAttempts
    /\ batch' = [batch EXCEPT ![i] = @ \ {d}]
    /\ StartAttempt(w, i, d)
    /\ UNCHANGED <<database, dispatch, timer, reaping, breaker, observed, faults>>

-----------------------------------------------------------------------------
(* The clock *)

AllIdle == \A w \in Workers : At(w, "idle")

RetryFallsDue(d) ==
    /\ row[d].nextRetryAt = "future"
    /\ PromptCalls => AllIdle
    /\ row' = [row EXCEPT ![d] = [@ EXCEPT !.nextRetryAt = "due"]]
    /\ UNCHANGED <<hook, dispatch, job, timer, batch, reaping, breaker, observed, faults>>

ResetTimeout(i, h) ==
    /\ breaker[i][h].openedAt = "recent"
    /\ PromptCalls => AllIdle
    /\ breaker' = [breaker EXCEPT ![i] =
          [@ EXCEPT ![h] = AfterResetTimeout(breaker[i][h])]]
    /\ UNCHANGED <<database, dispatch, job, timer, batch, reaping, observed, faults>>

-----------------------------------------------------------------------------
(* Admin requests and crashes *)

AdminRequest ==
    /\ faults.admin > 0
    /\ faults' = [faults EXCEPT !.admin = @ - 1]

SetActive(h, s) ==
    /\ AdminRequest
    /\ hook[h].status # "deleted"
    /\ hook[h].status # s
    /\ hook' = [hook EXCEPT ![h] = [@ EXCEPT !.status = s, !.everPaused = TRUE]]
    /\ UNCHANGED <<row, dispatch, job, timer, batch, reaping, breaker, observed>>

RotateSecret(h) ==
    /\ AdminRequest
    /\ hook[h].status # "deleted"
    /\ hook[h].secret < MaxSecret
    /\ hook' = [hook EXCEPT ![h] = [@ EXCEPT !.secret = hook[h].secret + 1]]
    /\ UNCHANGED <<row, dispatch, job, timer, batch, reaping, breaker, observed>>

(* The foreign key cascades to the webhook's deliveries. *)
DeleteWebhook(h) ==
    /\ AdminRequest
    /\ hook[h].status # "deleted"
    /\ hook' = [hook EXCEPT ![h] = [@ EXCEPT !.status = "deleted", !.everPaused = TRUE]]
    /\ row' = [d \in Deliveries |-> IF HookOf[d] = h THEN NoRow ELSE row[d]]
    /\ UNCHANGED <<dispatch, job, timer, batch, reaping, breaker, observed>>

ResetBreaker(i, h) ==
    /\ AdminRequest
    /\ breaker' = [breaker EXCEPT ![i] = [@ EXCEPT ![h] = FreshEntry]]
    /\ UNCHANGED <<database, dispatch, job, timer, batch, reaping, observed>>

(* The process dies and starts again: everything in its memory is lost. *)
Crash(i) ==
    /\ faults.crash > 0
    /\ faults' = [faults EXCEPT !.crash = @ - 1]
    /\ job' = [w \in Workers |-> IF job[w].inst = i THEN NoJob ELSE job[w]]
    /\ dispatch' = [d \in Deliveries |->
          IF dispatch[d].inst = i
          THEN [pc |-> "done", inst |-> None, secret |-> 0] ELSE dispatch[d]]
    /\ timer' = [timer EXCEPT ![i] = [d \in Deliveries |-> 0]]
    /\ batch' = [batch EXCEPT ![i] = {}]
    /\ reaping' = reaping \ {i}
    /\ breaker' = [breaker EXCEPT ![i] = [h \in Webhooks |-> FreshEntry]]
    /\ UNCHANGED <<database, observed>>

-----------------------------------------------------------------------------

Fanout ==
    \E d \in Deliveries :
        \/ \E i \in Instances : ListWebhooks(i, d)
        \/ \E w \in Workers : Enqueue(w, d)
        \/ EnqueueFails(d)

Retry ==
    \E i \in Instances :
        \/ StartReaper(i)
        \/ Flush(i)
        \/ \E w \in Workers, d \in Deliveries :
              FireTimer(w, i, d) \/ TakeFromBatch(w, i, d)

Clock ==
    \/ \E d \in Deliveries : RetryFallsDue(d)
    \/ \E i \in Instances, h \in Webhooks : ResetTimeout(i, h)

Admin ==
    \E h \in Webhooks :
        \/ \E s \in {"active", "inactive"} : SetActive(h, s)
        \/ RotateSecret(h)
        \/ DeleteWebhook(h)
        \/ \E i \in Instances : ResetBreaker(i, h)

Next ==
    \/ Fanout
    \/ \E w \in Workers : AttemptStep(w) \/ DbError(w)
    \/ Retry
    \/ Clock
    \/ Admin
    \/ \E i \in Instances : Crash(i)

Spec == Init /\ [][Next]_vars

(* What a process does by itself: the event loop keeps running every attempt
   and time passes, and a reaper that was started keeps making its passes.
   Timers, requests and faults are not assumed. *)
Fairness ==
    /\ \A w \in Workers : WF_vars(AttemptStep(w))
    /\ \A i \in Instances : WF_vars(Flush(i))
    /\ \A i \in Instances, d \in Deliveries :
          WF_vars(\E w \in Workers : TakeFromBatch(w, i, d))
    /\ \A d \in Deliveries : WF_vars(RetryFallsDue(d))
    /\ \A i \in Instances, h \in Webhooks : SF_vars(ResetTimeout(i, h))

(* Every process, however often it restarts, is sent events. *)
FairSpec ==
    Spec /\ Fairness /\ \A i \in Instances : WF_vars(StartReaper(i))

(* Processes need not be sent events; timers that are armed do fire. *)
UnpromptedSpec ==
    /\ Spec /\ Fairness
    /\ \A i \in Instances, d \in Deliveries :
          WF_vars(\E w \in Workers : FireTimer(w, i, d))

-----------------------------------------------------------------------------
(* Properties *)

(* The attempt counter is a sound optimistic lock: however reaper, timers,
   instances and crashes interleave, no two attempts hold the same attempt
   number, and a number that was posted is never posted again
   (service.ts:224-243). *)
PostOncePerClaim ==
    \A w \in Workers : At(w, "send") =>
        /\ job[w].attempts \notin posted[job[w].did]
        /\ \A v \in Workers \ {w} :
              At(v, "send") /\ job[v].did = job[w].did
                => job[v].attempts # job[w].attempts

(* The row accounts for every request the receiver has seen: the attempts
   column never falls below the number of any request that left
   (service.ts:228-243). *)
PostsAccounted ==
    \A d \in Deliveries :
        row[d].status # "absent" => posted[d] \subseteq 1 .. row[d].attempts

(* Every attempt of a delivery carries the same signature, across secret
   rotations, retries, restarts and instances (service.ts:99-102, 245-251). *)
SignatureStable ==
    \A d \in Deliveries \ Legacy : Cardinality(sigs[d]) <= 1

(* The numbers of attempts that are about to POST d. *)
Unused(d) ==
    {job[w].attempts : w \in {v \in Workers : At(v, "send") /\ job[v].did = d}}

(* The deliveries whose webhook has been inactive or deleted. *)
Retired == {d \in Deliveries : hook[HookOf[d]].everPaused}

(* The outbox keeps its promise: seen from the rows, the receiver and the
   attempts about to send, every behaviour is one of DeliveryLedger, whatever
   instances, timers, reapers and breakers do, and over crashes and deletions
   (service.ts:185-331). *)
Ledger == INSTANCE DeliveryLedger WITH
    Budget  <- RetryLimit,
    status  <- [d \in Deliveries |-> row[d].status],
    count   <- [d \in Deliveries |-> row[d].attempts],
    claims  <- [d \in Deliveries |-> Unused(d)],
    retired <- Retired

ImplementsLedger == Ledger!Spec

(* Each breaker's fields agree although attempts of several deliveries report
   to it in any order (circuit-breaker.ts:67-129). *)
BreakersConsistent ==
    \A i \in Instances, h \in Webhooks : EntryConsistent(breaker[i][h])

(* The probe of h's breaker on i is claimed by no attempt that could still
   report its outcome. *)
ProbeLeaked(i, h) ==
    /\ breaker[i][h].probeInFlight
    /\ \A w \in Workers :
          ~( /\ job[w].pc \in {"claim", "send", "await"}
             /\ job[w].inst = i
             /\ HookOf[job[w].did] = h )

(* While processes are sent events, no delivery is pending for ever, although a crash
   may lose its attempt, its timer and its breaker, and no timer need fire
   (service.ts:333-337, 371-375); the one way to be stuck is a leaked probe,
   which ProbeHasAttempt below is about. *)
Settles ==
    \A d \in Deliveries :
        row[d].status = "pending"
            ~> \/ row[d].status # "pending"
               \/ \E i \in Instances : ProbeLeaked(i, HookOf[d])
               \/ row[d].attempts >= MaxAttempts   \* the bound of the run

(* What service.ts:202-203 and 371-375 say of the reaper: it picks a pending
   row up again, also one that an earlier process has left. *)
ReaperPicksUp ==
    \A d \in Deliveries :
        row[d].status = "pending" ~>
            row[d].status # "pending" \/ \E w \in Workers : job[w].did = d

-----------------------------------------------------------------------------
(* Inductive invariants behind the properties; WebhookDeliveryProofs. *)

(* A fan-out under way names its process; an attempt under way names its
   process and its delivery. *)
JobsRefer ==
    /\ \A d \in Deliveries :
          dispatch[d].pc = "listed" => dispatch[d].inst \in Instances
    /\ \A w \in Workers : ~At(w, "idle") =>
          job[w].inst \in Instances /\ job[w].did \in Deliveries

(* Nothing is known of a delivery before its row is inserted: no row, no
   attempt, no timer, no request. *)
FreshIds ==
    \A d \in Deliveries : dispatch[d].pc # "done" =>
        /\ row[d].status = "absent"
        /\ \A w \in Workers : ~At(w, "idle") => job[w].did # d
        /\ \A i \in Instances : timer[i][d] = 0 /\ d \notin batch[i]
        /\ posted[d] = {}
        /\ sigs[d] = {}

(* The number of a claim lies below the counter of a row that still exists. *)
ClaimsBelowCounter ==
    \A w \in Workers :
        job[w].pc \in {"send", "await", "markExhausted"} =>
            /\ job[w].attempts # 0
            /\ row[job[w].did].status # "absent"
                  => job[w].attempts <= row[job[w].did].attempts

ClaimInv ==
    /\ JobsRefer /\ FreshIds /\ ClaimsBelowCounter
    /\ PostsAccounted /\ PostOncePerClaim

(* What an attempt is about to write has its reason: the request of the
   response it awaits has left, a 2xx came back before the delivery is marked,
   and giving up has one of its two causes. *)
Justified(w) ==
    /\ At(w, "await") => job[w].attempts \in posted[job[w].did]
    /\ At(w, "markDelivered") => acked[job[w].did] # {}
    /\ At(w, "markMissing") => hook[HookOf[job[w].did]].everPaused
    /\ At(w, "markExhausted") => job[w].attempts >= RetryLimit

LedgerInv ==
    /\ \A d \in Deliveries : row[d].status = "absent" => row[d].attempts = 0
    /\ \A h \in Webhooks : hook[h].status # "active" => hook[h].everPaused
    /\ \A w \in Workers : Justified(w)

(* One signature, s, is all that d's row, its attempts and its receiver have. *)
SignedWith(d, s) ==
    /\ row[d].status # "absent" => row[d].signature = s
    /\ \A w \in Workers :
          job[w].did = d /\ job[w].pc \notin {"idle", "readRow"}
             => job[w].signature = s
    /\ sigs[d] \subseteq {s}

SignInv ==
    /\ \A h \in Webhooks : hook[h].secret \in 1 .. MaxSecret
    /\ \A d \in Deliveries :
          dispatch[d].pc = "listed" => dispatch[d].secret \in 1 .. MaxSecret
    /\ \A d \in Deliveries \ Legacy : \E s \in 1 .. MaxSecret : SignedWith(d, s)

-----------------------------------------------------------------------------
(* Claims of comments and documents that the code does not keep. *)

(* "concurrent callers can't both POST the same delivery" (service.ts:224). *)
OneInFlight ==
    \A v, w \in Workers :
        v # w /\ At(v, "await") /\ At(w, "await") => job[v].did # job[w].did

(* "Per-delivery retry budget" (README.md:63). *)
WithinBudget ==
    \A d \in Deliveries : Cardinality(posted[d]) <= RetryLimit

(* "terminal states (delivered / failed)" (retention.ts:6). *)
TerminalStates ==
    [][ \A d \in Deliveries :
          row[d].status = "delivered" => row'[d].status \in {"delivered", "absent"} ]_vars

(* "set when a probe is claimed and cleared on its outcome"
   (circuit-breaker.ts:49-50): a claimed probe has an attempt under way that
   will report its outcome. *)
ProbeHasAttempt ==
    \A i \in Instances, h \in Webhooks : ~ProbeLeaked(i, h)
==============================================================================
