# TLA+ verification of the AITP control plane

This directory holds a model of the AITP control plane (`src/`): a Next.js
API-only service over one Postgres database, run as one or more instances. It
hosts an agent registry, an audit log with a live event stream, a revocation
list and a webhook outbox. The modules are translated from the TypeScript
source; file and line numbers below are those of the repository.

## 1. Inventory

| Component | Code (`src/src/...`) | State | Operations | What makes it correct |
|---|---|---|---|---|
| Webhook outbox | `lib/webhooks/service.ts` | `webhooks`, `webhook_deliveries` rows; timers | enqueue, attempt, retry timer, reaper pass, admin update/delete | an attempt number is POSTed once; a delivered row was acknowledged; every pending row is worked on again |
| Circuit breaker | `lib/webhooks/circuit-breaker.ts` | one entry per webhook, per process | shouldAttempt, recordSuccess, recordFailure, reset | fields agree; one probe in half-open; no claim but that of an attempt under way or one that left without a report |
| Revocation list | `lib/revocation/producer.ts`, `app/api/revocation/entries/route.ts`, `app/.well-known/...` | `revocation_entries`; signed envelope cached 60 s per process | read (through the cache), add entry, invalidate | a list is served for a bounded time, and misses an older entry only if its own read failed or was too slow |
| Trust records | `lib/tcts/monitor.ts` | `issued_tcts`, `delegations` | record issued, revoked, delegated, delegation revoked | revocation is never undone, covers descendants, first one wins |
| Sessions | `lib/sessions/monitor.ts` | `handshake_sessions` | started, complete, failed | one row per handshake; the end state reflects the events |
| Event ingest | `app/api/events/route.ts`, `lib/audit/event-store.ts` | `audit_events` | POST a batch | stored before it is published, projected or dispatched |
| Event stream | `lib/audit/stream.ts`, `app/api/events/stream/route.ts` | in-memory ring, subscribers, per-connection buffers, open-stream count | publish, connect, replay, disconnect | no event twice on one stream; the count equals the open streams |
| Idempotency | `lib/idempotency.ts` | `idempotency_keys` | withIdempotency | one pinned response per key; every caller gets it |
| Registry | `lib/registry/*`, `app/api/registry/**` | `agents`; enrollment tokens live with the agents | enroll, register, deregister, expire | the status reflects the last operation; an expiry is announced once |
| Retention | `lib/retention.ts` | an advisory lock; five tables | sweep | one sweep at a time; nothing live is deleted; what is too old goes at last |
| Shutdown and readiness | `lib/shutdown.ts`, `instrumentation.ts`, `app/api/readyz/route.ts` | a flag, timers, hooks | signal, drain, exit | the flag is set and timers are cleared before the exit; exit within the grace period |
| Rate limiter | `lib/rate-limit.ts`, `middleware.ts` | fixed-window counters | check, gc | at most the limit per window; denials are deserved; the map stays small |
| Trust store | `app/api/trust-anchors/**`, `app/api/pinned-keys/**` | `trust_anchors`, `pinned_keys` | create, update, upsert, delete | the administrative trail tells what is stored; a conflict is told from a failure |
| Admin audit log | `lib/audit-log/service.ts` | `admin_audit_log` | append; purge by age (retention) | never fails the operation it logs; never says what is not so |
| Read-only queries | dashboard, metrics, export, replay, sessions, tcts and delegations routes | none | queries | - |
| Infrastructure | `lib/db`, `lib/config.ts`, `lib/logger.ts`, `drizzle/`, `openapi.yaml`, `e2e/` | none | - | - |

How they interact. `POST /api/events` stores a batch, then for each event
publishes to the event bus, updates the session and trust-record projections and
hands the event to the outbox with a webhook list read once for the batch. The
revocation route inserts its entry, invalidates the cached envelope and then does
the same with a `tct.revoked` event; the registry routes and the expiry job emit
`agent.*` events the same way. The three timers (webhook reaper, expiry job,
retention) are started only by `POST /api/events` (`route.ts:89-91`), in the
process that receives it; `instrumentation.ts` only registers the shutdown
hooks, and shutdown clears the timers. Instances share only Postgres.

What is hard here: every `await` is an interleaving point, within one process
and between instances; caches, breakers, timers and streams live in the memory
of a process that may die between a commit and what should follow it; and several
steps that belong together (store, publish, project, dispatch) are separate
statements.

## 2. Modules

Every module describes what several processes do at once: an action is the code
from one `await` (or callback) to the next, with the one SQL statement it sends.
Postgres is modelled by what its statements do, one at a time; only
`TrustRecords`, whose handlers use transactions, goes below that, to row locks.
A constant whose name begins with `Max`, and the size of each set of requests,
workers or sweeps, is a bound of the runs, not of the code, and is declared as
such where it is introduced. Failing statements, crashes and admin requests are
budgets in a variable `faults`. Variables marked *history* record what happened
for the sake of a property; no guard reads them.

| Module | Models | Variables and what they are in the code |
|---|---|---|
| `Breaker` | the operators of `circuit-breaker.ts` on one `BreakerEntry` | - |
| `CircuitBreaker` | one entry and the attempts that ask it and report to it | `entry`; `call[c]`: what `shouldAttempt` granted; history: `older`, the attempts under way when the probe was claimed, and `orphaned`, whether its claimant left without a report |
| `WebhookDelivery` | the outbox of `webhooks/service.ts`, with a `Breaker` per process and webhook | `hook`, `row`: the two tables; `dispatch`: a fan-out between its list and its insert; `job[w]`: an `attemptDelivery` call and the statement it waits for; `timer`, `batch`, `reaping`, `breaker`: the memory of each process; the rest is history |
| `RevocationList` | the list cache of `producer.ts` and the entries route | `entries`; `since`: how long an entry has been committed; `cache[i]`; `fetch[f]`: a GET between its SELECT and its signature; `post[p]`: an insertion before its invalidation |
| `TrustRecords` | the handlers of `tcts/monitor.ts` | `entries`, `tct`, `deleg`: the three tables; `proj[w]`: a handler, its transaction and the rows it holds |
| `EventStream` | `EventBus` and `GET /api/events/stream` | `backlog`: the ring; `conn[c]`: a stream and what it was sent; `openCount` |
| `EventIngest` | `POST /api/events`, `event-store.ts`, `sessions/monitor.ts`, the hand-off to the outbox | `audit`, `session`, `active`, `delivery`: the tables; `req[r]`: a handler, its webhook list and the event it is at; `outgoing`: inserts nobody waits for |
| `IdempotentCreate` | `withIdempotency` around `POST /api/webhooks` | `row`: `idempotency_keys`; `created`: `webhooks`; `req[r]` |
| `DeliveryLedger` | what the outbox promises: the abstract specification that `WebhookDelivery` implements | `status`, `count`: the row; `claims`: numbers of attempts about to POST; `posted`, `acked`: the receiver; `retired`: paused or deleted webhooks |
| `AgentRegistry` | enrollment, registration, deregistration, the expiry job | `now`; `token`; `agent`: the table; `req`; `started`: processes whose job runs; `sweep[s]`: a call of `enforceManifestExpiry` |
| `Retention` | `runRetentionSweep` and the statements that write the same tables | `row[r]`: a row by what the DELETEs compare; `sweep[t]`: a transaction, what its DELETE under way has found and what it has deleted so far; `holder`: the advisory lock |
| `ServiceProcess` | the life of a process: `shutdown.ts`, `instrumentation.ts`, the readiness probe, the timers; EXTENDS `Retention`, whose sweeps it begins and cuts off | `proc[i]`: mode, timers that are set, a probe under way, whether the load balancer sends requests |
| `RateLimiter` | `middleware.ts` and `rate-limit.ts` of one process | `now`; `bucket`: the map; `gcAt`: the interval; `drops` |
| `TrustStore` | anchors, pins and `writeAdminAudit` | `anchor`, `pin`, `trail`: the tables; `call[c]`: a handler and the statement it sends next; history: `lost`, `purged`: entries that were not written, and that the retention sweep has deleted |

`MC*` modules give the constants that a `.cfg` cannot express; `*Proofs`
hold the theorems. `WebhookDelivery` uses the operators of `Breaker`, so what
the lemmas about an entry in `WebhookDeliveryProofs` say holds of a breaker on its
own and of the breakers of the outbox alike. Modules that one proof module extends
together (`EventStream` and `ServiceProcess` in `ProcessProofs`, `TrustRecords`
and `TrustStore` in `TrustProofs`) share no name: hence `StoreSpec`,
`ProcessSpec`, `BreakerSpec` beside the plain `Spec`.

How operations correspond to actions is recorded per definition, with its file
and lines, in `PROJECT.json` ("map"). Some places deserve a word:

* **The claim** (`service.ts:226-243`). `Claim` is the conditional UPDATE
  (`attempts = attempts + 1 WHERE id = .. AND status = 'pending' AND attempts = n`).
  `ReadRow` takes the `n` it is compared with, several steps earlier. Everything
  between the two (breaker, webhook lookup, parking) is a step of its own.
* **Time.** No module has a clock in seconds. In the outbox, `RetryFallsDue`
  and `ResetTimeout` say that the time has come, in `Retention` `Age` does.
  `RevocationList`, `AgentRegistry` and `RateLimiter` count in units, with the
  lifetimes as constants.
* **The refinement.** `Ledger` in `WebhookDelivery` maps a delivery's row, the
  numbers held by attempts about to POST and the receiver to the variables of
  `DeliveryLedger`. `ListWebhooks`, `ReadRow`, `Park`, timers, reapers, breakers
  and lost claims are stutters; `Claim`, `Send`, `Accepted` and the four updates
  of the row are steps, and so are a crash (`Abandon`) and admin requests
  (`Withdraw`).
* **A DELETE finds, and then takes.** `Find` evaluates the condition in the
  statement's snapshot, `Purge` locks and deletes what was found. Of a row that
  was written in between, Postgres asks the WHERE clause again: for agents that
  is the whole condition (`retention.ts:127-144`), for the other tables it is
  `id IN (SELECT ...)`, whose result stands (`retention.ts:84-92`). So a delivery
  that a slower attempt has rescheduled meanwhile goes although it is pending;
  `overtaken` marks such rows, and `LiveRowsStay` says that no other live row goes.
* **Deleted in an open transaction.** A row that a sweep has deleted is there for
  everybody else until `Commit`, but its writers wait (`Locked`): Postgres row
  locks. That is why nothing comes alive between the DELETE and the commit.
* **Attempts that leave.** An attempt that `shouldAttempt` let through may lose its
  claim, or its UPDATE may throw, and then returns without a report
  (`service.ts:226-242`): `Leave` in `CircuitBreaker`. If it had claimed the probe,
  the claim stays behind.
* **`EventIngest` and the others.** A publication is `Publish` of `EventStream`,
  the projection of `tcts/monitor.ts` a handler of `TrustRecords`, an inserted
  delivery the first state of a `WebhookDelivery` row. The modules are not
  composed into one: what they promise each other is that an event is handed
  over after it is stored (`StoredBeforeSeen`), and each receiving module lets
  its input come at any time.

## 3. Runs

| Run | Shows | Instance |
|---|---|---|
| `breaker` | `BreakerConsistent`: state, counters, time stamp and probe claim agree. `ProbeExclusive`: whatever else is under way beside a claimed probe was let through before it, and a claim is that of an attempt under way or of one that left without a report. `OpenUntilTimeout`: a success that was admitted earlier does not close an open breaker. | four attempts that may report late or leave, thresholds 3 and 2 |
| `outbox_safety` | `ImplementsLedger`: every behaviour is one of `DeliveryLedger`, so a delivered row was acknowledged and giving up is justified, whichever attempt wrote the row. `PostOncePerClaim`: the counter is a lock on attempt numbers. `PostsAccounted`: it covers every request sent. `SignatureStable`: one signature over rotations, retries and restarts. | one delivery, two attempts, two processes, two secrets, a crash, a database error, an admin request; 450,000 states (1.4 million with `MaxAdmin = 2`, where all hold too) |
| `outbox_settles` | `Settles`: no delivery is pending for ever. | as above, one process, under fairness |
| `revocation_list` | `OmissionsBounded`: every list that is served was signed less than the cache lifetime ago, the empty list of a failed read included; and an entry that was committed that long ago is missing only if the list's own read failed or was under way at the commit. How long a query takes is not assumed. | two tokens, two processes, two overlapping GETs, a POST, a failing SELECT, a crash |
| `records` | `FirstRevocationWins`, `CascadeComplete`, `RevocationsAttributed`. | a token and two delegations in a chain, four revocations, two handlers at a time that wait for and deadlock with each other, a failure |
| `stream` | `SlotsExact`: the count behind the limit. `Gapless`: replay and live events join without loss or duplicate. `SlotsReturned`. | three connections for two slots, a ring of two, three events of two types |
| `idempotency` | `OneAnswer`: all 201 answers under a key agree. `AnsweredNotRerun`. | two keys, three overlapping requests, two failing statements, a crash, a purge |
| `registry` | `ExpiredIsLapsed`, `AnnouncedAtMostOnce`; under fairness `LapsedExpires`. | one agent, two processes, two overlapping sweeps, two requests, four units of time, a crash, a failing statement |
| `ingest` | `StoredBeforeSeen`, `AnsweredMeansDone`, `SessionNeverRestarts`. | two overlapping batches out of three about one handshake, two webhooks, two processes, two failing statements, a crash, two switches |
| `jobs` | `OneSweeper`: one sweep of the cluster deletes at a time. `LiveRowsStay`: what goes is aged and dead when it goes, but for a delivery that comes alive amid the very DELETE that has found it. Under fairness `AgedRowsGo`: no crash, skip or failure keeps the lock or a row for ever; `SignalledExits`: a hook that hangs does not keep the process. | two processes, one with a hook; two sweeps at once, a delivery and an agent, three writes; a signal, crash or failure |
| `gate` | `SlidingBound`: at most twice the limit in any time as long as a window. `DenialJustified`: only a caller with as many recent requests as the limit is denied. `StaleBounded`: what the garbage collection leaves. | two keys with one prefix, another token, one address; window and collection period of two units, five units of time |
| `trust_store` | `TrailExplainsStore`: what the trail says is right, whatever was lost or purged of it, and with the purged entries it tells what is stored unless an entry was lost; `OddAnswersAreRaces`. | two overlapping requests, four in all (five hold too: 1.7 million states), two ids, two issuers, a pin; a failing statement or a crash; entries of the trail purged at any time; both forms of the driver's error |

Why these bounds. The hazards are races of two actors over one row, so two
attempts, requests, handlers or sweeps, on two processes where it matters
whether they share memory, reach all of them. Two retries suffice for an attempt
to be first, last and neither; one crash and one failing statement at any point
suffice because the code keeps nothing that a second one could find different,
except a breaker, a timer or a cache, all of which are lost as a whole. The ring
is smaller than the number of events, and the connections exceed the slots, so
that both limits are reached. In `jobs` a batch is never smaller than what is due;
with a second delivery (`Rows = {d1, d2, a1}` in `MCServiceProcess.cfg`, under
`ProcessSpec`) it is, and the safety properties hold there too, as the proofs say of
every batch limit. Symmetry is used for processes, workers and
requests in the safety runs whose cfg names it, and never with a liveness
property. `CHECK_DEADLOCK FALSE` is set wherever the bounds or a quiet system
let a behaviour stop: the deliveries have all settled, the budgets are used up.

Fairness, and why the code has it:

* `outbox_settles`: an attempt whose `await` returns goes on (event loop, and
  the POST has a timeout, `service.ts:280`); a started reaper keeps making passes
  (`setInterval`); a retry time and a reset timeout pass. The reset timeout
  needs strong fairness in the model, since with `PromptCalls` it is disabled
  while an attempt admitted earlier is out. Timers need not fire. And processes
  are sent events, again after each restart: `StartReaper`, without which the
  reaper does not run at all. This is an assumption on the clients; section 4
  shows what happens without it.
* `stream`: the heartbeat interval fires until it is cleared.
* `jobs`: statements return; the retention interval and the deadline of the
  shutdown fire (`setInterval`, `setTimeout`; the HTTP server keeps the event loop
  alive); the load balancer probes and sends events to a process it found ready;
  the orchestrator restarts a process that has exited. Hooks need not settle.
  Of the cluster, not of each process, it is assumed that again and again an
  event is sent or an interval fires (`PostEvents` or `RetentionTick`). That
  fairness is strong because the bound on sweeps, and a probe that must come
  first, disable them now and then.
* `registry`: time passes, statements return, the interval fires, and processes
  are sent events (`StartExpiryJob`). Beginning a sweep needs strong fairness
  because the bound on sweeps may disable it; the code has no such bound.

`PromptCalls`, a constant of `WebhookDelivery`, says that no attempt outlives the
breaker's reset timeout. With the default settings none does (a POST is given up
after 10 s, the breaker waits 60 s, `service.ts:280`, `circuit-breaker.ts:40`), but
the timeout is configurable. Only `outbox_settles` and hand-run configurations set
it; `outbox_safety` and `breaker` are checked, and all theorems proved, without.

## 4. Where comments and documents say something else

Configurations and properties to be run by hand: `tlc -config F.cfg M`, where a
row with a starred configuration says to put the property in place of the
properties of that file. Each states a sentence of a comment or document, and TLC
finds a behaviour of the code that does not keep it, except for the first:

| Configuration (module) | Property | The sentence, and what happens |
|---|---|---|
| `MCDeliveryShared` (`MCWebhookDelivery`) | `Settles`, `BreakersConsistent` (hold) | two deliveries, one from before the signature column, compete for the probe and for a batch of one |
| `MCDeliveryTerminal`* (same) | `OneInFlight` | "concurrent callers can't both POST the same delivery" (`service.ts:224-225`): the claim leaves the row pending and due, so a pass of the reaper during a slow POST claims the next number |
| `MCDeliveryTerminal` (same) | `TerminalStates` | "terminal states" (`retention.ts:6`): a slower attempt turns delivered into pending |
| `MCDeliveryBudget` (same) | `WithinBudget` | "Per-delivery retry budget" (`README.md:63`): a row left behind with its budget used is sent once more |
| `MCDeliveryProbe` (same) | `ProbeHasAttempt` | "set when a probe is claimed and cleared on its outcome" (`circuit-breaker.ts:49-50`): an attempt that loses the claim keeps the probe |
| `MCDeliveryUnprompted` (same) | `ReaperPicksUp` | rows of an earlier process are picked up (`service.ts:371-375`): not before the process is sent events |
| `MCRevocationEmpty` (`MCRevocationList`) | `EmptyMeansNothingRevoked` | an empty list asserts that nothing was revoked (`producer.ts:29-31`): also served after a failed query |
| `MCRevocationTtl` (same) | `RefreshedByTtl` | "refreshes every REVOCATION_LIST_TTL_SECS" (`docs/api.md:131`): the cache lifetime is fixed at 60 s |
| `MCTrustChains` (`MCTrustRecords`) | `ActiveChainsWhole` | "never observe a half-applied revocation" (`monitor.ts:124-125`): a delegation reported after the cascade stays active |
| `MCTrustChains`* (same) | `Mirrored` | "mirrored whenever a JTI is added" (`schema.ts:241-242`) |
| `MCTrustReports` (same) | `RecordsReports` | "record what's reported" (`monitor.ts:10-11`): a deadlock victim's report is dropped |
| `MCIdempotentTwice` (`MCIdempotentCreate`) | `OneWebhookPerKey` | overlapping requests may both run because the operations "are themselves idempotent on duplicate state" (`idempotency.ts:24-26`): `createWebhook` is not, and two webhooks are created |
| `MCRegistryAnnounce` (`MCAgentRegistry`) | `AnnouncedExactlyOnce` | "each `agent.expired` event fires exactly once across the cluster" (`expiry-job.ts:15-18`): a crash between the UPDATE and the announcements loses them |
| `MCRegistryToken` (same) | `TokenUsedOnce` | "one-time bearer" (`openapi.yaml:55`) |
| `MCIngestRetry` (`MCEventIngest`) | `RetriedStoredOnce` | "Tolerate duplicate `id`s" (`docs/integration-playground.md:71`): every event gets a new id (`events/route.ts:51`) |
| `MCServiceProcess`* | `DrainingIsQuiet` (invariant) | "prevents a tick firing during shutdown" (`shutdown.ts:8-11`): an event that is ingested while hooks run sets the timers again |
| `MCServiceProcess`* | `ExitIsNoticed` | "Wait up to GRACE_PERIOD_MS for the LB readiness probe to notice" (`shutdown.ts:12-13`): without hooks the race is decided at once |
| `MCServiceProcess`* | `TerminalRowsGo` | "deletes ... `webhook_deliveries` in terminal states" (`retention.ts:4-6`): one that is rescheduled between the subquery and the DELETE is deleted while it is pending |
| `MCRateLimiter`* | `KeysApart` (invariant) | "authenticated routes use per-API-key" (`middleware.ts:107`): keys with the same first 24 characters share a bucket |
| `MCTrustStore`*, with `ErrorForms = {"wrapped"}` | `DuplicateIsConflict` (invariant) | "Returns 409 if (namespace, issuerUrl) already exists" (`docs/api.md:171`): `drizzle-orm` 0.45, which `package.json` asks for, keeps the driver's code on the cause of its own error, so the answer is a 500. Where the error comes unwrapped the sentence holds |

One disagreement is a matter of spelling and needs no run: the documents name the
event that ends a handshake `handshake.completed` (`docs/api.md:95`,
`docs/integration-playground.md:52`), where `sessions/monitor.ts:32` and
`DELIVERABLE_EVENT_TYPES` (`webhooks/service.ts:20-27`) match `handshake.complete`.
A client that follows the documents has its event stored and published, but its
session is not ended and no webhook is told; `Reported` in `EventIngest` has the
spelling of the code.

## 5. Proofs

All theorems hold for every value of the constants that satisfies the named
assumption of the module, the bounds included. Each follows from an inductive
invariant: it holds initially, every action preserves it (one lemma or step per
action), and it implies the property.

| Theorem | Says | Invariant and why it is needed |
|---|---|---|
| `WebhookDeliveryProofs!BreakerAlwaysConsistent`, `BreakerTypeCorrect` | `BreakerConsistent`, `BreakerTypeOK` | the property itself: one lemma per method of the class says that it keeps `EntryConsistent` |
| `WebhookDeliveryProofs!OpenIsKept` | `OpenUntilTimeout` | types alone: an open breaker refuses every ask before its timeout, and `recordSuccess` and `recordFailure` leave it open |
| `WebhookDeliveryProofs!ProbeAlwaysExclusive` | `ProbeExclusive`, with no assumption about when, or whether, attempts report | the property itself with `BreakerConsistent`; the history variables `older` and `orphaned` are what makes it inductive |
| `WebhookDeliveryProofs!TypeCorrect` | `TypeOK` of the outbox | `TypeOK` and `JobsRefer`: an attempt under way names a process and a delivery, so what it writes has a type |
| `WebhookDeliveryProofs!BreakersStayConsistent` | `BreakersConsistent` of the outbox | the property itself, from the same lemmas about an entry: an attempt reports only to the breaker of its own process and webhook, and a crash makes a new one |
| `WebhookDeliveryProofs!ClaimsAreExclusive`, `CounterAccountsForPosts` | `PostOncePerClaim`, `PostsAccounted` | `ClaimInv`: the number of a claim lies at or below the counter of the row (`ClaimsBelowCounter`), all posted numbers do, and a delivery that is not yet inserted has left no trace (`FreshIds`) |
| `WebhookDeliveryProofs!OutboxImplementsLedger` | `ImplementsLedger`: every step of the outbox is a step of `DeliveryLedger` or none | `ClaimInv`, so that a number is not taken or used twice, and `LedgerInv`: an attempt that is about to write an outcome has the reason for it (`Justified`), and a row that is gone has no counter. One lemma per kind of step says which step of the ledger it is |
| `WebhookDeliveryProofs!SignaturesAreStable` | `SignatureStable` | `SignInv`: there is one signature that the row, the attempts that have read it and the receiver have, whatever the webhook's secret has become since |
| `RevocationListProofs!OmissionsAreBounded`, `TypeCorrect` | `OmissionsBounded`, `TypeOK` | `OmissionsInv`: a query under way has seen every entry or was overtaken by it, a cached list likewise but for entries younger than its signature, and the time since the signature and the time left to the cache add up to no more than the lifetime |
| `ProcessProofs!CountIsExact` | `SlotsExact` | the set of live connections is finite, and each action changes count and set together |
| `ProcessProofs!StreamsAreGapless` | `Gapless` | `StreamInv`: the ring is the end of the log (`RingOf`), without which a replay could have a gap, and a live stream was sent what is `Recorded` of the log for it, in ascending order, so that the next event can only come last. `RingMoves` says that `publish` keeps the ring, `RecentIsLast` what `getBacklog` returns, `FilteredPicks` what `filter` does to it |
| `ProcessProofs!StreamTypeCorrect` | `TypeOK` of the streams | `StreamInv` and `LooseType`: what is kept and sent are places in the log, and the log is bounded |
| `ProcessProofs!SweepsAreAlone`, `ProcessTypeCorrect` | `OneSweeper`, `ProcessTypeOK` | `ProcessInv`: a sweep that deletes has the advisory lock, which it took while nobody had it, and only such a sweep has deleted rows |
| `ProcessProofs!OnlyDeadRowsGo` | `LiveRowsStay` | `SweepsInv`: what an open transaction has deleted, and what its DELETE has found in a table that it does not ask again, is `Ripe`: aged, and dead or come alive since it was found. Deleted rows stay so until the commit, because their writers wait |
| `TrustProofs!DescendantsAreBelow` | the recursive query of a cascade (`Descendants`, level by level) is reachability (`Below`, by closed sets), in any forest and however deep | the levels grow, and one that is no larger than the last is closed; there are no more levels than delegations |
| `TrustProofs!RecordsTypeCorrect`, `RowsHeldOnce` | `TypeOK`, `LocksExclusive` | `RecordsInv`: a row is held by one transaction and only while it is not revoked |
| `TrustProofs!CascadesAreComplete`, `RevocationsAreAttributed` | `CascadeComplete`, `RevocationsAttributed` | `RecordsInv`: what a transaction holds or has still to lock, with what is revoked already, covers what its report owes, and lies below the token. That was so when the report came and stays so, because delegations are only added (`BelowStays`) |
| `TrustProofs!FirstRevocationIsFinal` | `FirstRevocationWins` | `RecordsInv`: a commit writes only rows that it holds, and these are not revoked |
| `TrustProofs!StoreTypeCorrect` | `StoreTypeOK` | `StoreInv`, whose first part it is |
| `TrustProofs!TrailIsSufficient` | `TrailExplainsStore` | `StoreInv`: what has been made of a target is what was written of it, still there or purged, and what waits for its entry (`Made`); an id is drawn once, so an anchor is made at most once, and is there while it is made more often than removed. What was written explains a target only once nothing waits |
| `TrustProofs!OddAnswersExplained` | `OddAnswersAreRaces` | `StoreInv`: a request that looks up the holder was refused for one that is there, or was crossed since; a row that it has made is there, or it was crossed |
| `IdempotentCreateProofs!KeysHaveOneAnswer`, `AnswersEndTheHandler`, `TypeCorrect` | `OneAnswer`, `AnsweredNotRerun`, `TypeOK` | while a key's row lives, every answer given is the row's, and a request past its lookup began before the first answer |
| `EventIngestProofs!TypeCorrect`, `EventsAreStoredFirst` | `TypeOK`, `StoredBeforeSeen` | `StoredInv`: a request past its INSERT has stored its batch, projects an event of that batch, and published no more than the batch |
| `EventIngestProofs!SessionsNeverRestart` | `SessionNeverRestarts` | `StoredInv`: what is projected is an event of the batch, so that the three kinds of update are all there are |
| `EventIngestProofs!AnswersMeanDone` | `AnsweredMeansDone` | `WorkInv`: what a request has handed over and recorded of the events before the one it is at; that no step undoes any of it is a lemma of its own (`NothingUndone`, `DoneStays`), and `OnePerPost` keeps requests out of each other's counts |
| `AgentRegistryProofs!ExpiryIsDue`, `LapsesAnnouncedOnce`, `TypeCorrect` | `ExpiredIsLapsed`, `AnnouncedAtMostOnce`, `TypeOK` | `RegistryInv`: the time of a sweep has come, a sweep claims only in its UPDATE, and an active agent has one enrollment more than it has lapses, which the next lapse uses up |
| `RateLimiterProofs!NeverTwiceTheLimit`, `DenialsAreJustified`, `StaleBucketsGo`, `TypeCorrect` | `SlidingBound`, `DenialJustified`, `StaleBounded`, `TypeOK` | `WindowInv`: of any `limit + 1` admissions in a row the last is in a later window than the first, and a bucket counts exactly the last entries of its log; a bucket that is gone had a window that is over, so the collection forgets nothing that counts |

Two of these follow a definition step by step: the filter of a replay and the
levels of a cascade. The induction is written out: a set of numbers that fails
has a least element (`WFMin`), whose predecessor does not fail (`UpTo`). For that
`EventStream` has its filter as a recursive function, and `TrustRecords` the levels
of the query. `Gapless` says what a stream was sent as a set in ascending order,
not by the filter that the replay uses.

Every safety property and every action property of the runs is proved. Only
model-checked: the liveness properties (`Settles`, `SlotsReturned`,
`LapsedExpires`, `AgedRowsGo`, `SignalledExits`), which are beyond the prover, as
is `ENABLED`. Every module with variables has a type invariant; where the listed
run names other properties only (`RevocationList`, `EventStream`,
`IdempotentCreate`, `AgentRegistry`), `TypeOK` can be added to its `INVARIANTS`,
and holds; that it does for all values of the constants is proved as well.

## 6. Not modelled

* Payloads, canonical JSON, HMAC, signatures and manifests: opaque values.
  Whether two signatures are equal matters in `SignatureStable` and is modelled
  by the secret they were made with.
* The idempotency wrapper around the other handlers: it is the same code, and
  its effect is seen in `IdempotentCreate`.
* Of `POST /api/webhooks`, in `IdempotentCreate`: the 400 for a bad url, which is
  cached like a 201 (`api/webhooks/route.ts:45-50`) but is the same for every run of
  one body, and the entry in the audit log that the handler awaits (60-65), whose
  failure is swallowed. Neither changes which webhook an answer names.
* The writers of `admin_audit_log` outside the trust store: they call
  `writeAdminAudit` after their change in the same way.
* The read-only queries (dashboard, metrics, exports, listings), identity and
  signing, configuration and tracing: they change no state that another part
  reads.
* The load balancer and the orchestrator, but for what `ServiceProcess` assumes
  of them: probes, requests to a process found ready, restarts.

Hazards that no property covers are listed with the reason in `PROJECT.json`.

## 7. Plan

What is left, in this order:

1. Abstract specifications for more components, with proofs that the modules
   implement them: for `IdempotentCreate` one answer per key, for
   `RevocationList` what its lists promise of the entries table.
2. That a newer list is never replaced by an older one does not hold of
   `RevocationList` and is worth stating: `Sign` caches whatever it has read.
