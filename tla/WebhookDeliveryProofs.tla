------------------------ MODULE WebhookDeliveryProofs ------------------------
(***************************************************************************)
(* Proofs about the webhook outbox and about the circuit breaker that it   *)
(* consults, for any numbers of webhooks, deliveries, instances and        *)
(* concurrent attempts and any values of the limits and thresholds.        *)
(*                                                                         *)
(* The breaker comes first: what its methods do to an entry holds of the   *)
(* entry of CircuitBreaker and of every entry of the outbox.               *)
(***************************************************************************)
EXTENDS WebhookDelivery, CircuitBreaker, FiniteSetTheorems, TLAPS

-----------------------------------------------------------------------------
(* Each method of the class keeps an entry an entry, and keeps it consistent. *)

(* entry() and reset() produce a consistent entry. *)
LEMMA FreshEntryOK == FreshEntry \in Entries /\ EntryConsistent(FreshEntry)
  BY ThresholdAssumption DEF FreshEntry, Entries, EntryConsistent

(* shouldAttempt, when it answers true *)
LEMMA AdmittedOK ==
  ASSUME NEW e \in Entries, ShouldAttempt(e)
  PROVE  /\ Admitted(e) \in Entries
         /\ EntryConsistent(e) => EntryConsistent(Admitted(e))
  BY DEF Entries, Admitted, ShouldAttempt, EntryConsistent

(* recordSuccess *)
LEMMA AfterSuccessOK ==
  ASSUME NEW e \in Entries
  PROVE  /\ AfterSuccess(e) \in Entries
         /\ EntryConsistent(e) => EntryConsistent(AfterSuccess(e))
  BY ThresholdAssumption DEF Entries, AfterSuccess, Closes, EntryConsistent

(* recordFailure *)
LEMMA AfterFailureOK ==
  ASSUME NEW e \in Entries
  PROVE  /\ AfterFailure(e) \in Entries
         /\ EntryConsistent(e) => EntryConsistent(AfterFailure(e))
  BY ThresholdAssumption DEF Entries, AfterFailure, Opens, EntryConsistent

(* the reset timeout runs out *)
LEMMA AfterResetTimeoutOK ==
  ASSUME NEW e \in Entries, e.openedAt = "recent"
  PROVE  /\ AfterResetTimeout(e) \in Entries
         /\ EntryConsistent(e) => EntryConsistent(AfterResetTimeout(e))
  BY DEF Entries, AfterResetTimeout, EntryConsistent

(* Whatever the methods of a breaker do to an entry, it remains one. *)
LEMMA EntriesClosed ==
  /\ FreshEntry \in Entries
  /\ \A e \in Entries :
        /\ Admitted(e) \in Entries
        /\ AfterSuccess(e) \in Entries
        /\ AfterFailure(e) \in Entries
        /\ AfterResetTimeout(e) \in Entries
  BY FreshEntryOK, AfterSuccessOK, AfterFailureOK
  DEF Entries, Admitted, AfterResetTimeout

-----------------------------------------------------------------------------
(* CircuitBreaker *)

(* The variables of CircuitBreaker always have their types, for any number of
   attempts and any thresholds. *)
THEOREM BreakerTypeCorrect == BreakerSpec => []BreakerTypeOK
<1>1. BreakerInit => BreakerTypeOK
  BY FreshEntryOK DEF BreakerInit, BreakerTypeOK
<1>2. BreakerTypeOK /\ [BreakerNext]_breakerVars => BreakerTypeOK'
  <2> SUFFICES ASSUME BreakerTypeOK, [BreakerNext]_breakerVars PROVE BreakerTypeOK'
    OBVIOUS
  <2> USE DEF BreakerTypeOK, Reported, Disclaimed
  <2>1. ASSUME NEW c \in Callers, Ask(c) PROVE BreakerTypeOK'
    BY <2>1, AdmittedOK DEF Ask
  <2>2. ASSUME NEW c \in Callers, Succeed(c) PROVE BreakerTypeOK'
    BY <2>2, AfterSuccessOK DEF Succeed
  <2>3. ASSUME NEW c \in Callers, Fail(c) PROVE BreakerTypeOK'
    BY <2>3, AfterFailureOK DEF Fail
  <2>4. ASSUME NEW c \in Callers, Leave(c) PROVE BreakerTypeOK'
    BY <2>4 DEF Leave
  <2>5. CASE TimeoutElapses
    BY <2>5, AfterResetTimeoutOK DEF TimeoutElapses
  <2>6. CASE Reset
    BY <2>6, FreshEntryOK DEF Reset
  <2>7. CASE UNCHANGED breakerVars
    BY <2>7 DEF breakerVars
  <2>8. QED
    BY <2>1, <2>2, <2>3, <2>4, <2>5, <2>6, <2>7 DEF BreakerNext
<1>3. QED
  BY <1>1, <1>2, PTL DEF BreakerSpec

(* The state, the counters and the time stamp of a breaker entry agree in
   every reachable state: no interleaving of reports, resets and timeouts
   leaves, say, a closed breaker with a full failure count
   (circuit-breaker.ts:67-129). *)
THEOREM BreakerAlwaysConsistent == BreakerSpec => []BreakerConsistent
<1>1. BreakerInit => BreakerConsistent
  BY FreshEntryOK DEF BreakerInit, BreakerConsistent
<1>2. BreakerTypeOK /\ BreakerConsistent /\ [BreakerNext]_breakerVars => BreakerConsistent'
  <2> SUFFICES ASSUME BreakerTypeOK, BreakerConsistent, [BreakerNext]_breakerVars
               PROVE  BreakerConsistent'
    OBVIOUS
  <2> USE DEF BreakerTypeOK, BreakerConsistent
  <2>1. ASSUME NEW c \in Callers, Ask(c) PROVE BreakerConsistent'
    BY <2>1, AdmittedOK DEF Ask
  <2>2. ASSUME NEW c \in Callers, Succeed(c) PROVE BreakerConsistent'
    BY <2>2, AfterSuccessOK DEF Succeed
  <2>3. ASSUME NEW c \in Callers, Fail(c) PROVE BreakerConsistent'
    BY <2>3, AfterFailureOK DEF Fail
  <2>4. ASSUME NEW c \in Callers, Leave(c) PROVE BreakerConsistent'
    BY <2>4 DEF Leave
  <2>5. CASE TimeoutElapses
    BY <2>5, AfterResetTimeoutOK DEF TimeoutElapses
  <2>6. CASE Reset
    BY <2>6, FreshEntryOK DEF Reset
  <2>7. CASE UNCHANGED breakerVars
    BY <2>7 DEF breakerVars
  <2>8. QED
    BY <2>1, <2>2, <2>3, <2>4, <2>5, <2>6, <2>7 DEF BreakerNext
<1>3. QED
  BY <1>1, <1>2, BreakerTypeCorrect, PTL DEF BreakerSpec

(* However late attempts report, and whether they report at all: while a
   claim of the probe is in force, whatever else is under way was let through
   before it, and a claimed probe is that of an attempt under way or of one
   that left without a report (circuit-breaker.ts:62-85, service.ts:226-242). *)
THEOREM ProbeAlwaysExclusive == BreakerSpec => []ProbeExclusive
<1>1. BreakerInit => ProbeExclusive
  BY DEF BreakerInit, ProbeExclusive, FreshEntry
<1>2. BreakerTypeOK /\ BreakerConsistent /\ ProbeExclusive /\ [BreakerNext]_breakerVars
        => ProbeExclusive'
  <2> SUFFICES ASSUME BreakerTypeOK, BreakerConsistent, ProbeExclusive,
                      [BreakerNext]_breakerVars
               PROVE  ProbeExclusive'
    OBVIOUS
  <2> USE DEF BreakerTypeOK, BreakerConsistent, ProbeExclusive
  <2>1. ASSUME NEW c \in Callers, Ask(c) PROVE ProbeExclusive'
    <3>1. ~entry.probeInFlight
      BY <2>1 DEF Ask, ShouldAttempt, EntryConsistent
    <3>2. \A d \in Callers : call[d] # "probe"
      BY <3>1
    <3>3. CASE entry.state = "closed"
      BY <2>1, <3>1, <3>2, <3>3 DEF Ask, Admitted
    <3>4. CASE entry.state # "closed"
      <4>1. /\ entry'.state = "half_open"
            /\ entry'.probeInFlight
            /\ call' = [call EXCEPT ![c] = "probe"]
            /\ older' = {d \in Callers : call[d] # "idle"}
        BY <2>1, <3>4 DEF Ask, Admitted, Entries
      <4>2. QED
        BY <3>2, <4>1
    <3>5. QED
      BY <3>3, <3>4
  <2>2. ASSUME NEW c \in Callers, Succeed(c) PROVE ProbeExclusive'
    BY <2>2 DEF Succeed, AfterSuccess, Reported, Disclaimed
  <2>3. ASSUME NEW c \in Callers, Fail(c) PROVE ProbeExclusive'
    BY <2>3 DEF Fail, AfterFailure, Reported, Disclaimed
  <2>4. ASSUME NEW c \in Callers, Leave(c) PROVE ProbeExclusive'
    BY <2>4 DEF Leave
  <2>5. CASE TimeoutElapses
    BY <2>5 DEF TimeoutElapses, AfterResetTimeout, EntryConsistent, Entries
  <2>6. CASE Reset
    BY <2>6 DEF Reset, FreshEntry, Disclaimed
  <2>7. CASE UNCHANGED breakerVars
    BY <2>7 DEF breakerVars
  <2>8. QED
    BY <2>1, <2>2, <2>3, <2>4, <2>5, <2>6, <2>7 DEF BreakerNext
<1>3. QED
  BY <1>1, <1>2, BreakerTypeCorrect, BreakerAlwaysConsistent, PTL DEF BreakerSpec

(* ... and once open, a breaker is left open by every report, late or not,
   until the timeout has elapsed or an operator resets it
   (circuit-breaker.ts:87-118). *)
THEOREM OpenIsKept == BreakerSpec => OpenUntilTimeout
<1>1. BreakerTypeOK /\ [BreakerNext]_breakerVars =>
        [ entry.state = "open" /\ entry'.state # "open" =>
            \/ entry.openedAt = "elapsed" /\ entry'.state = "half_open"
            \/ Reset ]_breakerVars
  <2> SUFFICES ASSUME BreakerTypeOK, [BreakerNext]_breakerVars,
                      entry.state = "open", entry'.state # "open"
               PROVE  \/ entry.openedAt = "elapsed" /\ entry'.state = "half_open"
                      \/ Reset
    OBVIOUS
  <2> USE DEF BreakerTypeOK
  <2>1. ASSUME NEW c \in Callers, Ask(c)
        PROVE  entry.openedAt = "elapsed" /\ entry'.state = "half_open"
    BY <2>1 DEF Ask, ShouldAttempt, Admitted, Entries
  <2>2. ASSUME NEW c \in Callers, Succeed(c) PROVE FALSE
    BY <2>2 DEF Succeed, AfterSuccess, Closes
  <2>3. ASSUME NEW c \in Callers, Fail(c) PROVE FALSE
    BY <2>3 DEF Fail, AfterFailure, Opens
  <2>4. ASSUME NEW c \in Callers, Leave(c) PROVE FALSE
    BY <2>4 DEF Leave
  <2>5. CASE TimeoutElapses
    BY <2>5 DEF TimeoutElapses, AfterResetTimeout, Entries
  <2>6. CASE UNCHANGED breakerVars
    BY <2>6 DEF breakerVars
  <2> QED
    BY <2>1, <2>2, <2>3, <2>4, <2>5, <2>6 DEF BreakerNext
<1> QED
  BY <1>1, BreakerTypeCorrect, PTL DEF BreakerSpec, OpenUntilTimeout

-----------------------------------------------------------------------------
(* What an UPDATE of one row leaves: the type of the rows, and every other
   row as it was. *)
LEMMA UpdatedType ==
  ASSUME NEW d \in Deliveries, row \in [Deliveries -> Rows], NEW r \in Rows
  PROVE  Updated(d, r) \in [Deliveries -> Rows]
  BY DEF Updated

(* Records with some fields replaced. *)
LEMMA JobFields ==
  ASSUME NEW j \in Jobs, NEW p \in Steps, NEW n \in Nat, NEW s \in Nat
  PROVE  /\ [j EXCEPT !.pc = p] \in Jobs
         /\ [j EXCEPT !.pc = p, !.signature = s] \in Jobs
         /\ [j EXCEPT !.pc = p, !.attempts = n] \in Jobs
         /\ [j EXCEPT !.pc = p, !.attempts = n, !.signature = s] \in Jobs
<1>1. [j EXCEPT !.pc = p] \in Jobs
  BY DEF Jobs
<1>2. [j EXCEPT !.pc = p, !.signature = s] \in Jobs
  BY DEF Jobs
<1>3. [j EXCEPT !.pc = p, !.attempts = n] \in Jobs
  BY DEF Jobs
<1>4. [j EXCEPT !.pc = p, !.attempts = n, !.signature = s] \in Jobs
  BY DEF Jobs
<1>5. QED
  BY <1>1, <1>2, <1>3, <1>4

LEMMA RowFields ==
  ASSUME NEW r \in Rows, NEW t \in {"null", "future", "due"}
  PROVE  [r EXCEPT !.nextRetryAt = t] \in Rows
  BY DEF Rows

LEMMA HookFields ==
  ASSUME NEW g \in Hooks, NEW s \in {"active", "inactive", "deleted"}
  PROVE  /\ [g EXCEPT !.status = s, !.everPaused = TRUE] \in Hooks
         /\ [g EXCEPT !.secret = g.secret + 1] \in Hooks
<1>1. [g EXCEPT !.status = s, !.everPaused = TRUE] \in Hooks
  BY DEF Hooks
<1>2. [g EXCEPT !.secret = g.secret + 1] \in Hooks
  BY DEF Hooks
<1>3. QED
  BY <1>1, <1>2

Budgets == [crash : Nat, db : Nat, admin : Nat]

LEMMA SpendFault ==
  ASSUME NEW f \in Budgets
  PROVE  /\ f.db > 0 => [f EXCEPT !.db = @ - 1] \in Budgets
         /\ f.admin > 0 => [f EXCEPT !.admin = @ - 1] \in Budgets
         /\ f.crash > 0 => [f EXCEPT !.crash = @ - 1] \in Budgets
<1>1. f.db > 0 => [f EXCEPT !.db = @ - 1] \in Budgets
  BY DEF Budgets
<1>2. f.admin > 0 => [f EXCEPT !.admin = @ - 1] \in Budgets
  BY DEF Budgets
<1>3. f.crash > 0 => [f EXCEPT !.crash = @ - 1] \in Budgets
  BY DEF Budgets
<1>4. QED
  BY <1>1, <1>2, <1>3

TypeInv == TypeOK /\ JobsRefer

LEMMA InitType == Init => TypeInv
<1> USE DeliveryAssumption
<1>1. FreshEntry \in Entries
  BY DEF FreshEntry, Entries
<1>2. QED
  BY <1>1 DEF Init, TypeInv, TypeOK, JobsRefer, At, Hooks, Rows, NoRow, NewRow,
              Dispatches, Jobs, NoJob, Steps

LEMMA FanoutType == TypeInv /\ Fanout => TypeInv'
<1> SUFFICES ASSUME TypeInv, Fanout PROVE TypeInv'
  OBVIOUS
<1> USE DeliveryAssumption
<1>1. ASSUME NEW d \in Deliveries, NEW i \in Instances, ListWebhooks(i, d)
      PROVE  TypeInv'
  BY <1>1 DEF ListWebhooks, TypeInv, TypeOK, JobsRefer, At, Dispatches, Hooks,
              database, observed
<1>2. ASSUME NEW d \in Deliveries, NEW w \in Workers, Enqueue(w, d)
      PROVE  TypeInv'
  <2> USE <1>2 DEF Enqueue, TypeInv, TypeOK, observed
  <2>1. row' \in [Deliveries -> Rows]
    BY DEF Rows, NewRow, Dispatches
  <2>2. /\ dispatch[d].inst \in Instances
        /\ dispatch' \in [Deliveries -> Dispatches]
    BY DEF Dispatched, Dispatches, JobsRefer
  <2>3. job' \in [Workers -> Jobs]
    BY <2>2 DEF StartAttempt, Jobs, Steps
  <2>4. JobsRefer'
    BY <2>2 DEF JobsRefer, StartAttempt, Dispatched, At
  <2>5. QED
    BY <2>1, <2>2, <2>3, <2>4
<1>3. ASSUME NEW d \in Deliveries, EnqueueFails(d)
      PROVE  TypeInv'
  <2> USE <1>3 DEF EnqueueFails, TypeInv, TypeOK, database, observed
  <2>1. faults' \in [crash : Nat, db : Nat, admin : Nat]
    BY SpendFault DEF Budgets
  <2>2. dispatch' \in [Deliveries -> Dispatches]
    BY DEF Dispatched, Dispatches
  <2>3. JobsRefer'
    BY DEF Dispatched, JobsRefer, At
  <2>4. QED
    BY <2>1, <2>2, <2>3
<1>4. QED
  BY <1>1, <1>2, <1>3 DEF Fanout

LEMMA AttemptType ==
  ASSUME TypeInv, NEW w \in Workers, AttemptStep(w) \/ DbError(w)
  PROVE  TypeInv'
<1> USE DeliveryAssumption DEF TypeInv
<1> DEFINE d == job[w].did
           i == job[w].inst
<1>1. /\ ~At(w, "idle") /\ d \in Deliveries /\ i \in Instances
      /\ HookOf[d] \in Webhooks
  BY DEF JobsRefer, At, AttemptStep, DbError, ReadRow, ReadHook, MarkMissing, Park,
         Claim, Send, Accepted, Rejected, MarkDelivered, MarkExhausted, ScheduleRetry
<1> HIDE DEF d, i
<1>2. job[w] \in Jobs
  BY DEF TypeOK
<1>3. ASSUME NEW j \in Jobs, job' = [job EXCEPT ![w] = j], UNCHANGED dispatch,
             j.pc = "idle" \/ (j.inst = i /\ j.did = d)
      PROVE  job' \in [Workers -> Jobs] /\ JobsRefer'
  BY <1>1, <1>3 DEF JobsRefer, At, TypeOK, i, d
<1>4. ASSUME Return(w), UNCHANGED dispatch
      PROVE  job' \in [Workers -> Jobs] /\ JobsRefer'
  <2>1. NoJob \in Jobs
    BY DEF Jobs, NoJob, Steps
  <2>2. NoJob.pc = "idle"
    BY DEF NoJob
  <2>3. job' = [job EXCEPT ![w] = NoJob]
    BY <1>4 DEF Return
  <2>4. job' \in [Workers -> Jobs]
    BY <2>1, <2>3 DEF TypeOK
  <2>5. ASSUME NEW v \in Workers, ~At(v, "idle")'
        PROVE  v # w /\ ~At(v, "idle") /\ job'[v] = job[v]
    BY <2>2, <2>3, <2>4, <2>5 DEF At, TypeOK
  <2>6. JobsRefer'
    BY <1>4, <2>5 DEF JobsRefer, At
  <2>7. QED
    BY <2>4, <2>6
<1>5. ASSUME NEW p \in Steps, Goto(w, p), UNCHANGED dispatch
      PROVE  job' \in [Workers -> Jobs] /\ JobsRefer'
  <2>1. [job[w] EXCEPT !.pc = p] \in Jobs
    BY <1>2, JobFields
  <2>2. /\ [job[w] EXCEPT !.pc = p].inst = i
        /\ [job[w] EXCEPT !.pc = p].did = d
    BY <1>2 DEF Jobs, i, d
  <2>3. QED
    BY <2>1, <2>2, <1>3, <1>5 DEF Goto
<1>6. CASE ReadRow(w)
  <2>1. job' \in [Workers -> Jobs] /\ JobsRefer'
    <3>1. CASE Return(w)
      BY <1>4, <1>6, <3>1 DEF ReadRow
    <3>2. CASE ~Return(w)
      <4> DEFINE j == [job[w] EXCEPT !.pc = "readHook", !.attempts = row[d].attempts,
                                     !.signature = row[d].signature]
      <4>1. row[d].attempts \in Nat /\ row[d].signature \in Nat
        BY <1>1 DEF TypeOK, Rows
      <4>2. j \in Jobs
        BY <1>2, <4>1, JobFields DEF Steps
      <4>3. j.inst = i /\ j.did = d
        BY <1>2 DEF Jobs, i, d
      <4>4. job' = [job EXCEPT ![w] = j]
        BY <1>6, <3>2 DEF ReadRow, d
      <4> HIDE DEF j
      <4>5. QED
        BY <1>3, <1>6, <4>2, <4>3, <4>4 DEF ReadRow
    <3>3. QED
      BY <3>1, <3>2
  <2>2. QED
    BY <1>6, <2>1 DEF ReadRow, TypeOK, database, observed
<1>7. CASE ReadHook(w)
  <2> DEFINE h == HookOf[d]
             e == breaker[i][h]
             s == SigningSecret(w, h)
  <2>1. e \in Entries /\ h \in Webhooks /\ s \in Nat
    BY <1>1, <1>2 DEF TypeOK, Hooks, SigningSecret, Jobs
  <2> HIDE DEF s
  <2>2. CASE ~(hook[h].status = "active" /\ ShouldAttempt(e))
    <3>1. /\ UNCHANGED <<breaker, dispatch>>
          /\ Goto(w, "markMissing") \/ Goto(w, "park")
      BY <1>7, <2>2 DEF ReadHook, d, i
    <3>2. job' \in [Workers -> Jobs] /\ JobsRefer'
      BY <3>1, <1>5 DEF Steps
    <3>3. QED
      BY <1>7, <3>1, <3>2 DEF ReadHook, TypeOK, database, observed
  <2>3. CASE hook[h].status = "active" /\ ShouldAttempt(e)
    <3> DEFINE j == [job[w] EXCEPT !.pc = "claim", !.signature = s]
    <3>1. /\ breaker' = [breaker EXCEPT ![i] = [@ EXCEPT ![h] = Admitted(e)]]
          /\ job' = [job EXCEPT ![w] = j]
          /\ UNCHANGED dispatch
      BY <1>7, <2>3 DEF ReadHook, d, i, s
    <3>2. breaker' \in [Instances -> [Webhooks -> Entries]]
      BY <1>1, <2>1, <2>3, <3>1, EntriesClosed DEF TypeOK
    <3>3. j \in Jobs
      BY <1>2, <2>1, JobFields DEF Steps
    <3>4. j.inst = i /\ j.did = d
      BY <1>2 DEF Jobs, i, d
    <3> HIDE DEF j
    <3>5. job' \in [Workers -> Jobs] /\ JobsRefer'
      BY <1>3, <3>1, <3>3, <3>4
    <3>6. QED
      BY <1>7, <3>2, <3>5 DEF ReadHook, TypeOK, database, observed
  <2>4. QED
    BY <2>2, <2>3
<1>8. ASSUME NEW r \in Rows, row' = Updated(d, r)
      PROVE  row' \in [Deliveries -> Rows]
  BY <1>1, <1>8, UpdatedType DEF TypeOK
<1>9. row[d] \in Rows
  BY <1>1 DEF TypeOK
<1>10. CASE MarkMissing(w) \/ Park(w) \/ MarkDelivered(w) \/ MarkExhausted(w)
  <2>1. row' \in [Deliveries -> Rows]
    BY <1>8, <1>9, <1>10
       DEF MarkMissing, Park, Parked, MarkDelivered, MarkExhausted, Rows, d
  <2>2. job' \in [Workers -> Jobs] /\ JobsRefer'
    BY <1>4, <1>10 DEF MarkMissing, Park, MarkDelivered, MarkExhausted
  <2>3. QED
    BY <1>10, <2>1, <2>2
       DEF MarkMissing, Park, MarkDelivered, MarkExhausted, TypeOK, observed
<1>11. CASE ScheduleRetry(w)
  <2>1. row' \in [Deliveries -> Rows]
    BY <1>8, <1>9, <1>11 DEF ScheduleRetry, Rows, d
  <2>2. job' \in [Workers -> Jobs] /\ JobsRefer'
    BY <1>4, <1>11 DEF ScheduleRetry
  <2>3. timer' \in [Instances -> [Deliveries -> Nat]]
    BY <1>1, <1>11 DEF ScheduleRetry, TypeOK, d, i
  <2>4. QED
    BY <1>11, <2>1, <2>2, <2>3 DEF ScheduleRetry, TypeOK, observed
<1>12. CASE Claim(w)
  <2>1. CASE Claimable(w)
    <3> DEFINE n == job[w].attempts + 1
               j == [job[w] EXCEPT !.pc = "send", !.attempts = n]
    <3>1. n \in Nat
      BY <1>2 DEF Jobs
    <3>2. /\ row' = [row EXCEPT ![d] = [@ EXCEPT !.attempts = n]]
          /\ job' = [job EXCEPT ![w] = j]
          /\ UNCHANGED dispatch
      BY <1>12, <2>1 DEF Claim, d
    <3> HIDE DEF n
    <3>3. row' \in [Deliveries -> Rows]
      BY <1>1, <1>9, <3>1, <3>2 DEF TypeOK, Rows
    <3>4. j \in Jobs
      BY <1>2, <3>1, JobFields DEF Steps
    <3>5. j.inst = i /\ j.did = d
      BY <1>2 DEF Jobs, i, d
    <3> HIDE DEF j
    <3>6. job' \in [Workers -> Jobs] /\ JobsRefer'
      BY <1>3, <3>2, <3>4, <3>5
    <3>7. QED
      BY <1>12, <3>3, <3>6 DEF Claim, TypeOK, observed
  <2>2. CASE ~Claimable(w)
    <3>1. job' \in [Workers -> Jobs] /\ JobsRefer'
      BY <1>4, <1>12, <2>2 DEF Claim
    <3>2. QED
      BY <1>12, <2>2, <3>1 DEF Claim, TypeOK, observed
  <2>3. QED
    BY <2>1, <2>2
<1>13. CASE Send(w)
  <2>1. job' \in [Workers -> Jobs] /\ JobsRefer'
    BY <1>5, <1>13 DEF Send, Steps
  <2>2. /\ posted' \in [Deliveries -> SUBSET Nat]
        /\ sigs' \in [Deliveries -> SUBSET Nat]
    BY <1>1, <1>2, <1>13 DEF Send, TypeOK, Jobs, d
  <2>3. QED
    BY <1>13, <2>1, <2>2 DEF Send, TypeOK, database
<1>14. breaker[i][HookOf[d]] \in Entries
  BY <1>1 DEF TypeOK
<1>15. CASE Accepted(w)
  <2>1. job' \in [Workers -> Jobs] /\ JobsRefer'
    BY <1>5, <1>15 DEF Accepted, Steps
  <2>2. acked' \in [Deliveries -> SUBSET Nat]
    BY <1>1, <1>2, <1>15 DEF Accepted, TypeOK, Jobs, d
  <2>3. breaker' \in [Instances -> [Webhooks -> Entries]]
    BY <1>1, <1>14, <1>15, EntriesClosed DEF Accepted, TypeOK, d, i
  <2>4. QED
    BY <1>15, <2>1, <2>2, <2>3 DEF Accepted, TypeOK, database
<1>16. CASE Rejected(w)
  <2>1. job' \in [Workers -> Jobs] /\ JobsRefer'
    BY <1>5, <1>16 DEF Rejected, AfterRejection, Steps
  <2>2. breaker' \in [Instances -> [Webhooks -> Entries]]
    BY <1>1, <1>14, <1>16, EntriesClosed DEF Rejected, TypeOK, d, i
  <2>3. QED
    BY <1>16, <2>1, <2>2 DEF Rejected, TypeOK, database, observed
<1>17. CASE DbError(w)
  <2>1. job' \in [Workers -> Jobs] /\ JobsRefer'
    BY <1>4, <1>17 DEF DbError
  <2>2. faults' \in Budgets
    BY <1>17, SpendFault DEF DbError, TypeOK, Budgets
  <2>3. QED
    BY <1>17, <2>1, <2>2 DEF DbError, TypeOK, database, observed, Budgets
<1>18. QED
  BY <1>6, <1>7, <1>10, <1>11, <1>12, <1>13, <1>15, <1>16, <1>17 DEF AttemptStep

LEMMA RetryType == TypeInv /\ Retry => TypeInv'
<1> SUFFICES ASSUME TypeInv, Retry PROVE TypeInv'
  OBVIOUS
<1> USE DeliveryAssumption DEF TypeInv
<1>1. ASSUME NEW w \in Workers, NEW i \in Instances, NEW d \in Deliveries,
             StartAttempt(w, i, d), UNCHANGED dispatch
      PROVE  job' \in [Workers -> Jobs] /\ JobsRefer'
  <2>1. job' \in [Workers -> Jobs]
    BY <1>1 DEF StartAttempt, TypeOK, Jobs, Steps
  <2>2. JobsRefer'
    BY <1>1 DEF StartAttempt, TypeOK, JobsRefer, At
  <2>3. QED
    BY <2>1, <2>2
<1>2. ASSUME NEW i \in Instances, Flush(i)
      PROVE  TypeInv'
  BY <1>2 DEF Flush, Due, TypeOK, JobsRefer, At, database, observed
<1>3. ASSUME NEW w \in Workers, NEW i \in Instances, NEW d \in Deliveries,
             FireTimer(w, i, d)
      PROVE  TypeInv'
  <2>1. job' \in [Workers -> Jobs] /\ JobsRefer'
    BY <1>1, <1>3 DEF FireTimer
  <2>2. timer' \in [Instances -> [Deliveries -> Nat]]
    BY <1>3 DEF FireTimer, TypeOK
  <2>3. QED
    BY <1>3, <2>1, <2>2 DEF FireTimer, TypeOK, database, observed
<1>4. ASSUME NEW w \in Workers, NEW i \in Instances, NEW d \in Deliveries,
             TakeFromBatch(w, i, d)
      PROVE  TypeInv'
  <2>1. job' \in [Workers -> Jobs] /\ JobsRefer'
    BY <1>1, <1>4 DEF TakeFromBatch
  <2>2. QED
    BY <1>4, <2>1 DEF TakeFromBatch, TypeOK, database, observed
<1>5. ASSUME NEW i \in Instances, StartReaper(i)
      PROVE  TypeInv'
  BY <1>5 DEF StartReaper, TypeOK, JobsRefer, At, database, observed
<1>6. QED
  BY <1>2, <1>3, <1>4, <1>5 DEF Retry

LEMMA ClockType == TypeInv /\ Clock => TypeInv'
<1> SUFFICES ASSUME TypeInv, Clock PROVE TypeInv'
  OBVIOUS
<1> USE DEF TypeInv
<1>1. ASSUME NEW d \in Deliveries, RetryFallsDue(d)
      PROVE  TypeInv'
  <2>1. row' \in [Deliveries -> Rows]
    <3>1. row[d] \in Rows
      BY DEF TypeOK
    <3>2. [row[d] EXCEPT !.nextRetryAt = "due"] \in Rows
      BY <3>1, RowFields
    <3>3. QED
      BY <1>1, <3>2 DEF RetryFallsDue, TypeOK
  <2>2. QED
    BY <1>1, <2>1 DEF RetryFallsDue, TypeOK, JobsRefer, At, observed
<1>2. ASSUME NEW i \in Instances, NEW h \in Webhooks, ResetTimeout(i, h)
      PROVE  TypeInv'
  <2>1. breaker' \in [Instances -> [Webhooks -> Entries]]
    BY <1>2, EntriesClosed DEF ResetTimeout, TypeOK
  <2>2. QED
    BY <1>2, <2>1 DEF ResetTimeout, TypeOK, JobsRefer, At, database, observed
<1>3. QED
  BY <1>1, <1>2 DEF Clock

LEMMA AdminType == TypeInv /\ Admin => TypeInv'
<1> SUFFICES ASSUME TypeInv, Admin PROVE TypeInv'
  OBVIOUS
<1> USE DEF TypeInv
<1>1. AdminRequest => faults' \in Budgets
  BY SpendFault DEF AdminRequest, TypeOK, Budgets
<1>2. ASSUME NEW h \in Webhooks, NEW s \in {"active", "inactive"}, SetActive(h, s)
      PROVE  TypeInv'
  <2>1. hook' \in [Webhooks -> Hooks]
    BY <1>2, HookFields DEF SetActive, TypeOK
  <2>2. QED
    BY <1>1, <1>2, <2>1 DEF SetActive, TypeOK, JobsRefer, At, observed, Budgets
<1>3. ASSUME NEW h \in Webhooks, RotateSecret(h)
      PROVE  TypeInv'
  <2>1. hook' \in [Webhooks -> Hooks]
    BY <1>3, HookFields DEF RotateSecret, TypeOK
  <2>2. QED
    BY <1>1, <1>3, <2>1 DEF RotateSecret, TypeOK, JobsRefer, At, observed, Budgets
<1>4. ASSUME NEW h \in Webhooks, DeleteWebhook(h)
      PROVE  TypeInv'
  <2>1. hook' \in [Webhooks -> Hooks]
    BY <1>4, HookFields DEF DeleteWebhook, TypeOK
  <2>2. row' \in [Deliveries -> Rows]
    BY <1>4 DEF DeleteWebhook, TypeOK, Rows, NoRow
  <2>3. QED
    BY <1>1, <1>4, <2>1, <2>2 DEF DeleteWebhook, TypeOK, JobsRefer, At, observed, Budgets
<1>5. ASSUME NEW h \in Webhooks, NEW i \in Instances, ResetBreaker(i, h)
      PROVE  TypeInv'
  <2>1. breaker' \in [Instances -> [Webhooks -> Entries]]
    BY <1>5, EntriesClosed DEF ResetBreaker, TypeOK
  <2>2. QED
    BY <1>1, <1>5, <2>1 DEF ResetBreaker, TypeOK, JobsRefer, At, database, observed, Budgets
<1>6. QED
  BY <1>2, <1>3, <1>4, <1>5 DEF Admin

LEMMA CrashType ==
  ASSUME TypeInv, NEW i \in Instances, Crash(i)
  PROVE  TypeInv'
<1> USE DeliveryAssumption DEF TypeInv
<1>1. faults' \in Budgets
  BY SpendFault DEF Crash, TypeOK, Budgets
<1>2. job' \in [Workers -> Jobs]
  BY DEF Crash, TypeOK, Jobs, NoJob, Steps
<1>3. dispatch' \in [Deliveries -> Dispatches]
  BY DEF Crash, TypeOK, Dispatches
<1>4. timer' \in [Instances -> [Deliveries -> Nat]]
  BY DEF Crash, TypeOK
<1>5. batch' \in [Instances -> SUBSET Deliveries]
  BY DEF Crash, TypeOK
<1>6. breaker' \in [Instances -> [Webhooks -> Entries]]
  BY EntriesClosed DEF Crash, TypeOK
<1>7. JobsRefer'
  <2>1. \A d \in Deliveries :
           dispatch'[d].pc = "listed" => dispatch'[d].inst \in Instances
    BY DEF Crash, TypeOK, JobsRefer
  <2>2. \A w \in Workers : job'[w].pc # "idle" =>
           job'[w].inst \in Instances /\ job'[w].did \in Deliveries
    BY DEF Crash, TypeOK, JobsRefer, At, NoJob
  <2>3. QED
    BY <2>1, <2>2 DEF JobsRefer, At
<1>8. QED
  BY <1>1, <1>2, <1>3, <1>4, <1>5, <1>6, <1>7
     DEF Crash, TypeOK, database, observed, Budgets

LEMMA StutterType == TypeInv /\ UNCHANGED vars => TypeInv'
  BY DEF TypeInv, TypeOK, JobsRefer, At, vars

LEMMA StepType == TypeInv /\ [Next]_vars => TypeInv'
  BY FanoutType, AttemptType, RetryType, ClockType, AdminType, CrashType,
     StutterType DEF Next

(* Every variable keeps its type, and attempts and fan-outs in progress name
   the process and the delivery they work for. *)
THEOREM TypeCorrect == Spec => []TypeOK
<1>1. Spec => []TypeInv
  BY InitType, StepType, PTL DEF Spec
<1>2. TypeInv => TypeOK
  BY DEF TypeInv
<1>3. QED
  BY <1>1, <1>2, PTL

-----------------------------------------------------------------------------
(* The breakers of the outbox.  Five actions of an attempt, of the clock and of
   an operator put one entry in the place of another; a crash makes all entries
   of a process new; nothing else touches them. *)

LEMMA EntryReplaced ==
  ASSUME TypeOK, BreakersConsistent,
         NEW i \in Instances, NEW h \in Webhooks,
         NEW e \in Entries, EntryConsistent(e),
         breaker' = [breaker EXCEPT ![i] = [breaker[i] EXCEPT ![h] = e]]
  PROVE  BreakersConsistent'
<1>1. breaker \in [Instances -> [Webhooks -> Entries]]
  BY DEF TypeOK
<1>2. \A j \in Instances, g \in Webhooks :
        breaker'[j][g] = IF j = i /\ g = h THEN e ELSE breaker[j][g]
  BY <1>1
<1> QED
  BY <1>2 DEF BreakersConsistent

LEMMA EntriesKept ==
  ASSUME BreakersConsistent, UNCHANGED breaker
  PROVE  BreakersConsistent'
  BY DEF BreakersConsistent

LEMMA AttemptKeepsBreakers ==
  ASSUME TypeInv, BreakersConsistent, NEW w \in Workers, AttemptStep(w) \/ DbError(w)
  PROVE  BreakersConsistent'
<1> DEFINE d == job[w].did
           i == job[w].inst
           h == HookOf[d]
           e == breaker[i][h]
<1>1. job[w].pc # "idle" => /\ i \in Instances /\ d \in Deliveries /\ h \in Webhooks
                            /\ e \in Entries /\ EntryConsistent(e)
  BY DeliveryAssumption DEF TypeInv, TypeOK, JobsRefer, At, BreakersConsistent
<1>2. CASE ReadHook(w)
  <2>1. job[w].pc # "idle"
    BY <1>2 DEF ReadHook, At
  <2>2. CASE UNCHANGED breaker
    BY <2>2, EntriesKept
  <2>3. CASE /\ ShouldAttempt(e)
             /\ breaker' = [breaker EXCEPT ![i] = [breaker[i] EXCEPT ![h] = Admitted(e)]]
    <3>1. Admitted(e) \in Entries /\ EntryConsistent(Admitted(e))
      BY <1>1, <2>1, <2>3, AdmittedOK
    <3> HIDE DEF i, h, e
    <3> QED
      BY <1>1, <2>1, <2>3, <3>1, EntryReplaced DEF TypeInv
  <2> QED
    BY <1>2, <2>2, <2>3 DEF ReadHook
<1>3. CASE Accepted(w)
  <2>1. /\ job[w].pc # "idle"
        /\ breaker' = [breaker EXCEPT ![i] = [breaker[i] EXCEPT ![h] = AfterSuccess(e)]]
    BY <1>3 DEF Accepted, At
  <2>2. AfterSuccess(e) \in Entries /\ EntryConsistent(AfterSuccess(e))
    BY <1>1, <2>1, AfterSuccessOK
  <2> HIDE DEF i, h, e
  <2> QED
    BY <1>1, <2>1, <2>2, EntryReplaced DEF TypeInv
<1>4. CASE Rejected(w)
  <2>1. /\ job[w].pc # "idle"
        /\ breaker' = [breaker EXCEPT ![i] = [breaker[i] EXCEPT ![h] = AfterFailure(e)]]
    BY <1>4 DEF Rejected, At
  <2>2. AfterFailure(e) \in Entries /\ EntryConsistent(AfterFailure(e))
    BY <1>1, <2>1, AfterFailureOK
  <2> HIDE DEF i, h, e
  <2> QED
    BY <1>1, <2>1, <2>2, EntryReplaced DEF TypeInv
<1>5. CASE \/ ReadRow(w) \/ MarkMissing(w) \/ Park(w) \/ Claim(w) \/ Send(w)
           \/ MarkDelivered(w) \/ MarkExhausted(w) \/ ScheduleRetry(w) \/ DbError(w)
  BY <1>5, EntriesKept DEF ReadRow, MarkMissing, Park, Claim, Send, MarkDelivered,
     MarkExhausted, ScheduleRetry, DbError
<1> QED
  BY <1>2, <1>3, <1>4, <1>5 DEF AttemptStep

LEMMA OthersKeepBreakers ==
  ASSUME TypeInv, BreakersConsistent,
         \/ Fanout \/ Retry \/ Clock \/ Admin
         \/ \E i \in Instances : Crash(i)
         \/ UNCHANGED vars
  PROVE  BreakersConsistent'
<1>1. CASE Fanout \/ Retry \/ UNCHANGED vars
  BY <1>1, EntriesKept DEF Fanout, ListWebhooks, Enqueue, EnqueueFails, Retry, StartReaper,
     Flush, FireTimer, TakeFromBatch, vars
<1>2. ASSUME NEW i \in Instances, NEW h \in Webhooks, ResetTimeout(i, h)
      PROVE  BreakersConsistent'
  <2>1. breaker[i][h] \in Entries /\ EntryConsistent(breaker[i][h])
    BY DEF TypeInv, TypeOK, BreakersConsistent
  <2>2. PICK e \in Entries : e = AfterResetTimeout(breaker[i][h]) /\ EntryConsistent(e)
    BY <1>2, <2>1, AfterResetTimeoutOK DEF ResetTimeout
  <2>3. breaker' = [breaker EXCEPT ![i] = [breaker[i] EXCEPT ![h] = e]]
    BY <1>2, <2>2 DEF ResetTimeout
  <2> QED
    BY <2>2, <2>3, EntryReplaced DEF TypeInv
<1>3. ASSUME NEW i \in Instances, NEW h \in Webhooks, ResetBreaker(i, h)
      PROVE  BreakersConsistent'
  <2>1. breaker' = [breaker EXCEPT ![i] = [breaker[i] EXCEPT ![h] = FreshEntry]]
    BY <1>3 DEF ResetBreaker
  <2> QED
    BY <2>1, FreshEntryOK, EntryReplaced DEF TypeInv
<1>4. ASSUME NEW i \in Instances, Crash(i) PROVE BreakersConsistent'
  <2>1. breaker' = [breaker EXCEPT ![i] = [h \in Webhooks |-> FreshEntry]]
    BY <1>4 DEF Crash
  <2>2. breaker \in [Instances -> [Webhooks -> Entries]]
    BY DEF TypeInv, TypeOK
  <2> QED
    BY <2>1, <2>2, FreshEntryOK DEF BreakersConsistent
<1>5. CASE Clock
  BY <1>2, <1>5, EntriesKept DEF Clock, RetryFallsDue
<1>6. CASE Admin
  <2>1. ASSUME NEW h \in Webhooks,
               (\E s \in {"active", "inactive"} : SetActive(h, s)) \/ RotateSecret(h)
                  \/ DeleteWebhook(h)
        PROVE  UNCHANGED breaker
    BY <2>1 DEF SetActive, RotateSecret, DeleteWebhook
  <2> QED
    BY <1>3, <1>6, <2>1, EntriesKept DEF Admin
<1> QED
  BY <1>1, <1>4, <1>5, <1>6

(* On every instance and for every webhook the fields of the breaker agree,
   whatever order the attempts of several deliveries report in, and across
   resets and crashes (circuit-breaker.ts:67-129). *)
THEOREM BreakersStayConsistent == Spec => []BreakersConsistent
<1>1. Init => BreakersConsistent
  BY FreshEntryOK DEF Init, BreakersConsistent
<1>2. TypeInv /\ BreakersConsistent /\ [Next]_vars => BreakersConsistent'
  BY AttemptKeepsBreakers, OthersKeepBreakers DEF Next
<1>3. Spec => []TypeInv
  BY InitType, StepType, PTL DEF Spec
<1> QED
  BY <1>1, <1>2, <1>3, PTL DEF Spec

-----------------------------------------------------------------------------
(* The claim of attemptDelivery is a sound optimistic lock on attempt numbers:
   proof of PostOncePerClaim and PostsAccounted, from the inductive invariant
   ClaimInv.  Three actions matter: Enqueue makes the row, Claim raises its
   counter, Send posts under the claimed number.  All the others keep the
   counters of the rows and the claims of the attempts: KeepsClaims. *)

(* A step that may delete rows but keeps the counters of the others... *)
KeepsCounters ==
    \A d \in Deliveries : row'[d].status # "absent" =>
        row[d].status # "absent" /\ row'[d].attempts = row[d].attempts

(* ...that works on no delivery before its row is inserted... *)
WorksOnEnqueued ==
    \A d \in Deliveries : dispatch'[d].pc # "done" =>
        /\ dispatch[d].pc # "done"
        /\ \A i \in Instances : timer'[i][d] = 0 /\ d \notin batch'[i]

(* ...and in which attempts begin, end, or go on with the number they hold. *)
KeepsJob(w) ==
    \/ job'[w] = job[w]
    \/ job'[w].pc = "idle"
    \/ job'[w].pc = "readRow" /\ dispatch'[job'[w].did].pc = "done"
    \/ /\ ~At(w, "idle")
       /\ job'[w].did = job[w].did
       /\ job'[w].pc # "send"
       /\ job'[w].pc \in {"await", "markExhausted"} =>
             At(w, "await") /\ job'[w].attempts = job[w].attempts

KeepsClaims ==
    /\ KeepsCounters /\ WorksOnEnqueued
    /\ \A w \in Workers : KeepsJob(w)
    /\ posted' = posted /\ sigs' = sigs

LEMMA KeepsClaimInv ==
  ASSUME TypeInv, TypeInv', ClaimInv, KeepsClaims
  PROVE  ClaimInv'
<1> USE DEF ClaimInv, KeepsClaims
<1>1. JobsRefer'
  BY DEF TypeInv
<1>2. FreshIds'
  <2> SUFFICES ASSUME NEW d \in Deliveries, dispatch'[d].pc # "done"
               PROVE  /\ row'[d].status = "absent"
                      /\ \A w \in Workers : job'[w].pc # "idle" => job'[w].did # d
                      /\ \A i \in Instances : timer'[i][d] = 0 /\ d \notin batch'[i]
                      /\ posted'[d] = {}
                      /\ sigs'[d] = {}
    BY DEF FreshIds, At
  <2>1. dispatch[d].pc # "done"
    BY DEF WorksOnEnqueued
  <2>2. ASSUME NEW w \in Workers, job'[w].pc # "idle"
        PROVE  job'[w].did # d
    BY <2>1, <2>2 DEF FreshIds, KeepsJob, At
  <2>3. QED
    BY <2>1, <2>2 DEF FreshIds, WorksOnEnqueued, KeepsCounters
<1>3. ClaimsBelowCounter'
  <2> SUFFICES ASSUME NEW w \in Workers,
                      job'[w].pc \in {"send", "await", "markExhausted"}
               PROVE  /\ job'[w].attempts # 0
                      /\ row'[job'[w].did].status # "absent"
                            => job'[w].attempts <= row'[job'[w].did].attempts
    BY DEF ClaimsBelowCounter
  <2>1. /\ job'[w].did = job[w].did /\ job'[w].attempts = job[w].attempts
        /\ job[w].pc \in {"send", "await", "markExhausted"}
    BY DEF KeepsJob, At
  <2>2. job[w].did \in Deliveries
    BY <2>1 DEF JobsRefer, At
  <2>3. QED
    BY <2>1, <2>2 DEF ClaimsBelowCounter, KeepsCounters
<1>4. PostsAccounted'
  BY DEF PostsAccounted, KeepsCounters
<1>5. PostOncePerClaim'
  <2>1. \A w \in Workers : job'[w].pc = "send" => job'[w] = job[w]
    BY DEF KeepsJob
  <2>2. QED
    BY <2>1 DEF PostOncePerClaim, At
<1>6. QED
  BY <1>1, <1>2, <1>3, <1>4, <1>5

-----------------------------------------------------------------------------
(* The steps that keep the claims. *)

(* An UPDATE that leaves the counter alone. *)
LEMMA UpdatedKeepsCounters ==
  ASSUME TypeOK, NEW d \in Deliveries, NEW r \in Rows,
         r.attempts = row[d].attempts, row' = Updated(d, r)
  PROVE  KeepsCounters
  BY DEF KeepsCounters, Updated, TypeOK

(* A delivery that an attempt works on, or that waits for one, is enqueued. *)
LEMMA StartKeepsJobs ==
  ASSUME TypeInv, FreshIds, NEW v \in Workers, NEW i \in Instances,
         NEW d \in Deliveries, dispatch[d].pc = "done", StartAttempt(v, i, d),
         UNCHANGED dispatch
  PROVE  \A w \in Workers : KeepsJob(w)
  BY DEF StartAttempt, KeepsJob, TypeInv, TypeOK, At

LEMMA AttemptKeepsClaims ==
  ASSUME TypeInv, TypeInv', ClaimInv, NEW v \in Workers,
         AttemptStep(v) \/ DbError(v), ~Send(v), ~(Claim(v) /\ Claimable(v))
  PROVE  KeepsClaims
<1> DEFINE d == job[v].did
<1>1. /\ ~At(v, "idle") /\ d \in Deliveries /\ dispatch[d].pc = "done"
      /\ UNCHANGED <<dispatch, batch, posted, sigs>>
  BY DEF TypeInv, JobsRefer, ClaimInv, FreshIds, At, AttemptStep, DbError, ReadRow,
         ReadHook, MarkMissing, Park, Claim, Send, Accepted, Rejected,
         MarkDelivered, MarkExhausted, ScheduleRetry, database, observed
<1> HIDE DEF d
<1>2. job[v] \in Jobs /\ row[d] \in Rows
  BY <1>1 DEF TypeInv, TypeOK
<1>3. KeepsCounters
  <2>1. CASE UNCHANGED row
    BY <2>1 DEF KeepsCounters
  <2>2. CASE MarkMissing(v) \/ Park(v) \/ MarkDelivered(v) \/ MarkExhausted(v)
                \/ ScheduleRetry(v)
    <3>1. PICK r : r.attempts = row[d].attempts /\ row' = Updated(d, r)
      BY <1>2, <2>2 DEF MarkMissing, Park, Parked, MarkDelivered, MarkExhausted,
                        ScheduleRetry, Rows, d
    <3>2. QED
      BY <1>1, <3>1 DEF KeepsCounters, Updated, TypeInv, TypeOK
  <2>3. QED
    BY <2>1, <2>2 DEF AttemptStep, DbError, ReadRow, ReadHook, Claim, Accepted,
                      Rejected, database
<1>4. WorksOnEnqueued
  <2>1. CASE UNCHANGED timer
    BY <1>1, <2>1 DEF WorksOnEnqueued, ClaimInv, FreshIds
  <2>2. CASE ScheduleRetry(v)
    <3>1. \A i \in Instances, x \in Deliveries :
             x # d => timer'[i][x] = timer[i][x]
      BY <2>2 DEF ScheduleRetry, TypeInv, TypeOK, d
    <3>2. QED
      BY <1>1, <3>1 DEF WorksOnEnqueued, ClaimInv, FreshIds
  <2>3. QED
    BY <2>1, <2>2 DEF AttemptStep, DbError, ReadRow, ReadHook, MarkMissing, Park,
           Claim, Accepted, Rejected, MarkDelivered, MarkExhausted
<1>5. ASSUME NEW w \in Workers
      PROVE  KeepsJob(w)
  <2>1. CASE w # v
    BY <2>1 DEF KeepsJob, AttemptStep, DbError, ReadRow, ReadHook, MarkMissing,
           Park, Claim, Accepted, Rejected, MarkDelivered, MarkExhausted,
           ScheduleRetry, Return, Goto, TypeInv, TypeOK
  <2>2. CASE w = v /\ Return(v)
    BY <2>2 DEF KeepsJob, Return, NoJob, TypeInv, TypeOK
  <2>3. CASE w = v /\ (ReadRow(v) \/ ReadHook(v)) /\ ~Return(v)
    <3>1. ASSUME NEW p \in Steps, Goto(v, p)
          PROVE  job'[v].pc = p /\ job'[v].did = d
      BY <1>2, <3>1 DEF Goto, Jobs, TypeInv, TypeOK, d
    <3>2. CASE ReadRow(v)
      <4> DEFINE a == row[job[v].did].attempts
                 s == row[job[v].did].signature
      <4>1. job' = [job EXCEPT ![v] = [@ EXCEPT !.pc = "readHook", !.attempts = a,
                                               !.signature = s]]
        BY <2>3, <3>2 DEF ReadRow
      <4> HIDE DEF a, s
      <4>2. job'[v].pc = "readHook" /\ job'[v].did = d
        BY <1>2, <4>1 DEF Jobs, TypeInv, TypeOK, d
      <4>3. QED
        BY <1>1, <2>3, <4>2 DEF KeepsJob, d
    <3>3. CASE ReadHook(v)
      <4>1. CASE Goto(v, "markMissing") \/ Goto(v, "park")
        BY <1>1, <2>3, <3>1, <4>1 DEF KeepsJob, Steps, d
      <4>2. CASE ~(Goto(v, "markMissing") \/ Goto(v, "park"))
        <5> DEFINE s == SigningSecret(v, HookOf[job[v].did])
        <5>1. job' = [job EXCEPT ![v] = [@ EXCEPT !.pc = "claim", !.signature = s]]
          BY <3>3, <4>2 DEF ReadHook
        <5> HIDE DEF s
        <5>2. job'[v].pc = "claim" /\ job'[v].did = d
          BY <1>2, <5>1 DEF Jobs, TypeInv, TypeOK, d
        <5>3. QED
          BY <1>1, <2>3, <5>2 DEF KeepsJob, d
      <4>3. QED
        BY <4>1, <4>2
    <3>4. QED
      BY <2>3, <3>2, <3>3
  <2>4. CASE w = v /\ (Accepted(v) \/ Rejected(v))
    BY <1>1, <1>2, <2>4 DEF KeepsJob, Accepted, Rejected, AfterRejection, Goto,
           Jobs, TypeInv, TypeOK
  <2>5. CASE MarkMissing(v) \/ Park(v) \/ Claim(v) \/ MarkDelivered(v)
                \/ MarkExhausted(v) \/ ScheduleRetry(v) \/ DbError(v)
    <3>1. Return(v)
      BY <2>5 DEF MarkMissing, Park, Claim, MarkDelivered, MarkExhausted,
                  ScheduleRetry, DbError
    <3>2. QED
      BY <2>1, <2>2, <3>1
  <2>6. QED
    BY <2>1, <2>2, <2>3, <2>4, <2>5 DEF AttemptStep
<1>6. QED
  BY <1>1, <1>3, <1>4, <1>5 DEF KeepsClaims

LEMMA RetryKeepsClaims ==
  ASSUME TypeInv, TypeInv', ClaimInv, Retry
  PROVE  KeepsClaims
<1> USE DEF ClaimInv
<1>1. ASSUME NEW i \in Instances, Flush(i)
      PROVE  KeepsClaims
  <2>1. \A d \in Deliveries : d \in Due => dispatch[d].pc = "done"
    BY DEF Due, FreshIds
  <2>2. WorksOnEnqueued
    BY <1>1, <2>1 DEF Flush, WorksOnEnqueued, FreshIds, TypeInv, TypeOK
  <2>3. QED
    BY <1>1, <2>2 DEF Flush, KeepsClaims, KeepsCounters, KeepsJob, database, observed
<1>2. ASSUME NEW w \in Workers, NEW i \in Instances, NEW d \in Deliveries,
             FireTimer(w, i, d) \/ TakeFromBatch(w, i, d)
      PROVE  KeepsClaims
  <2>1. dispatch[d].pc = "done"
    BY <1>2 DEF FireTimer, TakeFromBatch, FreshIds, TypeInv, TypeOK
  <2>2. \A v \in Workers : KeepsJob(v)
    BY <1>2, <2>1, StartKeepsJobs DEF FireTimer, TakeFromBatch
  <2>3. WorksOnEnqueued
    <3> SUFFICES ASSUME NEW x \in Deliveries, dispatch'[x].pc # "done"
                 PROVE  /\ dispatch[x].pc # "done"
                        /\ \A j \in Instances : timer'[j][x] = 0 /\ x \notin batch'[j]
      BY DEF WorksOnEnqueued
    <3>1. dispatch[x].pc # "done" /\ x # d
      BY <1>2, <2>1 DEF FireTimer, TakeFromBatch
    <3>2. CASE FireTimer(w, i, d)
      BY <3>1, <3>2 DEF FireTimer, FreshIds, TypeInv, TypeOK
    <3>3. CASE TakeFromBatch(w, i, d)
      BY <3>1, <3>3 DEF TakeFromBatch, FreshIds, TypeInv, TypeOK
    <3>4. QED
      BY <1>2, <3>2, <3>3
  <2>4. QED
    BY <1>2, <2>2, <2>3 DEF FireTimer, TakeFromBatch, KeepsClaims, KeepsCounters,
                            database, observed
<1>3. ASSUME NEW i \in Instances, StartReaper(i)
      PROVE  KeepsClaims
  <2>1. WorksOnEnqueued
    BY <1>3 DEF StartReaper, WorksOnEnqueued, FreshIds, TypeInv, TypeOK
  <2>2. QED
    BY <1>3, <2>1 DEF StartReaper, KeepsClaims, KeepsCounters, KeepsJob, database, observed
<1>4. QED
  BY <1>1, <1>2, <1>3 DEF Retry

LEMMA EnvironmentKeepsClaims ==
  ASSUME TypeInv, TypeInv', ClaimInv,
         Clock \/ Admin \/ (\E i \in Instances : Crash(i)) \/ UNCHANGED vars
  PROVE  KeepsClaims
<1> USE DEF ClaimInv, KeepsClaims
<1>1. CASE Clock
  <2>1. KeepsCounters
    <3>1. ASSUME NEW d \in Deliveries, RetryFallsDue(d), NEW x \in Deliveries
          PROVE  row'[x].status = row[x].status /\ row'[x].attempts = row[x].attempts
      BY <3>1 DEF RetryFallsDue, TypeInv, TypeOK, Rows
    <3>2. ASSUME NEW i \in Instances, NEW h \in Webhooks, ResetTimeout(i, h)
          PROVE  UNCHANGED row
      BY <3>2 DEF ResetTimeout, database
    <3>3. QED
      BY <1>1, <3>1, <3>2 DEF Clock, KeepsCounters
  <2>2. UNCHANGED <<dispatch, job, timer, batch, observed>>
    BY <1>1 DEF Clock, RetryFallsDue, ResetTimeout
  <2>3. QED
    BY <2>1, <2>2 DEF WorksOnEnqueued, KeepsJob, FreshIds, observed
<1>2. CASE Admin
  <2>1. KeepsCounters
    <3>1. ASSUME NEW h \in Webhooks, DeleteWebhook(h)
          PROVE  KeepsCounters
      BY <3>1 DEF DeleteWebhook, NoRow, KeepsCounters
    <3>2. ASSUME UNCHANGED row
          PROVE  KeepsCounters
      BY <3>2 DEF KeepsCounters
    <3>3. QED
      BY <1>2, <3>1, <3>2 DEF Admin, SetActive, RotateSecret, ResetBreaker, database
  <2>2. UNCHANGED <<dispatch, job, timer, batch, observed>>
    BY <1>2 DEF Admin, SetActive, RotateSecret, DeleteWebhook, ResetBreaker
  <2>3. QED
    BY <2>1, <2>2 DEF WorksOnEnqueued, KeepsJob, FreshIds, observed
<1>3. ASSUME NEW i \in Instances, Crash(i)
      PROVE  KeepsClaims
  <2>1. WorksOnEnqueued
    BY <1>3 DEF Crash, WorksOnEnqueued, FreshIds, TypeInv, TypeOK
  <2>2. \A w \in Workers : KeepsJob(w)
    BY <1>3 DEF Crash, KeepsJob, NoJob
  <2>3. QED
    BY <1>3, <2>1, <2>2 DEF Crash, KeepsCounters, database, observed
<1>4. CASE UNCHANGED vars
  BY <1>4 DEF vars, KeepsCounters, WorksOnEnqueued, KeepsJob, FreshIds
<1>5. QED
  BY <1>1, <1>2, <1>3, <1>4

-----------------------------------------------------------------------------
(* The steps that make rows, claim numbers and post. *)

LEMMA EnqueueClaimInv ==
  ASSUME TypeInv, TypeInv', ClaimInv, NEW v \in Workers, NEW d \in Deliveries,
         Enqueue(v, d)
  PROVE  ClaimInv'
<1> USE DEF ClaimInv
<1>1. /\ dispatch[d].pc = "listed" /\ posted[d] = {}
      /\ \A w \in Workers : ~At(w, "idle") => job[w].did # d
      /\ UNCHANGED <<posted, sigs, timer, batch>>
  BY DEF Enqueue, FreshIds, observed
<1>2. row' = [row EXCEPT ![d] = NewRow(dispatch[d].secret)]
  BY DEF Enqueue
<1>3. \A x \in Deliveries :
         dispatch'[x].pc = IF x = d THEN "done" ELSE dispatch[x].pc
  BY DEF Enqueue, Dispatched, TypeInv, TypeOK
<1>4. \A w \in Workers : \/ job'[w] = job[w]
                         \/ w = v /\ job'[w].pc = "readRow" /\ job'[w].did = d
  BY DEF Enqueue, StartAttempt, TypeInv, TypeOK
<1>5. JobsRefer'
  BY DEF TypeInv
<1>6. FreshIds'
  BY <1>1, <1>2, <1>3, <1>4 DEF FreshIds, At, TypeInv, TypeOK
<1>7. ClaimsBelowCounter'
  BY <1>1, <1>2, <1>4 DEF ClaimsBelowCounter, JobsRefer, At, TypeInv, TypeOK
<1>8. PostsAccounted'
  BY <1>1, <1>2 DEF PostsAccounted, TypeInv, TypeOK
<1>9. PostOncePerClaim'
  <2>1. \A w \in Workers : job'[w].pc = "send" => job'[w] = job[w]
    BY <1>4
  <2>2. QED
    BY <1>1, <2>1 DEF PostOncePerClaim, At
<1>10. QED
  BY <1>5, <1>6, <1>7, <1>8, <1>9

LEMMA ClaimClaimInv ==
  ASSUME TypeInv, TypeInv', ClaimInv, NEW v \in Workers, Claim(v), Claimable(v)
  PROVE  ClaimInv'
<1> USE DEF ClaimInv
<1> DEFINE d == job[v].did
           n == job[v].attempts + 1
<1>1. /\ d \in Deliveries /\ job[v] \in Jobs /\ row[d] \in Rows
      /\ job[v].attempts \in Nat /\ row[d].attempts = job[v].attempts
      /\ row[d].status # "absent"
  BY DEF Claim, Claimable, At, JobsRefer, TypeInv, TypeOK, Jobs
<1>2. /\ row' = [row EXCEPT ![d] = [@ EXCEPT !.attempts = n]]
      /\ UNCHANGED <<dispatch, timer, batch, posted, sigs>>
  BY DEF Claim, observed
<1>3. /\ job'[v].pc = "send" /\ job'[v].did = d /\ job'[v].attempts = n
      /\ \A w \in Workers : w # v => job'[w] = job[w]
  <2>1. job' = [job EXCEPT ![v] = [@ EXCEPT !.pc = "send", !.attempts = n]]
    BY DEF Claim
  <2> HIDE DEF n
  <2>2. QED
    BY <1>1, <2>1 DEF Jobs, TypeInv, TypeOK
<1>4. /\ row'[d].attempts = n /\ row'[d].status = row[d].status
      /\ \A x \in Deliveries : x # d => row'[x] = row[x]
  BY <1>1, <1>2 DEF TypeInv, TypeOK, Rows
<1> HIDE DEF d
<1>5. JobsRefer'
  BY DEF TypeInv
<1>6. dispatch[d].pc = "done"
  BY <1>1 DEF FreshIds, Claim, At, d
<1>7. FreshIds'
  BY <1>2, <1>3, <1>4, <1>6 DEF FreshIds, At
<1>8. ClaimsBelowCounter'
  <2> SUFFICES ASSUME NEW w \in Workers,
                      job'[w].pc \in {"send", "await", "markExhausted"}
               PROVE  /\ job'[w].attempts # 0
                      /\ row'[job'[w].did].status # "absent"
                            => job'[w].attempts <= row'[job'[w].did].attempts
    BY DEF ClaimsBelowCounter
  <2>1. CASE w = v
    BY <1>1, <1>3, <1>4, <2>1
  <2>2. CASE w # v
    <3>1. job[w].attempts \in Nat /\ job[w].did \in Deliveries
      BY <1>3, <2>2 DEF TypeInv, TypeOK, JobsRefer, Jobs, At
    <3>2. QED
      BY <1>1, <1>3, <1>4, <2>2, <3>1 DEF ClaimsBelowCounter
  <2>3. QED
    BY <2>1, <2>2
<1>9. PostsAccounted'
  BY <1>1, <1>2, <1>4 DEF PostsAccounted
<1>10. PostOncePerClaim'
  <2> SUFFICES ASSUME NEW w \in Workers, job'[w].pc = "send"
               PROVE  /\ job'[w].attempts \notin posted'[job'[w].did]
                      /\ \A u \in Workers \ {w} :
                            job'[u].pc = "send" /\ job'[u].did = job'[w].did
                              => job'[u].attempts # job'[w].attempts
    BY DEF PostOncePerClaim, At
  <2>1. n \notin posted[d]
    BY <1>1 DEF PostsAccounted
  <2>2. ASSUME NEW u \in Workers, u # v, job[u].pc = "send", job[u].did = d
        PROVE  job[u].attempts # n
    <3>1. job[u].attempts \in Nat /\ job[u].attempts <= row[d].attempts
      BY <1>1, <2>2 DEF ClaimsBelowCounter, TypeInv, TypeOK, Jobs
    <3>2. QED
      BY <1>1, <3>1
  <2>3. QED
    BY <1>2, <1>3, <2>1, <2>2 DEF PostOncePerClaim, At
<1>11. QED
  BY <1>5, <1>7, <1>8, <1>9, <1>10

LEMMA SendClaimInv ==
  ASSUME TypeInv, TypeInv', ClaimInv, NEW v \in Workers, Send(v)
  PROVE  ClaimInv'
<1> USE DEF ClaimInv
<1> DEFINE d == job[v].did
           n == job[v].attempts
<1>1. /\ At(v, "send") /\ d \in Deliveries /\ job[v] \in Jobs /\ n \in Nat
      /\ UNCHANGED <<row, dispatch, timer, batch>>
  BY DEF Send, At, JobsRefer, TypeInv, TypeOK, Jobs, database
<1>2. /\ posted'[d] = posted[d] \union {n}
      /\ \A x \in Deliveries : x # d => posted'[x] = posted[x] /\ sigs'[x] = sigs[x]
  BY <1>1 DEF Send, TypeInv, TypeOK
<1>3. /\ job'[v].pc = "await" /\ job'[v].did = d /\ job'[v].attempts = n
      /\ \A w \in Workers : w # v => job'[w] = job[w]
  BY <1>1 DEF Send, Goto, Jobs, TypeInv, TypeOK
<1> HIDE DEF d, n
<1>4. JobsRefer'
  BY DEF TypeInv
<1>5. dispatch[d].pc = "done"
  BY <1>1 DEF FreshIds, At, d
<1>6. FreshIds'
  BY <1>1, <1>2, <1>3, <1>5 DEF FreshIds, At
<1>7. ClaimsBelowCounter'
  BY <1>1, <1>3 DEF ClaimsBelowCounter, At, d, n
<1>8. PostsAccounted'
  <2>1. row[d].status # "absent" => n \in 1 .. row[d].attempts
    BY <1>1 DEF ClaimsBelowCounter, At, d, n, TypeInv, TypeOK, Rows
  <2>2. QED
    BY <1>1, <1>2, <2>1 DEF PostsAccounted
<1>9. PostOncePerClaim'
  <2>1. \A w \in Workers : job'[w].pc = "send" =>
           w # v /\ job'[w] = job[w] /\ (job[w].did = d => job[w].attempts # n)
    BY <1>1, <1>3 DEF PostOncePerClaim, At, d, n
  <2>2. \A w \in Workers : job[w].pc = "send" => job[w].did \in Deliveries
    BY DEF JobsRefer, At
  <2>3. QED
    BY <1>2, <2>1, <2>2 DEF PostOncePerClaim, At
<1>10. QED
  BY <1>4, <1>6, <1>7, <1>8, <1>9

-----------------------------------------------------------------------------

LEMMA InitClaimInv == Init => ClaimInv
  BY DeliveryAssumption
     DEF Init, ClaimInv, JobsRefer, FreshIds, ClaimsBelowCounter, PostsAccounted,
         PostOncePerClaim, At, NoJob, NoRow, NewRow

LEMMA StepClaimInv == TypeInv /\ TypeInv' /\ ClaimInv /\ [Next]_vars => ClaimInv'
<1> SUFFICES ASSUME TypeInv, TypeInv', ClaimInv, [Next]_vars PROVE ClaimInv'
  OBVIOUS
<1>1. CASE Fanout
  <2>1. ASSUME NEW d \in Deliveries, NEW v \in Workers, Enqueue(v, d)
        PROVE  ClaimInv'
    BY <2>1, EnqueueClaimInv
  <2>2. ASSUME NEW d \in Deliveries,
               (\E i \in Instances : ListWebhooks(i, d)) \/ EnqueueFails(d)
        PROVE  ClaimInv'
    <3>1. UNCHANGED <<row, job, timer, batch, observed>>
      BY <2>2 DEF ListWebhooks, EnqueueFails, database
    <3>2. \A x \in Deliveries : dispatch'[x].pc # "done" => dispatch[x].pc # "done"
      BY <2>2 DEF ListWebhooks, EnqueueFails, Dispatched, TypeInv, TypeOK
    <3>3. WorksOnEnqueued
      BY <3>1, <3>2 DEF WorksOnEnqueued, ClaimInv, FreshIds
    <3>4. KeepsClaims
      BY <3>1, <3>3 DEF KeepsClaims, KeepsCounters, KeepsJob, observed
    <3>5. QED
      BY <3>4, KeepsClaimInv
  <2>3. QED
    BY <1>1, <2>1, <2>2 DEF Fanout
<1>2. ASSUME NEW v \in Workers, AttemptStep(v) \/ DbError(v)
      PROVE  ClaimInv'
  BY <1>2, ClaimClaimInv, SendClaimInv, AttemptKeepsClaims, KeepsClaimInv
<1>3. CASE Retry \/ Clock \/ Admin \/ (\E i \in Instances : Crash(i)) \/ UNCHANGED vars
  BY <1>3, RetryKeepsClaims, EnvironmentKeepsClaims, KeepsClaimInv
<1>4. QED
  BY <1>1, <1>2, <1>3 DEF Next

LEMMA ClaimInvariant == Spec => []ClaimInv
<1>1. Init => TypeInv /\ ClaimInv
  BY InitType, InitClaimInv
<1>2. TypeInv /\ ClaimInv /\ [Next]_vars => TypeInv' /\ ClaimInv'
  BY StepType, StepClaimInv
<1>3. Spec => [](TypeInv /\ ClaimInv)
  BY <1>1, <1>2, PTL DEF Spec
<1>4. QED
  BY <1>3, PTL

(* No two attempts that are about to POST a delivery hold the same attempt
   number, and none holds a number that was posted before: the conditional
   UPDATE of attemptDelivery is a sound lock for any number of instances,
   attempts, crashes and database errors. *)
THEOREM ClaimsAreExclusive == Spec => []PostOncePerClaim
<1>1. ClaimInv => PostOncePerClaim
  BY DEF ClaimInv
<1>2. QED
  BY <1>1, ClaimInvariant, PTL

(* The attempts column of a row bounds the numbers of all the requests the
   receiver has seen for it. *)
THEOREM CounterAccountsForPosts == Spec => []PostsAccounted
<1>1. ClaimInv => PostsAccounted
  BY DEF ClaimInv
<1>2. QED
  BY <1>1, ClaimInvariant, PTL

-----------------------------------------------------------------------------
(* What an attempt writes has its reason: LedgerInv is inductive, together
   with TypeInv.  ReadHook, Send, Accepted and Rejected give the reasons; every
   other step keeps those of the attempts that need one. *)

(* What the receiver has seen and which webhooks were paused only grows, and
   no row is left absent with a counter. *)
KeepsReasons ==
    /\ \A d \in Deliveries : posted[d] \subseteq posted'[d] /\ acked[d] \subseteq acked'[d]
    /\ \A h \in Webhooks :
          /\ hook[h].everPaused => hook'[h].everPaused
          /\ hook'[h].status # "active" => hook'[h].everPaused
    /\ \A d \in Deliveries : row'[d].status = "absent" => row'[d].attempts = 0

NeedsReason == {"await", "markDelivered", "markMissing", "markExhausted"}

LEMMA JustifiedKept ==
  ASSUME TypeInv, LedgerInv, KeepsReasons, NEW w \in Workers,
         job'[w] = job[w] \/ job'[w].pc \notin NeedsReason
  PROVE  Justified(w)'
<1>1. CASE job'[w].pc \notin NeedsReason
  BY <1>1 DEF Justified, At, NeedsReason
<1>2. CASE job'[w] = job[w] /\ job'[w].pc \in NeedsReason
  <2>1. job[w].did \in Deliveries /\ HookOf[job[w].did] \in Webhooks
    BY <1>2, DeliveryAssumption DEF TypeInv, JobsRefer, At, NeedsReason
  <2>2. Justified(w)
    BY DEF LedgerInv
  <2>3. QED
    BY <1>2, <2>1, <2>2 DEF Justified, At, KeepsReasons
<1>3. QED
  BY <1>1, <1>2

LEMMA AttemptKeepsReasons ==
  ASSUME TypeInv, TypeInv', LedgerInv, NEW v \in Workers, AttemptStep(v) \/ DbError(v)
  PROVE  KeepsReasons
<1> DEFINE d == job[v].did
<1>1. d \in Deliveries /\ row[d] \in Rows /\ UNCHANGED hook
  BY DEF TypeInv, TypeOK, JobsRefer, At, AttemptStep, DbError, ReadRow, ReadHook,
         MarkMissing, Park, Claim, Send, Accepted, Rejected, MarkDelivered,
         MarkExhausted, ScheduleRetry, database
<1> HIDE DEF d
<1>2. /\ \A x \in Deliveries : posted[x] \subseteq posted'[x]
      /\ \A x \in Deliveries : acked[x] \subseteq acked'[x]
  <2>1. CASE Send(v)
    BY <1>1, <2>1 DEF Send, TypeInv, TypeOK, d
  <2>2. CASE Accepted(v)
    BY <1>1, <2>2 DEF Accepted, TypeInv, TypeOK, d
  <2>3. CASE UNCHANGED <<posted, acked>>
    BY <2>3
  <2>4. QED
    BY <2>1, <2>2, <2>3
       DEF AttemptStep, DbError, ReadRow, ReadHook, MarkMissing, Park, Claim,
           Rejected, MarkDelivered, MarkExhausted, ScheduleRetry, observed
<1>3. \A x \in Deliveries : row'[x].status = "absent" => row'[x].attempts = 0
  <2>1. CASE UNCHANGED row
    BY <2>1 DEF LedgerInv
  <2>2. CASE MarkMissing(v) \/ Park(v) \/ MarkDelivered(v) \/ MarkExhausted(v)
                \/ ScheduleRetry(v)
    <3>1. PICK r : r.status # "absent" /\ row' = Updated(d, r)
      BY <1>1, <2>2 DEF MarkMissing, Park, Parked, MarkDelivered, MarkExhausted,
                        ScheduleRetry, Rows, d
    <3>2. QED
      BY <1>1, <3>1 DEF Updated, LedgerInv, TypeInv, TypeOK
  <2>3. CASE Claim(v) /\ Claimable(v)
    <3> DEFINE n == job[v].attempts + 1
    <3>1. row' = [row EXCEPT ![d] = [@ EXCEPT !.attempts = n]]
      BY <2>3 DEF Claim, d
    <3>2. row[d].status = "pending"
      BY <2>3 DEF Claimable, d
    <3> HIDE DEF n
    <3>3. row'[d].status = "pending" /\ \A x \in Deliveries : x # d => row'[x] = row[x]
      BY <1>1, <3>1, <3>2 DEF TypeInv, TypeOK, Rows
    <3>4. QED
      BY <3>3 DEF LedgerInv
  <2>4. QED
    BY <2>1, <2>2, <2>3 DEF AttemptStep, DbError, ReadRow, ReadHook, Claim, Send,
                            Accepted, Rejected, database
<1>4. QED
  BY <1>1, <1>2, <1>3 DEF KeepsReasons, LedgerInv

(* The step of one attempt justifies what that attempt does next. *)
LEMMA AttemptJustified ==
  ASSUME TypeInv, LedgerInv, NEW v \in Workers, AttemptStep(v) \/ DbError(v),
         job'[v].pc \in NeedsReason
  PROVE  Justified(v)'
<1> DEFINE d == job[v].did
           i == job[v].inst
<1>1. /\ d \in Deliveries /\ i \in Instances /\ job[v] \in Jobs
      /\ HookOf[d] \in Webhooks
  BY DeliveryAssumption
     DEF TypeInv, TypeOK, JobsRefer, At, AttemptStep, DbError, ReadRow, ReadHook,
         MarkMissing, Park, Claim, Send, Accepted, Rejected, MarkDelivered,
         MarkExhausted, ScheduleRetry
<1>2. ASSUME NEW p \in Steps, Goto(v, p)
      PROVE  /\ job'[v].pc = p /\ job'[v].did = d
             /\ job'[v].attempts = job[v].attempts
  BY <1>1, <1>2 DEF Goto, Jobs, TypeInv, TypeOK
<1>3. ASSUME Return(v)
      PROVE  FALSE
  BY <1>3 DEF Return, NoJob, NeedsReason, TypeInv, TypeOK
<1> HIDE DEF d, i
<1>4. CASE ReadRow(v)
  <2> DEFINE a == row[d].attempts
             s == row[d].signature
  <2>1. job' = [job EXCEPT ![v] = [@ EXCEPT !.pc = "readHook", !.attempts = a,
                                           !.signature = s]]
    BY <1>3, <1>4 DEF ReadRow, d
  <2> HIDE DEF a, s
  <2>2. job'[v].pc = "readHook"
    BY <1>1, <2>1 DEF Jobs, TypeInv, TypeOK
  <2>3. QED
    BY <2>2 DEF NeedsReason
<1>5. CASE ReadHook(v)
  <2>1. CASE Goto(v, "park")
    BY <1>2, <2>1 DEF NeedsReason, Steps
  <2>2. CASE Goto(v, "markMissing") /\ hook[HookOf[d]].status # "active"
    <3>1. hook'[HookOf[d]].everPaused
      BY <1>1, <1>5, <2>2 DEF ReadHook, database, LedgerInv
    <3>2. QED
      BY <1>2, <2>2, <3>1 DEF Justified, At, Steps
  <2>3. CASE ~Goto(v, "park") /\ ~(Goto(v, "markMissing") /\ hook[HookOf[d]].status # "active")
    <3> DEFINE s == SigningSecret(v, HookOf[d])
    <3>1. job' = [job EXCEPT ![v] = [@ EXCEPT !.pc = "claim", !.signature = s]]
      BY <1>5, <2>3 DEF ReadHook, d
    <3> HIDE DEF s
    <3>2. job'[v].pc = "claim"
      BY <1>1, <3>1 DEF Jobs, TypeInv, TypeOK
    <3>3. QED
      BY <3>2 DEF NeedsReason
  <2>4. QED
    BY <1>5, <2>1, <2>2, <2>3 DEF ReadHook, d
<1>6. CASE Claim(v)
  <2> DEFINE n == job[v].attempts + 1
  <2>1. job' = [job EXCEPT ![v] = [@ EXCEPT !.pc = "send", !.attempts = n]]
    BY <1>3, <1>6 DEF Claim
  <2> HIDE DEF n
  <2>2. job'[v].pc = "send"
    BY <1>1, <2>1 DEF Jobs, TypeInv, TypeOK
  <2>3. QED
    BY <2>2 DEF NeedsReason
<1>7. CASE Send(v)
  <2>1. job[v].attempts \in posted'[d]
    BY <1>1, <1>7 DEF Send, TypeInv, TypeOK, d
  <2>2. QED
    BY <1>2, <1>7, <2>1 DEF Send, Justified, At, Steps
<1>8. CASE Accepted(v)
  <2>1. acked'[d] # {}
    BY <1>1, <1>8 DEF Accepted, TypeInv, TypeOK, d
  <2>2. QED
    BY <1>2, <1>8, <2>1 DEF Accepted, Justified, At, Steps
<1>9. CASE Rejected(v)
  <2>1. CASE job[v].attempts >= RetryLimit
    <3>1. Goto(v, "markExhausted")
      BY <1>9, <2>1 DEF Rejected, AfterRejection
    <3>2. QED
      BY <1>2, <2>1, <3>1 DEF Justified, At, Steps
  <2>2. CASE ~(job[v].attempts >= RetryLimit)
    <3>1. Goto(v, "scheduleRetry")
      BY <1>9, <2>2 DEF Rejected, AfterRejection
    <3>2. QED
      BY <1>2, <3>1 DEF NeedsReason, Steps
  <2>3. QED
    BY <2>1, <2>2
<1>10. CASE MarkMissing(v) \/ Park(v) \/ MarkDelivered(v) \/ MarkExhausted(v)
               \/ ScheduleRetry(v) \/ DbError(v)
  BY <1>3, <1>10 DEF MarkMissing, Park, MarkDelivered, MarkExhausted, ScheduleRetry,
                     DbError
<1>11. QED
  BY <1>4, <1>5, <1>6, <1>7, <1>8, <1>9, <1>10 DEF AttemptStep

LEMMA AttemptLedgerInv ==
  ASSUME TypeInv, TypeInv', LedgerInv, NEW v \in Workers, AttemptStep(v) \/ DbError(v)
  PROVE  LedgerInv'
<1>1. KeepsReasons
  BY AttemptKeepsReasons
<1>2. \A w \in Workers : w # v => job'[w] = job[w]
  BY DEF AttemptStep, DbError, ReadRow, ReadHook, MarkMissing, Park, Claim, Send,
         Accepted, Rejected, MarkDelivered, MarkExhausted, ScheduleRetry, Return,
         Goto, TypeInv, TypeOK
<1>3. ASSUME NEW w \in Workers
      PROVE  Justified(w)'
  BY <1>1, <1>2, JustifiedKept, AttemptJustified
<1>4. QED
  BY <1>1, <1>3 DEF LedgerInv, KeepsReasons

(* Every other step. *)
LEMMA OtherLedgerInv ==
  ASSUME TypeInv, TypeInv', LedgerInv,
         Fanout \/ Retry \/ Clock \/ Admin \/ (\E i \in Instances : Crash(i))
            \/ UNCHANGED vars
  PROVE  LedgerInv'
<1>1. \A w \in Workers : job'[w] = job[w] \/ job'[w].pc \in {"idle", "readRow"}
  <2>1. ASSUME NEW w \in Workers, NEW i, NEW d, StartAttempt(w, i, d), NEW v \in Workers
        PROVE  job'[v] = job[v] \/ job'[v].pc = "readRow"
    BY <2>1 DEF StartAttempt, TypeInv, TypeOK
  <2>2. CASE Fanout \/ Retry
    BY <2>1, <2>2 DEF Fanout, Retry, ListWebhooks, Enqueue, EnqueueFails, StartReaper,
           Flush, FireTimer, TakeFromBatch
  <2>3. CASE \E i \in Instances : Crash(i)
    BY <2>3 DEF Crash, NoJob
  <2>4. QED
    BY <2>2, <2>3 DEF Clock, Admin, RetryFallsDue, ResetTimeout, SetActive,
                      RotateSecret, DeleteWebhook, ResetBreaker, vars
<1>2. posted' = posted /\ acked' = acked
  BY DEF Fanout, Retry, ListWebhooks, Enqueue, EnqueueFails, StartReaper, Flush,
         FireTimer, TakeFromBatch, Clock, Admin, RetryFallsDue, ResetTimeout,
         SetActive, RotateSecret, DeleteWebhook, ResetBreaker, Crash, vars, observed
<1>3. \A h \in Webhooks :
         /\ hook[h].everPaused => hook'[h].everPaused
         /\ hook'[h].status # "active" => hook'[h].everPaused
  <2>1. CASE UNCHANGED hook
    BY <2>1 DEF LedgerInv
  <2>2. ASSUME NEW g \in Webhooks, NEW s \in {"active", "inactive", "deleted"},
               hook' = [hook EXCEPT ![g] = [@ EXCEPT !.status = s, !.everPaused = TRUE]],
               NEW h \in Webhooks
        PROVE  /\ hook[h].everPaused => hook'[h].everPaused
               /\ hook'[h].status # "active" => hook'[h].everPaused
    BY <2>2 DEF LedgerInv, TypeInv, TypeOK, Hooks
  <2>3. ASSUME NEW g \in Webhooks, RotateSecret(g), NEW h \in Webhooks
        PROVE  /\ hook[h].everPaused => hook'[h].everPaused
               /\ hook'[h].status # "active" => hook'[h].everPaused
    <3> DEFINE s == hook[g].secret + 1
    <3>1. hook' = [hook EXCEPT ![g] = [@ EXCEPT !.secret = s]]
      BY <2>3 DEF RotateSecret
    <3> HIDE DEF s
    <3>2. QED
      BY <3>1 DEF LedgerInv, TypeInv, TypeOK, Hooks
  <2>4. CASE Admin
    BY <2>1, <2>2, <2>3, <2>4 DEF Admin, SetActive, DeleteWebhook, ResetBreaker, database
  <2>5. QED
    BY <2>1, <2>4 DEF Fanout, Retry, ListWebhooks, Enqueue, EnqueueFails, StartReaper,
         Flush, FireTimer, TakeFromBatch, Clock, RetryFallsDue, ResetTimeout, Crash,
         vars, database
<1>4. \A x \in Deliveries : row'[x].status = "absent" => row'[x].attempts = 0
  <2>1. CASE UNCHANGED row
    BY <2>1 DEF LedgerInv
  <2>2. ASSUME NEW d \in Deliveries, NEW w \in Workers, Enqueue(w, d)
        PROVE  \A x \in Deliveries : row'[x].status = "absent" => row'[x].attempts = 0
    BY <2>2 DEF Enqueue, NewRow, LedgerInv, TypeInv, TypeOK
  <2>3. ASSUME NEW d \in Deliveries, RetryFallsDue(d)
        PROVE  \A x \in Deliveries : row'[x].status = "absent" => row'[x].attempts = 0
    BY <2>3 DEF RetryFallsDue, LedgerInv, TypeInv, TypeOK, Rows
  <2>4. ASSUME NEW h \in Webhooks, DeleteWebhook(h)
        PROVE  \A x \in Deliveries : row'[x].status = "absent" => row'[x].attempts = 0
    BY <2>4 DEF DeleteWebhook, NoRow, LedgerInv
  <2>5. QED
    BY <2>1, <2>2, <2>3, <2>4 DEF Fanout, Retry, ListWebhooks, EnqueueFails,
         StartReaper, Flush, FireTimer, TakeFromBatch, Clock, ResetTimeout, Admin,
         SetActive, RotateSecret, ResetBreaker, Crash, vars, database
<1>5. KeepsReasons
  BY <1>2, <1>3, <1>4 DEF KeepsReasons
<1>6. ASSUME NEW w \in Workers
      PROVE  Justified(w)'
  BY <1>1, <1>5, JustifiedKept DEF NeedsReason
<1>7. QED
  BY <1>5, <1>6 DEF LedgerInv, KeepsReasons

LEMMA InitLedgerInv == Init => LedgerInv
  BY DEF Init, LedgerInv, Justified, At, NoJob, NoRow, NewRow

LEMMA StepLedgerInv == TypeInv /\ TypeInv' /\ LedgerInv /\ [Next]_vars => LedgerInv'
  BY AttemptLedgerInv, OtherLedgerInv DEF Next

-----------------------------------------------------------------------------
(* The refinement: the initial states map to those of DeliveryLedger, and each
   step maps to one of its steps or to none. *)

(* The attempts that are about to POST are as before. *)
KeepsSenders ==
    \A w \in Workers :
        \/ job[w].pc # "send" /\ job'[w].pc # "send"
        \/ job'[w] = job[w]

LEMMA SendersKept ==
  ASSUME KeepsSenders
  PROVE  [d \in Deliveries |-> Unused(d)]' = [d \in Deliveries |-> Unused(d)]
<1>1. \A d \in Deliveries : Unused(d)' = Unused(d)
  BY DEF KeepsSenders, Unused, At
<1>2. QED
  BY <1>1

LEMMA RetiredKept ==
  ASSUME \A h \in Webhooks : hook'[h].everPaused = hook[h].everPaused
  PROVE  Retired' = Retired
  BY DeliveryAssumption DEF Retired

(* A step that the ledger does not see. *)
LEMMA Unseen ==
  ASSUME KeepsSenders,
         \A h \in Webhooks : hook'[h].everPaused = hook[h].everPaused,
         \A d \in Deliveries : /\ row'[d].status = row[d].status
                               /\ row'[d].attempts = row[d].attempts,
         posted' = posted, acked' = acked
  PROVE  UNCHANGED Ledger!ledger
<1>1. /\ [d \in Deliveries |-> row[d].status]' = [d \in Deliveries |-> row[d].status]
      /\ [d \in Deliveries |-> row[d].attempts]' = [d \in Deliveries |-> row[d].attempts]
  OBVIOUS
<1>2. QED
  BY <1>1, SendersKept, RetiredKept DEF Ledger!ledger

(* An UPDATE of the status with its reason: Deliver, GiveUp or Reopen, or
   nothing where the row is gone. *)
LEMMA StatusUpdate ==
  ASSUME TypeInv, KeepsSenders, UNCHANGED <<hook, posted, acked>>,
         NEW d \in Deliveries, NEW r \in Rows, row' = Updated(d, r),
         r.attempts = row[d].attempts,
         row[d].status # "absent" =>
            \/ r.status = "pending"
            \/ r.status = "delivered" /\ acked[d] # {}
            \/ r.status = "failed" /\ (row[d].attempts >= RetryLimit \/ d \in Retired)
  PROVE  Ledger!Next \/ UNCHANGED Ledger!ledger
<1>1. CASE row[d].status = "absent"
  BY <1>1, Unseen DEF Updated
<1>2. CASE row[d].status # "absent"
  <2> DEFINE status == [x \in Deliveries |-> row[x].status]
             count == [x \in Deliveries |-> row[x].attempts]
             claims == [x \in Deliveries |-> Unused(x)]
  <2>1. row' = [row EXCEPT ![d] = r]
    BY <1>2 DEF Updated
  <2>2. status' = [status EXCEPT ![d] = r.status] /\ count' = count
    BY <2>1 DEF TypeInv, TypeOK
  <2>3. claims' = claims /\ Retired' = Retired
    BY SendersKept, RetiredKept
  <2>4. status[d] # "absent" /\ count[d] = row[d].attempts
    BY <1>2
  <2> HIDE DEF status, count, claims
  <2>5. CASE r.status = "pending"
    <3>1. Ledger!Reopen(d)
      BY <2>2, <2>3, <2>4, <2>5 DEF Ledger!Reopen, status, count, claims
    <3>2. QED
      BY <3>1 DEF Ledger!Next
  <2>6. CASE r.status = "delivered" /\ acked[d] # {}
    <3>1. Ledger!Deliver(d)
      BY <2>2, <2>3, <2>4, <2>6 DEF Ledger!Deliver, status, count, claims
    <3>2. QED
      BY <3>1 DEF Ledger!Next
  <2>7. CASE r.status = "failed" /\ (row[d].attempts >= RetryLimit \/ d \in Retired)
    <3>1. Ledger!GiveUp(d)
      BY <2>2, <2>3, <2>4, <2>7 DEF Ledger!GiveUp, status, count, claims
    <3>2. QED
      BY <3>1 DEF Ledger!Next
  <2>8. QED
    BY <1>2, <2>5, <2>6, <2>7
<1>3. QED
  BY <1>1, <1>2

(* The row is inserted: Record. *)
LEMMA EnqueueRecords ==
  ASSUME TypeInv, ClaimInv, LedgerInv, NEW v \in Workers, NEW d \in Deliveries,
         Enqueue(v, d)
  PROVE  Ledger!Next
<1> DEFINE status == [x \in Deliveries |-> row[x].status]
           count == [x \in Deliveries |-> row[x].attempts]
           claims == [x \in Deliveries |-> Unused(x)]
<1>1. /\ row[d].status = "absent" /\ row[d].attempts = 0 /\ posted[d] = {}
      /\ \A w \in Workers : ~At(w, "idle") => job[w].did # d
  BY DEF Enqueue, ClaimInv, FreshIds, LedgerInv
<1>2. /\ row' = [row EXCEPT ![d] = NewRow(dispatch[d].secret)]
      /\ UNCHANGED <<hook, posted, acked>>
  BY DEF Enqueue, observed
<1>3. /\ status' = [status EXCEPT ![d] = "pending"] /\ count' = count
      /\ status[d] = "absent"
  BY <1>1, <1>2 DEF NewRow, TypeInv, TypeOK
<1>4. KeepsSenders
  BY DEF Enqueue, StartAttempt, KeepsSenders, At, TypeInv, TypeOK
<1>5. claims' = claims /\ Retired' = Retired
  BY <1>2, <1>4, SendersKept, RetiredKept
<1>6. claims[d] = {}
  BY <1>1 DEF Unused, At
<1> HIDE DEF status, count, claims
<1>7. Ledger!Record(d)
  BY <1>1, <1>2, <1>3, <1>5, <1>6 DEF Ledger!Record, status, count, claims
<1>8. QED
  BY <1>7 DEF Ledger!Next

(* The conditional UPDATE succeeds: Take. *)
LEMMA ClaimTakes ==
  ASSUME TypeInv, NEW v \in Workers, Claim(v), Claimable(v)
  PROVE  Ledger!Next
<1>1. PICK d \in Deliveries : d = job[v].did
  BY DEF Claim, At, JobsRefer, TypeInv
<1>2. PICK n \in Nat : n = job[v].attempts + 1
  BY DEF Claim, TypeInv, TypeOK, Jobs
<1> DEFINE status == [x \in Deliveries |-> row[x].status]
           count == [x \in Deliveries |-> row[x].attempts]
           claims == [x \in Deliveries |-> Unused(x)]
<1>3. /\ job[v] \in Jobs /\ row[d] \in Rows /\ At(v, "claim")
      /\ row[d].status = "pending" /\ n = row[d].attempts + 1
  BY <1>1, <1>2 DEF Claim, Claimable, TypeInv, TypeOK
<1>4. /\ row' = [row EXCEPT ![d] = [@ EXCEPT !.attempts = n]]
      /\ job' = [job EXCEPT ![v] = [@ EXCEPT !.pc = "send", !.attempts = n]]
      /\ UNCHANGED <<hook, posted, acked>>
  BY <1>1, <1>2 DEF Claim, observed
<1>5. /\ job'[v].pc = "send" /\ job'[v].did = d /\ job'[v].attempts = n
      /\ \A w \in Workers : w # v => job'[w] = job[w]
  BY <1>1, <1>3, <1>4 DEF Jobs, TypeInv, TypeOK
<1>6. /\ status' = status /\ count' = [count EXCEPT ![d] = count[d] + 1]
      /\ status[d] = "pending" /\ count[d] + 1 = n
  <2>1. row'[d].attempts = n /\ row'[d].status = row[d].status
    BY <1>3, <1>4 DEF TypeInv, TypeOK, Rows
  <2>2. \A x \in Deliveries : x # d => row'[x] = row[x]
    BY <1>4 DEF TypeInv, TypeOK
  <2>3. QED
    BY <1>3, <2>1, <2>2
<1>7. Unused(d)' = Unused(d) \union {n}
  <2>1. ASSUME NEW m \in Unused(d)'
        PROVE  m \in Unused(d) \union {n}
    BY <1>5, <2>1 DEF Unused, At
  <2>2. n \in Unused(d)'
    BY <1>5 DEF Unused, At
  <2>3. ASSUME NEW m \in Unused(d)
        PROVE  m \in Unused(d)'
    <3>1. PICK w \in Workers : At(w, "send") /\ job[w].did = d /\ m = job[w].attempts
      BY <2>3 DEF Unused
    <3>2. job'[w] = job[w]
      BY <1>3, <1>5, <3>1 DEF At
    <3>3. QED
      BY <3>1, <3>2 DEF Unused, At
  <2>4. QED
    BY <2>1, <2>2, <2>3
<1>8. \A x \in Deliveries : x # d => Unused(x)' = Unused(x)
  BY <1>1, <1>3, <1>5 DEF Unused, At
<1>9. claims' = [claims EXCEPT ![d] = claims[d] \union {n}]
  BY <1>7, <1>8
<1>10. Retired' = Retired
  BY <1>4, RetiredKept
<1> HIDE DEF status, count, claims
<1>11. Ledger!Take(d)
  BY <1>4, <1>6, <1>9, <1>10 DEF Ledger!Take, status, count, claims
<1>12. QED
  BY <1>11 DEF Ledger!Next

(* The request leaves: Post.  No other attempt holds the number. *)
LEMMA SendPosts ==
  ASSUME TypeInv, ClaimInv, NEW v \in Workers, Send(v)
  PROVE  Ledger!Next
<1>1. PICK d \in Deliveries : d = job[v].did
  BY DEF Send, At, JobsRefer, TypeInv
<1>2. PICK n \in Nat : n = job[v].attempts
  BY DEF TypeInv, TypeOK, Jobs
<1> DEFINE status == [x \in Deliveries |-> row[x].status]
           count == [x \in Deliveries |-> row[x].attempts]
           claims == [x \in Deliveries |-> Unused(x)]
<1>3. /\ At(v, "send") /\ job[v] \in Jobs
      /\ UNCHANGED <<row, hook, acked>>
      /\ posted' = [posted EXCEPT ![d] = posted[d] \union {n}]
  BY <1>1, <1>2 DEF Send, TypeInv, TypeOK, database
<1>4. /\ job'[v].pc = "await" /\ job'[v].did = d
      /\ \A w \in Workers : w # v => job'[w] = job[w]
  BY <1>1, <1>3 DEF Send, Goto, Jobs, TypeInv, TypeOK
<1>5. \A w \in Workers \ {v} : At(w, "send") /\ job[w].did = d => job[w].attempts # n
  BY <1>1, <1>2, <1>3 DEF ClaimInv, PostOncePerClaim
<1>6. n \in Unused(d)
  BY <1>1, <1>2, <1>3 DEF Unused
<1>7. Unused(d)' = Unused(d) \ {n}
  <2>1. ASSUME NEW m \in Unused(d)'
        PROVE  m \in Unused(d) \ {n}
    <3>1. PICK w \in Workers : job'[w].pc = "send" /\ job'[w].did = d /\ m = job'[w].attempts
      BY <2>1 DEF Unused, At
    <3>2. w # v /\ job'[w] = job[w]
      BY <1>4, <3>1
    <3>3. QED
      BY <1>5, <3>1, <3>2 DEF Unused, At
  <2>2. ASSUME NEW m \in Unused(d), m # n
        PROVE  m \in Unused(d)'
    <3>1. PICK w \in Workers : At(w, "send") /\ job[w].did = d /\ m = job[w].attempts
      BY <2>2 DEF Unused
    <3>2. job'[w] = job[w]
      BY <1>2, <1>4, <2>2, <3>1
    <3>3. QED
      BY <3>1, <3>2 DEF Unused, At
  <2>3. QED
    BY <2>1, <2>2
<1>8. \A x \in Deliveries : x # d => Unused(x)' = Unused(x)
  BY <1>1, <1>3, <1>4 DEF Unused, At
<1>9. claims' = [claims EXCEPT ![d] = claims[d] \ {n}] /\ n \in claims[d]
  BY <1>6, <1>7, <1>8
<1>10. status' = status /\ count' = count /\ Retired' = Retired
  BY <1>3, RetiredKept
<1> HIDE DEF status, count, claims
<1>11. Ledger!Post(d, n)
  BY <1>3, <1>9, <1>10 DEF Ledger!Post, status, count, claims
<1>12. QED
  BY <1>9, <1>11 DEF Ledger!Next, claims

(* A 2xx response: Acknowledge. *)
LEMMA AcceptedAcknowledges ==
  ASSUME TypeInv, LedgerInv, NEW v \in Workers, Accepted(v)
  PROVE  Ledger!Next
<1> DEFINE d == job[v].did
           n == job[v].attempts
           status == [x \in Deliveries |-> row[x].status]
           count == [x \in Deliveries |-> row[x].attempts]
           claims == [x \in Deliveries |-> Unused(x)]
<1>1. /\ At(v, "await") /\ d \in Deliveries /\ job[v] \in Jobs
      /\ UNCHANGED <<row, hook, posted>>
      /\ acked' = [acked EXCEPT ![d] = acked[d] \union {n}]
  BY DEF Accepted, At, JobsRefer, TypeInv, TypeOK, database
<1>2. n \in posted[d]
  BY <1>1 DEF LedgerInv, Justified
<1>3. KeepsSenders
  BY <1>1 DEF Accepted, Goto, KeepsSenders, At, Jobs, TypeInv, TypeOK
<1>4. claims' = claims /\ Retired' = Retired
  BY <1>1, <1>3, SendersKept, RetiredKept
<1>5. status' = status /\ count' = count
  BY <1>1
<1> HIDE DEF d, n, status, count, claims
<1>6. Ledger!Acknowledge(d, n)
  BY <1>1, <1>2, <1>4, <1>5 DEF Ledger!Acknowledge, status, count, claims
<1>7. QED
  BY <1>1, <1>2, <1>6 DEF Ledger!Next

(* The updates that record an outcome. *)
LEMMA OutcomeUpdates ==
  ASSUME TypeInv, ClaimInv, LedgerInv, NEW v \in Workers,
         MarkMissing(v) \/ Park(v) \/ MarkDelivered(v) \/ MarkExhausted(v)
            \/ ScheduleRetry(v)
  PROVE  Ledger!Next \/ UNCHANGED Ledger!ledger
<1> DEFINE d == job[v].did
<1>1. /\ d \in Deliveries /\ row[d] \in Rows
      /\ UNCHANGED <<hook, posted, acked>>
  BY DEF MarkMissing, Park, MarkDelivered, MarkExhausted, ScheduleRetry, At,
         JobsRefer, TypeInv, TypeOK, observed
<1>2. KeepsSenders
  <2>1. Return(v) /\ ~At(v, "send")
    BY DEF MarkMissing, Park, MarkDelivered, MarkExhausted, ScheduleRetry, At
  <2>2. QED
    BY <2>1 DEF Return, NoJob, KeepsSenders, At, TypeInv, TypeOK
<1> HIDE DEF d
<1>3. ASSUME NEW r \in Rows, row' = Updated(d, r), r.attempts = row[d].attempts,
             r.status = "pending"
      PROVE  Ledger!Next \/ UNCHANGED Ledger!ledger
  BY <1>1, <1>2, <1>3, StatusUpdate
<1>4. CASE MarkMissing(v)
  <2> DEFINE r == [row[d] EXCEPT !.status = "failed"]
  <2>1. /\ r \in Rows /\ r.attempts = row[d].attempts /\ r.status = "failed"
        /\ row' = Updated(d, r)
    BY <1>1, <1>4 DEF MarkMissing, Rows, d
  <2>2. d \in Retired
    BY <1>1, <1>4 DEF MarkMissing, LedgerInv, Justified, Retired, d
  <2> HIDE DEF r
  <2>3. QED
    BY <1>1, <1>2, <2>1, <2>2, StatusUpdate
<1>5. CASE MarkExhausted(v)
  <2> DEFINE r == [row[d] EXCEPT !.status = "failed", !.nextRetryAt = "null"]
  <2>1. /\ r \in Rows /\ r.attempts = row[d].attempts /\ r.status = "failed"
        /\ row' = Updated(d, r)
    BY <1>1, <1>5 DEF MarkExhausted, Rows, d
  <2>2. job[v].attempts >= RetryLimit
    BY <1>5 DEF MarkExhausted, LedgerInv, Justified
  <2>3. row[d].status # "absent" => job[v].attempts <= row[d].attempts
    BY <1>5 DEF MarkExhausted, ClaimInv, ClaimsBelowCounter, At, d
  <2>4. row[d].status # "absent" => row[d].attempts >= RetryLimit
    <3>1. /\ job[v].attempts \in Nat /\ row[d].attempts \in Nat /\ RetryLimit \in Nat
      BY <1>1, DeliveryAssumption DEF TypeInv, TypeOK, Jobs, Rows
    <3>2. QED
      BY <2>2, <2>3, <3>1
  <2> HIDE DEF r
  <2>5. QED
    BY <1>1, <1>2, <2>1, <2>4, StatusUpdate
<1>6. CASE MarkDelivered(v)
  <2> DEFINE r == [row[d] EXCEPT !.status = "delivered", !.nextRetryAt = "null"]
  <2>1. /\ r \in Rows /\ r.attempts = row[d].attempts /\ r.status = "delivered"
        /\ row' = Updated(d, r)
    BY <1>1, <1>6 DEF MarkDelivered, Rows, d
  <2>2. acked[d] # {}
    BY <1>6 DEF MarkDelivered, LedgerInv, Justified, d
  <2> HIDE DEF r
  <2>3. QED
    BY <1>1, <1>2, <2>1, <2>2, StatusUpdate
<1>7. CASE Park(v) \/ ScheduleRetry(v)
  <2> DEFINE r == [row[d] EXCEPT !.status = "pending", !.nextRetryAt = "future"]
  <2>1. /\ r \in Rows /\ r.attempts = row[d].attempts /\ r.status = "pending"
        /\ row' = Updated(d, r)
    BY <1>1, <1>7 DEF Park, Parked, ScheduleRetry, Rows, d
  <2> HIDE DEF r
  <2>2. QED
    BY <1>3, <2>1
<1>8. QED
  BY <1>4, <1>5, <1>6, <1>7

(* A webhook is paused or resumed, or deleted with its deliveries: Withdraw. *)
LEMMA PauseWithdraws ==
  ASSUME TypeInv, NEW h \in Webhooks, NEW s \in {"active", "inactive"}, SetActive(h, s)
  PROVE  Ledger!Next
<1> DEFINE status == [x \in Deliveries |-> row[x].status]
           count == [x \in Deliveries |-> row[x].attempts]
           claims == [x \in Deliveries |-> Unused(x)]
           gone == {}
<1>1. UNCHANGED <<row, job, posted, acked>>
  BY DEF SetActive, observed
<1>2. Retired \subseteq Retired'
  BY DEF SetActive, Retired, TypeInv, TypeOK, Hooks
<1>3. /\ status' = [x \in Deliveries |-> IF x \in gone THEN "absent" ELSE status[x]]
      /\ count' = [x \in Deliveries |-> IF x \in gone THEN 0 ELSE count[x]]
  BY <1>1
<1>4. gone \in SUBSET Retired'
  OBVIOUS
<1>5. claims' = claims
  BY <1>1 DEF Unused, At
<1> HIDE DEF status, count, claims, gone
<1>6. Ledger!Withdraw
  BY <1>1, <1>2, <1>3, <1>4, <1>5 DEF Ledger!Withdraw, status, count, claims
<1>7. QED
  BY <1>6 DEF Ledger!Next

LEMMA DeletionWithdraws ==
  ASSUME TypeInv, NEW h \in Webhooks, DeleteWebhook(h)
  PROVE  Ledger!Next
<1> DEFINE status == [x \in Deliveries |-> row[x].status]
           count == [x \in Deliveries |-> row[x].attempts]
           claims == [x \in Deliveries |-> Unused(x)]
           gone == {x \in Deliveries : HookOf[x] = h}
<1>1. UNCHANGED <<job, posted, acked>>
  BY DEF DeleteWebhook, observed
<1>2. Retired \subseteq Retired'
  BY DEF DeleteWebhook, Retired, TypeInv, TypeOK, Hooks
<1>3. hook'[h].everPaused
  BY DEF DeleteWebhook, TypeInv, TypeOK, Hooks
<1>4. gone \in SUBSET Retired'
  BY <1>3 DEF Retired
<1>5. /\ status' = [x \in Deliveries |-> IF x \in gone THEN "absent" ELSE status[x]]
      /\ count' = [x \in Deliveries |-> IF x \in gone THEN 0 ELSE count[x]]
  BY DEF DeleteWebhook, NoRow
<1>6. claims' = claims
  BY <1>1 DEF Unused, At
<1> HIDE DEF status, count, claims, gone
<1>7. Ledger!Withdraw
  BY <1>1, <1>2, <1>4, <1>5, <1>6 DEF Ledger!Withdraw, status, count, claims
<1>8. QED
  BY <1>7 DEF Ledger!Next

(* The numbers that attempts of the process had claimed are lost: Abandon. *)
LEMMA CrashAbandons ==
  ASSUME NEW i \in Instances, Crash(i)
  PROVE  Ledger!Next
<1> DEFINE status == [x \in Deliveries |-> row[x].status]
           count == [x \in Deliveries |-> row[x].attempts]
           claims == [x \in Deliveries |-> Unused(x)]
<1>1. UNCHANGED <<row, hook, posted, acked>>
  BY DEF Crash, database, observed
<1>2. \A w \in Workers : job'[w].pc = "send" => job'[w] = job[w]
  BY DEF Crash, NoJob
<1>3. \A x \in Deliveries : Unused(x)' \subseteq Unused(x)
  BY <1>2 DEF Unused, At
<1>4. /\ claims' = [x \in Deliveries |-> claims'[x]]
      /\ \A x \in Deliveries : claims'[x] \subseteq claims[x]
  BY <1>3
<1>5. status' = status /\ count' = count /\ Retired' = Retired
  BY <1>1, RetiredKept
<1> HIDE DEF status, count, claims
<1>6. Ledger!Abandon
  BY <1>1, <1>4, <1>5 DEF Ledger!Abandon, status, count, claims
<1>7. QED
  BY <1>6 DEF Ledger!Next

(* The steps of an attempt that only read, or end it. *)
LEMMA ReadsUnseen ==
  ASSUME TypeInv, NEW v \in Workers,
         ReadRow(v) \/ ReadHook(v) \/ (Claim(v) /\ ~Claimable(v)) \/ Rejected(v)
            \/ DbError(v)
  PROVE  UNCHANGED Ledger!ledger
<1>1. /\ UNCHANGED <<row, hook, posted, acked>>
      /\ \A w \in Workers : w # v => job'[w] = job[w]
      /\ ~At(v, "send")
  BY DEF ReadRow, ReadHook, Claim, Rejected, DbError, Return, Goto, At, database,
         observed, TypeInv, TypeOK
<1>2. job'[v].pc # "send"
  <2>1. CASE Return(v)
    BY <2>1 DEF Return, NoJob, TypeInv, TypeOK
  <2>2. ASSUME NEW p \in Steps \ {"send"}, Goto(v, p)
        PROVE  job'[v].pc # "send"
    BY <2>2 DEF Goto, Jobs, TypeInv, TypeOK
  <2>3. CASE ReadRow(v) /\ ~Return(v)
    <3> DEFINE a == row[job[v].did].attempts
               s == row[job[v].did].signature
    <3>1. job' = [job EXCEPT ![v] = [@ EXCEPT !.pc = "readHook", !.attempts = a,
                                             !.signature = s]]
      BY <2>3 DEF ReadRow
    <3> HIDE DEF a, s
    <3>2. QED
      BY <3>1 DEF Jobs, TypeInv, TypeOK
  <2>4. CASE ReadHook(v)
    <3>1. CASE Goto(v, "markMissing") \/ Goto(v, "park")
      BY <2>2, <3>1 DEF Steps
    <3>2. CASE ~(Goto(v, "markMissing") \/ Goto(v, "park"))
      <4> DEFINE s == SigningSecret(v, HookOf[job[v].did])
      <4>1. job' = [job EXCEPT ![v] = [@ EXCEPT !.pc = "claim", !.signature = s]]
        BY <2>4, <3>2 DEF ReadHook
      <4> HIDE DEF s
      <4>2. QED
        BY <4>1 DEF Jobs, TypeInv, TypeOK
    <3>3. QED
      BY <3>1, <3>2
  <2>5. CASE Rejected(v)
    BY <2>2, <2>5 DEF Rejected, AfterRejection, Steps
  <2>6. QED
    BY <2>1, <2>3, <2>4, <2>5 DEF Claim, DbError
<1>3. KeepsSenders
  BY <1>1, <1>2 DEF KeepsSenders, At
<1>4. QED
  BY <1>1, <1>3, Unseen

(* Fan-out, retries, clocks and admin requests that change neither a status
   nor a counter. *)
LEMMA EnvironmentUnseen ==
  ASSUME TypeInv,
         \/ \E d \in Deliveries :
               (\E i \in Instances : ListWebhooks(i, d)) \/ EnqueueFails(d)
         \/ Retry \/ Clock
         \/ \E h \in Webhooks : RotateSecret(h) \/ \E i \in Instances : ResetBreaker(i, h)
         \/ UNCHANGED vars
  PROVE  UNCHANGED Ledger!ledger
<1>1. UNCHANGED <<posted, acked>>
  BY DEF ListWebhooks, EnqueueFails, Retry, StartReaper, Flush, FireTimer,
         TakeFromBatch, Clock, RetryFallsDue, ResetTimeout, RotateSecret,
         ResetBreaker, vars, observed
<1>2. KeepsSenders
  <2>1. CASE UNCHANGED job
    BY <2>1 DEF KeepsSenders
  <2>2. ASSUME NEW w \in Workers, NEW i \in Instances, NEW d \in Deliveries,
               StartAttempt(w, i, d)
        PROVE  KeepsSenders
    BY <2>2 DEF StartAttempt, KeepsSenders, At, TypeInv, TypeOK
  <2>3. QED
    BY <2>1, <2>2 DEF ListWebhooks, EnqueueFails, Retry, StartReaper, Flush,
           FireTimer, TakeFromBatch, Clock, RetryFallsDue, ResetTimeout,
           RotateSecret, ResetBreaker, vars
<1>3. \A h \in Webhooks : hook'[h].everPaused = hook[h].everPaused
  <2>1. CASE UNCHANGED hook
    BY <2>1
  <2>2. ASSUME NEW g \in Webhooks, RotateSecret(g), NEW h \in Webhooks
        PROVE  hook'[h].everPaused = hook[h].everPaused
    <3> DEFINE s == hook[g].secret + 1
    <3>1. hook' = [hook EXCEPT ![g] = [@ EXCEPT !.secret = s]]
      BY <2>2 DEF RotateSecret
    <3> HIDE DEF s
    <3>2. QED
      BY <3>1 DEF TypeInv, TypeOK, Hooks
  <2>3. QED
    BY <2>1, <2>2 DEF ListWebhooks, EnqueueFails, Retry, StartReaper, Flush,
           FireTimer, TakeFromBatch, Clock, RetryFallsDue, ResetTimeout,
           ResetBreaker, vars, database
<1>4. \A d \in Deliveries : /\ row'[d].status = row[d].status
                            /\ row'[d].attempts = row[d].attempts
  <2>1. CASE UNCHANGED row
    BY <2>1
  <2>2. ASSUME NEW x \in Deliveries, RetryFallsDue(x), NEW d \in Deliveries
        PROVE  row'[d].status = row[d].status /\ row'[d].attempts = row[d].attempts
    BY <2>2 DEF RetryFallsDue, TypeInv, TypeOK, Rows
  <2>3. QED
    BY <2>1, <2>2 DEF ListWebhooks, EnqueueFails, Retry, StartReaper, Flush,
           FireTimer, TakeFromBatch, Clock, ResetTimeout, RotateSecret,
           ResetBreaker, vars, database
<1>5. QED
  BY <1>1, <1>2, <1>3, <1>4, Unseen

LEMMA StepRefines ==
  ASSUME TypeInv, ClaimInv, LedgerInv, [Next]_vars
  PROVE  [Ledger!Next]_(Ledger!ledger)
<1>1. CASE Fanout
  BY <1>1, EnqueueRecords, EnvironmentUnseen DEF Fanout
<1>2. ASSUME NEW w \in Workers, AttemptStep(w) \/ DbError(w)
      PROVE  [Ledger!Next]_(Ledger!ledger)
  BY <1>2, ReadsUnseen, ClaimTakes, SendPosts, AcceptedAcknowledges, OutcomeUpdates
     DEF AttemptStep
<1>3. CASE Admin
  BY <1>3, PauseWithdraws, DeletionWithdraws, EnvironmentUnseen DEF Admin
<1>4. CASE \E i \in Instances : Crash(i)
  BY <1>4, CrashAbandons
<1>5. CASE Retry \/ Clock \/ UNCHANGED vars
  BY <1>5, EnvironmentUnseen
<1>6. QED
  BY <1>1, <1>2, <1>3, <1>4, <1>5 DEF Next

LEMMA InitRefines == Init => Ledger!Init
  BY DeliveryAssumption
     DEF Init, Ledger!Init, Retired, Unused, At, NoJob, NewRow, NoRow

(* The outbox implements the ledger: for any numbers of webhooks, deliveries,
   processes and attempts, a delivery is recorded once, each request uses up a
   number of its own, delivered means answered with 2xx, and failed means that
   the attempts are used up or the webhook was paused or deleted. *)
THEOREM OutboxImplementsLedger == Spec => ImplementsLedger
<1>1. Init => TypeInv /\ ClaimInv /\ LedgerInv /\ Ledger!Init
  BY InitType, InitClaimInv, InitLedgerInv, InitRefines
<1>2. TypeInv /\ ClaimInv /\ LedgerInv /\ [Next]_vars
         => TypeInv' /\ ClaimInv' /\ LedgerInv'
  BY StepType, StepClaimInv, StepLedgerInv
<1>3. TypeInv /\ ClaimInv /\ LedgerInv /\ [Next]_vars
         => [Ledger!Next]_(Ledger!ledger)
  BY StepRefines
<1>4. Spec => Ledger!Spec
  BY <1>1, <1>2, <1>3, PTL DEF Spec, Ledger!Spec
<1>5. QED
  BY <1>4 DEF ImplementsLedger

-----------------------------------------------------------------------------
(* One signature per delivery: SignInv is inductive, together with TypeInv and
   ClaimInv.  Enqueue chooses the signature; every other step hands on what the
   row or the attempt already has. *)

HandsOnSignature(d) ==
    /\ row'[d].status # "absent" =>
          row[d].status # "absent" /\ row'[d].signature = row[d].signature
    /\ \A w \in Workers : job'[w].did = d /\ job'[w].pc \notin {"idle", "readRow"} =>
          /\ job[w].did = d
          /\ \/ /\ job[w].pc \notin {"idle", "readRow"}
                /\ job[w].signature # 0 => job'[w].signature = job[w].signature
             \/ row[d].status # "absent" /\ job'[w].signature = row[d].signature
    /\ \A s \in sigs'[d] \ sigs[d] :
          \E w \in Workers : At(w, "send") /\ job[w].did = d /\ job[w].signature = s

LEMMA SignedKept ==
  ASSUME NEW d \in Deliveries, NEW s \in 1 .. MaxSecret, SignedWith(d, s),
         HandsOnSignature(d)
  PROVE  SignedWith(d, s)'
<1>1. s # 0
  OBVIOUS
<1>2. row'[d].status # "absent" => row'[d].signature = s
  BY DEF SignedWith, HandsOnSignature
<1>3. ASSUME NEW w \in Workers, job'[w].did = d,
             job'[w].pc \notin {"idle", "readRow"}
      PROVE  job'[w].signature = s
  BY <1>1, <1>3 DEF SignedWith, HandsOnSignature
<1>4. sigs'[d] \subseteq {s}
  <2>1. ASSUME NEW x \in sigs'[d], x \notin sigs[d]
        PROVE  x = s
    BY <2>1 DEF SignedWith, HandsOnSignature, At
  <2>2. QED
    BY <2>1 DEF SignedWith
<1>5. QED
  BY <1>2, <1>3, <1>4 DEF SignedWith, At

(* Steps that leave rows and receivers alone and start or end attempts. *)
LEMMA JobStepHandsOn ==
  ASSUME TypeInv, NEW d \in Deliveries,
         row'[d].status # "absent" =>
            row[d].status # "absent" /\ row'[d].signature = row[d].signature,
         UNCHANGED sigs,
         \A w \in Workers : job'[w] = job[w] \/ job'[w] = NoJob \/ job'[w].pc = "readRow"
  PROVE  HandsOnSignature(d)
<1>1. NoJob.pc = "idle"
  BY DEF NoJob
<1>2. ASSUME NEW w \in Workers, job'[w].did = d,
             job'[w].pc \notin {"idle", "readRow"}
      PROVE  job'[w] = job[w]
  BY <1>1, <1>2
<1>3. QED
  BY <1>2 DEF HandsOnSignature, At

LEMMA AttemptHandsOn ==
  ASSUME TypeInv, NEW v \in Workers, AttemptStep(v) \/ DbError(v), NEW d \in Deliveries
  PROVE  HandsOnSignature(d)
<1>1. /\ job[v].did \in Deliveries /\ job[v] \in Jobs /\ row[job[v].did] \in Rows
      /\ \A w \in Workers : w # v => job'[w] = job[w]
  BY DEF TypeInv, TypeOK, JobsRefer, At, AttemptStep, DbError, ReadRow, ReadHook,
         MarkMissing, Park, Claim, Send, Accepted, Rejected, MarkDelivered,
         MarkExhausted, ScheduleRetry, Return, Goto
<1>2. row'[d].status # "absent" =>
         row[d].status # "absent" /\ row'[d].signature = row[d].signature
  <2>1. CASE UNCHANGED row
    BY <2>1
  <2>2. CASE MarkMissing(v) \/ Park(v) \/ MarkDelivered(v) \/ MarkExhausted(v)
                \/ ScheduleRetry(v)
    <3>1. PICK r : r.signature = row[job[v].did].signature /\ row' = Updated(job[v].did, r)
      BY <1>1, <2>2 DEF MarkMissing, Park, Parked, MarkDelivered, MarkExhausted,
                        ScheduleRetry, Rows
    <3>2. QED
      BY <1>1, <3>1 DEF Updated, TypeInv, TypeOK
  <2>3. CASE Claim(v) /\ Claimable(v)
    <3> DEFINE n == job[v].attempts + 1
    <3>1. row' = [row EXCEPT ![job[v].did] = [@ EXCEPT !.attempts = n]]
      BY <2>3 DEF Claim
    <3> HIDE DEF n
    <3>2. QED
      BY <1>1, <3>1 DEF TypeInv, TypeOK, Rows
  <2>4. QED
    BY <2>1, <2>2, <2>3 DEF AttemptStep, DbError, ReadRow, ReadHook, Claim, Send,
                            Accepted, Rejected, database
<1>3. CASE UNCHANGED sigs /\ Return(v)
  <2>1. job'[v] = NoJob
    BY <1>3 DEF Return, TypeInv, TypeOK
  <2>2. QED
    BY <1>1, <1>2, <1>3, <2>1, JobStepHandsOn
<1>4. ASSUME UNCHANGED sigs, NEW j \in Jobs, job'[v] = j, j.did = job[v].did,
             \/ /\ job[v].pc \notin {"idle", "readRow"}
                /\ job[v].signature # 0 => j.signature = job[v].signature
             \/ /\ row[job[v].did].status # "absent"
                /\ j.signature = row[job[v].did].signature
      PROVE  HandsOnSignature(d)
  <2> SUFFICES ASSUME NEW w \in Workers, job'[w].did = d,
             job'[w].pc \notin {"idle", "readRow"}
               PROVE  /\ job[w].did = d
                      /\ \/ /\ job[w].pc \notin {"idle", "readRow"}
                            /\ job[w].signature # 0 => job'[w].signature = job[w].signature
                         \/ row[d].status # "absent" /\ job'[w].signature = row[d].signature
    BY <1>2, <1>4 DEF HandsOnSignature
  <2>1. CASE w = v
    BY <1>4, <2>1
  <2>2. CASE w # v
    BY <1>1, <2>2 DEF At
  <2>3. QED
    BY <2>1, <2>2
<1>5. ASSUME NEW p \in Steps, Goto(v, p)
      PROVE  /\ job'[v] \in Jobs /\ job'[v].did = job[v].did
             /\ job'[v].signature = job[v].signature
  BY <1>1, <1>5 DEF Goto, Jobs, TypeInv, TypeOK
<1>6. CASE ReadRow(v) /\ ~Return(v)
  <2> DEFINE a == row[job[v].did].attempts
             s == row[job[v].did].signature
             j == [job[v] EXCEPT !.pc = "readHook", !.attempts = a, !.signature = s]
  <2>1. a \in Nat /\ s \in Nat
    BY <1>1 DEF Rows
  <2>2. job'[v] = j /\ row[job[v].did].status # "absent" /\ UNCHANGED sigs
    BY <1>6 DEF ReadRow, TypeInv, TypeOK, observed
  <2> HIDE DEF a, s
  <2>3. j \in Jobs
    BY <1>1, <2>1, JobFields DEF Steps
  <2>4. j.did = job[v].did /\ j.signature = s
    BY <1>1 DEF Jobs
  <2> HIDE DEF j
  <2>5. QED
    BY <1>4, <2>2, <2>3, <2>4 DEF s
<1>7. CASE ReadHook(v)
  <2>1. job[v].pc \notin {"idle", "readRow"} /\ UNCHANGED sigs
    BY <1>7 DEF ReadHook, At, observed
  <2>2. CASE Goto(v, "markMissing") \/ Goto(v, "park")
    BY <1>4, <1>5, <2>1, <2>2 DEF Steps
  <2>3. CASE ~(Goto(v, "markMissing") \/ Goto(v, "park"))
    <3> DEFINE s == SigningSecret(v, HookOf[job[v].did])
               j == [job[v] EXCEPT !.pc = "claim", !.signature = s]
    <3>1. s \in Nat /\ (job[v].signature # 0 => s = job[v].signature)
      BY <1>1, DeliveryAssumption DEF SigningSecret, Jobs, TypeInv, TypeOK, Hooks
    <3> HIDE DEF s
    <3>2. job'[v] = j
      BY <1>7, <2>3 DEF ReadHook, TypeInv, TypeOK, s
    <3>3. j \in Jobs
      BY <1>1, <3>1, JobFields DEF Steps
    <3>4. j.did = job[v].did /\ j.signature = s
      BY <1>1 DEF Jobs
    <3> HIDE DEF j
    <3>5. QED
      BY <1>4, <2>1, <3>1, <3>2, <3>3, <3>4
  <2>4. QED
    BY <2>2, <2>3
<1>8. CASE Claim(v) /\ Claimable(v)
  <2> DEFINE n == job[v].attempts + 1
             j == [job[v] EXCEPT !.pc = "send", !.attempts = n]
  <2>1. n \in Nat
    BY <1>1 DEF Jobs
  <2>2. job'[v] = j /\ job[v].pc \notin {"idle", "readRow"} /\ UNCHANGED sigs
    BY <1>8 DEF Claim, At, TypeInv, TypeOK, observed
  <2> HIDE DEF n
  <2>3. j \in Jobs
    BY <1>1, <2>1, JobFields DEF Steps
  <2>4. j.did = job[v].did /\ j.signature = job[v].signature
    BY <1>1 DEF Jobs
  <2> HIDE DEF j
  <2>5. QED
    BY <1>4, <2>2, <2>3, <2>4
<1>9. CASE Accepted(v) \/ Rejected(v)
  <2>1. job[v].pc \notin {"idle", "readRow"} /\ UNCHANGED sigs
    BY <1>9 DEF Accepted, Rejected, At, observed
  <2>2. PICK p \in Steps : Goto(v, p)
    BY <1>9 DEF Accepted, Rejected, AfterRejection, Steps
  <2>3. QED
    BY <1>4, <1>5, <2>1, <2>2
<1>10. CASE Send(v)
  <2>1. /\ At(v, "send") /\ Goto(v, "await")
        /\ sigs' = [sigs EXCEPT ![job[v].did] = @ \union {job[v].signature}]
    BY <1>10 DEF Send
  <2>2. \A s \in sigs'[d] \ sigs[d] : job[v].did = d /\ job[v].signature = s
    BY <2>1 DEF TypeInv, TypeOK
  <2>3. job'[v].did = job[v].did /\ job'[v].signature = job[v].signature
    BY <1>5, <2>1 DEF Steps
  <2>4. \A w \in Workers : /\ job'[w].did = job[w].did
                           /\ job'[w].signature = job[w].signature
                           /\ job'[w].pc \notin {"idle", "readRow"}
                                 => job[w].pc \notin {"idle", "readRow"}
    BY <1>1, <2>1, <2>3 DEF At
  <2>5. QED
    BY <1>2, <2>1, <2>2, <2>4 DEF HandsOnSignature
<1>11. CASE MarkMissing(v) \/ Park(v) \/ MarkDelivered(v) \/ MarkExhausted(v)
               \/ ScheduleRetry(v) \/ DbError(v) \/ (Claim(v) /\ ~Claimable(v))
               \/ (ReadRow(v) /\ Return(v))
  BY <1>3, <1>11 DEF MarkMissing, Park, MarkDelivered, MarkExhausted, ScheduleRetry,
                     DbError, Claim, ReadRow, observed
<1>12. QED
  BY <1>6, <1>7, <1>8, <1>9, <1>10, <1>11 DEF AttemptStep

LEMMA OtherHandsOn ==
  ASSUME TypeInv, NEW d \in Deliveries,
         Fanout \/ Retry \/ Clock \/ Admin \/ (\E i \in Instances : Crash(i))
            \/ UNCHANGED vars,
         \A w \in Workers : ~Enqueue(w, d)
  PROVE  HandsOnSignature(d)
<1>1. UNCHANGED sigs
  BY DEF Fanout, Retry, ListWebhooks, Enqueue, EnqueueFails, StartReaper, Flush,
         FireTimer, TakeFromBatch, Clock, Admin, RetryFallsDue, ResetTimeout,
         SetActive, RotateSecret, DeleteWebhook, ResetBreaker, Crash, vars, observed
<1>2. \A w \in Workers : job'[w] = job[w] \/ job'[w] = NoJob \/ job'[w].pc = "readRow"
  <2>1. ASSUME NEW w \in Workers, NEW i, NEW x, StartAttempt(w, i, x), NEW u \in Workers
        PROVE  job'[u] = job[u] \/ job'[u].pc = "readRow"
    BY <2>1 DEF StartAttempt, TypeInv, TypeOK
  <2>2. CASE Fanout \/ Retry
    BY <2>1, <2>2 DEF Fanout, Retry, ListWebhooks, Enqueue, EnqueueFails, StartReaper,
           Flush, FireTimer, TakeFromBatch
  <2>3. CASE \E i \in Instances : Crash(i)
    BY <2>3 DEF Crash
  <2>4. QED
    BY <2>2, <2>3 DEF Clock, Admin, RetryFallsDue, ResetTimeout, SetActive,
                      RotateSecret, DeleteWebhook, ResetBreaker, vars
<1>3. row'[d].status # "absent" =>
         row[d].status # "absent" /\ row'[d].signature = row[d].signature
  <2>1. CASE UNCHANGED row
    BY <2>1
  <2>2. ASSUME NEW x \in Deliveries, NEW w \in Workers, Enqueue(w, x)
        PROVE  row'[d] = row[d]
    BY <2>2 DEF Enqueue, TypeInv, TypeOK
  <2>3. ASSUME NEW x \in Deliveries, RetryFallsDue(x)
        PROVE  row'[d].status = row[d].status /\ row'[d].signature = row[d].signature
    BY <2>3 DEF RetryFallsDue, TypeInv, TypeOK, Rows
  <2>4. ASSUME NEW h \in Webhooks, DeleteWebhook(h)
        PROVE  row'[d].status = "absent" \/ row'[d] = row[d]
    BY <2>4 DEF DeleteWebhook, NoRow
  <2>5. QED
    BY <2>1, <2>2, <2>3, <2>4 DEF Fanout, Retry, ListWebhooks, EnqueueFails,
         StartReaper, Flush, FireTimer, TakeFromBatch, Clock, ResetTimeout, Admin,
         SetActive, RotateSecret, ResetBreaker, Crash, vars, database
<1>4. QED
  BY <1>1, <1>2, <1>3, JobStepHandsOn

(* The insert signs the row; nothing else of the delivery exists yet. *)
LEMMA EnqueueSigns ==
  ASSUME TypeInv, ClaimInv, NEW v \in Workers, NEW d \in Deliveries, Enqueue(v, d),
         NEW s, s = dispatch[d].secret
  PROVE  SignedWith(d, s)'
<1>1. /\ sigs[d] = {} /\ UNCHANGED sigs
      /\ \A w \in Workers : ~At(w, "idle") => job[w].did # d
  BY DEF Enqueue, ClaimInv, FreshIds, observed
<1>2. row'[d].signature = s
  BY DEF Enqueue, NewRow, TypeInv, TypeOK
<1>3. \A w \in Workers : job'[w] = job[w] \/ job'[w].pc = "readRow"
  BY DEF Enqueue, StartAttempt, TypeInv, TypeOK
<1>4. QED
  BY <1>1, <1>2, <1>3 DEF SignedWith, At

LEMMA InitSignInv == Init => SignInv
<1> SUFFICES ASSUME Init PROVE SignInv
  OBVIOUS
<1>1. 1 \in 1 .. MaxSecret
  BY DeliveryAssumption
<1>2. \A d \in Deliveries \ Legacy : SignedWith(d, 1)
  BY DEF Init, SignedWith, NoJob, NoRow
<1>3. QED
  BY <1>1, <1>2 DEF Init, SignInv

LEMMA StepSignInv ==
  TypeInv /\ ClaimInv /\ SignInv /\ [Next]_vars => SignInv'
<1> SUFFICES ASSUME TypeInv, ClaimInv, SignInv, [Next]_vars PROVE SignInv'
  OBVIOUS
<1>1. \A h \in Webhooks : hook'[h].secret \in 1 .. MaxSecret
  <2>1. CASE UNCHANGED hook
    BY <2>1 DEF SignInv
  <2>2. ASSUME NEW g \in Webhooks, NEW s \in {"active", "inactive", "deleted"},
               hook' = [hook EXCEPT ![g] = [@ EXCEPT !.status = s, !.everPaused = TRUE]],
               NEW h \in Webhooks
        PROVE  hook'[h].secret = hook[h].secret
    BY <2>2 DEF TypeInv, TypeOK, Hooks
  <2>3. ASSUME NEW g \in Webhooks, RotateSecret(g), NEW h \in Webhooks
        PROVE  hook'[h].secret \in 1 .. MaxSecret
    <3> DEFINE s == hook[g].secret + 1
    <3>1. s \in 1 .. MaxSecret
      BY <2>3, DeliveryAssumption DEF RotateSecret, SignInv
    <3>2. hook' = [hook EXCEPT ![g] = [@ EXCEPT !.secret = s]]
      BY <2>3 DEF RotateSecret
    <3> HIDE DEF s
    <3>3. hook'[h].secret = s \/ hook'[h].secret = hook[h].secret
      BY <3>2 DEF TypeInv, TypeOK, Hooks
    <3>4. QED
      BY <3>1, <3>3 DEF SignInv
  <2>4. CASE Admin
    BY <2>1, <2>2, <2>3, <2>4
       DEF Admin, SetActive, DeleteWebhook, ResetBreaker, database, SignInv
  <2>5. QED
    BY <2>1, <2>4
       DEF Next, Fanout, Retry, ListWebhooks, Enqueue, EnqueueFails, StartReaper,
           Flush, FireTimer, TakeFromBatch, Clock, RetryFallsDue, ResetTimeout, Crash,
           vars, database, AttemptStep, DbError, ReadRow, ReadHook, MarkMissing, Park,
           Claim, Send, Accepted, Rejected, MarkDelivered, MarkExhausted, ScheduleRetry
<1>2. ASSUME NEW d \in Deliveries, dispatch'[d].pc = "listed"
      PROVE  dispatch'[d].secret \in 1 .. MaxSecret
  <2>1. CASE dispatch'[d] = dispatch[d]
    BY <1>2, <2>1 DEF SignInv
  <2>2. ASSUME NEW i \in Instances, NEW x \in Deliveries, ListWebhooks(i, x)
        PROVE  \/ dispatch'[d] = dispatch[d] \/ dispatch'[d].pc = "done"
               \/ dispatch'[d].secret = hook[HookOf[d]].secret
    BY <2>2 DEF ListWebhooks, TypeInv, TypeOK
  <2>3. ASSUME NEW x, Dispatched(x)
        PROVE  dispatch'[d] = dispatch[d] \/ dispatch'[d].pc = "done"
    BY <2>3 DEF Dispatched, TypeInv, TypeOK
  <2>4. CASE Fanout
    BY <1>2, <2>1, <2>2, <2>3, <2>4, DeliveryAssumption
       DEF Fanout, Enqueue, EnqueueFails, SignInv
  <2>5. ASSUME NEW i \in Instances, Crash(i)
        PROVE  dispatch'[d] = dispatch[d] \/ dispatch'[d].pc = "done"
    BY <2>5 DEF Crash
  <2>6. QED
    BY <1>2, <2>1, <2>4, <2>5
       DEF Next, Retry, StartReaper, Flush, FireTimer, TakeFromBatch, Clock,
           RetryFallsDue, ResetTimeout, Admin, SetActive, RotateSecret, DeleteWebhook,
           ResetBreaker, vars, AttemptStep, DbError, ReadRow, ReadHook, MarkMissing,
           Park, Claim, Send, Accepted, Rejected, MarkDelivered, MarkExhausted,
           ScheduleRetry
<1>3. ASSUME NEW d \in Deliveries \ Legacy
      PROVE  \E s \in 1 .. MaxSecret : SignedWith(d, s)'
  <2>1. PICK s \in 1 .. MaxSecret : SignedWith(d, s)
    BY DEF SignInv
  <2>2. CASE HandsOnSignature(d)
    BY <2>1, <2>2, SignedKept
  <2>3. CASE \E w \in Workers : Enqueue(w, d)
    <3>1. PICK t \in 1 .. MaxSecret : t = dispatch[d].secret
      BY <2>3 DEF Enqueue, SignInv
    <3>2. SignedWith(d, t)'
      BY <2>3, <3>1, EnqueueSigns
    <3>3. QED
      BY <3>2
  <2>4. QED
    BY <2>2, <2>3, AttemptHandsOn, OtherHandsOn DEF Next
<1>4. QED
  BY <1>1, <1>2, <1>3 DEF SignInv

(* Every request of a delivery carries the same signature, whatever becomes of
   the webhook's secret, of attempts, timers and processes. *)
THEOREM SignaturesAreStable == Spec => []SignatureStable
<1>1. Spec => []SignInv
  BY InitType, StepType, InitClaimInv, StepClaimInv, InitSignInv, StepSignInv,
     PTL DEF Spec
<1>2. SignInv => SignatureStable
  <2> SUFFICES ASSUME SignInv, NEW d \in Deliveries \ Legacy
               PROVE  Cardinality(sigs[d]) <= 1
    BY DEF SignatureStable
  <2>1. PICK s \in 1 .. MaxSecret : sigs[d] \subseteq {s}
    BY DEF SignInv, SignedWith
  <2>2. sigs[d] = {} \/ sigs[d] = {s}
    BY <2>1
  <2>3. Cardinality({}) = 0 /\ Cardinality({s}) = 1
    BY FS_EmptySet, FS_Singleton
  <2>4. QED
    BY <2>2, <2>3
<1>3. QED
  BY <1>1, <1>2, PTL
================================================================================
