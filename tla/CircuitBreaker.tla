---------------------------- MODULE CircuitBreaker ----------------------------
(***************************************************************************)
(* One webhook's circuit breaker and the delivery attempts that consult    *)
(* it: each asks shouldAttempt before its POST and reports the outcome     *)
(* with recordSuccess or recordFailure, unless it leaves without a report  *)
(* because its claim is lost or its UPDATE throws (service.ts:226-242).    *)
(* Every method runs to completion on the event loop; between asking and   *)
(* reporting any number of other attempts may ask and report, the reset    *)
(* timeout may run out, and an operator may reset the entry.               *)
(*                                                                         *)
(* What an attempt does around the two calls is in WebhookDelivery.        *)
(***************************************************************************)
EXTENDS Breaker, FiniteSets

CONSTANTS
    Callers,      \* delivery attempts of the webhook
    MaxFailures   \* bound: TLC explores failure counts up to this one

ASSUME CallersAssumption ==
    /\ IsFiniteSet(Callers)
    /\ MaxFailures \in Nat

VARIABLES
    entry,     \* the BreakerEntry
    call,      \* call[c]: "attempt", or "probe" while c's claim is in force
    older,     \* history: the attempts under way when the probe was claimed
    orphaned   \* history: the attempt that had claimed the probe has left

breakerVars == <<entry, call, older, orphaned>>

BreakerTypeOK ==
    /\ entry \in Entries
    /\ call \in [Callers -> {"idle", "attempt", "probe"}]
    /\ older \subseteq Callers
    /\ orphaned \in BOOLEAN

BreakerInit ==
    /\ entry = FreshEntry
    /\ call = [c \in Callers |-> "idle"]
    /\ older = {}
    /\ orphaned = FALSE

-----------------------------------------------------------------------------

(* No claim outlives an entry in which nothing is claimed: a probe under way
   becomes an ordinary attempt. *)
Disclaimed == [c \in Callers |-> IF call[c] = "probe" THEN "attempt" ELSE call[c]]

(* shouldAttempt returned true. *)
Ask(c) ==
    /\ call[c] = "idle"
    /\ ShouldAttempt(entry)
    /\ entry' = Admitted(entry)
    /\ IF entry.state = "closed"
       THEN /\ call' = [call EXCEPT ![c] = "attempt"]
            /\ UNCHANGED older
       ELSE /\ call' = [call EXCEPT ![c] = "probe"]
            /\ older' = {d \in Callers : call[d] # "idle"}
    /\ UNCHANGED orphaned

(* An outcome, whoever reports it, is the end of the claim
   (circuit-breaker.ts:89, 105). *)
Reported(c) ==
    /\ call' = [Disclaimed EXCEPT ![c] = "idle"]
    /\ orphaned' = FALSE
    /\ UNCHANGED older

Succeed(c) ==
    /\ call[c] # "idle"
    /\ entry' = AfterSuccess(entry)
    /\ Reported(c)

Fail(c) ==
    /\ call[c] # "idle"
    /\ entry.failures < MaxFailures
    /\ entry' = AfterFailure(entry)
    /\ Reported(c)

(* An attempt that was let through returns, or throws, before its POST: the
   row was claimed by another attempt, or the UPDATE failed. *)
Leave(c) ==
    /\ call[c] # "idle"
    /\ call' = [call EXCEPT ![c] = "idle"]
    /\ orphaned' = (orphaned \/ call[c] = "probe")
    /\ UNCHANGED <<entry, older>>

TimeoutElapses ==
    /\ entry.openedAt = "recent"
    /\ entry' = AfterResetTimeout(entry)
    /\ UNCHANGED <<call, older, orphaned>>

(* The admin route stores an entry that knows of no probe. *)
Reset ==
    /\ entry' = FreshEntry
    /\ call' = Disclaimed
    /\ orphaned' = FALSE
    /\ UNCHANGED older

BreakerNext ==
    \/ \E c \in Callers : Ask(c) \/ Succeed(c) \/ Fail(c) \/ Leave(c)
    \/ TimeoutElapses
    \/ Reset

BreakerSpec == BreakerInit /\ [][BreakerNext]_breakerVars

-----------------------------------------------------------------------------

(* The entry's fields agree in every state, whatever order attempts started
   before and after a transition report in (circuit-breaker.ts:87-118). *)
BreakerConsistent == EntryConsistent(entry)

(* "the first caller ... claims the probe - any concurrent caller sees false"
   (circuit-breaker.ts:62-66), however late attempts report or leave: while a
   claim is in force the breaker is half-open, and every other request under
   way was let through before the claim was taken.  And the breaker is not
   left shut by a claim that nobody made or somebody has reported: a claim is
   that of an attempt under way or of one that left without a report. *)
ProbeExclusive ==
    /\ \A c \in Callers : call[c] = "probe" =>
          /\ entry.state = "half_open"
          /\ entry.probeInFlight
          /\ \A other \in Callers \ {c} : call[other] # "idle" => other \in older
    /\ entry.probeInFlight => orphaned \/ \E c \in Callers : call[c] = "probe"

(* The reset window is honoured: once open, the breaker leaves that state
   only for half_open when the timeout has elapsed, unless an operator resets
   it; in particular no late report closes it (circuit-breaker.ts:87-118). *)
OpenUntilTimeout ==
    [][ entry.state = "open" /\ entry'.state # "open" =>
          \/ entry.openedAt = "elapsed" /\ entry'.state = "half_open"
          \/ Reset ]_breakerVars
==============================================================================
