------------------------------- MODULE Breaker -------------------------------
(***************************************************************************)
(* The entry that WebhookCircuitBreaker keeps for one webhook, and the     *)
(* functions its methods compute on it                                     *)
(* (src/src/lib/webhooks/circuit-breaker.ts).                              *)
(*                                                                         *)
(* Wall-clock time is reduced to what the methods compare: openedAt is     *)
(* "null", "recent" (less than resetTimeoutMs ago) or "elapsed".           *)
(***************************************************************************)
EXTENDS Integers

CONSTANTS
    FailureThreshold,  \* BreakerConfig.failureThreshold (default 5)
    SuccessThreshold   \* BreakerConfig.successThresholdToClose (default 1)

ASSUME ThresholdAssumption ==
    /\ FailureThreshold \in Nat \ {0}
    /\ SuccessThreshold \in Nat \ {0}

Entries ==
    [ state : {"closed", "open", "half_open"},
      failures : Nat,
      consecutiveSuccesses : Nat,
      openedAt : {"null", "recent", "elapsed"},
      probeInFlight : BOOLEAN ]

(* What entry() creates on first use and reset() stores. *)
FreshEntry ==
    [ state |-> "closed", failures |-> 0, consecutiveSuccesses |-> 0,
      openedAt |-> "null", probeInFlight |-> FALSE ]

(* Mutant of ShouldAttempt: an open breaker never lets a probe through. *)
ShouldAttemptNoProbe(e) ==
    \/ e.state = "closed"
    \/ e.state = "half_open" /\ ~e.probeInFlight

(* The answer of shouldAttempt... *)
ShouldAttempt(e) ==
    \/ e.state = "closed"
    \/ e.state = "open" /\ e.openedAt = "elapsed"
    \/ e.state = "half_open" /\ ~e.probeInFlight

(* Mutant of Admitted: only the first probe is claimed, not one that is let
   through by a breaker that is half-open already. *)
AdmittedUnclaimed(e) ==
    IF e.state = "open"
    THEN [e EXCEPT !.state = "half_open", !.probeInFlight = TRUE]
    ELSE e

(* ...and the entry it leaves behind when the answer is true: outside the
   closed state the caller has claimed the probe. *)
Admitted(e) ==
    IF e.state = "closed"
    THEN e
    ELSE [e EXCEPT !.state = "half_open", !.probeInFlight = TRUE]

Closes(e) ==
    /\ e.state = "half_open"
    /\ e.consecutiveSuccesses + 1 >= SuccessThreshold

(* Mutant of AfterSuccess: a success forgives one failure. *)
AfterSuccessForgiving(e) ==
    [e EXCEPT !.failures = @ - 1, !.consecutiveSuccesses = 0,
              !.probeInFlight = FALSE]

(* Mutant of AfterSuccess: any success closes the breaker. *)
AfterSuccessAnyState(e) ==
    [e EXCEPT !.state = "closed", !.failures = 0, !.openedAt = "null",
              !.consecutiveSuccesses = 0, !.probeInFlight = FALSE]

(* recordSuccess: closing keeps the success count; a success reported while
   the breaker is open forgets the failures but does not close it. *)
AfterSuccess(e) ==
    [ state |-> IF Closes(e) THEN "closed" ELSE e.state,
      failures |->
          IF e.state = "half_open" /\ ~Closes(e) THEN e.failures ELSE 0,
      consecutiveSuccesses |->
          IF e.state = "half_open" THEN e.consecutiveSuccesses + 1 ELSE 0,
      openedAt |-> IF Closes(e) THEN "null" ELSE e.openedAt,
      probeInFlight |-> FALSE ]

(* Mutant of Opens: the threshold is compared before this failure counts. *)
OpensLate(e) ==
    \/ e.state = "closed" /\ e.failures >= FailureThreshold
    \/ e.state = "half_open"

Opens(e) ==
    \/ e.state = "closed" /\ e.failures + 1 >= FailureThreshold
    \/ e.state = "half_open"

(* recordFailure *)
AfterFailure(e) ==
    [ state |-> IF Opens(e) THEN "open" ELSE e.state,
      failures |-> e.failures + 1,
      consecutiveSuccesses |-> 0,
      openedAt |-> IF Opens(e) THEN "recent" ELSE e.openedAt,
      probeInFlight |-> FALSE ]

(* resetTimeoutMs has passed since openedAt. *)
AfterResetTimeout(e) == [e EXCEPT !.openedAt = "elapsed"]

(* The state, its time stamp and its counters agree: the class never returns
   to closed with a full failure count or a stale openedAt, is never open
   without the time stamp the probe is timed by, and holds a probe claim only
   in half_open. *)
EntryConsistent(e) ==
    /\ e.state = "closed" => e.failures < FailureThreshold
    /\ e.state = "closed" <=> e.openedAt = "null"
    /\ e.state = "half_open" => e.openedAt = "elapsed"
    /\ e.probeInFlight => e.state = "half_open"
==============================================================================
