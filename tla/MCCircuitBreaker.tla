--------------------------- MODULE MCCircuitBreaker ---------------------------
(* CircuitBreaker with the thresholds and callers of MCCircuitBreaker.cfg. *)
EXTENDS CircuitBreaker
==============================================================================
