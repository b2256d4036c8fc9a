---------------------------- MODULE MCEventIngest ----------------------------
(* EventIngest with the reports of one handshake: start and end in one batch,
   a late start, and a failure; one webhook wants every type. *)
EXTENDS EventIngest, TLC

CONSTANTS s1, all, failures

Report(type) == [type |-> type, session |-> s1]

MCBatches ==
    { <<Report("handshake.started"), Report("handshake.complete")>>,
      <<Report("handshake.failed"), [type |-> "other", session |-> None]>>,
      <<Report("handshake.started")>> }

MCSubscribed == (all :> {}) @@ (failures :> {"handshake.failed"})

MCSymmetry == Permutations(Requests) \union Permutations(Instances)
==============================================================================
