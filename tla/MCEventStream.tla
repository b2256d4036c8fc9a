---------------------------- MODULE MCEventStream ----------------------------
(* EventStream with the connections and the types interchangeable. *)
EXTENDS EventStream, TLC

MCSymmetry == Permutations(Conns) \union Permutations(Types)

=============================================================================
