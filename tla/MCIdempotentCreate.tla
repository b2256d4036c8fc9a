-------------------------- MODULE MCIdempotentCreate --------------------------
(* IdempotentCreate with the requests and the keys interchangeable. *)
EXTENDS IdempotentCreate, TLC

MCSymmetry == Permutations(Requests) \union Permutations(Keys)

=============================================================================
