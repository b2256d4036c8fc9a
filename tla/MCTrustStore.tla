----------------------------- MODULE MCTrustStore -----------------------------
(* TrustStore with calls that may be exchanged, and so may ids and issuers. *)
EXTENDS TrustStore, TLC

Symmetry == Permutations(Calls) \union Permutations(Ids) \union Permutations(Issuers)

=============================================================================
