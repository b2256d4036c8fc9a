---------------------------- MODULE MCTrustRecords ----------------------------
(* TrustRecords on a chain a <- b <- c, where b and c are delegations, that is
   revoked at the top, in the middle and, by an operator or an agent, at the
   top once more with another time stamp. *)
EXTENDS TrustRecords, TLC

CONSTANTS a, b, c

Chain == (b :> a) @@ (c :> b)

Twice == { [kind |-> "tct", jti |-> a, ts |-> 1],
           [kind |-> "tct", jti |-> a, ts |-> 2],
           [kind |-> "delegation", jti |-> b, ts |-> 3] }

WorkerSymmetry == Permutations(Workers)
==============================================================================
