--------------------------- MODULE MCRevocationList ---------------------------
(* RevocationList on the small instances of the MCRevocationList*.cfg files. *)
EXTENDS RevocationList, TLC

Interchangeable ==
    Permutations(Instances) \union Permutations(Fetches) \union Permutations(Jtis)
        \union Permutations(Posts)
==============================================================================
