--------------------------- MODULE MCAgentRegistry ---------------------------
(* AgentRegistry with interchangeable instances, requests and sweeps. *)
EXTENDS AgentRegistry, TLC

MCSymmetry ==
    Permutations(Instances) \union Permutations(Requests) \union Permutations(Sweeps)

=============================================================================
