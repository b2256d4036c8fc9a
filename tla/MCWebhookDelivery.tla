-------------------------- MODULE MCWebhookDelivery --------------------------
(* WebhookDelivery on the small instances of the MCDelivery*.cfg files. *)
EXTENDS WebhookDelivery, TLC

CONSTANTS h1

(* Every delivery goes to the one webhook. *)
OneHook == [d \in Deliveries |-> h1]

(* Attempts and processes are interchangeable. *)
WorkerSymmetry == Permutations(Workers) \union Permutations(Instances)
==============================================================================
