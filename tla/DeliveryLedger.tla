---------------------------- MODULE DeliveryLedger ----------------------------
(***************************************************************************)
(* What the webhook outbox promises, without processes, timers, breakers   *)
(* and database statements (src/src/lib/webhooks/service.ts).  A delivery  *)
(* is recorded once; each POST uses up an attempt number that was taken    *)
(* while the delivery was pending; it is only called delivered after a 2xx *)
(* answer, and only given up when its attempts are used up or its webhook  *)
(* has been paused or deleted.  WebhookDelivery implements it.             *)
(***************************************************************************)
EXTENDS Integers

CONSTANTS
    Deliveries,
    Budget      \* config.webhookRetryAttempts

VARIABLES
    status,     \* what the row of each delivery says
    count,      \* attempt numbers taken, while the row exists
    claims,     \* numbers taken and not used yet
    posted,     \* numbers used: the requests that have left
    acked,      \* numbers the receiver has answered with 2xx
    retired     \* deliveries whose webhook has been paused or deleted

ledger == <<status, count, claims, posted, acked, retired>>

LedgerTypeOK ==
    /\ status \in [Deliveries -> {"absent", "pending", "delivered", "failed"}]
    /\ count \in [Deliveries -> Nat]
    /\ claims \in [Deliveries -> SUBSET Nat]
    /\ posted \in [Deliveries -> SUBSET Nat]
    /\ acked \in [Deliveries -> SUBSET Nat]
    /\ retired \subseteq Deliveries

Init ==
    /\ status \in [Deliveries -> {"absent", "pending"}]
    /\ count = [d \in Deliveries |-> 0]
    /\ claims = [d \in Deliveries |-> {}]
    /\ posted = [d \in Deliveries |-> {}]
    /\ acked = [d \in Deliveries |-> {}]
    /\ retired = {}

Record(d) ==
    /\ status[d] = "absent" /\ claims[d] = {} /\ posted[d] = {}
    /\ status' = [status EXCEPT ![d] = "pending"]
    /\ UNCHANGED <<count, claims, posted, acked, retired>>

Take(d) ==
    /\ status[d] = "pending"
    /\ count' = [count EXCEPT ![d] = count[d] + 1]
    /\ claims' = [claims EXCEPT ![d] = claims[d] \union {count[d] + 1}]
    /\ UNCHANGED <<status, posted, acked, retired>>

(* A crash: the numbers are not used, and not taken again. *)
Abandon ==
    /\ claims' = [d \in Deliveries |-> claims'[d]]
    /\ \A d \in Deliveries : claims'[d] \subseteq claims[d]
    /\ UNCHANGED <<status, count, posted, acked, retired>>

(* The number is used up by the request, whether it arrives or not. *)
Post(d, n) ==
    /\ n \in claims[d]
    /\ claims' = [claims EXCEPT ![d] = claims[d] \ {n}]
    /\ posted' = [posted EXCEPT ![d] = posted[d] \union {n}]
    /\ UNCHANGED <<status, count, acked, retired>>

Acknowledge(d, n) ==
    /\ n \in posted[d]
    /\ acked' = [acked EXCEPT ![d] = acked[d] \union {n}]
    /\ UNCHANGED <<status, count, claims, posted, retired>>

Deliver(d) ==
    /\ status[d] # "absent"
    /\ acked[d] # {}
    /\ status' = [status EXCEPT ![d] = "delivered"]
    /\ UNCHANGED <<count, claims, posted, acked, retired>>

GiveUp(d) ==
    /\ status[d] # "absent"
    /\ count[d] >= Budget \/ d \in retired
    /\ status' = [status EXCEPT ![d] = "failed"]
    /\ UNCHANGED <<count, claims, posted, acked, retired>>

(* A slower attempt has the last word: nothing is terminal. *)
Reopen(d) ==
    /\ status[d] # "absent"
    /\ status' = [status EXCEPT ![d] = "pending"]
    /\ UNCHANGED <<count, claims, posted, acked, retired>>

(* A webhook is paused, or deleted with its deliveries. *)
Withdraw ==
    /\ retired \subseteq retired'
    /\ \E gone \in SUBSET retired' :
        /\ status' = [d \in Deliveries |-> IF d \in gone THEN "absent" ELSE status[d]]
        /\ count' = [d \in Deliveries |-> IF d \in gone THEN 0 ELSE count[d]]
    /\ UNCHANGED <<claims, posted, acked>>

Next ==
    \/ \E d \in Deliveries :
        \/ Record(d) \/ Take(d) \/ Deliver(d) \/ GiveUp(d) \/ Reopen(d)
        \/ \E n \in claims[d] : Post(d, n)
        \/ \E n \in posted[d] : Acknowledge(d, n)
    \/ Abandon
    \/ Withdraw

Spec == Init /\ [][Next]_ledger

=============================================================================
