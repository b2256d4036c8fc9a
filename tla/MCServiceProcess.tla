--------------------------- MODULE MCServiceProcess ---------------------------
(* ServiceProcess with a delivery or two and an agent. *)
EXTENDS ServiceProcess

CONSTANTS d1, d2, a1

MCTableOf == [r \in Rows |-> IF r = a1 THEN "agents" ELSE "webhook_deliveries"]

=============================================================================
