---------------------------- MODULE UsageDelivery ----------------------------
(***************************************************************************)
(* What the export path promises about usage events, whatever way they are *)
(* batched, retried or split: a committed event is in the gateway's hands  *)
(* until it is settled, once and for all, as delivered or dead; it is      *)
(* settled as delivered only when the server has it (the server may have   *)
(* it, even several times over, before the gateway knows: delivery is at   *)
(* least once, and the server keeps one row per event_id).                 *)
(* Modelled from outbox.ts and batcher.ts; TokemetryExport implements it.  *)
(***************************************************************************)
CONSTANT Events

VARIABLES
  status,     \* the gateway's view of each event
  received    \* the events the server has stored

dvars == <<status, received>>

Statuses == {"unseen", "pending", "delivered", "dead"}

DeliveryInit ==
  /\ status = [e \in Events |-> "unseen"]
  /\ received = {}

Commit(e) ==
  /\ status[e] = "unseen"
  /\ status' = [status EXCEPT ![e] = "pending"]
  /\ UNCHANGED received

(* The server stores a batch of events that are still pending.             *)
Receive(S) ==
  /\ \A e \in S : status[e] = "pending"
  /\ received' = received \cup S
  /\ UNCHANGED status

Settle(S, D) ==
  /\ \A e \in S \cup D : status[e] = "pending"
  /\ S \subseteq received
  /\ status' = [e \in Events |-> IF e \in S THEN "delivered"
                                 ELSE IF e \in D THEN "dead" ELSE status[e]]
  /\ UNCHANGED received

DeliveryNext ==
  \/ \E e \in Events : Commit(e)
  \/ \E S \in SUBSET Events : Receive(S)
  \/ \E S, D \in SUBSET Events : Settle(S, D)

Delivery == DeliveryInit /\ [][DeliveryNext]_dvars
=============================================================================
