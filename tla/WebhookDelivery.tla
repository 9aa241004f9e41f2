-------------------------- MODULE WebhookDelivery --------------------------
(***************************************************************************)
(* What a bot's owner is promised about an update: it is handed to the      *)
(* webhook any number of times once it has been inserted, marked as         *)
(* delivered only after it has been received, never unmarked but by being   *)
(* deleted, and never back once deleted.                                   *)
(***************************************************************************)
EXTENDS Naturals

CONSTANT Ids

VARIABLES
    state,   \* state[i]: "absent", "pending", "delivered" or "deleted"
    copies   \* copies[i]: how often the webhook has received update i

DeliveryInit ==
    /\ state = [i \in Ids |-> "absent"]
    /\ copies = [i \in Ids |-> 0]

Submit(i) ==
    /\ state[i] = "absent"
    /\ state' = [state EXCEPT ![i] = "pending"]
    /\ UNCHANGED copies

\* A copy may be under way when the update is deleted.
Receive(i) ==
    /\ state[i] # "absent"
    /\ copies' = [copies EXCEPT ![i] = @ + 1]
    /\ UNCHANGED state

Confirm(i) ==
    /\ state[i] = "pending"
    /\ copies[i] > 0
    /\ state' = [state EXCEPT ![i] = "delivered"]
    /\ UNCHANGED copies

Forget ==
    /\ state' = [i \in Ids |-> IF state[i] = "absent" THEN "absent" ELSE "deleted"]
    /\ UNCHANGED copies

DeliveryNext ==
    \/ \E i \in Ids : Submit(i) \/ Receive(i) \/ Confirm(i)
    \/ Forget

DeliverySpec == DeliveryInit /\ [][DeliveryNext]_<<state, copies>>

=============================================================================
