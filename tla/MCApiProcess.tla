---------------------------- MODULE MCApiProcess ----------------------------
(* Clients behind one address, for checking ApiProcess with TLC.           *)
EXTENDS ApiProcess

SameAddress == [c \in Clients |-> CHOOSE a \in Addresses : TRUE]

=============================================================================
