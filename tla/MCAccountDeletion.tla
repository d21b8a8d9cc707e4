--------------------------- MODULE MCAccountDeletion ---------------------------
(* An instance of AccountDeletion for TLC: customer u1 books business      *)
(* owner u2, who books nobody.                                             *)
EXTENDS AccountDeletion

CONSTANTS u1, u2, b1, b2, w1

OneCustomer == [b \in Booking |-> u1]
OneOwner == [b \in Booking |-> u2]
===============================================================================
