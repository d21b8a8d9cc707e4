-------------------------- MODULE MCScheduledBooking --------------------------
(* Instances of ScheduledBooking for TLC: three requests for bookings, b1  *)
(* and b2 for one slot and b3 for another.                                 *)
EXTENDS ScheduledBooking, TLC

CONSTANTS b1, b2, b3, s1, s2, w1, w2, w3

ThreeRequests == b1 :> s1 @@ b2 :> s1 @@ b3 :> s2
TwoRequests == b1 :> s1 @@ b2 :> s2

Disjoint == {<<s1, s1>>, <<s2, s2>>}

(* The windows of the two slots overlap: 09:00-13:00 and 12:00-17:00.      *)
Touching == Disjoint \cup {<<s1, s2>>, <<s2, s1>>}

(* The schedule rows of the two slots in the same order of employees.      *)
Aligned == s1 :> [p \in Provider |-> p] @@ s2 :> [p \in Provider |-> 10 + p]

Everybody == [b \in Booking |-> Provider]

(* Employee 3 only offers the service of b2.                               *)
Teams == b1 :> {1, 2} @@ b2 :> {1, 2, 3}

(* Beyond these statuses a booking changes nothing for locks and crews:    *)
(* only Active and not Active make a difference to them.                   *)
PendingOrCancelled ==
    \A b \in Booking : status[b] \in {"ABSENT", "PENDING", "CANCELLED"}

WorkerSymmetry == Permutations(Worker)
===============================================================================
