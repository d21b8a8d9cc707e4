------------------------------- MODULE Dispatch -------------------------------
(***************************************************************************)
(* What the dispatch of an instant booking promises to customers and       *)
(* providers, whatever requests race to change the booking.                *)
(*                                                                         *)
(* A booking is published once, to the candidates found by the search.     *)
(* While it is open, one of the candidates it is still open to may win it; *)
(* winning closes it for everybody else.  It may also be withdrawn (the    *)
(* customer cancels, the search times out).  A winner is never replaced,   *)
(* and a booking that was closed is never opened again.                    *)
(***************************************************************************)
CONSTANTS
    Booking,    \* the instant bookings
    Candidate   \* the (service, business, employee) candidates of a search

VARIABLES
    published,  \* the bookings that have been offered to candidates
    open,       \* open[b]: the candidates that may still accept booking b
    winner      \* winner[b]: the candidates that got b (at most one)

vars == <<published, open, winner>>

TypeOK ==
    /\ published \subseteq Booking
    /\ open \in [Booking -> SUBSET Candidate]
    /\ winner \in [Booking -> SUBSET Candidate]

Init ==
    /\ published = {}
    /\ open = [b \in Booking |-> {}]
    /\ winner = [b \in Booking |-> {}]

(* The search found the candidates S, which get a pop-up each.             *)
Publish(b, S) ==
    /\ b \notin published
    /\ published' = published \cup {b}
    /\ open' = [open EXCEPT ![b] = S]
    /\ UNCHANGED winner

(* First candidate to accept gets the booking; it is closed for the rest.  *)
Award(b, c) ==
    /\ c \in open[b]
    /\ winner' = [winner EXCEPT ![b] = {c}]
    /\ open' = [open EXCEPT ![b] = {}]
    /\ UNCHANGED published

(* The booking stops being offered and nobody gets it.                     *)
Withdraw(b) ==
    /\ open[b] # {}
    /\ open' = [open EXCEPT ![b] = {}]
    /\ UNCHANGED <<published, winner>>

Next ==
    \E b \in Booking :
        \/ \E S \in SUBSET Candidate : Publish(b, S)
        \/ \E c \in Candidate : Award(b, c)
        \/ Withdraw(b)

Spec == Init /\ [][Next]_vars
===============================================================================
