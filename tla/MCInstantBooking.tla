--------------------------- MODULE MCInstantBooking ---------------------------
(* Instances of InstantBooking for TLC.                                    *)
EXTENDS InstantBooking, TLC

CONSTANTS b1, b2, c1, c2, p1, p2, w1, w2, w3

(* Two candidates, each a provider of its own.                             *)
TwoProviders == c1 :> p1 @@ c2 :> p2

WorkerSymmetry == Permutations(Worker)
===============================================================================
