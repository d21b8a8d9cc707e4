----------------------------- MODULE MCBusinesses -----------------------------
(* Instances of Business, Staff, Catalogue and Storefront for TLC.  They   *)
(* share no variable: a behaviour is one of one of them, chosen at the     *)
(* start.                                                                  *)
EXTENDS Business, Staff, Catalogue, Storefront, TLC

CONSTANTS w1, w2,               \* the workers
          u1, emp, boss, s1, s2,    \* a user; an employee, an owner, slots
          v1, c1, c2, d1,       \* a service; categories, a subcategory
          g1, g2, g3, k1        \* pictures, a booking

VARIABLE part

vars == <<businessVars, staffVars, serviceVars, shopVars, part>>

-------------------------------------------------------------------------------
MCCategoryOf == d1 :> c1

-------------------------------------------------------------------------------
(* What a property no longer covers is not explored further.  Rows are     *)
(* shared out: two applications, two profiles and two requests to change   *)
(* the type occur, but not all at once.                                    *)
Bound ==
    /\ overridden \cup contested \cup torn = {}
    /\ Cardinality({i \in Application : application[i].status # "UNUSED"})
         + Cardinality({r \in Upgrade : upgrade[r].status # "UNUSED"})
         + Cardinality({b \in Profile_ : business[b].owner # NoTrader}) <= 4
    /\ rushed = {}
    /\ refiled \cup outgrown \cup borrowed = {}
    /\ ~jostled

Symmetry == Permutations({w1, w2})

-------------------------------------------------------------------------------
Init ==
    /\ BusinessInit
    /\ StaffInit
    /\ CatalogueInit
    /\ StorefrontInit
    /\ part \in {"business", "staff", "catalogue", "storefront"}
    /\ part # "staff" => solo
    /\ part # "catalogue" => individual

Next ==
    \/ /\ part = "business"
       /\ BusinessNext
       /\ UNCHANGED <<staffVars, serviceVars, shopVars, part>>
    \/ /\ part = "staff"
       /\ StaffNext
       /\ UNCHANGED <<businessVars, serviceVars, shopVars, part>>
    \/ /\ part = "catalogue"
       /\ CatalogueNext
       /\ UNCHANGED <<businessVars, staffVars, shopVars, part>>
    \/ /\ part = "storefront"
       /\ StorefrontNext
       /\ UNCHANGED <<businessVars, staffVars, serviceVars, part>>

Spec == Init /\ [][Next]_vars

(* Type correctness of the components: the rows and the requests in flight *)
(* are what the code can make of them.                                     *)
TypeOK ==
    /\ part = "business" => BusinessTypeOK
    /\ part = "staff" => StaffTypeOK
    /\ part = "catalogue" => CatalogueTypeOK
    /\ part = "storefront" => StorefrontTypeOK
===============================================================================
