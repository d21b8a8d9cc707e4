------------------------------ MODULE AddressBook ------------------------------
(***************************************************************************)
(* The addresses of users: CreateUserAddressAPIView,                       *)
(* UpdateUserAddressAPIView and DeleteUserAddressAPIView                   *)
(* (accounts/api/views.py) with AddressSerializer.                         *)
(*                                                                         *)
(* A user keeps a limited number of addresses, and one of them may be the  *)
(* default.  Requests of one user, from two devices, are several           *)
(* statements without a lock; an update saves every column as it was read. *)
(***************************************************************************)
EXTENDS Integers, FiniteSets

CONSTANTS
    Resident,       \* the users
    Place,          \* the rows that may be created
    MaxPlaces,      \* how many addresses a user may have
    PlaceWorker,    \* the requests in flight at a time
    Nowhere

ASSUME PlaceAssumption ==
    /\ Nowhere \notin Resident \cup Place
    /\ MaxPlaces \in Nat \ {0}

VARIABLES
    place,      \* the Addresses
    placeJob,   \* the request each worker is handling
    hurried     \* history: the users with two requests that store an address
                \* at a time

placeVars == <<place, placeJob, hurried>>

-------------------------------------------------------------------------------
PlaceRow == [user       : Resident \cup {Nowhere},
             is_default : BOOLEAN,
             booked     : BOOLEAN]      \* a booking refers to the address

PlaceJob == [step       : {"idle", "create", "insert", "update", "save"},
             user       : Resident \cup {Nowhere},
             place      : Place \cup {Nowhere},
             is_default : BOOLEAN]

NoPlace == [user |-> Nowhere, is_default |-> FALSE, booked |-> FALSE]
PlaceIdle ==
    [step |-> "idle", user |-> Nowhere, place |-> Nowhere, is_default |-> FALSE]

PlacesTypeOK ==
    /\ place \in [Place -> PlaceRow]
    /\ placeJob \in [PlaceWorker -> PlaceJob]
    /\ hurried \subseteq Resident

PlacesInit ==
    /\ place = [a \in Place |-> NoPlace]
    /\ placeJob = [w \in PlaceWorker |-> PlaceIdle]
    /\ hurried = {}

-------------------------------------------------------------------------------
PlaceAt(w, step) == placeJob[w].step = step
PlaceReturn(w) == placeJob' = [placeJob EXCEPT ![w] = PlaceIdle]

PlaceBegin(w, step, u, a, d) ==
    /\ PlaceAt(w, "idle")
    /\ placeJob' = [placeJob EXCEPT ![w] =
          [step |-> step, user |-> u, place |-> a, is_default |-> d]]
    /\ hurried' = IF \E v \in PlaceWorker \ {w} : placeJob[v].user = u
                  THEN hurried \cup {u} ELSE hurried
    /\ UNCHANGED place

PlacesOf(u) == {a \in Place : place[a].user = u}
DefaultsOf(u) == {a \in PlacesOf(u) : place[a].is_default}

(* The default of u, unless it is a itself, is one no longer.              *)
Undefault(u, a) ==
    place' = [b \in Place |-> IF b \in DefaultsOf(u) \ {a}
                              THEN [place[b] EXCEPT !.is_default = FALSE]
                              ELSE place[b]]

-------------------------------------------------------------------------------
CreatePlace(w, u, d) ==
    /\ Cardinality(PlacesOf(u)) < MaxPlaces
    /\ PlaceBegin(w, IF d THEN "create" ELSE "insert", u, Nowhere, d)

(* Fault: the default is unset only by an update.                          *)
CreateUndefaultNone(w) ==
    /\ PlaceAt(w, "create")
    /\ placeJob' = [placeJob EXCEPT ![w].step = "insert"]
    /\ UNCHANGED <<place, hurried>>

(* AddressSerializer.create.                                               *)
CreateUndefault(w) ==
    /\ PlaceAt(w, "create")
    /\ Undefault(placeJob[w].user, Nowhere)
    /\ placeJob' = [placeJob EXCEPT ![w].step = "insert"]
    /\ UNCHANGED hurried

CreateInsert(w, a) ==
    /\ PlaceAt(w, "insert")
    /\ place[a].user = Nowhere
    /\ \A v \in PlaceWorker : placeJob[v].place # a
    /\ place' = [place EXCEPT ![a] =
          [user |-> placeJob[w].user, is_default |-> placeJob[w].is_default,
           booked |-> FALSE]]
    /\ PlaceReturn(w)
    /\ UNCHANGED hurried

(* An update may leave is_default out: it is saved as it was read, and no  *)
(* other default is unset.                                                 *)
UpdatePlace(w, u, a, d) ==
    /\ a \in PlacesOf(u)
    /\ \/ PlaceBegin(w, IF d THEN "update" ELSE "save", u, a, d)
       \/ PlaceBegin(w, "save", u, a, place[a].is_default)

UpdateUndefault(w) ==
    /\ PlaceAt(w, "update")
    /\ Undefault(placeJob[w].user, placeJob[w].place)
    /\ placeJob' = [placeJob EXCEPT ![w].step = "save"]
    /\ UNCHANGED hurried

(* An address deleted meanwhile is inserted again.                         *)
UpdateSave(w) ==
    LET a == placeJob[w].place IN
    /\ PlaceAt(w, "save")
    /\ place' = [place EXCEPT ![a].user = placeJob[w].user,
                              ![a].is_default = placeJob[w].is_default]
    /\ PlaceReturn(w)
    /\ UNCHANGED hurried

DeletePlace(a) ==
    /\ place[a].user # Nowhere
    /\ ~place[a].booked
    /\ place' = [place EXCEPT ![a] = NoPlace]
    /\ UNCHANGED <<placeJob, hurried>>

(* A booking is made at the address, which from then on cannot be deleted. *)
BookPlace(a) ==
    /\ place[a].user # Nowhere
    /\ place' = [place EXCEPT ![a].booked = TRUE]
    /\ UNCHANGED <<placeJob, hurried>>

PlaceAbort(w) ==
    /\ ~PlaceAt(w, "idle")
    /\ PlaceReturn(w)
    /\ UNCHANGED <<place, hurried>>

PlacesNext ==
    \/ \E w \in PlaceWorker :
          \/ \E u \in Resident, d \in BOOLEAN :
                \/ CreatePlace(w, u, d)
                \/ \E a \in Place : UpdatePlace(w, u, a, d)
          \/ CreateUndefault(w)
          \/ \E a \in Place : CreateInsert(w, a)
          \/ UpdateUndefault(w)
          \/ UpdateSave(w)
          \/ PlaceAbort(w)
    \/ \E a \in Place : DeletePlace(a) \/ BookPlace(a)

PlacesSpec == PlacesInit /\ [][PlacesNext]_placeVars

-------------------------------------------------------------------------------
(* Properties.                                                             *)

(* "You can have a maximum of 5 addresses.", and one of them at most is    *)
(* the default, however they are added, changed, deleted and given up      *)
(* half-way, unless two requests of the user overlapped.                   *)
AddressesInOrder ==
    \A u \in Resident \ hurried :
        /\ Cardinality(PlacesOf(u)) <= MaxPlaces
        /\ Cardinality(DefaultsOf(u)) <= 1
===============================================================================
