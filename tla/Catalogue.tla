------------------------------- MODULE Catalogue -------------------------------
(***************************************************************************)
(* What a business offers: its services, the categories they are filed     *)
(* under and the employees assigned to them (services/api/views.py,        *)
(* services/api/serializers.py, categories/api/views.py), and what the     *)
(* change or the end of the business does to them (business/services.py).  *)
(*                                                                         *)
(* A service has a category and perhaps a subcategory of it.  That of an   *)
(* individual needs one person.  A request reads and validates, then       *)
(* saves every column of the service; nothing is locked.  Categories and   *)
(* services are never deleted, they become inactive.                       *)
(***************************************************************************)
EXTENDS Integers

CONSTANTS
    Service,
    Category, Subcategory,
    CategoryOf,     \* of each subcategory
    ServiceWorker,  \* the requests in flight at a time
    Unfiled

ASSUME CatalogueAssumption ==
    /\ CategoryOf \in [Subcategory -> Category]
    /\ Unfiled \notin Service \cup Category \cup Subcategory

VARIABLES
    individual, \* the business is an individual's
    trading,    \* the profile of the business is active
    elsewhere,  \* the owner has another active business, not an individual's
    listed,     \* the active categories and subcategories
    service,    \* the Services
    assigned,   \* the services an employee is assigned to (ServiceEmployee)
    serviceJob, \* the request each worker is handling
    refiled,    \* history: the services of which only the category or only
                \* the subcategory was changed
    borrowed,   \* history: the services of an individual's business that the
                \* owner set to several persons through another business
    outgrown,   \* history: the services for several persons that the business
                \* had, or was about to store, when it became an individual's
    reopened    \* history: the services activated, or about to be stored,
                \* while or before the business was closed

serviceHistory == <<refiled, borrowed, outgrown, reopened>>
serviceVars == <<individual, trading, elsewhere, listed, service, assigned,
                 serviceJob, serviceHistory>>
-------------------------------------------------------------------------------
(* several: required_employees is more than one.                           *)
ServiceRow == [category    : Category \cup {Unfiled},
               subcategory : Subcategory \cup {Unfiled},
               several     : BOOLEAN,
               is_active   : BOOLEAN]

ServiceJob == [step    : {"idle", "insert", "save"},
               service : Service \cup {Unfiled},
               row     : ServiceRow]

NoService == [category |-> Unfiled, subcategory |-> Unfiled, several |-> FALSE,
              is_active |-> FALSE]
ServiceIdle == [step |-> "idle", service |-> Unfiled, row |-> NoService]

CatalogueTypeOK ==
    /\ individual \in BOOLEAN
    /\ trading \in BOOLEAN
    /\ elsewhere \in BOOLEAN
    /\ listed \subseteq Category \cup Subcategory
    /\ service \in [Service -> ServiceRow]
    /\ assigned \subseteq Service
    /\ serviceJob \in [ServiceWorker -> ServiceJob]
    /\ refiled \subseteq Service
    /\ borrowed \subseteq Service
    /\ outgrown \subseteq Service
    /\ reopened \subseteq Service

CatalogueInit ==
    /\ individual \in BOOLEAN
    /\ trading = TRUE
    /\ elsewhere = FALSE
    /\ listed = Category \cup Subcategory
    /\ service = [s \in Service |-> NoService]
    /\ assigned = {}
    /\ serviceJob = [w \in ServiceWorker |-> ServiceIdle]
    /\ refiled = {} /\ borrowed = {} /\ outgrown = {} /\ reopened = {}
-------------------------------------------------------------------------------
ServiceAt(w, step) == serviceJob[w].step = step
ServiceBegin(w, step, s, row) ==
    serviceJob' = [serviceJob EXCEPT ![w] =
        [step |-> step, service |-> s, row |-> row]]
ServiceReturn(w) == serviceJob' = [serviceJob EXCEPT ![w] = ServiceIdle]

Stored(s) == service[s].category # Unfiled
InFlight == {serviceJob[w].service : w \in ServiceWorker} \ {Unfiled}
Many(s) ==
    \/ service[s].several
    \/ \E w \in ServiceWorker : serviceJob[w].service = s /\ serviceJob[w].row.several

(* A category and a subcategory that are both submitted belong together.   *)
Together(c, d) == d # Unfiled => CategoryOf[d] = c
-------------------------------------------------------------------------------
(* Fault: the subcategory is not compared with the category.               *)
CreateReadApart(w, s, row) ==
    /\ ServiceAt(w, "idle")
    /\ trading
    /\ ~Stored(s) /\ s \notin InFlight
    /\ row.category \in listed
    /\ row.subcategory \in listed \cup {Unfiled}
    /\ individual => ~row.several
    /\ ServiceBegin(w, "insert", s, row)
    /\ UNCHANGED <<individual, trading, elsewhere, listed, service, assigned,
                   serviceHistory>>

(* ServiceCreateSerializer: an individual may not ask for several.         *)
CreateRead(w, s, row) ==
    /\ ServiceAt(w, "idle")
    /\ trading
    /\ ~Stored(s) /\ s \notin InFlight
    /\ row.category \in listed
    /\ row.subcategory \in listed \cup {Unfiled}
    /\ Together(row.category, row.subcategory)
    /\ individual => ~row.several
    /\ ServiceBegin(w, "insert", s, row)
    /\ UNCHANGED <<individual, trading, elsewhere, listed, service, assigned,
                   serviceHistory>>

CreateStore(w) ==
    /\ ServiceAt(w, "insert")
    /\ service' = [service EXCEPT ![serviceJob[w].service] = serviceJob[w].row]
    /\ ServiceReturn(w)
    /\ UNCHANGED <<individual, trading, elsewhere, listed, assigned, serviceHistory>>

(* Whether required_employees may be changed.  For an admin that depends   *)
(* on the service's own business; for the owner, who may have closed that, *)
(* on the business he has now, the newer one if there are two.             *)
SeveralAllowed ==
    \/ ~individual
    \/ elsewhere

(* A PATCH by the owner or by an admin: what it leaves out stays as it was *)
(* read.                                                                   *)
PatchRead(w, s, row) ==
    LET old == service[s]
        moved == row.category # old.category
        placed == row.subcategory # old.subcategory IN
    /\ ServiceAt(w, "idle")
    /\ Stored(s)
    /\ row.category # Unfiled
    /\ moved => row.category \in listed
    /\ placed => row.subcategory \in listed \cup {Unfiled}
    /\ moved /\ placed => Together(row.category, row.subcategory)
    /\ row.several # old.several => SeveralAllowed
    /\ ServiceBegin(w, "save", s, row)
    /\ refiled' = IF (moved \/ placed) /\ ~Together(row.category, row.subcategory)
                  THEN refiled \cup {s} ELSE refiled
    /\ borrowed' = IF row.several /\ ~old.several /\ individual
                   THEN borrowed \cup {s} ELSE borrowed
    /\ reopened' = IF row.is_active /\ ~trading THEN reopened \cup {s} ELSE reopened
    /\ UNCHANGED <<individual, trading, elsewhere, listed, service, assigned, outgrown>>

PatchSave(w) ==
    /\ ServiceAt(w, "save")
    /\ service' = [service EXCEPT ![serviceJob[w].service] = serviceJob[w].row]
    /\ ServiceReturn(w)
    /\ UNCHANGED <<individual, trading, elsewhere, listed, assigned, serviceHistory>>

(* ServiceDeleteAPIView: one column.                                       *)
Deactivate(s) ==
    /\ Stored(s)
    /\ service' = [service EXCEPT ![s].is_active = FALSE]
    /\ UNCHANGED <<individual, trading, elsewhere, listed, assigned, serviceJob,
                   serviceHistory>>

(* ServiceEmployeeCreateAPIView and ServiceEmployeeDeleteAPIView.          *)
Assign(s) ==
    /\ trading
    /\ service[s].is_active
    /\ s \notin assigned
    /\ assigned' = assigned \cup {s}
    /\ UNCHANGED <<individual, trading, elsewhere, listed, service, serviceJob,
                   serviceHistory>>

Unassign(s) ==
    /\ trading
    /\ ~individual
    /\ s \in assigned
    /\ assigned' = assigned \ {s}
    /\ UNCHANGED <<individual, trading, elsewhere, listed, service, serviceJob,
                   serviceHistory>>
-------------------------------------------------------------------------------
(* An admin switches a category or a subcategory on or off; those below    *)
(* and their services stay as they are.                                    *)
PatchCategory(c) ==
    /\ listed' = IF c \in listed THEN listed \ {c} ELSE listed \cup {c}
    /\ UNCHANGED <<individual, trading, elsewhere, service, assigned, serviceJob,
                   serviceHistory>>

(* The type of the business changes; its services stay as they are.        *)
ChangeType ==
    /\ individual' = ~individual
    /\ outgrown' = IF individual' THEN outgrown \cup {s \in Service : Many(s)}
                                  ELSE outgrown
    /\ UNCHANGED <<trading, elsewhere, listed, service, assigned, serviceJob,
                   refiled, borrowed, reopened>>

(* BusinessDeletionService.deactivate_related.                             *)
Close ==
    /\ trading
    /\ trading' = FALSE
    /\ service' = [s \in Service |-> [service[s] EXCEPT !.is_active = FALSE]]
    /\ reopened' = InFlight
    /\ UNCHANGED <<individual, elsewhere, listed, assigned, serviceJob, refiled,
                   borrowed, outgrown>>

(* An admin activates the profile again.                                   *)
Reopen ==
    /\ ~trading
    /\ trading' = TRUE
    /\ UNCHANGED <<individual, elsewhere, listed, service, assigned, serviceJob,
                   serviceHistory>>

(* The owner comes back with a company, gives it up or changes its type,   *)
(* or an admin activates one that he had closed.                           *)
OtherBusiness ==
    /\ elsewhere' = ~elsewhere
    /\ UNCHANGED <<individual, trading, listed, service, assigned, serviceJob,
                   serviceHistory>>

ServiceAbort(w) ==
    /\ ~ServiceAt(w, "idle")
    /\ ServiceReturn(w)
    /\ UNCHANGED <<individual, trading, elsewhere, listed, service, assigned,
                   serviceHistory>>

CatalogueNext ==
    \/ \E w \in ServiceWorker :
          \/ \E s \in Service, row \in ServiceRow :
                CreateRead(w, s, row) \/ PatchRead(w, s, row)
          \/ CreateStore(w)
          \/ PatchSave(w)
          \/ ServiceAbort(w)
    \/ \E s \in Service : Deactivate(s) \/ Assign(s) \/ Unassign(s)
    \/ \E c \in Category \cup Subcategory : PatchCategory(c)
    \/ ChangeType
    \/ Close
    \/ Reopen
    \/ OtherBusiness

CatalogueSpec == CatalogueInit /\ [][CatalogueNext]_serviceVars
-------------------------------------------------------------------------------
(* Properties.                                                             *)

(* A service is filed under a subcategory of its category, unless one of   *)
(* the two was changed alone; that of an individual needs one person,      *)
(* unless it is from before or the owner changed it through another        *)
(* business of his; and the services of a closed business are inactive,    *)
(* unless activated since or being saved at that time.                     *)
ServicesInOrder ==
    \A s \in Service :
        /\ Together(service[s].category, service[s].subcategory) \/ s \in refiled
        /\ individual /\ service[s].several => s \in outgrown \cup borrowed
        /\ ~trading /\ service[s].is_active => s \in reopened
===============================================================================
