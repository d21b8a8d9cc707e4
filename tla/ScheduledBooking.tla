--------------------------- MODULE ScheduledBooking ---------------------------
(***************************************************************************)
(* The scheduled booking: bookings/services.py, bookings/api/views.py.     *)
(*                                                                         *)
(* A customer books a slot; the booking gets the first free provider of    *)
(* the business.  The business accepts, rejects, staffs, starts and        *)
(* completes it; the customer may cancel.                                  *)
(*                                                                         *)
(* Every HTTP request is a worker whose steps are its database statements: *)
(*   - create_booking locks the schedule rows of all the providers it may  *)
(*     choose from, in the order of their keys, looks for a free one, and  *)
(*     inserts the booking, all in one transaction.  Its query joins the   *)
(*     row of the employee or owner (select_related), and FOR UPDATE locks *)
(*     the joined rows too, so a lock here is a lock on the provider,      *)
(*     whatever the slot;                                                  *)
(*   - a status transition reads the row, checks it in memory and saves it *)
(*     later without a lock, so the name of its step is what it will save; *)
(*   - assigning an employee locks the row of the booking and the joined   *)
(*     row of the business; reassigning locks nothing.                     *)
(*                                                                         *)
(* One business.  A slot is a date and a time window; windows are set      *)
(* freely by each business and may overlap.                                *)
(***************************************************************************)
EXTENDS Integers, Sequences

CONSTANTS
    Booking,    \* the bookings that customers may ask for
    Slot,       \* the (date, MORNING | AFTERNOON | EVENING) windows
    Provider,   \* the employees, or the owner
    Key,        \* the primary key of a provider's schedule row of a slot
    MaxKey,     \* the largest value of an auto-increment key
    SlotOf,     \* the slot asked for
    Eligible,   \* the providers who offer the service asked for
    Overlap,    \* the pairs of slots whose services overlap in time
    Individual, \* the business is its owner, without employees
    Required,   \* Service.required_employees
    Worker,     \* the requests in flight at a time
    None        \* SQL NULL

ASSUME ConstantsAssumption ==
    /\ MaxKey \in Nat
    /\ Key \in [Slot -> [Provider -> 1 .. MaxKey]]
    /\ \A s \in Slot, p, q \in Provider : Key[s][p] = Key[s][q] => p = q
    /\ SlotOf \in [Booking -> Slot]
    /\ Eligible \in [Booking -> (SUBSET Provider) \ {{}}]
    /\ Overlap \subseteq Slot \X Slot
    /\ \A s \in Slot : <<s, s>> \in Overlap
    /\ \A s, t \in Slot : <<s, t>> \in Overlap => <<t, s>> \in Overlap
    /\ Individual \in BOOLEAN
    /\ Individual => \A p, q \in Provider : p = q
    /\ Required \in Nat \ {0}
    /\ None \notin Booking \cup Provider

VARIABLES
    status,     \* Booking.status; ABSENT before the row exists
    primary,    \* Booking.employee
    crew,       \* the BookingEmployee rows of each booking, by primary key
    job,        \* the request each worker is handling
    revived     \* history, of an individual business: the bookings that a
                \* request which had read an earlier status made active
                \* again when they were final

rows == <<status, primary, crew, revived>>
vars == <<rows, job>>

-------------------------------------------------------------------------------
Status == {"ABSENT", "PENDING", "CONFIRMED", "REJECTED", "CANCELLED",
           "IN_PROGRESS", "COMPLETED"}
Active == {"PENDING", "CONFIRMED", "IN_PROGRESS"}

(* Where a request is: the statement it executes next.                     *)
CreateStep == {"create", "createInsert"}
AssignStep == {"assign", "assignInsert"}
ReassignStep == {"reassign", "reassignSave", "reassignSync"}
SaveStep == {"accept", "reject", "cancel", "start", "complete"}
Step == {"idle", "startCheck", "verify"}
            \cup CreateStep \cup AssignStep \cup ReassignStep \cup SaveStep

(* held: the providers locked; e: the employee chosen; i: the assignment   *)
(* row read; seen: Booking.employee as it was read.                        *)
Job == [step : Step,
        b    : Booking \cup {None},
        held : SUBSET Provider,
        e    : Provider \cup {None},
        i    : Nat,
        seen : Provider \cup {None}]

Idle == [step |-> "idle", b |-> None, held |-> {}, e |-> None, i |-> 0,
         seen |-> None]

TypeOK ==
    /\ status \in [Booking -> Status]
    /\ primary \in [Booking -> Provider \cup {None}]
    /\ crew \in [Booking -> Seq(Provider)]
    /\ Individual => \A b \in Booking : primary[b] = None /\ crew[b] = <<>>
    /\ job \in [Worker -> Job]
    /\ revived \subseteq Booking

Init ==
    /\ status = [b \in Booking |-> "ABSENT"]
    /\ primary = [b \in Booking |-> None]
    /\ crew = [b \in Booking |-> <<>>]
    /\ job = [w \in Worker |-> Idle]
    /\ revived = {}

-------------------------------------------------------------------------------
At(w, step) == job[w].step = step
Begin(w, step, b) ==
    job' = [job EXCEPT ![w] = [Idle EXCEPT !.step = step, !.b = b]]
Goto(w, step) == job' = [job EXCEPT ![w].step = step]
Return(w) == job' = [job EXCEPT ![w] = Idle]

Crew(b) == {crew[b][i] : i \in DOMAIN crew[b]}

(* An individual business has no BookingEmployee rows: all its bookings    *)
(* are the owner's.                                                        *)
ServedBy(b) == IF Individual THEN Provider ELSE Crew(b)

Overlapping(a, b) == <<SlotOf[a], SlotOf[b]>> \in Overlap

Free(p, b) ==
    \A a \in Booking \ {b} :
        status[a] \in Active /\ Overlapping(a, b) => p \notin ServedBy(a)

(* has_active_service_in_progress, for the scheduled bookings.             *)
Busy(b) ==
    \E a \in Booking \ {b} :
        status[a] = "IN_PROGRESS" /\ ServedBy(a) \cap ServedBy(b) # {}

(* Row locks, read off the steps of the requests.                          *)
RowLocked(p) == \E w \in Worker : p \in job[w].held

(* Fault: select_for_update(of=("self",)), only the schedule row is locked. *)
ScheduleLocked(w, p) ==
    \E v \in Worker : p \in job[v].held /\ SlotOf[job[v].b] = SlotOf[job[w].b]

BookingLocked(b) ==
    \E w \in Worker : job[w].step \in AssignStep /\ job[w].b = b

BusinessLocked == \E w \in Worker : job[w].step \in AssignStep

-------------------------------------------------------------------------------
(* create_booking.                                                         *)

(* order_by("pk"): p comes before q in the slot of b.                      *)
Before(b, p, q) == Key[SlotOf[b]][p] <= Key[SlotOf[b]][q]

(* Fault: rows are locked in any order.                                    *)
NextRowAny(w, p) == p \in Eligible[job[w].b] \ job[w].held

(* The next row that the ordered select_for_update locks.                  *)
NextRow(w, p) ==
    /\ p \in Eligible[job[w].b] \ job[w].held
    /\ \A q \in Eligible[job[w].b] \ job[w].held : Before(job[w].b, p, q)

CreateBegin(w, b) ==
    /\ At(w, "idle")
    /\ status[b] = "ABSENT"
    /\ \A v \in Worker : job[v].b # b
    /\ Begin(w, "create", b)
    /\ UNCHANGED rows

(* Fault: only the schedule row is locked, not the provider.               *)
CreateLockSchedule(w) ==
    /\ At(w, "create")
    /\ \E p \in Provider :
        /\ NextRow(w, p)
        /\ ~ScheduleLocked(w, p)
        /\ job' = [job EXCEPT ![w].held = @ \cup {p}]
    /\ UNCHANGED rows

CreateLockRow(w) ==
    /\ At(w, "create")
    /\ \E p \in Provider :
        /\ NextRow(w, p)
        /\ ~RowLocked(p)
        /\ job' = [job EXCEPT ![w].held = @ \cup {p}]
    /\ UNCHANGED rows

(* All rows are locked: take the first provider who is free.               *)
CreateCheck(w) ==
    LET b == job[w].b IN
    /\ At(w, "create")
    /\ job[w].held = Eligible[b]
    /\ \E p \in Eligible[b] :
        /\ Free(p, b)
        /\ \A q \in Eligible[b] : Free(q, b) => Before(b, p, q)
        /\ job' = [job EXCEPT ![w].step = "createInsert", ![w].e = p]
    /\ UNCHANGED rows

CreateRefuse(w) ==
    LET b == job[w].b IN
    /\ At(w, "create")
    /\ job[w].held = Eligible[b]
    /\ \A p \in Eligible[b] : ~Free(p, b)
    /\ Return(w)
    /\ UNCHANGED rows

(* Fault: the owner is inserted as if an employee.                         *)
CreateInsertRow(w) ==
    LET b == job[w].b
        e == job[w].e IN
    /\ At(w, "createInsert")
    /\ status' = [status EXCEPT ![b] = "PENDING"]
    /\ primary' = [primary EXCEPT ![b] = e]
    /\ crew' = [crew EXCEPT ![b] = <<e>>]
    /\ Return(w)
    /\ UNCHANGED revived

CreateInsert(w) ==
    LET b == job[w].b
        e == job[w].e IN
    /\ At(w, "createInsert")
    /\ status' = [status EXCEPT ![b] = "PENDING"]
    /\ primary' = [primary EXCEPT ![b] = IF Individual THEN None ELSE e]
    /\ crew' = [crew EXCEPT ![b] = IF Individual THEN <<>> ELSE <<e>>]
    /\ Return(w)
    /\ UNCHANGED revived

-------------------------------------------------------------------------------
(* Status transitions: read and check, then save.                          *)

(* The statuses from which each transition starts.  "startCheck" is the    *)
(* start before it has looked for other work in progress, "verify" the     *)
(* completion before the customer's code is checked.                       *)
From == [accept     |-> {"PENDING"},
         reject     |-> {"PENDING"},
         cancel     |-> {"PENDING", "CONFIRMED"},
         startCheck |-> {"CONFIRMED"},
         verify     |-> {"IN_PROGRESS"}]

To == [accept   |-> "CONFIRMED",
       reject   |-> "REJECTED",
       cancel   |-> "CANCELLED",
       start    |-> "IN_PROGRESS",
       complete |-> "COMPLETED"]

TransitionRead(w, b, move) ==
    /\ At(w, "idle")
    /\ status[b] \in From[move]
    /\ Begin(w, move, b)
    /\ UNCHANGED rows

StartCheck(w) ==
    /\ At(w, "startCheck")
    /\ ~Busy(job[w].b)
    /\ Goto(w, "start")
    /\ UNCHANGED rows

(* The provider is on another scheduled booking, or on an instant one,     *)
(* which this module does not show.                                        *)
StartRefuse(w) ==
    /\ At(w, "startCheck")
    /\ Return(w)
    /\ UNCHANGED rows

(* The code is right or it is not: OneTimeCode says when.                  *)
VerifyAccept(w) ==
    /\ At(w, "verify")
    /\ Goto(w, "complete")
    /\ UNCHANGED rows

VerifyRefuse(w) ==
    /\ At(w, "verify")
    /\ Return(w)
    /\ UNCHANGED rows

TransitionSave(w) ==
    LET b == job[w].b
        to == To[job[w].step] IN
    /\ job[w].step \in SaveStep
    /\ ~BookingLocked(b)
    /\ status' = [status EXCEPT ![b] = to]
    /\ revived' = IF Individual /\ to \in Active /\ status[b] \notin Active
                  THEN revived \cup {b} ELSE revived
    /\ Return(w)
    /\ UNCHANGED <<primary, crew>>

-------------------------------------------------------------------------------
(* Assign one more employee: the booking and its business are locked while *)
(* the rows are counted and the new one is inserted.  No status is looked  *)
(* at, and no other booking of the employee.                               *)

(* Fault: no row is locked.                                                *)
AssignRead(w, b, e) ==
    /\ At(w, "idle")
    /\ ~Individual
    /\ status[b] # "ABSENT"
    /\ e \in Eligible[b]
    /\ job' = [job EXCEPT ![w] = [Idle EXCEPT !.step = "assign", !.b = b,
                                              !.e = e]]
    /\ UNCHANGED rows

AssignLock(w, b, e) ==
    /\ At(w, "idle")
    /\ ~Individual
    /\ status[b] # "ABSENT"
    /\ e \in Eligible[b]
    /\ ~BusinessLocked
    /\ job' = [job EXCEPT ![w] = [Idle EXCEPT !.step = "assign", !.b = b,
                                              !.e = e]]
    /\ UNCHANGED rows

AssignCheck(w) ==
    /\ At(w, "assign")
    /\ Len(crew[job[w].b]) < Required
    /\ job[w].e \notin Crew(job[w].b)
    /\ Goto(w, "assignInsert")
    /\ UNCHANGED rows

AssignRefuse(w) ==
    /\ At(w, "assign")
    /\ Len(crew[job[w].b]) >= Required \/ job[w].e \in Crew(job[w].b)
    /\ Return(w)
    /\ UNCHANGED rows

(* unique_booking_employee refuses a second row of one employee.           *)
AssignInsert(w) ==
    LET b == job[w].b IN
    /\ At(w, "assignInsert")
    /\ crew' = [crew EXCEPT ![b] = IF job[w].e \in Crew(b)
                                   THEN @ ELSE Append(@, job[w].e)]
    /\ Return(w)
    /\ UNCHANGED <<status, primary, revived>>

-------------------------------------------------------------------------------
(* Replace one employee by another, and keep Booking.employee in sync when *)
(* it named the old one.  No lock, no transaction.                         *)

ReassignRead(w, b) ==
    /\ At(w, "idle")
    /\ ~Individual
    /\ status[b] # "ABSENT"
    /\ job' = [job EXCEPT ![w] = [Idle EXCEPT !.step = "reassign", !.b = b,
                                              !.seen = primary[b]]]
    /\ UNCHANGED rows

ReassignCheck(w, i, e) ==
    LET b == job[w].b IN
    /\ At(w, "reassign")
    /\ i \in DOMAIN crew[b]
    /\ e \in Eligible[b] \ Crew(b)
    /\ job' = [job EXCEPT ![w].step = "reassignSave", ![w].i = i, ![w].e = e,
                          ![w].seen = IF @ = crew[b][i] THEN @ ELSE None]
    /\ UNCHANGED rows

(* The old employee is not assigned, or the new one is or may not be.      *)
ReassignRefuse(w) ==
    /\ At(w, "reassign")
    /\ Return(w)
    /\ UNCHANGED rows

ReassignSave(w) ==
    LET b == job[w].b IN
    /\ At(w, "reassignSave")
    /\ job[w].e \notin Crew(b)
    /\ crew' = [crew EXCEPT ![b][job[w].i] = job[w].e]
    /\ IF job[w].seen = None THEN Return(w) ELSE Goto(w, "reassignSync")
    /\ UNCHANGED <<status, primary, revived>>

(* Another request assigned the new employee first: IntegrityError.        *)
ReassignConflict(w) ==
    /\ At(w, "reassignSave")
    /\ job[w].e \in Crew(job[w].b)
    /\ Return(w)
    /\ UNCHANGED rows

ReassignSync(w) ==
    /\ At(w, "reassignSync")
    /\ ~BookingLocked(job[w].b)
    /\ primary' = [primary EXCEPT ![job[w].b] = job[w].e]
    /\ Return(w)
    /\ UNCHANGED <<status, crew, revived>>

-------------------------------------------------------------------------------
(* The worker is killed or loses its connection: an open transaction is    *)
(* rolled back, what was committed stays.                                  *)
Crash(w) ==
    /\ ~At(w, "idle")
    /\ Return(w)
    /\ UNCHANGED rows

Arrive(w, b) ==
    \/ CreateBegin(w, b)
    \/ \E move \in DOMAIN From : TransitionRead(w, b, move)
    \/ \E e \in Provider : AssignLock(w, b, e)
    \/ ReassignRead(w, b)

Advance(w) ==
    \/ CreateLockRow(w)
    \/ CreateCheck(w)
    \/ CreateRefuse(w)
    \/ CreateInsert(w)
    \/ StartCheck(w)
    \/ StartRefuse(w)
    \/ VerifyAccept(w)
    \/ VerifyRefuse(w)
    \/ TransitionSave(w)
    \/ AssignCheck(w)
    \/ AssignRefuse(w)
    \/ AssignInsert(w)
    \/ \E i \in 1 .. Required, e \in Provider : ReassignCheck(w, i, e)
    \/ ReassignRefuse(w)
    \/ ReassignSave(w)
    \/ ReassignConflict(w)
    \/ ReassignSync(w)

Next ==
    \E w \in Worker :
        \/ \E b \in Booking : Arrive(w, b)
        \/ Advance(w)
        \/ Crash(w)

Spec == Init /\ [][Next]_vars

-------------------------------------------------------------------------------
(* Properties that hold whatever requests race.                            *)

(* create_booking's locks work: an owner has two active bookings for       *)
(* overlapping time only if one of them was over and was brought back by a *)
(* transition that had read it before.                                     *)
ClashOnlyRevived ==
    Individual =>
        \A a, b \in Booking :
            /\ status[a] \in Active /\ status[b] \in Active
            /\ Overlapping(a, b)
            => a = b \/ a \in revived \/ b \in revived

(* create_bookings wait for one another in a circle only where the schedule *)
(* rows of two of their slots were entered in different orders of           *)
(* providers: those of one slot never do, whatever other slots there are,   *)
(* and a circle among several slots takes two that disagree.                *)
Waits(w, v) ==
    At(w, "create") /\ \E p \in Provider : NextRow(w, p) /\ p \in job[v].held

LockCycle(W) == W # {} /\ \A w \in W : \E v \in W \ {w} : Waits(w, v)

Agree(s, t) ==
    \A p, q \in Provider : Key[s][p] <= Key[s][q] <=> Key[t][p] <= Key[t][q]

CycleAcrossOrders ==
    \A W \in SUBSET Worker :
        LockCycle(W) =>
            \E w, v \in W : ~Agree(SlotOf[job[w].b], SlotOf[job[v].b])

(* At most required_employees rows, none of them twice the same employee,  *)
(* with assignments and reassignments of one booking racing.               *)
CrewWithinRequired ==
    \A b \in Booking :
        /\ Len(crew[b]) <= Required
        /\ \A i, j \in DOMAIN crew[b] : crew[b][i] = crew[b][j] => i = j

-------------------------------------------------------------------------------
(* A claim of the code that does not hold.                                 *)

(* No provider has two active bookings at the same time.                   *)
NoDoubleBooking ==
    \A a, b \in Booking :
        /\ status[a] \in Active /\ status[b] \in Active
        /\ Overlapping(a, b)
        /\ ServedBy(a) \cap ServedBy(b) # {}
        => a = b
===============================================================================
