-------------------------------- MODULE Staff --------------------------------
(***************************************************************************)
(* The employees and the working schedules of a business: the Employee and *)
(* EmployeeWorkingSchedule views and serializers (business/api/views.py,   *)
(* business/api/serializers.py), and what granting another type of         *)
(* business does to them.                                                  *)
(*                                                                         *)
(* The owner of an individual business works himself; in a company the     *)
(* employees do.  A provider has a schedule for a slot (a day of the week  *)
(* and a part of the day) once.  The database does not see to that: its    *)
(* constraints are conditional, which MySQL ignores, and the views look    *)
(* before they insert, without a lock.                                     *)
(***************************************************************************)
EXTENDS Integers, FiniteSets

CONSTANTS
    Employee,
    Boss,           \* the owner
    Slot,
    MaxSchedule,    \* bound of the model: the schedules ever created
    StaffWorker,    \* the requests in flight at a time
    Nobody

Provider == Employee \cup {Boss}
Schedule == 1 .. MaxSchedule

ASSUME StaffAssumption ==
    /\ Boss \notin Employee
    /\ Nobody \notin Provider \cup Slot
    /\ MaxSchedule \in Nat

VARIABLES
    solo,       \* the business is an individual's
    employee,   \* the Employees
    schedule,   \* the EmployeeWorkingSchedules
    staffJob,   \* the request each worker is handling
    rushed      \* history: the providers with two requests about their
                \* schedules at a time

staffVars == <<solo, employee, schedule, staffJob, rushed>>
-------------------------------------------------------------------------------
ScheduleRow == [provider : Provider \cup {Nobody},
                slot     : Slot \cup {Nobody},
                active   : BOOLEAN]

(* row: the schedule that is updated, as it will be saved; slots: those to *)
(* be filled.                                                              *)
StaffJob == [step     : {"idle", "member", "insert", "apply", "filling", "save"},
             provider : Provider \cup {Nobody},
             active   : BOOLEAN,
             number   : Schedule \cup {0},
             row      : ScheduleRow,
             slots    : SUBSET Slot]

NoSchedule == [provider |-> Nobody, slot |-> Nobody, active |-> FALSE]
StaffIdle == [step |-> "idle", provider |-> Nobody, active |-> FALSE,
              number |-> 0, row |-> NoSchedule, slots |-> {}]

StaffTypeOK ==
    /\ solo \in BOOLEAN
    /\ employee \in [Employee -> {"none", "active", "inactive"}]
    /\ schedule \in [Schedule -> ScheduleRow]
    /\ staffJob \in [StaffWorker -> StaffJob]
    /\ rushed \subseteq Provider

StaffInit ==
    /\ solo \in BOOLEAN
    /\ employee = [e \in Employee |-> "none"]
    /\ schedule = [n \in Schedule |-> NoSchedule]
    /\ staffJob = [w \in StaffWorker |-> StaffIdle]
    /\ rushed = {}
-------------------------------------------------------------------------------
StaffAt(w, step) == staffJob[w].step = step
StaffBegin(w, job) == staffJob' = [staffJob EXCEPT ![w] = job]
StaffReturn(w) == staffJob' = [staffJob EXCEPT ![w] = StaffIdle]

(* Another request about the schedules of p.                               *)
Rush(w, p) ==
    rushed' = IF \E v \in StaffWorker \ {w} :
                     staffJob[v].provider = p /\ staffJob[v].step # "member"
              THEN rushed \cup {p} ELSE rushed

(* Who may be given a schedule: the owner, or an active employee.          *)
MayWork(p) == IF solo THEN p = Boss ELSE p \in Employee /\ employee[p] = "active"

SchedulesAt(p, s) ==
    {n \in Schedule : schedule[n].provider = p /\ schedule[n].slot = s}

ActiveAt(p, s) == {n \in SchedulesAt(p, s) : schedule[n].active}

Free(n) == /\ schedule[n].provider = Nobody
           /\ \A w \in StaffWorker : staffJob[w].number # n
-------------------------------------------------------------------------------
(* Employees.  Two of a business cannot have the same phone.               *)
EmployeeCreate(e, active) ==
    /\ ~solo
    /\ employee[e] = "none"
    /\ employee' = [employee EXCEPT ![e] = IF active THEN "active" ELSE "inactive"]
    /\ UNCHANGED <<solo, schedule, staffJob, rushed>>

EmployeeRead(w, e) ==
    /\ ~solo
    /\ StaffAt(w, "idle")
    /\ employee[e] # "none"
    /\ StaffBegin(w, [StaffIdle EXCEPT !.step = "member", !.provider = e,
                                       !.active = employee[e] = "active"])
    /\ UNCHANGED <<solo, employee, schedule, rushed>>

(* Every column is saved, is_active as it was read unless it is given.     *)
EmployeeUpdate(w, active) ==
    /\ StaffAt(w, "member")
    /\ active \in {staffJob[w].active} \cup BOOLEAN
    /\ employee' = [employee EXCEPT ![staffJob[w].provider] =
          IF active THEN "active" ELSE "inactive"]
    /\ StaffReturn(w)
    /\ UNCHANGED <<solo, schedule, rushed>>

(* An employee with open bookings is refused, which here is StaffAbort.    *)
EmployeeDelete(w) ==
    /\ StaffAt(w, "member")
    /\ employee' = [employee EXCEPT ![staffJob[w].provider] = "inactive"]
    /\ StaffReturn(w)
    /\ UNCHANGED <<solo, schedule, rushed>>
-------------------------------------------------------------------------------
(* Schedules.  The serializer finds any schedule of the slot, active or    *)
(* not.                                                                    *)
ScheduleCheck(w, p, s) ==
    /\ StaffAt(w, "idle")
    /\ MayWork(p)
    /\ SchedulesAt(p, s) = {}
    /\ StaffBegin(w, [StaffIdle EXCEPT !.step = "insert", !.provider = p,
                                       !.slots = {s}])
    /\ Rush(w, p)
    /\ UNCHANGED <<solo, employee, schedule>>

ScheduleInsert(w, n, active) ==
    /\ StaffAt(w, "insert")
    /\ Free(n)
    /\ \A m \in Schedule : Free(m) => n <= m
    /\ \E s \in staffJob[w].slots :
          schedule' = [schedule EXCEPT ![n] =
              [provider |-> staffJob[w].provider, slot |-> s, active |-> active]]
    /\ StaffReturn(w)
    /\ UNCHANGED <<solo, employee, rushed>>

(* Applying the schedule of one day to others.  Here only active ones of   *)
(* the target are looked for.                                              *)
ApplyRead(w, p, s, targets) ==
    /\ StaffAt(w, "idle")
    /\ MayWork(p)
    /\ ActiveAt(p, s) # {}
    /\ targets # {} /\ s \notin targets
    /\ StaffBegin(w, [StaffIdle EXCEPT !.step = "apply", !.provider = p,
                                       !.slots = targets])
    /\ Rush(w, p)
    /\ UNCHANGED <<solo, employee, schedule>>

ApplyLook(w) ==
    /\ StaffAt(w, "apply")
    /\ staffJob' = [staffJob EXCEPT ![w].step = "filling", ![w].slots =
          {s \in @ : ActiveAt(staffJob[w].provider, s) = {}}]
    /\ UNCHANGED <<solo, employee, schedule, rushed>>

(* All in one transaction.                                                 *)
ApplyFill(w) ==
    LET p == staffJob[w].provider
        slots == staffJob[w].slots IN
    /\ StaffAt(w, "filling")
    /\ \E into \in [slots -> {n \in Schedule : Free(n)}] :
          /\ \A s, t \in slots : s # t => into[s] # into[t]
          /\ schedule' = [n \in Schedule |->
                IF \E s \in slots : into[s] = n
                THEN [provider |-> p, active |-> TRUE,
                      slot |-> CHOOSE s \in slots : into[s] = n]
                ELSE schedule[n]]
    /\ StaffReturn(w)
    /\ UNCHANGED <<solo, employee, rushed>>

(* Fault: looked for only if the schedule moves to another slot.           *)
SlotTakenMoved(n, s) ==
    schedule[n].slot # s /\ SchedulesAt(schedule[n].provider, s) \ {n} # {}

(* EmployeeWorkingScheduleSerializer.validate: another one of that slot.   *)
SlotTaken(n, s) == SchedulesAt(schedule[n].provider, s) \ {n} # {}

ScheduleRead(w, n, s, active) ==
    /\ StaffAt(w, "idle")
    /\ schedule[n].provider # Nobody
    /\ ~SlotTaken(n, s)
    /\ StaffBegin(w, [StaffIdle EXCEPT
          !.step = "save", !.provider = schedule[n].provider, !.number = n,
          !.row = [schedule[n] EXCEPT !.slot = s, !.active = active]])
    /\ Rush(w, schedule[n].provider)
    /\ UNCHANGED <<solo, employee, schedule>>

(* Every column; a schedule deleted meanwhile is inserted again.           *)
ScheduleSave(w) ==
    /\ StaffAt(w, "save")
    /\ schedule' = [schedule EXCEPT ![staffJob[w].number] = staffJob[w].row]
    /\ StaffReturn(w)
    /\ UNCHANGED <<solo, employee, rushed>>

ScheduleDelete(n) ==
    /\ schedule[n].provider # Nobody
    /\ schedule' = [schedule EXCEPT ![n] = NoSchedule]
    /\ UNCHANGED <<solo, employee, staffJob, rushed>>
-------------------------------------------------------------------------------
(* Another type of business is granted.  Between companies the employees   *)
(* and their schedules may be given up; otherwise nobody touches them.     *)
GiveUpStaff ==
    /\ ~solo
    /\ employee' = [e \in Employee |->
          IF employee[e] = "active" THEN "inactive" ELSE employee[e]]
    /\ schedule' = [n \in Schedule |-> [schedule[n] EXCEPT !.active = FALSE]]
    /\ UNCHANGED <<solo, staffJob, rushed>>

ChangeSolo ==
    /\ solo' = ~solo
    /\ UNCHANGED <<employee, schedule, staffJob, rushed>>

(* The request is refused or fails, or its worker is killed.               *)
StaffAbort(w) ==
    /\ ~StaffAt(w, "idle")
    /\ StaffReturn(w)
    /\ UNCHANGED <<solo, employee, schedule, rushed>>

StaffNext ==
    \/ \E e \in Employee, active \in BOOLEAN : EmployeeCreate(e, active)
    \/ \E w \in StaffWorker :
          \/ \E e \in Employee : EmployeeRead(w, e)
          \/ \E active \in BOOLEAN : EmployeeUpdate(w, active)
          \/ EmployeeDelete(w)
          \/ \E p \in Provider, s \in Slot :
                \/ ScheduleCheck(w, p, s)
                \/ \E targets \in SUBSET Slot : ApplyRead(w, p, s, targets)
          \/ \E n \in Schedule, active \in BOOLEAN :
                \/ ScheduleInsert(w, n, active)
                \/ \E s \in Slot : ScheduleRead(w, n, s, active)
          \/ ApplyLook(w)
          \/ ApplyFill(w)
          \/ ScheduleSave(w)
          \/ StaffAbort(w)
    \/ \E n \in Schedule : ScheduleDelete(n)
    \/ GiveUpStaff
    \/ ChangeSolo

StaffSpec == StaffInit /\ [][StaffNext]_staffVars
-------------------------------------------------------------------------------
(* Properties.                                                             *)

(* A provider works once at a time: of the schedules for a slot one is     *)
(* active, however they were added, copied, moved, given up and taken up   *)
(* again, unless two requests about the provider overlapped.               *)
OneSchedule ==
    \A p \in Provider \ rushed : \A s \in Slot : Cardinality(ActiveAt(p, s)) <= 1
===============================================================================
