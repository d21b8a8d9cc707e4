---------------------------- MODULE AccountDeletion ----------------------------
(***************************************************************************)
(* The deletion of accounts: accounts/services/account_deletion.py, the    *)
(* command process_account_deletions, the views that create and cancel a   *)
(* request, and business/services.py where a business goes with its owner. *)
(*                                                                         *)
(* A user asks for deletion; after a grace period the command, which cron  *)
(* runs again and again, deletes the account if nothing of the user is     *)
(* open, and otherwise puts the request on hold for an extension period.   *)
(* The user may cancel.                                                    *)
(*                                                                         *)
(* The command reads the time and all the requests when it starts and acts *)
(* on what it read; the requests of users read, then save.  Nothing is     *)
(* locked.  Only finalize_deletion checks again, in a transaction, before  *)
(* it writes; under READ COMMITTED others may commit in between.  Runs of  *)
(* the command are taken not to overlap.                                   *)
(*                                                                         *)
(* A deadline is the number of ticks left until it, which is all that      *)
(* anybody compares.                                                       *)
(***************************************************************************)
EXTENDS Integers

CONSTANTS
    User,
    BusinessUser,   \* the users with role BUSINESS and an active profile
    Booking,        \* the bookings that may be made
    Instant,        \* those of them that are instant bookings
    CustomerOf,     \* the user who books
    OwnerOf,        \* the owner of the business booked
    GracePeriod,    \* GRACE_PERIOD, in clock ticks
    ExtensionPeriod,    \* EXTENSION_PERIOD, in clock ticks
    Worker,         \* the requests of users in flight at a time
    None

ASSUME ConstantsAssumption ==
    /\ BusinessUser \subseteq User
    /\ Instant \subseteq Booking
    /\ CustomerOf \in [Booking -> User]
    /\ OwnerOf \in [Booking -> BusinessUser]
    /\ GracePeriod \in Nat \ {0}
    /\ ExtensionPeriod \in Nat \ {0}
    /\ None \notin User \cup Booking

VARIABLES
    request,    \* AccountDeletionRequest.status; NONE without a row
    grace,      \* ticks left until scheduled_deletion_at
    extension,  \* ticks left until extension_deadline
    deleted,    \* the users anonymised
    active,     \* the owners whose business profile is active
    booking,    \* ABSENT, OPEN, COMPLETED, or CANCELLED (also: rejected)
    sweep,      \* the run of the command
    job,        \* the request each worker is handling
    unseen      \* history: the bookings made after the account of customer
                \* or owner, or the business, had been found clear for the
                \* last time

rows == <<request, grace, extension, deleted, active, booking, unseen>>
vars == <<rows, sweep, job>>

-------------------------------------------------------------------------------
RequestStatus == {"NONE", "PENDING", "ON_HOLD", "CANCELLED", "COMPLETED"}
ActiveRequest == {"PENDING", "ON_HOLD"}

(* What the command does with a request, as far as the row it read tells.  *)
Verdict == {"skip", "due", "held", "heldExpired"}

(* u: the user whose request is processed; "skip": processed, or nothing   *)
(* to do.                                                                  *)
Sweep == [step    : {"idle", "next", "check", "finalize", "commit", "hold",
                     "extend", "cancel"},
          verdict : [User -> Verdict],
          u       : User \cup {None}]

Job == [step : {"idle", "insert", "reset", "cancel", "book", "switch"},
        u    : User \cup {None},
        b    : Booking \cup {None}]

NoVerdict == [u \in User |-> "skip"]
NoSweep == [step |-> "idle", verdict |-> NoVerdict, u |-> None]
Idle == [step |-> "idle", u |-> None, b |-> None]

TypeOK ==
    /\ request \in [User -> RequestStatus]
    /\ grace \in [User -> 0 .. GracePeriod]
    /\ extension \in [User -> 0 .. ExtensionPeriod]
    /\ deleted \subseteq User
    /\ active \subseteq BusinessUser
    /\ booking \in [Booking -> {"ABSENT", "OPEN", "COMPLETED", "CANCELLED"}]
    /\ sweep \in Sweep
    /\ job \in [Worker -> Job]
    /\ unseen \subseteq Booking

Init ==
    /\ request = [u \in User |-> "NONE"]
    /\ grace = [u \in User |-> 0]
    /\ extension = [u \in User |-> 0]
    /\ deleted = {}
    /\ active = BusinessUser
    /\ booking = [b \in Booking |-> "ABSENT"]
    /\ sweep = NoSweep
    /\ job = [w \in Worker |-> Idle]
    /\ unseen = {}

-------------------------------------------------------------------------------
(* has_incomplete_bookings: of a customer's bookings only the scheduled    *)
(* ones are looked at, and all but the completed ones block; of an active  *)
(* business both kinds block while they are open.                          *)
CustomerWaits(b) == b \notin Instant /\ booking[b] \notin {"ABSENT", "COMPLETED"}

(* has_blocking_bookings.                                                  *)
BusinessBlocked(u) == \E b \in Booking : OwnerOf[b] = u /\ booking[b] = "OPEN"

(* are_conditions_clear: payments never block.                             *)
Clear(u) ==
    /\ \A b \in Booking : CustomerOf[b] = u => ~CustomerWaits(b)
    /\ u \in active => ~BusinessBlocked(u)

-------------------------------------------------------------------------------
(* The command.                                                            *)

(* Fault: a request on hold is processed as if its extension never ended.  *)
SweepReadUnexpired ==
    /\ sweep.step = "idle"
    /\ sweep' = [NoSweep EXCEPT
          !.step = "next",
          !.verdict = [u \in User |->
              IF request[u] = "PENDING" /\ grace[u] = 0 THEN "due"
              ELSE IF request[u] = "ON_HOLD" THEN "held" ELSE "skip"]]
    /\ UNCHANGED <<rows, job>>

SweepRead ==
    /\ sweep.step = "idle"
    /\ sweep' = [NoSweep EXCEPT
          !.step = "next",
          !.verdict = [u \in User |->
              CASE request[u] = "PENDING" /\ grace[u] = 0 -> "due"
                [] request[u] = "ON_HOLD" /\ extension[u] > 0 -> "held"
                [] request[u] = "ON_HOLD" /\ extension[u] = 0 -> "heldExpired"
                [] OTHER -> "skip"]]
    /\ UNCHANGED <<rows, job>>

SweepNext(u) ==
    /\ sweep.step = "next"
    /\ sweep.verdict[u] # "skip"
    /\ sweep' = [sweep EXCEPT !.step = "check", !.u = u]
    /\ UNCHANGED <<rows, job>>

SweepEnd ==
    /\ sweep.step = "next"
    /\ sweep.verdict = NoVerdict
    /\ sweep' = NoSweep
    /\ UNCHANGED <<rows, job>>

SweepGoto(step) ==
    sweep' = IF step = "next"
             THEN [sweep EXCEPT !.step = step, !.verdict[sweep.u] = "skip",
                                !.u = None]
             ELSE [sweep EXCEPT !.step = step]

SweepCheck ==
    LET v == sweep.verdict[sweep.u] IN
    /\ sweep.step = "check"
    /\ SweepGoto(CASE v = "due" /\ Clear(sweep.u) -> "finalize"
                   [] v = "due" /\ ~Clear(sweep.u) -> "hold"
                   [] v # "due" /\ Clear(sweep.u) -> "extend"
                   [] v = "heldExpired" /\ ~Clear(sweep.u) -> "cancel"
                   [] OTHER -> "next")
    /\ UNCHANGED <<rows, job>>

(* Fault: the conditions are not checked again.                            *)
FinalizeUnchecked ==
    /\ sweep.step = "finalize"
    /\ SweepGoto("commit")
    /\ UNCHANGED <<rows, job>>

(* finalize_deletion's own check.                                          *)
FinalizeCheck ==
    /\ sweep.step = "finalize"
    /\ SweepGoto(IF Clear(sweep.u) THEN "commit" ELSE "next")
    /\ UNCHANGED <<rows, job>>

(* The rest of finalize_deletion: delete_business, archive, anonymise and  *)
(* complete the request, whatever its status has become.                   *)
FinalizeCommit ==
    /\ sweep.step = "commit"
    /\ deleted' = deleted \cup {sweep.u}
    /\ active' = active \ {sweep.u}
    /\ request' = [request EXCEPT ![sweep.u] = "COMPLETED"]
    /\ SweepGoto("next")
    /\ UNCHANGED <<grace, extension, booking, unseen, job>>

(* Fault: the status is left out of update_fields.                         *)
PutOnHoldUnsaved ==
    /\ sweep.step = "hold"
    /\ extension' = [extension EXCEPT ![sweep.u] = ExtensionPeriod]
    /\ SweepGoto("next")
    /\ UNCHANGED <<request, grace, deleted, active, booking, unseen, job>>

PutOnHold ==
    /\ sweep.step = "hold"
    /\ request' = [request EXCEPT ![sweep.u] = "ON_HOLD"]
    /\ extension' = [extension EXCEPT ![sweep.u] = ExtensionPeriod]
    /\ SweepGoto("next")
    /\ UNCHANGED <<grace, deleted, active, booking, unseen, job>>

(* Fault: the extension is added to what is left of the one before.        *)
MarkConditionsClearedAdded ==
    /\ sweep.step = "extend"
    /\ extension' = [extension EXCEPT ![sweep.u] = @ + ExtensionPeriod]
    /\ SweepGoto("next")
    /\ UNCHANGED <<request, grace, deleted, active, booking, unseen, job>>

MarkConditionsCleared ==
    /\ sweep.step = "extend"
    /\ extension' = [extension EXCEPT ![sweep.u] = ExtensionPeriod]
    /\ SweepGoto("next")
    /\ UNCHANGED <<request, grace, deleted, active, booking, unseen, job>>

SweepCancel ==
    /\ sweep.step = "cancel"
    /\ request' = [request EXCEPT ![sweep.u] = "CANCELLED"]
    /\ SweepGoto("next")
    /\ UNCHANGED <<grace, extension, deleted, active, booking, unseen, job>>

-------------------------------------------------------------------------------
(* The requests of users.  The account is looked at when the request is    *)
(* authenticated, which is its first step.                                 *)

Begin(w, step, u, b) ==
    /\ job[w] = Idle
    /\ u \notin deleted
    /\ job' = [job EXCEPT ![w] = [step |-> step, u |-> u, b |-> b]]
    /\ UNCHANGED <<rows, sweep>>

Return(w) == job' = [job EXCEPT ![w] = Idle]

(* create_request, once the code sent to the user has been verified: an    *)
(* active request is kept.                                                 *)
CreateRead(w, u) ==
    /\ request[u] \notin ActiveRequest
    /\ Begin(w, IF request[u] = "NONE" THEN "insert" ELSE "reset", u, None)

(* A new row, which fails when another request has inserted one, or the    *)
(* reset of the earlier one.                                               *)
CreateSave(w) ==
    LET u == job[w].u
        saved == job[w].step = "reset" \/ request[u] = "NONE" IN
    /\ job[w].step \in {"insert", "reset"}
    /\ request' = IF saved THEN [request EXCEPT ![u] = "PENDING"] ELSE request
    /\ grace' = IF saved THEN [grace EXCEPT ![u] = GracePeriod] ELSE grace
    /\ extension' = IF saved THEN [extension EXCEPT ![u] = 0] ELSE extension
    /\ Return(w)
    /\ UNCHANGED <<deleted, active, booking, unseen, sweep>>

CancelRead(w, u) ==
    /\ request[u] \in ActiveRequest
    /\ Begin(w, "cancel", u, None)

CancelSave(w) ==
    /\ job[w].step = "cancel"
    /\ request' = [request EXCEPT ![job[w].u] = "CANCELLED"]
    /\ Return(w)
    /\ UNCHANGED <<grace, extension, deleted, active, booking, unseen, sweep>>

(* A booking is made: create_booking, by the customer, or the acceptance   *)
(* of an instant booking, by the owner.  Both look for an active business  *)
(* before they write.                                                      *)
BookRead(w, b) ==
    /\ booking[b] = "ABSENT"
    /\ \A v \in Worker : job[v].b # b
    /\ OwnerOf[b] \in active
    /\ Begin(w, "book", IF b \in Instant THEN OwnerOf[b] ELSE CustomerOf[b], b)

BookSave(w) ==
    LET b == job[w].b
        parties == {CustomerOf[b], OwnerOf[b]} IN
    /\ job[w].step = "book"
    /\ booking' = [booking EXCEPT ![b] = "OPEN"]
    /\ unseen' = IF \/ parties \cap deleted # {}
                    \/ sweep.step = "commit" /\ sweep.u \in parties
                    \/ OwnerOf[b] \notin active
                    \/ \E v \in Worker : /\ job[v].step = "switch"
                                        /\ job[v].u = OwnerOf[b]
                 THEN unseen \cup {b} ELSE unseen
    /\ Return(w)
    /\ UNCHANGED <<request, grace, extension, deleted, active, sweep>>

(* The owner gives up the business and goes on as a customer, once a code  *)
(* has been verified: checked, then closed, without a lock.                *)
SwitchRead(w, u) ==
    /\ u \in active
    /\ ~BusinessBlocked(u)
    /\ Begin(w, "switch", u, None)

SwitchSave(w) ==
    /\ job[w].step = "switch"
    /\ active' = active \ {job[w].u}
    /\ Return(w)
    /\ UNCHANGED <<request, grace, extension, deleted, booking, unseen, sweep>>

(* The handlers of ScheduledBooking and InstantBooking bring it to an end. *)
BookingEnd(b, end) ==
    /\ booking[b] = "OPEN"
    /\ booking' = [booking EXCEPT ![b] = end]
    /\ UNCHANGED <<request, grace, extension, deleted, active, unseen, sweep, job>>

-------------------------------------------------------------------------------
Tick ==
    /\ grace' = [u \in User |-> IF grace[u] = 0 THEN 0 ELSE grace[u] - 1]
    /\ extension' = [u \in User |->
          IF extension[u] = 0 THEN 0 ELSE extension[u] - 1]
    /\ UNCHANGED <<request, deleted, active, booking, unseen, sweep, job>>

Command ==
    \/ SweepRead
    \/ \E u \in User : SweepNext(u)
    \/ SweepEnd
    \/ SweepCheck
    \/ FinalizeCheck
    \/ FinalizeCommit
    \/ PutOnHold
    \/ MarkConditionsCleared
    \/ SweepCancel

Advance(w) == CreateSave(w) \/ CancelSave(w) \/ BookSave(w) \/ SwitchSave(w)

Next ==
    \/ Command
    \/ Tick
    \/ \E w \in Worker :
        \/ \E u \in User : CreateRead(w, u) \/ CancelRead(w, u) \/ SwitchRead(w, u)
        \/ \E b \in Booking : BookRead(w, b)
        \/ Advance(w)
    \/ \E b \in Booking, end \in {"COMPLETED", "CANCELLED"} : BookingEnd(b, end)

Spec == Init /\ [][Next]_vars

(* Cron runs the command for ever and lets it run to its end, time passes, *)
(* and the server answers the requests it accepted.  No user is obliged to *)
(* do anything, and bookings may stay open for ever.                       *)
FairSpec ==
    /\ Spec
    /\ WF_vars(Command) /\ WF_vars(Tick)
    /\ \A w \in Worker : WF_vars(Advance(w))

-------------------------------------------------------------------------------
(* Properties.                                                             *)

(* No account is deleted, and no business closed with its owner or left    *)
(* behind by him, over an open booking: finalize_deletion's second check   *)
(* catches whatever was booked since the first, and an owner whose         *)
(* business the check passes over has given it up without open bookings.   *)
(* Only what is booked after the last check, by a request authenticated    *)
(* before, can be left open.                                               *)
Ended(b, u) ==
    /\ CustomerOf[b] = u => ~CustomerWaits(b)
    /\ OwnerOf[b] = u => booking[b] # "OPEN"

DeletedWasClear ==
    \A b \in Booking \ unseen :
        /\ \A u \in deleted : Ended(b, u)
        /\ OwnerOf[b] \notin active => booking[b] # "OPEN"

(* A request does not stay pending: the account is deleted, or the request *)
(* is put on hold or cancelled.                                            *)
PendingSettles == \A u \in User : request[u] = "PENDING" ~> request[u] # "PENDING"

(* "conditions remain unresolved after extension deadline": the request is *)
(* not held for ever.                                                      *)
BlockedHoldEnds ==
    \A u \in User : ~<>[](request[u] = "ON_HOLD" /\ ~Clear(u))

-------------------------------------------------------------------------------
(* A claim of the test plan that the code does not keep.                   *)

(* "conditions clear after account enters ON_HOLD": the account "becomes   *)
(* eligible for deletion after required waiting period".                   *)
ClearedHoldEnds ==
    \A u \in User : ~<>[](request[u] = "ON_HOLD" /\ Clear(u))
===============================================================================
