---------------------------- MODULE InstantBooking ----------------------------
(***************************************************************************)
(* The instant booking: instant_bookings/api/views.py and the row classes  *)
(* of instant_bookings/models.py.                                          *)
(*                                                                         *)
(* A customer asks for a service now; the search publishes one pop-up per  *)
(* candidate (an offer row); the first provider to accept within the       *)
(* search window gets the booking, starts it, and completes it with the    *)
(* code e-mailed to the customer.  The customer may raise the tip while    *)
(* the search runs, and may cancel.                                        *)
(*                                                                         *)
(* Every HTTP request is a process.  Its steps are its database            *)
(* statements, which is where requests interleave:                         *)
(*   - Accept, Cancel and Retry run inside transaction.atomic and lock the *)
(*     rows they read (select_for_update).  Under READ COMMITTED, which    *)
(*     Django sets on MySQL, what they write becomes visible at commit.    *)
(*   - The customer and provider GETs that expire a search, Start,         *)
(*     Complete and CompleteVerify take no lock: each statement commits on *)
(*     its own and they act on the row as they read it, so a step name     *)
(*     also says which check the stale row has passed.  Their UPDATEs wait *)
(*     for the row locks of the others.                                    *)
(* A row lock is not a variable: a request holds the locks that its step   *)
(* says it holds.                                                          *)
(***************************************************************************)
EXTENDS Integers

CONSTANTS
    Booking,            \* the instant bookings that may be created
    Candidate,          \* (service, business, employee): one pop-up each
    Provider,           \* who does the work: an employee, or the owner of
                        \* an individual business
    ProviderOf,         \* the provider behind each candidate
    Worker,             \* the requests in flight at a time
    None,               \* SQL NULL
    SearchWindow,       \* MAX_PROVIDER_SEARCH_MINUTES, in clock ticks
    TipPromptInterval,  \* TIP_PROMPT_INTERVAL_MINUTES, in clock ticks
    MaxTip,             \* bound of the model: the largest tip offered
    MaxClock            \* bound of the model: where the clock stops

ASSUME ConstantsAssumption ==
    /\ ProviderOf \in [Candidate -> Provider]
    /\ None \notin Booking \cup Candidate \cup Provider
    /\ SearchWindow \in Nat \ {0}
    /\ TipPromptInterval \in Nat \ {0}
    /\ MaxTip \in Nat
    /\ MaxClock \in Nat

VARIABLES
    clock,      \* timezone.now()
    status,     \* InstantBooking.status; ABSENT before the row exists
    assigned,   \* InstantBooking.assigned_business / assigned_employee
    deadline,   \* InstantBooking.search_deadline
    tip,        \* InstantBooking.tip_amount
    round,      \* InstantBooking.offer_round
    offer,      \* offer[b][c]: InstantBookingOffer.status; NONE without a row
    code,       \* the states of the booking's completion codes
                \* (BookingCompletionOTP): a spent code keeps its row
    job         \* the request each worker is handling

rows == <<status, assigned, deadline, tip, round, offer, code>>
vars == <<clock, rows, job>>

-------------------------------------------------------------------------------
(* Row values.  QUOTED, TIP_REQUIRED and EXPIRED are choices of the model  *)
(* class that no reachable view writes.                                    *)

Status == {"ABSENT", "SEARCHING", "TIP_REQUIRED", "ASSIGNED", "CANCELLED",
           "NO_PROVIDER", "IN_PROGRESS", "COMPLETED"}
Searching == {"SEARCHING", "TIP_REQUIRED"}
OfferStatus == {"NONE", "PENDING", "ACCEPTED", "DECLINED", "EXPIRED"}
CodeState == {"SENT", "VERIFIED"}

(* Where a request is: the statement it executes next.                     *)
UnlockedStep == {"poll", "pollSave", "start", "startSave", "complete",
                 "verify", "verifySave"}
BookingLockStep == {"accept", "acceptCommit", "expire", "cancel", "retry"}
OfferLockStep == {"acceptOffer", "accept", "acceptCommit", "expire"}
Step == {"idle"} \cup UnlockedStep \cup BookingLockStep \cup OfferLockStep

Job == [step : Step,
        b    : Booking \cup {None},
        c    : Candidate \cup {None}]

Idle == [step |-> "idle", b |-> None, c |-> None]

TypeOK ==
    /\ clock \in Nat
    /\ status \in [Booking -> Status]
    /\ assigned \in [Booking -> Provider \cup {None}]
    /\ deadline \in [Booking -> Nat]
    /\ tip \in [Booking -> Nat]
    /\ round \in [Booking -> 0 .. 3]
    /\ offer \in [Booking -> [Candidate -> OfferStatus]]
    /\ code \in [Booking -> SUBSET CodeState]
    /\ job \in [Worker -> Job]

Init ==
    /\ clock = 0
    /\ status = [b \in Booking |-> "ABSENT"]
    /\ assigned = [b \in Booking |-> None]
    /\ deadline = [b \in Booking |-> 0]
    /\ tip = [b \in Booking |-> 0]
    /\ round = [b \in Booking |-> 0]
    /\ offer = [b \in Booking |-> [c \in Candidate |-> "NONE"]]
    /\ code = [b \in Booking |-> {}]
    /\ job = [w \in Worker |-> Idle]

-------------------------------------------------------------------------------
(* Row locks, read off the steps of the requests.                          *)

Pending(b) == {c \in Candidate : offer[b][c] = "PENDING"}

BookingLocked(b) ==
    \E w \in Worker : job[w].step \in BookingLockStep /\ job[w].b = b

OfferLocked(b, c) ==
    \E w \in Worker : job[w].step \in OfferLockStep
                      /\ job[w].b = b /\ job[w].c = c

(* "UPDATE ... WHERE instant_booking = b AND status = PENDING" has to wait *)
(* while another request holds the lock of one of those rows.              *)
PendingLockedByOther(w) ==
    \E v \in Worker \ {w} :
        /\ job[v].step \in OfferLockStep
        /\ job[v].b = job[w].b
        /\ job[v].c \in Pending(job[w].b)

-------------------------------------------------------------------------------
(* Helpers of the handlers.                                                *)

SearchOver(b) == deadline[b] <= clock

PendingExpired(b) ==
    [offer EXCEPT ![b] =
        [c \in Candidate |->
            IF offer[b][c] = "PENDING" THEN "EXPIRED" ELSE offer[b][c]]]

(* Fault: the cap of three rounds is dropped.                              *)
OfferRoundUncapped(b) ==
    (clock - (deadline[b] - SearchWindow)) \div TipPromptInterval + 1

(* offer_round = min(3, max(1, elapsed // interval + 1)); the deadline is  *)
(* created_at plus the window, so elapsed time is never negative.          *)
OfferRound(b) ==
    LET elapsed == clock - (deadline[b] - SearchWindow)
        r == elapsed \div TipPromptInterval + 1
    IN IF r > 3 THEN 3 ELSE IF r < 1 THEN 1 ELSE r

(* has_active_service_in_progress, for the instant bookings.               *)
ProviderBusy(p, b) ==
    \E other \in Booking \ {b} :
        status[other] = "IN_PROGRESS" /\ assigned[other] = p

Begin(w, step, b, c) ==
    job' = [job EXCEPT ![w] = [step |-> step, b |-> b, c |-> c]]
Goto(w, step) == job' = [job EXCEPT ![w].step = step]
Return(w) == job' = [job EXCEPT ![w] = Idle]

At(w, step) == job[w].step = step

-------------------------------------------------------------------------------
(* Create: one transaction, nothing of it visible before the commit.       *)

(* The quote found the candidates S.                                       *)
Create(b, S) ==
    /\ status[b] = "ABSENT"
    /\ status' = [status EXCEPT ![b] = "SEARCHING"]
    /\ deadline' = [deadline EXCEPT ![b] = clock + SearchWindow]
    /\ round' = [round EXCEPT ![b] = 1]
    /\ offer' = [offer EXCEPT ![b] =
                    [c \in Candidate |-> IF c \in S THEN "PENDING" ELSE "NONE"]]
    /\ UNCHANGED <<clock, assigned, tip, code, job>>

(* The quote found nobody: the booking is born closed.                     *)
CreateWithoutProvider(b) ==
    /\ status[b] = "ABSENT"
    /\ status' = [status EXCEPT ![b] = "NO_PROVIDER"]
    /\ UNCHANGED <<clock, assigned, deadline, tip, round, offer, code, job>>

-------------------------------------------------------------------------------
(* The GETs that end an overdue search (customer detail, provider pop-ups, *)
(* customer pending list): read the row, compare the deadline, close the   *)
(* pop-ups, save the status.  A GET that reads another status changes      *)
(* nothing and is left out.                                                *)

PollRead(w, b) ==
    /\ At(w, "idle")
    /\ status[b] \in Searching
    /\ Begin(w, "poll", b, None)
    /\ UNCHANGED <<clock, rows>>

PollKeep(w) ==
    /\ At(w, "poll")
    /\ ~SearchOver(job[w].b)
    /\ Return(w)
    /\ UNCHANGED <<clock, rows>>

(* Fault: pop-ups are closed at a tip prompt, before the deadline.         *)
PollExpireOffersEarly(w) ==
    /\ At(w, "poll")
    /\ ~PendingLockedByOther(w)
    /\ offer' = PendingExpired(job[w].b)
    /\ Goto(w, "pollSave")
    /\ UNCHANGED <<clock, status, assigned, deadline, tip, round, code>>

(* Fault: the status is not saved after the pop-ups are closed.            *)
PollExpireOffersOnly(w) ==
    /\ At(w, "poll")
    /\ SearchOver(job[w].b)
    /\ ~PendingLockedByOther(w)
    /\ offer' = PendingExpired(job[w].b)
    /\ Return(w)
    /\ UNCHANGED <<clock, status, assigned, deadline, tip, round, code>>

PollExpireOffers(w) ==
    /\ At(w, "poll")
    /\ SearchOver(job[w].b)
    /\ ~PendingLockedByOther(w)
    /\ offer' = PendingExpired(job[w].b)
    /\ Goto(w, "pollSave")
    /\ UNCHANGED <<clock, status, assigned, deadline, tip, round, code>>

PollSave(w) ==
    /\ At(w, "pollSave")
    /\ ~BookingLocked(job[w].b)
    /\ status' = [status EXCEPT ![job[w].b] = "NO_PROVIDER"]
    /\ Return(w)
    /\ UNCHANGED <<clock, assigned, deadline, tip, round, offer, code>>

-------------------------------------------------------------------------------
(* Accept: lock the offer row, then the booking row; end an overdue search *)
(* or check that the booking still searches and the offer is still open;   *)
(* commit the assignment.                                                  *)

AcceptLockOffer(w, b, c) ==
    /\ At(w, "idle")
    /\ offer[b][c] # "NONE"
    /\ ~OfferLocked(b, c)
    /\ Begin(w, "acceptOffer", b, c)
    /\ UNCHANGED <<clock, rows>>

(* Fault: the booking row is read without select_for_update.               *)
AcceptReadBooking(w) ==
    LET b == job[w].b IN
    /\ At(w, "acceptOffer")
    /\ \/ /\ status[b] \in Searching /\ SearchOver(b)
          /\ Goto(w, "expire")
       \/ /\ ~(status[b] \in Searching /\ SearchOver(b))
          /\ Goto(w, "accept")
    /\ UNCHANGED <<clock, rows>>

AcceptLockBooking(w) ==
    LET b == job[w].b IN
    /\ At(w, "acceptOffer")
    /\ ~BookingLocked(b)
    /\ \/ /\ status[b] \in Searching /\ SearchOver(b)
          /\ Goto(w, "expire")
       \/ /\ ~(status[b] \in Searching /\ SearchOver(b))
          /\ Goto(w, "accept")
    /\ UNCHANGED <<clock, rows>>

(* Fault: only the deadline is checked, not the booking or the offer.      *)
AcceptableInTime(b, c) == ~SearchOver(b)

Acceptable(b, c) ==
    /\ status[b] \in Searching
    /\ ~SearchOver(b)
    /\ offer[b][c] = "PENDING"

AcceptCheck(w) ==
    /\ At(w, "accept")
    /\ Acceptable(job[w].b, job[w].c)
    /\ Goto(w, "acceptCommit")
    /\ UNCHANGED <<clock, rows>>

AcceptRefuse(w) ==
    /\ At(w, "accept")
    /\ ~Acceptable(job[w].b, job[w].c)
    /\ Return(w)
    /\ UNCHANGED <<clock, rows>>

(* Fault: the provider is not written to the booking.                      *)
AcceptCommitUnassigned(w) ==
    LET b == job[w].b
        c == job[w].c IN
    /\ At(w, "acceptCommit")
    /\ ~PendingLockedByOther(w)
    /\ offer' = [PendingExpired(b) EXCEPT ![b][c] = "ACCEPTED"]
    /\ status' = [status EXCEPT ![b] = "ASSIGNED"]
    /\ Return(w)
    /\ UNCHANGED <<clock, assigned, deadline, tip, round, code>>

AcceptCommit(w) ==
    LET b == job[w].b
        c == job[w].c IN
    /\ At(w, "acceptCommit")
    /\ ~PendingLockedByOther(w)
    /\ offer' = [PendingExpired(b) EXCEPT ![b][c] = "ACCEPTED"]
    /\ assigned' = [assigned EXCEPT ![b] = ProviderOf[c]]
    /\ status' = [status EXCEPT ![b] = "ASSIGNED"]
    /\ Return(w)
    /\ UNCHANGED <<clock, deadline, tip, round, code>>

(* expire_booking_if_required inside Accept's or Retry's transaction: the  *)
(* refusal that follows is a normal response, so the expiry commits.       *)
ExpireCommit(w) ==
    LET b == job[w].b IN
    /\ At(w, "expire")
    /\ ~PendingLockedByOther(w)
    /\ offer' = PendingExpired(b)
    /\ status' = [status EXCEPT ![b] = "NO_PROVIDER"]
    /\ Return(w)
    /\ UNCHANGED <<clock, assigned, deadline, tip, round, code>>

-------------------------------------------------------------------------------
(* Cancel, by the customer: anything but a completed or cancelled booking. *)

CancelLock(w, b) ==
    /\ At(w, "idle")
    /\ status[b] \notin {"ABSENT", "COMPLETED", "CANCELLED"}
    /\ ~BookingLocked(b)
    /\ Begin(w, "cancel", b, None)
    /\ UNCHANGED <<clock, rows>>

(* Fault: the pop-ups of a cancelled booking stay open.                    *)
CancelCommitKeepsOffers(w) ==
    /\ At(w, "cancel")
    /\ status' = [status EXCEPT ![job[w].b] = "CANCELLED"]
    /\ Return(w)
    /\ UNCHANGED <<clock, assigned, deadline, tip, round, offer, code>>

CancelCommit(w) ==
    LET b == job[w].b IN
    /\ At(w, "cancel")
    /\ ~PendingLockedByOther(w)
    /\ offer' = PendingExpired(b)
    /\ status' = [status EXCEPT ![b] = "CANCELLED"]
    /\ Return(w)
    /\ UNCHANGED <<clock, assigned, deadline, tip, round, code>>

-------------------------------------------------------------------------------
(* Retry: the customer raises (or keeps) the tip while the search runs.    *)

RetryLock(w, b) ==
    /\ At(w, "idle")
    /\ status[b] \in Searching
    /\ ~BookingLocked(b)
    /\ Begin(w, IF SearchOver(b) THEN "expire" ELSE "retry", b, None)
    /\ UNCHANGED <<clock, rows>>

(* Fault: a lower tip is accepted.                                         *)
RetryCommitAnyTip(w, amount) ==
    LET b == job[w].b IN
    /\ At(w, "retry")
    /\ tip' = [tip EXCEPT ![b] = amount]
    /\ status' = [status EXCEPT ![b] = "SEARCHING"]
    /\ round' = [round EXCEPT ![b] = OfferRound(b)]
    /\ Return(w)
    /\ UNCHANGED <<clock, assigned, deadline, offer, code>>

(* Fault: a retry sends the pop-up to everybody again.                     *)
RetryCommitReoffers(w, amount) ==
    LET b == job[w].b IN
    /\ At(w, "retry")
    /\ amount >= tip[b]
    /\ tip' = [tip EXCEPT ![b] = amount]
    /\ offer' = [offer EXCEPT ![b] = [c \in Candidate |-> "PENDING"]]
    /\ Return(w)
    /\ UNCHANGED <<clock, status, round, assigned, deadline, code>>

RetryCommit(w, amount) ==
    LET b == job[w].b IN
    /\ At(w, "retry")
    /\ amount >= tip[b]
    /\ tip' = [tip EXCEPT ![b] = amount]
    /\ status' = [status EXCEPT ![b] = "SEARCHING"]
    /\ round' = [round EXCEPT ![b] = OfferRound(b)]
    /\ Return(w)
    /\ UNCHANGED <<clock, assigned, deadline, offer, code>>

(* No valid tip in the request, or one below the current tip.              *)
RetryRefuse(w) ==
    /\ At(w, "retry")
    /\ Return(w)
    /\ UNCHANGED <<clock, rows>>

-------------------------------------------------------------------------------
(* Start, by the assigned provider: no lock between the checks and the     *)
(* save.                                                                   *)

StartRead(w, b) ==
    /\ At(w, "idle")
    /\ status[b] = "ASSIGNED"
    /\ assigned[b] # None
    /\ Begin(w, "start", b, None)
    /\ UNCHANGED <<clock, rows>>

StartCheck(w) ==
    /\ At(w, "start")
    /\ ~ProviderBusy(assigned[job[w].b], job[w].b)
    /\ Goto(w, "startSave")
    /\ UNCHANGED <<clock, rows>>

(* The provider is on another instant booking, or on a scheduled one,      *)
(* which this module does not show.                                        *)
StartRefuse(w) ==
    /\ At(w, "start")
    /\ Return(w)
    /\ UNCHANGED <<clock, rows>>

StartSave(w) ==
    /\ At(w, "startSave")
    /\ ~BookingLocked(job[w].b)
    /\ status' = [status EXCEPT ![job[w].b] = "IN_PROGRESS"]
    /\ Return(w)
    /\ UNCHANGED <<clock, assigned, deadline, tip, round, offer, code>>

-------------------------------------------------------------------------------
(* Complete e-mails a code to the customer, CompleteVerify checks it.  The *)
(* code is abstract here: OneTimeCode models its expiry and attempts.      *)

CompleteRead(w, b) ==
    /\ At(w, "idle")
    /\ status[b] = "IN_PROGRESS"
    /\ assigned[b] # None
    /\ Begin(w, "complete", b, None)
    /\ UNCHANGED <<clock, rows>>

CompleteSend(w) ==
    /\ At(w, "complete")
    /\ code' = [code EXCEPT ![job[w].b] = @ \cup {"SENT"}]
    /\ Return(w)
    /\ UNCHANGED <<clock, status, assigned, deadline, tip, round, offer>>

VerifyRead(w, b) ==
    /\ At(w, "idle")
    /\ status[b] = "IN_PROGRESS"
    /\ assigned[b] # None
    /\ Begin(w, "verify", b, None)
    /\ UNCHANGED <<clock, rows>>

(* Fault: whatever is submitted is taken for the code.                     *)
VerifyCodeUnchecked(w) ==
    /\ At(w, "verify")
    /\ Goto(w, "verifySave")
    /\ UNCHANGED <<clock, rows>>

VerifyCode(w) ==
    /\ At(w, "verify")
    /\ "SENT" \in code[job[w].b]
    /\ code' = [code EXCEPT ![job[w].b] = (@ \ {"SENT"}) \cup {"VERIFIED"}]
    /\ Goto(w, "verifySave")
    /\ UNCHANGED <<clock, status, assigned, deadline, tip, round, offer>>

(* No code, a wrong one, an expired one.                                   *)
VerifyRefuse(w) ==
    /\ At(w, "verify")
    /\ Return(w)
    /\ UNCHANGED <<clock, rows>>

VerifySave(w) ==
    /\ At(w, "verifySave")
    /\ ~BookingLocked(job[w].b)
    /\ status' = [status EXCEPT ![job[w].b] = "COMPLETED"]
    /\ Return(w)
    /\ UNCHANGED <<clock, assigned, deadline, tip, round, offer, code>>

-------------------------------------------------------------------------------
(* The database and the server.                                            *)

(* Fault: nobody detects the cycle of lock waits.                          *)
DeadlockedNever(w, v) == FALSE

(* v locked the booking and waits for pending offers that w has locked:    *)
(* w is an Accept waiting for the booking, or a GET half-way through the   *)
(* UPDATE that closes the offers, itself waiting for v or such an Accept.  *)
Deadlocked(w, v) ==
    LET b == job[w].b IN
    /\ job[v].step \in {"acceptCommit", "expire", "cancel"}
    /\ job[v].b = b
    /\ \/ At(w, "acceptOffer") /\ job[w].c \in Pending(b)
       \/ /\ At(w, "poll") /\ SearchOver(b) /\ PendingLockedByOther(w)
          /\ \E c \in Pending(b) : ~OfferLocked(b, c)

(* InnoDB rolls one of them back.                                          *)
DeadlockAbort(w) ==
    /\ \E v \in Worker : Deadlocked(w, v) \/ Deadlocked(v, w)
    /\ Return(w)
    /\ UNCHANGED <<clock, rows>>

(* The worker is killed, loses its connection or raises: its open          *)
(* transaction is rolled back, what it already committed stays.            *)
Crash(w) ==
    /\ ~At(w, "idle")
    /\ Return(w)
    /\ UNCHANGED <<clock, rows>>

Tick ==
    /\ clock < MaxClock
    /\ clock' = clock + 1
    /\ UNCHANGED <<rows, job>>

-------------------------------------------------------------------------------
Arrive(w, b) ==
    \/ PollRead(w, b)
    \/ \E c \in Candidate : AcceptLockOffer(w, b, c)
    \/ CancelLock(w, b)
    \/ RetryLock(w, b)
    \/ StartRead(w, b)
    \/ CompleteRead(w, b)
    \/ VerifyRead(w, b)

Advance(w) ==
    \/ PollKeep(w)
    \/ PollExpireOffers(w)
    \/ PollSave(w)
    \/ AcceptLockBooking(w)
    \/ AcceptCheck(w)
    \/ AcceptRefuse(w)
    \/ AcceptCommit(w)
    \/ ExpireCommit(w)
    \/ CancelCommit(w)
    \/ \E amount \in 0 .. MaxTip : RetryCommit(w, amount)
    \/ RetryRefuse(w)
    \/ StartCheck(w)
    \/ StartRefuse(w)
    \/ StartSave(w)
    \/ CompleteSend(w)
    \/ VerifyCode(w)
    \/ VerifyRefuse(w)
    \/ VerifySave(w)
    \/ DeadlockAbort(w)

Serve ==
    \/ Tick
    \/ \E b \in Booking :
        \/ \E S \in (SUBSET Candidate) \ {{}} : Create(b, S)
        \/ CreateWithoutProvider(b)
    \/ \E w \in Worker :
        \/ \E b \in Booking : Arrive(w, b)
        \/ Advance(w)

Next == Serve \/ \E w \in Worker : Crash(w)

Spec == Init /\ [][Next]_vars

(* Liveness is about requests that run to their end: no crash.  A request  *)
(* waiting for a row lock is granted it in turn (InnoDB queues waiters),   *)
(* which is strong fairness of its next statement.  Nothing obliges a      *)
(* customer or a provider to send a request.                               *)
FairSpec ==
    Init /\ [][Serve]_vars /\ \A w \in Worker : SF_vars(Advance(w))

-------------------------------------------------------------------------------
(* Properties.                                                             *)

(* First provider to accept wins: at most one offer of a booking is ever   *)
(* ACCEPTED, and it is the one behind the assigned provider.               *)
OneWinner ==
    \A b \in Booking :
        /\ \A c, d \in Candidate :
            offer[b][c] = "ACCEPTED" /\ offer[b][d] = "ACCEPTED" => c = d
        /\ \A c \in Candidate :
            offer[b][c] = "ACCEPTED" => assigned[b] = ProviderOf[c]
        /\ assigned[b] # None =>
            \E c \in Candidate : offer[b][c] = "ACCEPTED"

(* A booking that no longer searches shows no provider a pop-up that can   *)
(* still be accepted, even when unlocked saves overwrote its status.       *)
ClosedShowsNoPopup ==
    \A b \in Booking : status[b] \notin Searching => Pending(b) = {}

(* Work is only ever done by a provider who won the booking.               *)
ServedByWinner ==
    \A b \in Booking :
        status[b] \in {"ASSIGNED", "IN_PROGRESS", "COMPLETED"} =>
            assigned[b] # None

(* While the window is open a searching booking can still be accepted by   *)
(* someone: no crash, rollback or expiry leaves it open with no pop-up.    *)
LiveSearchReachable ==
    \A b \in Booking :
        status[b] \in Searching /\ ~SearchOver(b) => Pending(b) # {}

(* Nobody completes a booking without a code of its customer having been   *)
(* verified, however the codes sent again, the requests that spend one and *)
(* die before the status is saved, and unlocked saves of others mix.       *)
CompletedWithCode ==
    \A b \in Booking : status[b] = "COMPLETED" => "VERIFIED" \in code[b]

(* The assignment is made once, out of a running search.                   *)
AssignmentFinal ==
    [][\A b \in Booking :
        assigned'[b] # assigned[b] =>
            /\ assigned[b] = None
            /\ status[b] \in Searching
            /\ status'[b] = "ASSIGNED"]_vars

(* A tip is never lowered, and neither tip nor round moves once the search *)
(* is over: the price a provider accepted is the price that stays.         *)
TipOnlyRises ==
    [][\A b \in Booking :
        /\ tip'[b] >= tip[b]
        /\ round'[b] >= round[b]
        /\ tip'[b] # tip[b] => status[b] \in Searching
        /\ tip'[b] # tip[b] \/ round'[b] # round[b] =>
              /\ status[b] \in Searching \cup {"ABSENT"}
              /\ status'[b] \in Searching]_vars

(* Dispatch is implemented: pop-ups are what is open, ACCEPTED is the win. *)
Accepted(b) == {c \in Candidate : offer[b][c] = "ACCEPTED"}

D == INSTANCE Dispatch WITH
        published <- {b \in Booking : status[b] # "ABSENT"},
        open <- [b \in Booking |-> Pending(b)],
        winner <- [b \in Booking |-> Accepted(b)]

DispatchSpec == D!Spec

(* The two liveness properties assume that Accepts stop arriving: each     *)
(* late Accept may deadlock with the previous one for ever, and a GET's    *)
(* UPDATE is modelled as waiting for all the offer rows at once.           *)
AcceptArrives ==
    \E w \in Worker, b \in Booking, c \in Candidate : AcceptLockOffer(w, b, c)

AcceptsCease == <>[][~AcceptArrives]_vars

(* No request waits for ever: whatever the rows they lock and in whatever  *)
(* order, lock queues and deadlock detection end them all.                 *)
RequestsEnd ==
    AcceptsCease => \A w \in Worker : ~At(w, "idle") ~> At(w, "idle")

(* One GET after the deadline ends the search, even when it races other    *)
(* requests or is a deadlock victim itself.                                *)
PollEndsSearch ==
    AcceptsCease =>
        \A w \in Worker : \A b \in Booking :
            At(w, "poll") /\ job[w].b = b /\ SearchOver(b)
                ~> status[b] \notin Searching

-------------------------------------------------------------------------------
(* The inductive invariant behind the three invariants above.              *)

(* select_for_update excludes: one request holds a row at a time.          *)
BookingLockExclusive ==
    \A w, v \in Worker :
        /\ job[w].step \in BookingLockStep
        /\ job[v].step \in BookingLockStep
        /\ job[w].b = job[v].b
        => w = v

OfferLockExclusive ==
    \A w, v \in Worker :
        /\ job[w].step \in OfferLockStep
        /\ job[v].step \in OfferLockStep
        /\ job[w].b = job[v].b
        /\ job[w].c = job[v].c
        /\ job[w].c # None
        => w = v

(* What a request established about its rows earlier still holds at its    *)
(* step: through the locks, or because nothing undoes it.                  *)
JobSound(w) ==
    LET b == job[w].b
        c == job[w].c
        step == job[w].step IN
    /\ step # "idle" => b \in Booking /\ status[b] # "ABSENT"
    /\ step \in {"acceptOffer", "accept", "acceptCommit"} => c \in Candidate
    /\ step \in {"acceptCommit", "expire", "retry"} => status[b] \in Searching
    /\ step = "acceptCommit" => offer[b][c] = "PENDING"
    /\ step = "pollSave" => Pending(b) = {}
    /\ step \in {"start", "startSave", "complete", "verify", "verifySave"} =>
        assigned[b] # None

AbsentIsBlank ==
    \A b \in Booking : status[b] = "ABSENT" =>
        /\ assigned[b] = None
        /\ \A c \in Candidate : offer[b][c] = "NONE"

SearchingUnassigned ==
    \A b \in Booking : status[b] \in Searching => assigned[b] = None

(* Requests hold rows exclusively, act on facts that still hold, and the   *)
(* rows they leave agree with one another.                                 *)
Inv ==
    /\ BookingLockExclusive
    /\ OfferLockExclusive
    /\ \A w \in Worker : JobSound(w)
    /\ AbsentIsBlank
    /\ SearchingUnassigned
    /\ OneWinner
    /\ ClosedShowsNoPopup
    /\ ServedByWinner

-------------------------------------------------------------------------------
(* A claim of the code that the code does not keep.                        *)

(* "First eligible provider to accept a pop-up gets the booking."          *)
WinnerKeepsBooking ==
    \A b \in Booking : Accepted(b) # {} => status[b] # "NO_PROVIDER"

===============================================================================
