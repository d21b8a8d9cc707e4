------------------------- MODULE InstantBookingProofs -------------------------
(***************************************************************************)
(* What InstantBooking guarantees for any number of bookings, candidates,  *)
(* providers and concurrent requests, and any window.                      *)
(*                                                                         *)
(* The argument is the one the code relies on: Accept, Cancel and Retry    *)
(* hold the booking row exclusively, so what they checked is still true    *)
(* when they commit; the requests that take no lock can only overwrite the *)
(* status, and only with facts (no pending offer left, a provider is       *)
(* assigned) that nothing undoes.                                          *)
(***************************************************************************)
EXTENDS InstantBooking, TLAPS

USE ConstantsAssumption
USE DEF Status, Searching, OfferStatus, CodeState, Step,
        UnlockedStep, BookingLockStep, OfferLockStep, At, rows

-------------------------------------------------------------------------------
(* Types.                                                                  *)

LEMMA OfferRoundType ==
    ASSUME NEW b \in Booking, TypeOK
    PROVE  OfferRound(b) \in 0 .. 3
<1> DEFINE elapsed == clock - (deadline[b] - SearchWindow)
           r == elapsed \div TipPromptInterval + 1
<1>1. elapsed \in Int
    BY DEF TypeOK
<1>2. r \in Int
    BY <1>1
<1>3. QED
    BY <1>2 DEF OfferRound

LEMMA PendingExpiredType ==
    ASSUME NEW b \in Booking, TypeOK
    PROVE  /\ PendingExpired(b) \in [Booking -> [Candidate -> OfferStatus]]
           /\ \A a \in Booking \ {b} : PendingExpired(b)[a] = offer[a]
           /\ \A c \in Candidate : PendingExpired(b)[b][c] =
                IF offer[b][c] = "PENDING" THEN "EXPIRED" ELSE offer[b][c]
BY DEF TypeOK, PendingExpired

LEMMA JobType ==
    ASSUME TypeOK, NEW w \in Worker
    PROVE  /\ Return(w) => job' \in [Worker -> Job]
           /\ \A step \in Step : Goto(w, step) => job' \in [Worker -> Job]
           /\ \A step \in Step, b \in Booking, c \in Candidate \cup {None} :
                Begin(w, step, b, c) => job' \in [Worker -> Job]
<1>1. Return(w) => job' \in [Worker -> Job]
    BY DEF TypeOK, Return, Idle, Job
<1>2. ASSUME NEW step \in Step, Goto(w, step)
      PROVE  job' \in [Worker -> Job]
    <2>1. [job[w] EXCEPT !.step = step] \in Job
        BY job[w] \in Job DEF TypeOK, Job
    <2>2. QED
        BY <1>2, <2>1 DEF TypeOK, Goto
<1>3. ASSUME NEW step \in Step, NEW b \in Booking,
             NEW c \in Candidate \cup {None}, Begin(w, step, b, c)
      PROVE  job' \in [Worker -> Job]
    BY <1>3 DEF TypeOK, Begin, Job
<1>4. QED
    BY <1>1, <1>2, <1>3

LEMMA ArriveType ==
    ASSUME TypeOK, NEW w \in Worker, NEW b \in Booking, Arrive(w, b)
    PROVE  TypeOK'
<1>1. job' \in [Worker -> Job]
    BY JobType DEF Arrive, PollRead, AcceptLockOffer, CancelLock, RetryLock,
                   StartRead, CompleteRead, VerifyRead
<1>2. UNCHANGED <<clock, rows>>
    BY DEF Arrive, PollRead, AcceptLockOffer, CancelLock, RetryLock,
           StartRead, CompleteRead, VerifyRead
<1>3. QED
    BY <1>1, <1>2 DEF TypeOK

LEMMA CreateType ==
    ASSUME TypeOK, NEW b \in Booking, NEW S \in SUBSET Candidate,
           Create(b, S) \/ CreateWithoutProvider(b)
    PROVE  TypeOK'
<1>1. CASE CreateWithoutProvider(b)
    BY <1>1 DEF TypeOK, CreateWithoutProvider
<1>2. CASE Create(b, S)
    <2>1. offer' \in [Booking -> [Candidate -> OfferStatus]]
        BY <1>2 DEF TypeOK, Create
    <2>2. deadline' \in [Booking -> Nat] /\ round' \in [Booking -> 0 .. 3]
        BY <1>2 DEF TypeOK, Create
    <2>3. QED
        BY <1>2, <2>1, <2>2 DEF TypeOK, Create
<1>3. QED
    BY <1>1, <1>2

(* The steps that write the offers or a new round.                         *)
LEMMA WriteType ==
    ASSUME TypeOK, NEW w \in Worker, JobSound(w),
           \/ PollExpireOffers(w) \/ AcceptCommit(w)
           \/ ExpireCommit(w) \/ CancelCommit(w)
           \/ \E amount \in 0 .. MaxTip : RetryCommit(w, amount)
    PROVE  TypeOK'
<1> DEFINE b == job[w].b
<1>0. b \in Booking /\ (AcceptCommit(w) => job[w].c \in Candidate)
    BY DEF JobSound, PollExpireOffers, AcceptCommit, ExpireCommit,
           CancelCommit, RetryCommit
<1>1. job' \in [Worker -> Job]
    BY JobType DEF PollExpireOffers, AcceptCommit, ExpireCommit, CancelCommit,
                   RetryCommit
<1>2. CASE PollExpireOffers(w)
    <2>1. offer' \in [Booking -> [Candidate -> OfferStatus]]
        BY <1>0, <1>2, PendingExpiredType DEF PollExpireOffers
    <2>2. QED
        BY <1>1, <1>2, <2>1 DEF TypeOK, PollExpireOffers
<1>3. CASE ExpireCommit(w)
    <2>1. offer' \in [Booking -> [Candidate -> OfferStatus]]
        BY <1>0, <1>3, PendingExpiredType DEF ExpireCommit
    <2>2. QED
        BY <1>1, <1>3, <2>1 DEF TypeOK, ExpireCommit
<1>4. CASE CancelCommit(w)
    <2>1. offer' \in [Booking -> [Candidate -> OfferStatus]]
        BY <1>0, <1>4, PendingExpiredType DEF CancelCommit
    <2>2. QED
        BY <1>1, <1>4, <2>1 DEF TypeOK, CancelCommit
<1>5. CASE AcceptCommit(w)
    <2>1. offer' \in [Booking -> [Candidate -> OfferStatus]]
        BY <1>0, <1>5, PendingExpiredType DEF AcceptCommit
    <2>2. assigned' \in [Booking -> Provider \cup {None}]
        BY <1>0, <1>5 DEF TypeOK, AcceptCommit
    <2>3. QED
        BY <1>1, <1>5, <2>1, <2>2 DEF TypeOK, AcceptCommit
<1>6. ASSUME NEW amount \in 0 .. MaxTip, RetryCommit(w, amount)
      PROVE  TypeOK'
    <2>1. OfferRound(job[w].b) \in 0 .. 3
        BY <1>0, OfferRoundType
    <2>2. QED
        BY <1>0, <1>1, <1>6, <2>1 DEF TypeOK, RetryCommit
<1>7. QED
    BY <1>2, <1>3, <1>4, <1>5, <1>6

LEMMA AdvanceType ==
    ASSUME TypeOK, NEW w \in Worker, JobSound(w), Advance(w) \/ Crash(w)
    PROVE  TypeOK'
<1>1. CASE \/ PollKeep(w) \/ AcceptRefuse(w) \/ RetryRefuse(w)
           \/ StartRefuse(w) \/ VerifyRefuse(w)
           \/ DeadlockAbort(w) \/ Crash(w)
    <2>1. Return(w) /\ UNCHANGED <<clock, rows>>
        BY <1>1 DEF PollKeep, AcceptRefuse, RetryRefuse, StartRefuse,
                    VerifyRefuse, DeadlockAbort, Crash
    <2>2. QED
        BY <2>1, JobType DEF TypeOK
<1>2. CASE AcceptLockBooking(w) \/ AcceptCheck(w) \/ StartCheck(w)
    <2>1. \E step \in Step : Goto(w, step)
        BY <1>2 DEF AcceptLockBooking, AcceptCheck, StartCheck
    <2>2. UNCHANGED <<clock, rows>>
        BY <1>2 DEF AcceptLockBooking, AcceptCheck, StartCheck
    <2>3. QED
        BY <2>1, <2>2, JobType DEF TypeOK
<1>3. CASE PollSave(w) \/ StartSave(w) \/ VerifySave(w)
    <2>1. job' \in [Worker -> Job]
        BY <1>3, JobType DEF PollSave, StartSave, VerifySave
    <2>2. status' \in [Booking -> Status]
        BY <1>3 DEF TypeOK, PollSave, StartSave, VerifySave
    <2>3. QED
        BY <1>3, <2>1, <2>2 DEF TypeOK, PollSave, StartSave, VerifySave
<1>4. CASE CompleteSend(w) \/ VerifyCode(w)
    <2>1. job' \in [Worker -> Job]
        BY <1>4, JobType DEF CompleteSend, VerifyCode
    <2>2. code' \in [Booking -> SUBSET CodeState]
        BY <1>4 DEF TypeOK, CompleteSend, VerifyCode
    <2>3. QED
        BY <1>4, <2>1, <2>2 DEF TypeOK, CompleteSend, VerifyCode
<1>5. QED
    BY <1>1, <1>2, <1>3, <1>4, WriteType DEF Advance

LEMMA NextType ==
    ASSUME TypeOK, \A w \in Worker : JobSound(w), [Next]_vars
    PROVE  TypeOK'
<1>1. CASE Tick
    BY <1>1 DEF TypeOK, Tick
<1>2. CASE UNCHANGED vars
    BY <1>2 DEF TypeOK, vars
<1>3. CASE \E b \in Booking :
            \/ \E S \in (SUBSET Candidate) \ {{}} : Create(b, S)
            \/ CreateWithoutProvider(b)
    BY <1>3, CreateType
<1>4. CASE \E w \in Worker : \E b \in Booking : Arrive(w, b)
    BY <1>4, ArriveType
<1>5. CASE \E w \in Worker : Advance(w) \/ Crash(w)
    BY <1>5, AdvanceType
<1>6. QED
    BY <1>1, <1>2, <1>3, <1>4, <1>5 DEF Next, Serve

-------------------------------------------------------------------------------
(* The inductive invariant, one fact per action.                           *)

(* A request that locks no row beyond those it holds keeps locks sound.    *)
LEMMA LocksKept ==
    ASSUME BookingLockExclusive, OfferLockExclusive, NEW w \in Worker,
           \A v \in Worker \ {w} : job'[v] = job[v],
           job'[w].step \in BookingLockStep =>
                job[w].step \in BookingLockStep /\ job'[w].b = job[w].b,
           job'[w].step \in OfferLockStep =>
                /\ job[w].step \in OfferLockStep
                /\ job'[w].b = job[w].b /\ job'[w].c = job[w].c
    PROVE  BookingLockExclusive' /\ OfferLockExclusive'
<1> DEFINE OldB(v) == job[v].step \in BookingLockStep
           OldO(v) == job[v].step \in OfferLockStep
           NewB(v) == job'[v].step \in BookingLockStep
           NewO(v) == job'[v].step \in OfferLockStep
<1>1. \A v \in Worker :
        /\ NewB(v) => OldB(v) /\ job'[v].b = job[v].b
        /\ NewO(v) => OldO(v) /\ job'[v].b = job[v].b /\ job'[v].c = job[v].c
    OBVIOUS
<1> HIDE DEF OldB, OldO, NewB, NewO
<1>2. /\ \A v, u \in Worker : OldB(v) /\ OldB(u) /\ job[v].b = job[u].b => v = u
      /\ \A v, u \in Worker :
            OldO(v) /\ OldO(u) /\ job[v].b = job[u].b /\ job[v].c = job[u].c
            /\ job[v].c # None => v = u
    BY DEF BookingLockExclusive, OfferLockExclusive, OldB, OldO
<1>3. /\ \A v, u \in Worker :
            NewB(v) /\ NewB(u) /\ job'[v].b = job'[u].b => v = u
      /\ \A v, u \in Worker :
            NewO(v) /\ NewO(u) /\ job'[v].b = job'[u].b /\ job'[v].c = job'[u].c
            /\ job'[v].c # None => v = u
    BY <1>1, <1>2
<1>4. QED
    BY <1>3 DEF BookingLockExclusive, OfferLockExclusive, NewB, NewO

USE DEF TypeOK, Job, Idle, Begin, Goto, Return, Pending, PendingExpired,
        BookingLocked, OfferLocked, PendingLockedByOther,
        Inv, BookingLockExclusive, OfferLockExclusive, JobSound,
        AbsentIsBlank, SearchingUnassigned, OneWinner, ClosedShowsNoPopup,
        ServedByWinner

LEMMA InitInv == Init => Inv
BY DEF Init

(* A request that ends without writing, by refusal, rollback or crash.     *)
LEMMA ReturnInv ==
    ASSUME TypeOK, Inv, NEW w \in Worker, Return(w), UNCHANGED rows
    PROVE  Inv'
OBVIOUS

LEMMA CreateInv ==
    ASSUME TypeOK, Inv, NEW b \in Booking, NEW S \in SUBSET Candidate,
           Create(b, S) \/ CreateWithoutProvider(b)
    PROVE  Inv'
<1>1. CASE Create(b, S)
    BY <1>1 DEF Create
<1>2. CASE CreateWithoutProvider(b)
    BY <1>2 DEF CreateWithoutProvider
<1>3. QED
    BY <1>1, <1>2

(* A request that arrives locks a free row or reads a row.                 *)
LEMMA ArriveInv ==
    ASSUME TypeOK, Inv, NEW w \in Worker, NEW b \in Booking, Arrive(w, b)
    PROVE  Inv'
<1>1. CASE PollRead(w, b)
    BY <1>1 DEF PollRead
<1>2. ASSUME NEW c \in Candidate, AcceptLockOffer(w, b, c)
      PROVE  Inv'
    BY <1>2 DEF AcceptLockOffer
<1>3. CASE CancelLock(w, b)
    BY <1>3 DEF CancelLock
<1>4. CASE RetryLock(w, b)
    BY <1>4 DEF RetryLock
<1>5. CASE StartRead(w, b)
    BY <1>5 DEF StartRead
<1>6. CASE CompleteRead(w, b)
    BY <1>6 DEF CompleteRead
<1>7. CASE VerifyRead(w, b)
    BY <1>7 DEF VerifyRead
<1>8. QED
    BY <1>1, <1>2, <1>3, <1>4, <1>5, <1>6, <1>7 DEF Arrive

(* The pop-ups are closed by a poll that found the search to be over; the  *)
(* status is saved by a later step.                                        *)
LEMMA PollExpireOffersInv ==
    ASSUME TypeOK, Inv, NEW w \in Worker, PollExpireOffers(w)
    PROVE  Inv'
<1>0. PICK b \in Booking : b = job[w].b
    BY DEF PollExpireOffers
<1>1. /\ job[w].step = "poll"
      /\ status[b] # "ABSENT"
      /\ status' = status
      /\ assigned' = assigned
    BY <1>0 DEF PollExpireOffers
<1>2. /\ job'[w] = [job[w] EXCEPT !.step = "pollSave"]
      /\ \A v \in Worker \ {w} : job'[v] = job[v]
    BY DEF PollExpireOffers
<1>3. /\ \A a \in Booking \ {b} : offer'[a] = offer[a]
      /\ \A c \in Candidate :
            offer'[b][c] = IF offer[b][c] = "PENDING" THEN "EXPIRED"
                                                      ELSE offer[b][c]
    <2>1. offer' = PendingExpired(b)
        BY <1>0 DEF PollExpireOffers
    <2> HIDE DEF TypeOK, Inv, PendingExpired
    <2>2. QED
        BY <2>1, PendingExpiredType
<1>4. BookingLockExclusive' /\ OfferLockExclusive'
    <2>1. BookingLockExclusive /\ OfferLockExclusive
        BY Zenon DEF Inv
    <2>2. job'[w].step \notin BookingLockStep \cup OfferLockStep
        BY <1>2
    <2> HIDE DEF BookingLockExclusive, OfferLockExclusive
    <2>3. QED
        BY <1>2, <2>1, <2>2, LocksKept
<1>5. ASSUME NEW v \in Worker
      PROVE  JobSound(v)'
    <2>1. CASE v = w
        <3>1. \A c \in Candidate : offer'[b][c] # "PENDING"
            <4> HIDE DEF TypeOK, Inv
            <4>1. QED
                BY <1>3
        <3>2. Pending(b)' = {}
            BY <3>1
        <3>3. job'[v].step = "pollSave" /\ job'[v].b = b
            BY <1>0, <1>2, <2>1
        <3> HIDE DEF Pending
        <3>4. QED
            BY <1>0, <1>1, <3>2, <3>3
    <2>2. CASE v # w /\ job[v].b # b
        BY <1>1, <1>2, <1>3, <2>2
    <2>3. CASE v # w /\ job[v].b = b
        <3>1. job[v].step # "acceptCommit" \/ offer'[b][job[v].c] = "PENDING"
            BY SMTT(60), <1>0, <1>1, <1>3, <2>3 DEF PollExpireOffers
        <3>2. QED
            BY <1>1, <1>2, <1>3, <2>3, <3>1
    <2>4. QED
        BY <2>1, <2>2, <2>3
<1>6. AbsentIsBlank' /\ SearchingUnassigned' /\ ServedByWinner'
    <2>1. AbsentIsBlank'
        <3>1. ASSUME NEW a \in Booking, status[a] = "ABSENT"
              PROVE  offer'[a] = offer[a]
            BY <1>1, <1>3, <3>1
        <3>2. QED
            BY <1>1, <3>1
    <2>2. SearchingUnassigned' /\ ServedByWinner'
        BY <1>1
    <2>3. QED
        BY <2>1, <2>2
<1>7. OneWinner'
    <2>1. \A a \in Booking : \A c \in Candidate :
            offer'[a][c] = "ACCEPTED" <=> offer[a][c] = "ACCEPTED"
        BY SMTT(20), <1>3
    <2>2. QED
        BY <1>1, <2>1
<1>8. ClosedShowsNoPopup'
    <2>1. ASSUME NEW a \in Booking, status'[a] \notin Searching, NEW d \in Candidate
          PROVE  offer'[a][d] # "PENDING"
        <3>1. CASE a = b
            BY <1>1, <1>3, <2>1, <3>1
        <3>2. CASE a # b
            BY <1>1, <1>3, <2>1, <3>2
        <3>3. QED
            BY <3>1, <3>2
    <2>2. QED
        BY <2>1 DEF ClosedShowsNoPopup
<1>9. QED
    BY <1>4, <1>5, <1>6, <1>7, <1>8

(* The saves without a lock: what they overwrite is the status only, and   *)
(* no offer is pending when they do.                                       *)
LEMMA UnlockedInv ==
    ASSUME TypeOK, Inv, NEW w \in Worker,
           \/ PollExpireOffers(w) \/ PollSave(w) \/ StartCheck(w)
           \/ StartSave(w) \/ CompleteSend(w) \/ VerifyCode(w)
           \/ VerifySave(w)
    PROVE  Inv'
<1>1. CASE PollExpireOffers(w)
    BY <1>1, PollExpireOffersInv
<1>2. CASE PollSave(w)
    BY <1>2 DEF PollSave
<1>3. CASE StartCheck(w)
    BY <1>3 DEF StartCheck
<1>4. CASE StartSave(w)
    BY <1>4 DEF StartSave
<1>5. CASE CompleteSend(w)
    BY <1>5 DEF CompleteSend
<1>6. CASE VerifyCode(w)
    BY <1>6 DEF VerifyCode
<1>7. CASE VerifySave(w)
    BY <1>7 DEF VerifySave
<1>8. QED
    BY <1>1, <1>2, <1>3, <1>4, <1>5, <1>6, <1>7

LEMMA AcceptLockBookingInv ==
    ASSUME TypeOK, Inv, NEW w \in Worker, AcceptLockBooking(w)
    PROVE  Inv'
<1>1. PICK step \in {"expire", "accept"} :
        /\ Goto(w, step)
        /\ step = "expire" => status[job[w].b] \in Searching
    BY DEF AcceptLockBooking
<1>2. /\ job[w].step = "acceptOffer"
      /\ ~BookingLocked(job[w].b)
      /\ UNCHANGED rows
    BY DEF AcceptLockBooking
<1>3. /\ job'[w] = [job[w] EXCEPT !.step = step]
      /\ \A v \in Worker \ {w} : job'[v] = job[v]
    BY <1>1
<1>4. BookingLockExclusive'
    BY <1>2, <1>3
<1>5. OfferLockExclusive'
    BY <1>2, <1>3
<1>6. ASSUME NEW v \in Worker
      PROVE  JobSound(v)'
    BY <1>1, <1>2, <1>3
<1>7. QED
    BY <1>2, <1>4, <1>5, <1>6

LEMMA AcceptCheckInv ==
    ASSUME TypeOK, Inv, NEW w \in Worker, AcceptCheck(w)
    PROVE  Inv'
<1>1. /\ job[w].step = "accept"
      /\ status[job[w].b] \in Searching
      /\ offer[job[w].b][job[w].c] = "PENDING"
      /\ UNCHANGED rows
    BY DEF AcceptCheck, Acceptable
<1>2. /\ job'[w].step = "acceptCommit"
      /\ job'[w].b = job[w].b /\ job'[w].c = job[w].c
      /\ \A v \in Worker \ {w} : job'[v] = job[v]
    <2>1. job[w] \in Job
        OBVIOUS
    <2>2. QED
        BY <2>1 DEF AcceptCheck
<1>3. BookingLockExclusive /\ OfferLockExclusive
    BY Zenon DEF Inv
<1>4. BookingLockExclusive' /\ OfferLockExclusive'
    <2> HIDE DEF BookingLockExclusive, OfferLockExclusive
    <2>1. QED
        BY <1>1, <1>2, <1>3, LocksKept
<1>5. ASSUME NEW v \in Worker
      PROVE  JobSound(v)'
    <2>1. CASE v = w
        BY <1>1, <1>2, <2>1
    <2>2. CASE v # w
        BY <1>1, <1>2, <2>2
    <2>3. QED
        BY <2>1, <2>2
<1>6. QED
    BY <1>1, <1>4, <1>5

(* The commit that assigns.  The row lock of the booking is what keeps two *)
(* of them apart.                                                          *)
LEMMA AcceptCommitInv ==
    ASSUME TypeOK, Inv, NEW w \in Worker, AcceptCommit(w)
    PROVE  Inv'
<1>0. PICK b \in Booking, c \in Candidate : b = job[w].b /\ c = job[w].c
    BY DEF AcceptCommit
<1>1. /\ job[w].step = "acceptCommit"
      /\ status[b] \in Searching
      /\ assigned[b] = None
    BY <1>0 DEF AcceptCommit
<1>2. \A d \in Candidate : offer[b][d] # "ACCEPTED"
    BY <1>1
<1>3. /\ job'[w].step = "idle"
      /\ \A v \in Worker \ {w} : job'[v] = job[v]
    BY SMTT(20) DEF AcceptCommit
<1>4. /\ status'[b] = "ASSIGNED"
      /\ assigned'[b] = ProviderOf[c]
      /\ assigned'[b] # None
      /\ \A a \in Booking \ {b} : /\ status'[a] = status[a]
                                  /\ assigned'[a] = assigned[a]
    BY SMTT(20), <1>0 DEF AcceptCommit
<1>5. /\ offer'[b][c] = "ACCEPTED"
      /\ \A d \in Candidate \ {c} : offer'[b][d] \notin {"PENDING", "ACCEPTED"}
      /\ \A a \in Booking \ {b} : offer'[a] = offer[a]
    <2>1. offer' = [PendingExpired(b) EXCEPT ![b][c] = "ACCEPTED"]
        BY <1>0 DEF AcceptCommit
    <2>2. QED
        BY <1>2, <2>1, PendingExpiredType
<1>6. BookingLockExclusive' /\ OfferLockExclusive'
    <2>1. BookingLockExclusive /\ OfferLockExclusive
        BY Zenon DEF Inv
    <2> HIDE DEF BookingLockExclusive, OfferLockExclusive
    <2>2. QED
        BY <1>3, <2>1, LocksKept
<1>7. ASSUME NEW v \in Worker
      PROVE  JobSound(v)'
    <2>1. CASE v = w
        BY <1>3, <2>1
    <2>2. CASE v # w /\ job[v].b # b
        BY <1>3, <1>4, <1>5, <2>2
    <2>3. CASE v # w /\ job[v].b = b
        <3>1. job[v].step \notin BookingLockStep
            BY <1>0, <1>1, <2>3
        <3>2. Pending(b)' = {}
            BY <1>5
        <3>3. QED
            BY <1>3, <1>4, <2>3, <3>1, <3>2
    <2>4. QED
        BY <2>1, <2>2, <2>3
<1>8. AbsentIsBlank' /\ SearchingUnassigned' /\ ServedByWinner'
    <2>1. AbsentIsBlank'
        BY <1>1, <1>4, <1>5
    <2>2. SearchingUnassigned'
        BY <1>4
    <2>3. ServedByWinner'
        BY <1>4
    <2>4. QED
        BY <2>1, <2>2, <2>3
<1>9. OneWinner'
    <2>1. ASSUME NEW a \in Booking
          PROVE /\ \A d, e \in Candidate :
                    offer'[a][d] = "ACCEPTED" /\ offer'[a][e] = "ACCEPTED" => d = e
                /\ \A d \in Candidate :
                    offer'[a][d] = "ACCEPTED" => assigned'[a] = ProviderOf[d]
                /\ assigned'[a] # None =>
                    \E d \in Candidate : offer'[a][d] = "ACCEPTED"
        <3>1. CASE a = b
            BY <1>4, <1>5, <3>1
        <3>2. CASE a # b
            BY <1>4, <1>5, <3>2
        <3>3. QED
            BY <3>1, <3>2
    <2>2. QED
        BY <2>1 DEF OneWinner
<1>10. ClosedShowsNoPopup'
    <2>1. ASSUME NEW a \in Booking, status'[a] \notin Searching, NEW d \in Candidate
          PROVE  offer'[a][d] # "PENDING"
        <3>1. CASE a = b
            BY <1>1, <1>4, <1>5, <2>1, <3>1
        <3>2. CASE a # b
            BY <1>1, <1>4, <1>5, <2>1, <3>2
        <3>3. QED
            BY <3>1, <3>2
    <2>2. QED
        BY <2>1 DEF ClosedShowsNoPopup
<1>11. QED
    BY <1>6, <1>7, <1>8, <1>9, <1>10

(* A commit that closes the booking and its offers.                        *)
LEMMA CloseInv ==
    ASSUME TypeOK, Inv, NEW w \in Worker, ExpireCommit(w) \/ CancelCommit(w)
    PROVE  Inv'
<1>0. PICK b \in Booking : b = job[w].b
    BY DEF ExpireCommit, CancelCommit
<1>1. /\ job[w].step \in BookingLockStep
      /\ status[b] # "ABSENT"
      /\ assigned' = assigned
    BY <1>0 DEF ExpireCommit, CancelCommit
<1>2. /\ job'[w].step = "idle"
      /\ \A v \in Worker \ {w} : job'[v] = job[v]
    BY SMTT(60) DEF ExpireCommit, CancelCommit
<1>3. /\ status'[b] \in {"NO_PROVIDER", "CANCELLED"}
      /\ \A a \in Booking \ {b} : status'[a] = status[a]
    BY SMTT(60), <1>0 DEF ExpireCommit, CancelCommit
<1>4. /\ \A a \in Booking \ {b} : offer'[a] = offer[a]
      /\ \A c \in Candidate :
            offer'[b][c] = IF offer[b][c] = "PENDING" THEN "EXPIRED"
                                                      ELSE offer[b][c]
    <2>1. offer' = PendingExpired(b)
        BY SMTT(60), <1>0 DEF ExpireCommit, CancelCommit
    <2> HIDE DEF TypeOK, Inv, PendingExpired
    <2>2. QED
        BY <2>1, PendingExpiredType
<1>5. BookingLockExclusive' /\ OfferLockExclusive'
    <2>1. BookingLockExclusive /\ OfferLockExclusive
        BY Zenon DEF Inv
    <2> HIDE DEF BookingLockExclusive, OfferLockExclusive
    <2>2. QED
        BY <1>2, <2>1, LocksKept
<1>6. ASSUME NEW v \in Worker
      PROVE  JobSound(v)'
    <2>1. CASE v = w
        BY <1>2, <2>1
    <2>2. CASE v # w /\ job[v].b # b
        BY <1>1, <1>2, <1>3, <1>4, <2>2
    <2>3. CASE v # w /\ job[v].b = b
        <3>1. job[v].step \notin BookingLockStep
            BY <1>0, <1>1, <2>3
        <3>2. QED
            BY <1>1, <1>2, <1>3, <1>4, <2>3, <3>1
    <2>4. QED
        BY <2>1, <2>2, <2>3
<1>7. AbsentIsBlank' /\ SearchingUnassigned' /\ ServedByWinner'
    BY <1>1, <1>3, <1>4
<1>8. OneWinner'
    <2>1. \A a \in Booking : \A c \in Candidate :
            offer'[a][c] = "ACCEPTED" <=> offer[a][c] = "ACCEPTED"
        BY SMTT(20), <1>4
    <2>2. QED
        BY <1>1, <2>1
<1>9. ClosedShowsNoPopup'
    <2>1. ASSUME NEW a \in Booking, status'[a] \notin Searching, NEW d \in Candidate
          PROVE  offer'[a][d] # "PENDING"
        <3>1. CASE a = b
            BY <1>3, <1>4, <2>1, <3>1
        <3>2. CASE a # b
            BY <1>3, <1>4, <2>1, <3>2
        <3>3. QED
            BY <3>1, <3>2
    <2>2. QED
        BY <2>1 DEF ClosedShowsNoPopup
<1>10. QED
    BY <1>5, <1>6, <1>7, <1>8, <1>9

LEMMA RetryCommitInv ==
    ASSUME TypeOK, Inv, NEW w \in Worker, NEW amount \in 0 .. MaxTip,
           RetryCommit(w, amount)
    PROVE  Inv'
BY DEF RetryCommit


LEMMA NextInv ==
    ASSUME TypeOK, Inv, [Next]_vars
    PROVE  Inv'
<1>1. CASE Tick
    BY <1>1 DEF Tick
<1>2. CASE UNCHANGED vars
    BY <1>2 DEF vars
<1>3. CASE \E b \in Booking :
            \/ \E S \in (SUBSET Candidate) \ {{}} : Create(b, S)
            \/ CreateWithoutProvider(b)
    <2> HIDE DEF TypeOK, Inv
    <2>1. QED
        BY <1>3, CreateInv
<1>4. CASE \E w \in Worker : \E b \in Booking : Arrive(w, b)
    <2> HIDE DEF TypeOK, Inv
    <2>1. QED
        BY <1>4, ArriveInv
<1>5. ASSUME NEW w \in Worker, Advance(w) \/ Crash(w)
      PROVE  Inv'
    <2> HIDE DEF TypeOK, Inv, Return
    <2>1. CASE \/ PollKeep(w) \/ AcceptRefuse(w) \/ RetryRefuse(w)
               \/ StartRefuse(w) \/ VerifyRefuse(w)
               \/ DeadlockAbort(w) \/ Crash(w)
        <3>1. Return(w) /\ UNCHANGED rows
            BY <2>1 DEF PollKeep, AcceptRefuse, RetryRefuse, StartRefuse,
                        VerifyRefuse, DeadlockAbort, Crash
        <3>2. QED
            BY <3>1, ReturnInv
    <2>2. CASE \/ PollExpireOffers(w) \/ PollSave(w) \/ StartCheck(w)
               \/ StartSave(w) \/ CompleteSend(w) \/ VerifyCode(w)
               \/ VerifySave(w)
        BY <2>2, UnlockedInv
    <2>3. CASE ExpireCommit(w) \/ CancelCommit(w)
        BY <2>3, CloseInv
    <2>4. QED
        BY <1>5, <2>1, <2>2, <2>3, AcceptLockBookingInv, AcceptCheckInv,
           AcceptCommitInv, RetryCommitInv DEF Advance
<1>6. QED
    <2> HIDE DEF TypeOK, Inv
    <2>1. QED
        BY <1>1, <1>2, <1>3, <1>4, <1>5 DEF Next, Serve

-------------------------------------------------------------------------------
(* The theorems.                                                           *)

LEMMA TypeAndInv == Spec => [](TypeOK /\ Inv)
<1> HIDE DEF TypeOK, Inv, JobSound
<1>1. Init => TypeOK
    BY DEF Init, TypeOK, Idle, Job
<1>2. Init => Inv
    BY InitInv
<1>3. TypeOK /\ Inv /\ [Next]_vars => TypeOK' /\ Inv'
    <2>1. ASSUME TypeOK, Inv, [Next]_vars
          PROVE  TypeOK' /\ Inv'
        <3>1. \A w \in Worker : JobSound(w)
            BY <2>1, Zenon DEF Inv
        <3>2. QED
            BY <2>1, <3>1, NextType, NextInv
    <2>2. QED
        BY <2>1
<1>4. QED
    BY <1>1, <1>2, <1>3, PTL DEF Spec

(* Every field of every row and request stays within its type.             *)
THEOREM TypeCorrect == Spec => []TypeOK
BY TypeAndInv, PTL

(* Locks exclude, and what a request checked still holds when it writes.   *)
THEOREM InvCorrect == Spec => []Inv
BY TypeAndInv, PTL

(* At most one pop-up of a booking is ever accepted, and the provider      *)
(* behind it is the assigned one: views.py accepts under the row locks of  *)
(* the offer and of the booking.                                           *)
THEOREM OneWinnerCorrect == Spec => []OneWinner
<1>1. Inv => OneWinner
    BY DEF Inv
<1>2. QED
    BY <1>1, InvCorrect, PTL

(* No booking that stopped searching keeps a pop-up open, although the     *)
(* GETs, Start and CompleteVerify write its status without a lock.         *)
THEOREM ClosedShowsNoPopupCorrect == Spec => []ClosedShowsNoPopup
<1>1. Inv => ClosedShowsNoPopup
    BY DEF Inv
<1>2. QED
    BY <1>1, InvCorrect, PTL

(* A booking that is assigned, in progress or completed has a provider.    *)
THEOREM ServedByWinnerCorrect == Spec => []ServedByWinner
<1>1. Inv => ServedByWinner
    BY DEF Inv
<1>2. QED
    BY <1>1, InvCorrect, PTL


-------------------------------------------------------------------------------
(* Action properties and the refinement of Dispatch.                       *)

HIDE DEF TypeOK, Inv, JobSound, PendingExpired, BookingLocked, OfferLocked,
         PendingLockedByOther, BookingLockExclusive, OfferLockExclusive,
         OneWinner, ClosedShowsNoPopup, ServedByWinner, AbsentIsBlank,
         SearchingUnassigned, Begin, Goto, Return, Job, Idle

(* Only the commit of an Accept writes the provider of a booking.          *)
LEMMA AssignedBy ==
    ASSUME [Next]_vars
    PROVE  assigned' = assigned \/ \E w \in Worker : AcceptCommit(w)
<1>1. CASE UNCHANGED vars
    BY <1>1 DEF vars
<1>2. CASE Tick
    BY <1>2 DEF Tick
<1>3. ASSUME NEW b \in Booking, NEW S \in SUBSET Candidate,
             Create(b, S) \/ CreateWithoutProvider(b)
      PROVE  assigned' = assigned
    BY <1>3 DEF Create, CreateWithoutProvider
<1>4. ASSUME NEW w \in Worker, NEW b \in Booking, Arrive(w, b)
      PROVE  assigned' = assigned
    BY <1>4 DEF Arrive, PollRead, AcceptLockOffer, CancelLock, RetryLock,
                StartRead, CompleteRead, VerifyRead
<1>5. ASSUME NEW w \in Worker, Advance(w) \/ Crash(w)
      PROVE  assigned' = assigned \/ AcceptCommit(w)
    BY <1>5 DEF Advance, PollKeep, PollExpireOffers, PollSave,
                AcceptLockBooking, AcceptCheck, AcceptRefuse, ExpireCommit,
                CancelCommit, RetryCommit, RetryRefuse, StartCheck,
                StartRefuse, StartSave, CompleteSend, VerifyCode,
                VerifyRefuse, VerifySave, DeadlockAbort, Crash
<1>6. QED
    BY <1>1, <1>2, <1>3, <1>4, <1>5 DEF Next, Serve

(* Nobody but the first provider to accept is ever assigned: the provider  *)
(* is written once, by a transaction that found the booking searching.     *)
THEOREM AssignmentFinalCorrect == Spec => AssignmentFinal
<1> DEFINE Final ==
        \A b \in Booking :
            assigned'[b] # assigned[b] =>
                /\ assigned[b] = None
                /\ status[b] \in Searching
                /\ status'[b] = "ASSIGNED"
<1>1. ASSUME TypeOK, Inv, [Next]_vars, NEW b \in Booking,
             assigned'[b] # assigned[b]
      PROVE  /\ assigned[b] = None
             /\ status[b] \in Searching
             /\ status'[b] = "ASSIGNED"
    <2>1. PICK w \in Worker : AcceptCommit(w)
        BY <1>1, AssignedBy
    <2>2. job[w].b = b
        BY <1>1, <2>1 DEF AcceptCommit, TypeOK
    <2>3. status[b] \in Searching
        BY <1>1, <2>1, <2>2 DEF AcceptCommit, Inv, JobSound
    <2>4. status'[b] = "ASSIGNED"
        BY <1>1, <2>1, <2>2 DEF AcceptCommit, TypeOK
    <2>5. assigned[b] = None
        BY <1>1, <2>3 DEF Inv, SearchingUnassigned
    <2>6. QED
        BY <2>3, <2>4, <2>5
<1>2. TypeOK /\ Inv /\ [Next]_vars => Final
    BY <1>1
<1>3. TypeOK /\ Inv /\ [Next]_vars => [Final]_vars
    BY <1>2
<1>4. QED
    BY <1>3, TypeAndInv, PTL DEF Spec, AssignmentFinal

(* A request about to save COMPLETED has verified a code, and that a code  *)
(* was verified is never forgotten.                                        *)
CodeSeen ==
    \A w \in Worker : At(w, "verifySave") => "VERIFIED" \in code[job[w].b]

LEMMA CodeSeenStep ==
    ASSUME TypeOK, Inv, CodeSeen, CompletedWithCode, [Next]_vars
    PROVE  CodeSeen' /\ CompletedWithCode'
<1> USE DEF CodeSeen, CompletedWithCode, Return, Goto, Begin, Idle
<1>0. \A w \in Worker : job[w] \in Job
    BY DEF TypeOK
<1>1. CASE Tick \/ UNCHANGED vars
    BY <1>1 DEF Tick, vars
<1>2. ASSUME NEW b \in Booking, NEW S \in SUBSET Candidate,
             Create(b, S) \/ CreateWithoutProvider(b)
      PROVE  CodeSeen' /\ CompletedWithCode'
    BY <1>2 DEF Create, CreateWithoutProvider, TypeOK
<1>3. ASSUME NEW w \in Worker, NEW b \in Booking, Arrive(w, b)
      PROVE  CodeSeen' /\ CompletedWithCode'
    <2>1. \E step \in Step \ {"verifySave"}, c \in Candidate \cup {None} :
              Begin(w, step, b, c)
        BY <1>3 DEF Arrive, PollRead, AcceptLockOffer, CancelLock, RetryLock,
                    StartRead, CompleteRead, VerifyRead, Step
    <2>2. code' = code /\ status' = status
        BY <1>3 DEF Arrive, PollRead, AcceptLockOffer, CancelLock, RetryLock,
                    StartRead, CompleteRead, VerifyRead, rows
    <2>3. \A v \in Worker \ {w} : job'[v] = job[v]
        BY <2>1 DEF TypeOK
    <2>4. job'[w].step # "verifySave"
        BY <2>1 DEF TypeOK
    <2>5. CodeSeen'
        <3>1. SUFFICES ASSUME NEW v \in Worker, job'[v].step = "verifySave"
                       PROVE  "VERIFIED" \in code[job'[v].b]
            BY <2>2
        <3>2. job'[v] = job[v]
            BY <2>3, <2>4, <3>1
        <3>3. QED
            BY <3>1, <3>2
    <2>6. CompletedWithCode'
        BY <2>2
    <2>7. QED
        BY <2>5, <2>6
<1>4. ASSUME NEW w \in Worker, Advance(w) \/ Crash(w)
      PROVE  CodeSeen' /\ CompletedWithCode'
    <2>0. JobSound(w)
        BY DEF Inv
    <2>1. CASE \/ PollKeep(w) \/ AcceptLockBooking(w) \/ AcceptCheck(w)
               \/ AcceptRefuse(w) \/ RetryRefuse(w) \/ StartCheck(w)
               \/ StartRefuse(w) \/ VerifyRefuse(w) \/ DeadlockAbort(w)
               \/ PollExpireOffers(w) \/ Crash(w)
        <3>1. code' = code /\ status' = status
            BY <2>1 DEF PollKeep, AcceptLockBooking, AcceptCheck, AcceptRefuse,
                        RetryRefuse, StartCheck, StartRefuse, VerifyRefuse,
                        DeadlockAbort, PollExpireOffers, Crash
        <3>2. \E step \in Step \ {"verifySave"} : Goto(w, step) \/ Return(w)
            BY <2>1 DEF PollKeep, AcceptLockBooking, AcceptCheck, AcceptRefuse,
                        RetryRefuse, StartCheck, StartRefuse, VerifyRefuse,
                        DeadlockAbort, PollExpireOffers, Crash
        <3>3. \A v \in Worker : job'[v].step = "verifySave" => job'[v] = job[v]
            BY <3>2, <1>0 DEF TypeOK, Job
        <3>4. CodeSeen'
            BY <3>1, <3>3
        <3>5. CompletedWithCode'
            BY <3>1
        <3>6. QED
            BY <3>4, <3>5
    <2>2. CASE \/ PollSave(w) \/ AcceptCommit(w) \/ ExpireCommit(w)
               \/ CancelCommit(w) \/ StartSave(w)
               \/ \E amount \in 0 .. MaxTip : RetryCommit(w, amount)
        <3>1. PICK b \in Booking : b = job[w].b
            BY <2>0, <2>2 DEF PollSave, AcceptCommit, ExpireCommit,
                              CancelCommit, StartSave, RetryCommit, JobSound
        <3>2. code' = code /\ Return(w)
            BY <2>2 DEF PollSave, AcceptCommit, ExpireCommit, CancelCommit,
                        StartSave, RetryCommit
        <3>3. \A a \in Booking : status'[a] = "COMPLETED" => status[a] = "COMPLETED"
            BY <2>2, <3>1 DEF PollSave, AcceptCommit, ExpireCommit,
                              CancelCommit, StartSave, RetryCommit, TypeOK
        <3>4. QED
            BY <3>2, <3>3, <1>0 DEF TypeOK, Job
    <2>3. CASE CompleteSend(w)
        BY <2>0, <2>3 DEF CompleteSend, TypeOK, JobSound
    <2>4. CASE VerifyCode(w)
        <3>1. PICK b \in Booking : b = job[w].b
            BY <2>0, <2>4 DEF VerifyCode, JobSound
        <3>2. /\ code' = [code EXCEPT ![b] = (@ \ {"SENT"}) \cup {"VERIFIED"}]
              /\ status' = status
              /\ job'[w].b = b
              /\ \A v \in Worker \ {w} : job'[v] = job[v]
            BY <2>4, <3>1, <1>0 DEF VerifyCode, TypeOK, Job
        <3>3. QED
            BY SMTT(20), <3>2 DEF TypeOK
    <2>5. CASE VerifySave(w)
        BY <2>0, <2>5 DEF VerifySave, TypeOK, JobSound
    <2>6. QED
        BY <1>4, <2>1, <2>2, <2>3, <2>4, <2>5 DEF Advance
<1>5. QED
    BY <1>1, <1>2, <1>3, <1>4 DEF Next, Serve

(* Nobody completes a booking without a code of its customer having been   *)
(* verified: CompleteVerify saves COMPLETED only after                     *)
(* verify_completion_otp returned, and a resend, a crash or another        *)
(* request in between never takes the verified row away.                   *)
THEOREM CompletedWithCodeCorrect == Spec => []CompletedWithCode
<1>1. Init => CodeSeen /\ CompletedWithCode
    BY DEF Init, CodeSeen, CompletedWithCode, Idle
<1>2. TypeOK /\ Inv /\ CodeSeen /\ CompletedWithCode /\ [Next]_vars
        => CodeSeen' /\ CompletedWithCode'
    BY CodeSeenStep
<1>3. QED
    BY <1>1, <1>2, TypeAndInv, PTL DEF Spec

(* Pop-ups are taken away only from a search that is over, or by a         *)
(* transaction that ends the search with them.                             *)
LEMMA LiveSearchStep ==
    ASSUME TypeOK, Inv, LiveSearchReachable, [Next]_vars
    PROVE  LiveSearchReachable'
<1> USE DEF LiveSearchReachable, SearchOver, Pending
<1>1. CASE Tick
    BY <1>1 DEF Tick, TypeOK
<1>2. CASE UNCHANGED vars
    BY <1>2 DEF vars
<1>3. ASSUME NEW b \in Booking, NEW S \in (SUBSET Candidate) \ {{}},
             Create(b, S)
      PROVE  LiveSearchReachable'
    <2>1. PICK c \in S : offer'[b][c] = "PENDING"
        BY <1>3 DEF Create, TypeOK
    <2>2. QED
        BY <1>3, <2>1 DEF Create, TypeOK
<1>4. ASSUME NEW b \in Booking, CreateWithoutProvider(b)
      PROVE  LiveSearchReachable'
    BY <1>4 DEF CreateWithoutProvider, TypeOK
<1>5. ASSUME NEW w \in Worker, NEW b \in Booking, Arrive(w, b)
      PROVE  LiveSearchReachable'
    BY <1>5 DEF Arrive, PollRead, AcceptLockOffer, CancelLock, RetryLock,
                StartRead, CompleteRead, VerifyRead
<1>6. ASSUME NEW w \in Worker, Advance(w) \/ Crash(w)
      PROVE  LiveSearchReachable'
    <2>0. JobSound(w)
        BY DEF Inv
    <2>1. CASE \/ PollKeep(w) \/ AcceptLockBooking(w) \/ AcceptCheck(w)
               \/ AcceptRefuse(w) \/ RetryRefuse(w) \/ StartCheck(w)
               \/ StartRefuse(w) \/ CompleteSend(w) \/ VerifyCode(w)
               \/ VerifyRefuse(w) \/ DeadlockAbort(w) \/ Crash(w)
        <3>1. UNCHANGED <<clock, status, deadline, offer>>
            BY <2>1 DEF PollKeep, AcceptLockBooking, AcceptCheck, AcceptRefuse,
                        RetryRefuse, StartCheck, StartRefuse, CompleteSend,
                        VerifyCode, VerifyRefuse, DeadlockAbort, Crash
        <3>2. QED
            BY <3>1
    <2>2. CASE PollSave(w) \/ StartSave(w) \/ VerifySave(w)
        BY SMTT(20), <2>0, <2>2 DEF PollSave, StartSave, VerifySave, TypeOK, JobSound
    <2>3. CASE \E amount \in 0 .. MaxTip : RetryCommit(w, amount)
        BY <2>0, <2>3 DEF RetryCommit, TypeOK, JobSound
    <2>4. CASE \/ PollExpireOffers(w) \/ ExpireCommit(w) \/ CancelCommit(w)
               \/ AcceptCommit(w)
        <3>1. PICK b \in Booking : b = job[w].b
            BY <2>0, <2>4 DEF PollExpireOffers, ExpireCommit, CancelCommit,
                              AcceptCommit, JobSound
        <3>2. /\ \A a \in Booking \ {b} : offer'[a] = offer[a]
              /\ \A a \in Booking \ {b} : status'[a] = status[a]
              /\ UNCHANGED <<clock, deadline>>
            BY SMTT(20), <2>4, <3>1, PendingExpiredType
               DEF PollExpireOffers, ExpireCommit, CancelCommit, AcceptCommit,
                   TypeOK
        <3>3. status'[b] \notin Searching \/ deadline[b] <= clock
            BY <2>4, <3>1 DEF PollExpireOffers, ExpireCommit, CancelCommit,
                              AcceptCommit, TypeOK
        <3>4. QED
            BY <3>2, <3>3
    <2>5. QED
        BY <1>6, <2>1, <2>2, <2>3, <2>4 DEF Advance
<1>7. QED
    BY <1>1, <1>2, <1>3, <1>4, <1>5, <1>6 DEF Next, Serve

(* While its window is open, a searching booking always has a pop-up that  *)
(* somebody can accept: no rollback, crash or half-done expiry strands it. *)
THEOREM LiveSearchReachableCorrect == Spec => []LiveSearchReachable
<1>1. Init => LiveSearchReachable
    BY DEF Init, LiveSearchReachable
<1>2. TypeOK /\ Inv /\ LiveSearchReachable /\ [Next]_vars
        => LiveSearchReachable'
    BY LiveSearchStep
<1>3. QED
    BY <1>1, <1>2, TypeAndInv, PTL DEF Spec

(* The round asked for is at least 1 and does not fall while time passes.  *)
LEMMA OfferRoundRises ==
    ASSUME TypeOK, NEW b \in Booking, clock' \in {clock, clock + 1},
           deadline'[b] = deadline[b]
    PROVE  /\ OfferRound(b) \in Nat /\ OfferRound(b)' \in Nat
           /\ OfferRound(b) >= 1 /\ OfferRound(b)' >= OfferRound(b)
<1> DEFINE elapsed == clock - (deadline[b] - SearchWindow)
           later == clock' - (deadline[b] - SearchWindow)
<1>1. /\ elapsed \in Int /\ later \in Int /\ later \in {elapsed, elapsed + 1}
      /\ TipPromptInterval \in Int /\ TipPromptInterval > 0
    <2>1. clock \in Int /\ deadline[b] \in Int
        BY DEF TypeOK
    <2>2. SearchWindow \in Int /\ TipPromptInterval \in Int /\ TipPromptInterval > 0
        OBVIOUS
    <2>3. QED
        BY <2>1, <2>2
<1> HIDE DEF elapsed, later
<1>2. /\ elapsed \div TipPromptInterval \in Int /\ later \div TipPromptInterval \in Int
      /\ elapsed \div TipPromptInterval <= later \div TipPromptInterval
    <2>1. ASSUME NEW x \in Int, NEW n \in Int, n > 0
          PROVE  x \div n \in Int /\ x \div n <= (x + 1) \div n
        BY <2>1, SMT
    <2>2. CASE later = elapsed
        BY <1>1, <2>1, <2>2
    <2>3. CASE later = elapsed + 1
        BY <1>1, <2>1, <2>3
    <2>4. QED
        BY <1>1, <2>2, <2>3
<1> DEFINE r == elapsed \div TipPromptInterval + 1
           s == later \div TipPromptInterval + 1
<1>3. PICK m \in Int, n \in Int : m = r /\ n = s /\ m <= n
    BY <1>2
<1> HIDE DEF r, s
<1>4. /\ OfferRound(b) = IF m > 3 THEN 3 ELSE IF m < 1 THEN 1 ELSE m
      /\ OfferRound(b)' = IF n > 3 THEN 3 ELSE IF n < 1 THEN 1 ELSE n
    BY <1>3 DEF OfferRound, elapsed, later, r, s
<1>5. QED
    BY <1>3, <1>4

(* The round stored is never beyond the one that time has reached.         *)
RoundReached ==
    \A b \in Booking : /\ round[b] <= OfferRound(b)
                       /\ status[b] = "ABSENT" => round[b] = 0

(* A step writes a tip or a round of a booking that is searching, or is    *)
(* being created, and what it writes is no less.                           *)
PriceRises ==
    \A b \in Booking :
        /\ tip'[b] >= tip[b]
        /\ round'[b] >= round[b]
        /\ tip'[b] # tip[b] => status[b] \in Searching
        /\ tip'[b] # tip[b] \/ round'[b] # round[b] =>
              /\ status[b] \in Searching \cup {"ABSENT"}
              /\ status'[b] \in Searching

(* No step but Create and RetryCommit writes tip, round or deadline, and   *)
(* none unmakes a booking.                                                 *)
LEMMA PriceUntouched ==
    ASSUME TypeOK, RoundReached, clock' \in {clock, clock + 1},
           UNCHANGED <<tip, round, deadline>>,
           \A b \in Booking : status'[b] = "ABSENT" => status[b] = "ABSENT"
    PROVE  RoundReached' /\ PriceRises
<1>1. \A b \in Booking : tip[b] \in Nat /\ round[b] \in Nat
    BY DEF TypeOK
<1>2. PriceRises
    BY <1>1 DEF PriceRises
<1>3. ASSUME NEW b \in Booking
      PROVE  round'[b] <= OfferRound(b)'
    <2>1. OfferRound(b)' >= OfferRound(b) /\ round[b] <= OfferRound(b)
        BY OfferRoundRises DEF RoundReached
    <2>2. PICK m \in Int, n \in Int : m = OfferRound(b) /\ n = OfferRound(b)'
        BY OfferRoundRises
    <2>3. QED
        BY <1>1, <2>1, <2>2
<1>4. QED
    BY <1>2, <1>3 DEF RoundReached

LEMMA PriceStep ==
    ASSUME TypeOK, Inv, RoundReached, [Next]_vars
    PROVE  RoundReached' /\ PriceRises
<1>1. CASE Tick \/ UNCHANGED vars
    BY <1>1, PriceUntouched DEF Tick, vars
<1>2. ASSUME NEW b \in Booking, NEW S \in SUBSET Candidate, Create(b, S)
      PROVE  RoundReached' /\ PriceRises
    <2>1. /\ tip' = tip /\ clock' = clock
          /\ round' = [round EXCEPT ![b] = 1]
          /\ status[b] = "ABSENT" /\ status' = [status EXCEPT ![b] = "SEARCHING"]
          /\ round[b] = 0
        BY <1>2 DEF Create, RoundReached
    <2>2. \A a \in Booking \ {b} : /\ round'[a] = round[a] /\ status'[a] = status[a]
                                   /\ deadline'[a] = deadline[a]
        BY <1>2 DEF Create, TypeOK
    <2>3. ASSUME NEW a \in Booking \ {b}
          PROVE  OfferRound(a)' = OfferRound(a)
        BY <2>1, <2>2 DEF OfferRound
    <2>4. OfferRound(b)' = 1
        <3>1. clock' - (deadline'[b] - SearchWindow) = 0
            BY <1>2 DEF Create, TypeOK
        <3>2. 0 \div TipPromptInterval = 0
            OBVIOUS
        <3>3. QED
            BY <3>1, <3>2 DEF OfferRound
    <2>5. RoundReached'
        <3>1. ASSUME NEW a \in Booking \ {b}
              PROVE  /\ round'[a] <= OfferRound(a)'
                     /\ status'[a] = "ABSENT" => round'[a] = 0
            BY <2>2, <2>3 DEF RoundReached
        <3>2. round'[b] <= OfferRound(b)' /\ status'[b] # "ABSENT"
            BY <2>1, <2>4 DEF TypeOK
        <3>3. QED
            BY <3>1, <3>2 DEF RoundReached
    <2>6. PriceRises
        <3>1. \A a \in Booking : tip[a] \in Nat /\ round[a] \in Nat
            BY DEF TypeOK
        <3>2. round'[b] = 1 /\ status'[b] \in Searching
            BY <2>1 DEF TypeOK
        <3>3. QED
            BY <2>1, <2>2, <3>1, <3>2 DEF PriceRises
    <2>7. QED
        BY <2>5, <2>6
<1>3. ASSUME NEW b \in Booking, CreateWithoutProvider(b)
      PROVE  RoundReached' /\ PriceRises
    <2>1. \A a \in Booking : status'[a] = "ABSENT" => status[a] = "ABSENT"
        BY <1>3 DEF CreateWithoutProvider, TypeOK
    <2>2. QED
        BY <1>3, <2>1, PriceUntouched DEF CreateWithoutProvider
<1>4. ASSUME NEW w \in Worker, NEW b \in Booking, Arrive(w, b)
      PROVE  RoundReached' /\ PriceRises
    BY <1>4, PriceUntouched
       DEF Arrive, PollRead, AcceptLockOffer, CancelLock, RetryLock,
           StartRead, CompleteRead, VerifyRead
<1>5. ASSUME NEW w \in Worker, NEW amount \in 0 .. MaxTip, RetryCommit(w, amount)
      PROVE  RoundReached' /\ PriceRises
    <2>1. PICK b \in Booking : b = job[w].b /\ status[b] \in Searching
        BY <1>5 DEF RetryCommit, Inv, JobSound
    <2>2. /\ amount >= tip[b] /\ tip' = [tip EXCEPT ![b] = amount]
          /\ status' = [status EXCEPT ![b] = "SEARCHING"]
          /\ UNCHANGED <<clock, deadline>>
        BY <1>5, <2>1 DEF RetryCommit
    <2>3. round' = [round EXCEPT ![b] = OfferRound(b)]
        BY <1>5, <2>1 DEF RetryCommit
    <2>4. PICK n \in 0 .. 3 : n = OfferRound(b)
        BY OfferRoundType
    <2>5. ASSUME NEW a \in Booking
          PROVE  /\ round'[a] <= OfferRound(a)'
                 /\ status'[a] = "ABSENT" => round'[a] = 0
        <3>1. OfferRound(a)' = OfferRound(a)
            BY <2>2 DEF OfferRound
        <3>2. round[a] <= OfferRound(a) /\ (status[a] = "ABSENT" => round[a] = 0)
            BY DEF RoundReached
        <3>3. CASE a = b
            BY <2>1, <2>2, <2>3, <2>4, <3>1, <3>3 DEF TypeOK
        <3>4. CASE a # b
            BY <2>2, <2>3, <3>1, <3>2, <3>4 DEF TypeOK
        <3>5. QED
            BY <3>3, <3>4
    <2>6. RoundReached'
        BY <2>5 DEF RoundReached
    <2>7. PriceRises
        <3>1. \A a \in Booking : tip[a] \in Nat /\ round[a] \in Nat
            BY DEF TypeOK
        <3>2. /\ round[b] <= n
              /\ round'[b] = n /\ tip'[b] = amount /\ status'[b] \in Searching
            BY <2>2, <2>3, <2>4 DEF RoundReached, TypeOK
        <3>3. \A a \in Booking \ {b} : tip'[a] = tip[a] /\ round'[a] = round[a]
            BY <2>2, <2>3 DEF TypeOK
        <3>4. QED
            BY <2>1, <2>2, <3>1, <3>2, <3>3 DEF PriceRises
    <2>8. QED
        BY <2>6, <2>7
<1>6. ASSUME NEW w \in Worker,
             \/ Crash(w)
             \/ Advance(w) /\ \A amount \in 0 .. MaxTip : ~RetryCommit(w, amount)
      PROVE  RoundReached' /\ PriceRises
    <2>1. UNCHANGED <<clock, tip, round, deadline>>
        BY <1>6 DEF Advance, PollKeep, PollExpireOffers, PollSave,
                    AcceptLockBooking, AcceptCheck, AcceptRefuse, AcceptCommit,
                    ExpireCommit, CancelCommit, RetryRefuse, StartCheck,
                    StartRefuse, StartSave, CompleteSend, VerifyCode,
                    VerifyRefuse, VerifySave, DeadlockAbort, Crash
    <2>2. \A b \in Booking : status'[b] = "ABSENT" => status[b] = "ABSENT"
        BY <1>6 DEF TypeOK, Advance, PollKeep, PollExpireOffers, PollSave,
                    AcceptLockBooking, AcceptCheck, AcceptRefuse, AcceptCommit,
                    ExpireCommit, CancelCommit, RetryRefuse, StartCheck,
                    StartRefuse, StartSave, CompleteSend, VerifyCode,
                    VerifyRefuse, VerifySave, DeadlockAbort, Crash
    <2>3. QED
        BY <2>1, <2>2, PriceUntouched
<1>7. QED
    BY <1>1, <1>2, <1>3, <1>4, <1>5, <1>6 DEF Next, Serve

(* The tip the customer offers never falls, nor the round the providers    *)
(* see, and once somebody has accepted neither moves: Retry writes them    *)
(* under the lock of the booking, from a clock that only goes on.          *)
THEOREM TipOnlyRisesCorrect == Spec => TipOnlyRises
<1>1. Init => RoundReached
    <2>1. ASSUME Init PROVE RoundReached
        <3>1. TypeOK
            BY <2>1 DEF Init, TypeOK, Idle, Job
        <3>2. ASSUME NEW b \in Booking
              PROVE  round[b] <= OfferRound(b) /\ round[b] = 0
            <4>1. PICK n \in 0 .. 3 : n = OfferRound(b)
                BY <3>1, OfferRoundType
            <4>2. QED
                BY <2>1, <4>1 DEF Init
        <3>3. QED
            BY <3>2 DEF RoundReached
    <2>2. QED
        BY <2>1
<1>2. TypeOK /\ Inv /\ RoundReached /\ [Next]_vars => RoundReached' /\ [PriceRises]_vars
    BY PriceStep
<1>3. QED
    BY <1>1, <1>2, TypeAndInv, PTL DEF Spec, TipOnlyRises, PriceRises

(* The refinement mapping, by name.                                        *)
published == {b \in Booking : status[b] # "ABSENT"}
open == [b \in Booking |-> Pending(b)]
winner == [b \in Booking |-> Accepted(b)]

HIDE DEF Pending, Accepted

LEMMA MappingKept ==
    ASSUME offer' = offer,
           \A b \in Booking : status'[b] = "ABSENT" <=> status[b] = "ABSENT"
    PROVE  UNCHANGED <<published, open, winner>>
BY DEF published, open, winner, Pending, Accepted

(* Closing the offers of a booking withdraws it, if any was pending.       *)
LEMMA WithdrawStep ==
    ASSUME TypeOK, NEW b \in Booking, offer' = PendingExpired(b),
           \A a \in Booking : status'[a] = "ABSENT" <=> status[a] = "ABSENT"
    PROVE  \/ D!Withdraw(b)
           \/ UNCHANGED <<published, open, winner>>
<1>1. /\ \A a \in Booking \ {b} : offer'[a] = offer[a]
      /\ \A c \in Candidate :
            offer'[b][c] = IF offer[b][c] = "PENDING" THEN "EXPIRED"
                                                      ELSE offer[b][c]
    BY PendingExpiredType
<1>2. open' = [open EXCEPT ![b] = {}]
    <2>1. /\ Pending(b)' = {}
          /\ \A a \in Booking \ {b} : Pending(a)' = Pending(a)
        BY <1>1 DEF Pending
    <2>2. QED
        BY <2>1 DEF open
<1>3. winner' = winner
    <2>1. \A a \in Booking : Accepted(a)' = Accepted(a)
        BY <1>1 DEF Accepted
    <2>2. QED
        BY <2>1 DEF winner
<1>4. published' = published
    BY DEF published
<1>5. CASE open[b] = {}
    <2>1. open' = open
        BY <1>2, <1>5 DEF open
    <2>2. QED
        BY <1>3, <1>4, <2>1
<1>6. CASE open[b] # {}
    BY <1>2, <1>3, <1>4, <1>6 DEF D!Withdraw, published, open, winner
<1>7. QED
    BY <1>5, <1>6

LEMMA AwardStep ==
    ASSUME TypeOK, Inv, NEW w \in Worker, AcceptCommit(w)
    PROVE  \E b \in Booking, c \in Candidate : D!Award(b, c)
<1>0. PICK b \in Booking, c \in Candidate :
        /\ b = job[w].b /\ c = job[w].c
        /\ status[b] \in Searching
        /\ offer[b][c] = "PENDING"
    BY DEF AcceptCommit, Inv, JobSound
<1>1. \A d \in Candidate : offer[b][d] # "ACCEPTED"
    BY <1>0 DEF Inv, SearchingUnassigned, OneWinner
<1>2. /\ offer'[b][c] = "ACCEPTED"
      /\ \A d \in Candidate \ {c} : offer'[b][d] \notin {"PENDING", "ACCEPTED"}
      /\ \A a \in Booking \ {b} : offer'[a] = offer[a]
    <2>1. offer' = [PendingExpired(b) EXCEPT ![b][c] = "ACCEPTED"]
        BY <1>0 DEF AcceptCommit
    <2>2. PendingExpired(b) \in [Booking -> [Candidate -> OfferStatus]]
        BY PendingExpiredType
    <2>3. \A d \in Candidate :
            PendingExpired(b)[b][d] \notin {"PENDING", "ACCEPTED"}
        BY <1>1, PendingExpiredType
    <2>4. \A a \in Booking \ {b} : PendingExpired(b)[a] = offer[a]
        BY PendingExpiredType
    <2>5. QED
        BY <2>1, <2>2, <2>3, <2>4
<1>3. open' = [open EXCEPT ![b] = {}]
    <2>1. /\ Pending(b)' = {}
          /\ \A a \in Booking \ {b} : Pending(a)' = Pending(a)
        BY <1>2 DEF Pending
    <2>2. QED
        BY <2>1 DEF open
<1>4. winner' = [winner EXCEPT ![b] = {c}]
    <2>1. /\ Accepted(b)' = {c}
          /\ \A a \in Booking \ {b} : Accepted(a)' = Accepted(a)
        BY <1>2 DEF Accepted
    <2>2. QED
        BY <2>1 DEF winner
<1>5. published' = published
    BY <1>0 DEF AcceptCommit, TypeOK, published
<1>6. c \in open[b]
    BY <1>0 DEF open, Pending
<1>7. QED
    BY <1>3, <1>4, <1>5, <1>6 DEF D!Award, published, open, winner

LEMMA PublishStep ==
    ASSUME TypeOK, Inv, NEW b \in Booking, NEW S \in SUBSET Candidate,
           Create(b, S) \/ CreateWithoutProvider(b)
    PROVE  \E T \in SUBSET Candidate : D!Publish(b, T)
<1>1. status[b] = "ABSENT" /\ \A c \in Candidate : offer[b][c] = "NONE"
    BY DEF Create, CreateWithoutProvider, Inv, AbsentIsBlank
<1>2. b \notin published /\ published' = published \cup {b}
    BY DEF Create, CreateWithoutProvider, TypeOK, published
<1>3. winner' = winner
    <2>1. \A a \in Booking : Accepted(a)' = Accepted(a)
        BY <1>1 DEF Create, CreateWithoutProvider, TypeOK, Accepted
    <2>2. QED
        BY <2>1 DEF winner
<1>4. CASE Create(b, S)
    <2>1. /\ Pending(b)' = S
          /\ \A a \in Booking \ {b} : Pending(a)' = Pending(a)
        BY <1>4 DEF Create, TypeOK, Pending
    <2>2. open' = [open EXCEPT ![b] = S]
        BY <2>1 DEF open
    <2>3. QED
        BY <1>2, <1>3, <2>2 DEF D!Publish, published, open, winner
<1>5. CASE CreateWithoutProvider(b)
    <2>1. /\ Pending(b)' = {}
          /\ \A a \in Booking \ {b} : Pending(a)' = Pending(a)
        BY <1>1, <1>5 DEF CreateWithoutProvider, Pending
    <2>2. open' = [open EXCEPT ![b] = {}]
        BY <2>1 DEF open
    <2>3. QED
        BY <1>2, <1>3, <2>2 DEF D!Publish, published, open, winner
<1>6. QED
    BY <1>4, <1>5

LEMMA AdvanceStep ==
    ASSUME TypeOK, Inv, NEW w \in Worker, Advance(w) \/ Crash(w)
    PROVE  D!Next \/ UNCHANGED <<published, open, winner>>
<1>0. JobSound(w)
    BY DEF Inv
<1>1. CASE AcceptCommit(w)
    BY <1>1, AwardStep DEF D!Next
<1>2. CASE PollExpireOffers(w) \/ ExpireCommit(w) \/ CancelCommit(w)
    <2>1. PICK b \in Booking : b = job[w].b /\ offer' = PendingExpired(b)
        BY <1>0, <1>2 DEF PollExpireOffers, ExpireCommit, CancelCommit, JobSound
    <2>2. \A a \in Booking : status'[a] = "ABSENT" <=> status[a] = "ABSENT"
        BY <1>0, <1>2 DEF PollExpireOffers, ExpireCommit, CancelCommit,
                          JobSound, TypeOK
    <2>3. QED
        BY <2>1, <2>2, WithdrawStep DEF D!Next
<1>3. CASE \/ PollSave(w) \/ StartSave(w) \/ VerifySave(w)
           \/ \E amount \in 0 .. MaxTip : RetryCommit(w, amount)
    <2>1. offer' = offer
        BY <1>3 DEF PollSave, StartSave, VerifySave, RetryCommit
    <2>2. \A a \in Booking : status'[a] = "ABSENT" <=> status[a] = "ABSENT"
        BY <1>0, <1>3 DEF PollSave, StartSave, VerifySave, RetryCommit,
                          JobSound, TypeOK
    <2>3. QED
        BY <2>1, <2>2, MappingKept
<1>4. CASE \/ PollKeep(w) \/ AcceptLockBooking(w) \/ AcceptCheck(w)
           \/ AcceptRefuse(w) \/ RetryRefuse(w) \/ StartCheck(w)
           \/ StartRefuse(w) \/ CompleteSend(w) \/ VerifyCode(w)
           \/ VerifyRefuse(w) \/ DeadlockAbort(w) \/ Crash(w)
    <2>1. offer' = offer /\ status' = status
        BY <1>4 DEF PollKeep, AcceptLockBooking, AcceptCheck, AcceptRefuse,
                    RetryRefuse, StartCheck, StartRefuse, CompleteSend,
                    VerifyCode, VerifyRefuse, DeadlockAbort, Crash
    <2>2. QED
        BY <2>1, MappingKept
<1>5. QED
    BY <1>1, <1>2, <1>3, <1>4 DEF Advance

LEMMA RefinementStep ==
    ASSUME TypeOK, Inv, [Next]_vars
    PROVE  D!Next \/ UNCHANGED <<published, open, winner>>
<1>1. CASE Tick \/ UNCHANGED vars
    BY <1>1, MappingKept DEF Tick, vars
<1>2. ASSUME NEW b \in Booking, NEW S \in SUBSET Candidate,
             Create(b, S) \/ CreateWithoutProvider(b)
      PROVE  D!Next
    BY <1>2, PublishStep DEF D!Next
<1>3. ASSUME NEW w \in Worker, NEW b \in Booking, Arrive(w, b)
      PROVE  UNCHANGED <<published, open, winner>>
    BY <1>3, MappingKept
       DEF Arrive, PollRead, AcceptLockOffer, CancelLock, RetryLock,
           StartRead, CompleteRead, VerifyRead
<1>4. ASSUME NEW w \in Worker, Advance(w) \/ Crash(w)
      PROVE  D!Next \/ UNCHANGED <<published, open, winner>>
    BY <1>4, AdvanceStep
<1>5. QED
    BY <1>1, <1>2, <1>3, <1>4 DEF Next, Serve

(* The handlers implement Dispatch: a booking is offered once, won by at   *)
(* most one of those it is still open to, and never opened again.          *)
THEOREM DispatchCorrect == Spec => DispatchSpec
<1>1. Init => D!Init
    BY DEF Init, D!Init, Pending, Accepted
<1>2. TypeOK /\ Inv /\ [Next]_vars => [D!Next]_(D!vars)
    BY RefinementStep DEF D!vars, published, open, winner
<1>3. QED
    BY <1>1, <1>2, TypeAndInv, PTL DEF Spec, DispatchSpec, D!Spec

===============================================================================
