------------------------- MODULE AccountDeletionProofs -------------------------
(* Proofs about AccountDeletion, for any users, bookings, periods and      *)
(* requests in flight.                                                     *)
EXTENDS AccountDeletion, TLAPS

USE ConstantsAssumption

Processing == {"check", "finalize", "commit", "hold", "extend", "cancel"}

SweepSound == sweep.step \in Processing => sweep.u \in User

JobSound(w) ==
    /\ job[w].step \in {"insert", "reset", "cancel", "switch"} => job[w].u \in User
    /\ job[w].step = "book" => job[w].b \in Booking

(* Nothing that was seen of the user is open.                              *)
SeenEnded(u) == \A b \in Booking \ unseen : Ended(b, u)

(* An account about to be deleted is as clear as a deleted one: this is    *)
(* what the second check of finalize_deletion establishes, with what is    *)
(* known of businesses it passes over.                                     *)
CommitSound == sweep.step = "commit" => SeenEnded(sweep.u)

(* Nothing that was seen of a business about to be given up is open.       *)
SwitchSound(w) ==
    job[w].step = "switch" =>
        \A b \in Booking \ unseen : OwnerOf[b] = job[w].u => booking[b] # "OPEN"

Clearances ==
    /\ CommitSound
    /\ \A w \in Worker : SwitchSound(w)
    /\ DeletedWasClear

Sound ==
    /\ TypeOK
    /\ SweepSound
    /\ \A w \in Worker : JobSound(w)
    /\ Clearances

-------------------------------------------------------------------------------
LEMMA EmptyRows ==
    /\ NoSweep \in Sweep /\ NoSweep.step = "idle"
    /\ Idle \in Job /\ Idle.step = "idle"
BY DEF NoSweep, NoVerdict, Sweep, Verdict, Idle, Job

LEMMA InitSound == Init => Sound
<1>. SUFFICES ASSUME Init PROVE Sound
  OBVIOUS
<1>1. TypeOK
  BY EmptyRows DEF Init, TypeOK, RequestStatus
<1>2. SweepSound /\ CommitSound /\ \A w \in Worker : JobSound(w) /\ SwitchSound(w)
  BY EmptyRows DEF Init, SweepSound, CommitSound, JobSound, SwitchSound, Processing
<1>3. DeletedWasClear
  BY DEF Init, DeletedWasClear
<1>4. QED
  BY <1>1, <1>2, <1>3 DEF Sound, Clearances

(* A step of the command to the next one.                                  *)
LEMMA GotoSound ==
    ASSUME Sound, sweep.step \in Processing,
           NEW step \in {"next", "finalize", "commit", "hold", "extend", "cancel"},
           SweepGoto(step)
    PROVE  /\ sweep' \in Sweep
           /\ sweep'.step = step
           /\ step # "next" => sweep'.u = sweep.u
           /\ SweepSound'
<1>1. sweep \in Sweep /\ sweep.u \in User
  BY DEF Sound, TypeOK, SweepSound
<1>2. CASE step = "next"
  <2>. DEFINE a == [sweep EXCEPT !.step = step]
              b == [a EXCEPT !.verdict[sweep.u] = "skip"]
  <2>1. a \in Sweep /\ a.step = "next"
    BY <1>1, <1>2 DEF Sweep
  <2>2. sweep' = [b EXCEPT !.u = None]
    BY <1>2 DEF SweepGoto
  <2>. HIDE DEF a
  <2>3. b \in Sweep /\ b.step = "next"
    BY <1>1, <2>1 DEF Sweep, Verdict
  <2>. HIDE DEF b
  <2>4. sweep' \in Sweep /\ sweep'.step = "next"
    BY <2>2, <2>3 DEF Sweep
  <2>5. QED
    BY <1>2, <2>4 DEF SweepSound, Processing
<1>3. CASE step # "next"
  <2>1. sweep' = [sweep EXCEPT !.step = step]
    BY <1>3 DEF SweepGoto
  <2>2. sweep' \in Sweep /\ sweep'.step = step /\ sweep'.u = sweep.u
    BY <1>1, <2>1 DEF Sweep
  <2>3. QED
    BY <1>1, <2>2 DEF SweepSound
<1>4. QED
  BY <1>2, <1>3

(* While bookings, businesses and deletions stay, so does what is clear,   *)
(* if nobody comes to the decision to delete or to close.                  *)
LEMMA ClearKept ==
    ASSUME Sound, UNCHANGED <<booking, deleted, active, unseen>>,
           sweep'.step = "commit" =>
               sweep'.u = sweep.u /\ (sweep.step = "commit" \/ Clear(sweep.u)),
           \A w \in Worker :
               job'[w].step = "switch" =>
                   /\ job'[w].u \in User
                   /\ job'[w] = job[w] \/ ~BusinessBlocked(job'[w].u)
    PROVE  Clearances'
<1>1. DeletedWasClear'
  BY DEF Sound, Clearances, DeletedWasClear, Ended, CustomerWaits
<1>2. Clear(sweep.u) => SeenEnded(sweep.u)
  BY DEF Sound, Clearances, DeletedWasClear, Clear, BusinessBlocked, SeenEnded, Ended
<1>3. CommitSound'
  BY <1>2 DEF Sound, Clearances, CommitSound, SeenEnded, Ended, CustomerWaits
<1>4. ASSUME NEW w \in Worker PROVE SwitchSound(w)'
  BY DEF Sound, Clearances, SwitchSound, BusinessBlocked
<1>5. QED
  BY <1>1, <1>3, <1>4 DEF Clearances

-------------------------------------------------------------------------------
(* The command.                                                            *)

LEMMA SweepStartSound ==
    ASSUME Sound, SweepRead \/ SweepEnd \/ \E u \in User : SweepNext(u)
    PROVE  Sound'
<1>1. UNCHANGED <<rows, job>>
  BY DEF SweepRead, SweepEnd, SweepNext
<1>2. /\ sweep' \in Sweep
      /\ sweep'.step # "commit"
      /\ sweep'.step \in Processing => sweep'.u \in User
  <2>1. CASE SweepRead
    <3>. DEFINE verdict == [u \in User |->
              CASE request[u] = "PENDING" /\ grace[u] = 0 -> "due"
                [] request[u] = "ON_HOLD" /\ extension[u] > 0 -> "held"
                [] request[u] = "ON_HOLD" /\ extension[u] = 0 -> "heldExpired"
                [] OTHER -> "skip"]
               a == [NoSweep EXCEPT !.step = "next"]
    <3>1. verdict \in [User -> Verdict]
      BY DEF Verdict
    <3>2. a \in Sweep /\ a.step = "next"
      BY EmptyRows DEF Sweep
    <3>3. sweep' = [a EXCEPT !.verdict = verdict]
      BY <2>1 DEF SweepRead
    <3>. HIDE DEF a, verdict
    <3>4. QED
      BY <3>1, <3>2, <3>3 DEF Sweep, Processing
  <2>2. CASE SweepEnd
    BY <2>2, EmptyRows DEF SweepEnd, Processing
  <2>3. CASE \E u \in User : SweepNext(u)
    <3>1. PICK u \in User : sweep' = [sweep EXCEPT !.step = "check", !.u = u]
      BY <2>3 DEF SweepNext
    <3>. DEFINE a == [sweep EXCEPT !.step = "check"]
    <3>2. a \in Sweep /\ a.step = "check"
      BY DEF Sound, TypeOK, Sweep
    <3>3. sweep' = [a EXCEPT !.u = u]
      BY <3>1
    <3>. HIDE DEF a
    <3>4. QED
      BY <3>2, <3>3 DEF Sweep
  <2>4. QED
    BY <2>1, <2>2, <2>3
<1>3. Clearances'
  BY <1>1, <1>2, ClearKept DEF rows, Sound, JobSound
<1>4. QED
  BY <1>1, <1>2, <1>3 DEF Sound, TypeOK, rows, SweepSound, JobSound

LEMMA SweepCheckSound ==
    ASSUME Sound, SweepCheck \/ FinalizeCheck
    PROVE  Sound'
<1>1. UNCHANGED <<rows, job>>
  BY DEF SweepCheck, FinalizeCheck
<1>2. /\ sweep' \in Sweep /\ SweepSound'
      /\ sweep'.step = "commit" => Clear(sweep.u) /\ sweep'.u = sweep.u
  <2>1. CASE SweepCheck
    <3>1. PICK step \in {"next", "finalize", "hold", "extend", "cancel"} : SweepGoto(step)
      BY <2>1 DEF SweepCheck
    <3>2. sweep.step \in Processing
      BY <2>1 DEF SweepCheck, Processing
    <3>3. QED
      BY <3>1, <3>2, GotoSound
  <2>2. CASE FinalizeCheck
    <3>1. PICK step \in {"next", "commit"} :
              SweepGoto(step) /\ (step = "commit" => Clear(sweep.u))
      BY <2>2 DEF FinalizeCheck
    <3>2. sweep.step \in Processing
      BY <2>2 DEF FinalizeCheck, Processing
    <3>3. QED
      BY <3>1, <3>2, GotoSound
  <2>3. QED
    BY <2>1, <2>2
<1>3. Clearances'
  BY <1>1, <1>2, ClearKept DEF rows, Sound, JobSound
<1>4. QED
  BY <1>1, <1>2, <1>3 DEF Sound, TypeOK, rows, JobSound

LEMMA FinalizeCommitSound ==
    ASSUME Sound, FinalizeCommit
    PROVE  Sound'
<1>. DEFINE u == sweep.u
<1>1. /\ u \in User /\ SeenEnded(u)
      /\ deleted' = deleted \cup {u} /\ active' = active \ {u}
      /\ request' = [request EXCEPT ![u] = "COMPLETED"]
      /\ UNCHANGED <<grace, extension, booking, unseen, job>>
  BY DEF FinalizeCommit, Sound, Clearances, SweepSound, CommitSound, Processing
<1>2. sweep' \in Sweep /\ sweep'.step = "next" /\ SweepSound'
  BY GotoSound DEF FinalizeCommit, Processing
<1>. HIDE DEF u
<1>3. /\ request' \in [User -> RequestStatus]
      /\ deleted' \subseteq User /\ active' \subseteq BusinessUser
  BY <1>1 DEF Sound, TypeOK, RequestStatus
<1>4. DeletedWasClear'
  <2>1. ASSUME NEW v \in deleted' PROVE SeenEnded(v)
    BY <1>1, <2>1 DEF Sound, Clearances, DeletedWasClear, SeenEnded
  <2>2. \A b \in Booking \ unseen : OwnerOf[b] \notin active' => booking[b] # "OPEN"
    BY <1>1 DEF Sound, Clearances, DeletedWasClear, SeenEnded, Ended
  <2>3. QED
    BY <1>1, <2>1, <2>2 DEF DeletedWasClear, SeenEnded, Ended, CustomerWaits
<1>5. Clearances'
  BY <1>1, <1>2, <1>4 DEF Sound, Clearances, CommitSound, SwitchSound
<1>6. QED
  BY <1>1, <1>2, <1>3, <1>5 DEF Sound, TypeOK, JobSound

LEMMA DecideSound ==
    ASSUME Sound, PutOnHold \/ MarkConditionsCleared \/ SweepCancel
    PROVE  Sound'
<1>1. /\ UNCHANGED <<grace, deleted, active, booking, unseen, job>>
      /\ sweep.step \in Processing /\ SweepGoto("next")
  BY DEF PutOnHold, MarkConditionsCleared, SweepCancel, Processing
<1>2. sweep' \in Sweep /\ sweep'.step = "next" /\ SweepSound'
  BY <1>1, GotoSound
<1>3. request' \in [User -> RequestStatus]
  BY DEF Sound, TypeOK, RequestStatus, PutOnHold, MarkConditionsCleared, SweepCancel
<1>4. extension' \in [User -> 0 .. ExtensionPeriod]
  BY DEF Sound, TypeOK, PutOnHold, MarkConditionsCleared, SweepCancel
<1>5. Clearances'
  BY <1>1, <1>2, ClearKept DEF Sound, JobSound
<1>6. QED
  BY <1>1, <1>2, <1>3, <1>4, <1>5 DEF Sound, TypeOK, JobSound

-------------------------------------------------------------------------------
(* The requests of users.                                                  *)

LEMMA BeginSound ==
    ASSUME Sound, NEW w \in Worker, NEW step \in {"insert", "reset", "cancel", "book", "switch"},
           NEW u \in User, NEW b \in Booking \cup {None}, Begin(w, step, u, b),
           step = "book" => b \in Booking,
           step = "switch" => ~BusinessBlocked(u)
    PROVE  Sound'
<1>1. /\ job' = [job EXCEPT ![w] = [step |-> step, u |-> u, b |-> b]]
      /\ UNCHANGED <<rows, sweep>>
  BY DEF Begin
<1>2. job' \in [Worker -> Job]
  BY <1>1 DEF Sound, TypeOK, Job
<1>3. \A v \in Worker : JobSound(v)'
  BY <1>1 DEF Sound, TypeOK, JobSound
<1>4. \A v \in Worker :
          job'[v].step = "switch" =>
              /\ job'[v].u \in User
              /\ job'[v] = job[v] \/ ~BusinessBlocked(job'[v].u)
  BY <1>1 DEF Sound, TypeOK, JobSound
<1>5. Clearances'
  BY <1>1, <1>4, ClearKept DEF rows
<1>6. QED
  BY <1>1, <1>2, <1>3, <1>5 DEF Sound, TypeOK, SweepSound, rows

LEMMA ReturnSound ==
    ASSUME Sound, NEW w \in Worker, Return(w)
    PROVE  /\ job' \in [Worker -> Job]
           /\ \A v \in Worker : JobSound(v)'
           /\ job'[w] = Idle /\ \A v \in Worker \ {w} : job'[v] = job[v]
<1>1. job \in [Worker -> Job]
  BY DEF Sound, TypeOK
<1>2. job'[w] = Idle /\ \A v \in Worker \ {w} : job'[v] = job[v]
  BY <1>1 DEF Return
<1>3. ASSUME NEW v \in Worker PROVE JobSound(v)'
  BY <1>2, EmptyRows DEF Sound, JobSound
<1>4. QED
  BY <1>1, <1>2, <1>3, EmptyRows DEF Return

LEMMA SaveSound ==
    ASSUME Sound, NEW w \in Worker, CreateSave(w) \/ CancelSave(w)
    PROVE  Sound'
<1>1. Return(w) /\ UNCHANGED <<deleted, active, booking, unseen, sweep>>
  BY DEF CreateSave, CancelSave
<1>2. /\ request' \in [User -> RequestStatus]
      /\ grace' \in [User -> 0 .. GracePeriod]
      /\ extension' \in [User -> 0 .. ExtensionPeriod]
  <2>1. CASE CreateSave(w)
    <3>1. /\ 0 \in 0 .. ExtensionPeriod /\ GracePeriod \in 0 .. GracePeriod
          /\ "PENDING" \in RequestStatus
      BY DEF RequestStatus
    <3>2. CASE UNCHANGED <<request, grace, extension>>
      BY <3>2 DEF Sound, TypeOK
    <3>3. CASE /\ request' = [request EXCEPT ![job[w].u] = "PENDING"]
               /\ grace' = [grace EXCEPT ![job[w].u] = GracePeriod]
               /\ extension' = [extension EXCEPT ![job[w].u] = 0]
      BY <3>1, <3>3 DEF Sound, TypeOK
    <3>4. QED
      BY <2>1, <3>2, <3>3 DEF CreateSave
  <2>2. CASE CancelSave(w)
    BY <2>2 DEF CancelSave, Sound, TypeOK, RequestStatus
  <2>3. QED
    BY <2>1, <2>2
<1>3. Clearances'
  BY <1>1, ReturnSound, ClearKept, EmptyRows DEF Sound, JobSound
<1>4. QED
  BY <1>1, <1>2, <1>3, ReturnSound DEF Sound, TypeOK, SweepSound

(* A business given up while nothing that was seen of it is open.          *)
LEMMA SwitchSaveSound ==
    ASSUME Sound, NEW w \in Worker, SwitchSave(w)
    PROVE  Sound'
<1>1. /\ active' = active \ {job[w].u} /\ Return(w)
      /\ UNCHANGED <<request, grace, extension, deleted, booking, unseen, sweep>>
  BY DEF SwitchSave
<1>2. \A b \in Booking \ unseen : OwnerOf[b] = job[w].u => booking[b] # "OPEN"
  BY DEF SwitchSave, Sound, Clearances, SwitchSound
<1>3. DeletedWasClear'
  BY <1>1, <1>2 DEF Sound, Clearances, DeletedWasClear, Ended, CustomerWaits
<1>4. CommitSound'
  BY <1>1 DEF Sound, Clearances, CommitSound, SeenEnded, Ended, CustomerWaits
<1>5. \A v \in Worker : SwitchSound(v)'
  BY <1>1, ReturnSound, EmptyRows DEF Sound, Clearances, SwitchSound
<1>6. QED
  BY <1>1, <1>3, <1>4, <1>5, ReturnSound DEF Sound, Clearances, TypeOK, SweepSound

(* Made too late to be seen by a check, a booking is on the record.        *)
LEMMA BookSaveSound ==
    ASSUME Sound, NEW w \in Worker, BookSave(w)
    PROVE  Sound'
<1>0. PICK b \in Booking : b = job[w].b
  BY DEF BookSave, Sound, JobSound
<1>. DEFINE parties == {CustomerOf[b], OwnerOf[b]}
<1>1. /\ booking' = [booking EXCEPT ![b] = "OPEN"]
      /\ unseen' = IF \/ parties \cap deleted # {}
                      \/ sweep.step = "commit" /\ sweep.u \in parties
                      \/ OwnerOf[b] \notin active
                      \/ \E v \in Worker : /\ job[v].step = "switch"
                                          /\ job[v].u = OwnerOf[b]
                   THEN unseen \cup {b} ELSE unseen
      /\ Return(w)
      /\ UNCHANGED <<request, grace, extension, deleted, active, sweep>>
  BY <1>0 DEF BookSave
<1>2. /\ booking' \in [Booking -> {"ABSENT", "OPEN", "COMPLETED", "CANCELLED"}]
      /\ unseen \subseteq unseen' /\ unseen' \subseteq Booking
  BY <1>1 DEF Sound, TypeOK
<1>3. \A c \in Booking \ {b} : booking'[c] = booking[c]
  BY <1>1 DEF Sound, TypeOK
<1>4. \A c \in Booking \ {b}, u \in User : Ended(c, u)' <=> Ended(c, u)
  BY <1>3 DEF Ended, CustomerWaits
<1>5. \A u \in User \ parties : Ended(b, u)'
  BY DEF Ended
<1>6. DeletedWasClear'
  <2>1. ASSUME NEW c \in Booking \ unseen', NEW u \in deleted'
        PROVE  Ended(c, u)'
    BY <1>1, <1>2, <1>4, <1>5, <2>1 DEF Sound, TypeOK, Clearances, DeletedWasClear
  <2>2. ASSUME NEW c \in Booking \ unseen', OwnerOf[c] \notin active'
        PROVE  booking'[c] # "OPEN"
    BY <1>1, <1>2, <1>3, <2>2 DEF Sound, Clearances, DeletedWasClear
  <2>3. QED
    BY <2>1, <2>2 DEF DeletedWasClear
<1>7. ASSUME NEW u \in User, sweep.step = "commit", u = sweep.u, NEW c \in Booking \ unseen'
      PROVE  Ended(c, u)'
  <2>1. SeenEnded(u)
    BY <1>7 DEF Sound, Clearances, CommitSound
  <2>2. CASE c = b
    BY <1>1, <1>5, <1>7, <2>2
  <2>3. CASE c # b
    BY <1>2, <1>4, <1>7, <2>1, <2>3 DEF SeenEnded
  <2>4. QED
    BY <2>2, <2>3
<1>8. CommitSound'
  <2>1. sweep.step = "commit" => sweep.u \in User
    BY DEF Sound, SweepSound, Processing
  <2>2. QED
    BY <1>1, <1>7, <2>1 DEF CommitSound, SeenEnded, Ended, CustomerWaits
<1>9. ASSUME NEW v \in Worker PROVE SwitchSound(v)'
  BY <1>1, <1>2, <1>3, ReturnSound, EmptyRows DEF Sound, Clearances, SwitchSound
<1>10. QED
  BY <1>1, <1>2, <1>6, <1>8, <1>9, ReturnSound DEF Sound, Clearances, TypeOK, SweepSound

(* A booking that ends was open, and keeps nobody waiting that it did not. *)
LEMMA BookingEndSound ==
    ASSUME Sound, NEW b \in Booking, NEW end \in {"COMPLETED", "CANCELLED"},
           BookingEnd(b, end)
    PROVE  Sound'
<1>1. /\ booking[b] = "OPEN" /\ booking' = [booking EXCEPT ![b] = end]
      /\ UNCHANGED <<request, grace, extension, deleted, active, unseen, sweep, job>>
  BY DEF BookingEnd
<1>2. booking' \in [Booking -> {"ABSENT", "OPEN", "COMPLETED", "CANCELLED"}]
  BY <1>1 DEF Sound, TypeOK
<1>3. \A c \in Booking : booking[c] # "OPEN" => booking'[c] # "OPEN"
  BY <1>1 DEF Sound, TypeOK
<1>4. \A c \in Booking, u \in User : Ended(c, u) => Ended(c, u)'
  BY <1>1 DEF Ended, CustomerWaits, Sound, TypeOK
<1>5. DeletedWasClear'
  BY <1>1, <1>3, <1>4 DEF Sound, TypeOK, Clearances, DeletedWasClear
<1>6. CommitSound'
  <2>1. sweep.step = "commit" => sweep.u \in User /\ SeenEnded(sweep.u)
    BY DEF Sound, Clearances, SweepSound, CommitSound, Processing
  <2>2. ASSUME NEW u \in User, NEW c \in Booking \ unseen, SeenEnded(u)
        PROVE  Ended(c, u)'
    BY <1>4, <2>2 DEF SeenEnded
  <2>3. QED
    BY <1>1, <2>1, <2>2 DEF CommitSound, SeenEnded, Ended, CustomerWaits
<1>7. \A w \in Worker : SwitchSound(w)'
  BY <1>1, <1>3 DEF Sound, Clearances, SwitchSound
<1>8. QED
  BY <1>1, <1>2, <1>5, <1>6, <1>7 DEF Sound, Clearances, TypeOK, SweepSound, JobSound

LEMMA TickSound ==
    ASSUME Sound, Tick
    PROVE  Sound'
<1>1. UNCHANGED <<request, deleted, active, booking, unseen, sweep, job>>
  BY DEF Tick
<1>2. grace' \in [User -> 0 .. GracePeriod] /\ extension' \in [User -> 0 .. ExtensionPeriod]
  BY DEF Tick, Sound, TypeOK
<1>3. Clearances'
  BY <1>1, ClearKept DEF Sound, JobSound
<1>4. QED
  BY <1>1, <1>2, <1>3 DEF Sound, TypeOK, SweepSound, JobSound

-------------------------------------------------------------------------------
(* The theorems.                                                           *)

LEMMA StepSound == Sound /\ [Next]_vars => Sound'
<1>. SUFFICES ASSUME Sound, [Next]_vars PROVE Sound'
  OBVIOUS
<1>1. CASE Command
  BY <1>1, SweepStartSound, SweepCheckSound, FinalizeCommitSound, DecideSound DEF Command
<1>2. CASE Tick
  BY <1>2, TickSound
<1>3. ASSUME NEW w \in Worker, NEW u \in User,
             CreateRead(w, u) \/ CancelRead(w, u) \/ SwitchRead(w, u)
      PROVE  Sound'
  BY <1>3, BeginSound DEF CreateRead, CancelRead, SwitchRead
<1>4. ASSUME NEW w \in Worker, NEW b \in Booking, BookRead(w, b)
      PROVE  Sound'
  BY <1>4, BeginSound DEF BookRead
<1>5. ASSUME NEW w \in Worker, Advance(w)
      PROVE  Sound'
  BY <1>5, SaveSound, BookSaveSound, SwitchSaveSound DEF Advance
<1>6. ASSUME NEW b \in Booking, NEW end \in {"COMPLETED", "CANCELLED"}, BookingEnd(b, end)
      PROVE  Sound'
  BY <1>6, BookingEndSound
<1>7. CASE UNCHANGED vars
  <2>1. Clearances'
    BY <1>7, ClearKept DEF vars, rows, Sound, JobSound
  <2>2. QED
    BY <1>7, <2>1 DEF vars, rows, Sound, TypeOK, SweepSound, JobSound
<1>8. QED
  BY <1>1, <1>2, <1>3, <1>4, <1>5, <1>6, <1>7 DEF Next

LEMMA Invariant == Spec => []Sound
BY InitSound, StepSound, PTL DEF Spec

(* Every variable keeps its type.                                          *)
THEOREM TypeCorrect == Spec => []TypeOK
<1>1. Sound => TypeOK
  BY DEF Sound
<1>2. QED
  BY <1>1, Invariant, PTL

(* No account is deleted and no business closed over a booking that the    *)
(* last check could see, for any number of users, bookings and requests.   *)
THEOREM NeverOverOpenBookings == Spec => []DeletedWasClear
<1>1. Sound => DeletedWasClear
  BY DEF Sound, Clearances
<1>2. QED
  BY <1>1, Invariant, PTL
===============================================================================
