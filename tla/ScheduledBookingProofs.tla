------------------------ MODULE ScheduledBookingProofs ------------------------
(***************************************************************************)
(* What ScheduledBooking guarantees for any number of bookings, slots,     *)
(* providers and concurrent requests.                                      *)
(*                                                                         *)
(* Everything rests on the row locks: create_bookings that hold a provider *)
(* in common do not overlap, neither do two assignments.  What a request   *)
(* found while it held its locks is still true when it inserts.            *)
(***************************************************************************)
EXTENDS ScheduledBooking, TLAPS, SequenceTheorems, WellFoundedInduction

USE ConstantsAssumption
USE DEF Status, Step, CreateStep, AssignStep, ReassignStep, SaveStep, At, rows

(* What the fields of a request mean at each of its steps.                 *)
Fits(j) ==
    /\ j.step \notin CreateStep => j.held = {}
    /\ j.step # "idle" => j.b \in Booking
    /\ j.step \in CreateStep =>
        /\ status[j.b] = "ABSENT"
        /\ j.held \subseteq Eligible[j.b]
    /\ j.step = "createInsert" => j.e \in Eligible[j.b] /\ j.held = Eligible[j.b]
    /\ j.step \notin CreateStep \cup {"idle"} => status[j.b] # "ABSENT"
    /\ j.step \in AssignStep \cup ReassignStep => ~Individual
    /\ j.step \in AssignStep \cup {"reassignSave", "reassignSync"} =>
        j.e \in Provider
    /\ j.step = "reassignSave" => j.i \in 1 .. Len(crew[j.b])

(* What the locks exclude.                                                 *)
Apart(j, k) ==
    /\ j.held \cap k.held = {}
    /\ j.step \in CreateStep /\ k.step \in CreateStep => j.b # k.b
    /\ ~(j.step \in AssignStep /\ k.step \in AssignStep)

Sound ==
    /\ TypeOK
    /\ \A w \in Worker : Fits(job[w])
    /\ \A v, w \in Worker : v # w => Apart(job[v], job[w])

-------------------------------------------------------------------------------
(* The tables of the status transitions.                                   *)

LEMMA FromDomain ==
    /\ DOMAIN From = {"accept", "reject", "cancel", "startCheck", "verify"}
    /\ \A move \in DOMAIN From : "ABSENT" \notin From[move]
BY DEF From

LEMMA ToStatus ==
    \A move \in SaveStep : To[move] \in Status \ {"ABSENT", "PENDING"}
BY DEF To

-------------------------------------------------------------------------------
(* Facts of arithmetic.                                                    *)

LEMMA LastIndex == \A n \in Nat : \A i \in 1 .. n + 1 : i \in 1 .. n \/ i = n + 1
OBVIOUS

LEMMA LessOrEqual ==
    \A m, n \in Nat :
        /\ m <= n /\ m # n => m < n
        /\ m <= n /\ n <= m => m = n
OBVIOUS

-------------------------------------------------------------------------------
(* Types.                                                                  *)

(* A step that changes no row.                                             *)
LEMMA JobStepSound ==
    ASSUME Sound, NEW w \in Worker, UNCHANGED rows,
           \E j \in Job :
               /\ job' = [job EXCEPT ![w] = j]
               /\ Fits(j)
               /\ \A v \in Worker \ {w} : Apart(job[v], j)
    PROVE  Sound'
<1>1. PICK j \in Job : /\ job' = [job EXCEPT ![w] = j]
                       /\ Fits(j)
                       /\ \A v \in Worker \ {w} : Apart(job[v], j)
    OBVIOUS
<1>2. TypeOK'
    BY <1>1 DEF Sound, TypeOK
<1>3. (\A v \in Worker : Fits(job[v]))'
  <2>1. \A v \in Worker : job'[v] = IF v = w THEN j ELSE job[v]
      BY <1>1 DEF Sound, TypeOK
  <2>2. \A v \in Worker : Fits(job'[v])
      BY <1>1, <2>1 DEF Sound
  <2>3. QED
      BY <2>2, Zenon DEF Fits
<1>4. \A v, u \in Worker : v # u => Apart(job'[v], job'[u])
    BY <1>1 DEF Sound, TypeOK, Apart
<1>5. QED
    BY <1>2, <1>3, <1>4, Zenon DEF Sound, Apart

LEMMA ArriveSound ==
    ASSUME Sound, NEW w \in Worker, NEW b \in Booking, Arrive(w, b)
    PROVE  Sound'
<1> DEFINE Begun(j) ==
        /\ job' = [job EXCEPT ![w] = j]
        /\ Fits(j)
        /\ \A v \in Worker \ {w} : Apart(job[v], j)
<1>1. UNCHANGED rows
    BY DEF Arrive, CreateBegin, TransitionRead, AssignLock, ReassignRead
<1>2. CASE CreateBegin(w, b)
  <2> DEFINE j == [Idle EXCEPT !.step = "create", !.b = b]
  <2>1. j \in Job
      BY DEF Idle, Job
  <2>2. Begun(j)
      BY <1>2 DEF CreateBegin, Begin, Idle, Fits, Apart
  <2>3. QED
      BY <1>1, <2>1, <2>2, JobStepSound
<1>3. ASSUME NEW move \in DOMAIN From, TransitionRead(w, b, move)
      PROVE  Sound'
  <2> DEFINE j == [Idle EXCEPT !.step = move, !.b = b]
  <2>1. /\ move \in {"accept", "reject", "cancel", "startCheck", "verify"}
        /\ status[b] # "ABSENT"
      BY <1>3, FromDomain DEF TransitionRead
  <2>2. j \in Job
      BY <2>1 DEF Idle, Job
  <2>3. Begun(j)
      BY <1>3, <2>1 DEF TransitionRead, Begin, Idle, Fits, Apart
  <2>4. QED
      BY <1>1, <2>2, <2>3, JobStepSound
<1>4. ASSUME NEW e \in Provider, AssignLock(w, b, e)
      PROVE  Sound'
  <2> DEFINE j == [Idle EXCEPT !.step = "assign", !.b = b, !.e = e]
  <2>1. j \in Job
      BY DEF Idle, Job
  <2>2. Begun(j)
      BY <1>4 DEF AssignLock, BusinessLocked, Idle, Fits, Apart
  <2>3. QED
      BY <1>1, <2>1, <2>2, JobStepSound
<1>5. CASE ReassignRead(w, b)
  <2> DEFINE j == [Idle EXCEPT !.step = "reassign", !.b = b,
                               !.seen = primary[b]]
  <2>1. j \in Job
      BY DEF Idle, Job, Sound, TypeOK
  <2>2. Begun(j)
      BY <1>5 DEF ReassignRead, Idle, Fits, Apart
  <2>3. QED
      BY <1>1, <2>1, <2>2, JobStepSound
<1>6. QED
    BY <1>2, <1>3, <1>4, <1>5 DEF Arrive

LEMMA ReturnSound ==
    ASSUME Sound, NEW w \in Worker, UNCHANGED rows, Return(w)
    PROVE  Sound'
<1>1. Idle \in Job /\ Fits(Idle) /\ \A v \in Worker : Apart(job[v], Idle)
    BY DEF Idle, Job, Fits, Apart
<1>2. QED
    BY <1>1, JobStepSound DEF Return

(* The next statement of a request that changes no row.                    *)
LEMMA GotoSound ==
    ASSUME Sound, NEW w \in Worker, UNCHANGED rows,
           \/ At(w, "startCheck") /\ Goto(w, "start")
           \/ At(w, "verify") /\ Goto(w, "complete")
           \/ At(w, "assign") /\ Goto(w, "assignInsert")
    PROVE  Sound'
<1>1. PICK step \in {"start", "complete", "assignInsert"} :
            /\ Goto(w, step)
            /\ step = "assignInsert" <=> At(w, "assign")
            /\ job[w].step \in {"startCheck", "verify", "assign"}
    OBVIOUS
<1> DEFINE j == [job[w] EXCEPT !.step = step]
<1>2. job[w] \in Job /\ Fits(job[w])
    BY DEF Sound, TypeOK
<1>3. j \in Job /\ Fits(j)
    BY <1>1, <1>2 DEF Job, Fits
<1>4. \A v \in Worker \ {w} : Apart(job[v], j)
    BY <1>1, <1>2 DEF Sound, Apart, Job
<1>5. QED
    BY <1>1, <1>3, <1>4, JobStepSound DEF Goto

LEMMA LockSound ==
    ASSUME Sound, NEW w \in Worker, CreateLockRow(w)
    PROVE  Sound'
<1>1. PICK p \in Provider : /\ NextRow(w, p)
                            /\ ~RowLocked(p)
                            /\ job' = [job EXCEPT ![w].held = @ \cup {p}]
    BY DEF CreateLockRow
<1> DEFINE j == [job[w] EXCEPT !.held = @ \cup {p}]
<1>2. job[w] \in Job /\ Fits(job[w]) /\ At(w, "create")
    BY DEF Sound, TypeOK, CreateLockRow
<1>3. j \in Job /\ Fits(j)
    BY <1>1, <1>2 DEF Job, Fits, NextRow
<1>4. \A v \in Worker \ {w} : Apart(job[v], j)
    BY <1>1, <1>2 DEF Sound, Apart, Job, RowLocked
<1>5. QED
    BY <1>1, <1>3, <1>4, JobStepSound DEF CreateLockRow

LEMMA CheckSound ==
    ASSUME Sound, NEW w \in Worker, CreateCheck(w)
    PROVE  Sound'
<1>1. PICK p \in Eligible[job[w].b] :
            job' = [job EXCEPT ![w].step = "createInsert", ![w].e = p]
    BY DEF CreateCheck
<1> DEFINE j == [job[w] EXCEPT !.step = "createInsert", !.e = p]
<1>2. /\ job[w] \in Job /\ Fits(job[w])
      /\ At(w, "create") /\ job[w].held = Eligible[job[w].b]
    BY DEF Sound, TypeOK, CreateCheck
<1>3. p \in Provider
    BY <1>2 DEF Fits
<1>4. j \in Job /\ Fits(j)
    BY <1>2, <1>3 DEF Job, Fits
<1>5. \A v \in Worker \ {w} : Apart(job[v], j)
    BY <1>2 DEF Sound, Apart, Job
<1>6. job' = [job EXCEPT ![w] = j]
    BY <1>1, <1>2 DEF Sound, TypeOK, Job
<1>7. QED
    BY <1>4, <1>5, <1>6, JobStepSound DEF CreateCheck

LEMMA ReassignCheckSound ==
    ASSUME Sound, NEW w \in Worker, NEW i \in 1 .. Required,
           NEW e \in Provider, ReassignCheck(w, i, e)
    PROVE  Sound'
<1> DEFINE b == job[w].b
           seen == IF job[w].seen = crew[b][i] THEN job[w].seen ELSE None
           j == [job[w] EXCEPT !.step = "reassignSave", !.i = i, !.e = e,
                               !.seen = seen]
<1>1. job[w] \in Job /\ Fits(job[w]) /\ At(w, "reassign")
    BY DEF Sound, TypeOK, ReassignCheck
<1>2. crew[b] \in Seq(Provider) /\ i \in 1 .. Len(crew[b])
  <2>1. b \in Booking /\ i \in DOMAIN crew[b]
      BY <1>1 DEF Fits, ReassignCheck
  <2>2. crew[b] \in Seq(Provider)
      BY <2>1 DEF Sound, TypeOK
  <2>3. QED
      BY <2>1, <2>2, LenProperties
<1>3. j \in Job
  <2>1. i \in Nat /\ seen \in Provider \cup {None}
      BY <1>1 DEF Job
  <2>2. QED
      BY <1>1, <2>1 DEF Job
<1>4. Fits(j)
    BY <1>1, <1>2 DEF Job, Fits
<1>5. \A v \in Worker \ {w} : Apart(job[v], j)
    BY <1>1 DEF Sound, Apart, Job
<1>6. job' = [job EXCEPT ![w] = j]
    BY DEF ReassignCheck, Sound, TypeOK, Job
<1>7. QED
    BY <1>3, <1>4, <1>5, <1>6, JobStepSound DEF ReassignCheck

(* A step that changes rows, then returns or goes on to the next statement. *)
LEMMA RowStepSound ==
    ASSUME Sound, NEW w \in Worker, TypeOK',
           \/ Return(w)
           \/ At(w, "reassignSave") /\ Goto(w, "reassignSync"),
           \A a \in Booking :
               status[a] # "ABSENT" =>
                   status'[a] # "ABSENT" /\ Len(crew'[a]) >= Len(crew[a]),
           \A a \in Booking :
               status[a] = "ABSENT" =>
                   \/ status'[a] = "ABSENT"
                   \/ a = job[w].b /\ job[w].step \in CreateStep
    PROVE  Sound'
<1>1. PICK j \in Job :
            /\ job' = [job EXCEPT ![w] = j]
            /\ \/ j = Idle
               \/ At(w, "reassignSave") /\ j = [job[w] EXCEPT !.step = "reassignSync"]
  <2>1. Idle \in Job
      BY DEF Idle, Job
  <2>2. job[w] \in Job
      BY DEF Sound, TypeOK
  <2>3. [job[w] EXCEPT !.step = "reassignSync"] \in Job
      BY <2>2 DEF Job
  <2>4. QED
      BY <2>1, <2>3 DEF Return, Goto
<1>2. \A v \in Worker : job'[v] = IF v = w THEN j ELSE job[v]
    BY <1>1 DEF Sound, TypeOK
<1>3. \A v \in Worker : Fits(job[v])
    BY DEF Sound
<1>4. (\A v \in Worker : Fits(job[v]))'
  <2> SUFFICES ASSUME NEW v \in Worker
               PROVE  Fits(job[v])'
      OBVIOUS
  <2>1. CASE v # w
    <3>1. job'[v] = job[v] /\ Fits(job[v]) /\ Apart(job[v], job[w])
        BY <1>2, <1>3, <2>1 DEF Sound
    <3>2. job[v].step \in CreateStep => status'[job[v].b] = "ABSENT"
        BY <3>1 DEF Fits, Apart
    <3>3. job[v].step \notin CreateStep \cup {"idle"} =>
                status'[job[v].b] # "ABSENT"
        BY <3>1 DEF Fits
    <3>4. At(v, "reassignSave") => job[v].i \in 1 .. Len(crew'[job[v].b])
      <4>1. At(v, "reassignSave") =>
                /\ job[v].b \in Booking
                /\ job[v].i \in 1 .. Len(crew[job[v].b])
                /\ Len(crew'[job[v].b]) >= Len(crew[job[v].b])
          BY <3>1 DEF Fits
      <4>2. job[v].b \in Booking =>
                /\ Len(crew[job[v].b]) \in Nat
                /\ Len(crew'[job[v].b]) \in Nat
          BY LenProperties DEF Sound, TypeOK
      <4>3. QED
          BY <4>1, <4>2
    <3>5. QED
        BY <3>1, <3>2, <3>3, <3>4 DEF Fits
  <2>2. CASE v = w
    <3>1. CASE j = Idle
        BY <1>2, <2>2, <3>1 DEF Fits, Idle
    <3>2. CASE At(w, "reassignSave") /\ j = [job[w] EXCEPT !.step = "reassignSync"]
      <4>1. /\ j.step = "reassignSync" /\ j.b = job[w].b
            /\ j.held = job[w].held /\ j.e = job[w].e
          BY <3>2 DEF Sound, TypeOK, Job
      <4>2. /\ job[w].b \in Booking /\ job[w].e \in Provider
            /\ job[w].held = {} /\ ~Individual /\ status'[job[w].b] # "ABSENT"
          BY <1>3, <3>2 DEF Fits
      <4>3. QED
          BY <1>2, <2>2, <4>1, <4>2 DEF Fits
    <3>3. QED
        BY <1>1, <3>1, <3>2
  <2>3. QED
      BY <2>1, <2>2
<1>5. (\A u, v \in Worker : u # v => Apart(job[u], job[v]))'
  <2>1. \A v \in Worker \ {w} : Apart(job[v], j) /\ Apart(j, job[v])
    <3>1. \A v \in Worker \ {w} : Apart(job[v], job[w])
        BY DEF Sound
    <3>2. CASE j = Idle
        BY <3>2 DEF Apart, Idle
    <3>3. CASE At(w, "reassignSave") /\ j = [job[w] EXCEPT !.step = "reassignSync"]
        BY <3>1, <3>3 DEF Apart, Sound, TypeOK, Job
    <3>4. QED
        BY <1>1, <3>2, <3>3
  <2>2. \A u, v \in Worker : u # v => Apart(job'[u], job'[v])
      BY <1>2, <2>1 DEF Sound
  <2>3. QED
      BY <2>2 DEF Apart
<1>6. QED
    BY <1>4, <1>5 DEF Sound

LEMMA InsertSound ==
    ASSUME Sound, NEW w \in Worker, CreateInsert(w)
    PROVE  Sound'
<1> DEFINE b == job[w].b
           e == job[w].e
<1>1. b \in Booking /\ e \in Provider /\ status[b] = "ABSENT"
    BY DEF Sound, Fits, CreateInsert
<1>2. <<e>> \in Seq(Provider)
    BY <1>1
<1>3. TypeOK'
  <2>1. job' \in [Worker -> Job]
      BY DEF CreateInsert, Return, Sound, TypeOK, Idle, Job
  <2>2. status' \in [Booking -> Status]
      BY DEF CreateInsert, Sound, TypeOK
  <2>3. primary' \in [Booking -> Provider \cup {None}]
      BY <1>1 DEF CreateInsert, Sound, TypeOK
  <2>4. crew' \in [Booking -> Seq(Provider)]
    <3>1. (IF Individual THEN <<>> ELSE <<e>>) \in Seq(Provider)
        BY <1>2, EmptySeq
    <3>2. QED
        BY <3>1 DEF CreateInsert, Sound, TypeOK
  <2>5. Individual => \A a \in Booking : primary'[a] = None /\ crew'[a] = <<>>
      BY DEF CreateInsert, Sound, TypeOK
  <2>6. revived' \subseteq Booking
      BY DEF CreateInsert, Sound, TypeOK
  <2>7. QED
      BY <2>1, <2>2, <2>3, <2>4, <2>5, <2>6 DEF TypeOK
<1>4. \A a \in Booking \ {b} : status'[a] = status[a] /\ crew'[a] = crew[a]
    BY DEF CreateInsert, Sound, TypeOK
<1>5. \A a \in Booking : Len(crew[a]) >= Len(crew[a])
    BY LenProperties DEF Sound, TypeOK
<1>6. QED
    BY <1>1, <1>3, <1>4, <1>5, RowStepSound DEF CreateInsert

LEMMA SaveSound ==
    ASSUME Sound, NEW w \in Worker, TransitionSave(w)
    PROVE  Sound'
<1> DEFINE b == job[w].b
<1>1. /\ b \in Booking /\ status[b] # "ABSENT"
      /\ To[job[w].step] \in Status \ {"ABSENT"}
    BY ToStatus DEF Sound, Fits, TransitionSave
<1>2. TypeOK'
  <2>1. job' \in [Worker -> Job]
      BY DEF TransitionSave, Return, Sound, TypeOK, Idle, Job
  <2>2. status' \in [Booking -> Status]
      BY <1>1 DEF TransitionSave, Sound, TypeOK
  <2>3. revived' \subseteq Booking
      BY <1>1 DEF TransitionSave, Sound, TypeOK
  <2>4. QED
      BY <2>1, <2>2, <2>3 DEF TransitionSave, Sound, TypeOK
<1>3. \A a \in Booking : Len(crew[a]) >= Len(crew[a])
    BY LenProperties DEF Sound, TypeOK
<1>4. \A a \in Booking : status'[a] = IF a = b THEN To[job[w].step] ELSE status[a]
    BY DEF TransitionSave, Sound, TypeOK
<1>5. QED
    BY <1>1, <1>2, <1>3, <1>4, RowStepSound DEF TransitionSave

LEMMA AssignInsertSound ==
    ASSUME Sound, NEW w \in Worker, AssignInsert(w)
    PROVE  Sound'
<1> DEFINE b == job[w].b
           e == job[w].e
           new == IF e \in Crew(b) THEN crew[b] ELSE Append(crew[b], e)
<1>1. b \in Booking /\ e \in Provider /\ status[b] # "ABSENT" /\ ~Individual
    BY DEF Sound, Fits, AssignInsert
<1>2. crew[b] \in Seq(Provider)
    BY <1>1 DEF Sound, TypeOK
<1>3. new \in Seq(Provider) /\ Len(new) >= Len(crew[b])
    BY <1>1, <1>2, LenProperties, AppendProperties
<1>4. /\ crew' \in [Booking -> Seq(Provider)]
      /\ \A a \in Booking : crew'[a] = IF a = b THEN new ELSE crew[a]
    BY <1>3 DEF AssignInsert, Sound, TypeOK
<1>5. \A a \in Booking : Len(crew'[a]) >= Len(crew[a])
  <2>1. \A a \in Booking : Len(crew[a]) \in Nat
      BY LenProperties DEF Sound, TypeOK
  <2> HIDE DEF new
  <2>2. crew'[b] = new /\ \A a \in Booking \ {b} : crew'[a] = crew[a]
      BY <1>1, <1>4
  <2>3. ASSUME NEW a \in Booking \ {b}
        PROVE  Len(crew'[a]) >= Len(crew[a])
      BY <2>1, <2>2
  <2>4. Len(crew'[b]) >= Len(crew[b])
      BY <1>3, <2>2
  <2>5. QED
      BY <2>3, <2>4
<1>6. TypeOK'
  <2>1. job' \in [Worker -> Job]
      BY DEF AssignInsert, Return, Sound, TypeOK, Idle, Job
  <2>2. QED
      BY <1>1, <1>4, <2>1 DEF AssignInsert, Sound, TypeOK
<1>7. QED
    BY <1>5, <1>6, RowStepSound DEF AssignInsert

LEMMA ReassignSaveSound ==
    ASSUME Sound, NEW w \in Worker, ReassignSave(w)
    PROVE  /\ Sound'
           /\ \A a \in Booking : Len(crew'[a]) = Len(crew[a])
<1> DEFINE b == job[w].b
           e == job[w].e
           i == job[w].i
           new == [crew[b] EXCEPT ![i] = e]
<1>1. /\ b \in Booking /\ e \in Provider /\ status[b] # "ABSENT" /\ ~Individual
      /\ i \in 1 .. Len(crew[b])
    BY DEF Sound, Fits, ReassignSave
<1>2. crew[b] \in Seq(Provider)
    BY <1>1 DEF Sound, TypeOK
<1>3. new \in Seq(Provider) /\ Len(new) = Len(crew[b])
    BY <1>1, <1>2, ExceptSeq
<1>4. /\ crew' \in [Booking -> Seq(Provider)]
      /\ \A a \in Booking : crew'[a] = IF a = b THEN new ELSE crew[a]
    BY <1>3 DEF ReassignSave, Sound, TypeOK
<1>5. \A a \in Booking : Len(crew'[a]) = Len(crew[a]) /\ Len(crew[a]) \in Nat
  <2>1. \A a \in Booking : Len(crew[a]) \in Nat
      BY LenProperties DEF Sound, TypeOK
  <2>2. QED
      BY <1>3, <1>4, <2>1
<1>6. TypeOK'
  <2>1. [job[w] EXCEPT !.step = "reassignSync"] \in Job
    <3>1. job[w] \in Job
        BY DEF Sound, TypeOK
    <3>2. QED
        BY <3>1 DEF Job
  <2>2. Idle \in Job
      BY DEF Idle, Job
  <2>3. job' \in [Worker -> Job]
      BY <2>1, <2>2 DEF ReassignSave, Return, Goto, Sound, TypeOK
  <2>4. QED
      BY <1>1, <1>4, <2>3 DEF ReassignSave, Sound, TypeOK
<1>7. QED
    BY <1>5, <1>6, RowStepSound DEF ReassignSave

LEMMA SyncSound ==
    ASSUME Sound, NEW w \in Worker, ReassignSync(w)
    PROVE  Sound'
<1>1. job[w].b \in Booking /\ job[w].e \in Provider /\ ~Individual
    BY DEF Sound, Fits, ReassignSync
<1>2. TypeOK'
  <2>1. job' \in [Worker -> Job]
      BY DEF ReassignSync, Return, Sound, TypeOK, Idle, Job
  <2>2. QED
      BY <1>1, <2>1 DEF ReassignSync, Sound, TypeOK
<1>3. \A a \in Booking : Len(crew[a]) >= Len(crew[a])
    BY LenProperties DEF Sound, TypeOK
<1>4. QED
    BY <1>2, <1>3, RowStepSound DEF ReassignSync

LEMMA StutterSound ==
    ASSUME Sound, UNCHANGED vars
    PROVE  Sound'
<1>1. TypeOK'
    BY DEF Sound, TypeOK, vars
<1>2. (\A w \in Worker : Fits(job[w]))'
    BY DEF Sound, Fits, vars
<1>3. (\A u, v \in Worker : u # v => Apart(job[u], job[v]))'
    BY DEF Sound, Apart, vars
<1>4. QED
    BY <1>1, <1>2, <1>3 DEF Sound

LEMMA AdvanceSound ==
    ASSUME Sound, NEW w \in Worker, Advance(w) \/ Crash(w)
    PROVE  Sound'
<1>1. CASE \/ CreateRefuse(w) \/ StartRefuse(w) \/ VerifyRefuse(w)
           \/ AssignRefuse(w) \/ ReassignRefuse(w) \/ ReassignConflict(w)
           \/ Crash(w)
    BY <1>1, ReturnSound DEF CreateRefuse, StartRefuse, VerifyRefuse,
       AssignRefuse, ReassignRefuse, ReassignConflict, Crash
<1>2. CASE StartCheck(w) \/ VerifyAccept(w) \/ AssignCheck(w)
    BY <1>2, GotoSound DEF StartCheck, VerifyAccept, AssignCheck
<1>3. ASSUME NEW i \in 1 .. Required, NEW e \in Provider, ReassignCheck(w, i, e)
      PROVE  Sound'
    BY <1>3, ReassignCheckSound
<1>4. QED
    BY <1>1, <1>2, <1>3, LockSound, CheckSound, InsertSound, SaveSound,
       AssignInsertSound, ReassignSaveSound, SyncSound DEF Advance

LEMMA NextSound ==
    ASSUME Sound, [Next]_vars
    PROVE  Sound'
BY ArriveSound, AdvanceSound, StutterSound DEF Next

LEMMA InitSound ==
    ASSUME Init
    PROVE  Sound
<1>1. TypeOK
  <2>1. Idle \in Job
      BY DEF Idle, Job
  <2>2. QED
      BY <2>1, EmptySeq DEF Init, TypeOK
<1>2. \A w \in Worker : Fits(job[w])
    BY DEF Init, Fits, Idle
<1>3. \A u, v \in Worker : Apart(job[u], job[v])
    BY DEF Init, Apart, Idle
<1>4. QED
    BY <1>1, <1>2, <1>3 DEF Sound

THEOREM SoundCorrect == Spec => []Sound
<1>1. Init => Sound
    BY InitSound
<1>2. Sound /\ [Next]_vars => Sound'
    BY NextSound
<1>3. QED
    BY <1>1, <1>2, PTL DEF Spec

(* Every row and every request keeps its type, and an individual business  *)
(* never gets an employee on a booking.                                    *)
THEOREM TypeCorrect == Spec => []TypeOK
<1>1. Sound => TypeOK
    BY DEF Sound
<1>2. QED
    BY <1>1, SoundCorrect, PTL

-------------------------------------------------------------------------------
(* The bookings of an owner.                                               *)

(* While a create_booking is about to insert, nothing that overlaps is     *)
(* active but what was revived: whoever inserts anything else would have   *)
(* to hold the owner's row.                                                *)
OwnerFree(w) ==
    At(w, "createInsert") =>
        \A a \in Booking \ {job[w].b} :
            status[a] \in Active /\ Overlapping(a, job[w].b) => a \in revived

ClashInv ==
    /\ Sound
    /\ ClashOnlyRevived
    /\ Individual => \A w \in Worker : OwnerFree(w)

(* create_bookings of one owner exclude each other.                        *)
LEMMA OneInserts ==
    ASSUME Sound, Individual, NEW v \in Worker, NEW w \in Worker,
           At(v, "createInsert"), At(w, "createInsert")
    PROVE  v = w
<1>1. /\ job[v].e \in job[v].held /\ job[w].e \in job[w].held
      /\ job[v].e \in Provider /\ job[w].e \in Provider
    BY DEF Sound, Fits
<1>2. job[v].e = job[w].e
    BY <1>1
<1>3. QED
    BY <1>1, <1>2 DEF Sound, Apart

(* Steps that make nothing active but what they revive, and nobody about   *)
(* to insert.                                                              *)
Quiet ==
    /\ Individual => \A a \in Booking :
            status'[a] \in Active => status[a] \in Active \/ a \in revived'
    /\ revived \subseteq revived'
    /\ \A v \in Worker : job'[v].step = "createInsert" => job'[v] = job[v]

LEMMA ArriveQuiet ==
    ASSUME Sound, NEW w \in Worker, NEW b \in Booking, Arrive(w, b)
    PROVE  Quiet
<1>1. UNCHANGED <<status, revived>>
    BY DEF Arrive, CreateBegin, TransitionRead, AssignLock, ReassignRead
<1>2. PICK j : job' = [job EXCEPT ![w] = j] /\ j.step # "createInsert"
  <2>1. \A move \in DOMAIN From : move # "createInsert"
      BY FromDomain
  <2>2. CASE \/ CreateBegin(w, b)
             \/ \E move \in DOMAIN From : TransitionRead(w, b, move)
      BY ZenonT(40), <2>1, <2>2 DEF CreateBegin, TransitionRead, Begin, Idle
  <2>3. CASE (\E e \in Provider : AssignLock(w, b, e)) \/ ReassignRead(w, b)
      BY ZenonT(40), <2>3 DEF AssignLock, ReassignRead, Idle
  <2>4. QED
      BY <2>2, <2>3 DEF Arrive
<1>3. QED
    BY <1>1, <1>2 DEF Quiet, Sound, TypeOK

LEMMA AdvanceQuiet ==
    ASSUME Sound, NEW w \in Worker, Advance(w) \/ Crash(w),
           ~CreateCheck(w), ~CreateInsert(w)
    PROVE  Quiet
<1>1. job[w] \in Job /\ job \in [Worker -> Job]
    BY DEF Sound, TypeOK
<1>2. CASE \/ CreateRefuse(w) \/ StartRefuse(w) \/ VerifyRefuse(w)
           \/ AssignRefuse(w) \/ ReassignRefuse(w) \/ ReassignConflict(w)
           \/ Crash(w) \/ AssignInsert(w) \/ ReassignSync(w)
    BY <1>1, <1>2 DEF Quiet, CreateRefuse, StartRefuse, VerifyRefuse,
       AssignRefuse, ReassignRefuse, ReassignConflict, Crash, AssignInsert,
       ReassignSync, Return, Idle
<1>3. CASE \/ StartCheck(w) \/ VerifyAccept(w) \/ AssignCheck(w)
           \/ ReassignSave(w)
    BY <1>1, <1>3 DEF Quiet, StartCheck, VerifyAccept, AssignCheck,
       ReassignSave, Goto, Return, Idle, Job
<1>4. CASE CreateLockRow(w)
    BY <1>1, <1>4 DEF Quiet, CreateLockRow, Job
<1>5. CASE TransitionSave(w)
    BY <1>1, <1>5, ToStatus DEF Quiet, TransitionSave, Return, Idle, Sound,
       TypeOK
<1>6. ASSUME NEW i \in 1 .. Required, NEW e \in Provider, ReassignCheck(w, i, e)
      PROVE  Quiet
    BY <1>1, <1>6 DEF Quiet, ReassignCheck, Job
<1>7. QED
    BY <1>2, <1>3, <1>4, <1>5, <1>6 DEF Advance

LEMMA QuietClash ==
    ASSUME ClashInv, Sound', Quiet
    PROVE  ClashInv'
BY DEF ClashInv, ClashOnlyRevived, OwnerFree, Quiet, Overlapping

LEMMA CheckClash ==
    ASSUME ClashInv, Sound', NEW w \in Worker, CreateCheck(w)
    PROVE  ClashInv'
<1> DEFINE b == job[w].b
<1>1. /\ job \in [Worker -> Job] /\ job[w] \in Job /\ b \in Booking
      /\ UNCHANGED rows
    BY DEF ClashInv, Sound, TypeOK, Fits, CreateCheck
<1>2. PICK p \in Eligible[b] :
            /\ Free(p, b)
            /\ job' = [job EXCEPT ![w].step = "createInsert", ![w].e = p]
    BY DEF CreateCheck
<1>3. job'[w].b = b /\ \A v \in Worker \ {w} : job'[v] = job[v]
    BY <1>1, <1>2 DEF Job
<1>4. Individual => \A a \in Booking \ {b} :
                        status[a] \in Active => ~Overlapping(a, b)
    BY <1>1, <1>2 DEF Free, ServedBy
<1>5. ClashOnlyRevived'
    BY <1>1 DEF ClashInv, ClashOnlyRevived, Overlapping
<1>6. ASSUME Individual, NEW v \in Worker
      PROVE  OwnerFree(v)'
    BY <1>1, <1>3, <1>4, <1>6 DEF ClashInv, OwnerFree, Overlapping
<1>7. QED
    BY <1>5, <1>6 DEF ClashInv

LEMMA InsertClash ==
    ASSUME ClashInv, Sound', NEW w \in Worker, CreateInsert(w)
    PROVE  ClashInv'
<1> DEFINE b == job[w].b
<1>1. /\ job \in [Worker -> Job] /\ b \in Booking /\ Sound
      /\ status \in [Booking -> Status]
    BY DEF ClashInv, Sound, TypeOK, Fits, CreateInsert
<1>2. /\ \A a \in Booking \ {b} : status'[a] = status[a]
      /\ job'[w] = Idle
      /\ \A v \in Worker \ {w} : job'[v] = job[v]
      /\ revived' = revived
    BY <1>1 DEF CreateInsert, Return
<1>3. ASSUME Individual
      PROVE  \A a \in Booking \ {b} :
                /\ status[a] \in Active
                /\ Overlapping(a, b) \/ Overlapping(b, a)
                => a \in revived
  <2>1. \A a \in Booking \ {b} :
            status[a] \in Active /\ Overlapping(a, b) => a \in revived
      BY <1>3 DEF ClashInv, OwnerFree, CreateInsert
  <2>2. \A a \in Booking : Overlapping(b, a) => Overlapping(a, b)
      BY <1>1 DEF Overlapping
  <2>3. QED
      BY <2>1, <2>2
<1>4. ClashOnlyRevived'
    BY <1>1, <1>2, <1>3 DEF ClashInv, ClashOnlyRevived, Overlapping
<1>5. ASSUME Individual, NEW v \in Worker
      PROVE  OwnerFree(v)'
  <2>1. v # w => ~At(v, "createInsert")
      BY <1>1, <1>5, OneInserts DEF CreateInsert
  <2>2. ~At(v, "createInsert")'
      BY <1>2, <2>1 DEF Idle
  <2>3. QED
      BY <2>2 DEF OwnerFree
<1>6. QED
    BY <1>4, <1>5 DEF ClashInv

(* However many requests race, an individual's owner has two active        *)
(* bookings for overlapping time only if a transition that had read one of *)
(* them earlier brought it back: create_booking's row lock does what its   *)
(* comment promises, also across slots.                                    *)
THEOREM ClashOnlyRevivedCorrect == Spec => []ClashOnlyRevived
<1>1. Init => ClashInv
    BY InitSound DEF ClashInv, ClashOnlyRevived, OwnerFree, Init, Idle, Active
<1>2. ClashInv /\ [Next]_vars => ClashInv'
  <2> SUFFICES ASSUME ClashInv, [Next]_vars
               PROVE  ClashInv'
      OBVIOUS
  <2>1. Sound /\ Sound'
      BY NextSound DEF ClashInv
  <2>2. CASE UNCHANGED vars
      BY <2>1, <2>2, QuietClash DEF Quiet, vars
  <2>3. ASSUME NEW w \in Worker, NEW b \in Booking, Arrive(w, b)
        PROVE  ClashInv'
      BY <2>1, <2>3, ArriveQuiet, QuietClash
  <2>4. ASSUME NEW w \in Worker, Advance(w) \/ Crash(w)
        PROVE  ClashInv'
      BY <2>1, <2>4, AdvanceQuiet, QuietClash, CheckClash, InsertClash
  <2>5. QED
      BY <2>2, <2>3, <2>4 DEF Next
<1>3. ClashInv => ClashOnlyRevived
    BY DEF ClashInv
<1>4. QED
    BY <1>1, <1>2, <1>3, PTL DEF Spec

-------------------------------------------------------------------------------
(* The crew of a booking.                                                  *)

(* Between the count and the insert of an assignment, no other request     *)
(* adds a row to its booking.                                              *)
RoomLeft(w) == At(w, "assignInsert") => Len(crew[job[w].b]) < Required

CrewInv ==
    /\ Sound
    /\ CrewWithinRequired
    /\ \A w \in Worker : RoomLeft(w)

(* Steps that change no crew and where nobody gets about to insert.        *)
CrewQuiet ==
    /\ UNCHANGED crew
    /\ \A v \in Worker : job'[v].step = "assignInsert" => job'[v] = job[v]

LEMMA ArriveCrewQuiet ==
    ASSUME Sound, NEW w \in Worker, NEW b \in Booking, Arrive(w, b)
    PROVE  CrewQuiet
<1>1. UNCHANGED crew
    BY DEF Arrive, CreateBegin, TransitionRead, AssignLock, ReassignRead
<1>2. PICK j : job' = [job EXCEPT ![w] = j] /\ j.step # "assignInsert"
  <2>1. \A move \in DOMAIN From : move # "assignInsert"
      BY FromDomain
  <2>2. QED
      BY ZenonT(40), <2>1 DEF Arrive, CreateBegin, TransitionRead, AssignLock,
                  ReassignRead, Begin, Idle
<1>3. QED
    BY <1>1, <1>2 DEF CrewQuiet, Sound, TypeOK

LEMMA AdvanceCrewQuiet ==
    ASSUME Sound, NEW w \in Worker, Advance(w) \/ Crash(w),
           ~CreateInsert(w), ~AssignCheck(w), ~AssignInsert(w), ~ReassignSave(w)
    PROVE  CrewQuiet
<1>1. job[w] \in Job /\ job \in [Worker -> Job]
    BY DEF Sound, TypeOK
<1>2. CASE \/ CreateRefuse(w) \/ StartRefuse(w) \/ VerifyRefuse(w)
           \/ AssignRefuse(w) \/ ReassignRefuse(w) \/ ReassignConflict(w)
           \/ Crash(w) \/ TransitionSave(w) \/ ReassignSync(w)
    BY <1>1, <1>2 DEF CrewQuiet, CreateRefuse, StartRefuse, VerifyRefuse,
       AssignRefuse, ReassignRefuse, ReassignConflict, Crash, TransitionSave,
       ReassignSync, Return, Idle
<1>3. CASE StartCheck(w) \/ VerifyAccept(w)
    BY <1>1, <1>3 DEF CrewQuiet, StartCheck, VerifyAccept, Goto, Job
<1>4. CASE CreateLockRow(w) \/ CreateCheck(w)
    BY <1>1, <1>4 DEF CrewQuiet, CreateLockRow, CreateCheck, Job
<1>5. ASSUME NEW i \in 1 .. Required, NEW e \in Provider, ReassignCheck(w, i, e)
      PROVE  CrewQuiet
    BY <1>1, <1>5 DEF CrewQuiet, ReassignCheck, Job
<1>6. QED
    BY <1>2, <1>3, <1>4, <1>5 DEF Advance

LEMMA QuietCrew ==
    ASSUME CrewInv, Sound', CrewQuiet
    PROVE  CrewInv'
BY DEF CrewInv, CrewWithinRequired, RoomLeft, CrewQuiet

LEMMA AssignCheckCrew ==
    ASSUME CrewInv, Sound', NEW w \in Worker, AssignCheck(w)
    PROVE  CrewInv'
<1>1. /\ job \in [Worker -> Job] /\ job[w] \in Job /\ UNCHANGED rows
    BY DEF CrewInv, Sound, TypeOK, AssignCheck
<1>2. job'[w].b = job[w].b /\ \A v \in Worker \ {w} : job'[v] = job[v]
    BY <1>1 DEF AssignCheck, Goto, Job
<1>3. CrewWithinRequired'
    BY <1>1 DEF CrewInv, CrewWithinRequired
<1>4. \A v \in Worker : RoomLeft(v)'
    BY <1>1, <1>2 DEF CrewInv, RoomLeft, AssignCheck
<1>5. QED
    BY <1>3, <1>4 DEF CrewInv

LEMMA CreateInsertCrew ==
    ASSUME CrewInv, Sound', NEW w \in Worker, CreateInsert(w)
    PROVE  CrewInv'
<1> DEFINE b == job[w].b
           new == IF Individual THEN <<>> ELSE <<job[w].e>>
<1>1. /\ job \in [Worker -> Job] /\ b \in Booking /\ Sound
      /\ status[b] = "ABSENT" /\ crew \in [Booking -> Seq(Provider)]
    BY DEF CrewInv, Sound, TypeOK, Fits, CreateInsert
<1>2. /\ \A a \in Booking : crew'[a] = IF a = b THEN new ELSE crew[a]
      /\ job'[w] = Idle
      /\ \A v \in Worker \ {w} : job'[v] = job[v]
    BY <1>1 DEF CreateInsert, Return
<1>3. /\ Len(new) <= Required
      /\ \A i, j \in DOMAIN new : new[i] = new[j] => i = j
    OBVIOUS
<1>4. CrewWithinRequired'
  <2> SUFFICES ASSUME NEW a \in Booking
               PROVE  /\ Len(crew'[a]) <= Required
                      /\ \A i, j \in DOMAIN crew'[a] :
                            crew'[a][i] = crew'[a][j] => i = j
      BY DEF CrewWithinRequired
  <2> HIDE DEF new
  <2>1. CASE a = b
      BY <1>2, <1>3, <2>1
  <2>2. CASE a # b
      BY <1>2, <2>2 DEF CrewInv, CrewWithinRequired
  <2>3. QED
      BY <2>1, <2>2
<1>5. ASSUME NEW v \in Worker
      PROVE  RoomLeft(v)'
  <2>1. CASE v = w
      BY <1>2, <2>1 DEF RoomLeft, Idle
  <2>2. CASE v # w
    <3>1. At(v, "assignInsert") => job[v].b # b /\ job[v].b \in Booking
        BY <1>1 DEF Sound, Fits
    <3>2. QED
        BY <1>2, <2>2, <3>1 DEF CrewInv, RoomLeft
  <2>3. QED
      BY <2>1, <2>2
<1>6. QED
    BY <1>4, <1>5 DEF CrewInv

LEMMA AssignInsertCrew ==
    ASSUME CrewInv, Sound', NEW w \in Worker, AssignInsert(w)
    PROVE  CrewInv'
<1> DEFINE b == job[w].b
           e == job[w].e
           new == IF e \in Crew(b) THEN crew[b] ELSE Append(crew[b], e)
<1>1. /\ job \in [Worker -> Job] /\ b \in Booking /\ Sound /\ e \in Provider
      /\ crew \in [Booking -> Seq(Provider)]
    BY DEF CrewInv, Sound, TypeOK, Fits, AssignInsert
<1>2. /\ \A a \in Booking : crew'[a] = IF a = b THEN new ELSE crew[a]
      /\ job'[w] = Idle
      /\ \A v \in Worker \ {w} : job'[v] = job[v]
    BY <1>1 DEF AssignInsert, Return
<1>3. /\ crew[b] \in Seq(Provider) /\ Len(crew[b]) \in Nat
      /\ Len(crew[b]) < Required
      /\ \A i, j \in DOMAIN crew[b] : crew[b][i] = crew[b][j] => i = j
    BY <1>1, LenProperties DEF CrewInv, RoomLeft, CrewWithinRequired, AssignInsert
<1>4. /\ Len(new) <= Required
      /\ \A i, j \in DOMAIN new : new[i] = new[j] => i = j
  <2>1. CASE e \in Crew(b)
      BY <1>3, <2>1
  <2>2. CASE e \notin Crew(b)
    <3>1. new = Append(crew[b], e)
        BY <2>2
    <3> HIDE DEF new
    <3>2. /\ Len(new) = Len(crew[b]) + 1 /\ new \in Seq(Provider)
          /\ \A i \in 1 .. Len(crew[b]) : new[i] = crew[b][i]
          /\ new[Len(crew[b]) + 1] = e
        BY <1>1, <1>3, <3>1, AppendProperties
    <3>3. /\ DOMAIN new = 1 .. Len(crew[b]) + 1
          /\ DOMAIN crew[b] = 1 .. Len(crew[b])
        BY <1>3, <3>2, LenProperties
    <3>4. \A i \in 1 .. Len(crew[b]) : crew[b][i] # e
        BY <2>2, <3>3 DEF Crew
    <3>5. ASSUME NEW i \in DOMAIN new, NEW j \in DOMAIN new, new[i] = new[j]
          PROVE  i = j
      <4> DEFINE n == Len(crew[b])
      <4>1. n \in Nat /\ i \in 1 .. n + 1 /\ j \in 1 .. n + 1
          BY <1>3, <3>3
      <4>2. CASE i \in 1 .. n /\ j \in 1 .. n
          BY <1>3, <3>2, <3>3, <3>5, <4>2
      <4>3. CASE i = n + 1 /\ j \in 1 .. n
          BY <3>2, <3>4, <3>5, <4>3
      <4>4. CASE i \in 1 .. n /\ j = n + 1
          BY <3>2, <3>4, <3>5, <4>4
      <4>5. (i \in 1 .. n \/ i = n + 1) /\ (j \in 1 .. n \/ j = n + 1)
          BY <4>1, LastIndex
      <4>6. QED
          BY <4>2, <4>3, <4>4, <4>5
    <3>6. QED
        BY <1>3, <3>2, <3>5
  <2>3. QED
      BY <2>1, <2>2
<1>5. CrewWithinRequired'
  <2> SUFFICES ASSUME NEW a \in Booking
               PROVE  /\ Len(crew'[a]) <= Required
                      /\ \A i, j \in DOMAIN crew'[a] :
                            crew'[a][i] = crew'[a][j] => i = j
      BY DEF CrewWithinRequired
  <2> HIDE DEF new
  <2>1. CASE a = b
      BY <1>2, <1>4, <2>1
  <2>2. CASE a # b
      BY <1>2, <2>2 DEF CrewInv, CrewWithinRequired
  <2>3. QED
      BY <2>1, <2>2
<1>6. \A v \in Worker : ~At(v, "assignInsert")'
    BY <1>1, <1>2 DEF Sound, Apart, AssignInsert, Idle
<1>7. QED
    BY <1>5, <1>6 DEF CrewInv, RoomLeft

LEMMA ReassignSaveCrew ==
    ASSUME CrewInv, Sound', NEW w \in Worker, ReassignSave(w)
    PROVE  CrewInv'
<1> DEFINE b == job[w].b
           e == job[w].e
           i == job[w].i
           new == [crew[b] EXCEPT ![i] = e]
<1>1. /\ job \in [Worker -> Job] /\ b \in Booking /\ Sound
      /\ e \in Provider \ Crew(b)
      /\ crew \in [Booking -> Seq(Provider)] /\ i \in 1 .. Len(crew[b])
    BY DEF CrewInv, Sound, TypeOK, Fits, ReassignSave
<1>2. /\ \A a \in Booking : crew'[a] = IF a = b THEN new ELSE crew[a]
      /\ \A v \in Worker \ {w} : job'[v] = job[v]
      /\ job'[w].step # "assignInsert"
  <2>1. job[w] \in Job
      BY <1>1
  <2>2. QED
      BY <1>1, <2>1 DEF ReassignSave, Return, Goto, Idle, Job
<1>3. /\ crew[b] \in Seq(Provider) /\ Len(crew[b]) <= Required
      /\ \A k, j \in DOMAIN crew[b] : crew[b][k] = crew[b][j] => k = j
    BY <1>1 DEF CrewInv, CrewWithinRequired
<1>4. Len(new) = Len(crew[b]) /\ \A k, j \in DOMAIN new : new[k] = new[j] => k = j
  <2>1. /\ new \in Seq(Provider) /\ Len(new) = Len(crew[b])
        /\ \A j \in 1 .. Len(crew[b]) : new[j] = IF j = i THEN e ELSE crew[b][j]
      BY <1>1, <1>3, ExceptSeq
  <2> HIDE DEF new
  <2>2. DOMAIN new = 1 .. Len(crew[b]) /\ DOMAIN crew[b] = 1 .. Len(crew[b])
      BY <1>3, <2>1, LenProperties
  <2>3. \A j \in 1 .. Len(crew[b]) : crew[b][j] # e
      BY <1>1, <2>2 DEF Crew
  <2>4. QED
      BY <1>3, <2>1, <2>2, <2>3
<1>5. CrewWithinRequired'
  <2> SUFFICES ASSUME NEW a \in Booking
               PROVE  /\ Len(crew'[a]) <= Required
                      /\ \A k, j \in DOMAIN crew'[a] :
                            crew'[a][k] = crew'[a][j] => k = j
      BY DEF CrewWithinRequired
  <2> HIDE DEF new
  <2>1. CASE a = b
      BY <1>2, <1>3, <1>4, <2>1
  <2>2. CASE a # b
      BY <1>2, <2>2 DEF CrewInv, CrewWithinRequired
  <2>3. QED
      BY <2>1, <2>2
<1>6. ASSUME NEW v \in Worker
      PROVE  RoomLeft(v)'
  <2>1. \A a \in Booking : Len(crew'[a]) = Len(crew[a])
      BY <1>1, ReassignSaveSound
  <2>2. At(v, "assignInsert") => job[v].b \in Booking
      BY <1>1 DEF Sound, Fits
  <2>3. QED
      BY <1>2, <2>1, <2>2 DEF CrewInv, RoomLeft
<1>7. QED
    BY <1>5, <1>6 DEF CrewInv

(* Assignments and reassignments of a booking, however they race, leave at *)
(* most required_employees rows, no two of one employee: the lock on the   *)
(* booking row makes count and insert atomic.                              *)
THEOREM CrewWithinRequiredCorrect == Spec => []CrewWithinRequired
<1>1. Init => CrewInv
    BY InitSound DEF CrewInv, CrewWithinRequired, RoomLeft, Init, Idle
<1>2. CrewInv /\ [Next]_vars => CrewInv'
  <2> SUFFICES ASSUME CrewInv, [Next]_vars
               PROVE  CrewInv'
      OBVIOUS
  <2>1. Sound /\ Sound'
      BY NextSound DEF CrewInv
  <2>2. CASE UNCHANGED vars
      BY <2>1, <2>2, QuietCrew DEF CrewQuiet, vars
  <2>3. ASSUME NEW w \in Worker, NEW b \in Booking, Arrive(w, b)
        PROVE  CrewInv'
      BY <2>1, <2>3, ArriveCrewQuiet, QuietCrew
  <2>4. ASSUME NEW w \in Worker, Advance(w) \/ Crash(w)
        PROVE  CrewInv'
      BY <2>1, <2>4, AdvanceCrewQuiet, QuietCrew, AssignCheckCrew,
         CreateInsertCrew, AssignInsertCrew, ReassignSaveCrew
  <2>5. QED
      BY <2>2, <2>3, <2>4 DEF Next
<1>3. CrewInv => CrewWithinRequired
    BY DEF CrewInv
<1>4. QED
    BY <1>1, <1>2, <1>3, PTL DEF Spec

-------------------------------------------------------------------------------
(* Waiting for rows.                                                       *)

LEMMA LeastElement ==
    ASSUME NEW T, T \subseteq Nat, T # {}
    PROVE  \E m \in T : \A n \in T : m <= n
<1> DEFINE Less == {pair \in Nat \X Nat : pair[1] < pair[2]}
<1>1. IsWellFoundedOn(Less, Nat)
    BY NatLessThanWellFounded, Zenon DEF OpToRel
<1>2. \E m \in T : \A n \in T : <<n, m>> \notin Less
  <2> HIDE DEF Less
  <2>1. QED
      BY <1>1, WFMin
<1>3. ASSUME NEW m \in T, NEW n \in T, <<n, m>> \notin Less
      PROVE  m <= n
    BY <1>3
<1>4. QED
  <2> HIDE DEF Less
  <2>1. QED
      BY <1>2, <1>3

LEMMA KeyType ==
    ASSUME NEW s \in Slot, NEW p \in Provider
    PROVE  /\ Key[s][p] \in Nat /\ Key[s][p] <= MaxKey
           /\ \A q \in Provider : Key[s][p] = Key[s][q] => p = q
<1>1. Key[s][p] \in 1 .. MaxKey
    OBVIOUS
<1>2. QED
    BY <1>1

(* The rows a create_booking holds come before those it still has to lock. *)
HeldFirst(w) ==
    At(w, "create") =>
        \A p \in job[w].held : \A q \in Eligible[job[w].b] \ job[w].held :
            Before(job[w].b, p, q)

LockInv == Sound /\ \A w \in Worker : HeldFirst(w)

LEMMA LockRowHeldFirst ==
    ASSUME LockInv, NEW w \in Worker, CreateLockRow(w)
    PROVE  \A v \in Worker : HeldFirst(v)'
<1>1. job \in [Worker -> Job] /\ job[w] \in Job /\ Fits(job[w])
    BY DEF LockInv, Sound, TypeOK
<1>2. PICK p \in Provider : /\ NextRow(w, p)
                            /\ job' = [job EXCEPT ![w].held = @ \cup {p}]
    BY DEF CreateLockRow
<1>3. /\ job'[w].held = job[w].held \cup {p} /\ job'[w].b = job[w].b
      /\ \A v \in Worker \ {w} : job'[v] = job[v]
    BY <1>1, <1>2 DEF Job
<1>4. HeldFirst(w)'
    BY <1>2, <1>3 DEF LockInv, HeldFirst, NextRow, CreateLockRow, Before
<1>5. ASSUME NEW v \in Worker \ {w}
      PROVE  HeldFirst(v)'
    BY <1>3, <1>5 DEF LockInv, HeldFirst, Before
<1>6. QED
    BY <1>4, <1>5

LEMMA OtherHeldFirst ==
    ASSUME LockInv,
           \A v \in Worker :
               job'[v].step = "create" => job'[v] = job[v] \/ job'[v].held = {}
    PROVE  \A v \in Worker : HeldFirst(v)'
BY DEF LockInv, HeldFirst, Before

LEMMA ArriveHeldFirst ==
    ASSUME LockInv, NEW w \in Worker, NEW b \in Booking, Arrive(w, b)
    PROVE  \A v \in Worker : HeldFirst(v)'
<1>1. PICK j : job' = [job EXCEPT ![w] = j] /\ j.held = {}
  <2>1. CASE CreateBegin(w, b)
    <3>1. [Idle EXCEPT !.step = "create", !.b = b].held = {}
        BY DEF Idle
    <3>2. QED
        BY <2>1, <3>1 DEF CreateBegin, Begin
  <2>2. ASSUME NEW move \in DOMAIN From, TransitionRead(w, b, move)
        PROVE  \E j : job' = [job EXCEPT ![w] = j] /\ j.held = {}
    <3>1. [Idle EXCEPT !.step = move, !.b = b].held = {}
        BY DEF Idle
    <3>2. QED
        BY <2>2, <3>1 DEF TransitionRead, Begin
  <2>3. ASSUME NEW e \in Provider, AssignLock(w, b, e)
        PROVE  \E j : job' = [job EXCEPT ![w] = j] /\ j.held = {}
    <3>1. [Idle EXCEPT !.step = "assign", !.b = b, !.e = e].held = {}
        BY DEF Idle
    <3>2. QED
        BY <2>3, <3>1 DEF AssignLock
  <2>4. CASE ReassignRead(w, b)
    <3>1. [Idle EXCEPT !.step = "reassign", !.b = b, !.seen = primary[b]].held = {}
        BY DEF Idle
    <3>2. QED
        BY <2>4, <3>1 DEF ReassignRead
  <2>5. QED
      BY <2>1, <2>2, <2>3, <2>4 DEF Arrive
<1>2. QED
    BY <1>1, OtherHeldFirst DEF LockInv, Sound, TypeOK

LEMMA AdvanceHeldFirst ==
    ASSUME LockInv, NEW w \in Worker, Advance(w) \/ Crash(w)
    PROVE  \A v \in Worker : HeldFirst(v)'
<1>1. job[w] \in Job /\ job \in [Worker -> Job]
    BY DEF LockInv, Sound, TypeOK
<1>2. CASE \/ CreateRefuse(w) \/ StartRefuse(w) \/ VerifyRefuse(w)
           \/ AssignRefuse(w) \/ ReassignRefuse(w) \/ ReassignConflict(w)
           \/ Crash(w) \/ TransitionSave(w) \/ ReassignSync(w)
           \/ CreateInsert(w) \/ AssignInsert(w)
    BY <1>1, <1>2, OtherHeldFirst DEF CreateRefuse, StartRefuse, VerifyRefuse,
       AssignRefuse, ReassignRefuse, ReassignConflict, Crash, TransitionSave,
       ReassignSync, CreateInsert, AssignInsert, Return, Idle
<1>3. CASE StartCheck(w) \/ VerifyAccept(w) \/ AssignCheck(w) \/ ReassignSave(w)
    BY <1>1, <1>3, OtherHeldFirst DEF StartCheck, VerifyAccept, AssignCheck,
       ReassignSave, Goto, Return, Idle, Job
<1>4. CASE CreateCheck(w)
    BY <1>1, <1>4, OtherHeldFirst DEF CreateCheck, Job
<1>5. ASSUME NEW i \in 1 .. Required, NEW e \in Provider, ReassignCheck(w, i, e)
      PROVE  \A v \in Worker : HeldFirst(v)'
    BY <1>1, <1>5, OtherHeldFirst DEF ReassignCheck, Job
<1>6. QED
    BY <1>2, <1>3, <1>4, <1>5, LockRowHeldFirst DEF Advance

(* A request that waits for a request that waits for a row, waits for an   *)
(* earlier one: earlier in any slot s whose order that request shares.     *)
LEMMA WaitsRise ==
    ASSUME LockInv, NEW s \in Slot, NEW v \in Worker,
           Agree(s, SlotOf[job[v].b]),
           NEW p \in Provider, p \in job[v].held,
           NEW q \in Provider, At(v, "create"), NextRow(v, q)
    PROVE  Key[s][p] < Key[s][q]
<1> DEFINE t == SlotOf[job[v].b]
<1>1. Fits(job[v]) /\ HeldFirst(v) /\ t \in Slot
    BY DEF LockInv, Sound, Fits
<1>2. Key[t][p] <= Key[t][q] /\ p # q
    BY <1>1 DEF HeldFirst, NextRow, Before
<1>3. Key[s][p] <= Key[s][q]
    BY <1>2 DEF Agree
<1>4. Key[s][p] \in Nat /\ Key[s][q] \in Nat /\ Key[s][p] # Key[s][q]
    BY <1>2, KeyType
<1>5. QED
    BY <1>3, <1>4, LessOrEqual, Zenon

(* In a circle of requests whose slots agree, the request that waits for   *)
(* the last row in their common order would wait for a later one.          *)
LEMMA NoCycle ==
    ASSUME LockInv
    PROVE  CycleAcrossOrders
<1> SUFFICES ASSUME NEW W \in SUBSET Worker, LockCycle(W),
                    \A w, v \in W : Agree(SlotOf[job[w].b], SlotOf[job[v].b])
             PROVE  FALSE
    BY DEF CycleAcrossOrders
<1>0. W # {} /\ \A w \in W : \E v \in W \ {w} : Waits(w, v)
    BY DEF LockCycle
<1>1. PICK w0 \in W : TRUE
    BY <1>0
<1>2. SlotOf[job[w0].b] \in Slot
  <2>1. w0 \in Worker /\ At(w0, "create")
      BY <1>0, <1>1 DEF Waits
  <2>2. job[w0].b \in Booking
      BY <2>1 DEF LockInv, Sound, Fits
  <2>3. QED
      BY <2>2
<1> DEFINE s == SlotOf[job[w0].b]
           Left(p) == MaxKey - Key[s][p]
           T == {n \in Nat : \E w \in W, p \in Provider :
                    At(w, "create") /\ NextRow(w, p) /\ n = Left(p)}
<1>3. \A p \in Provider : Left(p) \in Nat
    BY <1>2, KeyType
<1>4. T # {}
    BY <1>0, <1>1, <1>3 DEF Waits
<1>5. PICK m \in T : \A n \in T : m <= n
    BY <1>4, LeastElement
<1>6. PICK w \in W, p \in Provider :
            At(w, "create") /\ NextRow(w, p) /\ m = Left(p)
    BY <1>5
<1>7. PICK v \in W : p \in job[v].held
  <2>1. PICK v \in W, r \in Provider : NextRow(w, r) /\ r \in job[v].held
      BY <1>0, <1>6 DEF Waits
  <2>2. r = p
    <3>1. SlotOf[job[w].b] \in Slot
        BY <1>6 DEF LockInv, Sound, Fits
    <3>2. Before(job[w].b, r, p) /\ Before(job[w].b, p, r)
        BY <1>6, <2>1 DEF NextRow
    <3> DEFINE t == SlotOf[job[w].b]
    <3>3. /\ Key[t][r] \in Nat /\ Key[t][p] \in Nat
          /\ Key[t][r] <= Key[t][p] /\ Key[t][p] <= Key[t][r]
        BY <3>1, <3>2, KeyType DEF Before
    <3>4. Key[t][r] = Key[t][p]
        BY <3>3, LessOrEqual, Zenon
    <3>5. QED
        BY <3>1, <3>4, KeyType
  <2>3. QED
      BY <2>1, <2>2
<1>8. PICK q \in Provider : At(v, "create") /\ NextRow(v, q)
    BY <1>0, <1>7 DEF Waits
<1>9. Key[s][p] < Key[s][q]
  <2>1. Agree(s, SlotOf[job[v].b])
      BY <1>1, <1>7
  <2>2. QED
      BY <2>1, <1>2, <1>6, <1>7, <1>8, WaitsRise
<1>10. Left(q) \in T /\ Left(q) < m
    BY SMTT(20), <1>2, <1>3, <1>6, <1>8, <1>9
<1>11. QED
    BY <1>3, <1>5, <1>10

(* A circle of create_bookings that wait for one another contains two      *)
(* whose slots' schedule rows come in different orders of providers; so    *)
(* the requests for one slot never wait in a circle.                       *)
THEOREM CycleAcrossOrdersCorrect == Spec => []CycleAcrossOrders
<1>1. Init => LockInv
    BY InitSound DEF LockInv, HeldFirst, Init, Idle
<1>2. LockInv /\ [Next]_vars => LockInv'
  <2> SUFFICES ASSUME LockInv, [Next]_vars
               PROVE  LockInv'
      OBVIOUS
  <2>1. Sound'
      BY NextSound DEF LockInv
  <2>2. CASE UNCHANGED vars
      BY <2>1, <2>2, OtherHeldFirst DEF LockInv, vars
  <2>3. ASSUME NEW w \in Worker, NEW b \in Booking, Arrive(w, b)
        PROVE  LockInv'
      BY <2>1, <2>3, ArriveHeldFirst DEF LockInv
  <2>4. ASSUME NEW w \in Worker, Advance(w) \/ Crash(w)
        PROVE  LockInv'
      BY <2>1, <2>4, AdvanceHeldFirst DEF LockInv
  <2>5. QED
      BY <2>2, <2>3, <2>4 DEF Next
<1>3. LockInv => CycleAcrossOrders
    BY NoCycle
<1>4. QED
    BY <1>1, <1>2, <1>3, PTL DEF Spec
===============================================================================
