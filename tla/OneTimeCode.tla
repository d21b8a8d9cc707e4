------------------------------ MODULE OneTimeCode ------------------------------
(***************************************************************************)
(* One-time codes: accounts/services/otp_service.py (login, phone update,  *)
(* signup), the views that delete an account or switch a business back to  *)
(* a user, and bookings/otp_service.py (the completion of a service).      *)
(*                                                                         *)
(* A code is sent to a subject, which is a user with a purpose, a phone    *)
(* that signs up or a booking to be completed.  It expires, it is used up  *)
(* by the right answer or by MaxAttempts wrong ones, and sending another   *)
(* one usually uses up those before it.                                    *)
(*                                                                         *)
(* Sending and verifying are several statements without a lock or a        *)
(* transaction.  A wrong answer saves the attempts that were read, plus    *)
(* one, and for some codes is_used as well.                                *)
(***************************************************************************)
EXTENDS Integers, FiniteSets

CONSTANTS
    Subject,        \* who a code can be sent to, and for what
    KindOf,         \* what the code is for, see Kind
    UserOf,         \* the user, phone or booking of a subject
    MaxAttempts,    \* MAX_ATTEMPTS
    MaxCode,        \* bound of the model: the codes ever sent
    CodeWorker,     \* the requests in flight at a time
    NoSubject

Kind == {"login", "phone", "signup", "deletion", "switch", "completion"}

(* The codes of which a wrong answer saves is_used as well.                *)
SavedUsed == {"signup", "deletion", "switch"}

Code == 1 .. MaxCode

ASSUME CodeAssumption ==
    /\ KindOf \in [Subject -> Kind]
    /\ MaxAttempts \in Nat \ {0}
    /\ MaxCode \in Nat
    /\ NoSubject \notin Subject

VARIABLES
    code,       \* the rows of codes, in the order they were created
    made,       \* how many there are
    codeJob,    \* the request each worker is handling
    missed,     \* history: the wrong answers given to each code
    accepted,   \* history: the right answers given to each code
    overlapped, \* history: the codes two requests were checking at a time
    crowded     \* history: the subjects two codes were being sent to at a
                \* time, or with a code that was used and is no longer

codeHistory == <<missed, accepted, overlapped, crowded>>
codeVars == <<code, made, codeJob, codeHistory>>

-------------------------------------------------------------------------------
(* age: for a minute after a code nobody gets another one; after five it   *)
(* has expired.                                                            *)
CodeRow == [subject  : Subject \cup {NoSubject},
            used     : BOOLEAN,
            age      : {"new", "live", "expired"},
            attempts : 0 .. MaxAttempts]

(* seen: the attempts of the code as they were read.                       *)
CodeJob == [step    : {"idle", "kill", "sms", "spend", "miss", "hit"},
            subject : Subject \cup {NoSubject},
            code    : Code \cup {0},
            seen    : 0 .. MaxAttempts]

CodeIdle == [step |-> "idle", subject |-> NoSubject, code |-> 0, seen |-> 0]

CodesTypeOK ==
    /\ code \in [Code -> CodeRow]
    /\ made \in 0 .. MaxCode
    /\ codeJob \in [CodeWorker -> CodeJob]
    /\ missed \in [Code -> Nat]
    /\ accepted \in [Code -> Nat]
    /\ overlapped \subseteq Code
    /\ crowded \subseteq Subject

CodesInit ==
    /\ code = [c \in Code |->
          [subject |-> NoSubject, used |-> FALSE, age |-> "new", attempts |-> 0]]
    /\ made = 0
    /\ codeJob = [w \in CodeWorker |-> CodeIdle]
    /\ missed = [c \in Code |-> 0]
    /\ accepted = [c \in Code |-> 0]
    /\ overlapped = {}
    /\ crowded = {}

-------------------------------------------------------------------------------
CodeAt(w, step) == codeJob[w].step = step
CodeBegin(w, step, s, c, n) ==
    codeJob' = [codeJob EXCEPT ![w] =
        [step |-> step, subject |-> s, code |-> c, seen |-> n]]
CodeReturn(w) == codeJob' = [codeJob EXCEPT ![w] = CodeIdle]

Unused(c, s) == code[c].subject = s /\ ~code[c].used
NewestUnused(c, s) == Unused(c, s) /\ \A d \in Code : Unused(d, s) => d <= c
Usable(c, s) == Unused(c, s) /\ code[c].age # "expired"

(* create_otp, for a login, uses up whatever was sent to the user, the     *)
(* other functions what was sent for their purpose.                        *)
KilledBy(s) ==
    {t \in Subject :
        \/ t = s
        \/ /\ KindOf[s] = "login"
           /\ KindOf[t] \notin {"signup", "completion"}
           /\ UserOf[t] = UserOf[s]}

-------------------------------------------------------------------------------
(* Sending.                                                                *)

(* can_send_otp: not within a minute of another code to that phone.  The   *)
(* code of a phone update goes to a number that is not the user's yet.     *)
MaySend(s) ==
    \A c \in Code : \A t \in Subject :
        Unused(c, t) /\ UserOf[t] = UserOf[s] /\ KindOf[t] # "phone"
            => code[c].age # "new"

(* LoginSendOTPAPIView.                                                    *)
SendLogin(w, s) ==
    /\ KindOf[s] = "login"
    /\ MaySend(s)
    /\ CodeBegin(w, "kill", s, 0, 0)

(* UpdateProfileAPIView, of a user without a phone; the wait is between    *)
(* codes to one new number, and each request may name another.             *)
SendPhone(w, s) ==
    /\ KindOf[s] = "phone"
    /\ CodeBegin(w, "kill", s, 0, 0)

(* RegisterAPIView.                                                        *)
SendSignup(w, s) ==
    /\ KindOf[s] = "signup"
    /\ MaySend(s)
    /\ CodeBegin(w, "kill", s, 0, 0)

(* RequestAccountDeletionAPIView: by e-mail without waiting, or by phone.  *)
SendDeletion(w, s, email) ==
    /\ KindOf[s] = "deletion"
    /\ email \/ MaySend(s)
    /\ CodeBegin(w, "kill", s, 0, 0)

(* RequestBusinessSwitchToUserAPIView: the same.                           *)
SendSwitch(w, s, email) ==
    /\ KindOf[s] = "switch"
    /\ email \/ MaySend(s)
    /\ CodeBegin(w, "kill", s, 0, 0)

(* Fault: the view of a completion does not ask for an active code.        *)
SendCompletionAlways(w, s) ==
    /\ KindOf[s] = "completion"
    /\ CodeBegin(w, "sms", s, 0, 0)

(* The view of a completion asks for an active code, and if there is none  *)
(* it sends one; nothing is used up.                                       *)
SendCompletion(w, s) ==
    /\ KindOf[s] = "completion"
    /\ \A c \in Code : NewestUnused(c, s) => code[c].age = "expired"
    /\ CodeBegin(w, "sms", s, 0, 0)

Sending(w, s) ==
    /\ CodeAt(w, "idle")
    /\ \/ SendLogin(w, s)
       \/ SendPhone(w, s)
       \/ SendSignup(w, s)
       \/ \E email \in BOOLEAN : SendDeletion(w, s, email) \/ SendSwitch(w, s, email)
       \/ SendCompletion(w, s)
    /\ crowded' = IF \E v \in CodeWorker : codeJob[v].step \in {"kill", "sms"}
                                             /\ codeJob[v].subject = s
                  THEN crowded \cup {s} ELSE crowded
    /\ UNCHANGED <<code, made, missed, accepted, overlapped>>

SendKill(w) ==
    /\ CodeAt(w, "kill")
    /\ code' = [c \in Code |->
          IF code[c].subject \in KilledBy(codeJob[w].subject)
          THEN [code[c] EXCEPT !.used = TRUE]
          ELSE code[c]]
    /\ CodeBegin(w, "sms", codeJob[w].subject, 0, 0)
    /\ UNCHANGED <<made, codeHistory>>

(* The message is handed over and the code is stored.                      *)
SendInsert(w) ==
    /\ CodeAt(w, "sms")
    /\ made < MaxCode
    /\ made' = made + 1
    /\ code' = [code EXCEPT ![made + 1].subject = codeJob[w].subject]
    /\ CodeReturn(w)
    /\ UNCHANGED codeHistory

-------------------------------------------------------------------------------
(* Verifying.                                                              *)

(* Fault: only the age of a code is tested.                                *)
ExhaustedByAge(c, s) == s \in Subject /\ code[c].age = "expired"

(* The views that delete an account or switch a business do not test the   *)
(* attempts: the last one uses the code up.                                *)
Exhausted(c, s) ==
    \/ code[c].age = "expired"
    \/ /\ KindOf[s] \notin {"deletion", "switch"}
       /\ code[c].attempts >= MaxAttempts

(* The newest unused code is read.  step: what will be saved.              *)
VerifyRead(w, s, c, step) ==
    /\ CodeAt(w, "idle")
    /\ NewestUnused(c, s)
    /\ IF Exhausted(c, s)
       THEN step = "spend"
       ELSE step \in {"miss", "hit"}
    /\ CodeBegin(w, step, s, c, code[c].attempts)
    /\ overlapped' = IF \E v \in CodeWorker : codeJob[v].code = c
                     THEN overlapped \cup {c} ELSE overlapped
    /\ UNCHANGED <<code, made, missed, accepted, crowded>>

VerifySpend(w) ==
    /\ CodeAt(w, "spend")
    /\ code' = [code EXCEPT ![codeJob[w].code].used = TRUE]
    /\ CodeReturn(w)
    /\ UNCHANGED <<made, codeHistory>>

(* Fault: a wrong answer does not store the number of attempts.            *)
VerifyMissUncounted(w) ==
    LET c == codeJob[w].code IN
    /\ CodeAt(w, "miss")
    /\ KindOf[codeJob[w].subject] \notin SavedUsed
    /\ missed' = [missed EXCEPT ![c] = @ + 1]
    /\ CodeReturn(w)
    /\ UNCHANGED <<code, made, accepted, overlapped, crowded>>

(* The attempts read, plus one.                                            *)
VerifyMiss(w) ==
    LET c == codeJob[w].code IN
    /\ CodeAt(w, "miss")
    /\ KindOf[codeJob[w].subject] \notin SavedUsed
    /\ code' = [code EXCEPT ![c].attempts = codeJob[w].seen + 1]
    /\ missed' = [missed EXCEPT ![c] = @ + 1]
    /\ CodeReturn(w)
    /\ UNCHANGED <<made, accepted, overlapped, crowded>>

(* And is_used with them, as it was read unless this was the last attempt. *)
VerifyMissUsed(w) ==
    LET c == codeJob[w].code
        n == codeJob[w].seen + 1
        used == n >= MaxAttempts IN
    /\ CodeAt(w, "miss")
    /\ KindOf[codeJob[w].subject] \in SavedUsed
    /\ code' = [code EXCEPT ![c].attempts = n, ![c].used = used]
    /\ missed' = [missed EXCEPT ![c] = @ + 1]
    /\ crowded' = IF code[c].used /\ ~used
                  THEN crowded \cup {codeJob[w].subject} ELSE crowded
    /\ CodeReturn(w)
    /\ UNCHANGED <<made, accepted, overlapped>>

(* Fault: a code is left unused by the right answer.                       *)
VerifyHitKept(w) ==
    /\ CodeAt(w, "hit")
    /\ accepted' = [accepted EXCEPT ![codeJob[w].code] = @ + 1]
    /\ CodeReturn(w)
    /\ UNCHANGED <<code, made, missed, overlapped, crowded>>

VerifyHit(w) ==
    LET c == codeJob[w].code IN
    /\ CodeAt(w, "hit")
    /\ code' = [code EXCEPT ![c].used = TRUE]
    /\ accepted' = [accepted EXCEPT ![c] = @ + 1]
    /\ CodeReturn(w)
    /\ UNCHANGED <<made, missed, overlapped, crowded>>

-------------------------------------------------------------------------------
(* The message is not accepted, or the worker is killed.                   *)
CodeAbort(w) ==
    /\ ~CodeAt(w, "idle")
    /\ CodeReturn(w)
    /\ UNCHANGED <<code, made, codeHistory>>

Older(c) ==
    /\ code[c].subject # NoSubject
    /\ code[c].age # "expired"
    /\ \A d \in Code : d < c => code[d].age # code[c].age
    /\ code' = [code EXCEPT ![c].age = IF @ = "new" THEN "live" ELSE "expired"]
    /\ UNCHANGED <<made, codeJob, codeHistory>>

CodesNext ==
    \/ \E w \in CodeWorker :
          \/ \E s \in Subject : Sending(w, s)
          \/ SendKill(w)
          \/ SendInsert(w)
          \/ \E s \in Subject, c \in Code, step \in {"spend", "miss", "hit"} :
                VerifyRead(w, s, c, step)
          \/ VerifySpend(w)
          \/ VerifyMiss(w)
          \/ VerifyMissUsed(w)
          \/ VerifyHit(w)
          \/ CodeAbort(w)
    \/ \E c \in Code : Older(c)

CodesSpec == CodesInit /\ [][CodesNext]_codeVars

-------------------------------------------------------------------------------
(* Properties.                                                             *)

(* MAX_ATTEMPTS: a code gets so many wrong answers and no more, and one    *)
(* right answer, unless two requests were checking it at the same time;    *)
(* being used up by another code, or brought back, makes no difference.    *)
GuessLimit ==
    \A c \in Code :
        c \in overlapped \/ (missed[c] <= MaxAttempts /\ accepted[c] <= 1)

(* A subject has one code that can still be answered, unless two were sent *)
(* at a time or a late wrong answer brought a used one back.               *)
OneUsable ==
    \A s \in Subject :
        s \in crowded \/ Cardinality({c \in Code : Usable(c, s)}) <= 1
===============================================================================
