---------------------------- MODULE AccountsProofs ----------------------------
(***************************************************************************)
(* What OneTimeCode, Registration, Profile and AddressBook guarantee for   *)
(* any number of codes, forms, users, addresses and concurrent requests,   *)
(* and that the instance that is model-checked is type correct for any     *)
(* constants.                                                              *)
(*                                                                         *)
(* Codes. Nothing locks a code, so the argument is about what a request    *)
(* can still rely on when it saves. The code it checked belongs to the     *)
(* subject it read; and if nobody else was checking that code, the         *)
(* attempts it read are those stored, and all the wrong answers so far. A  *)
(* code whose wrong answers save is_used is unused only below the limit,   *)
(* because the two columns are always saved together. Codes expire in the  *)
(* order they were sent; so while one request at a time sends to a         *)
(* subject, the codes it uses up before it stores its own are all that can *)
(* be answered.                                                            *)
(*                                                                         *)
(* Signing up. At most one form of a phone is stored, waiting with a code  *)
(* or being confirmed, unless the phone is mixed; so the registration      *)
(* found with a code is the one the code was sent for.                     *)
(*                                                                         *)
(* The user's row. What a request has read of the contacts of its user, or *)
(* is about to save, was confirmed when it read it, and what was confirmed *)
(* stays so. The password is saved with the secret it was decided with; a  *)
(* row that is saved whole was read since, or is recorded as stale.        *)
(*                                                                         *)
(* Addresses. A user whose requests never overlapped has, while one of     *)
(* them runs, room for the address it will insert or bring back, and no    *)
(* default but the one it is about to save. Deleting and booking addresses *)
(* meanwhile only makes both easier.                                       *)
(***************************************************************************)
EXTENDS MCAccounts, ConversationsProofs, FiniteSetTheorems, WellFoundedInduction,
        TLAPS

-------------------------------------------------------------------------------
(* Codes.                                                                  *)

USE CodeAssumption

-------------------------------------------------------------------------------
(* The inductive invariant.                                                *)

Checking(w) == codeJob[w].step \in {"spend", "miss", "hit"}

(* A number above made is that of a row that does not exist.               *)
RowsInOrder ==
    \A c \in Code :
        IF c <= made THEN code[c].subject \in Subject
        ELSE /\ code[c].subject = NoSubject
             /\ code[c].attempts = 0 /\ missed[c] = 0 /\ accepted[c] = 0

(* A wrong answer that is about to be saved is within the limit.           *)
JobInOrder(w) ==
    LET c == codeJob[w].code IN
    /\ codeJob[w].step # "idle" => codeJob[w].subject \in Subject
    /\ Checking(w) => c \in Code /\ code[c].subject = codeJob[w].subject
    /\ ~Checking(w) => c = 0
    /\ codeJob[w].step = "miss" => codeJob[w].seen < MaxAttempts

(* Where is_used is saved with the attempts, an unused code has some left. *)
UnusedHasAttempts ==
    \A c \in Code :
        c <= made /\ KindOf[code[c].subject] \in SavedUsed /\ ~code[c].used
            => code[c].attempts < MaxAttempts

(* A code nobody checked together with another request has been counted    *)
(* exactly, and once accepted it is used and nobody is checking it.        *)
CountedAlone(c) ==
    /\ missed[c] = code[c].attempts
    /\ accepted[c] <= 1
    /\ accepted[c] = 1 => code[c].used /\ \A w \in CodeWorker : codeJob[w].code # c
    /\ \A w, v \in CodeWorker :
          codeJob[w].code = c /\ codeJob[v].code = c => w = v
    /\ \A w \in CodeWorker : codeJob[w].code = c => codeJob[w].seen = code[c].attempts

CodesInv ==
    /\ CodesTypeOK
    /\ RowsInOrder
    /\ \A w \in CodeWorker : JobInOrder(w)
    /\ UnusedHasAttempts
    /\ \A c \in Code \ overlapped : CountedAlone(c)

USE DEF CodesTypeOK, CodeRow, RowsInOrder, Checking, JobInOrder,
        UnusedHasAttempts, CountedAlone, CodeAt

-------------------------------------------------------------------------------
LEMMA CodesInitInv == CodesInit => CodesInv
BY DEF CodesInit, CodesInv, CodeJob, CodeIdle, Code

(* What a worker becomes idle, or busy with.                               *)
LEMMA CodeReturnJob ==
    ASSUME CodesTypeOK, NEW w \in CodeWorker, CodeReturn(w)
    PROVE  /\ codeJob' \in [CodeWorker -> CodeJob]
           /\ \A v \in CodeWorker \ {w} : codeJob'[v] = codeJob[v]
           /\ codeJob'[w].step = "idle" /\ codeJob'[w].code = 0
BY DEF CodeReturn, CodeIdle, CodeJob

LEMMA CodeBeginJob ==
    ASSUME CodesTypeOK, NEW w \in CodeWorker,
           NEW step \in {"idle", "kill", "sms", "spend", "miss", "hit"},
           NEW s \in Subject, NEW c \in Code \cup {0}, NEW n \in 0 .. MaxAttempts,
           CodeBegin(w, step, s, c, n)
    PROVE  /\ codeJob' \in [CodeWorker -> CodeJob]
           /\ \A v \in CodeWorker \ {w} : codeJob'[v] = codeJob[v]
           /\ codeJob'[w].step = step /\ codeJob'[w].subject = s
           /\ codeJob'[w].code = c /\ codeJob'[w].seen = n
BY DEF CodeBegin, CodeJob

(* A request that reads no code leaves the invariant to the rows: what     *)
(* matters of each is its subject, that it does not become unused, and     *)
(* that its attempts stay.                                                 *)
LEMMA RowsKept ==
    ASSUME CodesInv, NEW w \in CodeWorker,
           codeJob' \in [CodeWorker -> CodeJob],
           \A v \in CodeWorker \ {w} : codeJob'[v] = codeJob[v],
           codeJob'[w].code = 0, ~Checking(w)',
           codeJob'[w].step # "idle" => codeJob'[w].subject \in Subject,
           code' \in [Code -> CodeRow],
           \A c \in Code : /\ code'[c].subject = code[c].subject
                           /\ code'[c].attempts = code[c].attempts
                           /\ code[c].used => code'[c].used,
           crowded' \subseteq Subject,
           UNCHANGED <<made, missed, accepted, overlapped>>
    PROVE  CodesInv'
<1> USE DEF CodesInv
<1>1. CodesTypeOK' /\ RowsInOrder' /\ UnusedHasAttempts'
    OBVIOUS
<1>2. ASSUME NEW v \in CodeWorker
      PROVE  JobInOrder(v)'
    <2>1. CASE v = w
        BY <2>1 DEF CodeJob
    <2>2. CASE v # w
        BY <2>2 DEF CodeJob
    <2>3. QED
        BY <2>1, <2>2
<1>3. ASSUME NEW c \in Code \ overlapped
      PROVE  CountedAlone(c)'
    <2>1. \A v \in CodeWorker : codeJob'[v].code = c => v # w /\ codeJob[v].code = c
        BY DEF Code
    <2>2. QED
        BY <2>1
<1>4. QED
    BY <1>1, <1>2, <1>3

HIDE DEF CodesTypeOK, CodeRow, RowsInOrder, Checking, JobInOrder,
         UnusedHasAttempts, CountedAlone

(* One column of a code is saved.                                          *)
LEMMA UsedSaved ==
    ASSUME CodesTypeOK, NEW c \in Code,
           code' = [code EXCEPT ![c].used = TRUE]
    PROVE  /\ code' \in [Code -> CodeRow]
           /\ \A d \in Code \ {c} : code'[d] = code[d]
           /\ code'[c] = [code[c] EXCEPT !.used = TRUE]
           /\ code'[c].used
           /\ \A d \in Code : /\ code'[d].subject = code[d].subject
                              /\ code'[d].attempts = code[d].attempts
                              /\ code[d].used => code'[d].used
<1>1. code' = [code EXCEPT ![c] = [code[c] EXCEPT !.used = TRUE]]
    BY DEF CodesTypeOK
<1>2. code[c] \in CodeRow /\ [code[c] EXCEPT !.used = TRUE] \in CodeRow
  <2>1. code[c] \in CodeRow
      BY DEF CodesTypeOK
  <2>2. \A row \in CodeRow : [row EXCEPT !.used = TRUE] \in CodeRow
      BY DEF CodeRow
  <2>3. QED
      BY <2>1, <2>2
<1>3. QED
    BY <1>1, <1>2 DEF CodesTypeOK, CodeRow

(* Sending begins, goes on with the message, or a request is given up.     *)
LEMMA SendingInv ==
    ASSUME CodesInv, NEW w \in CodeWorker, NEW s \in Subject, Sending(w, s)
    PROVE  CodesInv'
<1>1. PICK step \in {"kill", "sms"} : CodeBegin(w, step, s, 0, 0)
    BY DEF Sending, SendLogin, SendPhone, SendSignup, SendDeletion, SendSwitch,
           SendCompletion
<1>2. /\ crowded' \subseteq Subject
      /\ UNCHANGED <<code, made, missed, accepted, overlapped>>
    BY DEF Sending, CodesInv, CodesTypeOK
<1>3. /\ codeJob' \in [CodeWorker -> CodeJob]
      /\ \A v \in CodeWorker \ {w} : codeJob'[v] = codeJob[v]
      /\ codeJob'[w].step = step /\ codeJob'[w].subject = s
      /\ codeJob'[w].code = 0
    BY <1>1, CodeBeginJob DEF CodesInv
<1>4. ~Checking(w)'
    BY <1>3 DEF Checking
<1>5. code' \in [Code -> CodeRow]
    BY <1>2 DEF CodesInv, CodesTypeOK
<1>6. QED
    BY <1>2, <1>3, <1>4, <1>5, RowsKept

LEMMA SendKillInv ==
    ASSUME CodesInv, NEW w \in CodeWorker, SendKill(w)
    PROVE  CodesInv'
<1>1. PICK s \in Subject : s = codeJob[w].subject
    BY DEF SendKill, CodesInv, JobInOrder
<1>2. CodeBegin(w, "sms", s, 0, 0)
    BY <1>1 DEF SendKill
<1>3. /\ codeJob' \in [CodeWorker -> CodeJob]
      /\ \A v \in CodeWorker \ {w} : codeJob'[v] = codeJob[v]
      /\ codeJob'[w].step = "sms" /\ codeJob'[w].subject = s
      /\ codeJob'[w].code = 0
    BY <1>2, CodeBeginJob DEF CodesInv
<1>4. ~Checking(w)'
    BY <1>3 DEF Checking
<1>5. /\ code' \in [Code -> CodeRow]
      /\ \A c \in Code : /\ code'[c].subject = code[c].subject
                         /\ code'[c].attempts = code[c].attempts
                         /\ code[c].used => code'[c].used
    <2>1. ASSUME NEW c \in Code
          PROVE  LET r == [code[c] EXCEPT !.used = TRUE] IN
                 /\ code[c] \in CodeRow /\ r \in CodeRow
                 /\ r.subject = code[c].subject /\ r.attempts = code[c].attempts
                 /\ r.used
        BY ZenonT(40) DEF CodesInv, CodesTypeOK, CodeRow
    <2>2. QED
        BY <2>1 DEF SendKill
<1>6. crowded' \subseteq Subject /\ UNCHANGED <<made, missed, accepted, overlapped>>
    BY DEF SendKill, codeHistory, CodesInv, CodesTypeOK
<1>7. QED
    BY <1>3, <1>4, <1>5, <1>6, RowsKept

LEMMA CodeAbortInv ==
    ASSUME CodesInv, NEW w \in CodeWorker, CodeAbort(w) \/ VerifySpend(w)
    PROVE  CodesInv'
<1>1. CodeReturn(w)
    BY DEF CodeAbort, VerifySpend
<1>2. /\ codeJob' \in [CodeWorker -> CodeJob]
      /\ \A v \in CodeWorker \ {w} : codeJob'[v] = codeJob[v]
      /\ codeJob'[w].step = "idle" /\ codeJob'[w].code = 0
    BY <1>1, CodeReturnJob DEF CodesInv
<1>3. ~Checking(w)'
    BY <1>2 DEF Checking
<1>4. crowded' \subseteq Subject /\ UNCHANGED <<made, missed, accepted, overlapped>>
    BY DEF CodeAbort, VerifySpend, codeHistory, CodesInv, CodesTypeOK
<1>5. /\ code' \in [Code -> CodeRow]
      /\ \A c \in Code : /\ code'[c].subject = code[c].subject
                         /\ code'[c].attempts = code[c].attempts
                         /\ code[c].used => code'[c].used
    <2>1. CASE CodeAbort(w)
        BY <2>1 DEF CodeAbort, CodesInv, CodesTypeOK
    <2>2. CASE VerifySpend(w)
        <3>1. PICK c \in Code : c = codeJob[w].code
            BY <2>2 DEF VerifySpend, CodesInv, JobInOrder, Checking
        <3>2. code' = [code EXCEPT ![c].used = TRUE]
            BY <2>2, <3>1 DEF VerifySpend
        <3>3. QED
            BY <3>2, UsedSaved DEF CodesInv
    <2>3. QED
        BY <2>1, <2>2
<1>6. QED
    BY <1>2, <1>3, <1>4, <1>5, RowsKept

(* A code that is stored takes the first number without a row.             *)
LEMMA SendInsertInv ==
    ASSUME CodesInv, NEW w \in CodeWorker, SendInsert(w)
    PROVE  CodesInv'
<1>0. /\ CodesTypeOK /\ RowsInOrder /\ UnusedHasAttempts
      /\ \A v \in CodeWorker : JobInOrder(v)
      /\ \A c \in Code \ overlapped : CountedAlone(c)
    BY DEF CodesInv
<1>1. PICK s \in Subject : s = codeJob[w].subject
    BY <1>0 DEF SendInsert, JobInOrder
<1>2. PICK d \in Code :
        /\ made \in Nat /\ d = made + 1 /\ code[d].subject = NoSubject
        /\ code[d].attempts = 0 /\ missed[d] = 0 /\ accepted[d] = 0
    BY <1>0 DEF SendInsert, Code, CodesTypeOK, RowsInOrder
<1>3. \A v \in CodeWorker : codeJob[v].code # d
    BY <1>0, <1>2 DEF JobInOrder, Code, Checking
<1>4. /\ code' \in [Code -> CodeRow]
      /\ \A c \in Code \ {d} : code'[c] = code[c]
      /\ code'[d] = [code[d] EXCEPT !.subject = s]
    <2>1. code' = [code EXCEPT ![d] = [code[d] EXCEPT !.subject = s]]
        BY <1>0, <1>1, <1>2 DEF SendInsert, CodesTypeOK
    <2>2. [code[d] EXCEPT !.subject = s] \in CodeRow
        BY <1>0 DEF CodesTypeOK, CodeRow
    <2>3. QED
        BY <1>0, <2>1, <2>2 DEF CodesTypeOK
<1>5. /\ code'[d].subject = s /\ code'[d].attempts = 0
      /\ made' = d
    BY <1>0, <1>2, <1>4 DEF SendInsert, CodesTypeOK, CodeRow
<1>6. /\ codeJob' \in [CodeWorker -> CodeJob]
      /\ \A v \in CodeWorker \ {w} : codeJob'[v] = codeJob[v]
      /\ codeJob'[w].step = "idle" /\ codeJob'[w].code = 0
      /\ UNCHANGED <<missed, accepted, overlapped, crowded>>
    BY <1>0, CodeReturnJob DEF SendInsert, codeHistory
<1>7. CodesTypeOK'
    BY <1>0, <1>4, <1>5, <1>6 DEF CodesTypeOK, SendInsert
<1>8. RowsInOrder'
    <2>1. /\ d <= made'
          /\ \A c \in Code \ {d} : c <= made' <=> c <= made
        BY <1>2, <1>5 DEF Code
    <2>2. ASSUME NEW c \in Code \ {d}
          PROVE  IF c <= made' THEN code'[c].subject \in Subject
                 ELSE /\ code'[c].subject = NoSubject
                      /\ code'[c].attempts = 0 /\ missed'[c] = 0 /\ accepted'[c] = 0
        BY <1>0, <1>4, <1>6, <2>1 DEF RowsInOrder
    <2>3. QED
        BY <1>5, <2>1, <2>2 DEF RowsInOrder
<1>9. UnusedHasAttempts'
    <2>1. \A c \in Code \ {d} : c <= made' => c <= made
        BY <1>2, <1>5 DEF Code
    <2>2. ASSUME NEW c \in Code, c <= made', KindOf[code'[c].subject] \in SavedUsed,
                 ~code'[c].used
          PROVE  code'[c].attempts < MaxAttempts
        <3>1. CASE c = d
            BY <1>5, <3>1
        <3>2. CASE c # d
            BY <1>0, <1>4, <2>1, <2>2, <3>2 DEF UnusedHasAttempts
        <3>3. QED
            BY <3>1, <3>2
    <2>3. QED
        BY <2>2 DEF UnusedHasAttempts
<1>10. ASSUME NEW v \in CodeWorker
       PROVE  JobInOrder(v)'
    <2>1. CASE v = w
        BY <1>6, <2>1 DEF JobInOrder, Checking
    <2>2. CASE v # w
        BY <1>0, <1>3, <1>4, <1>6, <2>2 DEF JobInOrder, Checking
    <2>3. QED
        BY <2>1, <2>2
<1>11. ASSUME NEW c \in Code \ overlapped
       PROVE  CountedAlone(c)'
    <2>1. \A v \in CodeWorker : codeJob'[v].code = c => v # w /\ codeJob[v].code = c
        BY <1>6 DEF Code
    <2>2. CASE c = d
        BY <1>0, <1>2, <1>3, <1>5, <1>6, <2>1, <2>2 DEF CountedAlone
    <2>3. CASE c # d
        BY <1>0, <1>4, <1>6, <2>1, <2>3 DEF CountedAlone
    <2>4. QED
        BY <2>2, <2>3
<1>12. QED
    BY <1>6, <1>7, <1>8, <1>9, <1>10, <1>11 DEF CodesInv

(* The code that is read is unused; somebody else checking it would put it *)
(* among the overlapped.                                                   *)
LEMMA VerifyReadInv ==
    ASSUME CodesInv, NEW w \in CodeWorker, NEW s \in Subject, NEW c \in Code,
           NEW step \in {"spend", "miss", "hit"}, VerifyRead(w, s, c, step)
    PROVE  CodesInv'
<1>0. /\ CodesTypeOK /\ RowsInOrder /\ UnusedHasAttempts
      /\ \A v \in CodeWorker : JobInOrder(v)
      /\ \A d \in Code \ overlapped : CountedAlone(d)
    BY DEF CodesInv
<1>1. /\ codeJob[w].step = "idle"
      /\ code[c].subject = s /\ ~code[c].used
      /\ step = "miss" => ~Exhausted(c, s)
      /\ UNCHANGED <<code, made, missed, accepted, crowded>>
    BY DEF VerifyRead, NewestUnused, Unused
<1>2. c <= made /\ codeJob[w].code = 0
    BY <1>0, <1>1 DEF RowsInOrder, JobInOrder, Checking
<1>3. code[c].attempts \in 0 .. MaxAttempts /\ made \in Nat
    BY <1>0 DEF CodesTypeOK, CodeRow
<1>4. step = "miss" => code[c].attempts < MaxAttempts
    BY <1>0, <1>1, <1>2, <1>3 DEF Exhausted, UnusedHasAttempts, SavedUsed
<1>5. /\ codeJob' \in [CodeWorker -> CodeJob]
      /\ \A v \in CodeWorker \ {w} : codeJob'[v] = codeJob[v]
      /\ codeJob'[w].step = step /\ codeJob'[w].subject = s
      /\ codeJob'[w].code = c /\ codeJob'[w].seen = code[c].attempts
    BY <1>0, <1>3, CodeBeginJob DEF VerifyRead
<1>6. /\ overlapped' \subseteq Code /\ overlapped \subseteq overlapped'
      /\ c \in overlapped' \/ \A v \in CodeWorker : codeJob[v].code # c
    BY <1>0 DEF VerifyRead, CodesTypeOK
<1>7. CodesTypeOK' /\ RowsInOrder' /\ UnusedHasAttempts'
    BY <1>0, <1>1, <1>5, <1>6 DEF CodesTypeOK, RowsInOrder, UnusedHasAttempts
<1>8. ASSUME NEW v \in CodeWorker
      PROVE  JobInOrder(v)'
    <2>1. CASE v = w
        BY <1>1, <1>4, <1>5, <2>1 DEF JobInOrder, Checking
    <2>2. CASE v # w
        BY <1>0, <1>1, <1>5, <2>2 DEF JobInOrder, Checking
    <2>3. QED
        BY <2>1, <2>2
<1>9. ASSUME NEW d \in Code \ overlapped'
      PROVE  CountedAlone(d)'
    <2>0. CountedAlone(d)
        BY <1>0, <1>6
    <2>1. CASE d = c
        <3>1. \A v \in CodeWorker : codeJob'[v].code = c => v = w
            BY <1>5, <1>6, <2>1
        <3>2. accepted[c] # 1
            BY <1>1, <2>0, <2>1 DEF CountedAlone
        <3>3. QED
            BY <1>1, <1>5, <2>0, <2>1, <3>1, <3>2 DEF CountedAlone
    <2>2. CASE d # c
        BY <1>1, <1>5, <2>0, <2>2 DEF CountedAlone
    <2>3. QED
        BY <2>1, <2>2
<1>10. QED
    BY <1>7, <1>8, <1>9 DEF CodesInv

(* An answer is stored: wrong, the attempts that were read plus one, with  *)
(* is_used or without; or right.                                           *)
LEMMA AnswerStored ==
    ASSUME CodesInv, NEW w \in CodeWorker, NEW c \in Code, c = codeJob[w].code,
           CodeReturn(w),
           NEW r \in CodeRow, code' = [code EXCEPT ![c] = r],
           r.subject = code[c].subject,
           KindOf[r.subject] \in SavedUsed /\ ~r.used => r.attempts < MaxAttempts,
           \/ /\ r.attempts = codeJob[w].seen + 1
              /\ missed' = [missed EXCEPT ![c] = @ + 1] /\ accepted' = accepted
           \/ /\ r.attempts = code[c].attempts /\ r.used
              /\ accepted' = [accepted EXCEPT ![c] = @ + 1] /\ missed' = missed,
           crowded' \subseteq Subject, UNCHANGED <<made, overlapped>>
    PROVE  CodesInv'
<1>0. /\ CodesTypeOK /\ RowsInOrder /\ UnusedHasAttempts
      /\ \A v \in CodeWorker : JobInOrder(v)
      /\ \A d \in Code \ overlapped : CountedAlone(d)
    BY DEF CodesInv
<1>1. /\ code' \in [Code -> CodeRow]
      /\ \A d \in Code \ {c} : code'[d] = code[d]
      /\ code'[c] = r
    BY <1>0 DEF CodesTypeOK
<1>2. /\ codeJob' \in [CodeWorker -> CodeJob]
      /\ \A v \in CodeWorker \ {w} : codeJob'[v] = codeJob[v]
      /\ codeJob'[w].step = "idle" /\ codeJob'[w].code = 0
    BY <1>0, CodeReturnJob
<1>3. c <= made
    BY <1>0 DEF JobInOrder, RowsInOrder, Checking, Code
<1>4. /\ \A d \in Code \ {c} : missed'[d] = missed[d] /\ accepted'[d] = accepted[d]
      /\ missed'[c] \in Nat /\ accepted'[c] \in Nat
      /\ missed' \in [Code -> Nat] /\ accepted' \in [Code -> Nat]
    BY <1>0 DEF CodesTypeOK
<1>5. CodesTypeOK'
    BY <1>0, <1>1, <1>2, <1>4 DEF CodesTypeOK
<1>6. RowsInOrder'
    BY <1>0, <1>1, <1>3, <1>4 DEF RowsInOrder
<1>7. UnusedHasAttempts'
    BY <1>0, <1>1 DEF UnusedHasAttempts
<1>8. ASSUME NEW v \in CodeWorker
      PROVE  JobInOrder(v)'
    <2>1. CASE v = w
        BY <1>2, <2>1 DEF JobInOrder, Checking
    <2>2. CASE v # w
        BY <1>0, <1>1, <1>2, <2>2 DEF JobInOrder, Checking
    <2>3. QED
        BY <2>1, <2>2
<1>9. ASSUME NEW d \in Code \ overlapped
      PROVE  CountedAlone(d)'
    <2>0. CountedAlone(d)
        BY <1>0
    <2>1. \A v \in CodeWorker : codeJob'[v].code = d => v # w /\ codeJob[v].code = d
        BY <1>2 DEF Code
    <2>2. CASE d = c
        <3>1. \A v \in CodeWorker : codeJob'[v].code # c
            BY <2>0, <2>1, <2>2 DEF CountedAlone
        <3>2. /\ accepted[c] = 0 /\ missed[c] = code[c].attempts
              /\ codeJob[w].seen = code[c].attempts
            BY <1>0, <2>0, <2>2 DEF CountedAlone, CodesTypeOK
        <3>3. /\ missed'[c] = r.attempts /\ accepted'[c] <= 1
              /\ accepted'[c] = 1 => r.used
            BY <1>0, <3>2 DEF CodesTypeOK
        <3>4. QED
            BY <1>1, <2>2, <3>1, <3>3 DEF CountedAlone
    <2>3. CASE d # c
        <3>1. code'[d] = code[d] /\ missed'[d] = missed[d] /\ accepted'[d] = accepted[d]
            BY <1>1, <1>4, <2>3
        <3>2. \A v \in CodeWorker : codeJob'[v].code = d => codeJob'[v] = codeJob[v]
            BY <1>2, <2>1
        <3>3. QED
            BY <2>0, <2>1, <3>1, <3>2 DEF CountedAlone
    <2>4. QED
        BY <2>2, <2>3
<1>10. QED
    BY <1>5, <1>6, <1>7, <1>8, <1>9 DEF CodesInv

LEMMA VerifyMissInv ==
    ASSUME CodesInv, NEW w \in CodeWorker, VerifyMiss(w) \/ VerifyMissUsed(w)
    PROVE  CodesInv'
<1>0. CodesTypeOK /\ JobInOrder(w) /\ codeJob[w].step = "miss"
    BY DEF CodesInv, VerifyMiss, VerifyMissUsed
<1>1. PICK c \in Code : c = codeJob[w].code /\ code[c].subject = codeJob[w].subject
    BY <1>0 DEF JobInOrder, Checking
<1>2. PICK n \in 1 .. MaxAttempts : n = codeJob[w].seen + 1
    BY <1>0 DEF JobInOrder, CodesTypeOK, CodeJob
<1>3. code[c] \in CodeRow
    BY <1>0 DEF CodesTypeOK
<1>4. CASE VerifyMiss(w)
    <2> DEFINE r == [code[c] EXCEPT !.attempts = n]
    <2>1. r \in CodeRow /\ r.subject = code[c].subject /\ r.attempts = n
        BY <1>3 DEF CodeRow
    <2>2. /\ code' = [code EXCEPT ![c] = r]
          /\ KindOf[r.subject] \notin SavedUsed
        BY <1>0, <1>1, <1>2, <1>4, <2>1 DEF VerifyMiss, CodesTypeOK
    <2>3. /\ missed' = [missed EXCEPT ![c] = @ + 1]
          /\ CodeReturn(w) /\ crowded' \subseteq Subject
          /\ UNCHANGED <<made, accepted, overlapped>>
        BY <1>0, <1>1, <1>4 DEF VerifyMiss, CodesTypeOK
    <2> HIDE DEF r
    <2>4. QED
        BY <1>1, <1>2, <2>1, <2>2, <2>3, AnswerStored
<1>5. CASE VerifyMissUsed(w)
    <2>1. PICK used \in BOOLEAN :
            /\ code' = [code EXCEPT ![c].attempts = n, ![c].used = used]
            /\ ~used => n < MaxAttempts
        <3>1. code' = [code EXCEPT ![c].attempts = n, ![c].used = (n >= MaxAttempts)]
            BY <1>1, <1>2, <1>5 DEF VerifyMissUsed
        <3>2. CASE n >= MaxAttempts
            BY <3>1, <3>2
        <3>3. CASE ~(n >= MaxAttempts)
            <4>1. (n >= MaxAttempts) = FALSE /\ n < MaxAttempts
                BY <3>3
            <4>2. code' = [code EXCEPT ![c].attempts = n, ![c].used = FALSE]
                BY <3>1, <4>1, Zenon
            <4>3. QED
                BY <4>1, <4>2
        <3>4. QED
            BY <3>2, <3>3
    <2> DEFINE r == [subject |-> code[c].subject, used |-> used,
                     age |-> code[c].age, attempts |-> n]
    <2>2. /\ r \in CodeRow /\ r.subject = code[c].subject /\ r.attempts = n
          /\ r.attempts < MaxAttempts \/ r.used
        BY <1>3, <2>1 DEF CodeRow
    <2>3. code' = [code EXCEPT ![c] = r]
        <3>1. [code[c] EXCEPT !.attempts = n, !.used = used] = r
            <4> DEFINE m == [code[c] EXCEPT !.attempts = n]
            <4>1. m = [subject |-> code[c].subject, used |-> code[c].used,
                       age |-> code[c].age, attempts |-> n]
                BY <1>3 DEF CodeRow
            <4>2. [code[c] EXCEPT !.attempts = n, !.used = used]
                    = [m EXCEPT !.used = used]
                BY <1>3 DEF CodeRow
            <4> HIDE DEF m
            <4>3. [m EXCEPT !.used = used] = r
                BY <4>1
            <4>4. QED
                BY <4>2, <4>3
        <3>2. code' = [code EXCEPT ![c] = [code[c] EXCEPT !.attempts = n, !.used = used]]
            BY <1>0, <2>1 DEF CodesTypeOK
        <3>3. QED
            BY <3>1, <3>2
    <2>4. /\ missed' = [missed EXCEPT ![c] = @ + 1]
          /\ CodeReturn(w) /\ crowded' \subseteq Subject
          /\ UNCHANGED <<made, accepted, overlapped>>
        BY <1>0, <1>1, <1>5 DEF VerifyMissUsed, CodesTypeOK, JobInOrder
    <2>5. KindOf[r.subject] \in SavedUsed /\ ~r.used => r.attempts < MaxAttempts
        BY <2>2
    <2>6. r.attempts = codeJob[w].seen + 1
        BY <1>2, <2>2
    <2> HIDE DEF r
    <2>7. QED
        BY <1>1, <2>2, <2>3, <2>4, <2>5, <2>6, AnswerStored
<1>6. QED
    BY <1>4, <1>5

LEMMA VerifyHitInv ==
    ASSUME CodesInv, NEW w \in CodeWorker, VerifyHit(w)
    PROVE  CodesInv'
<1>0. CodesTypeOK /\ JobInOrder(w) /\ codeJob[w].step = "hit"
    BY DEF CodesInv, VerifyHit
<1>1. PICK c \in Code : c = codeJob[w].code
    BY <1>0 DEF JobInOrder, Checking
<1> DEFINE r == [code[c] EXCEPT !.used = TRUE]
<1>2. code[c] \in CodeRow
    BY <1>0 DEF CodesTypeOK
<1>3. /\ r \in CodeRow /\ r.subject = code[c].subject
      /\ r.attempts = code[c].attempts /\ r.used
    BY <1>2 DEF CodeRow
<1>4. code' = [code EXCEPT ![c] = r]
    BY <1>0, <1>1 DEF VerifyHit, CodesTypeOK
<1>5. /\ accepted' = [accepted EXCEPT ![c] = @ + 1]
      /\ CodeReturn(w) /\ crowded' \subseteq Subject
      /\ UNCHANGED <<made, missed, overlapped>>
    BY <1>0, <1>1 DEF VerifyHit, CodesTypeOK
<1> HIDE DEF r
<1>6. QED
    BY <1>1, <1>3, <1>4, <1>5, AnswerStored

LEMMA OlderInv ==
    ASSUME CodesInv, NEW c \in Code, Older(c)
    PROVE  CodesInv'
<1>0. CodesTypeOK
    BY DEF CodesInv
<1>1. PICK age \in {"live", "expired"} :
        code' = [code EXCEPT ![c] = [code[c] EXCEPT !.age = age]]
    BY <1>0 DEF Older, CodesTypeOK
<1>2. code[c] \in CodeRow /\ [code[c] EXCEPT !.age = age] \in CodeRow
    BY <1>0 DEF CodesTypeOK, CodeRow
<1>3. /\ code' \in [Code -> CodeRow]
      /\ \A d \in Code : /\ code'[d].subject = code[d].subject
                         /\ code'[d].attempts = code[d].attempts
                         /\ code'[d].used = code[d].used
    BY <1>0, <1>1, <1>2 DEF CodesTypeOK, CodeRow
<1>4. UNCHANGED <<made, codeJob, missed, accepted, overlapped, crowded>>
    BY DEF Older, codeHistory
<1>5. CodesTypeOK' /\ RowsInOrder' /\ UnusedHasAttempts'
    BY <1>3, <1>4 DEF CodesInv, CodesTypeOK, RowsInOrder, UnusedHasAttempts
<1>6. \A v \in CodeWorker : JobInOrder(v)'
    BY <1>3, <1>4 DEF CodesInv, JobInOrder, Checking
<1>7. \A d \in Code \ overlapped : CountedAlone(d)'
    BY <1>3, <1>4 DEF CodesInv, CountedAlone
<1>8. QED
    BY <1>4, <1>5, <1>6, <1>7 DEF CodesInv

-------------------------------------------------------------------------------
LEMMA CodesNextInv ==
    ASSUME CodesInv, [CodesNext]_codeVars
    PROVE  CodesInv'
<1>1. CASE UNCHANGED codeVars
    BY <1>1 DEF codeVars, codeHistory, CodesInv, CodesTypeOK, RowsInOrder,
                UnusedHasAttempts, JobInOrder, Checking, CountedAlone
<1>2. CASE \E c \in Code : Older(c)
    BY <1>2, OlderInv
<1>3. ASSUME NEW w \in CodeWorker, NEW s \in Subject, NEW c \in Code,
             NEW step \in {"spend", "miss", "hit"}, VerifyRead(w, s, c, step)
      PROVE  CodesInv'
    BY <1>3, VerifyReadInv
<1>4. ASSUME NEW w \in CodeWorker,
             \/ \E s \in Subject : Sending(w, s)
             \/ SendKill(w) \/ SendInsert(w) \/ VerifySpend(w) \/ VerifyMiss(w)
             \/ VerifyMissUsed(w) \/ VerifyHit(w) \/ CodeAbort(w)
      PROVE  CodesInv'
    BY <1>4, SendingInv, SendKillInv, SendInsertInv, VerifyMissInv, VerifyHitInv,
       CodeAbortInv
<1>5. QED
    BY <1>1, <1>2, <1>3, <1>4 DEF CodesNext

LEMMA CodesAlwaysInv == CodesSpec => []CodesInv
BY CodesInitInv, CodesNextInv, PTL DEF CodesSpec

(* The rows of codes and the requests stay within their types; above all,  *)
(* no code is ever stored with more than MAX_ATTEMPTS, however its checks  *)
(* race: the attempts that are saved were below the limit when read.       *)
THEOREM CodesTypeCorrect == CodesSpec => []CodesTypeOK
<1>1. CodesInv => CodesTypeOK
    BY DEF CodesInv
<1>2. QED
    BY <1>1, CodesAlwaysInv, PTL

(* A code nobody checked together with another request gets MAX_ATTEMPTS   *)
(* wrong answers at most and one right one: verify_otp and its copies in   *)
(* accounts and bookings, whatever is sent, resent or brought back.        *)
THEOREM GuessLimitCorrect == CodesSpec => []GuessLimit
<1>1. CodesInv => GuessLimit
    <2>1. ASSUME CodesInv, NEW c \in Code \ overlapped
          PROVE  missed[c] <= MaxAttempts /\ accepted[c] <= 1
        <3>1. CountedAlone(c) /\ code[c].attempts \in 0 .. MaxAttempts
            BY <2>1 DEF CodesInv, CodesTypeOK, CodeRow
        <3>2. QED
            BY <3>1 DEF CountedAlone
    <2>2. QED
        BY <2>1 DEF GuessLimit
<1>2. QED
    BY <1>1, CodesAlwaysInv, PTL

-------------------------------------------------------------------------------
(* One code that can be answered.                                          *)

(* Codes grow old in the order they were sent.                             *)
AgesInOrder ==
    /\ \A c \in Code : c > made => code[c].age = "new"
    /\ \A c, d \in Code : d < c =>
          /\ code[c].age # "new" => code[d].age # "new"
          /\ code[c].age = "expired" => code[d].age = "expired"

SendsTo(w, s) == codeJob[w].step \in {"kill", "sms"} /\ codeJob[w].subject = s

(* One request at a time sends a code to a subject; when it is about to    *)
(* store the code, no other can still be answered.                         *)
SentAlone(s) ==
    /\ \A w, v \in CodeWorker : SendsTo(w, s) /\ SendsTo(v, s) => w = v
    /\ \A w \in CodeWorker : SendsTo(w, s) /\ codeJob[w].step = "sms"
                                => \A c \in Code : ~Usable(c, s)
    /\ \A c, d \in Code : Usable(c, s) /\ Usable(d, s) => c = d

UsableInv ==
    /\ CodesInv
    /\ AgesInOrder
    /\ \A s \in Subject \ crowded : SentAlone(s)

LEMMA UsableInitInv == CodesInit => UsableInv
<1> SUFFICES ASSUME CodesInit PROVE UsableInv
    OBVIOUS
<1>1. /\ \A c \in Code : code[c].age = "new" /\ code[c].subject = NoSubject
      /\ \A w \in CodeWorker : codeJob[w].step = "idle"
    BY DEF CodesInit, CodeIdle
<1>2. AgesInOrder
    BY <1>1 DEF AgesInOrder
<1>3. \A s \in Subject : SentAlone(s)
    BY <1>1, CodeAssumption DEF SentAlone, SendsTo, Usable, Unused
<1>4. QED
    BY <1>2, <1>3, CodesInitInv DEF UsableInv

(* The newest of some codes.                                               *)
LEMMA NewestExists ==
    ASSUME NEW S \in SUBSET Code, NEW k \in S
    PROVE  \E m \in S : \A c \in S : c <= m
<1> DEFINE T == {MaxCode - c : c \in S}
           Less == {pair \in Nat \X Nat : pair[1] < pair[2]}
<1>1. T \in SUBSET Nat /\ T # {}
    BY CodeAssumption DEF Code
<1>2. IsWellFoundedOn(Less, Nat)
    BY NatLessThanWellFounded, Zenon DEF OpToRel
<1>3. \E n \in T : \A i \in T : <<i, n>> \notin Less
    <2> HIDE DEF Less, T
    <2>1. QED
        BY <1>1, <1>2, WFMin
<1>4. PICK n \in T : \A i \in T : <<i, n>> \notin Less
    BY <1>3
<1>5. PICK m \in S : n = MaxCode - m
    BY <1>4
<1>6. ASSUME NEW c \in S
      PROVE  c <= m
    <2>1. <<MaxCode - c, n>> \notin Less
        BY <1>4
    <2>2. /\ MaxCode - c \in Nat /\ n \in Nat /\ c \in Int /\ m \in Int
          /\ MaxCode \in Int
        BY <1>1, <1>4, CodeAssumption DEF Code
    <2>3. ~(MaxCode - c < n)
        BY <2>1, <2>2
    <2>4. QED
        BY <1>5, <2>2, <2>3
<1>7. QED
    BY <1>6

-------------------------------------------------------------------------------
LEMMA AgesKept ==
    ASSUME UsableInv, made' \in Nat, made <= made',
           \A c \in Code : code'[c].age = code[c].age
    PROVE  AgesInOrder'
<1>1. made \in Nat /\ \A c \in Code : c > made' => c > made
    BY CodeAssumption DEF UsableInv, CodesInv, CodesTypeOK, Code
<1>2. QED
    BY <1>1 DEF UsableInv, AgesInOrder

(* A request that does not send any more, and after which no code can be   *)
(* answered that could not be.                                             *)
LEMMA SentAloneKept ==
    ASSUME UsableInv, NEW w \in CodeWorker,
           \A v \in CodeWorker \ {w} : codeJob'[v] = codeJob[v],
           codeJob'[w].step \notin {"kill", "sms"}, crowded \subseteq crowded',
           \A s \in Subject \ crowded' : \A c \in Code :
                Usable(c, s)' => Usable(c, s)
    PROVE  \A s \in Subject \ crowded' : SentAlone(s)'
<1>1. ASSUME NEW s \in Subject \ crowded'
      PROVE  SentAlone(s)'
    <2>1. SentAlone(s)
        BY DEF UsableInv
    <2>2. \A v \in CodeWorker : SendsTo(v, s)' => SendsTo(v, s) /\ codeJob'[v] = codeJob[v]
        BY DEF SendsTo
    <2>3. QED
        BY <2>1, <2>2 DEF SentAlone
<1>2. QED
    BY <1>1

LEMMA AnswerUsable ==
    ASSUME UsableInv, NEW w \in CodeWorker,
           \/ \E s \in Subject, c \in Code, step \in {"spend", "miss", "hit"} :
                VerifyRead(w, s, c, step)
           \/ VerifySpend(w) \/ VerifyMiss(w) \/ VerifyMissUsed(w) \/ VerifyHit(w)
           \/ CodeAbort(w)
    PROVE  AgesInOrder' /\ \A s \in Subject \ crowded' : SentAlone(s)'
<1>0. /\ CodesTypeOK /\ JobInOrder(w)
      /\ code \in [Code -> CodeRow] /\ codeJob \in [CodeWorker -> CodeJob]
      /\ made \in Nat
    BY CodeAssumption DEF UsableInv, CodesInv, CodesTypeOK
<1>1. /\ \A v \in CodeWorker \ {w} : codeJob'[v] = codeJob[v]
      /\ codeJob'[w].step \notin {"kill", "sms"}
    <2>1. CASE CodeReturn(w)
        BY <1>0, <2>1, CodeReturnJob
    <2>2. ASSUME NEW s \in Subject, NEW c \in Code, NEW step \in {"spend", "miss", "hit"},
                 VerifyRead(w, s, c, step)
          PROVE  /\ \A v \in CodeWorker \ {w} : codeJob'[v] = codeJob[v]
                 /\ codeJob'[w].step \notin {"kill", "sms"}
        BY <1>0, <2>2 DEF VerifyRead, CodeBegin
    <2>3. QED
        BY <2>1, <2>2 DEF VerifySpend, VerifyMiss, VerifyMissUsed, VerifyHit, CodeAbort
<1>2. made' = made /\ crowded \subseteq crowded'
    BY DEF VerifyRead, VerifySpend, VerifyMiss, VerifyMissUsed, VerifyHit, CodeAbort,
           codeHistory
<1>3. /\ \A d \in Code : code'[d].age = code[d].age
      /\ \A s \in Subject \ crowded' : \A d \in Code :
            Usable(d, s)' => Usable(d, s)
    <2>1. CASE UNCHANGED code
        BY <2>1 DEF Usable, Unused
    <2>2. CASE VerifySpend(w) \/ VerifyHit(w)
        <3>1. PICK c \in Code : c = codeJob[w].code
            BY <1>0, <2>2 DEF VerifySpend, VerifyHit, CodeAt, JobInOrder, Checking
        <3>2. code' = [code EXCEPT ![c].used = TRUE]
            BY <2>2, <3>1 DEF VerifySpend, VerifyHit
        <3>3. \A d \in Code : code'[d].age = code[d].age
            BY <1>0, <3>2 DEF CodeRow
        <3>4. QED
            BY <1>0, <3>2, <3>3, UsedSaved DEF Usable, Unused
    <2>3. CASE VerifyMiss(w)
        <3>1. PICK c \in Code : c = codeJob[w].code
            BY <1>0, <2>3 DEF VerifyMiss, CodeAt, JobInOrder, Checking
        <3>2. code' = [code EXCEPT ![c].attempts = codeJob[w].seen + 1]
            BY <2>3, <3>1 DEF VerifyMiss
        <3>3. \A d \in Code : /\ code'[d].age = code[d].age
                              /\ code'[d].used = code[d].used
                              /\ code'[d].subject = code[d].subject
            BY <1>0, <3>2 DEF CodeRow
        <3>4. QED
            BY <3>3 DEF Usable, Unused
    <2>4. CASE VerifyMissUsed(w)
        <3>1. PICK c \in Code : c = codeJob[w].code
                                  /\ code[c].subject = codeJob[w].subject
            BY <1>0, <2>4 DEF VerifyMissUsed, CodeAt, JobInOrder, Checking
        <3>2. PICK n \in Nat, used \in BOOLEAN :
                /\ code' = [code EXCEPT ![c].attempts = n, ![c].used = used]
                /\ crowded' = IF code[c].used /\ ~used
                              THEN crowded \cup {codeJob[w].subject} ELSE crowded
            <4>1. PICK n \in Nat : n = codeJob[w].seen + 1
                BY <1>0, CodeAssumption DEF CodeJob
            <4>2. /\ code' = [code EXCEPT ![c].attempts = n,
                                          ![c].used = (n >= MaxAttempts)]
                  /\ crowded' = IF code[c].used /\ ~(n >= MaxAttempts)
                                THEN crowded \cup {codeJob[w].subject} ELSE crowded
                BY <2>4, <3>1, <4>1 DEF VerifyMissUsed
            <4>3. CASE n >= MaxAttempts
                <5>1. (n >= MaxAttempts) = TRUE
                    BY <4>3
                <5>2. QED
                    BY <4>2, <5>1, Zenon
            <4>4. CASE ~(n >= MaxAttempts)
                <5>1. (n >= MaxAttempts) = FALSE
                    BY <4>4
                <5>2. QED
                    BY <4>2, <5>1, Zenon
            <4>5. QED
                BY <4>3, <4>4
        <3>3. /\ \A d \in Code \ {c} : code'[d] = code[d]
              /\ code'[c] = [code[c] EXCEPT !.attempts = n, !.used = used]
            BY <1>0, <3>2
        <3>4. /\ code'[c].age = code[c].age /\ code'[c].subject = code[c].subject
              /\ code'[c].used = used
            <4>1. code[c] \in CodeRow
                BY <1>0
            <4> DEFINE m == [code[c] EXCEPT !.attempts = n]
            <4>2. /\ m = [subject |-> code[c].subject, used |-> code[c].used,
                          age |-> code[c].age, attempts |-> n]
                  /\ code'[c] = [m EXCEPT !.used = used]
                BY <3>3, <4>1 DEF CodeRow
            <4> HIDE DEF m
            <4>3. QED
                BY <4>2
        <3>5. ASSUME NEW s \in Subject \ crowded', NEW d \in Code, Usable(d, s)'
              PROVE  Usable(d, s)
            <4>1. CASE d # c
                BY <3>3, <3>5, <4>1 DEF Usable, Unused
            <4>2. CASE d = c
                <5>1. ~used /\ code[c].subject = s /\ code[c].age # "expired"
                    BY <3>4, <3>5, <4>2 DEF Usable, Unused
                <5>2. ~code[c].used
                    BY <3>1, <3>2, <5>1
                <5>3. QED
                    BY <4>2, <5>1, <5>2 DEF Usable, Unused
            <4>3. QED
                BY <4>1, <4>2
        <3>6. QED
            BY <3>3, <3>4, <3>5
    <2>5. QED
        BY <2>1, <2>2, <2>3, <2>4 DEF VerifyRead, CodeAbort
<1>4. AgesInOrder'
    BY <1>0, <1>2, <1>3, AgesKept
<1>5. \A s \in Subject \ crowded' : SentAlone(s)'
    BY <1>1, <1>2, <1>3, SentAloneKept
<1>6. QED
    BY <1>4, <1>5

(* Two requests that send to one subject make it crowded; the view of a    *)
(* completion sends only when the newest code has expired, and the others  *)
(* are older.                                                              *)
LEMMA SendingUsable ==
    ASSUME UsableInv, NEW w \in CodeWorker, NEW s \in Subject, Sending(w, s)
    PROVE  AgesInOrder' /\ \A t \in Subject \ crowded' : SentAlone(t)'
<1>0. /\ CodesTypeOK /\ AgesInOrder
      /\ code \in [Code -> CodeRow] /\ codeJob \in [CodeWorker -> CodeJob]
      /\ made \in Nat
    BY CodeAssumption DEF UsableInv, CodesInv, CodesTypeOK
<1>1. /\ codeJob[w].step = "idle" /\ UNCHANGED <<code, made>>
      /\ crowded \subseteq crowded'
      /\ s \in crowded' \/ \A v \in CodeWorker : ~SendsTo(v, s)
    BY DEF Sending, CodeAt, SendsTo
<1>2. AgesInOrder'
    BY <1>0, <1>1 DEF AgesInOrder
<1>3. PICK step \in {"kill", "sms"} :
        /\ CodeBegin(w, step, s, 0, 0)
        /\ step = "sms" => SendCompletion(w, s)
    BY DEF Sending, SendLogin, SendPhone, SendSignup, SendDeletion, SendSwitch,
           SendCompletion
<1>4. /\ \A v \in CodeWorker \ {w} : codeJob'[v] = codeJob[v]
      /\ codeJob'[w].step = step /\ codeJob'[w].subject = s
    BY <1>0, <1>3 DEF CodeBegin
<1>5. ASSUME step = "sms", NEW c \in Code
      PROVE  ~Usable(c, s)
    <2>1. SUFFICES ASSUME Unused(c, s) PROVE code[c].age = "expired"
        BY DEF Usable
    <2> DEFINE S == {d \in Code : Unused(d, s)}
    <2>2. PICK m \in S : \A d \in S : d <= m
        <3>1. S \in SUBSET Code /\ c \in S
            BY <2>1
        <3> HIDE DEF S
        <3>2. QED
            BY <3>1, NewestExists
    <2>3. NewestUnused(m, s)
        BY <2>2 DEF NewestUnused
    <2>4. code[m].age = "expired" /\ c <= m
        BY <1>3, <1>5, <2>1, <2>2, <2>3 DEF SendCompletion
    <2>5. CASE c = m
        BY <2>4, <2>5
    <2>6. CASE c # m
        BY <1>0, <2>2, <2>4, <2>6 DEF AgesInOrder, Code
    <2>7. QED
        BY <2>5, <2>6
<1>6. ASSUME NEW t \in Subject \ crowded'
      PROVE  SentAlone(t)'
    <2>1. SentAlone(t)
        BY <1>1 DEF UsableInv
    <2>2. \A c \in Code : Usable(c, t)' <=> Usable(c, t)
        BY <1>1 DEF Usable, Unused
    <2>3. CASE t # s
        <3>1. \A v \in CodeWorker : SendsTo(v, t)' => SendsTo(v, t) /\ codeJob'[v] = codeJob[v]
            BY <1>4, <2>3 DEF SendsTo
        <3>2. QED
            BY <2>1, <2>2, <3>1 DEF SentAlone
    <2>4. CASE t = s
        <3>1. \A v \in CodeWorker : SendsTo(v, t)' => v = w
            BY <1>1, <1>4, <2>4 DEF SendsTo
        <3>2. QED
            BY <1>4, <1>5, <2>1, <2>2, <2>4, <3>1 DEF SentAlone
    <2>5. QED
        BY <2>3, <2>4
<1>7. QED
    BY <1>2, <1>6

LEMMA SendKillUsable ==
    ASSUME UsableInv, NEW w \in CodeWorker, SendKill(w)
    PROVE  AgesInOrder' /\ \A t \in Subject \ crowded' : SentAlone(t)'
<1>0. /\ CodesTypeOK /\ code \in [Code -> CodeRow] /\ made \in Nat
      /\ codeJob \in [CodeWorker -> CodeJob] /\ codeJob[w].step = "kill"
      /\ UNCHANGED <<made, crowded>>
    BY CodeAssumption DEF UsableInv, CodesInv, CodesTypeOK, SendKill, CodeAt, codeHistory
<1>1. PICK s \in Subject : s = codeJob[w].subject
    BY <1>0 DEF UsableInv, CodesInv, JobInOrder
<1> DEFINE Off(r) == [r EXCEPT !.used = TRUE]
<1>2. \A r \in CodeRow : Off(r).used /\ Off(r).age = r.age /\ Off(r).subject = r.subject
    BY DEF CodeRow
<1>3. \A c \in Code : code'[c] = IF code[c].subject \in KilledBy(s) THEN Off(code[c])
                                                                  ELSE code[c]
    BY <1>1, Zenon DEF SendKill
<1> HIDE DEF Off
<1>4. \A c \in Code : /\ code'[c].age = code[c].age
                      /\ code'[c].subject = code[c].subject
                      /\ code[c].used => code'[c].used
                      /\ code[c].subject = s => code'[c].used
    BY <1>0, <1>2, <1>3 DEF KilledBy
<1>5. AgesInOrder'
    BY <1>0, <1>4, AgesKept
<1>6. /\ \A v \in CodeWorker \ {w} : codeJob'[v] = codeJob[v]
      /\ codeJob'[w].step = "sms" /\ codeJob'[w].subject = s
    BY <1>0, <1>1 DEF SendKill, CodeBegin
<1>7. ASSUME NEW t \in Subject \ crowded'
      PROVE  SentAlone(t)'
    <2>1. SentAlone(t)
        BY <1>0 DEF UsableInv
    <2>2. \A c \in Code : Usable(c, t)' => Usable(c, t) /\ t # s
        BY <1>4 DEF Usable, Unused
    <2>3. \A v \in CodeWorker : SendsTo(v, t)' => SendsTo(v, t)
        BY <1>0, <1>1, <1>6 DEF SendsTo
    <2>4. \A v \in CodeWorker : SendsTo(v, t)' /\ t # s => codeJob'[v] = codeJob[v]
        BY <1>6 DEF SendsTo
    <2>5. QED
        BY <2>1, <2>2, <2>3, <2>4 DEF SentAlone
<1>8. QED
    BY <1>5, <1>7

(* The code that is stored is the only one of its subject.                 *)
LEMMA SendInsertUsable ==
    ASSUME UsableInv, NEW w \in CodeWorker, SendInsert(w)
    PROVE  AgesInOrder' /\ \A t \in Subject \ crowded' : SentAlone(t)'
<1>0. /\ CodesTypeOK /\ code \in [Code -> CodeRow] /\ made \in Nat
      /\ codeJob[w].step = "sms" /\ UNCHANGED crowded
      /\ made' = made + 1 /\ made + 1 \in Code
    BY CodeAssumption DEF UsableInv, CodesInv, CodesTypeOK, SendInsert, CodeAt,
       codeHistory, Code
<1>1. PICK s \in Subject : s = codeJob[w].subject
    BY <1>0 DEF UsableInv, CodesInv, JobInOrder
<1>2. PICK d \in Code : d = made + 1
    BY <1>0
<1>3. /\ \A c \in Code : code'[c].age = code[c].age /\ code'[c].used = code[c].used
      /\ \A c \in Code \ {d} : code'[c].subject = code[c].subject
      /\ code'[d].subject = s
    BY <1>0, <1>1, <1>2 DEF SendInsert, CodeRow
<1>4. AgesInOrder'
    BY <1>0, <1>3, AgesKept
<1>5. /\ \A v \in CodeWorker \ {w} : codeJob'[v] = codeJob[v]
      /\ codeJob'[w].step = "idle"
    BY <1>0, CodeReturnJob DEF SendInsert
<1>6. ASSUME NEW t \in Subject \ crowded'
      PROVE  SentAlone(t)'
    <2>1. SentAlone(t)
        BY <1>0 DEF UsableInv
    <2>2. \A v \in CodeWorker : SendsTo(v, t)' =>
              SendsTo(v, t) /\ codeJob'[v] = codeJob[v] /\ v # w
        BY <1>5 DEF SendsTo
    <2>3. CASE t # s
        <3>1. \A c \in Code : Usable(c, t)' => Usable(c, t)
            BY <1>3, <2>3 DEF Usable, Unused
        <3>2. QED
            BY <2>1, <2>2, <3>1 DEF SentAlone
    <2>4. CASE t = s
        <3>1. SendsTo(w, t) /\ \A c \in Code : ~Usable(c, t)
            BY <1>0, <1>1, <2>1, <2>4 DEF SendsTo, SentAlone
        <3>2. \A c \in Code : Usable(c, t)' => c = d
            BY <1>3, <3>1 DEF Usable, Unused
        <3>3. \A v \in CodeWorker : ~SendsTo(v, t)'
            BY <2>1, <2>2, <3>1 DEF SentAlone
        <3>4. QED
            BY <3>2, <3>3 DEF SentAlone
    <2>5. QED
        BY <2>3, <2>4
<1>7. QED
    BY <1>4, <1>6

(* Only the oldest codes of an age grow older.                             *)
LEMMA OlderUsable ==
    ASSUME UsableInv, NEW c \in Code, Older(c)
    PROVE  AgesInOrder' /\ \A t \in Subject \ crowded' : SentAlone(t)'
<1>0. /\ AgesInOrder /\ code \in [Code -> CodeRow] /\ made \in Nat
      /\ UNCHANGED <<made, codeJob, crowded>>
      /\ c <= made
    BY CodeAssumption DEF UsableInv, CodesInv, CodesTypeOK, Older, codeHistory,
       RowsInOrder, Code
<1>1. PICK age \in {"live", "expired"} :
        /\ age = IF code[c].age = "new" THEN "live" ELSE "expired"
        /\ code' = [code EXCEPT ![c].age = age]
    BY <1>0 DEF Older
<1>2. /\ \A d \in Code \ {c} : code'[d] = code[d]
      /\ code'[c].age = age /\ code'[c].used = code[c].used
      /\ code'[c].subject = code[c].subject
    BY <1>0, <1>1 DEF CodeRow
<1>3. AgesInOrder'
    <2>1. code[c].age \in {"new", "live"}
          /\ \A d \in Code : d < c => code[d].age # code[c].age
        BY <1>0 DEF Older, CodeRow
    <2>2. ASSUME NEW d \in Code, d < c
          PROVE  /\ code[d].age # "new"
                 /\ age = "expired" => code[d].age = "expired"
        BY <1>0, <1>1, <2>1, <2>2 DEF AgesInOrder, CodeRow
    <2>3. \A d \in Code : d > made => code'[d].age = "new"
        BY <1>0, <1>2 DEF AgesInOrder, Code
    <2>4. ASSUME NEW e \in Code, NEW d \in Code, d < e
          PROVE  /\ code'[e].age # "new" => code'[d].age # "new"
                 /\ code'[e].age = "expired" => code'[d].age = "expired"
        <3>1. CASE e = c
            BY <1>2, <2>2, <2>4, <3>1 DEF Code
        <3>2. CASE d = c
            <4>1. e # c
                BY <2>4, <3>2 DEF Code
            <4>2. /\ code[e].age # "new" => code[c].age # "new"
                  /\ code[e].age = "expired" => code[c].age = "expired"
                BY <1>0, <2>4, <3>2 DEF AgesInOrder
            <4>3. QED
                BY <1>1, <1>2, <2>1, <3>2, <4>1, <4>2
        <3>3. CASE e # c /\ d # c
            BY <1>0, <1>2, <2>4, <3>3 DEF AgesInOrder
        <3>4. QED
            BY <3>1, <3>2, <3>3
    <2>5. QED
        BY <1>0, <2>3, <2>4 DEF AgesInOrder
<1>4. ASSUME NEW t \in Subject \ crowded'
      PROVE  SentAlone(t)'
    <2>1. SentAlone(t)
        BY <1>0 DEF UsableInv
    <2>2. \A d \in Code : Usable(d, t)' => Usable(d, t)
        BY <1>0, <1>1, <1>2 DEF Usable, Unused, Older
    <2>3. QED
        BY <1>0, <2>1, <2>2 DEF SentAlone, SendsTo
<1>5. QED
    BY <1>3, <1>4

LEMMA UsableNextInv ==
    ASSUME UsableInv, [CodesNext]_codeVars
    PROVE  UsableInv'
<1>1. CodesInv'
    BY CodesNextInv DEF UsableInv
<1>2. CASE UNCHANGED codeVars
    BY <1>1, <1>2 DEF codeVars, codeHistory, UsableInv, AgesInOrder, SentAlone, SendsTo,
       Usable, Unused
<1>3. ASSUME NEW c \in Code, Older(c)
      PROVE  UsableInv'
    BY <1>1, <1>3, OlderUsable DEF UsableInv
<1>4. ASSUME NEW w \in CodeWorker,
             \/ \E s \in Subject, c \in Code, step \in {"spend", "miss", "hit"} :
                  VerifyRead(w, s, c, step)
             \/ VerifySpend(w) \/ VerifyMiss(w) \/ VerifyMissUsed(w) \/ VerifyHit(w)
             \/ CodeAbort(w)
      PROVE  UsableInv'
    BY <1>1, <1>4, AnswerUsable DEF UsableInv
<1>5. ASSUME NEW w \in CodeWorker,
             (\E s \in Subject : Sending(w, s)) \/ SendKill(w) \/ SendInsert(w)
      PROVE  UsableInv'
    BY <1>1, <1>5, SendingUsable, SendKillUsable, SendInsertUsable DEF UsableInv
<1>6. QED
    BY <1>2, <1>3, <1>4, <1>5 DEF CodesNext

LEMMA UsableAlwaysInv == CodesSpec => []UsableInv
BY UsableInitInv, UsableNextInv, PTL DEF CodesSpec

(* A subject nobody was sending two codes to, and none of whose used codes *)
(* came back, never has two codes that can be answered: create_otp and its *)
(* copies use up the older ones, and a completion is not sent another.     *)
THEOREM OneUsableCorrect == CodesSpec => []OneUsable
<1>1. UsableInv => OneUsable
    <2>1. ASSUME UsableInv, NEW s \in Subject \ crowded
          PROVE  Cardinality({c \in Code : Usable(c, s)}) <= 1
        <3> DEFINE S == {c \in Code : Usable(c, s)}
        <3>1. \A c, d \in S : c = d
            BY <2>1 DEF UsableInv, SentAlone
        <3> HIDE DEF S
        <3>2. S = {} => Cardinality(S) = 0
            BY FS_EmptySet
        <3>3. ASSUME S # {}
              PROVE  Cardinality(S) = 1
            <4>1. PICK c \in S : TRUE
                BY <3>3
            <4>2. S = {c}
                BY <3>1, <4>1
            <4>3. QED
                BY <4>2, FS_Singleton
        <3>4. Cardinality(S) <= 1
            BY <3>2, <3>3
        <3>5. QED
            BY <3>4 DEF S
    <2>2. QED
        BY <2>1 DEF OneUsable
<1>2. QED
    BY <1>1, UsableAlwaysInv, PTL

HIDE CodeAssumption

-------------------------------------------------------------------------------
(* Registration.  The inductive invariant: while a phone is not mixed, at  *)
(* most one form of it is in play, that is stored, waiting with a code or  *)
(* being confirmed; so the registration found with a code is the one the   *)
(* code was sent for.                                                      *)
OneInPlay ==
    \A g, h \in Form :
        InPlay(g) /\ InPlay(h) /\ ByPhone(g) /\ FormPhone[g] = FormPhone[h]
            => g = h \/ FormPhone[g] \in mixed

FormJobInOrder(j) ==
    /\ j.step = "store" => j.form \in Form
    /\ j.step \in {"code", "confirm"} => j.form \in Form /\ ByPhone(j.form)
    /\ j.step = "create" => /\ j.form \in Form /\ j.read \in Form /\ j.row \in Pending
                            /\ j.read = j.form \/ FormPhone[j.read] \in mixed
    /\ j.step = "drop" => j.row \in Pending

CodesOfPhones ==
    \A p \in Phone : signupCode[p] # Nothing => FormPhone[signupCode[p]] = p

OpenHasForm == \A i \in Pending : Open(i) => pending[i].form \in Form

RegistrationInv ==
    /\ RegistrationTypeOK
    /\ OneInPlay
    /\ CodesOfPhones
    /\ OpenHasForm
    /\ \A w \in FormWorker : FormJobInOrder(formJob[w])
    /\ ConfirmedAsSubmitted

LEMMA NoFormType == NoForm \in FormJob /\ NoForm.step = "idle"
BY DEF NoForm, FormJob

LEMMA RegistrationInitInv == RegistrationInit => RegistrationInv
<1> SUFFICES ASSUME RegistrationInit PROVE RegistrationInv
    OBVIOUS
<1>1. account \in [Account -> AccountRow]
      /\ \A a \in Account : account[a].form = Nothing
    BY DEF RegistrationInit, AccountRow, NoAccount
<1>2. pending \in [Pending -> PendingRow] /\ \A i \in Pending : ~Open(i)
    BY DEF RegistrationInit, PendingRow, Open
<1>3. /\ formJob \in [FormWorker -> FormJob]
      /\ \A w \in FormWorker : formJob[w].step = "idle"
    BY NoFormType DEF RegistrationInit
<1>4. /\ signupCode \in [Phone -> Form \cup {Nothing}] /\ mailed = {} /\ mixed = {}
      /\ \A p \in Phone : signupCode[p] = Nothing
    BY DEF RegistrationInit
<1>5. RegistrationTypeOK
    BY <1>1, <1>2, <1>3, <1>4 DEF RegistrationTypeOK
<1>6. \A g \in Form : ~InPlay(g)
    BY FormAssumption, <1>2, <1>3, <1>4 DEF InPlay
<1>7. OneInPlay /\ OpenHasForm /\ CodesOfPhones /\ ConfirmedAsSubmitted
    BY <1>1, <1>2, <1>4, <1>6 DEF OneInPlay, OpenHasForm, CodesOfPhones,
                                  ConfirmedAsSubmitted
<1>8. \A w \in FormWorker : FormJobInOrder(formJob[w])
    BY <1>3 DEF FormJobInOrder
<1>9. QED
    BY <1>5, <1>7, <1>8 DEF RegistrationInv

LEMMA FormJobChange ==
    ASSUME RegistrationInv, NEW w \in FormWorker, NEW j \in FormJob,
           formJob' = [formJob EXCEPT ![w] = j],
           mixed \subseteq mixed', FormJobInOrder(j)'
    PROVE  /\ formJob' \in [FormWorker -> FormJob]
           /\ \A v \in FormWorker : FormJobInOrder(formJob[v])'
<1>1. /\ formJob \in [FormWorker -> FormJob]
      /\ \A v \in FormWorker : FormJobInOrder(formJob[v])
    BY DEF RegistrationInv, RegistrationTypeOK
<1>2. ASSUME NEW v \in FormWorker
      PROVE  FormJobInOrder(formJob[v])'
    <2>1. CASE v = w
        BY <1>1, <2>1 DEF FormJobInOrder
    <2>2. CASE v # w
        BY <1>1, <2>2 DEF FormJobInOrder
    <2>3. QED
        BY <2>1, <2>2
<1>3. QED
    BY <1>1, <1>2

(* No form comes into play but one that is in play already.                *)
LEMMA PlayShrinks ==
    ASSUME RegistrationInv, NEW w \in FormWorker, NEW j \in FormJob,
           formJob' = [formJob EXCEPT ![w] = j], mixed \subseteq mixed',
           j.step \in {"code", "confirm"} => InPlay(j.form),
           \A g \in Form, p \in Phone : signupCode'[p] = g => InPlay(g),
           \A g \in Form, i \in Pending : Open(i)' /\ pending'[i].form = g => InPlay(g)
    PROVE  OneInPlay'
<1>1. /\ formJob \in [FormWorker -> FormJob]
      /\ formJob'[w] = j
      /\ \A v \in FormWorker \ {w} : formJob'[v] = formJob[v]
    BY DEF RegistrationInv, RegistrationTypeOK
<1>2. ASSUME NEW g \in Form, InPlay(g)'
      PROVE  InPlay(g)
    <2>1. CASE \E i \in Pending : Open(i)' /\ pending'[i].form = g
        BY <2>1
    <2>2. CASE \E p \in Phone : signupCode'[p] = g
        BY <2>2
    <2>3. CASE \E v \in FormWorker : formJob'[v].step \in {"code", "confirm"}
                                       /\ formJob'[v].form = g
        <3>1. PICK v \in FormWorker : formJob'[v].step \in {"code", "confirm"}
                                        /\ formJob'[v].form = g
            BY <2>3
        <3>2. CASE v = w
            BY <1>1, <3>1, <3>2
        <3>3. CASE v # w
            BY <1>1, <3>1, <3>3 DEF InPlay
        <3>4. QED
            BY <3>2, <3>3
    <2>4. QED
        BY <1>2, <2>1, <2>2, <2>3 DEF InPlay
<1>3. QED
    BY <1>2 DEF RegistrationInv, OneInPlay

(* The same for a step that leaves the registrations and codes alone, or   *)
(* makes fewer of them, and whose request does not confirm anything.       *)
LEMMA FormQuiet ==
    ASSUME RegistrationInv, NEW w \in FormWorker, NEW j \in FormJob,
           formJob' = [formJob EXCEPT ![w] = j], mixed' = mixed,
           j.step \notin {"code", "confirm"}, FormJobInOrder(j),
           pending' \in [Pending -> PendingRow],
           \A i \in Pending : Open(i)' => pending'[i] = pending[i],
           signupCode' = signupCode
    PROVE  /\ formJob' \in [FormWorker -> FormJob]
           /\ \A v \in FormWorker : FormJobInOrder(formJob[v])'
           /\ OneInPlay' /\ OpenHasForm' /\ CodesOfPhones'
<1>1. FormJobInOrder(j)'
    BY DEF FormJobInOrder
<1>2. \A g \in Form, p \in Phone : signupCode'[p] = g => InPlay(g)
    BY DEF InPlay
<1>3. \A g \in Form, i \in Pending : Open(i)' /\ pending'[i].form = g => InPlay(g)
    BY DEF InPlay, Open
<1>4. OneInPlay'
    BY <1>2, <1>3, PlayShrinks
<1>5. OpenHasForm' /\ CodesOfPhones'
    BY DEF RegistrationInv, OpenHasForm, CodesOfPhones, Open
<1>6. QED
    BY <1>1, <1>4, <1>5, FormJobChange

-------------------------------------------------------------------------------
LEMMA RegisterReadInv ==
    ASSUME RegistrationInv, NEW w \in FormWorker, NEW f \in Form, RegisterRead(w, f)
    PROVE  RegistrationInv'
<1>1. UNCHANGED <<account, pending, mailed, signupCode, mixed>>
    BY DEF RegisterRead
<1>2. PICK i \in Pending \cup {0} : FormGo(w, "store", f, i, Nothing)
    BY DEF RegisterRead
<1> DEFINE j == [step |-> "store", form |-> f, row |-> i, read |-> Nothing]
<1>3. /\ j \in FormJob /\ FormJobInOrder(j) /\ j.step \notin {"code", "confirm"}
      /\ formJob' = [formJob EXCEPT ![w] = j]
    BY <1>2 DEF FormJob, FormJobInOrder, FormGo
<1> HIDE DEF j
<1>4. pending' \in [Pending -> PendingRow]
    BY <1>1 DEF RegistrationInv, RegistrationTypeOK
<1>5. /\ formJob' \in [FormWorker -> FormJob]
      /\ \A v \in FormWorker : FormJobInOrder(formJob[v])'
      /\ OneInPlay' /\ OpenHasForm' /\ CodesOfPhones'
    BY <1>1, <1>3, <1>4, FormQuiet
<1>6. QED
    BY <1>1, <1>5 DEF RegistrationInv, RegistrationTypeOK, ConfirmedAsSubmitted

(* The form that is stored comes into play; another one of the phone makes *)
(* the phone mixed.                                                        *)
LEMMA RegisterStoreInv ==
    ASSUME RegistrationInv, NEW w \in FormWorker, NEW i \in Pending, RegisterStore(w, i)
    PROVE  RegistrationInv'
<1>0. /\ RegistrationTypeOK /\ OneInPlay /\ CodesOfPhones /\ OpenHasForm
      /\ ConfirmedAsSubmitted
    BY DEF RegistrationInv
<1>1. PICK f \in Form : f = formJob[w].form
    BY DEF RegisterStore, FormAt, RegistrationInv, FormJobInOrder
<1>2. /\ pending' = [pending EXCEPT ![i] = [status |-> "OPEN", form |-> f]]
      /\ UNCHANGED <<account, signupCode>>
    BY <1>1 DEF RegisterStore
<1>3. /\ pending' \in [Pending -> PendingRow]
      /\ \A k \in Pending : /\ Open(k)' => k = i \/ Open(k)
                            /\ pending'[k].form = IF k = i THEN f ELSE pending[k].form
    BY <1>0, <1>2 DEF RegistrationTypeOK, PendingRow, Open
<1>4. mailed' \subseteq Pending \X Form
    BY <1>0, <1>1 DEF RegisterStore, RegistrationTypeOK
<1>5. /\ mixed \subseteq mixed' /\ mixed' \subseteq Phone
      /\ \A g \in Form \ {f} :
            ByPhone(f) /\ FormPhone[g] = FormPhone[f] /\ InPlay(g)
                => FormPhone[f] \in mixed'
    <2>1. ByPhone(f) => FormPhone[f] \in Phone
        BY FormAssumption DEF ByPhone
    <2>2. mixed' = IF ByPhone(f) /\ \E g \in Form \ {f} :
                                        FormPhone[g] = FormPhone[f] /\ InPlay(g)
                   THEN mixed \cup {FormPhone[f]} ELSE mixed
        BY <1>1 DEF RegisterStore
    <2>3. QED
        BY <1>0, <2>1, <2>2 DEF RegistrationTypeOK
<1>6. PICK j \in FormJob :
        /\ formJob' = [formJob EXCEPT ![w] = j]
        /\ \/ j.step = "idle"
           \/ j.step = "code" /\ j.form = f /\ ByPhone(f)
    <2>1. CASE ByPhone(f)
        <3> DEFINE j == [step |-> "code", form |-> f, row |-> i, read |-> Nothing]
        <3>1. /\ j \in FormJob /\ j.step = "code" /\ j.form = f
              /\ formJob' = [formJob EXCEPT ![w] = j]
            BY <1>1, <2>1 DEF FormJob, RegisterStore, FormGo
        <3> HIDE DEF j
        <3>2. QED
            BY <2>1, <3>1
    <2>2. CASE ~ByPhone(f)
        BY <1>1, <2>2, NoFormType DEF RegisterStore, FormReturn
    <2>3. QED
        BY <2>1, <2>2
<1>7. /\ formJob' \in [FormWorker -> FormJob]
      /\ \A v \in FormWorker : FormJobInOrder(formJob[v])'
    <2>1. FormJobInOrder(j)'
        BY <1>6 DEF FormJobInOrder
    <2>2. QED
        BY <1>5, <1>6, <2>1, FormJobChange
<1>8. ASSUME NEW g \in Form \ {f}, InPlay(g)'
      PROVE  InPlay(g)
    <2>1. CASE \E k \in Pending : Open(k)' /\ pending'[k].form = g
        BY <1>3, <1>8, <2>1 DEF InPlay
    <2>2. CASE \E p \in Phone : signupCode'[p] = g
        BY <1>2, <2>2 DEF InPlay
    <2>3. CASE \E v \in FormWorker : formJob'[v].step \in {"code", "confirm"}
                                       /\ formJob'[v].form = g
        <3>1. PICK v \in FormWorker : formJob'[v].step \in {"code", "confirm"}
                                        /\ formJob'[v].form = g
            BY <2>3
        <3>2. v # w
            BY <1>0, <1>6, <1>8, <3>1 DEF RegistrationTypeOK
        <3>3. QED
            BY <1>0, <1>6, <3>1, <3>2 DEF RegistrationTypeOK, InPlay
    <2>4. QED
        BY <1>8, <2>1, <2>2, <2>3 DEF InPlay
<1>9. OneInPlay'
    <2>1. ASSUME NEW g \in Form, NEW h \in Form, InPlay(g)', InPlay(h)', ByPhone(g),
                 FormPhone[g] = FormPhone[h], g # h
          PROVE  FormPhone[g] \in mixed'
        <3>1. CASE g # f /\ h # f
            BY <1>0, <1>5, <1>8, <2>1, <3>1 DEF OneInPlay
        <3>2. CASE g = f
            BY <1>5, <1>8, <2>1, <3>2
        <3>3. CASE h = f
            BY <1>5, <1>8, <2>1, <3>3 DEF ByPhone
        <3>4. QED
            BY <3>1, <3>2, <3>3
    <2>2. QED
        BY <2>1 DEF OneInPlay
<1>10. OpenHasForm' /\ CodesOfPhones'
    BY <1>0, <1>2, <1>3 DEF OpenHasForm, CodesOfPhones
<1>11. ConfirmedAsSubmitted'
    BY <1>0, <1>2, <1>5 DEF ConfirmedAsSubmitted
<1>12. RegistrationTypeOK'
    BY <1>0, <1>2, <1>3, <1>4, <1>5, <1>7 DEF RegistrationTypeOK
<1>13. QED
    BY <1>7, <1>9, <1>10, <1>11, <1>12 DEF RegistrationInv

LEMMA RegisterCodeInv ==
    ASSUME RegistrationInv, NEW w \in FormWorker, NEW sent \in BOOLEAN,
           RegisterCode(w, sent)
    PROVE  RegistrationInv'
<1>0. RegistrationTypeOK /\ CodesOfPhones /\ OpenHasForm
    BY DEF RegistrationInv
<1>1. UNCHANGED <<account, pending, mailed, mixed>> /\ FormReturn(w)
    BY DEF RegisterCode
<1>2. PICK f \in Form : f = formJob[w].form /\ FormPhone[f] \in Phone /\ InPlay(f)
    BY FormAssumption DEF RegisterCode, FormAt, RegistrationInv, FormJobInOrder, ByPhone,
       InPlay
<1>3. \/ signupCode' = signupCode
      \/ \E c \in {f, Nothing} : signupCode' = [signupCode EXCEPT ![FormPhone[f]] = c]
    BY <1>2 DEF RegisterCode
<1>4. /\ signupCode' \in [Phone -> Form \cup {Nothing}]
      /\ CodesOfPhones'
      /\ \A p \in Phone : signupCode'[p] \in {signupCode[p], f, Nothing}
    BY <1>0, <1>2, <1>3 DEF RegistrationTypeOK, CodesOfPhones
<1>5. PICK j \in FormJob : j = NoForm
    BY NoFormType
<1>6. formJob' = [formJob EXCEPT ![w] = j] /\ j.step = "idle" /\ FormJobInOrder(j)'
    BY <1>1, <1>5, NoFormType DEF FormReturn, FormJobInOrder
<1>7. /\ formJob' \in [FormWorker -> FormJob]
      /\ \A v \in FormWorker : FormJobInOrder(formJob[v])'
    BY <1>1, <1>6, FormJobChange
<1>8. OneInPlay'
    <2>1. \A g \in Form, p \in Phone : signupCode'[p] = g => InPlay(g)
        BY FormAssumption, <1>2, <1>4 DEF InPlay
    <2>2. \A g \in Form, i \in Pending : Open(i)' /\ pending'[i].form = g => InPlay(g)
        BY <1>1 DEF InPlay, Open
    <2>3. QED
        BY <1>1, <1>6, <2>1, <2>2, PlayShrinks
<1>9. QED
    BY <1>0, <1>1, <1>4, <1>7, <1>8 DEF RegistrationInv, RegistrationTypeOK,
       OpenHasForm, Open, ConfirmedAsSubmitted

LEMMA VerifyEmailInv ==
    ASSUME RegistrationInv, NEW w \in FormWorker, NEW i \in Pending, NEW g \in Form,
           NEW expired \in BOOLEAN, VerifyEmail(w, i, g, expired)
    PROVE  RegistrationInv'
<1>1. UNCHANGED <<account, pending, mailed, signupCode, mixed>>
    BY DEF VerifyEmail
<1>2. PICK step \in {"drop", "create"} : FormGo(w, step, g, i, g)
    BY DEF VerifyEmail
<1> DEFINE j == [step |-> step, form |-> g, row |-> i, read |-> g]
<1>3. /\ j \in FormJob /\ FormJobInOrder(j) /\ j.step \notin {"code", "confirm"}
      /\ formJob' = [formJob EXCEPT ![w] = j]
    BY <1>2 DEF FormJob, FormJobInOrder, FormGo
<1> HIDE DEF j
<1>4. pending' \in [Pending -> PendingRow]
    BY <1>1 DEF RegistrationInv, RegistrationTypeOK
<1>5. /\ formJob' \in [FormWorker -> FormJob]
      /\ \A v \in FormWorker : FormJobInOrder(formJob[v])'
      /\ OneInPlay' /\ OpenHasForm' /\ CodesOfPhones'
    BY <1>1, <1>3, <1>4, FormQuiet
<1>6. QED
    BY <1>1, <1>5 DEF RegistrationInv, RegistrationTypeOK, ConfirmedAsSubmitted

LEMMA VerifyPhoneInv ==
    ASSUME RegistrationInv, NEW w \in FormWorker, NEW p \in Phone, VerifyPhone(w, p)
    PROVE  RegistrationInv'
<1>0. RegistrationTypeOK /\ CodesOfPhones /\ OpenHasForm
    BY DEF RegistrationInv
<1>1. /\ UNCHANGED <<account, pending, mailed, mixed>>
      /\ signupCode' = [signupCode EXCEPT ![p] = Nothing]
    BY DEF VerifyPhone
<1>2. PICK f \in Form : f = signupCode[p] /\ FormPhone[f] = p /\ InPlay(f)
    BY <1>0 DEF VerifyPhone, RegistrationTypeOK, CodesOfPhones, InPlay
<1> DEFINE j == [step |-> "confirm", form |-> f, row |-> 0, read |-> Nothing]
<1>3. /\ j \in FormJob /\ j.step = "confirm" /\ j.form = f
      /\ formJob' = [formJob EXCEPT ![w] = j]
    BY <1>2 DEF FormJob, VerifyPhone, FormGo
<1> HIDE DEF j
<1>4. PICK k \in FormJob : k = j
    BY <1>3
<1>5. FormJobInOrder(k)'
    BY FormAssumption, <1>2, <1>3, <1>4 DEF FormJobInOrder, ByPhone
<1>6. /\ formJob' \in [FormWorker -> FormJob]
      /\ \A v \in FormWorker : FormJobInOrder(formJob[v])'
    BY <1>1, <1>3, <1>4, <1>5, FormJobChange
<1>7. OneInPlay'
    <2>1. \A g \in Form, q \in Phone : signupCode'[q] = g => InPlay(g)
        BY FormAssumption, <1>0, <1>1 DEF RegistrationTypeOK, InPlay
    <2>2. \A g \in Form, i \in Pending : Open(i)' /\ pending'[i].form = g => InPlay(g)
        BY <1>1 DEF InPlay, Open
    <2>3. QED
        BY <1>1, <1>2, <1>3, <1>4, <2>1, <2>2, PlayShrinks
<1>8. signupCode' \in [Phone -> Form \cup {Nothing}] /\ CodesOfPhones'
    BY <1>0, <1>1 DEF RegistrationTypeOK, CodesOfPhones
<1>9. QED
    BY <1>0, <1>1, <1>6, <1>7, <1>8 DEF RegistrationInv, RegistrationTypeOK,
       OpenHasForm, Open, ConfirmedAsSubmitted

(* The form that is found and the one the code was sent for are both in    *)
(* play.                                                                   *)
LEMMA ConfirmPhoneInv ==
    ASSUME RegistrationInv, NEW w \in FormWorker, NEW i \in Pending, ConfirmPhone(w, i)
    PROVE  RegistrationInv'
<1>1. UNCHANGED <<account, pending, mailed, signupCode, mixed>>
    BY DEF ConfirmPhone
<1>2. PICK f \in Form : f = formJob[w].form /\ ByPhone(f) /\ InPlay(f)
    BY DEF ConfirmPhone, FormAt, RegistrationInv, FormJobInOrder, InPlay
<1>3. PICK g \in Form : g = pending[i].form /\ FormPhone[g] = FormPhone[f] /\ InPlay(g)
    BY <1>2 DEF ConfirmPhone, Newest, OpenPhone, RegistrationInv, OpenHasForm, InPlay
<1>4. g = f \/ FormPhone[g] \in mixed
    BY <1>2, <1>3 DEF RegistrationInv, OneInPlay
<1>5. PICK step \in {"drop", "create"} : FormGo(w, step, f, i, g)
    BY <1>2, <1>3 DEF ConfirmPhone
<1> DEFINE j == [step |-> step, form |-> f, row |-> i, read |-> g]
<1>6. /\ j \in FormJob /\ FormJobInOrder(j) /\ j.step \notin {"code", "confirm"}
      /\ formJob' = [formJob EXCEPT ![w] = j]
    BY <1>4, <1>5 DEF FormJob, FormJobInOrder, FormGo
<1> HIDE DEF j
<1>7. pending' \in [Pending -> PendingRow]
    BY <1>1 DEF RegistrationInv, RegistrationTypeOK
<1>8. /\ formJob' \in [FormWorker -> FormJob]
      /\ \A v \in FormWorker : FormJobInOrder(formJob[v])'
      /\ OneInPlay' /\ OpenHasForm' /\ CodesOfPhones'
    BY <1>1, <1>6, <1>7, FormQuiet
<1>9. QED
    BY <1>1, <1>8 DEF RegistrationInv, RegistrationTypeOK, ConfirmedAsSubmitted

LEMMA InsertInv ==
    ASSUME RegistrationInv, NEW w \in FormWorker, NEW a \in Account, Insert(w, a)
    PROVE  RegistrationInv'
<1>0. RegistrationTypeOK /\ ConfirmedAsSubmitted
    BY DEF RegistrationInv
<1>1. UNCHANGED <<pending, mailed, signupCode, mixed>>
    BY DEF Insert
<1>2. PICK f \in Form, c \in Form, i \in Pending :
        /\ f = formJob[w].read /\ c = formJob[w].form /\ i = formJob[w].row
        /\ f = c \/ FormPhone[f] \in mixed
    BY DEF Insert, FormAt, RegistrationInv, FormJobInOrder
<1> DEFINE r == [form |-> f, row |-> i, email |-> FormEmail[f],
                 phone |-> FormPhone[f], confirmed |-> c]
<1>3. account' = account \/ account' = [account EXCEPT ![a] = r]
    BY <1>2 DEF Insert
<1>4. /\ r \in AccountRow
      /\ r.form = f /\ r.confirmed = c /\ r.phone = FormPhone[f]
    BY FormAssumption DEF AccountRow
<1> HIDE DEF r
<1>5. account' \in [Account -> AccountRow] /\ ConfirmedAsSubmitted'
    BY <1>0, <1>1, <1>2, <1>3, <1>4 DEF RegistrationTypeOK, ConfirmedAsSubmitted
<1>6. PICK j \in FormJob :
        /\ formJob' = [formJob EXCEPT ![w] = j] /\ FormJobInOrder(j)
        /\ j.step \notin {"code", "confirm"}
    <2>1. CASE FormReturn(w)
        BY <2>1, NoFormType DEF FormReturn, FormJobInOrder
    <2>2. CASE FormGo(w, "drop", Nothing, i, Nothing)
        <3> DEFINE j == [step |-> "drop", form |-> Nothing, row |-> i,
                         read |-> Nothing]
        <3>1. /\ j \in FormJob /\ FormJobInOrder(j) /\ j.step \notin {"code", "confirm"}
              /\ formJob' = [formJob EXCEPT ![w] = j]
            BY <2>2 DEF FormJob, FormJobInOrder, FormGo
        <3> HIDE DEF j
        <3>2. QED
            BY <3>1
    <2>3. QED
        BY <1>2, <2>1, <2>2 DEF Insert
<1>7. pending' \in [Pending -> PendingRow]
    BY <1>0, <1>1 DEF RegistrationTypeOK
<1>8. /\ formJob' \in [FormWorker -> FormJob]
      /\ \A v \in FormWorker : FormJobInOrder(formJob[v])'
      /\ OneInPlay' /\ OpenHasForm' /\ CodesOfPhones'
    BY <1>1, <1>6, <1>7, FormQuiet
<1>9. QED
    BY <1>0, <1>1, <1>5, <1>8 DEF RegistrationInv, RegistrationTypeOK

LEMMA DropInv ==
    ASSUME RegistrationInv, NEW w \in FormWorker, Drop(w) \/ FormAbort(w)
    PROVE  RegistrationInv'
<1>1. UNCHANGED <<account, mailed, signupCode, mixed>> /\ FormReturn(w)
    BY DEF Drop, FormAbort
<1>2. /\ pending' \in [Pending -> PendingRow]
      /\ \A i \in Pending : Open(i)' => pending'[i] = pending[i]
    <2>1. pending \in [Pending -> PendingRow]
        BY DEF RegistrationInv, RegistrationTypeOK
    <2>2. CASE Drop(w)
        <3>1. PICK i \in Pending : pending' = [pending EXCEPT ![i].status = "GONE"]
            BY <2>2 DEF Drop, FormAt, RegistrationInv, FormJobInOrder
        <3>2. QED
            BY <2>1, <3>1 DEF PendingRow, Open
    <2>3. CASE FormAbort(w)
        BY <2>1, <2>3 DEF FormAbort
    <2>4. QED
        BY <2>2, <2>3
<1>3. PICK j \in FormJob : j = NoForm
    BY NoFormType
<1>4. /\ formJob' = [formJob EXCEPT ![w] = j]
      /\ FormJobInOrder(j) /\ j.step \notin {"code", "confirm"}
    BY <1>1, <1>3, NoFormType DEF FormReturn, FormJobInOrder
<1>5. /\ formJob' \in [FormWorker -> FormJob]
      /\ \A v \in FormWorker : FormJobInOrder(formJob[v])'
      /\ OneInPlay' /\ OpenHasForm' /\ CodesOfPhones'
    BY <1>1, <1>2, <1>4, FormQuiet
<1>6. QED
    BY <1>1, <1>2, <1>5 DEF RegistrationInv, RegistrationTypeOK, ConfirmedAsSubmitted

LEMMA GoogleSignupInv ==
    ASSUME RegistrationInv, NEW a \in Account, NEW e \in Email, GoogleSignup(a, e)
    PROVE  RegistrationInv'
<1>1. UNCHANGED <<pending, mailed, signupCode, formJob, mixed>>
    BY DEF GoogleSignup
<1> DEFINE r == [NoAccount EXCEPT !.email = e]
<1>2. r \in AccountRow /\ r.form = Nothing
    BY DEF NoAccount, AccountRow
<1>3. account' = [account EXCEPT ![a] = r]
    BY DEF GoogleSignup
<1> HIDE DEF r
<1>4. account' \in [Account -> AccountRow] /\ ConfirmedAsSubmitted'
    BY <1>1, <1>2, <1>3 DEF RegistrationInv, RegistrationTypeOK, ConfirmedAsSubmitted
<1>5. QED
    BY <1>1, <1>4 DEF RegistrationInv, RegistrationTypeOK, OneInPlay, InPlay, Open,
       OpenHasForm, CodesOfPhones, FormJobInOrder

LEMMA SignupCodeExpiresInv ==
    ASSUME RegistrationInv, NEW p \in Phone, SignupCodeExpires(p)
    PROVE  RegistrationInv'
<1>0. RegistrationTypeOK /\ CodesOfPhones /\ OneInPlay
    BY DEF RegistrationInv
<1>1. /\ UNCHANGED <<account, pending, mailed, formJob, mixed>>
      /\ signupCode' = [signupCode EXCEPT ![p] = Nothing]
    BY DEF SignupCodeExpires
<1>2. signupCode' \in [Phone -> Form \cup {Nothing}] /\ CodesOfPhones'
    BY <1>0, <1>1 DEF RegistrationTypeOK, CodesOfPhones
<1>3. \A g \in Form : InPlay(g)' => InPlay(g)
    BY FormAssumption, <1>0, <1>1 DEF RegistrationTypeOK, InPlay, Open
<1>4. OneInPlay'
    BY <1>0, <1>1, <1>3 DEF OneInPlay
<1>5. QED
    BY <1>1, <1>2, <1>4 DEF RegistrationInv, RegistrationTypeOK, Open, OpenHasForm,
       FormJobInOrder, ConfirmedAsSubmitted

LEMMA RegistrationNextInv ==
    ASSUME RegistrationInv, [RegistrationNext]_formVars
    PROVE  RegistrationInv'
<1>1. CASE UNCHANGED formVars
    BY <1>1 DEF formVars, RegistrationInv, RegistrationTypeOK, OneInPlay, InPlay, Open,
       OpenHasForm, CodesOfPhones, FormJobInOrder, ConfirmedAsSubmitted
<1>2. ASSUME NEW w \in FormWorker,
             \/ \E f \in Form : RegisterRead(w, f)
             \/ \E i \in Pending : RegisterStore(w, i) \/ ConfirmPhone(w, i)
             \/ \E sent \in BOOLEAN : RegisterCode(w, sent)
             \/ \E p \in Phone : VerifyPhone(w, p)
             \/ \E a \in Account : Insert(w, a)
             \/ Drop(w) \/ FormAbort(w)
      PROVE  RegistrationInv'
    BY <1>2, RegisterReadInv, RegisterStoreInv, ConfirmPhoneInv, RegisterCodeInv,
       VerifyPhoneInv, InsertInv, DropInv
<1>3. ASSUME NEW w \in FormWorker, NEW i \in Pending, NEW g \in Form,
             NEW expired \in BOOLEAN, VerifyEmail(w, i, g, expired)
      PROVE  RegistrationInv'
    BY <1>3, VerifyEmailInv
<1>4. ASSUME \/ \E a \in Account, e \in Email : GoogleSignup(a, e)
             \/ \E p \in Phone : SignupCodeExpires(p)
      PROVE  RegistrationInv'
    BY <1>4, GoogleSignupInv, SignupCodeExpiresInv
<1>5. QED
    BY <1>1, <1>2, <1>3, <1>4 DEF RegistrationNext

LEMMA RegistrationAlwaysInv == RegistrationSpec => []RegistrationInv
BY RegistrationInitInv, RegistrationNextInv, PTL DEF RegistrationSpec

(* The accounts, the registrations that wait and the requests in flight    *)
(* are what signing up makes of them.                                      *)
THEOREM RegistrationTypeCorrect == RegistrationSpec => []RegistrationTypeOK
<1>1. RegistrationInv => RegistrationTypeOK
    BY DEF RegistrationInv
<1>2. QED
    BY <1>1, RegistrationAlwaysInv, PTL

(* An account is created from the form whose link or code was used, unless *)
(* another form of the same phone had been stored meanwhile: the lookup by *)
(* phone in verify_phone_registration finds no other.                      *)
THEOREM ConfirmedAsSubmittedCorrect == RegistrationSpec => []ConfirmedAsSubmitted
<1>1. RegistrationInv => ConfirmedAsSubmitted
    BY DEF RegistrationInv
<1>2. QED
    BY <1>1, RegistrationAlwaysInv, PTL

-------------------------------------------------------------------------------
(* Profile.  The inductive invariant: what a request has read of its       *)
(* user's contacts, or is about to save, was confirmed; an open link names *)
(* a user and an address.                                                  *)
Proven(u, c) == c = NoContact \/ <<u, c>> \in proven

OwnerJobInOrder(j) ==
    /\ j.step # "idle" => j.owner \in Owner
    /\ j.step = "read" => Proven(j.owner, j.row.email) /\ Proven(j.owner, j.row.phone)
    /\ j.step = "link" => j.to \in Address
    /\ j.step = "email" => j.to \in Address /\ Proven(j.owner, j.to)
    /\ j.step = "phone" => j.to \in Number /\ Proven(j.owner, j.to)

LinkInOrder(l) ==
    link[l].status = "OPEN" => link[l].owner \in Owner /\ link[l].email \in Address

ProfileInv ==
    /\ ProfileTypeOK
    /\ ResetHolds
    /\ ContactsProven
    /\ \A w \in OwnerWorker : OwnerJobInOrder(ownerJob[w])
    /\ \A l \in Link : LinkInOrder(l)

LEMMA NoRowType == NoRow \in ProfileRow /\ 0 \in Clock
BY ProfileAssumption DEF NoRow, ProfileRow, Clock

LEMMA OwnerIdleType == OwnerIdle \in OwnerJob /\ OwnerIdle.step = "idle"
BY NoRowType DEF OwnerIdle, OwnerJob

LEMMA ProfileInitInv == ProfileInit => ProfileInv
<1> SUFFICES ASSUME ProfileInit PROVE ProfileInv
    OBVIOUS
<1>1. profile \in [Owner -> ProfileRow]
      /\ \A u \in Owner : SecretOf(profile[u]) = decided[u]
    BY DEF ProfileInit, SignedUp, SecretOf
<1>2. decided \in [Owner -> Secret]
    BY NoRowType DEF ProfileInit, Secret
<1>3. link \in [Link -> LinkRow] /\ \A l \in Link : LinkInOrder(l)
    BY DEF ProfileInit, NoLink, LinkRow, LinkInOrder
<1>4. /\ ownerJob \in [OwnerWorker -> OwnerJob]
      /\ \A w \in OwnerWorker : OwnerJobInOrder(ownerJob[w])
    BY OwnerIdleType DEF ProfileInit, OwnerJobInOrder
<1>5. ProfileTypeOK
    BY NoRowType, <1>1, <1>2, <1>3, <1>4 DEF ProfileInit, ProfileTypeOK
<1>6. ResetHolds
    BY <1>1 DEF ResetHolds
<1>7. ContactsProven
    <2>1. ASSUME NEW u \in Owner, NEW c \in {profile[u].email, profile[u].phone},
                 c # NoContact
          PROVE  <<u, c>> \in proven
        <3>1. c \in Address \cup Number
            BY <1>1, <2>1 DEF ProfileRow
        <3>2. QED
            BY <2>1, <3>1 DEF ProfileInit
    <2>2. QED
        BY <2>1 DEF ContactsProven
<1>8. QED
    BY <1>3, <1>4, <1>5, <1>6, <1>7 DEF ProfileInv

(* Requests: one of them goes on, and what was confirmed stays confirmed.  *)
LEMMA OwnerJobChange ==
    ASSUME ProfileInv, NEW w \in OwnerWorker, NEW j \in OwnerJob,
           ownerJob' = [ownerJob EXCEPT ![w] = j],
           proven \subseteq proven', OwnerJobInOrder(j)'
    PROVE  /\ ownerJob' \in [OwnerWorker -> OwnerJob]
           /\ \A v \in OwnerWorker : OwnerJobInOrder(ownerJob[v])'
<1>1. /\ ownerJob \in [OwnerWorker -> OwnerJob]
      /\ \A v \in OwnerWorker : OwnerJobInOrder(ownerJob[v])
    BY DEF ProfileInv, ProfileTypeOK
<1>2. ASSUME NEW v \in OwnerWorker
      PROVE  OwnerJobInOrder(ownerJob[v])'
    <2>1. CASE v = w
        BY <1>1, <2>1 DEF OwnerJobInOrder, Proven
    <2>2. CASE v # w
        BY <1>1, <2>2 DEF OwnerJobInOrder, Proven
    <2>3. QED
        BY <2>1, <2>2
<1>3. QED
    BY <1>1, <1>2

(* A worker that returns is idle, the others are where they were.          *)
LEMMA OwnerReturnChange ==
    ASSUME ProfileInv, NEW w \in OwnerWorker, OwnerReturn(w),
           proven \subseteq proven'
    PROVE  /\ ownerJob' \in [OwnerWorker -> OwnerJob]
           /\ \A v \in OwnerWorker : OwnerJobInOrder(ownerJob[v])'
<1>1. PICK j \in OwnerJob : j = OwnerIdle
    BY OwnerIdleType
<1>2. OwnerJobInOrder(j)'
    BY <1>1, OwnerIdleType DEF OwnerJobInOrder
<1>3. ownerJob' = [ownerJob EXCEPT ![w] = j]
    BY <1>1 DEF OwnerReturn
<1>4. QED
    BY <1>2, <1>3, OwnerJobChange

(* A request begins for a user whose row it reads.                         *)
LEMMA OwnerGoChange ==
    ASSUME ProfileInv, NEW w \in OwnerWorker,
           NEW step \in {"read", "email", "reset"}, NEW u \in Owner,
           NEW c \in Address \cup Number \cup {NoContact}, OwnerGo(w, step, u, c),
           proven \subseteq proven',
           step = "email" => c \in Address /\ <<u, c>> \in proven'
    PROVE  /\ ownerJob' \in [OwnerWorker -> OwnerJob]
           /\ \A v \in OwnerWorker : OwnerJobInOrder(ownerJob[v])'
<1>1. PICK r \in ProfileRow : r = profile[u]
    BY DEF ProfileInv, ProfileTypeOK
<1> DEFINE j == [step |-> step, owner |-> u, row |-> r, to |-> c]
<1>2. /\ j \in OwnerJob
      /\ j.step = step /\ j.owner = u /\ j.row = r /\ j.to = c
    BY DEF OwnerJob
<1>3. Proven(u, r.email) /\ Proven(u, r.phone)
    BY <1>1 DEF ProfileInv, ContactsProven, Proven
<1>4. ownerJob' = [ownerJob EXCEPT ![w] = j]
    BY <1>1 DEF OwnerGo
<1> HIDE DEF j
<1>5. OwnerJobInOrder(j)'
    BY <1>2, <1>3 DEF OwnerJobInOrder, Proven
<1>6. QED
    BY <1>2, <1>4, <1>5, OwnerJobChange

(* A request goes on to its next statement.                                *)
LEMMA OwnerStepChange ==
    ASSUME ProfileInv, NEW w \in OwnerWorker,
           NEW step \in {"link", "close", "phone", "reset", "spend"},
           NEW c \in Address \cup Number \cup {NoContact}, OwnerStep(w, step, c),
           ~OwnerAt(w, "idle"), proven \subseteq proven',
           step = "link" => c \in Address,
           step = "phone" => c \in Number /\ <<ownerJob[w].owner, c>> \in proven'
    PROVE  /\ ownerJob' \in [OwnerWorker -> OwnerJob]
           /\ \A v \in OwnerWorker : OwnerJobInOrder(ownerJob[v])'
<1>1. ownerJob[w] \in OwnerJob /\ ownerJob[w].owner \in Owner
    BY DEF ProfileInv, ProfileTypeOK, OwnerAt, OwnerJobInOrder
<1> DEFINE j == [ownerJob[w] EXCEPT !.step = step, !.to = c]
<1>2. /\ j \in OwnerJob
      /\ j.step = step /\ j.owner = ownerJob[w].owner /\ j.to = c
    BY <1>1 DEF OwnerJob
<1>3. ownerJob' = [ownerJob EXCEPT ![w] = j]
    BY DEF OwnerStep, ProfileInv, ProfileTypeOK
<1> HIDE DEF j
<1>4. PICK k \in OwnerJob : k = j
    BY <1>2
<1>5. OwnerJobInOrder(k)'
    BY <1>1, <1>2, <1>4 DEF OwnerJobInOrder, Proven
<1>6. QED
    BY <1>3, <1>4, <1>5, OwnerJobChange

-------------------------------------------------------------------------------
(* No row changes: what was confirmed and decided of it stands.            *)
LEMMA ProfileKept ==
    ASSUME ProfileInv, UNCHANGED <<profile, decided, stale>>,
           proven \subseteq proven'
    PROVE  ResetHolds' /\ ContactsProven'
BY DEF ProfileInv, ResetHolds, ContactsProven, SecretOf

(* One row is saved with contacts that were confirmed, and with the secret *)
(* last decided unless its user is already written off.                    *)
LEMMA ProfileSaved ==
    ASSUME ProfileInv, NEW u \in Owner, NEW r \in ProfileRow,
           profile' = [profile EXCEPT ![u] = r],
           Proven(u, r.email), Proven(u, r.phone), proven' = proven,
           stale \subseteq stale', stale' \subseteq Owner,
           decided' \in [Owner -> Secret],
           \A v \in Owner \ {u} : decided'[v] = decided[v],
           u \in stale' \/ SecretOf(r) = decided'[u]
    PROVE  profile' \in [Owner -> ProfileRow] /\ ResetHolds' /\ ContactsProven'
<1>1. /\ profile \in [Owner -> ProfileRow]
      /\ ResetHolds /\ ContactsProven
    BY DEF ProfileInv, ProfileTypeOK
<1>2. /\ profile' \in [Owner -> ProfileRow] /\ profile'[u] = r
      /\ \A v \in Owner \ {u} : profile'[v] = profile[v]
    BY <1>1
<1>3. ResetHolds'
    <2>1. ASSUME NEW v \in Owner
          PROVE  v \in stale' \/ SecretOf(profile'[v]) = decided'[v]
        <3>1. CASE v = u
            BY <1>2, <3>1
        <3>2. CASE v # u
            BY <1>1, <1>2, <3>2 DEF ResetHolds
        <3>3. QED
            BY <3>1, <3>2
    <2>2. QED
        BY <2>1 DEF ResetHolds, SecretOf
<1>4. ContactsProven'
    <2>1. ASSUME NEW v \in Owner, NEW c \in {profile'[v].email, profile'[v].phone}
          PROVE  c = NoContact \/ <<v, c>> \in proven
        <3>1. CASE v = u
            BY <1>2, <3>1 DEF Proven
        <3>2. CASE v # u
            BY <1>1, <1>2, <3>2 DEF ContactsProven
        <3>3. QED
            BY <3>1, <3>2
    <2>2. QED
        BY <2>1 DEF ContactsProven
<1>5. QED
    BY <1>2, <1>3, <1>4

-------------------------------------------------------------------------------
LEMMA LoginInv ==
    ASSUME ProfileInv, NEW u \in Owner,
           \/ LoginByPassword(u) \/ LoginByCode(u) \/ LoginByGoogle(u)
           \/ ForgotPassword(u)
    PROVE  ProfileInv'
<1>1. UNCHANGED <<profile, clock, link, numberCode, ownerJob, decided, stale, proven>>
    BY DEF LoginByPassword, LoginByCode, LoginByGoogle, ForgotPassword, TokenFor,
           mail, profileHistory
<1>2. tokens' \in [Owner -> SUBSET Clock] /\ resetToken' \subseteq Owner
    BY DEF LoginByPassword, LoginByCode, LoginByGoogle, ForgotPassword, TokenFor,
           mail, ProfileInv, ProfileTypeOK
<1>3. ProfileTypeOK'
    BY <1>1, <1>2 DEF ProfileInv, ProfileTypeOK
<1>4. ResetHolds' /\ ContactsProven'
    BY <1>1, ProfileKept
<1>5. QED
    BY <1>1, <1>3, <1>4 DEF ProfileInv, OwnerJobInOrder, Proven, LinkInOrder

LEMMA AuthenticateInv ==
    ASSUME ProfileInv, NEW w \in OwnerWorker, NEW u \in Owner,
           Authenticate(w, u) \/ ResetWithToken(w, u)
    PROVE  ProfileInv'
<1>1. PICK step \in {"read", "reset"} : OwnerGo(w, step, u, NoContact)
    BY DEF Authenticate, ResetWithToken
<1>2. UNCHANGED <<profile, tokens, clock, link, numberCode, resetToken, decided,
                  proven, stale>>
    BY DEF Authenticate, ResetWithToken, mail, profileHistory
<1>3. /\ ownerJob' \in [OwnerWorker -> OwnerJob]
      /\ \A v \in OwnerWorker : OwnerJobInOrder(ownerJob[v])'
    BY <1>1, <1>2, OwnerGoChange
<1>4. ResetHolds' /\ ContactsProven'
    BY <1>2, ProfileKept
<1>5. QED
    BY <1>2, <1>3, <1>4 DEF ProfileInv, ProfileTypeOK, LinkInOrder

(* What is saved was read when the request began; if the secret has        *)
(* changed since, the user is written off.                                 *)
LEMMA UpdateProfileInv ==
    ASSUME ProfileInv, NEW w \in OwnerWorker, UpdateProfile(w) \/ Logout(w)
    PROVE  ProfileInv'
<1>1. /\ ownerJob[w] \in OwnerJob /\ ownerJob[w].step = "read"
      /\ ownerJob[w].owner \in Owner
      /\ profile \in [Owner -> ProfileRow] /\ decided \in [Owner -> Secret]
      /\ stale \subseteq Owner /\ clock \in Clock
    BY DEF ProfileInv, ProfileTypeOK, UpdateProfile, Logout, OwnerAt, OwnerJobInOrder
<1>2. PICK u \in Owner, row \in ProfileRow :
        u = ownerJob[w].owner /\ row = ownerJob[w].row
    BY <1>1 DEF OwnerJob
<1>3. Proven(u, row.email) /\ Proven(u, row.phone)
    BY <1>1, <1>2 DEF ProfileInv, OwnerJobInOrder
<1>4. u \in stale \/ SecretOf(profile[u]) = decided[u]
    BY DEF ProfileInv, ResetHolds
<1>5. /\ UNCHANGED <<tokens, clock, link, numberCode, resetToken, proven>>
      /\ OwnerReturn(w)
    BY DEF UpdateProfile, Logout, mail
<1>6. /\ profile' \in [Owner -> ProfileRow] /\ ResetHolds' /\ ContactsProven'
      /\ decided' \in [Owner -> Secret] /\ stale' \subseteq Owner
    <2>1. CASE UpdateProfile(w)
        <3>1. /\ profile' = [profile EXCEPT ![u] = row]
              /\ stale' = IF SecretOf(row) # SecretOf(profile[u])
                          THEN stale \cup {u} ELSE stale
              /\ decided' = decided
            BY <1>2, <2>1 DEF UpdateProfile, SaveRow
        <3>2. /\ stale \subseteq stale' /\ stale' \subseteq Owner
              /\ u \in stale' \/ SecretOf(row) = decided'[u]
            BY <1>1, <1>4, <3>1
        <3>3. QED
            BY <1>1, <1>3, <1>5, <3>1, <3>2, ProfileSaved
    <2>2. CASE Logout(w)
        <3> DEFINE r == [row EXCEPT !.last_logout = clock]
        <3>1. /\ r \in ProfileRow /\ r.email = row.email /\ r.phone = row.phone
              /\ r.password = row.password /\ r.last_logout = clock
            BY <1>1 DEF ProfileRow
        <3>2. /\ profile' = [profile EXCEPT ![u] = r]
              /\ stale' = IF row.password # profile[u].password
                          THEN stale \cup {u} ELSE stale
              /\ decided' = [decided EXCEPT ![u].last_logout = clock]
            BY <1>2, <2>2 DEF Logout, SaveRow
        <3> HIDE DEF r
        <3>3. /\ decided[u] \in Secret
              /\ decided'[u] = [decided[u] EXCEPT !.last_logout = clock]
              /\ decided'[u] \in Secret
              /\ \A v \in Owner \ {u} : decided'[v] = decided[v]
              /\ decided' \in [Owner -> Secret]
            BY <1>1, <3>2 DEF Secret
        <3>4. decided'[u] = [password |-> decided[u].password, last_logout |-> clock]
            BY <1>1, <3>3 DEF Secret
        <3>5. stale \subseteq stale' /\ stale' \subseteq Owner
            BY <1>1, <3>2
        <3>6. u \in stale' \/ SecretOf(r) = decided'[u]
            <4>1. ASSUME u \notin stale'
                  PROVE  decided[u].password = r.password
                <5>1. row.password = profile[u].password /\ u \notin stale
                    BY <3>2, <4>1
                <5>2. QED
                    BY <1>4, <3>1, <5>1 DEF SecretOf
            <4>2. QED
                BY <3>1, <3>4, <4>1 DEF SecretOf
        <3>7. QED
            BY <1>3, <1>5, <3>1, <3>2, <3>3, <3>5, <3>6, ProfileSaved
    <2>3. QED
        BY <2>1, <2>2
<1>7. /\ ownerJob' \in [OwnerWorker -> OwnerJob]
      /\ \A v \in OwnerWorker : OwnerJobInOrder(ownerJob[v])'
    BY <1>5, OwnerReturnChange
<1>8. QED
    BY <1>5, <1>6, <1>7 DEF ProfileInv, ProfileTypeOK, LinkInOrder

(* Using up links changes nothing but their status.                        *)
LEMMA LinksUsedUp ==
    ASSUME ProfileInv, NEW S \in SUBSET Link,
           link' = [l \in Link |-> IF l \in S THEN [link[l] EXCEPT !.status = "USED"]
                                              ELSE link[l]]
    PROVE  link' \in [Link -> LinkRow] /\ \A l \in Link : LinkInOrder(l)'
<1>1. link \in [Link -> LinkRow] /\ \A l \in Link : LinkInOrder(l)
    BY DEF ProfileInv, ProfileTypeOK
<1> DEFINE Off(r) == [r EXCEPT !.status = "USED"]
<1>2. ASSUME NEW r \in LinkRow
      PROVE  Off(r) \in LinkRow /\ Off(r).status = "USED"
    BY DEF LinkRow
<1>3. \A l \in Link : link'[l] = IF l \in S THEN Off(link[l]) ELSE link[l]
    BY Zenon
<1>4. DOMAIN link' = Link /\ link' = [l \in Link |-> link'[l]]
    OBVIOUS
<1> HIDE DEF Off
<1>5. link' \in [Link -> LinkRow]
    BY <1>1, <1>2, <1>3, <1>4
<1>6. ASSUME NEW l \in Link
      PROVE  LinkInOrder(l)'
    BY <1>1, <1>2, <1>3 DEF LinkInOrder
<1>7. QED
    BY <1>5, <1>6

LEMMA RequestEmailInv ==
    ASSUME ProfileInv, NEW w \in OwnerWorker, NEW e \in Address, RequestEmail(w, e)
    PROVE  ProfileInv'
<1>1. UNCHANGED <<profile, tokens, clock, numberCode, resetToken, decided, proven,
                  stale>>
    BY DEF RequestEmail, profileHistory
<1>2. /\ ownerJob' \in [OwnerWorker -> OwnerJob]
      /\ \A v \in OwnerWorker : OwnerJobInOrder(ownerJob[v])'
    <2>1. OwnerStep(w, "link", e) /\ ~OwnerAt(w, "idle")
        BY DEF RequestEmail, OwnerAt
    <2>2. QED
        BY <1>1, <2>1, OwnerStepChange
<1>3. link' \in [Link -> LinkRow] /\ \A l \in Link : LinkInOrder(l)'
    <2> DEFINE S == {l \in Link : link[l].status = "OPEN"
                                    /\ link[l].owner = ownerJob[w].owner}
    <2>1. link' = [l \in Link |-> IF l \in S THEN [link[l] EXCEPT !.status = "USED"]
                                             ELSE link[l]]
        BY Zenon DEF RequestEmail
    <2>2. S \in SUBSET Link
        OBVIOUS
    <2> HIDE DEF S
    <2>3. QED
        BY <2>1, <2>2, LinksUsedUp
<1>4. ResetHolds' /\ ContactsProven'
    BY <1>1, ProfileKept
<1>5. QED
    BY <1>1, <1>2, <1>3, <1>4 DEF ProfileInv, ProfileTypeOK

LEMMA CloseLinksInv ==
    ASSUME ProfileInv, NEW w \in OwnerWorker, CloseLinks(w)
    PROVE  ProfileInv'
<1>1. UNCHANGED <<profile, tokens, clock, numberCode, resetToken, decided, proven,
                  stale>> /\ OwnerReturn(w)
    BY DEF CloseLinks, profileHistory
<1>2. /\ ownerJob' \in [OwnerWorker -> OwnerJob]
      /\ \A v \in OwnerWorker : OwnerJobInOrder(ownerJob[v])'
    BY <1>1, OwnerReturnChange
<1>3. link' \in [Link -> LinkRow] /\ \A l \in Link : LinkInOrder(l)'
    <2> DEFINE S == {l \in Link : link[l].status = "OPEN"
                                    /\ link[l].owner = ownerJob[w].owner}
    <2>1. link' = [l \in Link |-> IF l \in S THEN [link[l] EXCEPT !.status = "USED"]
                                             ELSE link[l]]
        BY Zenon DEF CloseLinks
    <2>2. S \in SUBSET Link
        OBVIOUS
    <2> HIDE DEF S
    <2>3. QED
        BY <2>1, <2>2, LinksUsedUp
<1>4. ResetHolds' /\ ContactsProven'
    BY <1>1, ProfileKept
<1>5. QED
    BY <1>1, <1>2, <1>3, <1>4 DEF ProfileInv, ProfileTypeOK

LEMMA SendLinkInv ==
    ASSUME ProfileInv, NEW w \in OwnerWorker, NEW l \in Link, SendLink(w, l)
    PROVE  ProfileInv'
<1>1. UNCHANGED <<profile, tokens, clock, numberCode, resetToken, decided, proven,
                  stale>> /\ OwnerReturn(w)
    BY DEF SendLink, profileHistory
<1>2. /\ ownerJob' \in [OwnerWorker -> OwnerJob]
      /\ \A v \in OwnerWorker : OwnerJobInOrder(ownerJob[v])'
    BY <1>1, OwnerReturnChange
<1>3. PICK u \in Owner, e \in Address :
        link' = [link EXCEPT ![l] = [status |-> "OPEN", owner |-> u, email |-> e]]
    BY DEF SendLink, OwnerAt, ProfileInv, OwnerJobInOrder
<1>4. link' \in [Link -> LinkRow] /\ \A k \in Link : LinkInOrder(k)'
    BY <1>3 DEF ProfileInv, ProfileTypeOK, LinkRow, LinkInOrder
<1>5. ResetHolds' /\ ContactsProven'
    BY <1>1, ProfileKept
<1>6. QED
    BY <1>1, <1>2, <1>4, <1>5 DEF ProfileInv, ProfileTypeOK

LEMMA VerifyEmailUpdateInv ==
    ASSUME ProfileInv, NEW w \in OwnerWorker, NEW l \in Link, VerifyEmailUpdate(w, l)
    PROVE  ProfileInv'
<1>1. UNCHANGED <<profile, tokens, clock, numberCode, resetToken, decided, stale>>
    BY DEF VerifyEmailUpdate
<1>2. PICK u \in Owner, e \in Address : u = link[l].owner /\ e = link[l].email
    BY DEF VerifyEmailUpdate, ProfileInv, LinkInOrder
<1>3. CASE link' = [link EXCEPT ![l].status = "USED"] /\ UNCHANGED <<ownerJob, proven>>
    <2>1. link' \in [Link -> LinkRow] /\ \A k \in Link : LinkInOrder(k)'
        BY <1>3 DEF ProfileInv, ProfileTypeOK, LinkRow, LinkInOrder
    <2>2. ResetHolds' /\ ContactsProven'
        BY <1>1, <1>3, ProfileKept
    <2>3. QED
        BY <1>1, <1>3, <2>1, <2>2 DEF ProfileInv, ProfileTypeOK, OwnerJobInOrder, Proven
<1>4. CASE /\ OwnerGo(w, "email", u, e)
           /\ proven' = proven \cup {<<u, e>>}
           /\ UNCHANGED link
    <2>1. /\ ownerJob' \in [OwnerWorker -> OwnerJob]
          /\ \A v \in OwnerWorker : OwnerJobInOrder(ownerJob[v])'
        BY <1>4, OwnerGoChange
    <2>2. ResetHolds' /\ ContactsProven'
        BY <1>1, <1>4, ProfileKept
    <2>3. proven' \subseteq Owner \X (Address \cup Number)
        BY <1>4 DEF ProfileInv, ProfileTypeOK
    <2>4. QED
        BY <1>1, <1>4, <2>1, <2>2, <2>3 DEF ProfileInv, ProfileTypeOK, LinkInOrder
<1>5. QED
    BY <1>2, <1>3, <1>4 DEF VerifyEmailUpdate

LEMMA SaveEmailInv ==
    ASSUME ProfileInv, NEW w \in OwnerWorker, SaveEmail(w)
    PROVE  ProfileInv'
<1>1. /\ UNCHANGED <<tokens, clock, link, numberCode, resetToken, decided, proven,
                     stale>>
      /\ ~OwnerAt(w, "idle")
    BY DEF SaveEmail, mail, profileHistory, OwnerAt
<1>2. PICK u \in Owner, e \in Address :
        u = ownerJob[w].owner /\ e = ownerJob[w].to /\ Proven(u, e)
    BY DEF SaveEmail, OwnerAt, ProfileInv, OwnerJobInOrder
<1>3. profile[u] \in ProfileRow /\ profile \in [Owner -> ProfileRow]
    BY DEF ProfileInv, ProfileTypeOK
<1> DEFINE r == [profile[u] EXCEPT !.email = e]
<1>4. /\ r \in ProfileRow /\ r.email = e /\ r.phone = profile[u].phone
      /\ SecretOf(r) = SecretOf(profile[u])
    BY <1>3 DEF ProfileRow, SecretOf
<1>5. profile' = [profile EXCEPT ![u] = r]
    BY <1>2, <1>3 DEF SaveEmail
<1> HIDE DEF r
<1>6. /\ profile' \in [Owner -> ProfileRow] /\ ResetHolds' /\ ContactsProven'
    <2>1. Proven(u, profile[u].phone)
        BY DEF ProfileInv, ContactsProven, Proven
    <2>2. u \in stale \/ SecretOf(r) = decided[u]
        BY <1>4 DEF ProfileInv, ResetHolds
    <2>3. decided \in [Owner -> Secret] /\ stale \subseteq Owner
        BY DEF ProfileInv, ProfileTypeOK
    <2>4. QED
        BY <1>1, <1>2, <1>4, <1>5, <2>1, <2>2, <2>3, ProfileSaved
<1>7. /\ ownerJob' \in [OwnerWorker -> OwnerJob]
      /\ \A v \in OwnerWorker : OwnerJobInOrder(ownerJob[v])'
    <2>1. OwnerStep(w, "close", e)
        BY <1>2 DEF SaveEmail
    <2>2. QED
        BY <1>1, <2>1, OwnerStepChange
<1>8. QED
    BY <1>1, <1>6, <1>7 DEF ProfileInv, ProfileTypeOK, LinkInOrder

LEMMA RequestPhoneInv ==
    ASSUME ProfileInv, NEW w \in OwnerWorker, NEW p \in Number, RequestPhone(w, p)
    PROVE  ProfileInv'
<1>1. /\ UNCHANGED <<profile, tokens, clock, link, resetToken, decided, proven, stale>>
      /\ OwnerReturn(w)
    BY DEF RequestPhone, profileHistory
<1>2. /\ ownerJob' \in [OwnerWorker -> OwnerJob]
      /\ \A v \in OwnerWorker : OwnerJobInOrder(ownerJob[v])'
    BY <1>1, OwnerReturnChange
<1>3. numberCode' \subseteq Owner \X Number
    BY DEF RequestPhone, OwnerAt, ProfileInv, ProfileTypeOK, OwnerJobInOrder
<1>4. ResetHolds' /\ ContactsProven'
    BY <1>1, ProfileKept
<1>5. QED
    BY <1>1, <1>2, <1>3, <1>4 DEF ProfileInv, ProfileTypeOK, LinkInOrder

LEMMA VerifyPhoneUpdateInv ==
    ASSUME ProfileInv, NEW w \in OwnerWorker, NEW p \in Number, VerifyPhoneUpdate(w, p)
    PROVE  ProfileInv'
<1>1. /\ UNCHANGED <<profile, tokens, clock, link, resetToken, decided, stale>>
      /\ OwnerStep(w, "phone", p) /\ ~OwnerAt(w, "idle")
      /\ proven' = proven \cup {<<ownerJob[w].owner, p>>}
    BY DEF VerifyPhoneUpdate, OwnerAt
<1>2. /\ ownerJob' \in [OwnerWorker -> OwnerJob]
      /\ \A v \in OwnerWorker : OwnerJobInOrder(ownerJob[v])'
    BY <1>1, OwnerStepChange
<1>3. /\ numberCode' \subseteq Owner \X Number
      /\ proven' \subseteq Owner \X (Address \cup Number)
    BY <1>1 DEF VerifyPhoneUpdate, OwnerAt, ProfileInv, ProfileTypeOK, OwnerJobInOrder
<1>4. ResetHolds' /\ ContactsProven'
    BY <1>1, ProfileKept
<1>5. QED
    BY <1>1, <1>2, <1>3, <1>4 DEF ProfileInv, ProfileTypeOK, LinkInOrder

LEMMA SavePhoneInv ==
    ASSUME ProfileInv, NEW w \in OwnerWorker, SavePhone(w)
    PROVE  ProfileInv'
<1>1. /\ UNCHANGED <<tokens, clock, link, numberCode, resetToken, decided, proven,
                     stale>>
      /\ OwnerReturn(w)
    BY DEF SavePhone, mail, profileHistory
<1>2. PICK u \in Owner, p \in Number :
        u = ownerJob[w].owner /\ p = ownerJob[w].to /\ Proven(u, p)
    BY DEF SavePhone, OwnerAt, ProfileInv, OwnerJobInOrder
<1>3. profile[u] \in ProfileRow /\ profile \in [Owner -> ProfileRow]
    BY DEF ProfileInv, ProfileTypeOK
<1> DEFINE r == [profile[u] EXCEPT !.phone = p]
<1>4. /\ r \in ProfileRow /\ r.phone = p /\ r.email = profile[u].email
      /\ SecretOf(r) = SecretOf(profile[u])
    BY <1>3 DEF ProfileRow, SecretOf
<1>5. profile' = [profile EXCEPT ![u] = r]
    BY <1>2, <1>3 DEF SavePhone
<1> HIDE DEF r
<1>6. /\ profile' \in [Owner -> ProfileRow] /\ ResetHolds' /\ ContactsProven'
    <2>1. Proven(u, profile[u].email)
        BY DEF ProfileInv, ContactsProven, Proven
    <2>2. u \in stale \/ SecretOf(r) = decided[u]
        BY <1>4 DEF ProfileInv, ResetHolds
    <2>3. decided \in [Owner -> Secret] /\ stale \subseteq Owner
        BY DEF ProfileInv, ProfileTypeOK
    <2>4. QED
        BY <1>1, <1>2, <1>4, <1>5, <2>1, <2>2, <2>3, ProfileSaved
<1>7. /\ ownerJob' \in [OwnerWorker -> OwnerJob]
      /\ \A v \in OwnerWorker : OwnerJobInOrder(ownerJob[v])'
    BY <1>1, OwnerReturnChange
<1>8. QED
    BY <1>1, <1>6, <1>7 DEF ProfileInv, ProfileTypeOK, LinkInOrder

LEMMA ResetLoggedInInv ==
    ASSUME ProfileInv, NEW w \in OwnerWorker, ResetLoggedIn(w)
    PROVE  ProfileInv'
<1>1. /\ UNCHANGED <<profile, tokens, clock, link, numberCode, resetToken, decided,
                     proven, stale>>
      /\ OwnerStep(w, "reset", NoContact) /\ ~OwnerAt(w, "idle")
    BY DEF ResetLoggedIn, mail, profileHistory, OwnerAt
<1>2. /\ ownerJob' \in [OwnerWorker -> OwnerJob]
      /\ \A v \in OwnerWorker : OwnerJobInOrder(ownerJob[v])'
    BY <1>1, OwnerStepChange
<1>3. ResetHolds' /\ ContactsProven'
    BY <1>1, ProfileKept
<1>4. QED
    BY <1>1, <1>2, <1>3 DEF ProfileInv, ProfileTypeOK, LinkInOrder

LEMMA ResetPasswordInv ==
    ASSUME ProfileInv, NEW w \in OwnerWorker, ResetPassword(w)
    PROVE  ProfileInv'
<1>1. /\ UNCHANGED <<tokens, clock, link, numberCode, resetToken, proven, stale>>
      /\ OwnerStep(w, "spend", NoContact) /\ ~OwnerAt(w, "idle")
    BY DEF ResetPassword, mail, OwnerAt
<1>2. PICK u \in Owner : u = ownerJob[w].owner
    BY DEF ResetPassword, OwnerAt, ProfileInv, OwnerJobInOrder
<1>3. /\ profile[u] \in ProfileRow /\ profile \in [Owner -> ProfileRow]
      /\ decided \in [Owner -> Secret] /\ clock \in Clock /\ stale \subseteq Owner
    BY DEF ProfileInv, ProfileTypeOK
<1> DEFINE m == [profile[u] EXCEPT !.password = clock]
           r == [m EXCEPT !.last_logout = clock]
<1>4. /\ m \in ProfileRow /\ m.phone = profile[u].phone /\ m.email = profile[u].email
      /\ m.password = clock
    BY <1>3 DEF ProfileRow
<1>5. profile' = [profile EXCEPT ![u] = r]
    BY <1>2, <1>3 DEF ResetPassword
<1> HIDE DEF m
<1>6. /\ r \in ProfileRow /\ r.phone = profile[u].phone /\ r.email = profile[u].email
      /\ SecretOf(r) = [password |-> clock, last_logout |-> clock]
    BY <1>3, <1>4 DEF ProfileRow, SecretOf
<1>7. /\ decided' \in [Owner -> Secret]
      /\ \A v \in Owner \ {u} : decided'[v] = decided[v]
      /\ decided'[u] = [password |-> clock, last_logout |-> clock]
    BY <1>2, <1>3 DEF ResetPassword, Secret
<1> HIDE DEF r
<1>8. /\ profile' \in [Owner -> ProfileRow] /\ ResetHolds' /\ ContactsProven'
    <2>1. Proven(u, profile[u].email) /\ Proven(u, profile[u].phone)
        BY DEF ProfileInv, ContactsProven, Proven
    <2>2. QED
        BY <1>1, <1>3, <1>5, <1>6, <1>7, <2>1, ProfileSaved
<1>9. /\ ownerJob' \in [OwnerWorker -> OwnerJob]
      /\ \A v \in OwnerWorker : OwnerJobInOrder(ownerJob[v])'
    BY <1>1, OwnerStepChange
<1>10. QED
    BY <1>1, <1>7, <1>8, <1>9 DEF ProfileInv, ProfileTypeOK, LinkInOrder

LEMMA SpendTokensInv ==
    ASSUME ProfileInv, NEW w \in OwnerWorker, SpendTokens(w) \/ OwnerAbort(w)
    PROVE  ProfileInv'
<1>1. /\ UNCHANGED <<profile, tokens, clock, link, numberCode, decided, proven, stale>>
      /\ OwnerReturn(w)
    BY DEF SpendTokens, OwnerAbort, mail, profileHistory
<1>2. resetToken' \subseteq Owner
    BY DEF SpendTokens, OwnerAbort, mail, ProfileInv, ProfileTypeOK
<1>3. /\ ownerJob' \in [OwnerWorker -> OwnerJob]
      /\ \A v \in OwnerWorker : OwnerJobInOrder(ownerJob[v])'
    BY <1>1, OwnerReturnChange
<1>4. ResetHolds' /\ ContactsProven'
    BY <1>1, ProfileKept
<1>5. QED
    BY <1>1, <1>2, <1>3, <1>4 DEF ProfileInv, ProfileTypeOK, LinkInOrder

(* Time passes, mail expires.                                              *)
LEMMA ExpireInv ==
    ASSUME ProfileInv, Second \/ Expire
    PROVE  ProfileInv'
<1>1. UNCHANGED <<profile, tokens, ownerJob, decided, proven, stale>>
    BY DEF Second, Expire, profileHistory
<1>2. ResetHolds' /\ ContactsProven'
    BY <1>1, ProfileKept
<1>3. clock' \in Clock
    BY ProfileAssumption DEF Second, Expire, ProfileInv, ProfileTypeOK, Clock
<1>4. link' \in [Link -> LinkRow] /\ \A k \in Link : LinkInOrder(k)'
    <2>1. CASE UNCHANGED link
        BY <2>1 DEF ProfileInv, ProfileTypeOK, LinkInOrder
    <2>2. CASE \E l \in Link : link' = [link EXCEPT ![l].status = "USED"]
        BY <2>2 DEF ProfileInv, ProfileTypeOK, LinkRow, LinkInOrder
    <2>3. QED
        BY <2>1, <2>2 DEF Second, Expire, mail
<1>5. numberCode' \subseteq Owner \X Number /\ resetToken' \subseteq Owner
    BY DEF Second, Expire, mail, ProfileInv, ProfileTypeOK
<1>6. QED
    BY <1>1, <1>2, <1>3, <1>4, <1>5 DEF ProfileInv, ProfileTypeOK, OwnerJobInOrder, Proven

LEMMA ProfileNextInv ==
    ASSUME ProfileInv, [ProfileNext]_profileVars
    PROVE  ProfileInv'
<1>1. CASE UNCHANGED profileVars
    <2>1. UNCHANGED <<profile, tokens, clock, link, numberCode, resetToken, ownerJob,
                      decided, proven, stale>>
        BY <1>1 DEF profileVars, mail, profileHistory
    <2>2. ResetHolds' /\ ContactsProven'
        BY <2>1, ProfileKept
    <2>3. QED
        BY <2>1, <2>2 DEF ProfileInv, ProfileTypeOK, OwnerJobInOrder, Proven, LinkInOrder
<1>2. ASSUME NEW u \in Owner,
             \/ LoginByPassword(u) \/ LoginByCode(u) \/ LoginByGoogle(u)
             \/ ForgotPassword(u)
      PROVE  ProfileInv'
    BY <1>2, LoginInv
<1>3. CASE Second \/ Expire
    BY <1>3, ExpireInv
<1>4. ASSUME NEW w \in OwnerWorker, NEW u \in Owner,
             Authenticate(w, u) \/ ResetWithToken(w, u)
      PROVE  ProfileInv'
    BY <1>4, AuthenticateInv
<1>5. ASSUME NEW w \in OwnerWorker,
             \/ \E e \in Address : RequestEmail(w, e)
             \/ \E l \in Link : SendLink(w, l) \/ VerifyEmailUpdate(w, l)
             \/ \E p \in Number : RequestPhone(w, p) \/ VerifyPhoneUpdate(w, p)
      PROVE  ProfileInv'
    BY <1>5, RequestEmailInv, SendLinkInv, VerifyEmailUpdateInv, RequestPhoneInv,
       VerifyPhoneUpdateInv
<1>6. ASSUME NEW w \in OwnerWorker,
             \/ UpdateProfile(w) \/ Logout(w) \/ SaveEmail(w) \/ CloseLinks(w)
             \/ SavePhone(w) \/ ResetLoggedIn(w) \/ ResetPassword(w)
             \/ SpendTokens(w) \/ OwnerAbort(w)
      PROVE  ProfileInv'
    BY <1>6, UpdateProfileInv, SaveEmailInv, CloseLinksInv, SavePhoneInv,
       ResetLoggedInInv, ResetPasswordInv, SpendTokensInv
<1>7. QED
    BY <1>1, <1>2, <1>3, <1>4, <1>5, <1>6 DEF ProfileNext

LEMMA ProfileAlwaysInv == ProfileSpec => []ProfileInv
BY ProfileInitInv, ProfileNextInv, PTL DEF ProfileSpec

(* The rows of users, the links, codes and tokens and the requests in      *)
(* flight are what login, profile and password requests make of them.      *)
THEOREM ProfileTypeCorrect == ProfileSpec => []ProfileTypeOK
<1>1. ProfileInv => ProfileTypeOK
    BY DEF ProfileInv
<1>2. QED
    BY <1>1, ProfileAlwaysInv, PTL

(* A password reset and the end of the sessions stand against every other  *)
(* request: all of them save the columns they change, but for the profile  *)
(* update and the logout, which save the row they read.                    *)
THEOREM ResetHoldsCorrect == ProfileSpec => []ResetHolds
<1>1. ProfileInv => ResetHolds
    BY DEF ProfileInv
<1>2. QED
    BY <1>1, ProfileAlwaysInv, PTL

(* No request gives an account an address or a phone that its holder has   *)
(* not confirmed, not even by saving a row that was read long ago.         *)
THEOREM ContactsProvenCorrect == ProfileSpec => []ContactsProven
<1>1. ProfileInv => ContactsProven
    BY DEF ProfileInv
<1>2. QED
    BY <1>1, ProfileAlwaysInv, PTL

-------------------------------------------------------------------------------
(* Addresses.                                                              *)

USE PlaceAssumption

-------------------------------------------------------------------------------
(* The inductive invariant.                                                *)

Fits(S) == IsFiniteSet(S) /\ Cardinality(S) <= MaxPlaces

(* An address that is updated is that of the user, or deleted.             *)
PlaceJobSound(w) ==
    LET j == placeJob[w] IN
    /\ j.step = "idle" <=> j.user = Nowhere
    /\ j.step \in {"idle", "create", "insert"} => j.place = Nowhere
    /\ j.step \in {"update", "save"} =>
          j.place \in Place /\ place[j.place].user \in {j.user, Nowhere}
    /\ j.step \in {"create", "update"} => j.is_default

(* What the request of worker w of user u can rely on.                     *)
RoomFor(w, u) ==
    LET j == placeJob[w] IN
    /\ j.step \in {"create", "insert"} => Cardinality(PlacesOf(u)) < MaxPlaces
    /\ j.step \in {"update", "save"} => Fits(PlacesOf(u) \cup {j.place})
    /\ j.step = "insert" /\ j.is_default => DefaultsOf(u) = {}
    /\ j.step = "save" /\ j.is_default => DefaultsOf(u) \subseteq {j.place}

BookSound(u) ==
    /\ Fits(PlacesOf(u))
    /\ \A a, b \in DefaultsOf(u) : a = b
    /\ \A w, v \in PlaceWorker : placeJob[w].user = u /\ placeJob[v].user = u => w = v
    /\ \A w \in PlaceWorker : placeJob[w].user = u => RoomFor(w, u)

(* Only requests of its user work on an address, even once it is deleted.  *)
PlacesShared ==
    \A v, w \in PlaceWorker :
        placeJob[v].place \in Place /\ placeJob[w].place = placeJob[v].place
            => placeJob[w].user = placeJob[v].user

PlacesInv ==
    /\ PlacesTypeOK
    /\ PlacesShared
    /\ \A w \in PlaceWorker : PlaceJobSound(w)
    /\ \A u \in Resident \ hurried : BookSound(u)

-------------------------------------------------------------------------------
(* Lemmas on limits.                                                       *)

LEMMA FitsSubset ==
    ASSUME NEW S, Fits(S), NEW T \in SUBSET S
    PROVE  /\ Fits(T) /\ Cardinality(T) <= Cardinality(S)
           /\ Cardinality(S) \in Nat /\ Cardinality(T) \in Nat
BY FS_Subset, FS_CardinalityType DEF Fits

LEMMA FitsAdd ==
    ASSUME NEW S, NEW x, Fits(S), Cardinality(S) < MaxPlaces \/ x \in S
    PROVE  Fits(S \cup {x})
<1>1. IsFiniteSet(S) /\ Cardinality(S) \in Nat /\ Cardinality(S) <= MaxPlaces
    BY FS_CardinalityType DEF Fits
<1>2. /\ IsFiniteSet(S \cup {x})
      /\ Cardinality(S \cup {x}) = IF x \in S THEN Cardinality(S) ELSE Cardinality(S) + 1
    BY <1>1, FS_AddElement
<1>3. CASE x \in S
    BY <1>1, <1>2, <1>3 DEF Fits
<1>4. CASE x \notin S
    BY <1>1, <1>2, <1>4 DEF Fits
<1>5. QED
    BY <1>3, <1>4

-------------------------------------------------------------------------------
(* Frames.                                                                 *)

(* A user whose addresses and defaults only become fewer, and whose        *)
(* request, if any, stays as it is.                                        *)
LEMMA FewerPlaces ==
    ASSUME NEW u \in Resident, BookSound(u),
           PlacesOf(u)' \subseteq PlacesOf(u), DefaultsOf(u)' \subseteq DefaultsOf(u),
           \A v \in PlaceWorker : placeJob'[v].user = u => placeJob'[v] = placeJob[v]
    PROVE  BookSound(u)'
<1>1. /\ Fits(PlacesOf(u)')
      /\ Cardinality(PlacesOf(u)') <= Cardinality(PlacesOf(u))
      /\ Cardinality(PlacesOf(u)) \in Nat /\ Cardinality(PlacesOf(u)') \in Nat
    BY FitsSubset DEF BookSound
<1>2. \A v \in PlaceWorker : placeJob'[v].user = u => placeJob[v].user = u
    OBVIOUS
<1>3. ASSUME NEW v \in PlaceWorker, placeJob'[v].user = u
      PROVE  RoomFor(v, u)'
    <2>1. RoomFor(v, u) /\ placeJob'[v] = placeJob[v]
        BY <1>2, <1>3 DEF BookSound
    <2>2. ASSUME Fits(PlacesOf(u) \cup {placeJob[v].place})
          PROVE  Fits(PlacesOf(u)' \cup {placeJob[v].place})
        BY <2>2, FitsSubset
    <2>3. QED
        BY <1>1, <2>1, <2>2 DEF RoomFor
<1>4. QED
    BY <1>1, <1>2, <1>3 DEF BookSound, Fits

(* The addresses of a user depend on the rows that are the user's.         *)
LEMMA SamePlaces ==
    ASSUME NEW u \in Resident,
           \A b \in Place : place[b].user = u \/ place'[b].user = u => place'[b] = place[b]
    PROVE  PlacesOf(u)' = PlacesOf(u) /\ DefaultsOf(u)' = DefaultsOf(u)
BY DEF PlacesOf, DefaultsOf

LEMMA PlaceReturnJob ==
    ASSUME PlacesTypeOK, NEW w \in PlaceWorker, PlaceReturn(w)
    PROVE  /\ placeJob' \in [PlaceWorker -> PlaceJob]
           /\ \A v \in PlaceWorker \ {w} : placeJob'[v] = placeJob[v]
           /\ placeJob'[w].step = "idle" /\ placeJob'[w].user = Nowhere
           /\ placeJob'[w].place = Nowhere
BY DEF PlacesTypeOK, PlaceReturn, PlaceIdle, PlaceJob

LEMMA PlaceBeginJob ==
    ASSUME PlacesTypeOK, NEW w \in PlaceWorker,
           NEW step \in {"create", "insert", "update", "save"}, NEW u \in Resident,
           NEW a \in Place \cup {Nowhere}, NEW d \in BOOLEAN,
           PlaceBegin(w, step, u, a, d)
    PROVE  /\ placeJob' \in [PlaceWorker -> PlaceJob]
           /\ \A v \in PlaceWorker \ {w} : placeJob'[v] = placeJob[v]
           /\ placeJob[w].step = "idle"
           /\ placeJob'[w].step = step /\ placeJob'[w].user = u
           /\ placeJob'[w].place = a /\ placeJob'[w].is_default = d
           /\ hurried' \subseteq Resident
           /\ \A x : x \in hurried => x \in hurried'
           /\ u \notin hurried' => \A v \in PlaceWorker \ {w} : placeJob[v].user # u
           /\ place' = place
<1> DEFINE j == [step |-> step, user |-> u, place |-> a, is_default |-> d]
<1>1. j \in PlaceJob /\ j.step = step /\ j.user = u /\ j.place = a /\ j.is_default = d
    BY DEF PlaceJob
<1>2. placeJob' = [placeJob EXCEPT ![w] = j]
    BY DEF PlaceBegin
<1> HIDE DEF j
<1>3. QED
    BY <1>1, <1>2 DEF PlaceBegin, PlaceAt, PlacesTypeOK

(* The step of a request goes on, and nothing else of it changes.          *)
LEMMA PlaceStepJob ==
    ASSUME PlacesTypeOK, NEW w \in PlaceWorker, NEW step \in {"insert", "save"},
           placeJob' = [placeJob EXCEPT ![w].step = step]
    PROVE  /\ placeJob' \in [PlaceWorker -> PlaceJob]
           /\ \A v \in PlaceWorker \ {w} : placeJob'[v] = placeJob[v]
           /\ placeJob'[w].step = step /\ placeJob'[w].user = placeJob[w].user
           /\ placeJob'[w].place = placeJob[w].place
           /\ placeJob'[w].is_default = placeJob[w].is_default
<1> DEFINE j == [placeJob[w] EXCEPT !.step = step]
<1>1. /\ j \in PlaceJob /\ j.step = step /\ j.user = placeJob[w].user
      /\ j.place = placeJob[w].place /\ j.is_default = placeJob[w].is_default
    BY DEF PlacesTypeOK, PlaceJob
<1>2. placeJob' = [placeJob EXCEPT ![w] = j]
    BY DEF PlacesTypeOK
<1> HIDE DEF j
<1>3. QED
    BY <1>1, <1>2 DEF PlacesTypeOK

-------------------------------------------------------------------------------
(* The inductive invariant, one fact per action.                           *)

LEMMA PlacesInitInv == PlacesInit => PlacesInv
<1>1. SUFFICES ASSUME PlacesInit
               PROVE  PlacesInv
    OBVIOUS
<1>2. PlacesTypeOK
    BY <1>1 DEF PlacesInit, PlacesTypeOK, NoPlace, PlaceIdle, PlaceRow, PlaceJob
<1>3. \A w \in PlaceWorker : PlaceJobSound(w)
    BY <1>1 DEF PlacesInit, PlaceJobSound, PlaceIdle
<1>4. ASSUME NEW u \in Resident
      PROVE  BookSound(u)
    <2>1. PlacesOf(u) = {} /\ DefaultsOf(u) = {}
        BY <1>1 DEF PlacesInit, NoPlace, PlacesOf, DefaultsOf
    <2>2. Fits({})
        BY FS_EmptySet DEF Fits
    <2>3. \A w \in PlaceWorker : placeJob[w].user # u
        BY <1>1 DEF PlacesInit, PlaceIdle
    <2>4. QED
        BY <2>1, <2>2, <2>3 DEF BookSound
<1>5. PlacesShared
    BY <1>1 DEF PlacesInit, PlacesShared, PlaceIdle
<1>6. QED
    BY <1>2, <1>3, <1>4, <1>5 DEF PlacesInv

(* A request begins.  If it is the only one of its user, the checks of the *)
(* view say what it can rely on.                                           *)
LEMMA PlaceBeginInv ==
    ASSUME PlacesInv, NEW w \in PlaceWorker, NEW u \in Resident, NEW d \in BOOLEAN,
           CreatePlace(w, u, d) \/ \E a \in Place : UpdatePlace(w, u, a, d)
    PROVE  PlacesInv'
<1>0. /\ PlacesTypeOK /\ PlacesShared /\ \A v \in PlaceWorker : PlaceJobSound(v)
      /\ \A x \in Resident \ hurried : BookSound(x)
    BY DEF PlacesInv
<1>1. PICK step \in {"create", "insert", "update", "save"},
           a \in Place \cup {Nowhere}, f \in BOOLEAN :
        /\ PlaceBegin(w, step, u, a, f)
        /\ step \in {"create", "insert"} => a = Nowhere
                                            /\ Cardinality(PlacesOf(u)) < MaxPlaces
        /\ step \in {"update", "save"} => a \in PlacesOf(u)
        /\ step \in {"create", "update"} => f
        /\ step = "insert" => ~f
        /\ step = "save" /\ f => place[a].is_default
    <2>1. CASE CreatePlace(w, u, d)
        <3>1. PlaceBegin(w, IF d THEN "create" ELSE "insert", u, Nowhere, d)
              /\ Cardinality(PlacesOf(u)) < MaxPlaces
            BY <2>1 DEF CreatePlace
        <3>2. CASE d = TRUE
            BY <3>1, <3>2
        <3>3. CASE d = FALSE
            BY <3>1, <3>3
        <3>4. QED
            BY <3>2, <3>3
    <2>2. ASSUME NEW b \in Place, UpdatePlace(w, u, b, d)
          PROVE  \E step \in {"update", "save"}, f \in BOOLEAN :
                    /\ PlaceBegin(w, step, u, b, f) /\ b \in PlacesOf(u)
                    /\ step = "update" => f
                    /\ step = "save" /\ f => place[b].is_default
        <3>1. place[b].is_default \in BOOLEAN
            BY <1>0 DEF PlacesTypeOK, PlaceRow
        <3>2. CASE PlaceBegin(w, "save", u, b, place[b].is_default)
            BY <2>2, <3>1, <3>2 DEF UpdatePlace
        <3>3. CASE PlaceBegin(w, IF d THEN "update" ELSE "save", u, b, d)
            <4>1. CASE d = TRUE
                BY <2>2, <3>3, <4>1 DEF UpdatePlace
            <4>2. CASE d = FALSE
                BY <2>2, <3>3, <4>2 DEF UpdatePlace
            <4>3. QED
                BY <4>1, <4>2
        <3>4. QED
            BY <2>2, <3>2, <3>3 DEF UpdatePlace
    <2>3. QED
        BY <2>1, <2>2
<1>2. /\ placeJob' \in [PlaceWorker -> PlaceJob]
      /\ \A v \in PlaceWorker \ {w} : placeJob'[v] = placeJob[v]
      /\ placeJob'[w].step = step /\ placeJob'[w].user = u
      /\ placeJob'[w].place = a /\ placeJob'[w].is_default = f
      /\ hurried' \subseteq Resident
      /\ \A x : x \in hurried => x \in hurried'
      /\ u \notin hurried' => \A v \in PlaceWorker \ {w} : placeJob[v].user # u
      /\ place' = place
    BY <1>0, <1>1, PlaceBeginJob
<1>3. PlacesTypeOK'
    BY <1>0, <1>2 DEF PlacesTypeOK
<1>4. ASSUME NEW v \in PlaceWorker
      PROVE  PlaceJobSound(v)'
    <2>1. CASE v = w
        BY <1>1, <1>2, <2>1 DEF PlaceJobSound, PlacesOf
    <2>2. CASE v # w
        BY <1>0, <1>2, <2>2 DEF PlaceJobSound
    <2>3. QED
        BY <2>1, <2>2
<1>5. \A x \in Resident : PlacesOf(x)' = PlacesOf(x) /\ DefaultsOf(x)' = DefaultsOf(x)
    BY <1>2, SamePlaces
<1>6. ASSUME NEW x \in Resident \ hurried', x # u
      PROVE  BookSound(x)'
    <2>1. BookSound(x)
        BY <1>0, <1>2
    <2>2. \A v \in PlaceWorker : placeJob'[v].user = x => placeJob'[v] = placeJob[v]
        BY <1>2, <1>6
    <2>3. QED
        BY <1>5, <2>1, <2>2, FewerPlaces
<1>7. ASSUME u \notin hurried'
      PROVE  BookSound(u)'
    <2>1. BookSound(u)
        BY <1>0, <1>2, <1>7
    <2>2. \A v \in PlaceWorker : placeJob'[v].user = u => v = w
        BY <1>2, <1>7
    <2>3. step \in {"update", "save"} => Fits(PlacesOf(u) \cup {a})
        BY <1>1, <2>1, FitsAdd DEF BookSound
    <2>4. step = "save" /\ f => DefaultsOf(u) \subseteq {a}
        BY <1>1, <2>1 DEF BookSound, DefaultsOf
    <2>5. RoomFor(w, u)'
        BY <1>1, <1>2, <1>5, <2>3, <2>4 DEF RoomFor
    <2>6. QED
        BY <1>5, <2>1, <2>2, <2>5 DEF BookSound
<1>8. PlacesShared'
    <2>1. ASSUME NEW v \in PlaceWorker \ {w}, a \in Place, placeJob[v].place = a
          PROVE  placeJob[v].user = u
        <3>1. placeJob[v] \in PlaceJob /\ PlaceJobSound(v)
            BY <1>0 DEF PlacesTypeOK
        <3>2. placeJob[v].step \in {"update", "save"}
            BY <2>1, <3>1, PlaceAssumption DEF PlaceJob, PlaceJobSound
        <3>3. place[a].user \in {placeJob[v].user, Nowhere}
            BY <2>1, <3>1, <3>2 DEF PlaceJobSound
        <3>4. place[a].user = u
            BY <1>1, <2>1, PlaceAssumption DEF PlacesOf
        <3>5. QED
            BY <3>3, <3>4, PlaceAssumption
    <2>2. QED
        BY <1>0, <1>2, <2>1 DEF PlacesShared
<1>9. QED
    BY <1>3, <1>4, <1>6, <1>7, <1>8 DEF PlacesInv

(* The default of a user is unset, for an address to be inserted or saved. *)
LEMMA UndefaultInv ==
    ASSUME PlacesInv, NEW w \in PlaceWorker, CreateUndefault(w) \/ UpdateUndefault(w)
    PROVE  PlacesInv'
<1>0. /\ PlacesTypeOK /\ PlacesShared /\ \A v \in PlaceWorker : PlaceJobSound(v)
      /\ \A x \in Resident \ hurried : BookSound(x)
    BY DEF PlacesInv
<1>1. PICK u \in Resident, a \in Place \cup {Nowhere}, step \in {"insert", "save"} :
        /\ u = placeJob[w].user /\ a = placeJob[w].place
        /\ Undefault(u, a)
        /\ placeJob' = [placeJob EXCEPT ![w].step = step]
        /\ placeJob[w].step = IF step = "insert" THEN "create" ELSE "update"
        /\ step = "insert" => a = Nowhere
        /\ step = "save" => a \in Place
        /\ hurried' = hurried
    <2>1. placeJob[w] \in PlaceJob /\ PlaceJobSound(w)
        BY <1>0 DEF PlacesTypeOK
    <2>2. placeJob[w].step \in {"create", "update"}
        BY DEF CreateUndefault, UpdateUndefault, PlaceAt
    <2>3. placeJob[w].user \in Resident /\ placeJob[w].place \in Place \cup {Nowhere}
        BY <2>1, <2>2 DEF PlaceJobSound, PlaceJob
    <2>4. CASE CreateUndefault(w)
        BY <2>1, <2>3, <2>4 DEF CreateUndefault, PlaceAt, PlaceJobSound
    <2>5. CASE UpdateUndefault(w)
        BY <2>1, <2>3, <2>5 DEF UpdateUndefault, PlaceAt, PlaceJobSound
    <2>6. QED
        BY <2>4, <2>5
<1>2. /\ placeJob' \in [PlaceWorker -> PlaceJob]
      /\ \A v \in PlaceWorker \ {w} : placeJob'[v] = placeJob[v]
      /\ placeJob'[w].step = step /\ placeJob'[w].user = u
      /\ placeJob'[w].place = a
      /\ placeJob'[w].is_default = placeJob[w].is_default
    BY <1>0, <1>1, PlaceStepJob
<1>3. \A b \in Place :
        /\ place'[b] \in PlaceRow /\ place'[b].user = place[b].user
        /\ place'[b].is_default =>
             place[b].is_default /\ (place[b].user = u => b = a)
        /\ place[b].user # u => place'[b] = place[b]
    <2>1. ASSUME NEW b \in Place
          PROVE  LET row == [place[b] EXCEPT !.is_default = FALSE] IN
                 /\ place[b] \in PlaceRow /\ row \in PlaceRow
                 /\ row.user = place[b].user /\ ~row.is_default
        BY <1>0 DEF PlacesTypeOK, PlaceRow
    <2>2. ASSUME NEW b \in Place
          PROVE  place'[b] = IF b \in DefaultsOf(u) \ {a}
                             THEN [place[b] EXCEPT !.is_default = FALSE] ELSE place[b]
        BY <1>1 DEF Undefault
    <2>3. QED
        BY <2>1, <2>2 DEF DefaultsOf, PlacesOf
<1>4. PlacesTypeOK'
    <2>1. place' = [b \in Place |-> place'[b]]
        BY <1>1 DEF Undefault
    <2>2. QED
        BY <1>0, <1>1, <1>2, <1>3, <2>1 DEF PlacesTypeOK
<1>5. ASSUME NEW v \in PlaceWorker
      PROVE  PlaceJobSound(v)'
    <2>1. CASE v = w
        BY <1>0, <1>1, <1>2, <1>3, <2>1 DEF PlaceJobSound
    <2>2. CASE v # w
        BY <1>0, <1>2, <1>3, <2>2 DEF PlaceJobSound
    <2>3. QED
        BY <2>1, <2>2
<1>6. \A x \in Resident : PlacesOf(x)' = PlacesOf(x)
                          /\ DefaultsOf(x)' \subseteq DefaultsOf(x)
    BY <1>3 DEF PlacesOf, DefaultsOf
<1>7. ASSUME NEW x \in Resident \ hurried', x # u
      PROVE  BookSound(x)'
    <2>1. \A v \in PlaceWorker : placeJob'[v].user = x => placeJob'[v] = placeJob[v]
        BY <1>2, <1>7
    <2>2. QED
        BY <1>0, <1>1, <1>6, <2>1, FewerPlaces
<1>8. ASSUME u \notin hurried'
      PROVE  BookSound(u)'
    <2>1. BookSound(u) /\ RoomFor(w, u)
        BY <1>0, <1>1, <1>8 DEF BookSound
    <2>2. \A v \in PlaceWorker : placeJob'[v].user = u => v = w
        BY <1>1, <1>2, <2>1 DEF BookSound
    <2>3. DefaultsOf(u)' \subseteq {a}
        BY <1>3 DEF DefaultsOf, PlacesOf
    <2>4. step = "insert" => DefaultsOf(u)' = {}
        BY <1>1, <2>3 DEF DefaultsOf, PlacesOf
    <2>5. RoomFor(w, u)'
        BY <1>1, <1>2, <1>6, <2>1, <2>3, <2>4 DEF RoomFor
    <2>6. Fits(PlacesOf(u))' /\ \A b, c \in DefaultsOf(u)' : b = c
        BY <1>6, <2>1 DEF BookSound
    <2>7. QED
        BY <2>2, <2>5, <2>6 DEF BookSound
<1>9. PlacesShared'
    BY <1>0, <1>1, <1>2 DEF PlacesShared
<1>10. QED
    BY <1>4, <1>5, <1>7, <1>8, <1>9 DEF PlacesInv

(* An address is stored: a new one, or one that is updated and may have    *)
(* been deleted.                                                           *)
Stores(w, u, a, row) ==
    /\ place' = [place EXCEPT ![a] = row]
    /\ PlaceReturn(w)
    /\ hurried' = hurried
    /\ u = placeJob[w].user
    /\ row.user = u
    /\ place[a].user \in {u, Nowhere}
    /\ \A v \in PlaceWorker \ {w} : placeJob[v].place = a => placeJob[v].user = u
    /\ u \notin hurried =>
          /\ Fits(PlacesOf(u) \cup {a})
          /\ row.is_default => DefaultsOf(u) \subseteq {a}

LEMMA PlaceStored ==
    ASSUME PlacesInv, NEW w \in PlaceWorker, NEW u \in Resident, NEW a \in Place,
           NEW row \in PlaceRow, Stores(w, u, a, row)
    PROVE  PlacesInv'
<1>0. /\ PlacesTypeOK /\ PlacesShared /\ \A v \in PlaceWorker : PlaceJobSound(v)
      /\ \A x \in Resident \ hurried : BookSound(x)
    BY DEF PlacesInv
<1>stored.
      /\ place' = [place EXCEPT ![a] = row] /\ PlaceReturn(w) /\ hurried' = hurried
      /\ u = placeJob[w].user /\ row.user = u /\ place[a].user \in {u, Nowhere}
      /\ \A v \in PlaceWorker \ {w} : placeJob[v].place = a => placeJob[v].user = u
      /\ u \notin hurried =>
            /\ Fits(PlacesOf(u) \cup {a})
            /\ row.is_default => DefaultsOf(u) \subseteq {a}
    BY DEF Stores
<1>1. /\ placeJob' \in [PlaceWorker -> PlaceJob]
      /\ \A v \in PlaceWorker \ {w} : placeJob'[v] = placeJob[v]
      /\ placeJob'[w].step = "idle" /\ placeJob'[w].user = Nowhere
      /\ placeJob'[w].place = Nowhere
    BY <1>stored, <1>0, PlaceReturnJob
<1>2. /\ place' \in [Place -> PlaceRow]
      /\ \A b \in Place \ {a} : place'[b] = place[b]
      /\ place'[a] = row
    BY <1>stored, <1>0 DEF PlacesTypeOK
<1>3. PlacesTypeOK'
    BY <1>stored, <1>0, <1>1, <1>2 DEF PlacesTypeOK
<1>4. ASSUME NEW v \in PlaceWorker
      PROVE  PlaceJobSound(v)'
    <2>1. CASE v = w
        BY <1>stored, <1>1, <2>1 DEF PlaceJobSound
    <2>2. CASE v # w
        BY <1>stored, <1>0, <1>1, <1>2, <2>2 DEF PlaceJobSound
    <2>3. QED
        BY <2>1, <2>2
<1>5. ASSUME NEW x \in Resident \ hurried', x # u
      PROVE  BookSound(x)'
    <2>1. PlacesOf(x)' = PlacesOf(x) /\ DefaultsOf(x)' = DefaultsOf(x)
        BY <1>stored, <1>2, <1>5, SamePlaces
    <2>2. \A v \in PlaceWorker : placeJob'[v].user = x => placeJob'[v] = placeJob[v]
        BY <1>stored, <1>1, <1>5
    <2>3. QED
        BY <1>stored, <1>0, <2>1, <2>2, FewerPlaces
<1>6. ASSUME u \notin hurried'
      PROVE  BookSound(u)'
    <2>1. BookSound(u)
        BY <1>stored, <1>0, <1>6
    <2>2. PlacesOf(u)' = PlacesOf(u) \cup {a}
        BY <1>stored, <1>2 DEF PlacesOf
    <2>3. DefaultsOf(u)' \subseteq DefaultsOf(u) \cup {a}
          /\ (a \in DefaultsOf(u)' => row.is_default)
        BY <1>stored, <1>2 DEF PlacesOf, DefaultsOf
    <2>4. \A b, c \in DefaultsOf(u)' : b = c
        <3>1. CASE a \in DefaultsOf(u)'
            BY <1>stored, <1>6, <2>3, <3>1
        <3>2. CASE a \notin DefaultsOf(u)'
            BY <2>1, <2>3, <3>2 DEF BookSound
        <3>3. QED
            BY <3>1, <3>2
    <2>5. \A v \in PlaceWorker : placeJob'[v].user # u
        BY <1>stored, <1>1, <2>1 DEF BookSound
    <2>6. Fits(PlacesOf(u)')
        BY <1>stored, <1>6, <2>2
    <2>7. QED
        BY <2>4, <2>5, <2>6 DEF BookSound, Fits
<1>7. PlacesShared'
    BY <1>0, <1>1 DEF PlacesShared
<1>8. QED
    BY <1>3, <1>4, <1>5, <1>6, <1>7 DEF PlacesInv

LEMMA CreateInsertInv ==
    ASSUME PlacesInv, NEW w \in PlaceWorker, NEW a \in Place, CreateInsert(w, a)
    PROVE  PlacesInv'
<1>0. /\ PlacesTypeOK /\ PlacesShared /\ \A v \in PlaceWorker : PlaceJobSound(v)
      /\ \A x \in Resident \ hurried : BookSound(x)
    BY DEF PlacesInv
<1>1. /\ placeJob[w] \in PlaceJob /\ PlaceJobSound(w)
      /\ placeJob[w].step = "insert"
    BY <1>0 DEF CreateInsert, PlaceAt, PlacesTypeOK
<1>2. PICK u \in Resident : u = placeJob[w].user
    BY <1>1 DEF PlaceJobSound, PlaceJob
<1>3. PICK f \in BOOLEAN : f = placeJob[w].is_default
    BY <1>1 DEF PlaceJob
<1> DEFINE row == [user |-> u, is_default |-> f, booked |-> FALSE]
<1>4. row \in PlaceRow /\ row.user = u /\ row.is_default = f
    BY DEF PlaceRow
<1>5. /\ place' = [place EXCEPT ![a] = row]
      /\ PlaceReturn(w) /\ hurried' = hurried
      /\ place[a].user = Nowhere
      /\ \A v \in PlaceWorker : placeJob[v].place # a
    BY <1>2, <1>3 DEF CreateInsert
<1>6. ASSUME u \notin hurried
      PROVE  /\ Fits(PlacesOf(u) \cup {a})
             /\ f => DefaultsOf(u) \subseteq {a}
    <2>1. BookSound(u) /\ RoomFor(w, u)
        BY <1>0, <1>2, <1>6 DEF BookSound
    <2>2. Cardinality(PlacesOf(u)) < MaxPlaces /\ (f => DefaultsOf(u) = {})
        BY <1>1, <1>3, <2>1 DEF RoomFor
    <2>3. QED
        BY <2>1, <2>2, FitsAdd DEF BookSound
<1> HIDE DEF row
<1>7. Stores(w, u, a, row)
    BY <1>2, <1>4, <1>5, <1>6 DEF Stores
<1>8. QED
    BY <1>4, <1>7, PlaceStored

LEMMA UpdateSaveInv ==
    ASSUME PlacesInv, NEW w \in PlaceWorker, UpdateSave(w)
    PROVE  PlacesInv'
<1>0. /\ PlacesTypeOK /\ PlacesShared /\ \A v \in PlaceWorker : PlaceJobSound(v)
      /\ \A x \in Resident \ hurried : BookSound(x)
    BY DEF PlacesInv
<1>1. /\ placeJob[w] \in PlaceJob /\ PlaceJobSound(w)
      /\ placeJob[w].step = "save"
    BY <1>0 DEF UpdateSave, PlaceAt, PlacesTypeOK
<1>2. PICK u \in Resident, a \in Place, f \in BOOLEAN :
        /\ u = placeJob[w].user /\ a = placeJob[w].place
        /\ f = placeJob[w].is_default
        /\ place[a].user \in {u, Nowhere}
    BY <1>1 DEF PlaceJobSound, PlaceJob
<1> DEFINE row1 == [place[a] EXCEPT !.user = u]
           row == [row1 EXCEPT !.is_default = f]
<1>3. row1 \in PlaceRow /\ row1.user = u
    BY <1>0 DEF PlacesTypeOK, PlaceRow
<1>4. /\ place' = [place EXCEPT ![a].user = u, ![a].is_default = f]
      /\ PlaceReturn(w) /\ hurried' = hurried
    BY <1>2 DEF UpdateSave
<1>5. place' = [place EXCEPT ![a] = row]
    BY <1>0, <1>4 DEF PlacesTypeOK, PlaceRow
<1> HIDE DEF row1
<1>6. row \in PlaceRow /\ row.user = u /\ row.is_default = f
    BY <1>3 DEF PlaceRow
<1>7. \A v \in PlaceWorker \ {w} : placeJob[v].place = a => placeJob[v].user = u
    BY <1>0, <1>2 DEF PlacesShared
<1>8. ASSUME u \notin hurried
      PROVE  /\ Fits(PlacesOf(u) \cup {a})
             /\ f => DefaultsOf(u) \subseteq {a}
    <2>1. RoomFor(w, u)
        BY <1>0, <1>2, <1>8 DEF BookSound
    <2>2. QED
        BY <1>1, <1>2, <2>1 DEF RoomFor
<1> HIDE DEF row
<1>9. PICK r \in PlaceRow : r = row
    BY <1>6
<1>10. Stores(w, u, a, r)
    <2>1. /\ r.user = u
          /\ u \notin hurried =>
                /\ Fits(PlacesOf(u) \cup {a})
                /\ r.is_default => DefaultsOf(u) \subseteq {a}
        BY <1>6, <1>8, <1>9
    <2>2. place' = [place EXCEPT ![a] = r]
        BY <1>5, <1>9
    <2>3. PlaceReturn(w) /\ hurried' = hurried
        BY <1>4
    <2>4. u = placeJob[w].user /\ place[a].user \in {u, Nowhere}
        BY <1>2
    <2>5. QED
        BY <1>7, <2>1, <2>2, <2>3, <2>4 DEF Stores
<1>11. QED
    BY <1>10, PlaceStored

LEMMA PlaceAbortInv ==
    ASSUME PlacesInv, NEW w \in PlaceWorker, PlaceAbort(w)
    PROVE  PlacesInv'
<1>0. /\ PlacesTypeOK /\ PlacesShared /\ \A v \in PlaceWorker : PlaceJobSound(v)
      /\ \A x \in Resident \ hurried : BookSound(x)
    BY DEF PlacesInv
<1>1. /\ placeJob' \in [PlaceWorker -> PlaceJob]
      /\ \A v \in PlaceWorker \ {w} : placeJob'[v] = placeJob[v]
      /\ placeJob'[w].step = "idle" /\ placeJob'[w].user = Nowhere
      /\ placeJob'[w].place = Nowhere
      /\ place' = place /\ hurried' = hurried
    BY <1>0, PlaceReturnJob DEF PlaceAbort
<1>2. PlacesTypeOK' /\ PlacesShared'
    BY <1>0, <1>1 DEF PlacesTypeOK, PlacesShared
<1>3. ASSUME NEW v \in PlaceWorker
      PROVE  PlaceJobSound(v)'
    BY <1>0, <1>1 DEF PlaceJobSound
<1>4. ASSUME NEW x \in Resident \ hurried'
      PROVE  BookSound(x)'
    <2>1. PlacesOf(x)' = PlacesOf(x) /\ DefaultsOf(x)' = DefaultsOf(x)
        BY <1>1, SamePlaces
    <2>2. \A v \in PlaceWorker : placeJob'[v].user = x => placeJob'[v] = placeJob[v]
        BY <1>1, PlaceAssumption
    <2>3. QED
        BY <1>0, <1>1, <2>1, <2>2, FewerPlaces
<1>5. QED
    BY <1>2, <1>3, <1>4 DEF PlacesInv

(* An address is deleted or booked: no request is touched, and no user has *)
(* more addresses or defaults than before.                                 *)
LEMMA PlaceGivenUpInv ==
    ASSUME PlacesInv, NEW a \in Place, DeletePlace(a) \/ BookPlace(a)
    PROVE  PlacesInv'
<1>0. /\ PlacesTypeOK /\ PlacesShared /\ \A v \in PlaceWorker : PlaceJobSound(v)
      /\ \A x \in Resident \ hurried : BookSound(x)
    BY DEF PlacesInv
<1>1. PICK row \in PlaceRow :
        /\ place' = [place EXCEPT ![a] = row]
        /\ row.user \in {place[a].user, Nowhere}
        /\ row.user # Nowhere => row.is_default = place[a].is_default
    <2>1. CASE DeletePlace(a)
        <3>1. NoPlace \in PlaceRow /\ NoPlace.user = Nowhere
            BY DEF NoPlace, PlaceRow
        <3>2. QED
            BY <2>1, <3>1 DEF DeletePlace
    <2>2. CASE BookPlace(a)
        <3> DEFINE row == [place[a] EXCEPT !.booked = TRUE]
        <3>1. /\ row \in PlaceRow /\ row.user = place[a].user
              /\ row.is_default = place[a].is_default
            BY <1>0 DEF PlacesTypeOK, PlaceRow
        <3>2. place' = [place EXCEPT ![a] = row]
            BY <1>0, <2>2 DEF BookPlace, PlacesTypeOK
        <3> HIDE DEF row
        <3>3. QED
            BY <3>1, <3>2
    <2>3. QED
        BY <2>1, <2>2
<1>2. /\ place' \in [Place -> PlaceRow]
      /\ \A b \in Place \ {a} : place'[b] = place[b]
      /\ place'[a] = row
    BY <1>0, <1>1 DEF PlacesTypeOK
<1>3. placeJob' = placeJob /\ hurried' = hurried
    BY DEF DeletePlace, BookPlace
<1>4. PlacesTypeOK' /\ PlacesShared'
    BY <1>0, <1>2, <1>3 DEF PlacesTypeOK, PlacesShared
<1>5. ASSUME NEW v \in PlaceWorker
      PROVE  PlaceJobSound(v)'
    BY <1>0, <1>1, <1>2, <1>3 DEF PlaceJobSound
<1>6. ASSUME NEW x \in Resident \ hurried'
      PROVE  BookSound(x)'
    <2>1. PlacesOf(x)' \subseteq PlacesOf(x) /\ DefaultsOf(x)' \subseteq DefaultsOf(x)
        BY <1>1, <1>2, PlaceAssumption DEF PlacesOf, DefaultsOf
    <2>2. QED
        BY <1>0, <1>3, <2>1, FewerPlaces
<1>7. QED
    BY <1>4, <1>5, <1>6 DEF PlacesInv

LEMMA PlacesNextInv == PlacesInv /\ [PlacesNext]_placeVars => PlacesInv'
<1>1. SUFFICES ASSUME PlacesInv, [PlacesNext]_placeVars
               PROVE  PlacesInv'
    OBVIOUS
<1>2. CASE UNCHANGED placeVars
    <2>1. /\ place' = place /\ placeJob' = placeJob /\ hurried' = hurried
          /\ PlacesTypeOK /\ PlacesShared /\ \A v \in PlaceWorker : PlaceJobSound(v)
          /\ \A x \in Resident \ hurried : BookSound(x)
        BY <1>1, <1>2 DEF placeVars, PlacesInv
    <2>2. PlacesTypeOK' /\ PlacesShared' /\ \A v \in PlaceWorker : PlaceJobSound(v)'
        BY <2>1 DEF PlacesTypeOK, PlacesShared, PlaceJobSound
    <2>3. \A x \in Resident \ hurried' : BookSound(x)'
        BY <2>1, FewerPlaces, SamePlaces
    <2>4. QED
        BY <2>2, <2>3 DEF PlacesInv
<1>3. CASE PlacesNext
    BY <1>1, <1>3, PlaceBeginInv, UndefaultInv, CreateInsertInv, UpdateSaveInv,
       PlaceAbortInv, PlaceGivenUpInv DEF PlacesNext
<1>4. QED
    BY <1>1, <1>2, <1>3

LEMMA PlacesAlwaysInv == PlacesSpec => []PlacesInv
BY PlacesInitInv, PlacesNextInv, PTL DEF PlacesSpec

-------------------------------------------------------------------------------
(* Theorems.                                                               *)

(* Every address and every request in flight is well-formed.               *)
THEOREM PlacesTypeCorrect == PlacesSpec => []PlacesTypeOK
<1>1. PlacesInv => PlacesTypeOK
    BY DEF PlacesInv
<1>2. QED
    BY <1>1, PlacesAlwaysInv, PTL

(* A user who sends one request at a time never has more addresses than    *)
(* the limit, nor two defaults: the count and the unsetting of the default *)
(* by CreateUserAddressAPIView and AddressSerializer hold up against       *)
(* deletions, bookings and requests given up half-way.                     *)
THEOREM AddressesInOrderCorrect == PlacesSpec => []AddressesInOrder
<1>1. PlacesInv => AddressesInOrder
    <2>1. SUFFICES ASSUME PlacesInv, NEW u \in Resident \ hurried
                   PROVE  /\ Cardinality(PlacesOf(u)) <= MaxPlaces
                          /\ Cardinality(DefaultsOf(u)) <= 1
        BY DEF AddressesInOrder
    <2>2. BookSound(u)
        BY <2>1 DEF PlacesInv
    <2>3. DefaultsOf(u) = {} \/ \E b : DefaultsOf(u) = {b}
        BY <2>2 DEF BookSound
    <2>4. Cardinality(DefaultsOf(u)) <= 1
        BY <2>3, FS_EmptySet, FS_Singleton
    <2>5. QED
        BY <2>2, <2>4 DEF BookSound, Fits
<1>2. QED
    BY <1>1, PlacesAlwaysInv, PTL

HIDE PlaceAssumption

-------------------------------------------------------------------------------
(* The instance.  Its components share no variable, so each keeps its own  *)
(* invariant, in its own steps and in those of the others.                 *)
AccountsInv ==
    /\ UsableInv
    /\ RegistrationInv
    /\ ProfileInv
    /\ PlacesInv
    /\ TalksInv

LEMMA AccountsStep ==
    [Next]_vars => /\ [CodesNext]_codeVars
                   /\ [RegistrationNext]_formVars
                   /\ [ProfileNext]_profileVars
                   /\ [PlacesNext]_placeVars
                   /\ [TalksNext]_talkVars
<1>1. ASSUME UNCHANGED vars
      PROVE  UNCHANGED codeVars /\ UNCHANGED formVars /\ UNCHANGED profileVars
                /\ UNCHANGED placeVars /\ UNCHANGED talkVars
    BY <1>1, Zenon DEF vars
<1>2. ASSUME Next
      PROVE  /\ [CodesNext]_codeVars
             /\ [RegistrationNext]_formVars
             /\ [ProfileNext]_profileVars
             /\ [PlacesNext]_placeVars
             /\ [TalksNext]_talkVars
    BY <1>2, Zenon DEF Next
<1>3. QED
    BY <1>1, <1>2, Zenon

(* Whatever component runs, its rows and its requests in flight are what   *)
(* the code can make of them, for all values of the constants.             *)
THEOREM AccountsTypeCorrect == Spec => []TypeOK
<1>1. Init => AccountsInv
    BY UsableInitInv, RegistrationInitInv, ProfileInitInv, PlacesInitInv, TalksInitInv
       DEF Init, AccountsInv
<1>2. AccountsInv /\ [Next]_vars => AccountsInv'
    BY AccountsStep, UsableNextInv, RegistrationNextInv, ProfileNextInv, PlacesNextInv,
       TalksNextInv
       DEF AccountsInv
<1>3. AccountsInv => TypeOK
    BY DEF AccountsInv, TypeOK, UsableInv, CodesInv, RegistrationInv, ProfileInv, PlacesInv,
           TalksInv
<1>4. QED
    BY <1>1, <1>2, <1>3, PTL DEF Spec
===============================================================================
