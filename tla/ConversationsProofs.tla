-------------------------- MODULE ConversationsProofs --------------------------
(***************************************************************************)
(* What Conversations guarantees for any number of calls, messages and     *)
(* concurrent requests.                                                    *)
(*                                                                         *)
(* A call is always of one piece because every save writes a whole row,    *)
(* and the row that was read was whole and allowed what is saved.  Of a    *)
(* call or message that only one request at a time worked on, the row that *)
(* request read is still the row stored, and what the clients heard of it  *)
(* is what was saved before: the worker that saved still has to tell it,   *)
(* or was killed, before the next request begins.                          *)
(***************************************************************************)
EXTENDS Conversations, FiniteSetTheorems, TLAPS

USE TalkAssumption

-------------------------------------------------------------------------------
(* The inductive invariant.                                                *)

Busy(w) == talkJob[w].step # "idle"
Saving(w) == talkJob[w].step = "save"
Telling(w) == talkJob[w].step = "tell"

CallOp == Outcome \cup {"patch"}
MessageOp == {"edit", "delete", "read"}

(* What a request is about, and the row it read.                           *)
TalkJobSound(w) ==
    LET j == talkJob[w] IN
    /\ Saving(w) =>
         \/ j.op \in {"close", "archive", "initiate"} /\ j.on = Talk
         \/ /\ j.op \in CallOp /\ j.on \in Call
            /\ j.row \in CallRow /\ Whole(j.row)
            /\ j.op \in Outcome => Allowed(j.op, j.row)
         \/ /\ j.op \in MessageOp /\ j.on \in Message
            /\ j.row \in MessageRow /\ j.row.sent
    /\ Telling(w) =>
         \/ j.op \in Outcome \cup {"incoming"} /\ j.on \in Call
         \/ j.op \in {"created", "updated", "deleted"} /\ j.on \in Message

(* One request at a time works on what is not among the crossed.           *)
Alone(x) ==
    \A w, v \in TalkWorker :
        Busy(w) /\ talkJob[w].on = x /\ Busy(v) /\ talkJob[v].on = x => w = v

(* A conversation is closed and archived at most by two requests at a time.*)
TalkSound ==
    /\ talk.status \in {"ABSENT", "ACTIVE"} => ~talk.closed /\ ~talk.archived
    /\ Talk \notin crossed =>
         /\ ~(talk.closed /\ talk.archived)
         /\ Alone(Talk)
         /\ \A w \in TalkWorker :
               Saving(w) /\ talkJob[w].on = Talk => talk.status = "ACTIVE"

(* What a call has come to, as far as its clients have heard.              *)
HeardOf(c) ==
    \/ heard[c] \subseteq {"incoming", "accept", "end"}
    \/ heard[c] \subseteq {"incoming", "reject"}
    \/ heard[c] \subseteq {"incoming", "cancel"}

HeardSoFar(c) ==
    CASE call[c].status = "INITIATED" -> heard[c] \subseteq {"incoming"}
      [] call[c].status = "ACCEPTED" -> heard[c] \subseteq {"incoming", "accept"}
      [] call[c].status = "REJECTED" -> heard[c] \subseteq {"incoming", "reject"}
      [] call[c].status = "CANCELLED" -> heard[c] \subseteq {"incoming", "cancel"}
      [] call[c].status = "ENDED" -> heard[c] \subseteq {"incoming", "accept", "end"}
      [] OTHER -> TRUE

CallAlone(c) ==
    /\ Alone(c)
    /\ HeardOf(c)
    /\ HeardSoFar(c)
    /\ "end" \in heard[c] => "accept" \in heard[c] \/ c \in untold
    /\ call[c].status = "ENDED" => "accept" \in heard[c] \/ c \in untold
    /\ call[c].status = "ABSENT" => ~TalkBusy(c)
    /\ \/ call[c].status = "ABSENT" \/ c \in untold \/ Told(call[c]) \in heard[c]
       \/ \E w \in TalkWorker : /\ Telling(w) /\ talkJob[w].on = c
                                /\ talkJob[w].op = Told(call[c])
    /\ \A w \in TalkWorker : talkJob[w].on = c =>
          /\ Saving(w) => /\ talkJob[w].row = call[c]
                          /\ c \in untold \/ Told(call[c]) \in heard[c]
          /\ Telling(w) => talkJob[w].op = Told(call[c])

MessageAlone(m) ==
    /\ Alone(m)
    /\ TalkBusy(m) => message[m].sent
    /\ "deleted" \in heard[m] => message[m].deleted
    /\ \A w \in TalkWorker : talkJob[w].on = m =>
          /\ Saving(w) /\ talkJob[w].op = "edit" =>
                talkJob[w].row.deleted = message[m].deleted
          /\ Telling(w) /\ talkJob[w].op = "deleted" => message[m].deleted

TalksInv ==
    /\ TalksTypeOK
    /\ \A w \in TalkWorker : TalkJobSound(w)
    /\ TalkSound
    /\ \A c \in Call : Whole(call[c])
    /\ \A c \in Call \ crossed : CallAlone(c)
    /\ \A m \in Message \ crossed : MessageAlone(m)

-------------------------------------------------------------------------------
(* What each kind of step does to the requests in flight.                  *)

JobType == talkJob \in [TalkWorker -> TalkJob]

LEMMA ReadJob ==
    ASSUME JobType, NEW w \in TalkWorker,
           NEW op \in Event \cup {"none", "close", "archive", "initiate", "patch",
                                  "edit", "delete", "read"},
           NEW x \in Topic \cup {Talk},
           NEW row \in TalkRow \cup CallRow \cup MessageRow,
           TalkRead(w, op, x, row)
    PROVE  /\ JobType'
           /\ \A v \in TalkWorker \ {w} : talkJob'[v] = talkJob[v]
           /\ talkJob[w].step = "idle"
           /\ talkJob'[w].step = "save" /\ talkJob'[w].op = op
           /\ talkJob'[w].on = x /\ talkJob'[w].row = row
           /\ \A y : y \in crossed => y \in crossed'
           /\ \A y : y \in crossed' /\ y # x => y \in crossed
           /\ x \notin crossed' => \A v \in TalkWorker : ~(Busy(v) /\ talkJob[v].on = x)
           /\ UNCHANGED <<talk, call, message, heard, untold>>
<1> DEFINE j == [step |-> "save", op |-> op, on |-> x, row |-> row]
<1>1. j \in TalkJob
    BY DEF TalkJob
<1>2. talkJob' = [talkJob EXCEPT ![w] = j]
    BY DEF TalkRead
<1> HIDE DEF j
<1>3. /\ talkJob' \in [TalkWorker -> TalkJob]
      /\ \A v \in TalkWorker \ {w} : talkJob'[v] = talkJob[v]
      /\ talkJob'[w] = j
    BY <1>1, <1>2 DEF JobType
<1>4. j.step = "save" /\ j.op = op /\ j.on = x /\ j.row = row
    BY DEF j
<1>5. QED
    BY <1>3, <1>4 DEF TalkRead, TalkBusy, Busy, talkRows, JobType

LEMMA ReturnJob ==
    ASSUME JobType, NEW w \in TalkWorker, talkJob' = [talkJob EXCEPT ![w] = TalkIdle]
    PROVE  /\ JobType'
           /\ \A v \in TalkWorker \ {w} : talkJob'[v] = talkJob[v]
           /\ talkJob'[w].step = "idle" /\ talkJob'[w].on = Talk
<1>1. NoTalk \in TalkRow
    BY DEF NoTalk, TalkRow
<1>2. TalkIdle \in TalkJob /\ TalkIdle.step = "idle" /\ TalkIdle.on = Talk
    BY <1>1 DEF TalkIdle, TalkJob
<1>3. QED
    BY <1>2 DEF JobType

LEMMA TellJob ==
    ASSUME JobType, NEW w \in TalkWorker, NEW x \in Topic, NEW event \in Event,
           ThenTell(w, x, event)
    PROVE  /\ JobType'
           /\ \A v \in TalkWorker \ {w} : talkJob'[v] = talkJob[v]
           /\ talkJob'[w].step = "tell" /\ talkJob'[w].op = event
           /\ talkJob'[w].on = x
           /\ UNCHANGED <<heard, crossed, untold>>
<1>1. PICK row : talkJob[w].row = row /\ row \in TalkRow \cup CallRow \cup MessageRow
    BY DEF JobType, TalkJob
<1> DEFINE j == [step |-> "tell", op |-> event, on |-> x, row |-> row]
<1>2. j \in TalkJob
    BY <1>1 DEF TalkJob
<1>3. talkJob' = [talkJob EXCEPT ![w] = j]
    <2> DEFINE old == talkJob[w]
    <2>1. old \in TalkJob
        BY DEF JobType
    <2>2. talkJob' = [talkJob EXCEPT ![w] =
              [old EXCEPT !.step = "tell", !.op = event, !.on = x]]
        BY DEF ThenTell, JobType
    <2>3. [old EXCEPT !.step = "tell", !.op = event, !.on = x] = j
        <3> DEFINE old1 == [old EXCEPT !.step = "tell"]
                   old2 == [old1 EXCEPT !.op = event]
        <3> HIDE DEF old
        <3>1. old1 = [step |-> "tell", op |-> old.op, on |-> old.on, row |-> old.row]
            BY <2>1 DEF TalkJob
        <3>2. [old EXCEPT !.step = "tell", !.op = event, !.on = x]
                = [old2 EXCEPT !.on = x]
            BY <2>1 DEF TalkJob
        <3> HIDE DEF old1
        <3>3. old2 = [step |-> "tell", op |-> event, on |-> old.on, row |-> old.row]
            BY <3>1
        <3> HIDE DEF old2
        <3>4. [old2 EXCEPT !.on = x] = j
            BY <3>3, <1>1 DEF old
        <3>5. QED
            BY <3>2, <3>4
    <2>4. QED
        BY <2>2, <2>3
<1>4. j.step = "tell" /\ j.op = event /\ j.on = x
    OBVIOUS
<1> HIDE DEF j
<1>5. QED
    BY ZenonT(40), <1>2, <1>3, <1>4 DEF JobType, ThenTell

-------------------------------------------------------------------------------
(* What a step does not touch.                                             *)

Unmoved(x) ==
    \A v \in TalkWorker :
        \/ Busy(v) /\ talkJob[v].on = x
        \/ talkJob'[v].step # "idle" /\ talkJob'[v].on = x
        => talkJob'[v] = talkJob[v]

LEMMA UnmovedByOther ==
    ASSUME NEW w \in TalkWorker, NEW x,
           \A v \in TalkWorker \ {w} : talkJob'[v] = talkJob[v],
           ~Busy(w) \/ talkJob[w].on # x,
           talkJob'[w].step = "idle" \/ talkJob'[w].on # x
    PROVE  Unmoved(x)
BY DEF Unmoved, Busy

LEMMA CallFrame ==
    ASSUME NEW c \in Call, CallAlone(c), Unmoved(c), call'[c] = call[c],
           heard'[c] = heard[c], c \in untold => c \in untold'
    PROVE  CallAlone(c)'
<1>1. \A v \in TalkWorker :
        Busy(v) /\ talkJob[v].on = c <=> Busy(v)' /\ talkJob'[v].on = c
    BY DEF Unmoved, Busy
<1>2. \A v \in TalkWorker : Busy(v)' /\ talkJob'[v].on = c => talkJob'[v] = talkJob[v]
    BY DEF Unmoved, Busy
<1>3. Alone(c)'
    BY <1>1 DEF CallAlone, Alone
<1>4. HeardOf(c)' /\ HeardSoFar(c)'
    BY DEF CallAlone, HeardOf, HeardSoFar
<1>5. TalkBusy(c)' <=> TalkBusy(c)
    BY <1>1 DEF TalkBusy, Busy
<1>6. \/ call'[c].status = "ABSENT" \/ c \in untold' \/ Told(call'[c]) \in heard'[c]
      \/ \E v \in TalkWorker : /\ Telling(v)' /\ talkJob'[v].on = c
                               /\ talkJob'[v].op = Told(call'[c])
    <2>1. CASE \E v \in TalkWorker : /\ Telling(v) /\ talkJob[v].on = c
                                     /\ talkJob[v].op = Told(call[c])
        BY <2>1 DEF Unmoved, Busy, Telling
    <2>2. CASE call[c].status = "ABSENT" \/ c \in untold \/ Told(call[c]) \in heard[c]
        BY <2>2
    <2>3. QED
        BY <2>1, <2>2 DEF CallAlone
<1>7. ASSUME NEW v \in TalkWorker, talkJob'[v].on = c
      PROVE  /\ Saving(v)' => /\ talkJob'[v].row = call'[c]
                              /\ c \in untold' \/ Told(call'[c]) \in heard'[c]
             /\ Telling(v)' => talkJob'[v].op = Told(call'[c])
    BY <1>2, <1>7 DEF CallAlone, Saving, Telling, Busy
<1>8. QED
    BY <1>3, <1>4, <1>5, <1>6, <1>7 DEF CallAlone

LEMMA MessageFrame ==
    ASSUME NEW m \in Message, MessageAlone(m), Unmoved(m),
           message'[m].sent = message[m].sent,
           message'[m].deleted = message[m].deleted, heard'[m] = heard[m]
    PROVE  MessageAlone(m)'
<1>1. \A v \in TalkWorker :
        Busy(v) /\ talkJob[v].on = m <=> Busy(v)' /\ talkJob'[v].on = m
    BY DEF Unmoved, Busy
<1>2. \A v \in TalkWorker : Busy(v)' /\ talkJob'[v].on = m => talkJob'[v] = talkJob[v]
    BY DEF Unmoved, Busy
<1>3. Alone(m)'
    BY <1>1 DEF MessageAlone, Alone
<1>4. TalkBusy(m)' <=> TalkBusy(m)
    BY <1>1 DEF TalkBusy, Busy
<1>5. ASSUME NEW v \in TalkWorker, talkJob'[v].on = m
      PROVE  /\ Saving(v)' /\ talkJob'[v].op = "edit" =>
                  talkJob'[v].row.deleted = message'[m].deleted
             /\ Telling(v)' /\ talkJob'[v].op = "deleted" => message'[m].deleted
    BY <1>2, <1>5 DEF MessageAlone, Saving, Telling, Busy
<1>6. QED
    BY <1>3, <1>4, <1>5 DEF MessageAlone

LEMMA TalkFrame ==
    ASSUME TalkSound, talk' = talk, Talk \in crossed => Talk \in crossed',
           Talk \notin crossed' =>
             \A v \in TalkWorker : Busy(v)' /\ talkJob'[v].on = Talk =>
                 /\ Busy(v) /\ talkJob[v].on = Talk
                 /\ Saving(v)' => Saving(v)
    PROVE  TalkSound'
<1>1. CASE Talk \in crossed'
    BY <1>1 DEF TalkSound
<1>2. CASE Talk \notin crossed'
    <2>1. Alone(Talk)'
        BY <1>2 DEF TalkSound, Alone
    <2>2. ASSUME NEW v \in TalkWorker, Saving(v)', talkJob'[v].on = Talk
          PROVE  talk'.status = "ACTIVE"
        BY <1>2, <2>2 DEF TalkSound, Busy, Saving
    <2>3. QED
        BY <1>2, <2>1, <2>2 DEF TalkSound
<1>3. QED
    BY <1>1, <1>2

(* The request of one worker changes; those of the others are as sound as  *)
(* they were.                                                              *)
LEMMA JobsFrame ==
    ASSUME NEW w \in TalkWorker, \A v \in TalkWorker : TalkJobSound(v),
           \A v \in TalkWorker \ {w} : talkJob'[v] = talkJob[v],
           talkJob'[w].step # "idle" => TalkJobSound(w)'
    PROVE  \A v \in TalkWorker : TalkJobSound(v)'
<1>1. CASE talkJob'[w].step = "idle"
    BY <1>1 DEF TalkJobSound, Saving, Telling
<1>2. CASE talkJob'[w].step # "idle"
    <2>1. ASSUME NEW v \in TalkWorker \ {w}
          PROVE  TalkJobSound(v)'
        BY DEF TalkJobSound, Saving, Telling
    <2>2. QED
        BY <1>2, <2>1
<1>3. QED
    BY <1>1, <1>2

-------------------------------------------------------------------------------
(* The inductive invariant, one fact per action.                           *)

LEMMA TalksInitInv == TalksInit => TalksInv
<1>1. SUFFICES ASSUME TalksInit
               PROVE  TalksInv
    OBVIOUS
<1>2. NoTalk \in TalkRow /\ NoCall \in CallRow /\ NoMessage \in MessageRow
    BY DEF NoTalk, TalkRow, NoCall, CallRow, NoMessage, MessageRow
<1>3. TalkIdle \in TalkJob /\ TalkIdle.step = "idle"
    BY <1>2 DEF TalkIdle, TalkJob
<1>4. TalksTypeOK
    BY <1>1, <1>2, <1>3 DEF TalksInit, TalksTypeOK
<1>5. \A w \in TalkWorker : ~Busy(w) /\ ~Saving(w) /\ ~Telling(w)
    BY <1>1, <1>3 DEF TalksInit, Busy, Saving, Telling
<1>6. (\A w \in TalkWorker : TalkJobSound(w)) /\ TalkSound
    BY <1>1, <1>5 DEF TalksInit, TalkJobSound, TalkSound, Alone, NoTalk
<1>7. ASSUME NEW c \in Call
      PROVE  Whole(call[c]) /\ CallAlone(c)
    <2>1. call[c].status = "ABSENT" /\ ~call[c].answered /\ ~call[c].ended
        BY <1>1 DEF TalksInit, NoCall
    <2>2. heard[c] = {} /\ ~TalkBusy(c)
        BY <1>1, <1>5 DEF TalksInit, Topic, TalkBusy, Busy
    <2>3. QED
        BY <1>5, <2>1, <2>2 DEF Whole, CallAlone, Alone, HeardOf, HeardSoFar
<1>8. ASSUME NEW m \in Message
      PROVE  MessageAlone(m)
    BY <1>1, <1>5 DEF TalksInit, Topic, TalkBusy, Busy, MessageAlone, Alone
<1>9. QED
    BY <1>4, <1>6, <1>7, <1>8 DEF TalksInv

LEMMA OpenTalkInv ==
    ASSUME TalksInv, OpenTalk
    PROVE  TalksInv'
<1>0. /\ TalksTypeOK /\ JobType /\ TalkSound
      /\ \A v \in TalkWorker : TalkJobSound(v)
      /\ \A d \in Call : Whole(call[d])
      /\ \A d \in Call \ crossed : CallAlone(d)
      /\ \A n \in Message \ crossed : MessageAlone(n)
    BY DEF TalksInv, TalksTypeOK, JobType
<1>1. /\ talk.status = "ABSENT"
      /\ talk' \in TalkRow /\ talk'.status = "ACTIVE"
      /\ talk'.closed = talk.closed /\ talk'.archived = talk.archived
      /\ UNCHANGED <<call, message, talkJob, heard, crossed, untold>>
    BY <1>0 DEF OpenTalk, TalksTypeOK, TalkRow
<1>2. TalksTypeOK' /\ \A v \in TalkWorker : TalkJobSound(v)'
    BY <1>0, <1>1 DEF TalksTypeOK, TalkJobSound, Saving, Telling
<1>3. TalkSound'
    BY <1>0, <1>1 DEF TalkSound, Alone, Busy, Saving
<1>4. \A x : Unmoved(x)
    BY <1>1 DEF Unmoved
<1>5. /\ \A c \in Call \ crossed' : CallAlone(c)'
      /\ \A m \in Message \ crossed' : MessageAlone(m)'
    BY <1>0, <1>1, <1>4, CallFrame, MessageFrame
<1>6. QED
    BY <1>0, <1>1, <1>2, <1>3, <1>5 DEF TalksInv

(* A request about the conversation reads it.                              *)
LEMMA TalkReadInv ==
    ASSUME TalksInv, NEW w \in TalkWorker,
           CloseRead(w) \/ ArchiveRead(w) \/ InitiateRead(w)
    PROVE  TalksInv'
<1>0. /\ TalksTypeOK /\ JobType /\ TalkSound
      /\ \A v \in TalkWorker : TalkJobSound(v)
      /\ \A d \in Call : Whole(call[d])
      /\ \A d \in Call \ crossed : CallAlone(d)
      /\ \A n \in Message \ crossed : MessageAlone(n)
    BY DEF TalksInv, TalksTypeOK, JobType
<1>1. PICK op \in {"close", "archive", "initiate"} :
        talk.status = "ACTIVE" /\ TalkRead(w, op, Talk, talk)
    BY DEF CloseRead, ArchiveRead, InitiateRead
<1>2. /\ JobType'
      /\ \A v \in TalkWorker \ {w} : talkJob'[v] = talkJob[v]
      /\ talkJob[w].step = "idle"
      /\ talkJob'[w].step = "save" /\ talkJob'[w].op = op
      /\ talkJob'[w].on = Talk
      /\ \A y : y \in crossed => y \in crossed'
      /\ \A y : y \in crossed' /\ y # Talk => y \in crossed
      /\ Talk \notin crossed' => \A v \in TalkWorker : ~(Busy(v) /\ talkJob[v].on = Talk)
      /\ UNCHANGED <<talk, call, message, heard, untold>>
    BY <1>0, <1>1, ReadJob DEF TalksTypeOK
<1>3. TalksTypeOK'
    BY <1>0, <1>2 DEF TalksTypeOK, JobType
<1>4. \A v \in TalkWorker : TalkJobSound(v)'
    <2>1. TalkJobSound(w)'
        BY <1>2 DEF TalkJobSound, Saving, Telling
    <2>2. QED
        BY <1>0, <1>2, <2>1, JobsFrame
<1>5. TalkSound'
    <2>1. Talk \notin crossed' => Alone(Talk)'
        BY <1>2 DEF Alone, Busy
    <2>2. QED
        BY <1>0, <1>1, <1>2, <2>1 DEF TalkSound
<1>6. \A x \in Topic : Unmoved(x)
    BY <1>2, UnmovedByOther DEF Topic, Busy
<1>7. /\ \A c \in Call \ crossed' : CallAlone(c)'
      /\ \A m \in Message \ crossed' : MessageAlone(m)'
    BY <1>0, <1>2, <1>6, CallFrame, MessageFrame DEF Topic
<1>8. QED
    BY <1>0, <1>2, <1>3, <1>4, <1>5, <1>7 DEF TalksInv

(* A request about a call reads it.  If nobody else is at work on it, what *)
(* is stored has been told.                                                *)
LEMMA CallReadInv ==
    ASSUME TalksInv, NEW w \in TalkWorker, NEW c \in Call,
           PatchRead(w, c) \/ \E op \in Outcome : OutcomeRead(w, op, c)
    PROVE  TalksInv'
<1>0. /\ TalksTypeOK /\ JobType /\ TalkSound
      /\ \A v \in TalkWorker : TalkJobSound(v)
      /\ \A d \in Call : Whole(call[d])
      /\ \A d \in Call \ crossed : CallAlone(d)
      /\ \A n \in Message \ crossed : MessageAlone(n)
    BY DEF TalksInv, TalksTypeOK, JobType
<1>1. PICK op \in CallOp :
        /\ TalkRead(w, op, c, call[c])
        /\ call[c] \in CallRow /\ call[c].status # "ABSENT"
        /\ op \in Outcome => Allowed(op, call[c])
    <2>1. call[c] \in CallRow /\ Whole(call[c])
        BY <1>0 DEF TalksTypeOK
    <2>2. CASE PatchRead(w, c)
        <3>1. call[c].status # "ABSENT"
            BY <2>1, <2>2 DEF PatchRead, Whole, CallRow, NoCall
        <3>2. QED
            BY <2>1, <2>2, <3>1 DEF PatchRead, CallOp, Outcome
    <2>3. CASE \E op \in Outcome : OutcomeRead(w, op, c)
        BY <2>1, <2>3 DEF OutcomeRead, Allowed, CallOp
    <2>4. QED
        BY <2>2, <2>3
<1>2. /\ JobType'
      /\ \A v \in TalkWorker \ {w} : talkJob'[v] = talkJob[v]
      /\ talkJob[w].step = "idle"
      /\ talkJob'[w].step = "save" /\ talkJob'[w].op = op
      /\ talkJob'[w].on = c /\ talkJob'[w].row = call[c]
      /\ \A y : y \in crossed => y \in crossed'
      /\ \A y : y \in crossed' /\ y # c => y \in crossed
      /\ c \notin crossed' => \A v \in TalkWorker : ~(Busy(v) /\ talkJob[v].on = c)
      /\ UNCHANGED <<talk, call, message, heard, untold>>
    BY <1>0, <1>1, ReadJob DEF CallOp, Outcome, Event, Topic
<1>3. TalksTypeOK'
    BY <1>0, <1>2 DEF TalksTypeOK, JobType, Topic
<1>4. \A v \in TalkWorker : TalkJobSound(v)'
    <2>1. TalkJobSound(w)'
        BY <1>0, <1>1, <1>2 DEF TalkJobSound, Saving, Telling
    <2>2. QED
        BY <1>0, <1>2, <2>1, JobsFrame
<1>5. TalkSound'
    BY <1>0, <1>2, TalkFrame DEF Busy, Saving
<1>6. \A x \in Topic \ {c} : Unmoved(x)
    BY <1>2, UnmovedByOther DEF Topic, Busy
<1>7. \A d \in Call \ crossed' : d # c => CallAlone(d)'
    BY <1>0, <1>2, <1>6, CallFrame DEF Topic
<1>8. \A m \in Message \ crossed' : MessageAlone(m)'
    BY <1>0, <1>2, <1>6, MessageFrame DEF Topic
<1>9. ASSUME c \notin crossed'
      PROVE  CallAlone(c)'
    <2>1. CallAlone(c)
        BY <1>0, <1>2, <1>9
    <2>2. \A v \in TalkWorker : talkJob[v].on = c => ~Telling(v)
        BY <1>2, <1>9 DEF Busy, Telling
    <2>3. c \in untold \/ Told(call[c]) \in heard[c]
        BY <1>1, <2>1, <2>2 DEF CallAlone
    <2>4. \A v \in TalkWorker : Busy(v)' /\ talkJob'[v].on = c => v = w
        BY <1>2, <1>9 DEF Busy
    <2>5. \A v \in TalkWorker : Telling(v)' => ~(talkJob'[v].on = c)
        BY <1>2, <2>4 DEF Busy, Telling
    <2>6. HeardOf(c)' /\ HeardSoFar(c)' /\ Alone(c)'
        BY <1>2, <2>1, <2>4 DEF CallAlone, HeardOf, HeardSoFar, Alone
    <2>7. \A v \in TalkWorker : Saving(v)' /\ talkJob'[v].on = c => v = w
        BY <2>4 DEF Busy, Saving
    <2>8. QED
        BY <1>1, <1>2, <2>1, <2>3, <2>5, <2>6, <2>7 DEF CallAlone
<1>10. QED
    BY <1>0, <1>2, <1>3, <1>4, <1>5, <1>7, <1>8, <1>9 DEF TalksInv

LEMMA MessageReadInv ==
    ASSUME TalksInv, NEW w \in TalkWorker, NEW m \in Message,
           EditRead(w, m) \/ DeleteRead(w, m) \/ ReadRead(w, m)
    PROVE  TalksInv'
<1>0. /\ TalksTypeOK /\ JobType /\ TalkSound
      /\ \A v \in TalkWorker : TalkJobSound(v)
      /\ \A d \in Call : Whole(call[d])
      /\ \A d \in Call \ crossed : CallAlone(d)
      /\ \A n \in Message \ crossed : MessageAlone(n)
    BY DEF TalksInv, TalksTypeOK, JobType
<1>1. PICK op \in MessageOp : TalkRead(w, op, m, message[m])
    BY DEF EditRead, DeleteRead, ReadRead, MessageOp
<1>2. message[m] \in MessageRow /\ message[m].sent
    BY <1>0 DEF TalksTypeOK, EditRead, DeleteRead, ReadRead, Visible
<1>3. /\ JobType'
      /\ \A v \in TalkWorker \ {w} : talkJob'[v] = talkJob[v]
      /\ talkJob[w].step = "idle"
      /\ talkJob'[w].step = "save" /\ talkJob'[w].op = op
      /\ talkJob'[w].on = m /\ talkJob'[w].row = message[m]
      /\ \A y : y \in crossed => y \in crossed'
      /\ \A y : y \in crossed' /\ y # m => y \in crossed
      /\ m \notin crossed' => \A v \in TalkWorker : ~(Busy(v) /\ talkJob[v].on = m)
      /\ UNCHANGED <<talk, call, message, heard, untold>>
    BY <1>0, <1>1, <1>2, ReadJob DEF MessageOp, Topic
<1>4. TalksTypeOK'
    BY <1>0, <1>3 DEF TalksTypeOK, JobType, Topic
<1>5. \A v \in TalkWorker : TalkJobSound(v)'
    <2>1. TalkJobSound(w)'
        BY <1>2, <1>3 DEF TalkJobSound, Saving, Telling
    <2>2. QED
        BY <1>0, <1>3, <2>1, JobsFrame
<1>6. TalkSound'
    BY <1>0, <1>3, TalkFrame DEF Busy, Saving
<1>7. \A x \in Topic \ {m} : Unmoved(x)
    BY <1>3, UnmovedByOther DEF Topic, Busy
<1>8. \A c \in Call \ crossed' : CallAlone(c)'
    BY <1>0, <1>3, <1>7, CallFrame DEF Topic
<1>9. \A n \in Message \ crossed' : n # m => MessageAlone(n)'
    BY <1>0, <1>3, <1>7, MessageFrame DEF Topic
<1>10. ASSUME m \notin crossed'
       PROVE  MessageAlone(m)'
    <2>1. MessageAlone(m)
        BY <1>0, <1>3, <1>10
    <2>2. \A v \in TalkWorker : Busy(v)' /\ talkJob'[v].on = m => v = w
        BY <1>3, <1>10 DEF Busy
    <2>3. \A v \in TalkWorker : Telling(v)' => ~(talkJob'[v].on = m)
        BY <1>3, <2>2 DEF Busy, Telling
    <2>4. \A v \in TalkWorker : Saving(v)' /\ talkJob'[v].on = m => v = w
        BY <2>2 DEF Busy, Saving
    <2>5. Alone(m)'
        BY <2>2 DEF Alone
    <2>6. QED
        BY <1>2, <1>3, <2>1, <2>3, <2>4, <2>5 DEF MessageAlone
<1>11. QED
    BY <1>0, <1>3, <1>4, <1>5, <1>6, <1>8, <1>9, <1>10 DEF TalksInv

(* The conversation is closed or archived by a request that found it       *)
(* active, which it still is unless another was at work.                   *)
LEMMA TalkSaveInv ==
    ASSUME TalksInv, NEW w \in TalkWorker, CloseSave(w) \/ ArchiveSave(w)
    PROVE  TalksInv'
<1>0. /\ TalksTypeOK /\ JobType /\ TalkSound
      /\ \A v \in TalkWorker : TalkJobSound(v)
      /\ \A d \in Call : Whole(call[d])
      /\ \A d \in Call \ crossed : CallAlone(d)
      /\ \A n \in Message \ crossed : MessageAlone(n)
    BY DEF TalksInv, TalksTypeOK, JobType
<1>1. Busy(w) /\ Saving(w) /\ talkJob[w].on = Talk
    BY <1>0 DEF CloseSave, ArchiveSave, TalkAt, Busy, Saving, TalkJobSound, CallOp,
                Outcome, MessageOp
<1>2. /\ UNCHANGED <<call, message, heard, crossed, untold>>
      /\ talkJob' = [talkJob EXCEPT ![w] = TalkIdle]
    BY DEF CloseSave, ArchiveSave, TalkReturn
<1>3. /\ JobType'
      /\ \A v \in TalkWorker \ {w} : talkJob'[v] = talkJob[v]
      /\ talkJob'[w].step = "idle"
    BY <1>0, <1>2, ReturnJob
<1>4. /\ talk' \in TalkRow /\ talk'.status \in {"CLOSED", "ARCHIVED"}
      /\ \/ talk'.closed = talk.closed
         \/ talk'.archived = talk.archived
    BY <1>0 DEF CloseSave, ArchiveSave, TalksTypeOK, TalkRow
<1>5. TalksTypeOK' /\ \A v \in TalkWorker : TalkJobSound(v)'
    BY <1>0, <1>2, <1>3, <1>4, JobsFrame DEF TalksTypeOK, JobType
<1>6. TalkSound'
    <2>1. ASSUME Talk \notin crossed
          PROVE  /\ ~(talk'.closed /\ talk'.archived) /\ Alone(Talk)'
                 /\ \A v \in TalkWorker : ~(Saving(v)' /\ talkJob'[v].on = Talk)
        <3>1. \A v \in TalkWorker : Busy(v) /\ talkJob[v].on = Talk => v = w
            BY <1>0, <1>1, <2>1 DEF TalkSound, Alone
        <3>2. \A v \in TalkWorker : ~(Busy(v)' /\ talkJob'[v].on = Talk)
            BY <1>3, <3>1 DEF Busy
        <3>3. talk.status = "ACTIVE" /\ ~talk.closed /\ ~talk.archived
            BY <1>0, <1>1, <2>1 DEF TalkSound
        <3>4. QED
            BY <1>4, <3>2, <3>3 DEF Alone, Busy, Saving
    <2>2. QED
        BY <1>2, <1>4, <2>1 DEF TalkSound
<1>7. \A x \in Topic : Unmoved(x)
    BY <1>1, <1>3, UnmovedByOther DEF Topic
<1>8. /\ \A c \in Call \ crossed' : CallAlone(c)'
      /\ \A m \in Message \ crossed' : MessageAlone(m)'
    BY <1>0, <1>2, <1>7, CallFrame, MessageFrame DEF Topic
<1>9. QED
    BY <1>0, <1>2, <1>5, <1>6, <1>8 DEF TalksInv

LEMMA InitiateSaveInv ==
    ASSUME TalksInv, NEW w \in TalkWorker, NEW c \in Call, InitiateSave(w, c)
    PROVE  TalksInv'
<1>0. /\ TalksTypeOK /\ JobType /\ TalkSound
      /\ \A v \in TalkWorker : TalkJobSound(v)
      /\ \A d \in Call : Whole(call[d])
      /\ \A d \in Call \ crossed : CallAlone(d)
      /\ \A n \in Message \ crossed : MessageAlone(n)
    BY DEF TalksInv, TalksTypeOK, JobType
<1>1. Busy(w) /\ Saving(w) /\ talkJob[w].on = Talk
    BY <1>0 DEF InitiateSave, TalkAt, Busy, Saving, TalkJobSound, CallOp, Outcome,
                MessageOp
<1>2. /\ JobType'
      /\ \A v \in TalkWorker \ {w} : talkJob'[v] = talkJob[v]
      /\ talkJob'[w].step = "tell" /\ talkJob'[w].op = "incoming"
      /\ talkJob'[w].on = c
      /\ UNCHANGED <<talk, message, heard, crossed, untold>>
    BY <1>0, TellJob DEF InitiateSave, Topic, Event
<1>3. /\ call' \in [Call -> CallRow]
      /\ \A d \in Call \ {c} : call'[d] = call[d]
      /\ call'[c].status = "INITIATED" /\ ~call'[c].answered /\ ~call'[c].ended
      /\ ~TalkBusy(c) /\ heard[c] = {}
    <2> DEFINE row == [NoCall EXCEPT !.status = "INITIATED"]
    <2>1. NoCall \in CallRow /\ ~NoCall.answered /\ ~NoCall.ended
        BY DEF NoCall, CallRow
    <2>2. call' = [call EXCEPT ![c] = row]
        <3>1. call' = [call EXCEPT ![c] = [call[c] EXCEPT !.status = "INITIATED"]]
            BY <1>0 DEF InitiateSave, TalksTypeOK
        <3>2. call[c] = NoCall
            BY DEF InitiateSave
        <3>3. QED
            BY <3>1, <3>2
    <2>3. /\ row \in CallRow /\ row.status = "INITIATED"
          /\ ~row.answered /\ ~row.ended
        BY <2>1 DEF CallRow
    <2>4. ~TalkBusy(c) /\ heard[c] = {}
        BY DEF InitiateSave
    <2> HIDE DEF row
    <2>5. QED
        BY <1>0, <2>2, <2>3, <2>4 DEF TalksTypeOK
<1>4. TalksTypeOK'
    BY <1>0, <1>2, <1>3 DEF TalksTypeOK, JobType
<1>5. \A v \in TalkWorker : TalkJobSound(v)'
    <2>1. TalkJobSound(w)'
        BY <1>2 DEF TalkJobSound, Saving, Telling
    <2>2. QED
        BY <1>0, <1>2, <2>1, JobsFrame
<1>6. TalkSound'
    BY <1>0, <1>2, TalkFrame DEF Busy, Saving
<1>7. \A x \in Topic \ {c} : Unmoved(x)
    BY <1>1, <1>2, UnmovedByOther DEF Topic
<1>8. \A d \in Call \ crossed' : d # c => CallAlone(d)'
    BY <1>0, <1>2, <1>3, <1>7, CallFrame DEF Topic
<1>9. \A m \in Message \ crossed' : MessageAlone(m)'
    BY <1>0, <1>2, <1>7, MessageFrame DEF Topic
<1>10. CallAlone(c)'
    <2>1. \A v \in TalkWorker : Busy(v)' /\ talkJob'[v].on = c => v = w
        BY <1>2, <1>3 DEF Busy, TalkBusy
    <2>2. Alone(c)'
        BY <2>1 DEF Alone
    <2>3. Told(call'[c]) = "incoming"
        BY <1>3 DEF Told
    <2>4. Telling(w)' /\ ~Saving(w)'
        BY <1>2 DEF Telling, Saving
    <2>5. HeardOf(c)' /\ HeardSoFar(c)'
        BY <1>2, <1>3 DEF HeardOf, HeardSoFar
    <2>6. \A v \in TalkWorker : (Saving(v)' \/ Telling(v)') /\ talkJob'[v].on = c => v = w
        BY <2>1 DEF Busy, Telling, Saving
    <2>7. QED
        BY <1>2, <1>3, <2>2, <2>3, <2>4, <2>5, <2>6 DEF CallAlone
<1>11. \A d \in Call : Whole(call'[d])
    BY <1>0, <1>3 DEF Whole
<1>12. QED
    BY <1>2, <1>4, <1>5, <1>6, <1>8, <1>9, <1>10, <1>11 DEF TalksInv

(* The row that was read is saved with the outcome, and is to be told.     *)
LEMMA OutcomeSaveInv ==
    ASSUME TalksInv, NEW w \in TalkWorker, NEW op \in Outcome, OutcomeSave(w, op)
    PROVE  TalksInv'
<1>0. /\ TalksTypeOK /\ JobType /\ TalkSound
      /\ \A v \in TalkWorker : TalkJobSound(v)
      /\ \A d \in Call : Whole(call[d])
      /\ \A d \in Call \ crossed : CallAlone(d)
      /\ \A n \in Message \ crossed : MessageAlone(n)
    BY DEF TalksInv, TalksTypeOK, JobType
<1>1. PICK c \in Call, row \in CallRow :
        /\ c = talkJob[w].on /\ row = talkJob[w].row
        /\ Saving(w) /\ Busy(w) /\ Whole(row) /\ Allowed(op, row)
    BY <1>0 DEF OutcomeSave, TalkAt, Busy, Saving, TalkJobSound, Outcome, MessageOp
<1>2. /\ After(op, row) \in CallRow /\ Whole(After(op, row))
      /\ Told(After(op, row)) = op /\ After(op, row).status # "ABSENT"
      /\ op = "accept" => After(op, row).status = "ACCEPTED"
      /\ op = "reject" => After(op, row).status = "REJECTED"
      /\ op = "cancel" => After(op, row).status = "CANCELLED"
      /\ op = "end" => After(op, row).status = "ENDED"
    BY <1>1 DEF After, Whole, Allowed, CallRow, Told, Outcome
<1>3. /\ call' \in [Call -> CallRow]
      /\ \A d \in Call \ {c} : call'[d] = call[d]
      /\ call'[c] = After(op, row)
    BY <1>0, <1>1, <1>2 DEF OutcomeSave, TalksTypeOK
<1>4. /\ JobType'
      /\ \A v \in TalkWorker \ {w} : talkJob'[v] = talkJob[v]
      /\ talkJob'[w].step = "tell" /\ talkJob'[w].op = op
      /\ talkJob'[w].on = c
      /\ UNCHANGED <<talk, message, heard, crossed, untold>>
    BY <1>0, <1>1, TellJob DEF OutcomeSave, Topic, Event
<1>5. TalksTypeOK'
    BY <1>0, <1>3, <1>4 DEF TalksTypeOK, JobType
<1>6. \A v \in TalkWorker : TalkJobSound(v)'
    <2>1. TalkJobSound(w)'
        BY <1>4 DEF TalkJobSound, Saving, Telling
    <2>2. QED
        BY <1>0, <1>4, <2>1, JobsFrame
<1>7. TalkSound'
    BY <1>0, <1>4, TalkFrame DEF Busy, Saving
<1>8. \A x \in Topic \ {c} : Unmoved(x)
    BY <1>1, <1>4, UnmovedByOther DEF Topic
<1>9. \A d \in Call \ crossed' : d # c => CallAlone(d)'
    BY <1>0, <1>3, <1>4, <1>8, CallFrame DEF Topic
<1>10. \A m \in Message \ crossed' : MessageAlone(m)'
    BY <1>0, <1>4, <1>8, MessageFrame DEF Topic
<1>11. ASSUME c \notin crossed'
       PROVE  CallAlone(c)'
    <2>1. CallAlone(c)
        BY <1>0, <1>4, <1>11
    <2>2. row = call[c] /\ (c \in untold \/ Told(row) \in heard[c])
        BY <1>1, <2>1 DEF CallAlone
    <2>3. \A v \in TalkWorker : Busy(v)' /\ talkJob'[v].on = c => v = w
        BY <1>1, <1>4, <2>1 DEF Busy, CallAlone, Alone
    <2>4. \A v \in TalkWorker : (Saving(v)' \/ Telling(v)') /\ talkJob'[v].on = c => v = w
        BY <2>3 DEF Busy, Telling, Saving
    <2>5. Alone(c)' /\ Telling(w)' /\ ~Saving(w)'
        BY <1>4, <2>3 DEF Alone, Telling, Saving
    <2>6. op = "end" => "accept" \in heard[c] \/ c \in untold
        BY <1>1, <2>2 DEF Allowed, Told
    <2>7. HeardSoFar(c)'
        BY <1>1, <1>2, <1>3, <1>4, <2>1, <2>2 DEF CallAlone, HeardSoFar, Allowed, Outcome
    <2>8. HeardOf(c)'
        BY <1>4, <2>1 DEF CallAlone, HeardOf
    <2>9. call'[c].status = "ENDED" => op = "end"
        BY <1>2, <1>3 DEF Outcome
    <2>10. QED
        BY <1>2, <1>3, <1>4, <2>1, <2>4, <2>5, <2>6, <2>7, <2>8, <2>9 DEF CallAlone
<1>12. \A d \in Call : Whole(call'[d])
    BY <1>0, <1>2, <1>3
<1>13. QED
    BY <1>4, <1>5, <1>6, <1>7, <1>9, <1>10, <1>11, <1>12 DEF TalksInv

LEMMA PatchSaveInv ==
    ASSUME TalksInv, NEW w \in TalkWorker, PatchSave(w)
    PROVE  TalksInv'
<1>0. /\ TalksTypeOK /\ JobType /\ TalkSound
      /\ \A v \in TalkWorker : TalkJobSound(v)
      /\ \A d \in Call : Whole(call[d])
      /\ \A d \in Call \ crossed : CallAlone(d)
      /\ \A n \in Message \ crossed : MessageAlone(n)
    BY DEF TalksInv, TalksTypeOK, JobType
<1>1. PICK c \in Call, row \in CallRow :
        /\ c = talkJob[w].on /\ row = talkJob[w].row
        /\ Saving(w) /\ Busy(w) /\ Whole(row)
    BY <1>0 DEF PatchSave, TalkAt, Busy, Saving, TalkJobSound, MessageOp
<1>2. /\ call' \in [Call -> CallRow]
      /\ \A d \in Call \ {c} : call'[d] = call[d]
      /\ call'[c] = row
    BY <1>0, <1>1 DEF PatchSave, TalksTypeOK
<1>3. /\ JobType'
      /\ \A v \in TalkWorker \ {w} : talkJob'[v] = talkJob[v]
      /\ talkJob'[w].step = "idle"
      /\ UNCHANGED <<talk, message, heard, crossed, untold>>
    BY <1>0, ReturnJob DEF PatchSave, TalkReturn
<1>4. TalksTypeOK' /\ \A v \in TalkWorker : TalkJobSound(v)'
    BY <1>0, <1>2, <1>3, JobsFrame DEF TalksTypeOK, JobType
<1>5. TalkSound'
    BY <1>0, <1>3, TalkFrame DEF Busy, Saving
<1>6. \A x \in Topic \ {c} : Unmoved(x)
    BY <1>1, <1>3, UnmovedByOther DEF Topic
<1>7. \A d \in Call \ crossed' : d # c => CallAlone(d)'
    BY <1>0, <1>2, <1>3, <1>6, CallFrame DEF Topic
<1>8. \A m \in Message \ crossed' : MessageAlone(m)'
    BY <1>0, <1>3, <1>6, MessageFrame DEF Topic
<1>9. ASSUME c \notin crossed'
      PROVE  CallAlone(c)'
    <2>1. CallAlone(c)
        BY <1>0, <1>3, <1>9
    <2>2. call'[c] = call[c] /\ (c \in untold \/ Told(call[c]) \in heard[c])
        BY <1>1, <1>2, <2>1 DEF CallAlone
    <2>3. \A v \in TalkWorker : ~(Busy(v)' /\ talkJob'[v].on = c)
        BY <1>1, <1>3, <2>1 DEF Busy, CallAlone, Alone
    <2>4. \A v \in TalkWorker : talkJob'[v].on = c => ~Saving(v)' /\ ~Telling(v)'
        BY <2>3 DEF Busy, Telling, Saving
    <2>5. Alone(c)' /\ ~TalkBusy(c)'
        BY <2>3 DEF Alone, TalkBusy, Busy
    <2>6. HeardOf(c)' /\ HeardSoFar(c)'
        BY <1>3, <2>1, <2>2 DEF CallAlone, HeardOf, HeardSoFar
    <2>7. QED
        BY <1>3, <2>1, <2>2, <2>4, <2>5, <2>6 DEF CallAlone
<1>10. \A d \in Call : Whole(call'[d])
    BY <1>0, <1>1, <1>2
<1>11. QED
    BY <1>3, <1>4, <1>5, <1>7, <1>8, <1>9, <1>10 DEF TalksInv

LEMMA DestroyCallInv ==
    ASSUME TalksInv, NEW c \in Call, DestroyCall(c)
    PROVE  TalksInv'
<1>0. /\ TalksTypeOK /\ JobType /\ TalkSound
      /\ \A v \in TalkWorker : TalkJobSound(v)
      /\ \A d \in Call : Whole(call[d])
      /\ \A d \in Call \ crossed : CallAlone(d)
      /\ \A n \in Message \ crossed : MessageAlone(n)
    BY DEF TalksInv, TalksTypeOK, JobType
<1>1. /\ NoCall \in CallRow /\ Whole(NoCall) /\ NoCall.status = "ABSENT"
    BY DEF NoCall, CallRow, Whole
<1>2. /\ call' \in [Call -> CallRow]
      /\ \A d \in Call \ {c} : call'[d] = call[d]
      /\ call'[c] = NoCall
      /\ UNCHANGED <<talk, message, talkJob, heard, untold>>
    BY <1>0, <1>1 DEF DestroyCall, TalksTypeOK
<1>3. /\ crossed \subseteq crossed' /\ crossed' \subseteq Topic \cup {Talk}
      /\ \A y : y \in crossed' /\ y # c => y \in crossed
      /\ c \notin crossed' => ~TalkBusy(c)
    BY <1>0 DEF DestroyCall, TalksTypeOK, Topic
<1>4. TalksTypeOK' /\ \A v \in TalkWorker : TalkJobSound(v)'
    BY <1>0, <1>2, <1>3 DEF TalksTypeOK, TalkJobSound, Saving, Telling
<1>5. TalkSound'
    BY <1>0, <1>2, <1>3, TalkFrame DEF Busy, Saving
<1>6. \A x : Unmoved(x)
    BY <1>2 DEF Unmoved
<1>7. \A d \in Call \ crossed' : d # c => CallAlone(d)'
    BY <1>0, <1>2, <1>3, <1>6, CallFrame
<1>8. \A m \in Message \ crossed' : MessageAlone(m)'
    BY <1>0, <1>2, <1>3, <1>6, MessageFrame
<1>9. ASSUME c \notin crossed'
      PROVE  CallAlone(c)'
    <2>1. CallAlone(c)
        BY <1>0, <1>3, <1>9
    <2>2. \A v \in TalkWorker : ~(Busy(v) /\ talkJob[v].on = c)
        BY <1>3, <1>9 DEF TalkBusy, Busy
    <2>3. \A v \in TalkWorker : talkJob'[v].on = c => ~Saving(v)' /\ ~Telling(v)'
        BY <1>2, <2>2 DEF Busy, Telling, Saving
    <2>4. Alone(c)' /\ ~TalkBusy(c)'
        BY <1>2, <2>2 DEF Alone, TalkBusy, Busy
    <2>5. HeardOf(c)' /\ HeardSoFar(c)'
        BY <1>1, <1>2, <2>1 DEF CallAlone, HeardOf, HeardSoFar
    <2>6. QED
        BY <1>1, <1>2, <2>1, <2>3, <2>4, <2>5 DEF CallAlone
<1>10. \A d \in Call : Whole(call'[d])
    BY <1>0, <1>1, <1>2
<1>11. QED
    BY <1>2, <1>4, <1>5, <1>7, <1>8, <1>9, <1>10 DEF TalksInv

(* A message is sent once, when nobody can be at work on it.               *)
LEMMA SendInv ==
    ASSUME TalksInv, NEW w \in TalkWorker, NEW m \in Message, Send(w, m)
    PROVE  TalksInv'
<1>0. /\ TalksTypeOK /\ JobType /\ TalkSound
      /\ \A v \in TalkWorker : TalkJobSound(v)
      /\ \A d \in Call : Whole(call[d])
      /\ \A d \in Call \ crossed : CallAlone(d)
      /\ \A n \in Message \ crossed : MessageAlone(n)
    BY DEF TalksInv, TalksTypeOK, JobType
<1>1. ~Busy(w) /\ ~message[m].sent
    BY DEF Send, Busy
<1>2. /\ message' \in [Message -> MessageRow]
      /\ \A n \in Message \ {m} : message'[n] = message[n]
      /\ message'[m].sent /\ message'[m].deleted = message[m].deleted
    BY ZenonT(40), <1>0 DEF Send, TalksTypeOK, MessageRow
<1>3. /\ JobType'
      /\ \A v \in TalkWorker \ {w} : talkJob'[v] = talkJob[v]
      /\ talkJob'[w].step = "tell" /\ talkJob'[w].op = "created"
      /\ talkJob'[w].on = m
      /\ UNCHANGED <<talk, call, heard, crossed, untold>>
    BY <1>0, TellJob DEF Send, Topic, Event
<1>4. TalksTypeOK'
    BY <1>0, <1>2, <1>3 DEF TalksTypeOK, JobType
<1>5. \A v \in TalkWorker : TalkJobSound(v)'
    <2>1. TalkJobSound(w)'
        BY <1>3 DEF TalkJobSound, Saving, Telling
    <2>2. QED
        BY <1>0, <1>3, <2>1, JobsFrame
<1>6. TalkSound'
    BY <1>0, <1>3, TalkFrame DEF Busy, Saving
<1>7. \A x \in Topic \ {m} : Unmoved(x)
    BY <1>1, <1>3, UnmovedByOther DEF Topic
<1>8. \A c \in Call \ crossed' : CallAlone(c)'
    BY <1>0, <1>3, <1>7, CallFrame DEF Topic
<1>9. \A n \in Message \ crossed' : n # m => MessageAlone(n)'
    BY <1>0, <1>2, <1>3, <1>7, MessageFrame DEF Topic
<1>10. ASSUME m \notin crossed'
       PROVE  MessageAlone(m)'
    <2>1. MessageAlone(m) /\ ~TalkBusy(m)
        BY <1>0, <1>1, <1>3, <1>10 DEF MessageAlone
    <2>2. \A v \in TalkWorker : Busy(v)' /\ talkJob'[v].on = m => v = w
        BY <1>3, <2>1 DEF Busy, TalkBusy
    <2>3. \A v \in TalkWorker : (Saving(v)' \/ Telling(v)') /\ talkJob'[v].on = m => v = w
        BY <2>2 DEF Busy, Telling, Saving
    <2>4. Alone(m)' /\ ~Saving(w)'
        BY <1>3, <2>2 DEF Alone, Saving
    <2>5. QED
        BY <1>2, <1>3, <2>1, <2>3, <2>4 DEF MessageAlone
<1>11. QED
    BY <1>0, <1>3, <1>4, <1>5, <1>6, <1>8, <1>9, <1>10 DEF TalksInv

(* An edit saves the row that was read, a deletion one column.             *)
LEMMA MessageSaveInv ==
    ASSUME TalksInv, NEW w \in TalkWorker, EditSave(w) \/ DeleteSave(w)
    PROVE  TalksInv'
<1>0. /\ TalksTypeOK /\ JobType /\ TalkSound
      /\ \A v \in TalkWorker : TalkJobSound(v)
      /\ \A d \in Call : Whole(call[d])
      /\ \A d \in Call \ crossed : CallAlone(d)
      /\ \A n \in Message \ crossed : MessageAlone(n)
    BY DEF TalksInv, TalksTypeOK, JobType
<1>1. PICK m \in Message, row \in MessageRow, event \in {"updated", "deleted"} :
        /\ m = talkJob[w].on /\ row = talkJob[w].row /\ row.sent
        /\ Saving(w) /\ Busy(w)
        /\ IF event = "updated" THEN EditSave(w) /\ talkJob[w].op = "edit"
                                ELSE DeleteSave(w)
    BY <1>0 DEF EditSave, DeleteSave, TalkAt, Busy, Saving, TalkJobSound, CallOp, Outcome
<1>2. PICK new \in MessageRow :
        /\ message' = [message EXCEPT ![m] = new]
        /\ event = "updated" => new.deleted = row.deleted /\ new.sent
        /\ event = "deleted" => new.deleted /\ new.sent = message[m].sent
    <2>1. CASE event = "updated"
        BY <1>0, <1>1, <2>1 DEF EditSave, TalksTypeOK, MessageRow
    <2>2. CASE event = "deleted"
        <3> DEFINE new == [message[m] EXCEPT !.deleted = TRUE]
        <3>1. /\ new \in MessageRow /\ new.deleted /\ new.sent = message[m].sent
            BY <1>0 DEF TalksTypeOK, MessageRow
        <3>2. message' = [message EXCEPT ![m] = new]
            BY <1>0, <1>1, <2>2 DEF DeleteSave, TalksTypeOK
        <3>3. QED
            BY <2>2, <3>1, <3>2
    <2>3. QED
        BY <2>1, <2>2
<1>3. /\ message' \in [Message -> MessageRow]
      /\ \A n \in Message \ {m} : message'[n] = message[n]
      /\ message'[m] = new
    BY <1>0, <1>2 DEF TalksTypeOK
<1>4. ThenTell(w, m, event) /\ UNCHANGED <<talk, call>>
    BY <1>1 DEF EditSave, DeleteSave
<1>5. /\ JobType'
      /\ \A v \in TalkWorker \ {w} : talkJob'[v] = talkJob[v]
      /\ talkJob'[w].step = "tell" /\ talkJob'[w].op = event
      /\ talkJob'[w].on = m
      /\ UNCHANGED <<talk, call, heard, crossed, untold>>
    BY <1>0, <1>4, TellJob DEF Topic, Event
<1>6. TalksTypeOK'
    BY <1>0, <1>3, <1>5 DEF TalksTypeOK, JobType
<1>7. \A v \in TalkWorker : TalkJobSound(v)'
    <2>1. TalkJobSound(w)'
        BY <1>5 DEF TalkJobSound, Saving, Telling
    <2>2. QED
        BY <1>0, <1>5, <2>1, JobsFrame
<1>8. TalkSound'
    BY <1>0, <1>5, TalkFrame DEF Busy, Saving
<1>9. \A x \in Topic \ {m} : Unmoved(x)
    BY <1>1, <1>5, UnmovedByOther DEF Topic
<1>10. \A c \in Call \ crossed' : CallAlone(c)'
    BY <1>0, <1>5, <1>9, CallFrame DEF Topic
<1>11. \A n \in Message \ crossed' : n # m => MessageAlone(n)'
    BY <1>0, <1>3, <1>5, <1>9, MessageFrame DEF Topic
<1>12. ASSUME m \notin crossed'
       PROVE  MessageAlone(m)'
    <2>1. MessageAlone(m) /\ message[m].sent
        BY <1>0, <1>1, <1>5, <1>12 DEF MessageAlone, TalkBusy, Busy
    <2>2. /\ message'[m].sent
          /\ event = "deleted" => message'[m].deleted
          /\ event = "updated" => message'[m].deleted = message[m].deleted
        BY <1>1, <1>2, <1>3, <2>1 DEF MessageAlone
    <2>3. \A v \in TalkWorker : Busy(v)' /\ talkJob'[v].on = m => v = w
        BY <1>1, <1>5, <2>1 DEF Busy, MessageAlone, Alone
    <2>4. \A v \in TalkWorker : (Saving(v)' \/ Telling(v)') /\ talkJob'[v].on = m => v = w
        BY <2>3 DEF Busy, Telling, Saving
    <2>5. Alone(m)' /\ ~Saving(w)'
        BY <1>5, <2>3 DEF Alone, Saving
    <2>6. "deleted" \in heard'[m] => message'[m].deleted
        BY <1>5, <2>1, <2>2 DEF MessageAlone
    <2>7. QED
        BY <1>5, <2>2, <2>4, <2>5, <2>6 DEF MessageAlone
<1>13. QED
    BY <1>0, <1>5, <1>6, <1>7, <1>8, <1>10, <1>11, <1>12 DEF TalksInv

(* Marking as read changes neither what is sent nor what is deleted.       *)
LEMMA MarkReadInv ==
    ASSUME TalksInv, ReadAll \/ \E w \in TalkWorker : ReadSave(w)
    PROVE  TalksInv'
<1>0. /\ TalksTypeOK /\ JobType /\ TalkSound
      /\ \A v \in TalkWorker : TalkJobSound(v)
      /\ \A d \in Call : Whole(call[d])
      /\ \A d \in Call \ crossed : CallAlone(d)
      /\ \A n \in Message \ crossed : MessageAlone(n)
    BY DEF TalksInv, TalksTypeOK, JobType
<1>1. /\ message' \in [Message -> MessageRow]
      /\ \A n \in Message : /\ message'[n].sent = message[n].sent
                            /\ message'[n].deleted = message[n].deleted
    <2>1. ASSUME NEW n \in Message, NEW b \in BOOLEAN
          PROVE  LET row == [message[n] EXCEPT !.read = b] IN
                 /\ row \in MessageRow /\ message[n] \in MessageRow
                 /\ row.sent = message[n].sent /\ row.deleted = message[n].deleted
        BY <1>0 DEF TalksTypeOK, MessageRow
    <2>2. CASE ReadAll
        <3>1. \A n \in Message : message[n].sent \in BOOLEAN
            BY <1>0 DEF TalksTypeOK, MessageRow
        <3>2. QED
            BY <2>1, <2>2, <3>1 DEF ReadAll
    <2>3. ASSUME NEW w \in TalkWorker, ReadSave(w)
          PROVE  /\ message' \in [Message -> MessageRow]
                 /\ \A n \in Message : /\ message'[n].sent = message[n].sent
                                       /\ message'[n].deleted = message[n].deleted
        <3>1. PICK m \in Message : m = talkJob[w].on
            BY <1>0, <2>3 DEF ReadSave, TalkAt, Saving, TalkJobSound, CallOp, Outcome
        <3>2. message' = [message EXCEPT ![m] = [message[m] EXCEPT !.read = TRUE]]
            BY <1>0, <2>3, <3>1 DEF ReadSave, TalksTypeOK
        <3>3. QED
            BY <1>0, <2>1, <3>2 DEF TalksTypeOK
    <2>4. QED
        BY <2>2, <2>3
<1>2. CASE ReadAll
    <2>1. UNCHANGED <<talk, call, talkJob, heard, crossed, untold>>
        BY <1>2 DEF ReadAll
    <2>2. TalksTypeOK' /\ \A v \in TalkWorker : TalkJobSound(v)'
        BY <1>0, <1>1, <2>1 DEF TalksTypeOK, TalkJobSound, Saving, Telling
    <2>3. TalkSound'
        BY <1>0, <2>1, TalkFrame DEF Busy, Saving
    <2>4. \A x : Unmoved(x)
        BY <2>1 DEF Unmoved
    <2>5. /\ \A c \in Call \ crossed' : CallAlone(c)'
          /\ \A m \in Message \ crossed' : MessageAlone(m)'
        BY <1>0, <1>1, <2>1, <2>4, CallFrame, MessageFrame
    <2>6. QED
        BY <1>0, <2>1, <2>2, <2>3, <2>5 DEF TalksInv
<1>3. ASSUME NEW w \in TalkWorker, ReadSave(w)
      PROVE  TalksInv'
    <2>1. PICK m \in Message : m = talkJob[w].on /\ Busy(w)
        BY <1>0, <1>3 DEF ReadSave, TalkAt, Busy, Saving, TalkJobSound, CallOp, Outcome
    <2>2. /\ JobType'
          /\ \A v \in TalkWorker \ {w} : talkJob'[v] = talkJob[v]
          /\ talkJob'[w].step = "idle"
          /\ UNCHANGED <<talk, call, heard, crossed, untold>>
        BY <1>0, <1>3, ReturnJob DEF ReadSave, TalkReturn
    <2>3. TalksTypeOK' /\ \A v \in TalkWorker : TalkJobSound(v)'
        BY <1>0, <1>1, <2>2, JobsFrame DEF TalksTypeOK, JobType
    <2>4. TalkSound'
        BY <1>0, <2>2, TalkFrame DEF Busy, Saving
    <2>5. \A x \in Topic \ {m} : Unmoved(x)
        BY <2>1, <2>2, UnmovedByOther DEF Topic
    <2>6. \A c \in Call \ crossed' : CallAlone(c)'
        BY <1>0, <2>2, <2>5, CallFrame DEF Topic
    <2>7. \A n \in Message \ crossed' : n # m => MessageAlone(n)'
        BY <1>0, <1>1, <2>2, <2>5, MessageFrame DEF Topic
    <2>8. ASSUME m \notin crossed'
          PROVE  MessageAlone(m)'
        <3>1. MessageAlone(m)
            BY <1>0, <2>2, <2>8
        <3>2. \A v \in TalkWorker : ~(Busy(v)' /\ talkJob'[v].on = m)
            BY <2>1, <2>2, <3>1 DEF Busy, MessageAlone, Alone
        <3>3. \A v \in TalkWorker : talkJob'[v].on = m => ~Saving(v)' /\ ~Telling(v)'
            BY <3>2 DEF Busy, Telling, Saving
        <3>4. Alone(m)' /\ ~TalkBusy(m)'
            BY <3>2 DEF Alone, TalkBusy, Busy
        <3>5. QED
            BY <1>1, <2>2, <3>1, <3>3, <3>4 DEF MessageAlone
    <2>9. QED
        BY <1>0, <2>2, <2>3, <2>4, <2>6, <2>7, <2>8 DEF TalksInv
<1>4. QED
    BY <1>2, <1>3

(* The clients are told what is stored, unless requests crossed.           *)
LEMMA TellInv ==
    ASSUME TalksInv, NEW w \in TalkWorker, Tell(w)
    PROVE  TalksInv'
<1>0. /\ TalksTypeOK /\ JobType /\ TalkSound
      /\ \A v \in TalkWorker : TalkJobSound(v)
      /\ \A d \in Call : Whole(call[d])
      /\ \A d \in Call \ crossed : CallAlone(d)
      /\ \A n \in Message \ crossed : MessageAlone(n)
    BY DEF TalksInv, TalksTypeOK, JobType
<1>1. PICK x \in Topic, op \in Event :
        /\ x = talkJob[w].on /\ op = talkJob[w].op
        /\ Telling(w) /\ Busy(w)
        /\ IF x \in Call THEN op \in Outcome \cup {"incoming"}
           ELSE op \in {"created", "updated", "deleted"}
    BY <1>0 DEF Tell, Busy, Telling, TalkJobSound, Topic, Event, Outcome
<1>2. /\ heard' \in [Topic -> SUBSET Event]
      /\ \A y \in Topic \ {x} : heard'[y] = heard[y]
      /\ heard'[x] = heard[x] \cup {op}
    BY <1>0, <1>1 DEF Tell, TalksTypeOK
<1>3. /\ JobType'
      /\ \A v \in TalkWorker \ {w} : talkJob'[v] = talkJob[v]
      /\ talkJob'[w].step = "idle"
      /\ UNCHANGED <<talk, call, message, crossed, untold>>
    BY <1>0, ReturnJob DEF Tell, talkRows
<1>4. TalksTypeOK' /\ \A v \in TalkWorker : TalkJobSound(v)'
    BY <1>0, <1>2, <1>3, JobsFrame DEF TalksTypeOK, JobType
<1>5. TalkSound'
    BY <1>0, <1>3, TalkFrame DEF Busy, Saving
<1>6. \A y \in Topic \ {x} : Unmoved(y)
    BY <1>1, <1>3, UnmovedByOther DEF Topic
<1>7. \A c \in Call \ crossed' : c # x => CallAlone(c)'
    BY <1>0, <1>2, <1>3, <1>6, CallFrame DEF Topic
<1>8. \A m \in Message \ crossed' : m # x => MessageAlone(m)'
    BY <1>0, <1>2, <1>3, <1>6, MessageFrame DEF Topic
<1>9. ASSUME x \in Call, x \notin crossed'
      PROVE  CallAlone(x)'
    <2>1. CallAlone(x) /\ TalkBusy(x)
        BY <1>0, <1>1, <1>3, <1>9 DEF TalkBusy, Busy
    <2>2. op = Told(call[x]) /\ call[x].status # "ABSENT"
        BY <1>1, <2>1 DEF CallAlone
    <2>3. call[x].status \in {"INITIATED", "ACCEPTED", "REJECTED", "CANCELLED", "ENDED"}
        BY <1>0, <1>9, <2>2 DEF TalksTypeOK, CallRow
    <2>4. \A v \in TalkWorker : ~(Busy(v)' /\ talkJob'[v].on = x)
        BY <1>1, <1>3, <2>1 DEF Busy, CallAlone, Alone
    <2>5. \A v \in TalkWorker : talkJob'[v].on = x => ~Saving(v)' /\ ~Telling(v)'
        BY <2>4 DEF Busy, Telling, Saving
    <2>6. Alone(x)' /\ ~TalkBusy(x)'
        BY <2>4 DEF Alone, TalkBusy, Busy
    <2>7. HeardSoFar(x)'
        BY <1>2, <1>3, <2>1, <2>2, <2>3 DEF CallAlone, HeardSoFar, Told
    <2>8. HeardOf(x)'
        BY <1>3, <2>3, <2>7 DEF HeardOf, HeardSoFar
    <2>9. op = "end" => call[x].status = "ENDED"
        BY <2>2, <2>3 DEF Told
    <2>10. QED
        BY <1>2, <1>3, <2>1, <2>2, <2>5, <2>6, <2>7, <2>8, <2>9 DEF CallAlone
<1>10. ASSUME x \in Message, x \notin crossed'
       PROVE  MessageAlone(x)'
    <2>1. MessageAlone(x)
        BY <1>0, <1>3, <1>10
    <2>2. \A v \in TalkWorker : ~(Busy(v)' /\ talkJob'[v].on = x)
        BY <1>1, <1>3, <2>1 DEF Busy, MessageAlone, Alone
    <2>3. \A v \in TalkWorker : talkJob'[v].on = x => ~Saving(v)' /\ ~Telling(v)'
        BY <2>2 DEF Busy, Telling, Saving
    <2>4. Alone(x)' /\ ~TalkBusy(x)'
        BY <2>2 DEF Alone, TalkBusy, Busy
    <2>5. op = "deleted" => message[x].deleted
        BY <1>1, <2>1 DEF MessageAlone
    <2>6. QED
        BY <1>2, <1>3, <2>1, <2>3, <2>4, <2>5 DEF MessageAlone
<1>11. QED
    BY <1>0, <1>3, <1>4, <1>5, <1>7, <1>8, <1>9, <1>10 DEF TalksInv

(* A worker that is killed before it told is remembered in untold.         *)
LEMMA TalkAbortInv ==
    ASSUME TalksInv, NEW w \in TalkWorker, TalkAbort(w)
    PROVE  TalksInv'
<1>0. /\ TalksTypeOK /\ JobType /\ TalkSound
      /\ \A v \in TalkWorker : TalkJobSound(v)
      /\ \A d \in Call : Whole(call[d])
      /\ \A d \in Call \ crossed : CallAlone(d)
      /\ \A n \in Message \ crossed : MessageAlone(n)
    BY DEF TalksInv, TalksTypeOK, JobType
<1>1. PICK x \in Topic \cup {Talk} : x = talkJob[w].on /\ Busy(w)
    BY <1>0 DEF TalkAbort, Busy, JobType, TalkJob
<1>2. /\ JobType'
      /\ \A v \in TalkWorker \ {w} : talkJob'[v] = talkJob[v]
      /\ talkJob'[w].step = "idle"
      /\ UNCHANGED <<talk, call, message, heard, crossed>>
    BY <1>0, ReturnJob DEF TalkAbort, talkRows
<1>3. /\ untold' \subseteq Topic /\ untold \subseteq untold'
      /\ Telling(w) => x \in untold'
    BY <1>0, <1>1 DEF TalkAbort, TalksTypeOK, Telling, TalkJobSound, Topic
<1>4. TalksTypeOK' /\ \A v \in TalkWorker : TalkJobSound(v)'
    BY <1>0, <1>2, <1>3, JobsFrame DEF TalksTypeOK, JobType
<1>5. TalkSound'
    BY <1>0, <1>2, TalkFrame DEF Busy, Saving
<1>6. \A y \in Topic \ {x} : Unmoved(y)
    BY <1>1, <1>2, UnmovedByOther DEF Topic
<1>7. \A c \in Call \ crossed' : c # x => CallAlone(c)'
    BY <1>0, <1>2, <1>3, <1>6, CallFrame DEF Topic
<1>8. \A m \in Message \ crossed' : m # x => MessageAlone(m)'
    BY <1>0, <1>2, <1>6, MessageFrame DEF Topic
<1>9. ASSUME x \in Call, x \notin crossed'
      PROVE  CallAlone(x)'
    <2>1. CallAlone(x)
        BY <1>0, <1>2, <1>9
    <2>2. Saving(w) \/ Telling(w)
        BY <1>0, <1>1 DEF Busy, Saving, Telling, JobType, TalkJob
    <2>3. x \in untold' \/ Told(call[x]) \in heard[x]
        BY <1>1, <1>3, <2>1, <2>2 DEF CallAlone
    <2>4. \A v \in TalkWorker : ~(Busy(v)' /\ talkJob'[v].on = x)
        BY <1>1, <1>2, <2>1 DEF Busy, CallAlone, Alone
    <2>5. \A v \in TalkWorker : talkJob'[v].on = x => ~Saving(v)' /\ ~Telling(v)'
        BY <2>4 DEF Busy, Telling, Saving
    <2>6. Alone(x)' /\ ~TalkBusy(x)'
        BY <2>4 DEF Alone, TalkBusy, Busy
    <2>7. HeardSoFar(x)' /\ HeardOf(x)'
        BY <1>2, <2>1 DEF CallAlone, HeardSoFar, HeardOf
    <2>8. QED
        BY <1>2, <1>3, <2>1, <2>3, <2>5, <2>6, <2>7 DEF CallAlone
<1>10. ASSUME x \in Message, x \notin crossed'
       PROVE  MessageAlone(x)'
    <2>1. MessageAlone(x)
        BY <1>0, <1>2, <1>10
    <2>2. \A v \in TalkWorker : ~(Busy(v)' /\ talkJob'[v].on = x)
        BY <1>1, <1>2, <2>1 DEF Busy, MessageAlone, Alone
    <2>3. \A v \in TalkWorker : talkJob'[v].on = x => ~Saving(v)' /\ ~Telling(v)'
        BY <2>2 DEF Busy, Telling, Saving
    <2>4. Alone(x)' /\ ~TalkBusy(x)'
        BY <2>2 DEF Alone, TalkBusy, Busy
    <2>5. QED
        BY <1>2, <2>1, <2>3, <2>4 DEF MessageAlone
<1>11. QED
    BY <1>0, <1>2, <1>4, <1>5, <1>7, <1>8, <1>9, <1>10 DEF TalksInv

-------------------------------------------------------------------------------
LEMMA TalksNextInv ==
    ASSUME TalksInv, [TalksNext]_talkVars
    PROVE  TalksInv'
<1>1. CASE UNCHANGED talkVars
    <2>1. UNCHANGED <<talk, call, message, talkJob, heard, crossed, untold>>
        BY <1>1 DEF talkVars, talkRows
    <2>2. QED
        BY <2>1 DEF TalksInv, TalksTypeOK, TalkJobSound, TalkSound, CallAlone,
                    MessageAlone, Alone, Busy, Saving, Telling, HeardOf, HeardSoFar,
                    TalkBusy
<1>2. CASE OpenTalk \/ ReadAll \/ \E c \in Call : DestroyCall(c)
    BY <1>2, OpenTalkInv, MarkReadInv, DestroyCallInv
<1>3. ASSUME NEW w \in TalkWorker, TalkRequest(w)
      PROVE  TalksInv'
    <2>1. CASE CloseRead(w) \/ ArchiveRead(w) \/ InitiateRead(w)
        BY <2>1, TalkReadInv
    <2>2. CASE CloseSave(w) \/ ArchiveSave(w)
        BY <2>2, TalkSaveInv
    <2>3. ASSUME NEW c \in Call,
                 \/ InitiateSave(w, c) \/ PatchRead(w, c)
                 \/ \E op \in Outcome : OutcomeRead(w, op, c)
          PROVE  TalksInv'
        BY <2>3, InitiateSaveInv, CallReadInv
    <2>4. CASE PatchSave(w) \/ \E op \in Outcome : OutcomeSave(w, op)
        BY <2>4, PatchSaveInv, OutcomeSaveInv
    <2>5. ASSUME NEW m \in Message,
                 Send(w, m) \/ EditRead(w, m) \/ DeleteRead(w, m) \/ ReadRead(w, m)
          PROVE  TalksInv'
        BY <2>5, SendInv, MessageReadInv
    <2>6. CASE EditSave(w) \/ DeleteSave(w) \/ ReadSave(w)
        BY <2>6, MessageSaveInv, MarkReadInv
    <2>7. CASE Tell(w) \/ TalkAbort(w)
        BY <2>7, TellInv, TalkAbortInv
    <2>8. QED
        BY <1>3, <2>1, <2>2, <2>3, <2>4, <2>5, <2>6, <2>7 DEF TalkRequest
<1>4. QED
    BY <1>1, <1>2, <1>3 DEF TalksNext

LEMMA TalksAlwaysInv == TalksSpec => []TalksInv
BY TalksInitInv, TalksNextInv, PTL DEF TalksSpec

(* The conversation, calls, messages and requests stay within their types. *)
THEOREM TalksTypeCorrect == TalksSpec => []TalksTypeOK
<1>1. TalksInv => TalksTypeOK
    BY DEF TalksInv
<1>2. QED
    BY <1>1, TalksAlwaysInv, PTL

LEMMA InOrder == TalksInv => ConversationsInOrder
<1>1. SUFFICES ASSUME TalksInv
               PROVE  ConversationsInOrder
    OBVIOUS
<1>2. \A c \in Call : Whole(call[c])
    BY <1>1 DEF TalksInv
<1>3. talk.closed /\ talk.archived => Talk \in crossed
    BY <1>1 DEF TalksInv, TalkSound
<1>4. ASSUME NEW c \in Call \ crossed
      PROVE  /\ Cardinality(heard[c] \cap {"accept", "reject", "cancel"}) <= 1
             /\ "end" \in heard[c] => "accept" \in heard[c] \/ c \in untold
             /\ \/ call[c] = NoCall \/ TalkBusy(c) \/ c \in untold
                \/ Told(call[c]) \in heard[c]
    <2>1. CallAlone(c) /\ Whole(call[c]) /\ call[c] \in CallRow
        BY <1>1 DEF TalksInv, TalksTypeOK
    <2> DEFINE answers == heard[c] \cap {"accept", "reject", "cancel"}
    <2>2. Cardinality(answers) <= 1
        <3>1. PICK a : answers \subseteq {a}
            BY <2>1 DEF CallAlone, HeardOf
        <3>2. CASE answers = {}
            BY <3>2, FS_EmptySet
        <3>3. CASE answers = {a}
            BY <3>3, FS_Singleton
        <3>4. QED
            BY <3>1, <3>2, <3>3
    <2>3. call[c].status = "ABSENT" => call[c] = NoCall
        BY <2>1 DEF Whole, CallRow, NoCall
    <2>4. \A w \in TalkWorker : Telling(w) /\ talkJob[w].on = c => TalkBusy(c)
        BY DEF Telling, TalkBusy
    <2>5. QED
        BY <2>1, <2>2, <2>3, <2>4 DEF CallAlone
<1>5. \A m \in Message \ crossed : "deleted" \in heard[m] => message[m].deleted
    BY <1>1 DEF TalksInv, MessageAlone
<1>6. QED
    BY <1>2, <1>3, <1>4, <1>5 DEF ConversationsInOrder

(* Whatever requests race, a call is of one piece: calling_service saves   *)
(* whole rows.  Where they do not race, the clients hear of one answer to  *)
(* a call, of its end after its acceptance, and in the end of what is      *)
(* stored; and a message whose deletion they heard of is deleted.          *)
THEOREM ConversationsInOrderCorrect == TalksSpec => []ConversationsInOrder
BY InOrder, TalksAlwaysInv, PTL

===============================================================================
