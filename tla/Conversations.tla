----------------------------- MODULE Conversations -----------------------------
(***************************************************************************)
(* The chat of a booking: chat_service/services.py and views.py, and the   *)
(* calls made in it: calling_service/services.py and views.py.             *)
(*                                                                         *)
(* No request but the first of a conversation locks a row.  A message that *)
(* is edited and a call are saved with all the columns that were read, the *)
(* other saves name theirs.  What has been saved is then told to the       *)
(* clients of the conversation through the channel layer; the worker may   *)
(* be killed, or the layer may fail, before that.                          *)
(*                                                                         *)
(* Who may send which request, texts and the people of a conversation are  *)
(* data; notifications are rows of their own, which nothing reads here.    *)
(***************************************************************************)
EXTENDS Integers, FiniteSets

CONSTANTS
    Call,           \* the CallSessions that may be created
    Message,        \* the Messages that may be created
    TalkWorker,     \* the requests in flight at a time
    Talk            \* the conversation

ASSUME TalkAssumption ==
    /\ Call \cap Message = {}
    /\ Talk \notin Call \cup Message

VARIABLES
    talk,       \* the Conversation of the booking
    call,       \* the CallSessions
    message,    \* the Messages
    talkJob,    \* the request each worker is handling
    heard,      \* what the clients were told of a call or a message
    crossed,    \* history: what two requests worked on at a time
    untold      \* history: what was saved and never told

talkRows == <<talk, call, message>>
talkVars == <<talkRows, talkJob, heard, crossed, untold>>
Topic == Call \cup Message
-------------------------------------------------------------------------------
(* closed, archived: the column closed_at, archived_at is set.             *)
TalkRow == [status   : {"ABSENT", "ACTIVE", "CLOSED", "ARCHIVED"},
            closed   : BOOLEAN,
            archived : BOOLEAN]

CallRow == [status   : {"ABSENT", "INITIATED", "ACCEPTED", "REJECTED",
                        "CANCELLED", "ENDED"},
            answered : BOOLEAN,
            ended    : BOOLEAN]

MessageRow == [sent : BOOLEAN, edited : BOOLEAN, deleted : BOOLEAN, read : BOOLEAN]

Outcome == {"accept", "reject", "cancel", "end"}
Event == Outcome \cup {"incoming", "created", "updated", "deleted"}

NoTalk == [status |-> "ABSENT", closed |-> FALSE, archived |-> FALSE]
NoCall == [status |-> "ABSENT", answered |-> FALSE, ended |-> FALSE]
NoMessage == [sent |-> FALSE, edited |-> FALSE, deleted |-> FALSE, read |-> FALSE]
TalkIdle == [step |-> "idle", op |-> "none", on |-> Talk, row |-> NoTalk]

TalksInit ==
    /\ talk = NoTalk
    /\ call = [c \in Call |-> NoCall]
    /\ message = [m \in Message |-> NoMessage]
    /\ talkJob = [w \in TalkWorker |-> TalkIdle]
    /\ heard = [x \in Topic |-> {}]
    /\ crossed = {}
    /\ untold = {}
-------------------------------------------------------------------------------
(* on: what the request is about; row: that row, as it was read.           *)
TalkAt(w, step, op) == talkJob[w].step = step /\ talkJob[w].op = op
TalkBusy(x) == \E w \in TalkWorker : talkJob[w].step # "idle" /\ talkJob[w].on = x

TalkRead(w, op, x, row) ==
    /\ talkJob[w].step = "idle"
    /\ talkJob' = [talkJob EXCEPT ![w] =
          [step |-> "save", op |-> op, on |-> x, row |-> row]]
    /\ crossed' = IF TalkBusy(x) THEN crossed \cup {x} ELSE crossed
    /\ UNCHANGED <<talkRows, heard, untold>>

TalkReturn(w) ==
    /\ talkJob' = [talkJob EXCEPT ![w] = TalkIdle]
    /\ UNCHANGED <<heard, crossed, untold>>

(* What was saved is still to be told.                                     *)
ThenTell(w, x, event) ==
    /\ talkJob' = [talkJob EXCEPT ![w].step = "tell", ![w].op = event, ![w].on = x]
    /\ UNCHANGED <<heard, crossed, untold>>

(* The clients in the group of the conversation are told.                  *)
Tell(w) ==
    LET x == talkJob[w].on IN
    /\ talkJob[w].step = "tell"
    /\ heard' = [heard EXCEPT ![x] = @ \cup {talkJob[w].op}]
    /\ talkJob' = [talkJob EXCEPT ![w] = TalkIdle]
    /\ UNCHANGED <<talkRows, crossed, untold>>

TalkAbort(w) ==
    /\ talkJob[w].step # "idle"
    /\ talkJob' = [talkJob EXCEPT ![w] = TalkIdle]
    /\ untold' = IF talkJob[w].step = "tell" THEN untold \cup {talkJob[w].on}
                                             ELSE untold
    /\ UNCHANGED <<talkRows, heard, crossed>>
-------------------------------------------------------------------------------
(* The conversation begins when the booking is confirmed or assigned; the  *)
(* row is locked, and unique.                                              *)
OpenTalk ==
    /\ talk.status = "ABSENT"
    /\ talk' = [talk EXCEPT !.status = "ACTIVE"]
    /\ UNCHANGED <<call, message, talkJob, heard, crossed, untold>>

CloseRead(w) == talk.status = "ACTIVE" /\ TalkRead(w, "close", Talk, talk)

CloseSave(w) ==
    /\ TalkAt(w, "save", "close")
    /\ talk' = [talk EXCEPT !.status = "CLOSED", !.closed = TRUE]
    /\ TalkReturn(w)
    /\ UNCHANGED <<call, message>>

ArchiveRead(w) == talk.status = "ACTIVE" /\ TalkRead(w, "archive", Talk, talk)

ArchiveSave(w) ==
    /\ TalkAt(w, "save", "archive")
    /\ talk' = [talk EXCEPT !.status = "ARCHIVED", !.archived = TRUE]
    /\ TalkReturn(w)
    /\ UNCHANGED <<call, message>>
-------------------------------------------------------------------------------
(* Calls.                                                                  *)

InitiateRead(w) == talk.status = "ACTIVE" /\ TalkRead(w, "initiate", Talk, talk)

InitiateSave(w, c) ==
    /\ TalkAt(w, "save", "initiate")
    /\ call[c] = NoCall /\ ~TalkBusy(c) /\ heard[c] = {} /\ c \notin untold
    /\ call' = [call EXCEPT ![c].status = "INITIATED"]
    /\ ThenTell(w, c, "incoming")
    /\ UNCHANGED <<talk, message>>

(* accept_call, reject_call, cancel_call and end_call.                     *)
Allowed(op, row) ==
    IF op = "end" THEN row.status = "ACCEPTED" ELSE row.status = "INITIATED"

After(op, row) ==
    CASE op = "accept" -> [row EXCEPT !.status = "ACCEPTED", !.answered = TRUE]
      [] op = "reject" -> [row EXCEPT !.status = "REJECTED", !.ended = TRUE]
      [] op = "cancel" -> [row EXCEPT !.status = "CANCELLED", !.ended = TRUE]
      [] op = "end"    -> [row EXCEPT !.status = "ENDED", !.ended = TRUE]

OutcomeRead(w, op, c) == Allowed(op, call[c]) /\ TalkRead(w, op, c, call[c])

(* Fault: only the columns that the request changes are saved.             *)
OutcomeSaveFields(w, op) ==
    LET c == talkJob[w].on IN
    /\ TalkAt(w, "save", op)
    /\ call' = [call EXCEPT ![c] = After(op, @)]
    /\ ThenTell(w, c, op)
    /\ UNCHANGED <<talk, message>>

(* The row is inserted again if it has been deleted.                       *)
OutcomeSave(w, op) ==
    LET c == talkJob[w].on IN
    /\ TalkAt(w, "save", op)
    /\ call' = [call EXCEPT ![c] = After(op, talkJob[w].row)]
    /\ ThenTell(w, c, op)
    /\ UNCHANGED <<talk, message>>

(* The API also lets a participant edit a call, which saves it as it was   *)
(* read, and delete it.                                                    *)
PatchRead(w, c) == call[c] # NoCall /\ TalkRead(w, "patch", c, call[c])

PatchSave(w) ==
    /\ TalkAt(w, "save", "patch")
    /\ call' = [call EXCEPT ![talkJob[w].on] = talkJob[w].row]
    /\ TalkReturn(w)
    /\ UNCHANGED <<talk, message>>

DestroyCall(c) ==
    /\ call[c] # NoCall
    /\ call' = [call EXCEPT ![c] = NoCall]
    /\ crossed' = IF TalkBusy(c) THEN crossed \cup {c} ELSE crossed
    /\ UNCHANGED <<talk, message, talkJob, heard, untold>>
-------------------------------------------------------------------------------
(* Messages.  The status of the conversation does not matter.              *)

Send(w, m) ==
    /\ talk.status # "ABSENT"
    /\ talkJob[w].step = "idle"
    /\ ~message[m].sent
    /\ message' = [message EXCEPT ![m].sent = TRUE]
    /\ ThenTell(w, m, "created")
    /\ UNCHANGED <<talk, call>>

Visible(m) == message[m].sent /\ ~message[m].deleted

EditRead(w, m) == Visible(m) /\ TalkRead(w, "edit", m, message[m])

EditSave(w) ==
    LET m == talkJob[w].on IN
    /\ TalkAt(w, "save", "edit")
    /\ message' = [message EXCEPT ![m] = [talkJob[w].row EXCEPT !.edited = TRUE]]
    /\ ThenTell(w, m, "updated")
    /\ UNCHANGED <<talk, call>>

DeleteRead(w, m) == Visible(m) /\ TalkRead(w, "delete", m, message[m])

DeleteSave(w) ==
    LET m == talkJob[w].on IN
    /\ TalkAt(w, "save", "delete")
    /\ message' = [message EXCEPT ![m].deleted = TRUE]
    /\ ThenTell(w, m, "deleted")
    /\ UNCHANGED <<talk, call>>

(* One message, found while it was visible, is marked as read; or all of   *)
(* them are, in one statement.                                             *)
ReadRead(w, m) == Visible(m) /\ TalkRead(w, "read", m, message[m])

ReadSave(w) ==
    /\ TalkAt(w, "save", "read")
    /\ message' = [message EXCEPT ![talkJob[w].on].read = TRUE]
    /\ TalkReturn(w)
    /\ UNCHANGED <<talk, call>>

ReadAll ==
    /\ message' = [m \in Message |-> [message[m] EXCEPT !.read = message[m].sent]]
    /\ UNCHANGED <<talk, call, talkJob, heard, crossed, untold>>
-------------------------------------------------------------------------------
TalkRequest(w) ==
    \/ CloseRead(w) \/ CloseSave(w)
    \/ ArchiveRead(w) \/ ArchiveSave(w)
    \/ InitiateRead(w)
    \/ \E c \in Call : InitiateSave(w, c)
    \/ \E op \in Outcome, c \in Call : OutcomeRead(w, op, c)
    \/ \E op \in Outcome : OutcomeSave(w, op)
    \/ \E c \in Call : PatchRead(w, c)
    \/ PatchSave(w)
    \/ \E m \in Message : Send(w, m)
    \/ \E m \in Message : EditRead(w, m) \/ DeleteRead(w, m) \/ ReadRead(w, m)
    \/ EditSave(w) \/ DeleteSave(w) \/ ReadSave(w)
    \/ Tell(w)
    \/ TalkAbort(w)

TalksNext ==
    \/ OpenTalk
    \/ \E w \in TalkWorker : TalkRequest(w)
    \/ \E c \in Call : DestroyCall(c)
    \/ ReadAll

TalksSpec == TalksInit /\ [][TalksNext]_talkVars
-------------------------------------------------------------------------------
(* Properties.                                                             *)

TalkJob == [step : {"idle", "save", "tell"},
            op   : Event \cup {"none", "close", "archive", "initiate", "patch",
                               "edit", "delete", "read"},
            on   : Topic \cup {Talk},
            row  : TalkRow \cup CallRow \cup MessageRow]

TalksTypeOK ==
    /\ talk \in TalkRow
    /\ call \in [Call -> CallRow]
    /\ message \in [Message -> MessageRow]
    /\ talkJob \in [TalkWorker -> TalkJob]
    /\ heard \in [Topic -> SUBSET Event]
    /\ crossed \subseteq Topic \cup {Talk}
    /\ untold \subseteq Topic

(* The columns of a call agree with its status.                            *)
Whole(row) ==
    /\ row.answered <=> row.status \in {"ACCEPTED", "ENDED"}
    /\ row.ended <=> row.status \in {"REJECTED", "CANCELLED", "ENDED"}

(* What the clients should have heard of a call last.                      *)
Told(row) ==
    CASE row.status = "ACCEPTED" -> "accept"
      [] row.status = "REJECTED" -> "reject"
      [] row.status = "CANCELLED" -> "cancel"
      [] row.status = "ENDED" -> "end"
      [] OTHER -> "incoming"

(* Whatever requests race, a call is of one piece.  Where only one request *)
(* at a time worked on something: a conversation is not both closed and    *)
(* archived; the clients hear of one of acceptance, rejection and          *)
(* cancellation of a call, of its end only after its acceptance, and in    *)
(* the end of what is stored, unless the worker was killed; and a message  *)
(* of whose deletion they heard is deleted.                                *)
ConversationsInOrder ==
    /\ \A c \in Call : Whole(call[c])
    /\ talk.closed /\ talk.archived => Talk \in crossed
    /\ \A c \in Call \ crossed :
          /\ Cardinality(heard[c] \cap {"accept", "reject", "cancel"}) <= 1
          /\ "end" \in heard[c] => "accept" \in heard[c] \/ c \in untold
          /\ call[c] = NoCall \/ TalkBusy(c) \/ c \in untold \/ Told(call[c]) \in heard[c]
    /\ \A m \in Message \ crossed :
          "deleted" \in heard[m] => message[m].deleted
===============================================================================
