----------------------------- MODULE Registration -----------------------------
(***************************************************************************)
(* Signing up: AuthService.register_user, verify_email_registration and    *)
(* verify_phone_registration (accounts/services_legacy.py), their views    *)
(* and serializers, and GoogleLoginAPIView.                                *)
(*                                                                         *)
(* A form is kept as a pending registration until its author follows the   *)
(* link sent to the e-mail address or, if the form has a phone number,     *)
(* enters the code sent to the phone.  The account is then created from    *)
(* the pending registration.  A form of the same e-mail address, or of the *)
(* same phone if it has no address, overwrites the row.                    *)
(*                                                                         *)
(* Only Google's callback is a transaction; each other request reads, then *)
(* writes row by row.  What the database guarantees is that no two         *)
(* accounts share an address, a phone or a uuid, and no two pending        *)
(* registrations an address.  A code is entered in one step here (see      *)
(* OneTimeCode).                                                           *)
(***************************************************************************)
EXTENDS Integers

CONSTANTS
    Form,           \* the forms submitted; a token is drawn for each
    FormEmail, FormPhone,   \* what they contain
    Email, Phone,
    MaxAccount,     \* bounds of the model: the accounts and the pending
    MaxPending,     \* rows ever created
    FormWorker,     \* the requests in flight at a time
    Nothing

Account == 1 .. MaxAccount
Pending == 1 .. MaxPending

ASSUME FormAssumption ==
    /\ FormEmail \in [Form -> Email \cup {Nothing}]
    /\ FormPhone \in [Form -> Phone \cup {Nothing}]
    /\ \A f \in Form : FormEmail[f] # Nothing \/ FormPhone[f] # Nothing
    /\ Nothing \notin Form \cup Email \cup Phone
    /\ MaxAccount \in Nat
    /\ MaxPending \in Nat

VARIABLES
    account,    \* the CustomUsers
    pending,    \* the PendingRegistrations
    mailed,     \* the links sent: a pending row and the token of a form
    signupCode, \* the form whose registration sent the code that is valid
                \* for a phone
    formJob,    \* the request each worker is handling
    mixed       \* history: the phones of which a form was stored while
                \* another one was waiting, had a code or was in progress

formVars == <<account, pending, mailed, signupCode, formJob, mixed>>

-------------------------------------------------------------------------------
(* row: an account has the uuid of its pending registration.  confirmed,   *)
(* history: the form whose link or code was used.                          *)
AccountRow == [form      : Form \cup {Nothing},
               row       : Pending \cup {0},
               email     : Email \cup {Nothing},
               phone     : Phone \cup {Nothing},
               confirmed : Form \cup {Nothing}]

PendingRow == [status : {"UNUSED", "OPEN", "GONE"},
               form   : Form \cup {Nothing}]

FormJob == [step : {"idle", "store", "code", "confirm", "create", "drop"},
            form : Form \cup {Nothing},
            row  : Pending \cup {0},
            read : Form \cup {Nothing}]

NoAccount == [form |-> Nothing, row |-> 0, email |-> Nothing, phone |-> Nothing,
              confirmed |-> Nothing]
NoForm == [step |-> "idle", form |-> Nothing, row |-> 0, read |-> Nothing]

RegistrationTypeOK ==
    /\ account \in [Account -> AccountRow]
    /\ pending \in [Pending -> PendingRow]
    /\ mailed \subseteq Pending \X Form
    /\ signupCode \in [Phone -> Form \cup {Nothing}]
    /\ formJob \in [FormWorker -> FormJob]
    /\ mixed \subseteq Phone

RegistrationInit ==
    /\ account = [a \in Account |-> NoAccount]
    /\ pending = [i \in Pending |-> [status |-> "UNUSED", form |-> Nothing]]
    /\ mailed = {}
    /\ signupCode = [p \in Phone |-> Nothing]
    /\ formJob = [w \in FormWorker |-> NoForm]
    /\ mixed = {}

-------------------------------------------------------------------------------
FormAt(w, step) == formJob[w].step = step
FormGo(w, step, f, i, g) ==
    formJob' = [formJob EXCEPT ![w] =
        [step |-> step, form |-> f, row |-> i, read |-> g]]
FormReturn(w) == formJob' = [formJob EXCEPT ![w] = NoForm]

ByPhone(f) == FormPhone[f] # Nothing
Open(i) == pending[i].status = "OPEN"
OpenEmail(i, e) == Open(i) /\ FormEmail[pending[i].form] = e
OpenPhone(i, p) == Open(i) /\ FormPhone[pending[i].form] = p

EmailTaken(e) == e # Nothing /\ \E a \in Account : account[a].email = e
PhoneTaken(p) == p # Nothing /\ \E a \in Account : account[a].phone = p
Taken(f) == EmailTaken(FormEmail[f]) \/ PhoneTaken(FormPhone[f])

NextAccount(a) ==
    /\ account[a] = NoAccount
    /\ \A b \in Account : account[b] = NoAccount => a <= b

(* The row that is overwritten, of the address or else of the phone.       *)
Found(i, f) ==
    IF FormEmail[f] # Nothing
    THEN OpenEmail(i, FormEmail[f])
    ELSE /\ OpenPhone(i, FormPhone[f])
         /\ \A j \in Pending : OpenPhone(j, FormPhone[f]) => i <= j

(* The newest registration that waits for a code of the phone.             *)
Newest(i, p) == OpenPhone(i, p) /\ \A j \in Pending : OpenPhone(j, p) => j <= i

-------------------------------------------------------------------------------
(* register_user.                                                          *)

RegisterRead(w, f) ==
    /\ FormAt(w, "idle")
    /\ ~Taken(f)
    /\ \/ \E i \in Pending : Found(i, f) /\ FormGo(w, "store", f, i, Nothing)
       \/ /\ \A i \in Pending : ~Found(i, f)
          /\ FormGo(w, "store", f, 0, Nothing)
    /\ UNCHANGED <<account, pending, mailed, signupCode, mixed>>

(* The row that was read is saved, inserted again if it has gone; without  *)
(* one a row is created, or if the address turns out to be waiting already *)
(* its row is overwritten.                                                 *)
StoredIn(i, w) ==
    LET f == formJob[w].form
        e == FormEmail[f] IN
    IF formJob[w].row # 0
    THEN /\ i = formJob[w].row
         /\ e # Nothing => \A j \in Pending : OpenEmail(j, e) => j = i
    ELSE IF e # Nothing /\ \E j \in Pending : OpenEmail(j, e)
    THEN OpenEmail(i, e)
    ELSE /\ pending[i].status = "UNUSED"
         /\ \A j \in Pending : pending[j].status = "UNUSED" => i <= j

InPlay(g) ==
    \/ \E i \in Pending : Open(i) /\ pending[i].form = g
    \/ \E p \in Phone : signupCode[p] = g
    \/ \E v \in FormWorker : formJob[v].step \in {"code", "confirm"}
                                /\ formJob[v].form = g

RegisterStore(w, i) ==
    LET f == formJob[w].form
        p == FormPhone[f] IN
    /\ FormAt(w, "store")
    /\ StoredIn(i, w)
    /\ pending' = [pending EXCEPT ![i] = [status |-> "OPEN", form |-> f]]
    /\ IF ByPhone(f)
       THEN FormGo(w, "code", f, i, Nothing) /\ UNCHANGED mailed
       ELSE FormReturn(w) /\ mailed' = mailed \cup {<<i, f>>}
    /\ mixed' = IF ByPhone(f) /\ \E g \in Form \ {f} : FormPhone[g] = p /\ InPlay(g)
                THEN mixed \cup {p} ELSE mixed
    /\ UNCHANGED <<account, signupCode>>

(* The code of a phone: none if one was sent a moment ago; otherwise it    *)
(* uses up the codes before it, and may fail to be sent.                   *)
RegisterCode(w, sent) ==
    LET f == formJob[w].form
        p == FormPhone[f] IN
    /\ FormAt(w, "code")
    /\ \/ signupCode' = [signupCode EXCEPT ![p] = IF sent THEN f ELSE Nothing]
       \/ signupCode[p] # Nothing /\ UNCHANGED signupCode
    /\ FormReturn(w)
    /\ UNCHANGED <<account, pending, mailed, mixed>>

-------------------------------------------------------------------------------
(* Fault: the row is looked up without the token.                          *)
VerifyEmailAnyToken(w, i, g, expired) ==
    LET f == pending[i].form IN
    /\ FormAt(w, "idle")
    /\ <<i, g>> \in mailed
    /\ Open(i)
    /\ ~ByPhone(f)
    /\ \A a \in Account : account[a].row # i
    /\ FormGo(w, IF expired \/ Taken(f) THEN "drop" ELSE "create", g, i, f)
    /\ UNCHANGED <<account, pending, mailed, signupCode, mixed>>

(* verify_email_registration.  The link names a row and a token; a link    *)
(* that is too old deletes the row.                                        *)
VerifyEmail(w, i, g, expired) ==
    /\ FormAt(w, "idle")
    /\ <<i, g>> \in mailed
    /\ Open(i)
    /\ pending[i].form = g
    /\ ~ByPhone(g)
    /\ \A a \in Account : account[a].row # i
    /\ FormGo(w, IF expired \/ Taken(g) THEN "drop" ELSE "create", g, i, g)
    /\ UNCHANGED <<account, pending, mailed, signupCode, mixed>>

(* verify_phone_registration: the code is used up, then the newest         *)
(* registration of the phone is looked for.                                *)
VerifyPhone(w, p) ==
    /\ FormAt(w, "idle")
    /\ signupCode[p] # Nothing
    /\ signupCode' = [signupCode EXCEPT ![p] = Nothing]
    /\ FormGo(w, "confirm", signupCode[p], 0, Nothing)
    /\ UNCHANGED <<account, pending, mailed, mixed>>

ConfirmPhone(w, i) ==
    /\ FormAt(w, "confirm")
    /\ Newest(i, FormPhone[formJob[w].form])
    /\ FormGo(w, IF Taken(pending[i].form) THEN "drop" ELSE "create",
              formJob[w].form, i, pending[i].form)
    /\ UNCHANGED <<account, pending, mailed, signupCode, mixed>>

(* The account is inserted as the registration was read.  The database     *)
(* refuses a second one: with an e-mail link the registration goes, with a *)
(* code the request fails.                                                 *)
Insert(w, a) ==
    LET i == formJob[w].row
        f == formJob[w].read
        refused == Taken(f) \/ \E b \in Account : account[b].row = i IN
    /\ FormAt(w, "create")
    /\ NextAccount(a)
    /\ account' = IF refused THEN account
                  ELSE [account EXCEPT ![a] =
                      [form |-> f, row |-> i, email |-> FormEmail[f],
                       phone |-> FormPhone[f], confirmed |-> formJob[w].form]]
    /\ IF refused /\ ByPhone(f)
       THEN FormReturn(w)
       ELSE FormGo(w, "drop", Nothing, i, Nothing)
    /\ UNCHANGED <<pending, mailed, signupCode, mixed>>

(* The registration is deleted by its key, whatever it contains by now.    *)
Drop(w) ==
    /\ FormAt(w, "drop")
    /\ pending' = [pending EXCEPT ![formJob[w].row].status = "GONE"]
    /\ FormReturn(w)
    /\ UNCHANGED <<account, mailed, signupCode, mixed>>

-------------------------------------------------------------------------------
(* The callback of Google creates an account of an address nobody has;     *)
(* of two that try, the database lets one, and the other logs in.          *)
GoogleSignup(a, e) ==
    /\ NextAccount(a)
    /\ ~EmailTaken(e)
    /\ account' = [account EXCEPT ![a] = [NoAccount EXCEPT !.email = e]]
    /\ UNCHANGED <<pending, mailed, signupCode, formJob, mixed>>

SignupCodeExpires(p) ==
    /\ signupCode[p] # Nothing
    /\ signupCode' = [signupCode EXCEPT ![p] = Nothing]
    /\ UNCHANGED <<account, pending, mailed, formJob, mixed>>

(* The request is refused or fails, or its worker is killed.               *)
FormAbort(w) ==
    /\ ~FormAt(w, "idle")
    /\ FormReturn(w)
    /\ UNCHANGED <<account, pending, mailed, signupCode, mixed>>

RegistrationNext ==
    \/ \E w \in FormWorker :
          \/ \E f \in Form : RegisterRead(w, f)
          \/ \E i \in Pending : RegisterStore(w, i) \/ ConfirmPhone(w, i)
          \/ \E i \in Pending, g \in Form, expired \in BOOLEAN :
                VerifyEmail(w, i, g, expired)
          \/ \E sent \in BOOLEAN : RegisterCode(w, sent)
          \/ \E p \in Phone : VerifyPhone(w, p)
          \/ \E a \in Account : Insert(w, a)
          \/ Drop(w)
          \/ FormAbort(w)
    \/ \E a \in Account, e \in Email : GoogleSignup(a, e)
    \/ \E p \in Phone : SignupCodeExpires(p)

RegistrationSpec == RegistrationInit /\ [][RegistrationNext]_formVars

-------------------------------------------------------------------------------
(* Properties.                                                             *)

(* Whoever confirms a registration gets the account he asked for, with his *)
(* password and address, unless someone else's registration of the same    *)
(* phone was stored before the code was entered.                           *)
ConfirmedAsSubmitted ==
    \A a \in Account :
        account[a].form # Nothing =>
            \/ account[a].form = account[a].confirmed
            \/ account[a].phone \in mixed
===============================================================================
