-------------------------------- MODULE Profile --------------------------------
(***************************************************************************)
(* The columns of an account its owner changes: login, logout, profile,    *)
(* e-mail address, phone number and password (accounts/api/views.py and    *)
(* serializers.py, accounts/authentication.py, accounts/services_legacy.py)*)
(*                                                                         *)
(* A request that needs a login reads the row of the user when it is       *)
(* authenticated.  Updating the profile and logging out save every column  *)
(* of the row as it was read; the others save the columns they change.     *)
(* Nothing is locked; the database keeps addresses and phones unique.      *)
(*                                                                         *)
(* A password is known by the time it was set.  A code is entered in one   *)
(* step here (see OneTimeCode).                                            *)
(***************************************************************************)
EXTENDS Integers

CONSTANTS
    Owner,          \* the users
    Address,        \* e-mail addresses
    Number,         \* phone numbers
    MaxClock,       \* bound of the model: the time, in seconds
    MaxLink,        \* bound of the model: the links ever sent to addresses
    OwnerWorker,    \* the requests in flight at a time
    NoContact

Clock == 0 .. MaxClock
Link == 1 .. MaxLink

ASSUME ProfileAssumption ==
    /\ NoContact \notin Owner \cup Address \cup Number
    /\ MaxClock \in Nat
    /\ MaxLink \in Nat

VARIABLES
    profile,    \* the CustomUsers
    tokens,     \* the times (iat) of the access tokens of each user
    clock,
    link,       \* the EmailUpdateVerifications
    numberCode, \* the valid PHONE_UPDATE codes
    resetToken, \* the users with a valid PasswordResetToken
    ownerJob,   \* the request each worker is handling
    decided,    \* history: the password and last_logout last asked for
    proven,     \* history: the contacts of the signup, and those whose holder
                \* answered
    stale       \* history: the users whose row was saved as read before
                \* somebody had changed its password or last_logout

mail == <<link, numberCode, resetToken>>
profileHistory == <<decided, proven, stale>>
profileVars == <<profile, tokens, clock, mail, ownerJob, profileHistory>>

-------------------------------------------------------------------------------
Secret == [password : Clock, last_logout : Clock]

ProfileRow == [email       : Address \cup {NoContact},
               phone       : Number \cup {NoContact},
               password    : Clock,
               last_logout : Clock]

LinkRow == [status : {"UNSENT", "OPEN", "USED"},
            owner  : Owner \cup {NoContact},
            email  : Address \cup {NoContact}]

OwnerJob == [step  : {"idle", "read", "link", "email", "close", "phone", "reset",
                      "spend"},
             owner : Owner \cup {NoContact},
             row   : ProfileRow,
             to    : Address \cup Number \cup {NoContact}]

NoRow == [email |-> NoContact, phone |-> NoContact, password |-> 0,
          last_logout |-> 0]
NoLink == [status |-> "UNSENT", owner |-> NoContact, email |-> NoContact]
OwnerIdle == [step |-> "idle", owner |-> NoContact, row |-> NoRow,
              to |-> NoContact]

ProfileTypeOK ==
    /\ profile \in [Owner -> ProfileRow]
    /\ tokens \in [Owner -> SUBSET Clock]
    /\ clock \in Clock
    /\ link \in [Link -> LinkRow]
    /\ numberCode \subseteq Owner \X Number
    /\ resetToken \subseteq Owner
    /\ ownerJob \in [OwnerWorker -> OwnerJob]
    /\ decided \in [Owner -> Secret]
    /\ proven \subseteq Owner \X (Address \cup Number)
    /\ stale \subseteq Owner

EmailOfOther(u, e) == \E v \in Owner \ {u} : profile[v].email = e
PhoneOfOther(u, p) == \E v \in Owner \ {u} : profile[v].phone = p

(* Users signed up with an address, a phone or both (see Registration).    *)
SignedUp ==
    {row \in ProfileRow : /\ row.email # NoContact \/ row.phone # NoContact
                          /\ row.password = 0
                          /\ row.last_logout = 0}

ProfileInit ==
    /\ profile \in [Owner -> SignedUp]
    /\ \A u \in Owner, e \in Address : profile[u].email = e => ~EmailOfOther(u, e)
    /\ \A u \in Owner, p \in Number : profile[u].phone = p => ~PhoneOfOther(u, p)
    /\ tokens = [u \in Owner |-> {}]
    /\ clock = 0
    /\ link = [l \in Link |-> NoLink]
    /\ numberCode = {}
    /\ resetToken = {}
    /\ ownerJob = [w \in OwnerWorker |-> OwnerIdle]
    /\ decided = [u \in Owner |-> [password |-> 0, last_logout |-> 0]]
    /\ proven = {x \in Owner \X (Address \cup Number) :
          x[2] \in {profile[x[1]].email, profile[x[1]].phone}}
    /\ stale = {}

-------------------------------------------------------------------------------
OwnerAt(w, step) == ownerJob[w].step = step
OwnerGo(w, step, u, c) ==
    ownerJob' = [ownerJob EXCEPT ![w] =
        [step |-> step, owner |-> u, row |-> profile[u], to |-> c]]
OwnerStep(w, step, c) ==
    ownerJob' = [ownerJob EXCEPT ![w].step = step, ![w].to = c]
OwnerReturn(w) == ownerJob' = [ownerJob EXCEPT ![w] = OwnerIdle]

SecretOf(row) == [password |-> row.password, last_logout |-> row.last_logout]

(* user.save(): every column, unless a contact has become another user's.  *)
SaveRow(u, row) ==
    /\ row.email # NoContact => ~EmailOfOther(u, row.email)
    /\ row.phone # NoContact => ~PhoneOfOther(u, row.phone)
    /\ profile' = [profile EXCEPT ![u] = row]

-------------------------------------------------------------------------------
(* A login gives a token of this second.                                   *)
TokenFor(u) ==
    /\ tokens' = [tokens EXCEPT ![u] = @ \cup {clock}]
    /\ UNCHANGED <<profile, clock, mail, ownerJob, profileHistory>>

(* LoginSerializer and EmailPhoneBackend.                                  *)
LoginByPassword(u) ==
    /\ profile[u].email # NoContact \/ profile[u].phone # NoContact
    /\ TokenFor(u)

LoginByCode(u) ==
    /\ profile[u].phone # NoContact
    /\ TokenFor(u)

(* By Google's identity, which the first login binds to the address.       *)
LoginByGoogle(u) ==
    /\ profile[u].email # NoContact
    /\ TokenFor(u)

(* Tokens from before the second of the last logout are refused.           *)
Authenticate(w, u) ==
    /\ OwnerAt(w, "idle")
    /\ \E t \in tokens[u] : t >= profile[u].last_logout
    /\ OwnerGo(w, "read", u, NoContact)
    /\ UNCHANGED <<profile, tokens, clock, mail, profileHistory>>

(* UpdateProfileSerializer.update: the names change, the rest is saved as  *)
(* it was read.                                                            *)
UpdateProfile(w) ==
    LET u == ownerJob[w].owner
        row == ownerJob[w].row IN
    /\ OwnerAt(w, "read")
    /\ SaveRow(u, row)
    /\ stale' = IF SecretOf(row) # SecretOf(profile[u]) THEN stale \cup {u}
                                                        ELSE stale
    /\ OwnerReturn(w)
    /\ UNCHANGED <<tokens, clock, mail, decided, proven>>

(* LogoutSerializer.save.                                                  *)
Logout(w) ==
    LET u == ownerJob[w].owner
        row == ownerJob[w].row IN
    /\ OwnerAt(w, "read")
    /\ SaveRow(u, [row EXCEPT !.last_logout = clock])
    /\ stale' = IF row.password # profile[u].password THEN stale \cup {u}
                                                      ELSE stale
    /\ decided' = [decided EXCEPT ![u].last_logout = clock]
    /\ OwnerReturn(w)
    /\ UNCHANGED <<tokens, clock, mail, proven>>

-------------------------------------------------------------------------------
(* create_email_update_verification: a user without an address gets a      *)
(* link, and those sent before are used up.                                *)
RequestEmail(w, e) ==
    LET u == ownerJob[w].owner IN
    /\ OwnerAt(w, "read")
    /\ ownerJob[w].row.email = NoContact
    /\ ~EmailOfOther(u, e)
    /\ link' = [l \in Link |-> IF link[l].status = "OPEN" /\ link[l].owner = u
                               THEN [link[l] EXCEPT !.status = "USED"]
                               ELSE link[l]]
    /\ OwnerStep(w, "link", e)
    /\ UNCHANGED <<profile, tokens, clock, numberCode, resetToken, profileHistory>>

SendLink(w, l) ==
    /\ OwnerAt(w, "link")
    /\ link[l].status = "UNSENT"
    /\ \A k \in Link : link[k].status = "UNSENT" => l <= k
    /\ link' = [link EXCEPT ![l] = [status |-> "OPEN", owner |-> ownerJob[w].owner,
                                    email |-> ownerJob[w].to]]
    /\ OwnerReturn(w)
    /\ UNCHANGED <<profile, tokens, clock, numberCode, resetToken, profileHistory>>

(* verify_email_update: an open link of a user without an address.         *)
VerifyEmailUpdate(w, l) ==
    LET u == link[l].owner IN
    /\ OwnerAt(w, "idle")
    /\ link[l].status = "OPEN"
    /\ IF profile[u].email # NoContact \/ EmailOfOther(u, link[l].email)
       THEN /\ link' = [link EXCEPT ![l].status = "USED"]
            /\ UNCHANGED <<ownerJob, proven>>
       ELSE /\ OwnerGo(w, "email", u, link[l].email)
            /\ proven' = proven \cup {<<u, link[l].email>>}
            /\ UNCHANGED link
    /\ UNCHANGED <<profile, tokens, clock, numberCode, resetToken, decided, stale>>

SaveEmail(w) ==
    LET u == ownerJob[w].owner
        e == ownerJob[w].to IN
    /\ OwnerAt(w, "email")
    /\ ~EmailOfOther(u, e)
    /\ profile' = [profile EXCEPT ![u].email = e]
    /\ OwnerStep(w, "close", e)
    /\ UNCHANGED <<tokens, clock, mail, profileHistory>>

(* The link and all others of the user are used up.                        *)
CloseLinks(w) ==
    /\ OwnerAt(w, "close")
    /\ link' = [l \in Link |->
          IF link[l].status = "OPEN" /\ link[l].owner = ownerJob[w].owner
          THEN [link[l] EXCEPT !.status = "USED"]
          ELSE link[l]]
    /\ OwnerReturn(w)
    /\ UNCHANGED <<profile, tokens, clock, numberCode, resetToken, profileHistory>>

-------------------------------------------------------------------------------
(* A user without a phone gets a code for one; the codes before are used   *)
(* up.                                                                     *)
RequestPhone(w, p) ==
    LET u == ownerJob[w].owner IN
    /\ OwnerAt(w, "read")
    /\ ownerJob[w].row.phone = NoContact
    /\ ~PhoneOfOther(u, p)
    /\ numberCode' = {c \in numberCode : c[1] # u} \cup {<<u, p>>}
    /\ OwnerReturn(w)
    /\ UNCHANGED <<profile, tokens, clock, link, resetToken, profileHistory>>

(* Fault: the code is looked up by the user, not by user and phone.        *)
VerifyPhoneAnyCode(w, p) ==
    LET u == ownerJob[w].owner IN
    /\ OwnerAt(w, "read")
    /\ \E c \in numberCode : c[1] = u
    /\ ~PhoneOfOther(u, p)
    /\ numberCode' = {c \in numberCode : c[1] # u}
    /\ OwnerStep(w, "phone", p)
    /\ UNCHANGED <<profile, tokens, clock, link, resetToken, profileHistory>>

(* VerifyPhoneUpdateOTPAPIView: the code is used up, then the phone saved. *)
(* Whether the user has got a phone by now is not asked.                   *)
VerifyPhoneUpdate(w, p) ==
    LET u == ownerJob[w].owner IN
    /\ OwnerAt(w, "read")
    /\ <<u, p>> \in numberCode
    /\ ~PhoneOfOther(u, p)
    /\ numberCode' = numberCode \ {<<u, p>>}
    /\ proven' = proven \cup {<<u, p>>}
    /\ OwnerStep(w, "phone", p)
    /\ UNCHANGED <<profile, tokens, clock, link, resetToken, decided, stale>>

(* Fault: save() without update_fields.                                    *)
SavePhoneRow(w) ==
    LET u == ownerJob[w].owner IN
    /\ OwnerAt(w, "phone")
    /\ SaveRow(u, [ownerJob[w].row EXCEPT !.phone = ownerJob[w].to])
    /\ OwnerReturn(w)
    /\ UNCHANGED <<tokens, clock, mail, profileHistory>>

SavePhone(w) ==
    LET u == ownerJob[w].owner
        p == ownerJob[w].to IN
    /\ OwnerAt(w, "phone")
    /\ ~PhoneOfOther(u, p)
    /\ profile' = [profile EXCEPT ![u].phone = p]
    /\ OwnerReturn(w)
    /\ UNCHANGED <<tokens, clock, mail, profileHistory>>

-------------------------------------------------------------------------------
(* create_password_reset_token; ForgotPasswordView and the e-mail branch   *)
(* of UnifiedPasswordResetView.                                            *)
ForgotPassword(u) ==
    /\ profile[u].email # NoContact
    /\ resetToken' = resetToken \cup {u}
    /\ UNCHANGED <<profile, tokens, clock, link, numberCode, ownerJob,
                   profileHistory>>

(* UnifiedPasswordResetSerializer: with a token, or logged in.             *)
ResetWithToken(w, u) ==
    /\ OwnerAt(w, "idle")
    /\ u \in resetToken
    /\ OwnerGo(w, "reset", u, NoContact)
    /\ UNCHANGED <<profile, tokens, clock, mail, profileHistory>>

ResetLoggedIn(w) ==
    /\ OwnerAt(w, "read")
    /\ OwnerStep(w, "reset", NoContact)
    /\ UNCHANGED <<profile, tokens, clock, mail, profileHistory>>

(* AuthService.reset_password: two columns.                                *)
ResetPassword(w) ==
    LET u == ownerJob[w].owner IN
    /\ OwnerAt(w, "reset")
    /\ profile' = [profile EXCEPT ![u].password = clock, ![u].last_logout = clock]
    /\ decided' = [decided EXCEPT ![u] =
          [password |-> clock, last_logout |-> clock]]
    /\ OwnerStep(w, "spend", NoContact)
    /\ UNCHANGED <<tokens, clock, mail, proven, stale>>

SpendTokens(w) ==
    /\ OwnerAt(w, "spend")
    /\ resetToken' = resetToken \ {ownerJob[w].owner}
    /\ OwnerReturn(w)
    /\ UNCHANGED <<profile, tokens, clock, link, numberCode, profileHistory>>

-------------------------------------------------------------------------------
Second ==
    /\ clock < MaxClock
    /\ clock' = clock + 1
    /\ UNCHANGED <<profile, tokens, mail, ownerJob, profileHistory>>

(* A link, code or token is used up or expires unused.                     *)
Expire ==
    /\ \/ /\ \E l \in Link : /\ link[l].status = "OPEN"
                             /\ link' = [link EXCEPT ![l].status = "USED"]
          /\ UNCHANGED <<numberCode, resetToken>>
       \/ /\ \E c \in numberCode : numberCode' = numberCode \ {c}
          /\ UNCHANGED <<link, resetToken>>
       \/ /\ \E u \in resetToken : resetToken' = resetToken \ {u}
          /\ UNCHANGED <<link, numberCode>>
    /\ UNCHANGED <<profile, tokens, clock, ownerJob, profileHistory>>

(* The request is refused or fails, or its worker is killed.               *)
OwnerAbort(w) ==
    /\ ~OwnerAt(w, "idle")
    /\ OwnerReturn(w)
    /\ UNCHANGED <<profile, tokens, clock, mail, profileHistory>>

ProfileNext ==
    \/ \E w \in OwnerWorker :
          \/ \E u \in Owner : Authenticate(w, u) \/ ResetWithToken(w, u)
          \/ UpdateProfile(w)
          \/ Logout(w)
          \/ \E e \in Address : RequestEmail(w, e)
          \/ \E l \in Link : SendLink(w, l) \/ VerifyEmailUpdate(w, l)
          \/ SaveEmail(w)
          \/ CloseLinks(w)
          \/ \E p \in Number : RequestPhone(w, p) \/ VerifyPhoneUpdate(w, p)
          \/ SavePhone(w)
          \/ ResetLoggedIn(w)
          \/ ResetPassword(w)
          \/ SpendTokens(w)
          \/ OwnerAbort(w)
    \/ \E u \in Owner :
          LoginByPassword(u) \/ LoginByCode(u) \/ LoginByGoogle(u) \/ ForgotPassword(u)
    \/ Second
    \/ Expire

ProfileSpec == ProfileInit /\ [][ProfileNext]_profileVars

-------------------------------------------------------------------------------
(* Properties.                                                             *)

(* A password that was reset, and the end of the sessions that goes with   *)
(* it or with a logout, stand whatever else is changed at the time, unless *)
(* a profile update or a logout had read the row before.                   *)
ResetHolds ==
    \A u \in Owner : u \in stale \/ SecretOf(profile[u]) = decided[u]

(* An account has no address and no phone but those it was created with    *)
(* and those that their holder confirmed, in whatever order requests and   *)
(* confirmations come.                                                     *)
ContactsProven ==
    \A u \in Owner : \A c \in {profile[u].email, profile[u].phone} :
        c = NoContact \/ <<u, c>> \in proven
===============================================================================
