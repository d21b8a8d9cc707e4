------------------------------ MODULE MCAccounts ------------------------------
(* Instances of OneTimeCode, Registration, Profile, AddressBook and        *)
(* Conversations for TLC.  They share no variable: a behaviour is one of   *)
(* one of them, chosen at the start.                                       *)
EXTENDS OneTimeCode, Registration, Profile, AddressBook, Conversations, TLC

CONSTANTS w1, w2,                       \* the workers
          login, phone, signup, deletion, switch, completion,   \* subjects
          f1, f2, f3, f4, e1, e2, p1,   \* forms, their contacts
          u1, n1, n2,                   \* a user, phone numbers
          l1, l2, l3,                   \* addresses
          c1, m1                        \* a call, a message

VARIABLE part

vars == <<codeVars, formVars, profileVars, placeVars, talkVars, part>>

-------------------------------------------------------------------------------
(* A login and a deletion of one user, a phone update and a switch of      *)
(* others, a signup and the completion of a booking.                       *)
MCKindOf == login :> "login" @@ phone :> "phone" @@ signup :> "signup"
                @@ deletion :> "deletion" @@ switch :> "switch"
                @@ completion :> "completion"
MCUserOf == [s \in Subject |-> IF s = deletion THEN login ELSE s]

(* Two forms with one phone, one of them with an address, and two forms    *)
(* with another address.                                                   *)
MCFormEmail == f1 :> e1 @@ f2 :> Nothing @@ f3 :> e2 @@ f4 :> e2
MCFormPhone == f1 :> p1 @@ f2 :> p1 @@ f3 :> Nothing @@ f4 :> Nothing

-------------------------------------------------------------------------------
(* What a property no longer covers is not explored further, and codes for *)
(* different users are not mixed: they have nothing to do with each other; *)
(* nor are a call and a message.                                           *)
SubjectsInUse ==
    crowded \cup {code[c].subject : c \in Code}
        \cup {codeJob[w].subject : w \in CodeWorker}

Bound ==
    /\ \A c \in overlapped : missed[c] <= MaxAttempts /\ accepted[c] <= 1
    /\ \A s, t \in SubjectsInUse \ {NoSubject} :
          \/ s = t
          \/ UserOf[s] = UserOf[t] /\ \E w \in CodeWorker : CodeAt(w, "idle")
    /\ stale = {}
    /\ hurried = {}
    /\ crossed \subseteq Call
    /\ (call[c1] = NoCall /\ heard[c1] = {}) \/ ~message[m1].sent

(* Codes grow older while a worker is idle.                                *)
AgeWhenQuiet ==
    (\E c \in Code : code'[c].age # code[c].age)
        => \E w \in CodeWorker : CodeAt(w, "idle")

Symmetry == Permutations({w1, w2})

-------------------------------------------------------------------------------
Init ==
    /\ CodesInit
    /\ RegistrationInit
    /\ ProfileInit
    /\ PlacesInit
    /\ TalksInit
    /\ part \in {"codes", "registration", "profile", "places", "talks"}
    /\ part # "profile" => profile[u1] = [NoRow EXCEPT !.phone = n1]

Next ==
    \/ /\ part = "codes"
       /\ CodesNext
       /\ UNCHANGED <<formVars, profileVars, placeVars, talkVars, part>>
    \/ /\ part = "registration"
       /\ RegistrationNext
       /\ UNCHANGED <<codeVars, profileVars, placeVars, talkVars, part>>
    \/ /\ part = "profile"
       /\ ProfileNext
       /\ UNCHANGED <<codeVars, formVars, placeVars, talkVars, part>>
    \/ /\ part = "places"
       /\ PlacesNext
       /\ UNCHANGED <<codeVars, formVars, profileVars, talkVars, part>>
    \/ /\ part = "talks"
       /\ TalksNext
       /\ UNCHANGED <<codeVars, formVars, profileVars, placeVars, part>>

Spec == Init /\ [][Next]_vars

(* Type correctness of the components: the rows and the requests in flight *)
(* are what the code can make of them.                                     *)
TypeOK ==
    /\ part = "codes" => CodesTypeOK
    /\ part = "registration" => RegistrationTypeOK
    /\ part = "profile" => ProfileTypeOK
    /\ part = "places" => PlacesTypeOK
    /\ part = "talks" => TalksTypeOK
===============================================================================
