------------------------------- MODULE Business -------------------------------
(***************************************************************************)
(* From a user to a business and back: BusinessApplicationService,         *)
(* BusinessUpgradeService, BusinessDeletionService and                     *)
(* BusinessSwitchToUserService (business/services.py), their serializers   *)
(* and views, and the saves of a profile by its owner and by an admin.     *)
(*                                                                         *)
(* A user applies with the documents that his type of business needs; an   *)
(* admin approves (the user becomes a BUSINESS with a profile) or rejects. *)
(* A business asks to change its type; on approval the documents of the    *)
(* request are laid over those of the application.  It may switch back to  *)
(* a user: the documents are archived and the profile is deactivated.      *)
(*                                                                         *)
(* Decisions are transactions, but they decide on the status of a row that *)
(* was read before, and lock nothing before they write.  A request to      *)
(* change the type is stored in two statements.                            *)
(***************************************************************************)
EXTENDS Integers, FiniteSets

CONSTANTS
    Trader,         \* the users
    BusinessType,
    MaxApplication, MaxBusiness, MaxUpgrade,    \* bounds of the model
    BusinessWorker, \* the requests in flight at a time
    NoTrader

Application == 1 .. MaxApplication
Profile_ == 1 .. MaxBusiness
Upgrade == 1 .. MaxUpgrade

(* "person": a complete PAN or Aadhaar, which an individual needs; "firm": *)
(* the other of them, a registration and the three photos.                 *)
Document == {"person", "firm"}

ASSUME BusinessAssumption ==
    /\ "INDIVIDUAL" \in BusinessType
    /\ BusinessType \subseteq {"INDIVIDUAL", "COMPANY", "INVESTOR"}
    /\ NoTrader \notin Trader
    /\ MaxApplication \in Nat /\ MaxBusiness \in Nat /\ MaxUpgrade \in Nat

VARIABLES
    trader,         \* the columns of CustomUser that the services change
    application,    \* the BusinessApplications, each with its identity
    business,       \* the BusinessProfiles
    upgrade,        \* the BusinessUpgradeRequests
    businessJob,    \* the request each worker is handling
    contested,      \* history: the users with two requests about their
                    \* applications, or about switching, at a time
    returned,       \* history: the users that switched back
    overridden,     \* history: the users with a profile an admin saved
    torn            \* history: the users of whom a request to change the type
                    \* was granted before its documents were stored

businessHistory == <<contested, returned, overridden, torn>>
businessVars == <<trader, application, business, upgrade, businessJob,
                  businessHistory>>
-------------------------------------------------------------------------------
TraderRow == [role : {"USER", "BUSINESS"}, has_business : BOOLEAN,
              verified : BOOLEAN]

(* papers: the documents of the identity, none if it was removed.          *)
(* reviewed: the order of the approvals.                                   *)
ApplicationRow == [status   : {"UNUSED", "PENDING", "APPROVED", "REJECTED"},
                   user     : Trader \cup {NoTrader},
                   type     : BusinessType,
                   papers   : SUBSET Document,
                   reviewed : Nat]

(* named: the profile has its own name, not Deleted_Business.              *)
ProfileRow_ == [owner  : Trader \cup {NoTrader},
                type   : BusinessType,
                active : BOOLEAN,
                named  : BOOLEAN]

(* stored: the documents have been stored too.                             *)
UpgradeRow == [status   : {"UNUSED", "PENDING", "APPROVED", "REJECTED"},
               business : Profile_ \cup {0},
               from     : BusinessType,
               to       : BusinessType,
               papers   : SUBSET Document,
               stored   : BOOLEAN]

(* row: the application, profile or upgrade request; profile: as it was    *)
(* read; papers, from, to: what was read or submitted.                     *)
BusinessJob == [step    : {"idle", "enter", "apply", "approve", "approving",
                           "reject", "upgrade", "request", "papers", "change",
                           "changing", "refuse", "switch", "profile"},
                trader  : Trader \cup {NoTrader},
                row     : Application \cup Profile_ \cup Upgrade \cup {0},
                read    : Application \cup {0},
                profile : ProfileRow_,
                papers  : SUBSET Document,
                to      : BusinessType]

NoBusiness == [owner |-> NoTrader, type |-> "INDIVIDUAL", active |-> FALSE,
               named |-> FALSE]
NoUpgrade == [status |-> "UNUSED", business |-> 0, from |-> "INDIVIDUAL",
              to |-> "INDIVIDUAL", papers |-> {}, stored |-> FALSE]
BusinessIdle == [step |-> "idle", trader |-> NoTrader, row |-> 0,
                 read |-> 0, profile |-> NoBusiness, papers |-> {},
                 to |-> "INDIVIDUAL"]

BusinessTypeOK ==
    /\ trader \in [Trader -> TraderRow]
    /\ application \in [Application -> ApplicationRow]
    /\ business \in [Profile_ -> ProfileRow_]
    /\ upgrade \in [Upgrade -> UpgradeRow]
    /\ businessJob \in [BusinessWorker -> BusinessJob]
    /\ contested \subseteq Trader
    /\ returned \subseteq Trader
    /\ overridden \subseteq Trader
    /\ torn \subseteq Trader

BusinessInit ==
    /\ trader = [u \in Trader |->
          [role |-> "USER", has_business |-> FALSE, verified |-> FALSE]]
    /\ application = [i \in Application |->
          [status |-> "UNUSED", user |-> NoTrader, type |-> "INDIVIDUAL",
           papers |-> {}, reviewed |-> 0]]
    /\ business = [b \in Profile_ |-> NoBusiness]
    /\ upgrade = [r \in Upgrade |-> NoUpgrade]
    /\ businessJob = [w \in BusinessWorker |-> BusinessIdle]
    /\ contested = {}
    /\ returned = {}
    /\ overridden = {}
    /\ torn = {}
-------------------------------------------------------------------------------
BusinessAt(w, step) == businessJob[w].step = step
BusinessGo(w, step) == businessJob' = [businessJob EXCEPT ![w].step = step]
BusinessBegin(w, job) == businessJob' = [businessJob EXCEPT ![w] = job]
BusinessReturn(w) == businessJob' = [businessJob EXCEPT ![w] = BusinessIdle]
JobFor(step, u, n) == [BusinessIdle EXCEPT !.step = step, !.trader = u, !.row = n]

(* Two requests about the applications or the role of u.                   *)
Contend(w, u) ==
    contested' = IF \E v \in BusinessWorker \ {w} :
                        /\ businessJob[v].trader = u
                        /\ businessJob[v].step \in {"enter", "apply", "approve",
                                                    "approving", "reject", "switch"}
                 THEN contested \cup {u} ELSE contested

(* BusinessIdentity.clean and BusinessApplicationSubmitSerializer.         *)
Complete(type, papers) ==
    IF type = "INDIVIDUAL" THEN "person" \in papers ELSE papers = Document

ApprovedOf(u) ==
    {i \in Application : application[i].user = u
                           /\ application[i].status = "APPROVED"}

(* get_current_business_identity: of the application approved last.        *)
CurrentApplication(u) ==
    {i \in ApprovedOf(u) : \A j \in ApprovedOf(u) :
        application[j].reviewed <= application[i].reviewed}

CurrentPapers(u) == UNION {application[i].papers : i \in CurrentApplication(u)}

NextReview ==
    1 + Cardinality({i \in Application : application[i].reviewed > 0})

ActiveOf(u) == {b \in Profile_ : business[b].owner = u /\ business[b].active}

(* IsApprovedBusiness, and a view that gets the active profile: there may  *)
(* be only one.                                                            *)
ApprovedBusiness(u, b) == trader[u].role = "BUSINESS" /\ ActiveOf(u) = {b}
-------------------------------------------------------------------------------
(* Applying.  The role is the one read when the request was authenticated. *)
ApplyEnter(w, u) ==
    /\ BusinessAt(w, "idle")
    /\ trader[u].role = "USER"
    /\ BusinessBegin(w, JobFor("enter", u, 0))
    /\ Contend(w, u)
    /\ UNCHANGED <<trader, application, business, upgrade, returned, overridden,
                   torn>>

ApplyCheck(w) ==
    /\ BusinessAt(w, "enter")
    /\ \A i \in Application : ~(/\ application[i].user = businessJob[w].trader
                                /\ application[i].status = "PENDING")
    /\ BusinessGo(w, "apply")
    /\ UNCHANGED <<trader, application, business, upgrade, businessHistory>>

(* The application, its identity and its bank account in one transaction.  *)
ApplyCommit(w, i, type, papers) ==
    LET u == businessJob[w].trader IN
    /\ BusinessAt(w, "apply")
    /\ Complete(type, papers)
    /\ application[i].status = "UNUSED"
    /\ \A j \in Application : application[j].status = "UNUSED" => i <= j
    /\ application' = [application EXCEPT ![i] =
          [@ EXCEPT !.status = "PENDING", !.user = u, !.type = type,
                    !.papers = papers]]
    /\ trader' = [trader EXCEPT ![u].has_business = TRUE, ![u].verified = FALSE]
    /\ BusinessReturn(w)
    /\ UNCHANGED <<business, upgrade, businessHistory>>

(* The admin's view reads the application before the transaction.          *)
ApproveRead(w, i) ==
    /\ BusinessAt(w, "idle")
    /\ application[i].status = "PENDING"
    /\ BusinessBegin(w, JobFor("approve", application[i].user, i))
    /\ Contend(w, application[i].user)
    /\ UNCHANGED <<trader, application, business, upgrade, returned, overridden,
                   torn>>

ApproveCheck(w) ==
    LET i == businessJob[w].row IN
    /\ BusinessAt(w, "approve")
    /\ Complete(application[i].type, application[i].papers)
    /\ trader[businessJob[w].trader].role = "USER"
    /\ BusinessGo(w, "approving")
    /\ UNCHANGED <<trader, application, business, upgrade, businessHistory>>

(* The user's row is written first, so the rest is done under its lock.  A *)
(* profile of that type is taken as it is, inactive and renamed or not;    *)
(* with two of them the transaction fails.                                 *)
ApproveCommit(w) ==
    LET u == businessJob[w].trader
        i == businessJob[w].row
        type == application[i].type
        existing == {b \in Profile_ : business[b].owner = u
                                        /\ business[b].type = type} IN
    /\ BusinessAt(w, "approving")
    /\ trader' = [trader EXCEPT ![u] =
          [role |-> "BUSINESS", has_business |-> TRUE, verified |-> TRUE]]
    /\ application' = [application EXCEPT ![i].status = "APPROVED",
                                          ![i].reviewed = NextReview]
    /\ \/ Cardinality(existing) = 1 /\ UNCHANGED business
       \/ /\ existing = {}
          /\ \E b \in Profile_ :
                /\ business[b].owner = NoTrader
                /\ \A c \in Profile_ : business[c].owner = NoTrader => b <= c
                /\ business' = [business EXCEPT ![b] =
                      [owner |-> u, type |-> type, active |-> TRUE,
                       named |-> TRUE]]
    /\ BusinessReturn(w)
    /\ UNCHANGED <<upgrade, businessHistory>>

(* Fault: an application that was decided is rejected.                     *)
RejectReadAny(w, i) ==
    /\ BusinessAt(w, "idle")
    /\ application[i].status # "UNUSED"
    /\ BusinessBegin(w, JobFor("reject", application[i].user, i))
    /\ Contend(w, application[i].user)
    /\ UNCHANGED <<trader, application, business, upgrade, returned, overridden,
                   torn>>

RejectRead(w, i) ==
    /\ BusinessAt(w, "idle")
    /\ application[i].status = "PENDING"
    /\ BusinessBegin(w, JobFor("reject", application[i].user, i))
    /\ Contend(w, application[i].user)
    /\ UNCHANGED <<trader, application, business, upgrade, returned, overridden,
                   torn>>

RejectCommit(w) ==
    LET u == businessJob[w].trader IN
    /\ BusinessAt(w, "reject")
    /\ application' = [application EXCEPT ![businessJob[w].row].status = "REJECTED"]
    /\ trader' = [trader EXCEPT ![u].has_business = TRUE, ![u].verified = FALSE]
    /\ BusinessReturn(w)
    /\ UNCHANGED <<business, upgrade, businessHistory>>
-------------------------------------------------------------------------------
(* Asking for another type.  What is submitted must complete what the      *)
(* business has; if it stays or becomes an individual, nothing is asked.   *)
UpgradeValid(u, from, to, papers) ==
    /\ to # from
    /\ to # "INDIVIDUAL" => Complete(to, CurrentPapers(u) \cup papers)

UpgradeEnter(w, b, to, papers) ==
    LET u == business[b].owner IN
    /\ BusinessAt(w, "idle")
    /\ u # NoTrader
    /\ ApprovedBusiness(u, b)
    /\ UpgradeValid(u, business[b].type, to, papers)
    /\ BusinessBegin(w, [JobFor("upgrade", u, b) EXCEPT
          !.profile = business[b], !.papers = papers, !.to = to])
    /\ UNCHANGED <<trader, application, business, upgrade, businessHistory>>

UpgradeCheck(w) ==
    /\ BusinessAt(w, "upgrade")
    /\ \A r \in Upgrade : ~(/\ upgrade[r].business = businessJob[w].row
                            /\ upgrade[r].status = "PENDING")
    /\ BusinessGo(w, "request")
    /\ UNCHANGED <<trader, application, business, upgrade, businessHistory>>

UpgradeInsert(w, r) ==
    LET job == businessJob[w] IN
    /\ BusinessAt(w, "request")
    /\ upgrade[r].status = "UNUSED"
    /\ \A s \in Upgrade : upgrade[s].status = "UNUSED" => r <= s
    /\ upgrade' = [upgrade EXCEPT ![r] =
          [NoUpgrade EXCEPT !.status = "PENDING", !.business = job.row,
                            !.from = job.profile.type, !.to = job.to]]
    /\ BusinessBegin(w, [JobFor("papers", job.trader, r) EXCEPT
          !.papers = job.papers])
    /\ UNCHANGED <<trader, application, business, businessHistory>>

UpgradePapers(w) ==
    /\ BusinessAt(w, "papers")
    /\ upgrade' = [upgrade EXCEPT ![businessJob[w].row].papers =
                                      businessJob[w].papers,
                                  ![businessJob[w].row].stored = TRUE]
    /\ BusinessReturn(w)
    /\ UNCHANGED <<trader, application, business, businessHistory>>

ChangeRead(w, r, step) ==
    /\ BusinessAt(w, "idle")
    /\ upgrade[r].status = "PENDING"
    /\ step \in {"change", "refuse"}
    /\ BusinessBegin(w, JobFor(step, business[upgrade[r].business].owner, r))
    /\ UNCHANGED <<trader, application, business, upgrade, businessHistory>>

(* Fault: the documents of the request replace those of the application.   *)
OverlayReplaced(old, new) == IF new = {} THEN old ELSE new

(* The documents submitted with the request, and the others as they are.   *)
Overlay(old, new) == old \cup new

(* The transaction reads the profile, its owner and the identity i.        *)
ChangeCheck(w, i) ==
    LET u == businessJob[w].trader
        r == businessJob[w].row
        papers == Overlay(application[i].papers, upgrade[r].papers) IN
    /\ BusinessAt(w, "change")
    /\ business[upgrade[r].business].type = upgrade[r].from
    /\ i \in CurrentApplication(u)
    /\ application[i].papers # {}
    /\ Complete(application[i].type, papers)
    /\ trader[u].role = "BUSINESS"
    /\ BusinessBegin(w, [JobFor("changing", u, r) EXCEPT
          !.read = i, !.papers = papers])
    /\ torn' = IF upgrade[r].stored THEN torn ELSE torn \cup {u}
    /\ UNCHANGED <<trader, application, business, upgrade, contested, returned,
                   overridden>>

(* The identity is saved as it was read and overlaid; if the row is gone   *)
(* it is inserted again.                                                   *)
ChangeCommit(w) ==
    LET r == businessJob[w].row IN
    /\ BusinessAt(w, "changing")
    /\ application' = [application EXCEPT ![businessJob[w].read].papers =
                                              businessJob[w].papers]
    /\ business' = [business EXCEPT ![upgrade[r].business].type = upgrade[r].to]
    /\ upgrade' = [upgrade EXCEPT ![r].status = "APPROVED"]
    /\ BusinessReturn(w)
    /\ UNCHANGED <<trader, businessHistory>>

RefuseCommit(w) ==
    /\ BusinessAt(w, "refuse")
    /\ upgrade' = [upgrade EXCEPT ![businessJob[w].row].status = "REJECTED"]
    /\ BusinessReturn(w)
    /\ UNCHANGED <<trader, application, business, businessHistory>>
-------------------------------------------------------------------------------
(* Switching back, after a password and a code.  A business with open      *)
(* bookings is refused, which here is BusinessAbort.                       *)
SwitchCheck(w, u, b) ==
    /\ BusinessAt(w, "idle")
    /\ trader[u].role = "BUSINESS"
    /\ b \in ActiveOf(u)
    /\ \A c \in ActiveOf(u) : c <= b
    /\ BusinessBegin(w, JobFor("switch", u, b))
    /\ Contend(w, u)
    /\ UNCHANGED <<trader, application, business, upgrade, returned, overridden,
                   torn>>

SwitchCommit(w) ==
    LET u == businessJob[w].trader
        b == businessJob[w].row IN
    /\ BusinessAt(w, "switch")
    /\ application' = [i \in Application |->
          IF i \in CurrentApplication(u)
          THEN [application[i] EXCEPT !.papers = {}]
          ELSE application[i]]
    /\ business' = [business EXCEPT ![b].active = FALSE, ![b].named = FALSE]
    /\ trader' = [trader EXCEPT ![u] =
          [role |-> "USER", has_business |-> FALSE, verified |-> FALSE]]
    /\ returned' = returned \cup {u}
    /\ BusinessReturn(w)
    /\ UNCHANGED <<upgrade, contested, overridden, torn>>

(* Updating a profile reads the row and saves every column: the owner      *)
(* chooses whether it is active, an admin its name and type as well.       *)
SaveRead(w, b) ==
    /\ BusinessAt(w, "idle")
    /\ business[b].owner # NoTrader
    /\ BusinessBegin(w, [JobFor("profile", business[b].owner, b) EXCEPT
          !.profile = business[b]])
    /\ UNCHANGED <<trader, application, business, upgrade, businessHistory>>

OwnerSave(w, active) ==
    /\ BusinessAt(w, "profile")
    /\ business' = [business EXCEPT ![businessJob[w].row] =
          [businessJob[w].profile EXCEPT !.active = active]]
    /\ BusinessReturn(w)
    /\ UNCHANGED <<trader, application, upgrade, businessHistory>>

AdminSave(w, active, named, type) ==
    /\ BusinessAt(w, "profile")
    /\ business' = [business EXCEPT ![businessJob[w].row] =
          [businessJob[w].profile EXCEPT !.active = active, !.named = named,
                                         !.type = type]]
    /\ overridden' = overridden \cup {businessJob[w].trader}
    /\ BusinessReturn(w)
    /\ UNCHANGED <<trader, application, upgrade, contested, returned, torn>>

(* The request is refused or fails, or its worker is killed.               *)
BusinessAbort(w) ==
    /\ ~BusinessAt(w, "idle")
    /\ BusinessReturn(w)
    /\ UNCHANGED <<trader, application, business, upgrade, businessHistory>>

BusinessNext ==
    \E w \in BusinessWorker :
        \/ \E u \in Trader : ApplyEnter(w, u)
        \/ ApplyCheck(w)
        \/ \E i \in Application, t \in BusinessType, p \in SUBSET Document :
              ApplyCommit(w, i, t, p)
        \/ \E i \in Application :
              ApproveRead(w, i) \/ RejectRead(w, i) \/ ChangeCheck(w, i)
        \/ ApproveCheck(w)
        \/ ApproveCommit(w)
        \/ RejectCommit(w)
        \/ \E b \in Profile_, t \in BusinessType, p \in SUBSET Document :
              UpgradeEnter(w, b, t, p)
        \/ UpgradeCheck(w)
        \/ \E r \in Upgrade : UpgradeInsert(w, r)
        \/ UpgradePapers(w)
        \/ \E r \in Upgrade, step \in {"change", "refuse"} : ChangeRead(w, r, step)
        \/ ChangeCommit(w)
        \/ RefuseCommit(w)
        \/ \E u \in Trader, b \in Profile_ : SwitchCheck(w, u, b)
        \/ SwitchCommit(w)
        \/ \E b \in Profile_ : SaveRead(w, b)
        \/ \E active \in BOOLEAN : OwnerSave(w, active)
        \/ \E active, named \in BOOLEAN, t \in BusinessType :
              AdminSave(w, active, named, t)
        \/ BusinessAbort(w)

BusinessSpec == BusinessInit /\ [][BusinessNext]_businessVars
-------------------------------------------------------------------------------
(* Properties.                                                             *)

(* A user is a BUSINESS exactly while he is verified, and then his last    *)
(* approved application stands with its documents, whatever is changed on  *)
(* the profile, unless two requests about his applications overlapped.     *)
BusinessApproved ==
    \A u \in Trader \ contested :
        /\ trader[u].verified <=> trader[u].role = "BUSINESS"
        /\ trader[u].role = "BUSINESS" => CurrentPapers(u) # {}

(* The business of a company has all the documents of a company, although  *)
(* it may have become one step by step; not if a request was approved      *)
(* before its documents were stored, if the owner had switched back and    *)
(* came again, or if an admin chose the type.                              *)
CompaniesDocumented ==
    \A b \in Profile_ :
        LET u == business[b].owner IN
        \/ u \in contested \cup returned \cup overridden \cup torn
        \/ business[b].type # "INDIVIDUAL" => CurrentPapers(u) = Document
===============================================================================
