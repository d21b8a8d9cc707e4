--------------------------- MODULE BusinessesProofs ---------------------------
(***************************************************************************)
(* What Business, Staff, Catalogue and Storefront guarantee for any number *)
(* of users, employees, services, pictures and concurrent requests, and    *)
(* that the instance that is model-checked is type correct for any         *)
(* constants.                                                              *)
(*                                                                         *)
(* Business. A request goes on with the user its row belongs to. What it   *)
(* found out about him still holds when it writes, if the requests about   *)
(* his applications and his role do not overlap: then he has at most one   *)
(* application to be decided, none while he is a business, and the         *)
(* application that was approved last is the one his documents come from.  *)
(* Saving his profile as an admin, or granting a change of type before its *)
(* documents are stored, is recorded and sets him aside.                   *)
(*                                                                         *)
(* Staff. A provider whose requests did not overlap has one at a time; the *)
(* slots it looked at are still free when it inserts, and the schedule it  *)
(* saves is the only one of its slot.                                      *)
(*                                                                         *)
(* Catalogue. A request saves a row that is in order as it was checked; a  *)
(* change of the business in between is recorded for the service.          *)
(*                                                                         *)
(* Storefront. While no two updates of the portfolio overlapped, the one   *)
(* under way has counted what it will add.                                 *)
(***************************************************************************)
EXTENDS MCBusinesses, FiniteSetTheorems, TLAPS

-------------------------------------------------------------------------------
(* The business of a user.                                                 *)

CoreStep == {"enter", "apply", "approve", "approving", "reject", "switch"}
Core(w, u) == businessJob[w].trader = u /\ businessJob[w].step \in CoreStep

Pending(u) == {i \in Application : application[i].user = u
                                     /\ application[i].status = "PENDING"}

(* Whose the row of a request is; the request goes on with that user.      *)
JobLinked(job) ==
    /\ job.step # "idle" => job.trader \in Trader
    /\ job.step \in {"approve", "approving", "reject"} =>
          job.row \in Application /\ application[job.row].user = job.trader
    /\ job.step \in {"upgrade", "request", "switch", "profile"} =>
          job.row \in Profile_ /\ business[job.row].owner = job.trader
    /\ job.step = "profile" => job.profile.owner = job.trader
    /\ job.step \in {"papers", "change", "changing", "refuse"} =>
          /\ job.row \in Upgrade
          /\ upgrade[job.row].status # "UNUSED"
          /\ business[upgrade[job.row].business].owner = job.trader
    /\ job.step = "changing" =>
          /\ job.read \in Application
          /\ application[job.read].user = job.trader
          /\ job.papers # {}

RowsLinked ==
    /\ \A i \in Application :
          /\ application[i].user = NoTrader <=> application[i].status = "UNUSED"
          /\ application[i].status \in {"UNUSED", "PENDING"} => application[i].reviewed = 0
    /\ \A r \in Upgrade : upgrade[r].status # "UNUSED" =>
          /\ upgrade[r].business \in Profile_
          /\ business[upgrade[r].business].owner \in Trader
    /\ \A b \in Profile_ : business[b].owner = NoTrader => business[b].type = "INDIVIDUAL"

(* What a request about u found out still holds when it writes ...         *)
JobSettled(job) ==
    /\ job.step \in {"enter", "apply"} => trader[job.trader].role = "USER"
    /\ job.step = "apply" => Pending(job.trader) = {}
    /\ job.step \in {"approve", "approving", "reject"} =>
          application[job.row].status = "PENDING"
    /\ job.step = "approving" =>
          Complete(application[job.row].type, application[job.row].papers)
    /\ job.step = "changing" => application[job.read].status = "APPROVED"

(* ... if those about his applications and his role do not overlap: he has *)
(* at most one application to be decided, none while he is a BUSINESS, and *)
(* the next approval will be the last.                                     *)
Settled(u) ==
    /\ trader[u].verified <=> trader[u].role = "BUSINESS"
    /\ trader[u].role = "BUSINESS" => CurrentPapers(u) # {} /\ Pending(u) = {}
    /\ \A i, j \in Pending(u) : i = j
    /\ \A i \in Application : application[i].user = u => application[i].reviewed < NextReview
    /\ \A v, w \in BusinessWorker : Core(v, u) /\ Core(w, u) => v = w
    /\ \A w \in BusinessWorker : businessJob[w].trader = u => JobSettled(businessJob[w])

(* One who never switched back: nothing before the first approval.         *)
Fresh(u) ==
    /\ trader[u].role = "USER" =>
          ApprovedOf(u) = {} /\ \A b \in Profile_ : business[b].owner # u
    /\ \A i, j \in ApprovedOf(u) : i = j

(* The documents there are, with those a request brings, are complete.     *)
JobDocumented(job) ==
    /\ job.step = "profile" /\ job.profile.type # "INDIVIDUAL" =>
          CurrentPapers(job.trader) = Document
    /\ job.step \in {"upgrade", "request", "papers"} =>
          CurrentPapers(job.trader) \cup job.papers = Document
    /\ job.step = "changing" => job.papers = Document

Documented(u) ==
    /\ \A b \in Profile_ : business[b].owner = u /\ business[b].type # "INDIVIDUAL" =>
          CurrentPapers(u) = Document
    /\ \A r \in Upgrade :
          /\ upgrade[r].status # "UNUSED" /\ upgrade[r].stored
          /\ business[upgrade[r].business].owner = u
          => CurrentPapers(u) \cup upgrade[r].papers = Document
    /\ \A w \in BusinessWorker : businessJob[w].trader = u => JobDocumented(businessJob[w])

Clean(u) == u \notin contested \cup returned \cup overridden \cup torn

BusinessInv ==
    /\ BusinessTypeOK
    /\ RowsLinked
    /\ \A w \in BusinessWorker : JobLinked(businessJob[w])
    /\ \A u \in Trader :
          /\ u \notin contested => Settled(u)
          /\ u \notin contested \cup returned => Fresh(u)
          /\ Clean(u) => Documented(u)

JobStep == {"idle", "enter", "apply", "approve", "approving", "reject", "upgrade",
            "request", "papers", "change", "changing", "refuse", "switch", "profile"}
JobRow == Application \cup Profile_ \cup Upgrade \cup {0}

LEMMA BusinessIdleJob ==
    /\ NoBusiness \in ProfileRow_ /\ NoUpgrade \in UpgradeRow
    /\ BusinessIdle \in BusinessJob
    /\ BusinessIdle.step = "idle" /\ BusinessIdle.trader = NoTrader
<1>1. NoBusiness \in ProfileRow_ /\ NoUpgrade \in UpgradeRow
    BY BusinessAssumption DEF NoBusiness, ProfileRow_, NoUpgrade, UpgradeRow
<1>2. QED
    BY <1>1, BusinessAssumption DEF BusinessIdle, BusinessJob

(* A request that begins is a job.                                         *)
LEMMA JobForJob ==
    ASSUME NEW step \in JobStep, NEW u \in Trader \cup {NoTrader}, NEW n \in JobRow
    PROVE  /\ JobFor(step, u, n) \in BusinessJob
           /\ JobFor(step, u, n).step = step
           /\ JobFor(step, u, n).trader = u
           /\ JobFor(step, u, n).row = n
BY BusinessIdleJob DEF JobFor, BusinessJob, JobStep, JobRow

LEMMA PapersAreDocuments ==
    ASSUME BusinessTypeOK, NEW u
    PROVE  CurrentPapers(u) \subseteq Document
BY DEF CurrentPapers, CurrentApplication, ApprovedOf, BusinessTypeOK, ApplicationRow

(* The documents of u are those of the applications that are approved.     *)
LEMMA SameApproved ==
    ASSUME NEW u,
           \A i \in Application :
              \/ application'[i] = application[i]
              \/ /\ ~(application[i].user = u /\ application[i].status = "APPROVED")
                 /\ ~(application'[i].user = u /\ application'[i].status = "APPROVED")
    PROVE  /\ ApprovedOf(u)' = ApprovedOf(u)
           /\ CurrentApplication(u)' = CurrentApplication(u)
           /\ CurrentPapers(u)' = CurrentPapers(u)
<1>1. /\ ApprovedOf(u)' = ApprovedOf(u)
      /\ \A i \in ApprovedOf(u) : application'[i] = application[i]
    BY DEF ApprovedOf
<1>2. CurrentApplication(u)' = CurrentApplication(u)
    BY <1>1 DEF CurrentApplication
<1>3. \A i \in CurrentApplication(u) : application'[i] = application[i]
    BY <1>1 DEF CurrentApplication
<1>4. QED
    BY <1>1, <1>2, <1>3 DEF CurrentPapers

(* The number of the next decision never falls.                            *)
LEMMA NextReviewGrows ==
    ASSUME \A i \in Application : application[i].reviewed > 0 => application'[i].reviewed > 0
    PROVE  /\ NextReview \in Nat \ {0} /\ NextReview' \in Nat \ {0}
           /\ NextReview <= NextReview'
<1> DEFINE S == {i \in Application : application[i].reviewed > 0}
           T == {i \in Application : application'[i].reviewed > 0}
<1>1. IsFiniteSet(Application)
  <2>1. 1 \in Int /\ MaxApplication \in Int
      BY BusinessAssumption
  <2>2. IsFiniteSet(1 .. MaxApplication)
      BY <2>1, FS_Interval
  <2>3. QED
      BY <2>2 DEF Application
<1>2. S \subseteq T /\ T \subseteq Application /\ IsFiniteSet(T) /\ IsFiniteSet(S)
    BY <1>1, FS_Subset
<1>3. Cardinality(S) \in Nat /\ Cardinality(T) \in Nat /\ Cardinality(S) <= Cardinality(T)
    BY <1>2, FS_Subset, FS_CardinalityType
<1>4. NextReview = 1 + Cardinality(S) /\ NextReview' = 1 + Cardinality(T)
    BY DEF NextReview
<1>5. QED
    BY <1>3, <1>4

LEMMA BusinessInitInv == BusinessInit => BusinessInv
<1> SUFFICES ASSUME BusinessInit PROVE BusinessInv
    OBVIOUS
<1>1. BusinessTypeOK
    BY BusinessIdleJob, BusinessAssumption
       DEF BusinessInit, BusinessTypeOK, TraderRow, ApplicationRow
<1>2. /\ \A i \in Application : /\ application[i].user = NoTrader
                                /\ application[i].status = "UNUSED"
                                /\ application[i].reviewed = 0
      /\ \A b \in Profile_ : business[b].owner = NoTrader /\ business[b].type = "INDIVIDUAL"
      /\ \A r \in Upgrade : upgrade[r].status = "UNUSED"
      /\ \A u \in Trader : trader[u].role = "USER" /\ trader[u].verified = FALSE
    BY DEF BusinessInit, NoBusiness, NoUpgrade
<1>3. \A w \in BusinessWorker : businessJob[w].step = "idle" /\ businessJob[w].trader = NoTrader
    BY BusinessIdleJob DEF BusinessInit
<1>4. RowsLinked
    BY <1>2, BusinessAssumption DEF RowsLinked
<1>5. \A w \in BusinessWorker : JobLinked(businessJob[w])
    BY <1>3 DEF JobLinked
<1>6. ASSUME NEW u \in Trader
      PROVE  Settled(u) /\ Fresh(u) /\ Documented(u)
  <2>1. u # NoTrader
      BY BusinessAssumption
  <2>2. ApprovedOf(u) = {} /\ Pending(u) = {}
      BY <1>2, <2>1 DEF ApprovedOf, Pending
  <2>3. Settled(u)
      BY <1>2, <1>3, <2>1, <2>2 DEF Settled, Core, CoreStep, JobSettled
  <2>4. Fresh(u)
      BY <1>2, <2>1, <2>2 DEF Fresh
  <2>5. Documented(u)
      BY <1>2, <1>3, <2>1 DEF Documented
  <2>6. QED
      BY <2>3, <2>4, <2>5
<1>7. QED
    BY <1>1, <1>4, <1>5, <1>6 DEF BusinessInv

(* Users, owners and what was asked for stay as they are once there.       *)
KeepsOwners ==
    /\ \A i \in Application : application[i].user # NoTrader =>
          application'[i].user = application[i].user
    /\ \A b \in Profile_ : business[b].owner # NoTrader =>
          business'[b].owner = business[b].owner
    /\ \A r \in Upgrade : upgrade[r].status # "UNUSED" =>
          upgrade'[r].status # "UNUSED" /\ upgrade'[r].business = upgrade[r].business

(* A request stays with its user while the rows stay with theirs.          *)
LEMMA LinkedKept ==
    ASSUME BusinessTypeOK, RowsLinked, KeepsOwners, NEW job, JobLinked(job)
    PROVE  JobLinked(job)'
<1>1. NoTrader \notin Trader
    BY BusinessAssumption
<1>2. CASE job.step \in {"approve", "approving", "reject"}
    BY <1>1, <1>2 DEF JobLinked, KeepsOwners
<1>3. CASE job.step \in {"upgrade", "request", "switch", "profile"}
    BY <1>1, <1>3 DEF JobLinked, KeepsOwners
<1>4. CASE job.step \in {"papers", "change", "refuse"}
    BY <1>1, <1>4 DEF JobLinked, KeepsOwners, RowsLinked
<1>5. CASE job.step = "changing"
    BY <1>1, <1>5 DEF JobLinked, KeepsOwners, RowsLinked
<1>6. CASE job.step \notin {"approve", "approving", "reject", "upgrade", "request", "switch",
                            "profile", "papers", "change", "refuse", "changing"}
    BY <1>6 DEF JobLinked
<1>7. QED
    BY <1>2, <1>3, <1>4, <1>5, <1>6

(* A request begins, goes on or ends without a write.                      *)
LEMMA BeginInv ==
    ASSUME BusinessInv, NEW w \in BusinessWorker, NEW job \in BusinessJob,
           businessJob' = [businessJob EXCEPT ![w] = job],
           UNCHANGED <<trader, application, business, upgrade, returned, overridden>>,
           torn \subseteq torn', torn' \subseteq Trader,
           JobLinked(job),
           job.trader \in Trader /\ job.trader \notin contested => JobSettled(job),
           job.trader \in Trader /\ Clean(job.trader) /\ job.trader \notin torn'
               => JobDocumented(job),
           \/ job.step \notin CoreStep /\ contested' = contested
           \/ Core(w, job.trader) /\ contested' = contested
           \/ Contend(w, job.trader) /\ job.trader \in Trader
    PROVE  BusinessInv'
<1>0. /\ BusinessTypeOK /\ RowsLinked
      /\ \A v \in BusinessWorker : JobLinked(businessJob[v])
    BY DEF BusinessInv
<1>1. /\ businessJob' \in [BusinessWorker -> BusinessJob] /\ businessJob'[w] = job
      /\ \A v \in BusinessWorker \ {w} : businessJob'[v] = businessJob[v]
    BY <1>0 DEF BusinessTypeOK
<1>2. contested \subseteq contested' /\ contested' \subseteq Trader
    BY <1>0 DEF Contend, BusinessTypeOK
<1>3. BusinessTypeOK'
    BY <1>0, <1>1, <1>2 DEF BusinessTypeOK
<1>4. RowsLinked'
    BY <1>0 DEF RowsLinked
<1>5. ASSUME NEW v \in BusinessWorker
      PROVE  JobLinked(businessJob[v])'
  <2>1. PICK j : j = businessJob'[v] /\ JobLinked(j)
      BY <1>0, <1>1
  <2>2. QED
      BY <2>1 DEF JobLinked
<1>6. ASSUME NEW u \in Trader
      PROVE  /\ ApprovedOf(u)' = ApprovedOf(u) /\ CurrentPapers(u)' = CurrentPapers(u)
             /\ Pending(u)' = Pending(u) /\ NextReview' = NextReview
  <2>1. Pending(u)' = Pending(u) /\ NextReview' = NextReview
      BY DEF Pending, NextReview
  <2>2. QED
      BY <2>1, SameApproved
<1>7. ASSUME NEW u \in Trader, u \notin contested'
      PROVE  Settled(u)'
  <2>1. Settled(u)
      BY <1>2, <1>7 DEF BusinessInv
  <2>2. \A x, y \in BusinessWorker : Core(x, u)' /\ Core(y, u)' => x = y
    <3>1. Core(w, u)' => \A x \in BusinessWorker \ {w} : ~Core(x, u)
        BY <1>1, <1>7, <2>1 DEF Settled, Core, Contend, CoreStep
    <3>2. \A x \in BusinessWorker \ {w} : Core(x, u)' => Core(x, u)
        BY <1>1 DEF Core
    <3>3. \A x, y \in BusinessWorker : Core(x, u) /\ Core(y, u) => x = y
        BY <2>1 DEF Settled
    <3>4. QED
        BY <3>1, <3>2, <3>3
  <2>3. ASSUME NEW v \in BusinessWorker, businessJob'[v].trader = u
        PROVE  JobSettled(businessJob[v])'
    <3>1. PICK j : j = businessJob'[v] /\ j.trader = u /\ JobSettled(j)
        BY <1>1, <1>2, <1>7, <2>1, <2>3 DEF Settled
    <3>2. QED
        BY <1>6, <3>1 DEF JobSettled
  <2>4. QED
      BY <1>6, <2>1, <2>2, <2>3 DEF Settled
<1>8. ASSUME NEW u \in Trader, u \notin contested' \cup returned'
      PROVE  Fresh(u)'
  <2>1. Fresh(u)
      BY <1>2, <1>8 DEF BusinessInv
  <2>2. QED
      BY <1>6, <2>1 DEF Fresh
<1>9. ASSUME NEW u \in Trader, Clean(u)'
      PROVE  Documented(u)'
  <2>1. Clean(u) /\ u \notin torn'
      BY <1>2, <1>9 DEF Clean
  <2>2. Documented(u)
      BY <2>1 DEF BusinessInv
  <2>3. ASSUME NEW v \in BusinessWorker, businessJob'[v].trader = u
        PROVE  JobDocumented(businessJob[v])'
    <3>1. PICK j : j = businessJob'[v] /\ j.trader = u /\ JobDocumented(j)
        BY <1>1, <2>1, <2>2, <2>3 DEF Documented
    <3>2. QED
        BY <1>6, <3>1 DEF JobDocumented
  <2>4. QED
      BY <1>6, <2>2, <2>3 DEF Documented
<1>10. QED
    BY <1>3, <1>4, <1>5, <1>7, <1>8, <1>9 DEF BusinessInv

(* What a step that writes the rows of u leaves alone.                     *)
OnlyOf(u) ==
    /\ \A v \in Trader \ {u} :
          /\ trader'[v] = trader[v]
          /\ v \in contested <=> v \in contested'
          /\ v \in returned <=> v \in returned'
          /\ v \in overridden <=> v \in overridden'
          /\ v \in torn <=> v \in torn'
    /\ \A i \in Application :
          \/ application'[i] = application[i]
          \/ /\ application[i].user \in {u, NoTrader}
             /\ application'[i].user = u
    /\ \A i \in Application : application[i].reviewed > 0 => application'[i].reviewed > 0
    /\ \A b \in Profile_ :
          \/ business'[b] = business[b]
          \/ business[b].owner \in {u, NoTrader} /\ business'[b].owner = u
    /\ \A r \in Upgrade :
          \/ upgrade'[r] = upgrade[r]
          \/ business'[upgrade'[r].business].owner = u

(* A step about one user leaves every other as he was.                     *)
LEMMA OthersInv ==
    ASSUME BusinessInv, NEW w \in BusinessWorker, NEW u \in Trader, NEW job \in BusinessJob,
           businessJob[w].trader = u, job.trader \in {u, NoTrader},
           businessJob' = [businessJob EXCEPT ![w] = job],
           BusinessTypeOK', KeepsOwners, OnlyOf(u), NEW v \in Trader \ {u}
    PROVE  /\ v \notin contested' => Settled(v)'
           /\ v \notin contested' \cup returned' => Fresh(v)'
           /\ Clean(v)' => Documented(v)'
<1>0. /\ BusinessTypeOK /\ RowsLinked /\ v # NoTrader
      /\ \A x \in BusinessWorker : JobLinked(businessJob[x])
    BY BusinessAssumption DEF BusinessInv
<1>1. \A x \in BusinessWorker : businessJob'[x].trader = v =>
         businessJob'[x] = businessJob[x]
    BY <1>0 DEF BusinessTypeOK
<1>2. \A i \in Application :
         application[i].user = v \/ application'[i].user = v => application'[i] = application[i]
    BY <1>0 DEF OnlyOf
<1>3. /\ ApprovedOf(v)' = ApprovedOf(v)
      /\ CurrentPapers(v)' = CurrentPapers(v)
    BY <1>2, SameApproved
<1>4. Pending(v)' = Pending(v)
    BY <1>2 DEF Pending
<1>5. NextReview \in Nat /\ NextReview' \in Nat /\ NextReview <= NextReview'
    BY NextReviewGrows DEF OnlyOf
<1>6. trader'[v] = trader[v]
    BY DEF OnlyOf
<1>7. \A b \in Profile_ :
         business[b].owner = v \/ business'[b].owner = v => business'[b] = business[b]
    BY <1>0 DEF OnlyOf
<1>8. ASSUME v \notin contested'
      PROVE  Settled(v)'
  <2>1. Settled(v)
      BY <1>8 DEF OnlyOf, BusinessInv
  <2>2. \A i \in Application : application'[i].user = v => application'[i].reviewed < NextReview'
    <3>1. \A i \in Application : application[i].reviewed \in Nat
        BY <1>0 DEF BusinessTypeOK, ApplicationRow
    <3>2. QED
        BY <1>2, <1>5, <2>1, <3>1 DEF Settled
  <2>3. \A x, y \in BusinessWorker : Core(x, v)' /\ Core(y, v)' => x = y
      BY <1>1, <2>1 DEF Settled, Core
  <2>4. ASSUME NEW x \in BusinessWorker, businessJob'[x].trader = v
        PROVE  JobSettled(businessJob[x])'
    <3>1. PICK j : /\ j = businessJob'[x] /\ j.trader = v
                   /\ JobSettled(j) /\ JobLinked(j)
        BY <1>0, <1>1, <2>1, <2>4 DEF Settled
    <3>2. QED
        BY <1>2, <1>4, <1>6, <3>1 DEF JobSettled, JobLinked
  <2>5. QED
      BY <1>3, <1>4, <1>6, <2>1, <2>2, <2>3, <2>4 DEF Settled
<1>9. ASSUME v \notin contested' \cup returned'
      PROVE  Fresh(v)'
  <2>1. Fresh(v)
      BY <1>9 DEF OnlyOf, BusinessInv
  <2>2. QED
      BY <1>3, <1>6, <1>7, <2>1 DEF Fresh
<1>10. ASSUME Clean(v)'
       PROVE  Documented(v)'
  <2>1. Documented(v)
      BY <1>10 DEF OnlyOf, BusinessInv, Clean
  <2>2. ASSUME NEW x \in BusinessWorker, businessJob'[x].trader = v
        PROVE  JobDocumented(businessJob[x])'
    <3>1. PICK j : j = businessJob'[x] /\ j.trader = v /\ JobDocumented(j)
        BY <1>1, <2>1, <2>2 DEF Documented
    <3>2. QED
        BY <1>3, <3>1 DEF JobDocumented
  <2>3. ASSUME NEW r \in Upgrade, upgrade'[r].status # "UNUSED", upgrade'[r].stored,
               business'[upgrade'[r].business].owner = v
        PROVE  CurrentPapers(v) \cup upgrade'[r].papers = Document
    <3>1. upgrade'[r] = upgrade[r]
        BY <2>3 DEF OnlyOf
    <3>2. business[upgrade[r].business].owner = v
        BY <1>0, <1>7, <2>3, <3>1 DEF RowsLinked
    <3>3. QED
        BY <2>1, <2>3, <3>1, <3>2 DEF Documented
  <2>4. QED
      BY <1>3, <1>7, <2>1, <2>2, <2>3 DEF Documented
<1>11. QED
    BY <1>8, <1>9, <1>10

(* A request writes rows of u.                                             *)
LEMMA RowStepInv ==
    ASSUME BusinessInv, NEW w \in BusinessWorker, NEW u \in Trader, NEW job \in BusinessJob,
           businessJob[w].trader = u, job.trader \in {u, NoTrader},
           businessJob' = [businessJob EXCEPT ![w] = job],
           BusinessTypeOK', KeepsOwners, OnlyOf(u), RowsLinked', JobLinked(job)',
           u \notin contested' => Settled(u)',
           u \notin contested' \cup returned' => Fresh(u)',
           Clean(u)' => Documented(u)'
    PROVE  BusinessInv'
<1>0. /\ BusinessTypeOK /\ RowsLinked
      /\ \A v \in BusinessWorker : JobLinked(businessJob[v])
    BY DEF BusinessInv
<1>1. /\ businessJob'[w] = job
      /\ \A v \in BusinessWorker \ {w} : businessJob'[v] = businessJob[v]
    BY <1>0 DEF BusinessTypeOK
<1>2. ASSUME NEW v \in BusinessWorker
      PROVE  JobLinked(businessJob[v])'
  <2>1. PICK j : j = businessJob'[v] /\ JobLinked(j)'
      BY <1>0, <1>1, LinkedKept
  <2>2. QED
      BY <2>1 DEF JobLinked
<1>3. ASSUME NEW v \in Trader
      PROVE  /\ v \notin contested' => Settled(v)'
             /\ v \notin contested' \cup returned' => Fresh(v)'
             /\ Clean(v)' => Documented(v)'
  <2>1. CASE v = u
      BY <2>1
  <2>2. CASE v # u
    <3>1. v \in Trader \ {u}
        BY <2>2
    <3>2. QED
        BY <3>1, OthersInv
  <2>3. QED
      BY <2>1, <2>2
<1>4. QED
    BY <1>2, <1>3 DEF BusinessInv

(* A request that goes on is a job.                                        *)
LEMMA GoJob ==
    ASSUME BusinessTypeOK, NEW w \in BusinessWorker, NEW step \in JobStep, BusinessGo(w, step)
    PROVE  \E job \in BusinessJob :
              /\ businessJob' = [businessJob EXCEPT ![w] = job]
              /\ job.step = step
              /\ job.trader = businessJob[w].trader /\ job.row = businessJob[w].row
              /\ job.read = businessJob[w].read /\ job.profile = businessJob[w].profile
              /\ job.papers = businessJob[w].papers /\ job.to = businessJob[w].to
<1> DEFINE old == businessJob[w]
           job == [old EXCEPT !.step = step]
<1>1. old \in BusinessJob
    BY DEF BusinessTypeOK
<1>2. businessJob' = [businessJob EXCEPT ![w] = job]
    BY Zenon DEF BusinessGo
<1> HIDE DEF old
<1>3. /\ job \in BusinessJob /\ job.step = step
      /\ job.trader = old.trader /\ job.row = old.row
      /\ job.read = old.read /\ job.profile = old.profile
      /\ job.papers = old.papers /\ job.to = old.to
    BY <1>1 DEF BusinessJob, JobStep
<1> HIDE DEF job
<1>4. QED
    BY <1>2, <1>3 DEF old

(* A user applies.                                                         *)
LEMMA ApplyEnterInv ==
    ASSUME BusinessInv, NEW w \in BusinessWorker, NEW u \in Trader, ApplyEnter(w, u)
    PROVE  BusinessInv'
<1> DEFINE job == JobFor("enter", u, 0)
<1>1. job \in BusinessJob /\ job.step = "enter" /\ job.trader = u
    BY JobForJob DEF JobStep, JobRow
<1>2. businessJob' = [businessJob EXCEPT ![w] = job]
    BY DEF ApplyEnter, BusinessBegin
<1> HIDE DEF job
<1>3. torn \subseteq Trader /\ torn' = torn /\ trader[u].role = "USER" /\ Contend(w, u)
      /\ UNCHANGED <<trader, application, business, upgrade, returned, overridden>>
    BY DEF ApplyEnter, BusinessInv, BusinessTypeOK
<1>4. JobLinked(job) /\ JobSettled(job) /\ JobDocumented(job)
    BY <1>1, <1>3 DEF JobLinked, JobSettled, JobDocumented
<1>5. QED
    BY <1>1, <1>2, <1>3, <1>4, BeginInv

LEMMA ApplyCheckInv ==
    ASSUME BusinessInv, NEW w \in BusinessWorker, ApplyCheck(w)
    PROVE  BusinessInv'
<1>1. PICK job \in BusinessJob :
         /\ businessJob' = [businessJob EXCEPT ![w] = job]
         /\ job.step = "apply" /\ job.trader = businessJob[w].trader
    BY GoJob DEF ApplyCheck, BusinessInv, JobStep
<1>2. /\ torn \subseteq Trader /\ torn' = torn /\ contested' = contested
      /\ UNCHANGED <<trader, application, business, upgrade, returned, overridden>>
      /\ businessJob[w].step = "enter" /\ JobLinked(businessJob[w])
    BY DEF ApplyCheck, BusinessAt, businessHistory, BusinessInv, BusinessTypeOK
<1>3. Core(w, job.trader) /\ Pending(job.trader) = {} /\ job.trader \in Trader
    BY <1>1, <1>2 DEF ApplyCheck, Core, CoreStep, Pending, JobLinked
<1>4. job.trader \notin contested => trader[job.trader].role = "USER"
    BY <1>1, <1>2, <1>3 DEF BusinessInv, Settled, JobSettled
<1>5. /\ JobLinked(job) /\ JobDocumented(job)
      /\ job.trader \notin contested => JobSettled(job)
    BY <1>1, <1>3, <1>4 DEF JobLinked, JobSettled, JobDocumented
<1>6. QED
    BY <1>1, <1>2, <1>3, <1>5, BeginInv

(* An admin opens an application in order to decide on it.                 *)
LEMMA DecideReadInv ==
    ASSUME BusinessInv, NEW w \in BusinessWorker, NEW i \in Application,
           ApproveRead(w, i) \/ RejectRead(w, i)
    PROVE  BusinessInv'
<1>1. PICK step \in {"approve", "reject"} :
         BusinessBegin(w, JobFor(step, application[i].user, i))
    BY DEF ApproveRead, RejectRead
<1> DEFINE u == application[i].user
           job == JobFor(step, u, i)
<1>2. /\ torn \subseteq Trader /\ torn' = torn /\ Contend(w, u)
      /\ UNCHANGED <<trader, application, business, upgrade, returned, overridden>>
      /\ application[i].status = "PENDING"
    BY DEF ApproveRead, RejectRead, BusinessInv, BusinessTypeOK
<1>3. u \in Trader
    BY <1>2 DEF BusinessInv, BusinessTypeOK, ApplicationRow, RowsLinked
<1>4. job \in BusinessJob /\ job.step = step /\ job.trader = u /\ job.row = i
    BY <1>3, JobForJob DEF JobStep, JobRow
<1>5. businessJob' = [businessJob EXCEPT ![w] = job]
    BY <1>1 DEF BusinessBegin
<1> HIDE DEF job
<1>6. JobLinked(job) /\ JobSettled(job) /\ JobDocumented(job)
    BY <1>2, <1>3, <1>4 DEF JobLinked, JobSettled, JobDocumented
<1>7. QED
    BY <1>2, <1>3, <1>4, <1>5, <1>6, BeginInv

LEMMA ApproveCheckInv ==
    ASSUME BusinessInv, NEW w \in BusinessWorker, ApproveCheck(w)
    PROVE  BusinessInv'
<1>1. PICK job \in BusinessJob :
         /\ businessJob' = [businessJob EXCEPT ![w] = job]
         /\ job.step = "approving" /\ job.trader = businessJob[w].trader
         /\ job.row = businessJob[w].row
    BY GoJob DEF ApproveCheck, BusinessInv, JobStep
<1>2. /\ torn \subseteq Trader /\ torn' = torn /\ contested' = contested
      /\ UNCHANGED <<trader, application, business, upgrade, returned, overridden>>
      /\ businessJob[w].step = "approve" /\ JobLinked(businessJob[w])
      /\ Complete(application[job.row].type, application[job.row].papers)
    BY <1>1 DEF ApproveCheck, BusinessAt, businessHistory, BusinessInv, BusinessTypeOK
<1>3. Core(w, job.trader) /\ job.trader \in Trader
    BY <1>1, <1>2 DEF Core, CoreStep, JobLinked
<1>4. job.trader \notin contested => application[job.row].status = "PENDING"
    BY <1>1, <1>2, <1>3 DEF BusinessInv, Settled, JobSettled
<1>5. /\ JobLinked(job) /\ JobDocumented(job)
      /\ job.trader \notin contested => JobSettled(job)
    BY <1>1, <1>2, <1>3, <1>4 DEF JobLinked, JobSettled, JobDocumented
<1>6. QED
    BY <1>1, <1>2, <1>3, <1>5, BeginInv

(* A business asks for another type.                                       *)
LEMMA UpgradeEnterInv ==
    ASSUME BusinessInv, NEW w \in BusinessWorker, NEW b \in Profile_,
           NEW to \in BusinessType, NEW papers \in SUBSET Document,
           UpgradeEnter(w, b, to, papers)
    PROVE  BusinessInv'
<1>1. PICK u, row : u = business[b].owner /\ row = business[b]
    OBVIOUS
<1> DEFINE base == JobFor("upgrade", u, b)
           job == [base EXCEPT !.profile = row, !.papers = papers, !.to = to]
<1>2. /\ torn \subseteq Trader /\ torn' = torn /\ contested' = contested
      /\ UNCHANGED <<trader, application, business, upgrade, returned, overridden>>
      /\ u \in Trader /\ row \in ProfileRow_
      /\ UpgradeValid(u, business[b].type, to, papers)
    BY <1>1 DEF UpgradeEnter, businessHistory, BusinessInv, BusinessTypeOK, ProfileRow_
<1>3. base \in BusinessJob /\ base.step = "upgrade" /\ base.trader = u /\ base.row = b
    BY <1>2, JobForJob DEF JobStep, JobRow
<1>4. businessJob' = [businessJob EXCEPT ![w] = job]
    BY <1>1 DEF UpgradeEnter, BusinessBegin
<1> HIDE DEF base
<1>5. /\ job \in BusinessJob /\ job.step = "upgrade" /\ job.trader = u /\ job.row = b
      /\ job.papers = papers
    BY <1>2, <1>3 DEF BusinessJob
<1> HIDE DEF job
<1>6. JobLinked(job) /\ JobSettled(job)
    BY <1>1, <1>2, <1>5 DEF JobLinked, JobSettled
<1>7. ASSUME Clean(u)
      PROVE  JobDocumented(job)
  <2>1. Documented(u) /\ CurrentPapers(u) \subseteq Document
      BY <1>2, <1>7, PapersAreDocuments DEF BusinessInv
  <2>2. CurrentPapers(u) \cup papers = Document
      BY <1>1, <1>2, <2>1 DEF Documented, UpgradeValid, Complete
  <2>3. QED
      BY <1>5, <2>2 DEF JobDocumented
<1>8. QED
    BY <1>2, <1>4, <1>5, <1>6, <1>7, BeginInv DEF CoreStep

LEMMA UpgradeCheckInv ==
    ASSUME BusinessInv, NEW w \in BusinessWorker, UpgradeCheck(w)
    PROVE  BusinessInv'
<1>1. PICK job \in BusinessJob :
         /\ businessJob' = [businessJob EXCEPT ![w] = job]
         /\ job.step = "request" /\ job.trader = businessJob[w].trader
         /\ job.row = businessJob[w].row /\ job.papers = businessJob[w].papers
    BY GoJob DEF UpgradeCheck, BusinessInv, JobStep
<1>2. /\ torn \subseteq Trader /\ torn' = torn /\ contested' = contested
      /\ UNCHANGED <<trader, application, business, upgrade, returned, overridden>>
      /\ businessJob[w].step = "upgrade" /\ JobLinked(businessJob[w])
    BY DEF UpgradeCheck, BusinessAt, businessHistory, BusinessInv, BusinessTypeOK
<1>3. job.trader \in Trader /\ JobLinked(job) /\ JobSettled(job)
    BY <1>1, <1>2 DEF JobLinked, JobSettled
<1>4. Clean(job.trader) => JobDocumented(job)
    BY <1>1, <1>2, <1>3 DEF BusinessInv, Documented, JobDocumented
<1>5. QED
    BY <1>1, <1>2, <1>3, <1>4, BeginInv DEF CoreStep

(* An admin opens such a request, and the transaction looks at it.         *)
LEMMA ChangeReadInv ==
    ASSUME BusinessInv, NEW w \in BusinessWorker, NEW r \in Upgrade,
           NEW step \in {"change", "refuse"}, ChangeRead(w, r, step)
    PROVE  BusinessInv'
<1> DEFINE u == business[upgrade[r].business].owner
           job == JobFor(step, u, r)
<1>1. /\ torn \subseteq Trader /\ torn' = torn /\ contested' = contested
      /\ UNCHANGED <<trader, application, business, upgrade, returned, overridden>>
      /\ upgrade[r].status # "UNUSED"
    BY DEF ChangeRead, businessHistory, BusinessInv, BusinessTypeOK
<1>2. u \in Trader
    BY <1>1 DEF BusinessInv, RowsLinked
<1>3. job \in BusinessJob /\ job.step = step /\ job.trader = u /\ job.row = r
    BY <1>2, JobForJob DEF JobStep, JobRow
<1>4. businessJob' = [businessJob EXCEPT ![w] = job]
    BY DEF ChangeRead, BusinessBegin
<1> HIDE DEF job
<1>5. JobLinked(job) /\ JobSettled(job) /\ JobDocumented(job)
    BY <1>1, <1>2, <1>3 DEF JobLinked, JobSettled, JobDocumented
<1>6. QED
    BY <1>1, <1>2, <1>3, <1>4, <1>5, BeginInv DEF CoreStep

LEMMA ChangeCheckInv ==
    ASSUME BusinessInv, NEW w \in BusinessWorker, NEW i \in Application, ChangeCheck(w, i)
    PROVE  BusinessInv'
<1>1. PICK u, r, papers : /\ u = businessJob[w].trader /\ r = businessJob[w].row
                          /\ papers = Overlay(application[i].papers, upgrade[r].papers)
    OBVIOUS
<1> DEFINE base == JobFor("changing", u, r)
           job == [base EXCEPT !.read = i, !.papers = papers]
<1>2. /\ contested' = contested
      /\ torn' = IF upgrade[r].stored THEN torn ELSE torn \cup {u}
      /\ UNCHANGED <<trader, application, business, upgrade, returned, overridden>>
      /\ businessJob[w].step = "change" /\ JobLinked(businessJob[w])
      /\ i \in CurrentApplication(u) /\ application[i].papers # {}
    BY <1>1 DEF ChangeCheck, BusinessAt, BusinessInv
<1>3. /\ u \in Trader /\ r \in Upgrade /\ upgrade[r].status # "UNUSED"
      /\ business[upgrade[r].business].owner = u
    BY <1>1, <1>2 DEF JobLinked
<1>4. /\ papers = application[i].papers \cup upgrade[r].papers
      /\ papers \subseteq Document
    BY <1>1, <1>3 DEF Overlay, BusinessInv, BusinessTypeOK, ApplicationRow, UpgradeRow
<1>5. base \in BusinessJob /\ base.step = "changing" /\ base.trader = u /\ base.row = r
    BY <1>3, JobForJob DEF JobStep, JobRow
<1>6. businessJob' = [businessJob EXCEPT ![w] = job]
    BY <1>1 DEF ChangeCheck, BusinessBegin
<1> HIDE DEF base
<1>7. /\ job \in BusinessJob /\ job.step = "changing" /\ job.trader = u /\ job.row = r
      /\ job.read = i /\ job.papers = papers
    BY <1>4, <1>5 DEF BusinessJob
<1> HIDE DEF job
<1>8. application[i].user = u /\ application[i].status = "APPROVED" /\ i \in ApprovedOf(u)
    BY <1>2 DEF CurrentApplication, ApprovedOf
<1>9. JobLinked(job) /\ JobSettled(job)
    BY <1>2, <1>3, <1>4, <1>7, <1>8 DEF JobLinked, JobSettled
<1>10. ASSUME Clean(u), u \notin torn'
       PROVE  JobDocumented(job)
  <2>1. /\ Fresh(u) /\ Documented(u) /\ upgrade[r].stored
      BY <1>2, <1>3, <1>10 DEF BusinessInv, Clean
  <2>2. CurrentPapers(u) = application[i].papers
    <3>1. CurrentApplication(u) = {i}
        BY <1>2, <1>8, <2>1 DEF CurrentApplication, Fresh
    <3>2. QED
        BY <3>1 DEF CurrentPapers
  <2>3. papers = Document
      BY <1>3, <1>4, <2>1, <2>2 DEF Documented
  <2>4. QED
      BY <1>7, <2>3 DEF JobDocumented
<1>11. torn \subseteq torn' /\ torn' \subseteq Trader
    BY <1>2, <1>3 DEF BusinessInv, BusinessTypeOK
<1>12. QED
    BY <1>2, <1>6, <1>7, <1>9, <1>10, <1>11, BeginInv DEF CoreStep

(* A business asks to become a user again.                                 *)
LEMMA SwitchCheckInv ==
    ASSUME BusinessInv, NEW w \in BusinessWorker, NEW u \in Trader, NEW b \in Profile_,
           SwitchCheck(w, u, b)
    PROVE  BusinessInv'
<1> DEFINE job == JobFor("switch", u, b)
<1>1. job \in BusinessJob /\ job.step = "switch" /\ job.trader = u /\ job.row = b
    BY JobForJob DEF JobStep, JobRow
<1>2. businessJob' = [businessJob EXCEPT ![w] = job]
    BY DEF SwitchCheck, BusinessBegin
<1> HIDE DEF job
<1>3. torn \subseteq Trader /\ torn' = torn /\ business[b].owner = u /\ Contend(w, u)
      /\ UNCHANGED <<trader, application, business, upgrade, returned, overridden>>
    BY DEF SwitchCheck, ActiveOf, BusinessInv, BusinessTypeOK
<1>4. JobLinked(job) /\ JobSettled(job) /\ JobDocumented(job)
    BY <1>1, <1>3 DEF JobLinked, JobSettled, JobDocumented
<1>5. QED
    BY <1>1, <1>2, <1>3, <1>4, BeginInv

(* A profile is read in order to be saved.                                 *)
LEMMA SaveReadInv ==
    ASSUME BusinessInv, NEW w \in BusinessWorker, NEW b \in Profile_, SaveRead(w, b)
    PROVE  BusinessInv'
<1>1. PICK u, row : u = business[b].owner /\ row = business[b]
    OBVIOUS
<1> DEFINE base == JobFor("profile", u, b)
           job == [base EXCEPT !.profile = row]
<1>2. /\ torn \subseteq Trader /\ torn' = torn /\ contested' = contested
      /\ UNCHANGED <<trader, application, business, upgrade, returned, overridden>>
      /\ u \in Trader /\ row \in ProfileRow_
    BY <1>1 DEF SaveRead, businessHistory, BusinessInv, BusinessTypeOK, ProfileRow_
<1>3. base \in BusinessJob /\ base.step = "profile" /\ base.trader = u /\ base.row = b
    BY <1>2, JobForJob DEF JobStep, JobRow
<1>4. businessJob' = [businessJob EXCEPT ![w] = job]
    BY <1>1 DEF SaveRead, BusinessBegin
<1> HIDE DEF base
<1>5. /\ job \in BusinessJob /\ job.step = "profile" /\ job.trader = u /\ job.row = b
      /\ job.profile = row
    BY <1>2, <1>3 DEF BusinessJob
<1> HIDE DEF job
<1>6. JobLinked(job) /\ JobSettled(job)
    BY <1>1, <1>2, <1>5 DEF JobLinked, JobSettled
<1>7. Clean(u) => JobDocumented(job)
    BY <1>1, <1>2, <1>5 DEF BusinessInv, Documented, JobDocumented
<1>8. QED
    BY <1>2, <1>4, <1>5, <1>6, <1>7, BeginInv DEF CoreStep

LEMMA BusinessAbortInv ==
    ASSUME BusinessInv, NEW w \in BusinessWorker, BusinessAbort(w)
    PROVE  BusinessInv'
<1>1. /\ torn \subseteq Trader /\ torn' = torn /\ contested' = contested
      /\ UNCHANGED <<trader, application, business, upgrade, returned, overridden>>
      /\ businessJob' = [businessJob EXCEPT ![w] = BusinessIdle]
    BY DEF BusinessAbort, BusinessReturn, businessHistory, BusinessInv, BusinessTypeOK
<1>2. BusinessIdle \in BusinessJob /\ BusinessIdle.step = "idle"
    BY BusinessIdleJob
<1>3. JobLinked(BusinessIdle) /\ JobSettled(BusinessIdle) /\ JobDocumented(BusinessIdle)
    BY <1>2 DEF JobLinked, JobSettled, JobDocumented
<1>4. QED
    BY <1>1, <1>2, <1>3, BeginInv DEF CoreStep

(* What a write by a request that is not about the applications leaves.    *)
LEMMA PlainSettled ==
    ASSUME BusinessInv, NEW u \in Trader, u \notin contested, contested' = contested,
           NEW w \in BusinessWorker, businessJob[w].step \notin CoreStep,
           NEW job \in BusinessJob, job.step \notin CoreStep \cup {"changing"},
           businessJob' = [businessJob EXCEPT ![w] = job],
           trader' = trader,
           \A i \in Application :
              /\ application'[i].user = application[i].user
              /\ application'[i].status = application[i].status
              /\ application'[i].type = application[i].type
              /\ application'[i].reviewed = application[i].reviewed
              /\ \/ application'[i].papers = application[i].papers
                 \/ application[i].status = "APPROVED" /\ application'[i].papers # {}
    PROVE  Settled(u)'
<1>0. BusinessTypeOK /\ Settled(u) /\ \A v \in BusinessWorker : JobLinked(businessJob[v])
    BY DEF BusinessInv
<1>1. /\ businessJob'[w] = job
      /\ \A v \in BusinessWorker \ {w} : businessJob'[v] = businessJob[v]
    BY <1>0 DEF BusinessTypeOK
<1>2. Pending(u)' = Pending(u) /\ NextReview' = NextReview
    BY DEF Pending, NextReview
<1>3. CurrentApplication(u)' = CurrentApplication(u)
  <2>1. ApprovedOf(u)' = ApprovedOf(u)
      BY DEF ApprovedOf
  <2>2. \A i \in ApprovedOf(u) : application'[i].reviewed = application[i].reviewed
      BY DEF ApprovedOf
  <2>3. QED
      BY <2>1, <2>2 DEF CurrentApplication
<1>4. CurrentPapers(u) # {} => CurrentPapers(u)' # {}
  <2> SUFFICES ASSUME NEW d \in CurrentPapers(u) PROVE CurrentPapers(u)' # {}
      OBVIOUS
  <2>1. PICK i \in CurrentApplication(u) : d \in application[i].papers
      BY DEF CurrentPapers
  <2>2. i \in Application
      BY DEF CurrentApplication, ApprovedOf
  <2>3. application'[i].papers # {}
      BY <2>1, <2>2
  <2>4. QED
      BY <1>3, <2>1, <2>3 DEF CurrentPapers
<1>5. \A x, y \in BusinessWorker : Core(x, u)' /\ Core(y, u)' => x = y
    BY <1>0, <1>1 DEF Settled, Core
<1>6. ASSUME NEW v \in BusinessWorker, businessJob'[v].trader = u
      PROVE  JobSettled(businessJob[v])'
  <2>1. CASE v = w
      BY <1>1, <2>1 DEF JobSettled, CoreStep
  <2>2. CASE v # w
    <3>1. PICK j : /\ j = businessJob'[v] /\ j.trader = u
                   /\ JobSettled(j) /\ JobLinked(j)
        BY <1>0, <1>1, <1>6, <2>2 DEF Settled
    <3>2. j.step = "approving" =>
             Complete(application'[j.row].type, application'[j.row].papers)
        BY <3>1 DEF JobSettled, JobLinked, Complete
    <3>3. QED
        BY <1>2, <3>1, <3>2 DEF JobSettled, JobLinked
  <2>3. QED
      BY <2>1, <2>2
<1>7. QED
    BY <1>0, <1>2, <1>4, <1>5, <1>6 DEF Settled

(* What a decision, an application or a switch has to leave.               *)
LEMMA CoreSettled ==
    ASSUME BusinessInv, NEW u \in Trader, u \notin contested,
           NEW w \in BusinessWorker, Core(w, u), BusinessReturn(w),
           trader'[u].verified <=> trader'[u].role = "BUSINESS",
           trader'[u].role = "BUSINESS" => CurrentPapers(u)' # {} /\ Pending(u)' = {},
           \A i, j \in Pending(u)' : i = j,
           \A i \in Application :
              application'[i].user = u => application'[i].reviewed < NextReview',
           \A i \in Application :
              application[i].user = u /\ application[i].status = "APPROVED" =>
                 application'[i].status = "APPROVED"
    PROVE  Settled(u)'
<1>0. BusinessTypeOK /\ Settled(u) /\ \A v \in BusinessWorker : JobLinked(businessJob[v])
    BY DEF BusinessInv
<1>1. /\ businessJob'[w].trader = NoTrader /\ NoTrader \notin Trader
      /\ \A v \in BusinessWorker \ {w} : businessJob'[v] = businessJob[v]
    BY <1>0, BusinessIdleJob, BusinessAssumption DEF BusinessTypeOK, BusinessReturn
<1>2. \A v \in BusinessWorker \ {w} : ~Core(v, u)
    BY <1>0 DEF Settled
<1>3. \A x \in BusinessWorker : ~Core(x, u)'
    BY <1>1, <1>2 DEF Core
<1>4. ASSUME NEW v \in BusinessWorker, businessJob'[v].trader = u
      PROVE  JobSettled(businessJob[v])'
  <2>1. PICK j : /\ j = businessJob'[v] /\ j.trader = u /\ j.step \notin CoreStep
                 /\ JobSettled(j) /\ JobLinked(j)
      BY <1>0, <1>1, <1>2, <1>4 DEF Settled, Core
  <2>2. QED
      BY <2>1 DEF JobSettled, JobLinked, CoreStep
<1>5. QED
    BY <1>3, <1>4 DEF Settled

(* Documents are only added.                                               *)
LEMMA DocumentedKept ==
    ASSUME BusinessInv, BusinessTypeOK', KeepsOwners, NEW u \in Trader, Documented(u),
           NEW w \in BusinessWorker, NEW job \in BusinessJob,
           businessJob' = [businessJob EXCEPT ![w] = job],
           CurrentPapers(u) \subseteq CurrentPapers(u)',
           \A b \in Profile_ :
              \/ business'[b] = business[b]
              \/ business'[b].type # "INDIVIDUAL" => CurrentPapers(u)' = Document,
           \A r \in Upgrade :
              \/ upgrade'[r] = upgrade[r]
              \/ upgrade'[r].stored => CurrentPapers(u)' \cup upgrade'[r].papers = Document,
           job.trader = u => JobDocumented(job)'
    PROVE  Documented(u)'
<1>0. BusinessTypeOK /\ RowsLinked /\ NoTrader \notin Trader
    BY BusinessAssumption DEF BusinessInv
<1>1. /\ businessJob'[w] = job
      /\ \A v \in BusinessWorker \ {w} : businessJob'[v] = businessJob[v]
    BY <1>0 DEF BusinessTypeOK
<1>2. /\ CurrentPapers(u)' \subseteq Document
      /\ CurrentPapers(u) = Document => CurrentPapers(u)' = Document
      /\ \A S : CurrentPapers(u) \cup S = Document => Document \subseteq CurrentPapers(u)' \cup S
  <2>1. CurrentPapers(u)' \subseteq Document
      BY DEF CurrentPapers, CurrentApplication, ApprovedOf, BusinessTypeOK, ApplicationRow
  <2>2. QED
      BY <2>1
<1>3. ASSUME NEW b \in Profile_, business'[b].owner = u, business'[b].type # "INDIVIDUAL"
      PROVE  CurrentPapers(u)' = Document
    BY <1>2, <1>3 DEF Documented
<1>4. ASSUME NEW r \in Upgrade, upgrade'[r].status # "UNUSED", upgrade'[r].stored,
             business'[upgrade'[r].business].owner = u
      PROVE  CurrentPapers(u)' \cup upgrade'[r].papers = Document
  <2>1. CASE upgrade'[r] = upgrade[r]
    <3>1. business[upgrade[r].business].owner = u
        BY <1>0, <1>4, <2>1 DEF RowsLinked, KeepsOwners
    <3>2. CurrentPapers(u) \cup upgrade[r].papers = Document
        BY <1>4, <2>1, <3>1 DEF Documented
    <3>3. QED
        BY <1>2, <2>1, <3>2
  <2>2. CASE upgrade'[r] # upgrade[r]
      BY <1>4, <2>2
  <2>3. QED
      BY <2>1, <2>2
<1>5. ASSUME NEW v \in BusinessWorker, businessJob'[v].trader = u
      PROVE  JobDocumented(businessJob[v])'
  <2>1. CASE v = w
    <3>1. PICK j : j = businessJob'[v] /\ j.trader = u /\ JobDocumented(j)'
        BY <1>1, <1>5, <2>1
    <3>2. QED
        BY <3>1 DEF JobDocumented
  <2>2. CASE v # w
    <3>1. PICK j : j = businessJob'[v] /\ j.trader = u /\ JobDocumented(j) /\ j \in BusinessJob
        BY <1>0, <1>1, <1>5, <2>2 DEF Documented, BusinessTypeOK
    <3>2. j.papers \subseteq Document
        BY <3>1 DEF BusinessJob
    <3>3. QED
        BY <1>2, <3>1, <3>2 DEF JobDocumented
  <2>3. QED
      BY <2>1, <2>2
<1>6. QED
    BY <1>3, <1>4, <1>5 DEF Documented

(* A request that ends leaves nothing to rely on.                          *)
LEMMA EndJob ==
    ASSUME BusinessTypeOK, NEW w \in BusinessWorker, BusinessReturn(w)
    PROVE  /\ businessJob' = [businessJob EXCEPT ![w] = BusinessIdle]
           /\ businessJob' \in [BusinessWorker -> BusinessJob]
           /\ BusinessIdle \in BusinessJob /\ BusinessIdle.trader = NoTrader
           /\ BusinessIdle.step = "idle"
           /\ JobLinked(BusinessIdle)'
<1>1. businessJob' = [businessJob EXCEPT ![w] = BusinessIdle]
    BY DEF BusinessReturn
<1>2. businessJob' \in [BusinessWorker -> BusinessJob]
    BY <1>1, BusinessIdleJob DEF BusinessTypeOK
<1>3. JobLinked(BusinessIdle)'
  <2>1. PICK j : j = BusinessIdle
      OBVIOUS
  <2>2. j.step = "idle"
      BY <2>1, BusinessIdleJob
  <2>3. JobLinked(j)'
      BY <2>2 DEF JobLinked
  <2>4. QED
      BY <2>1, <2>3
<1>4. QED
    BY <1>1, <1>2, <1>3, BusinessIdleJob

(* The application is stored.                                              *)
LEMMA ApplyCommitInv ==
    ASSUME BusinessInv, NEW w \in BusinessWorker, NEW i \in Application,
           NEW type \in BusinessType, NEW papers \in SUBSET Document,
           ApplyCommit(w, i, type, papers)
    PROVE  BusinessInv'
<1>0. /\ BusinessTypeOK /\ RowsLinked /\ JobLinked(businessJob[w]) /\ NoTrader \notin Trader
    BY BusinessAssumption DEF BusinessInv
<1>1. PICK u, old, was : u = businessJob[w].trader /\ old = application[i] /\ was = trader[u]
    OBVIOUS
<1> DEFINE row == [old EXCEPT !.status = "PENDING", !.user = u, !.type = type,
                              !.papers = papers]
           now1 == [was EXCEPT !.has_business = TRUE]
           now == [now1 EXCEPT !.verified = FALSE]
<1>2. /\ u \in Trader /\ Core(w, u) /\ BusinessReturn(w)
      /\ UNCHANGED <<business, upgrade, contested, returned, overridden, torn>>
      /\ old \in ApplicationRow /\ was \in TraderRow
      /\ old.status = "UNUSED" /\ old.user = NoTrader /\ old.reviewed = 0
    BY <1>0, <1>1 DEF ApplyCommit, BusinessAt, JobLinked, Core, CoreStep, businessHistory,
                      BusinessTypeOK, RowsLinked
<1>3. application' = [application EXCEPT ![i] = row]
    BY <1>1, Zenon DEF ApplyCommit
<1>4. trader' = [trader EXCEPT ![u] = now]
    BY <1>0, <1>1, <1>2 DEF ApplyCommit, BusinessTypeOK, TraderRow
<1>5. /\ row \in ApplicationRow /\ row.status = "PENDING" /\ row.user = u
      /\ row.reviewed = 0
    BY <1>2 DEF ApplicationRow
<1>6. now \in TraderRow /\ now.role = was.role /\ now.verified = FALSE
    BY <1>2 DEF TraderRow
<1> HIDE DEF row, now
<1>7. /\ application' \in [Application -> ApplicationRow] /\ application'[i] = row
      /\ \A j \in Application \ {i} : application'[j] = application[j]
      /\ trader' \in [Trader -> TraderRow] /\ trader'[u] = now
      /\ \A v \in Trader \ {u} : trader'[v] = trader[v]
    BY <1>0, <1>2, <1>3, <1>4, <1>5, <1>6 DEF BusinessTypeOK
<1>8. BusinessTypeOK'
    BY <1>0, <1>2, <1>7, EndJob DEF BusinessTypeOK
<1>9. RowsLinked'
    BY <1>0, <1>2, <1>5, <1>7 DEF RowsLinked
<1>10. KeepsOwners
    BY <1>1, <1>2, <1>7 DEF KeepsOwners
<1>11. OnlyOf(u)
    BY <1>1, <1>2, <1>5, <1>7 DEF OnlyOf
<1>12. ApprovedOf(u)' = ApprovedOf(u) /\ CurrentPapers(u)' = CurrentPapers(u)
    BY <1>1, <1>2, <1>5, <1>7, SameApproved
<1>13. ASSUME u \notin contested
       PROVE  Settled(u)'
  <2>1. Settled(u) /\ JobSettled(businessJob[w]) /\ businessJob[w].step = "apply"
      BY <1>1, <1>2, <1>13 DEF BusinessInv, Settled, ApplyCommit, BusinessAt
  <2>2. trader[u].role = "USER" /\ Pending(u) = {}
      BY <1>1, <2>1 DEF JobSettled
  <2>3. Pending(u)' \subseteq {i}
      BY <1>7, <2>2 DEF Pending
  <2>4. NextReview \in Nat \ {0} /\ NextReview' \in Nat \ {0} /\ NextReview <= NextReview'
      BY NextReviewGrows, <1>11 DEF OnlyOf
  <2>5. \A j \in Application : application'[j].user = u => application'[j].reviewed < NextReview'
    <3>1. \A j \in Application : application[j].reviewed \in Nat
        BY <1>0 DEF BusinessTypeOK, ApplicationRow
    <3>2. \A j \in Application : application[j].user = u => application[j].reviewed < NextReview
        BY <2>1 DEF Settled
    <3>3. QED
        BY <1>5, <1>7, <2>4, <3>1, <3>2
  <2>6. \A j \in Application : application[j].user = u /\ application[j].status = "APPROVED"
           => application'[j].status = "APPROVED"
      BY <1>1, <1>2, <1>7
  <2>7. trader'[u].role = "USER" /\ trader'[u].verified = FALSE
      BY <1>1, <1>6, <1>7, <2>2
  <2>8. QED
      BY <1>2, <1>13, <2>3, <2>5, <2>6, <2>7, CoreSettled
<1>14. ASSUME u \notin contested \cup returned
       PROVE  Fresh(u)'
  <2>1. Fresh(u)
      BY <1>2, <1>14 DEF BusinessInv
  <2>2. QED
      BY <1>1, <1>2, <1>6, <1>7, <1>12, <2>1 DEF Fresh
<1>15. ASSUME Clean(u)'
       PROVE  Documented(u)'
  <2>1. Documented(u)
      BY <1>2, <1>15 DEF BusinessInv, Clean
  <2>2. BusinessIdle.trader # u
      BY <1>0, <1>2, BusinessIdleJob
  <2>3. QED
      BY <1>0, <1>2, <1>8, <1>10, <1>12, <2>1, <2>2, EndJob, DocumentedKept
<1>16. QED
  <2>1. businessJob[w].trader = u
      BY <1>1
  <2>2. QED
      BY <1>0, <1>2, <1>8, <1>9, <1>10, <1>11, <1>13, <1>14, <1>15, <2>1, EndJob, RowStepInv

(* The application is approved.                                            *)
LEMMA ApproveCommitInv ==
    ASSUME BusinessInv, NEW w \in BusinessWorker, ApproveCommit(w)
    PROVE  BusinessInv'
<1>0. /\ BusinessTypeOK /\ RowsLinked /\ JobLinked(businessJob[w]) /\ NoTrader \notin Trader
    BY BusinessAssumption DEF BusinessInv
<1>1. PICK u, i : u = businessJob[w].trader /\ i = businessJob[w].row
    OBVIOUS
<1>2. PICK old : old = application[i]
    OBVIOUS
<1> DEFINE existing == {b \in Profile_ : business[b].owner = u /\ business[b].type = old.type}
           row1 == [old EXCEPT !.status = "APPROVED"]
           row == [row1 EXCEPT !.reviewed = NextReview]
           now == [role |-> "BUSINESS", has_business |-> TRUE, verified |-> TRUE]
           new == [owner |-> u, type |-> old.type, active |-> TRUE, named |-> TRUE]
<1>3. /\ u \in Trader /\ i \in Application /\ old.user = u /\ Core(w, u) /\ BusinessReturn(w)
      /\ businessJob[w].step = "approving"
      /\ UNCHANGED <<upgrade, contested, returned, overridden, torn>>
      /\ old \in ApplicationRow
    BY <1>0, <1>1, <1>2 DEF ApproveCommit, BusinessAt, JobLinked, Core, CoreStep,
                            businessHistory, BusinessTypeOK
<1>4. \A j \in Application : application[j].reviewed \in Nat
    BY <1>0 DEF BusinessTypeOK, ApplicationRow
<1>5. NextReview \in Nat \ {0}
  <2>1. IsFiniteSet(Application)
    <3>1. 1 \in Int /\ MaxApplication \in Int
        BY BusinessAssumption
    <3>2. QED
        BY <3>1, FS_Interval DEF Application
  <2>2. QED
      BY <2>1, FS_Subset, FS_CardinalityType DEF NextReview
<1>6. application' = [application EXCEPT ![i] = row]
    BY <1>0, <1>1, <1>2, <1>3 DEF ApproveCommit, BusinessTypeOK, ApplicationRow
<1>7. trader' = [trader EXCEPT ![u] = now]
    BY <1>1 DEF ApproveCommit
<1>8. \/ Cardinality(existing) = 1 /\ UNCHANGED business
      \/ /\ existing = {}
         /\ \E b \in Profile_ :
               business[b].owner = NoTrader /\ business' = [business EXCEPT ![b] = new]
    BY <1>1, <1>2 DEF ApproveCommit
<1>9. /\ row \in ApplicationRow /\ row.status = "APPROVED" /\ row.user = u
      /\ row.reviewed = NextReview /\ row.type = old.type /\ row.papers = old.papers
    BY <1>3, <1>5 DEF ApplicationRow
<1>10. now \in TraderRow /\ now.role = "BUSINESS" /\ now.verified = TRUE
    BY DEF TraderRow
<1>11. new \in ProfileRow_ /\ new.owner = u /\ new.type = old.type
    BY <1>3 DEF ProfileRow_, ApplicationRow
<1> HIDE DEF row, now, new, existing
<1>12. /\ application' \in [Application -> ApplicationRow] /\ application'[i] = row
       /\ \A j \in Application \ {i} : application'[j] = application[j]
       /\ trader' \in [Trader -> TraderRow] /\ trader'[u] = now
       /\ \A v \in Trader \ {u} : trader'[v] = trader[v]
    BY <1>0, <1>3, <1>6, <1>7, <1>9, <1>10 DEF BusinessTypeOK
<1>13. /\ business' \in [Profile_ -> ProfileRow_]
       /\ \A b \in Profile_ : \/ business'[b] = business[b]
                              \/ business[b].owner = NoTrader /\ business'[b] = new
    BY <1>0, <1>8, <1>11 DEF BusinessTypeOK
<1>14. BusinessTypeOK'
    BY <1>0, <1>3, <1>12, <1>13, EndJob DEF BusinessTypeOK
<1>15. KeepsOwners
    BY <1>2, <1>3, <1>9, <1>12, <1>13 DEF KeepsOwners
<1>16. RowsLinked'
  <2>1. \A r \in Upgrade : upgrade[r].status # "UNUSED" =>
           /\ upgrade[r].business \in Profile_
           /\ business'[upgrade[r].business].owner \in Trader
      BY <1>0, <1>13 DEF RowsLinked
  <2>2. QED
      BY <1>0, <1>3, <1>9, <1>11, <1>12, <1>13, <2>1 DEF RowsLinked
<1>17. OnlyOf(u)
    BY <1>2, <1>3, <1>5, <1>9, <1>11, <1>12, <1>13 DEF OnlyOf
<1>18. ASSUME u \notin contested
       PROVE  /\ Settled(u)' /\ trader[u].role = "USER"
              /\ CurrentPapers(u)' = old.papers
              /\ ApprovedOf(u)' = ApprovedOf(u) \cup {i}
              /\ Complete(old.type, old.papers)
  <2>1. Settled(u) /\ JobSettled(businessJob[w])
      BY <1>1, <1>3, <1>18 DEF BusinessInv, Settled
  <2>2. i \in Pending(u) /\ Complete(old.type, old.papers)
      BY <1>1, <1>2, <1>3, <2>1 DEF JobSettled, Pending
  <2>3. old.status = "PENDING" /\ old.reviewed = 0
      BY <1>0, <1>2, <1>3, <2>2 DEF Pending, RowsLinked
  <2>4. trader[u].role = "USER"
      BY <1>0, <1>3, <2>1, <2>2 DEF Settled, BusinessTypeOK, TraderRow
  <2>5. Pending(u)' = {}
    <3>1. \A j \in Pending(u) : j = i
        BY <2>1, <2>2 DEF Settled
    <3>2. QED
        BY <1>9, <1>12, <3>1 DEF Pending
  <2>6. ApprovedOf(u)' = ApprovedOf(u) \cup {i}
      BY <1>3, <1>9, <1>12 DEF ApprovedOf
  <2>7. \A j \in ApprovedOf(u) : j # i /\ application'[j].reviewed < NextReview
                                   /\ application'[j].reviewed \in Nat
      BY <1>2, <1>4, <1>12, <2>1, <2>3 DEF Settled, ApprovedOf
  <2>8. CurrentApplication(u)' = {i}
    <3>1. \A j \in ApprovedOf(u)' : application'[j].reviewed <= application'[i].reviewed
        BY <1>5, <1>9, <1>12, <2>6, <2>7
    <3>2. \A j \in ApprovedOf(u) : ~(application'[i].reviewed <= application'[j].reviewed)
        BY <1>5, <1>9, <1>12, <2>7
    <3>3. QED
        BY <2>6, <3>1, <3>2 DEF CurrentApplication
  <2>9. CurrentPapers(u)' = old.papers
      BY <1>9, <1>12, <2>8 DEF CurrentPapers
  <2>10. old.papers # {}
      BY <2>2 DEF Complete, Document
  <2>11. NextReview' = NextReview + 1
    <3> DEFINE S == {j \in Application : application[j].reviewed > 0}
               T == {j \in Application : application'[j].reviewed > 0}
    <3>1. T = S \cup {i} /\ i \notin S
        BY <1>2, <1>3, <1>5, <1>9, <1>12, <2>3
    <3>2. IsFiniteSet(Application)
      <4>1. 1 \in Int /\ MaxApplication \in Int
          BY BusinessAssumption
      <4>2. QED
          BY <4>1, FS_Interval DEF Application
    <3>3. IsFiniteSet(S)
        BY <3>2, FS_Subset
    <3>4. NextReview = 1 + Cardinality(S) /\ NextReview' = 1 + Cardinality(T)
        BY DEF NextReview
    <3> HIDE DEF S, T
    <3>5. Cardinality(T) = Cardinality(S) + 1 /\ Cardinality(S) \in Nat
        BY <3>1, <3>3, FS_AddElement, FS_CardinalityType
    <3>6. QED
        BY <3>4, <3>5
  <2>12. \A j \in Application : application'[j].user = u => application'[j].reviewed < NextReview'
    <3>1. \A j \in Application : application[j].user = u => application[j].reviewed < NextReview
        BY <2>1 DEF Settled
    <3>2. QED
        BY <1>4, <1>5, <1>9, <1>12, <2>11, <3>1
  <2>13. \A j \in Application : application[j].user = u /\ application[j].status = "APPROVED"
            => application'[j].status = "APPROVED"
      BY <1>9, <1>12
  <2>14. trader'[u].role = "BUSINESS" /\ trader'[u].verified = TRUE
      BY <1>10, <1>12
  <2>15. Settled(u)'
      BY <1>3, <1>18, <2>5, <2>9, <2>10, <2>12, <2>13, <2>14, CoreSettled
  <2>16. QED
      BY <2>2, <2>4, <2>6, <2>9, <2>15
<1>19. ASSUME u \notin contested \cup returned
       PROVE  Fresh(u)' /\ ApprovedOf(u) = {} /\ \A b \in Profile_ : business[b].owner # u
  <2>1. Fresh(u)
      BY <1>3, <1>19 DEF BusinessInv
  <2>2. ApprovedOf(u) = {} /\ \A b \in Profile_ : business[b].owner # u
      BY <1>18, <1>19, <2>1 DEF Fresh
  <2>3. \A j, k \in ApprovedOf(u)' : j = k
      BY <1>18, <1>19, <2>2
  <2>4. trader'[u].role # "USER"
      BY <1>10, <1>12
  <2>5. QED
      BY <2>2, <2>3, <2>4 DEF Fresh
<1>20. ASSUME Clean(u)'
       PROVE  Documented(u)'
  <2>1. Documented(u) /\ u \notin contested \cup returned
      BY <1>3, <1>20 DEF BusinessInv, Clean
  <2>2. CurrentPapers(u) = {}
      BY <1>19, <2>1 DEF CurrentPapers, CurrentApplication
  <2>3. \A b \in Profile_ : \/ business'[b] = business[b]
                            \/ business'[b].type # "INDIVIDUAL" => CurrentPapers(u)' = Document
      BY <1>11, <1>13, <1>18, <2>1 DEF Complete
  <2>4. BusinessIdle.trader # u
      BY <1>0, <1>3, BusinessIdleJob
  <2>5. QED
      BY <1>0, <1>3, <1>14, <1>15, <2>1, <2>2, <2>3, <2>4, EndJob, DocumentedKept
<1>21. QED
  <2>1. businessJob[w].trader = u
      BY <1>1
  <2>2. QED
      BY <1>0, <1>3, <1>14, <1>15, <1>16, <1>17, <1>18, <1>19, <1>20, <2>1, EndJob, RowStepInv

(* The application is rejected.                                            *)
LEMMA RejectCommitInv ==
    ASSUME BusinessInv, NEW w \in BusinessWorker, RejectCommit(w)
    PROVE  BusinessInv'
<1>0. /\ BusinessTypeOK /\ RowsLinked /\ JobLinked(businessJob[w]) /\ NoTrader \notin Trader
    BY BusinessAssumption DEF BusinessInv
<1>1. PICK u, i : u = businessJob[w].trader /\ i = businessJob[w].row
    OBVIOUS
<1>2. PICK old, was : old = application[i] /\ was = trader[u]
    OBVIOUS
<1> DEFINE row == [old EXCEPT !.status = "REJECTED"]
           now1 == [was EXCEPT !.has_business = TRUE]
           now == [now1 EXCEPT !.verified = FALSE]
<1>3. /\ u \in Trader /\ i \in Application /\ old.user = u /\ Core(w, u) /\ BusinessReturn(w)
      /\ businessJob[w].step = "reject"
      /\ UNCHANGED <<business, upgrade, contested, returned, overridden, torn>>
      /\ old \in ApplicationRow /\ was \in TraderRow
    BY <1>0, <1>1, <1>2 DEF RejectCommit, BusinessAt, JobLinked, Core, CoreStep,
                            businessHistory, BusinessTypeOK
<1>4. application' = [application EXCEPT ![i] = row]
    BY <1>1, <1>2, Zenon DEF RejectCommit
<1>5. trader' = [trader EXCEPT ![u] = now]
    BY <1>0, <1>1, <1>2, <1>3 DEF RejectCommit, BusinessTypeOK, TraderRow
<1>6. /\ row \in ApplicationRow /\ row.status = "REJECTED" /\ row.user = u
      /\ row.reviewed = old.reviewed
    BY <1>3 DEF ApplicationRow
<1>7. now \in TraderRow /\ now.role = was.role /\ now.verified = FALSE
    BY <1>3 DEF TraderRow
<1> HIDE DEF row, now
<1>8. /\ application' \in [Application -> ApplicationRow] /\ application'[i] = row
      /\ \A j \in Application \ {i} : application'[j] = application[j]
      /\ trader' \in [Trader -> TraderRow] /\ trader'[u] = now
      /\ \A v \in Trader \ {u} : trader'[v] = trader[v]
    BY <1>0, <1>3, <1>4, <1>5, <1>6, <1>7 DEF BusinessTypeOK
<1>9. BusinessTypeOK'
    BY <1>0, <1>3, <1>8, EndJob DEF BusinessTypeOK
<1>10. KeepsOwners
    BY <1>2, <1>3, <1>6, <1>8 DEF KeepsOwners
<1>11. RowsLinked'
    BY <1>0, <1>3, <1>6, <1>8 DEF RowsLinked
<1>12. OnlyOf(u)
    BY <1>2, <1>3, <1>6, <1>8 DEF OnlyOf
<1>13. ASSUME u \notin contested
       PROVE  /\ Settled(u)' /\ trader[u].role = "USER"
              /\ ApprovedOf(u)' = ApprovedOf(u) /\ CurrentPapers(u)' = CurrentPapers(u)
  <2>1. Settled(u) /\ JobSettled(businessJob[w])
      BY <1>1, <1>3, <1>13 DEF BusinessInv, Settled
  <2>2. i \in Pending(u) /\ old.status = "PENDING"
      BY <1>1, <1>2, <1>3, <2>1 DEF JobSettled, Pending
  <2>3. trader[u].role = "USER"
      BY <1>0, <1>3, <2>1, <2>2 DEF Settled, BusinessTypeOK, TraderRow
  <2>4. Pending(u)' \subseteq Pending(u)
      BY <1>2, <1>6, <1>8 DEF Pending
  <2>5. ApprovedOf(u)' = ApprovedOf(u) /\ CurrentPapers(u)' = CurrentPapers(u)
      BY <1>2, <1>6, <1>8, <2>2, SameApproved
  <2>6. NextReview \in Nat \ {0} /\ NextReview' \in Nat \ {0} /\ NextReview <= NextReview'
      BY NextReviewGrows, <1>12 DEF OnlyOf
  <2>7. \A j \in Application : application'[j].user = u => application'[j].reviewed < NextReview'
    <3>1. \A j \in Application : /\ application[j].reviewed \in Nat
                                 /\ application'[j].reviewed = application[j].reviewed
                                 /\ application'[j].user = application[j].user
        BY <1>0, <1>2, <1>3, <1>6, <1>8 DEF BusinessTypeOK, ApplicationRow
    <3>2. \A j \in Application : application[j].user = u => application[j].reviewed < NextReview
        BY <2>1 DEF Settled
    <3>3. QED
        BY <2>6, <3>1, <3>2
  <2>8. \A j \in Application : application[j].user = u /\ application[j].status = "APPROVED"
           => application'[j].status = "APPROVED"
      BY <1>2, <1>8, <2>2
  <2>9. trader'[u].role = "USER" /\ trader'[u].verified = FALSE
      BY <1>2, <1>7, <1>8, <2>3
  <2>10. \A j, k \in Pending(u)' : j = k
      BY <2>1, <2>4 DEF Settled
  <2>11. Settled(u)'
      BY <1>3, <1>13, <2>7, <2>8, <2>9, <2>10, CoreSettled
  <2>12. QED
      BY <2>3, <2>5, <2>11
<1>14. ASSUME u \notin contested \cup returned
       PROVE  Fresh(u)'
  <2>1. Fresh(u)
      BY <1>3, <1>14 DEF BusinessInv
  <2>2. QED
      BY <1>2, <1>3, <1>7, <1>8, <1>13, <1>14, <2>1 DEF Fresh
<1>15. ASSUME Clean(u)'
       PROVE  Documented(u)'
  <2>1. Documented(u) /\ u \notin contested
      BY <1>3, <1>15 DEF BusinessInv, Clean
  <2>2. BusinessIdle.trader # u
      BY <1>0, <1>3, BusinessIdleJob
  <2>3. QED
      BY <1>0, <1>3, <1>9, <1>10, <1>13, <2>1, <2>2, EndJob, DocumentedKept
<1>16. QED
  <2>1. businessJob[w].trader = u
      BY <1>1
  <2>2. QED
      BY <1>0, <1>3, <1>9, <1>10, <1>11, <1>12, <1>13, <1>14, <1>15, <2>1, EndJob, RowStepInv

(* The business is a user again: its documents are gone.                   *)
LEMMA SwitchCommitInv ==
    ASSUME BusinessInv, NEW w \in BusinessWorker, SwitchCommit(w)
    PROVE  BusinessInv'
<1>0. /\ BusinessTypeOK /\ RowsLinked /\ JobLinked(businessJob[w]) /\ NoTrader \notin Trader
    BY BusinessAssumption DEF BusinessInv
<1>1. PICK u, b : u = businessJob[w].trader /\ b = businessJob[w].row
    OBVIOUS
<1>2. PICK old : old = business[b]
    OBVIOUS
<1> DEFINE row1 == [old EXCEPT !.active = FALSE]
           row == [row1 EXCEPT !.named = FALSE]
           now == [role |-> "USER", has_business |-> FALSE, verified |-> FALSE]
           Archived(r) == [r EXCEPT !.papers = {}]
<1>3. /\ u \in Trader /\ b \in Profile_ /\ old.owner = u /\ Core(w, u) /\ BusinessReturn(w)
      /\ UNCHANGED <<upgrade, contested, overridden, torn>>
      /\ returned' = returned \cup {u} /\ old \in ProfileRow_
    BY <1>0, <1>1, <1>2 DEF SwitchCommit, BusinessAt, JobLinked, Core, CoreStep,
                            BusinessTypeOK
<1>4. application' = [i \in Application |->
         IF i \in CurrentApplication(u) THEN Archived(application[i]) ELSE application[i]]
  <2>1. application' = [i \in Application |->
           IF i \in CurrentApplication(businessJob[w].trader)
           THEN Archived(application[i]) ELSE application[i]]
      BY Zenon DEF SwitchCommit
  <2>2. QED
      BY <1>1, <2>1, Zenon
<1>5. business' = [business EXCEPT ![b] = row]
    BY <1>0, <1>1, <1>2, <1>3 DEF SwitchCommit, BusinessTypeOK, ProfileRow_
<1>6. trader' = [trader EXCEPT ![u] = now]
    BY <1>1 DEF SwitchCommit
<1>7. \A r \in ApplicationRow :
         /\ Archived(r) \in ApplicationRow /\ Archived(r).status = r.status
         /\ Archived(r).user = r.user /\ Archived(r).reviewed = r.reviewed
    BY DEF ApplicationRow
<1>8. row \in ProfileRow_ /\ row.owner = u /\ row.type = old.type
    BY <1>3 DEF ProfileRow_
<1>9. now \in TraderRow /\ now.role = "USER" /\ now.verified = FALSE
    BY DEF TraderRow
<1> HIDE DEF row, now, Archived
<1>10. /\ application' \in [Application -> ApplicationRow]
       /\ \A i \in Application : /\ application'[i].status = application[i].status
                                 /\ application'[i].user = application[i].user
                                 /\ application'[i].reviewed = application[i].reviewed
                                 /\ \/ application'[i] = application[i]
                                    \/ i \in CurrentApplication(u)
  <2>1. \A i \in Application : application[i] \in ApplicationRow
      BY <1>0 DEF BusinessTypeOK
  <2>2. QED
      BY <1>4, <1>7, <2>1
<1>11. /\ business' \in [Profile_ -> ProfileRow_] /\ business'[b] = row
       /\ \A c \in Profile_ \ {b} : business'[c] = business[c]
       /\ trader' \in [Trader -> TraderRow] /\ trader'[u] = now
       /\ \A v \in Trader \ {u} : trader'[v] = trader[v]
    BY <1>0, <1>3, <1>5, <1>6, <1>8, <1>9 DEF BusinessTypeOK
<1>12. BusinessTypeOK'
    BY <1>0, <1>3, <1>10, <1>11, EndJob DEF BusinessTypeOK
<1>13. KeepsOwners
    BY <1>2, <1>3, <1>8, <1>10, <1>11 DEF KeepsOwners
<1>14. RowsLinked'
  <2>1. \A c \in Profile_ : business'[c].owner = business[c].owner
                              /\ business'[c].type = business[c].type
      BY <1>2, <1>3, <1>8, <1>11
  <2>2. QED
      BY <1>0, <1>3, <1>10, <2>1 DEF RowsLinked
<1>15. OnlyOf(u)
  <2>1. \A i \in CurrentApplication(u) : application[i].user = u
      BY DEF CurrentApplication, ApprovedOf
  <2>2. QED
      BY <1>2, <1>3, <1>8, <1>10, <1>11, <2>1 DEF OnlyOf
<1>16. ASSUME u \notin contested
       PROVE  Settled(u)'
  <2>1. Settled(u)
      BY <1>3, <1>16 DEF BusinessInv
  <2>2. Pending(u)' = Pending(u) /\ NextReview' = NextReview
      BY <1>10 DEF Pending, NextReview
  <2>3. \A j \in Application : application'[j].user = u => application'[j].reviewed < NextReview'
      BY <1>10, <2>1, <2>2 DEF Settled
  <2>4. \A j, k \in Pending(u)' : j = k
      BY <2>1, <2>2 DEF Settled
  <2>5. trader'[u].role = "USER" /\ trader'[u].verified = FALSE
      BY <1>9, <1>11
  <2>6. QED
      BY <1>3, <1>10, <1>16, <2>3, <2>4, <2>5, CoreSettled
<1>17. u \in returned' /\ ~Clean(u)'
    BY <1>3 DEF Clean
<1>18. QED
  <2>1. businessJob[w].trader = u
      BY <1>1
  <2>2. QED
      BY <1>0, <1>3, <1>12, <1>13, <1>14, <1>15, <1>16, <1>17, <2>1, EndJob, RowStepInv

(* The request to change the type is stored, without its documents.        *)
LEMMA UpgradeInsertInv ==
    ASSUME BusinessInv, NEW w \in BusinessWorker, NEW r \in Upgrade, UpgradeInsert(w, r)
    PROVE  BusinessInv'
<1>0. /\ BusinessTypeOK /\ RowsLinked /\ JobLinked(businessJob[w]) /\ NoTrader \notin Trader
    BY BusinessAssumption DEF BusinessInv
<1>1. PICK old : old = businessJob[w]
    OBVIOUS
<1> DEFINE u == old.trader
           row == [NoUpgrade EXCEPT !.status = "PENDING", !.business = old.row,
                                    !.from = old.profile.type, !.to = old.to]
           base == JobFor("papers", u, r)
           job == [base EXCEPT !.papers = old.papers]
<1>2. /\ u \in Trader /\ old \in BusinessJob /\ old.step = "request"
      /\ old.row \in Profile_ /\ business[old.row].owner = u
      /\ old.profile.type \in BusinessType /\ upgrade[r].status = "UNUSED"
      /\ UNCHANGED <<trader, application, business, contested, returned, overridden, torn>>
    BY <1>0, <1>1 DEF UpgradeInsert, BusinessAt, JobLinked, businessHistory,
                      BusinessTypeOK, BusinessJob, ProfileRow_
<1>3. upgrade' = [upgrade EXCEPT ![r] = row]
    BY <1>1, Zenon DEF UpgradeInsert
<1>4. businessJob' = [businessJob EXCEPT ![w] = job]
    BY <1>1, Zenon DEF UpgradeInsert, BusinessBegin
<1>5. /\ row \in UpgradeRow /\ row.status = "PENDING" /\ row.business = old.row
  <2>1. old.row \in Profile_ \cup {0} /\ old.to \in BusinessType
      BY <1>2 DEF BusinessJob
  <2>2. QED
      BY <1>2, <2>1, BusinessIdleJob DEF UpgradeRow
<1>6. ~row.stored
    BY DEF NoUpgrade
<1>7. base \in BusinessJob /\ base.step = "papers" /\ base.trader = u /\ base.row = r
    BY <1>2, JobForJob DEF JobStep, JobRow
<1> HIDE DEF row, base
<1>8. /\ job \in BusinessJob /\ job.step = "papers" /\ job.trader = u /\ job.row = r
      /\ job.papers = old.papers
    BY <1>2, <1>7 DEF BusinessJob
<1> HIDE DEF job
<1>9. /\ upgrade' \in [Upgrade -> UpgradeRow] /\ upgrade'[r] = row
      /\ \A s \in Upgrade \ {r} : upgrade'[s] = upgrade[s]
      /\ businessJob' \in [BusinessWorker -> BusinessJob]
    BY <1>0, <1>3, <1>4, <1>5, <1>8 DEF BusinessTypeOK
<1>10. BusinessTypeOK'
    BY <1>0, <1>2, <1>9 DEF BusinessTypeOK
<1>11. KeepsOwners
    BY <1>2, <1>9 DEF KeepsOwners
<1>12. RowsLinked'
    BY <1>0, <1>2, <1>5, <1>9 DEF RowsLinked
<1>13. OnlyOf(u)
    BY <1>2, <1>5, <1>9 DEF OnlyOf
<1>14. JobLinked(job)'
    BY <1>2, <1>5, <1>8, <1>9 DEF JobLinked
<1>15. ASSUME u \notin contested
       PROVE  Settled(u)'
    BY <1>1, <1>2, <1>4, <1>8, <1>15, PlainSettled DEF CoreStep
<1>16. ApprovedOf(u)' = ApprovedOf(u) /\ CurrentPapers(u)' = CurrentPapers(u)
    BY <1>2, SameApproved
<1>17. ASSUME u \notin contested \cup returned
       PROVE  Fresh(u)'
    BY <1>2, <1>16, <1>17 DEF BusinessInv, Fresh
<1>18. ASSUME Clean(u)'
       PROVE  Documented(u)'
  <2>1. Documented(u)
      BY <1>2, <1>18 DEF BusinessInv, Clean
  <2>2. CurrentPapers(u) \cup old.papers = Document
      BY <1>1, <1>2, <2>1 DEF Documented, JobDocumented
  <2>3. JobDocumented(job)'
      BY <1>8, <1>16, <2>2 DEF JobDocumented
  <2>4. \A s \in Upgrade : upgrade'[s] = upgrade[s] \/ ~upgrade'[s].stored
      BY <1>6, <1>9
  <2>5. QED
      BY <1>2, <1>4, <1>8, <1>10, <1>11, <1>16, <2>1, <2>3, <2>4, DocumentedKept
<1>19. QED
    BY <1>1, <1>2, <1>4, <1>8, <1>10, <1>11, <1>12, <1>13, <1>14, <1>15, <1>17, <1>18,
       RowStepInv

(* The row of a request that is about to be written.                       *)
LEMMA UpgradeJob ==
    ASSUME BusinessInv, NEW w \in BusinessWorker,
           businessJob[w].step \in {"papers", "changing", "refuse"}
    PROVE  /\ businessJob[w] \in BusinessJob /\ businessJob[w].trader \in Trader
           /\ businessJob[w].row \in Upgrade
           /\ upgrade[businessJob[w].row] \in UpgradeRow
           /\ upgrade[businessJob[w].row].status # "UNUSED"
           /\ business[upgrade[businessJob[w].row].business].owner = businessJob[w].trader
           /\ upgrade[businessJob[w].row].business \in Profile_
<1>1. /\ BusinessTypeOK /\ RowsLinked /\ JobLinked(businessJob[w])
    BY DEF BusinessInv
<1>2. QED
    BY <1>1 DEF JobLinked, RowsLinked, BusinessTypeOK

(* Its documents, or that it is refused.                                   *)
LEMMA UpgradeWriteInv ==
    ASSUME BusinessInv, NEW w \in BusinessWorker, UpgradePapers(w) \/ RefuseCommit(w)
    PROVE  BusinessInv'
<1>0. /\ BusinessTypeOK /\ RowsLinked /\ NoTrader \notin Trader
    BY BusinessAssumption DEF BusinessInv
<1>1. PICK job, u, r : job = businessJob[w] /\ u = job.trader /\ r = job.row
    OBVIOUS
<1>2. PICK old : old = upgrade[r]
    OBVIOUS
<1>3. /\ job \in BusinessJob /\ u \in Trader /\ r \in Upgrade /\ old \in UpgradeRow
      /\ old.status # "UNUSED" /\ business[old.business].owner = u
      /\ old.business \in Profile_ /\ job.step \in {"papers", "refuse"}
    BY <1>1, <1>2, UpgradeJob DEF UpgradePapers, RefuseCommit, BusinessAt
<1>4. /\ UNCHANGED <<trader, application, business, contested, returned, overridden, torn>>
      /\ BusinessReturn(w)
    BY DEF UpgradePapers, RefuseCommit, businessHistory
<1>5. PICK row \in UpgradeRow :
         /\ upgrade' = [upgrade EXCEPT ![r] = row]
         /\ row.status # "UNUSED" /\ row.business = old.business
         /\ \/ job.step = "papers" /\ row.papers = job.papers
            \/ row.papers = old.papers /\ row.stored = old.stored
  <2>1. CASE UpgradePapers(w)
    <3> DEFINE row1 == [old EXCEPT !.papers = job.papers]
               row == [row1 EXCEPT !.stored = TRUE]
    <3>1. upgrade' = [upgrade EXCEPT ![r] = row]
        BY <1>0, <1>1, <1>2, <1>3, <2>1 DEF UpgradePapers, BusinessTypeOK, UpgradeRow
    <3>2. /\ row \in UpgradeRow /\ row.status = old.status /\ row.business = old.business
          /\ row.papers = job.papers
        BY <1>3 DEF UpgradeRow, BusinessJob
    <3>3. job.step = "papers"
        BY <1>1, <2>1 DEF UpgradePapers, BusinessAt
    <3> HIDE DEF row
    <3>4. QED
        BY <1>3, <3>1, <3>2, <3>3
  <2>2. CASE RefuseCommit(w)
    <3> DEFINE row == [old EXCEPT !.status = "REJECTED"]
    <3>1. upgrade' = [upgrade EXCEPT ![r] = row]
        BY <1>1, <1>2, <2>2, Zenon DEF RefuseCommit
    <3>2. /\ row \in UpgradeRow /\ row.status = "REJECTED" /\ row.business = old.business
          /\ row.papers = old.papers /\ row.stored = old.stored
        BY <1>3 DEF UpgradeRow
    <3> HIDE DEF row
    <3>3. QED
        BY <3>1, <3>2
  <2>3. QED
      BY <2>1, <2>2
<1>6. /\ upgrade' \in [Upgrade -> UpgradeRow] /\ upgrade'[r] = row
      /\ \A s \in Upgrade \ {r} : upgrade'[s] = upgrade[s]
    BY <1>0, <1>3, <1>5 DEF BusinessTypeOK
<1>7. BusinessTypeOK'
    BY <1>0, <1>4, <1>6, EndJob DEF BusinessTypeOK
<1>8. KeepsOwners
    BY <1>2, <1>4, <1>5, <1>6 DEF KeepsOwners
<1>9. RowsLinked'
    BY <1>0, <1>2, <1>3, <1>4, <1>5, <1>6 DEF RowsLinked
<1>10. OnlyOf(u)
    BY <1>3, <1>4, <1>5, <1>6 DEF OnlyOf
<1>11. ASSUME u \notin contested
       PROVE  Settled(u)'
  <2>1. businessJob[w].step \notin CoreStep
      BY <1>1, <1>3 DEF CoreStep
  <2>2. QED
      BY <1>0, <1>3, <1>4, <1>11, <2>1, EndJob, PlainSettled DEF CoreStep
<1>12. ApprovedOf(u)' = ApprovedOf(u) /\ CurrentPapers(u)' = CurrentPapers(u)
    BY <1>4, SameApproved
<1>13. ASSUME u \notin contested \cup returned
       PROVE  Fresh(u)'
    BY <1>3, <1>4, <1>12, <1>13 DEF BusinessInv, Fresh
<1>14. ASSUME Clean(u)'
       PROVE  Documented(u)'
  <2>1. Documented(u)
      BY <1>3, <1>4, <1>14 DEF BusinessInv, Clean
  <2>2. BusinessIdle.trader # u
      BY <1>0, <1>3, BusinessIdleJob
  <2>3. job.step = "papers" => CurrentPapers(u) \cup job.papers = Document
      BY <1>1, <2>1 DEF Documented, JobDocumented
  <2>4. old.stored => CurrentPapers(u) \cup old.papers = Document
      BY <1>2, <1>3, <2>1 DEF Documented
  <2>5. \A s \in Upgrade : \/ upgrade'[s] = upgrade[s]
                           \/ upgrade'[s].stored =>
                                 CurrentPapers(u)' \cup upgrade'[s].papers = Document
      BY <1>5, <1>6, <1>12, <2>3, <2>4
  <2>6. QED
      BY <1>0, <1>3, <1>4, <1>7, <1>8, <1>12, <2>1, <2>2, <2>5, EndJob, DocumentedKept
<1>15. QED
  <2>1. businessJob[w].trader = u
      BY <1>1
  <2>2. QED
      BY <1>0, <1>3, <1>4, <1>7, <1>8, <1>9, <1>10, <1>11, <1>13, <1>14, <2>1, EndJob,
         RowStepInv

(* The change is granted.                                                  *)
LEMMA ChangeCommitInv ==
    ASSUME BusinessInv, NEW w \in BusinessWorker, ChangeCommit(w)
    PROVE  BusinessInv'
<1>0. /\ BusinessTypeOK /\ RowsLinked /\ JobLinked(businessJob[w]) /\ NoTrader \notin Trader
    BY BusinessAssumption DEF BusinessInv
<1>1. PICK job, u, r, i : /\ job = businessJob[w] /\ u = job.trader
                          /\ r = job.row /\ i = job.read
    OBVIOUS
<1>2. PICK old, b, app, prof : /\ old = upgrade[r] /\ b = old.business
                               /\ app = application[i] /\ prof = business[b]
    OBVIOUS
<1> DEFINE row == [old EXCEPT !.status = "APPROVED"]
           app2 == [app EXCEPT !.papers = job.papers]
           prof2 == [prof EXCEPT !.type = old.to]
<1>3. /\ job \in BusinessJob /\ u \in Trader /\ r \in Upgrade /\ old \in UpgradeRow
      /\ old.status # "UNUSED" /\ prof.owner = u /\ b \in Profile_
      /\ job.step = "changing" /\ i \in Application /\ app.user = u
      /\ job.papers # {} /\ app \in ApplicationRow /\ prof \in ProfileRow_
  <2>1. businessJob[w].step = "changing"
      BY DEF ChangeCommit, BusinessAt
  <2>2. i \in Application /\ app.user = u /\ job.papers # {}
      BY <1>0, <1>1, <1>2, <2>1 DEF JobLinked
  <2>3. /\ job \in BusinessJob /\ u \in Trader /\ r \in Upgrade /\ old \in UpgradeRow
        /\ old.status # "UNUSED" /\ prof.owner = u /\ b \in Profile_
      BY <1>1, <1>2, <2>1, UpgradeJob
  <2>4. QED
      BY <1>0, <1>1, <1>2, <2>1, <2>2, <2>3 DEF BusinessTypeOK
<1>4. /\ UNCHANGED <<trader, contested, returned, overridden, torn>>
      /\ BusinessReturn(w)
    BY DEF ChangeCommit, businessHistory
<1>5. /\ application' = [application EXCEPT ![i] = app2]
      /\ business' = [business EXCEPT ![b] = prof2]
      /\ upgrade' = [upgrade EXCEPT ![r] = row]
    BY <1>1, <1>2, Zenon DEF ChangeCommit
<1>6. /\ row \in UpgradeRow /\ row.status = "APPROVED" /\ row.business = b
      /\ row.papers = old.papers /\ row.stored = old.stored
    BY <1>2, <1>3 DEF UpgradeRow
<1>7. /\ app2 \in ApplicationRow /\ app2.user = app.user /\ app2.status = app.status
      /\ app2.type = app.type /\ app2.reviewed = app.reviewed /\ app2.papers = job.papers
    BY <1>3 DEF ApplicationRow, BusinessJob
<1>8. prof2 \in ProfileRow_ /\ prof2.owner = u
    BY <1>3 DEF ProfileRow_, UpgradeRow
<1> HIDE DEF row, app2, prof2
<1>9. /\ application' \in [Application -> ApplicationRow] /\ application'[i] = app2
      /\ \A j \in Application \ {i} : application'[j] = application[j]
      /\ business' \in [Profile_ -> ProfileRow_] /\ business'[b] = prof2
      /\ \A c \in Profile_ \ {b} : business'[c] = business[c]
      /\ upgrade' \in [Upgrade -> UpgradeRow] /\ upgrade'[r] = row
      /\ \A s \in Upgrade \ {r} : upgrade'[s] = upgrade[s]
    BY <1>0, <1>3, <1>5, <1>6, <1>7, <1>8 DEF BusinessTypeOK
<1>10. BusinessTypeOK'
    BY <1>0, <1>4, <1>9, EndJob DEF BusinessTypeOK
<1>11. \A j \in Application :
          /\ application'[j].user = application[j].user
          /\ application'[j].status = application[j].status
          /\ application'[j].type = application[j].type
          /\ application'[j].reviewed = application[j].reviewed
    BY <1>2, <1>7, <1>9
<1>12. \A c \in Profile_ : business'[c].owner = business[c].owner
    BY <1>2, <1>3, <1>8, <1>9
<1>13. KeepsOwners
    BY <1>2, <1>3, <1>6, <1>9, <1>11, <1>12 DEF KeepsOwners
<1>14. RowsLinked'
  <2>1. \A s \in Upgrade : upgrade'[s].status # "UNUSED" =>
           upgrade[s].status # "UNUSED" /\ upgrade'[s].business = upgrade[s].business
      BY <1>2, <1>3, <1>6, <1>9
  <2>2. \A c \in Profile_ : business[c].owner = NoTrader => business'[c] = business[c]
      BY <1>0, <1>2, <1>3, <1>9
  <2>3. QED
      BY <1>0, <1>11, <1>12, <2>1, <2>2 DEF RowsLinked
<1>15. OnlyOf(u)
    BY <1>2, <1>3, <1>4, <1>6, <1>7, <1>8, <1>9 DEF OnlyOf
<1>16. ASSUME u \notin contested
       PROVE  Settled(u)' /\ app.status = "APPROVED"
  <2>1. app.status = "APPROVED"
      BY <1>1, <1>2, <1>3, <1>16 DEF BusinessInv, Settled, JobSettled
  <2>2. \A j \in Application :
           \/ application'[j].papers = application[j].papers
           \/ application[j].status = "APPROVED" /\ application'[j].papers # {}
      BY <1>2, <1>3, <1>7, <1>9, <2>1
  <2>3. businessJob[w].step \notin CoreStep
      BY <1>1, <1>3 DEF CoreStep
  <2>4. Settled(u)'
      BY <1>0, <1>3, <1>4, <1>11, <1>16, <2>2, <2>3, EndJob, PlainSettled DEF CoreStep
  <2>5. QED
      BY <2>1, <2>4
<1>17. ApprovedOf(u)' = ApprovedOf(u)
    BY <1>11 DEF ApprovedOf
<1>18. ASSUME u \notin contested \cup returned
       PROVE  Fresh(u)' /\ Fresh(u)
    BY <1>3, <1>4, <1>12, <1>17, <1>18 DEF BusinessInv, Fresh
<1>19. ASSUME Clean(u)'
       PROVE  Documented(u)'
  <2>1. Documented(u) /\ u \notin contested \cup returned
      BY <1>3, <1>4, <1>19 DEF BusinessInv, Clean
  <2>2. job.papers = Document
      BY <1>1, <1>3, <2>1 DEF Documented, JobDocumented
  <2>3. ApprovedOf(u)' = {i}
      BY <1>2, <1>3, <1>16, <1>17, <1>18, <2>1 DEF ApprovedOf, Fresh
  <2>4. application'[i].reviewed \in Nat
      BY <1>3, <1>9 DEF ApplicationRow
  <2>5. CurrentApplication(u)' = {i}
      BY <2>3, <2>4 DEF CurrentApplication
  <2>6. CurrentPapers(u)' = Document
      BY <1>7, <1>9, <2>2, <2>5 DEF CurrentPapers
  <2>7. CurrentPapers(u) \subseteq Document
      BY <1>0, PapersAreDocuments
  <2>8. \A s \in Upgrade : upgrade'[s].papers \subseteq Document
      BY <1>9 DEF UpgradeRow
  <2>9. BusinessIdle.trader # u
      BY <1>0, <1>3, BusinessIdleJob
  <2>10. \A s \in Upgrade : CurrentPapers(u)' \cup upgrade'[s].papers = Document
      BY <2>6, <2>8
  <2>11. QED
      BY <1>0, <1>3, <1>4, <1>10, <1>13, <2>1, <2>6, <2>7, <2>9, <2>10, EndJob, DocumentedKept
<1>20. QED
  <2>1. businessJob[w].trader = u
      BY <1>1
  <2>2. QED
      BY <1>0, <1>3, <1>4, <1>10, <1>13, <1>14, <1>15, <1>16, <1>18, <1>19, <2>1, EndJob,
         RowStepInv

(* The owner, or an admin, saves a profile.                                *)
LEMMA ProfileSaveInv ==
    ASSUME BusinessInv, NEW w \in BusinessWorker,
           \/ \E active \in BOOLEAN : OwnerSave(w, active)
           \/ \E active, named \in BOOLEAN, type \in BusinessType :
                 AdminSave(w, active, named, type)
    PROVE  BusinessInv'
<1>0. /\ BusinessTypeOK /\ RowsLinked /\ JobLinked(businessJob[w]) /\ NoTrader \notin Trader
    BY BusinessAssumption DEF BusinessInv
<1>1. PICK job, u, b : job = businessJob[w] /\ u = job.trader /\ b = job.row
    OBVIOUS
<1>2. PICK old : old = job.profile
    OBVIOUS
<1>3. /\ job \in BusinessJob /\ u \in Trader /\ b \in Profile_ /\ business[b].owner = u
      /\ old \in ProfileRow_ /\ old.owner = u /\ job.step = "profile"
    BY <1>0, <1>1, <1>2 DEF OwnerSave, AdminSave, BusinessAt, JobLinked, BusinessTypeOK,
                            BusinessJob
<1>4. /\ UNCHANGED <<trader, application, upgrade, contested, returned, torn>>
      /\ BusinessReturn(w)
    BY DEF OwnerSave, AdminSave, businessHistory
<1>5. PICK row \in ProfileRow_ :
         /\ business' = [business EXCEPT ![b] = row] /\ row.owner = u
         /\ \/ row.type = old.type /\ overridden' = overridden
            \/ overridden' = overridden \cup {u}
  <2>1. CASE \E active \in BOOLEAN : OwnerSave(w, active)
    <3>1. PICK active \in BOOLEAN : OwnerSave(w, active)
        BY <2>1
    <3> DEFINE row == [old EXCEPT !.active = active]
    <3>2. business' = [business EXCEPT ![b] = row]
        BY <1>1, <1>2, <3>1, Zenon DEF OwnerSave
    <3>3. row \in ProfileRow_ /\ row.owner = u /\ row.type = old.type
        BY <1>3 DEF ProfileRow_
    <3>4. overridden' = overridden
        BY <3>1 DEF OwnerSave, businessHistory
    <3> HIDE DEF row
    <3>5. QED
        BY <3>2, <3>3, <3>4
  <2>2. CASE \E active, named \in BOOLEAN, type \in BusinessType :
                AdminSave(w, active, named, type)
    <3>1. PICK active \in BOOLEAN, named \in BOOLEAN, type \in BusinessType :
             AdminSave(w, active, named, type)
        BY <2>2
    <3> DEFINE row == [old EXCEPT !.active = active, !.named = named, !.type = type]
    <3>2. business' = [business EXCEPT ![b] = row]
        BY <1>1, <1>2, <3>1, Zenon DEF AdminSave
    <3>3. row \in ProfileRow_ /\ row.owner = u
        BY <1>3 DEF ProfileRow_
    <3>4. overridden' = overridden \cup {u}
        BY <1>1, <3>1 DEF AdminSave
    <3> HIDE DEF row
    <3>5. QED
        BY <3>2, <3>3, <3>4
  <2>3. QED
      BY <2>1, <2>2
<1>6. /\ business' \in [Profile_ -> ProfileRow_] /\ business'[b] = row
      /\ \A c \in Profile_ \ {b} : business'[c] = business[c]
      /\ overridden' \subseteq Trader
    BY <1>0, <1>3, <1>5 DEF BusinessTypeOK
<1>7. BusinessTypeOK'
    BY <1>0, <1>4, <1>6, EndJob DEF BusinessTypeOK
<1>8. \A c \in Profile_ : business'[c].owner = business[c].owner
    BY <1>3, <1>5, <1>6
<1>9. KeepsOwners
    BY <1>4, <1>8 DEF KeepsOwners
<1>10. RowsLinked'
  <2>1. \A c \in Profile_ : business[c].owner = NoTrader => business'[c] = business[c]
      BY <1>0, <1>3, <1>6
  <2>2. QED
      BY <1>0, <1>4, <1>8, <2>1 DEF RowsLinked
<1>11. OnlyOf(u)
    BY <1>3, <1>4, <1>5, <1>6 DEF OnlyOf
<1>12. ASSUME u \notin contested
       PROVE  Settled(u)'
  <2>1. businessJob[w].step \notin CoreStep
      BY <1>1, <1>3 DEF CoreStep
  <2>2. QED
      BY <1>0, <1>3, <1>4, <1>12, <2>1, EndJob, PlainSettled DEF CoreStep
<1>13. ApprovedOf(u)' = ApprovedOf(u) /\ CurrentPapers(u)' = CurrentPapers(u)
    BY <1>4, SameApproved
<1>14. ASSUME u \notin contested \cup returned
       PROVE  Fresh(u)'
    BY <1>3, <1>4, <1>8, <1>13, <1>14 DEF BusinessInv, Fresh
<1>15. ASSUME Clean(u)'
       PROVE  Documented(u)'
  <2>1. u \notin overridden' /\ Clean(u)
      BY <1>4, <1>5, <1>15 DEF Clean
  <2>2. Documented(u) /\ row.type = old.type
      BY <1>3, <1>5, <2>1 DEF BusinessInv
  <2>3. row.type # "INDIVIDUAL" => CurrentPapers(u)' = Document
      BY <1>1, <1>2, <1>3, <1>13, <2>2 DEF Documented, JobDocumented
  <2>4. BusinessIdle.trader # u
      BY <1>0, <1>3, BusinessIdleJob
  <2>5. QED
      BY <1>0, <1>3, <1>4, <1>6, <1>7, <1>9, <1>13, <2>2, <2>3, <2>4, EndJob, DocumentedKept
<1>16. QED
  <2>1. businessJob[w].trader = u
      BY <1>1
  <2>2. \A v \in Trader \ {u} : v \in overridden <=> v \in overridden'
      BY <1>5
  <2>3. QED
      BY <1>0, <1>3, <1>4, <1>7, <1>9, <1>10, <1>11, <1>12, <1>14, <1>15, <2>1, EndJob,
         RowStepInv

LEMMA BusinessNextInv == BusinessInv /\ [BusinessNext]_businessVars => BusinessInv'
<1> SUFFICES ASSUME BusinessInv, [BusinessNext]_businessVars PROVE BusinessInv'
    OBVIOUS
<1>1. CASE UNCHANGED businessVars
  <2>1. /\ UNCHANGED <<trader, application, business, upgrade, businessJob>>
        /\ UNCHANGED <<contested, returned, overridden, torn>>
      BY <1>1 DEF businessVars, businessHistory
  <2>2. BusinessTypeOK' /\ RowsLinked'
      BY <2>1 DEF BusinessInv, BusinessTypeOK, RowsLinked
  <2>3. \A w \in BusinessWorker : JobLinked(businessJob[w])'
      BY <2>1 DEF BusinessInv, JobLinked
  <2>4. ASSUME NEW u \in Trader
        PROVE  /\ u \notin contested' => Settled(u)'
               /\ u \notin contested' \cup returned' => Fresh(u)'
               /\ Clean(u)' => Documented(u)'
    <3>1. /\ ApprovedOf(u)' = ApprovedOf(u) /\ CurrentPapers(u)' = CurrentPapers(u)
          /\ Pending(u)' = Pending(u) /\ NextReview' = NextReview
        BY <2>1, SameApproved DEF Pending, NextReview
    <3>2. ASSUME u \notin contested' PROVE Settled(u)'
      <4>1. Settled(u)
          BY <2>1, <3>2 DEF BusinessInv
      <4>2. ASSUME NEW w \in BusinessWorker, businessJob'[w].trader = u
            PROVE  JobSettled(businessJob[w])'
          BY <2>1, <3>1, <4>1, <4>2 DEF Settled, JobSettled, Pending
      <4>3. QED
          BY <2>1, <3>1, <4>1, <4>2 DEF Settled, Core
    <3>3. u \notin contested' \cup returned' => Fresh(u)'
        BY <2>1, <3>1 DEF BusinessInv, Fresh
    <3>4. ASSUME Clean(u)' PROVE Documented(u)'
      <4>1. Documented(u)
          BY <2>1, <3>4 DEF BusinessInv, Clean
      <4>2. ASSUME NEW w \in BusinessWorker, businessJob'[w].trader = u
            PROVE  JobDocumented(businessJob[w])'
          BY <2>1, <3>1, <4>1, <4>2 DEF Documented, JobDocumented
      <4>3. QED
          BY <2>1, <3>1, <4>1, <4>2 DEF Documented
    <3>5. QED
        BY <3>2, <3>3, <3>4
  <2>5. QED
      BY <2>2, <2>3, <2>4 DEF BusinessInv
<1>2. CASE BusinessNext
  <2>1. PICK w \in BusinessWorker :
        \/ \E u \in Trader : ApplyEnter(w, u)
        \/ ApplyCheck(w)
        \/ \E i \in Application, t \in BusinessType, p \in SUBSET Document :
              ApplyCommit(w, i, t, p)
        \/ \E i \in Application :
              ApproveRead(w, i) \/ RejectRead(w, i) \/ ChangeCheck(w, i)
        \/ ApproveCheck(w)
        \/ ApproveCommit(w)
        \/ RejectCommit(w)
        \/ \E b \in Profile_, t \in BusinessType, p \in SUBSET Document :
              UpgradeEnter(w, b, t, p)
        \/ UpgradeCheck(w)
        \/ \E r \in Upgrade : UpgradeInsert(w, r)
        \/ UpgradePapers(w)
        \/ \E r \in Upgrade, step \in {"change", "refuse"} : ChangeRead(w, r, step)
        \/ ChangeCommit(w)
        \/ RefuseCommit(w)
        \/ \E u \in Trader, b \in Profile_ : SwitchCheck(w, u, b)
        \/ SwitchCommit(w)
        \/ \E b \in Profile_ : SaveRead(w, b)
        \/ \E active \in BOOLEAN : OwnerSave(w, active)
        \/ \E active, named \in BOOLEAN, t \in BusinessType :
              AdminSave(w, active, named, t)
        \/ BusinessAbort(w)
      BY <1>2, Zenon DEF BusinessNext
  <2>2. CASE \/ \E u \in Trader : ApplyEnter(w, u)
             \/ ApplyCheck(w)
             \/ \E i \in Application, t \in BusinessType, p \in SUBSET Document :
                   ApplyCommit(w, i, t, p)
             \/ \E i \in Application :
                   ApproveRead(w, i) \/ RejectRead(w, i) \/ ChangeCheck(w, i)
             \/ ApproveCheck(w) \/ ApproveCommit(w) \/ RejectCommit(w)
      BY <2>2, Zenon, ApplyEnterInv, ApplyCheckInv, ApplyCommitInv, DecideReadInv,
         ChangeCheckInv, ApproveCheckInv, ApproveCommitInv, RejectCommitInv
  <2>3. CASE \/ \E b \in Profile_, t \in BusinessType, p \in SUBSET Document :
                   UpgradeEnter(w, b, t, p)
             \/ UpgradeCheck(w)
             \/ \E r \in Upgrade : UpgradeInsert(w, r)
             \/ UpgradePapers(w)
             \/ \E r \in Upgrade, step \in {"change", "refuse"} : ChangeRead(w, r, step)
             \/ ChangeCommit(w) \/ RefuseCommit(w)
      BY <2>3, Zenon, UpgradeEnterInv, UpgradeCheckInv, UpgradeInsertInv, UpgradeWriteInv,
         ChangeReadInv, ChangeCommitInv
  <2>4. CASE \/ \E u \in Trader, b \in Profile_ : SwitchCheck(w, u, b)
             \/ SwitchCommit(w)
             \/ \E b \in Profile_ : SaveRead(w, b)
             \/ \E active \in BOOLEAN : OwnerSave(w, active)
             \/ \E active, named \in BOOLEAN, t \in BusinessType :
                   AdminSave(w, active, named, t)
             \/ BusinessAbort(w)
      BY <2>4, Zenon, SwitchCheckInv, SwitchCommitInv, SaveReadInv, ProfileSaveInv,
         BusinessAbortInv
  <2>5. QED
      BY <2>1, <2>2, <2>3, <2>4, Zenon
<1>3. QED
    BY <1>1, <1>2

(* A user is a BUSINESS exactly while he is verified, and then the         *)
(* documents of his last approved application stand, unless two requests   *)
(* about his applications overlapped, for any number of users,             *)
(* applications, profiles and requests.                                    *)
THEOREM BusinessApprovedCorrect == BusinessSpec => []BusinessApproved
<1>1. BusinessInv => BusinessApproved
    BY DEF BusinessInv, Settled, BusinessApproved
<1>2. QED
    BY <1>1, BusinessInitInv, BusinessNextInv, PTL DEF BusinessSpec

(* The business of a company has all the documents of a company, but for   *)
(* what CompaniesDocumented names, however it became one.                  *)
THEOREM CompaniesDocumentedCorrect == BusinessSpec => []CompaniesDocumented
<1>1. BusinessInv => CompaniesDocumented
  <2> SUFFICES ASSUME BusinessInv, NEW b \in Profile_
               PROVE  LET u == business[b].owner IN
                      \/ u \in contested \cup returned \cup overridden \cup torn
                      \/ business[b].type # "INDIVIDUAL" => CurrentPapers(u) = Document
      BY DEF CompaniesDocumented
  <2>1. PICK u : u = business[b].owner
      OBVIOUS
  <2>2. CASE u = NoTrader
      BY <2>1, <2>2 DEF BusinessInv, RowsLinked
  <2>3. CASE u \in Trader
      BY <2>1, <2>3 DEF BusinessInv, Documented, Clean
  <2>4. u \in Trader \cup {NoTrader}
      BY <2>1 DEF BusinessInv, BusinessTypeOK, ProfileRow_
  <2>5. QED
      BY <2>1, <2>2, <2>3, <2>4
<1>2. QED
    BY <1>1, BusinessInitInv, BusinessNextInv, PTL DEF BusinessSpec

(* The rows of the applications, the profiles and the requests to change   *)
(* the type keep their types.                                              *)
THEOREM BusinessTypeCorrect == BusinessSpec => []BusinessTypeOK
<1>1. BusinessInv => BusinessTypeOK
    BY DEF BusinessInv
<1>2. QED
    BY <1>1, BusinessInitInv, BusinessNextInv, PTL DEF BusinessSpec

-------------------------------------------------------------------------------
(* Staff.                                                                  *)

Handling(w, p) ==
    staffJob[w].provider = p /\ staffJob[w].step \notin {"idle", "member"}

(* A provider whose requests did not overlap has one at a time and, in     *)
(* each slot, one active schedule.                                         *)
OneAtATime ==
    \A p \in Provider \ rushed :
        /\ \A v, w \in StaffWorker : Handling(v, p) /\ Handling(w, p) => v = w
        /\ \A s \in Slot : \A m, n \in ActiveAt(p, s) : m = n

(* What a request found out still holds when it writes.                    *)
StaffJobClear(w) ==
    LET job == staffJob[w]
        p == job.provider IN
    p \notin rushed =>
       /\ job.step = "insert" => \A s \in job.slots : SchedulesAt(p, s) = {}
       /\ job.step = "filling" => \A s \in job.slots : ActiveAt(p, s) = {}
       /\ job.step = "save" => SchedulesAt(p, job.row.slot) \subseteq {job.number}

(* The schedule that is saved is, or was until it was deleted, that of the *)
(* provider; and the number of no other one.                               *)
StaffJobOwn(w) ==
    LET job == staffJob[w] IN
    /\ job.step = "idle" => job.provider = Nobody
    /\ job.step # "idle" => job.provider \in Provider
    /\ job.step # "save" => job.number = 0
    /\ job.step = "save" =>
          /\ job.number \in Schedule
          /\ job.row.provider = job.provider
          /\ schedule[job.number].provider \in {job.provider, Nobody}
          /\ \A v \in StaffWorker :
                staffJob[v].number = job.number => staffJob[v].provider = job.provider

StaffInv ==
    /\ StaffTypeOK
    /\ OneAtATime
    /\ \A w \in StaffWorker : StaffJobClear(w) /\ StaffJobOwn(w)

LEMMA StaffIdleJob == StaffIdle \in StaffJob /\ NoSchedule \in ScheduleRow
BY DEF StaffIdle, StaffJob, NoSchedule, ScheduleRow

LEMMA StaffInitInv == StaffInit => StaffInv
<1> SUFFICES ASSUME StaffInit PROVE StaffInv
    OBVIOUS
<1>1. StaffTypeOK
    BY StaffIdleJob DEF StaffInit, StaffTypeOK
<1>2. \A w \in StaffWorker : /\ staffJob[w].step = "idle" /\ staffJob[w].provider = Nobody
                             /\ staffJob[w].number = 0
    BY DEF StaffInit, StaffIdle
<1>3. \A n \in Schedule : schedule[n].provider = Nobody
    BY DEF StaffInit, NoSchedule
<1>4. OneAtATime
    BY <1>2, <1>3, StaffAssumption DEF OneAtATime, Handling, ActiveAt, SchedulesAt
<1>5. QED
    BY <1>1, <1>2, <1>4 DEF StaffInv, StaffJobClear, StaffJobOwn

(* The schedules of a provider that a step leaves alone.                   *)
LEMMA OthersKept ==
    ASSUME NEW p,
           \A n \in Schedule :
              \/ schedule'[n] = schedule[n]
              \/ /\ schedule[n].provider \in {p, Nobody}
                 /\ schedule'[n].provider \in {p, Nobody}
    PROVE  \A q \in Provider \ {p} : \A s : /\ SchedulesAt(q, s)' = SchedulesAt(q, s)
                                            /\ ActiveAt(q, s)' = ActiveAt(q, s)
BY StaffAssumption DEF SchedulesAt, ActiveAt

(* A worker that returns is idle, the others are where they were.          *)
LEMMA StaffReturnJobs ==
    ASSUME StaffTypeOK, NEW w \in StaffWorker, StaffReturn(w)
    PROVE  /\ staffJob' \in [StaffWorker -> StaffJob]
           /\ staffJob'[w].step = "idle" /\ staffJob'[w].provider = Nobody
           /\ staffJob'[w].number = 0
           /\ \A v \in StaffWorker \ {w} : staffJob'[v] = staffJob[v]
<1>1. StaffIdle.step = "idle" /\ StaffIdle.provider = Nobody /\ StaffIdle.number = 0
    BY DEF StaffIdle
<1>2. QED
    BY <1>1, StaffIdleJob DEF StaffReturn, StaffTypeOK

(* A request ends, and schedules have become fewer or inactive.            *)
LEMMA FewerSchedules ==
    ASSUME StaffInv,
           solo' \in BOOLEAN, employee' \in [Employee -> {"none", "active", "inactive"}],
           schedule' \in [Schedule -> ScheduleRow], rushed' = rushed,
           \A n \in Schedule :
              \/ schedule'[n] = NoSchedule
              \/ /\ schedule'[n].provider = schedule[n].provider
                 /\ schedule'[n].slot = schedule[n].slot
                 /\ schedule'[n].active => schedule[n].active,
           staffJob' = staffJob \/ \E w \in StaffWorker : StaffReturn(w)
    PROVE  StaffInv'
<1>0. /\ StaffTypeOK /\ OneAtATime
      /\ \A w \in StaffWorker : StaffJobClear(w) /\ StaffJobOwn(w)
    BY DEF StaffInv
<1>1. /\ staffJob' \in [StaffWorker -> StaffJob]
      /\ \A v \in StaffWorker :
            \/ staffJob'[v] = staffJob[v]
            \/ /\ staffJob'[v].step = "idle" /\ staffJob'[v].provider = Nobody
               /\ staffJob'[v].number = 0
  <2>1. CASE staffJob' = staffJob
      BY <1>0, <2>1 DEF StaffTypeOK
  <2>2. CASE \E w \in StaffWorker : StaffReturn(w)
      BY <1>0, <2>2, StaffReturnJobs
  <2>3. QED
      BY <2>1, <2>2
<1>2. \A p \in Provider : \A s : /\ SchedulesAt(p, s)' \subseteq SchedulesAt(p, s)
                                  /\ ActiveAt(p, s)' \subseteq ActiveAt(p, s)
  <2>1. NoSchedule.provider = Nobody
      BY DEF NoSchedule
  <2>2. QED
      BY <2>1, StaffAssumption DEF SchedulesAt, ActiveAt
<1>3. StaffTypeOK'
    BY <1>0, <1>1 DEF StaffTypeOK
<1>4. OneAtATime'
    BY <1>0, <1>1, <1>2 DEF OneAtATime, Handling
<1>5. \A v \in StaffWorker : StaffJobOwn(v)'
  <2>1. NoSchedule.provider = Nobody
      BY DEF NoSchedule
  <2>2. \A n \in Schedule : schedule'[n].provider \in {schedule[n].provider, Nobody}
      BY <2>1
  <2>3. 0 \notin Schedule
      BY StaffAssumption DEF Schedule
  <2>4. QED
      BY <1>0, <1>1, <2>2, <2>3 DEF StaffJobOwn
<1>6. \A v \in StaffWorker : StaffJobClear(v)'
  <2> SUFFICES ASSUME NEW v \in StaffWorker PROVE StaffJobClear(v)'
      OBVIOUS
  <2>1. CASE staffJob'[v] = staffJob[v] /\ staffJob[v].step # "idle"
    <3>1. staffJob[v].provider \in Provider /\ StaffJobClear(v)
        BY <1>0, <2>1 DEF StaffJobOwn
    <3>2. QED
        BY <1>2, <2>1, <3>1 DEF StaffJobClear
  <2>2. CASE staffJob'[v].step = "idle"
      BY <2>2 DEF StaffJobClear
  <2>3. QED
      BY <1>1, <2>1, <2>2
<1>7. QED
    BY <1>3, <1>4, <1>5, <1>6 DEF StaffInv

(* A request about p ends with a write to its schedules, or to free ones.  *)
LEMMA ScheduleWriteInv ==
    ASSUME StaffInv, NEW w \in StaffWorker, NEW p \in Provider, Handling(w, p),
           StaffReturn(w), UNCHANGED <<solo, employee, rushed>>,
           schedule' \in [Schedule -> ScheduleRow],
           \A n \in Schedule :
              \/ schedule'[n] = schedule[n]
              \/ /\ schedule[n].provider \in {p, Nobody}
                 /\ schedule'[n].provider = p
                 /\ \A v \in StaffWorker : staffJob[v].number = n => staffJob[v].provider = p,
           p \notin rushed => \A s \in Slot : \A m, n \in ActiveAt(p, s)' : m = n
    PROVE  StaffInv'
<1>0. /\ StaffTypeOK /\ OneAtATime
      /\ \A v \in StaffWorker : StaffJobClear(v) /\ StaffJobOwn(v)
    BY DEF StaffInv
<1>1. /\ staffJob' \in [StaffWorker -> StaffJob]
      /\ staffJob'[w].step = "idle" /\ staffJob'[w].provider = Nobody
      /\ staffJob'[w].number = 0
      /\ \A v \in StaffWorker \ {w} : staffJob'[v] = staffJob[v]
    BY <1>0, StaffReturnJobs
<1>2. \A q \in Provider \ {p} : \A s : /\ SchedulesAt(q, s)' = SchedulesAt(q, s)
                                       /\ ActiveAt(q, s)' = ActiveAt(q, s)
    BY OthersKept
<1>3. 0 \notin Schedule
    BY StaffAssumption DEF Schedule
<1>4. StaffTypeOK'
    BY <1>0, <1>1 DEF StaffTypeOK
<1>5. OneAtATime'
    BY <1>0, <1>1, <1>2 DEF OneAtATime, Handling
<1>6. \A v \in StaffWorker : StaffJobOwn(v)'
  <2> SUFFICES ASSUME NEW v \in StaffWorker PROVE StaffJobOwn(v)'
      OBVIOUS
  <2>1. CASE v = w
      BY <1>1, <2>1 DEF StaffJobOwn
  <2>2. CASE v # w
    <3>1. staffJob[v].step = "save" =>
             schedule'[staffJob[v].number].provider \in {staffJob[v].provider, Nobody}
        BY <1>0 DEF StaffJobOwn
    <3>2. QED
        BY <1>0, <1>1, <1>3, <2>2, <3>1 DEF StaffJobOwn
  <2>3. QED
      BY <2>1, <2>2
<1>7. \A v \in StaffWorker : StaffJobClear(v)'
  <2> SUFFICES ASSUME NEW v \in StaffWorker PROVE StaffJobClear(v)'
      OBVIOUS
  <2>1. CASE v = w
      BY <1>1, <2>1 DEF StaffJobClear
  <2>2. CASE v # w /\ staffJob[v].provider = p
    <3>1. CASE staffJob[v].step \in {"idle", "member"}
        BY <1>1, <2>2, <3>1 DEF StaffJobClear
    <3>2. CASE p \in rushed
        BY <1>1, <2>2, <3>2 DEF StaffJobClear
    <3>3. CASE p \notin rushed /\ staffJob[v].step \notin {"idle", "member"}
      <4>1. Handling(v, p)
          BY <2>2, <3>3 DEF Handling
      <4>2. Handling(v, p) /\ Handling(w, p) => v = w
          BY <1>0, <3>3 DEF OneAtATime
      <4>3. QED
          BY <2>2, <4>1, <4>2
    <3>4. QED
        BY <3>1, <3>2, <3>3
  <2>3. CASE v # w /\ staffJob[v].provider \in Provider \ {p}
    <3>1. PICK q \in Provider \ {p} : q = staffJob[v].provider
        BY <2>3
    <3>2. \A s : SchedulesAt(q, s)' = SchedulesAt(q, s) /\ ActiveAt(q, s)' = ActiveAt(q, s)
        BY <1>2
    <3>3. StaffJobClear(v) /\ staffJob'[v] = staffJob[v]
        BY <1>0, <1>1, <2>3
    <3>4. QED
        BY <3>1, <3>2, <3>3 DEF StaffJobClear
  <2>4. CASE v # w /\ staffJob[v].provider \notin Provider
      BY <1>0, <1>1, <2>4 DEF StaffJobClear, StaffJobOwn
  <2>5. QED
      BY <2>1, <2>2, <2>3, <2>4
<1>8. QED
    BY <1>4, <1>5, <1>6, <1>7 DEF StaffInv

LEMMA ScheduleInsertInv ==
    ASSUME StaffInv, NEW w \in StaffWorker, NEW k \in Schedule, NEW active \in BOOLEAN,
           ScheduleInsert(w, k, active)
    PROVE  StaffInv'
<1>0. /\ StaffTypeOK /\ OneAtATime /\ StaffJobClear(w) /\ StaffJobOwn(w)
    BY DEF StaffInv
<1> PICK p : p = staffJob[w].provider
    OBVIOUS
<1>1. PICK s \in staffJob[w].slots :
         schedule' = [schedule EXCEPT ![k] = [provider |-> p, slot |-> s, active |-> active]]
    BY DEF ScheduleInsert
<1> DEFINE row == [provider |-> p, slot |-> s, active |-> active]
<1>2. /\ staffJob[w].step = "insert" /\ p \in Provider /\ s \in Slot
      /\ Free(k) /\ StaffReturn(w) /\ UNCHANGED <<solo, employee, rushed>>
    BY <1>0 DEF ScheduleInsert, StaffAt, StaffJobOwn, StaffTypeOK, StaffJob
<1>3. row \in ScheduleRow /\ row.provider = p /\ row.slot = s
    BY <1>2 DEF ScheduleRow
<1>4. schedule' = [schedule EXCEPT ![k] = row]
    BY <1>1
<1> HIDE DEF row
<1>5. /\ schedule' \in [Schedule -> ScheduleRow] /\ schedule'[k] = row
      /\ \A n \in Schedule \ {k} : schedule'[n] = schedule[n]
    BY <1>0, <1>3, <1>4 DEF StaffTypeOK
<1>6. p \notin rushed => \A t \in Slot : \A m, n \in ActiveAt(p, t)' : m = n
  <2> SUFFICES ASSUME p \notin rushed, NEW t \in Slot, NEW m \in ActiveAt(p, t)',
                      NEW n \in ActiveAt(p, t)'
               PROVE  m = n
      OBVIOUS
  <2>1. SchedulesAt(p, s) = {}
      BY <1>0, <1>2 DEF StaffJobClear
  <2>2. CASE t = s
      BY <1>5, <2>1, <2>2 DEF ActiveAt, SchedulesAt
  <2>3. CASE t # s
      BY <1>0, <1>2, <1>3, <1>5, <2>3 DEF ActiveAt, SchedulesAt, OneAtATime
  <2>4. QED
      BY <2>2, <2>3
<1>7. \A n \in Schedule :
         \/ schedule'[n] = schedule[n]
         \/ /\ schedule[n].provider \in {p, Nobody}
            /\ schedule'[n].provider = p
            /\ \A v \in StaffWorker : staffJob[v].number = n => staffJob[v].provider = p
    BY <1>2, <1>3, <1>5 DEF Free
<1>8. QED
    BY <1>2, <1>5, <1>6, <1>7, ScheduleWriteInv DEF Handling

LEMMA ScheduleSaveInv ==
    ASSUME StaffInv, NEW w \in StaffWorker, ScheduleSave(w)
    PROVE  StaffInv'
<1>0. /\ StaffTypeOK /\ OneAtATime /\ StaffJobClear(w) /\ StaffJobOwn(w)
    BY DEF StaffInv
<1> PICK p, k, row :
        p = staffJob[w].provider /\ k = staffJob[w].number /\ row = staffJob[w].row
    OBVIOUS
<1>1. /\ schedule' = [schedule EXCEPT ![k] = row] /\ staffJob[w].step = "save"
      /\ StaffReturn(w) /\ UNCHANGED <<solo, employee, rushed>>
    BY DEF ScheduleSave, StaffAt
<1>2. /\ p \in Provider /\ k \in Schedule /\ row \in ScheduleRow /\ row.provider = p
      /\ schedule[k].provider \in {p, Nobody}
      /\ \A v \in StaffWorker : staffJob[v].number = k => staffJob[v].provider = p
    BY <1>0, <1>1 DEF StaffJobOwn, StaffTypeOK, StaffJob
<1>3. p \notin rushed => SchedulesAt(p, row.slot) \subseteq {k}
    BY <1>0, <1>1 DEF StaffJobClear
<1>4. Handling(w, p)
    BY <1>1 DEF Handling
<1>5. /\ schedule' \in [Schedule -> ScheduleRow] /\ schedule'[k] = row
      /\ \A n \in Schedule \ {k} : schedule'[n] = schedule[n]
    BY <1>0, <1>1, <1>2 DEF StaffTypeOK
<1>6. p \notin rushed => \A t \in Slot : \A m, n \in ActiveAt(p, t)' : m = n
  <2> SUFFICES ASSUME p \notin rushed, NEW t \in Slot, NEW m \in ActiveAt(p, t)',
                      NEW n \in ActiveAt(p, t)'
               PROVE  m = n
      OBVIOUS
  <2>2. CASE t = row.slot
      BY <1>3, <1>5, <2>2 DEF ActiveAt, SchedulesAt
  <2>3. CASE t # row.slot
      BY <1>0, <1>2, <1>5, <2>3 DEF ActiveAt, SchedulesAt, OneAtATime
  <2>4. QED
      BY <2>2, <2>3
<1>7. \A n \in Schedule :
         \/ schedule'[n] = schedule[n]
         \/ /\ schedule[n].provider \in {p, Nobody}
            /\ schedule'[n].provider = p
            /\ \A v \in StaffWorker : staffJob[v].number = n => staffJob[v].provider = p
    BY <1>2, <1>5
<1>8. QED
    BY <1>1, <1>2, <1>4, <1>5, <1>6, <1>7, ScheduleWriteInv

(* What ApplyFill writes for p in the slots.                               *)
Filled(p, slots) ==
    \E into \in [slots -> {n \in Schedule : Free(n)}] :
       /\ \A s, t \in slots : s # t => into[s] # into[t]
       /\ schedule' = [n \in Schedule |->
             IF \E s \in slots : into[s] = n
             THEN [provider |-> p, active |-> TRUE,
                   slot |-> CHOOSE s \in slots : into[s] = n]
             ELSE schedule[n]]

LEMMA ApplyFillInv ==
    ASSUME StaffInv, NEW w \in StaffWorker, ApplyFill(w)
    PROVE  StaffInv'
<1>0. /\ StaffTypeOK /\ OneAtATime /\ StaffJobClear(w) /\ StaffJobOwn(w)
    BY DEF StaffInv
<1> PICK p, slots : p = staffJob[w].provider /\ slots = staffJob[w].slots
    OBVIOUS
<1>1. Filled(p, slots)
  <2>1. Filled(staffJob[w].provider, staffJob[w].slots)
      BY Zenon DEF ApplyFill, Filled
  <2>2. QED
      BY <2>1
<1>a. PICK into \in [slots -> {n \in Schedule : Free(n)}] :
         /\ \A s, t \in slots : s # t => into[s] # into[t]
         /\ schedule' = [n \in Schedule |->
               IF \E s \in slots : into[s] = n
               THEN [provider |-> p, active |-> TRUE,
                     slot |-> CHOOSE s \in slots : into[s] = n]
               ELSE schedule[n]]
    BY <1>1, Zenon DEF Filled
<1>2. /\ staffJob[w].step = "filling" /\ p \in Provider /\ slots \subseteq Slot
      /\ StaffReturn(w) /\ UNCHANGED <<solo, employee, rushed>>
    BY <1>0 DEF ApplyFill, StaffAt, StaffJobOwn, StaffTypeOK, StaffJob
<1>3. Handling(w, p) /\ (p \notin rushed => \A s \in slots : ActiveAt(p, s) = {})
    BY <1>0, <1>2 DEF Handling, StaffJobClear
<1>4. \A n \in Schedule :
         \/ /\ \A s \in slots : into[s] # n
            /\ schedule'[n] = schedule[n]
         \/ \E s \in slots : /\ into[s] = n
                             /\ schedule'[n] \in ScheduleRow
                             /\ schedule'[n].provider = p /\ schedule'[n].slot = s
  <2> SUFFICES ASSUME NEW n \in Schedule, NEW s \in slots, into[s] = n
               PROVE  /\ schedule'[n] \in ScheduleRow
                      /\ schedule'[n].provider = p /\ schedule'[n].slot = s
      BY <1>a
  <2> DEFINE c == CHOOSE t \in slots : into[t] = n
  <2>1. c \in slots /\ into[c] = n
      OBVIOUS
  <2>2. c = s
      BY <1>a, <2>1
  <2>3. schedule'[n] = [provider |-> p, active |-> TRUE, slot |-> c]
      BY <1>a
  <2> HIDE DEF c
  <2>4. QED
      BY <1>2, <2>2, <2>3 DEF ScheduleRow
<1>5. \A s \in slots : into[s] \in Schedule /\ Free(into[s])
    BY <1>a
<1>6. schedule' \in [Schedule -> ScheduleRow]
  <2>1. \A n \in Schedule : schedule'[n] \in ScheduleRow
      BY <1>0, <1>4 DEF StaffTypeOK
  <2>2. schedule' = [n \in Schedule |-> schedule'[n]]
      BY <1>a
  <2>3. QED
      BY <2>1, <2>2
<1>7. \A n \in Schedule :
         \/ schedule'[n] = schedule[n]
         \/ /\ schedule[n].provider \in {p, Nobody}
            /\ schedule'[n].provider = p
            /\ \A v \in StaffWorker : staffJob[v].number = n => staffJob[v].provider = p
    BY <1>4, <1>5 DEF Free
<1>8. p \notin rushed => \A t \in Slot : \A m, n \in ActiveAt(p, t)' : m = n
  <2> SUFFICES ASSUME p \notin rushed, NEW t \in Slot, NEW m \in ActiveAt(p, t)',
                      NEW n \in ActiveAt(p, t)'
               PROVE  m = n
      OBVIOUS
  <2>1. /\ m \in Schedule /\ schedule'[m].slot = t /\ schedule'[m].provider = p
        /\ n \in Schedule /\ schedule'[n].slot = t /\ schedule'[n].provider = p
        /\ schedule'[m].active /\ schedule'[n].active
      BY DEF ActiveAt, SchedulesAt
  <2>2. CASE t \in slots
    <3>1. ASSUME NEW k \in ActiveAt(p, t)'
          PROVE  k = into[t]
      <4>1. /\ k \in Schedule /\ schedule'[k].slot = t /\ schedule'[k].provider = p
            /\ schedule'[k].active
          BY <3>1 DEF ActiveAt, SchedulesAt
      <4>2. schedule'[k] # schedule[k]
          BY <1>3, <2>2, <4>1 DEF ActiveAt, SchedulesAt
      <4>3. QED
          BY <1>4, <4>1, <4>2
    <3>2. QED
        BY <3>1
  <2>3. CASE t \notin slots
    <3>1. schedule'[m] = schedule[m] /\ schedule'[n] = schedule[n]
        BY <1>4, <2>1, <2>3
    <3>2. m \in ActiveAt(p, t) /\ n \in ActiveAt(p, t)
        BY <2>1, <3>1 DEF ActiveAt, SchedulesAt
    <3>3. QED
        BY <1>0, <1>2, <3>2 DEF OneAtATime
  <2>4. QED
      BY <2>2, <2>3
<1>9. QED
    BY <1>2, <1>3, <1>6, <1>7, <1>8, ScheduleWriteInv

(* A request about the schedules of p begins, or looks again.              *)
LEMMA ScheduleRequestInv ==
    ASSUME StaffInv, NEW w \in StaffWorker, NEW p \in Provider, NEW job \in StaffJob,
           staffJob' = [staffJob EXCEPT ![w] = job],
           job.provider = p, job.step \in {"insert", "apply", "filling", "save"},
           UNCHANGED <<solo, employee, schedule>>,
           Rush(w, p) \/ (Handling(w, p) /\ rushed' = rushed),
           job.step # "save" => job.number = 0,
           job.step = "save" => /\ job.number \in Schedule /\ job.row.provider = p
                                /\ schedule[job.number].provider = p,
           job.step = "insert" => \A s \in job.slots : SchedulesAt(p, s) = {},
           job.step = "filling" => \A s \in job.slots : ActiveAt(p, s) = {},
           job.step = "save" => SchedulesAt(p, job.row.slot) \subseteq {job.number}
    PROVE  StaffInv'
<1>0. /\ StaffTypeOK /\ OneAtATime
      /\ \A v \in StaffWorker : StaffJobClear(v) /\ StaffJobOwn(v)
    BY DEF StaffInv
<1>1. /\ staffJob' \in [StaffWorker -> StaffJob] /\ staffJob'[w] = job
      /\ \A v \in StaffWorker \ {w} : staffJob'[v] = staffJob[v]
    BY <1>0 DEF StaffTypeOK
<1>2. /\ rushed \subseteq rushed' /\ rushed' \subseteq rushed \cup {p}
      /\ p \notin rushed' => \A v \in StaffWorker \ {w} : ~Handling(v, p)
    BY <1>0 DEF Rush, Handling, OneAtATime
<1>3. \A q, s : SchedulesAt(q, s)' = SchedulesAt(q, s) /\ ActiveAt(q, s)' = ActiveAt(q, s)
    BY DEF SchedulesAt, ActiveAt
<1>4. StaffTypeOK'
    BY <1>0, <1>1, <1>2 DEF StaffTypeOK
<1>5. OneAtATime'
    BY <1>0, <1>1, <1>2, <1>3 DEF OneAtATime, Handling
<1>6. \A v \in StaffWorker : StaffJobOwn(v)'
  <2>1. 0 \notin Schedule
      BY StaffAssumption DEF Schedule
  <2>2. p # Nobody
      BY StaffAssumption
  <2>3. job.step = "save" => \A v \in StaffWorker :
           staffJob[v].number = job.number => staffJob[v].provider = p
      BY <1>0, <2>1, <2>2 DEF StaffJobOwn
  <2>4. StaffJobOwn(w)'
      BY <1>1, <2>3 DEF StaffJobOwn
  <2>5. ASSUME NEW v \in StaffWorker \ {w}
        PROVE  StaffJobOwn(v)'
    <3>1. staffJob'[v].step = "save" /\ job.number = staffJob'[v].number
            => staffJob'[v].provider = p
        BY <1>0, <1>1, <2>1, <2>3 DEF StaffJobOwn
    <3>2. QED
        BY <1>0, <1>1, <2>5, <3>1 DEF StaffJobOwn
  <2>6. QED
      BY <2>4, <2>5
<1>7. \A v \in StaffWorker : StaffJobClear(v)'
    BY <1>0, <1>1, <1>2, <1>3 DEF StaffJobClear
<1>8. QED
    BY <1>4, <1>5, <1>6, <1>7 DEF StaffInv

LEMMA ScheduleCheckInv ==
    ASSUME StaffInv, NEW w \in StaffWorker, NEW p \in Provider, NEW s \in Slot,
           ScheduleCheck(w, p, s)
    PROVE  StaffInv'
<1> DEFINE job == [StaffIdle EXCEPT !.step = "insert", !.provider = p, !.slots = {s}]
<1>1. job \in StaffJob /\ job.step = "insert" /\ job.provider = p /\ job.slots = {s}
    BY StaffIdleJob DEF StaffJob
<1>2. job.number = 0
    BY DEF StaffIdle
<1>3. staffJob' = [staffJob EXCEPT ![w] = job]
    BY DEF ScheduleCheck, StaffBegin
<1> HIDE DEF job
<1>4. QED
    BY <1>1, <1>2, <1>3, ScheduleRequestInv DEF ScheduleCheck

LEMMA ApplyReadInv ==
    ASSUME StaffInv, NEW w \in StaffWorker, NEW p \in Provider, NEW s \in Slot,
           NEW targets \in SUBSET Slot, ApplyRead(w, p, s, targets)
    PROVE  StaffInv'
<1> DEFINE job == [StaffIdle EXCEPT !.step = "apply", !.provider = p, !.slots = targets]
<1>1. job \in StaffJob /\ job.step = "apply" /\ job.provider = p
    BY StaffIdleJob DEF StaffJob
<1>2. job.number = 0
    BY DEF StaffIdle
<1>3. staffJob' = [staffJob EXCEPT ![w] = job]
    BY DEF ApplyRead, StaffBegin
<1> HIDE DEF job
<1>4. QED
    BY <1>1, <1>2, <1>3, ScheduleRequestInv DEF ApplyRead

LEMMA ApplyLookInv ==
    ASSUME StaffInv, NEW w \in StaffWorker, ApplyLook(w)
    PROVE  StaffInv'
<1>0. /\ StaffTypeOK /\ StaffJobOwn(w)
    BY DEF StaffInv
<1> DEFINE old == staffJob[w]
           p == old.provider
           slots == {s \in old.slots : ActiveAt(p, s) = {}}
           first == [old EXCEPT !.step = "filling"]
           job == [first EXCEPT !.slots = slots]
<1>1. old \in StaffJob /\ old.step = "apply" /\ p \in Provider /\ old.number = 0
    BY <1>0 DEF ApplyLook, StaffAt, StaffTypeOK, StaffJobOwn
<1>2. staffJob' = [staffJob EXCEPT ![w] = job]
    BY <1>0 DEF ApplyLook, StaffTypeOK, StaffJob
<1>3. Handling(w, p)
    BY <1>1 DEF Handling
<1> HIDE DEF old
<1>4. /\ job \in StaffJob /\ job.step = "filling" /\ job.provider = p
      /\ job.number = 0 /\ job.slots = slots
    BY <1>1 DEF StaffJob
<1> HIDE DEF job
<1>5. QED
    BY <1>1, <1>2, <1>3, <1>4, ScheduleRequestInv DEF ApplyLook

LEMMA ScheduleReadInv ==
    ASSUME StaffInv, NEW w \in StaffWorker, NEW n \in Schedule, NEW s \in Slot,
           NEW active \in BOOLEAN, ScheduleRead(w, n, s, active)
    PROVE  StaffInv'
<1>0. StaffTypeOK
    BY DEF StaffInv
<1> DEFINE old == schedule[n]
           p == old.provider
           row == [old EXCEPT !.slot = s, !.active = active]
           job == [StaffIdle EXCEPT !.step = "save", !.provider = p, !.number = n,
                                    !.row = row]
<1>1. /\ old \in ScheduleRow /\ p \in Provider
      /\ SchedulesAt(p, s) \subseteq {n} /\ Rush(w, p)
      /\ UNCHANGED <<solo, employee, schedule>>
    BY <1>0 DEF ScheduleRead, StaffTypeOK, ScheduleRow, SlotTaken
<1>2. staffJob' = [staffJob EXCEPT ![w] = job]
    BY DEF ScheduleRead, StaffBegin
<1>3. schedule[n].provider = p
    OBVIOUS
<1> HIDE DEF old
<1>4. row \in ScheduleRow /\ row.provider = p /\ row.slot = s
    BY <1>1 DEF ScheduleRow
<1> HIDE DEF row, p
<1>5. /\ job \in StaffJob /\ job.step = "save" /\ job.provider = p
      /\ job.number = n /\ job.row = row
    BY <1>1, <1>4, StaffIdleJob DEF StaffJob
<1> HIDE DEF job
<1>6. QED
    BY <1>1, <1>2, <1>3, <1>4, <1>5, ScheduleRequestInv

(* An employee is read in order to be changed.                             *)
LEMMA EmployeeReadInv ==
    ASSUME StaffInv, NEW w \in StaffWorker, NEW e \in Employee, EmployeeRead(w, e)
    PROVE  StaffInv'
<1>0. /\ StaffTypeOK /\ OneAtATime
      /\ \A v \in StaffWorker : StaffJobClear(v) /\ StaffJobOwn(v)
    BY DEF StaffInv
<1> DEFINE was == employee[e] = "active"
           job == [StaffIdle EXCEPT !.step = "member", !.provider = e, !.active = was]
<1>1. staffJob' = [staffJob EXCEPT ![w] = job]
    BY DEF EmployeeRead, StaffBegin
<1>2. was \in BOOLEAN /\ e \in Provider
    BY DEF Provider
<1> HIDE DEF was
<1>3. job \in StaffJob /\ job.step = "member" /\ job.provider = e
    BY <1>2, StaffIdleJob DEF StaffJob
<1>4. job.number = 0
    BY DEF StaffIdle
<1> HIDE DEF job
<1>5. /\ staffJob' \in [StaffWorker -> StaffJob] /\ staffJob'[w] = job
      /\ \A v \in StaffWorker \ {w} : staffJob'[v] = staffJob[v]
      /\ UNCHANGED <<solo, employee, schedule, rushed>>
    BY <1>0, <1>1, <1>3 DEF StaffTypeOK, EmployeeRead
<1>6. \A q, s : SchedulesAt(q, s)' = SchedulesAt(q, s) /\ ActiveAt(q, s)' = ActiveAt(q, s)
    BY <1>5 DEF SchedulesAt, ActiveAt
<1>7. StaffTypeOK'
    BY <1>0, <1>5 DEF StaffTypeOK
<1>8. OneAtATime'
    BY <1>0, <1>3, <1>5, <1>6 DEF OneAtATime, Handling
<1>9. \A v \in StaffWorker : StaffJobClear(v)' /\ StaffJobOwn(v)'
  <2>1. 0 \notin Schedule
      BY StaffAssumption DEF Schedule
  <2>2. \A v \in StaffWorker : StaffJobClear(v)'
      BY <1>0, <1>3, <1>5, <1>6 DEF StaffJobClear
  <2>3. \A v \in StaffWorker : StaffJobOwn(v)'
      BY <1>0, <1>2, <1>3, <1>4, <1>5, <2>1 DEF StaffJobOwn
  <2>4. QED
      BY <2>2, <2>3
<1>10. QED
    BY <1>7, <1>8, <1>9 DEF StaffInv

(* What only ends a request or takes schedules away.                       *)
LEMMA StaffQuietInv ==
    ASSUME StaffInv,
           \/ \E e \in Employee, active \in BOOLEAN : EmployeeCreate(e, active)
           \/ \E w \in StaffWorker :
                 \/ \E active \in BOOLEAN : EmployeeUpdate(w, active)
                 \/ EmployeeDelete(w) \/ StaffAbort(w)
           \/ \E n \in Schedule : ScheduleDelete(n)
           \/ GiveUpStaff \/ ChangeSolo
    PROVE  StaffInv'
<1>0. StaffTypeOK
    BY DEF StaffInv
<1>1. solo' \in BOOLEAN /\ rushed' = rushed
    BY <1>0 DEF StaffTypeOK, EmployeeCreate, EmployeeUpdate, EmployeeDelete, StaffAbort,
                ScheduleDelete, GiveUpStaff, ChangeSolo
<1>2. employee' \in [Employee -> {"none", "active", "inactive"}]
    BY <1>0 DEF StaffTypeOK, EmployeeCreate, EmployeeUpdate, EmployeeDelete, StaffAbort,
                ScheduleDelete, GiveUpStaff, ChangeSolo
<1>3. staffJob' = staffJob \/ \E w \in StaffWorker : StaffReturn(w)
    BY DEF EmployeeCreate, EmployeeUpdate, EmployeeDelete, StaffAbort,
           ScheduleDelete, GiveUpStaff, ChangeSolo
<1>4. /\ schedule' \in [Schedule -> ScheduleRow]
      /\ \A n \in Schedule :
            \/ schedule'[n] = NoSchedule
            \/ /\ schedule'[n].provider = schedule[n].provider
               /\ schedule'[n].slot = schedule[n].slot
               /\ schedule'[n].active => schedule[n].active
  <2>1. CASE UNCHANGED schedule
      BY <1>0, <2>1 DEF StaffTypeOK
  <2>2. CASE \E n \in Schedule : ScheduleDelete(n)
      BY <1>0, <2>2, StaffIdleJob DEF StaffTypeOK, ScheduleDelete
  <2>3. CASE GiveUpStaff
    <3> DEFINE Off(r) == [r EXCEPT !.active = FALSE]
    <3>1. \A r \in ScheduleRow : /\ Off(r) \in ScheduleRow /\ Off(r).provider = r.provider
                                 /\ Off(r).slot = r.slot /\ Off(r).active = FALSE
        BY DEF ScheduleRow
    <3>2. schedule' = [n \in Schedule |-> Off(schedule[n])]
        BY <2>3, Zenon DEF GiveUpStaff
    <3> HIDE DEF Off
    <3>3. QED
        BY <1>0, <3>1, <3>2 DEF StaffTypeOK
  <2>4. QED
      BY <2>1, <2>2, <2>3 DEF EmployeeCreate, EmployeeUpdate, EmployeeDelete, StaffAbort,
                              ChangeSolo
<1>5. QED
    BY <1>1, <1>2, <1>3, <1>4, FewerSchedules

LEMMA StaffNextInv == StaffInv /\ [StaffNext]_staffVars => StaffInv'
<1> SUFFICES ASSUME StaffInv, [StaffNext]_staffVars PROVE StaffInv'
    OBVIOUS
<1>1. CASE UNCHANGED staffVars
    BY <1>1 DEF staffVars, StaffInv, StaffTypeOK, OneAtATime, StaffJobClear, StaffJobOwn,
                Handling, ActiveAt, SchedulesAt
<1>2. CASE \E w \in StaffWorker :
              \/ \E p \in Provider, s \in Slot :
                    \/ ScheduleCheck(w, p, s)
                    \/ \E targets \in SUBSET Slot : ApplyRead(w, p, s, targets)
              \/ \E n \in Schedule, active \in BOOLEAN :
                    \/ ScheduleInsert(w, n, active)
                    \/ \E s \in Slot : ScheduleRead(w, n, s, active)
              \/ ApplyLook(w) \/ ApplyFill(w) \/ ScheduleSave(w)
              \/ \E e \in Employee : EmployeeRead(w, e)
    BY <1>2, ScheduleCheckInv, ApplyReadInv, ScheduleInsertInv, ScheduleReadInv,
       ApplyLookInv, ApplyFillInv, ScheduleSaveInv, EmployeeReadInv
<1>3. QED
    BY <1>1, <1>2, StaffQuietInv DEF StaffNext

(* Of the schedules of a provider for a slot one is active unless two      *)
(* requests about the provider overlapped, for any number of employees,    *)
(* slots, schedules and requests.                                          *)
THEOREM OneScheduleCorrect == StaffSpec => []OneSchedule
<1>1. ASSUME NEW S, \A m, n \in S : m = n
      PROVE  Cardinality(S) <= 1
  <2>1. CASE S = {}
      BY <2>1, FS_EmptySet
  <2>2. CASE \E n \in S : S = {n}
    <3>1. PICK n : S = {n}
        BY <2>2
    <3>2. Cardinality({n}) = 1
        BY FS_Singleton
    <3>3. QED
        BY <3>1, <3>2
  <2>3. QED
      BY <1>1, <2>1, <2>2
<1>2. StaffInv => OneSchedule
    BY <1>1 DEF StaffInv, OneAtATime, OneSchedule
<1>3. QED
    BY <1>2, StaffInitInv, StaffNextInv, PTL DEF StaffSpec

(* The rows of the employees and of the schedules keep their types.        *)
THEOREM StaffTypeCorrect == StaffSpec => []StaffTypeOK
<1>1. StaffInv => StaffTypeOK
    BY DEF StaffInv
<1>2. QED
    BY <1>1, StaffInitInv, StaffNextInv, PTL DEF StaffSpec

-------------------------------------------------------------------------------
(* The catalogue.                                                          *)

(* A request saves a row that is in order already: filed as it was checked *)
(* or recorded in refiled, and noted when the business changed under it.   *)
ServiceJobInOrder(w) ==
    LET s == serviceJob[w].service
        row == serviceJob[w].row IN
    /\ s = Unfiled => serviceJob[w].step = "idle"
    /\ s # Unfiled =>
          /\ Together(row.category, row.subcategory) \/ s \in refiled
          /\ individual /\ row.several => s \in outgrown \cup borrowed
          /\ ~trading /\ row.is_active => s \in reopened

CatalogueInv ==
    /\ CatalogueTypeOK
    /\ ServicesInOrder
    /\ \A w \in ServiceWorker : ServiceJobInOrder(w)

(* A service that becomes inactive is the same otherwise.                  *)
SwitchedOff(r) == [r EXCEPT !.is_active = FALSE]

LEMMA SwitchedOffRow ==
    ASSUME NEW r \in ServiceRow
    PROVE  /\ SwitchedOff(r) \in ServiceRow
           /\ SwitchedOff(r).category = r.category
           /\ SwitchedOff(r).subcategory = r.subcategory
           /\ SwitchedOff(r).several = r.several
           /\ SwitchedOff(r).is_active = FALSE
BY DEF SwitchedOff, ServiceRow

LEMMA CatalogueInitInv == CatalogueInit => CatalogueInv
<1> USE CatalogueAssumption
<1> SUFFICES ASSUME CatalogueInit PROVE CatalogueInv
    OBVIOUS
<1>1. NoService \in ServiceRow /\ ServiceIdle \in ServiceJob
    BY DEF NoService, ServiceRow, ServiceIdle, ServiceJob
<1>2. CatalogueTypeOK
    BY <1>1 DEF CatalogueInit, CatalogueTypeOK
<1>3. ServicesInOrder
    BY DEF CatalogueInit, ServicesInOrder, NoService, Together
<1>4. \A w \in ServiceWorker : ServiceJobInOrder(w)
    BY DEF CatalogueInit, ServiceJobInOrder, ServiceIdle
<1>5. QED
    BY <1>2, <1>3, <1>4 DEF CatalogueInv

(* A request reads: its row is checked, nothing else changes.              *)
LEMMA ServiceReadInv ==
    ASSUME CatalogueInv, NEW w \in ServiceWorker, NEW s \in Service,
           NEW row \in ServiceRow, CreateRead(w, s, row) \/ PatchRead(w, s, row)
    PROVE  CatalogueInv'
<1> USE CatalogueAssumption
<1>0. CatalogueTypeOK /\ ServicesInOrder /\ \A v \in ServiceWorker : ServiceJobInOrder(v)
    BY DEF CatalogueInv
<1>1. PICK step \in {"insert", "save"} : ServiceBegin(w, step, s, row)
    BY DEF CreateRead, PatchRead
<1>2. /\ UNCHANGED <<individual, trading, elsewhere, listed, service, assigned, outgrown>>
      /\ refiled \subseteq refiled' /\ reopened \subseteq reopened'
      /\ borrowed \subseteq borrowed' /\ borrowed' \subseteq Service
      /\ refiled' \subseteq Service /\ reopened' \subseteq Service
    BY <1>0 DEF CreateRead, PatchRead, CatalogueTypeOK, serviceHistory
<1>3. /\ serviceJob' \in [ServiceWorker -> ServiceJob]
      /\ serviceJob'[w] = [step |-> step, service |-> s, row |-> row]
      /\ \A v \in ServiceWorker \ {w} : serviceJob'[v] = serviceJob[v]
    BY <1>0, <1>1 DEF ServiceBegin, CatalogueTypeOK, ServiceJob
<1>4. /\ Together(row.category, row.subcategory) \/ s \in refiled'
      /\ individual /\ row.several => s \in outgrown \cup borrowed'
      /\ ~trading /\ row.is_active => s \in reopened'
  <2>1. CASE CreateRead(w, s, row)
      BY <2>1 DEF CreateRead
  <2>2. CASE PatchRead(w, s, row)
      BY <1>0, <2>2 DEF PatchRead, ServicesInOrder
  <2>3. QED
      BY <2>1, <2>2
<1>5. CatalogueTypeOK'
    BY <1>0, <1>2, <1>3 DEF CatalogueTypeOK
<1>6. ServicesInOrder'
    BY <1>0, <1>2 DEF ServicesInOrder, Together
<1>7. ServiceJobInOrder(w)'
    BY <1>2, <1>3, <1>4 DEF ServiceJobInOrder, Together
<1>8. \A v \in ServiceWorker \ {w} : ServiceJobInOrder(v)'
    BY <1>0, <1>2, <1>3 DEF ServiceJobInOrder, Together
<1>9. QED
    BY <1>5, <1>6, <1>7, <1>8 DEF CatalogueInv

(* The row is saved, or the request is given up.                           *)
LEMMA ServiceSaveInv ==
    ASSUME CatalogueInv, NEW w \in ServiceWorker,
           CreateStore(w) \/ PatchSave(w) \/ ServiceAbort(w)
    PROVE  CatalogueInv'
<1> USE CatalogueAssumption
<1>0. CatalogueTypeOK /\ ServicesInOrder /\ \A v \in ServiceWorker : ServiceJobInOrder(v)
    BY DEF CatalogueInv
<1> DEFINE s == serviceJob[w].service
<1>1. s \in Service /\ serviceJob[w].row \in ServiceRow
    BY <1>0 DEF CreateStore, PatchSave, ServiceAbort, ServiceAt, ServiceJobInOrder,
                CatalogueTypeOK, ServiceJob
<1>2. /\ UNCHANGED <<individual, trading, elsewhere, listed, assigned, refiled,
                     borrowed, outgrown, reopened>>
      /\ ServiceReturn(w)
    BY DEF CreateStore, PatchSave, ServiceAbort, serviceHistory
<1>3. /\ serviceJob' \in [ServiceWorker -> ServiceJob]
      /\ serviceJob'[w].service = Unfiled /\ serviceJob'[w].step = "idle"
      /\ \A v \in ServiceWorker \ {w} : serviceJob'[v] = serviceJob[v]
    BY <1>0, <1>2 DEF ServiceReturn, CatalogueTypeOK, ServiceJob, ServiceIdle,
                      NoService, ServiceRow
<1>4. \/ service' = service
      \/ service' = [service EXCEPT ![s] = serviceJob[w].row]
    BY DEF CreateStore, PatchSave, ServiceAbort
<1>5. CatalogueTypeOK'
    BY <1>0, <1>1, <1>2, <1>3, <1>4 DEF CatalogueTypeOK
<1>6. ServicesInOrder'
    BY <1>0, <1>1, <1>2, <1>4
       DEF ServicesInOrder, ServiceJobInOrder, Together, CatalogueTypeOK
<1>7. \A v \in ServiceWorker : ServiceJobInOrder(v)'
    BY <1>0, <1>2, <1>3 DEF ServiceJobInOrder, Together
<1>8. QED
    BY <1>5, <1>6, <1>7 DEF CatalogueInv

(* What changes one service, or none.                                      *)
LEMMA ServiceColumnInv ==
    ASSUME CatalogueInv,
           \/ \E s \in Service : Deactivate(s) \/ Assign(s) \/ Unassign(s)
           \/ \E c \in Category \cup Subcategory : PatchCategory(c)
           \/ Reopen
           \/ OtherBusiness
    PROVE  CatalogueInv'
<1> USE CatalogueAssumption
<1>0. CatalogueTypeOK /\ ServicesInOrder /\ \A v \in ServiceWorker : ServiceJobInOrder(v)
    BY DEF CatalogueInv
<1>1. /\ UNCHANGED <<individual, serviceJob, refiled, borrowed, outgrown, reopened>>
      /\ elsewhere' \in BOOLEAN /\ trading' \in BOOLEAN /\ (~trading' => ~trading)
      /\ listed' \subseteq Category \cup Subcategory /\ assigned' \subseteq Service
    BY <1>0 DEF Deactivate, Assign, Unassign, PatchCategory, Reopen, OtherBusiness,
                serviceHistory, CatalogueTypeOK
<1>2. /\ service' \in [Service -> ServiceRow]
      /\ \A s \in Service : /\ service'[s].category = service[s].category
                            /\ service'[s].subcategory = service[s].subcategory
                            /\ service'[s].several = service[s].several
                            /\ service'[s].is_active => service[s].is_active
  <2>1. CASE UNCHANGED service
      BY <1>0, <2>1 DEF CatalogueTypeOK
  <2>2. CASE \E s \in Service : Deactivate(s)
    <3>1. PICK s \in Service : service' = [service EXCEPT ![s] = SwitchedOff(service[s])]
        BY <2>2, Zenon DEF Deactivate, SwitchedOff
    <3>2. \A v \in Service : service[v] \in ServiceRow
        BY <1>0 DEF CatalogueTypeOK
    <3> QED
        BY <1>0, <3>1, <3>2, SwitchedOffRow DEF CatalogueTypeOK
  <2>3. QED
      BY <2>1, <2>2 DEF Assign, Unassign, PatchCategory, Reopen, OtherBusiness
<1>3. CatalogueTypeOK'
    BY <1>0, <1>1, <1>2 DEF CatalogueTypeOK
<1>4. ServicesInOrder'
    BY <1>0, <1>1, <1>2 DEF ServicesInOrder, Together, CatalogueTypeOK
<1>5. \A v \in ServiceWorker : ServiceJobInOrder(v)'
    BY <1>0, <1>1 DEF ServiceJobInOrder, Together, CatalogueTypeOK
<1>6. QED
    BY <1>3, <1>4, <1>5 DEF CatalogueInv

(* The business changes its type: the services it has and those about to   *)
(* be stored are noted.                                                    *)
LEMMA ChangeTypeInv ==
    ASSUME CatalogueInv, ChangeType
    PROVE  CatalogueInv'
<1> USE CatalogueAssumption
<1>0. CatalogueTypeOK /\ ServicesInOrder /\ \A v \in ServiceWorker : ServiceJobInOrder(v)
    BY DEF CatalogueInv
<1>1. /\ UNCHANGED <<trading, elsewhere, listed, service, assigned, serviceJob,
                     refiled, borrowed, reopened>>
      /\ individual' \in BOOLEAN /\ outgrown' \subseteq Service
      /\ individual' => \A s \in Service : Many(s) => s \in outgrown'
    BY <1>0 DEF ChangeType, CatalogueTypeOK
<1>2. CatalogueTypeOK'
    BY <1>0, <1>1 DEF CatalogueTypeOK
<1>3. ServicesInOrder'
    BY <1>0, <1>1 DEF ServicesInOrder, Together, Many
<1>4. \A v \in ServiceWorker : ServiceJobInOrder(v)'
    BY <1>0, <1>1 DEF ServiceJobInOrder, Together, Many, CatalogueTypeOK, ServiceJob
<1>5. QED
    BY <1>2, <1>3, <1>4 DEF CatalogueInv

(* The business is closed: nothing is active, and what is about to be      *)
(* stored is noted.                                                        *)
LEMMA CloseInv ==
    ASSUME CatalogueInv, Close
    PROVE  CatalogueInv'
<1> USE CatalogueAssumption
<1>0. CatalogueTypeOK /\ ServicesInOrder /\ \A v \in ServiceWorker : ServiceJobInOrder(v)
    BY DEF CatalogueInv
<1>1. /\ UNCHANGED <<individual, elsewhere, listed, assigned, serviceJob, refiled,
                     borrowed, outgrown>>
      /\ trading' = FALSE /\ reopened' = InFlight /\ InFlight \subseteq Service
    BY <1>0 DEF Close, CatalogueTypeOK, InFlight, ServiceJob
<1>2. /\ service' \in [Service -> ServiceRow]
      /\ \A s \in Service : /\ service'[s].category = service[s].category
                            /\ service'[s].subcategory = service[s].subcategory
                            /\ service'[s].several = service[s].several
                            /\ ~service'[s].is_active
  <2>1. service' = [s \in Service |-> SwitchedOff(service[s])]
      BY Zenon DEF Close, SwitchedOff
  <2>2. \A s \in Service : service[s] \in ServiceRow
      BY <1>0 DEF CatalogueTypeOK
  <2>3. QED
      BY <2>1, <2>2, SwitchedOffRow
<1>3. CatalogueTypeOK'
    BY <1>0, <1>1, <1>2 DEF CatalogueTypeOK
<1>4. ServicesInOrder'
    BY <1>0, <1>1, <1>2 DEF ServicesInOrder, Together
<1>5. \A v \in ServiceWorker : ServiceJobInOrder(v)'
    BY <1>0, <1>1 DEF ServiceJobInOrder, Together, InFlight
<1>6. QED
    BY <1>3, <1>4, <1>5 DEF CatalogueInv

LEMMA CatalogueNextInv == CatalogueInv /\ [CatalogueNext]_serviceVars => CatalogueInv'
<1>1. CatalogueInv /\ UNCHANGED serviceVars => CatalogueInv'
    BY DEF serviceVars, serviceHistory, CatalogueInv, CatalogueTypeOK, ServicesInOrder,
           ServiceJobInOrder, Together
<1>2. QED
    BY <1>1, ServiceReadInv, ServiceSaveInv, ServiceColumnInv, ChangeTypeInv, CloseInv
       DEF CatalogueNext

(* A service is filed under a subcategory of its category, that of an      *)
(* individual needs one person, and those of a closed business are         *)
(* inactive, but for what ServicesInOrder names, for any catalogue and any *)
(* number of requests.                                                     *)
THEOREM ServicesInOrderCorrect == CatalogueSpec => []ServicesInOrder
<1>1. CatalogueInv => ServicesInOrder
    BY DEF CatalogueInv
<1>2. QED
    BY <1>1, CatalogueInitInv, CatalogueNextInv, PTL DEF CatalogueSpec

(* The rows of the catalogue keep their types.                             *)
THEOREM CatalogueTypeCorrect == CatalogueSpec => []CatalogueTypeOK
<1>1. CatalogueInv => CatalogueTypeOK
    BY DEF CatalogueInv
<1>2. QED
    BY <1>1, CatalogueInitInv, CatalogueNextInv, PTL DEF CatalogueSpec

-------------------------------------------------------------------------------
(* The storefront.                                                         *)

(* While no two updates overlapped, the one under way has counted what it  *)
(* will add; and a closed business that surprised no update has none under *)
(* way.                                                                    *)
UploadsCounted ==
    ~jostled =>
       /\ \A v, w \in Uploading : v = w
       /\ \A w \in Uploading :
             LET pictures == shopJob[w].pictures IN
             /\ shopJob[w].step = "create" => Cardinality(pictures) <= MaxGallery
             /\ shopJob[w].step = "update" =>
                   Cardinality(gallery) + Cardinality(pictures) <= MaxGallery

ClosedUnsurprised == ~open => surprised \/ Uploading = {}

StorefrontInv ==
    /\ StorefrontTypeOK
    /\ StorefrontInOrder
    /\ UploadsCounted
    /\ ClosedUnsurprised

(* Every gallery is finite.                                                *)
LEMMA PicturesFinite ==
    ASSUME NEW S, S \subseteq Picture
    PROVE  IsFiniteSet(S) /\ Cardinality(S) \in Nat
BY StorefrontAssumption, FS_Subset, FS_CardinalityType

(* Two lots of pictures together are no more than their sum.               *)
LEMMA UnionAtMost ==
    ASSUME NEW S, NEW T, S \subseteq Picture, T \subseteq Picture
    PROVE  Cardinality(S \cup T) <= Cardinality(S) + Cardinality(T)
<1>1. /\ IsFiniteSet(S) /\ Cardinality(S) \in Nat
      /\ IsFiniteSet(T) /\ Cardinality(T) \in Nat
      /\ Cardinality(S \cap T) \in Nat
    BY PicturesFinite
<1>2. Cardinality(S \cup T) = Cardinality(S) + Cardinality(T) - Cardinality(S \cap T)
    BY <1>1, FS_Union
<1>3. QED
    BY <1>1, <1>2

(* Part of a gallery has no more pictures.                                 *)
LEMMA FewerPictures ==
    ASSUME NEW S, NEW T, S \subseteq T, T \subseteq Picture
    PROVE  Cardinality(S) <= Cardinality(T)
BY PicturesFinite, FS_Subset

LEMMA ShopIdleJob == ShopIdle \in ShopJob /\ NoReview \in ReviewRow
BY StorefrontAssumption DEF ShopIdle, ShopJob, PortfolioRow, NoReview, ReviewRow

LEMMA StorefrontInitInv == StorefrontInit => StorefrontInv
<1> SUFFICES ASSUME StorefrontInit PROVE StorefrontInv
    OBVIOUS
<1>1. Cardinality(gallery) = 0
    BY FS_EmptySet DEF StorefrontInit
<1>2. StorefrontTypeOK
  <2>1. /\ shopJob \in [ShopWorker -> ShopJob] /\ review \in [Reviewed -> ReviewRow]
      BY ShopIdleJob DEF StorefrontInit
  <2>2. lists \in 0 .. MaxFaq
      BY StorefrontAssumption DEF StorefrontInit
  <2>3. QED
      BY <2>1, <2>2 DEF StorefrontInit, StorefrontTypeOK, PortfolioRow
<1>3. Uploading = {}
    BY DEF StorefrontInit, Uploading, ShopIdle
<1>4. StorefrontInOrder /\ UploadsCounted /\ ClosedUnsurprised
    BY <1>1, <1>3, StorefrontAssumption
       DEF StorefrontInit, StorefrontInOrder, UploadsCounted, ClosedUnsurprised
<1>5. QED
    BY <1>2, <1>4 DEF StorefrontInv

(* A worker that returns is idle, the others are where they were.          *)
LEMMA ShopReturnJobs ==
    ASSUME StorefrontTypeOK, NEW w \in ShopWorker, ShopReturn(w)
    PROVE  /\ shopJob' \in [ShopWorker -> ShopJob]
           /\ shopJob'[w] = ShopIdle
           /\ \A v \in ShopWorker \ {w} : shopJob'[v] = shopJob[v]
           /\ Uploading' = Uploading \ {w}
BY ShopIdleJob DEF ShopReturn, StorefrontTypeOK, Uploading, ShopIdle

LEMMA UploadJobs ==
    ASSUME StorefrontTypeOK, NEW w \in ShopWorker, NEW step \in {"create", "update"},
           NEW pictures \in SUBSET Picture, NEW fresh \in BOOLEAN,
           Upload(w, step, pictures, fresh)
    PROVE  /\ shopJob' \in [ShopWorker -> ShopJob]
           /\ shopJob'[w].step = step /\ shopJob'[w].pictures = pictures
           /\ \A v \in ShopWorker \ {w} : shopJob'[v] = shopJob[v]
           /\ Uploading' = Uploading \cup {w}
<1> DEFINE job == [ShopIdle EXCEPT !.step = step, !.read = portfolio,
                                   !.pictures = pictures, !.fresh = fresh]
<1>1. job \in ShopJob /\ job.step = step /\ job.pictures = pictures
    BY ShopIdleJob DEF ShopJob, StorefrontTypeOK
<1>2. shopJob' = [shopJob EXCEPT ![w] = job]
    BY DEF Upload
<1> HIDE DEF job
<1>3. QED
    BY <1>1, <1>2 DEF StorefrontTypeOK, Uploading

(* An update or a creation begins.                                         *)
LEMMA UploadInv ==
    ASSUME StorefrontInv, NEW w \in ShopWorker, NEW pictures \in SUBSET Picture,
           NEW fresh \in BOOLEAN,
           PortfolioCheck(w, pictures, fresh) \/ PortfolioCount(w, pictures, fresh)
    PROVE  StorefrontInv'
<1>0. StorefrontTypeOK /\ StorefrontInOrder /\ UploadsCounted /\ ClosedUnsurprised
    BY DEF StorefrontInv
<1>1. PICK step \in {"create", "update"} :
         /\ Upload(w, step, pictures, fresh)
         /\ step = "create" => Cardinality(pictures) <= MaxGallery
         /\ step = "update" => Cardinality(gallery) + Cardinality(pictures) <= MaxGallery
    BY DEF PortfolioCheck, PortfolioCount
<1>2. /\ shopJob' \in [ShopWorker -> ShopJob]
      /\ shopJob'[w].step = step /\ shopJob'[w].pictures = pictures
      /\ Uploading' = Uploading \cup {w}
  <2> Upload(w, step, pictures, fresh)
      BY <1>1
  <2> HIDE <1>1
  <2> QED
      BY <1>0, UploadJobs
<1>3. /\ UNCHANGED <<open, portfolio, gallery, faq, lists, complete, review, surprised>>
      /\ open /\ jostled' = (jostled \/ Uploading # {})
    BY <1>1 DEF Upload
<1>4. StorefrontTypeOK'
    BY <1>0, <1>2, <1>3 DEF StorefrontTypeOK
<1>5. StorefrontInOrder'
    BY <1>0, <1>3 DEF StorefrontInOrder, StorefrontTypeOK
<1>6. ~jostled' => Uploading' = {w}
    BY <1>2, <1>3
<1>7. UploadsCounted'
    BY <1>1, <1>2, <1>3, <1>6 DEF UploadsCounted
<1>8. ClosedUnsurprised'
    BY <1>3 DEF ClosedUnsurprised
<1>9. QED
    BY <1>4, <1>5, <1>7, <1>8 DEF StorefrontInv

(* The questions that StoreFaq leaves.                                     *)
LEMMA StoreFaqType ==
    ASSUME StorefrontTypeOK, NEW w, StoreFaq(w)
    PROVE  faq' \subseteq 1 .. MaxFaq /\ lists' \in 0 .. MaxFaq
<1>1. CASE faq' = faq /\ lists' = lists
    BY <1>1 DEF StorefrontTypeOK
<1>2. CASE lists < MaxFaq /\ lists' = lists + 1 /\ faq' = {lists'}
  <2>1. lists' \in 1 .. MaxFaq
      BY <1>2, StorefrontAssumption DEF StorefrontTypeOK
  <2>2. QED
      BY <1>2, <2>1, StorefrontAssumption
<1>3. QED
    BY <1>1, <1>2, Zenon DEF StoreFaq

(* The portfolio is created or updated.                                    *)
LEMMA StoreInv ==
    ASSUME StorefrontInv, NEW w \in ShopWorker, PortfolioCreate(w) \/ PortfolioUpdate(w)
    PROVE  StorefrontInv'
<1>0. StorefrontTypeOK /\ StorefrontInOrder /\ UploadsCounted /\ ClosedUnsurprised
    BY DEF StorefrontInv
<1> DEFINE pictures == shopJob[w].pictures
<1>1. /\ w \in Uploading /\ StoreFaq(w) /\ ShopReturn(w)
      /\ UNCHANGED <<open, complete, review, jostled, surprised>>
      /\ \/ /\ shopJob[w].step = "create" /\ gallery' = pictures /\ portfolio' = "active"
         \/ /\ shopJob[w].step = "update" /\ gallery' = gallery \cup pictures
            /\ portfolio' = shopJob[w].read
    BY DEF PortfolioCreate, PortfolioUpdate, Uploading, ShopAt, shopHistory
<1>2. /\ shopJob[w].read \in PortfolioRow /\ pictures \subseteq Picture
      /\ gallery \subseteq Picture
    BY <1>0 DEF StorefrontTypeOK, ShopJob
<1>3. /\ shopJob' \in [ShopWorker -> ShopJob]
      /\ Uploading' = Uploading \ {w}
    BY <1>0, <1>1, ShopReturnJobs
<1>4. StorefrontTypeOK'
    BY <1>0, <1>1, <1>2, <1>3, StoreFaqType DEF StorefrontTypeOK, PortfolioRow
<1>5. ~jostled => /\ Uploading = {w}
                  /\ Cardinality(gallery') <= MaxGallery
  <2> HAVE ~jostled
  <2>1. CASE gallery' = pictures /\ shopJob[w].step = "create"
      BY <1>0, <1>1, <2>1 DEF UploadsCounted
  <2>2. CASE gallery' = gallery \cup pictures /\ shopJob[w].step = "update"
    <3>1. Cardinality(gallery) + Cardinality(pictures) <= MaxGallery
        BY <1>0, <1>1, <2>2 DEF UploadsCounted
    <3>2. Cardinality(gallery \cup pictures) <= Cardinality(gallery) + Cardinality(pictures)
        BY <1>2, UnionAtMost
    <3>3. /\ Cardinality(gallery) \in Nat /\ Cardinality(pictures) \in Nat
          /\ Cardinality(gallery \cup pictures) \in Nat
        BY <1>2, PicturesFinite
    <3>4. QED
        BY <1>0, <1>1, <2>2, <3>1, <3>2, <3>3, StorefrontAssumption DEF UploadsCounted
  <2>3. QED
      BY <1>1, <2>1, <2>2
<1>6. ~open => surprised
    BY <1>0, <1>1 DEF ClosedUnsurprised
<1>7. StorefrontInOrder'
    BY <1>1, <1>5, <1>6 DEF StorefrontInOrder
<1>8. UploadsCounted' /\ ClosedUnsurprised'
    BY <1>1, <1>3, <1>5, <1>6 DEF UploadsCounted, ClosedUnsurprised
<1>9. QED
    BY <1>4, <1>7, <1>8 DEF StorefrontInv

(* A picture is deleted.                                                   *)
LEMMA GalleryDeleteInv ==
    ASSUME StorefrontInv, NEW g \in Picture, GalleryDelete(g)
    PROVE  StorefrontInv'
<1>0. StorefrontTypeOK /\ StorefrontInOrder /\ UploadsCounted /\ ClosedUnsurprised
    BY DEF StorefrontInv
<1>1. /\ gallery' = gallery \ {g} /\ gallery \subseteq Picture
      /\ UNCHANGED <<open, portfolio, faq, lists, complete, review, shopJob, jostled,
                     surprised>>
    BY <1>0 DEF GalleryDelete, StorefrontTypeOK, shopHistory
<1>2. /\ Cardinality(gallery') <= Cardinality(gallery)
      /\ Cardinality(gallery') \in Nat /\ Cardinality(gallery) \in Nat
    BY <1>1, FewerPictures, PicturesFinite
<1>3. \A v \in Uploading : Cardinality(shopJob[v].pictures) \in Nat
    BY <1>0, PicturesFinite DEF StorefrontTypeOK, ShopJob, Uploading
<1>4. StorefrontTypeOK'
    BY <1>0, <1>1 DEF StorefrontTypeOK
<1>5. StorefrontInOrder'
    BY <1>0, <1>1, <1>2, StorefrontAssumption DEF StorefrontInOrder
<1>6. Uploading' = Uploading
    BY <1>1 DEF Uploading
<1>7. UploadsCounted'
    BY <1>0, <1>1, <1>2, <1>3, <1>6, StorefrontAssumption DEF UploadsCounted
<1>8. ClosedUnsurprised'
    BY <1>0, <1>1, <1>6 DEF ClosedUnsurprised
<1>9. QED
    BY <1>4, <1>5, <1>7, <1>8 DEF StorefrontInv

(* A request returns, or a review is written; nothing of the portfolio.    *)
LEMMA ReviewInv ==
    ASSUME StorefrontInv, NEW w \in ShopWorker,
           \/ \E k \in Reviewed, n \in 0 .. MaxImages : ReviewCheck(w, k, n)
           \/ ReviewCreate(w) \/ ShopAbort(w)
    PROVE  StorefrontInv'
<1>0. StorefrontTypeOK /\ StorefrontInOrder /\ UploadsCounted /\ ClosedUnsurprised
    BY DEF StorefrontInv
<1>1. UNCHANGED <<open, portfolio, gallery, faq, lists, complete, jostled, surprised>>
    BY DEF ReviewCheck, ReviewCreate, ShopAbort, shopHistory
<1>2. /\ shopJob' \in [ShopWorker -> ShopJob]
      /\ \A v \in ShopWorker \ {w} : shopJob'[v] = shopJob[v]
      /\ Uploading' \subseteq Uploading \ {w}
  <2>1. CASE ShopReturn(w)
      BY <1>0, <2>1, ShopReturnJobs
  <2>2. CASE \E k \in Reviewed, n \in 0 .. MaxImages : ReviewCheck(w, k, n)
    <3>1. PICK k \in Reviewed, n \in 0 .. MaxImages : ReviewCheck(w, k, n)
        BY <2>2
    <3> DEFINE job == [ShopIdle EXCEPT !.step = "review", !.booking = k, !.images = n]
    <3>2. job \in ShopJob /\ job.step = "review"
        BY StorefrontAssumption DEF ShopIdle, ShopJob, PortfolioRow
    <3>3. shopJob' = [shopJob EXCEPT ![w] = job]
        BY <3>1 DEF ReviewCheck
    <3> HIDE DEF job
    <3>4. QED
        BY <1>0, <3>2, <3>3 DEF StorefrontTypeOK, Uploading
  <2>3. QED
      BY <2>1, <2>2 DEF ReviewCreate, ShopAbort
<1>3. review' \in [Reviewed -> ReviewRow]
  <2>1. CASE ReviewCreate(w)
    <3>1. shopJob[w].images \in 0 .. MaxImages
        BY <1>0 DEF StorefrontTypeOK, ShopJob
    <3>2. [status |-> "active", images |-> shopJob[w].images] \in ReviewRow
        BY <3>1 DEF ReviewRow
    <3>3. QED
        BY <1>0, <2>1, <3>2 DEF ReviewCreate, StorefrontTypeOK
  <2>2. CASE UNCHANGED review
      BY <1>0, <2>2 DEF StorefrontTypeOK
  <2>3. QED
      BY <2>1, <2>2 DEF ReviewCheck, ShopAbort
<1>4. StorefrontTypeOK'
    BY <1>0, <1>1, <1>2, <1>3 DEF StorefrontTypeOK
<1>5. StorefrontInOrder'
    BY <1>0, <1>1 DEF StorefrontInOrder
<1>6. \A v \in Uploading' : v \in Uploading /\ shopJob'[v] = shopJob[v]
    BY <1>2 DEF Uploading
<1>7. UploadsCounted' /\ ClosedUnsurprised'
    BY <1>0, <1>1, <1>6 DEF UploadsCounted, ClosedUnsurprised
<1>8. QED
    BY <1>4, <1>5, <1>7 DEF StorefrontInv

(* The reviews, the questions and the bookings.                            *)
LEMMA ReviewImageRow ==
    ASSUME NEW r \in ReviewRow
    PROVE  /\ [r EXCEPT !.status = "inactive"] \in ReviewRow
           /\ r.images > 0 => [r EXCEPT !.images = @ - 1] \in ReviewRow
BY StorefrontAssumption DEF ReviewRow

LEMMA BesidesInv ==
    ASSUME StorefrontInv,
           \/ \E n \in faq : FaqDelete(n)
           \/ \E k \in Reviewed :
                 CompleteBooking(k) \/ ReviewDelete(k) \/ ReviewImageDelete(k)
    PROVE  StorefrontInv'
<1>0. StorefrontTypeOK /\ StorefrontInOrder /\ UploadsCounted /\ ClosedUnsurprised
    BY DEF StorefrontInv
<1>1. /\ UNCHANGED <<open, portfolio, gallery, lists, shopJob, jostled, surprised>>
      /\ faq' \subseteq faq /\ complete' \subseteq Reviewed
    BY <1>0 DEF FaqDelete, CompleteBooking, ReviewDelete, ReviewImageDelete,
                shopHistory, StorefrontTypeOK
<1>2. review' \in [Reviewed -> ReviewRow]
  <2>1. CASE UNCHANGED review
      BY <1>0, <2>1 DEF StorefrontTypeOK
  <2>2. CASE \E k \in Reviewed : ReviewDelete(k)
    <3>1. NoReview \in ReviewRow
        BY StorefrontAssumption DEF NoReview, ReviewRow
    <3>2. QED
        BY <1>0, <2>2, <3>1 DEF ReviewDelete, StorefrontTypeOK
  <2>3. CASE \E k \in Reviewed : ReviewImageDelete(k)
    <3>1. PICK k \in Reviewed : ReviewImageDelete(k)
        BY <2>3
    <3> DEFINE row == [review[k] EXCEPT !.images = @ - 1]
    <3>2. row \in ReviewRow
        BY <1>0, <3>1, ReviewImageRow DEF ReviewImageDelete, StorefrontTypeOK
    <3>3. review' = [review EXCEPT ![k] = row]
        BY <3>1, Zenon DEF ReviewImageDelete
    <3> HIDE DEF row
    <3>4. QED
        BY <1>0, <3>2, <3>3 DEF StorefrontTypeOK
  <2>4. QED
      BY <2>1, <2>2, <2>3 DEF FaqDelete, CompleteBooking
<1>3. StorefrontTypeOK'
    BY <1>0, <1>1, <1>2 DEF StorefrontTypeOK
<1>4. Uploading' = Uploading
    BY <1>1 DEF Uploading
<1>5. StorefrontInOrder' /\ UploadsCounted' /\ ClosedUnsurprised'
    BY <1>0, <1>1, <1>4 DEF StorefrontInOrder, UploadsCounted, ClosedUnsurprised
<1>6. QED
    BY <1>3, <1>5 DEF StorefrontInv

(* The business is closed, or opened again.                                *)
LEMMA CloseShopInv ==
    ASSUME StorefrontInv, CloseShop \/ OpenShop
    PROVE  StorefrontInv'
<1>0. StorefrontTypeOK /\ StorefrontInOrder /\ UploadsCounted /\ ClosedUnsurprised
    BY DEF StorefrontInv
<1>1. /\ UNCHANGED <<gallery, faq, lists, complete, shopJob, jostled>>
      /\ open' \in BOOLEAN /\ surprised' \in BOOLEAN
      /\ portfolio' \in PortfolioRow
      /\ ~open' => /\ portfolio' # "active"
                   /\ surprised' \/ Uploading = {}
    BY <1>0 DEF CloseShop, OpenShop, shopHistory, StorefrontTypeOK, PortfolioRow
<1>2. review' \in [Reviewed -> ReviewRow]
  <2>1. CASE UNCHANGED review
      BY <1>0, <2>1 DEF StorefrontTypeOK
  <2>2. CASE CloseShop
    <3> DEFINE Off(r) == [r EXCEPT !.status = "inactive"]
    <3>1. \A k \in Reviewed : review[k] \in ReviewRow /\ Off(review[k]) \in ReviewRow
        BY <1>0, ReviewImageRow DEF StorefrontTypeOK
    <3>2. review' = [k \in Reviewed |->
             IF review[k].status = "none" THEN review[k] ELSE Off(review[k])]
        BY <2>2, Zenon DEF CloseShop
    <3> HIDE DEF Off
    <3>3. QED
        BY <3>1, <3>2
  <2>3. QED
      BY <2>1, <2>2 DEF OpenShop
<1>3. StorefrontTypeOK'
    BY <1>0, <1>1, <1>2 DEF StorefrontTypeOK
<1>4. Uploading' = Uploading
    BY <1>1 DEF Uploading
<1>5. StorefrontInOrder' /\ UploadsCounted' /\ ClosedUnsurprised'
    BY <1>0, <1>1, <1>4 DEF StorefrontInOrder, UploadsCounted, ClosedUnsurprised
<1>6. QED
    BY <1>3, <1>5 DEF StorefrontInv

LEMMA StorefrontNextInv == StorefrontInv /\ [StorefrontNext]_shopVars => StorefrontInv'
<1>1. StorefrontInv /\ UNCHANGED shopVars => StorefrontInv'
    BY DEF shopVars, shopHistory, StorefrontInv, StorefrontTypeOK, StorefrontInOrder,
           UploadsCounted, ClosedUnsurprised, Uploading
<1>2. QED
    BY <1>1, UploadInv, StoreInv, GalleryDeleteInv, ReviewInv, BesidesInv, CloseShopInv
       DEF StorefrontNext

(* The gallery keeps its limit unless two updates overlapped, and a closed *)
(* business has no active portfolio unless an update was on its way, for   *)
(* any limit and any number of pictures, reviews and requests.             *)
THEOREM StorefrontInOrderCorrect == StorefrontSpec => []StorefrontInOrder
<1>1. StorefrontInv => StorefrontInOrder
    BY DEF StorefrontInv
<1>2. QED
    BY <1>1, StorefrontInitInv, StorefrontNextInv, PTL DEF StorefrontSpec

(* The portfolio, its gallery, its questions and the reviews keep their    *)
(* types.                                                                  *)
THEOREM StorefrontTypeCorrect == StorefrontSpec => []StorefrontTypeOK
<1>1. StorefrontInv => StorefrontTypeOK
    BY DEF StorefrontInv
<1>2. QED
    BY <1>1, StorefrontInitInv, StorefrontNextInv, PTL DEF StorefrontSpec

-------------------------------------------------------------------------------
(* The instance.  Its components share no variable, so each keeps its own  *)
(* invariant, in its own steps and in those of the others.                 *)
BusinessesInv ==
    /\ BusinessInv
    /\ StaffInv
    /\ CatalogueInv
    /\ StorefrontInv

LEMMA BusinessesStep ==
    [Next]_vars => /\ [BusinessNext]_businessVars
                   /\ [StaffNext]_staffVars
                   /\ [CatalogueNext]_serviceVars
                   /\ [StorefrontNext]_shopVars
<1>1. ASSUME UNCHANGED vars
      PROVE  UNCHANGED businessVars /\ UNCHANGED staffVars /\ UNCHANGED serviceVars
                /\ UNCHANGED shopVars
    BY <1>1, Zenon DEF vars
<1>2. ASSUME Next
      PROVE  /\ [BusinessNext]_businessVars
             /\ [StaffNext]_staffVars
             /\ [CatalogueNext]_serviceVars
             /\ [StorefrontNext]_shopVars
    BY <1>2, Zenon DEF Next
<1>3. QED
    BY <1>1, <1>2, Zenon

(* Whatever component runs, its rows and its requests in flight are what   *)
(* the code can make of them, for all values of the constants.             *)
THEOREM BusinessesTypeCorrect == Spec => []TypeOK
<1>1. Init => BusinessesInv
    BY BusinessInitInv, StaffInitInv, CatalogueInitInv, StorefrontInitInv
       DEF Init, BusinessesInv
<1>2. BusinessesInv /\ [Next]_vars => BusinessesInv'
    BY BusinessesStep, BusinessNextInv, StaffNextInv, CatalogueNextInv, StorefrontNextInv
       DEF BusinessesInv
<1>3. BusinessesInv => TypeOK
    BY DEF BusinessesInv, TypeOK, BusinessInv, StaffInv, CatalogueInv, StorefrontInv
<1>4. QED
    BY <1>1, <1>2, <1>3, PTL DEF Spec
===============================================================================
