----------------------------- MODULE MoneyProofs ------------------------------
(***************************************************************************)
(* What Ledger and InstantQuote guarantee for any number of holders,       *)
(* accounts and requests, and for any prices, slots and slabs; and that    *)
(* the instance that is model-checked is type correct for any constants.   *)
(*                                                                         *)
(* Ledger. A request saves the row it has read, so that the invariant also *)
(* says of the rows in flight what it says of the stored ones.             *)
(*                                                                         *)
(* Quotes. An answer is computed, so the argument is about the functions   *)
(* it is computed with: how far the last slot reaches, that a sum lies     *)
(* between what its least and its greatest term would add up to, and that  *)
(* rounding half up keeps such bounds. Both recursive functions are shown  *)
(* to exist and to have these properties by induction over the numbers.    *)
(***************************************************************************)
EXTENDS MCPayments, PaymentsProofs, FiniteSetTheorems, WellFoundedInduction,
        TLAPS

-------------------------------------------------------------------------------
(* The ledger.                                                             *)

RowBalanced(row) ==
    /\ row.pending >= 0 /\ row.available >= 0
    /\ row.pending + row.available = row.earned - row.withdrawn

(* What is known of a request under way.                                   *)
LedgerJobSound(w) ==
    LET j == ledgerJob[w] IN
    /\ j.step # "idle" => j.amount > 0
    /\ j.step \in {"post", "release"} => j.row.holder \in Holder /\ RowBalanced(j.row)
    /\ j.step = "release" => j.row.pending >= j.amount
    /\ j.step \in {"release", "lock", "settle"} => j.account \in Account
    /\ j.account \in Account => account[j.account] # Unopened
    /\ j.step = "post" /\ j.account = Nobody => j.row.earned = 0

LedgerInv ==
    /\ LedgerTypeOK
    /\ AccountsBalanced
    /\ \A a \in mixed : account[a] # Unopened
    /\ \A w \in LedgerWorker : LedgerJobSound(w)

-------------------------------------------------------------------------------
LEMMA UnopenedRow ==
    /\ Unopened \in AccountOf
    /\ RowBalanced(Unopened)
    /\ Unopened.earned = 0 /\ Unopened.holder = Nobody
    /\ \A h \in Holder : [Unopened EXCEPT !.holder = h] \in AccountOf
                           /\ [Unopened EXCEPT !.holder = h].holder = h
                           /\ RowBalanced([Unopened EXCEPT !.holder = h])
                           /\ [Unopened EXCEPT !.holder = h].earned = 0
BY DEF Unopened, AccountOf, RowBalanced

LEMMA IdleJob ==
    /\ LedgerIdle \in LedgerJob
    /\ LedgerIdle.step = "idle" /\ LedgerIdle.account = Nobody
BY UnopenedRow DEF LedgerIdle, LedgerJob

LEMMA HolderIsNobody == Nobody \notin Holder /\ Nobody \notin Account
BY LedgerAssumption

LEMMA PostedRow ==
    ASSUME NEW r \in AccountOf, NEW n \in Nat, RowBalanced(r)
    PROVE  /\ Posted(r, n) \in AccountOf
           /\ Posted(r, n).holder = r.holder
           /\ Posted(r, n).earned = r.earned + n
           /\ RowBalanced(Posted(r, n))
<1>. DEFINE m == [r EXCEPT !.pending = r.pending + n]
<1>1. /\ m \in AccountOf /\ m.pending = r.pending + n
      /\ \A x \in {"holder", "pending", "available", "earned", "withdrawn"} :
            x # "pending" => m[x] = r[x]
  BY DEF AccountOf
<1>2. Posted(r, n) = [m EXCEPT !.earned = r.earned + n]
  BY DEF Posted
<1>. HIDE DEF m
<1>3. Posted(r, n) = [holder |-> m.holder, pending |-> m.pending,
                           available |-> m.available, earned |-> r.earned + n,
                           withdrawn |-> m.withdrawn]
  BY <1>1, <1>2 DEF AccountOf
<1>4. QED
  BY <1>1, <1>3 DEF AccountOf, RowBalanced

LEMMA ReleasedRow ==
    ASSUME NEW r \in AccountOf, NEW n \in Nat, RowBalanced(r), r.pending >= n
    PROVE  /\ Released(r, n) \in AccountOf
           /\ Released(r, n).holder = r.holder
           /\ Released(r, n).earned = r.earned + 0
           /\ RowBalanced(Released(r, n))
<1>. DEFINE m == [r EXCEPT !.pending = r.pending - n]
<1>1. /\ m \in AccountOf /\ m.pending = r.pending - n
      /\ \A x \in {"holder", "pending", "available", "earned", "withdrawn"} :
            x # "pending" => m[x] = r[x]
  BY DEF AccountOf
<1>2. Released(r, n) = [m EXCEPT !.available = r.available + n]
  BY DEF Released
<1>. HIDE DEF m
<1>3. Released(r, n) = [holder |-> m.holder, pending |-> m.pending,
                           available |-> r.available + n, earned |-> m.earned,
                           withdrawn |-> m.withdrawn]
  BY <1>1, <1>2 DEF AccountOf
<1>4. QED
  BY <1>1, <1>3 DEF AccountOf, RowBalanced

LEMMA LedgerInitInv == LedgerInit => LedgerInv
<1>. SUFFICES ASSUME LedgerInit PROVE LedgerInv
  OBVIOUS
<1>1. LedgerTypeOK
  BY UnopenedRow, IdleJob DEF LedgerInit, LedgerTypeOK
<1>2. AccountsBalanced
  BY UnopenedRow DEF LedgerInit, AccountsBalanced, RowBalanced
<1>3. \A w \in LedgerWorker : LedgerJobSound(w)
  BY IdleJob, HolderIsNobody DEF LedgerInit, LedgerJobSound
<1>4. QED
  BY <1>1, <1>2, <1>3 DEF LedgerInv, LedgerInit

(* A worker that becomes idle has nothing left to satisfy, and the others  *)
(* satisfy what they did while no row is closed.                           *)
LEMMA LedgerReturnSound ==
    ASSUME LedgerInv, NEW w \in LedgerWorker, LedgerReturn(w),
           \A a \in Account : account[a] # Unopened => account'[a] # Unopened
    PROVE  /\ ledgerJob' \in [LedgerWorker -> LedgerJob]
           /\ \A v \in LedgerWorker : LedgerJobSound(v)'
<1>1. ledgerJob' \in [LedgerWorker -> LedgerJob]
  BY IdleJob DEF LedgerInv, LedgerTypeOK, LedgerReturn
<1>2. ASSUME NEW v \in LedgerWorker PROVE LedgerJobSound(v)'
  <2>1. CASE v = w
    <3>1. ledgerJob'[v] = LedgerIdle
      BY <2>1 DEF LedgerInv, LedgerTypeOK, LedgerReturn
    <3>2. QED
      BY <3>1, IdleJob, HolderIsNobody DEF LedgerJobSound
  <2>2. CASE v # w
    <3>1. ledgerJob'[v] = ledgerJob[v]
      BY <2>2 DEF LedgerInv, LedgerTypeOK, LedgerReturn
    <3>2. LedgerJobSound(v)
      BY DEF LedgerInv
    <3>3. QED
      BY <3>1, <3>2 DEF LedgerJobSound
  <2>3. QED
    BY <2>1, <2>2
<1>3. QED
  BY <1>1, <1>2

(* A request that begins has read a row that is stored, or makes a new one.*)
LEMMA LedgerBeginSound ==
    ASSUME LedgerInv, NEW w \in LedgerWorker, NEW step \in {"post", "release", "lock"},
           NEW h \in Holder, NEW a \in Account \cup {Nobody}, NEW n \in 1 .. MaxPosted,
           LedgerBegin(w, step, h, a, n),
           a = Nobody => step = "post",
           a # Nobody => a \in AccountsOf(h),
           step = "release" => account[a].pending >= n
    PROVE  LedgerInv'
<1>. DEFINE row == IF a = Nobody THEN [Unopened EXCEPT !.holder = h] ELSE account[a]
            job == [step |-> step, holder |-> h, account |-> a, amount |-> n, row |-> row]
<1>1. n \in Nat /\ n > 0
  BY LedgerAssumption
<1>2. row \in AccountOf /\ RowBalanced(row) /\ row.holder = h
  <2>1. CASE a = Nobody
    BY <2>1, UnopenedRow
  <2>2. CASE a # Nobody
    BY <2>2 DEF LedgerInv, LedgerTypeOK, AccountsBalanced, RowBalanced, AccountsOf
  <2>3. QED
    BY <2>1, <2>2
<1>3. job \in LedgerJob
  BY <1>1, <1>2 DEF LedgerJob
<1>4. ledgerJob' = [ledgerJob EXCEPT ![w] = job]
  BY DEF LedgerBegin
<1>5. UNCHANGED <<account, posted, mixed>>
  BY DEF LedgerBegin
<1>6. LedgerTypeOK' /\ AccountsBalanced' /\ \A c \in mixed' : account'[c] # Unopened
  BY <1>3, <1>4, <1>5 DEF LedgerInv, LedgerTypeOK, AccountsBalanced
<1>7. ASSUME NEW v \in LedgerWorker PROVE LedgerJobSound(v)'
  <2>1. CASE v = w
    <3>1. ledgerJob'[v] = job
      BY <1>4, <2>1 DEF LedgerInv, LedgerTypeOK
    <3>2. a \in Account => account[a] # Unopened
      BY UnopenedRow, HolderIsNobody DEF AccountsOf
    <3>3. a = Nobody => row.earned = 0
      BY UnopenedRow
    <3>4. a # Nobody => row = account[a]
      OBVIOUS
    <3>. HIDE DEF row
    <3>5. QED
      BY <1>1, <1>2, <1>5, <3>1, <3>2, <3>3, <3>4, HolderIsNobody DEF LedgerJobSound
  <2>2. CASE v # w
    <3>1. ledgerJob'[v] = ledgerJob[v]
      BY <1>4, <2>2 DEF LedgerInv, LedgerTypeOK
    <3>2. QED
      BY <1>5, <3>1 DEF LedgerInv, LedgerJobSound
  <2>3. QED
    BY <2>1, <2>2
<1>8. QED
  BY <1>6, <1>7 DEF LedgerInv

(* A save of a row that is sound: whatever it overwrites, the account is   *)
(* balanced; and unless it is mixed, what was earned is what was posted.   *)
LEMMA SaveSound ==
    ASSUME LedgerInv, NEW w \in LedgerWorker, NEW a \in Account, NEW row \in AccountOf,
           NEW n \in Nat,
           ledgerJob[w].step \in {"post", "release"}, Written(w, a), LedgerReturn(w),
           RowBalanced(row), row.holder \in Holder, row.earned = ledgerJob[w].row.earned + n,
           account' = [account EXCEPT ![a] = row],
           posted' = [posted EXCEPT ![a] = @ + n],
           mixed' = Mixed(w, a)
    PROVE  LedgerInv'
<1>1. row # Unopened
  BY UnopenedRow, HolderIsNobody
<1>2. \A c \in Account : account'[c] = IF c = a THEN row ELSE account[c]
  BY DEF LedgerInv, LedgerTypeOK
<1>3. \A c \in Account : posted'[c] = IF c = a THEN posted[a] + n ELSE posted[c]
  BY DEF LedgerInv, LedgerTypeOK
<1>4. mixed' \subseteq Account /\ mixed \subseteq mixed' /\ mixed' \subseteq mixed \cup {a}
  BY DEF LedgerInv, LedgerTypeOK, Mixed
<1>5. /\ ledgerJob' \in [LedgerWorker -> LedgerJob]
      /\ \A v \in LedgerWorker : LedgerJobSound(v)'
  BY <1>1, <1>2, LedgerReturnSound
<1>6. LedgerTypeOK'
  BY <1>4, <1>5 DEF LedgerInv, LedgerTypeOK
<1>7. row.earned = posted'[a] \/ a \in mixed'
  <2>1. CASE a \in mixed'
    BY <2>1
  <2>2. CASE a \notin mixed'
    <3>1. account[a] \in {ledgerJob[w].row, Unopened} /\ a \notin mixed
      BY <2>2 DEF Mixed
    <3>2. account[a].earned = posted[a]
      BY <3>1 DEF LedgerInv, AccountsBalanced
    <3>3. ledgerJob[w].row.earned = posted[a]
      <4>1. CASE account[a] = ledgerJob[w].row
        BY <4>1, <3>2
      <4>2. CASE account[a] = Unopened
        <5>1. ledgerJob[w].account = Nobody
          BY <4>2 DEF Written, LedgerInv, LedgerJobSound
        <5>2. ledgerJob[w].row.earned = 0
          BY <5>1, HolderIsNobody DEF LedgerInv, LedgerJobSound
        <5>3. QED
          BY <5>2, <4>2, <3>2, UnopenedRow
      <4>3. QED
        BY <4>1, <4>2, <3>1
    <3>4. QED
      BY <3>3, <1>3
  <2>3. QED
    BY <2>1, <2>2
<1>8. AccountsBalanced'
  <2>. SUFFICES ASSUME NEW c \in Account
                PROVE  /\ account'[c].pending >= 0 /\ account'[c].available >= 0
                       /\ account'[c].pending + account'[c].available
                            = account'[c].earned - account'[c].withdrawn
                       /\ account'[c].earned = posted'[c] \/ c \in mixed'
    BY DEF AccountsBalanced
  <2>1. CASE c = a
    BY <2>1, <1>2, <1>7 DEF RowBalanced
  <2>2. CASE c # a
    BY <2>2, <1>2, <1>3, <1>4 DEF LedgerInv, AccountsBalanced
  <2>3. QED
    BY <2>1, <2>2
<1>9. \A c \in mixed' : account'[c] # Unopened
  BY <1>1, <1>2, <1>4 DEF LedgerInv, LedgerTypeOK
<1>10. QED
  BY <1>5, <1>6, <1>8, <1>9 DEF LedgerInv

-------------------------------------------------------------------------------
LEMMA PostReadSound ==
    ASSUME LedgerInv, NEW w \in LedgerWorker, NEW h \in Holder, NEW n \in 1 .. MaxPosted,
           PostRead(w, h, n)
    PROVE  LedgerInv'
<1>1. PICK a \in Account \cup {Nobody} : GetOrCreate(h, a) /\ LedgerBegin(w, "post", h, a, n)
  BY DEF PostRead
<1>2. a # Nobody => a \in AccountsOf(h)
  BY <1>1 DEF GetOrCreate
<1>3. QED
  BY <1>1, <1>2, LedgerBeginSound

LEMMA ReleaseReadSound ==
    ASSUME LedgerInv, NEW w \in LedgerWorker, NEW h \in Holder, NEW n \in 1 .. MaxPosted,
           ReleaseRead(w, h, n)
    PROVE  LedgerInv'
<1>1. PICK a \in AccountsOf(h) :
          account[a].pending >= n /\ LedgerBegin(w, "release", h, a, n)
  BY DEF ReleaseRead
<1>2. a \in Account
  BY DEF AccountsOf
<1>3. a # Nobody
  BY <1>2, HolderIsNobody
<1>4. QED
  BY <1>1, <1>2, <1>3, LedgerBeginSound

LEMMA PayoutReadSound ==
    ASSUME LedgerInv, NEW w \in LedgerWorker, NEW h \in Holder, NEW a \in Account,
           NEW n \in 1 .. MaxPosted, PayoutRead(w, h, a, n)
    PROVE  LedgerInv'
BY LedgerBeginSound, HolderIsNobody DEF PayoutRead

LEMMA PostSaveSound ==
    ASSUME LedgerInv, NEW w \in LedgerWorker, NEW a \in Account, PostSave(w, a)
    PROVE  LedgerInv'
<1>. DEFINE n == ledgerJob[w].amount
            row == ledgerJob[w].row
<1>1. ledgerJob[w].step = "post"
  BY DEF PostSave, LedgerAt
<1>2. n \in Nat /\ n > 0 /\ row \in AccountOf /\ RowBalanced(row) /\ row.holder \in Holder
  BY <1>1 DEF LedgerInv, LedgerTypeOK, LedgerJob, LedgerJobSound
<1>3. /\ Posted(row, n) \in AccountOf
      /\ Posted(row, n).holder \in Holder
      /\ Posted(row, n).earned = row.earned + n
      /\ RowBalanced(Posted(row, n))
  BY <1>2, PostedRow
<1>4. /\ account' = [account EXCEPT ![a] = Posted(row, n)]
      /\ posted' = [posted EXCEPT ![a] = @ + n]
      /\ mixed' = Mixed(w, a) /\ Written(w, a) /\ LedgerReturn(w)
  BY DEF PostSave
<1>5. QED
  BY <1>1, <1>2, <1>3, <1>4, SaveSound

LEMMA ReleaseSaveSound ==
    ASSUME LedgerInv, NEW w \in LedgerWorker, NEW a \in Account, ReleaseSave(w, a)
    PROVE  LedgerInv'
<1>. DEFINE n == ledgerJob[w].amount
            row == ledgerJob[w].row
            new == Released(row, n)
<1>1. ledgerJob[w].step = "release"
  BY DEF ReleaseSave, LedgerAt
<1>2. /\ n \in Nat /\ n > 0 /\ row \in AccountOf /\ RowBalanced(row) /\ row.holder \in Holder
      /\ row.pending >= n
  BY <1>1 DEF LedgerInv, LedgerTypeOK, LedgerJob, LedgerJobSound
<1>3. /\ new \in AccountOf
      /\ new.holder \in Holder
      /\ new.earned = row.earned + 0
      /\ RowBalanced(new)
  BY <1>2, ReleasedRow
<1>4. /\ account' = [account EXCEPT ![a] = new]
      /\ mixed' = Mixed(w, a) /\ Written(w, a) /\ LedgerReturn(w)
  BY DEF ReleaseSave
<1>5. posted' = [posted EXCEPT ![a] = @ + 0]
  <2>1. posted' = posted
    BY DEF ReleaseSave
  <2>2. posted \in [Account -> Int]
    BY DEF LedgerInv, LedgerTypeOK
  <2>3. [posted EXCEPT ![a] = @ + 0] = posted
    BY <2>2
  <2>4. QED
    BY <2>1, <2>3
<1>. HIDE DEF new
<1>6. QED
  BY <1>1, <1>3, <1>4, <1>5, SaveSound

LEMMA PayoutLockSound ==
    ASSUME LedgerInv, NEW w \in LedgerWorker, PayoutLock(w)
    PROVE  LedgerInv'
<1>. DEFINE a == ledgerJob[w].account
<1>1. ledgerJob[w].step = "lock" /\ a \in Account /\ ledgerJob[w] \in LedgerJob
  BY DEF PayoutLock, LedgerAt, LedgerInv, LedgerTypeOK, LedgerJobSound
<1>2. account[a] \in AccountOf
  BY <1>1 DEF LedgerInv, LedgerTypeOK
<1>3. UNCHANGED <<account, posted, mixed>>
  BY DEF PayoutLock
<1>4. /\ ledgerJob' \in [LedgerWorker -> LedgerJob]
      /\ \A v \in LedgerWorker : v # w => ledgerJob'[v] = ledgerJob[v]
      /\ ledgerJob'[w].step = "settle" /\ ledgerJob'[w].account = a
      /\ ledgerJob'[w].amount = ledgerJob[w].amount
  BY <1>1, <1>2 DEF PayoutLock, LedgerInv, LedgerTypeOK, LedgerJob
<1>5. ASSUME NEW v \in LedgerWorker PROVE LedgerJobSound(v)'
  BY <1>1, <1>3, <1>4, HolderIsNobody DEF LedgerInv, LedgerJobSound
<1>6. QED
  BY <1>3, <1>4, <1>5 DEF LedgerInv, LedgerTypeOK, AccountsBalanced

(* The debit is never posted, so that a payout changes nothing.            *)
LEMMA PayoutSettleSound ==
    ASSUME LedgerInv, NEW w \in LedgerWorker, PayoutSettle(w)
    PROVE  LedgerInv'
<1>1. ledgerJob[w].amount \in Nat /\ ledgerJob[w].amount > 0
  BY DEF PayoutSettle, LedgerAt, LedgerInv, LedgerTypeOK, LedgerJob, LedgerJobSound
<1>2. ~Positive(-ledgerJob[w].amount)
  BY <1>1 DEF Positive
<1>3. UNCHANGED <<account, posted, mixed>> /\ LedgerReturn(w)
  BY <1>2 DEF PayoutSettle
<1>4. /\ ledgerJob' \in [LedgerWorker -> LedgerJob]
      /\ \A v \in LedgerWorker : LedgerJobSound(v)'
  BY <1>3, LedgerReturnSound
<1>5. QED
  BY <1>3, <1>4 DEF LedgerInv, LedgerTypeOK, AccountsBalanced

LEMMA LedgerAbortSound ==
    ASSUME LedgerInv, NEW w \in LedgerWorker, LedgerAbort(w)
    PROVE  LedgerInv'
<1>1. UNCHANGED <<account, posted, mixed>> /\ LedgerReturn(w)
  BY DEF LedgerAbort
<1>2. /\ ledgerJob' \in [LedgerWorker -> LedgerJob]
      /\ \A v \in LedgerWorker : LedgerJobSound(v)'
  BY <1>1, LedgerReturnSound
<1>3. QED
  BY <1>1, <1>2 DEF LedgerInv, LedgerTypeOK, AccountsBalanced

LEMMA LedgerNextInv == LedgerInv /\ [LedgerNext]_ledgerVars => LedgerInv'
<1>. SUFFICES ASSUME LedgerInv, [LedgerNext]_ledgerVars PROVE LedgerInv'
  OBVIOUS
<1>1. CASE LedgerNext
  <2>. PICK w \in LedgerWorker : LedgerRequest(w)
    BY <1>1 DEF LedgerNext
  <2>1. ASSUME NEW h \in Holder, NEW n \in 1 .. MaxPosted, PostRead(w, h, n) PROVE LedgerInv'
    BY <2>1, PostReadSound
  <2>2. ASSUME NEW h \in Holder, NEW n \in 1 .. MaxPosted, ReleaseRead(w, h, n) PROVE LedgerInv'
    BY <2>2, ReleaseReadSound
  <2>3. ASSUME NEW a \in Account, PostSave(w, a) PROVE LedgerInv'
    BY <2>3, PostSaveSound
  <2>4. ASSUME NEW a \in Account, ReleaseSave(w, a) PROVE LedgerInv'
    BY <2>4, ReleaseSaveSound
  <2>5. ASSUME NEW h \in Holder, NEW a \in Account, NEW n \in 1 .. MaxPosted,
               PayoutRead(w, h, a, n)
        PROVE  LedgerInv'
    BY <2>5, PayoutReadSound
  <2>6. CASE PayoutLock(w)
    BY <2>6, PayoutLockSound
  <2>7. CASE PayoutSettle(w)
    BY <2>7, PayoutSettleSound
  <2>8. CASE LedgerAbort(w)
    BY <2>8, LedgerAbortSound
  <2>9. QED
    BY <2>1, <2>2, <2>3, <2>4, <2>5, <2>6, <2>7, <2>8 DEF LedgerRequest
<1>2. CASE UNCHANGED ledgerVars
  BY <1>2 DEF ledgerVars, LedgerInv, LedgerTypeOK, AccountsBalanced, LedgerJobSound
<1>3. QED
  BY <1>1, <1>2

(* Whatever postings, releases and payouts race, the balances of every     *)
(* account add up and none is negative; only a save over another save can  *)
(* lose what was posted.                                                   *)
THEOREM LedgerBalanced == LedgerSpec => []AccountsBalanced
<1>1. LedgerInit => LedgerInv
  BY LedgerInitInv
<1>2. LedgerInv /\ [LedgerNext]_ledgerVars => LedgerInv'
  BY LedgerNextInv
<1>3. LedgerInv => AccountsBalanced
  BY DEF LedgerInv
<1>4. QED
  BY <1>1, <1>2, <1>3, PTL DEF LedgerSpec

-------------------------------------------------------------------------------
(* Induction over the numbers, about a set of them: what a theorem with an *)
(* operator as parameter would say cannot be cited.                        *)
LEMMA LeastExists ==
    ASSUME NEW S \in SUBSET Nat, S # {}
    PROVE  \E n \in S : \A m \in S : n <= m
<1> DEFINE Less == {pair \in Nat \X Nat : pair[1] < pair[2]}
<1>1. IsWellFoundedOn(Less, Nat)
    BY NatLessThanWellFounded, Zenon DEF OpToRel
<1>2. \E n \in S : \A i \in S : <<i, n>> \notin Less
    <2> HIDE DEF Less
    <2>1. QED
        BY <1>1, WFMin
<1>3. PICK n \in S : \A m \in S : <<m, n>> \notin Less
    BY <1>2
<1>4. ASSUME NEW m \in S PROVE n <= m
    <2>1. <<m, n>> \notin Less /\ m \in Nat /\ n \in Nat
        BY <1>3
    <2>2. QED
        BY <2>1
<1>5. QED
    BY <1>4

(* What holds of 0 and of n + 1 if of n.                                   *)
LEMMA AllNumbers ==
    ASSUME NEW S \in SUBSET Nat, 0 \in S, \A n \in S : n + 1 \in S
    PROVE  S = Nat
<1>1. SUFFICES ASSUME Nat \ S # {} PROVE FALSE
    OBVIOUS
<1>2. PICK n \in Nat \ S : \A m \in Nat \ S : n <= m
    BY <1>1, LeastExists
<1>3. n # 0 /\ n - 1 \in Nat
    BY <1>2
<1>4. n - 1 \in S
    BY <1>2, <1>3
<1>5. (n - 1) + 1 \in S
    BY <1>4
<1>6. QED
    BY <1>2, <1>3, <1>5

(* The greatest of some numbers below a bound.                             *)
LEMMA GreatestExists ==
    ASSUME NEW b \in Nat, NEW S \in SUBSET (0 .. b), S # {}
    PROVE  \E n \in S : \A m \in S : m <= n
<1> DEFINE T == {b - n : n \in S}
<1>1. T \in SUBSET Nat /\ T # {}
    <2>1. ASSUME NEW n \in S PROVE b - n \in Nat
        <3>1. n \in 0 .. b
            OBVIOUS
        <3>2. QED
            BY <3>1
    <2>2. QED
        BY <2>1
<1>2. PICK k \in T : \A m \in T : k <= m
    BY <1>1, LeastExists
<1>3. PICK n \in S : k = b - n
    BY <1>2
<1>4. ASSUME NEW m \in S PROVE m <= n
    BY <1>2, <1>3
<1>5. QED
    BY <1>4

-------------------------------------------------------------------------------
(* The sum of a finite function.                                           *)

(* iter adds up the values of f over the subsets of I that are in D.       *)
Adds(iter, f, D) ==
    \A s \in D :
        iter[s] = IF s = {} THEN 0
                  ELSE LET x == CHOOSE x \in s : TRUE IN f[x] + iter[s \ {x}]

(* There is such a function: the sums of the subsets of at most n + 1      *)
(* elements are made from those of at most n.                              *)
LEMMA AddingExists ==
    ASSUME NEW I, IsFiniteSet(I), NEW f
    PROVE  \E iter : /\ iter = [s \in SUBSET I |-> iter[s]]
                     /\ Adds(iter, f, SUBSET I)
<1> DEFINE Small(n) == {s \in SUBSET I : Cardinality(s) <= n}
           Known == {n \in Nat : \E iter : Adds(iter, f, Small(n))}
<1>1. \A s \in SUBSET I : /\ IsFiniteSet(s) /\ Cardinality(s) \in Nat
                          /\ Cardinality(s) <= Cardinality(I)
    BY FS_Subset, FS_CardinalityType
<1>2. 0 \in Known
    <2>1. Adds([s \in SUBSET I |-> 0], f, Small(0))
        BY <1>1, FS_EmptySet DEF Adds
    <2>2. QED
        BY <2>1
<1>3. ASSUME NEW n \in Known PROVE n + 1 \in Known
    <2>1. PICK iter : Adds(iter, f, Small(n))
        BY <1>3
    <2> DEFINE X(s) == CHOOSE x \in s : TRUE
               V(s) == IF s = {} THEN 0 ELSE f[X(s)] + iter[s \ {X(s)}]
               more == [s \in SUBSET I |-> V(s)]
    <2>2. ASSUME NEW s \in Small(n)
          PROVE  more[s] = iter[s]
        BY <2>1, <2>2 DEF Adds
    <2>3. ASSUME NEW s \in Small(n + 1), s # {}
          PROVE  s \ {X(s)} \in Small(n)
        <3>1. X(s) \in s
            BY <2>3
        <3>2. Cardinality(s \ {X(s)}) = Cardinality(s) - 1
            BY <1>1, <3>1, FS_RemoveElement
        <3>3. QED
            BY <1>1, <1>3, <3>2
    <2>4. ASSUME NEW s \in Small(n + 1)
          PROVE  more[s] = IF s = {} THEN 0 ELSE f[X(s)] + more[s \ {X(s)}]
        <3>1. more[s] = V(s)
            BY <2>4
        <3>2. s # {} => more[s \ {X(s)}] = iter[s \ {X(s)}]
            BY <2>2, <2>3, <2>4
        <3> HIDE DEF more, X
        <3>3. QED
            BY <3>1, <3>2
    <2>5. Adds(more, f, Small(n + 1))
        <3> HIDE DEF more
        <3>1. QED
            BY <2>4 DEF Adds
    <2>6. QED
        <3>1. n + 1 \in Nat
            BY <1>3
        <3> HIDE DEF more, Small
        <3>2. QED
            BY <2>5, <3>1
<1>4. Known = Nat
    <2> HIDE DEF Known
    <2>1. Known \in SUBSET Nat
        BY DEF Known
    <2>2. QED
        BY <1>2, <1>3, <2>1, AllNumbers
<1>5. PICK iter : Adds(iter, f, Small(Cardinality(I)))
    BY <1>1, <1>4, FS_CardinalityType
<1>6. Small(Cardinality(I)) = SUBSET I
    BY <1>1
<1>7. Adds([s \in SUBSET I |-> iter[s]], f, SUBSET I)
    <2> DEFINE full == [s \in SUBSET I |-> iter[s]]
    <2>1. \A s \in SUBSET I : full[s] = iter[s]
        OBVIOUS
    <2>2. \A s, x : s \in SUBSET I => s \ {x} \in SUBSET I
        OBVIOUS
    <2> HIDE DEF full, Small
    <2>3. QED
        BY <1>5, <1>6, <2>1, <2>2 DEF Adds, full
<1>8. QED
    BY <1>7

(* The fold of the community modules is one of them.                       *)
LEMMA SumUnfolds ==
    ASSUME NEW I, IsFiniteSet(I), NEW f, DOMAIN f = I
    PROVE  \E iter : SumOf(f) = iter[I] /\ Adds(iter, f, SUBSET I)
<1> DEFINE F(g) == [s \in SUBSET (DOMAIN f) |->
                       IF s = {} THEN 0
                       ELSE LET x == CHOOSE x \in s : TRUE IN f[x] + g[s \ {x}]]
           iter == CHOOSE g : g = F(g)
<1>1. SumOf(f) = iter[DOMAIN f]
    BY DEF SumOf, FoldFunction, FoldFunctionOnSet, MapThenFoldSet
<1>2. \E g : g = F(g)
    <2>1. PICK g : g = [s \in SUBSET I |-> g[s]] /\ Adds(g, f, SUBSET I)
        BY AddingExists
    <2>2. \A s \in SUBSET I : g[s] = F(g)[s]
        BY <2>1 DEF Adds
    <2>3. F(g) = [s \in SUBSET I |-> F(g)[s]]
        OBVIOUS
    <2> HIDE DEF F
    <2>4. g = F(g)
        BY <2>1, <2>2, <2>3, Zenon
    <2>5. QED
        BY <2>4
<1>3. iter = F(iter)
    BY <1>2
<1>4. Adds(iter, f, SUBSET I)
    <2> HIDE DEF iter
    <2>1. QED
        BY <1>3 DEF Adds
<1>5. QED
    <2> HIDE DEF iter
    <2>1. QED
        BY <1>1, <1>4

(* It lies between what the least and what the greatest value would add up *)
(* to.                                                                     *)
LEMMA SumBounds ==
    ASSUME NEW I, IsFiniteSet(I), NEW f, DOMAIN f = I,
           NEW low \in Nat, NEW high \in Nat,
           \A i \in I : f[i] \in Nat /\ low <= f[i] /\ f[i] <= high
    PROVE  /\ SumOf(f) \in Nat
           /\ Cardinality(I) * low <= SumOf(f)
           /\ SumOf(f) <= Cardinality(I) * high
<1>1. PICK iter : SumOf(f) = iter[I] /\ Adds(iter, f, SUBSET I)
    BY SumUnfolds
<1> DEFINE Within(s) == /\ iter[s] \in Nat
                        /\ Cardinality(s) * low <= iter[s]
                        /\ iter[s] <= Cardinality(s) * high
           Good == {n \in Nat : \A s \in SUBSET I : Cardinality(s) = n => Within(s)}
<1>2. \A s \in SUBSET I : IsFiniteSet(s) /\ Cardinality(s) \in Nat
    BY FS_Subset, FS_CardinalityType
<1>3. 0 \in Good
    <2>1. ASSUME NEW s \in SUBSET I, Cardinality(s) = 0
          PROVE  Within(s)
        <3>1. s = {}
            BY <1>2, <2>1, FS_EmptySet
        <3>2. iter[s] = 0
            BY <1>1, <3>1 DEF Adds
        <3>3. QED
            BY <2>1, <3>2
    <2>2. QED
        BY <2>1
<1>4. ASSUME NEW n \in Good PROVE n + 1 \in Good
    <2>1. ASSUME NEW s \in SUBSET I, Cardinality(s) = n + 1
          PROVE  Within(s)
        <3>1. n \in Nat /\ s # {}
            <4>1. n \in Nat
                BY <1>4
            <4> HIDE DEF Within, Good
            <4>2. QED
                BY <2>1, <4>1, FS_EmptySet
        <3>2. PICK x \in s : iter[s] = f[x] + iter[s \ {x}]
            <4> DEFINE y == CHOOSE y \in s : TRUE
            <4>1. y \in s
                BY <3>1
            <4>2. iter[s] = IF s = {} THEN 0 ELSE f[y] + iter[s \ {y}]
                BY <1>1, Zenon DEF Adds
            <4> HIDE DEF y
            <4>3. QED
                BY <3>1, <4>1, <4>2
        <3>3. Cardinality(s \ {x}) = n
            BY <1>2, <2>1, <3>1, <3>2, FS_RemoveElement
        <3>4. Within(s \ {x})
            BY <3>3
        <3>5. f[x] \in Nat /\ low <= f[x] /\ f[x] <= high
            OBVIOUS
        <3>6. (n + 1) * low = n * low + low /\ (n + 1) * high = n * high + high
            BY <3>1
        <3> DEFINE a == n * low
                   b == n * high
                   rest == iter[s \ {x}]
        <3>7. a \in Nat /\ b \in Nat /\ rest \in Nat /\ a <= rest /\ rest <= b
            BY <3>1, <3>3, <3>4
        <3>8. (n + 1) * low = a + low /\ (n + 1) * high = b + high
            BY <3>6
        <3> HIDE DEF a, b, rest
        <3>9. f[x] + rest \in Nat /\ a + low <= f[x] + rest /\ f[x] + rest <= b + high
            BY <3>5, <3>7
        <3>10. QED
            BY <2>1, <3>2, <3>8, <3>9 DEF rest
    <2>2. n + 1 \in Nat
        BY <1>4
    <2> HIDE DEF Within
    <2>3. QED
        BY <2>1, <2>2
<1>5. Good = Nat
    <2> HIDE DEF Within
    <2>1. Good \in SUBSET Nat
        OBVIOUS
    <2> HIDE DEF Good
    <2>2. QED
        BY <1>3, <1>4, <2>1, AllNumbers
<1>6. Within(I)
    BY <1>2, <1>5
<1>7. QED
    BY <1>1, <1>6

(* Rounding half up stays between whole bounds.                            *)
LEMMA HalfUpBounds ==
    ASSUME NEW x \in Int, NEW n \in Nat \ {0}, NEW low \in Int, NEW high \in Int,
           n * low <= x, x <= n * high
    PROVE  HalfUp(x, n) \in Int /\ low <= HalfUp(x, n) /\ HalfUp(x, n) <= high
<1> DEFINE y == 2 * x + n
           m == 2 * n
           d == y \div m
<1>1. d \in Int /\ m * d <= y /\ y < m * d + m
    <2>1. y \in Int /\ m \in Int /\ m > 0
        OBVIOUS
    <2> HIDE DEF y, m
    <2>2. QED
        BY <2>1
<1>2. m * low <= y
    OBVIOUS
<1>3. y < m * (high + 1)
    OBVIOUS
<1>4. m \in Nat /\ m > 0 /\ y \in Int
    OBVIOUS
<1>5. HalfUp(x, n) = d
    BY DEF HalfUp
<1> HIDE DEF y, m, d
<1>6. m * low < m * (d + 1)
    BY <1>1, <1>2, <1>4
<1>7. m * d < m * (high + 1)
    BY <1>1, <1>3, <1>4
<1>8. low < d + 1
    BY <1>1, <1>4, <1>6, SMTT(30)
<1>9. d < high + 1
    BY <1>1, <1>4, <1>7, SMTT(30)
<1>10. QED
    BY <1>1, <1>5, <1>8, <1>9

-------------------------------------------------------------------------------
(* The slots that are added to the current one are free.                   *)
LEMMA LastSlotReached ==
    ASSUME NEW slots, NEW n \in Nat, slots \in [1 .. n -> SlotRow], NEW bookings,
           NEW i \in 1 .. n
    PROVE  /\ LastSlot(slots, bookings, i) \in i .. n
           /\ \A j \in i + 1 .. LastSlot(slots, bookings, i) :
                 SlotIsFree(slots[j], bookings)
<1> DEFINE Free(k) == SlotIsFree(slots[k], bookings)
           F(g) == [k \in i .. Len(slots) |->
                       IF k = i THEN i
                       ELSE IF g[k - 1] = k - 1 /\ SlotIsFree(slots[k], bookings) THEN k
                       ELSE g[k - 1]]
           last == CHOOSE g : g = F(g)
<1>1. Len(slots) = n
    <2>1. slots \in Seq(SlotRow) /\ DOMAIN slots = 1 .. n
        OBVIOUS
    <2>2. QED
        BY <2>1
<1>2. LastSlot(slots, bookings, i) = last[n]
    <2>1. LastSlot(slots, bookings, i) = last[Len(slots)]
        BY DEF LastSlot
    <2>2. QED
        BY <1>1, <2>1
<1>3. \E g : g = F(g)
    <2> DEFINE taken == {j \in i + 1 .. n : ~Free(j)}
    <2>1. PICK stop \in i + 1 .. n + 1 :
              /\ \A j \in i + 1 .. n : j < stop => Free(j)
              /\ stop <= n => ~Free(stop)
        <3> HIDE DEF Free
        <3>1. CASE taken = {}
            <4>1. n + 1 \in i + 1 .. n + 1
                OBVIOUS
            <4>2. QED
                BY <3>1, <4>1
        <3>2. CASE taken # {}
            <4>1. taken \in SUBSET Nat
                OBVIOUS
            <4>2. PICK k \in taken : \A m \in taken : k <= m
                BY <3>2, <4>1, LeastExists
            <4>3. QED
                BY <4>2
        <3>3. QED
            BY <3>1, <3>2
    <2> DEFINE g == [k \in i .. n |-> IF k < stop THEN k ELSE stop - 1]
    <2>2. ASSUME NEW k \in i .. n
          PROVE  g[k] = IF k = i THEN i
                        ELSE IF g[k - 1] = k - 1 /\ Free(k) THEN k
                        ELSE g[k - 1]
        <3> HIDE DEF Free
        <3>1. CASE k = i
            BY <2>1, <3>1
        <3>2. CASE k # i /\ k < stop
            BY <2>1, <3>2
        <3>3. CASE k # i /\ k = stop
            BY <2>1, <3>3
        <3>4. CASE k # i /\ k > stop
            BY <2>1, <3>4
        <3>5. QED
            BY <3>1, <3>2, <3>3, <3>4
    <2> HIDE DEF g
    <2>3. F(g) = g
        BY <1>1, <2>2, Zenon DEF g
    <2>4. QED
        BY <2>3
<1>4. last = F(last)
    BY <1>3
<1>5. \A k \in i .. n :
          last[k] = IF k = i THEN i
                    ELSE IF last[k - 1] = k - 1 /\ Free(k) THEN k
                    ELSE last[k - 1]
    <2> HIDE DEF last
    <2>1. QED
        BY <1>1, <1>4
<1> HIDE DEF last
<1> DEFINE Reached(k) == last[k] \in i .. k /\ \A j \in i + 1 .. last[k] : Free(j)
           Good == {m \in Nat : i + m <= n => Reached(i + m)}
<1>6. 0 \in Good
    BY <1>5
<1>7. ASSUME NEW m \in Good PROVE m + 1 \in Good
    <2>1. m \in Nat /\ m + 1 \in Nat
        BY <1>7
    <2>2. ASSUME i + (m + 1) <= n PROVE Reached(i + (m + 1))
        <3> DEFINE k == i + (m + 1)
        <3>1. k \in i .. n /\ k # i /\ k - 1 = i + m
            BY <2>1, <2>2
        <3>2. Reached(k - 1)
            BY <2>1, <3>1
        <3> HIDE DEF k, Free
        <3>3. \/ last[k] = k /\ last[k - 1] = k - 1 /\ Free(k)
              \/ last[k] = last[k - 1]
            BY <1>5, <3>1
        <3>4. Reached(k)
            BY <3>1, <3>2, <3>3
        <3>5. QED
            BY <3>4 DEF k
    <2> HIDE DEF Reached
    <2>3. QED
        BY <2>1, <2>2
<1>8. Good = Nat
    <2>1. Good \in SUBSET Nat
        OBVIOUS
    <2> HIDE DEF Good
    <2>2. QED
        BY <1>6, <1>7, <2>1, AllNumbers
<1>9. Reached(n)
    <2>1. PICK m \in Nat : i + m = n
        <3>1. n - i \in Nat /\ i + (n - i) = n
            OBVIOUS
        <3>2. QED
            BY <3>1
    <2> HIDE DEF Reached
    <2>2. m \in Good
        BY <1>8
    <2>3. Reached(i + m)
        BY <2>1, <2>2
    <2>4. QED
        BY <2>1, <2>3
<1>10. QED
    BY <1>2, <1>9

(* Bookings are bookings, however many.                                    *)
LEMMA UpToMembers ==
    ASSUME NEW n \in Nat, NEW S, NEW T \in UpTo(n, S)
    PROVE  T \subseteq S
<1>1. PICK k \in 0 .. n : T \in {Range(f) : f \in [1 .. k -> S]}
    BY DEF UpTo
<1>2. PICK f \in [1 .. k -> S] : T = Range(f)
    BY <1>1
<1>3. QED
    BY <1>2 DEF Range

(* A provider who is found free has the time.                              *)
LEMMA AvailableHasTime ==
    ASSUME NEW q \in HoursQuestion, Available(q), q.now + q.required < Midnight
    PROVE  HasTime(q)
<1>1. PICK n \in 0 .. MaxSlots : q.slots \in [1 .. n -> SlotRow]
    BY DEF HoursQuestion, Schedules
<1>2. n \in Nat /\ q.now \in Nat /\ q.required \in Nat
    BY QuoteAssumption DEF HoursQuestion
<1> DEFINE covering == {i \in DOMAIN q.slots :
                           q.slots[i].start <= q.now /\ q.now < q.slots[i].end}
           i == CurrentSlot(q.slots, q.now)
           k == LastSlot(q.slots, q.bookings, i)
           done == q.now + q.required
<1>3. i # 0 /\ done % Midnight <= q.slots[k].end
    BY DEF Available, InsideWorkingHours
<1>4. i \in covering
    <2>1. covering # {}
        BY <1>3 DEF CurrentSlot
    <2>2. covering \in SUBSET Nat
        BY <1>1, <1>2
    <2>3. \E c \in covering : \A d \in covering : c <= d
        BY <2>1, <2>2, LeastExists
    <2>4. i = CHOOSE c \in covering : \A d \in covering : c <= d
        BY <2>1 DEF CurrentSlot
    <2> HIDE DEF covering, i
    <2>5. QED
        BY <2>3, <2>4
<1>5. i \in 1 .. n
    BY <1>1, <1>4
<1>6. /\ k \in i .. n
      /\ \A j \in i + 1 .. k : SlotIsFree(q.slots[j], q.bookings)
    <2> HIDE DEF i
    <2>1. QED
        BY <1>1, <1>2, <1>5, LastSlotReached
<1>7. done % Midnight = done
    <2>1. done \in Nat /\ Midnight \in Nat /\ done < Midnight
        BY <1>2, QuoteAssumption
    <2> HIDE DEF done
    <2>2. QED
        BY <2>1
<1>8. \A b \in q.bookings : BookedEnd(b) <= q.now \/ done <= b.start
    <2>0. q.bookings \subseteq BookedRow
        BY QuoteAssumption, UpToMembers DEF HoursQuestion
    <2>1. ASSUME NEW b \in q.bookings
          PROVE  b.start \in Nat /\ BookedEnd(b) \in Int
        BY <2>0, QuoteAssumption DEF BookedRow, BookedEnd
    <2>2. QED
        BY <1>2, <2>1 DEF Available, ScheduledConflict
<1>9. k \in DOMAIN q.slots /\ i <= k
    BY <1>1, <1>2, <1>5, <1>6
<1> HIDE DEF i, k
<1>10. QED
    BY <1>3, <1>4, <1>6, <1>7, <1>8, <1>9 DEF HasTime

-------------------------------------------------------------------------------
(* An amount that is rounded is an amount.                                 *)
LEMMA HalfUpNat ==
    ASSUME NEW x \in Nat, NEW n \in Nat \ {0}
    PROVE  HalfUp(x, n) \in Nat
<1>1. n * 0 <= x /\ x <= n * x
    OBVIOUS
<1>2. HalfUp(x, n) \in Int /\ 0 <= HalfUp(x, n)
    BY <1>1, HalfUpBounds
<1>3. QED
    BY <1>2

(* The average of some numbers lies between the least and the greatest.    *)
LEMMA AverageBetween ==
    ASSUME NEW offers, NEW n \in Nat, offers \in [1 .. n -> Offer],
           NEW I \in SUBSET (1 .. n), I # {}
    PROVE  LET prices == {offers[i].price : i \in I} IN
           /\ AveragePrice(offers, I) \in Nat
           /\ \E p \in prices : p <= AveragePrice(offers, I)
           /\ \E p \in prices : AveragePrice(offers, I) <= p
<1> DEFINE prices == {offers[i].price : i \in I}
           f == [i \in I |-> offers[i].price]
           count == Cardinality(I)
<1>1. prices \in SUBSET (0 .. MaxPrice) /\ prices # {} /\ prices \in SUBSET Nat
    <2>1. ASSUME NEW i \in I
          PROVE  offers[i].price \in 0 .. MaxPrice
        <3>1. offers[i] \in Offer
            OBVIOUS
        <3>2. QED
            BY <3>1 DEF Offer
    <2>2. prices \in SUBSET (0 .. MaxPrice) /\ prices # {}
        BY <2>1
    <2>3. 0 .. MaxPrice \in SUBSET Nat
        BY QuoteAssumption
    <2> HIDE DEF prices
    <2>4. QED
        BY <2>2, <2>3
<1>2. PICK low \in prices : \A p \in prices : low <= p
    BY <1>1, LeastExists
<1>3. PICK high \in prices : \A p \in prices : p <= high
    BY <1>1, QuoteAssumption, GreatestExists
<1>4. IsFiniteSet(I) /\ count \in Nat \ {0}
    <2>1. IsFiniteSet(1 .. n)
        BY FS_Interval
    <2>2. IsFiniteSet(I)
        BY <2>1, FS_Subset
    <2>3. QED
        BY <2>2, FS_CardinalityType, FS_EmptySet
<1>5. DOMAIN f = I /\ \A i \in I : f[i] \in Nat /\ low <= f[i] /\ f[i] <= high
    BY <1>1, <1>2, <1>3
<1>6. low \in Nat /\ high \in Nat
    BY <1>1, <1>2, <1>3
<1> HIDE DEF f
<1>7. SumOf(f) \in Nat /\ count * low <= SumOf(f) /\ SumOf(f) <= count * high
    BY <1>4, <1>5, <1>6, SumBounds
<1> HIDE DEF count
<1>8. /\ HalfUp(SumOf(f), count) \in Int
      /\ low <= HalfUp(SumOf(f), count) /\ HalfUp(SumOf(f), count) <= high
    <2> DEFINE x == SumOf(f)
    <2>1. x \in Int /\ low \in Int /\ high \in Int
        BY <1>6, <1>7
    <2>2. count * low <= x /\ x <= count * high
        BY <1>7
    <2> HIDE DEF x
    <2>3. HalfUp(x, count) \in Int /\ low <= HalfUp(x, count) /\ HalfUp(x, count) <= high
        BY <1>4, <2>1, <2>2, HalfUpBounds
    <2>4. QED
        BY <2>3 DEF x
<1>9. AveragePrice(offers, I) = HalfUp(SumOf(f), count)
    BY DEF AveragePrice, f, count
<1>10. HalfUp(SumOf(f), count) \in Nat
    BY <1>6, <1>8
<1>11. QED
    BY <1>2, <1>3, <1>8, <1>9, <1>10

(* What is charged for the way is never negative.                          *)
LEMMA TravelChargeType ==
    ASSUME NEW offers, NEW n \in Nat, offers \in [1 .. n -> Offer],
           NEW I \in SUBSET (1 .. n), I # {}
    PROVE  TravelCharge(offers, I) \in Nat
<1> DEFINE f == [i \in I |-> offers[i].distance]
           count == Cardinality(I)
           beyond == SumOf(f) - FreeDistance * count
<1>1. IsFiniteSet(I) /\ count \in Nat \ {0}
    <2>1. IsFiniteSet(1 .. n)
        BY FS_Interval
    <2>2. IsFiniteSet(I)
        BY <2>1, FS_Subset
    <2>3. QED
        BY <2>2, FS_CardinalityType, FS_EmptySet
<1>2. DOMAIN f = I /\ \A i \in I : f[i] \in Nat /\ 0 <= f[i] /\ f[i] <= MaxDistance
    BY QuoteAssumption DEF Offer
<1>3. SumOf(f) \in Nat
    <2> HIDE DEF f
    <2>1. QED
        BY <1>1, <1>2, SumBounds, QuoteAssumption
<1>4. TravelCharge(offers, I) =
          IF beyond <= 0 THEN 0 ELSE HalfUp(beyond * RatePerKm, count)
    BY DEF TravelCharge
<1>5. beyond \in Int
    <2> HIDE DEF f, count
    <2>1. QED
        BY <1>1, <1>3, QuoteAssumption
<1> HIDE DEF beyond, count
<1>6. CASE beyond <= 0
    BY <1>4, <1>6
<1>7. CASE ~(beyond <= 0)
    <2>1. beyond * RatePerKm \in Nat
        BY <1>5, <1>7, QuoteAssumption
    <2>2. HalfUp(beyond * RatePerKm, count) \in Nat
        BY <1>1, <2>1, HalfUpNat
    <2>3. QED
        BY <1>4, <1>7, <2>2
<1>8. QED
    BY <1>6, <1>7

(* One of the candidates is the nearest.                                   *)
LEMMA NearestExists ==
    ASSUME NEW offers, NEW n \in Nat, offers \in [1 .. n -> Offer],
           NEW I \in SUBSET (1 .. n), I # {}
    PROVE  Nearest(offers, I) \in I
<1> DEFINE distances == {offers[i].distance : i \in I}
<1>1. distances \in SUBSET Nat /\ distances # {}
    <2>1. ASSUME NEW i \in I
          PROVE  offers[i].distance \in Nat
        <3>1. offers[i] \in Offer
            OBVIOUS
        <3>2. QED
            BY <3>1, QuoteAssumption DEF Offer
    <2>2. QED
        BY <2>1
<1>2. PICK d \in distances : \A e \in distances : d <= e
    BY <1>1, LeastExists
<1> DEFINE near == {i \in I : offers[i].distance = d}
<1>3. near \in SUBSET Nat /\ near # {}
    <2>1. I \in SUBSET Nat
        OBVIOUS
    <2>2. PICK i \in I : offers[i].distance = d
        BY <1>2
    <2>3. QED
        BY <2>1, <2>2
<1>4. PICK i \in near : \A j \in near : i <= j
    BY <1>3, LeastExists
<1>5. \A j \in I : \/ offers[i].distance < offers[j].distance
                   \/ offers[i].distance = offers[j].distance /\ i <= j
    <2>1. ASSUME NEW j \in I
          PROVE  \/ offers[i].distance < offers[j].distance
                 \/ offers[i].distance = offers[j].distance /\ i <= j
        <3>1. d \in Nat /\ offers[j].distance \in Nat /\ d <= offers[j].distance
            BY <1>1, <1>2
        <3>2. QED
            BY <1>4, <3>1
    <2>2. QED
        BY <2>1
<1>6. QED
    BY <1>4, <1>5 DEF Nearest

(* Slabs are not empty and do not overlap but at their ends.               *)
LEMMA SlabsAreSlabs ==
    ASSUME NEW slabs \in Slabs, NEW q \in slabs
    PROVE  /\ q \in Slab
           /\ q.maximum = Endless \/ q.minimum < q.maximum
<1> DEFINE proper == {r \in Slab : r.maximum = Endless \/ r.minimum < r.maximum}
<1>1. slabs \in UpTo(MaxSlabs, proper)
    BY DEF Slabs
<1>2. slabs \subseteq proper
    <2> HIDE DEF proper
    <2>1. QED
        BY <1>1, QuoteAssumption, UpToMembers
<1>3. QED
    BY <1>2

(* A slab that the comment provides for is the only one that applies.      *)
LEMMA DocumentedApplies ==
    ASSUME NEW slabs \in Slabs, NEW amount \in Nat, NEW r \in Documented(slabs, amount)
    PROVE  Applicable(slabs, amount) = {r}
<1>1. \A q \in slabs : q \in Slab /\ q.minimum \in Int
                      /\ (q.maximum # Endless =>
                             q.maximum \in Int /\ q.minimum < q.maximum)
    BY SlabsAreSlabs, QuoteAssumption DEF Slab
<1>2. \A q, s \in slabs : q = s \/ Below(q, s) \/ Below(s, q)
    BY DEF Slabs
<1>3. /\ r \in slabs /\ r.minimum <= amount
      /\ r.maximum = Endless \/ amount < r.maximum
    BY DEF Documented
<1>4. r \in SlabsOf(slabs, amount)
    BY <1>1, <1>3 DEF SlabsOf
<1>5. ASSUME NEW q \in SlabsOf(slabs, amount), q # r
      PROVE  q.minimum < r.minimum
    <2>1. q \in slabs /\ q.minimum <= amount /\ (q.maximum = Endless \/ amount <= q.maximum)
        BY DEF SlabsOf
    <2>2. CASE Below(q, r)
        BY <1>1, <1>3, <2>1, <2>2 DEF Below
    <2>3. CASE Below(r, q)
        BY <1>1, <1>3, <2>1, <2>3 DEF Below
    <2>4. QED
        BY <1>2, <1>3, <1>5, <2>1, <2>2, <2>3
<1>6. SlabsOf(slabs, amount) \subseteq slabs
    BY DEF SlabsOf
<1>7. QED
    BY <1>1, <1>4, <1>5, <1>6 DEF Applicable

(* The platform fee is never negative.                                     *)
LEMMA FeeType ==
    ASSUME NEW slabs \in Slabs, NEW amount \in Nat, NEW fee \in PlatformFee(slabs, amount)
    PROVE  fee \in Nat
<1>1. CASE amount <= 0
    BY <1>1 DEF PlatformFee
<1>2. CASE ~(amount <= 0)
    <2>1. PICK r \in Applicable(slabs, amount) : fee = HalfUp(amount * r.percentage, 100)
        BY <1>2 DEF PlatformFee
    <2>2. r \in Slab
        <3>1. r \in slabs
            BY <2>1 DEF Applicable, SlabsOf
        <3>2. QED
            BY <3>1, SlabsAreSlabs
    <2>3. r.percentage \in Nat
        <3>1. r.percentage \in Percentages
            BY <2>2 DEF Slab
        <3>2. r.percentage \in 0 .. 100
            BY <3>1, QuoteAssumption
        <3>3. QED
            BY <3>2
    <2>4. amount * r.percentage \in Nat
        BY <2>3
    <2>5. QED
        BY <2>1, <2>4, HalfUpNat
<1>3. QED
    BY <1>1, <1>2

-------------------------------------------------------------------------------
(* The answers.  The question is one that can be put, and it stays.        *)
QuoteInv ==
    /\ question \in HoursQuestion \cup PriceQuestion
    /\ QuoteTypeOK
    /\ QuotesInOrder

LEMMA QuoteInitInv == QuoteInit => QuoteInv
BY DEF QuoteInit, QuoteInv, QuoteTypeOK, AnswerRow, QuotesInOrder

LEMMA AnswerHoursInv ==
    QuoteInv /\ AnswerHours /\ UNCHANGED question => QuoteInv'
<1> SUFFICES ASSUME QuoteInv, AnswerHours, UNCHANGED question
             PROVE  QuoteInv'
    OBVIOUS
<1> DEFINE q == question
<1>1. q \in HoursQuestion
    BY DEF QuoteInv, AnswerHours, PriceQuestion
<1>2. answer' = [about |-> "hours", free |-> Available(q)]
    BY DEF AnswerHours
<1>3. Available(q) \in BOOLEAN
    BY DEF Available, InsideWorkingHours, ScheduledConflict
<1>4. QuoteTypeOK'
    BY <1>2, <1>3, Zenon DEF QuoteTypeOK, AnswerRow
<1>5. q.now + q.required \in Int
    BY <1>1, QuoteAssumption DEF HoursQuestion
<1>6. Available(q) => HasTime(q) \/ q.now + q.required >= Midnight
    BY <1>1, <1>5, AvailableHasTime, QuoteAssumption
<1>7. answer'.about = "hours" /\ answer'.free = Available(q)
    BY <1>2
<1>8. QuotesInOrder'
    BY <1>6, <1>7 DEF QuotesInOrder
<1>9. QED
    BY <1>4, <1>8 DEF QuoteInv

LEMMA AnswerNobodyInv ==
    QuoteInv /\ AnswerNobody /\ UNCHANGED question => QuoteInv'
BY DEF QuoteInv, AnswerNobody, QuoteTypeOK, AnswerRow, QuotesInOrder

LEMMA AnswerPriceInv ==
    QuoteInv /\ AnswerPrice /\ UNCHANGED question => QuoteInv'
<1> SUFFICES ASSUME QuoteInv, AnswerPrice, UNCHANGED question
             PROVE  QuoteInv'
    OBVIOUS
<1>1. PICK q : q = question
    OBVIOUS
<1>2. q \in PriceQuestion
    BY <1>1 DEF QuoteInv, AnswerPrice, HoursQuestion
<1>3. PICK n \in Nat : q.offers \in [1 .. n -> Offer]
    <2>1. PICK n \in 0 .. MaxOffers : q.offers \in [1 .. n -> Offer]
        BY <1>2 DEF PriceQuestion
    <2>2. QED
        BY <2>1, QuoteAssumption
<1>4. PICK I : I = InReach(q.offers)
    OBVIOUS
<1>5. I \in SUBSET (1 .. n) /\ I # {}
    BY <1>1, <1>3, <1>4 DEF InReach, AnswerPrice
<1>6. PICK price, travel : /\ price = AveragePrice(q.offers, I)
                           /\ travel = TravelCharge(q.offers, I)
    OBVIOUS
<1>7. PICK fee \in PlatformFee(q.slabs, price) :
          answer' = [about |-> "price", price |-> price, travel |-> travel,
                     fee |-> fee, total |-> price + travel + fee,
                     first |-> Nearest(q.offers, I)]
    BY <1>1, <1>4, <1>6 DEF AnswerPrice
<1> DEFINE prices == {q.offers[i].price : i \in I}
<1>8. /\ price \in Nat
      /\ \E p \in prices : p <= price
      /\ \E p \in prices : price <= p
    BY <1>3, <1>5, <1>6, AverageBetween
<1>9. travel \in Nat
    BY <1>3, <1>5, <1>6, TravelChargeType
<1>10. q.slabs \in Slabs
    BY <1>2 DEF PriceQuestion
<1>11. fee \in Nat
    BY <1>7, <1>8, <1>10, FeeType
<1>12. Nearest(q.offers, I) \in Nat
    <2>1. Nearest(q.offers, I) \in I
        BY <1>3, <1>5, NearestExists
    <2>2. I \in SUBSET Nat
        BY <1>3, <1>5
    <2>3. QED
        BY <2>1, <2>2
<1>13. QuoteTypeOK'
    BY <1>7, <1>8, <1>9, <1>11, <1>12 DEF QuoteTypeOK, AnswerRow
<1> DEFINE bases == {price, price + travel}
<1>14. ASSUME NEW base \in bases, NEW r \in Documented(q.slabs, base)
       PROVE  Applicable(q.slabs, base) = {r}
    <2>1. base \in Nat
        BY <1>8, <1>9
    <2>2. QED
        BY <1>10, <1>14, <2>1, DocumentedApplies
<1>15. \E base \in bases : fee \in PlatformFee(q.slabs, base)
    BY <1>7
<1>16. QuotesInOrder'
    <2>1. /\ answer'.about = "price" /\ answer'.price = price
          /\ answer'.travel = travel /\ answer'.fee = fee
        BY <1>7
    <2>2. question' = q
        BY <1>1
    <2>3. QED
        BY <1>4, <1>8, <1>14, <1>15, <2>1, <2>2 DEF QuotesInOrder
<1>17. QED
    BY <1>13, <1>16 DEF QuoteInv

LEMMA QuoteNextInv == QuoteInv /\ [QuoteNext]_quoteVars => QuoteInv'
<1>1. QuoteInv /\ UNCHANGED quoteVars => QuoteInv'
    BY DEF QuoteInv, quoteVars, QuoteTypeOK, QuotesInOrder
<1>2. QED
    BY <1>1, AnswerHoursInv, AnswerNobodyInv, AnswerPriceInv DEF QuoteNext

(* A provider found free has the time, an average price lies between the   *)
(* cheapest and the dearest, and the slab that the comment names is the one *)
(* that applies, for a day of any length, any number of slots, bookings,    *)
(* candidates and slabs, and any prices.                                    *)
THEOREM QuotesInOrderCorrect == QuoteSpec => []QuotesInOrder
<1>1. QuoteInv => QuotesInOrder
    BY DEF QuoteInv
<1>2. QED
    BY <1>1, QuoteInitInv, QuoteNextInv, PTL DEF QuoteSpec

(* An answer is one of the four kinds; the amounts of a quote are natural  *)
(* numbers and its first candidate has a number.                           *)
THEOREM QuoteTypeCorrect == QuoteSpec => []QuoteTypeOK
<1>1. QuoteInv => QuoteTypeOK
    BY DEF QuoteInv
<1>2. QED
    BY <1>1, QuoteInitInv, QuoteNextInv, PTL DEF QuoteSpec

-------------------------------------------------------------------------------
(* The instance.  Its components share no variable, so each keeps its own  *)
(* invariant, in its own steps and in those of the others; a question is   *)
(* put only where quotes are the part that was chosen.                     *)
MoneyInv ==
    /\ Sound /\ CoinsAccounted
    /\ LedgerInv
    /\ part = "quote" => QuoteInv

LEMMA MoneyStep ==
    [Next]_vars => /\ [PaymentsNext]_paymentVars
                   /\ [LedgerNext]_ledgerVars
                   /\ part' = part
                   /\ part = "quote" => [QuoteNext]_quoteVars
<1>1. ASSUME UNCHANGED vars
      PROVE  UNCHANGED paymentVars /\ UNCHANGED ledgerVars /\ UNCHANGED quoteVars
                /\ part' = part
    BY <1>1, Zenon DEF vars
<1>2. ASSUME Next
      PROVE  /\ [PaymentsNext]_paymentVars
             /\ [LedgerNext]_ledgerVars
             /\ part' = part
             /\ part = "quote" => [QuoteNext]_quoteVars
    BY <1>2, Zenon DEF Next
<1>3. QED
    BY <1>1, <1>2, Zenon

(* Whatever component runs, its rows, its requests in flight and its       *)
(* answers are what the code can make of them, for all values of the       *)
(* constants.                                                              *)
THEOREM MoneyTypeCorrect == Spec => []TypeOK
<1>1. Init => MoneyInv
    BY InitSound, LedgerInitInv, QuoteInitInv DEF Init, MoneyInv
<1>2. MoneyInv /\ [Next]_vars => MoneyInv'
    <2>1. Sound /\ CoinsAccounted /\ [PaymentsNext]_paymentVars => Sound' /\ CoinsAccounted'
        BY StepSound
    <2>2. QED
        BY <2>1, MoneyStep, LedgerNextInv, QuoteNextInv, Zenon DEF MoneyInv
<1>3. MoneyInv => TypeOK
    BY DEF MoneyInv, TypeOK, Sound, LedgerInv, QuoteInv
<1>4. QED
    BY <1>1, <1>2, <1>3, PTL DEF Spec
===============================================================================
