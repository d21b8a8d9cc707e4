-------------------------------- MODULE Ledger --------------------------------
(***************************************************************************)
(* The accounts of the platform and the businesses: finance/services.py    *)
(* and payouts/services.py.                                                *)
(*                                                                         *)
(* What is earned is posted to the pending balance of an account, released *)
(* to the available balance when the service is completed, and paid out    *)
(* from there.  Postings and releases read the row of the account without  *)
(* locking it and save all its columns; a payout locks it.                 *)
(*                                                                         *)
(* The service functions are modelled as they stand.  In production only   *)
(* process_successful_payment posts, whose transaction fails (Payments),   *)
(* and nothing releases; the tests call both.                              *)
(***************************************************************************)
EXTENDS Integers

CONSTANTS
    Holder,         \* the businesses; or the platform, which withdraws nothing
    Account,        \* the FinanceAccounts that may be created
    MaxPosted,      \* bound of the model: the sum of an account's entries
    LedgerWorker,   \* the requests in flight at a time
    Nobody

ASSUME LedgerAssumption ==
    /\ MaxPosted \in Nat
    /\ Nobody \notin Holder \cup Account

VARIABLES
    account,    \* the FinanceAccounts
    posted,     \* the sum of the LedgerEntries of each
    ledgerJob,  \* the request each worker is handling
    mixed       \* history: the accounts saved as they were before another save

ledgerVars == <<account, posted, ledgerJob, mixed>>
-------------------------------------------------------------------------------
AccountOf == [holder    : Holder \cup {Nobody},
              pending   : Int,
              available : Int,
              earned    : Int,      \* lifetime_earned
              withdrawn : Int]      \* lifetime_withdrawn

Unopened == [holder |-> Nobody, pending |-> 0, available |-> 0, earned |-> 0,
             withdrawn |-> 0]
LedgerIdle == [step |-> "idle", holder |-> Nobody, account |-> Nobody,
               row |-> Unopened, amount |-> 0]

LedgerInit ==
    /\ account = [a \in Account |-> Unopened]
    /\ posted = [a \in Account |-> 0]
    /\ ledgerJob = [w \in LedgerWorker |-> LedgerIdle]
    /\ mixed = {}
-------------------------------------------------------------------------------
AccountsOf(h) == {a \in Account : account[a].holder = h}

LedgerAt(w, step) == ledgerJob[w].step = step
LedgerBegin(w, step, h, a, n) ==
    /\ LedgerAt(w, "idle")
    /\ ledgerJob' = [ledgerJob EXCEPT ![w] =
          [step |-> step, holder |-> h, account |-> a, amount |-> n,
           row |-> IF a = Nobody THEN [Unopened EXCEPT !.holder = h] ELSE account[a]]]
    /\ UNCHANGED <<account, posted, mixed>>
LedgerReturn(w) == ledgerJob' = [ledgerJob EXCEPT ![w] = LedgerIdle]

(* The account a payout holds with select_for_update.                      *)
Held(a) == \E w \in LedgerWorker : LedgerAt(w, "settle") /\ ledgerJob[w].account = a

(* _get_or_create_..._account: nothing keeps two requests from creating an *)
(* account each, and with two of them get() fails.                         *)
GetOrCreate(h, a) ==
    \/ AccountsOf(h) = {} /\ a = Nobody
    \/ AccountsOf(h) = {a}

(* save() of an account that was read as row; the insert of a new one.     *)
Written(w, a) ==
    \/ ledgerJob[w].account = a
    \/ ledgerJob[w].account = Nobody /\ account[a] = Unopened

Mixed(w, a) ==
    IF account[a] \notin {ledgerJob[w].row, Unopened} THEN mixed \cup {a} ELSE mixed

(* Fault: a debit may be posted.                                           *)
PositiveOrDebit(n) == n # 0

Positive(n) == n > 0
-------------------------------------------------------------------------------
(* add_pending_funds.                                                      *)
PostRead(w, h, n) ==
    /\ Positive(n)
    /\ \E a \in Account \cup {Nobody} :
          GetOrCreate(h, a) /\ LedgerBegin(w, "post", h, a, n)

Posted(row, n) == [row EXCEPT !.pending = @ + n, !.earned = @ + n]

PostSave(w, a) ==
    LET n == ledgerJob[w].amount IN
    /\ LedgerAt(w, "post")
    /\ Written(w, a) /\ ~Held(a)
    /\ posted[a] + n <= MaxPosted
    /\ account' = [account EXCEPT ![a] = Posted(ledgerJob[w].row, n)]
    /\ posted' = [posted EXCEPT ![a] = @ + n]
    /\ mixed' = Mixed(w, a)
    /\ LedgerReturn(w)

(* release_pending_to_available; its entry has the amount 0.               *)
ReleaseRead(w, h, n) ==
    /\ Positive(n)
    /\ \E a \in AccountsOf(h) :
          /\ GetOrCreate(h, a)
          /\ account[a].pending >= n
          /\ LedgerBegin(w, "release", h, a, n)

Released(row, n) == [row EXCEPT !.pending = @ - n, !.available = @ + n]

ReleaseSave(w, a) ==
    LET n == ledgerJob[w].amount IN
    /\ LedgerAt(w, "release")
    /\ Written(w, a) /\ ~Held(a)
    /\ account' = [account EXCEPT ![a] = Released(ledgerJob[w].row, n)]
    /\ mixed' = Mixed(w, a)
    /\ LedgerReturn(w)
    /\ UNCHANGED posted
-------------------------------------------------------------------------------
(* get_eligible_payout_amount: 70 %, ROUND_HALF_EVEN.                      *)
Eligible(available) ==
    LET n == (7 * available) \div 10
        rest == (7 * available) % 10
    IN  IF rest > 5 \/ (rest = 5 /\ n % 2 = 1) THEN n + 1 ELSE n

(* request_payout: the amount is compared with the balance before the row  *)
(* is locked.  Payouts are never stored, so the limit of two emergency     *)
(* payouts a month is never reached.                                       *)
PayoutRead(w, h, a, n) ==
    /\ a \in AccountsOf(h)
    /\ Positive(n)
    /\ n <= Eligible(account[a].available)
    /\ LedgerBegin(w, "lock", h, a, n)

PayoutLock(w) ==
    LET a == ledgerJob[w].account IN
    /\ LedgerAt(w, "lock")
    /\ ~Held(a)
    /\ ledgerJob' = [ledgerJob EXCEPT ![w].step = "settle", ![w].row = account[a]]
    /\ UNCHANGED <<account, posted, mixed>>

(* The row is debited, and the payout created; then the debit is to be     *)
(* posted as a negative amount, for which add_pending_funds raises a       *)
(* ValueError, and everything is rolled back.                              *)
PayoutSettle(w) ==
    LET a == ledgerJob[w].account
        n == ledgerJob[w].amount
        debited == [ledgerJob[w].row EXCEPT !.available = @ - n, !.withdrawn = @ + n] IN
    /\ LedgerAt(w, "settle")
    /\ LedgerReturn(w)
    /\ IF Positive(-n)
       THEN /\ account' = [account EXCEPT ![a] = Posted(debited, -n)]
            /\ posted' = [posted EXCEPT ![a] = @ - n]
       ELSE UNCHANGED <<account, posted>>
    /\ UNCHANGED mixed

LedgerAbort(w) ==
    /\ ~LedgerAt(w, "idle")
    /\ LedgerReturn(w)
    /\ UNCHANGED <<account, posted, mixed>>

LedgerRequest(w) ==
    \/ \E h \in Holder, n \in 1 .. MaxPosted : PostRead(w, h, n) \/ ReleaseRead(w, h, n)
    \/ \E a \in Account : PostSave(w, a) \/ ReleaseSave(w, a)
    \/ \E h \in Holder, a \in Account, n \in 1 .. MaxPosted : PayoutRead(w, h, a, n)
    \/ PayoutLock(w)
    \/ PayoutSettle(w)
    \/ LedgerAbort(w)

LedgerNext == \E w \in LedgerWorker : LedgerRequest(w)

LedgerSpec == LedgerInit /\ [][LedgerNext]_ledgerVars
-------------------------------------------------------------------------------
(* Properties.                                                             *)

LedgerJob == [step    : {"idle", "post", "release", "lock", "settle"},
              holder  : Holder \cup {Nobody},
              account : Account \cup {Nobody},
              row     : AccountOf,
              amount  : Nat]

LedgerTypeOK ==
    /\ account \in [Account -> AccountOf]
    /\ posted \in [Account -> Int]
    /\ ledgerJob \in [LedgerWorker -> LedgerJob]
    /\ mixed \subseteq Account

(* Whatever requests race, the balances of an account are not negative and *)
(* make up what was earned and not withdrawn, and no payout commits an     *)
(* amount twice; and what was earned is what was posted, unless a posting  *)
(* or a release saved the row as it was before another one.                *)
AccountsBalanced ==
    \A a \in Account :
        LET row == account[a] IN
        /\ row.pending >= 0 /\ row.available >= 0
        /\ row.pending + row.available = row.earned - row.withdrawn
        /\ row.earned = posted[a] \/ a \in mixed
===============================================================================
