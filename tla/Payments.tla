------------------------------- MODULE Payments -------------------------------
(***************************************************************************)
(* Bills, payment orders and reserved coins: billing/services.py and       *)
(* views.py, payments/services.py and views.py, fix_coins/services.py.     *)
(*                                                                         *)
(* The business drafts the bill of a booking and confirms it.  The         *)
(* customer may adjust it, which makes a new version with a tip or with    *)
(* coins redeemed.  To pay a bill an order is created at the gateway and   *)
(* the coins are reserved; the gateway calls back when a payment failed or *)
(* was captured, more than once and in any order.                          *)
(*                                                                         *)
(* create_draft and adjust lock the row of the bill (select_for_update)    *)
(* and write it in the same transaction; confirm and create_order act on   *)
(* the row as they read it.  The callbacks lock the row of the order, and  *)
(* the coin operations the row of the wallet, until they commit, and read  *)
(* nothing else that changes: each is one step.                            *)
(*                                                                         *)
(* A redemption is a unit of coins, whatever its size.                     *)
(***************************************************************************)
EXTENDS Integers, FiniteSets

CONSTANTS
    Booking,    \* the bookings to be billed
    Bill,       \* the billing records that may be created
    Order,      \* the payment orders that may be created
    Payer,      \* the customer, and the administrators who may pay for him
    Bonus,      \* signup_bonus_coins, in redemptions
    MaxAmount,  \* bound of the model: the largest charge
    PayWorker,     \* the requests in flight at a time
    NoneYet

ASSUME PaymentsAssumption ==
    /\ IsFiniteSet(Order)
    /\ Bonus \in Nat
    /\ MaxAmount \in Nat
    /\ NoneYet \notin Booking \cup Bill \cup Payer

VARIABLES
    bill,       \* the BillingRecords
    order,      \* the PaymentOrders
    available,  \* FixCoinWallet.available_coins
    reserved,   \* FixCoinWallet.reserved_coins
    granted,    \* the payers with a SIGNUP_BONUS transaction
    captured,   \* the orders paid at the gateway
    notified,   \* those of them whose callback was answered "ok"
    payJob,        \* the request each worker is handling
    late,       \* history: the first versions of the bills of which an
                \* adjusted version was finalised again by a late confirm
    doubled     \* history: the bookings of which two first bills, and the
                \* bills of which two orders, were requested at a time

wallets == <<available, reserved, granted>>
gateway == <<captured, notified>>
paymentVars == <<bill, order, wallets, gateway, payJob, late, doubled>>

-------------------------------------------------------------------------------
(* root: the first version of the bill; coins: a redemption is part of it; *)
(* amount: the charges of the business.                                    *)
BillRow == [status  : {"ABSENT", "DRAFT", "FINALIZED", "ADJUSTED"},
            booking : Booking \cup {NoneYet},
            root    : Bill \cup {NoneYet},
            amount  : 0 .. MaxAmount,
            coins   : BOOLEAN]

OrderRow == [status : {"ABSENT", "CREATED", "PAID", "FAILED"},
             bill   : Bill \cup {NoneYet},
             payer  : Payer \cup {NoneYet}]

PayJob == [step    : {"idle", "insert", "merge", "finalize", "adjust", "order"},
        booking : Booking \cup {NoneYet},
        bill    : Bill \cup {NoneYet},
        payer   : Payer \cup {NoneYet}]

NoBill == [status |-> "ABSENT", booking |-> NoneYet, root |-> NoneYet, amount |-> 0,
           coins |-> FALSE]
NoOrder == [status |-> "ABSENT", bill |-> NoneYet, payer |-> NoneYet]
PayIdle == [step |-> "idle", booking |-> NoneYet, bill |-> NoneYet, payer |-> NoneYet]

PaymentsTypeOK ==
    /\ bill \in [Bill -> BillRow]
    /\ order \in [Order -> OrderRow]
    /\ available \in [Payer -> Nat]
    /\ reserved \in [Payer -> Nat]
    /\ granted \subseteq Payer
    /\ notified \subseteq captured
    /\ captured \subseteq Order
    /\ payJob \in [PayWorker -> PayJob]
    /\ late \subseteq Bill
    /\ doubled \subseteq Booking \cup Bill

PaymentsInit ==
    /\ bill = [i \in Bill |-> NoBill]
    /\ order = [o \in Order |-> NoOrder]
    /\ available = [p \in Payer |-> 0]
    /\ reserved = [p \in Payer |-> 0]
    /\ granted = {}
    /\ captured = {}
    /\ notified = {}
    /\ payJob = [w \in PayWorker |-> PayIdle]
    /\ late = {}
    /\ doubled = {}

-------------------------------------------------------------------------------
PayAt(w, step) == payJob[w].step = step
PayBegin(w, step, k, i, p) ==
    /\ PayAt(w, "idle")
    /\ payJob' = [payJob EXCEPT ![w] =
          [step |-> step, booking |-> k, bill |-> i, payer |-> p]]
    /\ doubled' = IF /\ step \in {"insert", "order"}
                     /\ \E v \in PayWorker :
                           PayAt(v, step) /\ payJob[v].booking = k /\ payJob[v].bill = i
                  THEN doubled \cup ({k, i} \ {NoneYet}) ELSE doubled
    /\ UNCHANGED <<bill, order, wallets, gateway, late>>
PayReturn(w) == payJob' = [payJob EXCEPT ![w] = PayIdle]

(* Fault: create_draft reads the draft without FOR UPDATE.                 *)
BillLockedAdjust(i) == \E w \in PayWorker : PayAt(w, "adjust") /\ payJob[w].bill = i

(* The requests that hold the row lock of a bill.                          *)
BillLocked(i) ==
    \E w \in PayWorker : payJob[w].step \in {"merge", "adjust"} /\ payJob[w].bill = i

-------------------------------------------------------------------------------
(* create_draft.  Without any bill of the booking a first one is inserted; *)
(* nothing keeps another request from doing the same, as MySQL has no      *)
(* conditional unique constraints.                                         *)

DraftCheck(w, k) ==
    /\ \A i \in Bill : bill[i].booking # k
    /\ PayBegin(w, "insert", k, NoneYet, NoneYet)

DraftInsert(w, i, amount) ==
    /\ PayAt(w, "insert")
    /\ bill[i].status = "ABSENT"
    /\ bill' = [bill EXCEPT ![i] =
          [status |-> "DRAFT", booking |-> payJob[w].booking, root |-> i,
           amount |-> amount, coins |-> FALSE]]
    /\ PayReturn(w)
    /\ UNCHANGED <<order, wallets, gateway, late, doubled>>

(* A draft is locked, recalculated and saved, all its columns.             *)
DraftLock(w, i) ==
    /\ bill[i].status = "DRAFT"
    /\ ~BillLocked(i)
    /\ PayBegin(w, "merge", NoneYet, i, NoneYet)

DraftMerge(w, amount) ==
    /\ PayAt(w, "merge")
    /\ bill' = [bill EXCEPT ![payJob[w].bill].status = "DRAFT",
                            ![payJob[w].bill].amount = amount]
    /\ PayReturn(w)
    /\ UNCHANGED <<order, wallets, gateway, late, doubled>>

-------------------------------------------------------------------------------
(* confirm: finalize_billing saves the status of the bill read earlier.    *)

ConfirmRead(w, i) ==
    /\ bill[i].status = "DRAFT"
    /\ PayBegin(w, "finalize", NoneYet, i, NoneYet)

ConfirmSave(w) ==
    LET i == payJob[w].bill IN
    /\ PayAt(w, "finalize")
    /\ ~BillLocked(i)
    /\ bill' = [bill EXCEPT ![i].status = "FINALIZED"]
    /\ late' = IF bill[i].status = "ADJUSTED" THEN late \cup {bill[i].root}
                                              ELSE late
    /\ PayReturn(w)
    /\ UNCHANGED <<order, wallets, gateway, doubled>>

-------------------------------------------------------------------------------
(* adjust: the bill is locked and must be final; the new version is        *)
(* finalised at once.                                                      *)

(* Fault: the bill is read without FOR UPDATE.                             *)
AdjustRead(w, i, p) ==
    /\ bill[i].status = "FINALIZED"
    /\ PayBegin(w, "adjust", NoneYet, i, p)

AdjustLock(w, i, p) ==
    /\ bill[i].status = "FINALIZED"
    /\ ~BillLocked(i)
    /\ PayBegin(w, "adjust", NoneYet, i, p)

(* validate_redemption looks at the balance of whoever sends the request,  *)
(* and reserves nothing.  The charges are carried forward, a redemption of *)
(* the earlier version is not.                                             *)
AdjustCommit(w, j, coins) ==
    LET i == payJob[w].bill IN
    /\ PayAt(w, "adjust")
    /\ bill[j].status = "ABSENT"
    /\ coins => available[payJob[w].payer] > 0
    /\ bill' = [bill EXCEPT
          ![i].status = "ADJUSTED",
          ![j] = [bill[i] EXCEPT !.status = "FINALIZED", !.coins = coins]]
    /\ PayReturn(w)
    /\ UNCHANGED <<order, wallets, gateway, late, doubled>>

-------------------------------------------------------------------------------
(* create_payment_order: the bill is final and has no open order when they *)
(* are read; the gateway is called; order and reservation commit together. *)

OrderRead(w, i, p) ==
    /\ bill[i].status = "FINALIZED"
    /\ \A o \in Order : order[o].bill = i => order[o].status # "CREATED"
    /\ PayBegin(w, "order", NoneYet, i, p)

(* Fault: reserve_coins does not compare with the balance.                 *)
OrderCommitUnchecked(w, o) ==
    LET i == payJob[w].bill
        p == payJob[w].payer
        n == IF bill[i].coins THEN 1 ELSE 0 IN
    /\ PayAt(w, "order")
    /\ order[o].status = "ABSENT"
    /\ order' = [order EXCEPT ![o] =
          [status |-> "CREATED", bill |-> i, payer |-> p]]
    /\ available' = [available EXCEPT ![p] = @ - n]
    /\ reserved' = [reserved EXCEPT ![p] = @ + n]
    /\ PayReturn(w)
    /\ UNCHANGED <<bill, granted, gateway, late, doubled>>

OrderCommit(w, o) ==
    LET i == payJob[w].bill
        p == payJob[w].payer
        n == IF bill[i].coins THEN 1 ELSE 0 IN
    /\ PayAt(w, "order")
    /\ order[o].status = "ABSENT"
    /\ n <= available[p]
    /\ order' = [order EXCEPT ![o] =
          [status |-> "CREATED", bill |-> i, payer |-> p]]
    /\ available' = [available EXCEPT ![p] = @ - n]
    /\ reserved' = [reserved EXCEPT ![p] = @ + n]
    /\ PayReturn(w)
    /\ UNCHANGED <<bill, granted, gateway, late, doubled>>

-------------------------------------------------------------------------------
(* The gateway and its callbacks.  An attempt to pay may fail and the next *)
(* one succeed, and a callback may be late.                                *)

Capture(o) ==
    /\ order[o].status # "ABSENT"
    /\ captured' = captured \cup {o}
    /\ UNCHANGED <<bill, order, wallets, notified, payJob, late, doubled>>

(* Fault: a failure is processed again when it is delivered again.         *)
FailedCallbackAgain(o) ==
    LET p == order[o].payer
        n == IF bill[order[o].bill].coins THEN 1 ELSE 0 IN
    /\ order[o].status \in {"CREATED", "FAILED"}
    /\ n <= reserved[p]
    /\ order' = [order EXCEPT ![o].status = "FAILED"]
    /\ available' = [available EXCEPT ![p] = @ + n]
    /\ reserved' = [reserved EXCEPT ![p] = @ - n]
    /\ UNCHANGED <<bill, granted, gateway, payJob, late, doubled>>

(* process_failed_payment: the coins are released.                         *)
FailedCallback(o) ==
    LET p == order[o].payer
        n == IF bill[order[o].bill].coins THEN 1 ELSE 0 IN
    /\ order[o].status = "CREATED"
    /\ n <= reserved[p]
    /\ order' = [order EXCEPT ![o].status = "FAILED"]
    /\ available' = [available EXCEPT ![p] = @ + n]
    /\ reserved' = [reserved EXCEPT ![p] = @ - n]
    /\ UNCHANGED <<bill, granted, gateway, payJob, late, doubled>>

(* process_successful_payment marks order and bill as paid and asks for    *)
(* the invoice, which calls customer.get_full_name(): users have no such   *)
(* method.  The exception rolls everything back; the webhook answers "ok". *)
CapturedCallback(o) ==
    /\ o \in captured
    /\ notified' = notified \cup {o}
    /\ UNCHANGED <<bill, order, wallets, captured, payJob, late, doubled>>

-------------------------------------------------------------------------------
(* grant_signup_bonus, called by every way to verify a signup.             *)
GrantBonus(p) ==
    /\ p \notin granted
    /\ available' = [available EXCEPT ![p] = @ + Bonus]
    /\ granted' = granted \cup {p}
    /\ UNCHANGED <<bill, order, reserved, gateway, payJob, late, doubled>>

(* The request is refused or fails, or its worker is killed.               *)
PayAbort(w) ==
    /\ ~PayAt(w, "idle")
    /\ PayReturn(w)
    /\ UNCHANGED <<bill, order, wallets, gateway, late, doubled>>

PayRequest(w) ==
    \/ \E k \in Booking : DraftCheck(w, k)
    \/ \E i \in Bill, amount \in 0 .. MaxAmount : DraftInsert(w, i, amount)
    \/ \E i \in Bill : DraftLock(w, i)
    \/ \E amount \in 0 .. MaxAmount : DraftMerge(w, amount)
    \/ \E i \in Bill : ConfirmRead(w, i)
    \/ ConfirmSave(w)
    \/ \E i \in Bill, p \in Payer : AdjustLock(w, i, p)
    \/ \E j \in Bill, coins \in BOOLEAN : AdjustCommit(w, j, coins)
    \/ \E i \in Bill, p \in Payer : OrderRead(w, i, p)
    \/ \E o \in Order : OrderCommit(w, o)
    \/ PayAbort(w)

PaymentsNext ==
    \/ \E w \in PayWorker : PayRequest(w)
    \/ \E o \in Order : Capture(o) \/ FailedCallback(o) \/ CapturedCallback(o)
    \/ \E p \in Payer : GrantBonus(p)

PaymentsSpec == PaymentsInit /\ [][PaymentsNext]_paymentVars

-------------------------------------------------------------------------------
(* Properties.                                                             *)

(* The coins a wallet has reserved are those of its open orders, however   *)
(* often the gateway calls, and none are made or lost.                     *)
HoldsCoins(o, p) ==
    /\ order[o].status = "CREATED"
    /\ order[o].payer = p
    /\ bill[order[o].bill].coins

CoinsAccounted ==
    \A p \in Payer :
        /\ reserved[p] = Cardinality({o \in Order : HoldsCoins(o, p)})
        /\ available[p] + reserved[p] = IF p \in granted THEN Bonus ELSE 0

(* "Once finalized, the core amounts should not change": what is confirmed *)
(* or adjusted is never recalculated, nor becomes a draft again.           *)
FinalizedFrozen ==
    [][\A i \in Bill :
        bill[i].status \in {"FINALIZED", "ADJUSTED"} =>
            /\ bill'[i].status \in {"FINALIZED", "ADJUSTED"}
            /\ bill'[i].amount = bill[i].amount
            /\ bill'[i].coins = bill[i].coins]_paymentVars

(* What can be paid of a booking.  It has one bill, unless two first ones  *)
(* were requested at a time; of the versions of a bill one can be paid,    *)
(* unless a confirm that had read the draft came after an adjustment; and  *)
(* of the open orders of a booking one is for the version that can be      *)
(* paid, unless two were requested at a time.  An order made for a version *)
(* that was adjusted since is not closed: it may be open beside that one.  *)
OneBill ==
    \A i, j \in Bill :
        /\ bill[i].status # "ABSENT" /\ bill[j].status # "ABSENT"
        /\ bill[i].booking = bill[j].booking
        => bill[i].root = bill[j].root \/ bill[i].booking \in doubled

OneVersion ==
    \A i, j \in Bill :
        /\ bill[i].status = "FINALIZED" /\ bill[j].status = "FINALIZED"
        /\ bill[i].root = bill[j].root
        => i = j \/ bill[i].root \in late

OneOrder ==
    \A o, q \in Order :
        /\ order[o].status = "CREATED" /\ order[q].status = "CREATED"
        /\ bill[order[o].bill].booking = bill[order[q].bill].booking
        => LET i == order[o].bill
               j == order[q].bill IN
           \/ o = q
           \/ i = j /\ i \in doubled
           \/ i # j /\ \/ "ADJUSTED" \in {bill[i].status, bill[j].status}
                       \/ bill[i].root \in late
                       \/ bill[i].booking \in doubled

OnePayable == OneBill /\ OneVersion /\ OneOrder

-------------------------------------------------------------------------------
(* A claim of the documentation that the code does not keep.               *)

(* "On successful webhook capture, the PaymentTransaction is logged": the  *)
(* order of an acknowledged capture is paid.                               *)
CapturedIsPaid == \A o \in notified : order[o].status = "PAID"
===============================================================================
