------------------------------ MODULE MCPayments ------------------------------
(* Instances of Payments, Ledger and InstantQuote for TLC.  They share no  *)
(* variable: a behaviour is one of one of them, chosen at the start.       *)
EXTENDS Payments, Ledger, InstantQuote, TLC

CONSTANTS k1, i1, i2, i3, o1, o2, p1, p2, w1, w2,
          h1, a1, a2,           \* a business and its accounts
          Parts                 \* the components to choose from

VARIABLE part

vars == <<paymentVars, ledgerVars, quoteVars, part>>
-------------------------------------------------------------------------------
(* The gateway takes a payment only while no request is under way: a       *)
(* capture changes nothing that a request reads.                           *)
CaptureWhenQuiet == captured = {} \/ \A w \in PayWorker : PayAt(w, "idle")

(* Where two bills or orders were requested at a time there are two bills  *)
(* in all.                                                                 *)
DoubledIsSmall == doubled = {} \/ \E i \in Bill : bill[i].status = "ABSENT"

Symmetry ==
    Permutations(Bill) \cup Permutations(Order) \cup Permutations(Payer)
        \cup Permutations(PayWorker)
-------------------------------------------------------------------------------
Init ==
    /\ PaymentsInit
    /\ LedgerInit
    /\ part \in Parts
    /\ IF part = "quote" THEN QuoteInit
       ELSE question = [about |-> "nothing"] /\ answer = [about |-> "nothing"]

Next ==
    \/ /\ part = "payments"
       /\ PaymentsNext
       /\ UNCHANGED <<ledgerVars, quoteVars, part>>
    \/ /\ part = "ledger"
       /\ LedgerNext
       /\ UNCHANGED <<paymentVars, quoteVars, part>>
    \/ /\ part = "quote"
       /\ QuoteNext
       /\ UNCHANGED <<paymentVars, ledgerVars, part>>

Spec == Init /\ [][Next]_vars

(* Type correctness of the components: the rows, the requests in flight    *)
(* and the answers are what the code can make of them.                     *)
TypeOK ==
    /\ part = "payments" => PaymentsTypeOK
    /\ part = "ledger" => LedgerTypeOK
    /\ part = "quote" => QuoteTypeOK
===============================================================================
