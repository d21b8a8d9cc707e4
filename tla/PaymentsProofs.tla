---------------------------- MODULE PaymentsProofs ----------------------------
(* Proofs about Payments, for any number of bookings, bills, orders,       *)
(* payers and requests.                                                    *)
(*                                                                         *)
(* A bill only ever advances: its row, once there, keeps its root, and     *)
(* once it is final its amounts.  This rests on the row locks of drafting  *)
(* and adjusting; the coins of an open order rest on it in turn.           *)
EXTENDS Payments, FiniteSetTheorems, TLAPS

USE PaymentsAssumption

Final == {"FINALIZED", "ADJUSTED"}
Locking == {"merge", "adjust"}

Present(i) == bill[i].status # "ABSENT"

(* The first version of a bill is present, and a draft has no other.       *)
BillSound(i) ==
    /\ Present(i) => bill[i].root \in Bill /\ Present(bill[i].root)
    /\ bill[i].status = "DRAFT" =>
          /\ bill[i].root = i
          /\ \A j \in Bill : Present(j) /\ bill[j].root = i => j = i

OrderSound(o) ==
    order[o].status # "ABSENT" =>
        /\ order[o].bill \in Bill
        /\ order[o].payer \in Payer
        /\ bill[order[o].bill].status \in Final

JobSound(w) ==
    LET j == payJob[w] IN
    /\ j.step = "insert" => j.booking \in Booking /\ j.bill = NoneYet
    /\ j.step \in {"merge", "finalize", "adjust", "order"} =>
          j.bill \in Bill /\ Present(j.bill)
    /\ j.step = "merge" => bill[j.bill].status = "DRAFT"
    /\ j.step = "adjust" => bill[j.bill].status = "FINALIZED"
    /\ j.step = "order" => bill[j.bill].status \in Final /\ j.booking = NoneYet
    /\ j.step \in {"adjust", "order"} => j.payer \in Payer

Exclusive ==
    \A v, w \in PayWorker :
        /\ payJob[v].step \in Locking /\ payJob[w].step \in Locking
        /\ payJob[v].bill = payJob[w].bill
        => v = w

Sound ==
    /\ PaymentsTypeOK
    /\ \A i \in Bill : BillSound(i)
    /\ OneVersion
    /\ \A o \in Order : OrderSound(o)
    /\ \A w \in PayWorker : JobSound(w)
    /\ Exclusive

(* What every step may do to the bills.                                    *)
Advances ==
    \A i \in Bill : Present(i) =>
        /\ Present(i)'
        /\ bill'[i].root = bill[i].root
        /\ bill'[i].booking = bill[i].booking
        /\ bill[i].status \in Final =>
              /\ bill'[i].status \in Final
              /\ bill'[i].amount = bill[i].amount
              /\ bill'[i].coins = bill[i].coins

-------------------------------------------------------------------------------
(* Rows.                                                                   *)

LEMMA EmptyRows ==
    /\ NoBill \in BillRow /\ NoBill.status = "ABSENT"
    /\ NoOrder \in OrderRow /\ NoOrder.status = "ABSENT"
    /\ PayIdle \in PayJob /\ PayIdle.step = "idle"
BY DEF NoBill, BillRow, NoOrder, OrderRow, PayIdle, PayJob

LEMMA InitSound == PaymentsInit => Sound /\ CoinsAccounted
<1>. SUFFICES ASSUME PaymentsInit PROVE Sound /\ CoinsAccounted
  OBVIOUS
<1>1. PaymentsTypeOK
  BY EmptyRows DEF PaymentsInit, PaymentsTypeOK
<1>2. \A i \in Bill : BillSound(i)
  BY EmptyRows DEF PaymentsInit, BillSound, Present
<1>3. OneVersion
  BY EmptyRows DEF PaymentsInit, OneVersion
<1>4. \A o \in Order : OrderSound(o)
  BY EmptyRows DEF PaymentsInit, OrderSound
<1>5. (\A w \in PayWorker : JobSound(w)) /\ Exclusive
  BY EmptyRows DEF PaymentsInit, JobSound, Exclusive, Locking
<1>6. CoinsAccounted
  <2>1. \A p \in Payer : {o \in Order : HoldsCoins(o, p)} = {}
    BY EmptyRows DEF PaymentsInit, HoldsCoins
  <2>2. QED
    BY <2>1, FS_EmptySet DEF PaymentsInit, CoinsAccounted
<1>7. QED
  BY <1>1, <1>2, <1>3, <1>4, <1>5, <1>6 DEF Sound

-------------------------------------------------------------------------------
(* Requests.                                                               *)

(* A request begins, with the lock of its bill if it locks one.            *)
LEMMA BeginSound ==
    ASSUME Sound, NEW w \in PayWorker,
           NEW step \in {"insert", "merge", "finalize", "adjust", "order"},
           NEW k \in Booking \cup {NoneYet}, NEW i \in Bill \cup {NoneYet},
           NEW p \in Payer \cup {NoneYet},
           PayBegin(w, step, k, i, p),
           step = "insert" => k \in Booking /\ i = NoneYet,
           step = "order" => k = NoneYet,
           step # "insert" => i \in Bill /\ Present(i),
           step = "merge" => bill[i].status = "DRAFT",
           step = "adjust" => bill[i].status = "FINALIZED",
           step = "order" => bill[i].status \in Final,
           step \in {"adjust", "order"} => p \in Payer,
           step \in Locking => ~BillLocked(i)
    PROVE  Sound' /\ Advances
<1>. DEFINE job == [step |-> step, booking |-> k, bill |-> i, payer |-> p]
<1>1. job \in PayJob
  BY DEF PayJob
<1>2. payJob' = [payJob EXCEPT ![w] = job]
  BY DEF PayBegin
<1>3. /\ UNCHANGED <<bill, order, wallets, gateway, late>>
      /\ doubled' \subseteq Booking \cup Bill
  BY DEF PayBegin, Sound, PaymentsTypeOK
<1>4. payJob \in [PayWorker -> PayJob]
  BY DEF Sound, PaymentsTypeOK
<1>5. payJob'[w] = job /\ \A v \in PayWorker \ {w} : payJob'[v] = payJob[v]
  BY <1>2, <1>4
<1>6. PaymentsTypeOK'
  BY <1>1, <1>2, <1>3 DEF Sound, PaymentsTypeOK, wallets, gateway
<1>7. (\A c \in Bill : BillSound(c))' /\ OneVersion' /\ (\A o \in Order : OrderSound(o))'
  BY <1>3 DEF Sound, BillSound, Present, OneVersion, OrderSound
<1>8. ASSUME NEW v \in PayWorker PROVE JobSound(v)'
  <2>1. CASE v = w
    BY <1>3, <1>5, <2>1 DEF JobSound, Present
  <2>2. CASE v # w
    BY <1>3, <1>5, <2>2 DEF Sound, JobSound, Present
  <2>3. QED
    BY <2>1, <2>2
<1>9. Exclusive'
  <2>. SUFFICES ASSUME NEW u \in PayWorker, NEW v \in PayWorker,
                       payJob'[u].step \in Locking, payJob'[v].step \in Locking,
                       payJob'[u].bill = payJob'[v].bill
                PROVE  u = v
    BY DEF Exclusive
  <2>1. CASE u # w /\ v # w
    BY <1>5, <2>1 DEF Sound, Exclusive
  <2>2. CASE u = w /\ v # w
    BY <1>5, <2>2 DEF BillLocked, Locking
  <2>3. CASE u # w /\ v = w
    BY <1>5, <2>3 DEF BillLocked, Locking
  <2>4. QED
    BY <2>1, <2>2, <2>3
<1>10. Advances
  BY <1>3 DEF Advances, Present
<1>11. QED
  BY <1>6, <1>7, <1>8, <1>9, <1>10 DEF Sound

(* A request returns, having advanced the bills; the bills that others     *)
(* have locked are as they were.                                           *)
LEMMA ReturnSound ==
    ASSUME Sound, NEW w \in PayWorker, PayReturn(w), Advances,
           \A v \in PayWorker \ {w} :
               payJob[v].step \in Locking =>
                   bill'[payJob[v].bill].status = bill[payJob[v].bill].status
    PROVE  /\ payJob' \in [PayWorker -> PayJob]
           /\ (\A v \in PayWorker : JobSound(v))'
           /\ Exclusive'
<1>1. payJob \in [PayWorker -> PayJob]
  BY DEF Sound, PaymentsTypeOK
<1>2. payJob'[w] = PayIdle /\ \A v \in PayWorker \ {w} : payJob'[v] = payJob[v]
  BY <1>1 DEF PayReturn
<1>3. payJob' \in [PayWorker -> PayJob]
  BY <1>1, EmptyRows DEF PayReturn
<1>4. ASSUME NEW v \in PayWorker PROVE JobSound(v)'
  <2>1. CASE v = w
    BY <1>2, <2>1, EmptyRows DEF JobSound
  <2>2. CASE v # w
    <3>1. JobSound(v) /\ payJob'[v] = payJob[v]
      BY <1>2, <2>2 DEF Sound
    <3>2. QED
      BY <2>2, <3>1 DEF JobSound, Advances, Present, Locking
  <2>3. QED
    BY <2>1, <2>2
<1>5. Exclusive'
  BY <1>2, EmptyRows DEF Sound, Exclusive, Locking
<1>6. QED
  BY <1>3, <1>4, <1>5

LEMMA OrdersKept ==
    ASSUME Sound, Advances, UNCHANGED order
    PROVE  /\ (\A o \in Order : OrderSound(o))'
           /\ \A o \in Order, p \in Payer : HoldsCoins(o, p)' <=> HoldsCoins(o, p)
<1>1. ASSUME NEW o \in Order PROVE OrderSound(o)'
  <2>1. OrderSound(o)
    BY DEF Sound
  <2>2. QED
    BY <2>1 DEF OrderSound, Advances, Present, Final
<1>2. ASSUME NEW o \in Order, NEW p \in Payer PROVE HoldsCoins(o, p)' <=> HoldsCoins(o, p)
  <2>1. order[o].status = "CREATED" =>
            order[o].bill \in Bill /\ bill[order[o].bill].status \in Final
    BY DEF Sound, OrderSound
  <2>2. QED
    BY <2>1 DEF HoldsCoins, Advances, Present, Final
<1>3. QED
  BY <1>1, <1>2

-------------------------------------------------------------------------------
(* The steps that write bills.                                             *)

LEMMA DraftInsertSound ==
    ASSUME Sound, NEW w \in PayWorker, NEW i \in Bill, NEW amount \in 0 .. MaxAmount,
           DraftInsert(w, i, amount)
    PROVE  Sound' /\ Advances
<1>. DEFINE row == [status |-> "DRAFT", booking |-> payJob[w].booking, root |-> i,
                    amount |-> amount, coins |-> FALSE]
<1>1. row \in BillRow
  BY DEF Sound, PaymentsTypeOK, JobSound, DraftInsert, PayAt, BillRow
<1>2. /\ bill' = [bill EXCEPT ![i] = row]
      /\ PayReturn(w)
      /\ UNCHANGED <<order, wallets, gateway, late, doubled>>
      /\ ~Present(i)
  BY DEF DraftInsert, Present
<1>3. bill \in [Bill -> BillRow]
  BY DEF Sound, PaymentsTypeOK
<1>4. bill'[i] = row /\ \A c \in Bill \ {i} : bill'[c] = bill[c]
  BY <1>2, <1>3
<1>5. Advances
  BY <1>2, <1>4 DEF Advances, Present
<1>6. /\ payJob' \in [PayWorker -> PayJob]
      /\ (\A v \in PayWorker : JobSound(v))'
      /\ Exclusive'
  <2>1. \A v \in PayWorker \ {w} :
            payJob[v].step \in Locking => payJob[v].bill \in Bill \ {i}
    BY <1>2 DEF Sound, JobSound, Locking
  <2>2. QED
    BY <1>2, <1>4, <1>5, <2>1, ReturnSound
<1>7. (\A o \in Order : OrderSound(o))'
  BY <1>2, <1>5, OrdersKept
<1>8. ASSUME NEW c \in Bill PROVE BillSound(c)'
  <2>1. \A j \in Bill : Present(j) => bill[j].root \in Bill \ {i}
    BY <1>2 DEF Sound, BillSound
  <2>2. CASE c = i
    BY <1>4, <2>1, <2>2 DEF BillSound, Present
  <2>3. CASE c # i
    <3>1. BillSound(c)
      BY DEF Sound
    <3>2. QED
      BY <1>4, <2>1, <2>3, <3>1 DEF BillSound, Present
  <2>4. QED
    BY <2>2, <2>3
<1>9. OneVersion'
  BY <1>2, <1>4 DEF Sound, OneVersion
<1>10. PaymentsTypeOK'
  BY <1>1, <1>2, <1>3, <1>6 DEF Sound, PaymentsTypeOK, wallets, gateway
<1>11. QED
  BY <1>5, <1>6, <1>7, <1>8, <1>9, <1>10 DEF Sound

LEMMA DraftMergeSound ==
    ASSUME Sound, NEW w \in PayWorker, NEW amount \in 0 .. MaxAmount,
           DraftMerge(w, amount)
    PROVE  Sound' /\ Advances
<1>. DEFINE i == payJob[w].bill
<1>1. /\ i \in Bill /\ bill[i].status = "DRAFT" /\ PayReturn(w)
      /\ UNCHANGED <<order, wallets, gateway, late, doubled>>
  BY DEF Sound, JobSound, DraftMerge, PayAt
<1>2. bill \in [Bill -> BillRow]
  BY DEF Sound, PaymentsTypeOK
<1>. DEFINE m == [bill EXCEPT ![i].status = "DRAFT"]
<1>3. m = bill
  <2>1. [bill[i] EXCEPT !.status = "DRAFT"] = bill[i]
    BY <1>1, <1>2 DEF BillRow
  <2>2. QED
    BY <1>1, <1>2, <2>1
<1>4. bill' = [m EXCEPT ![i].amount = amount]
  BY DEF DraftMerge
<1>. HIDE DEF m
<1>5. /\ bill' \in [Bill -> BillRow]
      /\ \A c \in Bill \ {i} : bill'[c] = bill[c]
      /\ bill'[i].status = "DRAFT" /\ bill'[i].root = bill[i].root
      /\ bill'[i].booking = bill[i].booking
  BY <1>1, <1>2, <1>3, <1>4 DEF BillRow
<1>6. Advances
  BY <1>1, <1>5 DEF Advances, Present, Final
<1>7. \A c \in Bill : bill'[c].status = bill[c].status /\ bill'[c].root = bill[c].root
  BY <1>1, <1>5
<1>. HIDE DEF i
<1>8. /\ payJob' \in [PayWorker -> PayJob]
      /\ (\A v \in PayWorker : JobSound(v))'
      /\ Exclusive'
  <2>1. \A v \in PayWorker : payJob[v].step \in Locking => payJob[v].bill \in Bill
    BY DEF Sound, JobSound, Locking
  <2>2. QED
    BY <1>1, <1>6, <1>7, <2>1, ReturnSound
<1>9. (\A o \in Order : OrderSound(o))'
  BY <1>1, <1>6, OrdersKept
<1>10. (\A c \in Bill : BillSound(c))' /\ OneVersion'
  BY <1>1, <1>7 DEF Sound, BillSound, Present, OneVersion
<1>11. PaymentsTypeOK'
  BY <1>1, <1>5, <1>8 DEF Sound, PaymentsTypeOK, wallets, gateway
<1>12. QED
  BY <1>6, <1>8, <1>9, <1>10, <1>11 DEF Sound

(* A draft has no other versions, so that confirming it leaves one that    *)
(* can be paid; if it had been adjusted, the confirm was late.             *)
LEMMA ConfirmSaveSound ==
    ASSUME Sound, NEW w \in PayWorker, ConfirmSave(w)
    PROVE  Sound' /\ Advances
<1>. DEFINE i == payJob[w].bill
<1>1. /\ i \in Bill /\ Present(i) /\ ~BillLocked(i) /\ PayReturn(w)
      /\ UNCHANGED <<order, wallets, gateway, doubled>>
      /\ bill' = [bill EXCEPT ![i].status = "FINALIZED"]
      /\ late' = IF bill[i].status = "ADJUSTED" THEN late \cup {bill[i].root}
                                                ELSE late
  BY DEF Sound, JobSound, ConfirmSave, PayAt
<1>. HIDE DEF i
<1>2. bill \in [Bill -> BillRow] /\ late \subseteq Bill
  BY DEF Sound, PaymentsTypeOK
<1>3. /\ bill' \in [Bill -> BillRow]
      /\ \A c \in Bill \ {i} : bill'[c] = bill[c]
      /\ bill'[i].status = "FINALIZED" /\ bill'[i].root = bill[i].root
      /\ bill'[i].booking = bill[i].booking
      /\ bill'[i].amount = bill[i].amount /\ bill'[i].coins = bill[i].coins
  BY <1>1, <1>2 DEF BillRow
<1>4. Advances
  BY <1>1, <1>3 DEF Advances, Present, Final
<1>5. /\ payJob' \in [PayWorker -> PayJob]
      /\ (\A v \in PayWorker : JobSound(v))'
      /\ Exclusive'
  <2>1. \A v \in PayWorker :
            payJob[v].step \in Locking => payJob[v].bill \in Bill \ {i}
    BY <1>1 DEF Sound, JobSound, Locking, BillLocked
  <2>2. QED
    BY <1>1, <1>3, <1>4, <2>1, ReturnSound
<1>6. (\A o \in Order : OrderSound(o))'
  BY <1>1, <1>4, OrdersKept
<1>7. ASSUME NEW c \in Bill PROVE BillSound(c)'
  <2>1. BillSound(c)
    BY DEF Sound
  <2>2. \A j \in Bill : (Present(j)' <=> Present(j)) /\ bill'[j].root = bill[j].root
    BY <1>1, <1>3 DEF Present
  <2>3. bill'[c].status = "DRAFT" => bill[c].status = "DRAFT"
    BY <1>3
  <2>4. QED
    BY <2>1, <2>2, <2>3 DEF BillSound
<1>8. OneVersion'
  <2>. SUFFICES ASSUME NEW c \in Bill, NEW d \in Bill, c # d,
                       bill'[c].status = "FINALIZED", bill'[d].status = "FINALIZED",
                       bill'[c].root = bill'[d].root
                PROVE  bill'[c].root \in late'
    BY DEF OneVersion
  <2>1. late \subseteq late' /\ bill[c].root = bill[d].root /\ bill'[c].root = bill[c].root
    BY <1>1, <1>3
  <2>2. CASE bill[i].status = "DRAFT"
    <3>1. bill[i].root = i /\ \A j \in Bill : Present(j) /\ bill[j].root = i => j = i
      BY <1>1, <2>2 DEF Sound, BillSound
    <3>2. c # i /\ d # i
      BY <1>3, <2>1, <3>1 DEF Present
    <3>3. QED
      BY <1>3, <2>1, <3>2 DEF Sound, OneVersion
  <2>3. CASE bill[i].status = "FINALIZED"
    BY <1>3, <2>1, <2>3 DEF Sound, OneVersion
  <2>4. CASE bill[i].status = "ADJUSTED"
    <3>1. bill[i].root \in late'
      BY <1>1, <2>4
    <3>2. CASE c = i \/ d = i
      BY <2>1, <3>1, <3>2
    <3>3. CASE c # i /\ d # i
      BY <1>3, <2>1, <3>3 DEF Sound, OneVersion
    <3>4. QED
      BY <3>2, <3>3
  <2>5. QED
    BY <1>1, <1>2, <2>2, <2>3, <2>4 DEF BillRow, Present
<1>9. late' \subseteq Bill
  BY <1>1, <1>2 DEF Sound, BillSound
<1>10. PaymentsTypeOK'
  BY <1>1, <1>3, <1>5, <1>9 DEF Sound, PaymentsTypeOK, wallets, gateway
<1>11. QED
  BY <1>4, <1>5, <1>6, <1>7, <1>8, <1>10 DEF Sound

(* The lock keeps the adjusted version final, so that it is the one that   *)
(* is replaced.                                                            *)
LEMMA AdjustCommitSound ==
    ASSUME Sound, NEW w \in PayWorker, NEW j \in Bill, NEW coins \in BOOLEAN,
           AdjustCommit(w, j, coins)
    PROVE  /\ Sound' /\ Advances
           /\ \A c \in Bill \ {j} : Present(c)' => Present(c)
           /\ \E c \in Bill \ {j} : /\ Present(c)
                                   /\ bill'[j].root = bill[c].root
                                   /\ bill'[j].booking = bill[c].booking
<1>. DEFINE i == payJob[w].bill
<1>1. /\ i \in Bill /\ bill[i].status = "FINALIZED" /\ ~Present(j) /\ PayReturn(w)
      /\ payJob[w].step \in Locking /\ payJob[w].bill = i
      /\ UNCHANGED <<order, wallets, gateway, late, doubled>>
  BY DEF Sound, JobSound, AdjustCommit, PayAt, Present, Locking
<1>2. bill \in [Bill -> BillRow]
  BY DEF Sound, PaymentsTypeOK
<1>. DEFINE f == [bill[i] EXCEPT !.status = "FINALIZED"]
            r == [f EXCEPT !.coins = coins]
            m == [bill EXCEPT ![i].status = "ADJUSTED"]
<1>3. f = bill[i]
  BY <1>1, <1>2 DEF BillRow
<1>4. bill' = [m EXCEPT ![j] = r]
  BY DEF AdjustCommit
<1>. HIDE DEF f
<1>5. /\ r \in BillRow /\ r.status = "FINALIZED" /\ r.root = bill[i].root
      /\ r.booking = bill[i].booking
  BY <1>1, <1>2, <1>3 DEF BillRow
<1>. HIDE DEF r
<1>6. /\ m \in [Bill -> BillRow]
      /\ \A c \in Bill \ {i} : m[c] = bill[c]
      /\ m[i].status = "ADJUSTED" /\ m[i].root = bill[i].root
      /\ m[i].booking = bill[i].booking
      /\ m[i].amount = bill[i].amount /\ m[i].coins = bill[i].coins
  BY <1>1, <1>2 DEF BillRow
<1>. HIDE DEF m
<1>7. i # j
  BY <1>1 DEF Present
<1>8. /\ bill' \in [Bill -> BillRow]
      /\ \A c \in Bill \ {i, j} : bill'[c] = bill[c]
      /\ bill'[i].status = "ADJUSTED" /\ bill'[i].root = bill[i].root
      /\ bill'[i].booking = bill[i].booking
      /\ bill'[i].amount = bill[i].amount /\ bill'[i].coins = bill[i].coins
      /\ bill'[j].status = "FINALIZED" /\ bill'[j].root = bill[i].root
      /\ bill'[j].booking = bill[i].booking
  <2>1. bill' \in [Bill -> BillRow]
    BY <1>4, <1>5, <1>6
  <2>2. bill'[j] = r /\ \A c \in Bill \ {j} : bill'[c] = m[c]
    BY <1>4, <1>6
  <2>3. QED
    BY <1>1, <1>5, <1>6, <1>7, <2>1, <2>2
<1>. HIDE DEF i
<1>9. Advances
  BY <1>1, <1>8 DEF Advances, Present, Final
<1>10. /\ payJob' \in [PayWorker -> PayJob]
       /\ (\A v \in PayWorker : JobSound(v))'
       /\ Exclusive'
  <2>1. ASSUME NEW v \in PayWorker \ {w}, payJob[v].step \in Locking
        PROVE  payJob[v].bill \in Bill \ {i, j}
    <3>1. payJob[v].bill \in Bill /\ Present(payJob[v].bill)
      BY <2>1 DEF Sound, JobSound, Locking
    <3>2. payJob[v].bill # i
      BY <1>1, <2>1 DEF Sound, Exclusive
    <3>3. QED
      BY <1>1, <3>1, <3>2 DEF Present
  <2>2. QED
    BY <1>1, <1>8, <1>9, <2>1, ReturnSound
<1>11. (\A o \in Order : OrderSound(o))'
  BY <1>1, <1>9, OrdersKept
<1>12. bill[i].root \in Bill /\ Present(bill[i].root) /\ bill[bill[i].root].status # "DRAFT"
  BY <1>1 DEF Sound, BillSound, Present
<1>13. ASSUME NEW c \in Bill PROVE BillSound(c)'
  <2>1. BillSound(c)
    BY DEF Sound
  <2>2. \A d \in Bill : Present(d) => Present(d)' /\ bill'[d].root = bill[d].root
    BY <1>9 DEF Advances
  <2>3. (Present(c) => bill[c].root \in Bill /\ Present(bill[c].root))'
    <3>1. CASE c = j
      BY <1>8, <1>12, <2>2, <3>1 DEF Present
    <3>2. CASE c # j
      <4>1. Present(c)' => Present(c)
        BY <1>1, <1>8, <3>2 DEF Present
      <4>2. Present(c) => bill[c].root \in Bill /\ Present(bill[c].root)
        BY <2>1 DEF BillSound
      <4>3. QED
        BY <2>2, <4>1, <4>2 DEF Present
    <3>3. QED
      BY <3>1, <3>2
  <2>4. ASSUME bill'[c].status = "DRAFT"
        PROVE  /\ bill'[c].root = c
               /\ \A d \in Bill : Present(d)' /\ bill'[d].root = c => d = c
    <3>1. c # i /\ c # j /\ bill[c].status = "DRAFT" /\ bill[c].root = c
      BY <1>8, <2>1, <2>4 DEF BillSound
    <3>2. c # bill[i].root
      BY <1>12, <3>1
    <3>3. \A d \in Bill : Present(d) /\ bill[d].root = c => d = c
      BY <2>1, <3>1 DEF BillSound
    <3>4. ASSUME NEW d \in Bill, Present(d)', bill'[d].root = c PROVE d = c
      <4>1. d # j /\ d # i
        BY <1>8, <3>2, <3>4
      <4>2. Present(d) /\ bill[d].root = c
        BY <1>8, <3>4, <4>1 DEF Present
      <4>3. QED
        BY <3>3, <4>2
    <3>5. bill'[c].root = c
      BY <1>8, <3>1
    <3>6. QED
      BY <3>4, <3>5
  <2>5. QED
    BY <2>3, <2>4 DEF BillSound
<1>14. OneVersion'
  <2>. SUFFICES ASSUME NEW c \in Bill, NEW d \in Bill, c # d,
                       bill'[c].status = "FINALIZED", bill'[d].status = "FINALIZED",
                       bill'[c].root = bill'[d].root
                PROVE  bill'[c].root \in late'
    BY DEF OneVersion
  <2>1. c # i /\ d # i
    BY <1>8
  <2>2. CASE c # j /\ d # j
    BY <1>1, <1>8, <2>1, <2>2 DEF Sound, OneVersion
  <2>3. CASE c = j
    BY <1>1, <1>8, <2>1, <2>3 DEF Sound, OneVersion
  <2>4. CASE d = j
    BY <1>1, <1>8, <2>1, <2>4 DEF Sound, OneVersion
  <2>5. QED
    BY <2>2, <2>3, <2>4
<1>15. PaymentsTypeOK'
  BY <1>1, <1>8, <1>10 DEF Sound, PaymentsTypeOK, wallets, gateway
<1>16. /\ \A c \in Bill \ {j} : Present(c)' => Present(c)
       /\ i \in Bill \ {j} /\ Present(i)
  BY <1>1, <1>7, <1>8 DEF Present
<1>17. QED
  BY <1>8, <1>9, <1>10, <1>11, <1>13, <1>14, <1>15, <1>16 DEF Sound

-------------------------------------------------------------------------------
(* The steps that leave the bills alone.                                   *)

(* What they do to a request: one returns, or none changes.                *)
LEMMA BillsKept ==
    ASSUME Sound, UNCHANGED <<bill, late>>,
           UNCHANGED payJob \/ \E w \in PayWorker : PayReturn(w)
    PROVE  /\ Advances
           /\ bill' \in [Bill -> BillRow] /\ late' \subseteq Bill
           /\ payJob' \in [PayWorker -> PayJob]
           /\ (\A i \in Bill : BillSound(i))'
           /\ OneVersion'
           /\ (\A w \in PayWorker : JobSound(w))'
           /\ Exclusive'
<1>1. Advances
  BY DEF Advances, Present
<1>2. bill' \in [Bill -> BillRow] /\ late' \subseteq Bill
  BY DEF Sound, PaymentsTypeOK
<1>3. (\A i \in Bill : BillSound(i))' /\ OneVersion'
  BY DEF Sound, BillSound, Present, OneVersion
<1>4. /\ payJob' \in [PayWorker -> PayJob]
      /\ (\A w \in PayWorker : JobSound(w))'
      /\ Exclusive'
  <2>1. CASE UNCHANGED payJob
    BY <2>1 DEF Sound, PaymentsTypeOK, JobSound, Present, Exclusive
  <2>2. CASE \E w \in PayWorker : PayReturn(w)
    <3>1. PICK w \in PayWorker : PayReturn(w)
      BY <2>2
    <3>2. QED
      BY <1>1, <3>1, ReturnSound
  <2>3. QED
    BY <2>1, <2>2
<1>5. QED
  BY <1>1, <1>2, <1>3, <1>4

(* The orders of a payer that hold coins.                                  *)
Holding(p) == {o \in Order : HoldsCoins(o, p)}

LEMMA HoldingFinite ==
    ASSUME NEW p \in Payer
    PROVE  IsFiniteSet(Holding(p)) /\ Cardinality(Holding(p)) \in Nat
<1>1. Holding(p) \subseteq Order
  BY DEF Holding
<1>2. QED
  BY <1>1, FS_Subset, FS_CardinalityType

LEMMA CoinsKept ==
    ASSUME Sound, CoinsAccounted, Advances, UNCHANGED order, UNCHANGED wallets
    PROVE  CoinsAccounted'
<1>1. \A o \in Order, p \in Payer : HoldsCoins(o, p)' <=> HoldsCoins(o, p)
  BY OrdersKept
<1>2. \A p \in Payer : {o \in Order : HoldsCoins(o, p)}' = {o \in Order : HoldsCoins(o, p)}
  BY <1>1
<1>3. QED
  BY <1>2 DEF CoinsAccounted, wallets

(* The order reserves coins only if the payer has them, and is the only    *)
(* one that the step makes hold any.                                       *)
LEMMA OrderCommitSound ==
    ASSUME Sound, CoinsAccounted, NEW w \in PayWorker, NEW o \in Order,
           OrderCommit(w, o)
    PROVE  Sound' /\ Advances /\ CoinsAccounted'
<1>. DEFINE i == payJob[w].bill
            p == payJob[w].payer
            n == IF bill[i].coins THEN 1 ELSE 0
            row == [status |-> "CREATED", bill |-> i, payer |-> p]
<1>1. /\ i \in Bill /\ p \in Payer /\ bill[i].status \in Final
      /\ PayReturn(w)
      /\ order[o].status = "ABSENT" /\ n <= available[p]
      /\ order' = [order EXCEPT ![o] = row]
      /\ available' = [available EXCEPT ![p] = @ - n]
      /\ reserved' = [reserved EXCEPT ![p] = @ + n]
      /\ UNCHANGED <<bill, granted, captured, notified, late, doubled>>
  BY DEF Sound, JobSound, OrderCommit, PayAt, gateway
<1>2. /\ order \in [Order -> OrderRow] /\ available \in [Payer -> Nat]
      /\ reserved \in [Payer -> Nat]
  BY DEF Sound, PaymentsTypeOK
<1>3. row \in OrderRow
  BY <1>1 DEF OrderRow
<1>4. n \in 0 .. 1
  OBVIOUS
<1>5. order'[o] = row /\ \A q \in Order \ {o} : order'[q] = order[q]
  BY <1>1, <1>2
<1>6. /\ available'[p] = available[p] - n /\ reserved'[p] = reserved[p] + n
      /\ \A q \in Payer \ {p} : available'[q] = available[q] /\ reserved'[q] = reserved[q]
  BY <1>1, <1>2
<1>7. available' \in [Payer -> Nat] /\ reserved' \in [Payer -> Nat]
  <2>. HIDE DEF n
  <2>1. available[p] - n \in Nat /\ reserved[p] + n \in Nat
    BY <1>1, <1>2, <1>4
  <2>2. QED
    BY <1>1, <1>2, <2>1
<1>8. PaymentsTypeOK'
  BY <1>1, <1>2, <1>3, <1>7, BillsKept DEF Sound, PaymentsTypeOK
<1>9. ASSUME NEW q \in Order PROVE OrderSound(q)'
  <2>1. CASE q = o
    BY <1>1, <1>5, <2>1 DEF OrderSound
  <2>2. CASE q # o
    BY <1>1, <1>5, <2>2 DEF Sound, OrderSound
  <2>3. QED
    BY <2>1, <2>2
<1>10. ASSUME NEW r \in Payer
       PROVE  /\ reserved'[r] = Cardinality(Holding(r)')
              /\ available'[r] + reserved'[r] = IF r \in granted THEN Bonus ELSE 0
  <2>1. \A q \in Order \ {o} : HoldsCoins(q, r)' <=> HoldsCoins(q, r)
    BY <1>1, <1>5 DEF HoldsCoins
  <2>2. ~HoldsCoins(o, r)
    BY <1>1 DEF HoldsCoins
  <2>3. HoldsCoins(o, r)' <=> (r = p /\ n = 1)
    BY <1>1, <1>5 DEF HoldsCoins
  <2>4. reserved[r] = Cardinality(Holding(r)) /\ IsFiniteSet(Holding(r)) /\ o \notin Holding(r)
    BY <2>2, HoldingFinite DEF CoinsAccounted, Holding
  <2>5. available[r] + reserved[r] = IF r \in granted THEN Bonus ELSE 0
    BY DEF CoinsAccounted
  <2>. HIDE DEF n, p
  <2>6. CASE r = p /\ n = 1
    <3>1. Holding(r)' = Holding(r) \cup {o}
      BY <2>1, <2>3, <2>6 DEF Holding
    <3>2. Cardinality(Holding(r)') = Cardinality(Holding(r)) + 1
      BY <2>4, <3>1, FS_AddElement
    <3>3. QED
      BY <1>2, <1>6, <2>4, <2>5, <2>6, <3>2
  <2>7. CASE ~(r = p /\ n = 1)
    <3>1. Holding(r)' = Holding(r)
      BY <2>1, <2>2, <2>3, <2>7 DEF Holding
    <3>2. available'[r] = available[r] /\ reserved'[r] = reserved[r]
      BY <1>2, <1>4, <1>6, <2>7
    <3>3. QED
      BY <2>4, <2>5, <3>1, <3>2
  <2>8. QED
    BY <2>6, <2>7
<1>11. CoinsAccounted'
  BY <1>1, <1>10 DEF CoinsAccounted, Holding
<1>12. QED
  BY <1>1, <1>8, <1>9, <1>11, BillsKept DEF Sound

(* A failure ends the order it is about, and returns what it reserved: the *)
(* bill is final, so that its coins are those of the reservation.          *)
LEMMA FailedCallbackSound ==
    ASSUME Sound, CoinsAccounted, NEW o \in Order, FailedCallback(o)
    PROVE  Sound' /\ Advances /\ CoinsAccounted'
<1>. DEFINE i == order[o].bill
            p == order[o].payer
            n == IF bill[i].coins THEN 1 ELSE 0
<1>1. /\ i \in Bill /\ p \in Payer
      /\ order[o].status = "CREATED" /\ n <= reserved[p]
      /\ order' = [order EXCEPT ![o].status = "FAILED"]
      /\ available' = [available EXCEPT ![p] = @ + n]
      /\ reserved' = [reserved EXCEPT ![p] = @ - n]
      /\ UNCHANGED <<bill, granted, captured, notified, payJob, late, doubled>>
  BY DEF Sound, OrderSound, FailedCallback, gateway
<1>2. /\ order \in [Order -> OrderRow] /\ available \in [Payer -> Nat]
      /\ reserved \in [Payer -> Nat]
  BY DEF Sound, PaymentsTypeOK
<1>3. n \in 0 .. 1
  OBVIOUS
<1>4. /\ order' \in [Order -> OrderRow]
      /\ order'[o].status = "FAILED"
      /\ order'[o].bill = order[o].bill /\ order'[o].payer = order[o].payer
      /\ \A q \in Order \ {o} : order'[q] = order[q]
  BY <1>1, <1>2 DEF OrderRow
<1>5. /\ available'[p] = available[p] + n /\ reserved'[p] = reserved[p] - n
      /\ \A q \in Payer \ {p} : available'[q] = available[q] /\ reserved'[q] = reserved[q]
  BY <1>1, <1>2
<1>6. available' \in [Payer -> Nat] /\ reserved' \in [Payer -> Nat]
  <2>. HIDE DEF n
  <2>1. available[p] + n \in Nat /\ reserved[p] - n \in Nat
    BY <1>1, <1>2, <1>3
  <2>2. QED
    BY <1>1, <1>2, <2>1
<1>7. PaymentsTypeOK'
  BY <1>1, <1>4, <1>6, BillsKept DEF Sound, PaymentsTypeOK
<1>8. ASSUME NEW q \in Order PROVE OrderSound(q)'
  <2>1. OrderSound(q)
    BY DEF Sound
  <2>2. CASE q = o
    BY <1>1, <1>4, <2>1, <2>2 DEF OrderSound
  <2>3. CASE q # o
    BY <1>1, <1>4, <2>1, <2>3 DEF OrderSound
  <2>4. QED
    BY <2>2, <2>3
<1>9. ASSUME NEW r \in Payer
      PROVE  /\ reserved'[r] = Cardinality(Holding(r)')
             /\ available'[r] + reserved'[r] = IF r \in granted THEN Bonus ELSE 0
  <2>1. \A q \in Order \ {o} : HoldsCoins(q, r)' <=> HoldsCoins(q, r)
    BY <1>1, <1>4 DEF HoldsCoins
  <2>2. ~HoldsCoins(o, r)'
    BY <1>4 DEF HoldsCoins
  <2>3. HoldsCoins(o, r) <=> (r = p /\ n = 1)
    BY <1>1 DEF HoldsCoins
  <2>4. reserved[r] = Cardinality(Holding(r)) /\ IsFiniteSet(Holding(r))
    BY HoldingFinite DEF CoinsAccounted, Holding
  <2>5. available[r] + reserved[r] = IF r \in granted THEN Bonus ELSE 0
    BY DEF CoinsAccounted
  <2>. HIDE DEF n, p
  <2>6. CASE r = p /\ n = 1
    <3>1. Holding(r)' = Holding(r) \ {o} /\ o \in Holding(r)
      BY <2>1, <2>2, <2>3, <2>6 DEF Holding
    <3>2. Cardinality(Holding(r)') = Cardinality(Holding(r)) - 1
      BY <2>4, <3>1, FS_RemoveElement
    <3>3. QED
      BY <1>2, <1>5, <2>4, <2>5, <2>6, <3>2
  <2>7. CASE ~(r = p /\ n = 1)
    <3>1. Holding(r)' = Holding(r)
      BY <2>1, <2>2, <2>3, <2>7 DEF Holding
    <3>2. available'[r] = available[r] /\ reserved'[r] = reserved[r]
      BY <1>2, <1>3, <1>5, <2>7
    <3>3. QED
      BY <2>4, <2>5, <3>1, <3>2
  <2>8. QED
    BY <2>6, <2>7
<1>10. CoinsAccounted'
  BY <1>1, <1>9 DEF CoinsAccounted, Holding
<1>11. QED
  BY <1>1, <1>7, <1>8, <1>10, BillsKept DEF Sound

(* The bonus is granted once.                                              *)
LEMMA GrantBonusSound ==
    ASSUME Sound, CoinsAccounted, NEW p \in Payer, GrantBonus(p)
    PROVE  Sound' /\ Advances /\ CoinsAccounted'
<1>1. /\ p \notin granted
      /\ available' = [available EXCEPT ![p] = @ + Bonus]
      /\ granted' = granted \cup {p}
      /\ UNCHANGED <<bill, order, reserved, captured, notified, payJob, late, doubled>>
  BY DEF GrantBonus, gateway
<1>2. available \in [Payer -> Nat] /\ reserved \in [Payer -> Nat] /\ granted \subseteq Payer
  BY DEF Sound, PaymentsTypeOK
<1>3. available' \in [Payer -> Nat]
  BY <1>1, <1>2
<1>4. PaymentsTypeOK'
  BY <1>1, <1>3, BillsKept DEF Sound, PaymentsTypeOK
<1>5. /\ (\A o \in Order : OrderSound(o))'
      /\ \A o \in Order, q \in Payer : HoldsCoins(o, q)' <=> HoldsCoins(o, q)
  BY <1>1, BillsKept, OrdersKept
<1>6. ASSUME NEW r \in Payer
      PROVE  /\ reserved'[r] = Cardinality(Holding(r)')
             /\ available'[r] + reserved'[r] = IF r \in granted' THEN Bonus ELSE 0
  <2>1. Holding(r)' = Holding(r)
    BY <1>5 DEF Holding
  <2>2. /\ reserved[r] = Cardinality(Holding(r))
        /\ available[r] + reserved[r] = IF r \in granted THEN Bonus ELSE 0
    BY DEF CoinsAccounted, Holding
  <2>3. CASE r = p
    BY <1>1, <1>2, <2>1, <2>2, <2>3
  <2>4. CASE r # p
    BY <1>1, <1>2, <2>1, <2>2, <2>4
  <2>5. QED
    BY <2>3, <2>4
<1>7. CoinsAccounted'
  BY <1>6 DEF CoinsAccounted, Holding
<1>8. QED
  BY <1>1, <1>4, <1>5, <1>7, BillsKept DEF Sound

-------------------------------------------------------------------------------
(* One bill, and one order at a time.                                      *)

(* A first bill is requested while there is none, and an order while none  *)
(* is open; another request of that kind is on the record.                 *)
FirstAlone ==
    \A w \in PayWorker : payJob[w].step = "insert" =>
        LET k == payJob[w].booking IN
        /\ \A i \in Bill : Present(i) /\ bill[i].booking = k => k \in doubled
        /\ \A v \in PayWorker :
              payJob[v].step = "insert" /\ payJob[v].booking = k => v = w \/ k \in doubled

OrderAlone ==
    \A w \in PayWorker : payJob[w].step = "order" =>
        LET i == payJob[w].bill IN
        /\ \A o \in Order : order[o].status = "CREATED" /\ order[o].bill = i => i \in doubled
        /\ \A v \in PayWorker :
              payJob[v].step = "order" /\ payJob[v].bill = i => v = w \/ i \in doubled

(* A version has one open order.                                           *)
VersionOrder ==
    \A o, q \in Order :
        /\ order[o].status = "CREATED" /\ order[q].status = "CREATED"
        /\ order[o].bill = order[q].bill
        => o = q \/ order[o].bill \in doubled

Single == OneBill /\ VersionOrder /\ FirstAlone /\ OrderAlone

LEMMA InitSingle == PaymentsInit => Single
BY EmptyRows DEF PaymentsInit, Single, OneBill, VersionOrder, FirstAlone, OrderAlone

(* Requests that begin.                                                    *)
LEMMA BeginSingle ==
    ASSUME Sound, Single, NEW w \in PayWorker,
           NEW step \in {"insert", "merge", "finalize", "adjust", "order"},
           NEW k \in Booking \cup {NoneYet}, NEW i \in Bill \cup {NoneYet},
           NEW p \in Payer \cup {NoneYet},
           PayBegin(w, step, k, i, p),
           step = "insert" => /\ k \in Booking /\ i = NoneYet
                              /\ \A c \in Bill : bill[c].booking # k,
           step = "order" => /\ k = NoneYet /\ i \in Bill
                             /\ \A o \in Order :
                                   order[o].bill = i => order[o].status # "CREATED"
    PROVE  Single'
<1>. DEFINE job == [step |-> step, booking |-> k, bill |-> i, payer |-> p]
<1>1. payJob' = [payJob EXCEPT ![w] = job] /\ UNCHANGED <<bill, order>>
  BY DEF PayBegin
<1>2. payJob \in [PayWorker -> PayJob]
  BY DEF Sound, PaymentsTypeOK
<1>3. payJob'[w] = job /\ \A v \in PayWorker \ {w} : payJob'[v] = payJob[v]
  BY <1>1, <1>2
<1>4. doubled \subseteq doubled'
  BY DEF PayBegin
<1>5. OneBill' /\ VersionOrder'
  BY <1>1, <1>4 DEF Single, OneBill, VersionOrder
<1>6. ASSUME NEW v \in PayWorker \ {w}, step = "insert",
             payJob[v].step = "insert", payJob[v].booking = k
      PROVE  k \in doubled'
  <2>1. payJob[v].bill = i /\ k # NoneYet
    BY <1>6 DEF Sound, JobSound
  <2>2. QED
    BY <1>6, <2>1 DEF PayBegin, PayAt
<1>7. ASSUME NEW v \in PayWorker \ {w}, step = "order",
             payJob[v].step = "order", payJob[v].bill = i
      PROVE  i \in doubled'
  <2>1. payJob[v].booking = k /\ i # NoneYet
    BY <1>7 DEF Sound, JobSound
  <2>2. QED
    BY <1>7, <2>1 DEF PayBegin, PayAt
<1>8. FirstAlone'
  <2>. SUFFICES ASSUME NEW u \in PayWorker, payJob'[u].step = "insert"
                PROVE  LET b == payJob'[u].booking IN
                       /\ \A c \in Bill : Present(c)' /\ bill'[c].booking = b => b \in doubled'
                       /\ \A v \in PayWorker :
                             payJob'[v].step = "insert" /\ payJob'[v].booking = b
                                 => v = u \/ b \in doubled'
    BY DEF FirstAlone
  <2>1. CASE u = w
    BY <1>1, <1>3, <1>6, <2>1
  <2>2. CASE u # w
    BY <1>1, <1>3, <1>4, <1>6, <2>2 DEF Single, FirstAlone, Present
  <2>3. QED
    BY <2>1, <2>2
<1>9. OrderAlone'
  <2>. SUFFICES ASSUME NEW u \in PayWorker, payJob'[u].step = "order"
                PROVE  LET b == payJob'[u].bill IN
                       /\ \A o \in Order : order'[o].status = "CREATED" /\ order'[o].bill = b
                              => b \in doubled'
                       /\ \A v \in PayWorker :
                             payJob'[v].step = "order" /\ payJob'[v].bill = b
                                 => v = u \/ b \in doubled'
    BY DEF OrderAlone
  <2>1. CASE u = w
    BY <1>1, <1>3, <1>7, <2>1
  <2>2. CASE u # w
    BY <1>1, <1>3, <1>4, <1>7, <2>2 DEF Single, OrderAlone
  <2>3. QED
    BY <2>1, <2>2
<1>10. QED
  BY <1>5, <1>8, <1>9 DEF Single

(* Requests that return.                                                   *)
LEMMA AloneKept ==
    ASSUME Sound, Single, Advances, UNCHANGED doubled,
           UNCHANGED payJob \/ \E w \in PayWorker : PayReturn(w)
    PROVE  /\ (\A i \in Bill : Present(i)' => Present(i)) => OneBill' /\ FirstAlone'
           /\ (\A o \in Order : order'[o].status = "CREATED" =>
                  order[o].status = "CREATED" /\ order'[o].bill = order[o].bill)
                  => VersionOrder' /\ OrderAlone'
<1>1. payJob \in [PayWorker -> PayJob]
  BY DEF Sound, PaymentsTypeOK
<1>2. \A v \in PayWorker : payJob'[v] = PayIdle \/ payJob'[v] = payJob[v]
  BY <1>1 DEF PayReturn
<1>3. ASSUME \A i \in Bill : Present(i)' => Present(i)
      PROVE  OneBill' /\ FirstAlone'
  <2>1. \A i \in Bill : Present(i)' => /\ bill'[i].root = bill[i].root
                                      /\ bill'[i].booking = bill[i].booking
    BY <1>3 DEF Advances
  <2>2. OneBill'
    BY <1>3, <2>1 DEF Single, OneBill, Present
  <2>3. FirstAlone'
    BY <1>2, <1>3, <2>1, EmptyRows DEF Single, FirstAlone
  <2>4. QED
    BY <2>2, <2>3
<1>4. ASSUME \A o \in Order : order'[o].status = "CREATED" =>
                order[o].status = "CREATED" /\ order'[o].bill = order[o].bill
      PROVE  VersionOrder' /\ OrderAlone'
  <2>1. VersionOrder'
    BY <1>4 DEF Single, VersionOrder
  <2>2. OrderAlone'
    BY <1>2, <1>4, EmptyRows DEF Single, OrderAlone
  <2>3. QED
    BY <2>1, <2>2
<1>5. QED
  BY <1>3, <1>4

LEMMA DraftInsertSingle ==
    ASSUME Sound, Single, NEW w \in PayWorker, NEW i \in Bill,
           NEW amount \in 0 .. MaxAmount, DraftInsert(w, i, amount)
    PROVE  Single'
<1>. DEFINE k == payJob[w].booking
<1>1. /\ bill' = [bill EXCEPT ![i] =
             [status |-> "DRAFT", booking |-> k, root |-> i, amount |-> amount,
              coins |-> FALSE]]
      /\ payJob[w].step = "insert" /\ PayReturn(w)
      /\ UNCHANGED <<order, doubled>>
  BY DEF DraftInsert, PayAt
<1>2. bill \in [Bill -> BillRow] /\ payJob \in [PayWorker -> PayJob]
  BY DEF Sound, PaymentsTypeOK
<1>3. /\ bill'[i].booking = k /\ \A c \in Bill \ {i} : bill'[c] = bill[c]
      /\ payJob'[w] = PayIdle /\ \A v \in PayWorker \ {w} : payJob'[v] = payJob[v]
  BY <1>1, <1>2 DEF PayReturn
<1>4. \A c \in Bill \ {i} : Present(c) /\ bill[c].booking = k => k \in doubled
  BY <1>1 DEF Single, FirstAlone
<1>5. OneBill'
  <2>. SUFFICES ASSUME NEW c \in Bill, NEW d \in Bill, c # d, Present(c)', Present(d)',
                       bill'[c].booking = bill'[d].booking
                PROVE  bill'[c].root = bill'[d].root \/ bill'[c].booking \in doubled'
    BY DEF OneBill, Present
  <2>1. CASE c # i /\ d # i
    BY <1>1, <1>3, <2>1 DEF Single, OneBill, Present
  <2>2. CASE c = i \/ d = i
    BY <1>1, <1>3, <1>4, <2>2 DEF Present
  <2>3. QED
    BY <2>1, <2>2
<1>6. FirstAlone'
  <2>. SUFFICES ASSUME NEW u \in PayWorker, payJob'[u].step = "insert"
                PROVE  LET b == payJob'[u].booking IN
                       /\ \A c \in Bill : Present(c)' /\ bill'[c].booking = b => b \in doubled'
                       /\ \A v \in PayWorker :
                             payJob'[v].step = "insert" /\ payJob'[v].booking = b
                                 => v = u \/ b \in doubled'
    BY DEF FirstAlone
  <2>1. u # w /\ payJob'[u] = payJob[u]
    BY <1>3, EmptyRows
  <2>2. payJob[u].booking = k => k \in doubled
    BY <1>1, <2>1 DEF Single, FirstAlone
  <2>3. \A c \in Bill : Present(c)' /\ bill'[c].booking = payJob[u].booking
            => payJob[u].booking \in doubled
    BY <1>3, <2>1, <2>2 DEF Single, FirstAlone, Present
  <2>4. \A v \in PayWorker :
            payJob'[v].step = "insert" /\ payJob'[v].booking = payJob[u].booking
                => v = u \/ payJob[u].booking \in doubled
    BY <1>3, <2>1, EmptyRows DEF Single, FirstAlone
  <2>5. QED
    BY <1>1, <2>1, <2>3, <2>4
<1>7. QED
  BY <1>1, <1>5, <1>6, AloneKept, DraftInsertSound DEF Single

LEMMA AdjustCommitSingle ==
    ASSUME Sound, Single, NEW w \in PayWorker, NEW j \in Bill, NEW coins \in BOOLEAN,
           AdjustCommit(w, j, coins)
    PROVE  Single'
<1>1. PayReturn(w) /\ UNCHANGED <<order, doubled>> /\ Advances
  BY AdjustCommitSound DEF AdjustCommit
<1>2. \A c \in Bill \ {j} : Present(c)' => /\ Present(c)
                                         /\ bill'[c].root = bill[c].root
                                         /\ bill'[c].booking = bill[c].booking
  BY AdjustCommitSound DEF Advances
<1>3. PICK i \in Bill \ {j} : /\ Present(i)
                              /\ bill'[j].root = bill[i].root
                              /\ bill'[j].booking = bill[i].booking
  BY AdjustCommitSound
<1>4. OneBill'
  <2>1. \A c \in Bill : Present(c)' =>
            \E d \in Bill : /\ Present(d)
                           /\ bill'[c].root = bill[d].root
                           /\ bill'[c].booking = bill[d].booking
    BY <1>2, <1>3
  <2>2. \A c, d \in Bill : Present(c) /\ Present(d) /\ bill[c].booking = bill[d].booking
            => bill[c].root = bill[d].root \/ bill[c].booking \in doubled
    BY DEF Single, OneBill, Present
  <2>. SUFFICES ASSUME NEW c \in Bill, NEW d \in Bill, Present(c)', Present(d)',
                       bill'[c].booking = bill'[d].booking
                PROVE  bill'[c].root = bill'[d].root \/ bill'[c].booking \in doubled'
    BY DEF OneBill, Present
  <2>3. PICK e \in Bill : /\ Present(e) /\ bill'[c].root = bill[e].root
                         /\ bill'[c].booking = bill[e].booking
    BY <2>1
  <2>4. PICK g \in Bill : /\ Present(g) /\ bill'[d].root = bill[g].root
                         /\ bill'[d].booking = bill[g].booking
    BY <2>1
  <2>5. QED
    BY <1>1, <2>2, <2>3, <2>4
<1>5. FirstAlone'
  <2>1. \A v \in PayWorker : payJob'[v] = PayIdle \/ payJob'[v] = payJob[v]
    BY <1>1 DEF PayReturn, Sound, PaymentsTypeOK
  <2>2. \A v \in PayWorker, c \in Bill :
            payJob[v].step = "insert" /\ Present(c)' /\ bill'[c].booking = payJob[v].booking
                => payJob[v].booking \in doubled
    BY <1>2, <1>3 DEF Single, FirstAlone
  <2>3. QED
    BY <1>1, <2>1, <2>2, EmptyRows DEF Single, FirstAlone
<1>6. QED
  BY <1>1, <1>4, <1>5, AloneKept DEF Single

LEMMA OrderCommitSingle ==
    ASSUME Sound, Single, NEW w \in PayWorker, NEW o \in Order, OrderCommit(w, o)
    PROVE  Single'
<1>. DEFINE i == payJob[w].bill
<1>1. /\ order' = [order EXCEPT ![o] =
             [status |-> "CREATED", bill |-> i, payer |-> payJob[w].payer]]
      /\ payJob[w].step = "order" /\ PayReturn(w)
      /\ UNCHANGED <<bill, late, doubled>>
  BY DEF OrderCommit, PayAt
<1>2. order \in [Order -> OrderRow] /\ payJob \in [PayWorker -> PayJob]
  BY DEF Sound, PaymentsTypeOK
<1>3. /\ order'[o].bill = i /\ \A q \in Order \ {o} : order'[q] = order[q]
      /\ payJob'[w] = PayIdle /\ \A v \in PayWorker \ {w} : payJob'[v] = payJob[v]
  BY <1>1, <1>2 DEF PayReturn
<1>4. \A q \in Order : order[q].status = "CREATED" /\ order[q].bill = i => i \in doubled
  BY <1>1 DEF Single, OrderAlone
<1>5. VersionOrder'
  BY <1>1, <1>3, <1>4 DEF Single, VersionOrder
<1>6. OrderAlone'
  <2>. SUFFICES ASSUME NEW u \in PayWorker, payJob'[u].step = "order"
                PROVE  LET b == payJob'[u].bill IN
                       /\ \A q \in Order : order'[q].status = "CREATED" /\ order'[q].bill = b
                              => b \in doubled'
                       /\ \A v \in PayWorker :
                             payJob'[v].step = "order" /\ payJob'[v].bill = b
                                 => v = u \/ b \in doubled'
    BY DEF OrderAlone
  <2>1. u # w /\ payJob'[u] = payJob[u]
    BY <1>3, EmptyRows
  <2>2. payJob[u].bill = i => i \in doubled
    BY <1>1, <2>1 DEF Single, OrderAlone
  <2>3. \A q \in Order : order'[q].status = "CREATED" /\ order'[q].bill = payJob[u].bill
            => payJob[u].bill \in doubled
    BY <1>3, <2>1, <2>2 DEF Single, OrderAlone
  <2>4. \A v \in PayWorker :
            payJob'[v].step = "order" /\ payJob'[v].bill = payJob[u].bill
                => v = u \/ payJob[u].bill \in doubled
    BY <1>3, <2>1, EmptyRows DEF Single, OrderAlone
  <2>5. QED
    BY <1>1, <2>1, <2>3, <2>4
<1>7. QED
  BY <1>1, <1>5, <1>6, AloneKept, BillsKept DEF Single, Present

-------------------------------------------------------------------------------
(* Every step.                                                             *)

LEMMA RequestSound ==
    ASSUME Sound, CoinsAccounted, NEW w \in PayWorker, PayRequest(w)
    PROVE  Sound' /\ Advances /\ CoinsAccounted'
<1>1. ASSUME NEW k \in Booking, DraftCheck(w, k)
      PROVE  Sound' /\ Advances /\ UNCHANGED <<order, wallets>>
  BY <1>1, BeginSound DEF DraftCheck, PayBegin, Locking
<1>2. ASSUME NEW i \in Bill, NEW amount \in 0 .. MaxAmount, DraftInsert(w, i, amount)
      PROVE  Sound' /\ Advances /\ UNCHANGED <<order, wallets>>
  BY <1>2, DraftInsertSound DEF DraftInsert
<1>3. ASSUME NEW i \in Bill, DraftLock(w, i)
      PROVE  Sound' /\ Advances /\ UNCHANGED <<order, wallets>>
  BY <1>3, BeginSound DEF DraftLock, PayBegin, Present
<1>4. ASSUME NEW amount \in 0 .. MaxAmount, DraftMerge(w, amount)
      PROVE  Sound' /\ Advances /\ UNCHANGED <<order, wallets>>
  BY <1>4, DraftMergeSound DEF DraftMerge
<1>5. ASSUME NEW i \in Bill, ConfirmRead(w, i)
      PROVE  Sound' /\ Advances /\ UNCHANGED <<order, wallets>>
  BY <1>5, BeginSound DEF ConfirmRead, PayBegin, Present, Locking
<1>6. CASE ConfirmSave(w)
  <2>1. Sound' /\ Advances /\ UNCHANGED <<order, wallets>>
    BY <1>6, ConfirmSaveSound DEF ConfirmSave
  <2>2. QED
    BY <2>1, CoinsKept
<1>7. ASSUME NEW i \in Bill, NEW p \in Payer, AdjustLock(w, i, p)
      PROVE  Sound' /\ Advances /\ UNCHANGED <<order, wallets>>
  BY <1>7, BeginSound DEF AdjustLock, PayBegin, Present
<1>8. ASSUME NEW j \in Bill, NEW coins \in BOOLEAN, AdjustCommit(w, j, coins)
      PROVE  Sound' /\ Advances /\ UNCHANGED <<order, wallets>>
  BY <1>8, AdjustCommitSound DEF AdjustCommit
<1>9. ASSUME NEW i \in Bill, NEW p \in Payer, OrderRead(w, i, p)
      PROVE  Sound' /\ Advances /\ UNCHANGED <<order, wallets>>
  BY <1>9, BeginSound DEF OrderRead, PayBegin, Present, Locking, Final
<1>10. ASSUME NEW o \in Order, OrderCommit(w, o)
       PROVE  Sound' /\ Advances /\ CoinsAccounted'
  BY <1>10, OrderCommitSound
<1>11. CASE PayAbort(w)
  <2>1. PayReturn(w) /\ UNCHANGED <<bill, order, wallets, gateway, late, doubled>>
    BY <1>11 DEF PayAbort
  <2>2. Advances /\ CoinsAccounted'
    BY <2>1, BillsKept, CoinsKept
  <2>3. PaymentsTypeOK'
    BY <2>1, BillsKept DEF Sound, PaymentsTypeOK, wallets, gateway
  <2>4. QED
    BY <2>1, <2>2, <2>3, BillsKept, OrdersKept DEF Sound
<1>12. QED
  BY <1>1, <1>2, <1>3, <1>4, <1>5, <1>6, <1>7, <1>8, <1>9, <1>10, <1>11, CoinsKept
     DEF PayRequest

LEMMA StepSound ==
    ASSUME Sound, CoinsAccounted, [PaymentsNext]_paymentVars
    PROVE  Sound' /\ Advances /\ CoinsAccounted'
<1>1. ASSUME NEW w \in PayWorker, PayRequest(w)
      PROVE  Sound' /\ Advances /\ CoinsAccounted'
  BY <1>1, RequestSound
<1>2. ASSUME UNCHANGED <<bill, order, wallets, payJob, late, doubled>>,
             captured' \subseteq Order, notified' \subseteq captured'
      PROVE  Sound' /\ Advances /\ CoinsAccounted'
  <2>1. Advances /\ CoinsAccounted'
    BY <1>2, BillsKept, CoinsKept
  <2>2. PaymentsTypeOK'
    BY <1>2 DEF Sound, PaymentsTypeOK, wallets
  <2>3. QED
    BY <1>2, <2>1, <2>2, BillsKept, OrdersKept DEF Sound
<1>3. captured \subseteq Order /\ notified \subseteq captured
  BY DEF Sound, PaymentsTypeOK
<1>4. ASSUME NEW o \in Order, Capture(o)
      PROVE  Sound' /\ Advances /\ CoinsAccounted'
  BY <1>2, <1>3, <1>4 DEF Capture
<1>5. ASSUME NEW o \in Order, FailedCallback(o)
      PROVE  Sound' /\ Advances /\ CoinsAccounted'
  BY <1>5, FailedCallbackSound
<1>6. ASSUME NEW o \in Order, CapturedCallback(o)
      PROVE  Sound' /\ Advances /\ CoinsAccounted'
  BY <1>2, <1>3, <1>6 DEF CapturedCallback
<1>7. ASSUME NEW p \in Payer, GrantBonus(p)
      PROVE  Sound' /\ Advances /\ CoinsAccounted'
  BY <1>7, GrantBonusSound
<1>8. CASE UNCHANGED paymentVars
  BY <1>2, <1>3, <1>8 DEF paymentVars, gateway
<1>9. QED
  BY <1>1, <1>4, <1>5, <1>6, <1>7, <1>8 DEF PaymentsNext

LEMMA StepSingle ==
    ASSUME Sound, CoinsAccounted, Single, [PaymentsNext]_paymentVars
    PROVE  Single'
<1>1. Advances
  BY StepSound
<1>2. ASSUME \A i \in Bill : Present(i)' => Present(i),
             \A o \in Order : order'[o].status = "CREATED" =>
                 order[o].status = "CREATED" /\ order'[o].bill = order[o].bill,
             UNCHANGED doubled,
             UNCHANGED payJob \/ \E w \in PayWorker : PayReturn(w)
      PROVE  Single'
  BY <1>1, <1>2, AloneKept DEF Single
<1>3. ASSUME UNCHANGED <<bill, order, doubled>>,
             UNCHANGED payJob \/ \E w \in PayWorker : PayReturn(w)
      PROVE  Single'
  BY <1>2, <1>3 DEF Present
<1>4. ASSUME NEW w \in PayWorker, PayRequest(w) PROVE Single'
  <2>1. ASSUME NEW k \in Booking, DraftCheck(w, k) PROVE Single'
    BY <2>1, BeginSingle DEF DraftCheck
  <2>2. ASSUME NEW i \in Bill, NEW amount \in 0 .. MaxAmount, DraftInsert(w, i, amount)
        PROVE  Single'
    BY <2>2, DraftInsertSingle
  <2>3. ASSUME NEW i \in Bill, DraftLock(w, i) PROVE Single'
    BY <2>3, BeginSingle DEF DraftLock
  <2>4. ASSUME NEW amount \in 0 .. MaxAmount, DraftMerge(w, amount) PROVE Single'
    <3>1. payJob[w].bill \in Bill /\ Present(payJob[w].bill)
      BY <2>4 DEF DraftMerge, PayAt, Sound, JobSound
    <3>2. \A i \in Bill : i # payJob[w].bill => bill'[i] = bill[i]
      BY <2>4 DEF DraftMerge, Sound, PaymentsTypeOK
    <3>3. QED
      BY <1>2, <2>4, <3>1, <3>2 DEF DraftMerge, Present
  <2>5. ASSUME NEW i \in Bill, ConfirmRead(w, i) PROVE Single'
    BY <2>5, BeginSingle DEF ConfirmRead
  <2>6. CASE ConfirmSave(w)
    <3>1. payJob[w].bill \in Bill /\ Present(payJob[w].bill)
      BY <2>6 DEF ConfirmSave, PayAt, Sound, JobSound
    <3>2. \A i \in Bill : i # payJob[w].bill => bill'[i] = bill[i]
      BY <2>6 DEF ConfirmSave, Sound, PaymentsTypeOK
    <3>3. QED
      BY <1>2, <2>6, <3>1, <3>2 DEF ConfirmSave, Present
  <2>7. ASSUME NEW i \in Bill, NEW p \in Payer, AdjustLock(w, i, p) PROVE Single'
    BY <2>7, BeginSingle DEF AdjustLock
  <2>8. ASSUME NEW j \in Bill, NEW coins \in BOOLEAN, AdjustCommit(w, j, coins)
        PROVE  Single'
    BY <2>8, AdjustCommitSingle
  <2>9. ASSUME NEW i \in Bill, NEW p \in Payer, OrderRead(w, i, p) PROVE Single'
    BY <2>9, BeginSingle DEF OrderRead
  <2>10. ASSUME NEW o \in Order, OrderCommit(w, o) PROVE Single'
    BY <2>10, OrderCommitSingle
  <2>11. CASE PayAbort(w)
    BY <1>3, <2>11 DEF PayAbort
  <2>12. QED
    BY <1>4, <2>1, <2>2, <2>3, <2>4, <2>5, <2>6, <2>7, <2>8, <2>9, <2>10, <2>11
       DEF PayRequest
<1>5. ASSUME NEW o \in Order, FailedCallback(o) PROVE Single'
  <2>1. UNCHANGED <<bill, payJob, doubled>>
    BY <1>5 DEF FailedCallback
  <2>2. order'[o].status = "FAILED" /\ \A q \in Order \ {o} : order'[q] = order[q]
    BY <1>5 DEF FailedCallback, Sound, PaymentsTypeOK, OrderRow
  <2>3. QED
    BY <1>2, <2>1, <2>2 DEF Present
<1>6. ASSUME NEW o \in Order, Capture(o) \/ CapturedCallback(o) PROVE Single'
  BY <1>3, <1>6 DEF Capture, CapturedCallback
<1>7. ASSUME NEW p \in Payer, GrantBonus(p) PROVE Single'
  BY <1>3, <1>7 DEF GrantBonus
<1>8. CASE UNCHANGED paymentVars
  BY <1>3, <1>8 DEF paymentVars
<1>9. QED
  BY <1>4, <1>5, <1>6, <1>7, <1>8 DEF PaymentsNext

-------------------------------------------------------------------------------
(* The theorems.                                                           *)

LEMMA PaymentsInvariant == PaymentsSpec => [](Sound /\ CoinsAccounted /\ Single)
<1>1. PaymentsInit => Sound /\ CoinsAccounted /\ Single
  BY InitSound, InitSingle
<1>2. Sound /\ CoinsAccounted /\ Single /\ [PaymentsNext]_paymentVars
          => (Sound /\ CoinsAccounted /\ Single)'
  BY StepSound, StepSingle
<1>3. QED
  BY <1>1, <1>2, PTL DEF PaymentsSpec

(* Every variable keeps its type: no wallet is ever overdrawn.             *)
THEOREM PaymentsTypeCorrect == PaymentsSpec => []PaymentsTypeOK
<1>1. Sound => PaymentsTypeOK
  BY DEF Sound
<1>2. QED
  BY <1>1, PaymentsInvariant, PTL

(* The bill of an open order is final; if it was not adjusted since, it is *)
(* the one version that can be paid.                                       *)
LEMMA OrdersOfBooking == Sound /\ Single => OneOrder
<1>. SUFFICES ASSUME Sound, Single, NEW o \in Order, NEW q \in Order, o # q,
                     order[o].status = "CREATED", order[q].status = "CREATED",
                     bill[order[o].bill].booking = bill[order[q].bill].booking,
                     order[o].bill # order[q].bill,
                     "ADJUSTED" \notin {bill[order[o].bill].status,
                                       bill[order[q].bill].status}
              PROVE  \/ bill[order[o].bill].root \in late
                     \/ bill[order[o].bill].booking \in doubled
  BY DEF OneOrder, Single, VersionOrder
<1>. DEFINE i == order[o].bill
            j == order[q].bill
<1>1. /\ i \in Bill /\ bill[i].status = "FINALIZED"
      /\ j \in Bill /\ bill[j].status = "FINALIZED"
  BY DEF Sound, OrderSound, Final
<1>2. bill[i].root = bill[j].root \/ bill[i].booking \in doubled
  BY <1>1 DEF Single, OneBill
<1>3. QED
  BY <1>1, <1>2 DEF Sound, OneVersion

(* What can be paid of a booking is one version of one bill, by one open   *)
(* order, however drafting, confirming, adjusting and paying interleave,   *)
(* except where requests raced past an unlocked check; beside it only      *)
(* orders of versions adjusted since can be open.                          *)
THEOREM PayableOnce == PaymentsSpec => []OnePayable
<1>1. Sound /\ Single => OnePayable
  BY OrdersOfBooking DEF Sound, Single, OnePayable
<1>2. QED
  BY <1>1, PaymentsInvariant, PTL

(* The reserved coins are those of the open orders, however often and late *)
(* the gateway calls, and no coin is made or lost.                         *)
THEOREM CoinsConserved == PaymentsSpec => []CoinsAccounted
<1>1. QED
  BY PaymentsInvariant, PTL

(* What is confirmed or adjusted is never recalculated.                    *)
THEOREM AmountsFrozen == PaymentsSpec => FinalizedFrozen
<1>1. Sound /\ CoinsAccounted /\ [PaymentsNext]_paymentVars =>
          [\A i \in Bill :
              bill[i].status \in {"FINALIZED", "ADJUSTED"} =>
                  /\ bill'[i].status \in {"FINALIZED", "ADJUSTED"}
                  /\ bill'[i].amount = bill[i].amount
                  /\ bill'[i].coins = bill[i].coins]_paymentVars
  BY StepSound DEF Advances, Present, Final
<1>2. QED
  BY <1>1, PaymentsInvariant, PTL DEF PaymentsSpec, FinalizedFrozen
===============================================================================
