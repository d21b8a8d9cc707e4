----------------------------- MODULE InstantQuote -----------------------------
(***************************************************************************)
(* The quote of an instant booking: InstantBookingQuoteService             *)
(* (instant_bookings/services.py) and the fees of billing/calculators.py.  *)
(*                                                                         *)
(* Two questions are put for every service that matches the search: is a   *)
(* provider free to come and do it now, and what does it cost.  Both are   *)
(* computed from what is read, and nothing is stored: a behaviour is a     *)
(* question and its answer.                                                *)
(*                                                                         *)
(* Times are ticks of today.  Which services match the words of a search   *)
(* and how far away a business is are data.                                *)
(***************************************************************************)
EXTENDS Integers, Sequences, FiniteSets, Functions

CONSTANTS
    Midnight,       \* the ticks of a day
    MaxSlots,       \* bounds of the model: the slots of a day,
    MaxMinutes,     \* the time a service and the way to it take,
    MaxBookings,    \* the bookings of a provider today,
    MaxOffers,      \* the candidates,
    MaxPrice,       \* their prices, and the amounts where slabs may begin
    MaxDistance,    \* from where on a provider is too far away, 15 km
    FreeDistance,   \* free_distance_km
    RatePerKm,
    MaxSlabs,       \* the slabs of the platform fee
    Percentages,    \* of those slabs
    Endless         \* maximum_amount is null

ASSUME QuoteAssumption ==
    /\ Midnight \in Nat \ {0}
    /\ MaxSlots \in Nat /\ MaxMinutes \in Nat /\ MaxBookings \in Nat
    /\ MaxOffers \in Nat /\ MaxSlabs \in Nat /\ MaxPrice \in Nat /\ MaxDistance \in Nat
    /\ FreeDistance \in Nat /\ RatePerKm \in Nat
    /\ Percentages \subseteq 0 .. 100
    /\ Endless \notin Int

VARIABLES
    question,   \* what is read
    answer      \* what is computed from it; no record before

quoteVars == <<question, answer>>
-------------------------------------------------------------------------------
(* An EmployeeWorkingSchedule of today; times are on the clock.            *)
SlotRow == {s \in [start : 0 .. Midnight - 1, end : 0 .. Midnight - 1] :
               s.start < s.end}

(* The slots of a provider in the order of their starts, gaps and overlaps *)
(* allowed.                                                                *)
Schedules ==
    {f \in UNION {[1 .. n -> SlotRow] : n \in 0 .. MaxSlots} :
        \A i, j \in DOMAIN f : i < j => f[i].start <= f[j].start}

(* The sets of at most n members of S.                                     *)
UpTo(n, S) == UNION {{Range(f) : f \in [1 .. k -> S]} : k \in 0 .. n}

(* A booking of today that is pending, confirmed or in progress.           *)
BookedRow == [start : 0 .. Midnight - 1, duration : 1 .. MaxMinutes, underway : BOOLEAN]

HoursQuestion ==
    [about    : {"hours"},
     ready    : BOOLEAN,    \* available, and assigned to the service
     slots    : Schedules,
     bookings : UpTo(MaxBookings, BookedRow),
     now      : 0 .. Midnight - 1,
     required : 1 .. MaxMinutes]

(* A slab of PlatformFeeRule.                                              *)
Slab == [minimum    : 0 .. MaxPrice,
         maximum    : 0 .. MaxPrice \cup {Endless},
         percentage : Percentages]

Below(r, q) == r.maximum # Endless /\ r.maximum <= q.minimum

(* Of any two slabs one begins where the other ends or later, as the       *)
(* business rules list them.                                               *)
Slabs ==
    {slabs \in UpTo(MaxSlabs, {r \in Slab : r.maximum = Endless \/ r.minimum < r.maximum}) :
        \A q, r \in slabs : q = r \/ Below(q, r) \/ Below(r, q)}

Offer == [price : 0 .. MaxPrice, distance : 0 .. MaxDistance]

PriceQuestion ==
    [about  : {"price"},
     offers : UNION {[1 .. n -> Offer] : n \in 0 .. MaxOffers},
     slabs  : Slabs]

QuoteInit ==
    /\ question \in HoursQuestion \cup PriceQuestion
    /\ answer = [about |-> "nothing"]
-------------------------------------------------------------------------------
(* Is the provider free?                                                   *)

BookedEnd(b) == b.start + b.duration

SlotIsFree(slot, bookings) ==
    \A b \in bookings : ~(b.start < slot.end /\ BookedEnd(b) > slot.start)

(* The first slot of the moment; 0 if there is none.                       *)
CurrentSlot(slots, now) ==
    LET covering == {i \in DOMAIN slots : slots[i].start <= now /\ now < slots[i].end}
    IN  IF covering = {} THEN 0
        ELSE CHOOSE i \in covering : \A j \in covering : i <= j

(* Fault: a slot with a booking is passed over, and those after it added.  *)
LastSlotSkipping(slots, bookings, i) ==
    LET last[k \in i .. Len(slots)] ==
            IF k = i THEN i
            ELSE IF SlotIsFree(slots[k], bookings) THEN k
            ELSE last[k - 1]
    IN  last[Len(slots)]

(* The slots after slot i are added while they are free.                   *)
LastSlot(slots, bookings, i) ==
    LET last[k \in i .. Len(slots)] ==
            IF k = i THEN i
            ELSE IF last[k - 1] = k - 1 /\ SlotIsFree(slots[k], bookings) THEN k
            ELSE last[k - 1]
    IN  last[Len(slots)]

(* The end of the service is reduced to a time on the clock.               *)
InsideWorkingHours(q) ==
    LET i == CurrentSlot(q.slots, q.now) IN
    /\ i # 0
    /\ (q.now + q.required) % Midnight
           <= q.slots[LastSlot(q.slots, q.bookings, i)].end

ScheduledConflict(q) ==
    \E b \in q.bookings :
        \/ b.underway /\ q.now < BookedEnd(b)
        \/ b.start < q.now + q.required /\ BookedEnd(b) > q.now

Available(q) == q.ready /\ InsideWorkingHours(q) /\ ~ScheduledConflict(q)
-------------------------------------------------------------------------------
(* What does it cost?                                                      *)

(* ROUND_HALF_UP of x / y.                                                 *)
HalfUp(x, y) == (2 * x + y) \div (2 * y)

SumOf(f) == FoldFunction(LAMBDA x, y : x + y, 0, f)

(* The candidates that are near enough, and their average price.           *)
InReach(offers) == {i \in DOMAIN offers : offers[i].distance < MaxDistance}
AveragePrice(offers, I) ==
    HalfUp(SumOf([i \in I |-> offers[i].price]), Cardinality(I))

(* TravelFeeCalculator, of the average distance.                           *)
TravelCharge(offers, I) ==
    LET n == Cardinality(I)
        beyond == SumOf([i \in I |-> offers[i].distance]) - FreeDistance * n
    IN  IF beyond <= 0 THEN 0 ELSE HalfUp(beyond * RatePerKm, n)

(* PlatformFeeCalculator: of the slabs of an amount the one that begins    *)
(* last; both ends belong to a slab.                                       *)
SlabsOf(slabs, amount) ==
    {r \in slabs : /\ r.minimum <= amount
                   /\ r.maximum = Endless \/ amount <= r.maximum}

(* Fault: the one that begins first.                                       *)
ApplicableFirst(slabs, amount) ==
    {r \in SlabsOf(slabs, amount) :
        \A q \in SlabsOf(slabs, amount) : r.minimum <= q.minimum}

Applicable(slabs, amount) ==
    {r \in SlabsOf(slabs, amount) :
        \A q \in SlabsOf(slabs, amount) : q.minimum <= r.minimum}

PlatformFee(slabs, amount) ==
    IF amount <= 0 THEN {0}
    ELSE {HalfUp(amount * r.percentage, 100) : r \in Applicable(slabs, amount)}

Nearest(offers, I) ==
    CHOOSE i \in I : \A j \in I : \/ offers[i].distance < offers[j].distance
                                  \/ offers[i].distance = offers[j].distance /\ i <= j
-------------------------------------------------------------------------------
AnswerHours ==
    /\ question.about = "hours"
    /\ answer' = [about |-> "hours", free |-> Available(question)]

(* Nobody within reach.                                                    *)
AnswerNobody ==
    /\ question.about = "price"
    /\ InReach(question.offers) = {}
    /\ answer' = [about |-> "nobody"]

(* Without a slab for the price the request fails.                         *)
AnswerPrice ==
    LET I == InReach(question.offers)
        price == AveragePrice(question.offers, I)
        travel == TravelCharge(question.offers, I) IN
    /\ question.about = "price"
    /\ I # {}
    /\ \E fee \in PlatformFee(question.slabs, price) :
          answer' = [about |-> "price", price |-> price, travel |-> travel,
                     fee |-> fee, total |-> price + travel + fee,
                     first |-> Nearest(question.offers, I)]

QuoteNext ==
    /\ answer.about = "nothing"
    /\ AnswerHours \/ AnswerNobody \/ AnswerPrice
    /\ UNCHANGED question

QuoteSpec == QuoteInit /\ [][QuoteNext]_quoteVars
-------------------------------------------------------------------------------
(* Properties.                                                             *)

AnswerRow ==
    [about : {"nothing", "nobody"}] \cup [about : {"hours"}, free : BOOLEAN]
        \cup [about : {"price"}, price : Nat, travel : Nat, fee : Nat,
              total : Nat, first : Nat]

QuoteTypeOK == answer \in AnswerRow

(* From now until the service is done the provider works: the slots up to  *)
(* one in which that time lies are all free of bookings but the first, and *)
(* none of his bookings falls into it.                                     *)
HasTime(q) ==
    LET done == q.now + q.required IN
    /\ \E i, k \in DOMAIN q.slots :
          /\ q.slots[i].start <= q.now /\ q.now < q.slots[i].end
          /\ i <= k /\ done <= q.slots[k].end
          /\ \A j \in i + 1 .. k : SlotIsFree(q.slots[j], q.bookings)
    /\ \A b \in q.bookings : BookedEnd(b) <= q.now \/ done <= b.start

(* "minimum_amount <= base_amount < maximum_amount (or maximum_amount is   *)
(* null)": the comment on the slabs, which leaves out the upper end.       *)
Documented(slabs, amount) ==
    {r \in slabs : r.minimum <= amount
                     /\ (r.maximum = Endless \/ amount < r.maximum)}

(* A provider who is found free has the time, unless the service would end *)
(* after midnight; the price lies between the cheapest and the dearest of  *)
(* the candidates; and the fee is that of an amount for which, wherever    *)
(* the comment provides for a slab, that one alone applies.  The amount is *)
(* the price, as the code has it, or the price with the way to the         *)
(* customer, as the business rules have it ("Service + Extended Service +  *)
(* Materials + Travel"): this does not say that the code is right about it.*)
QuotesInOrder ==
    /\ answer.about = "hours" /\ answer.free =>
          HasTime(question) \/ question.now + question.required >= Midnight
    /\ answer.about = "price" =>
          LET prices == {question.offers[i].price : i \in InReach(question.offers)}
              bases == {answer.price, answer.price + answer.travel} IN
          /\ \E p \in prices : p <= answer.price
          /\ \E p \in prices : answer.price <= p
          /\ \E base \in bases : answer.fee \in PlatformFee(question.slabs, base)
          /\ \A base \in bases :
                \A r \in Documented(question.slabs, base) :
                    Applicable(question.slabs, base) = {r}
===============================================================================
