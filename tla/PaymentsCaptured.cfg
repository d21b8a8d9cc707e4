\* The versions of one bill, two orders, a customer and an administrator.
CONSTANTS
    k1 = k1
    i1 = i1
    i2 = i2
    i3 = i3
    o1 = o1
    o2 = o2
    p1 = p1
    p2 = p2
    w1 = w1
    w2 = w2
    NoneYet = NoneYet
    Booking = {k1}
    Bill = {i1, i2, i3}
    Order = {o1, o2}
    Payer = {p1, p2}
    Bonus = 1
    MaxAmount = 1
    PayWorker = {w1, w2}
    h1 = h1
    a1 = a1
    a2 = a2
    Holder = {h1}
    Account = {a1, a2}
    MaxPosted = 4
    LedgerWorker = {w1, w2}
    Nobody = Nobody
    Midnight = 4
    MaxSlots = 3
    MaxMinutes = 2
    MaxBookings = 2
    MaxOffers = 2
    MaxPrice = 3
    MaxDistance = 3
    FreeDistance = 1
    RatePerKm = 1
    MaxSlabs = 2
    Percentages = {0, 50}
    Endless = Endless
    Parts = {"payments"}
SPECIFICATION Spec
CHECK_DEADLOCK FALSE
SYMMETRY Symmetry
INVARIANT CapturedIsPaid
