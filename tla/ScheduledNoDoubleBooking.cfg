\* Three requests race at an individual business.
CONSTANTS
    b1 = b1
    b2 = b2
    b3 = b3
    s1 = s1
    s2 = s2
    w1 = w1
    w2 = w2
    w3 = w3
    None = None
    Slot = {s1, s2}
    SlotOf <- ThreeRequests
    Booking = {b1, b2, b3}
    Provider = {1}
    MaxKey = 13
    Key <- Aligned
    Eligible <- Everybody
    Overlap <- Disjoint
    Individual = TRUE
    Required = 1
    Worker = {w1, w2, w3}
SPECIFICATION Spec
CHECK_DEADLOCK FALSE
SYMMETRY WorkerSymmetry
INVARIANT NoDoubleBooking
