\* Two requests of any kind race at a company of three employees.
CONSTANTS
    b1 = b1
    b2 = b2
    b3 = b3
    s1 = s1
    s2 = s2
    w1 = w1
    w2 = w2
    w3 = w3
    None = None
    Slot = {s1, s2}
    SlotOf <- TwoRequests
    Booking = {b1, b2}
    Provider = {1, 2, 3}
    MaxKey = 13
    Key <- Aligned
    Eligible <- Teams
    Overlap <- Touching
    Individual = FALSE
    Required = 2
    Worker = {w1, w2}
SPECIFICATION Spec
CHECK_DEADLOCK FALSE
SYMMETRY WorkerSymmetry
CONSTRAINT PendingOrCancelled
INVARIANT CycleAcrossOrders
INVARIANT CrewWithinRequired
