CONSTANTS
    b1 = b1
    b2 = b2
    c1 = c1
    c2 = c2
    p1 = p1
    p2 = p2
    w1 = w1
    w2 = w2
    w3 = w3
    None = None
    Booking = {b1}
    Candidate = {c1, c2}
    Provider = {p1, p2}
    ProviderOf <- TwoProviders
    Worker = {w1, w2, w3}
    SearchWindow = 1
    TipPromptInterval = 1
    MaxTip = 0
    MaxClock = 1
SPECIFICATION Spec
CHECK_DEADLOCK FALSE
INVARIANT WinnerKeepsBooking
