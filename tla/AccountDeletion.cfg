\* The command and one request at a time: a customer and a business owner, a
\* scheduled and an instant booking.
CONSTANTS
    u1 = u1
    u2 = u2
    b1 = b1
    b2 = b2
    w1 = w1
    None = None
    User = {u1, u2}
    BusinessUser = {u2}
    Booking = {b1, b2}
    Instant = {b2}
    CustomerOf <- OneCustomer
    OwnerOf <- OneOwner
    GracePeriod = 1
    ExtensionPeriod = 1
    Worker = {w1}
SPECIFICATION FairSpec
INVARIANT TypeOK
 
PROPERTY PendingSettles
PROPERTY BlockedHoldEnds
