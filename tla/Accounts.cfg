\* A code for each kind of subject; four forms; one user, an e-mail address and
\* two phones; three addresses; a call and
\* a message.
CONSTANTS
    w1 = w1
    w2 = w2
    login = login
    phone = phone
    signup = signup
    deletion = deletion
    switch = switch
    completion = completion
    Subject = {login, phone, signup, deletion, switch, completion}
    KindOf <- MCKindOf
    UserOf <- MCUserOf
    MaxAttempts = 2
    MaxCode = 2
    CodeWorker = {w1, w2}
    NoSubject = NoSubject
    f1 = f1
    f2 = f2
    f3 = f3
    f4 = f4
    e1 = e1
    e2 = e2
    p1 = p1
    Form = {f1, f2, f3, f4}
    FormEmail <- MCFormEmail
    FormPhone <- MCFormPhone
    Email = {e1, e2}
    Phone = {p1}
    MaxAccount = 2
    MaxPending = 2
    FormWorker = {w1, w2}
    Nothing = Nothing
    u1 = u1
    n1 = n1
    n2 = n2
    Owner = {u1}
    Address = {e1}
    Number = {n1, n2}
    MaxClock = 1
    MaxLink = 1
    OwnerWorker = {w1, w2}
    NoContact = NoContact
    l1 = l1
    l2 = l2
    l3 = l3
    Resident = {u1}
    Place = {l1, l2, l3}
    MaxPlaces = 2
    PlaceWorker = {w1, w2}
    Nowhere = Nowhere
    c1 = c1
    m1 = m1
    Call = {c1}
    Message = {m1}
    TalkWorker = {w1, w2}
    Talk = Talk
SPECIFICATION Spec
SYMMETRY Symmetry
CONSTRAINT Bound
ACTION_CONSTRAINT AgeWhenQuiet
INVARIANT TypeOK
INVARIANT GuessLimit
INVARIANT OneUsable
INVARIANT ConfirmedAsSubmitted
INVARIANT ResetHolds
INVARIANT ContactsProven
INVARIANT AddressesInOrder
INVARIANT ConversationsInOrder
CHECK_DEADLOCK FALSE
