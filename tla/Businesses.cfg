\* One user, who may be an individual or a company; an owner and an employee;
\* a service and two categories; the portfolio and a booking to be reviewed.
CONSTANTS
    w1 = w1
    w2 = w2
    u1 = u1
    Trader = {u1}
    BusinessType = {"INDIVIDUAL", "COMPANY"}
    MaxApplication = 2
    MaxBusiness = 2
    MaxUpgrade = 2
    BusinessWorker = {w1, w2}
    NoTrader = NoTrader
    emp = emp
    boss = boss
    s1 = s1
    s2 = s2
    Employee = {emp}
    Boss = boss
    Slot = {s1, s2}
    MaxSchedule = 3
    StaffWorker = {w1, w2}
    Nobody = Nobody
    v1 = v1
    c1 = c1
    c2 = c2
    d1 = d1
    Service = {v1}
    Category = {c1, c2}
    Subcategory = {d1}
    CategoryOf <- MCCategoryOf
    ServiceWorker = {w1, w2}
    Unfiled = Unfiled
    g1 = g1
    g2 = g2
    g3 = g3
    k1 = k1
    Picture = {g1, g2, g3}
    MaxGallery = 2
    MaxFaq = 2
    Reviewed = {k1}
    MaxImages = 1
    ShopWorker = {w1, w2}
    Noone = Noone
SPECIFICATION Spec
SYMMETRY Symmetry
CONSTRAINT Bound
INVARIANT TypeOK
INVARIANT BusinessApproved
INVARIANT CompaniesDocumented
INVARIANT OneSchedule
 
 
CHECK_DEADLOCK FALSE
