SPECIFICATION FairSpec
CONSTANTS
    free = free
    pro = pro
    business = business
    r1 = r1
    r2 = r2
    r3 = r3
    Free = free
    NoEvent = NoEvent
    PaidPlans = {pro, business}
    MaxVersion = 3
    MaxTime = 2
    MaxFaults = 1
    Runs = {r1, r2, r3}
    Plans = {free, business}
    Unlimited = Unlimited
    NoPlan = NoPlan
    Cap <- MCCap
    MaxMonth = 2
    MaxGrants = 1
    MaxCrashes = 1
    MaxMail = 4
    Present = 3
    Leaves = {2}
    Held = {3}
    PageSize = 2
    Limit = 3
    MaxSweeps = 2
    MaxMishaps = 2
    NoCopy = NoCopy
INVARIANTS
    TypeOK
    SettledAgrees
    MeterTruth
    SweepCovers
PROPERTY AllArrive
CHECK_DEADLOCK FALSE
