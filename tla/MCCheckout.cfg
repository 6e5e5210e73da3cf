CONSTANTS
    w1 = w1
    s1 = s1
    small = small
    large = large
    wrong = wrong
    k1 = k1
    k2 = k2
    NoCall = NoCall
    NoCart = NoCart
    NoAnswer = NoAnswer
    Servers = {w1}
    Sessions = {s1}
    Carts = {small, large, wrong}
    Payable = {small, large}
    Keys = {k1, k2}
    Runs <- MCRuns
    Calls <- MCCalls
    MaxFaults = 2
SPECIFICATION FairSpec
INVARIANTS TypeOK CreditedOnce OrderTruth
PROPERTIES OrdersStand PaidGetsCompleted
CHECK_DEADLOCK FALSE
