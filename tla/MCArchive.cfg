CONSTANTS
    w1 = w1
    w2 = w2
    canary = canary
    batch = batch
    m1 = m1
    m2 = m2
    m3 = m3
    pick = pick
    rollout = rollout
    Nobody = Nobody
    NoPlan = NoPlan
    NoMessage = NoMessage
    NoApproval = NoApproval
    Workers = {w1, w2}
    Plans = {canary, batch}
    Messages = {m1, m2, m3}
    Approvals = {pick, rollout}
    PlanRows <- MCPlanRows
    Selection <- MCSelection
    CanaryOf <- MCCanaryOf
    Provider = "gmail"
    MaxActs = 1
SPECIFICATION Spec
SYMMETRY Symmetry
INVARIANTS TypeOK ReceiptTruth RolloutRestsOnCanary
PROPERTIES ImplementsLifecycle
CHECK_DEADLOCK FALSE
