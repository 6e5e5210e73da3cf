CONSTANTS
    w1 = w1
    w2 = w2
    canary = canary
    batch = batch
    m1 = m1
    m2 = m2
    m3 = m3
    pick = pick
    rollout = rollout
    Nobody = Nobody
    NoPlan = NoPlan
    NoMessage = NoMessage
    NoApproval = NoApproval
    Workers = {w1}
    Plans = {canary, batch}
    Messages = {m1, m2, m3}
    Approvals = {pick, rollout}
    PlanRows <- MCPlanRows
    Selection <- MCSelection
    CanaryOf <- MCCanaryOf
    Provider = "icloud"
    MaxActs = 0
SPECIFICATION Spec
INVARIANTS RestoreCanBeProved
CHECK_DEADLOCK FALSE
