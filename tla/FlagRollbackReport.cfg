CONSTANTS
  w1 = w1
  w2 = w2
  m1 = m1
  m2 = m2
  Nobody = Nobody
  NoMutation = NoMutation
  NoOverride = NoOverride
  Unknown = Unknown
  Workers <- MCWorkers
  Plans = {"plan"}
  Messages = {"mail1", "mail2"}
  Mutations <- MCMutations
  Approvals = {"ok"}
  Colors = {"none", "red"}
  HumanColors = {"none"}
  PlanOf <- MCPlanOf
  MessageOf <- MCMessageOf
  Observed <- MCObserved
  ApprovalPlan <- MCApprovalPlan
  Approved <- MCApproved
  ExecutionFlag <- MCExecutionFlag
  MaxCanary = 3
  Calls = {"apply", "canary", "rollback", "rollback_one", "probe"}
  Faults = {"lost", "unsynced", "unterminated", "torn"}
SPECIFICATION Spec
INVARIANT RollbackWritesCounted
