CONSTANTS
  w1 = w1
  w2 = w2
  m1 = m1
  m2 = m2
  Nobody = Nobody
  NoMutation = NoMutation
  NoOverride = NoOverride
  Unknown = Unknown
  Workers <- MCWorkers
  Plans = {"plan1", "plan2"}
  Messages = {"mail"}
  Mutations <- MCMutations
  Approvals <- MCApprovals
  Colors = {"none", "red", "blue"}
  HumanColors = {"none"}
  PlanOf <- MCPlanOf
  MessageOf <- MCMessageOf
  Observed <- MCObserved
  ApprovalPlan <- MCApprovalPlan
  Approved <- MCApproved
  ExecutionFlag <- MCExecutionFlag
  MaxCanary = 3
  Calls = {"apply", "rollback_one"}
  Faults = {"unterminated"}
SPECIFICATION Spec
INVARIANT OverrideIsUnexplained
