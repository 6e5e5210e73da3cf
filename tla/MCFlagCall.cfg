CONSTANTS
  w1 = w1
  m1 = m1
  Nobody = Nobody
  NoMutation = NoMutation
  NoOverride = NoOverride
  Unknown = Unknown
  Workers <- MCWorkers
  Plans = {"plan"}
  Messages = {"mail"}
  Mutations <- MCMutations
  Approvals <- MCApprovals
  Colors = {"none", "red", "blue"}
  HumanColors = {"none", "red", "blue"}
  PlanOf <- MCPlanOf
  MessageOf <- MCMessageOf
  Observed <- MCObserved
  ApprovalPlan <- MCApprovalPlan
  Approved <- MCApproved
  ExecutionFlag <- MCExecutionFlag
  MaxCanary = 3
  Calls = {"apply", "canary", "rollback", "rollback_one", "probe"}
  Faults = {"lost", "unsynced", "unterminated", "torn"}
  m2 = m2
  s1 = s1
  s2 = s2
  c1 = c1
  p1 = p1
  d1 = d1
  d2 = d2
  e1 = e1
  e2 = e2
  Msgs = {m1, m2}
  Text <- MCText
  Home <- MCHome
  TemporaryFlags = {"gray"}
  Surfaces = {s1, s2}
  Processes = {c1}
  Paths = {p1}
  Default = Default
  Nothing = Nothing
  MaxAudits = 1
  MaxApprovals = 1
  MaxPlans = 1
  MaxMishaps = 2
  Schedulers = {d1, d2}
  Envelopes = {e1, e2}
  Selected = 2
  NoScheduler = NoScheduler
  MaxKills = 1
  MaxForeign = 1
SPECIFICATION FairChangesSpec
INVARIANT ChangesTypeOK
INVARIANT RestoreMatchesReceipt
INVARIANT CompleteMissesNothing
INVARIANT UndoKept
INVARIANT WrittenWasApproved
INVARIANT ProposalSafe
INVARIANT DispatchedOnce
PROPERTY EveryCallReturns
CHECK_DEADLOCK FALSE
