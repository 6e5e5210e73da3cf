---------------------------- MODULE MCFlagPlans ----------------------------
(* Two plans over one message: the second is planned against the result of   *)
(* the first, and its lock does not exclude the first plan's workers.       *)
EXTENDS FlagTransactions, TLC

CONSTANTS w1, w2, m1, m2

MCWorkers       == {w1, w2}
WorkerSymmetry  == Permutations(MCWorkers)
MCMutations     == {m1, m2}
MCPlanOf        == (m1 :> "plan1") @@ (m2 :> "plan2")
MCMessageOf     == [m \in MCMutations |-> "mail"]
MCObserved      == (m1 :> "none") @@ (m2 :> "red")
MCApprovals     == {"first", "second"}
MCApprovalPlan  == ("first" :> "plan1") @@ ("second" :> "plan2")
MCApproved      == ("first" :> {m1}) @@ ("second" :> {m2})
MCExecutionFlag == ("first"  :> [m \in MCMutations |-> "red"])
                   @@ ("second" :> [m \in MCMutations |-> "blue"])
=============================================================================
