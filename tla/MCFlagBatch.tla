---------------------------- MODULE MCFlagBatch ----------------------------
(* One plan with two mutations on two messages, one approval for both.      *)
EXTENDS FlagInvariants, TLC

CONSTANTS w1, w2, m1, m2

MCWorkers       == {w1, w2}
WorkerSymmetry  == Permutations(MCWorkers)
MCMutations     == {m1, m2}
MCPlanOf        == [m \in MCMutations |-> "plan"]
MCMessageOf     == (m1 :> "mail1") @@ (m2 :> "mail2")
MCObserved      == [m \in MCMutations |-> "none"]
MCApprovalPlan  == [a \in {"ok"} |-> "plan"]
MCApproved      == [a \in {"ok"} |-> MCMutations]
MCExecutionFlag == [a \in {"ok"} |-> [m \in MCMutations |-> "red"]]
=============================================================================
