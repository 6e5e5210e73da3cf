----------------------------- MODULE MCFlagCall -----------------------------
(* One mutation and one worker at a time, approved twice: as a migration and *)
(* as a human canary that writes another flag.  Or the commands with two red *)
(* messages, one the classifier turns green on its own and one it leaves to  *)
(* a person; one canary of them, one process and one named path.  Or two     *)
(* schedulers, two envelopes and two labels.                                 *)
EXTENDS ApprovedChanges, TLC

CONSTANTS w1, m1, m2, s1

MCWorkers       == {w1}
MCMutations     == {m1}
MCPlanOf        == [m \in MCMutations |-> "plan"]
MCMessageOf     == [m \in MCMutations |-> "mail"]
MCObserved      == [m \in MCMutations |-> "none"]
MCApprovals     == {"migration", "canary"}
MCApprovalPlan  == [a \in MCApprovals |-> "plan"]
MCApproved      == [a \in MCApprovals |-> MCMutations]
MCExecutionFlag ==
    [a \in MCApprovals |->
        [m \in MCMutations |-> IF a = "canary" THEN "blue" ELSE "red"]]
MCText == m1 :> [signals |-> {"confirmed_event", "active_reference", "date"},
                 domain |-> "general"]
          @@ m2 :> [signals |-> {"active_reference"}, domain |-> "commerce"]
MCHome == [m \in {m1, m2} |-> s1]
=============================================================================
