------------------------------ MODULE MCArchive ------------------------------
(***************************************************************************)
(* Two processes, a canary over one message, and a plan over two others    *)
(* that is applied as a rollout resting on the canary.                     *)
(***************************************************************************)
EXTENDS ArchiveTransactions, TLC

CONSTANTS w1, w2, canary, batch, m1, m2, m3, pick, rollout

MCPlanRows == canary :> {m1} @@ batch :> {m2, m3}
MCSelection ==
    pick    :> (canary :> {m1} @@ batch :> {}) @@
    rollout :> (canary :> {} @@ batch :> {m2, m3})
MCCanaryOf == pick :> NoPlan @@ rollout :> canary
Symmetry == Permutations(Workers)
            \cup Permutations({m2, m3})
=============================================================================
