----------------------------- MODULE MCCheckout -----------------------------
(***************************************************************************)
(* One server, one session and three carts, one of them not payable; two   *)
(* keys for completions, so that a retry may come with a fresh one.        *)
(***************************************************************************)
EXTENDS AcpCheckout, TLC

CONSTANTS w1, s1, small, large, wrong, k1, k2

MCRuns == small :> 1 @@ large :> 3 @@ wrong :> 0
Post(op, key, body) == [op |-> op, session |-> s1, key |-> key, body |-> body]
MCCalls ==
    {Post("create", k1, small), Post("update", k1, large),
     Post("update", k1, wrong), Post("update", k1, NoCart),
     Post("cancel", k1, NoCart),
     Post("complete", k1, NoCart), Post("complete", k2, NoCart)}
=============================================================================
