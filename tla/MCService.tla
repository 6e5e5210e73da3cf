----------------------------- MODULE MCService -----------------------------
(* Three runs over a month's end, under a plan capped at two runs and one  *)
(* without a cap; three messages and a fourth that arrives, read two at a  *)
(* time, three in a run.                                                   *)
EXTENDS Service, TLC

CONSTANTS r1, r2, r3, free, pro, business

MCCap == free :> 2 @@ business :> Unlimited
=============================================================================
