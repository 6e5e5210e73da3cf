------------------------------ MODULE MCReview ------------------------------
(* A newsletter that cannot be read is first in line.  In the deal, m1 asks *)
(* for something and m2 says that it is done, in either order or on the     *)
(* same date.                                                              *)
EXTENDS ObligationReview

CONSTANTS news, deal, m0, m1, m2, ask, note

MCTalks  == <<news, deal>>
MCTalkOf == [m \in Messages |-> IF m = m0 THEN news ELSE deal]
MCRank   == (m0 :> 0) @@ (m1 :> 1) @@ (m2 :> 2)
MCSays   ==
    (m0 :> ((ask :> "none") @@ (note :> "non_action"))) @@
    (m1 :> ((ask :> "request") @@ (note :> "non_action"))) @@
    (m2 :> ((ask :> "completed") @@ (note :> "none")))
MCUnreadable == {m0}
MCQuestions  == {{}, {ask}}
=============================================================================
