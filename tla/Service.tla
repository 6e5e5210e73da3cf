------------------------------ MODULE Service ------------------------------
(***************************************************************************)
(* Three programs around one account: the webhook that writes its plan     *)
(* (StripeWebhook), the metering that charges its live runs (RunMetering), *)
(* and the triage such a run performs (Labeler).  They share one value, the *)
(* plan, which RunMetering lets change at any time; and metering asks of a *)
(* triage only whether it raised.  So a behaviour drives one of them.      *)
(***************************************************************************)
EXTENDS StripeWebhook, RunMetering, Labeler

VARIABLE program  \* the one this behaviour drives

vars == <<program, webhookVars, meteringVars, labelerVars>>

TypeOK == WebhookTypeOK /\ MeteringTypeOK /\ LabelerTypeOK

\* A new account is on the free plan.
Init ==
    /\ program \in {"webhook", "metering", "labeler"}
    /\ WebhookInit /\ MeteringInit /\ LabelerInit
    /\ plan = Free
    /\ program # "labeler" => setup = [provider |-> "imap", vaulted |-> FALSE]

WebhookOnly(A) ==
    program = "webhook" /\ A /\ UNCHANGED <<program, meteringVars, labelerVars>>

Next ==
    \/ WebhookOnly(WebhookNext)
    \/ /\ program = "metering" /\ MeteringNext
       /\ UNCHANGED <<program, webhookVars, labelerVars>>
    \/ /\ program = "labeler" /\ LabelerNext
       /\ UNCHANGED <<program, webhookVars, meteringVars>>

Spec == Init /\ [][Next]_vars

\* A handler that runs goes on, and Stripe goes on delivering: while there is
\* anything to deliver, it does not forget the oldest for ever.
Fairness ==
    /\ WF_vars(WebhookOnly(Handle))
    /\ WF_vars(WebhookOnly(\E e \in pending : Deliver(e)))

FairSpec == Spec /\ Fairness
-----------------------------------------------------------------------------
\* Every event is taken in at last: nothing is acknowledged unrecorded, and
\* failed deliveries keep none of the others waiting for ever.
AllArrive == <>[](pending \subseteq processed /\ event = Nothing)
=============================================================================
