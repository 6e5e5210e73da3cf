---------------------------- MODULE StripeWebhook ----------------------------
(***************************************************************************)
(* The Stripe webhook of one customer (api/billing.py), the account row it *)
(* writes (api/store.py) and the entitlements read from it (api/plans.py). *)
(*                                                                         *)
(* The API is one process and handles deliveries one after the other; it   *)
(* may die, or the store may raise, between two transactions.  Stripe is   *)
(* external: it delivers an event until it is acknowledged, in any order,  *)
(* and once more when the acknowledgement was lost.                        *)
(***************************************************************************)
EXTENDS Naturals

CONSTANTS
    PaidPlans,   \* plans with a configured Stripe price
    MaxVersion,  \* bound: changes of the subscription at Stripe
    MaxTime,     \* bound: billing periods that pass
    MaxFaults,   \* bound: deliveries that end in a crash or a 500
    Free, NoEvent

ASSUME WebhookAssumption ==
    /\ Free \notin PaidPlans
    /\ MaxVersion \in Nat /\ MaxTime \in Nat /\ MaxFaults \in Nat

VARIABLES
    now,        \* billing periods that have passed
    sub,        \* Stripe: the subscription
    pending,    \* Stripe: events not yet acknowledged
    account,    \* the account row
    processed,  \* webhook_events
    event,      \* the delivery that is being handled
    faults,     \* deliveries that failed so far
    newest,     \* history: the version of the newest event applied
    overtaken   \* history: an event was applied after a newer one

store == <<account, processed>>
history == <<newest, overtaken>>
webhookVars == <<now, sub, pending, account, processed, event, faults,
                 newest, overtaken>>
-----------------------------------------------------------------------------
Tiers    == PaidPlans \cup {Free}
\* "active" stands for trialing too.
Statuses == {"none", "active", "past_due", "unpaid", "canceled"}
Types    == {"checkout", "created", "updated", "deleted", "invoice_paid",
             "invoice_failed"}
Periods  == 0..(MaxTime + 1)
Events   == [type : Types, version : 1..MaxVersion, plan : Tiers,
             status : Statuses, period : Periods]
Nothing  == [what |-> NoEvent, applied |-> FALSE]

\* period: current_period_end, 0 as long as no event has told it.
Accounts == [linked : BOOLEAN, plan : Tiers, status : Statuses,
             period : Periods]

WebhookTypeOK ==
    /\ now \in 0..MaxTime
    /\ sub \in [plan : Tiers, status : Statuses, version : 0..MaxVersion,
                period : Periods]
    /\ pending \subseteq Events
    /\ account \in Accounts
    /\ processed \subseteq Events
    /\ event \in [what : Events \cup {NoEvent}, applied : BOOLEAN]
    /\ faults \in 0..MaxFaults
    /\ newest \in 0..MaxVersion
    /\ overtaken \in BOOLEAN

WebhookInit ==
    /\ now = 0
    /\ sub = [plan |-> Free, status |-> "none", version |-> 0, period |-> 0]
    /\ pending = {}
    /\ account = [linked |-> FALSE, plan |-> Free, status |-> "active",
                  period |-> 0]
    /\ processed = {}
    /\ event = Nothing
    /\ faults = 0
    /\ newest = 0
    /\ overtaken = FALSE
-----------------------------------------------------------------------------
(* Stripe.                                                                 *)

\* The subscription changes, and Stripe has events of these types to deliver.
Change(plan, status, period, types) ==
    LET v == sub.version + 1
    IN  /\ sub.version < MaxVersion
        /\ sub' = [plan |-> plan, status |-> status, version |-> v,
                   period |-> period]
        /\ pending' = pending \cup
               {[type |-> t, version |-> v, plan |-> plan, status |-> status,
                 period |-> period] : t \in types}
        /\ UNCHANGED <<store, event, faults, history>>

Tick == now < MaxTime /\ now' = now + 1

Subscribe ==
    /\ sub.status \in {"none", "canceled"}
    /\ \E p \in PaidPlans :
           Change(p, "active", now + 1, {"checkout", "created"})
    /\ UNCHANGED now

SwitchPlan ==
    /\ sub.status = "active"
    /\ \E p \in PaidPlans \ {sub.plan} :
           Change(p, "active", sub.period, {"updated"})
    /\ UNCHANGED now

\* The end of a period: the invoice of the next one is paid or it is not.
Renews ==
    /\ sub.status = "active"
    /\ Tick
    /\ Change(sub.plan, "active", now + 2, {"updated", "invoice_paid"})

PaymentFails ==
    /\ sub.status = "active"
    /\ Tick
    /\ Change(sub.plan, "past_due", now + 2, {"updated", "invoice_failed"})

PaymentMade ==
    /\ sub.status = "past_due"
    /\ sub.period > now
    /\ Change(sub.plan, "active", sub.period, {"updated", "invoice_paid"})
    /\ UNCHANGED now

GivesUp ==
    /\ sub.status = "past_due"
    /\ Change(sub.plan, "unpaid", sub.period, {"updated"})
    /\ UNCHANGED now

Ends ==
    /\ sub.status \in {"active", "past_due", "unpaid"}
    /\ Change(sub.plan, "canceled", sub.period, {"deleted"})
    /\ UNCHANGED now

TimePasses ==
    /\ sub.status # "active"
    /\ Tick
    /\ UNCHANGED <<sub, pending, store, event, faults, history>>
-----------------------------------------------------------------------------
(* The webhook.                                                            *)

\* is_event_processed: a redelivery is acknowledged and skipped.
Duplicate(e) ==
    /\ event = Nothing
    /\ e \in pending \cap processed
    /\ pending' = pending \ {e}
    /\ UNCHANGED <<now, sub, store, event, faults, history>>

\* Slip: the event id is recorded before its effects.
DeliverMarking(e) ==
    /\ event = Nothing
    /\ e \in pending \ processed
    /\ event' = [what |-> e, applied |-> FALSE]
    /\ processed' = processed \cup {e}
    /\ UNCHANGED <<now, sub, pending, account, faults, history>>

\* Slip: while one event has failed, the others wait for its redelivery.
DeliverInOrder(e) ==
    /\ event = Nothing
    /\ e \in pending \ processed
    /\ e.version >= newest
    /\ event' = [what |-> e, applied |-> FALSE]
    /\ UNCHANGED <<now, sub, pending, store, faults, history>>

Deliver(e) ==
    /\ event = Nothing
    /\ e \in pending \ processed
    /\ event' = [what |-> e, applied |-> FALSE]
    /\ UNCHANGED <<now, sub, pending, store, faults, history>>

\* Slip: an invoice writes the plan it does not carry.
AfterWriting(e, a) ==
    IF e.type \in {"invoice_paid", "invoice_failed"}
    THEN [a EXCEPT !.status = e.status, !.plan = NoEvent]
    ELSE [a EXCEPT !.linked = TRUE, !.status = e.status, !.plan = e.plan]

\* _handle_event: the account row after the event.  An invoice of a customer
\* no account is linked to is acknowledged without effect.
After(e, a) ==
    CASE e.type = "checkout" ->
           [a EXCEPT !.linked = TRUE, !.status = "active", !.plan = e.plan]
      [] e.type \in {"created", "updated"} ->
           [a EXCEPT !.linked = TRUE, !.status = e.status,
                     !.period = e.period,
                     !.plan = IF e.status = "unpaid" THEN Free ELSE e.plan]
      [] e.type = "deleted" ->
           [a EXCEPT !.linked = TRUE, !.status = "canceled", !.plan = Free,
                     !.period = e.period]
      [] e.type = "invoice_paid" ->
           IF a.linked THEN [a EXCEPT !.status = "active"] ELSE a
      [] e.type = "invoice_failed" ->
           IF a.linked THEN [a EXCEPT !.status = "past_due"] ELSE a

Apply ==
    /\ event # Nothing /\ ~event.applied
    /\ LET e == event.what
       IN  /\ account' = After(e, account)
           /\ overtaken' = (overtaken \/ e.version < newest)
           /\ newest' = IF e.version < newest THEN newest ELSE e.version
    /\ event' = [event EXCEPT !.applied = TRUE]
    /\ UNCHANGED <<now, sub, pending, processed, faults>>

\* mark_event_processed and 200: Stripe gets it, or delivers once more.
MarkProcessed ==
    /\ event.applied
    /\ processed' = processed \cup {event.what}
    /\ pending' \in {pending, pending \ {event.what}}
    /\ event' = Nothing
    /\ UNCHANGED <<now, sub, account, faults, history>>

\* A crash, or 500: before or after the effects, never recorded.
Fail ==
    /\ event # Nothing
    /\ faults < MaxFaults
    /\ faults' = faults + 1
    /\ event' = Nothing
    /\ UNCHANGED <<now, sub, pending, store, history>>

\* entitlements_for: the plan whose limits the account gets.
Entitled ==
    IF account.status = "active"
       /\ (account.period = 0 \/ account.period > now)
    THEN account.plan ELSE Free

Handle == Apply \/ MarkProcessed

WebhookNext ==
    \/ Subscribe \/ SwitchPlan \/ Renews \/ PaymentFails \/ PaymentMade
    \/ GivesUp \/ Ends \/ TimePasses
    \/ \E e \in pending : Duplicate(e) \/ Deliver(e)
    \/ Handle \/ Fail
-----------------------------------------------------------------------------
(* Properties.                                                             *)

\* What the subscription is worth at Stripe.
Worth == IF sub.status = "active" THEN sub.plan ELSE Free

\* Once Stripe has nothing left to deliver the account has the limits of its
\* subscription, whatever was delivered twice, interrupted or lost on the way,
\* unless an event was applied after a newer one; and whatever overtook what,
\* paid limits never outlast the last period that was sold: a late event can
\* revive a canceled subscription only until that period ends.
SettledAgrees ==
    pending = {} /\ event = Nothing =>
        /\ ~overtaken => Entitled = Worth
        /\ Entitled # Free => sub.period > now
=============================================================================
