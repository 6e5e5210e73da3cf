--------------------------- MODULE ServiceProofs ---------------------------
(***************************************************************************)
(* What holds of the three programs around an account for any number of    *)
(* events, runs, months, messages and mishaps.                             *)
(*                                                                         *)
(* A behaviour drives one program, so an invariant of a program is proved  *)
(* from its own next-state action; the end of the module puts them         *)
(* together.                                                               *)
(***************************************************************************)
EXTENDS Service, FiniteSetTheorems, WellFoundedInduction, TLAPS

-----------------------------------------------------------------------------
(* The webhook.  Every change at Stripe has one event that carries the      *)
(* whole subscription.  Once that of the newest change was applied in its   *)
(* turn, the account reflects the subscription, and what else is applied of *)
(* this change repeats what the account says already.                       *)

Whole(e) == e.type \in {"created", "updated", "deleted"}

Fits(type, status) ==
    /\ type = "deleted" <=> status = "canceled"
    /\ type \in {"checkout", "created", "invoice_paid"} => status = "active"
    /\ type = "invoice_failed" => status = "past_due"
    /\ type = "updated" => status \in {"active", "past_due", "unpaid"}

Reflects(a, s) ==
    /\ a.linked /\ a.status = s.status /\ a.period = s.period
    /\ a.plan = IF s.status \in {"unpaid", "canceled"} THEN Free ELSE s.plan

(* What was applied and will not be applied once more without being         *)
(* forgotten first.                                                         *)
Taken == processed \cup (IF event.applied THEN {event.what} ELSE {})

SubscriptionSound ==
    /\ newest <= sub.version
    /\ sub.period <= now + 1
    /\ sub.status = "active" => sub.period > now
    /\ sub.version = 0 =>
         /\ pending = {} /\ processed = {}
         /\ account.plan = Free /\ sub.status = "none"
    /\ sub.version > 0 =>
         /\ sub.period > 0
         /\ \E e \in pending \cup processed : Whole(e) /\ e.version = sub.version

EventSound(e) ==
    /\ e.version <= sub.version
    /\ e.period \in 1..sub.period
    /\ Fits(e.type, e.status)
    /\ e.version = sub.version =>
         e.plan = sub.plan /\ e.status = sub.status /\ e.period = sub.period

WebhookInv ==
    /\ WebhookTypeOK
    /\ SubscriptionSound
    /\ \A e \in pending \cup processed : EventSound(e)
    /\ event = Nothing \/ event.what \in pending \ processed
    /\ account.period <= sub.period
    /\ \A e \in Taken :
         /\ e.version <= newest
         /\ Whole(e) => account.period > 0
         /\ Whole(e) /\ e.version = sub.version /\ ~overtaken => Reflects(account, sub)

(* A new account. *)
LEMMA WebhookInitially ==
    ASSUME WebhookInit
    PROVE  WebhookInv
  <1>1. sub \in [plan : Tiers, status : Statuses, version : 0..MaxVersion, period : Periods]
    BY WebhookAssumption DEF WebhookInit, Tiers, Statuses, Periods
  <1>2. account \in Accounts
    BY WebhookAssumption DEF WebhookInit, Accounts, Tiers, Statuses, Periods
  <1>3. event \in [what : Events \cup {NoEvent}, applied : BOOLEAN] /\ ~event.applied
    BY DEF WebhookInit, Nothing
  <1>4. WebhookTypeOK
    <2>1. /\ now = 0 /\ pending = {} /\ processed = {} /\ faults = 0 /\ newest = 0
          /\ overtaken = FALSE
      BY DEF WebhookInit
    <2>2. 0 \in 0..MaxTime /\ 0 \in 0..MaxFaults /\ 0 \in 0..MaxVersion
      BY WebhookAssumption
    <2>3. QED
      BY <1>1, <1>2, <1>3, <2>1, <2>2 DEF WebhookTypeOK
  <1>5. SubscriptionSound /\ account.period <= sub.period
    BY DEF WebhookInit, SubscriptionSound
  <1>6. Taken = {}
    BY <1>3 DEF WebhookInit, Taken
  <1>7. QED
    BY <1>3, <1>4, <1>5, <1>6 DEF WebhookInv, WebhookInit

(* A change at Stripe: nothing of it was applied yet. *)
LEMMA ChangeSound ==
    ASSUME WebhookInv,
           NEW p \in Tiers, NEW status \in Statuses, NEW period \in Nat,
           NEW types \in SUBSET Types,
           Change(p, status, period, types),
           NEW later \in now..MaxTime, now' = later,
           period \in 1..(later + 1), period >= sub.period,
           status # "none", status = "active" => period > later,
           \A t \in types : Fits(t, status),
           \E t \in types : t \in {"created", "updated", "deleted"}
    PROVE  WebhookInv'
  <1> DEFINE New(t) == [type |-> t, version |-> sub.version + 1, plan |-> p,
                        status |-> status, period |-> period]
             fresh == {New(t) : t \in types}
  <1>1. /\ sub.version \in Nat /\ sub.version < MaxVersion /\ sub.period \in Nat
        /\ now \in Nat /\ MaxTime \in Nat /\ later \in 0..MaxTime
    BY WebhookAssumption DEF WebhookInv, WebhookTypeOK, Change, Periods
  <1>2. /\ sub' = [plan |-> p, status |-> status, version |-> sub.version + 1,
                   period |-> period]
        /\ pending' = pending \cup fresh
        /\ account' = account /\ processed' = processed /\ event' = event
        /\ now' = later /\ faults' = faults /\ newest' = newest /\ overtaken' = overtaken
    BY DEF Change, store, history
  <1>3. \A t \in types : New(t) \in Events
    <2>1. sub.version + 1 \in 1..MaxVersion
      BY <1>1, WebhookAssumption
    <2>2. period \in 0..(MaxTime + 1)
      BY <1>1, WebhookAssumption
    <2>3. QED
      BY <2>1, <2>2 DEF Events, Periods
  <1>4. \A e \in pending \cup processed : e \in Events /\ EventSound(e)
    BY DEF WebhookInv, WebhookTypeOK
  <1>5. WebhookTypeOK'
    <2>1. sub' \in [plan : Tiers, status : Statuses, version : 0..MaxVersion, period : Periods]
      BY <1>1, <1>2, WebhookAssumption DEF Periods
    <2>2. QED
      BY <1>1, <1>2, <1>3, <2>1 DEF WebhookInv, WebhookTypeOK
  <1>6. \A e \in (pending \cup processed)' : EventSound(e)'
    <2>1. ASSUME NEW t \in types, NEW e, e = New(t) PROVE EventSound(e)'
      <3>1. /\ e.type = t /\ e.version = sub.version + 1 /\ e.plan = p
            /\ e.status = status /\ e.period = period
        BY <2>1
      <3>2. /\ sub'.version = sub.version + 1 /\ sub'.plan = p
            /\ sub'.status = status /\ sub'.period = period
        BY <1>2
      <3>3. Fits(t, status) /\ period \in 1..period
        OBVIOUS
      <3>4. QED
        BY <1>1, <3>1, <3>2, <3>3 DEF EventSound
    <2>2. ASSUME NEW e \in pending \cup processed PROVE EventSound(e)'
      <3>1. e.version <= sub.version /\ e.period \in 1..sub.period /\ e.version \in Nat
        BY <1>4 DEF EventSound, Events
      <3>2. QED
        BY <1>1, <1>2, <1>4, <3>1 DEF EventSound
    <2>3. QED
      BY <1>2, <2>1, <2>2
  <1>7. SubscriptionSound'
    <2>1. \E e \in pending' : Whole(e) /\ e.version = sub'.version
      <3>1. PICK t \in types : t \in {"created", "updated", "deleted"}
        OBVIOUS
      <3>2. New(t) \in pending' /\ Whole(New(t)) /\ New(t).version = sub'.version
        BY <1>2, <3>1 DEF Whole
      <3>3. QED
        BY <3>2
    <2>2. newest \in Nat /\ newest <= sub.version
      BY DEF WebhookInv, WebhookTypeOK, SubscriptionSound
    <2>3. QED
      BY <1>1, <1>2, <2>1, <2>2 DEF SubscriptionSound
  <1>8. account'.period <= sub'.period
    BY <1>1, <1>2 DEF WebhookInv, WebhookTypeOK, Accounts, Periods
  <1>9. event = Nothing \/ event.what \in pending \ processed
    BY DEF WebhookInv
  <1>10. Taken' = Taken /\ Taken \subseteq pending \cup processed
    BY <1>2, <1>9 DEF Taken, Nothing
  <1>11. \A e \in Taken' :
           /\ e.version <= newest'
           /\ Whole(e) => account'.period > 0
           /\ Whole(e) /\ e.version = sub'.version /\ ~overtaken' => Reflects(account, sub)'
    <2> SUFFICES ASSUME NEW e \in Taken
                 PROVE  /\ e.version <= newest
                        /\ Whole(e) => account.period > 0
                        /\ e.version # sub.version + 1
      BY <1>2, <1>10
    <2>1. e.version \in Nat /\ e.version <= sub.version
      BY <1>4, <1>10 DEF EventSound, Events
    <2>2. QED
      BY <1>1, <2>1 DEF WebhookInv
  <1>12. QED
    BY <1>2, <1>5, <1>6, <1>7, <1>8, <1>9, <1>11 DEF WebhookInv

(* Every change that Stripe makes is one of those. *)
LEMMA StripeSound ==
    ASSUME WebhookInv,
           \/ Subscribe \/ SwitchPlan \/ Renews \/ PaymentFails \/ PaymentMade
           \/ GivesUp \/ Ends \/ TimePasses
    PROVE  WebhookInv'
  <1>1. /\ now \in 0..MaxTime /\ sub.plan \in Tiers /\ sub.status \in Statuses
        /\ sub.period \in Nat /\ sub.version \in Nat /\ MaxTime \in Nat
        /\ sub.period <= now + 1
        /\ sub.status = "active" => sub.period > now
        /\ sub.status # "none" => sub.period > 0
    BY WebhookAssumption DEF WebhookInv, WebhookTypeOK, SubscriptionSound, Periods
  <1>2. CASE Subscribe
    <2>1. PICK p \in PaidPlans : Change(p, "active", now + 1, {"checkout", "created"})
      BY <1>2 DEF Subscribe
    <2>2. now' = now /\ p \in Tiers /\ {"checkout", "created"} \in SUBSET Types
      BY <1>2 DEF Subscribe, Tiers, Types
    <2>3. \A t \in {"checkout", "created"} : Fits(t, "active")
      BY DEF Fits
    <2>4. QED
      BY <1>1, <2>1, <2>2, <2>3, ChangeSound DEF Statuses
  <1>3. CASE SwitchPlan
    <2>1. PICK p \in PaidPlans : Change(p, "active", sub.period, {"updated"})
      BY <1>3 DEF SwitchPlan
    <2>2. now' = now /\ sub.status = "active" /\ p \in Tiers /\ {"updated"} \in SUBSET Types
      BY <1>3 DEF SwitchPlan, Tiers, Types
    <2>3. \A t \in {"updated"} : Fits(t, "active")
      BY DEF Fits
    <2>4. QED
      BY <1>1, <2>1, <2>2, <2>3, ChangeSound DEF Statuses
  <1>4. CASE Renews
    <2>1. /\ now' = now + 1 /\ now < MaxTime /\ {"updated", "invoice_paid"} \in SUBSET Types
          /\ Change(sub.plan, "active", now + 2, {"updated", "invoice_paid"})
      BY <1>4 DEF Renews, Tick, Types
    <2>2. \A t \in {"updated", "invoice_paid"} : Fits(t, "active")
      BY DEF Fits
    <2>3. QED
      BY <1>1, <2>1, <2>2, ChangeSound DEF Statuses
  <1>5. CASE PaymentFails
    <2>1. /\ now' = now + 1 /\ now < MaxTime /\ {"updated", "invoice_failed"} \in SUBSET Types
          /\ Change(sub.plan, "past_due", now + 2, {"updated", "invoice_failed"})
      BY <1>5 DEF PaymentFails, Tick, Types
    <2>2. \A t \in {"updated", "invoice_failed"} : Fits(t, "past_due")
      BY DEF Fits
    <2>3. QED
      BY <1>1, <2>1, <2>2, ChangeSound DEF Statuses
  <1>6. CASE PaymentMade
    <2>1. /\ now' = now /\ sub.period > now /\ {"updated", "invoice_paid"} \in SUBSET Types
          /\ Change(sub.plan, "active", sub.period, {"updated", "invoice_paid"})
      BY <1>6 DEF PaymentMade, Types
    <2>2. \A t \in {"updated", "invoice_paid"} : Fits(t, "active")
      BY DEF Fits
    <2>3. QED
      BY <1>1, <2>1, <2>2, ChangeSound DEF Statuses
  <1>7. CASE GivesUp
    <2>1. /\ now' = now /\ sub.status = "past_due" /\ {"updated"} \in SUBSET Types
          /\ Change(sub.plan, "unpaid", sub.period, {"updated"})
      BY <1>7 DEF GivesUp, Types
    <2>2. \A t \in {"updated"} : Fits(t, "unpaid")
      BY DEF Fits
    <2>3. QED
      BY <1>1, <2>1, <2>2, ChangeSound DEF Statuses
  <1>8. CASE Ends
    <2>1. /\ now' = now /\ sub.status # "none" /\ {"deleted"} \in SUBSET Types
          /\ Change(sub.plan, "canceled", sub.period, {"deleted"})
      BY <1>8 DEF Ends, Types
    <2>2. \A t \in {"deleted"} : Fits(t, "canceled")
      BY DEF Fits
    <2>3. QED
      BY <1>1, <2>1, <2>2, ChangeSound DEF Statuses
  <1>9. CASE TimePasses
    <2>1. /\ sub.status # "active" /\ now' = now + 1 /\ now < MaxTime
          /\ UNCHANGED <<sub, pending, account, processed, event, faults, newest, overtaken>>
      BY <1>9 DEF TimePasses, Tick, store, history
    <2>2. WebhookTypeOK'
      BY <1>1, <2>1 DEF WebhookInv, WebhookTypeOK
    <2>3. SubscriptionSound'
      BY <1>1, <2>1 DEF WebhookInv, SubscriptionSound
    <2>4. QED
      BY <2>1, <2>2, <2>3 DEF WebhookInv, EventSound, Taken, Reflects
  <1>10. QED
    BY <1>2, <1>3, <1>4, <1>5, <1>6, <1>7, <1>8, <1>9

(* The effects of an event.  One of the newest change is repeated without   *)
(* effect once the whole subscription was taken over.                       *)
LEMMA ApplySound ==
    ASSUME WebhookInv, Apply
    PROVE  WebhookInv'
  <1> DEFINE e == event.what
  <1>1. /\ ~event.applied /\ event # Nothing
        /\ account' = After(e, account)
        /\ overtaken' = (overtaken \/ e.version < newest)
        /\ newest' = IF e.version < newest THEN newest ELSE e.version
        /\ event' = [event EXCEPT !.applied = TRUE]
        /\ UNCHANGED <<now, sub, pending, processed, faults>>
    BY DEF Apply
  <1>2. e \in pending \ processed
    BY <1>1 DEF WebhookInv
  <1>3. e \in Events /\ EventSound(e)
    BY <1>2 DEF WebhookInv, WebhookTypeOK
  <1>4. /\ event' = [what |-> e, applied |-> TRUE] /\ overtaken \in BOOLEAN
        /\ account \in Accounts /\ newest \in 0..MaxVersion /\ sub.version \in Nat
        /\ e.version \in 1..MaxVersion /\ sub.period \in Nat /\ account.period \in Nat
        /\ e.version \in Nat /\ newest \in Nat
    <2>1. event' = [what |-> e, applied |-> TRUE]
      BY <1>1 DEF WebhookInv, WebhookTypeOK
    <2>2. QED
      BY <1>3, <2>1, WebhookAssumption DEF WebhookInv, WebhookTypeOK, Events, Accounts, Periods
  <1>5. /\ Whole(e) => account' = [linked |-> TRUE, status |-> e.status, period |-> e.period,
                              plan |-> IF e.status \in {"unpaid", "canceled"} THEN Free ELSE e.plan]
        /\ ~Whole(e) => /\ account' \in Accounts
                        /\ account'.period = account.period
                        /\ Reflects(account, e) => account' = account
    <2>1. CASE e.type = "checkout"
      BY <1>1, <1>3, <1>4, <2>1 DEF After, Whole, Reflects, Accounts, Events, EventSound, Fits, Statuses
    <2>2. CASE e.type \in {"created", "updated"}
      BY <1>1, <1>3, <1>4, <2>2 DEF After, Whole, Accounts, EventSound, Fits
    <2>3. CASE e.type = "deleted"
      BY <1>1, <1>3, <1>4, <2>3 DEF After, Whole, Accounts, EventSound, Fits
    <2>4. CASE e.type = "invoice_paid"
      BY <1>1, <1>3, <1>4, <2>4 DEF After, Whole, Reflects, Accounts, Events, EventSound, Fits, Statuses
    <2>5. CASE e.type = "invoice_failed"
      BY <1>1, <1>3, <1>4, <2>5 DEF After, Whole, Reflects, Accounts, Events, EventSound, Fits, Statuses
    <2>6. QED
      BY <1>3, <2>1, <2>2, <2>3, <2>4, <2>5 DEF Events, Types
  <1>6. account' \in Accounts /\ account'.period <= sub.period
    <2>1. /\ e.status \in Statuses /\ e.plan \in Tiers /\ Free \in Tiers
          /\ e.period \in Periods /\ e.period <= sub.period
      BY <1>3, <1>4 DEF Events, EventSound, Tiers
    <2>2. account.period <= sub.period
      BY DEF WebhookInv
    <2>3. CASE Whole(e)
      <3> DEFINE got == IF e.status \in {"unpaid", "canceled"} THEN Free ELSE e.plan
      <3>1. got \in Tiers
        BY <2>1
      <3> HIDE DEF got
      <3>2. account' = [linked |-> TRUE, status |-> e.status, period |-> e.period, plan |-> got]
        BY <1>5, <2>3 DEF got
      <3>3. QED
        BY <2>1, <3>1, <3>2 DEF Accounts
    <2>4. CASE ~Whole(e)
      BY <1>5, <2>2, <2>4
    <2>5. QED
      BY <2>3, <2>4
  <1>7. WebhookTypeOK'
    <2>1. newest' \in 0..MaxVersion
      BY <1>1, <1>4, WebhookAssumption
    <2>2. event' \in [what : Events \cup {NoEvent}, applied : BOOLEAN]
      BY <1>3, <1>4
    <2>3. overtaken' \in BOOLEAN
      BY <1>1
    <2>4. QED
      BY <1>1, <1>6, <2>1, <2>2, <2>3 DEF WebhookInv, WebhookTypeOK
  <1>8. SubscriptionSound'
    <2>1. sub.version > 0
      BY <1>2, <1>4 DEF WebhookInv, SubscriptionSound
    <2>2. newest' <= sub.version
      BY <1>1, <1>3, <1>4 DEF WebhookInv, SubscriptionSound, EventSound
    <2>3. QED
      BY <1>1, <2>1, <2>2 DEF WebhookInv, SubscriptionSound
  <1>9. Taken' = processed \cup {e} /\ Taken = processed
    BY <1>1, <1>4 DEF Taken
  <1>10. ASSUME NEW f \in Taken'
         PROVE  /\ f.version <= newest'
                /\ Whole(f) => account'.period > 0
                /\ Whole(f) /\ f.version = sub'.version /\ ~overtaken' => Reflects(account, sub)'
    <2>1. CASE f = e
      BY <1>1, <1>3, <1>4, <1>5, <2>1 DEF EventSound, Reflects
    <2>2. CASE f \in processed
      <3>1. /\ f.version <= newest
            /\ Whole(f) => account.period > 0
            /\ Whole(f) /\ f.version = sub.version /\ ~overtaken => Reflects(account, sub)
            /\ f.version \in Nat
        BY <1>9, <2>2 DEF WebhookInv, WebhookTypeOK, Events
      <3>2. f.version <= newest'
        <4>1. CASE e.version < newest
          BY <1>1, <3>1, <4>1
        <4>2. CASE ~(e.version < newest)
          BY <1>1, <1>4, <3>1, <4>2
        <4>3. QED
          BY <4>1, <4>2
      <3>3. Whole(f) => account'.period > 0
        <4>1. e.period > 0
          BY <1>3, <1>4 DEF EventSound
        <4>2. CASE Whole(e)
          BY <1>5, <4>1, <4>2
        <4>3. CASE ~Whole(e)
          BY <1>5, <3>1, <4>3
        <4>4. QED
          BY <4>2, <4>3
      <3>4. ASSUME Whole(f), f.version = sub.version, ~overtaken' PROVE Reflects(account, sub)'
        <4>1. newest = sub.version /\ e.version = sub.version
          <5>1. newest <= sub.version /\ e.version <= sub.version
            BY <1>3 DEF EventSound, WebhookInv, SubscriptionSound
          <5>2. ~(e.version < newest)
            BY <1>1, <3>4
          <5>3. QED
            BY <1>4, <3>1, <3>4, <5>1, <5>2
        <4>2. e.plan = sub.plan /\ e.status = sub.status /\ e.period = sub.period
          BY <1>3, <4>1 DEF EventSound
        <4>3. Reflects(account, e)
          BY <1>1, <3>1, <3>4, <4>2 DEF Reflects
        <4>4. CASE Whole(e)
          BY <1>1, <1>5, <4>2, <4>4 DEF Reflects
        <4>5. CASE ~Whole(e)
          BY <1>1, <1>5, <4>2, <4>3, <4>5 DEF Reflects
        <4>6. QED
          BY <4>4, <4>5
      <3>5. QED
        BY <1>1, <3>2, <3>3, <3>4
    <2>3. QED
      BY <1>9, <2>1, <2>2
  <1>11. \A f \in (pending \cup processed)' : EventSound(f)'
    BY <1>1 DEF WebhookInv, EventSound
  <1>12. QED
    BY <1>1, <1>2, <1>4, <1>6, <1>7, <1>8, <1>10, <1>11 DEF WebhookInv

(* The rest of a delivery: it begins, it is recorded, it is a repetition, or *)
(* it is lost, and then what it did is forgotten.                           *)
LEMMA DeliverySound ==
    ASSUME WebhookInv,
           (\E e \in pending : Duplicate(e) \/ Deliver(e)) \/ MarkProcessed \/ Fail
    PROVE  WebhookInv'
  <1>1. UNCHANGED <<now, sub, account, newest, overtaken>>
    BY DEF Duplicate, Deliver, MarkProcessed, Fail, store, history
  <1>2. ~Nothing.applied /\ Nothing \in [what : Events \cup {NoEvent}, applied : BOOLEAN]
    BY DEF Nothing
  <1> DEFINE Kept ==
               /\ pending' \cup processed' = pending \cup processed
               /\ Taken' \subseteq Taken
               /\ event' = Nothing \/ event'.what \in pending' \ processed'
               /\ event' \in [what : Events \cup {NoEvent}, applied : BOOLEAN]
               /\ faults' \in 0..MaxFaults
  <1>3. Kept
    <2>1. ASSUME NEW e \in pending, Duplicate(e) PROVE Kept
      BY <1>2, <2>1 DEF Duplicate, Taken, WebhookInv, WebhookTypeOK, store
    <2>2. ASSUME NEW e \in pending, Deliver(e) PROVE Kept
      BY <1>2, <2>2 DEF Deliver, Taken, WebhookInv, WebhookTypeOK, store
    <2>3. CASE MarkProcessed
      <3>1. event.what \in pending \ processed
        BY <1>2, <2>3 DEF MarkProcessed, WebhookInv
      <3>2. QED
        BY <1>2, <2>3, <3>1 DEF MarkProcessed, Taken, WebhookInv, WebhookTypeOK
    <2>4. CASE Fail
      BY <1>2, <2>4, WebhookAssumption DEF Fail, Taken, WebhookInv, WebhookTypeOK, store
    <2>5. QED
      BY <2>1, <2>2, <2>3, <2>4
  <1>4. WebhookTypeOK'
    BY <1>1, <1>3 DEF WebhookInv, WebhookTypeOK
  <1>5. SubscriptionSound'
    BY <1>1, <1>3 DEF WebhookInv, SubscriptionSound
  <1>6. QED
    BY <1>1, <1>3, <1>4, <1>5 DEF WebhookInv, EventSound, Reflects

(* Every step of the webhook and of Stripe keeps the invariant. *)
LEMMA WebhookPreserved ==
    ASSUME WebhookInv, WebhookNext \/ UNCHANGED webhookVars
    PROVE  WebhookInv'
  <1>1. CASE WebhookNext
    BY <1>1, StripeSound, ApplySound, DeliverySound DEF WebhookNext, Handle
  <1>2. CASE UNCHANGED webhookVars
    BY <1>2 DEF webhookVars, WebhookInv, WebhookTypeOK, SubscriptionSound, EventSound, Taken,
                Reflects
  <1>3. QED
    BY <1>1, <1>2

(* What is left when nothing is to be delivered. *)
LEMMA SettledFollows ==
    ASSUME WebhookInv
    PROVE  SettledAgrees
  <1> SUFFICES ASSUME pending = {}, event = Nothing
               PROVE  /\ ~overtaken => Entitled = Worth
                      /\ Entitled # Free => sub.period > now
    BY DEF SettledAgrees
  <1>1. /\ account.period \in Nat /\ sub.period \in Nat /\ now \in Nat /\ sub.version \in Nat
        /\ account.period <= sub.period
    BY DEF WebhookInv, WebhookTypeOK, Accounts, Periods
  <1>2. CASE sub.version = 0
    BY <1>2 DEF WebhookInv, SubscriptionSound, Entitled, Worth
  <1>3. CASE sub.version > 0
    <2>1. PICK e \in processed : Whole(e) /\ e.version = sub.version
      BY <1>3 DEF WebhookInv, SubscriptionSound
    <2>2. account.period > 0 /\ (~overtaken => Reflects(account, sub))
      BY <2>1 DEF WebhookInv, Taken
    <2>3. ~overtaken => Entitled = Worth
      BY <1>1, <2>2 DEF WebhookInv, SubscriptionSound, Reflects, Entitled, Worth
    <2>4. Entitled # Free => sub.period > now
      BY <1>1, <2>2 DEF Entitled
    <2>5. QED
      BY <2>3, <2>4
  <1>4. QED
    BY <1>1, <1>2, <1>3

-----------------------------------------------------------------------------
(* The meter.  A run that is charged has a month and a means, and runs of a *)
(* cap c were let through when at most c - 1 were charged: so for every     *)
(* number j, at most j of a month's charged runs have a cap up to j.  This  *)
(* survives the refund of any run, which the claim about the largest cap    *)
(* alone would not.                                                         *)

RunSound(r) ==
    /\ run[r].step # "new" => run[r].plan \in Plans /\ run[r].month \in 1..month
    /\ run[r].step \in {"new", "seen", "short", "refused"} => run[r].paid = "none"
    /\ run[r].step \in {"reserved", "worked", "refunded"} => run[r].paid # "none"

CappedBy(m, j) == {r \in ChargedIn(m) : Cap[run[r].plan] \in 0..j}

MeteringInv ==
    /\ MeteringTypeOK
    /\ \A r \in Runs : RunSound(r)
    /\ \A m \in Months : IsFiniteSet(ChargedIn(m))
    /\ IsFiniteSet(Charged("credit"))
    /\ MeterBalances
    /\ \A m \in Months, j \in Nat : Cardinality(CappedBy(m, j)) <= j

(* Nothing was charged yet. *)
LEMMA MeteringInitially ==
    ASSUME MeteringInit
    PROVE  MeteringInv
  <1>1. \A r \in Runs : run[r] = NewRun
    BY DEF MeteringInit
  <1>2. run \in [Runs -> RunStates]
    <2>1. NewRun \in RunStates
      BY MeteringAssumption DEF NewRun, RunStates, Steps
    <2>2. QED
      BY <2>1 DEF MeteringInit
  <1>3. MeteringTypeOK
    <2>1. 1 \in Months /\ usage \in [Months -> Nat]
      BY MeteringAssumption DEF MeteringInit, Months
    <2>2. 0 \in 0..MaxGrants /\ 0 \in 0..MaxCrashes /\ 0 \in Nat
      BY MeteringAssumption
    <2>3. plan \in Plans /\ credits = 0 /\ month = 1 /\ granted = 0 /\ crashes = 0
      BY DEF MeteringInit
    <2>4. QED
      BY <1>2, <2>1, <2>2, <2>3 DEF MeteringTypeOK
  <1>4. \A r \in Runs : RunSound(r)
    BY <1>1 DEF RunSound, NewRun
  <1>5. \A kind \in {"allowance", "credit"} : Charged(kind) = {}
    BY <1>1 DEF Charged, NewRun
  <1>6. \A m \in Months : ChargedIn(m) = {} /\ \A j : CappedBy(m, j) = {}
    BY <1>5 DEF ChargedIn, CappedBy
  <1>7. MeterBalances
    BY <1>5, <1>6, FS_EmptySet DEF MeterBalances, MeteringInit
  <1>8. QED
    BY <1>3, <1>4, <1>5, <1>6, <1>7, FS_EmptySet DEF MeteringInv

(* A step that charges nothing and gives nothing back leaves the sums alone. *)
LEMMA ChargesStand ==
    ASSUME MeteringInv,
           MeteringTypeOK', \A r \in Runs : RunSound(r)',
           UNCHANGED usage,
           NEW bought \in Nat,
           credits' = credits + bought, granted' = granted + bought,
           \A r \in Runs :
             /\ run'[r].paid = run[r].paid
             /\ run'[r].step = "refunded" <=> run[r].step = "refunded"
             /\ run[r].paid # "none" =>
                  run'[r].month = run[r].month /\ run'[r].plan = run[r].plan
    PROVE  MeteringInv'
  <1>1. Charged("credit")' = Charged("credit")
    BY DEF Charged
  <1>2. \A m \in Months : ChargedIn(m)' = ChargedIn(m)
    BY DEF Charged, ChargedIn
  <1>3. \A m \in Months, j \in Nat : CappedBy(m, j)' = CappedBy(m, j)
    BY <1>2 DEF CappedBy, ChargedIn, Charged
  <1>4. MeterBalances'
    <2>1. Cardinality(Charged("credit")) \in Nat
      BY FS_CardinalityType DEF MeteringInv
    <2>2. /\ credits \in Nat /\ granted \in Nat
          /\ credits + Cardinality(Charged("credit")) = granted
      BY MeteringAssumption DEF MeteringInv, MeteringTypeOK, MeterBalances
    <2>3. credits' + Cardinality(Charged("credit")) = granted'
      BY <2>1, <2>2
    <2>4. QED
      BY <1>1, <1>2, <2>3 DEF MeteringInv, MeterBalances
  <1>5. QED
    BY <1>1, <1>2, <1>3, <1>4 DEF MeteringInv

(* A step of one run. *)
LEMMA OneRun ==
    ASSUME MeteringInv, NEW r \in Runs, NEW new \in RunStates,
           run' = [run EXCEPT ![r] = new], month' = month,
           new.step # "new" => new.plan \in Plans /\ new.month \in 1..month,
           new.step \in {"new", "seen", "short", "refused"} => new.paid = "none",
           new.step \in {"reserved", "worked", "refunded"} => new.paid # "none"
    PROVE  /\ run' \in [Runs -> RunStates]
           /\ run'[r] = new
           /\ \A q \in Runs \ {r} : run'[q] = run[q]
           /\ \A q \in Runs : RunSound(q)'
  <1>1. run \in [Runs -> RunStates]
    BY DEF MeteringInv, MeteringTypeOK
  <1>2. QED
    BY <1>1 DEF MeteringInv, RunSound

(* A run with an answer about its account, and one that is done or refused.  *)
LEMMA QuietRunSound ==
    ASSUME MeteringInv, NEW r \in Runs,
           \/ Authorize(r) \/ Work(r)
           \/ run[r].step = "seen" /\ WithoutAllowance(r)
              /\ UNCHANGED <<accountRow, month, granted, crashes>>
           \/ Consume(r) /\ ~(credits > 0)
    PROVE  MeteringInv'
  <1>1. run[r] \in RunStates /\ RunSound(r) /\ month \in Months /\ plan \in Plans
    BY DEF MeteringInv, MeteringTypeOK
  <1>2. /\ UNCHANGED <<plan, credits, usage, month, granted, crashes>>
        /\ credits' = credits + 0 /\ granted' = granted + 0
    BY MeteringAssumption
       DEF MeteringInv, MeteringTypeOK, Authorize, Work, WithoutAllowance, Consume, accountRow
  <1> DEFINE Quiet(new) ==
          /\ new \in RunStates
          /\ run' = [run EXCEPT ![r] = new]
          /\ new.step # "new" => new.plan \in Plans /\ new.month \in 1..month
          /\ new.step \in {"new", "seen", "short", "refused"} => new.paid = "none"
          /\ new.step \in {"reserved", "worked", "refunded"} => new.paid # "none"
          /\ new.paid = run[r].paid /\ new.step # "refunded" /\ run[r].step # "refunded"
          /\ run[r].paid # "none" => new.month = run[r].month /\ new.plan = run[r].plan
  <1>3. \E new : Quiet(new)
    <2>1. CASE Authorize(r)
      <3> DEFINE rich == credits > 0
                 new  == [step |-> "seen", plan |-> plan, rich |-> rich,
                          month |-> month, paid |-> "none"]
      <3>1. run' = [run EXCEPT ![r] = new] /\ run[r].step = "new" /\ rich \in BOOLEAN
        BY <2>1 DEF Authorize
      <3> HIDE DEF rich
      <3>2. new \in RunStates
        <4>1. month \in 0..MaxMonth
          BY <1>1, MeteringAssumption DEF Months
        <4>2. QED
          BY <1>1, <3>1, <4>1 DEF RunStates, Steps
      <3>3. month \in 1..month
        BY <1>1, MeteringAssumption DEF Months
      <3>4. Quiet(new)
        BY <1>1, <3>1, <3>2, <3>3 DEF RunSound
      <3>5. QED
        BY <3>4
    <2>2. ASSUME NEW step \in {"worked", "short", "refused"},
                 run' = [run EXCEPT ![r].step = step],
                 run[r].step \in {"seen", "short", "reserved"},
                 step = "worked" <=> run[r].step = "reserved"
          PROVE  \E new : Quiet(new)
      <3> DEFINE new == [run[r] EXCEPT !.step = step]
      <3>1. /\ new \in RunStates /\ new.step = step /\ new.plan = run[r].plan
            /\ new.month = run[r].month /\ new.paid = run[r].paid
        BY <1>1 DEF RunStates, Steps
      <3>2. run' = [run EXCEPT ![r] = new]
        BY <2>2
      <3> HIDE DEF new
      <3>3. Quiet(new)
        BY <1>1, <2>2, <3>1, <3>2 DEF RunSound
      <3>4. QED
        BY <3>3
    <2>3. QED
      BY <2>1, <2>2 DEF Work, WithoutAllowance, Consume
  <1> PICK new : Quiet(new)
    BY <1>3
  <1>4. /\ run' \in [Runs -> RunStates] /\ run'[r] = new
        /\ \A q \in Runs \ {r} : run'[q] = run[q]
        /\ \A q \in Runs : RunSound(q)'
    BY <1>2, OneRun
  <1>5. MeteringTypeOK'
    BY <1>2, <1>4 DEF MeteringInv, MeteringTypeOK
  <1>6. QED
    BY <1>2, <1>4, <1>5, ChargesStand

(* A run is let through on the allowance: its cap is above what is charged.  *)
LEMMA AllowanceSound ==
    ASSUME MeteringInv, NEW r \in Runs, NEW m \in run[r].month..month,
           run[r].step = "seen",
           Covers(Cap[run[r].plan], usage[m]),
           usage' = [usage EXCEPT ![m] = @ + 1],
           run' = [run EXCEPT ![r].step = "reserved", ![r].paid = "allowance", ![r].month = m],
           UNCHANGED <<accountRow, month, granted, crashes>>
    PROVE  MeteringInv'
  <1> DEFINE new == [run[r] EXCEPT !.step = "reserved", !.paid = "allowance", !.month = m]
             cap == Cap[run[r].plan]
  <1>1. /\ run[r] \in RunStates /\ run[r].plan \in Plans /\ run[r].month \in 1..month
        /\ run[r].paid = "none" /\ month \in Months /\ MaxMonth \in Nat
    BY MeteringAssumption DEF MeteringInv, MeteringTypeOK, RunSound
  <1>2. m \in Months /\ m \in 1..month /\ m \in 0..MaxMonth
    BY <1>1 DEF Months
  <1>3. /\ new \in RunStates /\ new.step = "reserved" /\ new.plan = run[r].plan
        /\ new.month = m /\ new.paid = "allowance"
    BY <1>1, <1>2 DEF RunStates, Steps
  <1>4. run' = [run EXCEPT ![r] = new]
    OBVIOUS
  <1> HIDE DEF new
  <1>5. /\ run' \in [Runs -> RunStates] /\ run'[r] = new
        /\ \A q \in Runs \ {r} : run'[q] = run[q]
        /\ \A q \in Runs : RunSound(q)'
    BY <1>1, <1>2, <1>3, <1>4, OneRun
  <1>6. /\ Charged("credit")' = Charged("credit")
        /\ ChargedIn(m)' = ChargedIn(m) \cup {r} /\ r \notin ChargedIn(m)
        /\ \A k \in Months \ {m} : ChargedIn(k)' = ChargedIn(k)
    BY <1>1, <1>3, <1>5 DEF Charged, ChargedIn
  <1>7. /\ IsFiniteSet(ChargedIn(m)) /\ usage[m] = Cardinality(ChargedIn(m)) /\ usage[m] \in Nat
        /\ IsFiniteSet(ChargedIn(m)') /\ Cardinality(ChargedIn(m)') = usage[m] + 1
    BY <1>2, <1>6, FS_AddElement DEF MeteringInv, MeterBalances, MeteringTypeOK
  <1>8. UNCHANGED <<plan, credits, month, granted, crashes>>
    BY DEF accountRow
  <1>9. usage' \in [Months -> Nat] /\ usage'[m] = usage[m] + 1
        /\ \A k \in Months \ {m} : usage'[k] = usage[k]
    BY <1>2, <1>7 DEF MeteringInv, MeteringTypeOK
  <1>10. MeteringTypeOK' /\ MeterBalances'
    BY ZenonT(40), <1>5, <1>6, <1>7, <1>8, <1>9 DEF MeteringInv, MeteringTypeOK, MeterBalances
  <1>11. ASSUME NEW k \in Months, NEW j \in Nat PROVE Cardinality(CappedBy(k, j)') <= j
    <2>1. CASE k = m /\ cap \in 0..j
      <3>1. CappedBy(m, j)' \subseteq ChargedIn(m)'
        BY DEF CappedBy
      <3>2. Cardinality(CappedBy(m, j)') <= usage[m] + 1
        BY <1>7, <3>1, FS_Subset
      <3>3. usage[m] < cap
        BY <1>1, <2>1, MeteringAssumption DEF Covers
      <3>4. Cardinality(CappedBy(m, j)') \in Nat
        BY <1>7, <3>1, FS_Subset, FS_CardinalityType
      <3>5. QED
        BY <1>7, <2>1, <3>2, <3>3, <3>4
    <2>2. CASE ~(k = m /\ cap \in 0..j)
      <3>1. CappedBy(k, j)' = CappedBy(k, j)
        <4>1. CASE k = m
          BY <1>3, <1>5, <1>6, <2>2, <4>1 DEF CappedBy, ChargedIn, Charged
        <4>2. CASE k # m
          BY <1>1, <1>3, <1>5, <1>6, <4>2 DEF CappedBy, ChargedIn, Charged
        <4>3. QED
          BY <4>1, <4>2
      <3>2. QED
        BY <3>1 DEF MeteringInv
    <2>3. QED
      BY <2>1, <2>2
  <1>12. QED
    BY <1>5, <1>6, <1>7, <1>10, <1>11 DEF MeteringInv

(* A run is let through on a credit. *)
LEMMA CreditSound ==
    ASSUME MeteringInv, NEW r \in Runs, Consume(r), credits > 0
    PROVE  MeteringInv'
  <1> DEFINE new == [run[r] EXCEPT !.step = "reserved", !.paid = "credit"]
  <1>1. /\ run[r] \in RunStates /\ RunSound(r) /\ run[r].step = "short"
        /\ credits' = credits - 1 /\ run' = [run EXCEPT ![r] = new]
        /\ UNCHANGED <<plan, usage, month, granted, crashes>>
    BY DEF MeteringInv, MeteringTypeOK, Consume
  <1>2. /\ new \in RunStates /\ new.step = "reserved" /\ new.plan = run[r].plan
        /\ new.month = run[r].month /\ new.paid = "credit" /\ run[r].paid = "none"
    BY <1>1 DEF RunStates, Steps, RunSound
  <1> HIDE DEF new
  <1>3. /\ run' \in [Runs -> RunStates] /\ run'[r] = new
        /\ \A q \in Runs \ {r} : run'[q] = run[q]
        /\ \A q \in Runs : RunSound(q)'
    BY <1>1, <1>2, OneRun DEF RunSound
  <1>4. /\ Charged("credit")' = Charged("credit") \cup {r} /\ r \notin Charged("credit")
        /\ \A m \in Months : ChargedIn(m)' = ChargedIn(m)
        /\ \A m \in Months, j \in Nat : CappedBy(m, j)' = CappedBy(m, j)
    BY <1>1, <1>2, <1>3 DEF Charged, ChargedIn, CappedBy
  <1>5. /\ IsFiniteSet(Charged("credit")')
        /\ Cardinality(Charged("credit")') = Cardinality(Charged("credit")) + 1
        /\ Cardinality(Charged("credit")) \in Nat
    BY <1>4, FS_AddElement, FS_CardinalityType DEF MeteringInv
  <1>6. /\ credits \in Nat /\ granted \in Nat
        /\ credits + Cardinality(Charged("credit")) = granted
    BY MeteringAssumption DEF MeteringInv, MeteringTypeOK, MeterBalances
  <1>7. credits - 1 \in Nat /\ (credits - 1) + Cardinality(Charged("credit")') = granted
    BY <1>5, <1>6
  <1>8. MeteringTypeOK' /\ MeterBalances'
    BY <1>1, <1>3, <1>4, <1>7 DEF MeteringInv, MeteringTypeOK, MeterBalances
  <1>9. QED
    BY <1>3, <1>4, <1>5, <1>8 DEF MeteringInv

(* A run that raised is given back where it was charged. *)
LEMMA RollbackSound ==
    ASSUME MeteringInv, NEW r \in Runs, Rollback(r)
    PROVE  MeteringInv'
  <1> DEFINE new == [run[r] EXCEPT !.step = "refunded"]
  <1>1. /\ run[r] \in RunStates /\ RunSound(r) /\ run[r].step = "reserved"
        /\ run' = [run EXCEPT ![r] = new]
        /\ UNCHANGED <<plan, month, granted, crashes>>
    BY DEF MeteringInv, MeteringTypeOK, Rollback
  <1>2. /\ new \in RunStates /\ new.step = "refunded" /\ new.plan = run[r].plan
        /\ new.month = run[r].month /\ new.paid = run[r].paid /\ run[r].paid \in {"allowance", "credit"}
    BY <1>1 DEF RunStates, Steps, RunSound
  <1> HIDE DEF new
  <1>3. /\ run' \in [Runs -> RunStates] /\ run'[r] = new
        /\ \A q \in Runs \ {r} : run'[q] = run[q]
        /\ \A q \in Runs : RunSound(q)'
    BY <1>1, <1>2, OneRun DEF RunSound
  <1>4. CASE run[r].paid = "credit"
    <2>1. credits' = credits + 1 /\ usage' = usage
      BY <1>4 DEF Rollback
    <2>2. /\ Charged("credit")' = Charged("credit") \ {r} /\ r \in Charged("credit")
          /\ \A k \in Months : ChargedIn(k)' = ChargedIn(k)
          /\ \A k \in Months, j \in Nat : CappedBy(k, j)' = CappedBy(k, j)
      BY <1>1, <1>2, <1>3, <1>4 DEF Charged, ChargedIn, CappedBy
    <2>3. /\ IsFiniteSet(Charged("credit")')
          /\ Cardinality(Charged("credit")') = Cardinality(Charged("credit")) - 1
          /\ Cardinality(Charged("credit")) \in Nat
      BY <2>2, FS_RemoveElement, FS_CardinalityType DEF MeteringInv
    <2>4. /\ credits \in Nat /\ granted \in Nat
          /\ credits + Cardinality(Charged("credit")) = granted
      BY MeteringAssumption DEF MeteringInv, MeteringTypeOK, MeterBalances
    <2>5. credits + 1 \in Nat /\ (credits + 1) + Cardinality(Charged("credit")') = granted
      BY <2>3, <2>4
    <2>6. MeteringTypeOK' /\ MeterBalances'
      BY <1>1, <1>3, <2>1, <2>2, <2>5 DEF MeteringInv, MeteringTypeOK, MeterBalances
    <2>7. QED
      BY <1>3, <2>2, <2>3, <2>6 DEF MeteringInv
  <1>5. CASE run[r].paid = "allowance"
    <2>1. PICK m \in Months : m = run[r].month
      <3>1. month \in 1..MaxMonth /\ MaxMonth \in Nat /\ run[r].month \in 1..month
        BY <1>1, MeteringAssumption DEF MeteringInv, MeteringTypeOK, RunSound, Months
      <3>2. QED
        BY <3>1 DEF Months
    <2>2. /\ Charged("credit")' = Charged("credit")
          /\ ChargedIn(m)' = ChargedIn(m) \ {r} /\ r \in ChargedIn(m)
          /\ \A k \in Months \ {m} : ChargedIn(k)' = ChargedIn(k)
      BY <1>1, <1>2, <1>3, <1>5, <2>1 DEF Charged, ChargedIn
    <2>3. /\ IsFiniteSet(ChargedIn(m)') /\ IsFiniteSet(ChargedIn(m))
          /\ Cardinality(ChargedIn(m)') = Cardinality(ChargedIn(m)) - 1
          /\ Cardinality(ChargedIn(m)) = usage[m] /\ usage[m] \in Nat /\ usage[m] # 0
      BY <2>1, <2>2, FS_RemoveElement, FS_EmptySet DEF MeteringInv, MeterBalances, MeteringTypeOK
    <2>4. credits' = credits /\ usage' = [usage EXCEPT ![m] = IF @ > 0 THEN @ - 1 ELSE 0]
      BY <1>5, <2>1 DEF Rollback
    <2>5. /\ usage'[m] = usage[m] - 1 /\ usage[m] - 1 \in Nat
          /\ \A k \in Months \ {m} : usage'[k] = usage[k]
      BY <2>1, <2>3, <2>4 DEF MeteringInv, MeteringTypeOK
    <2>6. usage' \in [Months -> Nat]
      BY <2>1, <2>3, <2>4 DEF MeteringInv, MeteringTypeOK
    <2>7. MeteringTypeOK' /\ MeterBalances'
      BY <1>1, <1>3, <2>2, <2>3, <2>4, <2>5, <2>6 DEF MeteringInv, MeteringTypeOK, MeterBalances
    <2>8. ASSUME NEW k \in Months, NEW j \in Nat PROVE Cardinality(CappedBy(k, j)') <= j
      <3>1. CappedBy(k, j)' \subseteq CappedBy(k, j)
        <4>1. ChargedIn(k)' \subseteq ChargedIn(k)
          BY <2>2
        <4>2. QED
          BY <1>2, <1>3, <4>1 DEF CappedBy, ChargedIn, Charged
      <3>2. CappedBy(k, j) \subseteq ChargedIn(k) /\ IsFiniteSet(ChargedIn(k))
        BY DEF CappedBy, MeteringInv
      <3>3. /\ Cardinality(CappedBy(k, j)') <= Cardinality(CappedBy(k, j))
            /\ Cardinality(CappedBy(k, j)') \in Nat /\ Cardinality(CappedBy(k, j)) \in Nat
        BY <3>1, <3>2, FS_Subset, FS_CardinalityType
      <3>4. Cardinality(CappedBy(k, j)) <= j
        BY DEF MeteringInv
      <3>5. QED
        BY <3>3, <3>4
    <2>9. QED
      BY <1>3, <2>2, <2>3, <2>7, <2>8 DEF MeteringInv
  <1>6. QED
    BY <1>2, <1>4, <1>5

(* What happens beside the runs, and a crash, which gives nothing back. *)
LEMMA BesideSound ==
    ASSUME MeteringInv,
           PlanChanges \/ BuyCredit \/ NextMonth \/ Crash \/ UNCHANGED meteringVars
    PROVE  MeteringInv'
  <1>1. /\ run \in [Runs -> RunStates] /\ credits \in Nat /\ granted \in 0..MaxGrants
        /\ month \in 1..MaxMonth /\ MaxMonth \in Nat /\ MaxGrants \in Nat /\ MaxCrashes \in Nat
        /\ crashes \in 0..MaxCrashes /\ plan \in Plans /\ granted \in Nat
    BY MeteringAssumption DEF MeteringInv, MeteringTypeOK, Months
  <1>2. CASE Crash
    <2>1. /\ UNCHANGED <<plan, credits, usage, month, granted>> /\ crashes' = crashes + 1
          /\ crashes < MaxCrashes
          /\ run' = [r \in Runs |->
                        IF run[r].step \in {"seen", "short", "reserved"}
                        THEN [run[r] EXCEPT !.step = "dead"] ELSE run[r]]
      BY <1>2 DEF Crash, accountRow
    <2>2. ASSUME NEW r \in Runs
          PROVE  /\ run'[r] \in RunStates /\ RunSound(r)'
                 /\ run'[r].paid = run[r].paid
                 /\ run'[r].step = "refunded" <=> run[r].step = "refunded"
                 /\ run'[r].month = run[r].month /\ run'[r].plan = run[r].plan
      <3>1. run[r] \in RunStates /\ RunSound(r)
        BY <1>1 DEF MeteringInv
      <3>2. CASE run[r].step \in {"seen", "short", "reserved"}
        <4>1. run'[r] = [run[r] EXCEPT !.step = "dead"]
          BY <2>1, <3>2
        <4>2. /\ run'[r] \in RunStates /\ run'[r].step = "dead" /\ run'[r].paid = run[r].paid
              /\ run'[r].month = run[r].month /\ run'[r].plan = run[r].plan
          BY <3>1, <4>1 DEF RunStates, Steps
        <4>3. QED
          BY <2>1, <3>1, <3>2, <4>2 DEF RunSound
      <3>3. CASE run[r].step \notin {"seen", "short", "reserved"}
        BY <2>1, <3>1, <3>3 DEF RunSound
      <3>4. QED
        BY <3>2, <3>3
    <2>3. run' \in [Runs -> RunStates]
      <3>1. \A r \in Runs : run'[r] \in RunStates
        BY <2>2
      <3>2. run' = [r \in Runs |-> run'[r]]
        BY <2>1
      <3>3. QED
        BY <3>1, <3>2
    <2>4. MeteringTypeOK'
      BY <1>1, <2>1, <2>3 DEF MeteringInv, MeteringTypeOK
    <2>5. credits' = credits + 0 /\ granted' = granted + 0
      BY <1>1, <2>1
    <2>6. QED
      BY <2>1, <2>2, <2>4, <2>5, ChargesStand
  <1>3. CASE PlanChanges \/ BuyCredit \/ NextMonth \/ UNCHANGED meteringVars
    <2>1. UNCHANGED <<usage, run, crashes>>
      BY <1>3 DEF PlanChanges, BuyCredit, NextMonth, meteringVars, accountRow
    <2>2. month' = month \/ (month' = month + 1 /\ month < MaxMonth)
      BY <1>3 DEF PlanChanges, BuyCredit, NextMonth, meteringVars, accountRow
    <2>3. /\ plan' \in Plans
          /\ \/ credits' = credits + 0 /\ granted' = granted + 0
             \/ credits' = credits + 1 /\ granted' = granted + 1 /\ granted < MaxGrants
      BY <1>1, <1>3 DEF PlanChanges, BuyCredit, NextMonth, meteringVars, accountRow
    <2>4. \A r \in Runs : RunSound(r)'
      BY <1>1, <2>1, <2>2 DEF MeteringInv, RunSound
    <2>5. MeteringTypeOK'
      <3>1. month' \in Months
        BY <1>1, <2>2 DEF Months
      <3>2. credits' \in Nat /\ granted' \in 0..MaxGrants
        BY <1>1, <2>3
      <3>3. QED
        BY <2>1, <2>3, <3>1, <3>2 DEF MeteringInv, MeteringTypeOK
    <2>6. QED
      BY <2>1, <2>3, <2>4, <2>5, ChargesStand
  <1>4. QED
    BY <1>2, <1>3

(* Every step of the metering keeps the invariant. *)
LEMMA MeteringPreserved ==
    ASSUME MeteringInv, MeteringNext \/ UNCHANGED meteringVars
    PROVE  MeteringInv'
  <1>1. ASSUME NEW r \in Runs, Reserve(r) PROVE MeteringInv'
    BY <1>1, AllowanceSound, QuietRunSound DEF Reserve
  <1>2. ASSUME NEW r \in Runs, Authorize(r) \/ Consume(r) \/ Work(r) \/ Rollback(r)
        PROVE  MeteringInv'
    BY <1>2, QuietRunSound, CreditSound, RollbackSound
  <1>3. QED
    BY <1>1, <1>2, BesideSound DEF MeteringNext

(* Of k charged runs at most k - 1 have a cap below k: one has a larger cap,  *)
(* or none at all.                                                          *)
LEMMA MeterFollows ==
    ASSUME MeteringInv
    PROVE  MeterTruth
  <1>1. ASSUME NEW m \in Months, ChargedIn(m) # {}
        PROVE  \E r \in ChargedIn(m) :
                   \/ Cap[run[r].plan] = Unlimited
                   \/ Cardinality(ChargedIn(m)) <= Cap[run[r].plan]
    <2> DEFINE k == Cardinality(ChargedIn(m))
    <2>1. IsFiniteSet(ChargedIn(m)) /\ k \in Nat /\ k # 0
      BY <1>1, FS_CardinalityType, FS_EmptySet DEF MeteringInv
    <2> HIDE DEF k
    <2>2. k - 1 \in Nat
      BY <2>1
    <2>3. Cardinality(CappedBy(m, k - 1)) <= k - 1
      BY <2>2 DEF MeteringInv
    <2>4. CappedBy(m, k - 1) # ChargedIn(m)
      BY <2>1, <2>3 DEF k
    <2>5. PICK r \in ChargedIn(m) : Cap[run[r].plan] \notin 0..(k - 1)
      BY <2>4 DEF CappedBy
    <2>6. Cap[run[r].plan] \in Nat \cup {Unlimited}
      <3>1. r \in Runs /\ run[r].paid = "allowance" /\ RunSound(r) /\ run[r] \in RunStates
        BY <2>5 DEF ChargedIn, Charged, MeteringInv, MeteringTypeOK
      <3>2. run[r].plan \in Plans
        BY <3>1 DEF RunSound
      <3>3. QED
        BY <3>2, MeteringAssumption
    <2>7. QED
      BY <2>1, <2>2, <2>5, <2>6 DEF k
  <1>2. QED
    BY <1>1 DEF MeterTruth, MeteringInv, CapHolds

-----------------------------------------------------------------------------
(* The triage loop.  What the first t places of the listing hold of a        *)
(* sweep's due messages is worked through, for the token t of every copy     *)
(* that belongs to the sweep: new mail never takes a due message to an       *)
(* earlier place, and one that leaves from a place the sweep has yet to       *)
(* reach moves nothing into the places it has passed.                        *)

Rank(S, m) == Cardinality({k \in S : k <= m})

(* The place of a message in the order in which the provider lists it. *)
Turnwise(S, m) == IF setup.provider = "mailapp" THEN Rank(S, m)
                  ELSE Cardinality(S) - Rank(S, m) + 1

First(t) == {m \in box : Turnwise(box, m) <= t}

CopySound(copy) ==
    /\ copy.sweep <= sweep
    /\ copy.sweep = sweep /\ ~spoilt => First(copy.token) \cap seen.due \subseteq seen.done

(* What the run has looked at once the page at hand is done. *)
Reach == IF job.next = 0 THEN box ELSE First(job.next)

LabelerInv ==
    /\ LabelerTypeOK
    /\ CopySound(file)
    /\ vault # NoCopy => CopySound(vault)
    /\ job.step # "off" => CopySound(job.copy) /\ (~spoilt => job.copy.sweep = sweep)
    /\ seen.done \subseteq seen.listed /\ seen.due \subseteq 1..arrived
    /\ job.step \in {"list", "apply"} => job.count < Limit
    /\ job.step = "apply" =>
         /\ job.page \subseteq seen.listed
         /\ ~spoilt => Reach \cap seen.due \subseteq seen.done \cup job.page
    /\ job.step = "save" /\ ~spoilt => Reach \cap seen.due \subseteq seen.done
    /\ job.step = "complete" /\ ~spoilt => box \cap seen.due \subseteq seen.done

(* The larger of two numbers. *)
LEMMA MaxOfTwo ==
    ASSUME NEW a \in Int, NEW b \in Int
    PROVE  Max({a, b}) = IF a < b THEN b ELSE a
  <1>1. \E x \in {a, b} : \A y \in {a, b} : x >= y
    OBVIOUS
  <1>2. Max({a, b}) \in {a, b} /\ \A y \in {a, b} : Max({a, b}) >= y
    BY <1>1 DEF Max
  <1>3. QED
    BY <1>2

(* The smaller of two numbers. *)
LEMMA MinOfTwo ==
    ASSUME NEW a \in Int, NEW b \in Int
    PROVE  Min({a, b}) = IF a < b THEN a ELSE b
  <1>1. \E x \in {a, b} : \A y \in {a, b} : x <= y
    OBVIOUS
  <1>2. Min({a, b}) \in {a, b} /\ \A y \in {a, b} : Min({a, b}) <= y
    BY <1>1 DEF Min
  <1>3. QED
    BY <1>2

(* The rank of a member is its number in ascending order. *)
LEMMA RankFacts ==
    ASSUME NEW S \in SUBSET Nat, IsFiniteSet(S), NEW m \in S
    PROVE  /\ Cardinality(S) \in Nat
           /\ Rank(S, m) \in 1..Cardinality(S)
           /\ \A k \in S : k < m => Rank(S, k) < Rank(S, m)
  <1> DEFINE Upto(k) == {i \in S : i <= k}
  <1>1. \A k \in S : /\ IsFiniteSet(Upto(k)) /\ Cardinality(Upto(k)) \in Nat
                     /\ Cardinality(Upto(k)) <= Cardinality(S) /\ Cardinality(S) \in Nat
                     /\ Cardinality(Upto(k)) # 0
    BY FS_Subset, FS_CardinalityType, FS_EmptySet
  <1>2. ASSUME NEW k \in S, k < m PROVE Cardinality(Upto(k)) < Cardinality(Upto(m))
    <2>1. \A i \in S : i \in Nat /\ (i <= k => i <= m)
      BY <1>2
    <2>2. m <= m /\ ~(m <= k)
      BY <1>2
    <2>3. Upto(k) \in SUBSET Upto(m) /\ m \in Upto(m) /\ m \notin Upto(k)
      BY <2>1, <2>2
    <2>4. Cardinality(Upto(k)) <= Cardinality(Upto(m)) /\ Cardinality(Upto(k)) # Cardinality(Upto(m))
      BY <1>1, <2>3, FS_Subset
    <2>5. QED
      BY <1>1, <2>4
  <1>3. QED
    BY <1>1, <1>2 DEF Rank

(* The last one to come ranks last and changes no other rank. *)
LEMMA RankOfNewest ==
    ASSUME NEW S \in SUBSET Nat, IsFiniteSet(S), NEW x \in Nat, \A k \in S : k < x
    PROVE  /\ Cardinality(S \cup {x}) = Cardinality(S) + 1
           /\ \A m \in S : Rank(S \cup {x}, m) = Rank(S, m)
  <1>1. x \notin S
    OBVIOUS
  <1>2. ASSUME NEW m \in S PROVE {k \in S \cup {x} : k <= m} = {k \in S : k <= m}
    BY <1>1
  <1>3. QED
    BY <1>1, <1>2, FS_AddElement DEF Rank

(* One that leaves brings those behind it up by one. *)
LEMMA RankWithout ==
    ASSUME NEW S \in SUBSET Nat, IsFiniteSet(S), NEW x \in S, NEW m \in S \ {x}
    PROVE  /\ Cardinality(S \ {x}) = Cardinality(S) - 1
           /\ Rank(S \ {x}, m) = IF x < m THEN Rank(S, m) - 1 ELSE Rank(S, m)
  <1> DEFINE Upto == {k \in S : k <= m}
  <1>1. IsFiniteSet(Upto)
    BY FS_Subset
  <1>2. {k \in S \ {x} : k <= m} = Upto \ {x}
    OBVIOUS
  <1>3. Cardinality(Upto \ {x}) = IF x \in Upto THEN Cardinality(Upto) - 1 ELSE Cardinality(Upto)
    BY <1>1, FS_RemoveElement
  <1>4. x \in Upto <=> x < m
    OBVIOUS
  <1>5. QED
    BY <1>2, <1>3, <1>4, FS_RemoveElement DEF Rank

(* There are n numbers from 1 to n. *)
LEMMA FirstNumbers ==
    ASSUME NEW n \in Nat
    PROVE  IsFiniteSet(1..n) /\ Cardinality(1..n) = n
  <1>1. n - 1 + 1 = n /\ (1 > n => n = 0)
    OBVIOUS
  <1>2. /\ IsFiniteSet(1..n)
        /\ Cardinality(1..n) = IF 1 > n THEN 0 ELSE n - 1 + 1
    BY FS_Interval
  <1> QED
    BY <1>1, <1>2

(* The mailbox is a finite set of numbers. *)
LEMMA BoxFacts ==
    ASSUME LabelerTypeOK
    PROVE  /\ box \in SUBSET Nat /\ IsFiniteSet(box) /\ Total \in Nat /\ Total <= MaxMail
           /\ arrived \in Nat /\ MaxMail \in Nat
           /\ box \subseteq Mail /\ box \subseteq 1..arrived
           /\ \A m \in box : /\ Place(m) = Rank(box, m) /\ Place(m) \in 1..Total
                             /\ Turnwise(box, m) \in 1..Total
  <1>1. arrived \in Nat /\ MaxMail \in Nat /\ box \subseteq 1..arrived /\ arrived <= MaxMail
    BY LabelerAssumption DEF LabelerTypeOK
  <1>2. IsFiniteSet(1..MaxMail) /\ Cardinality(1..MaxMail) = MaxMail
    BY <1>1, FirstNumbers
  <1>3. box \in SUBSET (1..MaxMail)
    BY <1>1
  <1>4. IsFiniteSet(box) /\ Total \in Nat /\ Total <= MaxMail
    BY <1>2, <1>3, FS_Subset, FS_CardinalityType DEF Total
  <1>5. box \in SUBSET Nat
    BY <1>1
  <1>6. ASSUME NEW m \in box
        PROVE  /\ Place(m) = Rank(box, m) /\ Place(m) \in 1..Total
               /\ Turnwise(box, m) \in 1..Total
    <2>1. Place(m) = Rank(box, m) /\ Total = Cardinality(box)
      BY DEF Place, Rank, Total
    <2>2. Rank(box, m) \in 1..Total
      BY <1>4, <1>5, <2>1, RankFacts
    <2>3. QED
      BY <1>4, <2>1, <2>2 DEF Turnwise
  <1>7. QED
    BY <1>1, <1>3, <1>4, <1>5, <1>6 DEF Mail

(* New mail takes no due message to an earlier place. *)
LEMMA ArrivalKeeps ==
    ASSUME LabelerInv, Arrive, NEW t \in Nat
    PROVE  (First(t) \cap seen.due)' \subseteq First(t) \cap seen.due
  <1> SUFFICES ASSUME NEW m \in box', m \in seen.due, (Turnwise(box, m) <= t)'
               PROVE  m \in box /\ Turnwise(box, m) <= t
    BY DEF Arrive, First
  <1>1. box' = box \cup {arrived + 1} /\ setup' = setup /\ arrived \in Nat
    BY BoxFacts DEF Arrive, LabelerInv
  <1>2. m \in box
    BY <1>1 DEF LabelerInv
  <1>3. \A k \in box : k < arrived + 1
    BY <1>1, BoxFacts DEF LabelerInv
  <1>4. /\ Cardinality(box') = Cardinality(box) + 1
        /\ Rank(box', m) = Rank(box, m)
    <2>1. box \in SUBSET Nat /\ IsFiniteSet(box) /\ arrived + 1 \in Nat
      BY <1>1, BoxFacts DEF LabelerInv
    <2>2. /\ Cardinality(box \cup {arrived + 1}) = Cardinality(box) + 1
          /\ Rank(box \cup {arrived + 1}, m) = Rank(box, m)
      BY <1>2, <1>3, <2>1, RankOfNewest
    <2>3. QED
      BY <1>1, <2>2
  <1>5. Cardinality(box) \in Nat /\ Rank(box, m) \in Nat
    BY <1>2, BoxFacts, RankFacts DEF LabelerInv
  <1>6. QED
    BY <1>1, <1>2, <1>4, <1>5 DEF Turnwise

(* One that leaves from a later place takes none to an earlier one. *)
LEMMA DepartureKeeps ==
    ASSUME LabelerInv, NEW x \in box, box' = box \ {x}, setup' = setup,
           NEW t \in Nat, x \notin First(t)
    PROVE  First(t)' \subseteq First(t)
  <1> SUFFICES ASSUME NEW m \in box \ {x}, Turnwise(box, m)' <= t
               PROVE  Turnwise(box, m) <= t
    BY DEF First
  <1>1. /\ box \in SUBSET Nat /\ IsFiniteSet(box)
    BY BoxFacts DEF LabelerInv
  <1>2. /\ Cardinality(box') = Cardinality(box) - 1
        /\ Rank(box', m) = IF x < m THEN Rank(box, m) - 1 ELSE Rank(box, m)
    BY <1>1, RankWithout
  <1>3. /\ Cardinality(box) \in Nat /\ Rank(box, m) \in Nat /\ Rank(box, x) \in Nat
        /\ x < m => Rank(box, x) < Rank(box, m)
        /\ m < x => Rank(box, m) < Rank(box, x)
        /\ m \in Nat /\ x \in Nat /\ m # x
    BY <1>1, RankFacts
  <1>4. ~(Turnwise(box, x) <= t)
    BY DEF First
  <1>5. CASE setup.provider = "mailapp"
    <2>1. /\ Turnwise(box, m)' = Rank(box', m) /\ Turnwise(box, x) = Rank(box, x)
          /\ Turnwise(box, m) = Rank(box, m)
      BY <1>5 DEF Turnwise
    <2>2. CASE x < m
      BY <1>2, <1>3, <1>4, <2>1, <2>2
    <2>3. CASE m < x
      BY <1>2, <1>3, <2>1, <2>3
    <2>4. QED
      BY <1>3, <2>2, <2>3
  <1>6. CASE setup.provider # "mailapp"
    <2>1. /\ Turnwise(box, m)' = Cardinality(box') - Rank(box', m) + 1
          /\ Turnwise(box, x) = Cardinality(box) - Rank(box, x) + 1
          /\ Turnwise(box, m) = Cardinality(box) - Rank(box, m) + 1
      BY <1>6 DEF Turnwise
    <2>2. CASE x < m
      BY <1>2, <1>3, <2>1, <2>2
    <2>3. CASE m < x
      BY <1>2, <1>3, <1>4, <2>1, <2>3
    <2>4. QED
      BY <1>3, <2>2, <2>3
  <1>7. QED
    BY <1>5, <1>6

(* A page takes up where the places before it end. *)
LEMMA PageFollows ==
    ASSUME LabelerInv, NEW start \in Nat, NEW n \in Nat
    PROVE  /\ Page(start, n) \subseteq box
           /\ First(start + n) \subseteq First(start) \cup Page(start, n)
           /\ start + n >= Total => First(start + n) = box
  <1>1. /\ Total \in Nat
        /\ \A m \in box : Place(m) = Rank(box, m) /\ Place(m) \in 1..Total
                          /\ Turnwise(box, m) \in 1..Total
    BY BoxFacts DEF LabelerInv
  <1>2. start + n >= Total => First(start + n) = box
    BY <1>1 DEF First
  <1>3. CASE setup.provider = "mailapp"
    BY <1>1, <1>2, <1>3 DEF Page, First, Turnwise
  <1>4. CASE setup.provider # "mailapp"
    <2> DEFINE low  == Max({0, Total - start - n})
               high == IF start <= Total THEN Total - start ELSE Max({0, 2 * Total - start})
    <2>1. Page(start, n) = {m \in box : Place(m) > low /\ Place(m) <= high}
      BY <1>4 DEF Page
    <2>2. low = IF 0 < Total - start - n THEN Total - start - n ELSE 0
      BY <1>1, MaxOfTwo
    <2>3. ASSUME NEW m \in box, Turnwise(box, m) <= start + n, ~(Turnwise(box, m) <= start)
          PROVE  m \in Page(start, n)
      <3>1. Turnwise(box, m) = Total - Place(m) + 1 /\ Place(m) \in 1..Total
        BY <1>1, <1>4 DEF Turnwise, Total
      <3>2. start < Total /\ Place(m) <= Total - start /\ Place(m) > Total - start - n
        BY <1>1, <2>3, <3>1
      <3>3. QED
        BY <1>1, <2>1, <2>2, <3>1, <3>2
    <2>4. QED
      BY <1>2, <2>1, <2>3 DEF First
  <1>5. QED
    BY <1>3, <1>4

(* A step within a sweep: unless it spoils the listing, no place that is      *)
(* covered gets a due message it did not have.                               *)
Onward ==
    /\ setup' = setup /\ sweep' = sweep
    /\ seen'.due = seen.due /\ seen.done \subseteq seen'.done
    /\ ~spoilt' =>
         /\ ~spoilt
         /\ \A t \in Nat : First(t) \cap seen.due \subseteq seen.listed =>
                             First(t)' \cap seen.due \subseteq First(t)

(* A stored token stays sound while the mailbox only moves on. *)
LEMMA CopyStands ==
    ASSUME LabelerInv, Onward, NEW c \in Copies, CopySound(c)
    PROVE  CopySound(c)'
  <1>1. c.token \in Nat
    BY LabelerAssumption DEF Copies
  <1>2. ASSUME c.sweep = sweep, ~spoilt' PROVE First(c.token)' \cap seen.due \subseteq seen.done
    <2>1. First(c.token) \cap seen.due \subseteq seen.done
      BY <1>2 DEF Onward, CopySound
    <2>2. QED
      BY <1>1, <1>2, <2>1 DEF Onward, LabelerInv
  <1>3. QED
    BY <1>2 DEF Onward, CopySound

(* The mailbox changes beside a run. *)
LEMMA BoxChangeSound ==
    ASSUME LabelerInv, LabelerTypeOK', Onward,
           UNCHANGED <<file, vault, job, seen>>,
           box' \cap seen.due \subseteq box, seen.due \subseteq 1..(arrived')
    PROVE  LabelerInv'
  <1>1. file \in Copies /\ (vault # NoCopy => vault \in Copies) /\ job \in Jobs
    BY DEF LabelerInv, LabelerTypeOK
  <1>2. job.copy \in Copies /\ job.next \in Nat
    BY <1>1, LabelerAssumption DEF Jobs
  <1>3. CopySound(file)' /\ (vault # NoCopy => CopySound(vault)')
    BY <1>1, CopyStands DEF LabelerInv
  <1>4. job.step # "off" => CopySound(job.copy)'
    BY <1>2, CopyStands DEF LabelerInv
  <1>5. ASSUME ~spoilt', job.step = "apply"
        PROVE  Reach' \cap seen.due \subseteq seen.done \cup job.page
    <2>1. Reach \cap seen.due \subseteq seen.done \cup job.page /\ job.page \subseteq seen.listed
      BY <1>5 DEF LabelerInv, Onward
    <2>2. Reach' \cap seen.due \subseteq Reach
      BY <1>2, <1>5, <2>1 DEF Reach, Onward, LabelerInv
    <2>3. QED
      BY <2>1, <2>2
  <1>6. ASSUME ~spoilt', job.step = "save" PROVE Reach' \cap seen.due \subseteq seen.done
    <2>1. Reach \cap seen.due \subseteq seen.done
      BY <1>6 DEF LabelerInv, Onward
    <2>2. Reach' \cap seen.due \subseteq Reach
      BY <1>2, <1>6, <2>1 DEF Reach, Onward, LabelerInv
    <2>3. QED
      BY <2>1, <2>2
  <1>7. job.step = "complete" /\ ~spoilt' => box' \cap seen.due \subseteq seen.done
    BY DEF LabelerInv, Onward
  <1>8. /\ job.step # "off" => (~spoilt' => job.copy.sweep = sweep')
        /\ job.step \in {"list", "apply"} => job.count < Limit
        /\ job.step = "apply" => job.page \subseteq seen.listed
        /\ seen.done \subseteq seen.listed
    BY DEF LabelerInv, Onward
  <1>9. QED
    BY <1>3, <1>4, <1>5, <1>6, <1>7, <1>8 DEF LabelerInv

(* New mail, or the owner takes a message. *)
LEMMA MailboxSound ==
    ASSUME LabelerInv, Arrive \/ \E m \in box : OwnerTakes(m)
    PROVE  LabelerInv'
  <1>1. /\ box \subseteq 1..arrived /\ arrived \in Present..MaxMail /\ MaxMail \in Nat
        /\ arrived \in Nat /\ Present \in Nat /\ seen.due \subseteq 1..arrived
    BY BoxFacts, LabelerAssumption DEF LabelerInv, LabelerTypeOK
  <1>2. CASE Arrive
    <2>1. /\ UNCHANGED <<setup, file, vault, job, sweep, seen, spoilt, mishaps>>
          /\ arrived' = arrived + 1 /\ arrived < MaxMail /\ box' = box \cup {arrived + 1}
      BY <1>2 DEF Arrive, stored
    <2>2. LabelerTypeOK'
      <3>1. arrived' \in Present..MaxMail /\ box' \subseteq 1..arrived'
        BY <1>1, <2>1
      <3>2. QED
        BY <2>1, <3>1 DEF LabelerInv, LabelerTypeOK
    <2>3. Onward
      <3>1. \A t \in Nat : (First(t) \cap seen.due)' \subseteq First(t)
        BY <1>2, ArrivalKeeps
      <3>2. QED
        BY <2>1, <3>1 DEF Onward
    <2>4. box' \cap seen.due \subseteq box /\ seen.due \subseteq 1..(arrived')
      BY <1>1, <2>1
    <2>5. QED
      BY <2>1, <2>2, <2>3, <2>4, BoxChangeSound
  <1>3. ASSUME NEW x \in box, OwnerTakes(x) PROVE LabelerInv'
    <2>1. /\ UNCHANGED <<setup, arrived, file, vault, job, sweep, seen, mishaps>>
          /\ box' = box \ {x} /\ spoilt' = (spoilt \/ ~({x} \subseteq seen.due \ seen.listed))
      BY <1>3 DEF OwnerTakes, Depart, stored
    <2>2. LabelerTypeOK'
      BY <1>1, <2>1 DEF LabelerInv, LabelerTypeOK
    <2>3. Onward
      <3>1. ASSUME ~spoilt', NEW t \in Nat, First(t) \cap seen.due \subseteq seen.listed
            PROVE  First(t)' \subseteq First(t)
        BY <2>1, <3>1, DepartureKeeps
      <3>2. QED
        BY <2>1, <3>1 DEF Onward
    <2>4. QED
      BY <1>1, <2>1, <2>2, <2>3, BoxChangeSound
  <1>4. QED
    BY <1>2, <1>3

(* A run takes up a copy: the next page of its sweep, or a new sweep. *)
LEMMA StartSound ==
    ASSUME LabelerInv, NEW copy \in Copies, NEW synced \in BOOLEAN, CopySound(copy),
           job.step = "off", Start(copy, synced),
           mishaps' = mishaps \/ Mishap
    PROVE  LabelerInv'
  <1>1. /\ file \in Copies /\ (vault # NoCopy => vault \in Copies)
        /\ MaxSweeps \in Nat /\ MaxMail \in Nat /\ MaxMishaps \in Nat
        /\ sweep \in Nat /\ sweep \in 0..MaxSweeps
        /\ box \subseteq 1..arrived /\ arrived <= MaxMail
        /\ box \subseteq Mail /\ Limit \in Nat \ {0}
    BY BoxFacts, LabelerAssumption DEF LabelerInv, LabelerTypeOK
  <1>2. mishaps' \in 0..MaxMishaps
    BY <1>1 DEF Mishap, LabelerInv, LabelerTypeOK
  <1>3. UNCHANGED <<setup, box, arrived, file, vault>>
    BY DEF Start, stored
  <1>4. CASE copy.token = 0
    <2>1. /\ sweep < MaxSweeps /\ sweep' = sweep + 1 /\ spoilt' = FALSE
          /\ seen' = [due |-> box, listed |-> {}, done |-> {}]
          /\ job' = [Off EXCEPT !.step = "list", !.synced = synced, !.copy.sweep = sweep + 1]
      BY <1>4 DEF Start
    <2>2. job' = [step |-> "list", copy |-> [token |-> 0, sweep |-> sweep + 1], page |-> {},
                  next |-> 0, count |-> 0, synced |-> synced]
      BY <2>1 DEF Off, Fresh
    <2>3. job' \in Jobs
      <3>1. [token |-> 0, sweep |-> sweep + 1] \in Copies
        BY <1>1, <2>1 DEF Copies
      <3>2. QED
        BY <1>1, <2>2, <3>1 DEF Jobs
    <2>4. LabelerTypeOK'
      <3>1. sweep + 1 \in 0..MaxSweeps
        BY <1>1, <2>1
      <3>2. seen' \in [due : SUBSET Mail, listed : SUBSET Mail, done : SUBSET Mail]
        BY <1>1, <2>1
      <3>3. QED
        BY <1>2, <1>3, <2>1, <2>3, <3>1, <3>2 DEF LabelerInv, LabelerTypeOK
    <2>5. \A m \in box' : ~(Turnwise(box, m)' <= 0)
      <3>1. \A m \in box : Turnwise(box, m)' = Turnwise(box, m) /\ Turnwise(box, m) \in 1..Total
        BY <1>3, BoxFacts DEF LabelerInv, Turnwise
      <3>2. Total \in Nat
        BY BoxFacts DEF LabelerInv
      <3>3. QED
        BY <1>3, <3>1, <3>2
    <2>6. ASSUME NEW c \in Copies, CopySound(c) PROVE CopySound(c)'
      <3>1. c.sweep \in Nat /\ c.sweep <= sweep
        BY <1>1, <2>6 DEF CopySound, Copies
      <3>2. QED
        BY <1>1, <2>1, <3>1 DEF CopySound
    <2>7. CopySound(job.copy)'
      <3>0. job'.copy = [token |-> 0, sweep |-> sweep + 1]
        BY <2>2
      <3>1. job'.copy.token = 0 /\ job'.copy.sweep = sweep'
        <4>1. sweep' = sweep + 1
          BY <2>1
        <4>2. QED
          BY <3>0, <4>1
      <3>2. First(job.copy.token)' = {}
        BY <2>5, <3>1 DEF First
      <3>3. sweep' <= sweep'
        BY <1>1, <2>1
      <3>4. QED
        BY <3>1, <3>2, <3>3 DEF CopySound
    <2>8. CopySound(file)' /\ (vault' # NoCopy => CopySound(vault)')
      BY <1>1, <1>3, <2>6 DEF LabelerInv
    <2>9. /\ job'.step = "list" /\ job'.copy.sweep = sweep' /\ job'.count < Limit
          /\ seen'.done \subseteq seen'.listed /\ seen'.due \subseteq 1..arrived'
      <3>1. 0 < Limit /\ job'.step = "list" /\ job'.count = 0
        BY <1>1, <2>2
      <3>2. job'.copy.sweep = sweep'
        <4>1. job'.copy = [token |-> 0, sweep |-> sweep + 1]
          BY <2>2
        <4>2. sweep' = sweep + 1
          BY <2>1
        <4>3. QED
          BY <4>1, <4>2
      <3>3. QED
        BY <1>1, <1>3, <2>1, <3>1, <3>2
    <2>10. QED
      BY <2>4, <2>7, <2>8, <2>9 DEF LabelerInv
  <1>5. CASE copy.token # 0
    <2>1. /\ UNCHANGED <<sweep, seen>> /\ spoilt' = (spoilt \/ copy.sweep # sweep)
          /\ job' = [Off EXCEPT !.step = "list", !.synced = synced, !.copy = copy]
      BY <1>5 DEF Start
    <2>2. job' = [step |-> "list", copy |-> copy, page |-> {}, next |-> 0,
                  count |-> 0, synced |-> synced]
      BY <2>1 DEF Off, Fresh
    <2>3. job' \in Jobs
      BY <1>1, <2>2 DEF Jobs
    <2>4. LabelerTypeOK'
      BY <1>2, <1>3, <2>1, <2>3 DEF LabelerInv, LabelerTypeOK
    <2>5. Onward
      BY <1>3, <2>1 DEF Onward, First, Turnwise
    <2>6. \A c \in Copies : CopySound(c) => CopySound(c)'
      BY <2>5, CopyStands
    <2>7. CopySound(file)' /\ (vault' # NoCopy => CopySound(vault)')
      BY <1>1, <1>3, <2>6 DEF LabelerInv
    <2>8. CopySound(job.copy)'
      BY <2>2, <2>6
    <2>9. /\ job'.step = "list" /\ (~spoilt' => job'.copy.sweep = sweep') /\ job'.count < Limit
          /\ seen'.done \subseteq seen'.listed /\ seen'.due \subseteq 1..arrived'
      <3>1. 0 < Limit /\ job'.step = "list" /\ job'.count = 0
        BY <1>1, <2>2
      <3>2. QED
        BY <1>1, <1>3, <2>1, <2>2, <3>1 DEF LabelerInv
    <2>10. QED
      BY <2>4, <2>7, <2>8, <2>9 DEF LabelerInv
  <1>6. QED
    BY <1>4, <1>5

(* A run starts from a stored token, its own copy or none. *)
LEMMA LoadSound ==
    ASSUME LabelerInv, Load \/ LoadAlone
    PROVE  LabelerInv'
  <1>1. file \in Copies /\ (vault # NoCopy => vault \in Copies)
    BY DEF LabelerInv, LabelerTypeOK
  <1>2. CASE Load
    BY <1>1, <1>2, StartSound DEF Load, LabelerInv
  <1>3. CASE LoadAlone
    <2> DEFINE synced == vault = NoCopy
    <2>1. job.step = "off" /\ Mishap /\ Start(file, synced) /\ synced \in BOOLEAN
      BY <1>3 DEF LoadAlone
    <2> HIDE DEF synced
    <2>2. CASE synced = TRUE
      BY <1>1, <2>1, <2>2, StartSound DEF LabelerInv
    <2>3. CASE synced = FALSE
      BY <1>1, <2>1, <2>3, StartSound DEF LabelerInv
    <2>4. QED
      BY <2>1, <2>2, <2>3
  <1>4. QED
    BY <1>2, <1>3

(* The types that every step of a run needs. *)
LEMMA RunFacts ==
    ASSUME LabelerInv
    PROVE  /\ job \in Jobs /\ job.copy \in Copies /\ job.copy.token \in Nat /\ job.next \in Nat
           /\ job.next \in 0..MaxMail /\ job.page \subseteq Mail /\ job.count \in Nat
           /\ job.copy.sweep \in 0..MaxSweeps /\ job.synced \in BOOLEAN
           /\ file \in Copies /\ vault \in Copies \cup {NoCopy}
           /\ MaxMail \in Nat /\ Limit \in Nat /\ Limit > 0 /\ PageSize \in Nat /\ PageSize > 0
           /\ MaxMishaps \in Nat /\ MaxSweeps \in Nat /\ Off \in Jobs /\ Off.step = "off"
  <1>1. /\ job \in Jobs /\ file \in Copies /\ vault \in Copies \cup {NoCopy}
    BY DEF LabelerInv, LabelerTypeOK
  <1>2. /\ MaxMail \in Nat /\ Limit \in Nat /\ Limit > 0 /\ PageSize \in Nat /\ PageSize > 0
        /\ MaxMishaps \in Nat /\ MaxSweeps \in Nat
    BY LabelerAssumption
  <1>3. Off \in Jobs /\ Off.step = "off"
    <2>1. Fresh \in Copies
      BY <1>2 DEF Fresh, Copies
    <2>2. 0 \in 0..MaxMail /\ 0 \in 0..(Limit + MaxMail)
      BY <1>2
    <2>3. QED
      BY <2>1, <2>2 DEF Off, Jobs
  <1>4. job.copy \in Copies /\ job.next \in 0..MaxMail /\ job.page \subseteq Mail
        /\ job.count \in 0..(Limit + MaxMail) /\ job.synced \in BOOLEAN
    BY <1>1 DEF Jobs
  <1>5. job.copy.token \in 0..MaxMail /\ job.copy.sweep \in 0..MaxSweeps
    BY <1>4 DEF Copies
  <1>6. QED
    BY <1>1, <1>2, <1>3, <1>4, <1>5

(* A run ends: what it saved on the way is sound. *)
LEMMA EndSound ==
    ASSUME LabelerInv, Onward, NEW c \in Copies, CopySound(c),
           file' \in {file, c}, vault' \in {vault, c}, job' = Off,
           UNCHANGED <<arrived, seen>>, box' \subseteq box, spoilt' \in BOOLEAN,
           mishaps' = mishaps \/ Mishap
    PROVE  LabelerInv'
  <1>1. LabelerTypeOK'
    <2>1. mishaps' \in 0..MaxMishaps
      BY RunFacts DEF Mishap, LabelerInv, LabelerTypeOK
    <2>2. QED
      BY <2>1, RunFacts DEF LabelerInv, LabelerTypeOK, Onward
  <1>2. CopySound(c)' /\ CopySound(file)' /\ (vault' # NoCopy => CopySound(vault)')
    <2>1. \A d \in Copies : CopySound(d) => CopySound(d)'
      BY CopyStands
    <2>2. ASSUME NEW d \in Copies, CopySound(d)', file' = d PROVE CopySound(file)'
      BY <2>2 DEF CopySound, First
    <2>3. ASSUME NEW d \in Copies, CopySound(d)', vault' = d PROVE CopySound(vault)'
      BY <2>3 DEF CopySound, First
    <2>4. CopySound(file)'
      BY <2>1, <2>2, RunFacts DEF LabelerInv
    <2>5. vault' # NoCopy => CopySound(vault)'
      BY <2>1, <2>3, RunFacts DEF LabelerInv
    <2>6. QED
      BY <2>1, <2>4, <2>5
  <1>3. job'.step = "off"
    BY RunFacts
  <1>4. QED
    BY <1>1, <1>2, <1>3 DEF LabelerInv

(* What a page's actions may take from the mailbox: nothing, or the listing   *)
(* is spoilt, for the page was listed.                                       *)
LEMMA PartTaken ==
    ASSUME LabelerInv, NEW ms, Depart(ms),
           job.step # "apply" => ms = {},
           ms \subseteq job.page
    PROVE  /\ box' \subseteq box /\ spoilt' \in BOOLEAN
           /\ ~spoilt' => ~spoilt /\ box' = box
  <1>1. box' = box \ ms /\ spoilt' = (spoilt \/ ~(ms \subseteq seen.due \ seen.listed))
    BY DEF Depart
  <1>2. ms \subseteq seen.listed
    BY DEF LabelerInv
  <1>3. QED
    BY <1>1, <1>2

(* A page is listed from the token, or the call fails. *)
LEMMA ListSound ==
    ASSUME LabelerInv, List \/ ListFails
    PROVE  LabelerInv'
  <1>1. UNCHANGED <<setup, box, arrived, file, vault, sweep, spoilt>>
    BY DEF List, ListFails, stored
  <1>2. job.step = "list" /\ job.count < Limit /\ CopySound(job.copy)
        /\ (~spoilt => job.copy.sweep = sweep)
    BY DEF List, ListFails, LabelerInv
  <1>3. \A c \in Copies : (seen'.due = seen.due /\ seen'.done = seen.done /\ CopySound(c))
                            => CopySound(c)'
    BY <1>1 DEF CopySound, First, Turnwise
  <1>4. mishaps' \in 0..MaxMishaps
    BY RunFacts DEF List, ListFails, Mishap, LabelerInv, LabelerTypeOK
  <1>5. CASE job' = [job EXCEPT !.step = "nothing"] /\ UNCHANGED seen
    <2>1. job' \in Jobs /\ job'.step = "nothing" /\ job'.copy = job.copy
      BY <1>5, RunFacts DEF Jobs
    <2>2. LabelerTypeOK'
      BY <1>1, <1>4, <1>5, <2>1 DEF LabelerInv, LabelerTypeOK
    <2>3. CopySound(file)' /\ (vault' # NoCopy => CopySound(vault)') /\ CopySound(job.copy)'
      BY <1>1, <1>2, <1>3, <1>5, <2>1, RunFacts DEF LabelerInv, CopySound, First, Turnwise
    <2>4. QED
      BY <1>1, <1>2, <1>5, <2>1, <2>2, <2>3 DEF LabelerInv
  <1>6. CASE List /\ ~(job' = [job EXCEPT !.step = "nothing"] /\ UNCHANGED seen)
    <2> DEFINE start == job.copy.token
               n     == Min({Limit - job.count, PageSize})
               page  == Page(start, n)
               next  == IF start + n < Total THEN start + n ELSE 0
    <2>1. /\ job' = [job EXCEPT !.step = "apply", !.page = page, !.next = next]
          /\ seen' = [seen EXCEPT !.listed = @ \cup page]
      BY <1>6 DEF List
    <2>2. start \in Nat /\ n \in Nat /\ n > 0 /\ Total \in Nat /\ Total <= MaxMail
      <3>1. Limit - job.count \in Int /\ Limit - job.count > 0 /\ PageSize \in Int /\ PageSize > 0
        BY <1>2, RunFacts
      <3>2. n \in {Limit - job.count, PageSize}
        BY <3>1, MinOfTwo
      <3>3. QED
        BY <3>1, <3>2, RunFacts, BoxFacts DEF LabelerInv
    <2> HIDE DEF n
    <2>3. /\ page \subseteq box
          /\ First(start + n) \subseteq First(start) \cup page
          /\ start + n >= Total => First(start + n) = box
      BY <2>2, PageFollows
    <2>4. next \in 0..MaxMail
      BY <2>2, RunFacts
    <2>5. box \subseteq Mail
      BY BoxFacts DEF LabelerInv
    <2> HIDE DEF page
    <2>6. /\ job' \in Jobs /\ job'.step = "apply" /\ job'.copy = job.copy
          /\ job'.page = page /\ job'.next = next /\ job'.count = job.count
      BY <2>1, <2>3, <2>4, <2>5, RunFacts DEF Jobs
    <2>7. /\ seen' \in [due : SUBSET Mail, listed : SUBSET Mail, done : SUBSET Mail]
          /\ seen'.due = seen.due /\ seen'.done = seen.done
          /\ seen'.listed = seen.listed \cup page
      BY <2>1, <2>3, <2>5 DEF LabelerInv, LabelerTypeOK
    <2>8. LabelerTypeOK'
      BY <1>1, <1>4, <2>6, <2>7 DEF LabelerInv, LabelerTypeOK
    <2>9. CopySound(file)' /\ (vault' # NoCopy => CopySound(vault)') /\ CopySound(job.copy)'
      BY <1>1, <1>2, <2>6, <2>7, RunFacts DEF LabelerInv, CopySound, First, Turnwise
    <2>10. ~spoilt => First(start) \cap seen.due \subseteq seen.done
      BY <1>2 DEF CopySound
    <2>11. ~spoilt => Reach' \cap seen.due \subseteq seen.done \cup page
      <3>1. CASE start + n < Total
        <4>1. next = start + n /\ next # 0
          BY <2>2, <3>1
        <4>2. Reach' = First(start + n)
          BY <1>1, <2>6, <4>1 DEF Reach, First, Turnwise
        <4>3. QED
          BY <2>3, <2>10, <4>2
      <3>2. CASE ~(start + n < Total)
        <4>1. Reach' = box /\ First(start + n) = box
          BY <1>1, <2>2, <2>3, <2>6, <3>2 DEF Reach
        <4>2. QED
          BY <2>3, <2>10, <4>1
      <3>3. QED
        BY <3>1, <3>2
    <2>12. QED
      BY <1>1, <1>2, <2>6, <2>7, <2>8, <2>9, <2>11 DEF LabelerInv
  <1>7. QED
    BY <1>5, <1>6 DEF List, ListFails

(* The page is worked through. *)
LEMMA ApplySoundly ==
    ASSUME LabelerInv, ApplyActions
    PROVE  LabelerInv'
  <1>1. PICK ms \in SUBSET (job.page \cap Leaves \cap box) : Depart(ms)
    BY DEF ApplyActions
  <1>2. /\ job.step = "apply"
        /\ job' = [job EXCEPT !.step = "save", !.count = @ + Cardinality(job.page \ Held)]
        /\ seen' = [seen EXCEPT !.done = @ \cup job.page]
        /\ UNCHANGED <<setup, arrived, file, vault, sweep, mishaps>>
    BY DEF ApplyActions, stored
  <1>3. /\ box' \subseteq box /\ spoilt' \in BOOLEAN
        /\ ~spoilt' => ~spoilt /\ box' = box
    BY <1>1, <1>2, PartTaken
  <1>4. /\ job' \in Jobs /\ job'.step = "save" /\ job'.copy = job.copy /\ job'.next = job.next
    <2>1. IsFiniteSet(1..MaxMail) /\ Cardinality(1..MaxMail) = MaxMail
      BY RunFacts, FirstNumbers
    <2>2. job.page \ Held \in SUBSET (1..MaxMail)
      BY RunFacts DEF Mail
    <2>3. Cardinality(job.page \ Held) \in Nat /\ Cardinality(job.page \ Held) <= MaxMail
      BY <2>1, <2>2, FS_Subset, FS_CardinalityType
    <2>4. job.count < Limit
      BY <1>2 DEF LabelerInv
    <2>5. job.count + Cardinality(job.page \ Held) \in 0..(Limit + MaxMail)
      BY <2>3, <2>4, RunFacts
    <2>6. QED
      BY <1>2, <2>5, RunFacts DEF Jobs
  <1>5. /\ seen' \in [due : SUBSET Mail, listed : SUBSET Mail, done : SUBSET Mail]
        /\ seen'.due = seen.due /\ seen'.done = seen.done \cup job.page
        /\ seen'.listed = seen.listed
    BY <1>2, RunFacts DEF LabelerInv, LabelerTypeOK
  <1>6. LabelerTypeOK'
    BY <1>2, <1>3, <1>4, <1>5 DEF LabelerInv, LabelerTypeOK
  <1>7. Onward
    BY <1>2, <1>3, <1>5 DEF Onward, First, Turnwise
  <1>8. \A c \in Copies : CopySound(c) => CopySound(c)'
    BY <1>7, CopyStands
  <1>9. CopySound(file)' /\ (vault' # NoCopy => CopySound(vault)') /\ CopySound(job.copy)'
    <2>1. CopySound(file)' /\ (vault' # NoCopy => CopySound(vault)')
      BY <1>2, <1>8, RunFacts DEF LabelerInv
    <2>2. CopySound(job.copy)'
      BY <1>2, <1>4, <1>8, RunFacts DEF LabelerInv, CopySound, First
    <2>3. QED
      BY <2>1, <2>2
  <1>10. ~spoilt' => Reach' \cap seen'.due \subseteq seen'.done
    <2>1. ~spoilt' => Reach' = Reach
      BY <1>2, <1>3, <1>4 DEF Reach, First, Turnwise
    <2>2. QED
      BY <1>2, <1>3, <1>5, <2>1 DEF LabelerInv
  <1>11. QED
    BY <1>2, <1>3, <1>4, <1>5, <1>6, <1>9, <1>10 DEF LabelerInv

(* The token of the next page belongs to what is worked through by now. *)
LEMMA SaveSound ==
    ASSUME LabelerInv, SavePage
    PROVE  LabelerInv'
  <1>1. /\ UNCHANGED <<setup, box, arrived, sweep, seen, spoilt>> /\ job.step = "save"
        /\ mishaps' = mishaps \/ Mishap
        /\ file' \in {file, Following} /\ vault' \in {vault, Following}
        /\ \E synced \in BOOLEAN : Turn(synced)
    BY RunFacts DEF SavePage, Save, SaveFails, PushUnanswered, stored
  <1>2. Onward
    BY <1>1 DEF Onward, First, Turnwise
  <1>3. PICK c \in Copies : c = Following
    BY RunFacts DEF Following, Copies
  <1>4. c.token = job.next /\ c.sweep = job.copy.sweep
    BY <1>3 DEF Following
  <1>5. CopySound(c)
    <2>1. CopySound(job.copy) /\ (~spoilt => Reach \cap seen.due \subseteq seen.done)
      BY <1>1 DEF LabelerInv
    <2>2. c.token = 0 => First(c.token) = {}
      <3>1. \A m \in box : ~(Turnwise(box, m) <= 0)
        BY BoxFacts DEF LabelerInv
      <3>2. QED
        BY <3>1 DEF First
    <2>3. c.token # 0 => First(c.token) = Reach
      BY <1>4 DEF Reach
    <2>4. QED
      BY <1>4, <2>1, <2>2, <2>3 DEF CopySound
  <1>6. \A d \in Copies : CopySound(d) => CopySound(d)'
    BY <1>2, CopyStands
  <1>7. CopySound(file)' /\ (vault' # NoCopy => CopySound(vault)')
    <2>1. CopySound(file)'
      <3>1. CASE file' = file
        BY <1>6, <3>1, RunFacts DEF LabelerInv
      <3>2. CASE file' = c
        BY <1>5, <1>6, <3>2 DEF CopySound, First
      <3>3. QED
        BY <1>1, <1>3, <3>1, <3>2
    <2>2. ASSUME vault' # NoCopy PROVE CopySound(vault)'
      <3>1. CASE vault' = vault
        BY <1>6, <2>2, <3>1, RunFacts DEF LabelerInv
      <3>2. CASE vault' = c
        BY <1>5, <1>6, <3>2 DEF CopySound, First
      <3>3. QED
        BY <1>1, <1>3, <3>1, <3>2
    <2>3. QED
      BY <2>1, <2>2
  <1>8. PICK synced \in BOOLEAN : Turn(synced)
    BY <1>1
  <1>9. ASSUME job' \in Jobs
        PROVE  LabelerTypeOK'
    <2>1. mishaps' \in 0..MaxMishaps
      BY <1>1, RunFacts DEF Mishap, LabelerInv, LabelerTypeOK
    <2>2. file' \in Copies /\ vault' \in Copies \cup {NoCopy}
      BY <1>1, <1>3, RunFacts
    <2>3. QED
      BY <1>1, <1>9, <2>1, <2>2 DEF LabelerInv, LabelerTypeOK
  <1>10. CASE job.next = 0
    <2>1. job' = [job EXCEPT !.step = "complete"]
      BY <1>8, <1>10 DEF Turn
    <2>2. job' \in Jobs /\ job'.step = "complete" /\ job'.copy = job.copy
      BY <2>1, RunFacts DEF Jobs
    <2>3. CopySound(job.copy)'
      BY <1>1, <1>6, <2>2, RunFacts DEF LabelerInv, CopySound, First
    <2>4. ~spoilt => box \cap seen.due \subseteq seen.done
      BY <1>1, <1>10 DEF LabelerInv, Reach
    <2>5. ~spoilt => job.copy.sweep = sweep
      BY <1>1 DEF LabelerInv
    <2>6. QED
      BY <1>1, <1>7, <1>9, <2>2, <2>3, <2>4, <2>5 DEF LabelerInv
  <1>11. CASE job.next # 0 /\ job.count >= Limit
    <2>1. job' = Off
      BY <1>8, <1>11 DEF Turn
    <2>2. QED
      BY <1>1, <1>7, <1>9, <2>1, RunFacts DEF LabelerInv
  <1>12. CASE job.next # 0 /\ ~(job.count >= Limit)
    <2>1. job' = [job EXCEPT !.step = "list", !.copy = c, !.page = {}, !.next = 0,
                             !.synced = synced]
      BY <1>3, <1>8, <1>12 DEF Turn
    <2>2. /\ job' \in Jobs /\ job'.step = "list" /\ job'.copy = c /\ job'.count = job.count
      <3>1. 0 \in 0..MaxMail /\ {} \in SUBSET Mail
        BY RunFacts
      <3>2. QED
        BY <1>8, <2>1, <3>1, RunFacts DEF Jobs
    <2>3. CopySound(job.copy)'
      BY <1>5, <1>6, <2>2 DEF CopySound, First
    <2>4. job.count < Limit
      BY <1>12, RunFacts
    <2>5. ~spoilt => c.sweep = sweep
      BY <1>1, <1>4 DEF LabelerInv
    <2>6. QED
      BY <1>1, <1>7, <1>9, <2>2, <2>3, <2>4, <2>5 DEF LabelerInv
  <1>13. QED
    BY <1>10, <1>11, <1>12

(* The ends of a run: in order, on an exception, or without a word. *)
LEMMA StopSound ==
    ASSUME LabelerInv, Finish \/ Raise \/ Kill
    PROVE  LabelerInv'
  <1>1. /\ job.step # "off" /\ job' = Off /\ UNCHANGED <<setup, arrived, sweep, seen>>
        /\ file' \in {file, job.copy} /\ vault' \in {vault, job.copy}
        /\ mishaps' = mishaps \/ Mishap
    BY DEF Finish, Raise, Kill, Save, SaveFails, stored
  <1>2. /\ box' \subseteq box /\ spoilt' \in BOOLEAN
        /\ ~spoilt' => ~spoilt /\ box' = box
    <2>1. CASE Finish
      BY <2>1 DEF Finish, LabelerInv, LabelerTypeOK
    <2>2. CASE Raise \/ Kill
      <3>1. PICK ms \in SUBSET (IF job.step = "apply" THEN job.page \cap Leaves \cap box ELSE {}) :
                   Depart(ms)
        BY <2>2 DEF Raise, Kill, PartOfPage
      <3>2. (job.step # "apply" => ms = {}) /\ ms \subseteq job.page
        BY <3>1
      <3>3. QED
        BY <3>1, <3>2, PartTaken
    <2>3. QED
      BY <2>1, <2>2
  <1>3. Onward
    BY <1>1, <1>2 DEF Onward, First, Turnwise
  <1>4. job.copy \in Copies /\ CopySound(job.copy)
    BY <1>1, RunFacts DEF LabelerInv
  <1>5. QED
    BY <1>1, <1>2, <1>3, <1>4, EndSound

(* Every step of the triage loop keeps the invariant. *)
LEMMA LabelerPreserved ==
    ASSUME LabelerInv, LabelerNext \/ UNCHANGED labelerVars
    PROVE  LabelerInv'
  <1>1. CASE UNCHANGED labelerVars
    BY <1>1 DEF labelerVars, LabelerInv, LabelerTypeOK, CopySound, First, Turnwise, Reach
  <1>2. CASE LabelerNext
    BY <1>2, MailboxSound, LoadSound, ListSound, ApplySoundly, SaveSound, StopSound
       DEF LabelerNext
  <1>3. QED
    BY <1>1, <1>2

(* Nothing was listed yet. *)
LEMMA LabelerInitially ==
    ASSUME LabelerInit
    PROVE  LabelerInv
  <1>1. /\ MaxMail \in Nat /\ Present \in 0..MaxMail /\ Limit \in Nat /\ MaxSweeps \in Nat
        /\ MaxMishaps \in Nat
    BY LabelerAssumption
  <1>2. Fresh \in Copies /\ Fresh.sweep = 0 /\ Fresh.token = 0
    BY <1>1 DEF Fresh, Copies
  <1>3. Off \in Jobs /\ Off.step = "off"
    <2>1. 0 \in 0..MaxMail /\ 0 \in 0..(Limit + MaxMail)
      BY <1>1
    <2>2. QED
      BY <1>2, <2>1 DEF Off, Jobs
  <1>4. LabelerTypeOK
    <2>1. /\ Present \in Present..MaxMail /\ 0 \in 0..MaxSweeps /\ 0 \in 0..MaxMishaps
      BY <1>1
    <2>2. QED
      BY <1>2, <1>3, <2>1 DEF LabelerInit, LabelerTypeOK
  <1>5. CopySound(file)
    BY <1>2 DEF CopySound, LabelerInit
  <1>6. QED
    BY <1>3, <1>4, <1>5 DEF LabelerInit, LabelerInv

(* A sweep that has come to the end has covered what the listing holds. *)
LEMMA SweepFollows ==
    ASSUME LabelerInv
    PROVE  SweepCovers
  BY DEF LabelerInv, SweepCovers

-----------------------------------------------------------------------------
(* The service. *)

ServiceInv == WebhookInv /\ MeteringInv /\ LabelerInv

(* Whatever program a behaviour drives, every state of it is sound. *)
THEOREM ServiceInvariant == Spec => []ServiceInv
  <1>1. Init => ServiceInv
    BY WebhookInitially, MeteringInitially, LabelerInitially DEF Init, ServiceInv
  <1>2. ServiceInv /\ [Next]_vars => ServiceInv'
    <2> SUFFICES ASSUME ServiceInv, [Next]_vars PROVE ServiceInv'
      OBVIOUS
    <2>1. WebhookNext \/ UNCHANGED webhookVars
      BY DEF Next, vars, WebhookOnly
    <2>2. MeteringNext \/ UNCHANGED meteringVars
      BY DEF Next, vars, WebhookOnly
    <2>3. LabelerNext \/ UNCHANGED labelerVars
      BY DEF Next, vars, WebhookOnly
    <2>4. QED
      BY <2>1, <2>2, <2>3, WebhookPreserved, MeteringPreserved, LabelerPreserved
         DEF ServiceInv
  <1>3. QED
    BY <1>1, <1>2, PTL DEF Spec

(* Every variable keeps its type. *)
THEOREM TypeCorrectness == Spec => []TypeOK
  <1>1. ServiceInv => TypeOK
    BY DEF ServiceInv, WebhookInv, MeteringInv, LabelerInv, TypeOK
  <1>2. QED
    BY <1>1, ServiceInvariant, PTL

(* However often events are delivered, interrupted or lost on the way, the    *)
(* account has the limits of its subscription once nothing is left to        *)
(* deliver, unless one was applied after a newer one; and paid limits never   *)
(* outlast what was sold (_handle_event, entitlements_for).                  *)
THEOREM SettledAccountsAgree == Spec => []SettledAgrees
  <1>1. ServiceInv => SettledAgrees
    BY SettledFollows DEF ServiceInv
  <1>2. QED
    BY <1>1, ServiceInvariant, PTL

(* Any number of runs at once, over month ends, refunds, crashes and changes  *)
(* of plan: what was reserved is charged once, where it was reserved, and no  *)
(* race lets more runs through than a cap allowed (reserve_live_run,         *)
(* LiveRunReservation.rollback).                                             *)
THEOREM MeterIsTrue == Spec => []MeterTruth
  <1>1. ServiceInv => MeterTruth
    BY MeterFollows DEF ServiceInv
  <1>2. QED
    BY <1>1, ServiceInvariant, PTL

(* For a mailbox, a page and a limit of any size: a sweep that has come to     *)
(* the end has worked through what was there when it began and still is,     *)
(* unless it was spoilt (run_labeler, StateManager).                         *)
THEOREM SweepsCover == Spec => []SweepCovers
  <1>1. ServiceInv => SweepCovers
    BY SweepFollows DEF ServiceInv
  <1>2. QED
    BY <1>1, ServiceInvariant, PTL
=============================================================================
