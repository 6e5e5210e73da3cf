---------------------------- MODULE RunMetering ----------------------------
(***************************************************************************)
(* Metering of an account's live runs: LiveRunReservation and              *)
(* reserve_live_run (api/metering.py), the run around them                 *)
(* (api/triage_runtime.py), and the counters of the store (api/store.py).  *)
(*                                                                         *)
(* Live runs are threads of one process; each store call is one            *)
(* transaction.  The webhook changes the plan and a checkout adds credits  *)
(* beside them, a month may end in the middle of a run, and a crash ends   *)
(* every run.                                                              *)
(***************************************************************************)
EXTENDS Integers, FiniteSets

CONSTANTS
    Runs,        \* live triage requests of the account
    Plans,       \* what entitlements_for may answer
    Cap,         \* monthly_run_cap of each plan, Unlimited for none
    MaxMonth,    \* bound: billing months
    MaxGrants,   \* bound: credits that are bought
    MaxCrashes,  \* bound: process crashes
    Unlimited, NoPlan

ASSUME MeteringAssumption ==
    /\ Cap \in [Plans -> Nat \cup {Unlimited}]
    /\ MaxMonth \in Nat \ {0}
    /\ MaxGrants \in Nat /\ MaxCrashes \in Nat
    /\ Unlimited \notin Nat
    /\ NoPlan \notin Plans

VARIABLES
    plan,     \* the plan whose limits the account gets now
    credits,  \* accounts.run_credits
    usage,    \* usage_counters.live_runs of each month
    month,    \* the current period key
    run,      \* each live run
    granted,  \* history: credits bought
    crashes   \* crashes so far

accountRow == <<plan, credits>>
meteringVars == <<plan, credits, usage, month, run, granted, crashes>>
-----------------------------------------------------------------------------
Months == 1..MaxMonth
Steps  == {"new", "seen", "short", "reserved", "worked", "refused",
           "refunded", "dead"}
\* plan, rich: what the account row said when the request was authorized.
RunStates == [step : Steps, plan : Plans \cup {NoPlan}, rich : BOOLEAN,
              month : 0..MaxMonth, paid : {"none", "allowance", "credit"}]
NewRun == [step |-> "new", plan |-> NoPlan, rich |-> FALSE, month |-> 0,
           paid |-> "none"]

MeteringTypeOK ==
    /\ plan \in Plans
    /\ credits \in Nat
    /\ usage \in [Months -> Nat]
    /\ month \in Months
    /\ run \in [Runs -> RunStates]
    /\ granted \in 0..MaxGrants
    /\ crashes \in 0..MaxCrashes

MeteringInit ==
    /\ plan \in Plans
    /\ credits = 0
    /\ usage = [m \in Months |-> 0]
    /\ month = 1
    /\ run = [r \in Runs |-> NewRun]
    /\ granted = 0
    /\ crashes = 0
-----------------------------------------------------------------------------
\* require_authorized_account: the row the request goes on with.
Authorize(r) ==
    /\ run[r].step = "new"
    /\ run' = [run EXCEPT ![r] =
           [step |-> "seen", plan |-> plan, rich |-> credits > 0, month |-> month,
            paid |-> "none"]]
    /\ UNCHANGED <<accountRow, usage, month, granted, crashes>>

Covers(cap, n) == cap = Unlimited \/ n < cap

\* The allowance is used up: a credit may still pay for the run.
WithoutAllowance(r) ==
    /\ run' = [run EXCEPT ![r].step =
                   IF run[r].rich THEN "short" ELSE "refused"]
    /\ UNCHANGED usage

\* store.reserve_live_run: the check and the count in one statement, for the
\* period key that was read a moment ago.
Reserve(r) ==
    /\ run[r].step = "seen"
    /\ \E m \in run[r].month..month :
           IF Covers(Cap[run[r].plan], usage[m])
           THEN /\ usage' = [usage EXCEPT ![m] = @ + 1]
                /\ run' = [run EXCEPT ![r].step = "reserved",
                               ![r].paid = "allowance", ![r].month = m]
           ELSE WithoutAllowance(r)
    /\ UNCHANGED <<accountRow, month, granted, crashes>>

\* store.consume_credit: the check and the debit in one statement.
Consume(r) ==
    /\ run[r].step = "short"
    /\ IF credits > 0
       THEN /\ credits' = credits - 1
            /\ run' = [run EXCEPT ![r].step = "reserved",
                                  ![r].paid = "credit"]
       ELSE /\ run' = [run EXCEPT ![r].step = "refused"]
            /\ UNCHANGED credits
    /\ UNCHANGED <<plan, usage, month, granted, crashes>>

\* The run comes back: commit.  A receipt that cannot be stored ends the
\* request without a rollback, which charges the run as well.
Work(r) ==
    /\ run[r].step = "reserved"
    /\ run' = [run EXCEPT ![r].step = "worked"]
    /\ UNCHANGED <<accountRow, usage, month, granted, crashes>>

\* Slip: the refund goes to the month that is current now.
RollbackNow(r) ==
    /\ run[r].step = "reserved"
    /\ run' = [run EXCEPT ![r].step = "refunded"]
    /\ IF run[r].paid = "credit"
       THEN credits' = credits + 1 /\ UNCHANGED usage
       ELSE /\ usage' = [usage EXCEPT ![month] = IF @ > 0 THEN @ - 1 ELSE 0]
            /\ UNCHANGED credits
    /\ UNCHANGED <<plan, month, granted, crashes>>

\* The run raised: LiveRunReservation.rollback.
Rollback(r) ==
    /\ run[r].step = "reserved"
    /\ run' = [run EXCEPT ![r].step = "refunded"]
    /\ IF run[r].paid = "credit"
       THEN credits' = credits + 1 /\ UNCHANGED usage
       ELSE /\ usage' = [usage EXCEPT ![run[r].month] =
                             IF @ > 0 THEN @ - 1 ELSE 0]
            /\ UNCHANGED credits
    /\ UNCHANGED <<plan, month, granted, crashes>>

\* set_subscription, or the end of a paid period.
PlanChanges ==
    /\ plan' \in Plans \ {plan}
    /\ UNCHANGED <<credits, usage, month, run, granted, crashes>>

\* fulfill_once of a checkout.
BuyCredit ==
    /\ granted < MaxGrants
    /\ granted' = granted + 1
    /\ credits' = credits + 1
    /\ UNCHANGED <<plan, usage, month, run, crashes>>

NextMonth ==
    /\ month < MaxMonth
    /\ month' = month + 1
    /\ UNCHANGED <<accountRow, usage, run, granted, crashes>>

\* The process ends: what was reserved is never given back.
Crash ==
    /\ crashes < MaxCrashes
    /\ crashes' = crashes + 1
    /\ run' = [r \in Runs |->
           IF run[r].step \in {"seen", "short", "reserved"}
           THEN [run[r] EXCEPT !.step = "dead"] ELSE run[r]]
    /\ UNCHANGED <<accountRow, usage, month, granted>>

MeteringNext ==
    \/ \E r \in Runs : \/ Authorize(r) \/ Reserve(r) \/ Consume(r)
                       \/ Work(r) \/ Rollback(r)
    \/ PlanChanges \/ BuyCredit \/ NextMonth \/ Crash

MeteringSpec == MeteringInit /\ [][MeteringNext]_meteringVars
-----------------------------------------------------------------------------
(* Properties.                                                             *)

\* Runs that stay charged: a crash gives nothing back.
Charged(kind) == {r \in Runs : run[r].paid = kind /\ run[r].step # "refunded"}
ChargedIn(m) == {r \in Charged("allowance") : run[r].month = m}

\* Every reservation stays charged exactly once, in the month it was made in,
\* and a run that raised is given back exactly once, whatever month it is by
\* then and whatever the other runs do.
MeterBalances ==
    /\ \A m \in Months : usage[m] = Cardinality(ChargedIn(m))
    /\ credits + Cardinality(Charged("credit")) = granted

\* No race lets more runs through in a month than the largest cap that any
\* of them was authorized under.
CapHolds ==
    \A m \in Months : ChargedIn(m) # {} =>
        \E r \in ChargedIn(m) :
            \/ Cap[run[r].plan] = Unlimited
            \/ Cardinality(ChargedIn(m)) <= Cap[run[r].plan]

\* The meter is right about what was run (reserve_live_run, refund_live_run).
MeterTruth == MeterBalances /\ CapHolds
=============================================================================
