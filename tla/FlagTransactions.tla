-------------------------- MODULE FlagTransactions --------------------------
(***************************************************************************)
(* The flag-migration transaction engine: core/flag_transactions.py with   *)
(* the override store of core/flag_workflow.py and the compare-and-set of  *)
(* the Mail.app provider (providers/mailapp.py).                           *)
(*                                                                         *)
(* Workers are processes that apply, roll back or probe an approved batch  *)
(* of mutations of one plan, under that plan's advisory lock.  Every       *)
(* durable append, every provider request and every read of state another  *)
(* worker or a human can change is a step of its own, so a crash or an     *)
(* interleaving can fall between any two of them.                          *)
(***************************************************************************)
EXTENDS FlagLedger, FiniteSets

CONSTANTS
    Workers,        \* processes that call the engine
    Plans,          \* plan hashes
    Messages,       \* ref_digests: one per mailbox message, shared by plans
    PlanOf,         \* the plan a mutation belongs to
    MessageOf,      \* the message it changes
    Observed,       \* the flag it was planned against (observed_flag)
    ApprovalPlan,   \* the plan an approval is bound to
    Approved,       \* the mutations it names
    ExecutionFlag,  \* the flag an approval writes for a mutation
    Unknown,        \* FlagColor.UNKNOWN: a live state nobody can name
    HumanColors,    \* the flags a person is allowed to set (a bound)
    MaxCanary,      \* targets of a canary, receipts of a rollback (3)
    Calls,          \* the calls workers make (all of Operations, or a bound)
    Faults,         \* how an append may fail (all of AppendFaults, or a bound)
    Nobody, NoMutation, NoOverride

Operations   == {"apply", "canary", "rollback", "rollback_one", "probe"}
AppendFaults == {"lost", "unsynced", "unterminated", "torn"}

ASSUME FlagAssumption ==
    /\ PlanOf \in [Mutations -> Plans]
    /\ MessageOf \in [Mutations -> Messages]
    /\ Observed \in [Mutations -> Colors]
    /\ ApprovalPlan \in [Approvals -> Plans]
    /\ Approved \in [Approvals -> SUBSET Mutations]
    /\ \A a \in Approvals : IsFiniteSet(Approved[a])
    /\ \A a \in Approvals : \A m \in Approved[a] : PlanOf[m] = ApprovalPlan[a]
    /\ ExecutionFlag \in [Approvals -> [Mutations -> Colors]]
    /\ HumanColors \subseteq Colors
    /\ Calls \subseteq Operations
    /\ Faults \subseteq AppendFaults
    /\ Unknown \notin Colors
    /\ Nobody \notin Workers
    /\ NoMutation \notin Mutations
    /\ NoOverride \notin [expected : Colors, observed : Colors \cup {Unknown}]
    /\ MaxCanary \in 1..3

VARIABLES
    native,     \* the flag each message shows in the mailbox
    requests,   \* scoped compare-and-set requests that may still land
    lands,      \* how often each write has changed the mailbox
    overrides,  \* the active human override of a message, if any
    file,       \* ledger file: "ok", "unterminated" or "corrupt"
    latest,     \* latest_status of each mutation
    auth,       \* latest_authoritative_record of each mutation
    lock,       \* holder of each plan's advisory lock
    pc,         \* where each worker is
    cur,        \* the mutation it is working on
    job         \* its local variables and the result it is building

mailVars   == <<native, requests, lands>>
ledgerVars == <<file, latest, auth>>
vars == <<native, requests, lands, overrides, file, latest, auth, lock,
          pc, cur, job>>

-----------------------------------------------------------------------------
(* Types.                                                                  *)

Kinds    == {"apply", "restore"}
Writes   == Mutations \X Kinds
Requests == [mutation : Mutations, kind : Kinds, by : Workers,
             from : Colors, to : Colors]
Override == [expected : Colors, observed : Colors \cup {Unknown}]

Ops == Operations \cup {"none"}

RowSteps == {"replay", "refuse", "refreeze", "block", "pass", "freeze"}
ApplySteps == RowSteps \cup
    {"authorize", "preflight", "loop", "recheck", "verify", "private_state",
     "private_failed", "final"}
RestoreSteps ==
    {"classify", "check", "diverged", "restore_loop", "noop", "lineage",
     "unresolved", "human_row", "human", "claim_restore", "restored"}
DispatchSteps == {"send", "wait", "readback", "ambiguous", "refused", "drift"}
Steps == ApplySteps \cup RestoreSteps \cup DispatchSteps \cup {"idle", "done"}

ResultStates ==
    {"none", "applied", "already_applied", "partially_failed", "ambiguous",
     "blocked", "rolled_back", "already_rolled_back", "preflight_passed",
     "rollback_not_required", "partially_rolled_back",
     "partially_rolled_back_ambiguous"}

NoApproval == "no_approval"
NoJob == [op |-> "none", approval |-> NoApproval, scope |-> {}, todo |-> {},
          pending |-> {}, bad |-> {}, seen |-> Unknown, sent |-> {},
          status |-> "none", writes |-> 0, verified |-> {}, failed |-> {},
          unattempted |-> {}, already |-> {}]
Jobs == [op : Ops, approval : Approvals \cup {NoApproval},
         scope : SUBSET Mutations, todo : SUBSET Mutations,
         pending : SUBSET Mutations, bad : SUBSET Mutations,
         seen : Colors \cup {Unknown}, sent : SUBSET Mutations,
         status : ResultStates, writes : Nat, verified : SUBSET Mutations,
         failed : SUBSET Mutations, unattempted : SUBSET Mutations,
         already : SUBSET Mutations]

TypeOK ==
    /\ native \in [Messages -> Colors]
    /\ requests \subseteq Requests
    /\ lands \in [Writes -> Nat]
    /\ overrides \in [Messages -> Override \cup {NoOverride}]
    /\ file \in {"ok", "unterminated", "corrupt"}
    /\ latest \in [Mutations -> Statuses \cup {"none"}]
    /\ auth \in [Mutations -> Records]
    /\ lock \in [Plans -> Workers \cup {Nobody}]
    /\ pc \in [Workers -> Steps]
    /\ cur \in [Workers -> Mutations \cup {NoMutation}]
    /\ job \in [Workers -> Jobs]

Init ==
    /\ native \in [Messages -> Colors]
    /\ requests = {}
    /\ lands = [w \in Writes |-> 0]
    /\ overrides = [r \in Messages |-> NoOverride]
    /\ file = "ok"
    /\ latest = [m \in Mutations |-> "none"]
    /\ auth = [m \in Mutations |-> NoRecord]
    /\ lock = [q \in Plans |-> Nobody]
    /\ pc = [p \in Workers |-> "idle"]
    /\ cur = [p \in Workers |-> NoMutation]
    /\ job = [p \in Workers |-> NoJob]

-----------------------------------------------------------------------------
(* Vocabulary.  A definition marked "Slip" is no part of the system: it is    *)
(* the definition after it with a mistake in it, and exists to confirm that  *)
(* a property would notice.                                                  *)

Kind(p) == IF job[p].op \in {"apply", "canary"} THEN "apply" ELSE "restore"

State(m)      == AuthoritativeState(auth[m])

\* Slip: an override whose live flag could not be named does not count.
SuppressedIfNamed(m) ==
    overrides[MessageOf[m]] \in [expected : Colors, observed : Colors]
Suppressed(m) == overrides[MessageOf[m]] # NoOverride

Frozen(m) == latest[m] \in FrozenLatestStatuses

(* The flag a write expects to find, and the flag it leaves behind. *)
From(p, m) == IF Kind(p) = "apply" THEN Observed[m] ELSE auth[m].intended
To(p, m)   == IF Kind(p) = "apply"
              THEN ExecutionFlag[job[p].approval][m] ELSE Observed[m]

\* Slip: any verified apply will do.
LineageByStatus(p, m) == auth[m].status = "verified"

(* The receipt's approval is the one whose apply the ledger verified. *)
LineageMatches(p, m) ==
    auth[m].status = "verified" /\ auth[m].approval = job[p].approval

Goto(p, step) == pc' = [pc EXCEPT ![p] = step]

SetJob(p, j) == job' = [job EXCEPT ![p] = j]

(* The call returns result j; its loop variables are gone. *)
Finish(p, j) ==
    /\ Goto(p, "done")
    /\ cur' = [cur EXCEPT ![p] = NoMutation]
    /\ SetJob(p, [j EXCEPT !.todo = {}, !.pending = {}, !.bad = {},
                           !.seen = Unknown])

(* LedgerCorrupted or PrivateStateUnusable escaped to the caller's handler,  *)
(* which builds a fresh zero-write result.                                   *)
OuterHandler(p) ==
    Finish(p, [job[p] EXCEPT !.status = "blocked", !.writes = 0,
                             !.verified = {}, !.failed = {},
                             !.unattempted = {}, !.already = {}])

Blocked(p, bad, rest, applied) ==
    Finish(p, [job[p] EXCEPT !.status = "blocked", !.failed = bad,
                             !.unattempted = rest, !.already = applied])

(* The status a failing item leaves on its batch. *)
ApplyFailureStatus(j, why) ==
    IF why = "ambiguous" THEN "ambiguous"
    ELSE IF j.writes = 0 THEN "blocked"
    ELSE IF why = "private_state" THEN "ambiguous" ELSE "partially_failed"

RestoreFailureStatus(j, why) ==
    IF why = "ambiguous"
    THEN IF j.verified = {} THEN "ambiguous" ELSE "partially_rolled_back_ambiguous"
    ELSE IF j.verified = {} THEN "blocked" ELSE "partially_rolled_back"

FailureStatus(p, why) ==
    IF Kind(p) = "apply" THEN ApplyFailureStatus(job[p], why)
                         ELSE RestoreFailureStatus(job[p], why)

(* Mutation m failed: an apply freezes its siblings, a rollback returns. *)
Fail(p, m, why) ==
    LET rest == job[p].pending \ {m}
        j == [job[p] EXCEPT !.status = FailureStatus(p, why),
                            !.failed = @ \cup {m}, !.unattempted = rest]
    IN IF Kind(p) = "apply"
       THEN /\ Goto(p, "freeze")
            /\ cur' = [cur EXCEPT ![p] = NoMutation]
            /\ SetJob(p, [j EXCEPT !.todo = rest, !.pending = {},
                                   !.seen = Unknown])
       ELSE Finish(p, j)

(* The row worker p writes about m. *)
RowFor(p, m, s) ==
    [mutation |-> m, status |-> s, approval |-> job[p].approval,
     intended |-> To(p, m)]

Stored(row) ==
    /\ latest' = LatestAfter(latest, row)
    /\ auth' = AuthorityAfter(auth, row)

(* record() returned: the row is durable, readable unless an earlier row      *)
(* lost its line terminator, in which case the two lines run together.       *)
Appended(row) ==
    \/ file = "ok" /\ file' = "ok" /\ Stored(row)
    \/ file # "ok" /\ file' = "corrupt" /\ UNCHANGED <<latest, auth>>

(* record() raised: nothing reached the file; or the whole row did and only   *)
(* the fsync failed; or all of it but the terminator; or a torn prefix.      *)
AppendFailed(row) ==
    \/ "lost" \in Faults /\ UNCHANGED ledgerVars
    \/ "unsynced" \in Faults /\ file = "ok" /\ file' = "ok" /\ Stored(row)
    \/ /\ "unterminated" \in Faults
       /\ file = "ok" /\ file' = "unterminated" /\ Stored(row)
    \/ "torn" \in Faults /\ file' = "corrupt" /\ UNCHANGED <<latest, auth>>

SaveOverride(m, e, o) ==
    overrides' = [overrides EXCEPT ![MessageOf[m]] =
                     [expected |-> e, observed |-> o]]

-----------------------------------------------------------------------------
(* Starting a call.  A held lock or a rejected plan, approval or receipt     *)
(* refuses the call and changes nothing: those calls are not steps.          *)

\* Slip: two processes work on one plan.
LockIgnored(a) == TRUE
LockFree(a)    == lock[ApprovalPlan[a]] = Nobody

Acquire(p, o, a, S) ==
    /\ pc[p] = "idle"
    /\ LockFree(a)
    /\ S # {} /\ S \subseteq Approved[a]
    /\ o \in {"apply", "canary"} => S = Approved[a]
    /\ o \in {"canary", "rollback", "probe"} => Cardinality(S) <= MaxCanary
    /\ o = "rollback_one" => Cardinality(S) = 1
    /\ lock' = [lock EXCEPT ![ApprovalPlan[a]] = p]
    /\ SetJob(p, [NoJob EXCEPT !.op = o, !.approval = a, !.scope = S,
                    !.pending = IF o = "rollback_one" THEN S ELSE {}])
    /\ Goto(p, IF o \in {"apply", "canary"} THEN "authorize"
               ELSE IF o = "rollback_one" THEN "restore_loop" ELSE "classify")
    /\ UNCHANGED <<mailVars, overrides, ledgerVars, cur>>

(* The result is returned and the lock files are closed. *)
Return(p) ==
    /\ pc[p] = "done"
    /\ Goto(p, "idle")
    /\ SetJob(p, NoJob)
    /\ lock' = [q \in Plans |-> IF lock[q] = p THEN Nobody ELSE lock[q]]
    /\ UNCHANGED <<mailVars, overrides, ledgerVars, cur>>

-----------------------------------------------------------------------------
(* Apply: what the ledger and the override store already say.                *)

(* Nothing is logged for a batch that is claimed, frozen or suppressed, or    *)
(* whose override store cannot be read.                                      *)
Authorize(p) ==
    LET S          == job[p].scope
        claimed    == {m \in S : latest[m] # "none"}
        frozen     == {m \in S : Frozen(m)}
        applied    == {m \in S : State(m) = "verified"}
        undone     == {m \in S : State(m) = "rolled_back"}
        suppressed == {m \in S : Suppressed(m)}
        stopped(B) == Blocked(p, B \cup undone, S \ (B \cup undone \cup applied),
                              applied \ B)
        readable   == file # "corrupt"
        free       == readable /\ ~(job[p].op = "canary" /\ claimed # {})
    IN /\ pc[p] = "authorize"
       /\ \/ ~readable /\ OuterHandler(p)
          \/ readable /\ ~free /\ Blocked(p, claimed, {}, {})
          \/ free /\ frozen # {} /\ stopped(frozen)
          \/ free /\ frozen = {} /\ Blocked(p, {}, S, {})
          \/ free /\ frozen = {} /\ suppressed # {} /\ stopped(suppressed)
          \/ /\ free /\ frozen = {} /\ suppressed = {}
             /\ Goto(p, "replay")
             /\ SetJob(p, [job[p] EXCEPT !.todo = applied, !.already = applied,
                                         !.bad = undone,
                                         !.pending = S \ (applied \cup undone)])
             /\ UNCHANGED cur
       /\ UNCHANGED <<mailVars, overrides, ledgerVars, lock>>

\* Slip: a result state is logged as a row status.
ResultAsRow(step) ==
    IF step = "replay" THEN "already_applied"
    ELSE IF step \in {"refuse", "block"} THEN "blocked"
    ELSE IF step = "pass" THEN "preflight_passed"
    ELSE "frozen_unattempted"

RowStatus(step) ==
    IF step = "replay" THEN "already_verified"
    ELSE IF step \in {"refuse", "block"} THEN "blocked"
    ELSE IF step = "pass" THEN "preflight_passed"
    ELSE "frozen_unattempted"

(* One row of a group.  Before the first dispatch a failed append escapes to  *)
(* the outer handler; while freezing, it ends the freezing.                  *)
LogRow(p, m) ==
    /\ pc[p] \in RowSteps
    /\ m \in job[p].todo
    /\ \/ /\ Appended(RowFor(p, m, RowStatus(pc[p])))
          /\ SetJob(p, [job[p] EXCEPT !.todo = @ \ {m}])
          /\ UNCHANGED <<pc, cur>>
       \/ /\ AppendFailed(RowFor(p, m, RowStatus(pc[p])))
          /\ IF pc[p] = "freeze"
             THEN Finish(p, [job[p] EXCEPT !.status =
                               IF job[p].writes > 0 THEN "ambiguous" ELSE "blocked"])
             ELSE OuterHandler(p)
    /\ UNCHANGED <<mailVars, overrides, lock>>

Proceed(p, step, rows) ==
    /\ Goto(p, step)
    /\ SetJob(p, [job[p] EXCEPT !.todo = rows])
    /\ UNCHANGED cur

(* All rows of a group are written, or all targets are preflighted. *)
NextPhase(p) ==
    LET j == job[p]
    IN /\ pc[p] \in RowSteps \cup {"preflight"}
       /\ j.todo = {}
       /\ \/ /\ pc[p] = "replay" /\ j.bad # {}
             /\ Proceed(p, "refuse", j.bad)
          \/ /\ pc[p] = "replay" /\ j.bad = {} /\ j.pending = {}
             /\ Finish(p, [j EXCEPT !.status = "already_applied"])
          \/ /\ pc[p] = "replay" /\ j.bad = {} /\ j.pending # {}
             /\ Proceed(p, "preflight", j.pending)
          \/ /\ pc[p] = "refuse"
             /\ Proceed(p, "refreeze", j.pending)
          \/ /\ pc[p] = "refreeze"
             /\ Blocked(p, j.bad, j.pending, j.already)
          \/ /\ pc[p] = "preflight" /\ j.bad # {}
             /\ Proceed(p, "block", j.pending)
          \/ /\ pc[p] = "preflight" /\ j.bad = {}
             /\ Proceed(p, "pass", j.pending)
          \/ /\ pc[p] = "block"
             /\ Blocked(p, j.bad, j.pending \ j.bad, j.already)
          \/ /\ pc[p] = "pass"
             /\ Proceed(p, "loop", {})
          \/ pc[p] = "freeze" /\ Finish(p, j)
       /\ UNCHANGED <<mailVars, overrides, ledgerVars, lock>>

(* preflight_one: any target may fail to resolve or lose its evidence; one    *)
(* that passes is unsuppressed and shows the flag it was planned against.    *)
Preflight(p, m) ==
    /\ pc[p] = "preflight"
    /\ m \in job[p].todo
    /\ \/ /\ ~Suppressed(m) /\ native[MessageOf[m]] = Observed[m]
          /\ SetJob(p, [job[p] EXCEPT !.todo = @ \ {m}])
       \/ SetJob(p, [job[p] EXCEPT !.todo = @ \ {m}, !.bad = @ \cup {m}])
    /\ UNCHANGED <<mailVars, overrides, ledgerVars, lock, pc, cur>>

-----------------------------------------------------------------------------
(* Apply: the write loop.                                                    *)

(* The 600-second ceiling: the rest stays unattempted, without freeze rows. *)
Deadline(p) ==
    /\ pc[p] = "loop" /\ job[p].pending # {}
    /\ Finish(p, [job[p] EXCEPT
                    !.status = IF job[p].writes > 0
                               THEN "partially_failed" ELSE "blocked",
                    !.unattempted = job[p].pending])
    /\ UNCHANGED <<mailVars, overrides, ledgerVars, lock>>

AllApplied(p) ==
    /\ pc[p] = "loop" /\ job[p].pending = {}
    /\ Finish(p, [job[p] EXCEPT !.status = "applied"])
    /\ UNCHANGED <<mailVars, overrides, ledgerVars, lock>>

\* Slip: a claim that could not be written does not stop the dispatch.
ClaimBestEffort(p, m) ==
    /\ pc[p] = "loop" /\ m \in job[p].pending
    /\ Appended(RowFor(p, m, "applying")) \/ AppendFailed(RowFor(p, m, "applying"))
    /\ Goto(p, "recheck")
    /\ cur' = [cur EXCEPT ![p] = m]
    /\ SetJob(p, [job[p] EXCEPT !.pending = @ \ {m}])
    /\ UNCHANGED <<mailVars, overrides, lock>>

(* The durable claim.  If it cannot be written the whole rest is unattempted  *)
(* and the siblings are not frozen.                                          *)
ClaimApply(p, m) ==
    /\ pc[p] = "loop" /\ m \in job[p].pending
    /\ \/ /\ Appended(RowFor(p, m, "applying"))
          /\ Goto(p, "recheck")
          /\ cur' = [cur EXCEPT ![p] = m]
          /\ SetJob(p, [job[p] EXCEPT !.pending = @ \ {m}])
       \/ /\ AppendFailed(RowFor(p, m, "applying"))
          /\ Finish(p, [job[p] EXCEPT
                          !.status = IF job[p].writes > 0
                                     THEN "ambiguous" ELSE "blocked",
                          !.unattempted = job[p].pending])
    /\ UNCHANGED <<mailVars, overrides, lock>>

(* Evidence and suppression are read once more next to the dispatch. *)
Recheck(p) ==
    /\ pc[p] = "recheck"
    /\ \/ Goto(p, "refused")
       \/ ~Suppressed(cur[p]) /\ Goto(p, "send")
    /\ UNCHANGED <<mailVars, overrides, ledgerVars, lock, cur, job>>

-----------------------------------------------------------------------------
(* Dispatch, shared by apply and rollback.                                   *)

(* set_flag_color_ref: refused before dispatch, or one compare-and-set        *)
(* request is handed to Mail.app.                                            *)
Send(p) ==
    LET m == cur[p]
    IN /\ pc[p] = "send"
       /\ \/ Goto(p, "refused") /\ UNCHANGED <<requests, job>>
          \/ /\ Goto(p, "wait")
             /\ requests' = requests \cup
                   {[mutation |-> m, kind |-> Kind(p), by |-> p,
                     from |-> From(p, m), to |-> To(p, m)]}
             /\ SetJob(p, [job[p] EXCEPT !.sent = @ \cup {m}])
       /\ UNCHANGED <<native, lands, overrides, ledgerVars, lock, cur>>

(* The worker a request's reply goes to, if it is still waiting for it. *)
Awaited(q) ==
    pc[q.by] = "wait" /\ cur[q.by] = q.mutation /\ Kind(q.by) = q.kind

(* Mail.app runs the script: the flag is as expected and is replaced. *)
Land(q) ==
    LET r == MessageOf[q.mutation]
    IN /\ native[r] = q.from
       /\ native' = [native EXCEPT ![r] = q.to]
       /\ lands' = [lands EXCEPT ![<<q.mutation, q.kind>>] = @ + 1]
       /\ requests' = requests \ {q}
       /\ IF Awaited(q) THEN Goto(q.by, "readback") ELSE UNCHANGED pc
       /\ UNCHANGED <<overrides, ledgerVars, lock, cur, job>>

(* Mail.app runs the script and it returns STATE_DRIFT or IDENTITY_DRIFT. *)
Drift(q) ==
    /\ requests' = requests \ {q}
    /\ \E seen \in (Colors \cup {Unknown}) :
          /\ seen = Unknown \/ (seen = native[MessageOf[q.mutation]] /\ seen # q.from)
          /\ IF Awaited(q)
             THEN Goto(q.by, "drift") /\ SetJob(q.by, [job[q.by] EXCEPT !.seen = seen])
             ELSE UNCHANGED <<pc, job>>
    /\ UNCHANGED <<native, lands, overrides, ledgerVars, lock, cur>>

(* The request dies with osascript before Mail.app acts on it. *)
Lose(q) ==
    /\ requests' = requests \ {q}
    /\ UNCHANGED <<native, lands, overrides, ledgerVars, lock, pc, cur, job>>

\* Slip: an unproved write is not counted.
TimeoutUncounted(p) ==
    /\ pc[p] = "wait"
    /\ Goto(p, "ambiguous")
    /\ UNCHANGED <<mailVars, overrides, ledgerVars, lock, cur, job>>

\* Slip: no answer is taken for no write.
TimeoutMeansRefused(p) ==
    /\ pc[p] = "wait"
    /\ Goto(p, "refused")
    /\ UNCHANGED <<mailVars, overrides, ledgerVars, lock, cur, job>>

\* Slip: no deadline of the worker's own; a lost request is waited for.
TimeoutWhileQueued(p) ==
    /\ \E q \in requests : q.by = p /\ Awaited(q)
    /\ pc[p] = "wait"
    /\ Goto(p, "ambiguous")
    /\ SetJob(p, [job[p] EXCEPT !.writes = @ + 1])
    /\ UNCHANGED <<mailVars, overrides, ledgerVars, lock, cur>>

(* No provable answer in time: the write may still land later. *)
Timeout(p) ==
    /\ pc[p] = "wait"
    /\ Goto(p, "ambiguous")
    /\ SetJob(p, [job[p] EXCEPT !.writes = @ + 1])
    /\ UNCHANGED <<mailVars, overrides, ledgerVars, lock, cur>>

(* The provider's settling reads and the engine's own read-after-write. *)
Readback(p) ==
    LET m == cur[p]
    IN /\ pc[p] = "readback"
       /\ \/ Goto(p, "ambiguous")
          \/ /\ native[MessageOf[m]] = To(p, m)
             /\ Goto(p, IF Kind(p) = "apply" THEN "verify" ELSE "restored")
       /\ SetJob(p, [job[p] EXCEPT !.writes = @ + 1])
       /\ UNCHANGED <<mailVars, overrides, ledgerVars, lock, cur>>

(* The write crossed dispatch without proof: frozen whether or not the row    *)
(* can be written, the claim being the latest row otherwise.                 *)
Ambiguous(p) ==
    LET row == RowFor(p, cur[p], IF Kind(p) = "apply"
                                 THEN "ambiguous" ELSE "rollback_pending")
    IN /\ pc[p] = "ambiguous"
       /\ Appended(row) \/ AppendFailed(row)
       /\ Fail(p, cur[p], "ambiguous")
       /\ UNCHANGED <<mailVars, overrides, lock>>

(* Proved not dispatched: the claim is released by a blocked row. *)
Refused(p) ==
    LET row == RowFor(p, cur[p], IF Kind(p) = "apply"
                                 THEN "blocked" ELSE "rollback_blocked")
    IN /\ pc[p] = "refused"
       /\ \/ Appended(row) /\ Fail(p, cur[p], "refused")
          \/ AppendFailed(row) /\ Fail(p, cur[p], "private_state")
       /\ UNCHANGED <<mailVars, overrides, lock>>

(* The live flag was not the expected one: a human override is recorded first. *)
RecordDrift(p) ==
    LET m == cur[p]
    IN /\ pc[p] = "drift"
       /\ \/ /\ SaveOverride(m, From(p, m), job[p].seen)
             /\ Goto(p, "refused") /\ UNCHANGED <<cur, job>>
          \/ /\ SaveOverride(m, From(p, m), job[p].seen) \/ UNCHANGED overrides
             /\ Fail(p, m, "private_state")
       /\ UNCHANGED <<mailVars, ledgerVars, lock>>

-----------------------------------------------------------------------------
(* Apply: making a proved write authoritative.                               *)

(* The write is proved; authority is durable while the private state is owed. *)
Verify(p) ==
    LET row == RowFor(p, cur[p], "verified_pending_private_state")
    IN /\ pc[p] = "verify"
       /\ \/ Appended(row) /\ Goto(p, "private_state") /\ UNCHANGED <<cur, job>>
          \/ AppendFailed(row) /\ Fail(p, cur[p], "ambiguous")
       /\ UNCHANGED <<mailVars, overrides, lock>>

(* record_automation_state leaves the overrides alone, whether it succeeds or *)
(* raises; only its outcome matters here.                                    *)
RecordAutomationState(p) ==
    /\ pc[p] = "private_state"
    /\ Goto(p, "final") \/ Goto(p, "private_failed")
    /\ UNCHANGED <<mailVars, overrides, ledgerVars, lock, cur, job>>

(* The pending row stays the freeze marker if this row cannot be written. *)
PrivateStateFailed(p) ==
    LET row == RowFor(p, cur[p], "ambiguous")
    IN /\ pc[p] = "private_failed"
       /\ Appended(row) \/ AppendFailed(row)
       /\ Fail(p, cur[p], "ambiguous")
       /\ UNCHANGED <<mailVars, overrides, lock>>

Finalize(p) ==
    LET row == RowFor(p, cur[p], "verified")
    IN /\ pc[p] = "final"
       /\ \/ /\ Appended(row)
             /\ Goto(p, "loop")
             /\ cur' = [cur EXCEPT ![p] = NoMutation]
             /\ SetJob(p, [job[p] EXCEPT !.verified = @ \cup {cur[p]}])
          \/ AppendFailed(row) /\ Fail(p, cur[p], "ambiguous")
       /\ UNCHANGED <<mailVars, overrides, lock>>

-----------------------------------------------------------------------------
(* Rollback: classification and batch preflight.                             *)

(* The ledger sorts the receipts into hazards, candidates and no-ops. *)
Classify(p) ==
    LET S          == job[p].scope
        hazards    == {m \in S : \/ latest[m] \in HazardousLatestStatuses
                                 \/ /\ State(m) = "none"
                                    /\ latest[m] \notin
                                         {"none", "prepared", "preflight_passed",
                                          "blocked", "frozen_unattempted"}}
        candidates == {m \in S \ hazards : State(m) = "verified"}
    IN /\ pc[p] = "classify"
       /\ \/ file = "corrupt" /\ OuterHandler(p)
          \/ file # "corrupt" /\ hazards # {} /\ Blocked(p, hazards, S \ hazards, {})
          \/ /\ file # "corrupt" /\ hazards = {}
             /\ Goto(p, "check")
             /\ SetJob(p, [job[p] EXCEPT !.todo = candidates,
                                         !.pending = candidates,
                                         !.already = S \ candidates])
             /\ UNCHANGED cur
       /\ UNCHANGED <<mailVars, overrides, ledgerVars, lock>>

(* Preflight of one candidate: the ledger is read again, and a live state     *)
(* other than the applied one (or changed evidence) is a human's work.       *)
CheckCandidate(p, m) ==
    LET failed == SetJob(p, [job[p] EXCEPT !.todo = @ \ {m}, !.bad = @ \cup {m}])
    IN /\ pc[p] = "check"
       /\ m \in job[p].todo
       /\ \/ file = "corrupt" /\ OuterHandler(p)
          \/ file # "corrupt" /\ failed /\ UNCHANGED <<pc, cur>>
          \/ /\ file # "corrupt" /\ ~Frozen(m) /\ LineageMatches(p, m)
             /\ ~Suppressed(m)
             /\ \/ /\ native[MessageOf[m]] = auth[m].intended
                   /\ SetJob(p, [job[p] EXCEPT !.todo = @ \ {m}])
                   /\ UNCHANGED <<pc, cur>>
                \/ \E seen \in {Unknown, native[MessageOf[m]]} :
                      /\ Goto(p, "diverged")
                      /\ cur' = [cur EXCEPT ![p] = m]
                      /\ SetJob(p, [job[p] EXCEPT !.seen = seen])
       /\ UNCHANGED <<mailVars, overrides, ledgerVars, lock>>

(* Divergence is persisted even by a preflight that may write nothing else. *)
RecordDivergence(p) ==
    LET m == cur[p]
    IN /\ pc[p] = "diverged"
       /\ SaveOverride(m, auth[m].intended, job[p].seen) \/ UNCHANGED overrides
       /\ Goto(p, "check")
       /\ cur' = [cur EXCEPT ![p] = NoMutation]
       /\ SetJob(p, [job[p] EXCEPT !.todo = @ \ {m}, !.bad = @ \cup {m},
                                   !.seen = Unknown])
       /\ UNCHANGED <<mailVars, ledgerVars, lock>>

(* One bad candidate blocks the batch; a probe stops here in any case. *)
CheckDone(p) ==
    LET j    == job[p]
        noop == \E m \in j.already : State(m) = "rolled_back"
    IN /\ pc[p] = "check" /\ j.todo = {}
       /\ \/ j.bad # {} /\ Blocked(p, j.bad, (j.pending \ j.bad) \cup j.already, {})
          \/ /\ j.bad = {} /\ j.pending = {}
             /\ Finish(p, [j EXCEPT !.status = IF noop THEN "already_rolled_back"
                                               ELSE "rollback_not_required"])
          \/ /\ j.bad = {} /\ j.pending # {} /\ j.op = "probe"
             /\ Finish(p, [j EXCEPT !.status = "preflight_passed"])
          \/ /\ j.bad = {} /\ j.pending # {} /\ j.op = "rollback"
             /\ Goto(p, "restore_loop") /\ UNCHANGED <<cur, job>>
       /\ UNCHANGED <<mailVars, overrides, ledgerVars, lock>>

-----------------------------------------------------------------------------
(* Rollback: one receipt.                                                    *)

(* _scoped_rollback_locked up to the dispatch: authority, lineage,            *)
(* suppression and the live flag decide where it goes on.                    *)
Scope(p, m) ==
    LET take(step, seen) ==
            /\ Goto(p, step)
            /\ cur' = [cur EXCEPT ![p] = m]
            /\ SetJob(p, [job[p] EXCEPT !.pending = @ \ {m}, !.seen = seen])
        live   == file # "corrupt" /\ ~Frozen(m)
        ours   == live /\ State(m) = "verified" /\ LineageMatches(p, m)
    IN /\ pc[p] = "restore_loop"
       /\ m \in job[p].pending
       /\ \/ file = "corrupt" /\ OuterHandler(p)
          \/ file # "corrupt" /\ Frozen(m) /\ Fail(p, m, "refused")
          \/ live /\ State(m) = "rolled_back" /\ take("noop", Unknown)
          \/ live /\ State(m) = "none" /\ Fail(p, m, "refused")
          \/ /\ live /\ State(m) = "verified" /\ ~LineageMatches(p, m)
             /\ take("lineage", Unknown)
          \/ ours /\ Fail(p, m, "refused")    \* suppressed, or store unreadable
          \/ ours /\ ~Suppressed(m) /\ take("unresolved", Unknown)
          \/ /\ ours /\ ~Suppressed(m) /\ native[MessageOf[m]] = auth[m].intended
             /\ take("claim_restore", Unknown)
          \/ /\ ours /\ ~Suppressed(m)
             /\ \/ take("human_row", Unknown)
                \/ /\ native[MessageOf[m]] # auth[m].intended
                   /\ take("human_row", native[MessageOf[m]])
       /\ UNCHANGED <<mailVars, overrides, ledgerVars, lock>>

\* Slip: the restore is dispatched without its claim.
UnclaimedRestore(step) ==
    IF step = "noop" THEN "rolled_back" ELSE "rollback_blocked"

(* Rows whose append is not guarded: a failure escapes to the outer handler. *)
RestoreRowStatus(step) ==
    IF step = "noop" THEN "rolled_back"
    ELSE IF step = "claim_restore" THEN "rollback_pending" ELSE "rollback_blocked"

LogRestoreRow(p) ==
    LET m   == cur[p]
        row == RowFor(p, m, RestoreRowStatus(pc[p]))
    IN /\ pc[p] \in {"noop", "lineage", "unresolved", "human_row", "claim_restore"}
       /\ \/ /\ Appended(row)
             /\ \/ pc[p] = "claim_restore" /\ Goto(p, "send") /\ UNCHANGED <<cur, job>>
                \/ pc[p] = "human_row" /\ Goto(p, "human") /\ UNCHANGED <<cur, job>>
                \/ /\ pc[p] = "noop" /\ job[p].op = "rollback_one"
                   /\ Finish(p, [job[p] EXCEPT !.status = "already_rolled_back",
                                               !.already = {m}])
                \/ /\ \/ pc[p] \in {"lineage", "unresolved"}
                      \/ pc[p] = "noop" /\ job[p].op = "rollback"
                   /\ Fail(p, m, "refused")
          \/ AppendFailed(row) /\ OuterHandler(p)
       /\ UNCHANGED <<mailVars, overrides, lock>>

(* A human touched the message since: suppress it and leave it alone. *)
RecordHuman(p) ==
    LET m == cur[p]
    IN /\ pc[p] = "human"
       /\ SaveOverride(m, auth[m].intended, job[p].seen) \/ UNCHANGED overrides
       /\ Fail(p, m, "refused")
       /\ UNCHANGED <<mailVars, ledgerVars, lock>>

(* The restore is proved; a failed row still counts as a performed write. *)
RecordRestored(p) ==
    LET row == RowFor(p, cur[p], "rolled_back")
    IN /\ pc[p] = "restored"
       /\ \/ /\ Appended(row)
             /\ Goto(p, "restore_loop")
             /\ cur' = [cur EXCEPT ![p] = NoMutation]
             /\ SetJob(p, [job[p] EXCEPT !.verified = @ \cup {cur[p]}])
          \/ AppendFailed(row) /\ Goto(p, "ambiguous") /\ UNCHANGED <<cur, job>>
       /\ UNCHANGED <<mailVars, overrides, lock>>

AllRestored(p) ==
    /\ pc[p] = "restore_loop" /\ job[p].pending = {}
    /\ Finish(p, [job[p] EXCEPT !.status = "rolled_back"])
    /\ UNCHANGED <<mailVars, overrides, ledgerVars, lock>>

-----------------------------------------------------------------------------
(* The world.                                                                *)

(* A worker dies: its locals are gone, its locks are released by the kernel,  *)
(* its request is not recalled.                                              *)
Crash(p) ==
    /\ pc[p] # "idle"
    /\ Goto(p, "idle")
    /\ cur' = [cur EXCEPT ![p] = NoMutation]
    /\ SetJob(p, NoJob)
    /\ lock' = [q \in Plans |-> IF lock[q] = p THEN Nobody ELSE lock[q]]
    /\ UNCHANGED <<mailVars, overrides, ledgerVars>>

HumanFlag(r, c) ==
    /\ native' = [native EXCEPT ![r] = c]
    /\ UNCHANGED <<requests, lands, overrides, ledgerVars, lock, pc, cur, job>>

(* OverrideStore.unlock, the operator's decision. *)
Unlock(r) ==
    /\ overrides[r] # NoOverride
    /\ overrides' = [overrides EXCEPT ![r] = NoOverride]
    /\ UNCHANGED <<mailVars, ledgerVars, lock, pc, cur, job>>

-----------------------------------------------------------------------------
(* The system.                                                               *)

(* A worker inside a call. *)
Step(p) ==
    \/ Authorize(p) \/ NextPhase(p) \/ Deadline(p) \/ AllApplied(p)
    \/ Recheck(p) \/ Send(p) \/ Timeout(p) \/ Readback(p) \/ Ambiguous(p)
    \/ Refused(p) \/ RecordDrift(p) \/ Verify(p) \/ RecordAutomationState(p)
    \/ PrivateStateFailed(p) \/ Finalize(p) \/ Classify(p)
    \/ RecordDivergence(p) \/ CheckDone(p) \/ LogRestoreRow(p)
    \/ RecordHuman(p) \/ RecordRestored(p) \/ AllRestored(p) \/ Return(p)
    \/ \E m \in Mutations :
          \/ LogRow(p, m) \/ Preflight(p, m) \/ ClaimApply(p, m)
          \/ CheckCandidate(p, m) \/ Scope(p, m)

Begin(p) ==
    \E o \in Calls, a \in Approvals, S \in SUBSET Mutations :
        Acquire(p, o, a, S)

MailApp == \E q \in requests : Land(q) \/ Drift(q) \/ Lose(q)

Human ==
    \/ \E r \in Messages, c \in HumanColors : HumanFlag(r, c)
    \/ \E r \in Messages : Unlock(r)

Next ==
    \/ \E p \in Workers : Begin(p) \/ Step(p) \/ Crash(p)
    \/ MailApp
    \/ Human

Spec == Init /\ [][Next]_vars

(* A worker that is alive keeps running its call. *)
FairSpec == Spec /\ \A p \in Workers : WF_vars(Step(p))

-----------------------------------------------------------------------------
(* Properties.                                                               *)

InFlight(m, k) == {q \in requests : q.mutation = m /\ q.kind = k}

(* Whatever crashes, times out or is retried, and whatever the ledger lost,   *)
(* the mailbox is changed at most once for a mutation and restored at most   *)
(* once: no write is handed out while an earlier one has landed or still may. *)
AtMostOneWrite ==
    /\ \A w \in Writes : lands[w] <= 1
    /\ \A m \in Mutations, k \in Kinds :
          /\ \A q, s \in InFlight(m, k) : q = s
          /\ InFlight(m, k) # {} => lands[<<m, k>>] = 0
    /\ \A p \in Workers : pc[p] = "send" =>
          InFlight(cur[p], Kind(p)) = {} /\ lands[<<cur[p], Kind(p)>>] = 0

(* A mutation is stuck when its latest row is a frozen one and no live worker *)
(* holds it. *)
Stuck(m) == Frozen(m) /\ \A p \in Workers : cur[p] # m

(* A claim whose worker is gone is never taken up, overwritten or forgotten:  *)
(* "A human recovery must append a conclusive lifecycle row" first.          *)
FrozenIsFinal == [][\A m \in Mutations : Stuck(m) => Stuck(m)']_vars

(* The writes of p's call that changed the mailbox or still may. *)
Crossed(p) ==
    {m \in job[p].sent : lands[<<m, Kind(p)>>] > 0 \/ InFlight(m, Kind(p)) # {}}

Counted(p) == Cardinality(Crossed(p)) <= job[p].writes

(* No mutation disappears from a report that admits a write, and "applied" or  *)
(* "rolled_back" means that every item is verified in the ledger.            *)
Complete(p) ==
    /\ job[p].writes > 0 =>
          job[p].verified \cup job[p].failed \cup job[p].unattempted
              \cup job[p].already = job[p].scope
    /\ job[p].status \in {"applied", "rolled_back"} =>
          /\ job[p].failed = {} /\ job[p].unattempted = {}
          /\ job[p].verified \subseteq Crossed(p)
          /\ file = "ok" => \A m \in job[p].verified :
                State(m) = IF Kind(p) = "apply" THEN "verified" ELSE "rolled_back"

(* What a finished call reports: nothing is left out or overstated, and an     *)
(* apply counts every write that crossed dispatch.                           *)
ReportsHonest ==
    \A p \in Workers : pc[p] = "done" =>
        Complete(p) /\ (Kind(p) = "apply" => Counted(p))

(* "Everything below can only prove the rollback, never restore a zero-write   *)
(* claim" (_scoped_rollback_locked): a rollback call counts its writes too.  *)
RollbackWritesCounted ==
    \A p \in Workers : pc[p] = "done" /\ Kind(p) = "restore" => Counted(p)

(* A restore is requested only under the approval whose apply the ledger       *)
(* verified, and expects exactly the flag that approval wrote.               *)
RestoreMatchesReceipt ==
    \A q \in requests : q.kind = "restore" /\ Awaited(q) =>
        \/ file = "corrupt"
        \/ /\ auth[q.mutation].approval = job[q.by].approval
           /\ q.from = ExecutionFlag[job[q.by].approval][q.mutation]

(* Workers between their last suppression check on message r and the write. *)
PastCheck(p, r) ==
    /\ pc[p] \in {"send", "wait", "claim_restore"}
    /\ MessageOf[cur[p]] = r

Quarantined(r) ==
    /\ overrides[r] # NoOverride
    /\ \A p \in Workers : ~PastCheck(p, r)
    /\ \A q \in requests : MessageOf[q.mutation] # r

(* A recorded human override keeps every plan's automation off the message    *)
(* until an operator unlocks it: nothing clears the record, no worker gets    *)
(* past its check, no request is issued.                                     *)
QuarantineHolds ==
    [][\A r \in Messages : Quarantined(r) =>
          Quarantined(r)' \/ (Unlock(r) /\ overrides'[r] = NoOverride)]_vars

(* A plan explains a live flag when its verified apply left it there. *)
Explained(r) ==
    \E m \in Mutations :
        /\ MessageOf[m] = r /\ auth[m].status = "verified"
        /\ Observed[m] = overrides[r].expected
        /\ auth[m].intended = overrides[r].observed

(* detect_override's own description of an override: the live flag differs    *)
(* from the automation's AND no approved transaction explains the change.    *)
OverrideIsUnexplained ==
    \A r \in Messages : overrides[r] # NoOverride =>
        overrides[r].expected = overrides[r].observed \/ ~Explained(r)

(* A call that nobody kills gives its plan back. *)
EveryCallReturns == \A p \in Workers : pc[p] # "idle" ~> pc[p] = "idle"

(* The promise of FlagLifecycle.  An unreadable ledger answers nothing, so    *)
(* everything is in doubt; a hazardous latest row is a claim.                *)
Written(m) ==
    IF lands[<<m, "restore">>] > 0 THEN "restored"
    ELSE IF lands[<<m, "apply">>] > 0 THEN "applied" ELSE "never"

Belief(m) ==
    IF file = "corrupt" \/ latest[m] \in HazardousLatestStatuses THEN "in_doubt"
    ELSE IF State(m) = "verified" THEN "applied"
    ELSE IF State(m) = "rolled_back" THEN "restored" ELSE "clean"

Lifecycle == INSTANCE FlagLifecycle WITH
    written <- [m \in Mutations |-> Written(m)],
    belief  <- [m \in Mutations |-> Belief(m)]

(* Every behaviour of the engine is a behaviour of the lifecycle. *)
ImplementsLifecycle == Lifecycle!Spec
=============================================================================
