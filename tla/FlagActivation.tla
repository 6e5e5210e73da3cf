-------------------------- MODULE FlagActivation --------------------------
(***************************************************************************)
(* From an audit of the mail to a canary of one to three recoloured         *)
(* messages and back: the flags commands of cli.py with the artefacts of    *)
(* core/flag_workflow.py and core/flag_activation.py.                       *)
(*                                                                          *)
(* A managed artefact is filed under its own hash, so the state directory   *)
(* is a set that grows.  An operator may also name a path for the rollback  *)
(* bundle or the proposal; such a path holds what was written there last.   *)
(* The engine behind the commands is FlagTransactions: here it refuses a    *)
(* claimed transaction and a target that moved, and otherwise writes.       *)
(***************************************************************************)
EXTENDS FlagPolicy

CONSTANTS
    Msgs,          \* messages
    Text,          \* what the classifier sees of each
    Surfaces,      \* account and mailbox
    Home,          \* where each message lies at first
    Processes,     \* command line processes
    Paths,         \* files the operator may name for an output
    Default,       \* no such file: the managed place
    Nothing,
    TemporaryFlags, \* what a person may set for a test
    MaxAudits,     \* bound on audits begun
    MaxApprovals,  \* bound on approvals written
    MaxPlans,      \* bound on plans written
    MaxMishaps     \* bound on what happens to it all: failures, lapses, upgrades,
                   \* reviews and changes by the owner of the mail

ASSUME TextAssumption == Text \in [Msgs -> Texts]
ASSUME HomeAssumption == Home \in [Msgs -> Surfaces]
ASSUME FlagsAssumption == TemporaryFlags \subseteq Flags \ {"unknown"}
ASSUME PathsAssumption == Default \notin Paths
ASSUME MishapsAssumption == MaxMishaps \in Nat

VARIABLES
    surface,    \* where each message lies
    flag,       \* the flag it carries
    policy,     \* the installed policy
    review,     \* which review of the correspondence is the current one
    scan,       \* the audit that runs
    kept,       \* artefacts in the state directory
    issued,     \* plans and approvals operators hold
    lapsed,     \* approvals whose window is over
    held,       \* what the named paths hold
    call,       \* what each process is about
    ledger,     \* transactions: state, and the call that made them
    sentTo,     \* ghost: which outputs were ever sent to each path
    mishaps     \* mishaps so far

mail == <<surface, flag>>
activationVars == <<surface, flag, policy, review, scan, kept, issued, lapsed, held,
                    call, ledger, sentTo, mishaps>>

NoScan == [on |-> FALSE, left |-> {}, rows |-> {}, failed |-> FALSE, quiet |-> {}]
Idle == [stage |-> "idle"]

Row(m) == [msg |-> m, surface |-> surface[m], flag |-> flag[m]]

Audits == Cardinality({a \in kept : a.kind = "snapshot"})
ApprovalsIssued == {a \in issued : a.kind = "approval"}
PlansIssued == {a \in issued : a.kind = "plan"}
-----------------------------------------------------------------------------
(* Audit.  Surfaces are read one after the other while the mail goes on. *)

StartAudit ==
    /\ ~scan.on /\ Audits < MaxAudits
    /\ \E discovered \in {{}, Surfaces} :
         scan' = [on |-> TRUE, left |-> discovered, rows |-> {},
                  failed |-> discovered = {}, quiet |-> Msgs]
    /\ UNCHANGED <<mail, policy, review, kept, issued, lapsed, held, call, ledger,
                   sentTo, mishaps>>

Flagged(s) == {Row(m) : m \in {n \in Msgs : surface[n] = s /\ flag[n] # "no_flag"}}

ReadSurface(s) ==
    /\ scan.on /\ s \in scan.left
    /\ scan' = [scan EXCEPT !.left = @ \ {s}, !.rows = @ \cup Flagged(s)]
    /\ UNCHANGED <<mail, policy, review, kept, issued, lapsed, held, call, ledger,
                   sentTo, mishaps>>

\* Slip: a surface that could not be read is taken for one without flags.
SurfaceFailsQuietly(s) ==
    /\ scan.on /\ s \in scan.left /\ mishaps < MaxMishaps
    /\ scan' = [scan EXCEPT !.left = @ \ {s}]
    /\ mishaps' = mishaps + 1
    /\ UNCHANGED <<mail, policy, review, kept, issued, lapsed, held, call, ledger,
                   sentTo>>

\* A timeout, an error, unreadable rows or the limit: some rows are missing.
SurfaceFails(s) ==
    /\ scan.on /\ s \in scan.left /\ mishaps < MaxMishaps
    /\ \E some \in SUBSET Flagged(s) :
         scan' = [scan EXCEPT !.left = @ \ {s}, !.rows = @ \cup some, !.failed = TRUE]
    /\ mishaps' = mishaps + 1
    /\ UNCHANGED <<mail, policy, review, kept, issued, lapsed, held, call, ledger,
                   sentTo>>

\* Every scan is kept, a failed one too; its number stands for its time.
KeepSnapshot ==
    /\ scan.on /\ scan.left = {}
    /\ kept' = kept \cup {[kind |-> "snapshot", id |-> Audits + 1, rows |-> scan.rows,
                           complete |-> ~scan.failed]}
    /\ scan' = NoScan
    /\ UNCHANGED <<mail, policy, review, issued, lapsed, held, call, ledger, sentTo,
                   mishaps>>
-----------------------------------------------------------------------------
(* PlansIssued and approvals. *)

Classified == [m \in Msgs |-> ClassificationOf(Text[m])]
ByText == [m \in Msgs |-> [f \in Flags |-> Proposal(Classified[m], f)]]
Nominable == {m \in Msgs : HumanMayNominate(Classified[m])}

\* What a reviewed thread asks for does not follow from the text: it may be
\* changed without a human, whatever the classifier says of it.
Verdict(row, evidence) ==
    IF evidence = 0 THEN ByText[row.msg][row.flag]
    ELSE [to |-> "yellow", identity |-> row.flag = "yellow",
          auto |-> row.flag \notin {"yellow", "unknown"}, review |-> row.flag = "unknown"]

\* The one plan that follows from a snapshot.
Derived(snapshot, evidence) ==
    {row \in snapshot.rows : ~Verdict(row, evidence).identity}

Plan(snapshot) ==
    /\ Cardinality(PlansIssued) < MaxPlans
    /\ snapshot.complete
    /\ \E evidence \in {0, review} :
         issued' = issued \cup {[kind |-> "plan", snapshot |-> snapshot, policy |-> policy,
                                 evidence |-> evidence,
                                 mutations |-> Derived(snapshot, evidence)]}
    /\ UNCHANGED <<mail, policy, review, scan, kept, lapsed, held, call, ledger, sentTo,
                   mishaps>>

\* A plan with mutations taken out and hashed again is well formed.  After the
\* last approval nobody reads it.
EditPlan(plan) ==
    /\ Cardinality(ApprovalsIssued) < MaxApprovals
    /\ \E fewer \in (SUBSET plan.mutations) \ {plan.mutations} :
         issued' = (issued \ {plan}) \cup {[plan EXCEPT !.mutations = fewer]}
    /\ UNCHANGED <<mail, policy, review, scan, kept, lapsed, held, call, ledger, sentTo,
                   mishaps>>

\* Slip: a plan is believed as long as its hash is right.
FollowsByHash(plan) == plan.snapshot.complete /\ plan.policy = policy

FollowsFromSnapshot(plan) ==
    /\ plan.snapshot.complete
    /\ plan.policy = policy
    /\ plan.mutations = Derived(plan.snapshot, plan.evidence)

\* Which targets an approval of each kind may name.
MayChange(approval) ==
    LET verdict(row) == Verdict(row, approval.plan.evidence)
    IN  /\ approval.targets \subseteq approval.plan.mutations
        /\ Cardinality(approval.targets) \in 1..3
        /\ \A row \in approval.targets :
             /\ row.flag # "unknown"
             /\ IF approval.human
                THEN /\ verdict(row).review /\ ~verdict(row).auto
                     /\ approval.flags[row] # row.flag
                     /\ row.msg \in Nominable
                ELSE verdict(row).auto /\ ~verdict(row).review

InWindow(approval) == approval \notin lapsed

IsValid(approval, fresh) ==
    /\ approval.plan.policy = policy
    /\ fresh => InWindow(approval)
    /\ MayChange(approval)

NewApproval(plan, targets, human, flags) ==
    [kind |-> "approval", id |-> Cardinality(ApprovalsIssued) + 1, plan |-> plan,
     targets |-> targets, human |-> human, flags |-> flags]

\* The command for people checks what it signs ...
ApproveByHand(plan) ==
    /\ Cardinality(ApprovalsIssued) < MaxApprovals
    /\ FollowsFromSnapshot(plan)
    /\ \E targets \in SUBSET plan.mutations :
         \E flags \in [targets -> TemporaryFlags] :
            LET approval == NewApproval(plan, targets, TRUE, flags)
            IN  /\ IsValid(approval, TRUE)
                /\ issued' = issued \cup {approval}
    /\ UNCHANGED <<mail, policy, review, scan, kept, lapsed, held, call, ledger, sentTo,
                   mishaps>>

\* ... and the constructor for automatic ones signs whatever it is given.
ApproveAutomatically(plan) ==
    /\ Cardinality(ApprovalsIssued) < MaxApprovals
    /\ \E targets \in (SUBSET plan.mutations) \ {{}} :
         issued' = issued \cup {NewApproval(plan, targets, FALSE,
                        [row \in targets |-> Verdict(row, plan.evidence).to])}
    /\ UNCHANGED <<mail, policy, review, scan, kept, lapsed, held, call, ledger, sentTo,
                   mishaps>>
-----------------------------------------------------------------------------
(* Apply.  Everything an undo needs is on disk before a provider is asked. *)

Snapshots == {a \in kept : a.kind = "snapshot"}

Bundle(approval) == [kind |-> "bundle", approval |-> approval]
ProposalOf(approval) == [kind |-> "proposal", approval |-> approval]

\* One surface, and outputs that do not overwrite each other.
Loads(approval, fresh) ==
    /\ approval.plan.snapshot \in Snapshots
    /\ FollowsFromSnapshot(approval.plan)
    /\ IsValid(approval, fresh)
    /\ Cardinality({row.surface : row \in approval.targets}) = 1

OutputsApart(receipt, proposal) == receipt \in Paths => proposal # receipt

BeginApply(c, approval) ==
    /\ call[c].stage = "idle"
    /\ Loads(approval, TRUE)
    /\ \E receipt \in Paths \cup {Default}, proposal \in Paths \cup {Nothing} :
         /\ OutputsApart(receipt, proposal)
         /\ call' = [call EXCEPT ![c] =
                [stage |-> "persist", approval |-> approval, receipt |-> receipt,
                 proposal |-> proposal, todo |-> {}]]
    /\ UNCHANGED <<mail, policy, review, scan, kept, issued, lapsed, held, ledger,
                   sentTo, mishaps>>

\* What is persisted, in this order: the snapshot, the plan, the approval while
\* it is in its window, and the bundle that follows from them.
Material(approval) == <<approval.plan.snapshot, approval.plan, approval, Bundle(approval)>>

SendTo(path, artefact) ==
    /\ held' = [held EXCEPT ![path] = artefact]
    /\ sentTo' = [sentTo EXCEPT ![path] = @ \cup {artefact}]

\* Some of it is written; a failure or a crash ends the call before the rest is.
Persist(c) ==
    /\ call[c].stage = "persist"
    /\ \E written \in 0..4 :
         LET approval == call[c].approval
             toPath == call[c].receipt \in Paths /\ written = 4
         IN  /\ written >= 3 => InWindow(approval)
             /\ written < 4 =>
                  IF written = 2 /\ ~InWindow(approval) THEN UNCHANGED mishaps
                  ELSE mishaps < MaxMishaps /\ mishaps' = mishaps + 1
             /\ written = 4 => UNCHANGED mishaps
             /\ kept' = kept \cup {Material(approval)[i] :
                                     i \in 1..(IF toPath THEN 3 ELSE written)}
             /\ IF toPath THEN SendTo(call[c].receipt, Bundle(approval))
                ELSE UNCHANGED <<held, sentTo>>
             /\ call' = [call EXCEPT ![c] =
                    IF written = 4 THEN [@ EXCEPT !.stage = "preflight"] ELSE Idle]
    /\ UNCHANGED <<mail, policy, review, scan, issued, lapsed, ledger>>

Claimed(plan, row) == \E t \in ledger : t.approval.plan = plan /\ t.row = row

AsObserved(row) == surface[row.msg] = row.surface /\ flag[row.msg] = row.flag

EvidenceCurrent(plan) == plan.evidence \in {0, review}

\* The batch is checked whole: the window, no claim, every target in place.
Clear(approval) ==
    /\ InWindow(approval)
    /\ EvidenceCurrent(approval.plan)
    /\ \A row \in approval.targets :
         ~Claimed(approval.plan, row) /\ AsObserved(row)

\* A dry run ends here.
CanaryPreflight(c) ==
    LET approval == call[c].approval
    IN  /\ call[c].stage = "preflight"
        /\ Clear(approval)
        /\ \/ call' = [call EXCEPT ![c] = Idle]
           \/ call' = [call EXCEPT ![c].stage = "engine", ![c].proposal = Nothing]
        /\ IF call[c].proposal \in Paths
           THEN SendTo(call[c].proposal, ProposalOf(approval))
           ELSE UNCHANGED <<held, sentTo>>
        /\ UNCHANGED <<mail, policy, review, scan, kept, issued, lapsed, ledger, mishaps>>

\* The engine repeats the checks under its lock.
BeginWrites(c) ==
    /\ call[c].stage = "engine"
    /\ Clear(call[c].approval)
    /\ \A d \in Processes : call[d].stage = "writing" =>
          call[d].approval.plan # call[c].approval.plan
    /\ call' = [call EXCEPT ![c].stage = "writing", ![c].todo = call[c].approval.targets]
    /\ UNCHANGED <<mail, policy, review, scan, kept, issued, lapsed, held, ledger,
                   sentTo, mishaps>>

Transaction(c, row, state) ==
    [approval |-> call[c].approval, row |-> row, to |-> call[c].approval.flags[row],
     state |-> state, receipt |-> call[c].receipt]

\* One target: the claim and the write, which may take effect or not and, when
\* its answer is lost, ends the batch.  A target that moved meanwhile, or whose
\* review was renewed, is refused.
Write(c, row) ==
    /\ call[c].stage = "writing" /\ row \in call[c].todo
    /\ ~Claimed(call[c].approval.plan, row)
    /\ \E answer \in {"verified", "lost", "refused"} :
         /\ answer = "refused" <=> ~(AsObserved(row) /\ EvidenceCurrent(call[c].approval.plan))
         /\ answer = "lost" => mishaps < MaxMishaps
         /\ mishaps' = IF answer = "lost" THEN mishaps + 1 ELSE mishaps
         /\ ledger' = ledger \cup {Transaction(c, row, answer)}
         /\ \E effect \in (IF answer = "lost" THEN BOOLEAN ELSE {answer = "verified"}) :
              flag' = IF effect THEN [flag EXCEPT ![row.msg] = call[c].approval.flags[row]]
                      ELSE flag
         /\ call' = [call EXCEPT ![c] =
                IF answer = "verified" /\ call[c].todo # {row}
                THEN [call[c] EXCEPT !.todo = call[c].todo \ {row}]
                ELSE Idle]
    /\ scan' = [scan EXCEPT !.quiet = @ \ {row.msg}]
    /\ UNCHANGED <<surface, policy, review, kept, issued, lapsed, held, sentTo>>

\* A call that meets a refusal or an exception ends; so does one that is killed.
GiveUp(c) ==
    /\ call[c].stage \in {"preflight", "engine", "writing"}
    /\ \/ call[c].stage \in {"preflight", "engine"} /\ ~Clear(call[c].approval)
          /\ UNCHANGED mishaps
       \/ mishaps < MaxMishaps /\ mishaps' = mishaps + 1
    /\ call' = [call EXCEPT ![c] = Idle]
    /\ UNCHANGED <<mail, policy, review, scan, kept, issued, lapsed, held, ledger,
                   sentTo>>
-----------------------------------------------------------------------------
(* Rollback. *)

\* Slip: an approval is good for an undo only as long as it is for an apply.
CanRollBackInTime(approval, path) ==
    {approval.plan, approval} \subseteq kept /\ Loads(approval, TRUE)

\* What the command reads back: all four artefacts, and the bundle must be the
\* one the other three give.
Readable(path, artefact) ==
    IF path = Default THEN artefact \in kept ELSE held[path] = artefact

CanRollBack(approval, path) ==
    /\ {approval.plan, approval} \subseteq kept
    /\ Loads(approval, FALSE)
    /\ Readable(path, Bundle(approval))

\* A write that took effect and still stands is taken back.
RollBack(approval, path) ==
    /\ CanRollBack(approval, path)
    /\ LET undone == {t \in ledger : /\ t.approval = approval
                                     /\ t.state \in {"verified", "lost"}
                                     /\ surface[t.row.msg] = t.row.surface
                                     /\ flag[t.row.msg] = t.to}
       IN  /\ undone # {}
           /\ flag' = [m \in Msgs |-> IF \E t \in undone : t.row.msg = m
                                      THEN (CHOOSE t \in undone : t.row.msg = m).row.flag
                                      ELSE flag[m]]
           /\ ledger' = (ledger \ undone) \cup {[t EXCEPT !.state = "restored"] : t \in undone}
           /\ scan' = [scan EXCEPT !.quiet = @ \ {t.row.msg : t \in undone}]
    /\ UNCHANGED <<surface, policy, review, kept, issued, lapsed, held, call, sentTo,
                   mishaps>>
-----------------------------------------------------------------------------
(* The world around. *)

Lapse(approval) ==
    /\ InWindow(approval)
    /\ mishaps < MaxMishaps /\ mishaps' = mishaps + 1
    /\ lapsed' = lapsed \cup {approval}
    /\ UNCHANGED <<mail, policy, review, scan, kept, issued, held, call, ledger, sentTo>>

\* New code is installed; a process that runs goes on with what it loaded.
Upgrade ==
    /\ PlansIssued # {}
    /\ mishaps < MaxMishaps /\ mishaps' = mishaps + 1
    /\ policy' = policy + 1
    /\ UNCHANGED <<mail, review, scan, kept, issued, lapsed, held, call, ledger, sentTo>>

RenewReview ==
    /\ PlansIssued # {}
    /\ mishaps < MaxMishaps /\ mishaps' = mishaps + 1
    /\ review' = review + 1
    /\ UNCHANGED <<mail, policy, scan, kept, issued, lapsed, held, call, ledger, sentTo>>

Touch(m) ==
    /\ mishaps < MaxMishaps
    /\ \/ \E s \in Surfaces \ {surface[m]} :
            surface' = [surface EXCEPT ![m] = s] /\ UNCHANGED flag
       \/ \E f \in {"gray"} \ {flag[m]} :
            flag' = [flag EXCEPT ![m] = f] /\ UNCHANGED surface
    /\ mishaps' = mishaps + 1
    /\ scan' = [scan EXCEPT !.quiet = @ \ {m}]
    /\ UNCHANGED <<policy, review, kept, issued, lapsed, held, call, ledger, sentTo>>
-----------------------------------------------------------------------------
ActivationInit ==
    /\ surface = Home
    /\ flag = [m \in Msgs |-> "red"]
    /\ policy = 1 /\ review = 1
    /\ scan = NoScan
    /\ kept = {} /\ issued = {} /\ lapsed = {}
    /\ held = [p \in Paths |-> Nothing]
    /\ call = [c \in Processes |-> Idle]
    /\ ledger = {}
    /\ sentTo = [p \in Paths |-> {}]
    /\ mishaps = 0

CallStep(c) ==
    \/ \E a \in ApprovalsIssued : BeginApply(c, a)
    \/ Persist(c) \/ CanaryPreflight(c) \/ BeginWrites(c) \/ GiveUp(c)
    \/ call[c].stage = "writing" /\ \E row \in call[c].todo : Write(c, row)

ActivationNext ==
    \/ StartAudit \/ KeepSnapshot
    \/ \E s \in Surfaces : ReadSurface(s) \/ SurfaceFails(s)
    \/ \E s \in Snapshots : Plan(s)
    \/ \E p \in PlansIssued : EditPlan(p) \/ ApproveByHand(p) \/ ApproveAutomatically(p)
    \/ \E c \in Processes : CallStep(c)
    \/ \E a \in ApprovalsIssued, p \in Paths \cup {Default} : RollBack(a, p)
    \/ \E a \in ApprovalsIssued : Lapse(a)
    \/ Upgrade \/ RenewReview
    \/ \E m \in Msgs : Touch(m)
-----------------------------------------------------------------------------
ActivationTypeOK ==
    /\ surface \in [Msgs -> Surfaces]
    /\ flag \in [Msgs -> Flags]
    /\ {policy, review} \subseteq 1..(MaxMishaps + 1)
    /\ scan.left \subseteq Surfaces /\ scan.quiet \subseteq Msgs
    /\ \A a \in kept : a.kind \in {"snapshot", "plan", "approval", "bundle"}
    /\ \A a \in issued : a.kind \in {"plan", "approval"}
    /\ lapsed \subseteq ApprovalsIssued
    /\ DOMAIN held = Paths /\ DOMAIN call = Processes
    /\ \A t \in ledger : t.state \in {"verified", "lost", "refused", "restored"}
    /\ mishaps \in 0..MaxMishaps

\* A scan that counts as complete has every flagged message that stayed as it
\* was while it ran, with the place and the flag it has: a surface that could
\* not be read is never taken for an empty one (enumerate_estate).
CompleteMissesNothing ==
    scan.on /\ scan.left = {} /\ ~scan.failed =>
        \A m \in scan.quiet : (flag[m] # "no_flag") = (Row(m) \in scan.rows)

\* Whatever was written can be taken back from what is on disk: a crash at any
\* point, a lapsed approval or a renewed review does not matter, only a new
\* policy does, and a bundle at a path the operator gave to another output
\* (persist_canary_material, load_canary_rollback).
UndoKept ==
    \A t \in ledger :
        /\ t.state \in {"verified", "lost"}
        /\ t.approval.plan.policy = policy
        /\ t.receipt \in Paths => sentTo[t.receipt] = {Bundle(t.approval)}
        => CanRollBack(t.approval, t.receipt)

\* A message is only written when a scan that missed nothing found it, the plan
\* is all that follows from that scan, and the approval names it with the
\* authority its class needs: a person for what the classifier leaves to people
\* and is harmless, nobody for what it is sure of.
WrittenWasApproved ==
    \A t \in ledger :
        t.state # "refused" =>
            LET plan == t.approval.plan
                verdict == Verdict(t.row, plan.evidence)
            IN  /\ plan.snapshot.complete
                /\ plan.mutations = Derived(plan.snapshot, plan.evidence)
                /\ t.row \in t.approval.targets \cap plan.mutations
                /\ IF t.approval.human
                   THEN verdict.review /\ t.row.msg \in Nominable
                   ELSE verdict.auto /\ t.to = verdict.to
=============================================================================
