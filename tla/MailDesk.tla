------------------------------ MODULE MailDesk ------------------------------
(***************************************************************************)
(* The operations desk: commands, HTTP handlers and MCP tools that read    *)
(* intelligence, plan actions from it and append receipts to four files.   *)
(* All of them run at will and beside one another; a file is only ever     *)
(* appended to, and nothing is locked between reading one and writing      *)
(* another.                                                                *)
(***************************************************************************)
EXTENDS MailActions

CONSTANTS
    HandlersReadCache,  \* the HTTP handlers are told where intelligence is
    Desks,              \* processes in the middle of a command of several steps
    Exports,            \* what an export of the mail may hold
    Reports,            \* labels with mail in an operations report, or NoReport
    ActionOutcomes,     \* what an operator records of an action, and why,
    ResolverStatuses,   \* of an official surface,
    Decisions,          \* of a draft
    DeliveryStatuses,   \* and of its delivery
    MaxTime, MaxSnapshots, MaxFile, MaxLines
                        \* bounds: ticks, snapshots, lines of each file and of all

Files == {"actions", "resolvers", "approvals", "deliveries"}

ASSUME DeskAssumption ==
    /\ HandlersReadCache \in BOOLEAN
    /\ Exports # {} /\ Reports # {}
    /\ MaxTime \in Nat /\ MaxSnapshots \in Nat /\ MaxLines \in Nat
    /\ MaxFile \in [Files -> Nat]
    /\ ActionOutcomes \subseteq
         {"open", "reviewing", "waiting", "blocked", "resolved", "ignored"}
           \X {"evidence_reviewed", "needs_human"}
    /\ ResolverStatuses \subseteq
         {"verified_waiting", "verified_blocked", "verified_resolved",
          "needs_follow_up", "not_found", "not_applicable"}
    /\ Decisions \subseteq {"approved", "rejected", "revise"}
    /\ DeliveryStatuses \subseteq
         {"provider_draft_requested", "provider_draft_recorded", "send_requested",
          "sent_recorded", "blocked", "canceled"}

VARIABLES
    clock,      \* seconds: the resolution of a receipt's created_at
    history,    \* the mail export
    report,     \* the operations report
    cache,      \* intelligence written by mail-intel, or Missing
    ledgers,    \* the four receipt files
    job,        \* what each process is in the middle of
    snapshots   \* snapshot runs started

deskVars == <<clock, history, report, cache, ledgers, job, snapshots>>

Missing   == [now |-> "missing"]
NoCommand == [command |-> "idle"]

Fresh == [rows |-> history, labels |-> report, now |-> clock]

\* The findings and the plan of every intelligence there can be.
FindingsOf == [i \in [rows : Exports, labels : Reports, now : 0..MaxTime] |-> Findings(i)]
PlanOf     == [i \in DOMAIN FindingsOf |-> ActionPlan(FindingsOf[i])]

\* Commands and tools read what mail-intel wrote; the HTTP handlers read it when
\* they are told where it is and otherwise build intelligence themselves.
ReadByCommand == {cache} \ {Missing}
ReadByTool    == {cache} \ {Missing}
ReadByHandler == IF HandlersReadCache THEN {cache} \ {Missing} ELSE {Fresh}

DraftsOf(i) == UNION {DraftPackage(FindingsOf[i], a, history) : a \in PlanOf[i]}

WithId(receipt, id) ==
    [field \in DOMAIN receipt \cup {"id"} |-> IF field = "id" THEN id ELSE receipt[field]]

\* A receipt's id is a hash, so the order of two ids is anyone's guess.
AppendReceipt(file, receipt) ==
    /\ Len(ledgers[file]) < MaxFile[file]
    /\ Len(ledgers.actions) + Len(ledgers.resolvers)
         + Len(ledgers.approvals) + Len(ledgers.deliveries) < MaxLines
    /\ \E id \in (1..MaxFile[file]) \ {r.id : r \in ToSet(ledgers[file])} :
         ledgers' = [ledgers EXCEPT ![file] = Append(@, WithId(receipt, id))]
-----------------------------------------------------------------------------
\* Whatever there is at first, Refresh leads to every other export and report.
DeskInit ==
    /\ clock = 0 /\ snapshots = 0
    /\ history = (CHOOSE rows \in Exports : TRUE)
    /\ report = (CHOOSE labels \in Reports : TRUE)
    /\ cache = Missing
    /\ ledgers = [actions |-> <<>>, resolvers |-> <<>>, approvals |-> <<>>,
                  deliveries |-> <<>>]
    /\ job = [d \in Desks |-> NoCommand]

Tick ==
    /\ clock < MaxTime /\ clock' = clock + 1
    /\ UNCHANGED <<history, report, cache, ledgers, job, snapshots>>

\* mail-history-export, and the report of the next triage run.
Refresh ==
    /\ \/ history' \in Exports /\ UNCHANGED report
       \/ report' \in Reports /\ UNCHANGED history
    /\ UNCHANGED <<clock, cache, ledgers, job, snapshots>>

WriteIntelligence ==
    /\ cache' = Fresh
    /\ UNCHANGED <<clock, history, report, ledgers, job, snapshots>>

RecordAction(intelligences) ==
    /\ \E i \in intelligences : \E action \in PlanOf[i], outcome \in ActionOutcomes :
         AppendReceipt("actions", [at |-> clock, action |-> action,
                                   status |-> outcome[1], reason |-> outcome[2]])
    /\ UNCHANGED <<clock, history, report, cache, job, snapshots>>

ResolverReceipt(action, status, actor, at) ==
    [at |-> at, action |-> action, status |-> status, actor |-> actor]

RecordResolver(intelligences) ==
    /\ \E i \in intelligences : \E action \in PlanOf[i], status \in ResolverStatuses :
         AppendReceipt("resolvers", ResolverReceipt(action, status, "operator", clock))
    /\ UNCHANGED <<clock, history, report, cache, job, snapshots>>

RecordApproval(intelligences) ==
    /\ \E i \in intelligences : \E draft \in DraftsOf(i), decision \in Decisions :
         AppendReceipt("approvals", [at |-> clock, draft |-> draft, status |-> decision])
    /\ UNCHANGED <<clock, history, report, cache, job, snapshots>>

\* The approval is looked up first and the receipt written afterwards.
BeginDelivery(d, intelligences) ==
    /\ job[d] = NoCommand
    /\ \E i \in intelligences :
         LET approvals == ApprovalLedger(DraftsOf(i), ledgers.approvals)
         IN  \E draft \in ApprovedByDraft(approvals) :
               job' = [job EXCEPT ![d] =
                 [command |-> "delivery", draft |-> draft, approval |-> approvals[draft].id,
                  seen |-> Len(ledgers.approvals)]]
    /\ UNCHANGED <<clock, history, report, cache, ledgers, snapshots>>

RecordDelivery(d) ==
    /\ job[d].command = "delivery"
    /\ \E status \in DeliveryStatuses :
         AppendReceipt("deliveries", [at |-> clock, draft |-> job[d].draft, status |-> status,
                                      approval |-> job[d].approval, seen |-> job[d].seen])
    /\ job' = [job EXCEPT ![d] = NoCommand]
    /\ UNCHANGED <<clock, history, report, cache, snapshots>>
-----------------------------------------------------------------------------
(* Snapshots: what the other files, or GitHub, say of the actions of one     *)
(* kind, and then one resolver receipt for each of them.                     *)

PlannedItems(i, resolvers) == {a \in PlanOf[i] : Profile(a.kind).resolver \in resolvers}

Snapshot(d, actor, candidates) ==
    /\ job[d] = NoCommand /\ snapshots < MaxSnapshots
    /\ job' = [job EXCEPT ![d] = [command |-> "snapshot", actor |-> actor, at |-> clock,
                                  left |-> {c \in candidates : c.record}]]
    /\ snapshots' = snapshots + 1
    /\ UNCHANGED <<clock, history, report, cache, ledgers>>

Candidate(action, status, proof, record) ==
    [action |-> action, status |-> status, proof |-> proof, record |-> record]

StatusForDelivery(status) ==
    CASE status = "blocked"       -> "verified_blocked"
      [] status = "canceled"      -> "not_applicable"
      [] status = "sent_recorded" -> "verified_waiting"
      [] OTHER                    -> "needs_follow_up"

\* What happened last to any draft of the action.
FollowUpCandidate(action) ==
    LET Latest(file) == Newest({r \in ToSet(ledgers[file]) : r.draft.action = action})
        delivery == Latest("deliveries")
        approval == Latest("approvals")
    IN  IF delivery # None
        THEN Candidate(action, StatusForDelivery(delivery.status), "delivery_receipt", TRUE)
        ELSE Candidate(action,
                IF approval.status = "rejected" THEN "not_applicable" ELSE "needs_follow_up",
                "draft_approval_receipt", approval # None)

FollowUpSnapshot(d, i) ==
    LET planned == PlannedItems(i, {"reply_follow_up"})
    IN  /\ planned # {}
        /\ Snapshot(d, "followup_resolver", {FollowUpCandidate(a) : a \in planned})

ExternalResolvers ==
    {"account_security_verification", "payment_or_billing_verification",
     "provider_status_reconcile", "subscription_decision", "legal_review"}

\* Slip: attesting an action closes it.
AttestedIsClosed(action, attest) ==
    Candidate(action, IF attest THEN "verified_resolved" ELSE "needs_follow_up",
              "action_receipt", attest)

\* An action that is already closed is shown as it is and not recorded again.
ExternalCandidate(action, attest) ==
    LET latest == LatestByAction(ledgers.resolvers, action)
        closed == latest.status \in {"verified_resolved", "not_applicable"}
    IN  Candidate(action, IF closed THEN latest.status ELSE "needs_follow_up",
                  "action_receipt", ~closed /\ attest)

ExternalSnapshot(d, i) ==
    LET planned == PlannedItems(i, ExternalResolvers)
    IN  /\ planned # {}
        /\ \E attest \in BOOLEAN :
             Snapshot(d, "external_resolver", {ExternalCandidate(a, attest) : a \in planned})

\* gh may be missing or signed out; of its three questions one that succeeds
\* makes the read a success, and only what succeeded is counted as outstanding.
\* Without questions there is nothing to record.
GitHubReads == {"not asked", "no gh", "signed out", "all failed", "outstanding", "clear"}

GitHubCandidate(action, read) ==
    Candidate(action,
        CASE read = "not asked"                    -> "not_applicable"
          [] read \in {"no gh", "signed out"}       -> "verified_blocked"
          [] read \in {"all failed", "outstanding"} -> "needs_follow_up"
          [] read = "clear"                        -> "not_found",
        "github_issue_pr_billing_or_security_state", read # "not asked")

GitHubSnapshot(d, i) ==
    LET planned == PlannedItems(i, {"github_reconcile"})
    IN  /\ planned # {}
        /\ \E read \in GitHubReads :
             Snapshot(d, "github_resolver", {GitHubCandidate(a, read) : a \in planned})

\* All the receipts of a snapshot carry the time at which recording began.  A
\* proof the plan does not ask for ends the command with the rest unrecorded.
RecordCandidate(d) ==
    /\ job[d].command = "snapshot"
    /\ IF job[d].left = {}
       THEN job' = [job EXCEPT ![d] = NoCommand] /\ UNCHANGED ledgers
       ELSE \E c \in job[d].left :
              IF ProofFits(c.proof, c.action)
              THEN /\ AppendReceipt("resolvers",
                        ResolverReceipt(c.action, c.status, job[d].actor, job[d].at))
                   /\ job' = [job EXCEPT ![d].left = @ \ {c}]
              ELSE job' = [job EXCEPT ![d] = NoCommand] /\ UNCHANGED ledgers
    /\ UNCHANGED <<clock, history, report, cache, snapshots>>

\* A command may be ended at any time, or its file refuse the line.
EndCommand(d) ==
    /\ job[d] # NoCommand
    /\ job' = [job EXCEPT ![d] = NoCommand]
    /\ UNCHANGED <<clock, history, report, cache, ledgers, snapshots>>

-----------------------------------------------------------------------------
(* The three ways in: commands, HTTP handlers and MCP tools.                 *)

cmd_mail_action_receipt         == RecordAction(ReadByCommand)
cmd_mail_resolver_receipt       == RecordResolver(ReadByCommand)
cmd_mail_draft_approval_receipt == RecordApproval(ReadByCommand)
cmd_mail_delivery_receipt(d)    == BeginDelivery(d, ReadByCommand)
cmd_mail_followup_resolver_receipts(d) == \E i \in ReadByCommand : FollowUpSnapshot(d, i)
cmd_mail_external_resolver_receipts(d) == \E i \in ReadByCommand : ExternalSnapshot(d, i)
cmd_mail_github_resolver_receipts(d)   == \E i \in ReadByCommand : GitHubSnapshot(d, i)

ops_action_receipt         == RecordAction(ReadByHandler)
ops_resolver_receipt       == RecordResolver(ReadByHandler)
ops_draft_approval_receipt == RecordApproval(ReadByHandler)
ops_delivery_receipt(d)    == BeginDelivery(d, ReadByHandler)
ops_followup_resolver_receipts(d) == \E i \in ReadByHandler : FollowUpSnapshot(d, i)
ops_external_resolver_receipts(d) == \E i \in ReadByHandler : ExternalSnapshot(d, i)
ops_github_resolver_receipts(d)   == \E i \in ReadByHandler : GitHubSnapshot(d, i)

mail_action_receipt     == RecordAction(ReadByTool)
mail_resolver_receipt   == RecordResolver(ReadByTool)
mail_draft_approval     == RecordApproval(ReadByTool)
mail_delivery_receipt(d) == BeginDelivery(d, ReadByTool)
mail_followup_resolver_receipts(d) == \E i \in ReadByTool : FollowUpSnapshot(d, i)
mail_external_resolver_receipts(d) == \E i \in ReadByTool : ExternalSnapshot(d, i)
mail_github_resolver_receipts(d)   == \E i \in ReadByTool : GitHubSnapshot(d, i)

Command(d) ==
    \/ cmd_mail_action_receipt \/ cmd_mail_resolver_receipt
    \/ cmd_mail_draft_approval_receipt \/ cmd_mail_delivery_receipt(d)
    \/ cmd_mail_followup_resolver_receipts(d) \/ cmd_mail_external_resolver_receipts(d)
    \/ cmd_mail_github_resolver_receipts(d)

Handler(d) ==
    \/ ops_action_receipt \/ ops_resolver_receipt
    \/ ops_draft_approval_receipt \/ ops_delivery_receipt(d)
    \/ ops_followup_resolver_receipts(d) \/ ops_external_resolver_receipts(d)
    \/ ops_github_resolver_receipts(d)

Tool(d) ==
    \/ mail_action_receipt \/ mail_resolver_receipt
    \/ mail_draft_approval \/ mail_delivery_receipt(d)
    \/ mail_followup_resolver_receipts(d) \/ mail_external_resolver_receipts(d)
    \/ mail_github_resolver_receipts(d)

DeskNext ==
    \/ Tick \/ Refresh \/ WriteIntelligence
    \/ \E d \in Desks :
         \/ Command(d) \/ Handler(d) \/ Tool(d)
         \/ RecordDelivery(d) \/ RecordCandidate(d) \/ EndCommand(d)
-----------------------------------------------------------------------------
\* A delivery is recorded on the strength of an approval of that very draft,
\* the newest one when it was looked up; only a decision written after that
\* can be newer (build_delivery_receipt).
DeliveredWasApproved ==
    \A delivery \in ToSet(ledgers.deliveries) :
        \E i \in 1..delivery.seen :
            LET approval == ledgers.approvals[i]
            IN  /\ approval.id = delivery.approval
                /\ approval.draft = delivery.draft /\ approval.status = "approved"
                /\ \A j \in (1..delivery.seen) \ {i} :
                     ledgers.approvals[j].draft = delivery.draft =>
                         Later(approval, ledgers.approvals[j])

\* Mail that is a finding today is in the queue of mail-status, or its lane is,
\* unless the operator said that its action, its official surface, its draft or
\* a draft of its action is done with.
StaysInSight ==
    LET findings == FindingsOf[Fresh]
        queue    == NextQueue(history, findings, ledgers, report)
        SaidOfDraft(r) == r.status \in {"rejected", "canceled", "sent_recorded"}
    IN  \A finding \in findings :
          LET action == Action(finding)
          IN  \/ finding.evidence \in queue.messages
              \/ finding.ops = "represented_in_ops" /\ finding.lane \in queue.lanes
              \/ ActionLedger(findings, ledgers.actions)[action].status
                    \in {"resolved", "ignored"}
              \/ \E r \in ToSet(ledgers.resolvers) :
                    /\ r.action = action /\ r.actor = "operator"
                    /\ r.status \in {"verified_resolved", "not_applicable"}
              \/ \E r \in ToSet(ledgers.approvals \o ledgers.deliveries) :
                    /\ r.draft.evidence = finding.evidence \/ r.draft.action = action
                    /\ SaidOfDraft(r)
=============================================================================
