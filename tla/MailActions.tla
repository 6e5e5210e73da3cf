---------------------------- MODULE MailActions ----------------------------
(***************************************************************************)
(* The plans made from intelligence and the ledgers read against them:     *)
(* actions (mail_action_plan, mail_action_ledger), what may resolve them   *)
(* (mail_resolver_plan, mail_resolver_receipt), and the one status of      *)
(* every message (mail_status).  No group is larger than the twelve        *)
(* messages a plan keeps as its sample, nor a plan longer than its limit.  *)
(***************************************************************************)
EXTENDS MailIntelligence, SequencesExt

CanonicalLane(finding) ==
    CASE finding.kind = "missed_lead"           -> "needs_reply"
      [] finding.kind = "legal_obligation"      -> "draft_review"
      [] finding.kind = "security_or_account"   -> "security_verify"
      [] finding.kind = "payment_or_billing"    -> "payment_verify"
      [] finding.kind = "provider_incident"     -> "provider_action"
      [] finding.kind = "subscription_or_spend" -> "subscription_decision"
      [] finding.kind = "github_work"           -> "github_ops"

ApprovalType(kind, status) ==
    IF kind = "missed_lead" THEN "draft_approval"
    ELSE IF kind = "legal_obligation" THEN "human_legal_review"
    ELSE IF \/ status = "needs_portal_verification"
            \/ kind \in {"security_or_account", "provider_incident", "payment_or_billing"}
         THEN "portal_verification"
    ELSE IF kind = "subscription_or_spend" THEN "decision"
    ELSE IF kind = "github_work" THEN "external_reconcile"
    ELSE "human_review"

\* Only a notice whose subject was recognised tells one incident from another.
NoticeIdentity(finding) == IF finding.notice = "other" THEN "none" ELSE finding.notice

\* The key of a group is what its id is a hash of, so it stands for the id.
Action(finding) ==
    [kind |-> finding.kind, lane |-> CanonicalLane(finding), ops |-> finding.ops,
     status |-> finding.status, severity |-> finding.severity,
     incident |-> NoticeIdentity(finding)]

ActionPlan(findings) == {Action(f) : f \in findings}

SampleEvidence(findings, action) ==
    {f.evidence : f \in {g \in findings : Action(g) = action}}

Profile(kind) ==
    CASE kind = "missed_lead" ->
           [resolver |-> "reply_follow_up",
            proof |-> {"draft_approval_receipt", "delivery_receipt",
                       "future_provider_send_receipt"}]
      [] kind = "legal_obligation" ->
           [resolver |-> "legal_review",
            proof |-> {"legal_review_receipt", "action_receipt",
                       "future_send_receipt_if_reply_needed"}]
      [] kind = "security_or_account" ->
           [resolver |-> "account_security_verification",
            proof |-> {"official_provider_verification", "action_receipt"}]
      [] kind = "payment_or_billing" ->
           [resolver |-> "payment_or_billing_verification",
            proof |-> {"official_payment_or_invoice_verification", "action_receipt"}]
      [] kind = "provider_incident" ->
           [resolver |-> "provider_status_reconcile",
            proof |-> {"official_provider_status", "action_receipt"}]
      [] kind = "subscription_or_spend" ->
           [resolver |-> "subscription_decision",
            proof |-> {"operator_decision", "official_subscription_status",
                       "action_receipt"}]
      [] kind = "github_work" ->
           [resolver |-> "github_reconcile",
            proof |-> {"github_issue_pr_billing_or_security_state", "action_receipt"}]

\* A receipt may only carry a proof its plan asks for.
ProofFits(proof, action) == proof \in Profile(action.kind).proof
-----------------------------------------------------------------------------
(* Receipts are kept in the order they were written and read by time; two   *)
(* of one second are told apart by their id, a hash.                         *)

Later(one, other) ==
    \/ one.at > other.at
    \/ one.at = other.at /\ one.id > other.id

None == [status |-> "none"]

Newest(receipts) ==
    IF receipts = {} THEN None
    ELSE CHOOSE r \in receipts : \A other \in receipts \ {r} : Later(r, other)

LatestByDraft(receipts, draft) == Newest({r \in ToSet(receipts) : r.draft = draft})
LatestByAction(receipts, action) == Newest({r \in ToSet(receipts) : r.action = action})

\* The newest receipt of every planned action.
ActionLedger(findings, receipts) ==
    [action \in ActionPlan(findings) |-> LatestByAction(receipts, action)]

\* The resolver plan has an item for every planned action.
ResolverLedger(findings, receipts) ==
    [action \in ActionPlan(findings) |-> LatestByAction(receipts, action)]

\* Slip: a rejection does not take an earlier approval back.
ApprovalsOnly(drafts, receipts) ==
    [draft \in drafts |->
        Newest({r \in ToSet(receipts) : r.draft = draft /\ r.status = "approved"})]

ApprovalLedger(drafts, receipts) ==
    [draft \in drafts |-> LatestByDraft(receipts, draft)]

ApprovedByDraft(ledger) == {draft \in DOMAIN ledger : ledger[draft].status = "approved"}

\* The drafts of a package: it is refused as a whole when a message of its
\* action is no longer in the export.
DraftPackage(findings, action, rows) ==
    LET evidence == SampleEvidence(findings, action)
    IN  IF ApprovalType(action.kind, action.status) = "draft_approval" /\ evidence \subseteq rows
        THEN {[action |-> action, evidence |-> m] : m \in evidence}
        ELSE {}
-----------------------------------------------------------------------------
(* The crosswalk: one terminal status for every message.                     *)

TerminalFromFinding(finding) ==
    CASE finding.ops = "represented_in_ops" -> "represented_in_ops"
      [] finding.ops # "represented_in_ops" ->
           IF \/ finding.status \in {"needs_human_review", "decision_needed"}
              \/ finding.kind = "legal_obligation" \/ finding.lane = "draft_review"
           THEN "needs_human"
           ELSE IF finding.status = "needs_portal_verification" THEN "blocked" ELSE "open"

\* A message without a finding is over, whether it was sent or received.
TerminalFromEvidence(text) ==
    IF text.direction = "outbound" THEN "resolved" ELSE "stale_noop"

MapActionLedger(receipt) ==
    CASE receipt.status = "resolved" -> "resolved"
      [] receipt.status = "ignored"  -> "stale_noop"
      [] receipt.status = "blocked"  -> "blocked"
      [] receipt.status \notin {"none", "resolved", "ignored", "blocked"}
           /\ receipt.reason = "needs_human" -> "needs_human"
      [] OTHER -> "open"

MapResolverLedger(receipt) ==
    CASE receipt.status = "verified_resolved" -> "resolved"
      [] receipt.status = "not_applicable"    -> "stale_noop"
      [] receipt.status = "verified_blocked"  -> "blocked"
      [] OTHER -> "open"

\* What every approval and then every delivery says of its message, as they were
\* written.
MapReceiptLedgers(ledgers) ==
    LET Approval(receipt) ==
            CASE receipt.status = "rejected" -> "stale_noop"
              [] receipt.status = "approved" -> "open"
              [] OTHER -> "needs_human"
        Delivery(receipt) ==
            CASE receipt.status = "sent_recorded" -> "resolved"
              [] receipt.status = "blocked"       -> "blocked"
              [] OTHER -> "open"
        Proof(receipt, terminal) == [evidence |-> receipt.draft.evidence, terminal |-> terminal]
    IN  [i \in DOMAIN ledgers.approvals |->
            Proof(ledgers.approvals[i], Approval(ledgers.approvals[i]))]
        \o [i \in DOMAIN ledgers.deliveries |->
            Proof(ledgers.deliveries[i], Delivery(ledgers.deliveries[i]))]

StatusRank(terminal) ==
    CASE terminal = "resolved"   -> 5 [] terminal = "stale_noop"  -> 4
      [] terminal = "represented_in_ops" -> 3 [] terminal = "needs_human" -> 2
      [] terminal = "blocked"    -> 1 [] terminal = "open"        -> 0

\* A proof is applied when it says no less than what is known, or objects.
ApplyStatus(current, incoming) ==
    IF \/ StatusRank(incoming) >= StatusRank(current)
       \/ incoming \in {"blocked", "needs_human"}
    THEN incoming ELSE current

ApplyProofs(evidence, terminal, proofs) ==
    FoldLeft(LAMBDA current, proof : IF proof.evidence = evidence
                                     THEN ApplyStatus(current, proof.terminal) ELSE current,
             terminal, proofs)

\* What the ledger of actions and that of resolvers add to a finding.
BuildLedgers(finding, findings, ledgers) ==
    LET action == Action(finding)
    IN  ApplyStatus(
            ApplyStatus(TerminalFromFinding(finding),
                        MapActionLedger(ActionLedger(findings, ledgers.actions)[action])),
            MapResolverLedger(ResolverLedger(findings, ledgers.resolvers)[action]))

\* What build_historical_crosswalk says of a message, from the findings it
\* collects afresh.
TerminalStatus(evidence, findings, ledgers) ==
    LET theirs == {f \in findings : f.evidence = evidence}
    IN  ApplyProofs(evidence,
            IF theirs = {} THEN TerminalFromEvidence(Mail[evidence])
            ELSE BuildLedgers(CHOOSE f \in theirs : TRUE, findings, ledgers),
            MapReceiptLedgers(ledgers))

\* What mail-status asks somebody to look at: messages that are not settled, and
\* the lanes of the report that hold mail and are not closed.
NextQueue(rows, findings, ledgers, labels) ==
    [messages |-> {m \in rows : TerminalStatus(m, findings, ledgers)
                                   \in {"open", "blocked", "needs_human"}},
     lanes    |-> IF labels = NoReport THEN {} ELSE LanesWithMail(labels) \ {"closed"}]
-----------------------------------------------------------------------------
\* What becomes of one text: the findings it can give rise to, the lane each is
\* looked up under, the proof its snapshot files, and its place in the queue.
RoutingSound(text) ==
    LET signals == RowSignals(text)
        risk    == KindFromSignals(signals)
        kinds   == ({risk} \ {"none"})
                   \cup (IF AsksForAnswer(text) /\ IsMissedLeadCandidate(text)
                         THEN {"missed_lead"} ELSE {})
        Status(kind) == IF kind = "missed_lead" THEN "candidate" ELSE RiskStatus(kind)
        FiledProof(kind) ==
            CASE Profile(kind).resolver = "reply_follow_up"  ->
                   {"delivery_receipt", "draft_approval_receipt"}
              [] Profile(kind).resolver = "github_reconcile" ->
                   {"github_issue_pr_billing_or_security_state"}
              [] OTHER -> {"action_receipt"}
    IN  /\ Cardinality(kinds) <= 1
        /\ signals \cap (Operational \cup {"github"}) # {} => risk # "none"
        /\ "opportunity" \in text.words /\ AsksForAnswer(text) /\ ~text.automated => kinds # {}
        /\ text.notice \in {"usage_quota", "update"} => risk = "provider_incident"
        /\ text.notice = "security" => risk = "security_or_account"
        /\ text.notice = "billing"  => risk = "payment_or_billing"
        /\ text.notice = "renewal"  => risk = "subscription_or_spend"
        /\ \A kind \in kinds :
             /\ TerminalFromFinding(
                    [kind |-> kind, status |-> Status(kind),
                     lane |-> RecommendedLane(kind, signals), ops |-> "ops_not_supplied"])
                  \in {"open", "blocked", "needs_human"}
             /\ kind = "missed_lead" <=> ApprovalType(kind, Status(kind)) = "draft_approval"
             /\ FiledProof(kind) \subseteq Profile(kind).proof
=============================================================================
