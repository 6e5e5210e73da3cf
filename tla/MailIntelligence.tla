-------------------------- MODULE MailIntelligence --------------------------
(***************************************************************************)
(* What a mail export says was missed (core/historical_intelligence):      *)
(* threads nobody answered, and mail that carries an operational risk,     *)
(* each compared with the lanes of the current operations report.          *)
(*                                                                         *)
(* A text is what the regular expressions find in it; a notice is the      *)
(* category of a Cloudflare subject line.                                  *)
(***************************************************************************)
EXTENDS Naturals, FiniteSets, TLC

CONSTANTS
    Messages,   \* rows of an export
    Mail,       \* [Messages -> text]
    Received,   \* [Messages -> time or Undated]
    Undated,    \* no date could be parsed
    StaleDays   \* age at which an unanswered lead counts as missed

Operational == {"security", "finance", "subscription", "provider", "legal"}
Words == Operational \cup
    {"human_ask", "question", "opportunity", "opportunity_context",
     "github", "linkedin", "deadline"}
Notices == {"none", "other", "usage_quota", "security", "billing", "renewal", "update"}

\* A message that matches the lead expression is not also a mere context of one.
Signals(text) ==
    text.words \ (IF "opportunity" \in text.words THEN {"opportunity_context"} ELSE {})

\* The explicit category of a notice owns its routing, not words of its footer.
RowSignals(text) ==
    IF text.notice \in {"none", "other"} THEN Signals(text)
    ELSE (Signals(text) \ {"security", "finance", "subscription", "github", "legal"})
         \cup {"provider"}
         \cup (CASE text.notice = "security" -> {"security"}
                 [] text.notice = "billing"  -> {"finance"}
                 [] text.notice = "renewal"  -> {"subscription"}
                 [] OTHER -> {})

\* Slip: money words have no kind of their own.
KindWithoutFinance(signals) ==
    IF "github" \in signals THEN "github_work"
    ELSE IF "security" \in signals THEN "security_or_account"
    ELSE IF "legal" \in signals THEN "legal_obligation"
    ELSE IF "subscription" \in signals THEN "subscription_or_spend"
    ELSE IF "provider" \in signals THEN "provider_incident"
    ELSE "none"

\* The first expression that matches names the kind.
KindFromSignals(signals) ==
    IF "github" \in signals THEN "github_work"
    ELSE IF "security" \in signals THEN "security_or_account"
    ELSE IF "legal" \in signals THEN "legal_obligation"
    ELSE IF "subscription" \in signals THEN "subscription_or_spend"
    ELSE IF "finance" \in signals THEN "payment_or_billing"
    ELSE IF "provider" \in signals THEN "provider_incident"
    ELSE "none"

RecommendedLane(kind, signals) ==
    IF kind = "missed_lead" THEN "needs_reply"
    ELSE IF "github" \in signals THEN "github_ops"
    ELSE IF "security" \in signals THEN "security_verify"
    ELSE IF "subscription" \in signals THEN "subscription_decision"
    ELSE IF "finance" \in signals
         THEN IF kind = "payment_or_billing" THEN "payment_verify" ELSE "finance_action"
    ELSE IF "legal" \in signals THEN "draft_review"
    ELSE IF "provider" \in signals THEN "provider_action"
    ELSE IF "linkedin" \in signals THEN "needs_reply"
    ELSE "review"

Severity(kind, signals) ==
    CASE kind = "github_work" -> IF "security" \in signals THEN "high" ELSE "medium"
      [] kind \in {"security_or_account", "legal_obligation"} ->
             IF "deadline" \in signals THEN "critical" ELSE "high"
      [] kind = "payment_or_billing" -> "high"
      [] kind \in {"subscription_or_spend", "provider_incident"} -> "medium"
      [] OTHER -> "low"

RiskStatus(kind) ==
    CASE kind \in {"security_or_account", "provider_incident", "payment_or_billing"} ->
             "needs_portal_verification"
      [] kind = "legal_obligation"      -> "needs_human_review"
      [] kind = "subscription_or_spend" -> "decision_needed"
      [] OTHER                          -> "needs_review"

AsksForAnswer(text) == RowSignals(text) \cap {"human_ask", "question"} # {}

\* The expressions for leads are tried on the text, not on the row's signals.
IsMissedLeadCandidate(text) ==
    LET signals == RowSignals(text)
    IN  /\ \/ "opportunity" \in text.words
           \/ "linkedin" \in signals /\ "opportunity_context" \in text.words
        /\ signals \cap (Operational \cup {"github"}) = {}
        /\ ~text.automated \/ "human_ask" \in signals
-----------------------------------------------------------------------------
Age(m, now) ==
    IF Received[m] = Undated \/ Received[m] > now THEN 0 ELSE now - Received[m]

\* A row without a date stands at the start of its thread and counts as a reply
\* to everything.
HasLaterOutbound(rows, m) ==
    \E reply \in rows :
        /\ Mail[reply].thread = Mail[m].thread /\ Mail[reply].direction = "outbound"
        /\ \/ Undated \in {Received[m], Received[reply]}
           \/ Received[reply] >= Received[m]

Unanswered(rows, now) ==
    {m \in rows :
        /\ Mail[m].direction = "inbound"
        /\ AsksForAnswer(Mail[m])
        /\ IsMissedLeadCandidate(Mail[m])
        /\ ~HasLaterOutbound(rows, m)
        /\ Age(m, now) >= StaleDays}

\* One opportunity for a thread: its oldest candidate (the dates of a thread's
\* candidates are taken to differ).
Opportunities(rows, now) ==
    {m \in Unanswered(rows, now) :
        \A other \in Unanswered(rows, now) :
            Mail[other].thread = Mail[m].thread => Age(other, now) <= Age(m, now)}

Risks(rows) == {m \in rows : KindFromSignals(RowSignals(Mail[m])) # "none"}

-----------------------------------------------------------------------------
(* The operations report: the labels that hold mail, and the lane of each.   *)

LabelLane ==
    [l \in {"GitHub Action Needed"}         |-> "github_ops"]            @@
    [l \in {"Provider Action Needed"}       |-> "provider_action"]       @@
    [l \in {"Provider Security Verify"}     |-> "security_verify"]       @@
    [l \in {"Finance Action Needed"}        |-> "finance_action"]        @@
    [l \in {"Subscription Decision Needed"} |-> "subscription_decision"] @@
    [l \in {"Payment Verify Needed"}        |-> "payment_verify"]        @@
    [l \in {"Legal Sent", "LinkedIn Sent", "Business Follow-Up Sent"} |-> "sent_waiting"] @@
    [l \in {"Draft Manual Review"}          |-> "draft_review"]          @@
    [l \in {"Provider Support Closed", "Reviewed Closed", "Subscription Reviewed Closed",
            "Newsletter Reviewed", "Draft Superseded"} |-> "closed"]

\* No report was given, or it cannot be read.
NoReport == {"no report"}

LanesWithMail(labels) == {LabelLane[l] : l \in labels}

OpsLaneStatus(lane, labels) ==
    CASE labels = NoReport -> "ops_not_supplied"
      [] labels # NoReport /\ lane \in LanesWithMail(labels) -> "represented_in_ops"
      [] OTHER -> "not_represented_in_current_ops"

\* Intelligence is built from an export, a report and the time.
Finding(m, kind, status, severity, labels) ==
    LET lane == RecommendedLane(kind, RowSignals(Mail[m]))
    IN  [kind |-> kind, status |-> status, severity |-> severity, lane |-> lane,
         ops |-> OpsLaneStatus(lane, labels), notice |-> Mail[m].notice, evidence |-> m]

Findings(intelligence) ==
    {Finding(m, "missed_lead", "candidate", "opportunity", intelligence.labels) :
        m \in Opportunities(intelligence.rows, intelligence.now)}
    \cup
    {LET kind == KindFromSignals(RowSignals(Mail[m]))
     IN  Finding(m, kind, RiskStatus(kind), Severity(kind, RowSignals(Mail[m])),
                 intelligence.labels) : m \in Risks(intelligence.rows)}
=============================================================================
