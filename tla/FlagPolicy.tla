---------------------------- MODULE FlagPolicy ----------------------------
(***************************************************************************)
(* The classifier of core/flag_policy.py: what flag a message deserves, how  *)
(* sure that is, and whether the change may be made without a human.  A      *)
(* text is the set of detectors that match it and the domain its words       *)
(* point to.  Confidence counts thousandths, as the code rounds it.          *)
(***************************************************************************)
EXTENDS Integers, FiniteSets, FiniteSetsExt

Signals == {"confirmed_event", "operator_action", "other_party_action", "closed",
            "active_reference", "deferral", "ambiguous_actor", "marketing",
            "consequence", "date", "near_term"}
Domains == {"career", "finance", "commerce", "scheduling", "general"}

\* "today", "tonight" and "tomorrow" are dates as well.
Texts == [signals : {s \in SUBSET Signals : "near_term" \in s => "date" \in s},
          domain : Domains]

Flags == {"red", "orange", "yellow", "green", "blue", "purple", "gray",
          "no_flag", "unknown"}
ReviewOnlyTypes == {"unclassifiable", "unidentifiable_action", "conflicting_signals"}
AutoEligibleThreshold == 800

Contract ==
    [event_confirmed       |-> [owner |-> "none",        state |-> {"open_loop"},
                                urgency |-> {"none", "near_term"}],
     action_request        |-> [owner |-> "operator",    state |-> {"open_loop"},
                                urgency |-> {"none", "near_term", "imminent"}],
     awaiting_other_party  |-> [owner |-> "other_party", state |-> {"open_loop"},
                                urgency |-> {"none"}],
     deferred_item         |-> [owner |-> "none",        state |-> {"deferred"},
                                urgency |-> {"none"}],
     closed_or_receipt     |-> [owner |-> "none", state |-> {"closed", "reference_only"},
                                urgency |-> {"none"}],
     conflicting_signals   |-> [owner |-> "unknown",     state |-> {"open_loop"},
                                urgency |-> {"none"}],
     active_reference      |-> [owner |-> "none",        state |-> {"reference_only"},
                                urgency |-> {"none"}],
     unidentifiable_action |-> [owner |-> "unknown",     state |-> {"open_loop"},
                                urgency |-> {"none"}],
     unclassifiable        |-> [owner |-> "unknown",     state |-> {"open_loop"},
                                urgency |-> {"none"}]]

Conflicting(s) ==
    "closed" \in s /\ ("operator_action" \in s \/ "confirmed_event" \in s)

\* The precedence of the detectors.
SemanticType(s) ==
    IF "operator_action" \in s /\ ~Conflicting(s) THEN "action_request"
    ELSE IF "confirmed_event" \in s /\ ~Conflicting(s) THEN "event_confirmed"
    ELSE IF "other_party_action" \in s /\ ~Conflicting(s) THEN "awaiting_other_party"
    ELSE IF "deferral" \in s /\ s \cap {"operator_action", "confirmed_event"} = {}
         THEN "deferred_item"
    ELSE IF "closed" \in s
         /\ s \cap {"operator_action", "confirmed_event", "other_party_action"} = {}
         THEN "closed_or_receipt"
    ELSE IF Conflicting(s) THEN "conflicting_signals"
    ELSE IF "active_reference" \in s THEN "active_reference"
    ELSE IF "ambiguous_actor" \in s THEN "unidentifiable_action"
    ELSE "unclassifiable"

Owner(type) ==
    CASE type = "action_request" -> "operator"
      [] type = "awaiting_other_party" -> "other_party"
      [] type \in ReviewOnlyTypes -> "unknown"
      [] OTHER -> "none"

OperatorState(type, s) ==
    CASE type = "deferred_item" -> "deferred"
      [] type = "active_reference" -> "reference_only"
      [] type = "closed_or_receipt" ->
            IF "active_reference" \in s THEN "reference_only" ELSE "closed"
      [] OTHER -> "open_loop"

Urgency(type, s) ==
    IF type = "action_request" /\ {"consequence", "near_term"} \subseteq s THEN "imminent"
    ELSE IF \/ type = "action_request" /\ s \cap {"consequence", "near_term"} # {}
            \/ type = "event_confirmed" /\ "date" \in s
         THEN "near_term" ELSE "none"

StrongSignals(s) == s \cap {"confirmed_event", "operator_action", "other_party_action",
                            "active_reference", "deferral", "consequence"}
Axes(s) == s \cap {"confirmed_event", "operator_action", "other_party_action"}

Least(a, b) == IF a < b THEN a ELSE b

Confidence(type, s) ==
    LET If(condition, weight) == IF condition THEN weight ELSE 0
        raw == 300
             + 200 * Least(Cardinality(StrongSignals(s)), 2)
             + Least(100 * Cardinality(Axes(s)), 200)
             + If("date" \in s /\ type \in {"event_confirmed", "action_request"}, 150)
             - If("ambiguous_actor" \in s, 250)
             - If(Conflicting(s), 200)
             - If("marketing" \in s /\ type # "action_request", 300)
             - If(type \in {"unclassifiable", "unidentifiable_action"}
                  /\ "date" \notin s, 100)
    IN  IF raw < 0 THEN 0 ELSE Least(raw, 1000)

ClassificationOf(text) ==
    LET s == text.signals
        type == SemanticType(s)
    IN  [domain |-> text.domain, type |-> type, owner |-> Owner(type),
         state |-> OperatorState(type, s), urgency |-> Urgency(type, s),
         due |-> "date" \in s /\ type \in {"action_request", "event_confirmed"},
         followUp |-> type = "awaiting_other_party",
         bulk |-> "marketing" \in s, confidence |-> Confidence(type, s)]

\* What building a plan insists on, for a classification it did not make too:
\* otherwise the whole plan is refused.
MeetsContract(c) ==
    /\ c.domain \in Domains
    /\ c.type \in DOMAIN Contract
    /\ c.owner = Contract[c.type].owner
    /\ c.state \in Contract[c.type].state
    /\ c.urgency \in Contract[c.type].urgency
    /\ c.confidence \in 0..1000
    /\ c.due => c.type \in {"event_confirmed", "action_request"}
    /\ c.type = "event_confirmed" => (c.urgency = "near_term") = c.due
    /\ c.type = "action_request" /\ c.urgency = "imminent" => c.due
    /\ (c.type = "awaiting_other_party") = c.followUp

DeservedFlag(c) ==
    CASE c.type = "action_request" ->
            IF c.urgency = "imminent" THEN "red" ELSE "orange"
      [] c.type = "awaiting_other_party" -> "yellow"
      [] c.type = "event_confirmed" -> "green"
      [] c.type = "active_reference" -> "blue"
      [] c.type = "closed_or_receipt" ->
            IF c.state = "reference_only" THEN "blue" ELSE "no_flag"
      [] c.type = "deferred_item" -> "gray"
      [] OTHER -> "purple"

\* Slip: bulk mail is not told apart.
EligibleByConfidence(c) ==
    c.confidence >= AutoEligibleThreshold /\ c.type \notin ReviewOnlyTypes

IsAutoEligible(c) ==
    /\ c.confidence >= AutoEligibleThreshold
    /\ ~c.bulk
    /\ c.type \notin ReviewOnlyTypes

\* The proposal for a message that carries the flag "observed": no change, one
\* that may be made on its own, or one a human has to look at.
Proposal(c, observed) ==
    LET to == DeservedFlag(c)
        auto == IsAutoEligible(c) /\ to # "purple" /\ observed # "unknown"
    IN  [to |-> to,
         identity |-> to = observed,
         auto |-> to # observed /\ auto,
         review |-> to # observed /\ ~auto]

\* A canary nominated by hand may not be a message that matters.
HumanMayNominate(c) ==
    /\ c.domain \notin {"career", "finance", "scheduling"}
    /\ c.type \notin {"action_request", "awaiting_other_party", "event_confirmed",
                      "conflicting_signals", "unidentifiable_action"}
    /\ c.urgency = "none"
    /\ ~c.due /\ ~c.followUp
=============================================================================
