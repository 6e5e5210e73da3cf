---------------------------- MODULE MCSending ----------------------------
(* Two invocations and two runs; an edited draft keeps its Message-ID, and *)
(* the first reply of the ledger can never be delivered.                   *)
(* The desk reads a lead, an alert and an issue, of which the report knows  *)
(* the issue; a text that is read matches at most three expressions.        *)
EXTENDS Sending

CONSTANTS a1, a2, r1, r2, m1, bad, k1, k2, none, lead, alert, issue, d1

MCUses          == {<<"from_draft", a1>>, <<"from_draft", a2>>, <<"compose", a2>>}
MCDraftId       == <<m1, m1>>
MCReplies       == <<bad, k1, k2>>
MCUndeliverable == {bad}

Text(thread, words, automated) ==
    [thread |-> thread, direction |-> "inbound", words |-> words,
     automated |-> automated, notice |-> "none"]

MCMail ==
    lead  :> Text("t1", {"opportunity", "question"}, FALSE) @@
    alert :> Text("t2", {"security"}, TRUE) @@
    issue :> Text("t3", {"github", "human_ask"}, TRUE)

MCReceived == [m \in {lead, alert, issue} |-> 0]
MCExports  == {{lead}, {alert, issue}}
MCReports  == {{"GitHub Action Needed"}}
MCOutcomes == {<<"resolved", "evidence_reviewed">>}
MCFile     == [actions |-> 1, resolvers |-> 1, approvals |-> 2, deliveries |-> 1]

MCTexts ==
    [words : {w \in SUBSET Words : Cardinality(w) <= 3},
     automated : BOOLEAN, notice : Notices]
=============================================================================
