------------------------------ MODULE Sending ------------------------------
(***************************************************************************)
(* The programs about mail that goes out: the receipt-bound sender and the *)
(* batch sender, the only two that hand mail to SMTP, and the desk where   *)
(* an operator decides what needs an answer and keeps record of it.  The   *)
(* senders share nothing but the policy file, and the desk calls neither,  *)
(* so a behaviour drives one of them: what they do together is an          *)
(* interleaving of such behaviours.  A fourth kind of behaviour reads one  *)
(* text, to see where the desk would route it.                             *)
(***************************************************************************)
EXTENDS MailSend, SendDrafts, MailDesk

CONSTANT InboundTexts  \* the texts that are read

VARIABLES
    program,  \* the one this behaviour drives
    text      \* what a behaviour of "routing" reads

NoText == [notice |-> "nothing is read"]

ASSUME InboundAssumption ==
    InboundTexts \subseteq [words : SUBSET Words, automated : BOOLEAN, notice : Notices]

vars == <<program, text, policy, sendVars, draftsVars, deskVars>>

Init ==
    /\ program \in {"mail_send", "send_drafts", "desk", "routing"}
    /\ text \in IF program = "routing" THEN InboundTexts ELSE {NoText}
    /\ PolicyInit /\ SendInit /\ DraftsInit
    /\ program \in {"desk", "routing"} => ~AutomatedSendAllowed
    /\ DeskInit

Next ==
    /\ UNCHANGED <<program, text>>
    /\ \/ program = "mail_send" /\ SendNext /\ UNCHANGED <<draftsVars, deskVars>>
       \/ program = "send_drafts" /\ DraftsNext /\ UNCHANGED <<sendVars, deskVars>>
       \/ program = "desk" /\ DeskNext /\ UNCHANGED <<policy, sendVars, draftsVars>>

Spec == Init /\ [][Next]_vars

BatchOnly(A) ==
    program = "send_drafts" /\ A /\ UNCHANGED <<program, text, policy, sendVars, deskVars>>

\* The scheduler starts the script again and again and a started run goes on;
\* a server that is asked to take a reply over and over takes it at last,
\* unless it is one that can never be delivered.
Fairness ==
    /\ WF_vars(BatchOnly(\E r \in Runs : Begin(r)))
    /\ \A r \in Runs : WF_vars(BatchOnly(BatchStep(r)))
    /\ \A k \in Keys : SF_vars(BatchOnly(\E r \in Runs : Accepted(r, k)))

FairSpec == Spec /\ Fairness
-----------------------------------------------------------------------------
TypeOK ==
    /\ program \in {"mail_send", "send_drafts", "desk", "routing"}
    /\ program = "routing" <=> text # NoText
    /\ SendTypeOK /\ DraftsTypeOK

\* Whatever a text says, it does not fall between the desk's tables: one of
\* them takes it, at most one, and what that one makes of it the later tables
\* understand (collect_opportunities and collect_risks through mail_status).
NothingFallsBetween == program = "routing" => RoutingSound(text)

\* What was missed stays in sight of mail-status until the operator has said
\* that it is done with; no program concludes so by itself (build_mail_status
\* over the four files of the desk).
QueuedUntilClosed == program = "desk" => StaysInSight

\* While the policy allows it, every deliverable reply goes out, although a
\* run sends no more than --max of them and others are refused each time
\* (the loop of send_drafts.main).
RepliesGoOut ==
    program = "send_drafts" =>
        \A k \in Keys \ Undeliverable :
            <>(delivered[k] > 0 \/ ~AutomatedSendAllowed)
=============================================================================
