------------------------------ MODULE MailSend ------------------------------
(***************************************************************************)
(* Receipt-bound sending: the command-line sender (mail_send.py) and its   *)
(* authorization receipts and attempt markers (mail_send_safety.py).       *)
(*                                                                         *)
(* Every invocation is an operating-system process of its own; several may *)
(* run at once, with the same receipt or the same attempt id, and each may *)
(* die at any step.  The operator edits drafts, signs, replaces and takes  *)
(* back receipts beside them.  An invocation without --apply only prints   *)
(* the binding it would need and is left out.                              *)
(*                                                                         *)
(* A text is a version: version u of a draft is the message with UID u,    *)
(* since an edited draft is a new IMAP message.  What a "compose" sends is *)
(* given on its command line and is version 1; replies and self-tests go   *)
(* the same way.                                                           *)
(***************************************************************************)
EXTENDS SendPolicy, Naturals, Sequences, FiniteSets

CONSTANTS
    Procs,       \* invocations of the sender
    Attempts,    \* attempt ids the operator uses
    Uses,        \* bound: what is sent, or signed for, under which id
    MaxText,     \* bound: versions of the draft
    MaxReceipts, \* bound: receipts that are signed
    DraftId,     \* the Message-ID header of each version of the draft
    NoId         \* a draft without one

Texts    == 1..MaxText
Actions  == {"from_draft", "compose"}
Bindings == {b \in [action : Actions, attempt : Attempts, text : Texts] :
                <<b.action, b.attempt>> \in Uses}
Issues   == 1..MaxReceipts

ASSUME MailSendAssumption ==
    /\ MaxText \in Nat \ {0} /\ MaxReceipts \in Nat
    /\ DOMAIN DraftId = Texts
    /\ Attempts # {} /\ Uses \subseteq Actions \X Attempts

VARIABLES
    drafts,   \* UIDs in [Gmail]/Drafts
    newest,   \* the highest UID so far
    trash,    \* drafts with a copy in [Gmail]/Trash
    issued,   \* every receipt the authority signed, in order
    receipt,  \* the one in the receipt file and in time, 0 for none
    markers,  \* attempt ids with a marker in the attempt store
    durable,  \* the markers that survive a power failure
    proc,     \* the invocations
    outbox,   \* messages the SMTP server accepted, in order
    sent,     \* those with a copy in [Gmail]/Sent Mail
    removed   \* history: drafts an invocation took out of Drafts

mailbox  == <<drafts, newest, trash, removed>>
receipts == <<issued, receipt>>
store    == <<markers, durable>>
server   == <<outbox, sent>>
sendVars == <<mailbox, receipts, store, proc, server>>
-----------------------------------------------------------------------------
Steps == {"idle", "find", "authorize", "claim", "sync", "rcpt",
          "data", "verify", "trash", "copied"}
\* job: the binding computed from the message in memory; text 0 before it is
\* read.  grant: the receipt relied on.  calledOff, history: the authority or
\* the operator withdrew while this invocation had yet to look again.
Jobs == [action : Actions, attempt : Attempts, text : 0..MaxText]
ProcStates == [step : Steps, job : Jobs, grant : 0..MaxReceipts,
               calledOff : BOOLEAN]

SendTypeOK ==
    /\ policy \in PolicyFiles
    /\ drafts \subseteq Texts /\ newest \in Texts
    /\ trash \subseteq Texts /\ removed \subseteq Texts
    /\ issued \in Seq(Bindings) /\ Len(issued) <= MaxReceipts
    /\ receipt \in 0..Len(issued)
    /\ durable \subseteq markers /\ markers \subseteq Attempts
    /\ proc \in [Procs -> ProcStates]
    /\ outbox \in Seq([binding : Bindings, calledOff : BOOLEAN])
    /\ sent \subseteq DOMAIN outbox

Idle == [step |-> "idle", grant |-> 0, calledOff |-> FALSE,
         job |-> [action |-> "compose", attempt |-> CHOOSE a \in Attempts : TRUE,
                  text |-> 0]]

SendInit ==
    /\ drafts = {1} /\ newest = 1 /\ trash = {} /\ removed = {}
    /\ issued = <<>> /\ receipt = 0
    /\ markers = {} /\ durable = {}
    /\ proc = [p \in Procs |-> Idle]
    /\ outbox = <<>> /\ sent = {}
-----------------------------------------------------------------------------
At(p, step) == proc[p].step = step
Go(p, step) == proc' = [proc EXCEPT ![p].step = step]
\* The process exits, whatever its exit code.
Exit(p) == proc' = [proc EXCEPT ![p] = Idle]

Invoke(p, action, a) ==
    /\ At(p, "idle") /\ <<action, a>> \in Uses
    /\ proc' = [proc EXCEPT ![p] = [Idle EXCEPT
           !.step = IF action = "from_draft" THEN "find" ELSE "authorize",
           !.job = [action |-> action, attempt |-> a,
                    text |-> IF action = "from_draft" THEN 0 ELSE 1]]]
    /\ UNCHANGED <<mailbox, receipts, store, server>>

\* newest_matching, then fetch_raw of its UID: a draft that was edited away in
\* between cannot be fetched.
Find(p) ==
    /\ At(p, "find")
    /\ \/ \E u \in drafts :
            /\ \A v \in drafts : v <= u
            /\ proc' = [proc EXCEPT ![p].step = "authorize", ![p].job.text = u]
       \/ Exit(p)
    /\ UNCHANGED <<mailbox, receipts, store, server>>

\* validate_authorization_receipt: signed, in time, for this very binding.
Grants(i, job) == i # 0 /\ issued[i] = job

Authorize(p) ==
    /\ At(p, "authorize")
    /\ IF Grants(receipt, proc[p].job)
       THEN proc' = [proc EXCEPT ![p].step = "claim", ![p].grant = receipt]
       ELSE Exit(p)
    /\ UNCHANGED <<mailbox, receipts, store, server>>

\* assert_grant_current: the file still holds the same receipt, in time.
GrantCurrent(p) == receipt = proc[p].grant

\* send_and_verify up to the claim: the policy, the grant, and the exclusive
\* create of the marker, which is what keeps two invocations apart.
Claim(p) ==
    /\ At(p, "claim")
    /\ LET a == proc[p].job.attempt
           free == AutomatedSendAllowed /\ GrantCurrent(p) /\ a \notin markers
       IN IF free THEN markers' = markers \cup {a} /\ Go(p, "sync")
          ELSE Exit(p) /\ UNCHANGED markers
    /\ UNCHANGED <<mailbox, receipts, durable, server>>

\* Slip: only the marker is synced, not the directory that names it.
SyncFileOnly(p) ==
    /\ At(p, "sync")
    /\ (AutomatedSendAllowed /\ Go(p, "rcpt")) \/ Exit(p)
    /\ UNCHANGED <<mailbox, receipts, store, server>>

\* fsync of the marker and of its directory: a failure refuses the send and
\* leaves the marker.  Then _smtp_send asks the policy once more.
SyncMarker(p) ==
    /\ At(p, "sync")
    /\ \/ /\ durable' = durable \cup {proc[p].job.attempt}
          /\ IF AutomatedSendAllowed THEN Go(p, "rcpt") ELSE Exit(p)
       \/ Exit(p) /\ UNCHANGED durable
    /\ UNCHANGED <<mailbox, receipts, markers, server>>
-----------------------------------------------------------------------------
\* Slip: nothing is looked at between the recipients and DATA.
RecipientsOnly(p) ==
    /\ At(p, "rcpt")
    /\ Go(p, "data") \/ Exit(p)
    /\ UNCHANGED <<mailbox, receipts, store, server>>

\* login, MAIL FROM and every RCPT TO; one refusal, and no DATA is sent.  After the
\* last one, before_data looks at the receipt again.
Recipients(p) ==
    /\ At(p, "rcpt")
    /\ (GrantCurrent(p) /\ Go(p, "data")) \/ Exit(p)
    /\ UNCHANGED <<mailbox, receipts, store, server>>

Accept(p) == outbox' = Append(outbox, [binding   |-> proc[p].job,
                                       calledOff |-> proc[p].calledOff])

\* The server accepts and says so; it accepts and the answer is lost, which
\* is reported as a failed send; or it never accepts.
Data(p) ==
    /\ At(p, "data")
    /\ \/ Accept(p) /\ Go(p, "verify")
       \/ Accept(p) /\ Exit(p)
       \/ Exit(p) /\ UNCHANGED outbox
    /\ UNCHANGED <<mailbox, receipts, store, sent>>

MessageId(b) ==
    IF b.action = "compose" THEN <<b.attempt>>
    ELSE IF DraftId[b.text] = NoId THEN <<b.attempt, b.text>>
    ELSE DraftId[b.text]

\* sent_has: any message in Sent with this Message-ID.
SentHas(b) == \E i \in sent : MessageId(outbox[i].binding) = MessageId(b)

\* The poll finds the copy; or the time runs out; or the connection breaks.
Verify(p) ==
    /\ At(p, "verify")
    /\ \/ /\ SentHas(proc[p].job)
          /\ IF proc[p].job.action = "from_draft" THEN Go(p, "trash")
             ELSE Exit(p)
       \/ Exit(p)
    /\ UNCHANGED <<mailbox, receipts, store, server>>

\* trash_draft: MOVE, or COPY where the server has no MOVE.  A UID that is
\* no longer there is moved or copied without effect.
Trash(p) ==
    /\ At(p, "trash")
    /\ LET here == {proc[p].job.text} \cap drafts IN
       \/ /\ drafts' = drafts \ here /\ trash' = trash \cup here
          /\ removed' = removed \cup here
          /\ Exit(p)
       \/ /\ trash' = trash \cup here
          /\ Go(p, "copied") /\ UNCHANGED <<drafts, removed>>
       \/ Exit(p) /\ UNCHANGED <<drafts, trash, removed>>
    /\ UNCHANGED <<newest, receipts, store, server>>

\* STORE \Deleted and EXPUNGE of this UID, or the mark is taken off again.
Expunge(p) ==
    /\ At(p, "copied")
    /\ LET here == {proc[p].job.text} \cap drafts IN
       \/ drafts' = drafts \ here /\ removed' = removed \cup here
       \/ UNCHANGED <<drafts, removed>>
    /\ Exit(p)
    /\ UNCHANGED <<newest, trash, receipts, store, server>>
-----------------------------------------------------------------------------
\* The invocations that hold the receipt in the file and have not made their
\* last look at it.
StillLooking == {p \in Procs : /\ proc[p].grant # 0 /\ proc[p].grant = receipt
                               /\ proc[p].step \in {"claim", "sync", "rcpt"}}
CallOff(ps) == proc' = [p \in Procs |-> IF p \in ps
                          THEN [proc[p] EXCEPT !.calledOff = TRUE] ELSE proc[p]]

\* The authority signs for what there is now and puts the receipt in place.
Sign(b) ==
    /\ Len(issued) < MaxReceipts
    /\ IF b.action = "from_draft" THEN b.text \in drafts ELSE b.text = 1
    /\ issued' = Append(issued, b)
    /\ receipt' = Len(issued')
    /\ CallOff(StillLooking)
    /\ UNCHANGED <<mailbox, store, server>>

\* The receipt is taken out of the file, or its time is over.
Withdraw ==
    /\ receipt # 0
    /\ receipt' = 0
    /\ CallOff(StillLooking)
    /\ UNCHANGED <<issued, mailbox, store, server>>

\* Saving an edited draft stores a new message and deletes the old one.
EditDraft(u) ==
    /\ u \in drafts /\ newest < MaxText
    /\ newest' = newest + 1
    /\ drafts' = (drafts \ {u}) \cup {newest'}
    /\ UNCHANGED <<trash, removed, receipts, store, proc, server>>

\* Gmail files the copy of an accepted message.
SentAppears(i) ==
    /\ i \notin sent
    /\ sent' = sent \cup {i}
    /\ UNCHANGED <<mailbox, receipts, store, proc, outbox>>

Kill(p) ==
    /\ ~At(p, "idle")
    /\ Exit(p)
    /\ UNCHANGED <<mailbox, receipts, store, server>>

\* Every process ends, and markers that were not synced may be gone.
PowerFailure ==
    /\ proc' = [p \in Procs |-> Idle]
    /\ markers' \in {m \in SUBSET markers : durable \subseteq m}
    /\ UNCHANGED <<mailbox, receipts, durable, server>>

\* Taking the permission back calls off whoever has yet to ask for it.
StopSending ==
    /\ PolicyOff
    /\ CallOff({p \in Procs : proc[p].step \in
          {"find", "authorize", "claim", "sync"}})
    /\ UNCHANGED <<mailbox, receipts, store, server>>

SenderStep(p) ==
    \/ Find(p) \/ Authorize(p) \/ Claim(p) \/ SyncMarker(p)
    \/ Recipients(p) \/ Data(p) \/ Verify(p) \/ Trash(p) \/ Expunge(p)

Operator ==
    \/ \E p \in Procs, action \in Actions, a \in Attempts : Invoke(p, action, a)
    \/ \E b \in Bindings : Sign(b)
    \/ Withdraw
    \/ \E u \in drafts : EditDraft(u)

Failures ==
    \/ \E i \in DOMAIN outbox : SentAppears(i)
    \/ \E p \in Procs : Kill(p)
    \/ PowerFailure

SendNext ==
    \/ (\E p \in Procs : SenderStep(p)) /\ UNCHANGED policy
    \/ Operator /\ UNCHANGED policy
    \/ Failures /\ UNCHANGED policy
    \/ StopSending
-----------------------------------------------------------------------------
\* One attempt id puts at most one message on the wire: whatever processes run
\* at once, die, lose the server's answer or are started again with the same
\* receipt (claim_authorized_attempt).
OncePerAttempt ==
    \A i, j \in DOMAIN outbox : i # j =>
        outbox[i].binding.attempt # outbox[j].binding.attempt

\* What the server accepted is what the authority signed, and nobody had
\* withdrawn the receipt or the permission while the sender could still look:
\* replacing, removing or outliving the receipt up to the last recipient, and
\* closing the policy up to the connection, stops the message.  A draft the
\* sender takes out of Drafts was accepted in that very version, and a copy is
\* in Trash: an edit made while the old version was on its way is not thrown
\* away with it (run_from_draft, trash_draft).
SentUnderAuthority ==
    /\ \A i \in DOMAIN outbox :
         /\ outbox[i].binding \in {issued[k] : k \in DOMAIN issued}
         /\ ~outbox[i].calledOff
    /\ \A u \in removed :
         /\ u \in trash
         /\ \E i \in DOMAIN outbox : /\ outbox[i].binding.action = "from_draft"
                                     /\ outbox[i].binding.text = u
=============================================================================
