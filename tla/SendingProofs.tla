--------------------------- MODULE SendingProofs ---------------------------
(***************************************************************************)
(* What holds of the programs about mail that goes out for any number of   *)
(* processes, attempts, drafts, receipts, replies and messages.            *)
(*                                                                         *)
(* A behaviour drives one program, so an invariant of a program is proved  *)
(* from its own next-state action; the end of the module puts them         *)
(* together.                                                               *)
(***************************************************************************)
EXTENDS Sending, SequenceTheorems, FiniteSetTheorems, TLAPS

-----------------------------------------------------------------------------
(* The receipt-bound sender.  The marker carries the argument: whoever is   *)
(* past the claim has his attempt id in the store and, past the sync, on    *)
(* disk; no two are past it with one id; and what was accepted stays marked *)
(* on disk, so that the id cannot be claimed again after a power failure.   *)

Claimed == {"sync", "rcpt", "data", "verify", "trash", "copied"}
Synced  == Claimed \ {"sync"}

(* What an invocation knows, by the step it is at: it has a binding, relies *)
(* on a receipt for it, holds the marker, and has its message accepted.     *)
ProcSound(p) ==
    LET step == proc[p].step
        mine == proc[p].job
    IN  /\ step = "find" => <<mine.action, mine.attempt>> \in Uses
        /\ step \notin {"idle", "find"} => mine \in Bindings /\ mine.text <= newest
        /\ step \notin {"idle", "find", "authorize"} =>
             proc[p].grant \in 1..Len(issued) /\ issued[proc[p].grant] = mine
        /\ proc[p].calledOff =>
             \/ step \in {"find", "authorize", "claim", "sync"} /\ ~AutomatedSendAllowed
             \/ step \in {"claim", "sync", "rcpt"} /\ proc[p].grant # receipt
        /\ step = "sync" => mine.attempt \in markers
        /\ step \in Synced => mine.attempt \in durable
        /\ step \in {"sync", "rcpt", "data"} =>
             \A i \in 1..Len(outbox) : outbox[i].binding.attempt # mine.attempt
        /\ step \in {"verify", "trash", "copied"} =>
             \E i \in 1..Len(outbox) : outbox[i].binding = mine
        /\ step \in {"trash", "copied"} => mine.action = "from_draft"
        /\ step = "copied" /\ mine.text \in drafts => mine.text \in trash

Exclusive ==
    \A p, q \in Procs :
        p # q /\ proc[p].step \in Claimed /\ proc[q].step \in Claimed =>
            proc[p].job.attempt # proc[q].job.attempt

OutboxSound ==
    /\ OncePerAttempt
    /\ SentUnderAuthority
    /\ \A i \in 1..Len(outbox) : outbox[i].binding.attempt \in durable
    /\ \A u \in drafts : u <= newest

SendInv == SendTypeOK /\ (\A p \in Procs : ProcSound(p)) /\ Exclusive /\ OutboxSound

(* A process that does nothing is well typed. *)
LEMMA IdleTyped == Idle \in ProcStates /\ Idle.step = "idle" /\ Idle.calledOff = FALSE
  <1>1. (CHOOSE a \in Attempts : TRUE) \in Attempts
    BY MailSendAssumption
  <1>2. 0 \in 0..MaxText /\ 0 \in 0..MaxReceipts
    BY MailSendAssumption
  <1>3. QED
    BY <1>1, <1>2 DEF Idle, ProcStates, Steps, Jobs, Actions

LEMMA SendInitially == PolicyInit /\ SendInit => SendInv
  <1> SUFFICES ASSUME PolicyInit, SendInit PROVE SendInv
    OBVIOUS
  <1>1. SendTypeOK
    BY IdleTyped, MailSendAssumption DEF SendTypeOK, SendInit, PolicyInit, Texts, Bindings
  <1>2. \A p \in Procs : proc[p] = Idle
    BY DEF SendInit
  <1>3. (\A p \in Procs : ProcSound(p)) /\ Exclusive
    BY <1>2, IdleTyped DEF ProcSound, Exclusive, Claimed, Synced
  <1>4. OutboxSound
    BY MailSendAssumption DEF SendInit, OutboxSound, OncePerAttempt, SentUnderAuthority
  <1>5. QED
    BY <1>1, <1>3, <1>4 DEF SendInv

(* What is the same for every action of an invocation: the others' view of   *)
(* the shared state moves only forward.                                      *)
LEMMA OthersKeep ==
    ASSUME SendInv, NEW q \in Procs, proc'[q] = proc[q],
           UNCHANGED <<policy, newest, issued, receipt>>,
           markers \subseteq markers', durable \subseteq durable', trash \subseteq trash',
           drafts' \subseteq drafts,
           \/ outbox' = outbox
           \/ \E p \in Procs : /\ proc[p].step = "data" /\ p # q
                                /\ Accept(p)
    PROVE  ProcSound(q)'
  <1>1. ProcSound(q) /\ outbox \in Seq([binding : Bindings, calledOff : BOOLEAN])
    BY DEF SendInv, SendTypeOK
  <1>2. CASE outbox' = outbox
    BY <1>1, <1>2 DEF ProcSound, AutomatedSendAllowed, Synced, Claimed
  <1>3. ASSUME NEW p \in Procs, proc[p].step = "data", p # q, Accept(p)
        PROVE  ProcSound(q)'
    <2>1. proc[p].job \in Bindings /\ proc[p].calledOff \in BOOLEAN
      BY <1>3 DEF SendInv, SendTypeOK, ProcSound, ProcStates
    <2>2. /\ Len(outbox') = Len(outbox) + 1 /\ Len(outbox) \in Nat
          /\ \A i \in 1..Len(outbox) : outbox'[i] = outbox[i]
          /\ outbox'[Len(outbox) + 1].binding = proc[p].job
      BY <1>1, <1>3, <2>1 DEF Accept
    <2>3. proc[q].step \in {"sync", "rcpt", "data"} =>
             proc[p].job.attempt # proc[q].job.attempt
      BY <1>3 DEF SendInv, Exclusive, Claimed
    <2>4. proc[q].step \in {"sync", "rcpt", "data"} =>
             \A i \in 1..Len(outbox') : outbox'[i].binding.attempt # proc[q].job.attempt
      <3>1. proc[q].step \in {"sync", "rcpt", "data"} =>
               \A i \in 1..Len(outbox) : outbox[i].binding.attempt # proc[q].job.attempt
        BY <1>1 DEF ProcSound
      <3>2. QED
        BY <2>2, <2>3, <3>1
    <2>5. proc[q].step \in {"verify", "trash", "copied"} =>
             \E i \in 1..Len(outbox') : outbox'[i].binding = proc[q].job
      <3>1. proc[q].step \in {"verify", "trash", "copied"} =>
               \E i \in 1..Len(outbox) : outbox[i].binding = proc[q].job
        BY <1>1 DEF ProcSound
      <3>2. QED
        BY <2>2, <3>1
    <2>6. QED
      BY <1>1, <2>4, <2>5 DEF ProcSound, AutomatedSendAllowed, Synced, Claimed
  <1>4. QED
    BY <1>2, <1>3

(* Less in the drafts, more on disk and in the trash leave the outbox sound. *)
LEMMA OutboxKeeps ==
    ASSUME SendInv, UNCHANGED <<newest, issued, outbox, removed>>,
           durable \subseteq durable', trash \subseteq trash', drafts' \subseteq drafts
    PROVE  OutboxSound'
BY DEF SendInv, OutboxSound, OncePerAttempt, SentUnderAuthority

LEMMA ExitSound ==
    ASSUME SendInv, NEW p \in Procs, Exit(p),
           UNCHANGED <<policy, newest, issued, receipt>>,
           markers \subseteq markers', durable \subseteq durable', trash \subseteq trash',
           drafts' \subseteq drafts,
           outbox' = outbox \/ (proc[p].step = "data" /\ Accept(p))
    PROVE  (\A q \in Procs : ProcSound(q)') /\ Exclusive' /\ proc' \in [Procs -> ProcStates]
  <1>1. proc \in [Procs -> ProcStates]
    BY DEF SendInv, SendTypeOK
  <1>2. proc'[p] = Idle /\ \A q \in Procs \ {p} : proc'[q] = proc[q]
    BY <1>1 DEF Exit
  <1>3. ASSUME NEW q \in Procs PROVE ProcSound(q)'
    <2>1. CASE q = p
      BY <1>2, <2>1, IdleTyped DEF ProcSound, Synced, Claimed
    <2>2. CASE q # p
      BY <1>2, <2>2, OthersKeep
    <2>3. QED
      BY <2>1, <2>2
  <1>4. Exclusive'
    BY <1>2, IdleTyped DEF SendInv, Exclusive, Claimed
  <1>5. QED
    BY <1>1, <1>3, <1>4, IdleTyped DEF Exit

(* An invocation moves on, past the claim only if it was past it before.    *)
LEMMA MoveSound ==
    ASSUME SendInv, NEW p \in Procs, NEW new \in ProcStates, proc' = [proc EXCEPT ![p] = new],
           ProcSound(p)', new.step \in Claimed => proc[p].step \in Claimed,
           proc[p].step \in Claimed => new.job = proc[p].job,
           UNCHANGED <<policy, newest, issued, receipt>>,
           markers \subseteq markers', durable \subseteq durable', trash \subseteq trash',
           drafts' \subseteq drafts,
           outbox' = outbox \/ (proc[p].step = "data" /\ Accept(p))
    PROVE  (\A q \in Procs : ProcSound(q)') /\ Exclusive' /\ proc' \in [Procs -> ProcStates]
  <1>1. proc \in [Procs -> ProcStates]
    BY DEF SendInv, SendTypeOK
  <1>2. proc'[p] = new /\ \A q \in Procs \ {p} : proc'[q] = proc[q]
    BY <1>1
  <1>3. ASSUME NEW q \in Procs, q # p PROVE ProcSound(q)'
    BY <1>2, <1>3, OthersKeep
  <1>4. Exclusive'
    BY <1>2 DEF SendInv, Exclusive
  <1>5. QED
    BY <1>1, <1>3, <1>4

(* The facts about an invocation that its own actions start from. *)
LEMMA ProcFacts ==
    ASSUME SendInv, NEW p \in Procs
    PROVE  /\ proc[p] \in ProcStates /\ ProcSound(p)
           /\ proc[p] = [step |-> proc[p].step, job |-> proc[p].job, grant |-> proc[p].grant,
                         calledOff |-> proc[p].calledOff]
           /\ proc[p].job \in Jobs /\ proc[p].grant \in 0..MaxReceipts
           /\ proc[p].step \in Steps /\ proc[p].calledOff \in BOOLEAN
BY DEF SendInv, SendTypeOK, ProcStates

(* Leaving without a change to anything else. *)
LEMMA LeaveSound ==
    ASSUME SendInv, NEW p \in Procs, Exit(p),
           UNCHANGED <<policy, mailbox, receipts, store, server>>
    PROVE  SendInv'
  <1>a. /\ UNCHANGED <<policy, newest, issued, receipt>> /\ outbox' = outbox
        /\ markers \subseteq markers' /\ durable \subseteq durable'
        /\ trash \subseteq trash' /\ drafts' \subseteq drafts
    BY DEF mailbox, receipts, store, server
  <1>1. (\A q \in Procs : ProcSound(q)') /\ Exclusive' /\ proc' \in [Procs -> ProcStates]
    BY <1>a, ExitSound
  <1>2. OutboxSound'
    BY OutboxKeeps DEF mailbox, receipts, store, server
  <1>3. SendTypeOK'
    BY <1>1 DEF SendInv, SendTypeOK, mailbox, receipts, store, server
  <1>4. QED
    BY <1>1, <1>2, <1>3 DEF SendInv

(* Moving on without a change to anything else. *)
LEMMA GoSound ==
    ASSUME SendInv, NEW p \in Procs, NEW new \in ProcStates, proc' = [proc EXCEPT ![p] = new],
           ProcSound(p)', new.step \in Claimed => proc[p].step \in Claimed,
           proc[p].step \in Claimed => new.job = proc[p].job,
           UNCHANGED <<policy, mailbox, receipts, store, server>>
    PROVE  SendInv'
  <1>a. /\ UNCHANGED <<policy, newest, issued, receipt>> /\ outbox' = outbox
        /\ markers \subseteq markers' /\ durable \subseteq durable'
        /\ trash \subseteq trash' /\ drafts' \subseteq drafts
    BY DEF mailbox, receipts, store, server
  <1>1. (\A q \in Procs : ProcSound(q)') /\ Exclusive' /\ proc' \in [Procs -> ProcStates]
    BY <1>a, MoveSound
  <1>2. OutboxSound'
    BY OutboxKeeps DEF mailbox, receipts, store, server
  <1>3. SendTypeOK'
    BY <1>1 DEF SendInv, SendTypeOK, mailbox, receipts, store, server
  <1>4. QED
    BY <1>1, <1>2, <1>3 DEF SendInv

LEMMA InvokeSound ==
    ASSUME SendInv, NEW p \in Procs, NEW action \in Actions, NEW a \in Attempts,
           Invoke(p, action, a), UNCHANGED policy
    PROVE  SendInv'
  <1> DEFINE new == [Idle EXCEPT
           !.step = IF action = "from_draft" THEN "find" ELSE "authorize",
           !.job = [action |-> action, attempt |-> a,
                    text |-> IF action = "from_draft" THEN 0 ELSE 1]]
  <1>1. /\ new.step = (IF action = "from_draft" THEN "find" ELSE "authorize")
        /\ new.job = [action |-> action, attempt |-> a,
                      text |-> IF action = "from_draft" THEN 0 ELSE 1]
        /\ new.calledOff = FALSE /\ new \in ProcStates
    <2>1. (IF action = "from_draft" THEN 0 ELSE 1) \in 0..MaxText /\ 0 \in 0..MaxReceipts
      BY MailSendAssumption
    <2>2. [action |-> action, attempt |-> a,
           text |-> IF action = "from_draft" THEN 0 ELSE 1] \in Jobs
      BY <2>1 DEF Jobs
    <2>3. QED
      BY <2>1, <2>2 DEF Idle, ProcStates, Steps
  <1>2. proc' = [proc EXCEPT ![p] = new] /\ proc[p].step = "idle" /\ <<action, a>> \in Uses
    BY DEF Invoke, At
  <1> HIDE DEF new
  <1>3. UNCHANGED <<policy, mailbox, receipts, store, server>>
    BY DEF Invoke
  <1>4. proc'[p] = new
    BY <1>2 DEF SendInv, SendTypeOK
  <1>5. action # "from_draft" => new.job \in Bindings /\ new.job.text <= newest
    <2>1. 1 \in Texts /\ newest >= 1
      BY MailSendAssumption DEF Texts, SendInv, SendTypeOK
    <2>2. QED
      BY <1>1, <1>2, <2>1 DEF Bindings
  <1>6. ProcSound(p)'
    BY <1>1, <1>2, <1>3, <1>4, <1>5 DEF ProcSound, Synced, Claimed, mailbox, receipts, store
  <1>7. QED
    BY <1>1, <1>2, <1>3, <1>6, GoSound DEF Claimed

LEMMA FindSound ==
    ASSUME SendInv, NEW p \in Procs, Find(p), UNCHANGED policy
    PROVE  SendInv'
  <1>1. UNCHANGED <<policy, mailbox, receipts, store, server>> /\ proc[p].step = "find"
    BY DEF Find, At
  <1>2. CASE Exit(p)
    BY <1>1, <1>2, LeaveSound
  <1>3. ASSUME NEW u \in drafts,
               proc' = [proc EXCEPT ![p].step = "authorize", ![p].job.text = u]
        PROVE  SendInv'
    <2> DEFINE new == [proc[p] EXCEPT !.step = "authorize", !.job.text = u]
    <2>1. proc' = [proc EXCEPT ![p] = new] /\ proc'[p] = new
      BY <1>3 DEF SendInv, SendTypeOK
    <2>2. u \in Texts /\ u <= newest
      BY DEF SendInv, SendTypeOK, OutboxSound
    <2>3. /\ new.step = "authorize" /\ new.job.text = u
          /\ new.job.action = proc[p].job.action /\ new.job.attempt = proc[p].job.attempt
          /\ new.calledOff = proc[p].calledOff
          /\ new \in ProcStates /\ new.job \in [action : Actions, attempt : Attempts, text : Texts]
      <3>1. u \in 0..MaxText
        BY <2>2, MailSendAssumption DEF Texts
      <3>2. proc[p] \in ProcStates /\ proc[p].job \in Jobs
        BY ProcFacts
      <3>3. [proc[p].job EXCEPT !.text = u] \in [action : Actions, attempt : Attempts, text : Texts]
        BY <2>2, <3>2 DEF Jobs
      <3>4. [proc[p].job EXCEPT !.text = u] \in Jobs
        BY <3>1, <3>2 DEF Jobs
      <3>5. QED
        BY <3>2, <3>3, <3>4 DEF ProcStates, Jobs, Steps
    <2> HIDE DEF new
    <2>4. new.job \in Bindings
      BY <1>1, <2>3, ProcFacts DEF Bindings, ProcSound
    <2>5. ProcSound(p)'
      BY ZenonT(40), <1>1, <2>1, <2>2, <2>3, <2>4, ProcFacts
         DEF ProcSound, Synced, Claimed, mailbox, receipts, store, AutomatedSendAllowed
    <2>6. QED
      BY <1>1, <2>1, <2>3, <2>5, GoSound DEF Claimed
  <1>4. QED
    BY <1>2, <1>3 DEF Find

(* The process steps on and nothing of it but its step changes. *)
LEMMA GoFacts ==
    ASSUME SendInv, NEW p \in Procs, NEW s \in Steps, Go(p, s)
    PROVE  \E new \in ProcStates :
             /\ proc' = [proc EXCEPT ![p] = new] /\ proc'[p] = new
             /\ new.step = s /\ new.job = proc[p].job /\ new.grant = proc[p].grant
             /\ new.calledOff = proc[p].calledOff
  <1> DEFINE new == [proc[p] EXCEPT !.step = s]
  <1>1. proc[p] \in ProcStates /\ proc \in [Procs -> ProcStates]
    BY DEF SendInv, SendTypeOK
  <1>2. /\ new \in ProcStates /\ new.step = s /\ new.job = proc[p].job
        /\ new.grant = proc[p].grant /\ new.calledOff = proc[p].calledOff
    BY <1>1 DEF ProcStates
  <1>3. proc' = [proc EXCEPT ![p] = new] /\ proc'[p] = new
    BY <1>1 DEF Go
  <1> HIDE DEF new
  <1>4. QED
    BY <1>2, <1>3

LEMMA AuthorizeSound ==
    ASSUME SendInv, NEW p \in Procs, Authorize(p), UNCHANGED policy
    PROVE  SendInv'
  <1>1. UNCHANGED <<policy, mailbox, receipts, store, server>> /\ proc[p].step = "authorize"
    BY DEF Authorize, At
  <1>f. ProcSound(p) /\ proc[p].calledOff \in BOOLEAN
    BY ProcFacts
  <1>g. UNCHANGED <<policy, drafts, newest, trash, issued, receipt, markers, durable, outbox>>
    BY <1>1 DEF mailbox, receipts, store, server
  <1>2. CASE Exit(p)
    BY <1>1, <1>2, LeaveSound
  <1>3. CASE /\ Grants(receipt, proc[p].job)
             /\ proc' = [proc EXCEPT ![p].step = "claim", ![p].grant = receipt]
    <2> DEFINE new == [proc[p] EXCEPT !.step = "claim", !.grant = receipt]
    <2>1. proc' = [proc EXCEPT ![p] = new] /\ proc'[p] = new
      BY <1>3 DEF SendInv, SendTypeOK
    <2>2. receipt \in 1..Len(issued) /\ receipt \in 0..MaxReceipts /\ issued[receipt] = proc[p].job
      BY <1>3, MailSendAssumption DEF Grants, SendInv, SendTypeOK
    <2>3. /\ new.step = "claim" /\ new.job = proc[p].job /\ new.grant = receipt
          /\ new.calledOff = proc[p].calledOff /\ new \in ProcStates
      BY <2>2, ProcFacts DEF ProcStates, Steps
    <2> HIDE DEF new
    <2>4. ProcSound(p)'
      BY <1>1, <1>f, <1>g, <2>1, <2>2, <2>3 DEF ProcSound, Synced, Claimed, AutomatedSendAllowed
    <2>5. QED
      BY <1>1, <2>1, <2>3, <2>4, GoSound DEF Claimed
  <1>4. QED
    BY <1>2, <1>3 DEF Authorize

(* The exclusive create: the id was free, so nobody else is past the claim   *)
(* with it and nothing went out under it.                                    *)
LEMMA ClaimSound ==
    ASSUME SendInv, NEW p \in Procs, Claim(p), UNCHANGED policy
    PROVE  SendInv'
  <1> DEFINE a == proc[p].job.attempt
  <1>1. /\ UNCHANGED <<policy, mailbox, receipts, durable, server>> /\ proc[p].step = "claim"
    BY DEF Claim, At
  <1>f. ProcSound(p) /\ proc[p].calledOff \in BOOLEAN
    BY ProcFacts
  <1>g. UNCHANGED <<policy, drafts, newest, trash, issued, receipt, durable, outbox>>
    BY <1>1 DEF mailbox, receipts, server
  <1>2. CASE Exit(p) /\ UNCHANGED markers
    BY <1>1, <1>2, LeaveSound DEF store
  <1>3. CASE /\ AutomatedSendAllowed /\ GrantCurrent(p) /\ a \notin markers
             /\ markers' = markers \cup {a} /\ Go(p, "sync")
    <2>1. PICK new \in ProcStates :
             /\ proc' = [proc EXCEPT ![p] = new] /\ proc'[p] = new
             /\ new.step = "sync" /\ new.job = proc[p].job /\ new.grant = proc[p].grant
             /\ new.calledOff = proc[p].calledOff
      BY <1>3, GoFacts DEF Steps
    <2>2. proc \in [Procs -> ProcStates] /\ durable \subseteq markers
      BY DEF SendInv, SendTypeOK
    <2>3. \A i \in 1..Len(outbox) : outbox[i].binding.attempt # a
      BY <1>3, <2>2 DEF SendInv, OutboxSound
    <2>4. ProcSound(p)'
      BY <1>1, <1>f, <1>g, <1>3, <2>1, <2>3
         DEF ProcSound, Synced, Claimed, AutomatedSendAllowed, GrantCurrent
    <2>5. \A q \in Procs : proc[q].step \in Claimed => proc[q].job.attempt \in markers
      BY <2>2 DEF SendInv, ProcSound, Synced, Claimed
    <2>6. Exclusive'
      BY <1>3, <2>1, <2>2, <2>5 DEF SendInv, Exclusive
    <2>7. /\ UNCHANGED <<policy, newest, issued, receipt>> /\ outbox' = outbox
          /\ UNCHANGED <<newest, issued, outbox, removed>>
          /\ markers \subseteq markers' /\ durable \subseteq durable'
          /\ trash \subseteq trash' /\ drafts' \subseteq drafts
      BY <1>1, <1>3 DEF mailbox, receipts, server
    <2>8. ASSUME NEW q \in Procs, q # p PROVE ProcSound(q)'
      BY <2>1, <2>2, <2>7, <2>8, OthersKeep
    <2>9. OutboxSound'
      BY <2>7, OutboxKeeps
    <2>10. SendTypeOK'
      <3>1. a \in Attempts
        BY ProcFacts DEF Jobs
      <3>2. QED
        BY <1>1, <1>3, <2>1, <3>1 DEF SendInv, SendTypeOK, mailbox, receipts, server
    <2>11. QED
      BY <2>4, <2>6, <2>8, <2>9, <2>10 DEF SendInv
  <1>4. QED
    BY <1>2, <1>3 DEF Claim

LEMMA SyncMarkerSound ==
    ASSUME SendInv, NEW p \in Procs, SyncMarker(p), UNCHANGED policy
    PROVE  SendInv'
  <1> DEFINE a == proc[p].job.attempt
  <1>1. UNCHANGED <<policy, mailbox, receipts, markers, server>> /\ proc[p].step = "sync"
    BY DEF SyncMarker, At
  <1>f. ProcSound(p) /\ proc[p].calledOff \in BOOLEAN
    BY ProcFacts
  <1>g. UNCHANGED <<policy, drafts, newest, trash, issued, receipt, markers, outbox>>
    BY <1>1 DEF mailbox, receipts, server
  <1>2. CASE Exit(p) /\ UNCHANGED durable
    BY <1>1, <1>2, LeaveSound DEF store
  <1>3. CASE /\ durable' = durable \cup {a}
             /\ IF AutomatedSendAllowed THEN Go(p, "rcpt") ELSE Exit(p)
    <2>1. /\ UNCHANGED <<policy, newest, issued, receipt>> /\ outbox' = outbox
          /\ UNCHANGED <<newest, issued, outbox, removed>>
          /\ markers \subseteq markers' /\ durable \subseteq durable'
          /\ trash \subseteq trash' /\ drafts' \subseteq drafts
      BY <1>1, <1>3 DEF mailbox, receipts, server
    <2>2. (\A q \in Procs : ProcSound(q)') /\ Exclusive' /\ proc' \in [Procs -> ProcStates]
      <3>1. CASE Exit(p)
        BY <2>1, <3>1, ExitSound
      <3>2. CASE AutomatedSendAllowed /\ Go(p, "rcpt")
        <4>1. PICK new \in ProcStates :
                 /\ proc' = [proc EXCEPT ![p] = new] /\ proc'[p] = new
                 /\ new.step = "rcpt" /\ new.job = proc[p].job /\ new.grant = proc[p].grant
                 /\ new.calledOff = proc[p].calledOff
          BY <3>2, GoFacts DEF Steps
        <4>2. ProcSound(p)'
          BY <1>1, <1>f, <1>g, <1>3, <3>2, <4>1 DEF ProcSound, Synced, Claimed, AutomatedSendAllowed
        <4>3. QED
          BY <1>1, <2>1, <4>1, <4>2, MoveSound DEF Claimed
      <3>3. QED
        BY <1>3, <3>1, <3>2
    <2>3. OutboxSound'
      BY <2>1, OutboxKeeps
    <2>4. a \in markers
      BY <1>1, ProcFacts DEF ProcSound
    <2>5. SendTypeOK'
      BY <1>1, <1>3, <2>2, <2>4 DEF SendInv, SendTypeOK, mailbox, receipts, server
    <2>6. QED
      BY <2>2, <2>3, <2>5 DEF SendInv
  <1>4. QED
    BY <1>2, <1>3 DEF SyncMarker

(* The last look at the receipt: what was called off by then does not pass.  *)
LEMMA RecipientsSound ==
    ASSUME SendInv, NEW p \in Procs, Recipients(p), UNCHANGED policy
    PROVE  SendInv'
  <1>1. UNCHANGED <<policy, mailbox, receipts, store, server>> /\ proc[p].step = "rcpt"
    BY DEF Recipients, At
  <1>f. ProcSound(p) /\ proc[p].calledOff \in BOOLEAN
    BY ProcFacts
  <1>g. UNCHANGED <<policy, drafts, newest, trash, issued, receipt, markers, durable, outbox>>
    BY <1>1 DEF mailbox, receipts, store, server
  <1>2. CASE Exit(p)
    BY <1>1, <1>2, LeaveSound
  <1>3. CASE GrantCurrent(p) /\ Go(p, "data")
    <2>1. PICK new \in ProcStates :
             /\ proc' = [proc EXCEPT ![p] = new] /\ proc'[p] = new
             /\ new.step = "data" /\ new.job = proc[p].job /\ new.grant = proc[p].grant
             /\ new.calledOff = proc[p].calledOff
      BY <1>3, GoFacts DEF Steps
    <2>2. ProcSound(p)'
      BY <1>1, <1>f, <1>g, <1>3, <2>1 DEF ProcSound, Synced, Claimed, AutomatedSendAllowed, GrantCurrent
    <2>3. QED
      BY <1>1, <2>1, <2>2, GoSound DEF Claimed
  <1>4. QED
    BY <1>2, <1>3 DEF Recipients

LEMMA VerifySound ==
    ASSUME SendInv, NEW p \in Procs, Verify(p), UNCHANGED policy
    PROVE  SendInv'
  <1>1. UNCHANGED <<policy, mailbox, receipts, store, server>> /\ proc[p].step = "verify"
    BY DEF Verify, At
  <1>f. ProcSound(p) /\ proc[p].calledOff \in BOOLEAN
    BY ProcFacts
  <1>g. UNCHANGED <<policy, drafts, newest, trash, issued, receipt, markers, durable, outbox>>
    BY <1>1 DEF mailbox, receipts, store, server
  <1>2. CASE Exit(p)
    BY <1>1, <1>2, LeaveSound
  <1>3. CASE proc[p].job.action = "from_draft" /\ Go(p, "trash")
    <2>1. PICK new \in ProcStates :
             /\ proc' = [proc EXCEPT ![p] = new] /\ proc'[p] = new
             /\ new.step = "trash" /\ new.job = proc[p].job /\ new.grant = proc[p].grant
             /\ new.calledOff = proc[p].calledOff
      BY <1>3, GoFacts DEF Steps
    <2>2. ProcSound(p)'
      BY <1>1, <1>f, <1>g, <1>3, <2>1 DEF ProcSound, Synced, Claimed, AutomatedSendAllowed
    <2>3. QED
      BY <1>1, <2>1, <2>2, GoSound DEF Claimed
  <1>4. QED
    BY <1>2, <1>3 DEF Verify

(* A message that is accepted carries the receipt's binding, was not called  *)
(* off, and is the first under its attempt id.                               *)
LEMMA AcceptSound ==
    ASSUME SendInv, NEW p \in Procs, proc[p].step = "data", Accept(p),
           UNCHANGED <<policy, mailbox, receipts, store, sent>>
    PROVE  /\ OutboxSound'
           /\ outbox' \in Seq([binding : Bindings, calledOff : BOOLEAN]) /\ sent' \subseteq DOMAIN outbox'
           /\ outbox'[Len(outbox')].binding = proc[p].job /\ Len(outbox') \in 1..Len(outbox')
  <1> DEFINE n == Len(outbox)
  <1>1. outbox \in Seq([binding : Bindings, calledOff : BOOLEAN]) /\ n \in Nat
    BY DEF SendInv, SendTypeOK
  <1>2. /\ ProcSound(p) /\ proc[p].calledOff \in BOOLEAN
        /\ proc[p].job \in Bindings /\ proc[p].calledOff = FALSE
        /\ proc[p].grant \in 1..Len(issued) /\ issued[proc[p].grant] = proc[p].job
        /\ proc[p].job.attempt \in durable
        /\ \A i \in 1..n : outbox[i].binding.attempt # proc[p].job.attempt
    BY ProcFacts DEF ProcSound, Synced, Claimed
  <1>3. /\ outbox' \in Seq([binding : Bindings, calledOff : BOOLEAN])
        /\ Len(outbox') = n + 1 /\ DOMAIN outbox' = 1..(n + 1) /\ DOMAIN outbox = 1..n
        /\ \A i \in 1..n : outbox'[i] = outbox[i]
        /\ outbox'[n + 1].binding = proc[p].job /\ outbox'[n + 1].calledOff = FALSE
    BY <1>1, <1>2 DEF Accept
  <1> HIDE DEF n
  <1>4. 1..(n + 1) = (1..n) \cup {n + 1} /\ n + 1 \notin 1..n
    BY <1>1
  <1>5. OncePerAttempt /\ SentUnderAuthority
    BY DEF SendInv, OutboxSound
  <1>6. OncePerAttempt'
    <2> SUFFICES ASSUME NEW i \in (1..n) \cup {n + 1}, NEW j \in (1..n) \cup {n + 1}, i # j
                 PROVE  outbox'[i].binding.attempt # outbox'[j].binding.attempt
      BY <1>3, <1>4 DEF OncePerAttempt
    <2>1. \A k, l \in 1..n : k # l => outbox[k].binding.attempt # outbox[l].binding.attempt
      BY <1>3, <1>5 DEF OncePerAttempt
    <2>2. QED
      BY <1>2, <1>3, <1>4, <2>1
  <1>7. issued' = issued /\ removed' = removed /\ trash' = trash /\ durable' = durable
        /\ drafts' = drafts /\ newest' = newest /\ sent' = sent
    BY DEF mailbox, receipts, store
  <1>8. SentUnderAuthority'
    <2>1. DOMAIN issued = 1..Len(issued)
      BY DEF SendInv, SendTypeOK
    <2>2. \A i \in 1..n : outbox[i].binding \in {issued[k] : k \in DOMAIN issued} /\ ~outbox[i].calledOff
      BY <1>3, <1>5 DEF SentUnderAuthority
    <2>3. \A i \in 1..(n + 1) :
             outbox'[i].binding \in {issued[k] : k \in DOMAIN issued} /\ ~outbox'[i].calledOff
      BY <1>2, <1>3, <1>4, <2>1, <2>2
    <2>4. \A u \in removed : u \in trash /\ \E i \in 1..(n + 1) :
             outbox'[i].binding.action = "from_draft" /\ outbox'[i].binding.text = u
      BY <1>3, <1>4, <1>5 DEF SentUnderAuthority
    <2>5. QED
      BY <1>3, <1>7, <2>3, <2>4 DEF SentUnderAuthority
  <1>9. OutboxSound'
    <2>1. \A i \in 1..n : outbox[i].binding.attempt \in durable
      BY DEF SendInv, OutboxSound, n
    <2>2. \A i \in 1..(n + 1) : outbox'[i].binding.attempt \in durable
      BY <1>2, <1>3, <1>4, <2>1
    <2>3. QED
      BY <1>3, <1>6, <1>7, <1>8, <2>2 DEF SendInv, OutboxSound
  <1>10. sent \subseteq 1..n
    BY <1>3 DEF SendInv, SendTypeOK
  <1>11. QED
    BY <1>1, <1>3, <1>4, <1>7, <1>9, <1>10

LEMMA DataSound ==
    ASSUME SendInv, NEW p \in Procs, Data(p), UNCHANGED policy
    PROVE  SendInv'
  <1>1. UNCHANGED <<policy, mailbox, receipts, store, sent>> /\ proc[p].step = "data"
    BY DEF Data, At
  <1>f. ProcSound(p) /\ proc[p].calledOff \in BOOLEAN
    BY ProcFacts
  <1>g. UNCHANGED <<policy, drafts, newest, trash, issued, receipt, markers, durable>>
    BY <1>1 DEF mailbox, receipts, store
  <1>2. CASE Exit(p) /\ UNCHANGED outbox
    BY <1>1, <1>2, LeaveSound DEF server
  <1>3. CASE Accept(p) /\ (Go(p, "verify") \/ Exit(p))
    <2>1. /\ OutboxSound'
          /\ outbox' \in Seq([binding : Bindings, calledOff : BOOLEAN])
          /\ sent' \subseteq DOMAIN outbox'
          /\ outbox'[Len(outbox')].binding = proc[p].job /\ Len(outbox') \in 1..Len(outbox')
      BY <1>1, <1>3, AcceptSound
    <2>2. /\ UNCHANGED <<policy, newest, issued, receipt>>
          /\ markers \subseteq markers' /\ durable \subseteq durable'
          /\ trash \subseteq trash' /\ drafts' \subseteq drafts
      BY <1>g
    <2>3. (\A q \in Procs : ProcSound(q)') /\ Exclusive' /\ proc' \in [Procs -> ProcStates]
      <3>1. CASE Exit(p)
        BY <1>1, <1>3, <2>2, <3>1, ExitSound
      <3>2. CASE Go(p, "verify")
        <4>1. PICK new \in ProcStates :
                 /\ proc' = [proc EXCEPT ![p] = new] /\ proc'[p] = new
                 /\ new.step = "verify" /\ new.job = proc[p].job /\ new.grant = proc[p].grant
                 /\ new.calledOff = proc[p].calledOff
          BY <3>2, GoFacts DEF Steps
        <4>2. ProcSound(p)'
          BY <1>1, <1>f, <1>g, <2>1, <4>1 DEF ProcSound, Synced, Claimed, AutomatedSendAllowed
        <4>3. QED
          BY <1>1, <1>3, <2>2, <4>1, <4>2, MoveSound DEF Claimed
      <3>3. QED
        BY <1>3, <3>1, <3>2
    <2>4. SendTypeOK'
      BY <1>1, <2>1, <2>3 DEF SendInv, SendTypeOK, mailbox, receipts, store
    <2>5. QED
      BY <2>1, <2>3, <2>4 DEF SendInv
  <1>4. QED
    BY <1>2, <1>3 DEF Data

(* Taking the accepted version out of Drafts.  A draft that was edited on    *)
(* the way has another UID, and here is empty.                               *)
LEMMA RemoveSound ==
    ASSUME SendInv, NEW p \in Procs, proc[p].step \in {"trash", "copied"},
           NEW here, here = {proc[p].job.text} \cap drafts,
           drafts' \subseteq drafts, trash \subseteq trash', here \subseteq trash',
           removed' \in {removed, removed \cup here},
           UNCHANGED <<newest, receipts, store, server>>
    PROVE  OutboxSound'
  <1>1. ProcSound(p) /\ OutboxSound
    BY ProcFacts DEF SendInv
  <1>2. UNCHANGED <<newest, issued, receipt, durable, outbox>>
    BY DEF receipts, store, server
  <1>3. PICK i \in 1..Len(outbox) :
           outbox[i].binding.action = "from_draft" /\ outbox[i].binding.text = proc[p].job.text
    BY <1>1 DEF ProcSound
  <1>4. DOMAIN outbox = 1..Len(outbox)
    BY DEF SendInv, SendTypeOK
  <1>5. \A u \in here : u \in trash' /\ \E k \in DOMAIN outbox :
           outbox[k].binding.action = "from_draft" /\ outbox[k].binding.text = u
    BY <1>3, <1>4
  <1>6. SentUnderAuthority'
    BY <1>1, <1>2, <1>5 DEF OutboxSound, SentUnderAuthority
  <1>7. QED
    BY <1>1, <1>2, <1>6 DEF OutboxSound, OncePerAttempt

LEMMA TrashSound ==
    ASSUME SendInv, NEW p \in Procs, Trash(p), UNCHANGED policy
    PROVE  SendInv'
  <1> DEFINE here == {proc[p].job.text} \cap drafts
  <1>1. UNCHANGED <<policy, newest, receipts, store, server>> /\ proc[p].step = "trash"
    BY DEF Trash, At
  <1>f. ProcSound(p) /\ proc[p].calledOff \in BOOLEAN
    BY ProcFacts
  <1>g. UNCHANGED <<policy, newest, issued, receipt, markers, durable, outbox>>
    BY <1>1 DEF receipts, store, server
  <1>h. markers \subseteq markers' /\ durable \subseteq durable' /\ outbox' = outbox
        /\ UNCHANGED <<policy, newest, issued, receipt>>
    BY <1>g
  <1>2. CASE Exit(p) /\ UNCHANGED <<drafts, trash, removed>>
    BY <1>1, <1>2, LeaveSound DEF mailbox
  <1>3. CASE /\ drafts' = drafts \ here /\ trash' = trash \cup here
             /\ removed' = removed \cup here /\ Exit(p)
    <2>1. drafts' \subseteq drafts /\ trash \subseteq trash' /\ here \subseteq trash'
      BY <1>3
    <2>2. (\A q \in Procs : ProcSound(q)') /\ Exclusive' /\ proc' \in [Procs -> ProcStates]
      BY <1>3, <1>h, <2>1, ExitSound
    <2>3. OutboxSound'
      BY <1>1, <1>3, <2>1, RemoveSound
    <2>4. SendTypeOK'
      BY <1>1, <1>3, <2>2 DEF SendInv, SendTypeOK, receipts, store, server
    <2>5. QED
      BY <2>2, <2>3, <2>4 DEF SendInv
  <1>4. CASE trash' = trash \cup here /\ Go(p, "copied") /\ UNCHANGED <<drafts, removed>>
    <2>1. drafts' \subseteq drafts /\ trash \subseteq trash' /\ here \subseteq trash'
      BY <1>4
    <2>2. PICK new \in ProcStates :
             /\ proc' = [proc EXCEPT ![p] = new] /\ proc'[p] = new
             /\ new.step = "copied" /\ new.job = proc[p].job /\ new.grant = proc[p].grant
             /\ new.calledOff = proc[p].calledOff
      BY <1>4, GoFacts DEF Steps
    <2>3. ProcSound(p)'
      BY <1>1, <1>4, <1>f, <1>g, <2>2 DEF ProcSound, Synced, Claimed, AutomatedSendAllowed
    <2>4. (\A q \in Procs : ProcSound(q)') /\ Exclusive' /\ proc' \in [Procs -> ProcStates]
      BY <1>1, <1>h, <2>1, <2>2, <2>3, MoveSound DEF Claimed
    <2>5. OutboxSound'
      BY <1>1, <1>4, <2>1, RemoveSound
    <2>6. SendTypeOK'
      BY <1>1, <1>4, <2>4 DEF SendInv, SendTypeOK, receipts, store, server
    <2>7. QED
      BY <2>4, <2>5, <2>6 DEF SendInv
  <1>5. QED
    BY <1>2, <1>3, <1>4 DEF Trash

LEMMA ExpungeSound ==
    ASSUME SendInv, NEW p \in Procs, Expunge(p), UNCHANGED policy
    PROVE  SendInv'
  <1> DEFINE here == {proc[p].job.text} \cap drafts
  <1>1. /\ UNCHANGED <<policy, newest, trash, receipts, store, server>>
        /\ proc[p].step = "copied" /\ Exit(p)
    BY DEF Expunge, At
  <1>2. /\ drafts' \subseteq drafts /\ removed' \in {removed, removed \cup here}
        /\ trash \subseteq trash' /\ here \subseteq trash'
    BY <1>1, ProcFacts DEF Expunge, ProcSound
  <1>3. /\ markers \subseteq markers' /\ durable \subseteq durable' /\ outbox' = outbox
        /\ UNCHANGED <<policy, newest, issued, receipt>>
    BY <1>1 DEF receipts, store, server
  <1>4. (\A q \in Procs : ProcSound(q)') /\ Exclusive' /\ proc' \in [Procs -> ProcStates]
    BY <1>1, <1>2, <1>3, ExitSound
  <1>5. OutboxSound'
    BY <1>1, <1>2, RemoveSound
  <1>6. SendTypeOK'
    BY <1>1, <1>2, <1>4 DEF SendInv, SendTypeOK, receipts, store, server
  <1>7. QED
    BY <1>4, <1>5, <1>6 DEF SendInv

(* Calling off marks some invocations and changes nothing else of any. *)
LEMMA CallOffFacts ==
    ASSUME SendInv, NEW ps \in SUBSET Procs, CallOff(ps)
    PROVE  /\ proc' \in [Procs -> ProcStates] /\ Exclusive'
           /\ \A q \in Procs : /\ proc'[q].step = proc[q].step /\ proc'[q].job = proc[q].job
                               /\ proc'[q].grant = proc[q].grant
                               /\ proc'[q].calledOff = (q \in ps \/ proc[q].calledOff)
  <1>1. proc \in [Procs -> ProcStates] /\ Exclusive
    BY DEF SendInv, SendTypeOK
  <1>2. \A q \in Procs : proc'[q] = IF q \in ps THEN [proc[q] EXCEPT !.calledOff = TRUE] ELSE proc[q]
    BY DEF CallOff
  <1>3. ASSUME NEW q \in Procs
        PROVE  /\ proc'[q] \in ProcStates
               /\ proc'[q].step = proc[q].step /\ proc'[q].job = proc[q].job
               /\ proc'[q].grant = proc[q].grant
               /\ proc'[q].calledOff = (q \in ps \/ proc[q].calledOff)
    <2>1. proc[q] \in ProcStates
      BY <1>1
    <2>2. CASE q \in ps
      BY <1>2, <2>1, <2>2 DEF ProcStates
    <2>3. CASE q \notin ps
      BY <1>2, <2>1, <2>3 DEF ProcStates
    <2>4. QED
      BY <2>2, <2>3
  <1>4. proc' \in [Procs -> ProcStates]
    BY <1>3 DEF CallOff
  <1>5. QED
    BY <1>1, <1>3, <1>4 DEF Exclusive

(* Whatever takes a receipt out of the file while others rely on it marks    *)
(* them, and a receipt's number never comes back.                            *)
LEMMA ReceiptChangeSound ==
    ASSUME SendInv, CallOff(StillLooking), UNCHANGED <<policy, mailbox, store, server>>,
           issued' \in Seq(Bindings), Len(issued') <= MaxReceipts,
           Len(issued) <= Len(issued'), \A i \in 1..Len(issued) : issued'[i] = issued[i],
           receipt' \in {0} \cup (Len(issued) + 1..Len(issued')), receipt' # receipt
    PROVE  SendInv'
  <1>1. StillLooking \in SUBSET Procs
    BY DEF StillLooking
  <1>2. /\ proc' \in [Procs -> ProcStates] /\ Exclusive'
        /\ \A q \in Procs : /\ proc'[q].step = proc[q].step /\ proc'[q].job = proc[q].job
                            /\ proc'[q].grant = proc[q].grant
                            /\ proc'[q].calledOff = (q \in StillLooking \/ proc[q].calledOff)
    BY <1>1, CallOffFacts
  <1>3. UNCHANGED <<policy, drafts, newest, trash, removed, markers, durable, outbox, sent>>
    BY DEF mailbox, store, server
  <1>4. /\ Len(issued) \in Nat /\ Len(issued') \in Nat
        /\ DOMAIN issued = 1..Len(issued) /\ DOMAIN issued' = 1..Len(issued')
    BY DEF SendInv, SendTypeOK
  <1>5. ASSUME NEW q \in Procs PROVE ProcSound(q)'
    <2>1. ProcSound(q) /\ proc[q].calledOff \in BOOLEAN
      BY ProcFacts
    <2>2. proc[q].grant \in 1..Len(issued) => proc[q].grant # receipt'
      BY <1>4
    <2>3. proc'[q].calledOff =>
             \/ proc[q].step \in {"find", "authorize", "claim", "sync"} /\ ~AutomatedSendAllowed
             \/ proc[q].step \in {"claim", "sync", "rcpt"} /\ proc[q].grant # receipt'
      <3>1. CASE q \in StillLooking
        BY <2>1, <2>2, <3>1 DEF StillLooking, ProcSound
      <3>2. CASE q \notin StillLooking
        BY <1>2, <2>1, <2>2, <3>2 DEF ProcSound
      <3>3. QED
        BY <3>1, <3>2
    <2>4. proc[q].step \notin {"idle", "find", "authorize"} =>
             proc[q].grant \in 1..Len(issued') /\ issued'[proc[q].grant] = proc[q].job
      BY <1>4, <2>1 DEF ProcSound
    <2>5. QED
      BY <1>2, <1>3, <2>1, <2>3, <2>4 DEF ProcSound, Synced, Claimed, AutomatedSendAllowed
  <1>6. OutboxSound'
    <2>1. OutboxSound
      BY DEF SendInv
    <2>2. {issued[k] : k \in DOMAIN issued} \subseteq {issued'[k] : k \in DOMAIN issued'}
      BY <1>4
    <2>3. SentUnderAuthority'
      BY <1>3, <2>1, <2>2 DEF OutboxSound, SentUnderAuthority
    <2>4. QED
      BY <1>3, <2>1, <2>3 DEF OutboxSound, OncePerAttempt
  <1>7. SendTypeOK'
    <2>1. receipt' \in 0..Len(issued')
      BY <1>4
    <2>2. QED
      BY <1>2, <1>3, <2>1 DEF SendInv, SendTypeOK
  <1>8. QED
    BY <1>2, <1>5, <1>6, <1>7 DEF SendInv

LEMMA SignSound ==
    ASSUME SendInv, NEW b \in Bindings, Sign(b), UNCHANGED policy
    PROVE  SendInv'
  <1>1. /\ issued' = Append(issued, b) /\ receipt' = Len(issued') /\ Len(issued) < MaxReceipts
        /\ CallOff(StillLooking) /\ UNCHANGED <<policy, mailbox, store, server>>
    BY DEF Sign
  <1>2. /\ issued \in Seq(Bindings) /\ Len(issued) \in Nat /\ receipt \in 0..Len(issued)
        /\ MaxReceipts \in Nat
    BY MailSendAssumption DEF SendInv, SendTypeOK
  <1>3. /\ issued' \in Seq(Bindings) /\ Len(issued') = Len(issued) + 1
        /\ \A i \in 1..Len(issued) : issued'[i] = issued[i]
    BY <1>1, <1>2
  <1>4. QED
    BY <1>1, <1>2, <1>3, ReceiptChangeSound

LEMMA WithdrawSound ==
    ASSUME SendInv, Withdraw, UNCHANGED policy
    PROVE  SendInv'
  <1>1. /\ issued' = issued /\ receipt' = 0 /\ receipt # 0
        /\ CallOff(StillLooking) /\ UNCHANGED <<policy, mailbox, store, server>>
    BY DEF Withdraw
  <1>2. issued \in Seq(Bindings) /\ Len(issued) \in Nat /\ Len(issued) <= MaxReceipts
    BY DEF SendInv, SendTypeOK
  <1>3. QED
    BY <1>1, <1>2, ReceiptChangeSound

(* The new version has a UID no invocation can have. *)
LEMMA EditDraftSound ==
    ASSUME SendInv, NEW u \in drafts, EditDraft(u), UNCHANGED policy
    PROVE  SendInv'
  <1>1. /\ newest < MaxText /\ newest' = newest + 1
        /\ drafts' = (drafts \ {u}) \cup {newest'}
        /\ UNCHANGED <<trash, removed, receipts, store, proc, server>>
    BY DEF EditDraft
  <1>2. UNCHANGED <<policy, trash, removed, issued, receipt, markers, durable, proc, outbox, sent>>
    BY <1>1 DEF receipts, store, server
  <1>3. newest \in Nat /\ newest' \in Texts /\ newest < newest'
    BY <1>1, MailSendAssumption DEF SendInv, SendTypeOK, Texts
  <1>4. ASSUME NEW q \in Procs PROVE ProcSound(q)'
    <2>1. ProcSound(q)
      BY DEF SendInv
    <2>2. proc[q].step \notin {"idle", "find"} =>
             proc[q].job \in Bindings /\ proc[q].job.text <= newest /\ proc[q].job.text \in Nat
      BY <2>1, MailSendAssumption DEF ProcSound, Bindings, Texts
    <2>3. proc[q].step \notin {"idle", "find"} =>
             proc[q].job.text <= newest' /\ (proc[q].job.text \in drafts' => proc[q].job.text \in drafts)
      BY <1>1, <1>3, <2>2
    <2>4. QED
      BY <1>2, <2>1, <2>3 DEF ProcSound, Synced, Claimed, AutomatedSendAllowed
  <1>5. OutboxSound'
    <2>1. \A v \in drafts : v <= newest /\ v \in Nat
      BY MailSendAssumption DEF SendInv, OutboxSound, SendTypeOK, Texts
    <2>2. \A v \in drafts' : v <= newest'
      BY <1>1, <1>3, <2>1
    <2>3. QED
      BY <1>2, <2>2 DEF SendInv, OutboxSound, OncePerAttempt, SentUnderAuthority
  <1>6. SendTypeOK'
    BY <1>1, <1>2, <1>3 DEF SendInv, SendTypeOK
  <1>7. Exclusive'
    BY <1>2 DEF SendInv, Exclusive
  <1>8. QED
    BY <1>4, <1>5, <1>6, <1>7 DEF SendInv

LEMMA FailureSound ==
    ASSUME SendInv, Failures, UNCHANGED policy
    PROVE  SendInv'
  <1>1. ASSUME NEW i \in DOMAIN outbox, SentAppears(i) PROVE SendInv'
    <2>1. UNCHANGED <<policy, drafts, newest, trash, removed, issued, receipt, markers, durable,
                      proc, outbox>> /\ sent' = sent \cup {i}
      BY <1>1 DEF SentAppears, mailbox, receipts, store
    <2>2. \A q \in Procs : ProcSound(q)'
      BY <2>1 DEF SendInv, ProcSound, Synced, Claimed, AutomatedSendAllowed
    <2>3. Exclusive' /\ OutboxSound' /\ SendTypeOK'
      BY <2>1 DEF SendInv, Exclusive, OutboxSound, OncePerAttempt, SentUnderAuthority, SendTypeOK
    <2>4. QED
      BY <2>2, <2>3 DEF SendInv
  <1>2. ASSUME NEW p \in Procs, Kill(p) PROVE SendInv'
    BY <1>2, LeaveSound DEF Kill
  <1>3. ASSUME PowerFailure PROVE SendInv'
    <2>1. /\ \A p \in Procs : proc'[p] = Idle
          /\ proc' \in [Procs -> ProcStates] /\ durable \subseteq markers' /\ markers' \subseteq markers
          /\ UNCHANGED <<policy, mailbox, receipts, durable, server>>
      BY <1>3, IdleTyped DEF PowerFailure
    <2>2. (\A p \in Procs : ProcSound(p)') /\ Exclusive'
      BY <2>1, IdleTyped DEF ProcSound, Exclusive, Claimed, Synced
    <2>3. OutboxSound'
      BY <2>1, OutboxKeeps DEF mailbox, receipts, server
    <2>4. SendTypeOK'
      BY <2>1 DEF SendInv, SendTypeOK, mailbox, receipts, server
    <2>5. QED
      BY <2>2, <2>3, <2>4 DEF SendInv
  <1>4. QED
    BY <1>1, <1>2, <1>3 DEF Failures

LEMMA StopSendingSound ==
    ASSUME SendInv, StopSending
    PROVE  SendInv'
  <1> DEFINE ps == {p \in Procs : proc[p].step \in {"find", "authorize", "claim", "sync"}}
  <1>1. UNCHANGED <<mailbox, receipts, store, server>> /\ CallOff(ps)
    BY DEF StopSending
  <1>2. ~AutomatedSendAllowed' /\ policy' \in PolicyFiles
    BY DEF StopSending, PolicyOff, AutomatedSendAllowed, PolicyFiles
  <1>3. /\ proc' \in [Procs -> ProcStates] /\ Exclusive'
        /\ \A q \in Procs : /\ proc'[q].step = proc[q].step /\ proc'[q].job = proc[q].job
                            /\ proc'[q].grant = proc[q].grant
                            /\ proc'[q].calledOff = (q \in ps \/ proc[q].calledOff)
    BY <1>1, CallOffFacts
  <1>4. UNCHANGED <<drafts, newest, trash, removed, issued, receipt, markers, durable, outbox, sent>>
    BY <1>1 DEF mailbox, receipts, store, server
  <1>5. ASSUME NEW q \in Procs PROVE ProcSound(q)'
    <2>1. ProcSound(q) /\ proc[q].calledOff \in BOOLEAN
      BY ProcFacts
    <2>2. QED
      BY <1>2, <1>3, <1>4, <2>1 DEF ProcSound, Synced, Claimed
  <1>6. OutboxSound' /\ SendTypeOK'
    BY <1>2, <1>3, <1>4 DEF SendInv, OutboxSound, OncePerAttempt, SentUnderAuthority, SendTypeOK
  <1>7. QED
    BY <1>3, <1>5, <1>6 DEF SendInv

(* Every step of the mail sender keeps its invariant. *)
LEMMA SendPreserved == SendInv /\ (SendNext \/ UNCHANGED <<policy, sendVars>>) => SendInv'
  <1>1. SendInv /\ UNCHANGED <<policy, sendVars>> => SendInv'
    <2> SUFFICES ASSUME SendInv, UNCHANGED <<policy, sendVars>> PROVE SendInv'
      OBVIOUS
    <2>1. UNCHANGED <<policy, drafts, newest, trash, removed, issued, receipt, markers, durable,
                      proc, outbox, sent>>
      BY DEF sendVars, mailbox, receipts, store, server
    <2>2. \A q \in Procs : ProcSound(q)'
      BY <2>1 DEF SendInv, ProcSound, Synced, Claimed, AutomatedSendAllowed
    <2>3. Exclusive' /\ OutboxSound' /\ SendTypeOK'
      BY <2>1 DEF SendInv, Exclusive, OutboxSound, OncePerAttempt, SentUnderAuthority, SendTypeOK
    <2>4. QED
      BY <2>2, <2>3 DEF SendInv
  <1>2. ASSUME SendInv, NEW p \in Procs, SenderStep(p), UNCHANGED policy PROVE SendInv'
    BY <1>2, FindSound, AuthorizeSound, ClaimSound, SyncMarkerSound, RecipientsSound, DataSound,
       VerifySound, TrashSound, ExpungeSound DEF SenderStep
  <1>3. ASSUME SendInv, Operator, UNCHANGED policy PROVE SendInv'
    BY <1>3, InvokeSound, SignSound, WithdrawSound, EditDraftSound DEF Operator
  <1>4. QED
    BY <1>1, <1>2, <1>3, FailureSound, StopSendingSound DEF SendNext

(* Closing the policy changes nothing else when the batch sender is driven.  *)
LEMMA PolicyOffSound == SendInv /\ PolicyOff /\ UNCHANGED sendVars => SendInv'
  <1> SUFFICES ASSUME SendInv, PolicyOff, UNCHANGED sendVars PROVE SendInv'
    OBVIOUS
  <1>1. UNCHANGED <<drafts, newest, trash, removed, issued, receipt, markers, durable,
                    proc, outbox, sent>>
    BY DEF sendVars, mailbox, receipts, store, server
  <1>2. ~AutomatedSendAllowed' /\ policy' \in PolicyFiles
    BY DEF PolicyOff, AutomatedSendAllowed, PolicyFiles
  <1>3. \A q \in Procs : ProcSound(q)'
    BY <1>1, <1>2 DEF SendInv, ProcSound, Synced, Claimed
  <1>4. Exclusive' /\ OutboxSound' /\ SendTypeOK'
    BY <1>1, <1>2 DEF SendInv, Exclusive, OutboxSound, OncePerAttempt, SentUnderAuthority, SendTypeOK
  <1>5. QED
    BY <1>3, <1>4 DEF SendInv

-----------------------------------------------------------------------------
(* The batch sender.  While no fault has hit a reply, at most one run is on, *)
(* and what it has sent is in the file, or the run will put it there.        *)

On(r) == run[r].step # "off"

InHand(r, k) == run[r].step = "accepted" /\ Replies[run[r].next] = k

RunSound(r) ==
    run[r].step \in {"accepted", "truncated"} =>
        run[r].next <= Len(Replies) /\ run[r].count < MaxSends

Alone == Keys \ excused # {} => \A q, r \in Runs : On(q) /\ On(r) => q = r

Remembered ==
    \A k \in Keys \ excused : delivered[k] > 0 =>
        /\ delivered[k] = 1
        /\ \A r \in Runs : On(r) => k \in run[r].known \/ InHand(r, k)
        /\ \/ \E r \in Runs : InHand(r, k) \/ run[r].step = "truncated"
           \/ file # Torn /\ k \in file

DraftsInv == DraftsTypeOK /\ (\A r \in Runs : RunSound(r)) /\ Alone /\ Remembered
(* The replies of a batch and its bounds are what they seem. *)
LEMMA RepliesFacts ==
    /\ Len(Replies) \in Nat /\ MaxSends \in Nat /\ MaxFaults \in Nat
    /\ \A i \in 1..Len(Replies) : Replies[i] \in Keys
    /\ \A keys \in SUBSET Keys : Torn # keys
BY SendDraftsAssumption

(* What the invariant says of one run. *)
LEMMA RunFacts ==
    ASSUME DraftsInv, NEW r \in Runs
    PROVE  /\ run[r] \in RunStates /\ RunSound(r)
           /\ run[r].next \in 1..Len(Replies) + 1 /\ run[r].count \in 0..MaxSends
           /\ run[r].known \in SUBSET Keys
           /\ run[r].step \in {"off", "loop", "accepted", "truncated"}
BY DEF DraftsInv, DraftsTypeOK, RunStates

LEMMA DraftsInitially == DraftsInit => DraftsInv
  <1> SUFFICES ASSUME DraftsInit PROVE DraftsInv
    OBVIOUS
  <1>1. Off \in RunStates /\ Off.step = "off"
    BY RepliesFacts DEF Off, RunStates
  <1>2. \A r \in Runs : run[r] = Off
    BY DEF DraftsInit
  <1>3. DraftsTypeOK
    BY <1>1, RepliesFacts DEF DraftsInit, DraftsTypeOK
  <1>4. (\A r \in Runs : RunSound(r)) /\ Alone
    BY <1>1, <1>2 DEF RunSound, Alone, On
  <1>5. Remembered
    BY DEF DraftsInit, Remembered
  <1>6. QED
    BY <1>3, <1>4, <1>5 DEF DraftsInv

(* A run that steps on within its rows or ends, with nothing delivered and   *)
(* nothing written: it keeps what it knows.                                  *)
LEMMA RunMovesSound ==
    ASSUME DraftsInv, NEW r \in Runs, NEW new \in RunStates, run' = [run EXCEPT ![r] = new],
           run[r].step = "loop", new.step \in {"loop", "off"}, new.known = run[r].known \/ new.step = "off",
           UNCHANGED <<file, delivered, excused, faults>>
    PROVE  DraftsInv'
  <1>1. /\ run'[r] = new /\ \A q \in Runs \ {r} : run'[q] = run[q]
        /\ run' \in [Runs -> RunStates]
    BY DEF DraftsInv, DraftsTypeOK
  <1>2. DraftsTypeOK' /\ (\A q \in Runs : RunSound(q)')
    BY <1>1 DEF DraftsInv, DraftsTypeOK, RunSound
  <1>3. \A q \in Runs : On(q)' => On(q)
    BY <1>1 DEF On
  <1>4. Alone'
    BY <1>3 DEF DraftsInv, Alone
  <1>5. \A q \in Runs, k \in Keys : /\ InHand(q, k) => InHand(q, k)' /\ q # r
                                    /\ run[q].step = "truncated" => run'[q].step = "truncated"
                                    /\ On(q)' => run'[q].known = run[q].known
    BY <1>1 DEF InHand, On
  <1>6. Remembered'
    BY <1>3, <1>5 DEF DraftsInv, Remembered
  <1>7. QED
    BY <1>2, <1>4, <1>6 DEF DraftsInv

(* Passing over a reply leaves the run in its loop. *)
LEMMA PassOnFacts ==
    ASSUME DraftsInv, NEW r \in Runs, run[r].step = "loop", run[r].next <= Len(Replies), PassOn(r)
    PROVE  \E new \in RunStates : /\ run' = [run EXCEPT ![r] = new] /\ new.step = "loop"
                                  /\ new.known = run[r].known
  <1> DEFINE new == [run[r] EXCEPT !.next = @ + 1]
  <1>1. run[r] \in RunStates /\ run[r].next \in 1..Len(Replies) + 1 /\ run \in [Runs -> RunStates]
    BY RunFacts DEF DraftsInv, DraftsTypeOK
  <1>2. run[r].next + 1 \in 1..Len(Replies) + 1
    BY <1>1, RepliesFacts
  <1>3. new \in RunStates /\ new.step = "loop" /\ new.known = run[r].known
    BY <1>1, <1>2 DEF RunStates
  <1>4. run' = [run EXCEPT ![r] = new]
    BY <1>1 DEF PassOn
  <1> HIDE DEF new
  <1>5. QED
    BY <1>3, <1>4

(* Beginning beside another run hits every reply; beginning alone, a run     *)
(* reads a file that nobody is rewriting.                                    *)
LEMMA BeginSound ==
    ASSUME DraftsInv, NEW r \in Runs, Begin(r)
    PROVE  DraftsInv'
  <1> DEFINE new == [Off EXCEPT !.step = "loop", !.known = Load]
  <1>1. Load \in SUBSET Keys
    BY DEF Load, DraftsInv, DraftsTypeOK
  <1>2. new \in RunStates /\ new.step = "loop" /\ new.known = Load
    <2>1. Off \in RunStates
      BY RepliesFacts DEF Off, RunStates
    <2>2. QED
      BY <1>1, <2>1 DEF RunStates
  <1>3. /\ run' = [run EXCEPT ![r] = new] /\ run[r].step = "off"
        /\ UNCHANGED <<file, delivered>>
    BY DEF Begin
  <1> HIDE DEF new
  <1>4. /\ run'[r] = new /\ \A q \in Runs \ {r} : run'[q] = run[q]
        /\ run' \in [Runs -> RunStates]
    BY <1>2, <1>3 DEF DraftsInv, DraftsTypeOK
  <1>5. \A q \in Runs : RunSound(q)'
    BY <1>2, <1>4 DEF DraftsInv, RunSound
  <1>6. CASE (\A q \in Runs : run[q].step = "off") /\ UNCHANGED <<excused, faults>>
    <2>1. DraftsTypeOK'
      BY <1>3, <1>4, <1>6 DEF DraftsInv, DraftsTypeOK
    <2>2. Alone'
      BY <1>4, <1>6 DEF Alone, On
    <2>3. Remembered'
      <3> SUFFICES ASSUME NEW k \in Keys \ excused, delivered[k] > 0
                   PROVE  /\ delivered[k] = 1 /\ file # Torn /\ k \in file
                          /\ \A q \in Runs : On(q)' => k \in run'[q].known
        BY <1>3, <1>6 DEF Remembered
      <3>1. delivered[k] = 1 /\ file # Torn /\ k \in file
        BY <1>6 DEF DraftsInv, Remembered, InHand
      <3>2. k \in Load
        BY <3>1 DEF Load
      <3>3. QED
        BY <1>2, <1>4, <1>6, <3>1, <3>2 DEF On
    <2>4. QED
      BY <1>5, <2>1, <2>2, <2>3 DEF DraftsInv
  <1>7. CASE faults < MaxFaults /\ faults' = faults + 1 /\ excused' = Keys
    <2>1. DraftsTypeOK'
      BY <1>3, <1>4, <1>7, RepliesFacts DEF DraftsInv, DraftsTypeOK
    <2>2. Alone' /\ Remembered'
      BY <1>7 DEF Alone, Remembered
    <2>3. QED
      BY <1>5, <2>1, <2>2 DEF DraftsInv
  <1>8. QED
    BY <1>6, <1>7 DEF Begin

LEMMA AcceptedSound ==
    ASSUME DraftsInv, NEW r \in Runs, NEW k \in Keys, Accepted(r, k)
    PROVE  DraftsInv'
  <1> DEFINE new == [run[r] EXCEPT !.step = "accepted"]
  <1>1. /\ run[r].step = "loop" /\ run[r].next <= Len(Replies) /\ Replies[run[r].next] = k
        /\ k \notin run[r].known /\ run[r].count < MaxSends
        /\ run' = [run EXCEPT ![r].step = "accepted"]
        /\ delivered' = [delivered EXCEPT ![k] = IF @ = 2 THEN 2 ELSE @ + 1]
        /\ UNCHANGED <<file, excused, faults>>
    BY DEF Accepted, Offers, Deliver
  <1>2. run[r] \in RunStates /\ run \in [Runs -> RunStates] /\ delivered \in [Keys -> 0..2]
    BY RunFacts DEF DraftsInv, DraftsTypeOK
  <1>3. /\ new \in RunStates /\ new.step = "accepted" /\ new.known = run[r].known
        /\ new.next = run[r].next /\ new.count = run[r].count
    BY <1>2 DEF RunStates
  <1>4. run' = [run EXCEPT ![r] = new] /\ run' \in [Runs -> RunStates]
    BY <1>1, <1>2, <1>3
  <1> HIDE DEF new
  <1>5. run'[r] = new /\ \A q \in Runs \ {r} : run'[q] = run[q]
    BY <1>2, <1>4
  <1>6. /\ delivered' \in [Keys -> 0..2] /\ \A l \in Keys \ {k} : delivered'[l] = delivered[l]
        /\ delivered[k] = 0 => delivered'[k] = 1
    BY <1>1, <1>2
  <1>7. DraftsTypeOK' /\ (\A q \in Runs : RunSound(q)')
    BY <1>1, <1>3, <1>4, <1>5, <1>6 DEF DraftsInv, DraftsTypeOK, RunSound
  <1>8. \A q \in Runs : On(q)' => On(q)
    BY <1>1, <1>5 DEF On
  <1>9. Alone'
    BY <1>1, <1>8 DEF DraftsInv, Alone
  <1>10. Remembered'
    <2> SUFFICES ASSUME NEW l \in Keys \ excused, delivered'[l] > 0
                 PROVE  /\ delivered'[l] = 1
                        /\ \A q \in Runs : On(q)' => l \in run'[q].known \/ InHand(q, l)'
                        /\ \/ \E q \in Runs : InHand(q, l)' \/ run'[q].step = "truncated"
                           \/ file # Torn /\ l \in file
      BY <1>1 DEF Remembered
    <2>1. On(r) /\ \A q \in Runs : On(q) => q = r
      BY <1>1 DEF DraftsInv, Alone, On
    <2>2. InHand(r, k)' /\ ~InHand(r, l)
      BY <1>1, <1>3, <1>5 DEF InHand
    <2>3. CASE l = k
      <3>1. delivered[k] = 0
        BY <1>1, <1>2, <2>1, <2>2, <2>3 DEF DraftsInv, Remembered
      <3>2. QED
        BY <1>6, <1>8, <2>1, <2>2, <2>3, <3>1
    <2>4. CASE l # k
      <3>1. /\ delivered[l] = 1 /\ l \in run[r].known
            /\ \/ \E q \in Runs : InHand(q, l) \/ run[q].step = "truncated"
               \/ file # Torn /\ l \in file
        BY <1>6, <2>1, <2>2, <2>4 DEF DraftsInv, Remembered
      <3>2. file # Torn /\ l \in file
        BY <1>1, <2>1, <3>1 DEF InHand, On
      <3>3. QED
        BY <1>3, <1>5, <1>6, <1>8, <2>1, <2>4, <3>1, <3>2
    <2>5. QED
      BY <2>3, <2>4
  <1>11. QED
    BY <1>7, <1>9, <1>10 DEF DraftsInv

LEMMA AnswerLostSound ==
    ASSUME DraftsInv, NEW r \in Runs, NEW k \in Keys, AnswerLost(r, k)
    PROVE  DraftsInv'
  <1>1. /\ run[r].step = "loop" /\ run[r].next <= Len(Replies) /\ PassOn(r)
        /\ faults < MaxFaults /\ faults' = faults + 1 /\ excused' = excused \cup {k}
        /\ delivered' = [delivered EXCEPT ![k] = IF @ = 2 THEN 2 ELSE @ + 1]
        /\ file' = file
    BY DEF AnswerLost, Offers, Deliver
  <1>2. PICK new \in RunStates : /\ run' = [run EXCEPT ![r] = new] /\ new.step = "loop"
                                 /\ new.known = run[r].known
    BY <1>1, PassOnFacts
  <1>3. delivered \in [Keys -> 0..2] /\ run \in [Runs -> RunStates]
    BY DEF DraftsInv, DraftsTypeOK
  <1>4. delivered' \in [Keys -> 0..2] /\ \A l \in Keys \ {k} : delivered'[l] = delivered[l]
    BY <1>1, <1>3
  <1>5. run'[r] = new /\ (\A q \in Runs \ {r} : run'[q] = run[q]) /\ run' \in [Runs -> RunStates]
    BY <1>2, <1>3
  <1>6. DraftsTypeOK' /\ (\A q \in Runs : RunSound(q)')
    BY <1>1, <1>2, <1>4, <1>5, RepliesFacts DEF DraftsInv, DraftsTypeOK, RunSound
  <1>7. \A q \in Runs : On(q)' <=> On(q)
    BY <1>1, <1>2, <1>5 DEF On
  <1>8. Alone'
    BY <1>1, <1>7 DEF DraftsInv, Alone
  <1>9. \A q \in Runs, l \in Keys :
           /\ InHand(q, l) => InHand(q, l)'
           /\ run[q].step = "truncated" => run'[q].step = "truncated"
           /\ run'[q].known = run[q].known
    BY <1>1, <1>2, <1>5 DEF InHand
  <1>10. Remembered'
    BY <1>1, <1>4, <1>7, <1>9 DEF DraftsInv, Remembered
  <1>11. QED
    BY <1>6, <1>8, <1>10 DEF DraftsInv

LEMMA TruncateSound ==
    ASSUME DraftsInv, NEW r \in Runs, Truncate(r)
    PROVE  DraftsInv'
  <1> DEFINE k == Replies[run[r].next]
             new == [run[r] EXCEPT !.step = "truncated", !.known = @ \cup {k}]
  <1>1. /\ run[r].step = "accepted" /\ file' = Torn /\ UNCHANGED <<delivered, excused, faults>>
        /\ run' = [run EXCEPT ![r] = new]
    BY DEF Truncate, DraftsInv, DraftsTypeOK
  <1>2. /\ run[r] \in RunStates /\ run \in [Runs -> RunStates]
        /\ run[r].next <= Len(Replies) /\ run[r].count < MaxSends /\ k \in Keys
    BY <1>1, RunFacts, RepliesFacts DEF DraftsInv, DraftsTypeOK, RunSound
  <1>3. /\ new \in RunStates /\ new.step = "truncated" /\ new.known = run[r].known \cup {k}
        /\ new.next = run[r].next /\ new.count = run[r].count
    BY <1>2 DEF RunStates
  <1> HIDE DEF new
  <1>4. run'[r] = new /\ (\A q \in Runs \ {r} : run'[q] = run[q]) /\ run' \in [Runs -> RunStates]
    BY <1>1, <1>2, <1>3
  <1>5. DraftsTypeOK' /\ (\A q \in Runs : RunSound(q)')
    BY <1>1, <1>2, <1>3, <1>4 DEF DraftsInv, DraftsTypeOK, RunSound
  <1>6. \A q \in Runs : On(q)' <=> On(q)
    BY <1>1, <1>3, <1>4 DEF On
  <1>7. Alone'
    BY <1>1, <1>6 DEF DraftsInv, Alone
  <1>8. \A l \in Keys : InHand(r, l) => l = k
    BY DEF InHand
  <1>9. \A q \in Runs, l \in Keys : On(q)' /\ (l \in run[q].known \/ InHand(q, l)) =>
           l \in run'[q].known \/ InHand(q, l)'
    <2>1. ASSUME NEW q \in Runs, NEW l \in Keys, l \in run[q].known \/ InHand(q, l)
          PROVE  l \in run'[q].known \/ InHand(q, l)'
      <3>1. CASE q = r
        BY <1>3, <1>4, <1>8, <2>1, <3>1
      <3>2. CASE q # r
        BY <1>4, <2>1, <3>2 DEF InHand
      <3>3. QED
        BY <3>1, <3>2
    <2>2. QED
      BY <2>1
  <1>10. Remembered'
    BY <1>1, <1>3, <1>4, <1>6, <1>9 DEF DraftsInv, Remembered
  <1>11. QED
    BY <1>5, <1>7, <1>10 DEF DraftsInv

(* The rewritten file holds all that the run knows, and it knows all that    *)
(* was delivered, since it is the only one on.                               *)
LEMMA WriteSound ==
    ASSUME DraftsInv, NEW r \in Runs, Write(r)
    PROVE  DraftsInv'
  <1> DEFINE new == Saved(r)
  <1>1. /\ run[r].step = "truncated" /\ file' = run[r].known
        /\ UNCHANGED <<delivered, excused, faults>> /\ run' = [run EXCEPT ![r] = new]
    BY DEF Write
  <1>2. /\ run[r] \in RunStates /\ run \in [Runs -> RunStates] /\ run[r].known \in SUBSET Keys
        /\ run[r].next \in 1..Len(Replies) + 1 /\ run[r].next <= Len(Replies)
        /\ run[r].count \in 0..MaxSends /\ run[r].count < MaxSends
    BY <1>1, RunFacts DEF DraftsInv, DraftsTypeOK, RunSound
  <1>3. run[r].next + 1 \in 1..Len(Replies) + 1 /\ run[r].count + 1 \in 0..MaxSends
    BY <1>2, RepliesFacts
  <1>4. new \in RunStates /\ new.step = "loop" /\ new.known = run[r].known
    BY <1>2, <1>3 DEF RunStates, Saved
  <1> HIDE DEF new
  <1>5. run'[r] = new /\ (\A q \in Runs \ {r} : run'[q] = run[q]) /\ run' \in [Runs -> RunStates]
    BY <1>1, <1>2, <1>4
  <1>6. DraftsTypeOK' /\ (\A q \in Runs : RunSound(q)')
    BY <1>1, <1>2, <1>4, <1>5 DEF DraftsInv, DraftsTypeOK, RunSound
  <1>7. \A q \in Runs : On(q)' <=> On(q)
    BY <1>1, <1>4, <1>5 DEF On
  <1>8. Alone'
    BY <1>1, <1>7 DEF DraftsInv, Alone
  <1>9. Remembered'
    <2> SUFFICES ASSUME NEW l \in Keys \ excused, delivered[l] > 0
                 PROVE  /\ delivered[l] = 1 /\ l \in run[r].known
                        /\ \A q \in Runs : On(q)' => q = r
      BY <1>1, <1>2, <1>4, <1>5, RepliesFacts DEF Remembered
    <2>1. On(r) /\ \A q \in Runs : On(q) => q = r
      BY <1>1 DEF DraftsInv, Alone, On
    <2>2. ~InHand(r, l)
      BY <1>1 DEF InHand
    <2>3. QED
      BY <1>7, <2>1, <2>2 DEF DraftsInv, Remembered
  <1>10. QED
    BY <1>6, <1>8, <1>9 DEF DraftsInv

LEMMA CrashSound ==
    ASSUME DraftsInv, NEW r \in Runs, Crash(r)
    PROVE  DraftsInv'
  <1>1. /\ run[r].step # "off" /\ faults < MaxFaults /\ faults' = faults + 1
        /\ run' = [run EXCEPT ![r] = Off] /\ UNCHANGED <<file, delivered>>
    BY DEF Crash
  <1>2. Off \in RunStates /\ Off.step = "off"
    BY RepliesFacts DEF Off, RunStates
  <1>3. /\ run'[r] = Off /\ (\A q \in Runs \ {r} : run'[q] = run[q])
        /\ run' \in [Runs -> RunStates]
    BY <1>1, <1>2 DEF DraftsInv, DraftsTypeOK
  <1>4. /\ excused \subseteq excused' /\ excused' \subseteq Keys
        /\ run[r].step = "accepted" => Replies[run[r].next] \in excused'
        /\ run[r].step = "truncated" => excused' = Keys
    <2>1. excused \subseteq Keys
      BY DEF DraftsInv, DraftsTypeOK
    <2>2. run[r].step = "accepted" => Replies[run[r].next] \in Keys
      BY RunFacts, RepliesFacts DEF RunSound
    <2>3. CASE run[r].step = "accepted"
      BY <2>1, <2>2, <2>3 DEF Crash
    <2>4. CASE run[r].step = "truncated"
      BY <2>1, <2>4 DEF Crash
    <2>5. CASE run[r].step \notin {"accepted", "truncated"}
      BY <2>1, <2>5 DEF Crash
    <2>6. QED
      BY <2>3, <2>4, <2>5
  <1>5. DraftsTypeOK' /\ (\A q \in Runs : RunSound(q)')
    BY <1>1, <1>2, <1>3, <1>4, RepliesFacts DEF DraftsInv, DraftsTypeOK, RunSound
  <1>6. \A q \in Runs : On(q)' => On(q) /\ q # r
    BY <1>2, <1>3 DEF On
  <1>7. Alone'
    BY <1>4, <1>6 DEF DraftsInv, Alone
  <1>8. Remembered'
    <2> SUFFICES ASSUME NEW l \in Keys \ excused', delivered[l] > 0
                 PROVE  /\ delivered[l] = 1
                        /\ \A q \in Runs : On(q)' => l \in run'[q].known \/ InHand(q, l)'
                        /\ \/ \E q \in Runs : InHand(q, l)' \/ run'[q].step = "truncated"
                           \/ file # Torn /\ l \in file
      BY <1>1 DEF Remembered
    <2>1. ~InHand(r, l) /\ run[r].step # "truncated"
      BY <1>4 DEF InHand
    <2>2. /\ delivered[l] = 1
          /\ \A q \in Runs : On(q) => l \in run[q].known \/ InHand(q, l)
          /\ \/ \E q \in Runs : InHand(q, l) \/ run[q].step = "truncated"
             \/ file # Torn /\ l \in file
      BY <1>4 DEF DraftsInv, Remembered
    <2>3. \A q \in Runs \ {r} : InHand(q, l)' <=> InHand(q, l)
      BY <1>3 DEF InHand
    <2>4. QED
      BY <1>3, <1>6, <2>1, <2>2, <2>3
  <1>9. QED
    BY <1>5, <1>7, <1>8 DEF DraftsInv

LEMMA DraftsPreserved ==
    DraftsInv /\ (DraftsNext \/ UNCHANGED draftsVars) => DraftsInv'
  <1>1. DraftsInv /\ UNCHANGED draftsVars => DraftsInv'
    BY DEF draftsVars, DraftsInv, DraftsTypeOK, RunSound, Alone, On, Remembered, InHand
  <1>2. ASSUME DraftsInv, NEW r \in Runs, AlreadySent(r) PROVE DraftsInv'
    <2>1. PICK new \in RunStates : /\ run' = [run EXCEPT ![r] = new] /\ new.step = "loop"
                                   /\ new.known = run[r].known
      BY <1>2, PassOnFacts DEF AlreadySent
    <2>2. QED
      BY <1>2, <2>1, RunMovesSound DEF AlreadySent
  <1>3. ASSUME DraftsInv, NEW r \in Runs, NEW k \in Keys, Refused(r, k) PROVE DraftsInv'
    <2>1. PICK new \in RunStates : /\ run' = [run EXCEPT ![r] = new] /\ new.step = "loop"
                                   /\ new.known = run[r].known
      BY <1>3, PassOnFacts DEF Refused, Offers
    <2>2. QED
      BY <1>3, <2>1, RunMovesSound DEF Refused, Offers
  <1>4. ASSUME DraftsInv, NEW r \in Runs, End(r) PROVE DraftsInv'
    <2>1. Off \in RunStates /\ Off.step = "off"
      BY RepliesFacts DEF Off, RunStates
    <2>2. QED
      BY <1>4, <2>1, RunMovesSound DEF End
  <1>5. ASSUME DraftsInv, NEW r \in Runs, BatchStep(r) PROVE DraftsInv'
    BY <1>2, <1>3, <1>4, <1>5, TruncateSound, WriteSound, AcceptedSound DEF BatchStep
  <1>6. QED
    BY <1>1, <1>5, BeginSound, CrashSound, AnswerLostSound DEF DraftsNext, draftsVars

-----------------------------------------------------------------------------
(* The desk.  Two lines of a file never have one id, so of the lines about a *)
(* draft one is the newest; the line a delivery refers to was.               *)

IsSequence(s) == Len(s) \in Nat /\ s = [i \in 1..Len(s) |-> s[i]]

SoundLines(lines) ==
    /\ \A i \in 1..Len(lines) : lines[i].at \in Nat /\ lines[i].id \in Nat
    /\ \A i, j \in 1..Len(lines) : i # j => lines[i].id # lines[j].id

(* What DeliveredWasApproved says of a delivery, of anything that names a    *)
(* draft, an approval and how many lines had been seen.                      *)
Backed(lines, delivery) ==
    /\ delivery.seen \in Nat /\ delivery.seen <= Len(lines)
    /\ \E i \in 1..delivery.seen :
         /\ lines[i].id = delivery.approval
         /\ lines[i].draft = delivery.draft /\ lines[i].status = "approved"
         /\ \A j \in (1..delivery.seen) \ {i} :
              lines[j].draft = delivery.draft => Later(lines[i], lines[j])

DeskInv ==
    /\ clock \in 0..MaxTime /\ history \in Exports /\ report \in Reports
    /\ DOMAIN ledgers = Files
    /\ \A f \in Files : IsSequence(ledgers[f]) /\ SoundLines(ledgers[f])
    /\ DOMAIN job = Desks
    /\ \A d \in Desks : /\ "command" \in DOMAIN job[d]
                        /\ job[d].command = "snapshot" => job[d].at \in Nat
                        /\ job[d].command = "delivery" => Backed(ledgers.approvals, job[d])
    /\ \A i \in 1..Len(ledgers.deliveries) : Backed(ledgers.approvals, ledgers.deliveries[i])

(* An appended sequence keeps its elements and gains one. *)
LEMMA AppendFacts ==
    ASSUME NEW s, IsSequence(s), NEW e
    PROVE  /\ IsSequence(Append(s, e))
           /\ Len(Append(s, e)) = Len(s) + 1 /\ Append(s, e)[Len(s) + 1] = e
           /\ \A i \in 1..Len(s) : Append(s, e)[i] = s[i]
  <1> DEFINE S == {s[i] : i \in 1..Len(s)} \cup {e}
  <1>1. s \in [1..Len(s) -> S] /\ Len(s) \in Nat
    BY DEF IsSequence
  <1>2. s \in Seq(S) /\ e \in S
    BY <1>1, SeqDef
  <1> HIDE DEF S
  <1>3. /\ Append(s, e) \in Seq(S) /\ Len(Append(s, e)) = Len(s) + 1
        /\ Append(s, e)[Len(s) + 1] = e /\ \A i \in 1..Len(s) : Append(s, e)[i] = s[i]
    BY <1>2
  <1>4. \A t \in Seq(S) : Len(t) \in Nat /\ t \in [1..Len(t) -> S]
    BY LenProperties
  <1>5. Len(Append(s, e)) \in Nat /\ Append(s, e) \in [1..Len(Append(s, e)) -> S]
    BY <1>3, <1>4
  <1>6. IsSequence(Append(s, e))
    BY <1>5 DEF IsSequence
  <1>7. QED
    BY <1>3, <1>6

(* Lines are ordered by time and then by identity. *)
LEMMA LaterIsOrder ==
    ASSUME NEW a, NEW b, NEW c, a.at \in Nat, b.at \in Nat, c.at \in Nat,
           a.id \in Nat, b.id \in Nat, c.id \in Nat
    PROVE  /\ Later(a, b) /\ Later(b, c) => Later(a, c)
           /\ a.id # b.id => Later(a, b) \/ Later(b, a)
BY DEF Later

(* A family of sets of a finite set has a member with no smaller one in it.  *)
LEMMA SmallestMember ==
    ASSUME NEW S, IsFiniteSet(S), NEW bad \in SUBSET SUBSET S, bad # {}
    PROVE  \E T \in bad : \A X \in SUBSET T : X # T => X \notin bad
  <1>1. IsWellFoundedOn(StrictSubsetOrdering(S), FiniteSubsetsOf(S))
    BY FS_StrictSubsetOrderingWellFounded
  <1>2. bad \subseteq FiniteSubsetsOf(S)
    BY FS_Subset DEF FiniteSubsetsOf
  <1>3. \E T \in bad : \A X \in bad : ~(<<X, T>> \in StrictSubsetOrdering(S))
    BY <1>1, <1>2, WFMin
  <1>4. PICK T \in bad : \A X \in bad : ~(<<X, T>> \in StrictSubsetOrdering(S))
    BY <1>3
  <1>5. ASSUME NEW X \in SUBSET T, X # T, X \in bad PROVE FALSE
    <2>1. <<X, T>> \in StrictSubsetOrdering(S)
      BY <1>4, <1>5 DEF StrictSubsetOrdering
    <2>2. QED
      BY <1>4, <1>5, <2>1
  <1>6. QED
    BY <1>4, <1>5

(* Among some lines there is a newest one. *)
LEMMA NewestIsNewest ==
    ASSUME NEW s, IsSequence(s), SoundLines(s), NEW R, R \subseteq ToSet(s), R # {}
    PROVE  Newest(R) \in R /\ \A other \in R \ {Newest(R)} : Later(Newest(R), other)
  <1> DEFINE n == Len(s)
             HasNewest(T) == \E i \in T : \A j \in T \ {i} : Later(s[i], s[j])
             bad == {T \in SUBSET (1..n) : T # {} /\ ~HasNewest(T)}
  <1>1. ToSet(s) = {s[i] : i \in 1..n} /\ n \in Nat
    BY DEF ToSet, IsSequence
  <1>2. /\ \A i \in 1..n : s[i].at \in Nat /\ s[i].id \in Nat
        /\ \A i, j \in 1..n : i # j => s[i].id # s[j].id
    BY DEF SoundLines
  <1> HIDE DEF n
  <1>3. bad = {}
    <2> SUFFICES ASSUME bad # {} PROVE FALSE
      OBVIOUS
    <2>1. PICK T \in bad : \A X \in SUBSET T : X # T => X \notin bad
      <3>1. IsFiniteSet(1..n) /\ bad \in SUBSET SUBSET (1..n)
        BY <1>1, FS_Interval
      <3> HIDE DEF bad
      <3>2. QED
        BY <3>1, SmallestMember
    <2>2. T \in SUBSET (1..n) /\ ~HasNewest(T)
      BY <2>1
    <2>3. PICK i \in T : TRUE
      BY <2>1
    <2>4. T \ {i} = {} \/ HasNewest(T \ {i})
      BY <2>1
    <2>5. CASE T \ {i} = {}
      BY <2>2, <2>5
    <2>6. CASE HasNewest(T \ {i})
      <3>1. PICK k \in T \ {i} : \A j \in (T \ {i}) \ {k} : Later(s[k], s[j])
        BY <2>6
      <3>2. Later(s[k], s[i]) \/ Later(s[i], s[k])
        BY <1>2, <2>2, LaterIsOrder
      <3>3. CASE Later(s[k], s[i])
        BY <2>2, <3>1, <3>3
      <3>4. CASE Later(s[i], s[k])
        <4>1. ASSUME NEW j \in T \ {i} PROVE Later(s[i], s[j])
          BY <1>2, <2>2, <3>1, <3>4, LaterIsOrder
        <4>2. QED
          BY <2>2, <4>1
      <3>5. QED
        BY <3>2, <3>3, <3>4
    <2>7. QED
      BY <2>4, <2>5, <2>6
  <1> DEFINE I == {i \in 1..n : s[i] \in R}
  <1>4. I # {} /\ I \in SUBSET (1..n)
    BY <1>1
  <1>5. PICK i \in I : \A j \in I \ {i} : Later(s[i], s[j])
    BY <1>3, <1>4
  <1>6. s[i] \in R
    OBVIOUS
  <1>7. ASSUME NEW other \in R \ {s[i]} PROVE Later(s[i], other)
    <2>1. PICK j \in 1..n : other = s[j]
      BY <1>1
    <2>2. QED
      BY <1>5, <2>1
  <1>8. QED
    BY <1>6, <1>7 DEF Newest

(* One more line, with an identity of its own. *)
LEMMA SoundLinesAppend ==
    ASSUME NEW s, IsSequence(s), SoundLines(s), NEW e, e.at \in Nat, e.id \in Nat,
           \A i \in 1..Len(s) : s[i].id # e.id
    PROVE  SoundLines(Append(s, e))
  <1> DEFINE long == Append(s, e)
             n == Len(s)
  <1>1. /\ n \in Nat /\ Len(long) = n + 1 /\ long[n + 1] = e
        /\ \A i \in 1..n : long[i] = s[i]
    BY AppendFacts DEF IsSequence
  <1>2. 1..(n + 1) = (1..n) \cup {n + 1} /\ n + 1 \notin 1..n
    BY <1>1
  <1>3. /\ \A i \in 1..n : s[i].at \in Nat /\ s[i].id \in Nat
        /\ \A i, j \in 1..n : i # j => s[i].id # s[j].id
    BY DEF SoundLines
  <1> HIDE DEF long
  <1>4. \A i \in 1..(n + 1) : long[i].at \in Nat /\ long[i].id \in Nat
    BY <1>1, <1>2, <1>3
  <1>5. \A i, j \in 1..(n + 1) : i # j => long[i].id # long[j].id
    BY <1>1, <1>2, <1>3
  <1>6. QED
    BY <1>1, <1>4, <1>5 DEF SoundLines, long

(* What a file backs, a longer file backs. *)
LEMMA BackedAppend ==
    ASSUME NEW s, IsSequence(s), NEW e, NEW x, Backed(s, x)
    PROVE  Backed(Append(s, e), x)
  <1>1. /\ Len(s) \in Nat /\ Len(Append(s, e)) = Len(s) + 1
        /\ \A i \in 1..Len(s) : Append(s, e)[i] = s[i]
    BY AppendFacts DEF IsSequence
  <1>2. \A i \in 1..x.seen : i \in 1..Len(s)
    BY <1>1 DEF Backed
  <1>3. QED
    BY <1>1, <1>2 DEF Backed

(* build_delivery_receipt looks the approval up with latest_by_draft. *)
LEMMA ApprovedIsBacked ==
    ASSUME NEW s, IsSequence(s), SoundLines(s), NEW x, x.seen = Len(s),
           LatestByDraft(s, x.draft).status = "approved",
           x.approval = LatestByDraft(s, x.draft).id
    PROVE  Backed(s, x)
  <1> DEFINE R == {r \in ToSet(s) : r.draft = x.draft}
             newest_ == Newest(R)
  <1>1. ToSet(s) = {s[i] : i \in 1..Len(s)} /\ Len(s) \in Nat
    BY DEF ToSet, IsSequence
  <1>2. newest_.status = "approved" /\ x.approval = newest_.id
    BY DEF LatestByDraft
  <1>3. R # {}
    BY <1>2 DEF Newest, None
  <1>4. newest_ \in R /\ \A other \in R \ {newest_} : Later(newest_, other)
    BY <1>1, <1>3, NewestIsNewest
  <1> HIDE DEF newest_
  <1>5. PICK i \in 1..Len(s) : newest_ = s[i]
    BY <1>1, <1>4
  <1>6. \A j \in (1..Len(s)) \ {i} : s[j].draft = x.draft => Later(s[i], s[j])
    <2> SUFFICES ASSUME NEW j \in (1..Len(s)) \ {i}, s[j].draft = x.draft
                 PROVE  Later(s[i], s[j])
      OBVIOUS
    <2>1. s[j] \in R
      BY <1>1
    <2>2. s[j] # s[i]
      BY DEF SoundLines
    <2>3. QED
      BY <1>4, <1>5, <2>1, <2>2
  <1>7. QED
    BY <1>1, <1>2, <1>4, <1>5, <1>6 DEF Backed

LEMMA DeskInitially == DeskInit => DeskInv
  <1> SUFFICES ASSUME DeskInit PROVE DeskInv
    OBVIOUS
  <1>1. /\ clock = 0 /\ job = [d \in Desks |-> NoCommand]
        /\ ledgers = [actions |-> <<>>, resolvers |-> <<>>, approvals |-> <<>>,
                      deliveries |-> <<>>]
    BY DEF DeskInit
  <1>2. Len(<<>>) = 0 /\ IsSequence(<<>>)
    BY DEF IsSequence
  <1>3. DOMAIN ledgers = Files /\ \A f \in Files : ledgers[f] = <<>>
    BY <1>1 DEF Files
  <1>4. ledgers.approvals = <<>> /\ ledgers.deliveries = <<>>
    BY <1>1
  <1>5. SoundLines(<<>>)
    BY <1>2 DEF SoundLines
  <1>6. \A d \in Desks : job[d].command = "idle" /\ "command" \in DOMAIN job[d]
    BY <1>1 DEF NoCommand
  <1>7. clock \in 0..MaxTime /\ history \in Exports /\ report \in Reports
    BY DeskAssumption DEF DeskInit
  <1>8. QED
    BY <1>1, <1>2, <1>3, <1>4, <1>5, <1>6, <1>7 DEF DeskInv

(* What AppendReceipt writes: a line with a time and an identity of its own. *)
NewLine(f, line) ==
    /\ ledgers' = [ledgers EXCEPT ![f] = Append(@, line)]
    /\ line.at \in Nat /\ line.id \in Nat
    /\ \A i \in 1..Len(ledgers[f]) : ledgers[f][i].id # line.id

(* The line carries what the receipt says. *)
LEMMA LineFacts ==
    ASSUME DeskInv, NEW f \in Files, NEW receipt_, "id" \notin DOMAIN receipt_,
           "at" \in DOMAIN receipt_, receipt_.at \in Nat, AppendReceipt(f, receipt_)
    PROVE  \E line : /\ NewLine(f, line)
                     /\ \A field \in DOMAIN receipt_ : line[field] = receipt_[field]
  <1>1. PICK id \in (1..MaxFile[f]) \ {r.id : r \in ToSet(ledgers[f])} :
           ledgers' = [ledgers EXCEPT ![f] = Append(@, WithId(receipt_, id))]
    BY DEF AppendReceipt
  <1> DEFINE line == WithId(receipt_, id)
  <1>2. id \in Nat
    BY DeskAssumption
  <1>3. line.id = id /\ \A field \in DOMAIN receipt_ : line[field] = receipt_[field]
    BY DEF WithId
  <1>4. ToSet(ledgers[f]) = {ledgers[f][i] : i \in 1..Len(ledgers[f])}
    BY DEF ToSet, DeskInv, IsSequence
  <1>5. \A i \in 1..Len(ledgers[f]) : ledgers[f][i].id # id
    BY <1>4
  <1>6. ledgers' = [ledgers EXCEPT ![f] = Append(@, line)]
    BY <1>1
  <1> HIDE DEF line
  <1>7. line.at \in Nat
    BY <1>3
  <1>8. QED
    BY <1>2, <1>3, <1>5, <1>6, <1>7 DEF NewLine

(* An append to one file leaves the others alone. *)
LEMMA AppendedFile ==
    ASSUME DeskInv, NEW f \in Files, NEW line, NewLine(f, line)
    PROVE  /\ DOMAIN ledgers' = Files
           /\ \A g \in Files : IsSequence(ledgers'[g]) /\ SoundLines(ledgers'[g])
           /\ ledgers'[f] = Append(ledgers[f], line)
           /\ \A g \in Files \ {f} : ledgers'[g] = ledgers[g]
  <1>1. /\ DOMAIN ledgers = Files
        /\ \A g \in Files : IsSequence(ledgers[g]) /\ SoundLines(ledgers[g])
    BY DEF DeskInv
  <1>2. /\ DOMAIN ledgers' = Files
        /\ ledgers'[f] = Append(ledgers[f], line)
        /\ \A g \in Files \ {f} : ledgers'[g] = ledgers[g]
    BY <1>1 DEF NewLine
  <1>3. IsSequence(ledgers'[f]) /\ SoundLines(ledgers'[f])
    BY <1>1, <1>2, AppendFacts, SoundLinesAppend DEF NewLine
  <1>4. QED
    BY <1>1, <1>2, <1>3

(* What the desk is doing after a step that neither writes nor looks up      *)
(* approvals.                                                                *)
JobsSound ==
    /\ DOMAIN job' = Desks
    /\ \A d \in Desks : /\ "command" \in DOMAIN job'[d]
                        /\ job'[d].command = "snapshot" => job'[d].at \in Nat
                        /\ job'[d].command = "delivery" => job'[d] = job[d]

LEMMA OtherFileSound ==
    ASSUME DeskInv, NEW f \in {"actions", "resolvers"}, NEW line, NewLine(f, line),
           UNCHANGED <<clock, history, report>>, JobsSound
    PROVE  DeskInv'
  <1>1. f \in Files /\ "approvals" \in Files \ {f} /\ "deliveries" \in Files \ {f}
    BY DEF Files
  <1>2. /\ DOMAIN ledgers' = Files
        /\ \A g \in Files : IsSequence(ledgers'[g]) /\ SoundLines(ledgers'[g])
        /\ ledgers'.approvals = ledgers.approvals /\ ledgers'.deliveries = ledgers.deliveries
    BY <1>1, AppendedFile
  <1>3. \A i \in 1..Len(ledgers'.deliveries) :
           Backed(ledgers'.approvals, ledgers'.deliveries[i])
    BY <1>2 DEF DeskInv
  <1>4. ASSUME NEW d \in Desks, job'[d].command = "delivery"
        PROVE  Backed(ledgers'.approvals, job'[d])
    <2>1. job'[d] = job[d]
      BY <1>4 DEF JobsSound
    <2>2. job[d].command = "delivery"
      BY <1>4, <2>1
    <2>3. QED
      BY <1>2, <2>1, <2>2 DEF DeskInv
  <1>5. clock' \in 0..MaxTime /\ history' \in Exports /\ report' \in Reports
    BY DEF DeskInv
  <1>6. QED
    BY <1>2, <1>3, <1>4, <1>5 DEF DeskInv, JobsSound

(* A step that writes no file keeps the desk in order. *)
LEMMA SameFilesSound ==
    ASSUME DeskInv, UNCHANGED <<ledgers, clock, history, report>>, JobsSound
    PROVE  DeskInv'
  <1>1. ASSUME NEW d \in Desks, job'[d].command = "delivery"
        PROVE  Backed(ledgers'.approvals, job'[d])
    <2>1. job'[d] = job[d]
      BY <1>1 DEF JobsSound
    <2>2. job[d].command = "delivery"
      BY <1>1, <2>1
    <2>3. QED
      BY <2>1, <2>2 DEF DeskInv
  <1>2. QED
    BY <1>1 DEF DeskInv, JobsSound

LEMMA RecordActionSound ==
    ASSUME DeskInv, NEW intelligences, RecordAction(intelligences)
    PROVE  /\ DeskInv' /\ UNCHANGED job
           /\ \E line : NewLine("actions", line)
  <1>1. UNCHANGED <<clock, history, report, job>>
    BY DEF RecordAction
  <1>2. PICK action, outcome :
           AppendReceipt("actions", [at |-> clock, action |-> action,
                                     status |-> outcome[1], reason |-> outcome[2]])
    BY DEF RecordAction
  <1> DEFINE receipt_ == [at |-> clock, action |-> action,
                          status |-> outcome[1], reason |-> outcome[2]]
  <1>3. /\ "id" \notin DOMAIN receipt_ /\ "at" \in DOMAIN receipt_ /\ receipt_.at = clock
        /\ AppendReceipt("actions", receipt_)
    BY <1>2
  <1> HIDE DEF receipt_
  <1>4. clock \in Nat
    BY DeskAssumption DEF DeskInv
  <1>5. PICK line : NewLine("actions", line)
    BY <1>3, <1>4, LineFacts DEF Files
  <1>6. JobsSound
    BY <1>1 DEF DeskInv, JobsSound
  <1>7. DeskInv'
    BY <1>1, <1>5, <1>6, OtherFileSound
  <1>8. QED
    BY <1>1, <1>5, <1>7

LEMMA RecordResolverSound ==
    ASSUME DeskInv, NEW intelligences, RecordResolver(intelligences)
    PROVE  /\ DeskInv' /\ UNCHANGED job
           /\ \E line : NewLine("resolvers", line) /\ line.actor = "operator"
  <1>1. UNCHANGED <<clock, history, report, job>>
    BY DEF RecordResolver
  <1>2. PICK action, status :
           AppendReceipt("resolvers", ResolverReceipt(action, status, "operator", clock))
    BY DEF RecordResolver
  <1> DEFINE receipt_ == ResolverReceipt(action, status, "operator", clock)
  <1>3. /\ "id" \notin DOMAIN receipt_ /\ {"at", "actor"} \subseteq DOMAIN receipt_
        /\ receipt_.at = clock /\ receipt_.actor = "operator"
        /\ AppendReceipt("resolvers", receipt_)
    BY <1>2 DEF ResolverReceipt
  <1> HIDE DEF receipt_
  <1>4. clock \in Nat
    BY DeskAssumption DEF DeskInv
  <1>5. PICK line : /\ NewLine("resolvers", line)
                    /\ \A field \in DOMAIN receipt_ : line[field] = receipt_[field]
    BY <1>3, <1>4, LineFacts DEF Files
  <1>6. line.actor = "operator"
    BY <1>3, <1>5
  <1>7. JobsSound
    BY <1>1 DEF DeskInv, JobsSound
  <1>8. DeskInv'
    BY <1>1, <1>5, <1>7, OtherFileSound
  <1>9. QED
    BY <1>1, <1>5, <1>6, <1>8

LEMMA RecordApprovalSound ==
    ASSUME DeskInv, NEW intelligences, RecordApproval(intelligences)
    PROVE  /\ DeskInv' /\ UNCHANGED job
           /\ \E line : NewLine("approvals", line)
  <1>1. UNCHANGED <<clock, history, report, job>>
    BY DEF RecordApproval
  <1>2. PICK draft, decision :
           AppendReceipt("approvals", [at |-> clock, draft |-> draft, status |-> decision])
    BY DEF RecordApproval
  <1> DEFINE receipt_ == [at |-> clock, draft |-> draft, status |-> decision]
  <1>3. /\ "id" \notin DOMAIN receipt_ /\ "at" \in DOMAIN receipt_ /\ receipt_.at = clock
        /\ AppendReceipt("approvals", receipt_)
    BY <1>2
  <1> HIDE DEF receipt_
  <1>4. clock \in Nat
    BY DeskAssumption DEF DeskInv
  <1>5. PICK line : NewLine("approvals", line)
    BY <1>3, <1>4, LineFacts DEF Files
  <1>6. "approvals" \in Files /\ "deliveries" \in Files \ {"approvals"}
    BY DEF Files
  <1>7. /\ DOMAIN ledgers' = Files
        /\ \A g \in Files : IsSequence(ledgers'[g]) /\ SoundLines(ledgers'[g])
        /\ ledgers'.approvals = Append(ledgers.approvals, line)
        /\ ledgers'.deliveries = ledgers.deliveries
    BY <1>5, <1>6, AppendedFile
  <1>8. IsSequence(ledgers.approvals)
    BY <1>6 DEF DeskInv
  <1>9. \A x : Backed(ledgers.approvals, x) => Backed(ledgers'.approvals, x)
    BY <1>7, <1>8, BackedAppend
  <1>10. DeskInv'
    BY <1>1, <1>7, <1>9 DEF DeskInv
  <1>11. QED
    BY <1>1, <1>5, <1>10

LEMMA BeginDeliverySound ==
    ASSUME DeskInv, NEW d \in Desks, NEW intelligences, BeginDelivery(d, intelligences)
    PROVE  /\ DeskInv' /\ UNCHANGED ledgers
           /\ \A e \in Desks : job'[e] = job[e] \/ job'[e].command = "delivery"
  <1>1. UNCHANGED <<clock, history, report, ledgers>>
    BY DEF BeginDelivery
  <1>2. PICK i \in intelligences :
           LET approvals == ApprovalLedger(DraftsOf(i), ledgers.approvals)
           IN  \E draft \in ApprovedByDraft(approvals) :
                 job' = [job EXCEPT ![d] =
                   [command |-> "delivery", draft |-> draft, approval |-> approvals[draft].id,
                    seen |-> Len(ledgers.approvals)]]
    BY DEF BeginDelivery
  <1> DEFINE approvals == ApprovalLedger(DraftsOf(i), ledgers.approvals)
  <1>3. PICK draft \in ApprovedByDraft(approvals) :
           job' = [job EXCEPT ![d] =
             [command |-> "delivery", draft |-> draft, approval |-> approvals[draft].id,
              seen |-> Len(ledgers.approvals)]]
    BY <1>2
  <1>4. /\ approvals[draft] = LatestByDraft(ledgers.approvals, draft)
        /\ approvals[draft].status = "approved"
    BY DEF ApprovedByDraft, ApprovalLedger
  <1> DEFINE new == [command |-> "delivery", draft |-> draft, approval |-> approvals[draft].id,
                     seen |-> Len(ledgers.approvals)]
  <1>5. /\ new.draft = draft /\ new.approval = LatestByDraft(ledgers.approvals, draft).id
        /\ new.seen = Len(ledgers.approvals)
        /\ "command" \in DOMAIN new /\ new.command = "delivery"
    BY <1>4
  <1>6. job' = [job EXCEPT ![d] = new]
    BY <1>3
  <1> HIDE DEF new, approvals
  <1>7. IsSequence(ledgers.approvals) /\ SoundLines(ledgers.approvals)
    BY DEF DeskInv, Files
  <1>8. Backed(ledgers.approvals, new)
    BY <1>4, <1>5, <1>7, ApprovedIsBacked
  <1>9. /\ DOMAIN job' = Desks /\ job'[d] = new
        /\ \A e \in Desks \ {d} : job'[e] = job[e]
    BY <1>6 DEF DeskInv
  <1>10. \A e \in Desks : /\ "command" \in DOMAIN job'[e]
                          /\ job'[e].command = "snapshot" => job'[e].at \in Nat
                          /\ job'[e].command = "delivery" => Backed(ledgers.approvals, job'[e])
    BY <1>5, <1>8, <1>9 DEF DeskInv
  <1>11. DeskInv'
    BY <1>1, <1>9, <1>10 DEF DeskInv
  <1>12. QED
    BY <1>1, <1>5, <1>9, <1>11

LEMMA RecordDeliverySound ==
    ASSUME DeskInv, NEW d \in Desks, RecordDelivery(d)
    PROVE  /\ DeskInv'
           /\ \A e \in Desks : job'[e] = job[e] \/ job'[e] = NoCommand
           /\ \E line : NewLine("deliveries", line)
  <1>1. /\ job[d].command = "delivery" /\ UNCHANGED <<clock, history, report>>
        /\ job' = [job EXCEPT ![d] = NoCommand]
    BY DEF RecordDelivery
  <1>2. PICK status :
           AppendReceipt("deliveries", [at |-> clock, draft |-> job[d].draft, status |-> status,
                                        approval |-> job[d].approval, seen |-> job[d].seen])
    BY DEF RecordDelivery
  <1> DEFINE receipt_ == [at |-> clock, draft |-> job[d].draft, status |-> status,
                          approval |-> job[d].approval, seen |-> job[d].seen]
  <1>3. /\ "id" \notin DOMAIN receipt_
        /\ {"at", "draft", "approval", "seen"} \subseteq DOMAIN receipt_
        /\ receipt_.draft = job[d].draft /\ receipt_.approval = job[d].approval
        /\ receipt_.seen = job[d].seen /\ receipt_.at = clock
        /\ AppendReceipt("deliveries", receipt_)
    BY <1>2
  <1> HIDE DEF receipt_
  <1>4. clock \in Nat
    BY DeskAssumption DEF DeskInv
  <1>5. PICK line : /\ NewLine("deliveries", line)
                    /\ \A field \in DOMAIN receipt_ : line[field] = receipt_[field]
    BY <1>3, <1>4, LineFacts DEF Files
  <1>6. /\ line.draft = job[d].draft /\ line.approval = job[d].approval
        /\ line.seen = job[d].seen
    BY <1>3, <1>5
  <1>7. Backed(ledgers.approvals, job[d])
    BY <1>1 DEF DeskInv
  <1>8. Backed(ledgers.approvals, line)
    BY <1>6, <1>7 DEF Backed
  <1>9. "deliveries" \in Files /\ "approvals" \in Files \ {"deliveries"}
    BY DEF Files
  <1>10. /\ DOMAIN ledgers' = Files
         /\ \A g \in Files : IsSequence(ledgers'[g]) /\ SoundLines(ledgers'[g])
         /\ ledgers'.deliveries = Append(ledgers.deliveries, line)
         /\ ledgers'.approvals = ledgers.approvals
    BY <1>5, <1>9, AppendedFile
  <1>11. IsSequence(ledgers.deliveries)
    BY <1>9 DEF DeskInv
  <1>12. /\ Len(ledgers'.deliveries) = Len(ledgers.deliveries) + 1
         /\ Len(ledgers.deliveries) \in Nat
         /\ ledgers'.deliveries[Len(ledgers.deliveries) + 1] = line
         /\ \A i \in 1..Len(ledgers.deliveries) : ledgers'.deliveries[i] = ledgers.deliveries[i]
    BY <1>10, <1>11, AppendFacts DEF IsSequence
  <1>13. \A i \in 1..Len(ledgers'.deliveries) : Backed(ledgers.approvals, ledgers'.deliveries[i])
    <2>1. \A i \in 1..Len(ledgers.deliveries) : Backed(ledgers.approvals, ledgers.deliveries[i])
      BY DEF DeskInv
    <2>2. \A i \in 1..Len(ledgers'.deliveries) :
             i \in 1..Len(ledgers.deliveries) \/ i = Len(ledgers.deliveries) + 1
      BY <1>12
    <2>3. QED
      BY <1>8, <1>12, <2>1, <2>2
  <1>14. /\ DOMAIN job' = Desks
         /\ \A e \in Desks : job'[e] = job[e] \/ job'[e] = NoCommand
    BY <1>1 DEF DeskInv
  <1>15. \A e \in Desks : /\ "command" \in DOMAIN job'[e]
                          /\ job'[e].command = "snapshot" => job'[e].at \in Nat
                          /\ job'[e].command = "delivery" => Backed(ledgers.approvals, job'[e])
    BY <1>14 DEF DeskInv, NoCommand
  <1>16. DeskInv'
    BY <1>1, <1>10, <1>13, <1>14, <1>15 DEF DeskInv
  <1>17. QED
    BY <1>5, <1>14, <1>16

LEMMA SnapshotSound ==
    ASSUME DeskInv, NEW d \in Desks, NEW actor, NEW candidates, Snapshot(d, actor, candidates)
    PROVE  /\ DeskInv' /\ UNCHANGED ledgers
           /\ \A e \in Desks : \/ job'[e] = job[e]
                               \/ job'[e].left = {c \in candidates : c.record}
  <1> DEFINE new == [command |-> "snapshot", actor |-> actor, at |-> clock,
                     left |-> {c \in candidates : c.record}]
  <1>1. UNCHANGED <<clock, history, report, ledgers>> /\ job' = [job EXCEPT ![d] = new]
    BY DEF Snapshot
  <1>2. /\ new.command = "snapshot" /\ "command" \in DOMAIN new /\ new.at = clock
        /\ new.left = {c \in candidates : c.record}
    OBVIOUS
  <1> HIDE DEF new
  <1>3. clock \in Nat
    BY DeskAssumption DEF DeskInv
  <1>4. JobsSound
    BY <1>1, <1>2, <1>3 DEF DeskInv, JobsSound
  <1>5. DeskInv'
    BY <1>1, <1>4, SameFilesSound
  <1>6. QED
    BY <1>1, <1>2, <1>5 DEF DeskInv

LEMMA RecordCandidateSound ==
    ASSUME DeskInv, NEW d \in Desks, RecordCandidate(d)
    PROVE  /\ DeskInv'
           /\ \A e \in Desks : \/ job'[e] = job[e] \/ job'[e] = NoCommand
                               \/ /\ job[e].command = "snapshot"
                                  /\ job'[e].left \subseteq job[e].left
           /\ \/ UNCHANGED ledgers
              \/ \E line, c : /\ NewLine("resolvers", line)
                              /\ job[d].command = "snapshot" /\ c \in job[d].left
                              /\ line.action = c.action /\ line.status = c.status
  <1>1. job[d].command = "snapshot" /\ UNCHANGED <<clock, history, report>>
    BY DEF RecordCandidate
  <1>2. /\ DOMAIN job = Desks
        /\ \A e \in Desks : /\ "command" \in DOMAIN job[e]
                            /\ job[e].command = "snapshot" => job[e].at \in Nat
    BY DEF DeskInv
  <1>3. CASE job' = [job EXCEPT ![d] = NoCommand] /\ UNCHANGED ledgers
    <2>1. DOMAIN job' = Desks /\ \A e \in Desks : job'[e] = job[e] \/ job'[e] = NoCommand
      BY <1>2, <1>3
    <2>2. JobsSound
      BY <1>2, <2>1 DEF JobsSound, NoCommand
    <2>3. DeskInv'
      BY <1>1, <1>3, <2>2, SameFilesSound
    <2>4. QED
      BY <1>3, <2>1, <2>3
  <1>4. ASSUME NEW c \in job[d].left,
               AppendReceipt("resolvers",
                   ResolverReceipt(c.action, c.status, job[d].actor, job[d].at)),
               job' = [job EXCEPT ![d].left = @ \ {c}]
        PROVE  /\ DeskInv'
               /\ \A e \in Desks : job'[e] = job[e] \/ (e = d /\ job'[e].left \subseteq job[e].left)
               /\ \E line : /\ NewLine("resolvers", line)
                            /\ line.action = c.action /\ line.status = c.status
    <2> DEFINE receipt_ == ResolverReceipt(c.action, c.status, job[d].actor, job[d].at)
    <2>1. /\ "id" \notin DOMAIN receipt_ /\ {"at", "action", "status"} \subseteq DOMAIN receipt_
          /\ receipt_.at = job[d].at /\ receipt_.action = c.action
          /\ receipt_.status = c.status /\ AppendReceipt("resolvers", receipt_)
      BY <1>4 DEF ResolverReceipt
    <2> HIDE DEF receipt_
    <2>2. receipt_.at \in Nat
      BY <1>1, <1>2, <2>1
    <2>3. PICK line : /\ NewLine("resolvers", line)
                      /\ \A field \in DOMAIN receipt_ : line[field] = receipt_[field]
      BY <2>1, <2>2, LineFacts DEF Files
    <2>4. line.action = c.action /\ line.status = c.status
      BY <2>1, <2>3
    <2>5. /\ DOMAIN job' = Desks
          /\ \A e \in Desks \ {d} : job'[e] = job[e]
          /\ "left" \in DOMAIN job[d] =>
               /\ job'[d].command = "snapshot" /\ "command" \in DOMAIN job'[d]
               /\ job'[d].at = job[d].at /\ job'[d].left = job[d].left \ {c}
      BY <1>1, <1>2, <1>4
    <2>6. /\ job'[d].command = "snapshot" /\ "command" \in DOMAIN job'[d]
          /\ job'[d].at = job[d].at
          /\ job'[d] = job[d] \/ job'[d].left \subseteq job[d].left
      BY <1>1, <1>2, <1>4
    <2>7. JobsSound
      BY <1>1, <1>2, <2>5, <2>6 DEF JobsSound
    <2>8. DeskInv'
      BY <1>1, <2>3, <2>7, OtherFileSound
    <2>9. QED
      BY <2>3, <2>4, <2>5, <2>6, <2>8
  <1>5. QED
    BY <1>1, <1>3, <1>4 DEF RecordCandidate

LEMMA DeskPreserved == DeskInv /\ (DeskNext \/ UNCHANGED deskVars) => DeskInv'
  <1>1. ASSUME DeskInv, UNCHANGED <<ledgers, job>>, clock' \in 0..MaxTime,
               history' \in Exports, report' \in Reports
        PROVE  DeskInv'
    BY <1>1 DEF DeskInv
  <1>2. ASSUME DeskInv, NEW d \in Desks, EndCommand(d) PROVE DeskInv'
    <2>1. UNCHANGED <<ledgers, clock, history, report>>
      BY <1>2 DEF EndCommand
    <2>2. JobsSound
      BY <1>2 DEF EndCommand, DeskInv, NoCommand, JobsSound
    <2>3. QED
      BY <1>2, <2>1, <2>2, SameFilesSound
  <1>3. ASSUME DeskInv, NEW d \in Desks, NEW i,
               FollowUpSnapshot(d, i) \/ ExternalSnapshot(d, i) \/ GitHubSnapshot(d, i)
        PROVE  DeskInv'
    BY <1>3, SnapshotSound DEF FollowUpSnapshot, ExternalSnapshot, GitHubSnapshot
  <1>4. ASSUME DeskInv, NEW d \in Desks, Command(d) PROVE DeskInv'
    BY <1>3, <1>4, RecordActionSound, RecordResolverSound, RecordApprovalSound, BeginDeliverySound
       DEF Command, cmd_mail_action_receipt, cmd_mail_resolver_receipt,
           cmd_mail_draft_approval_receipt, cmd_mail_delivery_receipt,
           cmd_mail_followup_resolver_receipts, cmd_mail_external_resolver_receipts,
           cmd_mail_github_resolver_receipts
  <1>5. ASSUME DeskInv, NEW d \in Desks, Handler(d) PROVE DeskInv'
    BY <1>3, <1>5, RecordActionSound, RecordResolverSound, RecordApprovalSound, BeginDeliverySound
       DEF Handler, ops_action_receipt, ops_resolver_receipt, ops_draft_approval_receipt,
           ops_delivery_receipt, ops_followup_resolver_receipts,
           ops_external_resolver_receipts, ops_github_resolver_receipts
  <1>6. ASSUME DeskInv, NEW d \in Desks, Tool(d) PROVE DeskInv'
    BY <1>3, <1>6, RecordActionSound, RecordResolverSound, RecordApprovalSound, BeginDeliverySound
       DEF Tool, mail_action_receipt, mail_resolver_receipt, mail_draft_approval,
           mail_delivery_receipt, mail_followup_resolver_receipts,
           mail_external_resolver_receipts, mail_github_resolver_receipts
  <1>7. ASSUME DeskInv, Tick \/ Refresh \/ WriteIntelligence \/ UNCHANGED deskVars PROVE DeskInv'
    <2>1. /\ clock \in 0..MaxTime /\ history \in Exports /\ report \in Reports
      BY <1>7 DEF DeskInv
    <2>2. /\ UNCHANGED <<ledgers, job>> /\ clock' \in 0..MaxTime
          /\ history' \in Exports /\ report' \in Reports
      BY <1>7, <2>1, DeskAssumption DEF Tick, Refresh, WriteIntelligence, deskVars
    <2>3. QED
      BY <1>1, <1>7, <2>2
  <1>8. QED
    BY <1>2, <1>4, <1>5, <1>6, <1>7, RecordDeliverySound, RecordCandidateSound DEF DeskNext

-----------------------------------------------------------------------------
(* What closes a finding.  The crosswalk folds five sources, and a program   *)
(* may add to one of them: the invariant says that a receipt with which a    *)
(* snapshot closes an action, written or still to be written, rests on a     *)
(* line that an operator wrote of a draft of that action.                    *)

Closing == {"verified_resolved", "not_applicable"}

DoneWith(f, i) == ledgers[f][i].status \in {"rejected", "canceled", "sent_recorded"}

SaidOfDraft(action) ==
    \E f \in {"approvals", "deliveries"} : \E i \in 1..Len(ledgers[f]) :
        ledgers[f][i].draft.action = action /\ DoneWith(f, i)

ResolversFounded ==
    /\ \A i \in 1..Len(ledgers.resolvers) :
         ledgers.resolvers[i].status \in Closing =>
             \/ ledgers.resolvers[i].actor = "operator"
             \/ SaidOfDraft(ledgers.resolvers[i].action)
    /\ \A d \in Desks : job[d].command = "snapshot" =>
         \A c \in job[d].left : c.status \in Closing => SaidOfDraft(c.action)

LEMMA FoundedInitially == DeskInit => ResolversFounded
  <1> SUFFICES ASSUME DeskInit PROVE ResolversFounded
    OBVIOUS
  <1>1. ledgers.resolvers = <<>> /\ \A d \in Desks : job[d].command = "idle"
    BY DEF DeskInit, NoCommand
  <1>2. Len(<<>>) = 0
    OBVIOUS
  <1>3. QED
    BY <1>1, <1>2 DEF ResolversFounded

(* Files only grow, so what was said remains said.                           *)
LEMMA SaidRemains ==
    ASSUME DeskInv, UNCHANGED ledgers \/ \E f \in Files : \E line : NewLine(f, line),
           NEW action, SaidOfDraft(action)
    PROVE  SaidOfDraft(action)'
  <1>1. PICK g \in {"approvals", "deliveries"} : \E i \in 1..Len(ledgers[g]) :
           ledgers[g][i].draft.action = action /\ DoneWith(g, i)
    BY DEF SaidOfDraft
  <1>2. PICK i \in 1..Len(ledgers[g]) :
           ledgers[g][i].draft.action = action /\ DoneWith(g, i)
    BY <1>1
  <1>3. i \in 1..Len(ledgers'[g]) /\ ledgers'[g][i] = ledgers[g][i]
    <2>1. CASE UNCHANGED ledgers
      BY <2>1
    <2>2. ASSUME NEW f \in Files, NEW line, NewLine(f, line)
          PROVE  i \in 1..Len(ledgers'[g]) /\ ledgers'[g][i] = ledgers[g][i]
      <3>1. g \in Files /\ IsSequence(ledgers[g]) /\ Len(ledgers[g]) \in Nat
        BY DEF Files, DeskInv, IsSequence
      <3>2. CASE g = f
        <4>1. ledgers'[g] = Append(ledgers[g], line)
          BY <2>2, <3>2, AppendedFile
        <4>2. QED
          BY <3>1, <4>1, AppendFacts
      <3>3. CASE g # f
        BY <2>2, <3>1, <3>3, AppendedFile
      <3>4. QED
        BY <3>2, <3>3
    <2>3. QED
      BY <2>1, <2>2
  <1>4. DoneWith(g, i)'
    BY <1>2, <1>3 DEF DoneWith
  <1>5. ledgers'[g][i].draft.action = action
    BY <1>2, <1>3
  <1>6. QED
    BY <1>3, <1>4, <1>5 DEF SaidOfDraft

(* A step that adds at most one resolver receipt, well founded, and leaves   *)
(* nothing unfounded to be recorded.                                         *)
LEMMA FoundedStep ==
    ASSUME DeskInv, ResolversFounded,
           \/ UNCHANGED ledgers
           \/ \E f \in Files \ {"resolvers"} : \E line : NewLine(f, line)
           \/ \E line : /\ NewLine("resolvers", line)
                        /\ line.status \in Closing =>
                             line.actor = "operator" \/ SaidOfDraft(line.action),
           \A d \in Desks : job'[d].command = "snapshot" =>
               \A c \in job'[d].left : c.status \in Closing => SaidOfDraft(c.action)
    PROVE  ResolversFounded'
  <1>1. "resolvers" \in Files
    BY DEF Files
  <1>2. \A action : SaidOfDraft(action) => SaidOfDraft(action)'
    BY <1>1, SaidRemains
  <1>3. ASSUME NEW i \in 1..Len(ledgers'.resolvers), ledgers'.resolvers[i].status \in Closing
        PROVE  \/ ledgers'.resolvers[i].actor = "operator"
               \/ SaidOfDraft(ledgers'.resolvers[i].action)
    <2>1. CASE ledgers'.resolvers = ledgers.resolvers
      BY <1>3, <2>1 DEF ResolversFounded
    <2>2. ASSUME NEW line, NewLine("resolvers", line),
                 line.status \in Closing => line.actor = "operator" \/ SaidOfDraft(line.action)
          PROVE  \/ ledgers'.resolvers[i].actor = "operator"
                 \/ SaidOfDraft(ledgers'.resolvers[i].action)
      <3>1. IsSequence(ledgers.resolvers) /\ Len(ledgers.resolvers) \in Nat
        BY <1>1 DEF DeskInv, IsSequence
      <3>2. ledgers'.resolvers = Append(ledgers.resolvers, line)
        BY <1>1, <2>2, AppendedFile
      <3>3. \/ i \in 1..Len(ledgers.resolvers) /\ ledgers'.resolvers[i] = ledgers.resolvers[i]
            \/ ledgers'.resolvers[i] = line
        BY <1>3, <3>1, <3>2, AppendFacts
      <3>4. QED
        BY <1>3, <2>2, <3>3 DEF ResolversFounded
    <2>3. ASSUME NEW f \in Files \ {"resolvers"}, NEW line, NewLine(f, line)
          PROVE  ledgers'.resolvers = ledgers.resolvers
      BY <1>1, <2>3, AppendedFile
    <2>4. QED
      BY <2>1, <2>2, <2>3
  <1>4. QED
    BY <1>2, <1>3 DEF ResolversFounded

(* FollowUpCandidate closes an action on the newest line of its drafts, the  *)
(* other two snapshots close nothing that is not closed already.             *)
LEMMA CandidatesFounded ==
    ASSUME DeskInv, NEW action
    PROVE  /\ FollowUpCandidate(action).status \in Closing => SaidOfDraft(action)
           /\ FollowUpCandidate(action).action = action
           /\ \A attest \in BOOLEAN :
                ExternalCandidate(action, attest).record =>
                    ExternalCandidate(action, attest).status \notin Closing
           /\ \A read \in GitHubReads :
                GitHubCandidate(action, read).record =>
                    GitHubCandidate(action, read).status \notin Closing
  <1> DEFINE Lines(f) == {r \in ToSet(ledgers[f]) : r.draft.action = action}
             delivery == Newest(Lines("deliveries"))
             approval == Newest(Lines("approvals"))
  <1>1. ASSUME NEW f \in {"approvals", "deliveries"}, Lines(f) # {}
        PROVE  \E i \in 1..Len(ledgers[f]) :
                 Newest(Lines(f)) = ledgers[f][i] /\ ledgers[f][i].draft.action = action
    <2>1. IsSequence(ledgers[f]) /\ SoundLines(ledgers[f])
      BY DEF DeskInv, Files
    <2>2. ToSet(ledgers[f]) = {ledgers[f][i] : i \in 1..Len(ledgers[f])}
      BY <2>1 DEF ToSet, IsSequence
    <2>3. Newest(Lines(f)) \in Lines(f)
      BY <1>1, <2>1, NewestIsNewest
    <2>4. QED
      BY <2>2, <2>3
  <1>2. \A f : Lines(f) = {} => Newest(Lines(f)) = None
    BY DEF Newest
  <1>3. FollowUpCandidate(action) =
           IF delivery # None
           THEN Candidate(action, StatusForDelivery(delivery.status), "delivery_receipt", TRUE)
           ELSE Candidate(action,
                   IF approval.status = "rejected" THEN "not_applicable" ELSE "needs_follow_up",
                   "draft_approval_receipt", approval # None)
    BY DEF FollowUpCandidate
  <1>4. FollowUpCandidate(action).action = action
    BY <1>3 DEF Candidate
  <1>5. ASSUME FollowUpCandidate(action).status \in Closing PROVE SaidOfDraft(action)
    <2>1. CASE delivery # None
      <3>1. Lines("deliveries") # {}
        BY <1>2, <2>1
      <3>2. PICK i \in 1..Len(ledgers["deliveries"]) :
               /\ delivery = ledgers["deliveries"][i]
               /\ ledgers["deliveries"][i].draft.action = action
        BY <1>1, <3>1
      <3>3. StatusForDelivery(delivery.status) \in Closing
        BY <1>3, <1>5, <2>1 DEF Candidate
      <3>4. delivery.status = "canceled"
        BY <3>3 DEF StatusForDelivery, Closing
      <3>5. DoneWith("deliveries", i)
        BY <3>2, <3>4 DEF DoneWith
      <3>6. QED
        BY <3>2, <3>5 DEF SaidOfDraft
    <2>2. CASE delivery = None
      <3>1. approval.status = "rejected"
        BY <1>3, <1>5, <2>2 DEF Candidate, Closing
      <3>2. Lines("approvals") # {}
        <4>1. None.status # "rejected"
          BY DEF None
        <4>2. approval # None
          BY <3>1, <4>1
        <4> HIDE DEF Lines
        <4>3. QED
          BY <1>2, <4>2
      <3>3. PICK i \in 1..Len(ledgers["approvals"]) :
               /\ approval = ledgers["approvals"][i]
               /\ ledgers["approvals"][i].draft.action = action
        BY <1>1, <3>2
      <3>4. DoneWith("approvals", i)
        BY <3>1, <3>3 DEF DoneWith
      <3>5. QED
        BY <3>3, <3>4 DEF SaidOfDraft
    <2>3. QED
      BY <2>1, <2>2
  <1>6. ASSUME NEW attest \in BOOLEAN, ExternalCandidate(action, attest).record
        PROVE  ExternalCandidate(action, attest).status \notin Closing
    BY <1>6 DEF ExternalCandidate, Candidate, Closing
  <1>7. ASSUME NEW read \in GitHubReads, GitHubCandidate(action, read).record
        PROVE  GitHubCandidate(action, read).status \notin Closing
    BY <1>7 DEF GitHubCandidate, Candidate, Closing, GitHubReads
  <1>8. QED
    BY <1>4, <1>5, <1>6, <1>7

LEMMA SnapshotFounded ==
    ASSUME DeskInv, ResolversFounded, NEW d \in Desks, NEW i,
           FollowUpSnapshot(d, i) \/ ExternalSnapshot(d, i) \/ GitHubSnapshot(d, i)
    PROVE  ResolversFounded'
  <1>1. ASSUME NEW actor, NEW candidates, Snapshot(d, actor, candidates),
               \A c \in candidates : c.record /\ c.status \in Closing => SaidOfDraft(c.action)
        PROVE  ResolversFounded'
    <2>1. /\ UNCHANGED ledgers
          /\ \A e \in Desks : \/ job'[e] = job[e]
                              \/ job'[e].left = {c \in candidates : c.record}
      BY <1>1, SnapshotSound
    <2>2. ASSUME NEW e \in Desks, job'[e].command = "snapshot",
                 NEW c \in job'[e].left, c.status \in Closing
          PROVE  SaidOfDraft(c.action)
      <3>1. CASE job'[e] = job[e]
        BY <2>2, <3>1 DEF ResolversFounded
      <3>2. CASE job'[e].left = {x \in candidates : x.record}
        BY <1>1, <2>2, <3>2
      <3>3. QED
        BY <2>1, <3>1, <3>2
    <2>3. QED
      BY <2>1, <2>2, FoundedStep
  <1>2. CASE FollowUpSnapshot(d, i)
    <2> DEFINE planned == PlannedItems(i, {"reply_follow_up"})
    <2>1. Snapshot(d, "followup_resolver", {FollowUpCandidate(a) : a \in planned})
      BY <1>2 DEF FollowUpSnapshot
    <2> HIDE DEF planned
    <2>2. QED
      BY <1>1, <2>1, CandidatesFounded
  <1>3. CASE ExternalSnapshot(d, i)
    <2> DEFINE planned == PlannedItems(i, ExternalResolvers)
    <2>1. PICK attest \in BOOLEAN :
             Snapshot(d, "external_resolver", {ExternalCandidate(a, attest) : a \in planned})
      BY <1>3 DEF ExternalSnapshot
    <2> HIDE DEF planned
    <2>2. \A a : ExternalCandidate(a, attest).record =>
                  ExternalCandidate(a, attest).status \notin Closing
      BY CandidatesFounded
    <2>3. \A c \in {ExternalCandidate(a, attest) : a \in planned} :
             c.record => c.status \notin Closing
      BY <2>2
    <2>4. QED
      BY <1>1, <2>1, <2>3
  <1>4. CASE GitHubSnapshot(d, i)
    <2> DEFINE planned == PlannedItems(i, {"github_reconcile"})
    <2>1. PICK read \in GitHubReads :
             Snapshot(d, "github_resolver", {GitHubCandidate(a, read) : a \in planned})
      BY <1>4 DEF GitHubSnapshot
    <2> HIDE DEF planned
    <2>2. \A a : GitHubCandidate(a, read).record =>
                  GitHubCandidate(a, read).status \notin Closing
      BY CandidatesFounded
    <2>3. \A c \in {GitHubCandidate(a, read) : a \in planned} :
             c.record => c.status \notin Closing
      BY <2>2
    <2>4. QED
      BY <1>1, <2>1, <2>3
  <1>5. QED
    BY <1>2, <1>3, <1>4

(* Every step of the desk, its programs' and its operators'. *)
LEMMA FoundedPreserved ==
    DeskInv /\ ResolversFounded /\ (DeskNext \/ UNCHANGED deskVars) => ResolversFounded'
  <1> SUFFICES ASSUME DeskInv, ResolversFounded, DeskNext \/ UNCHANGED deskVars
               PROVE  ResolversFounded'
    OBVIOUS
  <1>1. \A d \in Desks : job[d].command = "snapshot" =>
           \A c \in job[d].left : c.status \in Closing => SaidOfDraft(c.action)
    BY DEF ResolversFounded
  <1>2. /\ "actions" \in Files \ {"resolvers"} /\ "approvals" \in Files \ {"resolvers"}
        /\ "deliveries" \in Files \ {"resolvers"}
    BY DEF Files
  <1>3. CASE UNCHANGED <<ledgers, job>>
    BY <1>1, <1>3, FoundedStep
  <1>4. ASSUME NEW intelligences, RecordAction(intelligences) PROVE ResolversFounded'
    <2>1. UNCHANGED job /\ \E line : NewLine("actions", line)
      BY <1>4, RecordActionSound
    <2>2. QED
      BY <1>1, <1>2, <2>1, FoundedStep
  <1>5. ASSUME NEW intelligences, RecordResolver(intelligences) PROVE ResolversFounded'
    <2>1. UNCHANGED job /\ \E line : NewLine("resolvers", line) /\ line.actor = "operator"
      BY <1>5, RecordResolverSound
    <2>2. QED
      BY <1>1, <2>1, FoundedStep
  <1>6. ASSUME NEW intelligences, RecordApproval(intelligences) PROVE ResolversFounded'
    <2>1. UNCHANGED job /\ \E line : NewLine("approvals", line)
      BY <1>6, RecordApprovalSound
    <2>2. QED
      BY <1>1, <1>2, <2>1, FoundedStep
  <1>7. ASSUME NEW d \in Desks, NEW intelligences, BeginDelivery(d, intelligences)
        PROVE  ResolversFounded'
    <2>1. /\ UNCHANGED ledgers
          /\ \A e \in Desks : job'[e] = job[e] \/ job'[e].command = "delivery"
      BY <1>7, BeginDeliverySound
    <2>2. \A e \in Desks : job'[e].command = "snapshot" => job'[e] = job[e]
      BY <2>1
    <2>3. QED
      BY <1>1, <2>1, <2>2, FoundedStep
  <1>8. ASSUME NEW d \in Desks, RecordDelivery(d) PROVE ResolversFounded'
    <2>1. /\ \A e \in Desks : job'[e] = job[e] \/ job'[e] = NoCommand
          /\ \E line : NewLine("deliveries", line)
      BY <1>8, RecordDeliverySound
    <2>2. \A e \in Desks : job'[e].command = "snapshot" => job'[e] = job[e]
      BY <2>1 DEF NoCommand
    <2>3. QED
      BY <1>1, <1>2, <2>1, <2>2, FoundedStep
  <1>9. ASSUME NEW d \in Desks, RecordCandidate(d) PROVE ResolversFounded'
    <2>1. /\ \A e \in Desks : \/ job'[e] = job[e] \/ job'[e] = NoCommand
                              \/ /\ job[e].command = "snapshot"
                                 /\ job'[e].left \subseteq job[e].left
          /\ \/ UNCHANGED ledgers
             \/ \E line, c : /\ NewLine("resolvers", line)
                             /\ job[d].command = "snapshot" /\ c \in job[d].left
                             /\ line.action = c.action /\ line.status = c.status
      BY <1>9, RecordCandidateSound
    <2>2. ASSUME NEW e \in Desks, job'[e].command = "snapshot",
                 NEW c \in job'[e].left, c.status \in Closing
          PROVE  SaidOfDraft(c.action)
      BY <1>1, <2>1, <2>2 DEF NoCommand
    <2>3. \/ UNCHANGED ledgers
          \/ \E line : /\ NewLine("resolvers", line)
                       /\ line.status \in Closing => SaidOfDraft(line.action)
      <3>1. CASE UNCHANGED ledgers
        BY <3>1
      <3>2. ASSUME NEW line, NEW c, NewLine("resolvers", line), job[d].command = "snapshot",
                   c \in job[d].left, line.action = c.action, line.status = c.status
            PROVE  line.status \in Closing => SaidOfDraft(line.action)
        BY <1>1, <3>2
      <3>3. QED
        BY <2>1, <3>1, <3>2
    <2>4. QED
      BY <2>2, <2>3, FoundedStep
  <1>10. ASSUME NEW d \in Desks, EndCommand(d) PROVE ResolversFounded'
    <2>1. UNCHANGED ledgers /\ \A e \in Desks : job'[e] = job[e] \/ job'[e] = NoCommand
      BY <1>10 DEF EndCommand, DeskInv
    <2>2. \A e \in Desks : job'[e].command = "snapshot" => job'[e] = job[e]
      BY <2>1 DEF NoCommand
    <2>3. QED
      BY <1>1, <2>1, <2>2, FoundedStep
  <1>11. ASSUME NEW d \in Desks, Command(d) PROVE ResolversFounded'
    BY <1>4, <1>5, <1>6, <1>7, <1>11, SnapshotFounded
       DEF Command, cmd_mail_action_receipt, cmd_mail_resolver_receipt,
           cmd_mail_draft_approval_receipt, cmd_mail_delivery_receipt,
           cmd_mail_followup_resolver_receipts, cmd_mail_external_resolver_receipts,
           cmd_mail_github_resolver_receipts
  <1>12. ASSUME NEW d \in Desks, Handler(d) PROVE ResolversFounded'
    BY <1>4, <1>5, <1>6, <1>7, <1>12, SnapshotFounded
       DEF Handler, ops_action_receipt, ops_resolver_receipt, ops_draft_approval_receipt,
           ops_delivery_receipt, ops_followup_resolver_receipts,
           ops_external_resolver_receipts, ops_github_resolver_receipts
  <1>13. ASSUME NEW d \in Desks, Tool(d) PROVE ResolversFounded'
    BY <1>4, <1>5, <1>6, <1>7, <1>13, SnapshotFounded
       DEF Tool, mail_action_receipt, mail_resolver_receipt, mail_draft_approval,
           mail_delivery_receipt, mail_followup_resolver_receipts,
           mail_external_resolver_receipts, mail_github_resolver_receipts
  <1>14. CASE Tick \/ Refresh \/ WriteIntelligence \/ UNCHANGED deskVars
    BY <1>3, <1>14 DEF Tick, Refresh, WriteIntelligence, deskVars
  <1>15. QED
    BY <1>8, <1>9, <1>10, <1>11, <1>12, <1>13, <1>14 DEF DeskNext

-----------------------------------------------------------------------------
(* One text: whatever its words and its notice, one table takes it.         *)

RiskKinds == {"github_work", "security_or_account", "legal_obligation",
              "subscription_or_spend", "payment_or_billing", "provider_incident"}

RiskWords == {"github", "security", "legal", "subscription", "finance", "provider"}

(* The kind of a risk follows from its signals. *)
LEMMA KindsOfRisk ==
    ASSUME NEW signals
    PROVE  /\ KindFromSignals(signals) \in RiskKinds \cup {"none"}
           /\ KindFromSignals(signals) = "none" <=> signals \cap RiskWords = {}
  <1>1. signals \cap RiskWords = {} <=>
           /\ "github" \notin signals /\ "security" \notin signals /\ "legal" \notin signals
           /\ "subscription" \notin signals /\ "finance" \notin signals
           /\ "provider" \notin signals
    BY DEF RiskWords
  <1>2. QED
    BY <1>1 DEF KindFromSignals, RiskKinds

(* The category of a notice decides, whatever else the text says.           *)
LEMMA NoticeDecides ==
    ASSUME NEW t \in [words : SUBSET Words, automated : BOOLEAN, notice : Notices]
    PROVE  /\ t.notice \in {"usage_quota", "update"} =>
                KindFromSignals(RowSignals(t)) = "provider_incident"
           /\ t.notice = "security" => KindFromSignals(RowSignals(t)) = "security_or_account"
           /\ t.notice = "billing" => KindFromSignals(RowSignals(t)) = "payment_or_billing"
           /\ t.notice = "renewal" => KindFromSignals(RowSignals(t)) = "subscription_or_spend"
  <1> DEFINE S == RowSignals(t)
  <1>1. CASE t.notice \in {"usage_quota", "update"}
    <2>1. /\ "provider" \in S /\ "github" \notin S /\ "security" \notin S
          /\ "legal" \notin S /\ "subscription" \notin S /\ "finance" \notin S
      BY <1>1 DEF RowSignals
    <2>2. QED
      BY <1>1, <2>1 DEF KindFromSignals
  <1>2. CASE t.notice = "security"
    <2>1. "security" \in S /\ "github" \notin S
      BY <1>2 DEF RowSignals
    <2>2. QED
      BY <1>2, <2>1 DEF KindFromSignals
  <1>3. CASE t.notice = "billing"
    <2>1. /\ "finance" \in S /\ "github" \notin S /\ "security" \notin S
          /\ "legal" \notin S /\ "subscription" \notin S
      BY <1>3 DEF RowSignals
    <2>2. QED
      BY <1>3, <2>1 DEF KindFromSignals
  <1>4. CASE t.notice = "renewal"
    <2>1. /\ "subscription" \in S /\ "github" \notin S /\ "security" \notin S
          /\ "legal" \notin S
      BY <1>4 DEF RowSignals
    <2>2. QED
      BY <1>4, <2>1 DEF KindFromSignals
  <1>5. QED
    BY <1>1, <1>2, <1>3, <1>4

(* What the later tables make of each kind of finding. *)
LEMMA KindsAreUnderstood ==
    /\ RiskStatus("github_work") = "needs_review"
    /\ RiskStatus("security_or_account") = "needs_portal_verification"
    /\ RiskStatus("legal_obligation") = "needs_human_review"
    /\ RiskStatus("subscription_or_spend") = "decision_needed"
    /\ RiskStatus("payment_or_billing") = "needs_portal_verification"
    /\ RiskStatus("provider_incident") = "needs_portal_verification"
    /\ ApprovalType("missed_lead", "candidate") = "draft_approval"
    /\ \A kind \in RiskKinds : ApprovalType(kind, RiskStatus(kind)) # "draft_approval"
    /\ Profile("missed_lead").resolver = "reply_follow_up"
    /\ {"delivery_receipt", "draft_approval_receipt"} \subseteq Profile("missed_lead").proof
    /\ Profile("github_work").resolver = "github_reconcile"
    /\ "github_issue_pr_billing_or_security_state" \in Profile("github_work").proof
    /\ \A kind \in RiskKinds \ {"github_work"} :
         /\ Profile(kind).resolver \notin {"reply_follow_up", "github_reconcile"}
         /\ "action_receipt" \in Profile(kind).proof
  <1>1. /\ RiskStatus("github_work") = "needs_review"
        /\ RiskStatus("security_or_account") = "needs_portal_verification"
        /\ RiskStatus("legal_obligation") = "needs_human_review"
        /\ RiskStatus("subscription_or_spend") = "decision_needed"
        /\ RiskStatus("payment_or_billing") = "needs_portal_verification"
        /\ RiskStatus("provider_incident") = "needs_portal_verification"
    BY DEF RiskStatus
  <1>2. ApprovalType("missed_lead", "candidate") = "draft_approval"
    BY DEF ApprovalType
  <1>3. \A kind \in RiskKinds : ApprovalType(kind, RiskStatus(kind)) # "draft_approval"
    BY <1>1 DEF ApprovalType, RiskKinds
  <1>4. /\ Profile("missed_lead").resolver = "reply_follow_up"
        /\ {"delivery_receipt", "draft_approval_receipt"} \subseteq Profile("missed_lead").proof
        /\ Profile("github_work").resolver = "github_reconcile"
        /\ "github_issue_pr_billing_or_security_state" \in Profile("github_work").proof
    BY DEF Profile
  <1>5. ASSUME NEW kind \in RiskKinds \ {"github_work"}
        PROVE  /\ Profile(kind).resolver \notin {"reply_follow_up", "github_reconcile"}
               /\ "action_receipt" \in Profile(kind).proof
    BY DEF Profile, RiskKinds
  <1>6. QED
    BY <1>1, <1>2, <1>3, <1>4, <1>5

(* The routing is sound for every text, word by word. *)
LEMMA EveryTextIsRouted ==
    ASSUME NEW t \in [words : SUBSET Words, automated : BOOLEAN, notice : Notices]
    PROVE  RoutingSound(t)
  <1> DEFINE S    == RowSignals(t)
             risk == KindFromSignals(S)
             lead == AsksForAnswer(t) /\ IsMissedLeadCandidate(t)
             kinds == ({risk} \ {"none"}) \cup (IF lead THEN {"missed_lead"} ELSE {})
             Status(kind) == IF kind = "missed_lead" THEN "candidate" ELSE RiskStatus(kind)
             FiledProof(kind) ==
                 CASE Profile(kind).resolver = "reply_follow_up"  ->
                        {"delivery_receipt", "draft_approval_receipt"}
                   [] Profile(kind).resolver = "github_reconcile" ->
                        {"github_issue_pr_billing_or_security_state"}
                   [] OTHER -> {"action_receipt"}
  <1>1. Operational \cup {"github"} = RiskWords
    BY DEF Operational, RiskWords
  <1>2. risk \in RiskKinds \cup {"none"} /\ (risk = "none" <=> S \cap RiskWords = {})
    BY KindsOfRisk
  <1>3. lead => risk = "none"
    BY <1>1, <1>2 DEF IsMissedLeadCandidate
  <1>4. Cardinality(kinds) <= 1
    <2>1. kinds = {} \/ \E kind : kinds = {kind}
      BY <1>3
    <2> HIDE DEF kinds
    <2>2. CASE kinds = {}
      <3>1. Cardinality(kinds) = 0
        BY <2>2, FS_EmptySet
      <3>2. QED
        BY <3>1
    <2>3. CASE \E kind : kinds = {kind}
      <3>1. PICK kind : kinds = {kind}
        BY <2>3
      <3>2. Cardinality(kinds) = 1
        BY <3>1, FS_Singleton
      <3>3. QED
        BY <3>2
    <2>4. QED
      BY <2>1, <2>2, <2>3
  <1>5. "opportunity" \in t.words /\ AsksForAnswer(t) /\ ~t.automated => kinds # {}
    BY <1>1, <1>2 DEF IsMissedLeadCandidate
  <1>6. kinds \subseteq RiskKinds \cup {"missed_lead"} /\ "missed_lead" \notin RiskKinds
    BY <1>2 DEF RiskKinds
  <1>7. ASSUME NEW kind \in kinds
        PROVE  /\ TerminalFromFinding(
                      [kind |-> kind, status |-> Status(kind),
                       lane |-> RecommendedLane(kind, S), ops |-> "ops_not_supplied"])
                    \in {"open", "blocked", "needs_human"}
               /\ kind = "missed_lead" <=> ApprovalType(kind, Status(kind)) = "draft_approval"
               /\ FiledProof(kind) \subseteq Profile(kind).proof
    <2>1. TerminalFromFinding(
              [kind |-> kind, status |-> Status(kind),
               lane |-> RecommendedLane(kind, S), ops |-> "ops_not_supplied"])
            \in {"open", "blocked", "needs_human"}
      BY DEF TerminalFromFinding
    <2>2. kind = "missed_lead" <=> ApprovalType(kind, Status(kind)) = "draft_approval"
      BY <1>6, KindsAreUnderstood
    <2>3. FiledProof(kind) \subseteq Profile(kind).proof
      <3>1. CASE kind = "missed_lead"
        BY <3>1, KindsAreUnderstood
      <3>2. CASE kind = "github_work"
        BY <3>2, KindsAreUnderstood
      <3>3. CASE kind \in RiskKinds \ {"github_work"}
        BY <3>3, KindsAreUnderstood
      <3>4. QED
        BY <1>6, <3>1, <3>2, <3>3
    <2>4. QED
      BY <2>1, <2>2, <2>3
  <1>8. S \cap (Operational \cup {"github"}) # {} => risk # "none"
    BY <1>1, <1>2
  <1>9. /\ t.notice \in {"usage_quota", "update"} => risk = "provider_incident"
        /\ t.notice = "security" => risk = "security_or_account"
        /\ t.notice = "billing" => risk = "payment_or_billing"
        /\ t.notice = "renewal" => risk = "subscription_or_spend"
    BY NoticeDecides
  <1>10. QED
    BY <1>4, <1>5, <1>7, <1>8, <1>9 DEF RoutingSound

-----------------------------------------------------------------------------
(* The crosswalk: a fold over the receipts, which cannot settle a message    *)
(* when none of them does.                                                   *)

(* A set of positions has a last one. *)
LEMMA LastPosition ==
    ASSUME NEW n \in Nat, NEW T \in SUBSET (1..n), T # {}
    PROVE  Max(T) \in T /\ \A i \in T : i <= Max(T)
  <1> DEFINE bad == {X \in SUBSET (1..n) : X # {} /\ ~\E i \in X : \A j \in X : i >= j}
  <1>1. bad = {}
    <2> SUFFICES ASSUME bad # {} PROVE FALSE
      OBVIOUS
    <2>1. IsFiniteSet(1..n) /\ bad \in SUBSET SUBSET (1..n)
      BY FS_Interval
    <2>2. PICK X \in bad : \A Y \in SUBSET X : Y # X => Y \notin bad
      <3> HIDE DEF bad
      <3>1. QED
        BY <2>1, SmallestMember
    <2>3. PICK i \in X : TRUE
      OBVIOUS
    <2>4. X \ {i} \notin bad /\ X \ {i} \in SUBSET (1..n)
      BY <2>2
    <2>5. CASE X \ {i} = {}
      BY <2>2, <2>5
    <2>6. CASE \E k \in X \ {i} : \A j \in X \ {i} : k >= j
      <3>1. PICK k \in X \ {i} : \A j \in X \ {i} : k >= j
        BY <2>6
      <3>2. X \in SUBSET (1..n) /\ ~\E m \in X : \A j \in X : m >= j
        BY <2>2
      <3>3. i \in Nat /\ k \in Nat /\ \A j \in X : j \in Nat
        BY <3>2
      <3>4. CASE k >= i
        BY <3>1, <3>2, <3>4
      <3>5. CASE i >= k
        BY <3>1, <3>2, <3>3, <3>5
      <3>6. QED
        BY <3>3, <3>4, <3>5
    <2>7. QED
      BY <2>4, <2>5, <2>6
  <1>2. \E i \in T : \A j \in T : i >= j
    BY <1>1
  <1>3. Max(T) \in T /\ \A j \in T : Max(T) >= j
    BY <1>2 DEF Max
  <1>4. QED
    BY <1>3

(* ApplyProofs goes through the positions of its list, the last one last:    *)
(* terminals says what is known after any of them.                           *)
Terminals(evidence, known, proofs, S, terminals) ==
    terminals = [T \in SUBSET S |->
        IF T = {} THEN known
        ELSE IF proofs[Max(T)].evidence = evidence
             THEN ApplyStatus(terminals[T \ {Max(T)}], proofs[Max(T)].terminal)
             ELSE terminals[T \ {Max(T)}]]

LEMMA ApplyProofsIs ==
    ASSUME NEW evidence, NEW known, NEW proofs
    PROVE  ApplyProofs(evidence, known, proofs)
             = (CHOOSE t : Terminals(evidence, known, proofs, DOMAIN proofs, t))[DOMAIN proofs]
  BY DEF ApplyProofs, FoldLeft, MapThenFoldSet, Terminals

(* There is such a function for the first n positions, for every n. *)
LEMMA TerminalsExist ==
    ASSUME NEW evidence, NEW known, NEW proofs, NEW n \in Nat
    PROVE  \E t : Terminals(evidence, known, proofs, 1..n, t)
  <1> DEFINE Found(S) == \E t : Terminals(evidence, known, proofs, S, t)
             bad == {S \in SUBSET (1..n) : (\E k \in 0..n : S = 1..k) /\ ~Found(S)}
  <1> SUFFICES ASSUME bad # {} PROVE FALSE
    <2>1. 1..n \in bad \/ Found(1..n)
      OBVIOUS
    <2>2. QED
      BY <2>1
  <1>1. PICK S \in bad : \A Y \in SUBSET S : Y # S => Y \notin bad
    <2>1. IsFiniteSet(1..n) /\ bad \in SUBSET SUBSET (1..n)
      BY FS_Interval
    <2> HIDE DEF bad
    <2>2. QED
      BY <2>1, SmallestMember
  <1>2. PICK k \in 0..n : S = 1..k
    BY <1>1
  <1>3. CASE k = 0
    <2> DEFINE t == [T \in SUBSET S |-> known]
    <2>1. SUBSET S = {{}}
      BY <1>2, <1>3
    <2>2. Terminals(evidence, known, proofs, S, t)
      BY <2>1 DEF Terminals
    <2>3. QED
      BY <1>1, <2>2
  <1>4. CASE k > 0
    <2> DEFINE R == 1..(k - 1)
    <2>1. R \in SUBSET S /\ k \in S /\ k \notin R /\ S = R \cup {k} /\ k - 1 \in 0..n
      BY <1>2, <1>4
    <2>2. R \notin bad /\ R \in SUBSET (1..n)
      BY <1>1, <2>1
    <2>3. PICK t : Terminals(evidence, known, proofs, R, t)
      BY <2>1, <2>2
    <2> HIDE DEF R
    <2> DEFINE Step(before) == IF proofs[k].evidence = evidence
                               THEN ApplyStatus(before, proofs[k].terminal) ELSE before
               u == [T \in SUBSET S |-> IF k \in T THEN Step(t[T \ {k}]) ELSE t[T]]
    <2>4. ASSUME NEW T \in SUBSET S
          PROVE  u[T] = IF T = {} THEN known
                        ELSE IF proofs[Max(T)].evidence = evidence
                             THEN ApplyStatus(u[T \ {Max(T)}], proofs[Max(T)].terminal)
                             ELSE u[T \ {Max(T)}]
      <3>1. CASE k \in T
        <4>1. Max(T) \in T /\ \A i \in T : i <= Max(T)
          <5>1. k \in Nat /\ T \in SUBSET (1..k) /\ T # {}
            BY <1>2, <3>1
          <5>2. QED
            BY <5>1, LastPosition
        <4>2. Max(T) = k
          <5>1. k <= Max(T) /\ Max(T) \in S
            BY <3>1, <4>1
          <5>2. Max(T) \in 1..k
            BY <1>2, <5>1
          <5>3. QED
            BY <5>1, <5>2
        <4>3. k \notin T \ {k} /\ T \ {k} \in SUBSET S /\ T # {}
          BY <3>1
        <4>4. u[T] = Step(t[T \ {k}]) /\ u[T \ {k}] = t[T \ {k}]
          BY <3>1, <4>3
        <4> HIDE DEF u
        <4>5. QED
          BY <4>2, <4>3, <4>4
      <3>2. CASE k \notin T /\ T # {}
        <4>1. T \in SUBSET R
          BY <2>1, <3>2
        <4>2. t[T] = IF proofs[Max(T)].evidence = evidence
                     THEN ApplyStatus(t[T \ {Max(T)}], proofs[Max(T)].terminal)
                     ELSE t[T \ {Max(T)}]
          BY <2>3, <3>2, <4>1 DEF Terminals
        <4>3. k \notin T \ {Max(T)} /\ T \ {Max(T)} \in SUBSET S
          BY <3>2
        <4>4. u[T] = t[T] /\ u[T \ {Max(T)}] = t[T \ {Max(T)}]
          BY <3>2, <4>3
        <4> HIDE DEF u
        <4>5. QED
          BY <3>2, <4>2, <4>4
      <3>3. CASE T = {}
        <4>1. t[{}] = known
          BY <2>3 DEF Terminals
        <4>2. u[T] = t[{}]
          BY <3>3
        <4> HIDE DEF u
        <4>3. QED
          BY <3>3, <4>1, <4>2
      <3>4. QED
        BY <3>1, <3>2, <3>3
    <2>5. Terminals(evidence, known, proofs, S, u)
      <3>1. u = [T \in SUBSET S |-> u[T]]
        OBVIOUS
      <3> HIDE DEF u
      <3>2. QED
        BY <2>4, <3>1 DEF Terminals
    <2> HIDE DEF u
    <2>6. Found(S)
      BY <2>5
    <2>7. QED
      BY <1>1, <2>6
  <1>5. QED
    BY <1>3, <1>4

Unsettled == {"open", "blocked", "needs_human"}

(* What is unsettled stays so while no proof about it says otherwise.        *)
LEMMA StaysUnsettled ==
    ASSUME NEW evidence, NEW known \in Unsettled, NEW proofs, IsSequence(proofs),
           \A i \in 1..Len(proofs) :
               proofs[i].evidence = evidence => proofs[i].terminal \in Unsettled
    PROVE  ApplyProofs(evidence, known, proofs) \in Unsettled
  <1> DEFINE n == Len(proofs)
             t == CHOOSE u : Terminals(evidence, known, proofs, 1..n, u)
  <1>1. DOMAIN proofs = 1..n /\ n \in Nat
    BY DEF IsSequence
  <1> HIDE DEF n
  <1>2. Terminals(evidence, known, proofs, 1..n, t)
    BY <1>1, TerminalsExist
  <1>3. ApplyProofs(evidence, known, proofs) = t[1..n]
    BY <1>1, ApplyProofsIs
  <1> HIDE DEF t
  <1> DEFINE bad == {T \in SUBSET (1..n) : t[T] \notin Unsettled}
  <1>4. bad = {}
    <2> SUFFICES ASSUME bad # {} PROVE FALSE
      OBVIOUS
    <2>1. PICK T \in bad : \A Y \in SUBSET T : Y # T => Y \notin bad
      <3>1. IsFiniteSet(1..n) /\ bad \in SUBSET SUBSET (1..n)
        BY <1>1, FS_Interval
      <3> HIDE DEF bad
      <3>2. QED
        BY <3>1, SmallestMember
    <2>2. t[T] = IF T = {} THEN known
                 ELSE IF proofs[Max(T)].evidence = evidence
                      THEN ApplyStatus(t[T \ {Max(T)}], proofs[Max(T)].terminal)
                      ELSE t[T \ {Max(T)}]
      BY <1>2, <2>1 DEF Terminals
    <2>3. T # {}
      BY <2>1, <2>2
    <2>4. Max(T) \in T
      BY <1>1, <2>1, <2>3, LastPosition
    <2>5. t[T \ {Max(T)}] \in Unsettled
      BY <2>1, <2>4
    <2>6. proofs[Max(T)].evidence = evidence => proofs[Max(T)].terminal \in Unsettled
      BY <1>1, <2>1, <2>4 DEF n
    <2>7. t[T] \in Unsettled
      BY <2>2, <2>3, <2>5, <2>6 DEF ApplyStatus
    <2>8. QED
      BY <2>1, <2>7
  <1>5. QED
    BY <1>3, <1>4

(* The proofs of a message: an approval or a delivery that does not say that *)
(* its draft is done with leaves it unsettled.                               *)
LEMMA ReceiptsFacts ==
    ASSUME NEW files, NEW evidence,
           IsSequence(files.approvals), IsSequence(files.deliveries),
           \A i \in 1..Len(files.approvals) :
               files.approvals[i].draft.evidence = evidence =>
                   files.approvals[i].status # "rejected",
           \A i \in 1..Len(files.deliveries) :
               files.deliveries[i].draft.evidence = evidence =>
                   files.deliveries[i].status # "sent_recorded"
    PROVE  /\ IsSequence(MapReceiptLedgers(files))
           /\ \A i \in 1..Len(MapReceiptLedgers(files)) :
                MapReceiptLedgers(files)[i].evidence = evidence =>
                    MapReceiptLedgers(files)[i].terminal \in Unsettled
  <1> DEFINE Approval(receipt_) ==
                 CASE receipt_.status = "rejected" -> "stale_noop"
                   [] receipt_.status = "approved" -> "open"
                   [] OTHER -> "needs_human"
             Delivery(receipt_) ==
                 CASE receipt_.status = "sent_recorded" -> "resolved"
                   [] receipt_.status = "blocked"       -> "blocked"
                   [] OTHER -> "open"
             Proof(receipt_, terminal) ==
                 [evidence |-> receipt_.draft.evidence, terminal |-> terminal]
             A == files.approvals
             D == files.deliveries
             a == [i \in 1..Len(A) |-> Proof(A[i], Approval(A[i]))]
             b == [i \in 1..Len(D) |-> Proof(D[i], Delivery(D[i]))]
             Fine(p) == p.evidence = evidence => p.terminal \in Unsettled
             S == {a[i] : i \in 1..Len(A)} \cup {b[i] : i \in 1..Len(D)}
  <1>1. /\ DOMAIN A = 1..Len(A) /\ Len(A) \in Nat
        /\ DOMAIN D = 1..Len(D) /\ Len(D) \in Nat
    BY DEF IsSequence
  <1>2. MapReceiptLedgers(files) = a \o b
    BY <1>1 DEF MapReceiptLedgers
  <1>3. \A i \in 1..Len(A) : Fine(a[i])
    BY DEF Unsettled
  <1>4. \A i \in 1..Len(D) : Fine(b[i])
    BY DEF Unsettled
  <1>5. a \in [1..Len(A) -> S] /\ b \in [1..Len(D) -> S]
    OBVIOUS
  <1>6. \A p \in S : Fine(p)
    BY <1>3, <1>4
  <1> HIDE DEF a, b, S, Fine
  <1>7. a \in Seq(S) /\ b \in Seq(S)
    BY <1>1, <1>5, SeqDef
  <1> DEFINE all == a \o b
  <1>8. all \in Seq(S)
    BY <1>7, ConcatProperties
  <1> HIDE DEF all
  <1>9. Len(all) \in Nat /\ all \in [1..Len(all) -> S]
    BY <1>8, LenProperties
  <1>10. IsSequence(all) /\ \A i \in 1..Len(all) : Fine(all[i])
    BY <1>6, <1>9 DEF IsSequence
  <1>11. QED
    BY <1>2, <1>10 DEF Fine, all

(* Two files read one after the other have the lines of both. *)
LEMMA BothFiles ==
    ASSUME NEW s, NEW t, IsSequence(s), IsSequence(t)
    PROVE  /\ \A i \in 1..Len(s) : s[i] \in ToSet(s \o t)
           /\ \A i \in 1..Len(t) : t[i] \in ToSet(s \o t)
  <1> DEFINE S == {s[i] : i \in 1..Len(s)} \cup {t[i] : i \in 1..Len(t)}
             m == Len(s)
             n == Len(t)
             all == s \o t
  <1>1. s \in [1..m -> S] /\ t \in [1..n -> S] /\ m \in Nat /\ n \in Nat
    BY DEF IsSequence
  <1> HIDE DEF S
  <1>2. s \in Seq(S) /\ t \in Seq(S)
    BY <1>1, SeqDef
  <1>3. /\ all \in Seq(S) /\ Len(all) = m + n
        /\ \A i \in 1..(m + n) : all[i] = IF i <= m THEN s[i] ELSE t[i - m]
    BY <1>2, ConcatProperties
  <1> HIDE DEF all, m, n
  <1>4. DOMAIN all = 1..(m + n)
    BY <1>3, LenProperties
  <1>5. ASSUME NEW i \in 1..m PROVE s[i] \in ToSet(all)
    <2>1. i \in 1..(m + n) /\ all[i] = s[i]
      BY <1>1, <1>3
    <2>2. QED
      BY <1>4, <2>1 DEF ToSet
  <1>6. ASSUME NEW i \in 1..n PROVE t[i] \in ToSet(all)
    <2>1. i + m \in 1..(m + n) /\ ~(i + m <= m) /\ (i + m) - m = i
      BY <1>1
    <2>2. all[i + m] = t[i]
      BY <1>3, <2>1
    <2>3. QED
      BY <1>4, <2>1, <2>2 DEF ToSet
  <1>7. QED
    BY <1>5, <1>6 DEF m, n, all

(* A message is one finding at most: a lead has no risk in its signals. *)
LEMMA OneFinding ==
    ASSUME NEW i, NEW f \in Findings(i), NEW g \in Findings(i), f.evidence = g.evidence
    PROVE  f = g
  <1> DEFINE Lead(m) == Finding(m, "missed_lead", "candidate", "opportunity", i.labels)
             Kind(m) == KindFromSignals(RowSignals(Mail[m]))
             Risk(m) == Finding(m, Kind(m), RiskStatus(Kind(m)),
                                Severity(Kind(m), RowSignals(Mail[m])), i.labels)
  <1>1. Findings(i) = {Lead(m) : m \in Opportunities(i.rows, i.now)}
                        \cup {Risk(m) : m \in Risks(i.rows)}
    BY DEF Findings
  <1>2. \A m : Lead(m).evidence = m /\ Risk(m).evidence = m
    BY DEF Finding
  <1>3. ASSUME NEW m \in Opportunities(i.rows, i.now), m \in Risks(i.rows) PROVE FALSE
    <2>1. IsMissedLeadCandidate(Mail[m]) /\ Kind(m) # "none"
      BY <1>3 DEF Opportunities, Unanswered, Risks
    <2>2. RowSignals(Mail[m]) \cap RiskWords = {}
      BY <2>1 DEF IsMissedLeadCandidate, Operational, RiskWords
    <2>3. QED
      BY <2>1, <2>2, KindsOfRisk
  <1> HIDE DEF Lead, Risk
  <1>4. QED
    BY <1>1, <1>2, <1>3

(* A finding is about a row, and as long as its lane is not in the report it *)
(* starts unsettled.                                                         *)
LEMMA FindingFacts ==
    ASSUME NEW i, NEW f \in Findings(i)
    PROVE  /\ f.evidence \in i.rows
           /\ f.ops = "represented_in_ops" =>
                i.labels # NoReport /\ f.lane \in LanesWithMail(i.labels) \ {"closed"}
           /\ f.ops # "represented_in_ops" => TerminalFromFinding(f) \in Unsettled
  <1>1. PICK m, kind, status, severity :
           m \in i.rows /\ f = Finding(m, kind, status, severity, i.labels)
    BY DEF Findings, Opportunities, Unanswered, Risks
  <1> DEFINE lane == RecommendedLane(kind, RowSignals(Mail[m]))
  <1>2. /\ f.evidence = m /\ f.lane = lane
        /\ f.ops = OpsLaneStatus(lane, i.labels)
    BY <1>1 DEF Finding
  <1>3. lane # "closed"
    BY DEF RecommendedLane
  <1>4. OpsLaneStatus(lane, i.labels) = "represented_in_ops" =>
           i.labels # NoReport /\ lane \in LanesWithMail(i.labels)
    BY DEF OpsLaneStatus
  <1> HIDE DEF lane
  <1>5. f.ops # "represented_in_ops" => TerminalFromFinding(f) \in Unsettled
    BY DEF TerminalFromFinding, Unsettled
  <1>6. QED
    BY <1>1, <1>2, <1>3, <1>4, <1>5

(* Without a word of the operator's every proof leaves the finding           *)
(* unsettled, and the queue shows what is unsettled.                         *)
LEMMA DeskKeepsInSight == DeskInv /\ ResolversFounded => StaysInSight
  <1> SUFFICES ASSUME DeskInv, ResolversFounded PROVE StaysInSight
    OBVIOUS
  <1> DEFINE findings == FindingsOf[Fresh]
             queue    == NextQueue(history, findings, ledgers, report)
  <1>1. findings = Findings(Fresh) /\ Fresh.rows = history /\ Fresh.labels = report
    BY DEF FindingsOf, Fresh, DeskInv
  <1>2. /\ queue.messages = {m \in history : TerminalStatus(m, findings, ledgers) \in Unsettled}
        /\ report # NoReport => queue.lanes = LanesWithMail(report) \ {"closed"}
    BY DEF NextQueue, Unsettled
  <1>3. \A f \in Files : IsSequence(ledgers[f]) /\ SoundLines(ledgers[f])
    BY DEF DeskInv
  <1>4. /\ IsSequence(ledgers.approvals) /\ IsSequence(ledgers.deliveries)
        /\ IsSequence(ledgers.resolvers) /\ SoundLines(ledgers.resolvers)
    BY <1>3 DEF Files
  <1> HIDE DEF findings, queue
  <1>5. ASSUME NEW finding \in findings,
               ~(finding.ops = "represented_in_ops" /\ finding.lane \in queue.lanes),
               ActionLedger(findings, ledgers.actions)[Action(finding)].status
                  \notin {"resolved", "ignored"},
               ~\E r \in ToSet(ledgers.resolvers) :
                  /\ r.action = Action(finding) /\ r.actor = "operator"
                  /\ r.status \in {"verified_resolved", "not_applicable"},
               ~\E r \in ToSet(ledgers.approvals \o ledgers.deliveries) :
                  /\ r.draft.evidence = finding.evidence \/ r.draft.action = Action(finding)
                  /\ r.status \in {"rejected", "canceled", "sent_recorded"}
        PROVE  finding.evidence \in queue.messages
    <2> DEFINE action == Action(finding)
               acted == ActionLedger(findings, ledgers.actions)[action]
               resolved == ResolverLedger(findings, ledgers.resolvers)[action]
    <2>1. finding.ops # "represented_in_ops"
      BY <1>1, <1>2, <1>5, FindingFacts
    <2>2. TerminalFromFinding(finding) \in Unsettled /\ finding.evidence \in history
      BY <1>1, <1>5, <2>1, FindingFacts
    <2>3. ASSUME NEW f \in {"approvals", "deliveries"}, NEW i \in 1..Len(ledgers[f]),
                 DoneWith(f, i)
          PROVE  /\ ledgers[f][i].draft.evidence # finding.evidence
                 /\ ledgers[f][i].draft.action # action
      <3>1. ledgers[f][i] \in ToSet(ledgers.approvals \o ledgers.deliveries)
        BY <1>4, BothFiles
      <3>2. QED
        BY <1>5, <2>3, <3>1 DEF DoneWith
    <2>4. MapActionLedger(acted) \in Unsettled
      <3>1. acted.status \notin {"resolved", "ignored"}
        BY <1>5
      <3> HIDE DEF acted
      <3>2. QED
        BY <3>1 DEF MapActionLedger, Unsettled
    <2>5. MapResolverLedger(resolved) \in Unsettled
      <3>1. resolved.status \notin Closing
        <4> SUFFICES ASSUME resolved.status \in Closing PROVE FALSE
          OBVIOUS
        <4> DEFINE R == {r \in ToSet(ledgers.resolvers) : r.action = action}
        <4>1. resolved = Newest(R)
          BY <1>5 DEF ResolverLedger, LatestByAction, ActionPlan
        <4>2. R # {}
          BY <4>1 DEF Newest, None, Closing
        <4>3. resolved \in R
          BY <1>4, <4>1, <4>2, NewestIsNewest
        <4>4. PICK i \in 1..Len(ledgers.resolvers) : resolved = ledgers.resolvers[i]
          BY <1>4, <4>3 DEF ToSet, IsSequence
        <4>5. resolved \in ToSet(ledgers.resolvers) /\ resolved.action = action
          BY <4>3
        <4> HIDE DEF resolved
        <4>6. resolved.actor # "operator"
          BY <1>5, <4>5 DEF Closing
        <4>7. SaidOfDraft(action)
          BY <4>4, <4>5, <4>6 DEF ResolversFounded
        <4>8. QED
          BY <2>3, <4>7 DEF SaidOfDraft
      <3> HIDE DEF resolved
      <3>2. QED
        BY <3>1 DEF MapResolverLedger, Unsettled, Closing
    <2>6. BuildLedgers(finding, findings, ledgers) \in Unsettled
      <3>1. BuildLedgers(finding, findings, ledgers) =
               ApplyStatus(ApplyStatus(TerminalFromFinding(finding), MapActionLedger(acted)),
                           MapResolverLedger(resolved))
        BY DEF BuildLedgers
      <3> HIDE DEF acted, resolved
      <3>2. \A current, incoming \in Unsettled : ApplyStatus(current, incoming) \in Unsettled
        BY DEF ApplyStatus
      <3>3. QED
        BY <2>2, <2>4, <2>5, <3>1, <3>2
    <2>7. TerminalStatus(finding.evidence, findings, ledgers) =
             ApplyProofs(finding.evidence, BuildLedgers(finding, findings, ledgers),
                         MapReceiptLedgers(ledgers))
      <3> DEFINE theirs == {f \in findings : f.evidence = finding.evidence}
      <3>1. theirs = {finding}
        BY <1>1, <1>5, OneFinding
      <3>2. (CHOOSE f \in theirs : TRUE) = finding /\ theirs # {}
        BY <3>1
      <3>3. QED
        BY <3>2 DEF TerminalStatus
    <2>8. /\ \A i \in 1..Len(ledgers.approvals) :
               ledgers.approvals[i].draft.evidence = finding.evidence =>
                   ledgers.approvals[i].status # "rejected"
          /\ \A i \in 1..Len(ledgers.deliveries) :
               ledgers.deliveries[i].draft.evidence = finding.evidence =>
                   ledgers.deliveries[i].status # "sent_recorded"
      BY <2>3 DEF DoneWith
    <2>9. TerminalStatus(finding.evidence, findings, ledgers) \in Unsettled
      BY <1>4, <2>6, <2>7, <2>8, ReceiptsFacts, StaysUnsettled
    <2>10. QED
      BY <1>2, <2>2, <2>9
  <1>6. QED
    BY <1>5 DEF StaysInSight, findings, queue
-----------------------------------------------------------------------------
(* All four programs. *)

SendingInv ==
    /\ program \in {"mail_send", "send_drafts", "desk", "routing"}
    /\ text \in (IF program = "routing" THEN InboundTexts ELSE {NoText})
    /\ SendInv /\ DraftsInv /\ DeskInv /\ ResolversFounded

(* No inbound text is the placeholder for none. *)
LEMMA NothingIsNoText == \A t \in InboundTexts : t # NoText
  <1> SUFFICES ASSUME NEW t \in InboundTexts PROVE t # NoText
    OBVIOUS
  <1>1. "words" \in DOMAIN t
    BY InboundAssumption
  <1>2. "words" \notin DOMAIN NoText
    BY DEF NoText
  <1>3. QED
    BY <1>1, <1>2

(* Types, the marker discipline, the sent-state file and the approval lines *)
(* hold whatever the program does.                                          *)
THEOREM SendingInvariant == Spec => []SendingInv
  <1>1. Init => SendingInv
    BY SendInitially, DraftsInitially, DeskInitially, FoundedInitially DEF Init, SendingInv
  <1>2. SendingInv /\ [Next]_vars => SendingInv'
    <2> SUFFICES ASSUME SendingInv, [Next]_vars PROVE SendingInv'
      OBVIOUS
    <2>1. UNCHANGED <<program, text>>
      BY DEF Next, vars
    <2>2. SendInv'
      <3>1. SendNext \/ UNCHANGED <<policy, sendVars>> \/ (DraftsNext /\ UNCHANGED sendVars)
        BY DEF Next, vars
      <3>2. CASE SendNext \/ UNCHANGED <<policy, sendVars>>
        BY <3>2, SendPreserved DEF SendingInv
      <3>3. CASE DraftsNext /\ UNCHANGED sendVars
        <4>1. UNCHANGED policy \/ PolicyOff
          BY <3>3 DEF DraftsNext
        <4>2. QED
          BY <3>3, <4>1, SendPreserved, PolicyOffSound DEF SendingInv
      <3>4. QED
        BY <3>1, <3>2, <3>3
    <2>3. DraftsInv'
      <3>1. DraftsNext \/ UNCHANGED draftsVars
        BY DEF Next, vars
      <3>2. QED
        BY <3>1, DraftsPreserved DEF SendingInv
    <2>4. DeskInv' /\ ResolversFounded'
      <3>1. DeskNext \/ UNCHANGED deskVars
        BY DEF Next, vars
      <3>2. QED
        BY <3>1, DeskPreserved, FoundedPreserved DEF SendingInv
    <2>5. QED
      BY <2>1, <2>2, <2>3, <2>4 DEF SendingInv
  <1>3. QED
    BY <1>1, <1>2, PTL DEF Spec


\* Every state is well typed.
THEOREM TypeCorrectness == Spec => []TypeOK
  <1>1. SendingInv => TypeOK
    BY NothingIsNoText DEF SendingInv, TypeOK, SendInv, DraftsInv
  <1>2. QED
    BY <1>1, SendingInvariant, PTL

(* Whatever processes run at once, die, lose an answer or start again with   *)
(* the same receipt, one attempt id puts at most one message on the wire     *)
(* (claim_authorized_attempt).                                               *)
THEOREM AttemptsGoOutOnce == Spec => []OncePerAttempt
  <1>1. SendingInv => OncePerAttempt
    BY DEF SendingInv, SendInv, OutboxSound
  <1>2. QED
    BY <1>1, SendingInvariant, PTL

(* What was accepted was signed and not called off while the sender could    *)
(* still look, and what left Drafts was accepted in that version             *)
(* (before_data, trash_draft).                                               *)
THEOREM SendingIsAuthorized == Spec => []SentUnderAuthority
  <1>1. SendingInv => SentUnderAuthority
    BY DEF SendingInv, SendInv, OutboxSound
  <1>2. QED
    BY <1>1, SendingInvariant, PTL

(* A reply goes out twice only where a fault hit it (_save_sent after every  *)
(* reply).                                                                   *)
THEOREM RepeatsHaveACause == Spec => []RepeatHasACause
  <1>1. SendingInv => RepeatHasACause
    <2> SUFFICES ASSUME SendingInv, NEW k \in Keys, delivered[k] > 1, k \notin excused
                 PROVE  FALSE
      BY DEF RepeatHasACause
    <2>1. delivered[k] \in 0..2 /\ k \in Keys \ excused
      BY DEF SendingInv, DraftsInv, DraftsTypeOK
    <2>2. delivered[k] = 1
      BY <2>1 DEF SendingInv, DraftsInv, Remembered
    <2>3. QED
      BY <2>2
  <1>2. QED
    BY <1>1, SendingInvariant, PTL

(* A recorded delivery rests on an approval of that very draft, the newest   *)
(* one when it was looked up (build_delivery_receipt).                       *)
THEOREM DeliveriesWereApproved == Spec => []DeliveredWasApproved
  <1>1. SendingInv => DeliveredWasApproved
    <2> SUFFICES ASSUME SendingInv PROVE DeliveredWasApproved
      OBVIOUS
    <2>1. ToSet(ledgers.deliveries) = {ledgers.deliveries[i] : i \in 1..Len(ledgers.deliveries)}
      BY DEF ToSet, SendingInv, DeskInv, IsSequence, Files
    <2>2. \A x \in ToSet(ledgers.deliveries) : Backed(ledgers.approvals, x)
      BY <2>1 DEF SendingInv, DeskInv
    <2>3. QED
      BY <2>2 DEF DeliveredWasApproved, Backed
  <1>2. QED
    BY <1>1, SendingInvariant, PTL

(* What was missed stays in sight of mail-status, for any mail, any report   *)
(* and any number of receipts, until the operator says that it is done with: *)
(* no snapshot concludes so by itself (build_historical_crosswalk over the   *)
(* four files, _followup_candidate, _external_candidate).                    *)
THEOREM FindingsStayInSight == Spec => []QueuedUntilClosed
  <1>1. SendingInv => QueuedUntilClosed
    BY DeskKeepsInSight DEF SendingInv, QueuedUntilClosed
  <1>2. QED
    BY <1>1, SendingInvariant, PTL

(* A text of any words, not of three at most, is taken by one table and      *)
(* understood by the later ones (collect_opportunities and collect_risks     *)
(* through mail_status).                                                     *)
THEOREM NoTextFallsBetween == Spec => []NothingFallsBetween
  <1>1. SendingInv => NothingFallsBetween
    BY InboundAssumption, EveryTextIsRouted DEF SendingInv, NothingFallsBetween
  <1>2. QED
    BY <1>1, SendingInvariant, PTL

=============================================================================
