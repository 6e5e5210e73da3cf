-------------------------- MODULE FlagConductProofs --------------------------
(***************************************************************************)
(* What the engine promises besides writing once: it leaves a claim that   *)
(* nobody works on alone, keeps automation off an overridden message,      *)
(* restores only to the receipt, tells the truth in its reports, and is a  *)
(* FlagLifecycle.  The first sections say once what a step can do to the   *)
(* ledger, the requests and the worker; the invariant is ConductInv.       *)
(***************************************************************************)
EXTENDS FlagTransactionsProofs, FiniteSetTheorems

-----------------------------------------------------------------------------
(* What a step does to the ledger and the mail.                              *)

(* Whatever a worker does, the others keep their places and locals. *)
LEMMA StepMoved ==
    ASSUME TypeInv, NEW p \in Workers, Step(p)
    PROVE  Moved(p) /\ KeptData
<1>1. CASE \E m \in Mutations :
              \/ LogRow(p, m) \/ Preflight(p, m) \/ ClaimApply(p, m)
              \/ CheckCandidate(p, m) \/ Scope(p, m)
  BY <1>1, LogRowMoves, PreflightMoves, ClaimApplyMoves, CheckCandidateMoves, ScopeMoves
<1>2. CASE \/ Authorize(p) \/ NextPhase(p) \/ Deadline(p) \/ AllApplied(p)
           \/ AllRestored(p) \/ Classify(p) \/ CheckDone(p)
  BY <1>2, AuthorizeMoves, NextPhaseMoves, LoopEndMoves, ClassifyMoves, CheckDoneMoves
<1>3. CASE \/ Recheck(p) \/ RecordAutomationState(p) \/ Send(p) \/ Timeout(p)
           \/ Readback(p) \/ Ambiguous(p) \/ Refused(p) \/ PrivateStateFailed(p)
           \/ RecordDrift(p)
  BY <1>3, GotoOnlyMoves, SendMoves, AnswerMoves, FailureRowMoves, RecordDriftMoves
<1>4. CASE \/ Verify(p) \/ Finalize(p) \/ RecordRestored(p)
           \/ RecordDivergence(p) \/ LogRestoreRow(p) \/ RecordHuman(p) \/ Return(p)
  BY <1>4, VerifyMoves, ConcludeMoves, RecordDivergenceMoves, LogRestoreRowMoves,
     RecordHumanMoves, LeaveMoves
<1> QED
  BY <1>1, <1>2, <1>3, <1>4 DEF Step

(* Worker p may be about to append a row of status s about m. *)
Appends(p, m, s) ==
    \/ pc[p] \in RowSteps /\ m \in job[p].todo /\ s = RowStatus(pc[p])
    \/ pc[p] = "loop" /\ m \in job[p].pending /\ s = "applying"
    \/ /\ pc[p] \in HoldingSteps /\ m = cur[p]
       /\ s \in AuthoritativeStatuses =>
             \/ pc[p] \in {"verify", "final"} /\ s # "rolled_back"
             \/ pc[p] \in {"restored", "noop"} /\ s = "rolled_back"

(* A step writes at most one row, and about what its worker has in hand. *)
LEMMA StepRow ==
    ASSUME TypeInv, WriteInv, NEW p \in Workers, Step(p), ~Return(p)
    PROVE  \/ UNCHANGED ledgerVars
           \/ \E m \in job[p].scope, s \in Statuses :
                 /\ Appends(p, m, s)
                 /\ Appended(RowFor(p, m, s)) \/ AppendFailed(RowFor(p, m, s))
<1>1. CASE \/ Authorize(p) \/ NextPhase(p) \/ Deadline(p) \/ AllApplied(p)
           \/ Recheck(p) \/ Send(p) \/ Timeout(p) \/ Readback(p) \/ RecordDrift(p)
           \/ RecordAutomationState(p) \/ Classify(p) \/ RecordDivergence(p)
           \/ CheckDone(p) \/ RecordHuman(p) \/ AllRestored(p)
  BY <1>1 DEF Authorize, NextPhase, Deadline, AllApplied, Recheck, Send, Timeout,
     Readback, RecordDrift, RecordAutomationState, Classify, RecordDivergence,
     CheckDone, RecordHuman, AllRestored
<1>2. CASE \E m \in Mutations : Preflight(p, m) \/ CheckCandidate(p, m) \/ Scope(p, m)
  BY <1>2 DEF Preflight, CheckCandidate, Scope
<1>3. CASE \E m \in Mutations : LogRow(p, m)
  <2>1. PICK m \in Mutations : LogRow(p, m)
    BY <1>3
  <2>2. /\ pc[p] \in RowSteps /\ m \in job[p].todo
        /\ \/ Appended(RowFor(p, m, RowStatus(pc[p])))
           \/ AppendFailed(RowFor(p, m, RowStatus(pc[p])))
    BY <2>1 DEF LogRow
  <2>3. m \in job[p].scope
    BY <2>2, Live DEF RowSteps
  <2>4. RowStatus(pc[p]) \in Statuses
    BY DEF RowStatus, Statuses
  <2> QED
    BY <2>2, <2>3, <2>4 DEF Appends
<1>4. CASE \E m \in Mutations : ClaimApply(p, m)
  <2>1. PICK m \in Mutations : ClaimApply(p, m)
    BY <1>4
  <2>2. /\ pc[p] = "loop" /\ m \in job[p].pending
        /\ Appended(RowFor(p, m, "applying")) \/ AppendFailed(RowFor(p, m, "applying"))
    BY <2>1 DEF ClaimApply
  <2>3. m \in job[p].scope
    BY <2>2, Live
  <2> QED
    BY <2>2, <2>3 DEF Appends, Statuses
<1>5. CASE \/ Ambiguous(p) \/ Refused(p) \/ PrivateStateFailed(p) \/ Verify(p)
           \/ Finalize(p) \/ LogRestoreRow(p) \/ RecordRestored(p)
  <2>1. pc[p] \in HoldingSteps /\ pc[p] # "idle"
    BY <1>5 DEF Ambiguous, Refused, PrivateStateFailed, Verify, Finalize, LogRestoreRow,
       RecordRestored, HoldingSteps, DispatchSteps
  <2>2. cur[p] \in job[p].scope
    BY <2>1, Live
  <2>3. \E s \in Statuses :
           /\ s \in AuthoritativeStatuses =>
                 \/ pc[p] \in {"verify", "final"} /\ s # "rolled_back"
                 \/ pc[p] \in {"restored", "noop"} /\ s = "rolled_back"
           /\ Appended(RowFor(p, cur[p], s)) \/ AppendFailed(RowFor(p, cur[p], s))
    <3>1. CASE Ambiguous(p)
      <4> DEFINE s == IF Kind(p) = "apply" THEN "ambiguous" ELSE "rollback_pending"
      <4>1. s \in Statuses \ AuthoritativeStatuses
        BY DEF Statuses, AuthoritativeStatuses
      <4> QED
        BY <3>1, <4>1 DEF Ambiguous
    <3>2. CASE Refused(p)
      <4> DEFINE s == IF Kind(p) = "apply" THEN "blocked" ELSE "rollback_blocked"
      <4>1. s \in Statuses \ AuthoritativeStatuses
        BY DEF Statuses, AuthoritativeStatuses
      <4> QED
        BY <3>2, <4>1 DEF Refused
    <3>3. CASE PrivateStateFailed(p) \/ Verify(p) \/ Finalize(p) \/ RecordRestored(p)
      BY <3>3 DEF PrivateStateFailed, Verify, Finalize, RecordRestored, Statuses,
         AuthoritativeStatuses
    <3>4. CASE LogRestoreRow(p)
      <4> DEFINE s == RestoreRowStatus(pc[p])
      <4>1. /\ s \in Statuses
            /\ s \in AuthoritativeStatuses => pc[p] = "noop" /\ s = "rolled_back"
        BY DEF RestoreRowStatus, Statuses, AuthoritativeStatuses
      <4> HIDE DEF s
      <4>2. Appended(RowFor(p, cur[p], s)) \/ AppendFailed(RowFor(p, cur[p], s))
        BY <3>4 DEF LogRestoreRow, s
      <4> QED
        BY <4>1, <4>2
    <3> QED
      BY <1>5, <3>1, <3>2, <3>3, <3>4
  <2> QED
    BY <2>1, <2>2, <2>3 DEF Appends
<1> QED
  BY <1>1, <1>2, <1>3, <1>4, <1>5 DEF Step

(* What an append of a row about m can do to the answers. *)
LEMMA RowEffect ==
    ASSUME TypeInv, NEW p \in Workers, pc[p] # "idle", NEW m \in Mutations,
           NEW s \in Statuses,
           Appended(RowFor(p, m, s)) \/ AppendFailed(RowFor(p, m, s))
    PROVE  /\ \A n \in Mutations \ {m} : latest'[n] = latest[n] /\ auth'[n] = auth[n]
           /\ latest'[m] \in {latest[m], s}
           /\ \/ auth'[m] = auth[m]
              \/ /\ s \in AuthoritativeStatuses
                 /\ auth'[m] = [status |-> s, approval |-> job[p].approval,
                                intended |-> To(p, m)]
           /\ file = "corrupt" => file' = "corrupt"
           /\ file' = "ok" => file = "ok"
<1> DEFINE row == RowFor(p, m, s)
<1>1. row \in Rows
  BY RowType
<1>2. /\ row.mutation = m /\ row.status = s /\ row.approval = job[p].approval
      /\ row.intended = To(p, m)
  BY DEF RowFor
<1>3. latest \in [Mutations -> Statuses \cup {"none"}] /\ auth \in [Mutations -> Records]
  BY DEF TypeInv, TypeOK
<1> HIDE DEF row
<1>4. CASE Stored(row) /\ file = "ok"
  <2>1. /\ latest' = [latest EXCEPT ![m] = s]
        /\ auth' = IF s \in AuthoritativeStatuses
                   THEN [auth EXCEPT ![m] = RecordOf(row)] ELSE auth
    BY <1>2, <1>4 DEF Stored, LatestAfter, AuthorityAfter
  <2>2. RecordOf(row) = [status |-> s, approval |-> job[p].approval,
                         intended |-> To(p, m)]
    BY <1>2 DEF RecordOf
  <2> QED
    BY <1>3, <1>4, <2>1, <2>2
<1>5. CASE UNCHANGED <<latest, auth>> /\ (file' = file \/ file' = "corrupt")
  BY <1>5
<1> QED
  BY <1>4, <1>5 DEF row, Appended, AppendFailed, ledgerVars

(* At "send" a worker does nothing else. *)
LEMMA StepAtSend ==
    ASSUME NEW p \in Workers, Step(p), pc[p] = "send"
    PROVE  Send(p)
BY DEF Step, Authorize, NextPhase, Deadline, AllApplied, Recheck, Timeout, Readback,
   Ambiguous, Refused, RecordDrift, Verify, RecordAutomationState,
   PrivateStateFailed, Finalize, Classify, RecordDivergence, CheckDone,
   LogRestoreRow, RecordHuman, RecordRestored, AllRestored, Return, LogRow,
   Preflight, ClaimApply, CheckCandidate, Scope, RowSteps

(* Only a send hands out a request, and only Mail.app changes the mailbox. *)
LEMMA StepMail ==
    ASSUME TypeInv, NEW p \in Workers, Step(p)
    PROVE  /\ UNCHANGED <<native, lands>>
           /\ \/ UNCHANGED requests
              \/ /\ pc[p] = "send" /\ pc'[p] = "wait" /\ UNCHANGED <<cur, auth, latest, file>>
                 /\ requests' = requests \cup
                       {[mutation |-> cur[p], kind |-> Kind(p), by |-> p,
                         from |-> From(p, cur[p]), to |-> To(p, cur[p])]}
           /\ pc'[p] = "wait" => pc[p] = "send"
<1> DEFINE Same == UNCHANGED <<native, lands, requests>>
<1>1. pc \in [Workers -> Steps]
  BY DEF TypeInv, TypeOK
<1>2. CASE Send(p)
  BY <1>1, <1>2 DEF Send, Goto, ledgerVars
<1>3. CASE \/ NextPhase(p) \/ Recheck(p) \/ Timeout(p) \/ Readback(p)
           \/ RecordAutomationState(p) \/ RecordDivergence(p) \/ Return(p)
           \/ \E m \in Mutations : Preflight(p, m)
  <2>1. Same
    BY <1>3 DEF NextPhase, Recheck, Timeout, Readback, RecordAutomationState,
       RecordDivergence, Return, Preflight, mailVars
  <2>2. pc'[p] # "wait"
    BY <1>1, <1>3 DEF NextPhase, Recheck, Timeout, Readback, RecordAutomationState,
       RecordDivergence, Return, Preflight, Goto, Proceed, Blocked, Finish
  <2> QED
    BY <2>1, <2>2
<1>4. CASE \/ Authorize(p) \/ Deadline(p) \/ AllApplied(p) \/ AllRestored(p)
           \/ Classify(p) \/ CheckDone(p)
  <2>1. Same
    BY <1>4 DEF Authorize, Deadline, AllApplied, AllRestored, Classify, CheckDone, mailVars
  <2>2. pc'[p] # "wait"
    BY <1>1, <1>4 DEF Authorize, Deadline, AllApplied, AllRestored, Classify, CheckDone,
       OuterHandler, Goto, Blocked, Finish
  <2> QED
    BY <2>1, <2>2
<1>5. CASE \/ Ambiguous(p) \/ Refused(p) \/ PrivateStateFailed(p) \/ Verify(p)
           \/ Finalize(p) \/ RecordRestored(p) \/ RecordDrift(p) \/ RecordHuman(p)
  <2>1. Same
    BY <1>5 DEF Ambiguous, Refused, PrivateStateFailed, Verify, Finalize,
       RecordRestored, RecordDrift, RecordHuman, mailVars
  <2>2. pc'[p] # "wait"
    BY <1>1, <1>5 DEF Ambiguous, Refused, PrivateStateFailed, Verify, Finalize,
       RecordRestored, RecordDrift, RecordHuman, Fail, Finish, Goto
  <2> QED
    BY <2>1, <2>2
<1>6. CASE \/ LogRestoreRow(p)
           \/ \E m \in Mutations : LogRow(p, m) \/ ClaimApply(p, m)
                 \/ CheckCandidate(p, m) \/ Scope(p, m)
  <2>1. Same
    BY <1>6 DEF LogRestoreRow, LogRow, ClaimApply, CheckCandidate, Scope, mailVars
  <2>2. CASE LogRestoreRow(p)
    BY <1>1, <2>1, <2>2 DEF LogRestoreRow, OuterHandler, Fail, Finish, Goto
  <2>3. CASE \E m \in Mutations : LogRow(p, m) \/ ClaimApply(p, m)
                                     \/ CheckCandidate(p, m) \/ Scope(p, m)
    <3>1. PICK m \in Mutations : LogRow(p, m) \/ ClaimApply(p, m)
                                    \/ CheckCandidate(p, m) \/ Scope(p, m)
      BY <2>3
    <3>2. pc'[p] # "wait"
      BY <1>1, <3>1 DEF LogRow, ClaimApply, CheckCandidate, Scope, OuterHandler, Fail,
         Finish, Goto, RowSteps
    <3> QED
      BY <2>1, <3>2
  <2> QED
    BY <1>6, <2>2, <2>3
<1> QED
  BY <1>2, <1>3, <1>4, <1>5, <1>6 DEF Step

(* A worker gets next to a write only past a suppression check. *)
LEMMA StepChecks ==
    ASSUME TypeInv, NEW p \in Workers, Step(p),
           pc'[p] \in {"send", "wait", "claim_restore"}
    PROVE  \/ pc[p] \in {"send", "claim_restore"} /\ cur'[p] = cur[p]
           \/ overrides[MessageOf[cur'[p]]] = NoOverride
<1>1. /\ pc \in [Workers -> Steps]
      /\ cur \in [Workers -> Mutations \cup {NoMutation}]
  BY DEF TypeInv, TypeOK
<1>2. CASE Send(p) \/ Recheck(p)
  BY <1>1, <1>2 DEF Send, Recheck, Suppressed, Goto
<1>3. CASE LogRestoreRow(p)
  BY <1>1, <1>3 DEF LogRestoreRow, OuterHandler, Fail, Finish, Goto
<1>4. CASE \E m \in Mutations : Scope(p, m)
  <2>1. PICK m \in Mutations : Scope(p, m)
    BY <1>4
  <2> QED
    BY <1>1, <2>1 DEF Scope, Suppressed, OuterHandler, Fail, Finish, Goto
<1>5. CASE \/ NextPhase(p) \/ Timeout(p) \/ Readback(p)
           \/ RecordAutomationState(p) \/ RecordDivergence(p) \/ Return(p)
           \/ \E m \in Mutations : Preflight(p, m)
  <2>1. pc'[p] \notin {"send", "wait", "claim_restore"}
    BY <1>1, <1>5 DEF NextPhase, Timeout, Readback, RecordAutomationState,
       RecordDivergence, Return, Preflight, Goto, Proceed, Blocked, Finish
  <2> QED
    BY <2>1
<1>6. CASE \/ Authorize(p) \/ Deadline(p) \/ AllApplied(p) \/ AllRestored(p)
           \/ Classify(p) \/ CheckDone(p)
  <2>1. pc'[p] \notin {"send", "wait", "claim_restore"}
    BY <1>1, <1>6 DEF Authorize, Deadline, AllApplied, AllRestored, Classify, CheckDone,
       OuterHandler, Goto, Blocked, Finish
  <2> QED
    BY <2>1
<1>7. CASE \/ Ambiguous(p) \/ Refused(p) \/ PrivateStateFailed(p) \/ Verify(p)
           \/ Finalize(p) \/ RecordRestored(p) \/ RecordDrift(p) \/ RecordHuman(p)
  <2>1. pc'[p] \notin {"send", "wait", "claim_restore"}
    BY <1>1, <1>7 DEF Ambiguous, Refused, PrivateStateFailed, Verify, Finalize,
       RecordRestored, RecordDrift, RecordHuman, Fail, Finish, Goto
  <2> QED
    BY <2>1
<1>8. CASE \E m \in Mutations : LogRow(p, m) \/ ClaimApply(p, m) \/ CheckCandidate(p, m)
  <2>1. PICK m \in Mutations : LogRow(p, m) \/ ClaimApply(p, m) \/ CheckCandidate(p, m)
    BY <1>8
  <2>2. pc'[p] \notin {"send", "wait", "claim_restore"}
    BY <1>1, <2>1 DEF LogRow, ClaimApply, CheckCandidate, OuterHandler, Finish, Goto,
       RowSteps
  <2> QED
    BY <2>2
<1> QED
  BY <1>2, <1>3, <1>4, <1>5, <1>6, <1>7, <1>8 DEF Step

(* A worker records an override, and never clears one. *)
LEMMA StepOverrides ==
    ASSUME TypeInv, NEW p \in Workers, Step(p), NEW r \in Messages,
           overrides[r] # NoOverride
    PROVE  overrides'[r] # NoOverride
<1>1. overrides \in [Messages -> Override \cup {NoOverride}]
  BY DEF TypeInv, TypeOK
<1>2. CASE UNCHANGED overrides
  BY <1>2
<1>3. CASE /\ pc[p] \in HoldingSteps
           /\ \E e \in Colors : SaveOverride(cur[p], e, job[p].seen)
  <2>1. PICK e \in Colors : SaveOverride(cur[p], e, job[p].seen)
    BY <1>3
  <2>2. job[p].seen \in Colors \cup {Unknown} /\ cur[p] \in Mutations
    BY <1>3, JobType DEF Jobs, TypeInv, Working
  <2>3. [expected |-> e, observed |-> job[p].seen] # NoOverride
    BY <2>2, FlagAssumption
  <2>4. MessageOf[cur[p]] \in Messages
    BY <2>2, FlagAssumption
  <2> QED
    BY <1>1, <2>1, <2>3, <2>4 DEF SaveOverride
<1>4. CASE RecordDrift(p) \/ RecordDivergence(p) \/ RecordHuman(p)
  <2>1. pc[p] \in HoldingSteps
    BY <1>4 DEF RecordDrift, RecordDivergence, RecordHuman, HoldingSteps, DispatchSteps
  <2>2. From(p, cur[p]) \in Colors
    BY <2>1, FlagTypes
  <2>3. pc[p] \in {"diverged", "human"} => auth[cur[p]].intended \in Colors
    BY <2>1, FlagTypes DEF TypeInv, Working, RestoreSteps
  <2>4. \/ UNCHANGED overrides
        \/ SaveOverride(cur[p], From(p, cur[p]), job[p].seen)
        \/ /\ pc[p] \in {"diverged", "human"}
           /\ SaveOverride(cur[p], auth[cur[p]].intended, job[p].seen)
    BY <1>4 DEF RecordDrift, RecordDivergence, RecordHuman
  <2> QED
    BY <1>2, <1>3, <2>1, <2>2, <2>3, <2>4
<1>5. CASE \/ Authorize(p) \/ NextPhase(p) \/ Deadline(p) \/ AllApplied(p)
           \/ Recheck(p) \/ Send(p) \/ Timeout(p) \/ Readback(p) \/ Ambiguous(p)
           \/ Refused(p) \/ Verify(p) \/ RecordAutomationState(p)
           \/ PrivateStateFailed(p) \/ Finalize(p) \/ Classify(p) \/ CheckDone(p)
           \/ LogRestoreRow(p) \/ RecordRestored(p) \/ AllRestored(p) \/ Return(p)
  BY <1>2, <1>5 DEF Authorize, NextPhase, Deadline, AllApplied, Recheck, Send, Timeout,
     Readback, Ambiguous, Refused, Verify, RecordAutomationState, PrivateStateFailed,
     Finalize, Classify, CheckDone, LogRestoreRow, RecordRestored, AllRestored, Return
<1>6. CASE \E m \in Mutations :
              \/ LogRow(p, m) \/ Preflight(p, m) \/ ClaimApply(p, m)
              \/ CheckCandidate(p, m) \/ Scope(p, m)
  BY <1>2, <1>6 DEF LogRow, Preflight, ClaimApply, CheckCandidate, Scope
<1> QED
  BY <1>4, <1>5, <1>6 DEF Step

-----------------------------------------------------------------------------
(* An overridden message is left alone.                                      *)

(* Every step of the system either is the operator's unlock or leaves the      *)
(* message under its quarantine.                                             *)
LEMMA QuarantineStep ==
    ASSUME TypeInv, [Next]_vars, NEW r \in Messages, Quarantined(r)
    PROVE  Quarantined(r)' \/ (Unlock(r) /\ overrides'[r] = NoOverride)
<1>1. /\ overrides[r] # NoOverride
      /\ \A p \in Workers : ~PastCheck(p, r)
      /\ \A q \in requests : MessageOf[q.mutation] # r
      /\ overrides \in [Messages -> Override \cup {NoOverride}]
      /\ pc \in [Workers -> Steps]
  BY DEF Quarantined, TypeInv, TypeOK
<1>2. CASE UNCHANGED vars
  BY <1>1, <1>2 DEF vars, Quarantined, PastCheck
<1>3. ASSUME NEW p \in Workers, Begin(p) \/ Step(p) \/ Crash(p),
             UNCHANGED requests \/ (pc[p] = "send" /\ requests' = requests \cup
                {[mutation |-> cur[p], kind |-> Kind(p), by |-> p,
                  from |-> From(p, cur[p]), to |-> To(p, cur[p])]}),
             overrides'[r] # NoOverride, Moved(p),
             pc'[p] \in {"send", "wait", "claim_restore"} =>
                \/ pc[p] \in {"send", "claim_restore"} /\ cur'[p] = cur[p]
                \/ overrides[MessageOf[cur'[p]]] = NoOverride
      PROVE  Quarantined(r)'
  <2>1. ASSUME NEW w \in Workers PROVE ~PastCheck(w, r)'
    <3>1. CASE w # p
      BY <1>1, <1>3, <3>1 DEF Moved, PastCheck
    <3>2. CASE w = p
      BY <1>1, <1>3, <3>2 DEF PastCheck
    <3> QED
      BY <3>1, <3>2
  <2>2. \A q \in requests' : MessageOf[q.mutation] # r
    BY <1>1, <1>3 DEF PastCheck
  <2> QED
    BY <1>3, <2>1, <2>2 DEF Quarantined
<1>4. ASSUME NEW p \in Workers, Step(p) PROVE Quarantined(r)'
  <2>1. Moved(p)
    BY <1>4, StepMoved
  <2> QED
    BY <1>1, <1>3, <1>4, <2>1, StepMail, StepChecks, StepOverrides
<1>5. ASSUME NEW p \in Workers, Begin(p) \/ Crash(p) PROVE Quarantined(r)'
  <2>1. Moved(p)
    BY <1>5, AcquireMoves, LeaveMoves DEF Begin
  <2>2. UNCHANGED <<requests, overrides>>
    BY <1>5 DEF Begin, Acquire, Crash, mailVars
  <2>3. pc'[p] \notin {"send", "wait", "claim_restore"}
    BY <1>1, <1>5 DEF Begin, Acquire, Crash, Goto
  <2> QED
    BY <1>1, <1>3, <1>5, <2>1, <2>2, <2>3
<1>6. CASE MailApp
  <2>1. PICK q \in requests : Land(q) \/ Drift(q) \/ Lose(q)
    BY <1>6 DEF MailApp
  <2>2. requests' = requests \ {q} /\ UNCHANGED <<overrides, cur>>
    BY <2>1 DEF Land, Drift, Lose
  <2>3. \A w \in Workers : pc'[w] = pc[w] \/ pc'[w] \in {"readback", "drift"}
    BY <2>1, MailAppMoves DEF Moved
  <2> QED
    BY <1>1, <2>2, <2>3 DEF Quarantined, PastCheck
<1>7. CASE Human
  <2>1. CASE \E s \in Messages : Unlock(s)
    <3>1. PICK s \in Messages : Unlock(s)
      BY <2>1
    <3>2. /\ overrides' = [overrides EXCEPT ![s] = NoOverride]
          /\ UNCHANGED <<requests, pc, cur>>
      BY <3>1 DEF Unlock, mailVars
    <3>3. CASE s = r
      BY <1>1, <3>1, <3>2, <3>3
    <3>4. CASE s # r
      BY <1>1, <3>2, <3>4 DEF Quarantined, PastCheck
    <3> QED
      BY <3>3, <3>4
  <2>2. CASE \E s \in Messages, c \in HumanColors : HumanFlag(s, c)
    <3>1. UNCHANGED <<requests, overrides, pc, cur>>
      BY <2>2 DEF HumanFlag
    <3> QED
      BY <1>1, <3>1 DEF Quarantined, PastCheck
  <2> QED
    BY <1>7, <2>1, <2>2 DEF Human
<1> QED
  BY <1>2, <1>4, <1>5, <1>6, <1>7 DEF Next

(* Once a person's change of a flag is on record, no plan's automation touches *)
(* the message until an operator unlocks it: no step of any worker clears    *)
(* the record, passes the suppression check or asks Mail.app for a write     *)
(* (OverrideStore.is_suppressed at each dispatch of _apply_one and           *)
(* _scoped_rollback_locked).                                                 *)
THEOREM QuarantineStands == Spec => QuarantineHolds
<1>1. TypeInv /\ [Next]_vars =>
         [\A r \in Messages : Quarantined(r) =>
             Quarantined(r)' \/ (Unlock(r) /\ overrides'[r] = NoOverride)]_vars
  BY QuarantineStep
<1> QED
  BY <1>1, TypeCorrect, PTL DEF Spec, QuarantineHolds

-----------------------------------------------------------------------------
(* The ledger concludes what was seen in the mailbox.                        *)

(* A row settles nothing but a write its worker has seen. *)
LEMMA ProvedStep ==
    ASSUME TypeInv, WriteInv, ConductInv, NEW p \in Workers, Step(p), ~Return(p),
           NEW m \in Mutations
    PROVE  Proved(m)'
<1>1. /\ pc[p] # "idle" /\ Grounded(p) /\ Proved(m) /\ UNCHANGED lands
      /\ lands \in [Writes -> Nat] /\ auth \in [Mutations -> Records]
  BY StepKeeps, StepMail DEF ConductInv, TypeInv, TypeOK
<1>2. CASE UNCHANGED auth
  <2>1. CASE UNCHANGED requests
    BY <1>1, <1>2, <2>1 DEF Proved, Untouched, InFlight, State
  <2>2. CASE /\ pc[p] = "send"
             /\ requests' = requests \cup
                   {[mutation |-> cur[p], kind |-> Kind(p), by |-> p,
                     from |-> From(p, cur[p]), to |-> To(p, cur[p])]}
    <3>1. pc[p] \in HoldingSteps
      BY <2>2 DEF HoldingSteps, DispatchSteps
    <3>2. CASE m = cur[p] /\ Kind(p) = "restore"
      <4>1. auth[m].status # "none"
        BY <3>1, <3>2 DEF TypeInv, Working
      <4> QED
        BY <1>1, <1>2, <4>1 DEF Proved, State
    <3>3. CASE ~(m = cur[p] /\ Kind(p) = "restore")
      <4>1. InFlight(m, "restore")' = InFlight(m, "restore")
        BY <2>2, <3>3 DEF InFlight
      <4> QED
        BY <1>1, <1>2, <4>1 DEF Proved, Untouched, State
    <3> QED
      BY <3>2, <3>3
  <2> QED
    BY <2>1, <2>2, StepMail
<1>3. CASE ~UNCHANGED auth
  <2>1. PICK n \in job[p].scope, s \in Statuses :
           /\ Appends(p, n, s)
           /\ Appended(RowFor(p, n, s)) \/ AppendFailed(RowFor(p, n, s))
    BY <1>3, StepRow DEF ledgerVars
  <2>2. n \in Mutations
    BY <1>1, Live
  <2>3. UNCHANGED requests
    BY <1>3, StepMail
  <2>4. CASE auth'[m] = auth[m]
    BY <1>1, <2>3, <2>4 DEF Proved, Untouched, InFlight, State
  <2>5. CASE auth'[m] # auth[m]
    <3>1. /\ m = n /\ s \in AuthoritativeStatuses
          /\ auth'[m] = [status |-> s, approval |-> job[p].approval,
                         intended |-> To(p, m)]
      BY ZenonT(40), <1>1, <2>1, <2>2, <2>5, RowEffect
    <3>2. /\ m = cur[p]
          /\ \/ pc[p] \in {"verify", "final"} /\ s # "rolled_back"
             \/ pc[p] \in {"restored", "noop"} /\ s = "rolled_back"
      BY <2>1, <3>1 DEF Appends, RowStatus, AuthoritativeStatuses
    <3>3. CASE pc[p] \in {"verify", "final"} /\ s # "rolled_back"
      <4>1. Kind(p) = "apply"
        BY <3>3 DEF TypeInv, Working, ApplySteps
      <4>2. lands[<<m, "apply">>] > 0
        BY <1>1, <3>2, <3>3, <4>1 DEF Grounded, ProvedSteps
      <4>3. To(p, m) = ExecutionFlag[job[p].approval][m]
        BY <4>1 DEF To
      <4> QED
        BY <1>1, <2>3, <3>1, <3>3, <4>2, <4>3 DEF Proved, Untouched, InFlight
    <3>4. CASE pc[p] \in {"restored", "noop"} /\ s = "rolled_back"
      <4>1. Kind(p) = "restore"
        BY <3>4 DEF TypeInv, Working, RestoreSteps
      <4>2. lands[<<m, "restore">>] > 0
        BY <1>1, <3>2, <3>4, <4>1 DEF Grounded, ProvedSteps
      <4>3. lands[<<m, "apply">>] > 0
        BY <1>1, <4>2 DEF Proved, Untouched
      <4> QED
        BY <1>1, <2>3, <3>1, <3>4, <4>2, <4>3
        DEF Proved, Untouched, InFlight, State, AuthoritativeState
    <3> QED
      BY <3>2, <3>3, <3>4
  <2> QED
    BY <2>4, <2>5
<1> QED
  BY <1>2, <1>3

(* Mail.app changes a message by a request that is out, and only counts up. *)
LEMMA MailAppCounts ==
    ASSUME TypeInv, NEW q \in requests, Land(q) \/ Drift(q) \/ Lose(q)
    PROVE  /\ q \in Requests /\ requests' = requests \ {q}
           /\ UNCHANGED <<file, latest, auth, lock, cur>>
           /\ \A w \in Writes : lands[w] \in Nat /\ lands'[w] \in Nat /\ lands'[w] >= lands[w]
           /\ Land(q) => /\ lands'[<<q.mutation, q.kind>>] > 0
                         /\ \A w \in Writes : w # <<q.mutation, q.kind>> =>
                               lands'[w] = lands[w]
           /\ ~Land(q) => UNCHANGED lands
<1>1. /\ q \in Requests /\ lands \in [Writes -> Nat]
  BY DEF TypeInv, TypeOK
<1>2. <<q.mutation, q.kind>> \in Writes
  BY <1>1 DEF Requests, Writes
<1>3. CASE Land(q)
  <2>1. lands' = [lands EXCEPT ![<<q.mutation, q.kind>>] = @ + 1]
    BY <1>3 DEF Land
  <2>2. \A w \in Writes : /\ lands'[w] = IF w = <<q.mutation, q.kind>>
                                         THEN lands[w] + 1 ELSE lands[w]
                          /\ lands[w] \in Nat
    BY <1>1, <2>1
  <2>3. \A w \in Writes : lands'[w] \in Nat /\ lands'[w] >= lands[w]
    BY <2>2
  <2>4. lands'[<<q.mutation, q.kind>>] > 0
    BY <1>2, <2>2
  <2> QED
    BY <1>1, <1>3, <2>2, <2>3, <2>4 DEF Land, ledgerVars
<1>4. CASE ~Land(q)
  BY <1>1, <1>4 DEF Drift, Lose, ledgerVars
<1> QED
  BY <1>3, <1>4

(* Whatever Mail.app does, what the ledger concludes stays founded. *)
LEMMA ProvedMail ==
    ASSUME TypeInv, WriteInv, ConductInv, NEW q \in requests,
           Land(q) \/ Drift(q) \/ Lose(q), NEW m \in Mutations
    PROVE  Proved(m)'
<1>1. Proved(m) /\ <<m, "apply">> \in Writes /\ <<m, "restore">> \in Writes
  BY DEF ConductInv, Writes, Kinds
<1>2. Untouched(m, "restore") => Untouched(m, "restore")'
  BY InvParts, MailAppWorld DEF Kinds
<1>3. \A w \in Writes : lands[w] > 0 => lands'[w] > 0
  BY MailAppCounts
<1> QED
  BY <1>1, <1>2, <1>3, MailAppCounts DEF Proved, State

-----------------------------------------------------------------------------
(* What is said of a worker stands while others work.                        *)

(* The writes that crossed dispatch are among those that were sent. *)
LEMMA CrossedSent ==
    ASSUME TypeInv, NEW p \in Workers, IsFiniteSet(job[p].sent)
    PROVE  /\ Crossed(p) \subseteq job[p].sent /\ IsFiniteSet(Crossed(p))
           /\ IsFiniteSet(Crossed(p) \ Uncounted(p))
           /\ Cardinality(Crossed(p) \ Uncounted(p)) \in Nat
           /\ Crossed(p) = {m \in job[p].sent : ~Untouched(m, Kind(p))}
<1>1. Crossed(p) \subseteq job[p].sent
  BY DEF Crossed
<1>2. IsFiniteSet(Crossed(p)) /\ IsFiniteSet(Crossed(p) \ Uncounted(p))
  BY <1>1, FS_Subset
<1>3. Cardinality(Crossed(p) \ Uncounted(p)) \in Nat
  BY <1>2, FS_CardinalityType
<1>4. \A m \in job[p].sent : lands[<<m, Kind(p)>>] \in Nat
  BY JobType DEF Jobs, TypeInv, TypeOK, Writes, Kinds, Kind
<1>5. Crossed(p) = {m \in job[p].sent : ~Untouched(m, Kind(p))}
  BY <1>4 DEF Crossed, Untouched
<1> QED
  BY <1>1, <1>2, <1>3, <1>5

(* A smaller set of crossed writes is no more than what was counted. *)
LEMMA FewerCounted ==
    ASSUME NEW S, NEW T, IsFiniteSet(S), T \subseteq S, NEW n \in Nat, Cardinality(S) <= n
    PROVE  Cardinality(T) <= n /\ IsFiniteSet(T)
<1>1. /\ IsFiniteSet(T) /\ Cardinality(T) <= Cardinality(S)
      /\ Cardinality(T) \in Nat /\ Cardinality(S) \in Nat
  BY FS_Subset, FS_CardinalityType
<1> QED
  BY <1>1

(* A worker is not disturbed by what happens outside its batch. *)
LEMMA Undisturbed ==
    ASSUME TypeInv, TypeInv', NEW q \in Workers, pc[q] # "idle", Grounded(q), Accounts(q),
           pc'[q] = pc[q], cur'[q] = cur[q], job'[q] = job[q], Own(q),
           \A n \in job[q].scope :
              /\ latest'[n] = latest[n] /\ auth'[n] = auth[n]
              /\ \A k \in Kinds : Untouched(n, k) => Untouched(n, k)'
           , \A w \in Writes : lands[w] > 0 => lands'[w] > 0,
           file' = "ok" => file = "ok"
    PROVE  Grounded(q)' /\ Accounts(q)'
<1>1. /\ Kind(q)' = Kind(q) /\ Kind(q) \in Kinds
      /\ job[q] \in Jobs /\ job[q].scope \subseteq Mutations
      /\ Held(q)' = Held(q) /\ Uncounted(q)' = Uncounted(q)
  BY JobType DEF Kind, Kinds, Held, Uncounted
<1>2. /\ job[q].pending \subseteq job[q].scope
      /\ pc[q] \in HoldingSteps => cur[q] \in job[q].scope
  BY DEF Own, OwnsPlan
<1>3. \A n \in job[q].scope : lands[<<n, Kind(q)>>] > 0 => lands'[<<n, Kind(q)>>] > 0
  BY <1>1 DEF Writes
<1>4. Grounded(q)'
  <2>1. (pc[q] \in ProvedSteps => lands[<<cur[q], Kind(q)>>] > 0)'
    BY <1>1, <1>2, <1>3 DEF Grounded, ProvedSteps, HoldingSteps, DispatchSteps
  <2>2. (Kind(q) = "restore" /\ pc[q] \in {"claim_restore", "send", "wait"} =>
            LineageMatches(q, cur[q]))'
    BY <1>1, <1>2 DEF Grounded, LineageMatches, HoldingSteps, DispatchSteps
  <2>3. (pc[q] \in ThawedSteps => \A m \in job[q].scope : ~Frozen(m))'
    BY DEF Grounded, Frozen
  <2>4. (Kind(q) = "apply" /\ pc[q] \notin {"refreeze", "freeze"} =>
            \A m \in job[q].pending : ~Frozen(m))'
    BY <1>1, <1>2 DEF Grounded, Frozen
  <2> QED
    BY <2>1, <2>2, <2>3, <2>4 DEF Grounded
<1>5. Accounts(q)'
  <2>1. /\ IsFiniteSet(job[q].sent) /\ job[q].sent \subseteq job[q].scope
        /\ job[q].writes \in Nat
    BY <1>1 DEF Accounts, Jobs
  <2>2. Crossed(q)' \subseteq Crossed(q)
    <3>1. Crossed(q) = {m \in job[q].sent : ~Untouched(m, Kind(q))}
      BY <2>1, CrossedSent
    <3>2. \A m \in job[q].sent : lands'[<<m, Kind(q)>>] \in Nat
      BY <1>1, <2>1 DEF TypeInv, TypeOK, Writes
    <3>3. Crossed(q)' = {m \in job[q].sent : ~Untouched(m, Kind(q))'}
      BY <1>1, <3>2 DEF Crossed, Untouched, InFlight
    <3>4. \A m \in job[q].sent : Untouched(m, Kind(q)) => Untouched(m, Kind(q))'
      BY <1>1, <2>1
    <3> QED
      BY <3>1, <3>3, <3>4
  <2>3. (Kind(q) = "apply" => Cardinality(Crossed(q) \ Uncounted(q)) <= job[q].writes)'
    <3> SUFFICES ASSUME Kind(q) = "apply"
                 PROVE  Cardinality(Crossed(q)' \ Uncounted(q)) <= job[q].writes
      BY <1>1
    <3>1. IsFiniteSet(Crossed(q) \ Uncounted(q))
      BY <2>1, CrossedSent
    <3>2. Cardinality(Crossed(q) \ Uncounted(q)) <= job[q].writes
      BY DEF Accounts
    <3>3. Crossed(q)' \ Uncounted(q) \subseteq Crossed(q) \ Uncounted(q)
      BY <2>2
    <3> HIDE DEF Crossed, Uncounted
    <3> QED
      BY <2>1, <3>1, <3>2, <3>3, FewerCounted
  <2>4. VerifiedTruly(q)'
    <3>1. job[q].verified \subseteq job[q].scope /\ VerifiedTruly(q)
      BY <2>1 DEF Accounts, VerifiedTruly
    <3> QED
      BY <1>1, <1>3, <3>1 DEF VerifiedTruly, State
  <2>5. (pc[q] \in EarlySteps => Early(q))'
    BY DEF Accounts, Early
  <2>6. (pc[q] \in LoopSteps => Looping(q))'
    BY <1>1 DEF Accounts, Looping
  <2>7. (pc[q] = "freeze" => Listed(q))'
    BY DEF Accounts, Listed
  <2>8. (pc[q] = "done" =>
           /\ job[q].writes > 0 => Listed(q)
           /\ job[q].status \in {"applied", "rolled_back"} =>
                 job[q].failed = {} /\ job[q].unattempted = {})'
    BY DEF Accounts, Listed
  <2>9. /\ (pc[q] # "done" => job[q].status \notin {"applied", "rolled_back"})'
        /\ (job[q].op = "rollback_one" => \E m \in Mutations : job[q].scope = {m})'
        /\ (job[q].sent \subseteq job[q].scope /\ IsFiniteSet(job[q].sent))'
    BY DEF Accounts
  <2> QED
    BY <2>3, <2>4, <2>5, <2>6, <2>7, <2>8, <2>9 DEF Accounts
<1> QED
  BY <1>4, <1>5

(* Workers of other plans cannot disturb it. *)
LEMMA OthersConduct ==
    ASSUME TypeInv, TypeInv', WriteInv, ConductInv, NEW p \in Workers, NEW P \in Plans,
           Moved(p), Elsewhere(p, P), NEW q \in Workers, q # p, pc[q] # "idle",
           PlanHeld(q) # P, UNCHANGED lands, file' = "ok" => file = "ok"
    PROVE  Grounded(q)' /\ Accounts(q)'
<1>1. /\ pc'[q] = pc[q] /\ cur'[q] = cur[q] /\ job'[q] = job[q]
      /\ Grounded(q) /\ Accounts(q) /\ Own(q)
  BY InvParts DEF Moved, ConductInv
<1>2. \A n \in job[q].scope :
         /\ latest'[n] = latest[n] /\ auth'[n] = auth[n]
         /\ \A k \in Kinds : Untouched(n, k) => Untouched(n, k)'
  BY <1>1, BatchInPlan DEF Own, Elsewhere
<1> QED
  BY <1>1, <1>2, Undisturbed

-----------------------------------------------------------------------------
(* A restore is asked for under its receipt.                                 *)

(* A worker that waits was not waiting before, or nothing of its own changed. *)
LEMMA MatchesStep ==
    ASSUME TypeInv, WriteInv, ConductInv, NEW p \in Workers, Step(p), ~Return(p),
           NEW q \in requests'
    PROVE  Matches(q)'
<1> SUFFICES ASSUME q.kind = "restore", Awaited(q)'
             PROVE  (/\ auth[q.mutation].approval = job[q.by].approval
                     /\ q.from = ExecutionFlag[job[q.by].approval][q.mutation])'
  BY DEF Matches
<1>1. /\ pc[p] # "idle" /\ Moved(p) /\ Elsewhere(p, PlanHeld(p)) /\ Own(p)
      /\ pc'[p] = "wait" => pc[p] = "send"
      /\ PlanHeld(p) \in Plans /\ Grounded(p)
  BY StepKeeps, StepMail, Live DEF Keeps, ConductInv
<1>2. q \in Requests
  BY StepMoved DEF KeptData
<1>3. CASE q.by = p
  <2>1. pc'[p] = "wait" /\ pc[p] = "send"
    BY <1>1, <1>3 DEF Awaited
  <2>2. Send(p)
    BY <2>1, StepAtSend
  <2>3. /\ UNCHANGED <<cur, auth>> /\ SameCall(job'[p], job[p])
        /\ requests' = requests \cup
              {[mutation |-> cur[p], kind |-> Kind(p), by |-> p,
                from |-> From(p, cur[p]), to |-> To(p, cur[p])]}
    BY <1>1, <2>1, <2>2 DEF Send, ledgerVars, Moved, Goto, TypeInv, TypeOK
  <2>4. cur[p] = q.mutation /\ Kind(p) = "restore"
    BY <1>3, <2>3 DEF Awaited, Kind, SameCall
  <2>5. cur[p] \in Mutations /\ Kind(p) \in Kinds
    BY <2>1, FlagTypes DEF HoldingSteps, DispatchSteps
  <2>6. q \notin requests
    BY <1>1, <2>1, <2>4, <2>5 DEF Own, ClaimsFirst, BeforeWriteSteps, Untouched, InFlight
  <2>7. q.from = auth[cur[p]].intended
    BY <2>3, <2>4, <2>6 DEF From
  <2>8. LineageMatches(p, cur[p])
    BY <1>1, <2>1, <2>4 DEF Grounded
  <2>9. auth[cur[p]].intended = ExecutionFlag[auth[cur[p]].approval][cur[p]]
    BY <2>5, <2>8 DEF ConductInv, Proved, LineageMatches, State, AuthoritativeState
  <2> QED
    BY <1>3, <2>3, <2>4, <2>7, <2>8, <2>9 DEF LineageMatches, SameCall
<1>4. CASE q.by # p
  <2> DEFINE w == q.by
  <2>1. /\ w \in Workers /\ pc'[w] = pc[w] /\ cur'[w] = cur[w] /\ job'[w] = job[w]
    BY <1>1, <1>2, <1>4 DEF Moved, Requests
  <2>2. /\ Awaited(q) /\ pc[w] = "wait" /\ cur[w] = q.mutation
    BY <2>1 DEF Awaited, Kind
  <2>3. q \in requests
    BY <1>4, StepMail
  <2>4. PlanHeld(w) # PlanHeld(p)
    BY <1>1, <1>4, <2>1, <2>2, OtherPlan
  <2>5. PlanOf[q.mutation] = PlanHeld(w) /\ q.mutation \in Mutations
    BY <2>1, <2>2, Live DEF HoldingSteps, DispatchSteps
  <2>6. auth'[q.mutation] = auth[q.mutation]
    BY <1>1, <2>4, <2>5 DEF Elsewhere
  <2> QED
    BY <2>1, <2>2, <2>3, <2>6 DEF ConductInv, Matches
<1> QED
  BY <1>3, <1>4

(* No other step makes a worker wait, and none of them changes a receipt. *)
LEMMA MatchesElse ==
    ASSUME TypeInv, ConductInv, requests' \subseteq requests, UNCHANGED auth,
           \A w \in Workers : pc'[w] = "wait" =>
              pc[w] = "wait" /\ cur'[w] = cur[w] /\ job'[w] = job[w],
           NEW q \in requests'
    PROVE  Matches(q)'
<1>1. q \in requests /\ q.by \in Workers
  BY DEF TypeInv, TypeOK, Requests
<1>2. Matches(q)
  BY <1>1 DEF ConductInv
<1> QED
  BY <1>1, <1>2 DEF Matches, Awaited, Kind

-----------------------------------------------------------------------------
(* What a worker holds after its own step.                                   *)

(* How a worker comes to hold a proved write or a restore. *)
LEMMA StepHolds ==
    ASSUME TypeInv, NEW p \in Workers, Step(p),
           pc'[p] \in ProvedSteps \cup {"claim_restore", "send", "wait"}
    PROVE  \/ /\ cur'[p] = cur[p]
              /\ \/ pc[p] \in ProvedSteps \ {"noop"} /\ pc'[p] \in ProvedSteps
                 \/ pc[p] \in {"send", "claim_restore"} /\ pc'[p] \in {"send", "wait"}
                 \/ pc[p] = "recheck" /\ pc'[p] = "send"
           \/ /\ cur'[p] \in Mutations /\ UNCHANGED auth
              /\ \/ pc'[p] = "noop" /\ State(cur'[p]) = "rolled_back"
                 \/ pc'[p] = "claim_restore" /\ LineageMatches(p, cur'[p])
<1>1. /\ pc \in [Workers -> Steps]
      /\ cur \in [Workers -> Mutations \cup {NoMutation}]
  BY DEF TypeInv, TypeOK
<1>2. CASE \/ Send(p) \/ Recheck(p) \/ Readback(p) \/ RecordAutomationState(p)
           \/ Timeout(p)
  BY <1>1, <1>2 DEF Send, Recheck, Readback, RecordAutomationState, Timeout, Goto,
     ProvedSteps
<1>3. CASE LogRestoreRow(p)
  BY <1>1, <1>3 DEF LogRestoreRow, OuterHandler, Fail, Finish, Goto, ProvedSteps
<1>4. CASE \E m \in Mutations : Scope(p, m)
  <2>1. PICK m \in Mutations : Scope(p, m)
    BY <1>4
  <2>2. UNCHANGED auth
    BY <2>1 DEF Scope, ledgerVars
  <2>3. CASE pc'[p] \in {"noop", "claim_restore"}
    BY <1>1, <2>1, <2>2, <2>3 DEF Scope, OuterHandler, Fail, Finish, Goto
  <2>4. CASE pc'[p] \notin {"noop", "claim_restore"}
    BY <1>1, <2>1, <2>4 DEF Scope, OuterHandler, Fail, Finish, Goto, ProvedSteps
  <2> QED
    BY <2>3, <2>4
<1>5. CASE \/ NextPhase(p) \/ RecordDivergence(p) \/ Return(p)
           \/ \E m \in Mutations : Preflight(p, m)
  <2>1. pc'[p] \notin ProvedSteps \cup {"claim_restore", "send", "wait"}
    BY <1>1, <1>5 DEF NextPhase, RecordDivergence, Return, Preflight, Goto, Proceed,
       Blocked, Finish, ProvedSteps
  <2> QED
    BY <2>1
<1>6. CASE \/ Authorize(p) \/ Deadline(p) \/ AllApplied(p) \/ AllRestored(p)
           \/ Classify(p) \/ CheckDone(p)
  <2>1. pc'[p] \notin ProvedSteps \cup {"claim_restore", "send", "wait"}
    BY <1>1, <1>6 DEF Authorize, Deadline, AllApplied, AllRestored, Classify, CheckDone,
       OuterHandler, Goto, Blocked, Finish, ProvedSteps
  <2> QED
    BY <2>1
<1>7. CASE \/ Ambiguous(p) \/ Refused(p) \/ PrivateStateFailed(p)
           \/ RecordDrift(p) \/ RecordHuman(p)
  <2>1. pc'[p] \notin ProvedSteps \cup {"claim_restore", "send", "wait"}
    BY <1>1, <1>7 DEF Ambiguous, Refused, PrivateStateFailed, RecordDrift, RecordHuman,
       Fail, Finish, Goto, ProvedSteps
  <2> QED
    BY <2>1
<1>8. CASE Verify(p) \/ Finalize(p) \/ RecordRestored(p)
  BY <1>1, <1>8 DEF Verify, Finalize, RecordRestored, Fail, Finish, Goto, ProvedSteps
<1>9. CASE \E m \in Mutations : LogRow(p, m) \/ ClaimApply(p, m) \/ CheckCandidate(p, m)
  <2>1. PICK m \in Mutations : LogRow(p, m) \/ ClaimApply(p, m) \/ CheckCandidate(p, m)
    BY <1>9
  <2>2. pc'[p] \notin ProvedSteps \cup {"claim_restore", "send", "wait"}
    BY <1>1, <2>1 DEF LogRow, ClaimApply, CheckCandidate, OuterHandler, Finish, Goto,
       RowSteps, ProvedSteps
  <2> QED
    BY <2>2
<1> QED
  BY <1>2, <1>3, <1>4, <1>5, <1>6, <1>7, <1>8, <1>9 DEF Step

(* What a worker holds is proved, or its restore is under its own receipt. *)
LEMMA HoldsStep ==
    ASSUME TypeInv, WriteInv, ConductInv, NEW p \in Workers, Step(p), ~Return(p)
    PROVE  /\ pc'[p] \in ProvedSteps => lands'[<<cur'[p], Kind(p)'>>] > 0
           /\ Kind(p)' = "restore" /\ pc'[p] \in {"claim_restore", "send", "wait"} =>
                 LineageMatches(p, cur[p])'
<1>1. /\ pc[p] # "idle" /\ Moved(p) /\ UNCHANGED lands /\ Grounded(p)
  BY StepKeeps, StepMail DEF ConductInv
<1>2. CASE pc'[p] = "idle"
  BY <1>2 DEF ProvedSteps
<1>3. CASE pc'[p] # "idle"
  <2>1. /\ Kind(p)' = Kind(p) /\ Kind(p) \in Kinds
        /\ job'[p].approval = job[p].approval
    BY <1>1, <1>3 DEF Moved, SameCall, Kind, Kinds
  <2>2. ASSUME pc'[p] \in ProvedSteps PROVE lands'[<<cur'[p], Kind(p)'>>] > 0
    <3>1. CASE cur'[p] = cur[p] /\ pc[p] \in ProvedSteps
      BY <1>1, <2>1, <3>1 DEF Grounded
    <3>2. CASE cur'[p] \in Mutations /\ pc'[p] = "noop" /\ State(cur'[p]) = "rolled_back"
      <4>1. Kind(p)' = "restore"
        BY <1>1, <3>2 DEF Moved, RestoreSteps, Kind
      <4>2. auth[cur'[p]].status = "rolled_back"
        BY <3>2 DEF State, AuthoritativeState
      <4> QED
        BY <1>1, <3>2, <4>1, <4>2 DEF ConductInv, Proved
    <3> QED
      BY <2>2, <3>1, <3>2, StepHolds DEF ProvedSteps
  <2>3. ASSUME Kind(p)' = "restore", pc'[p] \in {"claim_restore", "send", "wait"}
        PROVE  LineageMatches(p, cur[p])'
    <3>1. CASE pc[p] \in {"send", "claim_restore"} /\ cur'[p] = cur[p]
      <4>1. LineageMatches(p, cur[p])
        BY <1>1, <2>1, <2>3, <3>1 DEF Grounded
      <4>2. pc[p] \in HoldingSteps
        BY <3>1 DEF HoldingSteps, DispatchSteps
      <4>3. cur[p] \in Mutations
        BY <4>2, FlagTypes
      <4>4. auth'[cur[p]] = auth[cur[p]]
        <5>1. CASE UNCHANGED ledgerVars
          BY <5>1 DEF ledgerVars
        <5>2. ASSUME NEW n \in job[p].scope, NEW s \in Statuses, Appends(p, n, s),
                     Appended(RowFor(p, n, s)) \/ AppendFailed(RowFor(p, n, s))
              PROVE  auth'[cur[p]] = auth[cur[p]]
          <6>1. n \in Mutations
            BY <1>1, Live
          <6>2. s \notin AuthoritativeStatuses
            BY <3>1, <5>2 DEF Appends, RowSteps
          <6> QED
            BY <1>1, <4>3, <5>2, <6>1, <6>2, RowEffect
        <5> QED
          BY <5>1, <5>2, StepRow
      <4> QED
        BY <2>1, <3>1, <4>1, <4>4 DEF LineageMatches
    <3>2. CASE pc[p] = "recheck"
      BY <2>1, <2>3, <3>2 DEF TypeInv, Working, ApplySteps
    <3>3. CASE LineageMatches(p, cur'[p]) /\ UNCHANGED auth
      BY <2>1, <3>3 DEF LineageMatches
    <3> QED
      BY <2>3, <3>1, <3>2, <3>3, StepHolds DEF ProvedSteps
  <2> QED
    BY <2>2, <2>3
<1> QED
  BY <1>2, <1>3

(* The only ways on from "loop". *)
LEMMA StepAtLoop ==
    ASSUME NEW p \in Workers, Step(p), pc[p] = "loop"
    PROVE  Deadline(p) \/ AllApplied(p) \/ \E m \in Mutations : ClaimApply(p, m)
BY DEF Step, Authorize, NextPhase, Recheck, Send, Timeout, Readback,
   Ambiguous, Refused, RecordDrift, Verify, RecordAutomationState,
   PrivateStateFailed, Finalize, Classify, RecordDivergence, CheckDone,
   LogRestoreRow, RecordHuman, RecordRestored, AllRestored, Return, LogRow,
   Preflight, CheckCandidate, Scope, RowSteps

(* An apply looks for frozen mutations once, and only lets go of pending ones. *)
LEMMA StepPending ==
    ASSUME TypeInv, NEW p \in Workers, Step(p), Kind(p) = "apply",
           pc'[p] \notin {"refreeze", "freeze", "done", "idle"}, pc[p] # "loop"
    PROVE  \/ /\ pc'[p] = "replay" /\ UNCHANGED latest
              /\ \A m \in job[p].scope : ~Frozen(m)
           \/ /\ pc'[p] \in ThawedSteps => pc[p] \in ThawedSteps
              /\ pc[p] \notin {"refreeze", "freeze", "authorize"}
              /\ job'[p].pending \subseteq job[p].pending
<1> DEFINE k == job[p]
<1>1. /\ pc \in [Workers -> Steps] /\ job \in [Workers -> Jobs]
      /\ k \in Jobs /\ pc[p] \notin RestoreSteps
  BY JobType DEF TypeInv, TypeOK, Working
<1>2. ASSUME NEW S, NEW T
      PROVE  /\ [k EXCEPT !.todo = S].pending = k.pending
             /\ [k EXCEPT !.todo = S, !.bad = T].pending = k.pending
             /\ [k EXCEPT !.sent = S].pending = k.pending
             /\ [k EXCEPT !.seen = S].pending = k.pending
             /\ [k EXCEPT !.writes = S].pending = k.pending
             /\ [k EXCEPT !.verified = S].pending = k.pending
  <2> HIDE DEF k
  <2> QED
    BY <1>1 DEF Jobs
<1>3. CASE Authorize(p)
  <2>1. pc'[p] # "done"
    OBVIOUS
  <2> QED
    BY <1>1, <1>3, <2>1 DEF Authorize, OuterHandler, Blocked, Finish, Goto, ledgerVars
<1>4. CASE NextPhase(p)
  <2>1. /\ pc[p] \in RowSteps \cup {"preflight"}
        /\ \E S : \/ Proceed(p, "refuse", S) /\ pc[p] = "replay"
                  \/ Proceed(p, "preflight", S) /\ pc[p] = "replay"
                  \/ Proceed(p, "block", S) /\ pc[p] = "preflight"
                  \/ Proceed(p, "pass", S) /\ pc[p] = "preflight"
                  \/ Proceed(p, "loop", S) /\ pc[p] = "pass"
    BY <1>1, <1>4 DEF NextPhase, Blocked, Finish, Proceed, Goto
  <2>2. PICK S : \E s : Proceed(p, s, S)
    BY <2>1
  <2>3. job'[p] = [k EXCEPT !.todo = S]
    BY <1>1, <2>2 DEF Proceed, SetJob
  <2> QED
    BY <1>1, <1>2, <2>1, <2>3 DEF ThawedSteps
<1>5. CASE \E m \in Mutations : LogRow(p, m) \/ Preflight(p, m)
  <2>1. PICK m \in Mutations : LogRow(p, m) \/ Preflight(p, m)
    BY <1>5
  <2>2. /\ pc'[p] = pc[p] /\ pc[p] \in RowSteps \cup {"preflight"}
        /\ \E S, T : \/ job'[p] = [k EXCEPT !.todo = S]
                     \/ job'[p] = [k EXCEPT !.todo = S, !.bad = T]
    BY ZenonT(40), <1>1, <2>1 DEF LogRow, Preflight, OuterHandler, Finish, Goto, SetJob
  <2>3. PICK S, T : \/ job'[p] = [k EXCEPT !.todo = S]
                    \/ job'[p] = [k EXCEPT !.todo = S, !.bad = T]
    BY <2>2
  <2>4. job'[p].pending = k.pending
    <3>1. /\ [k EXCEPT !.todo = S].pending = k.pending
          /\ [k EXCEPT !.todo = S, !.bad = T].pending = k.pending
      BY <1>2
    <3> HIDE DEF k
    <3> QED
      BY <2>3, <3>1
  <2> QED
    BY <2>2, <2>4 DEF RowSteps, ThawedSteps
<1>6. CASE Recheck(p) \/ RecordAutomationState(p)
  BY <1>1, <1>6 DEF Recheck, RecordAutomationState, Goto, ThawedSteps
<1>7. CASE Send(p) \/ Timeout(p) \/ Readback(p)
  <2>1. /\ pc[p] \in {"send", "wait", "readback"}
        /\ pc'[p] \in {"refused", "wait", "ambiguous", "verify", "restored"}
        /\ \E S : \/ job'[p] = k
                  \/ job'[p] = [k EXCEPT !.sent = S]
                  \/ job'[p] = [k EXCEPT !.writes = S]
    BY <1>1, <1>7 DEF Send, Timeout, Readback, Goto, SetJob
  <2>2. PICK S : \/ job'[p] = k
                 \/ job'[p] = [k EXCEPT !.sent = S]
                 \/ job'[p] = [k EXCEPT !.writes = S]
    BY <2>1
  <2>3. job'[p].pending = k.pending
    <3> HIDE DEF k
    <3> QED
      BY <1>2, <2>2
  <2> QED
    BY <2>1, <2>3 DEF ThawedSteps
<1>8. CASE \/ Ambiguous(p) \/ Refused(p) \/ PrivateStateFailed(p)
           \/ RecordDrift(p) \/ Verify(p) \/ Finalize(p)
  <2>1. /\ pc[p] \in {"drift", "verify", "final"}
        /\ pc'[p] \in {"refused", "private_state", "loop"}
        /\ \E S : \/ job'[p] = k
                  \/ job'[p] = [k EXCEPT !.verified = S]
    BY <1>1, <1>8 DEF Ambiguous, Refused, PrivateStateFailed, RecordDrift, Verify,
       Finalize, Fail, Goto, SetJob
  <2> QED
    BY ZenonT(40), <1>2, <2>1 DEF ThawedSteps
<1>9. CASE \/ Deadline(p) \/ AllApplied(p) \/ AllRestored(p) \/ Return(p)
           \/ Classify(p) \/ RecordDivergence(p) \/ CheckDone(p) \/ LogRestoreRow(p)
           \/ RecordHuman(p) \/ RecordRestored(p)
  BY <1>1, <1>9 DEF Deadline, AllApplied, AllRestored, Return, Classify,
     RecordDivergence, CheckDone, LogRestoreRow, RecordHuman, RecordRestored,
     RestoreSteps, Goto
<1>10. CASE \E m \in Mutations : ClaimApply(p, m) \/ CheckCandidate(p, m) \/ Scope(p, m)
  BY <1>1, <1>10 DEF ClaimApply, CheckCandidate, Scope, RestoreSteps
<1> QED
  BY <1>3, <1>4, <1>5, <1>6, <1>7, <1>8, <1>9, <1>10 DEF Step

(* Ahead of an apply nothing is frozen. *)
LEMMA ThawedStep ==
    ASSUME TypeInv, WriteInv, ConductInv, NEW p \in Workers, Step(p), ~Return(p),
           pc'[p] # "idle"
    PROVE  /\ (pc[p] \in ThawedSteps => \A m \in job[p].scope : ~Frozen(m))'
           /\ (Kind(p) = "apply" /\ pc[p] \notin {"refreeze", "freeze"} =>
                  \A m \in job[p].pending : ~Frozen(m))'
<1>1. /\ pc[p] # "idle" /\ Moved(p) /\ Grounded(p)
      /\ job[p].pending \subseteq job[p].scope /\ job[p].todo \subseteq job[p].scope
      /\ \A m \in job[p].scope : m \in Mutations
  BY StepKeeps, Live DEF ConductInv
<1>2. CASE pc'[p] = "done" \/ Kind(p)' # "apply"
  <2>1. pc'[p] = "done" => job'[p].pending = {}
    BY <1>1 DEF Moved
  <2>2. pc'[p] \in ThawedSteps => Kind(p)' = "apply"
    BY <1>1 DEF Moved, Kind, ThawedSteps, ApplySteps, RowSteps
  <2> QED
    BY <1>2, <2>1, <2>2 DEF ThawedSteps
<1>3. CASE pc'[p] # "done" /\ Kind(p)' = "apply"
  <2>1. Kind(p) = "apply" /\ job'[p].scope = job[p].scope
    BY <1>1, <1>3 DEF Moved, SameCall, Kind
  <2>2. CASE pc[p] = "loop"
    <3>1. pc'[p] # "done"
      BY <1>3
    <3>2. PICK m \in Mutations : ClaimApply(p, m)
      BY <2>2, <3>1, StepAtLoop DEF Deadline, AllApplied, Finish, Goto, TypeInv, TypeOK
    <3>3. /\ Appended(RowFor(p, m, "applying")) /\ m \in job[p].pending
          /\ pc'[p] = "recheck"
          /\ job' = [job EXCEPT ![p] = [job[p] EXCEPT !.pending = @ \ {m}]]
      BY <3>1, <3>2 DEF ClaimApply, Finish, Goto, SetJob, TypeInv, TypeOK
    <3>4. job'[p].pending = job[p].pending \ {m}
      BY <3>3, JobType DEF Jobs, TypeInv, TypeOK
    <3>5. \A n \in Mutations \ {m} : latest'[n] = latest[n]
      BY <1>1, <3>3, RowEffect DEF Statuses
    <3>6. \A n \in job[p].pending : ~Frozen(n)
      BY <2>1, <2>2, <1>1 DEF Grounded
    <3> QED
      BY <1>1, <3>3, <3>4, <3>5, <3>6 DEF Frozen, ThawedSteps
  <2>3. CASE pc'[p] = "replay" /\ UNCHANGED latest /\ \A m \in job[p].scope : ~Frozen(m)
    <3>1. job'[p].pending \subseteq job[p].scope
      BY <1>1, <1>3, StepKeeps, <2>1 DEF Keeps, Own, OwnsPlan
    <3> QED
      BY <2>1, <2>3, <3>1 DEF Frozen
  <2>4. CASE /\ pc'[p] \in ThawedSteps => pc[p] \in ThawedSteps
             /\ pc[p] \notin {"refreeze", "freeze", "loop", "authorize"}
             /\ job'[p].pending \subseteq job[p].pending
    <3>1. /\ pc'[p] \in ThawedSteps => \A m \in job[p].scope : ~Frozen(m)
          /\ \A m \in job[p].pending : ~Frozen(m)
      BY <1>1, <2>1, <2>4 DEF Grounded
    <3>2. CASE UNCHANGED ledgerVars
      BY <2>1, <2>4, <3>1, <3>2 DEF Frozen, ledgerVars
    <3>3. ASSUME NEW n \in job[p].scope, NEW s \in Statuses, Appends(p, n, s),
                 Appended(RowFor(p, n, s)) \/ AppendFailed(RowFor(p, n, s))
          PROVE  /\ pc'[p] \in ThawedSteps => \A m \in job[p].scope : ~Frozen(m)'
                 /\ \A m \in job[p].pending : ~Frozen(m)'
      <4>1. /\ \A m \in Mutations \ {n} : latest'[m] = latest[m]
            /\ latest'[n] \in {latest[n], s}
        BY <1>1, <3>3, RowEffect
      <4>2. CASE pc[p] \in RowSteps
        <5>1. s \notin FrozenLatestStatuses
          BY <2>4, <3>3, <4>2
          DEF Appends, RowSteps, RowStatus, FrozenLatestStatuses, HoldingSteps, DispatchSteps
        <5> QED
          BY <1>1, <3>1, <4>1, <5>1 DEF Frozen
      <4>3. CASE pc[p] \in HoldingSteps /\ n = cur[p]
        <5>1. n \notin job[p].pending
          BY <1>1, <2>1, <4>3, Live DEF ApplyOnTrack
        <5>2. pc'[p] \notin ThawedSteps
          BY <2>4, <4>3 DEF ThawedSteps, HoldingSteps, DispatchSteps
        <5> QED
          BY <1>1, <3>1, <4>1, <5>1, <5>2 DEF Frozen
      <4> QED
        BY <2>4, <3>3, <4>2, <4>3 DEF Appends
    <3> QED
      BY <2>1, <2>4, <3>2, <3>3, StepRow DEF Frozen
  <2>5. CASE pc'[p] \in {"refreeze", "freeze"}
    BY <2>5 DEF ThawedSteps
  <2> QED
    BY <1>3, <2>1, <2>2, <2>3, <2>4, <2>5, StepPending
<1> QED
  BY <1>2, <1>3

-----------------------------------------------------------------------------
(* A report adds up: what the steps leave in place.                          *)

(* A worker never writes a row about a mutation it has verified. *)
LEMMA RowsSpare ==
    ASSUME TypeInv, WriteInv, ConductInv, NEW p \in Workers, Step(p), ~Return(p)
    PROVE  /\ \A m \in job[p].verified : auth'[m] = auth[m]
           /\ file' = "ok" => file = "ok"
<1>1. /\ pc[p] # "idle" /\ Accounts(p) /\ job[p].verified \subseteq Mutations
      /\ \A m \in job[p].scope : m \in Mutations
  BY StepKeeps, Live, JobType DEF ConductInv, Jobs
<1>2. CASE UNCHANGED ledgerVars
  BY <1>2 DEF ledgerVars
<1>3. ASSUME NEW n \in job[p].scope, NEW s \in Statuses, Appends(p, n, s),
             Appended(RowFor(p, n, s)) \/ AppendFailed(RowFor(p, n, s)),
             NEW m \in job[p].verified
      PROVE  auth'[m] = auth[m]
  <2>1. m # n \/ s \notin AuthoritativeStatuses
    <3>1. CASE pc[p] \in RowSteps \cup {"loop"}
      BY <1>3, <3>1 DEF Appends, RowStatus, AuthoritativeStatuses, RowSteps, HoldingSteps,
         DispatchSteps
    <3>2. CASE pc[p] \in HoldingSteps /\ n = cur[p]
      <4>1. CASE pc[p] \in LoopSteps
        BY <1>1, <1>3, <3>2, <4>1 DEF Accounts, Looping, Held
      <4>2. CASE pc[p] \notin LoopSteps
        BY <1>1, <1>3, <3>2, <4>2
        DEF Accounts, Early, EarlySteps, LoopSteps, HoldingSteps
      <4> QED
        BY <4>1, <4>2
    <3> QED
      BY <1>3, <3>1, <3>2 DEF Appends
  <2> QED
    BY ZenonT(40), <1>1, <1>3, <2>1, RowEffect
<1>4. ASSUME NEW n \in job[p].scope, NEW s \in Statuses,
             Appended(RowFor(p, n, s)) \/ AppendFailed(RowFor(p, n, s)), file' = "ok"
      PROVE  file = "ok"
  BY <1>1, <1>4, RowEffect
<1> QED
  BY <1>2, <1>3, <1>4, StepRow

(* What a worker verified before stays true. *)
LEMMA VerifiedStays ==
    ASSUME TypeInv, WriteInv, ConductInv, NEW p \in Workers, Step(p), ~Return(p),
           Kind(p)' = Kind(p), job'[p].verified \in {job[p].verified, {}},
           job[p].sent \subseteq job'[p].sent
    PROVE  VerifiedTruly(p)'
<1>1. /\ UNCHANGED lands /\ VerifiedTruly(p)
      /\ \A m \in job[p].verified : auth'[m] = auth[m]
      /\ file' = "ok" => file = "ok"
  BY RowsSpare, StepMail, StepKeeps DEF ConductInv, Accounts
<1> QED
  BY <1>1 DEF VerifiedTruly, State

(* A step that sends nothing and counts nothing. *)
LEMMA CountStays ==
    ASSUME TypeInv, NEW p \in Workers, Accounts(p), UNCHANGED <<requests, lands>>,
           Kind(p)' = Kind(p), job'[p].sent = job[p].sent, job'[p].scope = job[p].scope,
           Kind(p) = "apply" => job'[p].writes = job[p].writes,
           {pc[p], pc'[p]} \cap {"wait", "readback"} = {}
    PROVE  (/\ job[p].sent \subseteq job[p].scope /\ IsFiniteSet(job[p].sent)
            /\ Kind(p) = "apply" =>
                  Cardinality(Crossed(p) \ Uncounted(p)) <= job[p].writes)'
<1>1. Crossed(p)' = Crossed(p)
  BY DEF Crossed, InFlight
<1>2. Uncounted(p)' = Uncounted(p)
  BY DEF Uncounted
<1> QED
  BY <1>1, <1>2 DEF Accounts

(* A report with nothing written in it. *)
LEMMA EmptyReport ==
    ASSUME NEW p \in Workers,
           pc'[p] \in EarlySteps \cup {"loop", "restore_loop", "done"},
           job'[p].sent = {}, job'[p].writes = 0, job'[p].verified = {},
           job'[p].status \notin {"applied", "rolled_back"},
           job'[p].op = "rollback_one" => \E m \in Mutations : job'[p].scope = {m},
           pc'[p] # "done" => job'[p].failed = {} /\ job'[p].unattempted = {},
           pc'[p] \notin {"authorize", "classify", "done"} =>
              job'[p].scope = job'[p].already \cup job'[p].bad \cup job'[p].pending,
           pc'[p] \in {"pass", "loop", "restore_loop"} => job'[p].bad = {}
    PROVE  Accounts(p)'
<1>1. Crossed(p)' = {}
  BY DEF Crossed
<1>2. /\ IsFiniteSet({}) /\ Cardinality({}) = 0
  BY FS_EmptySet
<1>3. (Kind(p) = "apply" => Cardinality(Crossed(p) \ Uncounted(p)) <= job[p].writes)'
  <2>1. Crossed(p)' \ Uncounted(p)' = {}
    BY <1>1
  <2> HIDE DEF Crossed, Uncounted
  <2> QED
    BY <1>2, <2>1
<1>4. VerifiedTruly(p)'
  BY DEF VerifiedTruly
<1>5. pc'[p] \in LoopSteps => Looping(p)'
  <2>1. pc'[p] \in LoopSteps => pc'[p] \in {"loop", "restore_loop"}
    BY DEF LoopSteps, EarlySteps, RowSteps, DispatchSteps
  <2>2. pc'[p] \in {"loop", "restore_loop"} => Held(p)' = {}
    BY DEF Held, HoldingSteps, DispatchSteps
  <2> QED
    BY <2>1, <2>2 DEF Looping, ProvedSteps
<1>6. pc'[p] \in EarlySteps => Early(p)'
  BY DEF Early, EarlySteps, RowSteps
<1>7. pc'[p] # "freeze"
  BY DEF EarlySteps, RowSteps
<1> QED
  BY <1>2, <1>3, <1>4, <1>5, <1>6, <1>7 DEF Accounts

(* What Finish leaves of the locals. *)
LEMMA FinishReport ==
    ASSUME TypeInv, NEW p \in Workers, NEW j \in Jobs, Finish(p, j)
    PROVE  /\ pc'[p] = "done"
           /\ job'[p].sent = j.sent /\ job'[p].writes = j.writes
           /\ job'[p].verified = j.verified /\ job'[p].failed = j.failed
           /\ job'[p].unattempted = j.unattempted /\ job'[p].already = j.already
           /\ job'[p].status = j.status
<1> DEFINE f == [j EXCEPT !.todo = {}, !.pending = {}, !.bad = {}, !.seen = Unknown]
<1>1. pc'[p] = "done" /\ job'[p] = f
  BY DEF Finish, Goto, SetJob, TypeInv, TypeOK
<1>2. /\ f.sent = j.sent /\ f.writes = j.writes /\ f.verified = j.verified
      /\ f.failed = j.failed /\ f.unattempted = j.unattempted
      /\ f.already = j.already /\ f.status = j.status
  BY DEF Jobs
<1> HIDE DEF f
<1> QED
  BY <1>1, <1>2

(* A step that ends the call without sending or counting anything. *)
LEMMA Concluded ==
    ASSUME TypeInv, WriteInv, ConductInv, NEW p \in Workers, Step(p), ~Return(p),
           pc'[p] = "done", pc[p] \notin {"wait", "readback"},
           job'[p].sent = job[p].sent,
           job'[p].verified \in {job[p].verified, {}},
           Kind(p) = "apply" => job'[p].writes = job[p].writes,
           job'[p].writes > 0 => Listed(p)',
           job'[p].status \in {"applied", "rolled_back"} =>
              job'[p].failed = {} /\ job'[p].unattempted = {}
    PROVE  Accounts(p)'
<1>1. /\ pc[p] # "idle" /\ Moved(p) /\ Accounts(p)
      /\ UNCHANGED <<requests, lands>>
  BY StepKeeps, StepMail DEF ConductInv
<1>2. Kind(p)' = Kind(p) /\ SameCall(job'[p], job[p])
  BY <1>1 DEF Moved, SameCall, Kind
<1>3. VerifiedTruly(p)'
  BY <1>2, VerifiedStays
<1>4. (/\ job[p].sent \subseteq job[p].scope /\ IsFiniteSet(job[p].sent)
       /\ Kind(p) = "apply" =>
             Cardinality(Crossed(p) \ Uncounted(p)) <= job[p].writes)'
  BY <1>1, <1>2, CountStays DEF SameCall
<1>5. (job[p].op = "rollback_one" => \E m \in Mutations : job[p].scope = {m})'
  BY <1>1, <1>2 DEF Accounts, SameCall
<1>6. pc'[p] \notin EarlySteps \cup LoopSteps \cup {"freeze"}
  BY DEF EarlySteps, LoopSteps, RowSteps, DispatchSteps
<1> QED
  BY <1>3, <1>4, <1>5, <1>6 DEF Accounts

(* A step inside the write loop that leaves the locals alone. *)
LEMMA LoopStays ==
    ASSUME TypeInv, WriteInv, ConductInv, NEW p \in Workers, Step(p), ~Return(p),
           pc[p] \in LoopSteps \cap HoldingSteps, pc'[p] \in LoopSteps \cap HoldingSteps,
           {pc[p], pc'[p]} \cap {"wait", "readback"} = {},
           cur'[p] = cur[p], job'[p] = job[p],
           pc'[p] \in ProvedSteps \ {"noop"} => pc[p] \in ProvedSteps \ {"noop"}
    PROVE  Accounts(p)'
<1>1. /\ Accounts(p) /\ Kind(p)' = Kind(p) /\ UNCHANGED <<requests, lands>>
      /\ pc[p] # "idle" /\ pc[p] # "done"
  BY StepMail, StepKeeps DEF ConductInv, Kind, HoldingSteps, DispatchSteps
<1>2. VerifiedTruly(p)'
  BY <1>1, VerifiedStays
<1>3. (/\ job[p].sent \subseteq job[p].scope /\ IsFiniteSet(job[p].sent)
       /\ Kind(p) = "apply" =>
             Cardinality(Crossed(p) \ Uncounted(p)) <= job[p].writes)'
  BY <1>1, CountStays
<1>4. Looping(p)'
  <2>1. Looping(p) /\ Held(p)' = Held(p)
    BY <1>1 DEF Accounts, Held
  <2>2. pc'[p] \in (ProvedSteps \ {"noop"}) \cup {"wait"} => cur[p] \in job[p].sent
    BY <2>1 DEF Looping
  <2> QED
    BY <2>1, <2>2 DEF Looping
<1>5. pc'[p] \notin EarlySteps \cup {"freeze", "done"}
  BY DEF EarlySteps, LoopSteps, RowSteps, DispatchSteps, HoldingSteps
<1> QED
  BY <1>1, <1>2, <1>3, <1>4, <1>5 DEF Accounts

(* A failing item: an apply lists its siblings as unattempted and goes on to   *)
(* freeze them, a restore returns.                                           *)
LEMMA FailReport ==
    ASSUME TypeInv, WriteInv, ConductInv, NEW p \in Workers, Step(p), ~Return(p),
           pc[p] \in LoopSteps \ {"wait", "readback"}, NEW m \in job[p].scope,
           Held(p) \subseteq {m},
           NEW why \in {"ambiguous", "refused", "private_state"}, Fail(p, m, why)
    PROVE  Accounts(p)'
<1> DEFINE k == job[p]
           st == FailureStatus(p, why)
           rest == k.pending \ {m}
           j == [k EXCEPT !.status = st, !.failed = @ \cup {m}, !.unattempted = rest]
           f == [j EXCEPT !.todo = rest, !.pending = {}, !.seen = Unknown]
<1>1. /\ pc[p] # "idle" /\ Moved(p) /\ Accounts(p) /\ Looping(p) /\ k \in Jobs
      /\ m \in Mutations
  BY StepKeeps, JobType, Live DEF ConductInv, Accounts
<1>2. st \in ResultStates /\ st \notin {"applied", "rolled_back"}
  BY DEF FailureStatus, ApplyFailureStatus, RestoreFailureStatus, ResultStates
<1>3. /\ j \in Jobs /\ j.sent = k.sent /\ j.verified = k.verified /\ j.writes = k.writes
      /\ j.status = st /\ j.failed = k.failed \cup {m} /\ j.unattempted = rest
      /\ j.already = k.already /\ j.scope = k.scope /\ j.op = k.op
  <2>1. k.pending \subseteq Mutations /\ k.failed \subseteq Mutations
    BY <1>1 DEF Jobs
  <2>2. rest \subseteq Mutations /\ k.failed \cup {m} \subseteq Mutations
    BY <1>1, <2>1
  <2> HIDE DEF k, st, rest
  <2> QED
    BY <1>1, <1>2, <2>2 DEF Jobs
<1>4. k.already \cup k.verified \cup (k.failed \cup {m}) \cup rest = k.scope
  BY <1>1 DEF Looping
<1>5. CASE Kind(p) = "apply"
  <2>1. pc'[p] = "freeze" /\ job'[p] = f
    BY <1>5 DEF Fail, Goto, SetJob, TypeInv, TypeOK
  <2>2. /\ f.sent = k.sent /\ f.verified = k.verified /\ f.writes = k.writes
        /\ f.status = st /\ f.failed = k.failed \cup {m} /\ f.unattempted = rest
        /\ f.already = k.already
    <3> HIDE DEF j, k, rest, st
    <3> QED
      BY <1>3 DEF Jobs
  <2> HIDE DEF f, j, st, rest
  <2>3. Kind(p)' = Kind(p) /\ SameCall(job'[p], job[p])
    BY <1>1, <2>1 DEF Moved, SameCall, Kind
  <2>4. UNCHANGED <<requests, lands>>
    BY <2>1, StepMail
  <2>5. VerifiedTruly(p)'
    BY <2>1, <2>2, <2>3, VerifiedStays
  <2>6. (/\ job[p].sent \subseteq job[p].scope /\ IsFiniteSet(job[p].sent)
         /\ Kind(p) = "apply" =>
               Cardinality(Crossed(p) \ Uncounted(p)) <= job[p].writes)'
    BY <1>1, <2>1, <2>2, <2>3, <2>4, CountStays DEF SameCall
  <2>7. Listed(p)'
    BY <1>4, <2>1, <2>2, <2>3 DEF Listed, SameCall
  <2>8. pc'[p] \notin EarlySteps \cup LoopSteps
    BY <2>1 DEF EarlySteps, LoopSteps, RowSteps, DispatchSteps
  <2>9. (job[p].op = "rollback_one" => \E n \in Mutations : job[p].scope = {n})'
    BY <1>1, <2>3 DEF Accounts, SameCall
  <2> QED
    BY <1>2, <2>1, <2>2, <2>5, <2>6, <2>7, <2>8, <2>9 DEF Accounts
<1>6. CASE Kind(p) # "apply"
  <2>1. Finish(p, j)
    BY <1>6 DEF Fail
  <2> HIDE DEF j, st, rest
  <2>2. /\ pc'[p] = "done" /\ job'[p].sent = k.sent /\ job'[p].verified = k.verified
        /\ job'[p].status = st /\ job'[p].failed = k.failed \cup {m}
        /\ job'[p].unattempted = rest /\ job'[p].already = k.already
    BY <1>3, <2>1, FinishReport
  <2>3. SameCall(job'[p], job[p])
    BY <1>1, <2>2 DEF Moved
  <2>4. Listed(p)'
    BY <1>4, <2>2, <2>3 DEF Listed, SameCall
  <2> QED
    BY <1>2, <1>6, <2>2, <2>4, Concluded
<1> QED
  BY <1>5, <1>6

(* A worker that holds a mutation fails it. *)
LEMMA HeldFails ==
    ASSUME TypeInv, WriteInv, ConductInv, NEW p \in Workers, Step(p), ~Return(p),
           pc[p] \in (LoopSteps \cap HoldingSteps) \ {"wait", "readback"},
           \E why \in {"ambiguous", "refused", "private_state"} : Fail(p, cur[p], why)
    PROVE  Accounts(p)'
<1>1. cur[p] \in job[p].scope
  BY StepKeeps, Live
<1>2. Held(p) \subseteq {cur[p]}
  BY DEF Held
<1> QED
  BY <1>1, <1>2, FailReport

(* Steps that fail the item in hand, or leave the report as it is. *)
LEMMA FailureRowAccounts ==
    ASSUME TypeInv, WriteInv, ConductInv, NEW p \in Workers,
           \/ Ambiguous(p) \/ Refused(p) \/ PrivateStateFailed(p) \/ RecordDrift(p)
           \/ RecordHuman(p) \/ RecordAutomationState(p) \/ Recheck(p) \/ Verify(p)
    PROVE  Accounts(p)'
<1>1. Step(p) /\ ~Return(p)
  BY DEF Step, Return, Ambiguous, Refused, PrivateStateFailed, RecordDrift, RecordHuman,
     RecordAutomationState, Recheck, Verify
<1>2. pc[p] \in {"ambiguous", "refused", "private_failed", "drift", "human",
                 "private_state", "recheck", "verify"}
  BY DEF Ambiguous, Refused, PrivateStateFailed, RecordDrift, RecordHuman,
     RecordAutomationState, Recheck, Verify
<1>3. pc[p] \in (LoopSteps \cap HoldingSteps) \ {"wait", "readback"}
  BY <1>2 DEF LoopSteps, HoldingSteps, DispatchSteps
<1>4. CASE \E why \in {"ambiguous", "refused", "private_state"} : Fail(p, cur[p], why)
  BY <1>1, <1>3, <1>4, HeldFails
<1>5. CASE /\ UNCHANGED <<cur, job>>
           /\ \/ pc[p] \in {"drift", "recheck"} /\ pc'[p] \in {"refused", "send"}
              \/ pc[p] \in {"verify", "private_state"}
                 /\ pc'[p] \in {"private_state", "final", "private_failed"}
  <2>1. /\ pc'[p] \in LoopSteps \cap HoldingSteps
        /\ pc'[p] \in ProvedSteps => pc[p] \in ProvedSteps \ {"noop"}
        /\ pc'[p] \notin {"wait", "readback"}
    BY <1>5 DEF LoopSteps, HoldingSteps, DispatchSteps, ProvedSteps
  <2> QED
    BY <1>1, <1>3, <1>5, <2>1, LoopStays
<1>6. pc \in [Workers -> Steps]
  BY DEF TypeInv, TypeOK
<1>7. CASE Ambiguous(p) \/ Refused(p) \/ PrivateStateFailed(p) \/ RecordHuman(p)
  BY <1>4, <1>7 DEF Ambiguous, Refused, PrivateStateFailed, RecordHuman
<1>8. CASE RecordDrift(p) \/ Verify(p)
  BY <1>4, <1>5, <1>6, <1>8 DEF RecordDrift, Verify, Goto
<1>9. CASE RecordAutomationState(p) \/ Recheck(p)
  BY <1>5, <1>6, <1>9 DEF RecordAutomationState, Recheck, Goto
<1> QED
  BY <1>7, <1>8, <1>9

(* A request that goes out is awaited before it is counted. *)
LEMMA SendAccounts ==
    ASSUME TypeInv, WriteInv, ConductInv, NEW p \in Workers, Send(p)
    PROVE  Accounts(p)'
<1> DEFINE k == job[p]
           m == cur[p]
           f == [k EXCEPT !.sent = @ \cup {m}]
<1>1. Step(p) /\ ~Return(p) /\ pc[p] = "send"
  BY DEF Step, Return, Send
<1>2. /\ Moved(p) /\ Accounts(p) /\ k \in Jobs /\ Kind(p) \in Kinds
      /\ UNCHANGED <<native, lands, cur>>
      /\ pc \in [Workers -> Steps] /\ job \in [Workers -> Jobs]
  BY <1>1, StepKeeps, JobType DEF ConductInv, TypeInv, TypeOK, Send, Kind, Kinds
<1>3. pc[p] \in LoopSteps \cap HoldingSteps
  BY <1>1 DEF LoopSteps, HoldingSteps, DispatchSteps
<1>4. m \in k.scope /\ Looping(p) /\ Held(p) = {m} /\ Uncounted(p) = {}
  BY <1>1, <1>2, <1>3, Live DEF Accounts, Held, Uncounted, HoldingSteps
<1>5. CASE Goto(p, "refused") /\ UNCHANGED <<requests, job>>
  <2>1. pc'[p] = "refused"
    BY <1>2, <1>5 DEF Goto
  <2>2. pc'[p] \in LoopSteps \cap HoldingSteps /\ pc'[p] \notin ProvedSteps
    BY <2>1 DEF LoopSteps, HoldingSteps, DispatchSteps, ProvedSteps
  <2> QED
    BY <1>1, <1>2, <1>3, <1>5, <2>1, <2>2, LoopStays
<1>6. CASE /\ Goto(p, "wait") /\ SetJob(p, f)
           /\ requests' = requests \cup
                 {[mutation |-> m, kind |-> Kind(p), by |-> p,
                   from |-> From(p, m), to |-> To(p, m)]}
  <2>1. pc'[p] = "wait" /\ job'[p] = f
    BY <1>2, <1>6 DEF Goto, SetJob
  <2>2. /\ f.op = k.op /\ f.approval = k.approval /\ f.scope = k.scope
        /\ f.sent = k.sent \cup {m} /\ f.writes = k.writes /\ f.verified = k.verified
        /\ f.failed = k.failed /\ f.unattempted = k.unattempted
        /\ f.already = k.already /\ f.bad = k.bad /\ f.pending = k.pending
        /\ f.status = k.status
    <3> HIDE DEF k, m
    <3> QED
      BY <1>2 DEF Jobs
  <2> HIDE DEF f
  <2>3. Kind(p)' = Kind(p) /\ Held(p)' = Held(p) /\ Uncounted(p)' = {m}
    BY <1>2, <1>4, <2>1, <2>2 DEF Kind, Held, Uncounted, HoldingSteps, DispatchSteps
  <2>4. VerifiedTruly(p)'
    BY <1>1, <2>1, <2>2, <2>3, VerifiedStays
  <2>5. (job[p].sent \subseteq job[p].scope /\ IsFiniteSet(job[p].sent))'
    BY <1>2, <1>4, <2>1, <2>2, FS_AddElement DEF Accounts
  <2>6. Crossed(p)' \ {m} \subseteq Crossed(p)
    <3>1. \A n \in Mutations \ {m} : InFlight(n, Kind(p))' = InFlight(n, Kind(p))
      BY <1>6, <2>3 DEF InFlight
    <3>2. k.sent \subseteq Mutations
      BY <1>2 DEF Jobs
    <3> QED
      BY <1>2, <2>1, <2>2, <2>3, <3>1, <3>2 DEF Crossed
  <2>7. (Kind(p) = "apply" => Cardinality(Crossed(p) \ Uncounted(p)) <= job[p].writes)'
    <3> SUFFICES ASSUME Kind(p) = "apply"
                 PROVE  Cardinality(Crossed(p)' \ {m}) <= k.writes
      BY <2>1, <2>2, <2>3
    <3>1. IsFiniteSet(Crossed(p)) /\ Cardinality(Crossed(p)) <= k.writes
      <4>1. IsFiniteSet(Crossed(p)) /\ Crossed(p) \ {} = Crossed(p)
        BY <1>2, CrossedSent DEF Accounts
      <4>2. Cardinality(Crossed(p) \ {}) <= k.writes
        BY <1>2, <1>4 DEF Accounts
      <4> QED
        BY <4>1, <4>2
    <3>2. k.writes \in Nat
      BY <1>2 DEF Jobs
    <3> HIDE DEF Crossed, k, m
    <3> QED
      BY <2>6, <3>1, <3>2, FewerCounted
  <2>8. Looping(p)'
    BY <1>2, <1>4, <2>1, <2>2, <2>3 DEF Looping
  <2>9. pc'[p] \notin EarlySteps \cup {"freeze", "done"}
    BY <2>1 DEF EarlySteps, RowSteps
  <2> QED
    BY <1>1, <1>2, <2>1, <2>2, <2>4, <2>5, <2>7, <2>8, <2>9 DEF Accounts
<1> QED
  BY <1>5, <1>6 DEF Send

(* An answer that came, or came too late, counts as a write. *)
LEMMA AnswerAccounts ==
    ASSUME TypeInv, WriteInv, ConductInv, NEW p \in Workers, Timeout(p) \/ Readback(p)
    PROVE  Accounts(p)'
<1> DEFINE k == job[p]
           m == cur[p]
           f == [k EXCEPT !.writes = @ + 1]
<1>1. /\ Step(p) /\ ~Return(p) /\ pc[p] \in {"wait", "readback"}
      /\ pc'[p] \in {"ambiguous", "verify", "restored"} /\ job'[p] = f
      /\ UNCHANGED <<requests, lands, cur>>
  BY DEF Step, Return, Timeout, Readback, mailVars, Goto, SetJob, TypeInv, TypeOK
<1>2. /\ Moved(p) /\ Accounts(p) /\ k \in Jobs /\ Kind(p) \in Kinds
  BY <1>1, StepKeeps, JobType DEF ConductInv, Kind, Kinds
<1>3. pc[p] \in LoopSteps \cap HoldingSteps /\ pc'[p] \in LoopSteps \cap HoldingSteps
  BY <1>1 DEF LoopSteps, HoldingSteps, DispatchSteps
<1>4. m \in k.sent /\ Looping(p) /\ Uncounted(p) = {m}
  BY <1>1, <1>2, <1>3 DEF Accounts, Looping, Uncounted, ProvedSteps
<1>5. /\ f.op = k.op /\ f.approval = k.approval /\ f.scope = k.scope
      /\ f.sent = k.sent /\ f.writes = k.writes + 1 /\ f.verified = k.verified
      /\ f.failed = k.failed /\ f.unattempted = k.unattempted
      /\ f.already = k.already /\ f.bad = k.bad /\ f.pending = k.pending
      /\ f.status = k.status
  <2> HIDE DEF k
  <2> QED
    BY <1>2 DEF Jobs
<1> HIDE DEF f
<1>6. Kind(p)' = Kind(p) /\ Held(p)' = Held(p) /\ Uncounted(p)' = {}
  BY <1>1, <1>3, <1>5 DEF Kind, Held, Uncounted
<1>7. VerifiedTruly(p)'
  BY <1>1, <1>5, <1>6, VerifiedStays
<1>8. Crossed(p)' = Crossed(p)
  BY <1>1, <1>5, <1>6 DEF Crossed, InFlight
<1>9. (Kind(p) = "apply" => Cardinality(Crossed(p) \ Uncounted(p)) <= job[p].writes)'
  <2> SUFFICES ASSUME Kind(p) = "apply"
               PROVE  Cardinality(Crossed(p) \ {}) <= k.writes + 1
    BY <1>1, <1>5, <1>6, <1>8
  <2>1. IsFiniteSet(Crossed(p) \ {m}) /\ Cardinality(Crossed(p) \ {m}) <= k.writes
    BY <1>2, <1>4, CrossedSent DEF Accounts
  <2>2. k.writes \in Nat
    BY <1>2 DEF Jobs
  <2> DEFINE S == Crossed(p) \ {m}
  <2>3. Crossed(p) \ {} \subseteq S \cup {m}
    OBVIOUS
  <2>4. /\ IsFiniteSet(S) /\ IsFiniteSet(S \cup {m})
        /\ Cardinality(S \cup {m}) <= k.writes + 1
    <3> HIDE DEF k, m, Crossed
    <3>1. IsFiniteSet(S)
      BY <2>1
    <3>2. Cardinality(S) \in Nat /\ Cardinality(S) <= k.writes
      BY <2>1, <3>1, FS_CardinalityType
    <3> HIDE DEF S
    <3>3. /\ IsFiniteSet(S \cup {m})
          /\ Cardinality(S \cup {m}) = IF m \in S THEN Cardinality(S) ELSE Cardinality(S) + 1
      BY <3>1, FS_AddElement
    <3> QED
      BY <2>2, <3>1, <3>2, <3>3
  <2> HIDE DEF S, k, m, Crossed
  <2> QED
    BY <2>2, <2>3, <2>4, FewerCounted
<1>10. Looping(p)'
  BY <1>1, <1>4, <1>5, <1>6 DEF Looping
<1>11. pc'[p] \notin EarlySteps \cup {"freeze", "done"}
  BY <1>1 DEF EarlySteps, RowSteps
<1>12. pc[p] # "done"
  BY <1>1
<1> QED
  BY <1>1, <1>2, <1>5, <1>7, <1>9, <1>10, <1>11, <1>12 DEF Accounts

(* The row that settles a proved write lets the worker count it as verified. *)
LEMMA SettledAccounts ==
    ASSUME TypeInv, WriteInv, ConductInv, NEW p \in Workers, Step(p), ~Return(p),
           \/ /\ pc[p] = "final" /\ pc'[p] = "loop"
              /\ Appended(RowFor(p, cur[p], "verified"))
           \/ /\ pc[p] = "restored" /\ pc'[p] = "restore_loop"
              /\ Appended(RowFor(p, cur[p], "rolled_back")),
           SetJob(p, [job[p] EXCEPT !.verified = @ \cup {cur[p]}])
    PROVE  Accounts(p)'
<1> DEFINE k == job[p]
           m == cur[p]
           f == [k EXCEPT !.verified = @ \cup {m}]
<1>1. /\ Moved(p) /\ Accounts(p) /\ Grounded(p) /\ k \in Jobs /\ Kind(p) \in Kinds
      /\ UNCHANGED <<requests, lands>> /\ job'[p] = f
  BY StepKeeps, StepMail, JobType DEF ConductInv, Kind, Kinds, SetJob, TypeInv, TypeOK
<1>2. pc[p] \in LoopSteps \cap HoldingSteps /\ pc[p] \in ProvedSteps \ {"noop"}
  BY DEF LoopSteps, HoldingSteps, DispatchSteps, ProvedSteps
<1>3. /\ m \in k.scope /\ m \in k.sent /\ Looping(p) /\ Held(p) = {m}
      /\ m \in Mutations /\ lands[<<m, Kind(p)>>] > 0
  BY <1>1, <1>2, Live DEF Accounts, Looping, Held, Grounded
<1>4. /\ f.op = k.op /\ f.approval = k.approval /\ f.scope = k.scope
      /\ f.sent = k.sent /\ f.writes = k.writes /\ f.verified = k.verified \cup {m}
      /\ f.failed = k.failed /\ f.unattempted = k.unattempted
      /\ f.already = k.already /\ f.bad = k.bad /\ f.pending = k.pending
      /\ f.status = k.status
  <2> HIDE DEF k, m
  <2> QED
    BY <1>1 DEF Jobs
<1> HIDE DEF f
<1>5. Kind(p)' = Kind(p)
  BY <1>1, <1>4 DEF Kind
<1>6. Held(p)' = {} /\ pc'[p] \notin (ProvedSteps \cup {"wait", "readback"})
  BY DEF Held, HoldingSteps, DispatchSteps, ProvedSteps
<1>7. file' = "ok" => AuthoritativeState(auth'[m]) =
                        IF Kind(p) = "apply" THEN "verified" ELSE "rolled_back"
  <2> SUFFICES ASSUME file' = "ok"
               PROVE  AuthoritativeState(auth'[m]) =
                         IF Kind(p) = "apply" THEN "verified" ELSE "rolled_back"
    OBVIOUS
  <2>1. auth \in [Mutations -> Records]
    BY DEF TypeInv, TypeOK
  <2>2. CASE pc[p] = "final" /\ Appended(RowFor(p, m, "verified"))
    <3>1. auth' = AuthorityAfter(auth, RowFor(p, m, "verified"))
      BY <2>2 DEF Appended, Stored
    <3>2. auth'[m].status = "verified"
      BY <1>3, <2>1, <3>1 DEF AuthorityAfter, RowFor, RecordOf, AuthoritativeStatuses
    <3>3. Kind(p) = "apply"
      BY <2>2 DEF TypeInv, Working, ApplySteps
    <3> QED
      BY <3>2, <3>3 DEF AuthoritativeState
  <2>3. CASE pc[p] = "restored" /\ Appended(RowFor(p, m, "rolled_back"))
    <3>1. auth' = AuthorityAfter(auth, RowFor(p, m, "rolled_back"))
      BY <2>3 DEF Appended, Stored
    <3>2. auth'[m].status = "rolled_back"
      BY <1>3, <2>1, <3>1 DEF AuthorityAfter, RowFor, RecordOf, AuthoritativeStatuses
    <3>3. Kind(p) = "restore"
      BY <2>3 DEF TypeInv, Working, RestoreSteps
    <3> QED
      BY <3>2, <3>3 DEF AuthoritativeState
  <2> QED
    BY <2>2, <2>3
<1>8. VerifiedTruly(p)'
  <2>1. /\ \A n \in k.verified : auth'[n] = auth[n]
        /\ file' = "ok" => file = "ok"
        /\ VerifiedTruly(p)
    BY <1>1, RowsSpare DEF Accounts
  <2>2. ASSUME NEW n \in k.verified
        PROVE  /\ lands'[<<n, Kind(p)>>] > 0
               /\ file' = "ok" => State(n)' = IF Kind(p) = "apply" THEN "verified"
                                              ELSE "rolled_back"
    BY <1>1, <2>1 DEF VerifiedTruly, State
  <2>3. job'[p].verified \subseteq job'[p].sent
    BY <1>1, <1>3, <1>4, <2>1 DEF VerifiedTruly
  <2> QED
    BY <1>1, <1>3, <1>4, <1>5, <1>7, <2>2, <2>3 DEF VerifiedTruly, State
<1>9. (/\ job[p].sent \subseteq job[p].scope /\ IsFiniteSet(job[p].sent)
       /\ Kind(p) = "apply" =>
             Cardinality(Crossed(p) \ Uncounted(p)) <= job[p].writes)'
  BY <1>1, <1>4, <1>5, <1>6, CountStays
<1>10. Looping(p)'
  BY <1>1, <1>3, <1>4, <1>6 DEF Looping
<1>11. pc'[p] \notin EarlySteps \cup {"freeze", "done"} /\ pc[p] # "done"
  BY DEF EarlySteps, RowSteps
<1> QED
  BY <1>1, <1>4, <1>8, <1>9, <1>10, <1>11 DEF Accounts

(* A proved write is verified by its row, or reported as ambiguous. *)
LEMMA ConcludeAccounts ==
    ASSUME TypeInv, WriteInv, ConductInv, NEW p \in Workers,
           Finalize(p) \/ RecordRestored(p)
    PROVE  Accounts(p)'
<1>1. Step(p) /\ ~Return(p) /\ pc[p] \in {"final", "restored"}
  BY DEF Step, Return, Finalize, RecordRestored
<1>2. pc \in [Workers -> Steps]
  BY DEF TypeInv, TypeOK
<1>3. pc[p] \in (LoopSteps \cap HoldingSteps) \ {"wait", "readback"}
  BY <1>1 DEF LoopSteps, HoldingSteps, DispatchSteps
<1>4. CASE Fail(p, cur[p], "ambiguous")
  BY <1>1, <1>3, <1>4, HeldFails
<1>5. CASE Goto(p, "ambiguous") /\ UNCHANGED <<cur, job>>
  <2>1. pc'[p] = "ambiguous"
    BY <1>2, <1>5 DEF Goto
  <2>2. pc'[p] \in LoopSteps \cap HoldingSteps /\ pc'[p] \notin ProvedSteps
    BY <2>1 DEF LoopSteps, HoldingSteps, DispatchSteps, ProvedSteps
  <2> QED
    BY <1>1, <1>3, <1>5, <2>1, <2>2, LoopStays
<1>6. CASE /\ pc[p] = "final" /\ Goto(p, "loop")
           /\ Appended(RowFor(p, cur[p], "verified"))
           /\ SetJob(p, [job[p] EXCEPT !.verified = @ \cup {cur[p]}])
  <2>1. pc'[p] = "loop"
    BY <1>2, <1>6 DEF Goto
  <2> QED
    BY <1>1, <1>6, <2>1, SettledAccounts
<1>7. CASE /\ pc[p] = "restored" /\ Goto(p, "restore_loop")
           /\ Appended(RowFor(p, cur[p], "rolled_back"))
           /\ SetJob(p, [job[p] EXCEPT !.verified = @ \cup {cur[p]}])
  <2>1. pc'[p] = "restore_loop"
    BY <1>2, <1>7 DEF Goto
  <2> QED
    BY <1>1, <1>7, <2>1, SettledAccounts
<1> QED
  BY <1>4, <1>5, <1>6, <1>7 DEF Finalize, RecordRestored

(* A worker takes the next mutation of its batch in hand. *)
LEMMA TakeAccounts ==
    ASSUME TypeInv, WriteInv, ConductInv, NEW p \in Workers, Step(p), ~Return(p),
           pc[p] \in {"loop", "restore_loop"}, NEW m \in job[p].pending,
           pc'[p] \in {"recheck", "noop", "lineage", "unresolved", "claim_restore",
                       "human_row"},
           cur'[p] = m, NEW s,
           \/ job'[p] = [job[p] EXCEPT !.pending = @ \ {m}]
           \/ job'[p] = [job[p] EXCEPT !.pending = @ \ {m}, !.seen = s]
    PROVE  Accounts(p)'
<1> DEFINE k == job[p]
           f == [k EXCEPT !.pending = @ \ {m}]
           g == [k EXCEPT !.pending = @ \ {m}, !.seen = s]
<1>1. /\ Accounts(p) /\ k \in Jobs /\ UNCHANGED <<requests, lands>>
      /\ job'[p] \in {f, g}
  BY StepKeeps, StepMail, JobType DEF ConductInv
<1>2. Looping(p) /\ Held(p) = {} /\ Held(p)' = {m}
  BY <1>1 DEF Accounts, LoopSteps, Held, HoldingSteps, DispatchSteps
<1>3. /\ f.op = k.op /\ f.approval = k.approval /\ f.scope = k.scope
      /\ f.sent = k.sent /\ f.writes = k.writes /\ f.verified = k.verified
      /\ f.failed = k.failed /\ f.unattempted = k.unattempted
      /\ f.already = k.already /\ f.bad = k.bad /\ f.pending = k.pending \ {m}
      /\ f.status = k.status
  <2> HIDE DEF k
  <2> QED
    BY <1>1 DEF Jobs
<1>4. /\ g.op = k.op /\ g.approval = k.approval /\ g.scope = k.scope
      /\ g.sent = k.sent /\ g.writes = k.writes /\ g.verified = k.verified
      /\ g.failed = k.failed /\ g.unattempted = k.unattempted
      /\ g.already = k.already /\ g.bad = k.bad /\ g.pending = k.pending \ {m}
      /\ g.status = k.status
  <2> HIDE DEF k
  <2> QED
    BY <1>1 DEF Jobs
<1> DEFINE j == job'[p]
<1>5. /\ j.op = k.op /\ j.approval = k.approval /\ j.scope = k.scope
      /\ j.sent = k.sent /\ j.writes = k.writes /\ j.verified = k.verified
      /\ j.failed = k.failed /\ j.unattempted = k.unattempted
      /\ j.already = k.already /\ j.bad = k.bad /\ j.pending = k.pending \ {m}
      /\ j.status = k.status
  <2> HIDE DEF f, g
  <2> QED
    BY <1>1, <1>3, <1>4
<1> HIDE DEF f, g
<1>6. Kind(p)' = Kind(p)
  BY <1>5 DEF Kind
<1>7. VerifiedTruly(p)'
  BY <1>5, <1>6, VerifiedStays
<1>8. (/\ job[p].sent \subseteq job[p].scope /\ IsFiniteSet(job[p].sent)
       /\ Kind(p) = "apply" =>
             Cardinality(Crossed(p) \ Uncounted(p)) <= job[p].writes)'
  BY <1>1, <1>5, <1>6, CountStays
<1>9. Looping(p)'
  BY <1>2, <1>5 DEF Looping, ProvedSteps
<1>10. pc'[p] \notin EarlySteps \cup {"freeze", "done"} /\ pc[p] # "done"
  BY DEF EarlySteps, RowSteps
<1> QED
  BY <1>1, <1>5, <1>7, <1>8, <1>9, <1>10 DEF Accounts

(* An error that escapes to the caller's handler leaves an empty report. *)
LEMMA HandlerAccounts ==
    ASSUME TypeInv, WriteInv, ConductInv, NEW p \in Workers, Step(p), ~Return(p),
           pc[p] \notin {"wait", "readback"}, OuterHandler(p),
           Kind(p) = "apply" => job[p].writes = 0
    PROVE  Accounts(p)'
<1> DEFINE k == job[p]
           j == [k EXCEPT !.status = "blocked", !.writes = 0, !.verified = {},
                          !.failed = {}, !.unattempted = {}, !.already = {}]
<1>1. k \in Jobs
  BY JobType
<1>2. /\ j \in Jobs /\ j.sent = k.sent /\ j.writes = 0 /\ j.verified = {}
      /\ j.status = "blocked"
  <2> HIDE DEF k
  <2> QED
    BY <1>1 DEF Jobs, ResultStates
<1>3. Finish(p, j)
  BY DEF OuterHandler
<1> HIDE DEF j
<1>4. /\ pc'[p] = "done" /\ job'[p].sent = k.sent /\ job'[p].writes = 0
      /\ job'[p].verified = {} /\ job'[p].status = "blocked"
  BY <1>2, <1>3, FinishReport
<1> QED
  BY <1>4, Concluded

(* A loop ends, and what is left of the batch is unattempted. *)
LEMMA EndAccounts ==
    ASSUME TypeInv, WriteInv, ConductInv, NEW p \in Workers, Step(p), ~Return(p),
           pc[p] \in {"loop", "restore_loop"}, NEW st \in ResultStates,
           \/ /\ job[p].pending = {}
              /\ Finish(p, [job[p] EXCEPT !.status = st])
           \/ /\ st \notin {"applied", "rolled_back"}
              /\ Finish(p, [job[p] EXCEPT !.status = st, !.unattempted = job[p].pending])
    PROVE  Accounts(p)'
<1> DEFINE k == job[p]
           a == [k EXCEPT !.status = st]
           b == [k EXCEPT !.status = st, !.unattempted = k.pending]
<1>1. Accounts(p) /\ k \in Jobs /\ k.pending \subseteq Mutations /\ Moved(p)
  BY StepKeeps, JobType DEF ConductInv
<1>2. Looping(p) /\ Held(p) = {}
  BY <1>1 DEF Accounts, LoopSteps, Held, HoldingSteps, DispatchSteps
<1>3. /\ a \in Jobs /\ a.sent = k.sent /\ a.writes = k.writes /\ a.verified = k.verified
      /\ a.failed = k.failed /\ a.unattempted = k.unattempted /\ a.already = k.already
      /\ a.status = st
  <2> HIDE DEF k
  <2> QED
    BY <1>1 DEF Jobs
<1>4. /\ b \in Jobs /\ b.sent = k.sent /\ b.writes = k.writes /\ b.verified = k.verified
      /\ b.failed = k.failed /\ b.unattempted = k.pending /\ b.already = k.already
      /\ b.status = st
  <2> HIDE DEF k
  <2> QED
    BY <1>1 DEF Jobs
<1>5. CASE k.pending = {} /\ Finish(p, a)
  <2> HIDE DEF a
  <2>1. /\ pc'[p] = "done" /\ job'[p].sent = k.sent /\ job'[p].writes = k.writes
        /\ job'[p].verified = k.verified /\ job'[p].failed = k.failed
        /\ job'[p].unattempted = k.unattempted /\ job'[p].already = k.already
    BY <1>3, <1>5, FinishReport
  <2>2. job'[p].scope = k.scope
    BY <1>1, <2>1 DEF Moved, SameCall
  <2>3. Listed(p)'
    BY <1>2, <1>5, <2>1, <2>2 DEF Listed, Looping
  <2> QED
    BY <1>2, <2>1, <2>3, Concluded DEF Looping
<1>6. CASE st \notin {"applied", "rolled_back"} /\ Finish(p, b)
  <2> HIDE DEF b
  <2>1. /\ pc'[p] = "done" /\ job'[p].sent = k.sent /\ job'[p].writes = k.writes
        /\ job'[p].verified = k.verified /\ job'[p].failed = k.failed
        /\ job'[p].unattempted = k.pending /\ job'[p].already = k.already
        /\ job'[p].status = st
    BY <1>4, <1>6, FinishReport
  <2>2. job'[p].scope = k.scope
    BY <1>1, <2>1 DEF Moved, SameCall
  <2>3. Listed(p)'
    BY <1>2, <2>1, <2>2 DEF Listed, Looping
  <2> QED
    BY <1>6, <2>1, <2>3, Concluded
<1> QED
  BY <1>5, <1>6

(* The write loops end with everything done, or the rest unattempted. *)
LEMMA LoopEndAccounts ==
    ASSUME TypeInv, WriteInv, ConductInv, NEW p \in Workers,
           Deadline(p) \/ AllApplied(p) \/ AllRestored(p)
    PROVE  Accounts(p)'
<1>1. Step(p) /\ ~Return(p) /\ pc[p] \in {"loop", "restore_loop"}
  BY DEF Step, Return, Deadline, AllApplied, AllRestored
<1>2. CASE Deadline(p)
  <2> DEFINE st == IF job[p].writes > 0 THEN "partially_failed" ELSE "blocked"
  <2>1. st \in ResultStates \ {"applied", "rolled_back"}
    BY DEF ResultStates
  <2>2. Finish(p, [job[p] EXCEPT !.status = st, !.unattempted = job[p].pending])
    BY <1>2 DEF Deadline
  <2> HIDE DEF st
  <2> QED
    BY <1>1, <2>1, <2>2, EndAccounts
<1>3. CASE AllApplied(p) \/ AllRestored(p)
  BY <1>1, <1>3, EndAccounts DEF AllApplied, AllRestored, ResultStates
<1> QED
  BY <1>2, <1>3

(* An item leaves the pending ones with its claim, or the batch ends. *)
LEMMA ClaimApplyAccounts ==
    ASSUME TypeInv, WriteInv, ConductInv, NEW p \in Workers, NEW m \in Mutations,
           ClaimApply(p, m)
    PROVE  Accounts(p)'
<1>1. /\ Step(p) /\ ~Return(p) /\ pc[p] = "loop" /\ m \in job[p].pending
      /\ pc \in [Workers -> Steps] /\ cur \in [Workers -> Mutations \cup {NoMutation}]
      /\ job \in [Workers -> Jobs]
  BY DEF Step, Return, ClaimApply, TypeInv, TypeOK
<1>2. CASE /\ Goto(p, "recheck") /\ cur' = [cur EXCEPT ![p] = m]
           /\ SetJob(p, [job[p] EXCEPT !.pending = @ \ {m}])
  <2>1. /\ pc'[p] = "recheck" /\ cur'[p] = m
        /\ job'[p] = [job[p] EXCEPT !.pending = @ \ {m}]
    BY <1>1, <1>2 DEF Goto, SetJob
  <2> QED
    BY <1>1, <2>1, TakeAccounts
<1>3. CASE Finish(p, [job[p] EXCEPT !.status = IF job[p].writes > 0
                                              THEN "ambiguous" ELSE "blocked",
                                    !.unattempted = job[p].pending])
  <2> DEFINE st == IF job[p].writes > 0 THEN "ambiguous" ELSE "blocked"
  <2>1. st \in ResultStates \ {"applied", "rolled_back"}
    BY DEF ResultStates
  <2>2. Finish(p, [job[p] EXCEPT !.status = st, !.unattempted = job[p].pending])
    BY <1>3
  <2> HIDE DEF st
  <2> QED
    BY <1>1, <2>1, <2>2, EndAccounts
<1> QED
  BY <1>2, <1>3 DEF ClaimApply

(* An item of a rollback is taken up, or fails. *)
LEMMA ScopeAccounts ==
    ASSUME TypeInv, WriteInv, ConductInv, NEW p \in Workers, NEW m \in Mutations,
           Scope(p, m)
    PROVE  Accounts(p)'
<1>1. /\ Step(p) /\ ~Return(p) /\ pc[p] = "restore_loop" /\ m \in job[p].pending
      /\ pc \in [Workers -> Steps] /\ cur \in [Workers -> Mutations \cup {NoMutation}]
      /\ job \in [Workers -> Jobs]
  BY DEF Step, Return, Scope, TypeInv, TypeOK
<1>2. /\ Kind(p) = "restore" /\ pc[p] \in LoopSteps /\ Held(p) = {}
      /\ m \in job[p].scope
  BY <1>1, Live DEF TypeInv, Working, RestoreSteps, LoopSteps, Held, HoldingSteps,
     DispatchSteps
<1>3. \/ OuterHandler(p)
      \/ Fail(p, m, "refused")
      \/ \E step \in {"noop", "lineage", "unresolved", "claim_restore", "human_row"},
            seen \in {Unknown, native[MessageOf[m]]} :
            /\ Goto(p, step) /\ cur' = [cur EXCEPT ![p] = m]
            /\ SetJob(p, [job[p] EXCEPT !.pending = @ \ {m}, !.seen = seen])
  BY DEF Scope
<1>4. CASE OuterHandler(p)
  BY <1>1, <1>2, <1>4, HandlerAccounts
<1>5. CASE Fail(p, m, "refused")
  BY <1>1, <1>2, <1>5, FailReport
<1>6. ASSUME NEW step \in {"noop", "lineage", "unresolved", "claim_restore", "human_row"},
             NEW seen, Goto(p, step), cur' = [cur EXCEPT ![p] = m],
             SetJob(p, [job[p] EXCEPT !.pending = @ \ {m}, !.seen = seen])
      PROVE  Accounts(p)'
  <2>1. /\ pc'[p] = step /\ cur'[p] = m
        /\ job'[p] = [job[p] EXCEPT !.pending = @ \ {m}, !.seen = seen]
    BY <1>1, <1>6 DEF Goto, SetJob
  <2> QED
    BY <1>1, <2>1, TakeAccounts
<1> QED
  BY <1>3, <1>4, <1>5, <1>6

(* The rows a rollback writes before and instead of its dispatch. *)
LEMMA LogRestoreRowAccounts ==
    ASSUME TypeInv, WriteInv, ConductInv, NEW p \in Workers, LogRestoreRow(p)
    PROVE  Accounts(p)'
<1> DEFINE k == job[p]
           m == cur[p]
           j == [k EXCEPT !.status = "already_rolled_back", !.already = {m}]
<1>1. /\ Step(p) /\ ~Return(p)
      /\ pc[p] \in {"noop", "lineage", "unresolved", "human_row", "claim_restore"}
      /\ pc \in [Workers -> Steps]
  BY DEF Step, Return, LogRestoreRow, TypeInv, TypeOK
<1>2. /\ pc[p] \in (LoopSteps \cap HoldingSteps) \ {"wait", "readback"}
      /\ Kind(p) = "restore"
  BY <1>1 DEF TypeInv, Working, LoopSteps, HoldingSteps, DispatchSteps, RestoreSteps
<1>3. \/ pc[p] = "claim_restore" /\ Goto(p, "send") /\ UNCHANGED <<cur, job>>
      \/ pc[p] = "human_row" /\ Goto(p, "human") /\ UNCHANGED <<cur, job>>
      \/ k.op = "rollback_one" /\ Finish(p, j)
      \/ Fail(p, m, "refused")
      \/ OuterHandler(p)
  BY DEF LogRestoreRow
<1>4. CASE OuterHandler(p)
  BY <1>1, <1>2, <1>4, HandlerAccounts
<1>5. CASE Fail(p, m, "refused")
  BY <1>1, <1>2, <1>5, HeldFails
<1>6. CASE /\ UNCHANGED <<cur, job>>
           /\ Goto(p, "send") \/ Goto(p, "human")
  <2>1. pc'[p] \in {"send", "human"}
    BY <1>1, <1>6 DEF Goto
  <2>2. pc'[p] \in (LoopSteps \cap HoldingSteps) \ ProvedSteps
    BY <2>1 DEF LoopSteps, HoldingSteps, DispatchSteps, ProvedSteps
  <2> QED
    BY <1>1, <1>2, <1>6, <2>1, <2>2, LoopStays
<1>7. CASE k.op = "rollback_one" /\ Finish(p, j)
  <2>1. /\ Accounts(p) /\ k \in Jobs /\ m \in k.scope /\ m \in Mutations /\ Moved(p)
    BY <1>1, <1>2, StepKeeps, Live, JobType DEF ConductInv
  <2>2. Looping(p) /\ k.scope = {m} /\ k.verified \subseteq k.scope
    BY <1>2, <1>7, <2>1 DEF Accounts, VerifiedTruly
  <2>3. /\ j \in Jobs /\ j.sent = k.sent /\ j.writes = k.writes
        /\ j.verified = k.verified /\ j.failed = k.failed
        /\ j.unattempted = k.unattempted /\ j.already = {m}
        /\ j.status = "already_rolled_back"
    <3> HIDE DEF k, m
    <3> QED
      BY <2>1 DEF Jobs, ResultStates
  <2> HIDE DEF j
  <2>4. /\ pc'[p] = "done" /\ job'[p].sent = k.sent /\ job'[p].writes = k.writes
        /\ job'[p].verified = k.verified /\ job'[p].failed = k.failed
        /\ job'[p].unattempted = k.unattempted /\ job'[p].already = {m}
        /\ job'[p].status = "already_rolled_back"
    BY <1>7, <2>3, FinishReport
  <2>5. job'[p].scope = k.scope
    BY <1>1, <1>2, <2>1, <2>4 DEF Moved, SameCall, HoldingSteps, DispatchSteps
  <2>6. Listed(p)'
    BY <2>2, <2>4, <2>5 DEF Listed, Looping
  <2> QED
    BY <1>1, <1>2, <2>4, <2>6, Concluded
<1> QED
  BY <1>3, <1>4, <1>5, <1>6, <1>7

(* A step before the loops that keeps the report empty. *)
LEMMA EarlyGoes ==
    ASSUME TypeInv, WriteInv, ConductInv, NEW p \in Workers, Step(p), ~Return(p),
           pc[p] \in EarlySteps, pc'[p] \in EarlySteps \cup {"loop", "restore_loop"},
           job'[p].sent = job[p].sent, job'[p].writes = job[p].writes,
           job'[p].verified = job[p].verified, job'[p].failed = job[p].failed,
           job'[p].unattempted = job[p].unattempted, job'[p].status = job[p].status,
           pc'[p] \notin {"authorize", "classify"} =>
              job[p].scope \subseteq job'[p].already \cup job'[p].bad \cup job'[p].pending,
           job'[p].already \subseteq job[p].scope,
           pc'[p] \in {"pass", "loop", "restore_loop"} => job'[p].bad = {}
    PROVE  Accounts(p)'
<1>1. /\ pc[p] # "idle" /\ pc[p] # "done" /\ Moved(p) /\ Accounts(p) /\ Own(p)'
  BY StepKeeps DEF ConductInv, EarlySteps, RowSteps, Keeps
<1>2. SameCall(job'[p], job[p]) /\ pc'[p] # "done"
  BY <1>1 DEF Moved, EarlySteps, RowSteps
<1>3. /\ job'[p].bad \subseteq job[p].scope /\ job'[p].pending \subseteq job[p].scope
  BY <1>1, <1>2 DEF Own, OwnsPlan, SameCall
<1>4. Early(p) /\ job[p].status \notin {"applied", "rolled_back"}
      /\ (job[p].op = "rollback_one" => \E m \in Mutations : job[p].scope = {m})
  BY <1>1 DEF Accounts
<1> QED
  BY <1>2, <1>3, <1>4, EmptyReport DEF Early, SameCall

(* A call that ends before it could write. *)
LEMMA EarlyEnds ==
    ASSUME TypeInv, WriteInv, ConductInv, NEW p \in Workers, Step(p), ~Return(p),
           pc[p] \in EarlySteps,
           \/ OuterHandler(p)
           \/ \E B, R, A \in SUBSET Mutations : Blocked(p, B, R, A)
           \/ \E st \in ResultStates \ {"applied", "rolled_back"} :
                 Finish(p, [job[p] EXCEPT !.status = st])
    PROVE  Accounts(p)'
<1> DEFINE k == job[p]
<1>1. /\ Accounts(p) /\ k \in Jobs /\ pc[p] \notin {"wait", "readback"}
  BY StepKeeps, JobType DEF ConductInv, EarlySteps, RowSteps
<1>2. k.writes = 0
  BY <1>1 DEF Accounts, Early
<1>3. CASE OuterHandler(p)
  BY <1>1, <1>2, <1>3, HandlerAccounts
<1>4. CASE \E B, R, A \in SUBSET Mutations : Blocked(p, B, R, A)
  <2>1. PICK B, R, A \in SUBSET Mutations : Blocked(p, B, R, A)
    BY <1>4
  <2> DEFINE j == [k EXCEPT !.status = "blocked", !.failed = B,
                            !.unattempted = R, !.already = A]
  <2>2. /\ j \in Jobs /\ j.sent = k.sent /\ j.writes = k.writes
        /\ j.verified = k.verified /\ j.status = "blocked"
    <3> HIDE DEF k
    <3> QED
      BY <1>1 DEF Jobs, ResultStates
  <2>3. Finish(p, j)
    BY <2>1 DEF Blocked
  <2> HIDE DEF j
  <2>4. /\ pc'[p] = "done" /\ job'[p].sent = k.sent /\ job'[p].writes = k.writes
        /\ job'[p].verified = k.verified /\ job'[p].status = "blocked"
    BY <2>2, <2>3, FinishReport
  <2> QED
    BY <1>1, <1>2, <2>4, Concluded
<1>5. CASE \E st \in ResultStates \ {"applied", "rolled_back"} :
              Finish(p, [job[p] EXCEPT !.status = st])
  <2>1. PICK st \in ResultStates \ {"applied", "rolled_back"} :
           Finish(p, [job[p] EXCEPT !.status = st])
    BY <1>5
  <2> DEFINE j == [k EXCEPT !.status = st]
  <2>2. /\ j \in Jobs /\ j.sent = k.sent /\ j.writes = k.writes
        /\ j.verified = k.verified /\ j.status = st
    <3> HIDE DEF k
    <3> QED
      BY <1>1 DEF Jobs
  <2>3. Finish(p, j)
    BY <2>1
  <2> HIDE DEF j
  <2>4. /\ pc'[p] = "done" /\ job'[p].sent = k.sent /\ job'[p].writes = k.writes
        /\ job'[p].verified = k.verified /\ job'[p].status = st
    BY <2>2, <2>3, FinishReport
  <2> QED
    BY <1>1, <1>2, <2>1, <2>4, Concluded
<1> QED
  BY <1>3, <1>4, <1>5

(* What the ledger and the overrides say sorts the batch, or blocks it. *)
LEMMA AuthorizeAccounts ==
    ASSUME TypeInv, WriteInv, ConductInv, NEW p \in Workers, Authorize(p)
    PROVE  Accounts(p)'
<1> DEFINE S == job[p].scope
           applied == {m \in S : State(m) = "verified"}
           undone == {m \in S : State(m) = "rolled_back"}
           rest == S \ (applied \cup undone)
           k == job[p]
           j == [k EXCEPT !.todo = applied, !.already = applied, !.bad = undone,
                          !.pending = rest]
<1>1. /\ Step(p) /\ ~Return(p) /\ pc[p] = "authorize" /\ pc[p] \in EarlySteps
      /\ k \in Jobs /\ S \subseteq Mutations
      /\ pc \in [Workers -> Steps] /\ job \in [Workers -> Jobs]
  BY JobType DEF Step, Return, Authorize, EarlySteps, RowSteps, TypeInv, TypeOK
<1>2. \/ OuterHandler(p)
      \/ \E B, R, A \in SUBSET S : Blocked(p, B, R, A)
      \/ Goto(p, "replay") /\ SetJob(p, j) /\ UNCHANGED cur
  <2> DEFINE claimed == {m \in S : latest[m] # "none"}
             frozen == {m \in S : Frozen(m)}
             suppressed == {m \in S : Suppressed(m)}
  <2>1. CASE OuterHandler(p)
    BY <2>1
  <2>2. CASE Blocked(p, claimed, {}, {})
    BY <2>2
  <2>3. CASE \E B \in SUBSET S :
                Blocked(p, B \cup undone, S \ (B \cup undone \cup applied), applied \ B)
    BY <2>3
  <2>4. CASE Blocked(p, {}, S, {})
    BY <2>4
  <2>5. CASE Goto(p, "replay") /\ SetJob(p, j) /\ UNCHANGED cur
    BY <2>5
  <2>6. frozen \in SUBSET S /\ suppressed \in SUBSET S
    OBVIOUS
  <2> QED
    BY <2>1, <2>2, <2>3, <2>4, <2>5, <2>6 DEF Authorize
<1>3. CASE OuterHandler(p) \/ \E B, R, A \in SUBSET S : Blocked(p, B, R, A)
  BY <1>1, <1>3, EarlyEnds
<1>4. CASE Goto(p, "replay") /\ SetJob(p, j)
  <2>1. pc'[p] = "replay" /\ job'[p] = j
    BY <1>1, <1>4 DEF Goto, SetJob
  <2>2. /\ j.sent = k.sent /\ j.writes = k.writes /\ j.verified = k.verified
        /\ j.failed = k.failed /\ j.unattempted = k.unattempted /\ j.status = k.status
        /\ j.already = applied /\ j.bad = undone /\ j.pending = rest
    <3> HIDE DEF k, S, applied, undone, rest
    <3> QED
      BY <1>1 DEF Jobs
  <2>3. S \subseteq applied \cup undone \cup rest /\ applied \subseteq S
    OBVIOUS
  <2>4. "replay" \in EarlySteps
    BY DEF EarlySteps, RowSteps
  <2> HIDE DEF j, applied, undone, rest
  <2> QED
    BY <1>1, <2>1, <2>2, <2>3, <2>4, EarlyGoes
<1> QED
  BY <1>2, <1>3, <1>4

(* Freezing its siblings changes nothing an apply reports. *)
LEMMA FreezeAccounts ==
    ASSUME TypeInv, WriteInv, ConductInv, NEW p \in Workers, Step(p), ~Return(p),
           pc[p] = "freeze", NEW T, NEW st \in ResultStates \ {"applied", "rolled_back"},
           \/ pc'[p] = "freeze" /\ job'[p] = [job[p] EXCEPT !.todo = T]
           \/ Finish(p, [job[p] EXCEPT !.status = st])
           \/ Finish(p, job[p])
    PROVE  Accounts(p)'
<1> DEFINE k == job[p]
           f == [k EXCEPT !.todo = T]
           g == [k EXCEPT !.status = st]
<1>1. /\ Accounts(p) /\ Moved(p) /\ k \in Jobs
      /\ UNCHANGED <<requests, lands>> \/ pc'[p] = "wait"
  BY StepKeeps, StepMail, JobType DEF ConductInv
<1>2. Listed(p) /\ k.status \notin {"applied", "rolled_back"}
  BY <1>1 DEF Accounts
<1>3. CASE pc'[p] = "freeze" /\ job'[p] = f
  <2>1. /\ f.op = k.op /\ f.scope = k.scope /\ f.sent = k.sent /\ f.writes = k.writes
        /\ f.verified = k.verified /\ f.failed = k.failed
        /\ f.unattempted = k.unattempted /\ f.already = k.already
        /\ f.status = k.status
    <3> HIDE DEF k
    <3> QED
      BY <1>1 DEF Jobs
  <2> HIDE DEF f
  <2>2. Kind(p)' = Kind(p)
    BY <1>3, <2>1 DEF Kind
  <2>3. VerifiedTruly(p)'
    BY <1>3, <2>1, <2>2, VerifiedStays
  <2>4. (/\ job[p].sent \subseteq job[p].scope /\ IsFiniteSet(job[p].sent)
         /\ Kind(p) = "apply" =>
               Cardinality(Crossed(p) \ Uncounted(p)) <= job[p].writes)'
    BY <1>1, <1>3, <2>1, <2>2, CountStays
  <2>5. Listed(p)'
    BY <1>2, <1>3, <2>1 DEF Listed
  <2>6. pc'[p] \notin EarlySteps \cup LoopSteps \cup {"done"}
    BY <1>3 DEF EarlySteps, LoopSteps, RowSteps, DispatchSteps
  <2> QED
    BY <1>1, <1>2, <1>3, <2>1, <2>3, <2>4, <2>5, <2>6 DEF Accounts
<1>4. ASSUME NEW j \in {k, g}, Finish(p, j) PROVE Accounts(p)'
  <2>1. /\ g \in Jobs /\ g.sent = k.sent /\ g.writes = k.writes
        /\ g.verified = k.verified /\ g.failed = k.failed
        /\ g.unattempted = k.unattempted /\ g.already = k.already
        /\ g.status = st
    <3> HIDE DEF k
    <3> QED
      BY <1>1 DEF Jobs
  <2>2. /\ j \in Jobs /\ j.sent = k.sent /\ j.writes = k.writes
        /\ j.verified = k.verified /\ j.failed = k.failed
        /\ j.unattempted = k.unattempted /\ j.already = k.already
        /\ j.status \notin {"applied", "rolled_back"}
    <3> HIDE DEF k, g
    <3> QED
      BY <1>1, <1>2, <1>4, <2>1
  <2>3. /\ pc'[p] = "done" /\ job'[p].sent = k.sent /\ job'[p].writes = k.writes
        /\ job'[p].verified = k.verified /\ job'[p].failed = k.failed
        /\ job'[p].unattempted = k.unattempted /\ job'[p].already = k.already
        /\ job'[p].status \notin {"applied", "rolled_back"}
    BY <1>4, <2>2, FinishReport
  <2>4. job'[p].scope = k.scope
    BY <1>1, <2>3 DEF Moved, SameCall
  <2>5. Listed(p)'
    BY <1>2, <2>3, <2>4 DEF Listed
  <2> QED
    BY <2>3, <2>5, Concluded
<1> HIDE DEF f
<1> QED
  BY <1>3, <1>4 DEF f

(* Row groups are written item by item. *)
LEMMA LogRowAccounts ==
    ASSUME TypeInv, WriteInv, ConductInv, NEW p \in Workers, NEW m \in Mutations,
           LogRow(p, m)
    PROVE  Accounts(p)'
<1> DEFINE k == job[p]
           T == k.todo \ {m}
           f == [k EXCEPT !.todo = T]
           st == IF k.writes > 0 THEN "ambiguous" ELSE "blocked"
<1>1. /\ Step(p) /\ ~Return(p) /\ pc[p] \in RowSteps /\ k \in Jobs
      /\ job \in [Workers -> Jobs]
  BY JobType DEF Step, Return, LogRow, RowSteps, TypeInv, TypeOK
<1>2. \/ SetJob(p, f) /\ UNCHANGED <<pc, cur>>
      \/ pc[p] = "freeze" /\ Finish(p, [k EXCEPT !.status = st])
      \/ pc[p] # "freeze" /\ OuterHandler(p)
  BY DEF LogRow
<1>3. CASE pc[p] = "freeze"
  <2>1. SetJob(p, f) /\ pc' = pc => job'[p] = f /\ pc'[p] = "freeze"
    BY <1>1, <1>3 DEF SetJob
  <2>2. st \in ResultStates \ {"applied", "rolled_back"}
    BY DEF ResultStates
  <2> HIDE DEF st, T
  <2> QED
    BY <1>1, <1>2, <1>3, <2>1, <2>2, FreezeAccounts
<1>4. CASE pc[p] # "freeze" /\ OuterHandler(p)
  BY <1>1, <1>4, EarlyEnds DEF EarlySteps
<1>5. CASE pc[p] # "freeze" /\ SetJob(p, f) /\ pc' = pc
  <2>1. pc'[p] = pc[p] /\ pc[p] \in EarlySteps /\ job'[p] = f
    BY <1>1, <1>5 DEF EarlySteps, SetJob
  <2>2. /\ f.sent = k.sent /\ f.writes = k.writes /\ f.verified = k.verified
        /\ f.failed = k.failed /\ f.unattempted = k.unattempted /\ f.status = k.status
        /\ f.already = k.already /\ f.bad = k.bad /\ f.pending = k.pending
    <3> HIDE DEF k, T
    <3> QED
      BY <1>1 DEF Jobs
  <2> HIDE DEF f
  <2>3. Early(p) /\ pc[p] \notin {"authorize", "classify", "loop", "restore_loop"}
    BY <1>1, <2>1, StepKeeps DEF ConductInv, Accounts, RowSteps
  <2> QED
    BY <1>1, <2>1, <2>2, <2>3, EarlyGoes DEF Early
<1> QED
  BY <1>2, <1>3, <1>4, <1>5

(* A finished row group hands the batch on, or ends the call. *)
LEMMA NextPhaseAccounts ==
    ASSUME TypeInv, WriteInv, ConductInv, NEW p \in Workers, NextPhase(p)
    PROVE  Accounts(p)'
<1> DEFINE k == job[p]
<1>1. /\ Step(p) /\ ~Return(p) /\ pc[p] \in RowSteps \cup {"preflight"} /\ k \in Jobs
      /\ job \in [Workers -> Jobs] /\ pc \in [Workers -> Steps]
      /\ k.pending \subseteq Mutations /\ k.bad \subseteq Mutations
      /\ k.already \subseteq Mutations
  BY JobType DEF Step, Return, NextPhase, RowSteps, TypeInv, TypeOK
<1>2. \/ \E s \in {"refuse", "preflight", "refreeze", "block"} : \E S : Proceed(p, s, S)
      \/ pc[p] = "preflight" /\ k.bad = {} /\ \E S : Proceed(p, "pass", S)
      \/ pc[p] = "pass" /\ \E S : Proceed(p, "loop", S)
      \/ \E R \in {k.pending, k.pending \ k.bad} : Blocked(p, k.bad, R, k.already)
      \/ Finish(p, [k EXCEPT !.status = "already_applied"])
      \/ pc[p] = "freeze" /\ Finish(p, k)
  BY DEF NextPhase
<1>3. CASE pc[p] = "freeze"
  <2>1. Finish(p, k)
    BY <1>3 DEF NextPhase
  <2>2. "blocked" \in ResultStates \ {"applied", "rolled_back"}
    BY DEF ResultStates
  <2> QED
    BY <1>1, <1>3, <2>1, <2>2, FreezeAccounts
<1>4. CASE /\ pc[p] # "freeze"
           /\ \/ \E R \in {k.pending, k.pending \ k.bad} : Blocked(p, k.bad, R, k.already)
              \/ Finish(p, [k EXCEPT !.status = "already_applied"])
  <2>1. /\ k.pending \in SUBSET Mutations /\ k.pending \ k.bad \in SUBSET Mutations
        /\ k.bad \in SUBSET Mutations /\ k.already \in SUBSET Mutations
        /\ pc[p] \in EarlySteps
    BY <1>1, <1>4 DEF EarlySteps
  <2>2. "already_applied" \in ResultStates \ {"applied", "rolled_back"}
    BY DEF ResultStates
  <2> QED
    BY <1>1, <1>4, <2>1, <2>2, EarlyEnds
<1>5. ASSUME pc[p] # "freeze", NEW S,
             NEW s \in {"refuse", "preflight", "refreeze", "block", "pass", "loop"},
             Proceed(p, s, S), s \in {"pass", "loop"} => k.bad = {} \/ pc[p] = "pass"
      PROVE  Accounts(p)'
  <2> DEFINE f == [k EXCEPT !.todo = S]
  <2>1. pc'[p] = s /\ pc[p] \in EarlySteps /\ job'[p] = f
    BY <1>1, <1>5 DEF EarlySteps, Proceed, Goto, SetJob
  <2>2. /\ f.sent = k.sent /\ f.writes = k.writes /\ f.verified = k.verified
        /\ f.failed = k.failed /\ f.unattempted = k.unattempted /\ f.status = k.status
        /\ f.already = k.already /\ f.bad = k.bad /\ f.pending = k.pending
    <3> HIDE DEF k
    <3> QED
      BY <1>1 DEF Jobs
  <2> HIDE DEF f
  <2>3. Early(p) /\ pc[p] \notin {"authorize", "classify", "loop", "restore_loop"}
    BY <1>1, <2>1, StepKeeps DEF ConductInv, Accounts, RowSteps
  <2>4. s \in EarlySteps \cup {"loop", "restore_loop"} /\ s # "restore_loop"
    BY DEF EarlySteps, RowSteps
  <2>5. s \in {"pass", "loop"} => k.bad = {}
    BY <1>5, <2>3 DEF Early
  <2> QED
    BY <1>1, <2>1, <2>2, <2>3, <2>4, <2>5, EarlyGoes DEF Early
<1> QED
  BY <1>2, <1>3, <1>4, <1>5

(* A target passes or is set aside. *)
LEMMA PreflightAccounts ==
    ASSUME TypeInv, WriteInv, ConductInv, NEW p \in Workers, NEW m \in Mutations,
           Preflight(p, m)
    PROVE  Accounts(p)'
<1> DEFINE k == job[p]
           T == k.todo \ {m}
           B == k.bad \cup {m}
           f == [k EXCEPT !.todo = T]
           g == [k EXCEPT !.todo = T, !.bad = B]
<1>1. /\ Step(p) /\ ~Return(p) /\ pc[p] = "preflight" /\ k \in Jobs
      /\ job'[p] \in {f, g} /\ pc'[p] = pc[p]
  BY JobType DEF Step, Return, Preflight, SetJob, TypeInv, TypeOK
<1>2. /\ f.sent = k.sent /\ f.writes = k.writes /\ f.verified = k.verified
      /\ f.failed = k.failed /\ f.unattempted = k.unattempted /\ f.status = k.status
      /\ f.already = k.already /\ k.bad \subseteq f.bad /\ f.pending = k.pending
  <2> HIDE DEF k, T
  <2> QED
    BY <1>1 DEF Jobs
<1>3. /\ g.sent = k.sent /\ g.writes = k.writes /\ g.verified = k.verified
      /\ g.failed = k.failed /\ g.unattempted = k.unattempted /\ g.status = k.status
      /\ g.already = k.already /\ k.bad \subseteq g.bad /\ g.pending = k.pending
  <2> HIDE DEF k, T
  <2> QED
    BY <1>1 DEF Jobs
<1>4. pc[p] \in EarlySteps /\ Early(p)
  BY <1>1, StepKeeps DEF ConductInv, Accounts, EarlySteps
<1> HIDE DEF f, g
<1> QED
  BY ZenonT(40), <1>1, <1>2, <1>3, <1>4, EarlyGoes DEF Early

(* The receipts of a rollback are sorted, or block it. *)
LEMMA ClassifyAccounts ==
    ASSUME TypeInv, WriteInv, ConductInv, NEW p \in Workers, Classify(p)
    PROVE  Accounts(p)'
<1> DEFINE k == job[p]
           S == k.scope
<1>1. /\ Step(p) /\ ~Return(p) /\ pc[p] = "classify" /\ k \in Jobs /\ S \subseteq Mutations
      /\ pc \in [Workers -> Steps] /\ job \in [Workers -> Jobs]
  BY JobType DEF Step, Return, Classify, TypeInv, TypeOK
<1>2. pc[p] \in EarlySteps
  BY <1>1 DEF EarlySteps
<1>3. \/ OuterHandler(p)
      \/ \E H \in SUBSET S : Blocked(p, H, S \ H, {})
      \/ \E C \in SUBSET S :
            /\ Goto(p, "check")
            /\ SetJob(p, [k EXCEPT !.todo = C, !.pending = C, !.already = S \ C])
  <2> DEFINE H == {m \in S : \/ latest[m] \in HazardousLatestStatuses
                             \/ /\ State(m) = "none"
                                /\ latest[m] \notin
                                     {"none", "prepared", "preflight_passed",
                                      "blocked", "frozen_unattempted"}}
             C == {m \in S \ H : State(m) = "verified"}
  <2>1. H \in SUBSET S /\ C \in SUBSET S
    OBVIOUS
  <2>2. \/ OuterHandler(p) \/ Blocked(p, H, S \ H, {})
        \/ /\ Goto(p, "check")
           /\ SetJob(p, [k EXCEPT !.todo = C, !.pending = C, !.already = S \ C])
    BY DEF Classify
  <2> HIDE DEF H, C
  <2> QED
    BY <2>1, <2>2
<1>4. CASE OuterHandler(p) \/ \E H \in SUBSET S : Blocked(p, H, S \ H, {})
  <2>1. \A H \in SUBSET S : /\ H \in SUBSET Mutations /\ S \ H \in SUBSET Mutations
                            /\ {} \in SUBSET Mutations
    BY <1>1
  <2> QED
    BY <1>1, <1>2, <1>4, <2>1, EarlyEnds
<1>5. ASSUME NEW C \in SUBSET S, Goto(p, "check"),
             SetJob(p, [k EXCEPT !.todo = C, !.pending = C, !.already = S \ C])
      PROVE  Accounts(p)'
  <2> DEFINE A == S \ C
             f == [k EXCEPT !.todo = C, !.pending = C, !.already = A]
  <2>1. pc'[p] = "check" /\ job'[p] = f
    BY <1>1, <1>5 DEF Goto, SetJob
  <2>2. /\ f.sent = k.sent /\ f.writes = k.writes /\ f.verified = k.verified
        /\ f.failed = k.failed /\ f.unattempted = k.unattempted /\ f.status = k.status
        /\ f.already = A /\ f.pending = C
    <3> HIDE DEF k, S, A
    <3> QED
      BY <1>1 DEF Jobs
  <2>3. S \subseteq A \cup C /\ A \subseteq S /\ "check" \in EarlySteps
    BY DEF EarlySteps
  <2> HIDE DEF f, A
  <2> QED
    BY <1>1, <1>2, <2>1, <2>2, <2>3, EarlyGoes
<1> QED
  BY <1>3, <1>4, <1>5

(* A candidate passes or is set aside, its divergence recorded. *)
LEMMA CheckAccounts ==
    ASSUME TypeInv, WriteInv, ConductInv, NEW p \in Workers,
           RecordDivergence(p) \/ \E m \in Mutations : CheckCandidate(p, m)
    PROVE  Accounts(p)'
<1> DEFINE k == job[p]
<1>1. /\ Step(p) /\ ~Return(p) /\ pc[p] \in {"check", "diverged"} /\ k \in Jobs
      /\ pc \in [Workers -> Steps] /\ job \in [Workers -> Jobs]
  BY JobType DEF Step, Return, CheckCandidate, RecordDivergence, TypeInv, TypeOK
<1>2. pc[p] \in EarlySteps /\ Early(p)
  BY <1>1, StepKeeps DEF ConductInv, Accounts, EarlySteps
<1>3. CASE OuterHandler(p)
  BY <1>1, <1>2, <1>3, EarlyEnds
<1>4. ASSUME NEW T, NEW B, NEW s, k.bad \subseteq B, pc'[p] \in {"check", "diverged"},
             \/ job'[p] = [k EXCEPT !.todo = T, !.bad = B]
             \/ job'[p] = [k EXCEPT !.todo = T]
             \/ job'[p] = [k EXCEPT !.seen = s]
             \/ job'[p] = [k EXCEPT !.todo = T, !.bad = B, !.seen = s]
      PROVE  Accounts(p)'
  <2> DEFINE j == job'[p]
             a == [k EXCEPT !.todo = T, !.bad = B]
             b == [k EXCEPT !.todo = T]
             c == [k EXCEPT !.seen = s]
             d == [k EXCEPT !.todo = T, !.bad = B, !.seen = s]
  <2>1. /\ a.sent = k.sent /\ a.writes = k.writes /\ a.verified = k.verified
        /\ a.failed = k.failed /\ a.unattempted = k.unattempted /\ a.status = k.status
        /\ a.already = k.already /\ a.pending = k.pending /\ k.bad \subseteq a.bad
    <3> HIDE DEF k
    <3> QED
      BY <1>1, <1>4 DEF Jobs
  <2>2. /\ b.sent = k.sent /\ b.writes = k.writes /\ b.verified = k.verified
        /\ b.failed = k.failed /\ b.unattempted = k.unattempted /\ b.status = k.status
        /\ b.already = k.already /\ b.pending = k.pending /\ k.bad \subseteq b.bad
    <3> HIDE DEF k
    <3> QED
      BY <1>1, <1>4 DEF Jobs
  <2>3. /\ c.sent = k.sent /\ c.writes = k.writes /\ c.verified = k.verified
        /\ c.failed = k.failed /\ c.unattempted = k.unattempted /\ c.status = k.status
        /\ c.already = k.already /\ c.pending = k.pending /\ k.bad \subseteq c.bad
    <3> HIDE DEF k
    <3> QED
      BY <1>1, <1>4 DEF Jobs
  <2>4. /\ d.sent = k.sent /\ d.writes = k.writes /\ d.verified = k.verified
        /\ d.failed = k.failed /\ d.unattempted = k.unattempted /\ d.status = k.status
        /\ d.already = k.already /\ d.pending = k.pending /\ k.bad \subseteq d.bad
    <3> HIDE DEF k
    <3> QED
      BY <1>1, <1>4 DEF Jobs
  <2>5. j \in {a, b, c, d}
    BY <1>4
  <2> HIDE DEF a, b, c, d
  <2>6. /\ j.sent = k.sent /\ j.writes = k.writes /\ j.verified = k.verified
        /\ j.failed = k.failed /\ j.unattempted = k.unattempted /\ j.status = k.status
        /\ j.already = k.already /\ j.pending = k.pending /\ k.bad \subseteq j.bad
    BY <2>1, <2>2, <2>3, <2>4, <2>5
  <2>7. {"check", "diverged"} \subseteq EarlySteps
    BY DEF EarlySteps
  <2>8. k.scope = k.already \cup k.bad \cup k.pending
    BY <1>1, <1>2 DEF Early
  <2> QED
    BY <1>1, <1>2, <1>4, <2>6, <2>7, <2>8, EarlyGoes
<1>5. CASE RecordDivergence(p)
  <2> DEFINE T == k.todo \ {cur[p]}
             B == k.bad \cup {cur[p]}
  <2>1. /\ pc'[p] = "check"
        /\ job'[p] = [k EXCEPT !.todo = T, !.bad = B, !.seen = Unknown]
    BY <1>1, <1>5 DEF RecordDivergence, Goto, SetJob
  <2>2. k.bad \subseteq B
    OBVIOUS
  <2> HIDE DEF T, B, k
  <2> QED
    BY <1>4, <2>1, <2>2
<1>6. ASSUME NEW m \in Mutations, CheckCandidate(p, m) PROVE Accounts(p)'
  <2> DEFINE T == k.todo \ {m}
             B == k.bad \cup {m}
  <2>1. k.bad \subseteq B
    OBVIOUS
  <2>2. \/ OuterHandler(p)
        \/ /\ pc'[p] \in {"check", "diverged"}
           /\ \/ job'[p] = [k EXCEPT !.todo = T, !.bad = B]
              \/ job'[p] = [k EXCEPT !.todo = T]
              \/ \E s : job'[p] = [k EXCEPT !.seen = s]
    <3>1. \/ OuterHandler(p)
          \/ SetJob(p, [k EXCEPT !.todo = T, !.bad = B]) /\ pc[p] = "check" /\ UNCHANGED pc
          \/ SetJob(p, [k EXCEPT !.todo = T]) /\ pc[p] = "check" /\ UNCHANGED pc
          \/ \E s : SetJob(p, [k EXCEPT !.seen = s]) /\ Goto(p, "diverged")
      BY <1>6 DEF CheckCandidate
    <3>2. \A s : Goto(p, s) => pc'[p] = s
      BY <1>1 DEF Goto, TypeInv, TypeOK
    <3>3. \A x : SetJob(p, x) => job'[p] = x
      BY <1>1 DEF SetJob, TypeInv, TypeOK
    <3> HIDE DEF T, B, k
    <3> QED
      BY <3>1, <3>2, <3>3
  <2> HIDE DEF T, B, k
  <2> QED
    BY <1>3, <1>4, <2>1, <2>2
<1> QED
  BY <1>5, <1>6

(* A checked batch goes on to be restored, or ends. *)
LEMMA CheckDoneAccounts ==
    ASSUME TypeInv, WriteInv, ConductInv, NEW p \in Workers, CheckDone(p)
    PROVE  Accounts(p)'
<1> DEFINE k == job[p]
<1>1. /\ Step(p) /\ ~Return(p) /\ pc[p] = "check" /\ k \in Jobs
      /\ k.bad \subseteq Mutations /\ k.pending \subseteq Mutations
      /\ k.already \subseteq Mutations
      /\ pc \in [Workers -> Steps] /\ job \in [Workers -> Jobs]
  BY JobType DEF Step, Return, CheckDone, TypeInv, TypeOK
<1>2. pc[p] \in EarlySteps /\ Early(p)
  BY <1>1, StepKeeps DEF ConductInv, Accounts, EarlySteps
<1>3. \/ Blocked(p, k.bad, (k.pending \ k.bad) \cup k.already, {})
      \/ \E st \in {"already_rolled_back", "rollback_not_required", "preflight_passed"} :
            Finish(p, [k EXCEPT !.status = st])
      \/ k.bad = {} /\ Goto(p, "restore_loop") /\ UNCHANGED job
  BY DEF CheckDone
<1>4. CASE Blocked(p, k.bad, (k.pending \ k.bad) \cup k.already, {})
  <2>1. /\ k.bad \in SUBSET Mutations /\ {} \in SUBSET Mutations
        /\ (k.pending \ k.bad) \cup k.already \in SUBSET Mutations
    BY <1>1
  <2> QED
    BY <1>1, <1>2, <1>4, <2>1, EarlyEnds
<1>5. CASE \E st \in {"already_rolled_back", "rollback_not_required", "preflight_passed"} :
              Finish(p, [k EXCEPT !.status = st])
  <2>1. {"already_rolled_back", "rollback_not_required", "preflight_passed"}
            \subseteq ResultStates \ {"applied", "rolled_back"}
    BY DEF ResultStates
  <2> QED
    BY <1>1, <1>2, <1>5, <2>1, EarlyEnds
<1>6. CASE k.bad = {} /\ Goto(p, "restore_loop") /\ UNCHANGED job
  <2>1. pc'[p] = "restore_loop" /\ job'[p] = job[p]
    BY <1>1, <1>6 DEF Goto
  <2> QED
    BY <1>1, <1>2, <1>6, <2>1, EarlyGoes DEF Early
<1> QED
  BY <1>3, <1>4, <1>5, <1>6

(* Every step of a call keeps its worker's report in order. *)
LEMMA StepAccounts ==
    ASSUME TypeInv, WriteInv, ConductInv, NEW p \in Workers, Step(p), ~Return(p)
    PROVE  Accounts(p)'
<1>1. CASE \E m \in Mutations :
              \/ LogRow(p, m) \/ Preflight(p, m) \/ ClaimApply(p, m)
              \/ CheckCandidate(p, m) \/ Scope(p, m)
  BY <1>1, LogRowAccounts, PreflightAccounts, ClaimApplyAccounts, CheckAccounts,
     ScopeAccounts
<1>2. CASE \/ Authorize(p) \/ NextPhase(p) \/ Deadline(p) \/ AllApplied(p)
           \/ AllRestored(p) \/ Classify(p) \/ CheckDone(p)
  BY <1>2, AuthorizeAccounts, NextPhaseAccounts, LoopEndAccounts, ClassifyAccounts,
     CheckDoneAccounts
<1>3. CASE \/ Recheck(p) \/ RecordAutomationState(p) \/ Send(p) \/ Timeout(p)
           \/ Readback(p) \/ Ambiguous(p) \/ Refused(p) \/ PrivateStateFailed(p)
           \/ RecordDrift(p)
  BY <1>3, FailureRowAccounts, SendAccounts, AnswerAccounts
<1>4. CASE \/ Verify(p) \/ Finalize(p) \/ RecordRestored(p)
           \/ RecordDivergence(p) \/ LogRestoreRow(p) \/ RecordHuman(p)
  BY <1>4, FailureRowAccounts, ConcludeAccounts, CheckAccounts, LogRestoreRowAccounts
<1> QED
  BY <1>1, <1>2, <1>3, <1>4 DEF Step

(* Every step of a call keeps what its worker holds founded, and its report. *)
LEMMA StepConduct ==
    ASSUME TypeInv, WriteInv, ConductInv, NEW p \in Workers, Step(p), ~Return(p)
    PROVE  pc'[p] # "idle" => Grounded(p)' /\ Accounts(p)'
<1>1. Accounts(p)'
  BY StepAccounts
<1>2. ASSUME pc'[p] # "idle" PROVE Grounded(p)'
  BY <1>2, HoldsStep, ThawedStep DEF Grounded
<1> QED
  BY <1>1, <1>2

-----------------------------------------------------------------------------
(* Steps that begin or end a call, and the world.                            *)

(* A call begins with an empty report and nothing in hand. *)
LEMMA AcquireConduct ==
    ASSUME TypeInv, NEW p \in Workers, NEW o \in Calls, NEW a \in Approvals,
           NEW S \in SUBSET Mutations, Acquire(p, o, a, S)
    PROVE  Grounded(p)' /\ Accounts(p)'
<1> DEFINE R == IF o = "rollback_one" THEN S ELSE {}
           j == [NoJob EXCEPT !.op = o, !.approval = a, !.scope = S, !.pending = R]
           s == IF o \in {"apply", "canary"} THEN "authorize"
                ELSE IF o = "rollback_one" THEN "restore_loop" ELSE "classify"
<1>1. pc'[p] = s /\ job'[p] = j
  BY DEF Acquire, Goto, SetJob, TypeInv, TypeOK
<1>2. /\ j.op = o /\ j.scope = S /\ j.pending = R /\ j.already = {} /\ j.bad = {}
      /\ j.sent = {} /\ j.writes = 0 /\ j.verified = {} /\ j.failed = {}
      /\ j.unattempted = {} /\ j.status = "none"
  BY DEF NoJob
<1> HIDE DEF j
<1>3. o = "rollback_one" => \E m \in Mutations : S = {m}
  <2>1. Acquire(p, o, a, S) => S \subseteq Approved[a] /\ (o = "rollback_one" => Cardinality(S) = 1)
    BY DEF Acquire
  <2>2. IsFiniteSet(S)
    BY <2>1, FlagAssumption, FS_Subset
  <2>3. ASSUME o = "rollback_one" PROVE \E m \in Mutations : S = {m}
    BY <2>1, <2>2, <2>3, FS_Singleton
  <2> QED
    BY <2>3
<1>4. s \in {"authorize", "restore_loop", "classify"} /\ (s = "restore_loop" => o = "rollback_one")
  OBVIOUS
<1> HIDE DEF s
<1>5. Grounded(p)'
  <2>1. pc'[p] \notin ProvedSteps \cup ThawedSteps \cup {"claim_restore", "send", "wait"}
    BY <1>1, <1>4 DEF ProvedSteps, ThawedSteps
  <2>2. Kind(p)' = "apply" => job'[p].pending = {}
    BY <1>1, <1>2 DEF Kind
  <2> QED
    BY <2>1, <2>2 DEF Grounded
<1>6. Accounts(p)'
  <2>1. pc'[p] \in EarlySteps \cup {"loop", "restore_loop", "done"} /\ pc'[p] \notin {"done", "pass"}
    BY <1>1, <1>4 DEF EarlySteps
  <2>2. pc'[p] \notin {"authorize", "classify", "done"} =>
           job'[p].scope = job'[p].already \cup job'[p].bad \cup job'[p].pending
    BY <1>1, <1>2, <1>4
  <2> QED
    BY <1>1, <1>2, <1>3, <2>1, <2>2, EmptyReport
<1> QED
  BY <1>5, <1>6

(* Mail.app's answer proves the write it made, or leaves nothing behind. *)
LEMMA AnsweredConduct ==
    ASSUME TypeInv, TypeInv', WriteInv, ConductInv, NEW q \in requests,
           Land(q) \/ Drift(q), Awaited(q)
    PROVE  Grounded(q.by)' /\ Accounts(q.by)'
<1> DEFINE w == q.by
           m == q.mutation
           k == job[w]
<1>1. /\ w \in Workers /\ m \in Mutations /\ q.kind \in Kinds
      /\ pc[w] = "wait" /\ cur[w] = m /\ Kind(w) = q.kind /\ k \in Jobs
  BY JobType, MailAppMoves, MailAppCounts DEF Awaited, Requests
<1>2. Grounded(w) /\ Accounts(w) /\ Own(w) /\ Looping(w) /\ m \in k.sent
  <2>1. Grounded(w) /\ Accounts(w) /\ Own(w)
    BY <1>1, InvParts DEF ConductInv
  <2>2. pc[w] \in LoopSteps
    BY <1>1 DEF LoopSteps, DispatchSteps
  <2>3. Looping(w)
    BY <2>1, <2>2 DEF Accounts
  <2> QED
    BY <1>1, <2>1, <2>3 DEF Looping
<1>3. /\ UNCHANGED <<file, latest, auth, cur>>
      /\ \A v \in Writes : lands[v] > 0 => lands'[v] > 0
      /\ \A n \in Mutations, d \in Kinds : Untouched(n, d) => Untouched(n, d)'
  <2>1. WorldOK
    BY InvParts
  <2>2. \A v \in Writes : lands[v] \in Nat /\ lands'[v] \in Nat /\ lands'[v] >= lands[v]
    BY MailAppCounts
  <2> QED
    BY <2>1, <2>2, MailAppCounts, MailAppWorld
<1>4. \/ /\ pc'[w] = "readback" /\ job'[w] = k /\ lands'[<<m, Kind(w)>>] > 0
      \/ /\ pc'[w] = "drift" /\ \E x : job'[w] = [k EXCEPT !.seen = x]
         /\ Untouched(m, q.kind)'
  <2>1. CASE Land(q)
    <3>1. pc'[w] = "readback" /\ job'[w] = k
      BY <1>1, <2>1 DEF Land, Goto, TypeInv, TypeOK
    <3> QED
      BY <1>1, <2>1, <3>1, MailAppCounts
  <2>2. CASE ~Land(q) /\ Drift(q)
    <3>1. PICK x : Goto(w, "drift") /\ job' = [job EXCEPT ![w] = [job[w] EXCEPT !.seen = x]]
      BY <2>2 DEF Drift, SetJob
    <3>3. pc'[w] = "drift" /\ job'[w] = [k EXCEPT !.seen = x]
      BY <1>1, <3>1 DEF Goto, TypeInv, TypeOK
    <3>2. Untouched(q.mutation, q.kind)'
      BY <2>2, MailAppWorld, InvParts
    <3> QED
      BY <1>1, <3>2, <3>3
  <2> QED
    BY <2>1, <2>2
<1> DEFINE f == job'[w]
<1>5. /\ f.op = k.op /\ f.approval = k.approval /\ f.scope = k.scope
      /\ f.sent = k.sent /\ f.writes = k.writes /\ f.verified = k.verified
      /\ f.failed = k.failed /\ f.unattempted = k.unattempted
      /\ f.already = k.already /\ f.bad = k.bad /\ f.pending = k.pending
      /\ f.status = k.status
  <2>1. CASE job'[w] = k
    BY <2>1
  <2>2. CASE \E x : job'[w] = [k EXCEPT !.seen = x]
    <3>1. PICK x : job'[w] = [k EXCEPT !.seen = x]
      BY <2>2
    <3> HIDE DEF k
    <3> QED
      BY <1>1, <3>1 DEF Jobs
  <2> QED
    BY <1>4, <2>1, <2>2
<1> HIDE DEF f
<1>6. /\ Kind(w)' = Kind(w) /\ Held(w)' = Held(w) /\ Held(w) = {m}
      /\ Uncounted(w) = {m}
      /\ Uncounted(w)' = IF pc'[w] = "readback" THEN {m} ELSE {}
  <2>1. /\ pc'[w] \in {"readback", "drift"} /\ cur'[w] = m
        /\ {"wait", "readback", "drift"} \subseteq HoldingSteps
    BY <1>1, <1>3, <1>4 DEF HoldingSteps, DispatchSteps
  <2> QED
    BY <1>1, <1>5, <2>1 DEF f, Kind, Held, Uncounted
<1>7. Grounded(w)'
  <2>1. (pc[w] \in ProvedSteps => lands[<<cur[w], Kind(w)>>] > 0)'
    BY <1>1, <1>3, <1>4, <1>6 DEF ProvedSteps
  <2>2. pc'[w] \notin ThawedSteps \cup {"claim_restore", "send", "wait", "refreeze", "freeze"}
    BY <1>4 DEF ThawedSteps
  <2>3. (Kind(w) = "apply" => \A n \in job[w].pending : ~Frozen(n))'
    BY <1>1, <1>2, <1>3, <1>5, <1>6 DEF f, Grounded, Frozen
  <2> QED
    BY <2>1, <2>2, <2>3 DEF Grounded
<1>8. k.sent \subseteq k.scope /\ IsFiniteSet(k.sent) /\ k.sent \subseteq Mutations
  BY <1>1, <1>2 DEF Accounts, Jobs
<1>9. (Kind(w) = "apply" => Cardinality(Crossed(w) \ Uncounted(w)) <= job[w].writes)'
  <2> SUFFICES ASSUME Kind(w) = "apply"
               PROVE  Cardinality(Crossed(w)' \ Uncounted(w)') <= k.writes
    BY <1>5, <1>6 DEF f
  <2>1. Crossed(w) = {n \in k.sent : ~Untouched(n, Kind(w))}
    BY <1>1, <1>8, CrossedSent
  <2>2. Crossed(w)' = {n \in k.sent : ~Untouched(n, Kind(w))'}
    <3>1. \A n \in k.sent : lands'[<<n, Kind(w)>>] \in Nat
      BY <1>1, <1>8 DEF TypeInv, TypeOK, Writes
    <3> QED
      BY <1>5, <1>6, <3>1 DEF f, Crossed, Untouched, InFlight
  <2>3. \A n \in k.sent : Untouched(n, Kind(w)) => Untouched(n, Kind(w))'
    BY <1>1, <1>3, <1>6, <1>8
  <2>4. Crossed(w)' \ Uncounted(w)' \subseteq Crossed(w) \ Uncounted(w)
    <3>1. CASE pc'[w] = "readback"
      BY <1>6, <2>1, <2>2, <2>3, <3>1
    <3>2. CASE pc'[w] = "drift"
      <4>1. Untouched(m, Kind(w))'
        BY <1>1, <1>4, <1>6, <3>2
      <4> QED
        BY <1>6, <2>1, <2>2, <2>3, <3>2, <4>1
    <3> QED
      BY <1>4, <3>1, <3>2
  <2>5. /\ IsFiniteSet(Crossed(w) \ Uncounted(w)) /\ k.writes \in Nat
        /\ Cardinality(Crossed(w) \ Uncounted(w)) <= k.writes
    BY <1>1, <1>2, <1>8, CrossedSent DEF Accounts, Jobs
  <2> HIDE DEF Crossed, Uncounted, k
  <2> QED
    BY <2>4, <2>5, FewerCounted
<1>10. VerifiedTruly(w)'
  <2>1. k.verified \subseteq Mutations /\ VerifiedTruly(w)
    BY <1>1, <1>2 DEF Accounts, Jobs
  <2>2. \A n \in k.verified : lands[<<n, Kind(w)>>] > 0 => lands'[<<n, Kind(w)>>] > 0
    BY <1>1, <1>3, <2>1 DEF Writes
  <2> QED
    BY <1>3, <1>5, <1>6, <2>1, <2>2 DEF f, VerifiedTruly, State
<1>11. Looping(w)'
  BY <1>1, <1>2, <1>3, <1>5, <1>6 DEF f, Looping
<1>12. pc'[w] \notin EarlySteps \cup {"freeze", "done"} /\ pc[w] # "done"
  BY <1>1, <1>4 DEF EarlySteps, RowSteps
<1> QED
  BY <1>2, <1>5, <1>7, <1>8, <1>9, <1>10, <1>11, <1>12 DEF f, Accounts

(* Before the first call nothing is held, reported or concluded. *)
LEMMA InitConduct == Init => ConductInv
<1> SUFFICES ASSUME Init PROVE ConductInv
  OBVIOUS
<1>1. \A m \in Mutations : auth[m].status = "none" /\ State(m) # "verified"
  BY DEF Init, State, AuthoritativeState, NoRecord
<1>2. \A m \in Mutations : Untouched(m, "restore")
  BY DEF Init, Untouched, InFlight, Writes, Kinds
<1>3. requests = {} /\ \A p \in Workers : pc[p] = "idle"
  BY DEF Init
<1> QED
  BY <1>1, <1>2, <1>3 DEF ConductInv, Proved

(* Nothing is disturbed when only flags, overrides or locks change. *)
LEMMA AsideConduct ==
    ASSUME TypeInv, TypeInv', WriteInv, ConductInv,
           UNCHANGED <<requests, lands, file, latest, auth, pc, cur, job>>
    PROVE  ConductInv'
<1>1. \A m \in Mutations : Proved(m)'
  BY DEF ConductInv, Proved, State, Untouched, InFlight
<1>2. \A q \in requests' : Matches(q)'
  BY MatchesElse
<1>3. ASSUME NEW p \in Workers, pc'[p] # "idle" PROVE Grounded(p)' /\ Accounts(p)'
  <2>1. /\ pc[p] # "idle" /\ Grounded(p) /\ Accounts(p) /\ Own(p)
    BY <1>3, InvParts DEF ConductInv
  <2>2. \A m \in Mutations, k \in Kinds : Untouched(m, k) => Untouched(m, k)'
    BY DEF Untouched, InFlight
  <2>3. job[p].scope \subseteq Mutations
    BY JobType DEF Jobs
  <2> QED
    BY <2>1, <2>2, <2>3, Undisturbed
<1> QED
  BY <1>1, <1>2, <1>3 DEF ConductInv

(* Mail.app's answers reach the worker that waits, and nobody else. *)
LEMMA MailAppConduct ==
    ASSUME TypeInv, TypeInv', WriteInv, ConductInv, NEW q \in requests,
           Land(q) \/ Drift(q) \/ Lose(q)
    PROVE  ConductInv'
<1>1. /\ WorldOK /\ q.by \in Workers
      /\ UNCHANGED <<file, latest, auth, cur>> /\ requests' \subseteq requests
      /\ \A w \in Writes : lands[w] > 0 => lands'[w] > 0
  <2>1. \A w \in Writes : lands[w] \in Nat /\ lands'[w] \in Nat /\ lands'[w] >= lands[w]
    BY MailAppCounts
  <2> QED
    BY <2>1, InvParts, MailAppMoves, MailAppCounts
<1>2. \A m \in Mutations : Proved(m)'
  BY ProvedMail
<1>3. \/ UNCHANGED <<pc, cur, job>>
      \/ /\ Awaited(q) /\ Moved(q.by) /\ pc'[q.by] \in {"readback", "drift"}
         /\ Land(q) \/ Drift(q)
  BY MailAppMoves DEF Lose
<1>4. \A w \in Workers : \/ pc'[w] = pc[w] /\ cur'[w] = cur[w] /\ job'[w] = job[w]
                         \/ w = q.by /\ Awaited(q) /\ (Land(q) \/ Drift(q))
                            /\ pc'[w] \in {"readback", "drift"}
  BY <1>3 DEF Moved
<1>5. \A r \in requests' : Matches(r)'
  BY <1>1, <1>4, MatchesElse
<1>6. ASSUME NEW w \in Workers, pc'[w] # "idle" PROVE Grounded(w)' /\ Accounts(w)'
  <2>1. CASE pc'[w] = pc[w] /\ cur'[w] = cur[w] /\ job'[w] = job[w]
    <3>1. Grounded(w) /\ Accounts(w) /\ Own(w) /\ pc[w] # "idle"
      BY <1>6, <2>1, InvParts DEF ConductInv
    <3>2. job[w].scope \subseteq Mutations
      BY JobType DEF Jobs
    <3>3. \A n \in job[w].scope :
             /\ latest'[n] = latest[n] /\ auth'[n] = auth[n]
             /\ \A k \in Kinds : Untouched(n, k) => Untouched(n, k)'
      BY <1>1, <3>2, MailAppWorld
    <3> QED
      BY <1>1, <2>1, <3>1, <3>3, Undisturbed
  <2>2. CASE w = q.by /\ Awaited(q) /\ (Land(q) \/ Drift(q))
    BY <2>2, AnsweredConduct
  <2> QED
    BY <1>4, <2>1, <2>2
<1> QED
  BY <1>2, <1>5, <1>6 DEF ConductInv

(* Every step of the system keeps the invariant. *)
LEMMA NextConduct == TypeInv /\ WriteInv /\ ConductInv /\ [Next]_vars => ConductInv'
<1> SUFFICES ASSUME TypeInv, WriteInv, ConductInv, [Next]_vars PROVE ConductInv'
  OBVIOUS
<1>1. TypeInv'
  BY NextType
<1>2. CASE UNCHANGED vars \/ Human
  BY <1>1, <1>2, AsideConduct DEF vars, Human, HumanFlag, Unlock, ledgerVars, mailVars
<1>3. ASSUME NEW p \in Workers, Begin(p) PROVE ConductInv'
  <2>1. PICK o \in Calls, a \in Approvals, S \in SUBSET Mutations : Acquire(p, o, a, S)
    BY <1>3 DEF Begin
  <2>2. /\ Grounded(p)' /\ Accounts(p)' /\ Elsewhere(p, ApprovalPlan[a]) /\ Moved(p)
        /\ \A q \in Workers : pc[q] # "idle" => PlanHeld(q) # ApprovalPlan[a]
        /\ ApprovalPlan[a] \in Plans
    BY <2>1, AcquireConduct, AcquireKeeps, AcquireMoves, FlagAssumption
  <2>3. /\ UNCHANGED <<requests, lands, file, latest, auth, cur>>
        /\ pc'[p] \in {"authorize", "restore_loop", "classify"}
    BY <2>1 DEF Acquire, mailVars, ledgerVars, Goto, TypeInv, TypeOK
  <2>4. \A m \in Mutations : Proved(m)'
    BY <2>3 DEF ConductInv, Proved, State, Untouched, InFlight
  <2>5. \A q \in requests' : Matches(q)'
    <3>1. \A w \in Workers : pc'[w] = "wait" =>
             pc[w] = "wait" /\ cur'[w] = cur[w] /\ job'[w] = job[w]
      BY <2>2, <2>3 DEF Moved
    <3> QED
      BY <2>3, <3>1, MatchesElse
  <2>6. ASSUME NEW q \in Workers, q # p, pc'[q] # "idle" PROVE Grounded(q)' /\ Accounts(q)'
    <3>1. pc[q] # "idle"
      BY <2>2, <2>6 DEF Moved
    <3> QED
      BY <1>1, <2>2, <2>3, <2>6, <3>1, OthersConduct
  <2> QED
    BY <2>2, <2>4, <2>5, <2>6 DEF ConductInv
<1>4. ASSUME NEW p \in Workers, Step(p), ~Return(p) PROVE ConductInv'
  <2>1. /\ Elsewhere(p, PlanHeld(p)) /\ Moved(p) /\ pc[p] # "idle"
        /\ UNCHANGED lands /\ (file' = "ok" => file = "ok")
    BY <1>4, StepKeeps, StepMail, RowsSpare DEF Keeps
  <2>2. PlanHeld(p) \in Plans
    BY <2>1, Live
  <2>3. \A m \in Mutations : Proved(m)'
    BY <1>4, ProvedStep
  <2>4. \A q \in requests' : Matches(q)'
    BY <1>4, MatchesStep
  <2>5. pc'[p] # "idle" => Grounded(p)' /\ Accounts(p)'
    BY <1>4, StepConduct
  <2>6. ASSUME NEW q \in Workers, q # p, pc'[q] # "idle" PROVE Grounded(q)' /\ Accounts(q)'
    <3>1. pc[q] # "idle"
      BY <2>1, <2>6 DEF Moved
    <3>2. PlanHeld(q) # PlanHeld(p)
      BY <2>1, <2>6, <3>1, OtherPlan
    <3> QED
      BY <1>1, <2>1, <2>2, <2>6, <3>1, <3>2, OthersConduct
  <2> QED
    BY <2>3, <2>4, <2>5, <2>6 DEF ConductInv
<1>5. ASSUME NEW p \in Workers, Return(p) \/ Crash(p) PROVE ConductInv'
  <2>1. /\ pc'[p] = "idle" /\ Moved(p) /\ pc[p] # "idle"
        /\ \A P \in Plans : Elsewhere(p, P)
    BY <1>5, LeaveKeeps, LeaveMoves DEF Return, Crash
  <2>2. PlanHeld(p) \in Plans
    BY <2>1, Live
  <2>3. UNCHANGED <<requests, lands, file, latest, auth>>
    BY <1>5 DEF Return, Crash, mailVars, ledgerVars
  <2>4. \A m \in Mutations : Proved(m)'
    BY <2>3 DEF ConductInv, Proved, State, Untouched, InFlight
  <2>5. \A q \in requests' : Matches(q)'
    <3>1. \A w \in Workers : pc'[w] = "wait" =>
             pc[w] = "wait" /\ cur'[w] = cur[w] /\ job'[w] = job[w]
      BY <2>1 DEF Moved
    <3> QED
      BY <2>3, <3>1, MatchesElse
  <2>6. ASSUME NEW q \in Workers, pc'[q] # "idle" PROVE Grounded(q)' /\ Accounts(q)'
    <3>1. q # p /\ pc[q] # "idle"
      BY <2>1, <2>6 DEF Moved
    <3>2. PlanHeld(q) # PlanHeld(p)
      BY <2>1, <3>1, OtherPlan
    <3> QED
      BY <1>1, <2>1, <2>2, <2>3, <3>1, <3>2, OthersConduct
  <2> QED
    BY <2>4, <2>5, <2>6 DEF ConductInv
<1> QED
  BY <1>1, <1>2, <1>3, <1>4, <1>5, MailAppConduct DEF Next, MailApp, Step

(* The ledger concludes only what Mail.app did, a worker in a call has in hand *)
(* only what is proved or receipted, and every mutation of its batch is in   *)
(* one place of its report.                                                  *)
THEOREM ConductInvariant == Spec => []ConductInv
<1>1. QED
  BY InitConduct, NextConduct, WriteInvariant, TypeCorrect, PTL DEF Spec

-----------------------------------------------------------------------------
(* What the invariant gives.                                                 *)

(* A restore is requested under the approval whose apply the ledger verified,  *)
(* and expects exactly the flag that approval wrote: LineageMatches is       *)
(* checked before the claim, and no later row about the mutation can be      *)
(* another worker's (_scoped_rollback_locked).                               *)
THEOREM RestoresMatchReceipt == Spec => []RestoreMatchesReceipt
<1>1. ConductInv => RestoreMatchesReceipt
  BY DEF ConductInv, Matches, RestoreMatchesReceipt
<1> QED
  BY <1>1, ConductInvariant, PTL

(* A finished call that admits a write leaves no mutation out, claims success  *)
(* only for what is verified and crossed dispatch, and an apply counts at    *)
(* least every write of its own that landed or may still land.               *)
THEOREM ReportsAddUp == Spec => []ReportsHonest
<1>1. ASSUME TypeInv, ConductInv, NEW p \in Workers, pc[p] = "done"
      PROVE  Complete(p) /\ (Kind(p) = "apply" => Counted(p))
  <2>1. Accounts(p)
    BY <1>1 DEF ConductInv
  <2>2. /\ job[p].writes > 0 => Listed(p)
        /\ job[p].status \in {"applied", "rolled_back"} =>
              job[p].failed = {} /\ job[p].unattempted = {}
        /\ VerifiedTruly(p)
    BY <1>1, <2>1 DEF Accounts
  <2>3. job[p].verified \subseteq Crossed(p)
    BY <2>2 DEF VerifiedTruly, Crossed
  <2>4. Complete(p)
    BY <2>2, <2>3 DEF Complete, Listed, VerifiedTruly
  <2>5. Uncounted(p) = {}
    BY <1>1 DEF Uncounted
  <2>6. Kind(p) = "apply" => Cardinality(Crossed(p) \ Uncounted(p)) <= job[p].writes
    BY <2>1 DEF Accounts
  <2>7. Crossed(p) \ {} = Crossed(p)
    OBVIOUS
  <2>8. Kind(p) = "apply" => Counted(p)
    BY <2>5, <2>6, <2>7 DEF Counted
  <2> QED
    BY <2>4, <2>8
<1>2. TypeInv /\ ConductInv => ReportsHonest
  BY <1>1 DEF ReportsHonest
<1> QED
  BY <1>2, ConductInvariant, TypeCorrect, PTL

(* A worker takes up only mutations that are not frozen. *)
LEMMA StepTakes ==
    ASSUME TypeInv, ConductInv, NEW p \in Workers, Step(p)
    PROVE  \/ cur'[p] \in {cur[p], NoMutation}
           \/ \E m \in Mutations : ~Frozen(m) /\ cur'[p] = m
<1>1. cur \in [Workers -> Mutations \cup {NoMutation}]
  BY DEF TypeInv, TypeOK
<1>2. CASE \/ Authorize(p) \/ NextPhase(p) \/ Deadline(p) \/ AllApplied(p)
           \/ AllRestored(p) \/ Classify(p) \/ CheckDone(p) \/ Return(p)
  BY <1>1, <1>2 DEF Authorize, NextPhase, Deadline, AllApplied, AllRestored, Classify,
     CheckDone, Return, OuterHandler, Blocked, Finish, Proceed
<1>3. CASE \/ Recheck(p) \/ Send(p) \/ Timeout(p) \/ Readback(p) \/ Ambiguous(p)
           \/ Refused(p) \/ RecordDrift(p) \/ RecordAutomationState(p)
           \/ PrivateStateFailed(p)
  BY <1>1, <1>3 DEF Recheck, Send, Timeout, Readback, Ambiguous, Refused, RecordDrift,
     RecordAutomationState, PrivateStateFailed, Fail, Finish
<1>4. CASE \/ Verify(p) \/ Finalize(p) \/ RecordDivergence(p) \/ LogRestoreRow(p)
           \/ RecordHuman(p) \/ RecordRestored(p)
  BY <1>1, <1>4 DEF Verify, Finalize, RecordDivergence, LogRestoreRow, RecordHuman,
     RecordRestored, OuterHandler, Fail, Finish
<1>5. CASE \E m \in Mutations : LogRow(p, m) \/ Preflight(p, m)
  BY <1>1, <1>5 DEF LogRow, Preflight, OuterHandler, Finish
<1>6. ASSUME NEW m \in Mutations, ClaimApply(p, m)
      PROVE  cur'[p] \in {m, NoMutation} /\ ~Frozen(m)
  <2>1. pc[p] = "loop" /\ m \in job[p].pending
    BY <1>6 DEF ClaimApply
  <2>2. Kind(p) = "apply" /\ Grounded(p)
    BY <2>1 DEF TypeInv, Working, ApplySteps, ConductInv
  <2> QED
    BY <1>1, <1>6, <2>1, <2>2 DEF ClaimApply, Finish, Grounded
<1>7. CASE \E m \in Mutations : CheckCandidate(p, m)
  BY <1>1, <1>7 DEF CheckCandidate, OuterHandler, Finish
<1>8. CASE \E m \in Mutations : Scope(p, m)
  BY <1>1, <1>8 DEF Scope, OuterHandler, Fail, Finish
<1> QED
  BY <1>2, <1>3, <1>4, <1>5, <1>6, <1>7, <1>8 DEF Step

(* A row about a mutation that was left frozen leaves it frozen. *)
LEMMA FrozenStays ==
    ASSUME TypeInv, WriteInv, ConductInv, NEW p \in Workers, Step(p), ~Return(p),
           NEW m \in Mutations, Stuck(m)
    PROVE  latest'[m] \in FrozenLatestStatuses
<1>1. pc[p] # "idle" /\ Grounded(p) /\ latest[m] \in FrozenLatestStatuses /\ cur[p] # m
  BY StepKeeps DEF ConductInv, Stuck, Frozen
<1>2. CASE UNCHANGED ledgerVars
  BY <1>1, <1>2 DEF ledgerVars
<1>3. CASE ~UNCHANGED ledgerVars
  <2>1. PICK n \in job[p].scope, s \in Statuses :
           /\ Appends(p, n, s)
           /\ Appended(RowFor(p, n, s)) \/ AppendFailed(RowFor(p, n, s))
    BY <1>3, StepRow
  <2>2. n \in Mutations /\ job[p].todo \subseteq job[p].scope
    BY <1>1, Live
  <2>3. CASE n # m
    <3>1. latest'[m] = latest[m]
      BY <1>1, <2>1, <2>2, <2>3, RowEffect
    <3> QED
      BY <1>1, <3>1
  <2>4. CASE n = m
    <3>1. latest'[m] \in {latest[m], s}
      BY <1>1, <2>1, <2>2, <2>4, RowEffect
    <3>2. CASE pc[p] \in {"refreeze", "freeze"} /\ s = RowStatus(pc[p])
      BY <1>1, <3>1, <3>2 DEF RowStatus, FrozenLatestStatuses
    <3>3. CASE pc[p] \in ThawedSteps
      BY <1>1, <2>4, <3>3 DEF Grounded, Stuck
    <3>4. CASE pc[p] = "loop" /\ m \in job[p].pending
      <4>1. Kind(p) = "apply"
        BY <3>4 DEF TypeInv, Working, ApplySteps
      <4> QED
        BY <1>1, <3>4, <4>1 DEF Grounded, Stuck
    <3> QED
      BY <1>1, <2>1, <2>4, <3>2, <3>3, <3>4 DEF Appends, RowSteps, ThawedSteps
  <2> QED
    BY <2>3, <2>4
<1> QED
  BY <1>2, <1>3

(* A mutation whose write may have landed unproved, and whose worker is gone,  *)
(* is never taken up by another call and its row is never covered by one     *)
(* that lets it move again: "a human recovery must append a conclusive       *)
(* lifecycle row" first.                                                     *)
THEOREM FrozenStaysFinal == Spec => FrozenIsFinal
<1>1. ASSUME TypeInv, WriteInv, ConductInv, [Next]_vars, NEW m \in Mutations, Stuck(m)
      PROVE  Stuck(m)'
  <2>1. \A p \in Workers : cur[p] # m
    BY <1>1 DEF Stuck
  <2>2. CASE UNCHANGED vars \/ Human
    BY <1>1, <2>2 DEF vars, Human, HumanFlag, Unlock, ledgerVars, mailVars, Stuck, Frozen
  <2>3. ASSUME NEW p \in Workers, Begin(p) PROVE Stuck(m)'
    BY <1>1, <2>3 DEF Begin, Acquire, ledgerVars, mailVars, Stuck, Frozen
  <2>4. ASSUME NEW p \in Workers, Return(p) \/ Crash(p) PROVE Stuck(m)'
    <3>1. Moved(p) /\ cur'[p] \in {cur[p], NoMutation} /\ UNCHANGED latest
      BY <1>1, <2>4, LeaveMoves
      DEF Return, Crash, ledgerVars, mailVars, TypeInv, TypeOK
    <3> QED
      BY <1>1, <2>1, <3>1, FlagAssumption DEF Moved, Stuck, Frozen
  <2>5. ASSUME NEW p \in Workers, Step(p), ~Return(p) PROVE Stuck(m)'
    <3>1. Moved(p) /\ latest'[m] \in FrozenLatestStatuses
      BY <1>1, <2>5, StepKeeps, FrozenStays
    <3>2. cur'[p] # m
      BY <1>1, <2>1, <2>5, StepTakes, FlagAssumption DEF Stuck
    <3>3. \A q \in Workers : cur'[q] # m
      BY <2>1, <3>1, <3>2 DEF Moved
    <3> QED
      BY <3>1, <3>3 DEF Stuck, Frozen
  <2>6. ASSUME NEW q \in requests, Land(q) \/ Drift(q) \/ Lose(q) PROVE Stuck(m)'
    BY <1>1, <2>1, <2>6, MailAppCounts DEF Stuck, Frozen
  <2> QED
    BY <1>1, <2>2, <2>3, <2>4, <2>5, <2>6 DEF Next, MailApp
<1>2. TypeInv /\ WriteInv /\ ConductInv /\ [Next]_vars =>
         [\A m \in Mutations : Stuck(m) => Stuck(m)']_vars
  BY <1>1
<1> QED
  BY <1>2, TypeCorrect, WriteInvariant, ConductInvariant, PTL DEF Spec, FrozenIsFinal

-----------------------------------------------------------------------------
(* FlagLifecycle is implemented: every step of the engine claims one mutation, *)
(* writes under a claim, concludes what was written, loses the record, or    *)
(* changes nothing a reader of the record or of the mailbox could see.       *)

LifecycleStep == [Lifecycle!LifecycleNext]_(Lifecycle!lifecycleVars)

(* What the record says of a mutation nobody has claimed is the truth. *)
RecordTrue ==
    \A m \in Mutations : ~Claimed(m) =>
        Belief(m) = Lifecycle!TruthAbout(Written(m)) /\ Belief(m) # "in_doubt"

(* The invariants make the record true where nobody has claimed. *)
LEMMA UnclaimedTrue == TypeInv /\ WriteInv /\ ConductInv => RecordTrue
<1> SUFFICES ASSUME TypeInv, WriteInv, ConductInv, NEW m \in Mutations, ~Claimed(m)
             PROVE  Belief(m) = Lifecycle!TruthAbout(Written(m)) /\ Belief(m) # "in_doubt"
  BY DEF RecordTrue
<1>1. /\ State(m) = "none" => Fresh(m)
      /\ State(m) = "verified" => Untouched(m, "restore")
      /\ Proved(m) /\ auth[m] \in Records
      /\ lands[<<m, "apply">>] \in Nat /\ lands[<<m, "restore">>] \in Nat
  BY DEF WriteInv, LedgerTrue, ConductInv, TypeInv, TypeOK, Writes, Kinds
<1>2. /\ State(m) \in {"none", "verified", "rolled_back"}
      /\ State(m) = "none" <=> auth[m].status = "none"
      /\ State(m) = "rolled_back" <=> auth[m].status = "rolled_back"
  BY <1>1 DEF State, AuthoritativeState, Records, NoRecord, AuthoritativeStatuses
<1>3. ~(file = "corrupt" \/ latest[m] \in HazardousLatestStatuses)
  BY DEF Claimed
<1>4. CASE State(m) = "none"
  BY <1>1, <1>3, <1>4
  DEF Fresh, Untouched, Written, Belief, Lifecycle!TruthAbout
<1>5. CASE State(m) = "verified"
  BY <1>1, <1>2, <1>3, <1>5
  DEF Proved, Untouched, Written, Belief, Lifecycle!TruthAbout
<1>6. CASE State(m) = "rolled_back"
  BY <1>1, <1>2, <1>3, <1>6 DEF Proved, Written, Belief, Lifecycle!TruthAbout
<1> QED
  BY <1>2, <1>4, <1>5, <1>6

(* At the start nothing is written and nothing in doubt. *)
LEMMA LifecycleStarts == Init => Lifecycle!LifecycleInit
<1> SUFFICES ASSUME Init PROVE Lifecycle!LifecycleInit
  OBVIOUS
<1>1. ASSUME NEW m \in Mutations PROVE Written(m) = "never" /\ Belief(m) = "clean"
  <2>1. /\ lands[<<m, "apply">>] = 0 /\ lands[<<m, "restore">>] = 0
        /\ file = "ok" /\ latest[m] = "none" /\ auth[m] = NoRecord
    BY DEF Init, Writes, Kinds
  <2>2. State(m) = "none" /\ "none" \notin HazardousLatestStatuses
    BY <2>1 DEF State, AuthoritativeState, NoRecord, HazardousLatestStatuses,
       FrozenLatestStatuses
  <2> QED
    BY <2>1, <2>2 DEF Written, Belief
<1> QED
  BY <1>1 DEF Lifecycle!LifecycleInit

(* A step that touches neither the ledger nor the counts is no step of it. *)
LEMMA LifecycleStutters ==
    ASSUME UNCHANGED <<lands, file, latest, auth>>
    PROVE  LifecycleStep
<1>1. \A m \in Mutations : Written(m)' = Written(m) /\ Belief(m)' = Belief(m)
  BY DEF Written, Belief, State
<1> QED
  BY <1>1 DEF LifecycleStep, Lifecycle!lifecycleVars

(* One row: a claim, a conclusion, or the end of the record. *)
LEMMA RowLifecycle ==
    ASSUME TypeInv, WriteInv, RecordTrue, RecordTrue',
           NEW p \in Workers, Step(p), ~Return(p)
    PROVE  LifecycleStep
<1>1. UNCHANGED lands /\ pc[p] # "idle"
  BY StepMail, StepKeeps
<1>2. \A m \in Mutations : Written(m)' = Written(m)
  BY <1>1 DEF Written
<1>3. CASE UNCHANGED ledgerVars
  BY <1>1, <1>3, LifecycleStutters DEF ledgerVars
<1>4. CASE ~UNCHANGED ledgerVars
  <2>1. PICK n \in job[p].scope, s \in Statuses :
           Appended(RowFor(p, n, s)) \/ AppendFailed(RowFor(p, n, s))
    BY <1>4, StepRow
  <2>2. n \in Mutations
    BY <1>1, Live
  <2>3. /\ \A m \in Mutations \ {n} : latest'[m] = latest[m] /\ auth'[m] = auth[m]
        /\ file = "corrupt" => file' = "corrupt"
    BY <1>1, <2>1, <2>2, RowEffect
  <2>4. CASE file' = "corrupt"
    <3>1. \A m \in Mutations : Belief(m)' = "in_doubt"
      BY <2>4 DEF Belief
    <3>2. Lifecycle!LoseRecord
      BY <1>2, <3>1 DEF Lifecycle!LoseRecord
    <3> QED
      BY <3>2 DEF LifecycleStep, Lifecycle!LifecycleNext
  <2>5. CASE file' # "corrupt"
    <3>1. \A m \in Mutations \ {n} : Belief(m)' = Belief(m)
      BY <2>3, <2>5 DEF Belief, State
    <3>2. CASE Belief(n)' = Belief(n)
      <4>1. \A m \in Mutations : Belief(m)' = Belief(m)
        BY <3>1, <3>2
      <4> QED
        BY <1>2, <4>1 DEF LifecycleStep, Lifecycle!lifecycleVars
    <3>3. CASE Belief(n)' = "in_doubt"
      <4>1. Lifecycle!Claim(n)
        BY <1>2, <2>2, <3>1, <3>3 DEF Lifecycle!Claim
      <4> QED
        BY <2>2, <4>1 DEF LifecycleStep, Lifecycle!LifecycleNext
    <3>4. CASE Belief(n)' # Belief(n) /\ Belief(n)' # "in_doubt"
      <4>1. Belief(n)' = Lifecycle!TruthAbout(Written(n))
        <5>1. ~Claimed(n)'
          BY <3>4 DEF Belief, Claimed
        <5>2. Belief(n)' = Lifecycle!TruthAbout(Written(n)')
          BY <2>2, <5>1 DEF RecordTrue
        <5> QED
          BY <1>2, <2>2, <5>2
      <4>2. Belief(n) = "in_doubt"
        <5>1. CASE Claimed(n)
          BY <5>1 DEF Belief, Claimed
        <5>2. CASE ~Claimed(n)
          BY <2>2, <3>4, <4>1, <5>2 DEF RecordTrue
        <5> QED
          BY <5>1, <5>2
      <4>3. Lifecycle!Conclude(n)
        BY <1>2, <2>2, <3>1, <4>1, <4>2 DEF Lifecycle!Conclude
      <4> QED
        BY <2>2, <4>3 DEF LifecycleStep, Lifecycle!LifecycleNext
    <3> QED
      BY <3>2, <3>3, <3>4
  <2> QED
    BY <2>4, <2>5
<1> QED
  BY <1>3, <1>4

(* Mail.app writes only under a claim, and only forwards. *)
LEMMA LandLifecycle ==
    ASSUME TypeInv, WriteInv, ConductInv, NEW q \in requests, Land(q)
    PROVE  LifecycleStep
<1> DEFINE m == q.mutation
<1>1. /\ m \in Mutations /\ q.kind \in {"apply", "restore"}
      /\ UNCHANGED <<file, latest, auth>>
      /\ lands'[<<m, q.kind>>] > 0
      /\ \A w \in Writes : lands[w] \in Nat /\ lands'[w] \in Nat
      /\ \A w \in Writes : w # <<m, q.kind>> => lands'[w] = lands[w]
  BY MailAppCounts DEF Requests, Kinds
<1>2. q \in InFlight(m, q.kind)
  BY DEF InFlight
<1>3. lands[<<m, q.kind>>] = 0 /\ ~Untouched(m, q.kind)
  BY <1>1, <1>2 DEF WriteInv, OneRequest, Untouched, Kinds
<1>4. Proved(m) /\ auth[m] \in Records
  BY <1>1 DEF ConductInv, TypeInv, TypeOK
<1>5. Claimed(m)
  <2> SUFFICES ASSUME ~Claimed(m) PROVE FALSE
    OBVIOUS
  <2>1. /\ State(m) = "none" => Fresh(m)
        /\ State(m) = "verified" => Untouched(m, "restore")
    BY <1>1 DEF WriteInv, LedgerTrue
  <2>2. /\ State(m) \in {"none", "verified", "rolled_back"}
        /\ State(m) = "rolled_back" <=> auth[m].status = "rolled_back"
        /\ State(m) = "none" <=> auth[m].status = "none"
    BY <1>4 DEF State, AuthoritativeState, Records, NoRecord, AuthoritativeStatuses
  <2>3. CASE State(m) = "none"
    BY <1>1, <1>3, <2>1, <2>3 DEF Fresh
  <2>4. CASE State(m) = "verified"
    <3>1. q.kind = "apply" /\ lands[<<m, "apply">>] > 0
      BY <1>1, <1>3, <1>4, <2>1, <2>2, <2>4 DEF Proved
    <3> QED
      BY <1>3, <3>1
  <2>5. CASE State(m) = "rolled_back"
    <3>1. lands[<<m, "apply">>] > 0 /\ lands[<<m, "restore">>] > 0
      BY <1>4, <2>2, <2>5 DEF Proved
    <3> QED
      BY <1>1, <1>3, <3>1
  <2> QED
    BY <2>2, <2>3, <2>4, <2>5
<1>6. /\ Belief(m) = "in_doubt"
      /\ \A n \in Mutations : Belief(n)' = Belief(n)
  BY <1>1, <1>5 DEF Belief, Claimed, State
<1>7. \A n \in Mutations \ {m} : Written(n)' = Written(n)
  <2>1. \A n \in Mutations \ {m}, k \in Kinds :
           <<n, k>> \in Writes /\ <<n, k>> # <<m, q.kind>>
    BY DEF Writes
  <2>2. \A n \in Mutations \ {m}, k \in Kinds : lands'[<<n, k>>] = lands[<<n, k>>]
    BY <1>1, <2>1
  <2> QED
    BY <2>2 DEF Written, Kinds
<1>8. \/ Written(m) = "never" /\ Written(m)' = "applied"
      \/ Written(m) = "applied" /\ Written(m)' = "restored"
  <2>1. <<m, "apply">> \in Writes /\ <<m, "restore">> \in Writes
    BY <1>1 DEF Writes, Kinds
  <2>2. CASE q.kind = "apply"
    <3>1. Untouched(m, "restore")
      BY <1>3, <1>4, <2>2 DEF Proved
    <3>2. lands[<<m, "restore">>] = 0 /\ lands'[<<m, "restore">>] = 0
      BY <1>1, <2>1, <2>2, <3>1 DEF Untouched
    <3> QED
      BY <1>1, <1>3, <2>2, <3>2 DEF Written
  <2>3. CASE q.kind = "restore"
    <3>1. lands[<<m, "apply">>] > 0
      BY <1>3, <1>4, <2>3 DEF Proved
    <3> QED
      BY <1>1, <1>3, <2>3, <3>1 DEF Written
  <2> QED
    BY <1>1, <2>2, <2>3
<1>9. Lifecycle!Write(m)
  BY <1>1, <1>6, <1>7, <1>8 DEF Lifecycle!Write
<1> QED
  BY <1>1, <1>9 DEF LifecycleStep, Lifecycle!LifecycleNext

(* Every step of the system is a step of the lifecycle, or a stutter. *)
LEMMA LifecycleNextStep ==
    ASSUME TypeInv, WriteInv, ConductInv, RecordTrue, RecordTrue', [Next]_vars
    PROVE  LifecycleStep
<1>1. CASE UNCHANGED vars \/ Human
  BY <1>1, LifecycleStutters DEF vars, Human, HumanFlag, Unlock, ledgerVars, mailVars
<1>2. ASSUME NEW p \in Workers, Begin(p) \/ Return(p) \/ Crash(p) PROVE LifecycleStep
  BY <1>2, LifecycleStutters DEF Begin, Acquire, Return, Crash, ledgerVars, mailVars
<1>3. ASSUME NEW p \in Workers, Step(p), ~Return(p) PROVE LifecycleStep
  BY <1>3, RowLifecycle
<1>4. ASSUME NEW q \in requests, Land(q) \/ Drift(q) \/ Lose(q) PROVE LifecycleStep
  <2>1. ~Land(q) => UNCHANGED <<lands, file, latest, auth>>
    BY <1>4, MailAppCounts
  <2> QED
    BY <1>4, <2>1, LandLifecycle, LifecycleStutters
<1> QED
  BY <1>1, <1>2, <1>3, <1>4 DEF Next, MailApp

(* Seen through its mailbox and its ledger alone, the engine is a              *)
(* FlagLifecycle: whatever crashes, times out, interleaves or damages the    *)
(* file, a mutation is claimed before it is written, written once, restored  *)
(* once after that, and doubt about it is lifted only by the truth.          *)
THEOREM EngineImplementsLifecycle == Spec => ImplementsLifecycle
<1>1. Init => Lifecycle!LifecycleInit
  BY LifecycleStarts
<1>2. /\ TypeInv /\ WriteInv /\ ConductInv /\ RecordTrue /\ RecordTrue' /\ [Next]_vars
      => [Lifecycle!LifecycleNext]_(Lifecycle!lifecycleVars)
  BY LifecycleNextStep DEF LifecycleStep
<1> QED
  BY <1>1, <1>2, UnclaimedTrue, TypeCorrect, WriteInvariant, ConductInvariant, PTL
  DEF Spec, ImplementsLifecycle, Lifecycle!Spec
=============================================================================
