------------------------ MODULE ArchiveTransactions ------------------------
(***************************************************************************)
(* Conditional archiving: ArchiveEngine (core/archive_transactions.py) over *)
(* the native adapters (providers/archive_native.py,                       *)
(* providers/imap_archive_native.py) and the guard that re-reads           *)
(* protection and overrides (core/archive_guard.py).                       *)
(*                                                                         *)
(* Workers are processes that apply or roll back a reviewed plan.  One     *)
(* lock covers the state directory.  Each plan has one receipt file, which *)
(* is rewritten whole; a rewrite may fail before or after the new file is  *)
(* in place.  The mail server executes a dispatched move at its own time,  *)
(* and a person moves messages and claims them meanwhile.                  *)
(***************************************************************************)
EXTENDS Naturals, FiniteSets

CONSTANTS
    Workers,    \* processes that run `mail archive apply|rollback`
    Plans,      \* content hashes of archive plans
    Messages,   \* message identities
    Approvals,  \* canary selections and rollout authorizations
    PlanRows,   \* the messages a plan archives
    Selection,  \* the messages an approval selects in a plan ({}: none)
    CanaryOf,   \* the canary plan a rollout rests on, NoPlan for a canary
    Provider,   \* "gmail", "outlook" or "icloud"
    MaxActs,    \* bound: how often people move or claim messages
    Nobody, NoPlan, NoMessage, NoApproval

ASSUME ArchiveAssumption ==
    /\ PlanRows \in [Plans -> SUBSET Messages]
    /\ \A p \in Plans : IsFiniteSet(PlanRows[p])
    /\ Selection \in [Approvals -> [Plans -> SUBSET Messages]]
    /\ \A a \in Approvals, p \in Plans : Selection[a][p] \subseteq PlanRows[p]
    /\ CanaryOf \in [Approvals -> Plans \cup {NoPlan}]
    /\ Provider \in {"gmail", "outlook", "icloud"}
    /\ MaxActs \in Nat
    /\ Nobody \notin Workers
    /\ NoPlan \notin Plans
    /\ NoMessage \notin Messages
    /\ NoApproval \notin Approvals

VARIABLES
    box,        \* each message on the server, with the guard's answer
    acts,       \* how often people have intervened
    planned,    \* the revision a plan was built against, 0: not built
    requests,   \* moves that were handed to the server and may still happen
    sent,       \* history: how often each move was handed to the server
    done,       \* history: moves the server has executed
    disk,       \* the receipt file of each plan
    lock,       \* holder of archive.lock
    pc,         \* where each worker is
    job,        \* its local variables
    mem         \* the receipt it is building

serverVars == <<box, acts, requests, sent, done>>
vars == <<box, acts, planned, requests, sent, done, disk, lock, pc, job, mem>>

-----------------------------------------------------------------------------
Kinds    == {"archive", "restore"}
Rows     == UNION {{p} \X PlanRows[p] : p \in Plans}
Moves    == Rows \X Kinds
Places   == {"inbox", "archive", "trash"}
\* What observe_archive reports.  The same content in the same mailbox under
\* the same revision is the same observation; "hold" joins the guard's
\* protected and human_override.  home: the message still has the native
\* identity it was inventoried under (its UID in the Inbox).
Observations == [place : Places, rev : Nat, hold : BOOLEAN,
                 home : BOOLEAN]

RowStatuses ==
    {"none", "unattempted", "failed", "conflicted", "intent", "uncertain",
     "unchanged", "verified", "rollback_conflicted", "rollback_intent",
     "rollback_uncertain", "rolled_back"}
Unresolved == [place |-> "inbox", rev |-> 1, hold |-> FALSE, home |-> TRUE]
ReceiptStatuses ==
    RowStatuses \cup {"prepared", "blocked", "run_ceiling",
                      "rollback_incomplete"}
Receipts == [status : ReceiptStatuses, approval : Approvals \cup {NoApproval},
             rows : [Messages -> RowStatuses],
             after : [Messages -> Observations],
             writes : Nat, undone : Nat]
NoReceipt == [status |-> "none", approval |-> NoApproval,
              rows |-> [m \in Messages |-> "none"],
              after |-> [m \in Messages |-> Unresolved],
              writes |-> 0, undone |-> 0]

Steps == {"idle", "preflight", "loop", "dispatch", "wait", "observe",
          "outcome", "finish", "undo_loop", "undo_dispatch", "undo_wait",
          "undo_outcome", "undo_finish"}
NoJob == [plan |-> NoPlan, todo |-> {}, cur |-> NoMessage, looks |-> 0]
Jobs  == [plan : Plans \cup {NoPlan}, todo : SUBSET Messages,
          cur : Messages \cup {NoMessage}, looks : 0..2]

TypeOK ==
    /\ box \in [Messages -> Observations]
    /\ acts \in Nat
    /\ planned \in [Plans -> [Messages -> Nat]]
    /\ requests \subseteq Moves
    /\ sent \in [Moves -> Nat]
    /\ done \subseteq Moves
    /\ disk \in [Plans -> Receipts]
    /\ lock \in Workers \cup {Nobody}
    /\ pc \in [Workers -> Steps]
    /\ job \in [Workers -> Jobs]
    /\ mem \in [Workers -> Receipts]

Init ==
    /\ box = [m \in Messages |-> Unresolved]
    /\ acts = 0
    /\ planned = [p \in Plans |-> [m \in Messages |-> 0]]
    /\ requests = {}
    /\ sent = [x \in Moves |-> 0]
    /\ done = {}
    /\ disk = [p \in Plans |-> NoReceipt]
    /\ lock = Nobody
    /\ pc = [w \in Workers |-> "idle"]
    /\ job = [w \in Workers |-> NoJob]
    /\ mem = [w \in Workers |-> NoReceipt]

-----------------------------------------------------------------------------
(* Observation and its verdict.                                            *)

\* The reads of an observation need the native identity: a message that
\* came back to the Inbox of an IMAP server has another UID there.
Readable(m) == ~(Provider = "icloud" /\
    (box[m].place = "trash" \/ (box[m].place = "inbox" /\ ~box[m].home)))

\* The observation a plan was built from.
Before(p, m) == [place |-> "inbox", rev |-> planned[p][m], hold |-> FALSE,
                 home |-> TRUE]
Unmoved(p, m) == box[m].rev = planned[p][m] /\ ~box[m].hold

\* verify_observation: the provider's proof, then preservation and override.
Verdict(o) ==
    CASE o.hold -> "conflicted"
      [] ~o.hold /\ o.place = "archive" -> "verified"
      [] ~o.hold /\ o.place # "archive" /\ Provider # "gmail" -> "uncertain"
      [] ~o.hold /\ o.place = "inbox" /\ Provider = "gmail" -> "unchanged"
      [] ~o.hold /\ o.place = "trash" /\ Provider = "gmail" -> "conflicted"

-----------------------------------------------------------------------------
(* The receipt file and the end of a call.                                 *)

Cur(w)  == job[w].cur
Plan(w) == job[w].plan

Row(r, m, status) == [r EXCEPT !.rows[m] = status]

Leave(w) ==
    /\ lock' = Nobody
    /\ pc' = [pc EXCEPT ![w] = "idle"]
    /\ job' = [job EXCEPT ![w] = NoJob]
    /\ mem' = [mem EXCEPT ![w] = NoReceipt]

\* An exception: the call ends and what the receipt said stays.
Abort(w) == Leave(w) /\ UNCHANGED disk

Saved(w, r) == disk' = [disk EXCEPT ![Plan(w)] = r]

\* _persist raises: the new file may be in place all the same.
SaveFails(w, r) == (Saved(w, r) \/ UNCHANGED disk) /\ Leave(w)

\* _persist, then go on at step with memory r2.
Persist(w, r, step, j, r2) ==
    \/ /\ Saved(w, r)
       /\ pc' = [pc EXCEPT ![w] = step]
       /\ job' = [job EXCEPT ![w] = j]
       /\ mem' = [mem EXCEPT ![w] = r2]
       /\ UNCHANGED lock
    \/ SaveFails(w, r)

\* The last _persist of a call.
PersistAndReturn(w, r) == (Saved(w, r) /\ Leave(w)) \/ SaveFails(w, r)

Go(w, step, j, r) ==
    /\ pc' = [pc EXCEPT ![w] = step]
    /\ job' = [job EXCEPT ![w] = j]
    /\ mem' = [mem EXCEPT ![w] = r]
    /\ UNCHANGED <<disk, lock>>

-----------------------------------------------------------------------------
(* apply.                                                                  *)

\* build_plan: every message is in the Inbox and nobody claims it.
BuildPlan(p) ==
    /\ \A m \in Messages : planned[p][m] = 0
    /\ PlanRows[p] # {}
    /\ \A m \in PlanRows[p] :
           Readable(m) /\ box[m].place = "inbox" /\ ~box[m].hold
    /\ planned' = [planned EXCEPT ![p] =
           [m \in Messages |-> IF m \in PlanRows[p] THEN box[m].rev ELSE 0]]
    /\ UNCHANGED <<serverVars, disk, lock, pc, job, mem>>

Built(p) == \E m \in Messages : planned[p][m] # 0

\* Slip: the canary only has to leave the rollout's messages alone.
CanaryApart(a, p) ==
    CanaryOf[a] # NoPlan =>
        {m \in Messages : disk[CanaryOf[a]].rows[m] # "none"}
            \cap Selection[a][p] = {}

\* _approved_selection of a rollout: its canary stands verified, and none of
\* the canary's messages is taken again.
CanaryStands(a, p) ==
    CanaryOf[a] # NoPlan =>
        LET first == disk[CanaryOf[a]]
            used  == {m \in Messages : first.rows[m] # "none"}
        IN  /\ first.status = "verified"
            /\ first.approval \in Approvals
            /\ CanaryOf[first.approval] = NoPlan
            /\ \A m \in used : first.rows[m] = "verified"
            /\ used \cap Selection[a][p] = {}

\* A receipt of the same rollout already names one of the messages.
ScopeTaken(a, p) ==
    /\ CanaryOf[a] # NoPlan
    /\ \E q \in Plans : /\ disk[q].approval = a
                        /\ \E m \in Selection[a][p] : disk[q].rows[m] # "none"

\* Slip: the plan's own hash is filed where the approval's belongs.
PreparedLoosely(a, p) ==
    [NoReceipt EXCEPT !.status = "prepared", !.approval = p,
        !.rows = [m \in Messages |-> IF m \in Selection[a][p]
                                     THEN "unattempted" ELSE "none"]]

\* The receipt that makes the plan known before anything is read.
Prepared(a, p) ==
    [NoReceipt EXCEPT !.status = "prepared", !.approval = a,
        !.rows = [m \in Messages |-> IF m \in Selection[a][p]
                                     THEN "unattempted" ELSE "none"]]

\* Slip: a plan whose last attempt did not verify may be applied again.
Replayable(p) == disk[p].status \in {"none", "uncertain"}

\* The receipt path does not exist yet.
Fresh(p) == disk[p].status = "none"

\* apply up to the prepared receipt.  A call that is refused here changes
\* nothing and is not a step.
Apply(w, p, a) ==
    /\ pc[w] = "idle"
    /\ lock = Nobody
    /\ Built(p)
    /\ Selection[a][p] # {}
    /\ CanaryStands(a, p)
    /\ Fresh(p)
    /\ ~ScopeTaken(a, p)
    /\ LET r == Prepared(a, p)
       IN  \/ /\ disk' = [disk EXCEPT ![p] = r]
              /\ lock' = w
              /\ pc' = [pc EXCEPT ![w] = "preflight"]
              /\ job' = [job EXCEPT ![w] = [NoJob EXCEPT
                            !.plan = p, !.todo = Selection[a][p]]]
              /\ mem' = [mem EXCEPT ![w] = r]
           \/ /\ disk' = [disk EXCEPT ![p] = r]
              /\ UNCHANGED <<lock, pc, job, mem>>
    /\ UNCHANGED <<serverVars, planned>>

\* All or zero: one unreadable or changed message blocks the plan.
Preflight(w) ==
    /\ pc[w] = "preflight"
    /\ LET j == job[w]
           Blocked(m, status) == PersistAndReturn(w,
               [Row(mem[w], m, status) EXCEPT !.status = "blocked"])
       IN  \/ /\ \A m \in j.todo : Readable(m) /\ Unmoved(Plan(w), m)
              /\ Go(w, "loop", j, mem[w])
           \/ \E m \in j.todo : Blocked(m, "failed")
           \/ \E m \in j.todo : /\ Readable(m) /\ ~Unmoved(Plan(w), m)
                                /\ Blocked(m, "conflicted")
    /\ UNCHANGED <<serverVars, planned>>

\* The second observation of a message and its durable intent.
Claim(w) ==
    /\ pc[w] = "loop"
    /\ \E m \in job[w].todo :
         LET j == [job[w] EXCEPT !.cur = m, !.todo = @ \ {m}]
             r == Row(mem[w], m, "intent")
             Stop(status) == Go(w, "finish", j,
                 [Row(mem[w], m, status) EXCEPT !.status = status])
         IN  \/ /\ Readable(m) /\ Unmoved(Plan(w), m)
                /\ Persist(w, r, "dispatch", j,
                     [Row(r, m, "uncertain") EXCEPT !.writes = @ + 1])
             \/ /\ Readable(m) /\ ~Unmoved(Plan(w), m)
                /\ Stop("conflicted")
             \/ Stop("failed")
    /\ UNCHANGED <<serverVars, planned>>

\* The ten minutes are over before the next message.
Ceiling(w) ==
    /\ pc[w] = "loop"
    /\ job[w].todo # {}
    /\ Go(w, "finish", job[w], [mem[w] EXCEPT !.status = "run_ceiling"])
    /\ UNCHANGED <<serverVars, planned>>

AllVerified(w) ==
    /\ pc[w] = "loop"
    /\ job[w].todo = {}
    /\ Go(w, "finish", job[w], [mem[w] EXCEPT !.status = "verified"])
    /\ UNCHANGED <<serverVars, planned>>

Issue(w, kind) ==
    LET x == <<<<Plan(w), Cur(w)>>, kind>>
    IN  /\ requests' = requests \cup {x}
        /\ sent' = [sent EXCEPT ![x] = @ + 1]
        /\ UNCHANGED <<box, acts, done, planned>>

\* dispatch_archive: the adapter observes once more, then sends the move.
Dispatch(w) ==
    /\ pc[w] = "dispatch"
    /\ LET m == Cur(w)
       IN  \/ /\ Readable(m) /\ Unmoved(Plan(w), m)
              /\ Issue(w, "archive")
              /\ Go(w, "wait", job[w], mem[w])
           \/ /\ Readable(m) /\ ~Unmoved(Plan(w), m)
              /\ Go(w, "outcome", job[w],
                   [Row(mem[w], m, "conflicted") EXCEPT !.writes = @ - 1])
              /\ UNCHANGED <<serverVars, planned>>
           \/ /\ Go(w, "outcome", job[w], mem[w])
              /\ UNCHANGED <<serverVars, planned>>

Answered(w, kind) ==
    <<<<Plan(w), Cur(w)>>, kind>> \in done \ requests

\* "applied", or an exception that says nothing about the move.
Await(w) ==
    /\ pc[w] = "wait"
    /\ \/ /\ Answered(w, "archive")
          /\ Go(w, "observe", job[w], mem[w])
       \/ Go(w, "outcome", job[w], mem[w])
    /\ UNCHANGED <<serverVars, planned>>

\* One of the three looks at the result; the last one decides unless one
\* conflicts or cannot be made.
Observe(w) ==
    /\ pc[w] = "observe"
    /\ LET m == Cur(w)
           j == job[w]
           v == Verdict(box[m])
           r == [Row(mem[w], m, v) EXCEPT !.after[m] = box[m]]
       IN  \/ /\ Readable(m)
              /\ IF v = "conflicted" \/ j.looks = 2
                 THEN Go(w, "outcome", [j EXCEPT !.looks = 0], r)
                 ELSE Go(w, "observe", [j EXCEPT !.looks = @ + 1], r)
           \/ Go(w, "outcome", [j EXCEPT !.looks = 0],
                 Row(mem[w], m, "uncertain"))
    /\ UNCHANGED <<serverVars, planned>>

Outcome(w) ==
    /\ pc[w] = "outcome"
    /\ LET status == mem[w].rows[Cur(w)]
           j == [job[w] EXCEPT !.cur = NoMessage]
       IN  IF status = "verified"
           THEN Persist(w, mem[w], "loop", j, mem[w])
           ELSE Persist(w, mem[w], "finish", j,
                        [mem[w] EXCEPT !.status = status])
    /\ UNCHANGED <<serverVars, planned>>

Finish(w) ==
    /\ pc[w] = "finish"
    /\ PersistAndReturn(w, mem[w])
    /\ UNCHANGED <<serverVars, planned>>

-----------------------------------------------------------------------------
(* rollback.                                                               *)

Rollback(w, p) ==
    /\ pc[w] = "idle"
    /\ lock = Nobody
    /\ disk[p].status # "none"
    /\ lock' = w
    /\ pc' = [pc EXCEPT ![w] = "undo_loop"]
    /\ job' = [job EXCEPT ![w] = [NoJob EXCEPT !.plan = p,
                   !.todo = {m \in Messages : disk[p].rows[m] = "verified"}]]
    /\ mem' = [mem EXCEPT ![w] = disk[p]]
    /\ UNCHANGED <<serverVars, planned, disk>>

\* The unguarded observation, then the refusal or the durable intent.
UndoClaim(w) ==
    /\ pc[w] = "undo_loop"
    /\ \E m \in job[w].todo :
         LET j == [job[w] EXCEPT !.cur = m, !.todo = @ \ {m}]
             same == Readable(m) /\ box[m] = mem[w].after[m]
             no  == Row(mem[w], m, "rollback_conflicted")
             yes == Row(mem[w], m, "rollback_intent")
         IN  \/ Abort(w)
             \/ /\ Readable(m) /\ ~same
                /\ Persist(w, no, "undo_loop", [j EXCEPT !.cur = NoMessage], no)
             \/ /\ same
                /\ Persist(w, yes, "undo_dispatch", j,
                     [yes EXCEPT !.undone = @ + 1])
    /\ UNCHANGED <<serverVars, planned>>

\* Slip: a restore that raised is taken for one that was refused.
UndoDispatchExcused(w) ==
    /\ pc[w] = "undo_dispatch"
    /\ LET m == Cur(w)
       IN  \/ /\ Readable(m)
              /\ Issue(w, "restore")
              /\ Go(w, "undo_outcome", job[w],
                   Row(mem[w], m, "rollback_conflicted"))
           \/ /\ Go(w, "undo_outcome", job[w],
                   Row(mem[w], m, "rollback_uncertain"))
              /\ UNCHANGED <<serverVars, planned>>

\* restore_archive.
UndoDispatch(w) ==
    /\ pc[w] = "undo_dispatch"
    /\ LET m == Cur(w)
           same == box[m] = mem[w].after[m] /\ ~box[m].hold
       IN  \/ /\ Readable(m) /\ same
              /\ Issue(w, "restore")
              /\ Go(w, "undo_wait", job[w], mem[w])
           \/ /\ Readable(m) /\ ~same
              /\ Go(w, "undo_outcome", job[w],
                   [Row(mem[w], m, "rollback_conflicted")
                        EXCEPT !.undone = @ - 1])
              /\ UNCHANGED <<serverVars, planned>>
           \/ /\ Go(w, "undo_outcome", job[w],
                    Row(mem[w], m, "rollback_uncertain"))
              /\ UNCHANGED <<serverVars, planned>>

\* The answer, and the single look that has to show the original fields.
UndoAwait(w) ==
    /\ pc[w] = "undo_wait"
    /\ LET m == Cur(w)
           back == /\ Answered(w, "restore")
                   /\ Readable(m) /\ box[m].place = "inbox" /\ ~box[m].hold
       IN  \/ /\ back
              /\ Go(w, "undo_outcome", job[w], Row(mem[w], m, "rolled_back"))
           \/ Go(w, "undo_outcome", job[w],
                 Row(mem[w], m, "rollback_uncertain"))
    /\ UNCHANGED <<serverVars, planned>>

UndoOutcome(w) ==
    /\ pc[w] = "undo_outcome"
    /\ LET next == IF mem[w].rows[Cur(w)] = "rollback_uncertain"
                   THEN "undo_finish" ELSE "undo_loop"
       IN  Persist(w, mem[w], next, [job[w] EXCEPT !.cur = NoMessage], mem[w])
    /\ UNCHANGED <<serverVars, planned>>

UndoFinish(w) ==
    /\ \/ pc[w] = "undo_finish"
       \/ /\ pc[w] = "undo_loop"
          /\ job[w].todo = {}
    /\ PersistAndReturn(w, [mem[w] EXCEPT !.status =
           IF \A m \in Messages : mem[w].rows[m] \in {"none", "rolled_back"}
           THEN "rolled_back" ELSE "rollback_incomplete"])
    /\ UNCHANGED <<serverVars, planned>>

-----------------------------------------------------------------------------
(* The server, the person and the operating system.                        *)

Target(kind) == IF kind = "archive" THEN "archive" ELSE "inbox"

\* What a dispatched move does when the server gets to it.  Graph moves the
\* message from wherever it is, a label change leaves a trashed message in the
\* trash, and an IMAP UID names nothing once the message has been moved.
Expected(p, m, kind) == IF kind = "archive" THEN planned[p][m]
                        ELSE disk[p].after[m].rev
Effective(x) ==
    LET o == box[x[1][2]]
    IN  /\ o.place # Target(x[2])
        /\ Provider = "gmail" => o.place # "trash"
        /\ Provider = "icloud" => o.rev = Expected(x[1][1], x[1][2], x[2])

Moved(o, place) == [o EXCEPT !.place = place, !.rev = @ + 1,
                             !.home = Provider # "icloud" /\ @]

Land(x) ==
    /\ x \in requests
    /\ requests' = requests \ {x}
    /\ done' = done \cup {x}
    /\ box' = IF Effective(x)
              THEN [box EXCEPT ![x[1][2]] = Moved(@, Target(x[2]))] ELSE box
    /\ UNCHANGED <<acts, planned, sent, disk, lock, pc, job, mem>>

Lose(x) ==
    /\ x \in requests
    /\ requests' = requests \ {x}
    /\ UNCHANGED <<box, acts, planned, sent, done, disk, lock, pc, job, mem>>

PersonMoves(m, place) ==
    /\ place # box[m].place
    /\ acts < MaxActs
    /\ acts' = acts + 1
    /\ box' = [box EXCEPT ![m] = Moved(@, place)]
    /\ UNCHANGED <<planned, requests, sent, done, disk, lock, pc, job, mem>>

\* An override or a protection appears in, or leaves, the guard's evidence.
PersonClaims(m) ==
    /\ acts < MaxActs
    /\ acts' = acts + 1
    /\ box' = [box EXCEPT ![m].hold = ~@]
    /\ UNCHANGED <<planned, requests, sent, done, disk, lock, pc, job, mem>>

Crash(w) ==
    /\ pc[w] # "idle"
    /\ Abort(w)
    /\ UNCHANGED <<serverVars, planned>>

Step(w) ==
    \/ Preflight(w) \/ Claim(w) \/ Ceiling(w) \/ AllVerified(w)
    \/ Dispatch(w) \/ Await(w) \/ Observe(w) \/ Outcome(w) \/ Finish(w)
    \/ UndoClaim(w) \/ UndoDispatch(w) \/ UndoAwait(w) \/ UndoOutcome(w)
    \/ UndoFinish(w)

Begin(w) ==
    \/ \E p \in Plans, a \in Approvals : Apply(w, p, a)
    \/ \E p \in Plans : Rollback(w, p)

Person == \E m \in Messages : PersonClaims(m)
                              \/ \E place \in Places : PersonMoves(m, place)

Next ==
    \/ \E w \in Workers : Begin(w) \/ Step(w) \/ Crash(w)
    \/ \E p \in Plans : BuildPlan(p)
    \/ \E x \in requests : Land(x) \/ Lose(x)
    \/ Person

Spec == Init /\ [][Next]_vars
-----------------------------------------------------------------------------
(* Properties.                                                             *)

\* Whatever crashes, fails or is retried, a plan moves each of its messages
\* out of the Inbox at most once and back at most once, and back only after
\* the server carried out its archive.  (apply refuses a plan that has a
\* receipt; rollback takes up verified rows only.)
MovesOnce ==
    /\ \A x \in Moves : sent[x] <= 1
    /\ \A r \in Rows :
           sent[<<r, "restore">>] = 1 => <<r, "archive">> \in done

\* What the receipt file says about a message is true: nothing was sent for
\* a row that is unattempted or failed, no restore before a rollback row, and
\* the server carried out what "verified" and "rolled_back" claim.
RowsTrue ==
    \A p \in Plans : \A m \in PlanRows[p] :
        LET status == disk[p].rows[m]
        IN  /\ status \in {"none", "unattempted", "failed"} =>
                   sent[<<<<p, m>>, "archive">>] = 0
            /\ sent[<<<<p, m>>, "restore">>] > 0 =>
                   status \in {"rollback_intent", "rollback_uncertain",
                               "rolled_back"}
            /\ status \in {"verified", "rolled_back"} =>
                   <<<<p, m>>, "archive">> \in done
            /\ status = "rolled_back" => <<<<p, m>>, "restore">> \in done

Issued(p, kind) == {m \in PlanRows[p] : sent[<<<<p, m>>, kind>>] > 0}
RowsAt(p, status) == {m \in Messages : disk[p].rows[m] = status}

\* The counts in the receipt cover every move that was handed out: a row
\* still at its intent stands for one that may not be counted yet.
WritesCovered ==
    \A p \in Plans :
        /\ Cardinality(Issued(p, "archive")) <=
               disk[p].writes + Cardinality(RowsAt(p, "intent"))
        /\ Cardinality(Issued(p, "restore")) <=
               disk[p].undone + Cardinality(RowsAt(p, "rollback_intent"))

\* What the receipt file says of a plan is what was handed out, however the
\* process that rewrites it dies and whoever runs the plan again (apply,
\* rollback).
ReceiptTruth == MovesOnce /\ RowsTrue /\ WritesCovered

ApplySteps == {"preflight", "loop", "dispatch", "wait", "observe", "outcome",
               "finish"}

\* While a rollout is being applied its canary stays verified on record: the
\* check is repeated under the lock that a rollback of the canary needs.
RolloutRestsOnCanary ==
    \A w \in Workers :
        /\ pc[w] \in ApplySteps
        /\ CanaryOf[mem[w].approval] # NoPlan
        => /\ disk[CanaryOf[mem[w].approval]].status = "verified"
           /\ \A m \in Messages :
                  disk[CanaryOf[mem[w].approval]].rows[m] \in
                      {"none", "verified"}

\* A restore the server carried out, with the message back in the Inbox and
\* unclaimed, can be read back ("Revision may advance; all original semantic
\* fields must match").
RestoreCanBeProved ==
    \A w \in Workers :
        /\ pc[w] = "undo_wait"
        /\ Answered(w, "restore")
        /\ box[Cur(w)].place = "inbox" /\ ~box[Cur(w)].hold
        => Readable(Cur(w))

\* What a reader of the receipt may conclude about a row.
RecordOf == [status \in RowStatuses |->
    CASE status \in {"none", "unattempted", "failed"} -> "open"
      [] status \in {"intent", "uncertain", "unchanged", "conflicted"} ->
             "claimed"
      [] status = "verified" -> "kept"
      [] status \in {"rollback_intent", "rollback_uncertain"} -> "undoing"
      [] status = "rollback_conflicted" -> "refused"
      [] status = "rolled_back" -> "returned"]

Lifecycle == INSTANCE ArchiveLifecycle WITH
    Rows    <- Rows,
    record  <- [r \in Rows |-> RecordOf[disk[r[1]].rows[r[2]]]],
    handed  <- sent,
    carried <- done

\* The engine implements ArchiveLifecycle: the receipt on disk never lets a
\* reader conclude anything about a message that the server contradicts.
ImplementsLifecycle == Lifecycle!Spec
=============================================================================
