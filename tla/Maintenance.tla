---------------------------- MODULE Maintenance ----------------------------
(***************************************************************************)
(* The bounded dispatch of approved work (core/maintenance.py): an envelope *)
(* starts one child command and freezes its own receipt; a category plan    *)
(* changes the labels of its selected messages one by one.  Each has its    *)
(* lock, and the lock goes with the process that is killed; the child it    *)
(* started does not.                                                        *)
(***************************************************************************)
EXTENDS Integers, Sequences

CONSTANTS
    Schedulers,   \* processes of the scheduler
    Envelopes,    \* sealed dispatch envelopes
    Selected,     \* how many messages a category plan changes, one after the other
    NoScheduler,  \* no process
    MaxKills,     \* bound on killed workers
    MaxForeign    \* bound on label changes by others

ASSUME SelectedAssumption == Selected \in 1..25
ASSUME SchedulersAssumption == NoScheduler \notin Schedulers
ASSUME KillsAssumption == {MaxKills, MaxForeign} \subseteq Nat

VARIABLES
    worker,    \* what each process is at
    dispatchLock,  \* who holds the dispatch lock
    receipt,   \* the receipt of each envelope on disk
    child,     \* the child of each envelope
    output,    \* does the file at its receipt_output exist
    categoryLock,
    category,  \* the category receipt on disk: its status, and that of each row begun
    labels,    \* the labels of each message: as previewed, as wanted or foreign
    starts,    \* ghost: children started for each envelope
    changes,   \* ghost: label changes dispatched for each message
    kills, foreign

maintenanceVars == <<worker, dispatchLock, receipt, child, output, categoryLock, category,
                     labels, starts, changes, kills, foreign>>
dispatchVars == <<dispatchLock, receipt, child, output, starts>>
categoryVars == <<categoryLock, category, labels, changes>>

Items == 1..Selected
Resting == [at |-> "idle"]
-----------------------------------------------------------------------------
(* dispatch_approved *)

\* Under the lock: a receipt that exists is returned, a new one says "intent".
Open(w, e) ==
    /\ worker[w].at = "idle" /\ dispatchLock = NoScheduler
    /\ receipt[e] = "none"
    /\ dispatchLock' = w
    /\ receipt' = [receipt EXCEPT ![e] = "intent"]
    /\ worker' = [worker EXCEPT ![w] = [at |-> "start", envelope |-> e, status |-> "intent"]]
    /\ UNCHANGED <<child, output, starts, categoryVars, kills, foreign>>

\* The child runs, or cannot be started.
Start(w) ==
    /\ worker[w].at = "start"
    /\ LET e == worker[w].envelope
       IN  \/ /\ child' = [child EXCEPT ![e] = "running"]
              /\ starts' = [starts EXCEPT ![e] = @ + 1]
              /\ worker' = [worker EXCEPT ![w].at = "wait"]
           \/ /\ worker' = [worker EXCEPT ![w].at = "seal", ![w].status = "uncertain"]
              /\ UNCHANGED <<child, starts>>
    /\ UNCHANGED <<dispatchLock, receipt, output, categoryVars, kills, foreign>>

\* A child writes its canonical receipt before its work, and exits with zero
\* only when the work is done and verified; it outlives the process that
\* started it.
ChildWritesReceipt(e) ==
    /\ child[e] = "running" /\ ~output[e]
    /\ output' = [output EXCEPT ![e] = TRUE]
    /\ UNCHANGED <<worker, dispatchLock, receipt, child, starts, categoryVars, kills, foreign>>

ChildExits(e) ==
    /\ child[e] = "running"
    /\ \E how \in {"failed"} \cup (IF output[e] THEN {"done"} ELSE {}) :
         child' = [child EXCEPT ![e] = how]
    /\ UNCHANGED <<worker, dispatchLock, receipt, output, starts, categoryVars, kills, foreign>>

Outcome(e) ==
    IF child[e] = "done" /\ output[e] THEN "completed" ELSE "needs_reconciliation"

\* The child's exit is seen; or 590 seconds pass and the child is killed.
Wait(w) ==
    /\ worker[w].at = "wait"
    /\ LET e == worker[w].envelope
           Seal(status) == worker' = [worker EXCEPT ![w].at = "seal", ![w].status = status]
       IN  \/ /\ child[e] \in {"done", "failed"}
              /\ \E status \in {Outcome(e)} \cup (IF output[e] THEN {"uncertain"} ELSE {}) :
                    Seal(status)
              /\ UNCHANGED child
           \/ /\ child[e] = "running"
              /\ child' = [child EXCEPT ![e] = "killed"]
              /\ Seal("uncertain")
    /\ UNCHANGED <<dispatchLock, receipt, output, starts, categoryVars, kills, foreign>>

SealReceipt(w) ==
    /\ worker[w].at = "seal"
    /\ receipt' = [receipt EXCEPT ![worker[w].envelope] = worker[w].status]
    /\ dispatchLock' = NoScheduler
    /\ worker' = [worker EXCEPT ![w] = Resting]
    /\ UNCHANGED <<child, output, starts, categoryVars, kills, foreign>>
-----------------------------------------------------------------------------
(* apply_categories *)

\* Slip: a plan is taken up again as long as its first message looks the same.
OpenCategoriesAgain(w) ==
    /\ worker[w].at = "idle" /\ categoryLock = NoScheduler
    /\ labels[1] = "before"
    /\ categoryLock' = w
    /\ worker' = [worker EXCEPT ![w] = [at |-> "category", done |-> 0]]
    /\ UNCHANGED <<dispatchVars, category, labels, changes, kills, foreign>>

\* One shot: a plan whose receipt exists is never taken up again; and nothing
\* is written unless every message is still as the plan saw it.
OpenCategories(w) ==
    /\ worker[w].at = "idle" /\ categoryLock = NoScheduler
    /\ category.status = "none"
    /\ \A i \in Items : labels[i] = "before"
    /\ categoryLock' = w
    /\ worker' = [worker EXCEPT ![w] = [at |-> "category", done |-> 0]]
    /\ UNCHANGED <<dispatchVars, category, labels, changes, kills, foreign>>

\* The intent is on disk before the change is asked for.
Intend(w) ==
    /\ worker[w].at = "category" /\ worker[w].done < Selected
    /\ labels[worker[w].done + 1] = "before"
    /\ category' = [status |-> IF worker[w].done = 0 THEN "prepared" ELSE category.status,
                    rows |-> Append(category.rows, "intent")]
    /\ worker' = [worker EXCEPT ![w].at = "modify"]
    /\ UNCHANGED <<dispatchVars, categoryLock, labels, changes, kills, foreign>>

\* The change takes effect or not, and its answer and the readback may be lost.
Modify(w) ==
    /\ worker[w].at = "modify"
    /\ LET i == worker[w].done + 1
       IN  /\ changes' = [changes EXCEPT ![i] = @ + 1]
           /\ \E effect, answered \in BOOLEAN :
                /\ answered => effect
                /\ labels' = IF effect /\ labels[i] = "before"
                             THEN [labels EXCEPT ![i] = "wanted"] ELSE labels
                /\ worker' = [worker EXCEPT ![w] = [at |-> "record", done |-> @.done,
                       status |-> IF ~answered THEN "uncertain"
                                  ELSE IF labels'[i] = "wanted" THEN "verified"
                                  ELSE "conflicted"]]
    /\ UNCHANGED <<dispatchVars, categoryLock, category, kills, foreign>>

\* Slip: the outcome is a row of its own.
RecordApart(w) ==
    /\ worker[w].at = "record"
    /\ category' = [status |-> worker[w].status,
                    rows |-> Append(category.rows, worker[w].status)]
    /\ worker' = [worker EXCEPT ![w] = [at |-> "category", done |-> @.done + 1]]
    /\ UNCHANGED <<dispatchVars, categoryLock, labels, changes, kills, foreign>>

\* A row that is not verified ends the transaction.
Record(w) ==
    /\ worker[w].at = "record"
    /\ category' = [status |-> worker[w].status,
                    rows |-> [category.rows EXCEPT ![Len(category.rows)] = worker[w].status]]
    /\ IF worker[w].status = "verified"
       THEN /\ worker' = [worker EXCEPT ![w] = [at |-> "category", done |-> @.done + 1]]
            /\ UNCHANGED categoryLock
       ELSE worker' = [worker EXCEPT ![w] = Resting] /\ categoryLock' = NoScheduler
    /\ UNCHANGED <<dispatchVars, labels, changes, kills, foreign>>

\* All is done, or the next message changed: the receipt is written once more.
CloseCategories(w) ==
    /\ worker[w].at = "category"
    /\ worker[w].done < Selected => labels[worker[w].done + 1] # "before"
    /\ worker' = [worker EXCEPT ![w] = Resting]
    /\ categoryLock' = NoScheduler
    /\ category' = IF worker[w].done < Selected
                   THEN [category EXCEPT !.status = "conflicted"] ELSE category
    /\ UNCHANGED <<dispatchVars, labels, changes, kills, foreign>>
-----------------------------------------------------------------------------
Relabel(i) ==
    /\ foreign < MaxForeign /\ foreign' = foreign + 1
    /\ labels[i] # "foreign"
    /\ labels' = [labels EXCEPT ![i] = "foreign"]
    /\ UNCHANGED <<worker, dispatchVars, categoryLock, category, changes, kills>>

Kill(w) ==
    /\ worker[w].at # "idle" /\ kills < MaxKills
    /\ kills' = kills + 1
    /\ worker' = [worker EXCEPT ![w] = Resting]
    /\ dispatchLock' = IF dispatchLock = w THEN NoScheduler ELSE dispatchLock
    /\ categoryLock' = IF categoryLock = w THEN NoScheduler ELSE categoryLock
    /\ UNCHANGED <<receipt, child, output, category, labels, starts, changes, foreign>>
-----------------------------------------------------------------------------
MaintenanceInit ==
    /\ worker = [w \in Schedulers |-> Resting]
    /\ dispatchLock = NoScheduler /\ categoryLock = NoScheduler
    /\ receipt = [e \in Envelopes |-> "none"]
    /\ child = [e \in Envelopes |-> "none"]
    \* A file may lie at receipt_output from before.
    /\ output \in [Envelopes -> BOOLEAN]
    /\ category = [status |-> "none", rows |-> <<>>]
    /\ labels = [i \in Items |-> "before"]
    /\ starts = [e \in Envelopes |-> 0]
    /\ changes = [i \in Items |-> 0]
    /\ kills = 0 /\ foreign = 0

MaintenanceTypeOK ==
    /\ dispatchLock \in Schedulers \cup {NoScheduler} /\ categoryLock \in Schedulers \cup {NoScheduler}
    /\ \A e \in Envelopes :
         /\ receipt[e] \in {"none", "intent", "completed", "needs_reconciliation", "uncertain"}
         /\ child[e] \in {"none", "running", "done", "failed", "killed"}
    /\ \A i \in Items : labels[i] \in {"before", "wanted", "foreign"}
    /\ Len(category.rows) \in 0..Selected
    /\ kills \in 0..MaxKills /\ foreign \in 0..MaxForeign

MaintenanceNext ==
    \/ \E w \in Schedulers :
         \/ \E e \in Envelopes : Open(w, e)
         \/ Start(w) \/ Wait(w) \/ SealReceipt(w)
         \/ OpenCategories(w) \/ Intend(w) \/ Modify(w) \/ Record(w) \/ CloseCategories(w)
         \/ Kill(w)
    \/ \E e \in Envelopes : ChildWritesReceipt(e) \/ ChildExits(e)
    \/ \E i \in Items : Relabel(i)
-----------------------------------------------------------------------------
\* Approved work reaches its provider once, whoever was killed in between: an
\* envelope starts one child and a message is changed at most once, never
\* before its intent was on disk; an envelope that says completed had a child
\* that did it all; and a row that says verified was changed.
DispatchedOnce ==
    /\ \A e \in Envelopes :
         /\ starts[e] <= 1
         /\ starts[e] = 1 => receipt[e] # "none"
         /\ receipt[e] = "completed" => child[e] = "done" /\ output[e]
    /\ \A i \in Items :
         /\ changes[i] <= 1
         /\ changes[i] = 1 => i <= Len(category.rows)
         /\ i <= Len(category.rows) /\ category.rows[i] = "verified" => changes[i] = 1
=============================================================================
