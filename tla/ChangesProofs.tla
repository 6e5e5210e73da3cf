---------------------------- MODULE ChangesProofs ----------------------------
(***************************************************************************)
(* Proofs about ApprovedChanges, for every number of schedulers, messages, *)
(* surfaces, plans, approvals and processes, and for every text.           *)
(*                                                                         *)
(* A behaviour drives one of four programs, so each part below is about    *)
(* the steps of one of them: the dispatch of approved work, the way from   *)
(* an audit to a canary and back, and the classifier; what is proved of    *)
(* the engine is in FlagTransactionsProofs and FlagConductProofs.          *)
(***************************************************************************)
EXTENDS ApprovedChanges, FiniteSetTheorems, SequenceTheorems, TLAPS

(***************************************************************************)
(* Dispatch of approved work (Maintenance).                                *)
(***************************************************************************)
DispatchJobs == [at : {"start", "wait", "seal"}, envelope : Envelopes,
                 status : {"intent", "completed", "needs_reconciliation", "uncertain"}]
CategoryJobs == [at : {"category", "modify"}, done : 0..Selected]
             \cup [at : {"record"}, done : 0..Selected,
                   status : {"verified", "conflicted", "uncertain"}]

\* The worker w inside a dispatch: it holds the lock, the intent is on disk,
\* and what it is about to seal is true.
DispatchSound(x, w, holder, rec, chi, out, sts) ==
    x.at \in {"start", "wait", "seal"} =>
        /\ x \in DispatchJobs /\ holder = w
        /\ rec[x.envelope] = "intent"
        /\ x.at = "start" => sts[x.envelope] = 0
        /\ x.at = "seal" => x.status # "intent"
        /\ x.at = "seal" /\ x.status = "completed" =>
               chi[x.envelope] = "done" /\ out[x.envelope]

\* The worker w inside a category plan: the rows on disk are those it began.
CategorySound(x, w, holder, rows, chg) ==
    x.at \in {"category", "modify", "record"} =>
        /\ x \in CategoryJobs /\ holder = w
        /\ x.at = "category" => Len(rows) = x.done
        /\ x.at \in {"modify", "record"} =>
               x.done < Selected /\ Len(rows) = x.done + 1
        /\ x.at = "modify" => chg[x.done + 1] = 0
        /\ x.at = "record" => chg[x.done + 1] = 1

Receipts == {"none", "intent", "completed", "needs_reconciliation", "uncertain"}
Children == {"none", "running", "done", "failed", "killed"}

\* An envelope, its child and its receipt.
EnvelopeSound(rec, chi, out, sts) ==
    /\ sts = 1 => rec # "none"
    /\ chi # "none" => sts = 1
    /\ rec = "completed" => chi = "done" /\ out

CategoryReceipts ==
    [status : {"none", "prepared", "verified", "conflicted", "uncertain"},
     rows : Seq({"intent", "verified", "conflicted", "uncertain"})]

\* The category receipt and the changes that were asked for.
RowsSound(cat, chg) ==
    /\ Len(cat.rows) <= Selected
    /\ cat.status = "none" => cat.rows = <<>>
    /\ \A i \in Items :
         /\ chg[i] = 1 => i <= Len(cat.rows)
         /\ i <= Len(cat.rows) /\ cat.rows[i] = "verified" => chg[i] = 1

MaintenanceInv ==
    /\ worker \in [Schedulers -> {Resting} \cup DispatchJobs \cup CategoryJobs]
    /\ dispatchLock \in Schedulers \cup {NoScheduler}
    /\ categoryLock \in Schedulers \cup {NoScheduler}
    /\ receipt \in [Envelopes -> Receipts] /\ child \in [Envelopes -> Children]
    /\ output \in [Envelopes -> BOOLEAN] /\ starts \in [Envelopes -> {0, 1}]
    /\ category \in CategoryReceipts
    /\ labels \in [Items -> {"before", "wanted", "foreign"}]
    /\ changes \in [Items -> {0, 1}]
    /\ kills \in 0..MaxKills /\ foreign \in 0..MaxForeign
    /\ \A w \in Schedulers :
           DispatchSound(worker[w], w, dispatchLock, receipt, child, output, starts)
    /\ \A w \in Schedulers :
           CategorySound(worker[w], w, categoryLock, category.rows, changes)
    /\ \A e \in Envelopes : EnvelopeSound(receipt[e], child[e], output[e], starts[e])
    /\ RowsSound(category, changes)

\* Under the dispatch lock nobody else dispatches.
LEMMA OneDispatcher ==
    ASSUME MaintenanceInv, NEW w, dispatchLock \in {w, NoScheduler},
           NEW v \in Schedulers, v # w
    PROVE  worker[v].at \notin {"start", "wait", "seal"}
  <1>1. DispatchSound(worker[v], v, dispatchLock, receipt, child, output, starts)
    BY DEF MaintenanceInv
  <1> QED
    BY <1>1, SchedulersAssumption DEF DispatchSound

\* Under the category lock nobody else changes labels.
LEMMA OneLabeller ==
    ASSUME MaintenanceInv, NEW w, categoryLock \in {w, NoScheduler},
           NEW v \in Schedulers, v # w
    PROVE  worker[v].at \notin {"category", "modify", "record"}
  <1>1. CategorySound(worker[v], v, categoryLock, category.rows, changes)
    BY DEF MaintenanceInv
  <1> QED
    BY <1>1, SchedulersAssumption DEF CategorySound

\* A worker that takes or holds the dispatch lock moves to x.
LEMMA DispatcherMoves ==
    ASSUME MaintenanceInv, NEW w \in Schedulers, dispatchLock \in {w, NoScheduler},
           NEW x \in {Resting} \cup DispatchJobs, worker' = [worker EXCEPT ![w] = x],
           DispatchSound(x, w, dispatchLock', receipt', child', output', starts'),
           dispatchLock' \in Schedulers \cup {NoScheduler},
           receipt' \in [Envelopes -> Receipts], child' \in [Envelopes -> Children],
           output' = output, starts' \in [Envelopes -> {0, 1}],
           \A e \in Envelopes : EnvelopeSound(receipt'[e], child'[e], output'[e], starts'[e]),
           UNCHANGED <<categoryLock, category, labels, changes, kills, foreign>>
    PROVE  MaintenanceInv'
  <1>1. worker \in [Schedulers -> {Resting} \cup DispatchJobs \cup CategoryJobs]
    BY DEF MaintenanceInv
  <1>2. worker' \in [Schedulers -> {Resting} \cup DispatchJobs \cup CategoryJobs]
    BY <1>1
  <1>3. x.at \in {"idle", "start", "wait", "seal"}
    BY DEF Resting, DispatchJobs
  <1>4. ASSUME NEW v \in Schedulers
        PROVE  /\ DispatchSound(worker'[v], v, dispatchLock', receipt', child',
                                output', starts')
               /\ CategorySound(worker'[v], v, categoryLock', category'.rows, changes')
    <2>1. CASE v = w
      <3>1. worker'[v] = x
        BY <1>1, <2>1
      <3>2. CategorySound(x, v, categoryLock', category'.rows, changes')
        BY <1>3 DEF CategorySound
      <3> QED
        BY <2>1, <3>1, <3>2
    <2>2. CASE v # w
      <3>1. worker'[v] = worker[v]
        BY <1>1, <2>2
      <3>2. worker[v].at \notin {"start", "wait", "seal"}
        BY <2>2, OneDispatcher
      <3>3. DispatchSound(worker[v], v, dispatchLock', receipt', child', output', starts')
        BY <3>2 DEF DispatchSound
      <3>4. CategorySound(worker[v], v, categoryLock, category.rows, changes)
        BY DEF MaintenanceInv
      <3> QED
        BY <3>1, <3>3, <3>4
    <2> QED
      BY <2>1, <2>2
  <1> QED
    BY <1>2, <1>4 DEF MaintenanceInv

\* A worker that takes or holds the category lock moves to x.
LEMMA LabellerMoves ==
    ASSUME MaintenanceInv, NEW w \in Schedulers, categoryLock \in {w, NoScheduler},
           NEW x \in {Resting} \cup CategoryJobs, worker' = [worker EXCEPT ![w] = x],
           worker[w].at \notin {"start", "wait", "seal"},
           CategorySound(x, w, categoryLock', category'.rows, changes'),
           categoryLock' \in Schedulers \cup {NoScheduler},
           category' \in CategoryReceipts, changes' \in [Items -> {0, 1}],
           labels' \in [Items -> {"before", "wanted", "foreign"}],
           RowsSound(category', changes'),
           UNCHANGED <<dispatchLock, receipt, child, output, starts, kills, foreign>>
    PROVE  MaintenanceInv'
  <1>1. worker \in [Schedulers -> {Resting} \cup DispatchJobs \cup CategoryJobs]
    BY DEF MaintenanceInv
  <1>2. worker' \in [Schedulers -> {Resting} \cup DispatchJobs \cup CategoryJobs]
    BY <1>1
  <1>3. x.at \in {"idle", "category", "modify", "record"}
    BY DEF Resting, CategoryJobs
  <1>4. ASSUME NEW v \in Schedulers
        PROVE  /\ DispatchSound(worker'[v], v, dispatchLock', receipt', child',
                                output', starts')
               /\ CategorySound(worker'[v], v, categoryLock', category'.rows, changes')
    <2>1. CASE v = w
      <3>1. worker'[v] = x
        BY <1>1, <2>1
      <3>2. DispatchSound(x, v, dispatchLock', receipt', child', output', starts')
        BY <1>3 DEF DispatchSound
      <3> QED
        BY <2>1, <3>1, <3>2
    <2>2. CASE v # w
      <3>1. worker'[v] = worker[v]
        BY <1>1, <2>2
      <3>2. worker[v].at \notin {"category", "modify", "record"}
        BY <2>2, OneLabeller
      <3>3. CategorySound(worker[v], v, categoryLock', category'.rows, changes')
        BY <3>2 DEF CategorySound
      <3>4. DispatchSound(worker[v], v, dispatchLock, receipt, child, output, starts)
        BY DEF MaintenanceInv
      <3> QED
        BY <3>1, <3>3, <3>4
    <2> QED
      BY <2>1, <2>2
  <1>5. \A e \in Envelopes : EnvelopeSound(receipt'[e], child'[e], output'[e], starts'[e])
    BY DEF MaintenanceInv
  <1> QED
    BY <1>2, <1>4, <1>5 DEF MaintenanceInv

\* What a dispatching worker knows.
LEMMA DispatchFacts ==
    ASSUME MaintenanceInv, NEW w \in Schedulers,
           worker[w].at \in {"start", "wait", "seal"}
    PROVE  /\ worker[w] \in DispatchJobs /\ dispatchLock = w
           /\ worker[w].envelope \in Envelopes
           /\ receipt[worker[w].envelope] = "intent"
           /\ worker[w].at = "start" => starts[worker[w].envelope] = 0
           /\ worker[w].at = "seal" => worker[w].status # "intent"
           /\ worker[w].at = "seal" /\ worker[w].status = "completed" =>
                  child[worker[w].envelope] = "done" /\ output[worker[w].envelope]
  <1>1. DispatchSound(worker[w], w, dispatchLock, receipt, child, output, starts)
    BY DEF MaintenanceInv
  <1>2. worker[w] \in DispatchJobs
    BY <1>1 DEF DispatchSound
  <1>3. worker[w].envelope \in Envelopes
    BY <1>2 DEF DispatchJobs
  <1> QED
    BY <1>1, <1>2, <1>3 DEF DispatchSound

\* An envelope is opened.
LEMMA OpenSound ==
    ASSUME MaintenanceInv, NEW w \in Schedulers, NEW e \in Envelopes, Open(w, e)
    PROVE  MaintenanceInv'
  <1> DEFINE x == [at |-> "start", envelope |-> e, status |-> "intent"]
  <1>1. /\ dispatchLock = NoScheduler /\ receipt[e] = "none" /\ dispatchLock' = w
        /\ receipt' = [receipt EXCEPT ![e] = "intent"]
        /\ worker' = [worker EXCEPT ![w] = x]
        /\ UNCHANGED <<child, output, starts>>
        /\ UNCHANGED <<categoryLock, category, labels, changes, kills, foreign>>
    BY DEF Open, categoryVars
  <1>2. /\ receipt \in [Envelopes -> Receipts] /\ child \in [Envelopes -> Children]
        /\ starts \in [Envelopes -> {0, 1}]
        /\ \A d \in Envelopes : EnvelopeSound(receipt[d], child[d], output[d], starts[d])
    BY DEF MaintenanceInv
  <1>3. x \in DispatchJobs
    BY DEF DispatchJobs
  <1>4. receipt' \in [Envelopes -> Receipts] /\ receipt'[e] = "intent"
    BY <1>1, <1>2 DEF Receipts
  <1>5. starts[e] = 0
    BY <1>1, <1>2 DEF EnvelopeSound
  <1>6. DispatchSound(x, w, dispatchLock', receipt', child', output', starts')
    BY <1>1, <1>3, <1>4, <1>5 DEF DispatchSound
  <1>7. ASSUME NEW d \in Envelopes
        PROVE  EnvelopeSound(receipt'[d], child'[d], output'[d], starts'[d])
    BY <1>1, <1>2 DEF EnvelopeSound
  <1> HIDE DEF x
  <1> QED
    BY <1>1, <1>2, <1>3, <1>4, <1>6, <1>7, DispatcherMoves

\* The child is started, or cannot be.
LEMMA StartSound ==
    ASSUME MaintenanceInv, NEW w \in Schedulers, Start(w)
    PROVE  MaintenanceInv'
  <1> DEFINE e == worker[w].envelope
             y == [worker[w] EXCEPT !.at = "wait"]
             z == [worker[w] EXCEPT !.at = "seal", !.status = "uncertain"]
  <1>1. /\ worker[w].at = "start"
        /\ \/ /\ child' = [child EXCEPT ![e] = "running"]
              /\ starts' = [starts EXCEPT ![e] = @ + 1]
              /\ worker' = [worker EXCEPT ![w].at = "wait"]
           \/ /\ worker' = [worker EXCEPT ![w].at = "seal", ![w].status = "uncertain"]
              /\ UNCHANGED <<child, starts>>
        /\ UNCHANGED <<dispatchLock, receipt, output>>
        /\ UNCHANGED <<categoryLock, category, labels, changes, kills, foreign>>
    BY DEF Start, categoryVars
  <1>2. /\ worker[w] \in DispatchJobs /\ dispatchLock = w /\ e \in Envelopes
        /\ receipt[e] = "intent" /\ starts[e] = 0
    BY <1>1, DispatchFacts
  <1>3. /\ receipt \in [Envelopes -> Receipts] /\ child \in [Envelopes -> Children]
        /\ starts \in [Envelopes -> {0, 1}] /\ dispatchLock \in Schedulers \cup {NoScheduler}
        /\ worker \in [Schedulers -> {Resting} \cup DispatchJobs \cup CategoryJobs]
        /\ \A d \in Envelopes : EnvelopeSound(receipt[d], child[d], output[d], starts[d])
    BY DEF MaintenanceInv
  <1>4. /\ y \in DispatchJobs /\ y.at = "wait" /\ y.envelope = e
        /\ z \in DispatchJobs /\ z.at = "seal" /\ z.envelope = e /\ z.status = "uncertain"
    BY <1>2 DEF DispatchJobs
  <1>5. \/ worker' = [worker EXCEPT ![w] = y] /\ child' = [child EXCEPT ![e] = "running"]
           /\ starts' = [starts EXCEPT ![e] = 1]
        \/ worker' = [worker EXCEPT ![w] = z] /\ UNCHANGED <<child, starts>>
    <2>1. worker' = [worker EXCEPT ![w].at = "seal", ![w].status = "uncertain"]
              => worker' = [worker EXCEPT ![w] = z]
      BY <1>3
    <2>2. worker' = [worker EXCEPT ![w].at = "wait"]
              => worker' = [worker EXCEPT ![w] = y]
      BY <1>3
    <2>3. starts[e] + 1 = 1
      BY <1>2
    <2>4. starts' = [starts EXCEPT ![e] = @ + 1] => starts' = [starts EXCEPT ![e] = 1]
      <3> HIDE DEF e
      <3> QED
        BY <2>3
    <2> HIDE DEF e, y, z
    <2> QED
      BY <1>1, <2>1, <2>2, <2>4
  <1> HIDE DEF e, y, z
  <1>6. CASE /\ worker' = [worker EXCEPT ![w] = y]
             /\ child' = [child EXCEPT ![e] = "running"]
             /\ starts' = [starts EXCEPT ![e] = 1]
    <2>1. /\ child' \in [Envelopes -> Children] /\ starts' \in [Envelopes -> {0, 1}]
      BY <1>3, <1>6 DEF Children
    <2>2. ASSUME NEW d \in Envelopes
          PROVE  EnvelopeSound(receipt'[d], child'[d], output'[d], starts'[d])
      BY <1>1, <1>2, <1>3, <1>6 DEF EnvelopeSound
    <2>3. DispatchSound(y, w, dispatchLock', receipt', child', output', starts')
      BY <1>1, <1>2, <1>4 DEF DispatchSound
    <2> QED
      BY <1>1, <1>2, <1>3, <1>4, <1>6, <2>1, <2>2, <2>3, DispatcherMoves
  <1>7. CASE worker' = [worker EXCEPT ![w] = z] /\ UNCHANGED <<child, starts>>
    <2>1. ASSUME NEW d \in Envelopes
          PROVE  EnvelopeSound(receipt'[d], child'[d], output'[d], starts'[d])
      BY <1>1, <1>3, <1>7
    <2>2. DispatchSound(z, w, dispatchLock', receipt', child', output', starts')
      BY <1>1, <1>2, <1>4 DEF DispatchSound
    <2> QED
      BY <1>1, <1>2, <1>3, <1>4, <1>7, <2>1, <2>2, DispatcherMoves
  <1> QED
    BY <1>5, <1>6, <1>7

\* The child goes its way, whether anybody waits for it or not.
LEMMA ChildSound ==
    ASSUME MaintenanceInv, NEW e \in Envelopes,
           ChildWritesReceipt(e) \/ ChildExits(e)
    PROVE  MaintenanceInv'
  <1>1. /\ child[e] = "running"
        /\ UNCHANGED <<worker, dispatchLock, receipt, starts>>
        /\ UNCHANGED <<categoryLock, category, labels, changes, kills, foreign>>
        /\ \/ output' = [output EXCEPT ![e] = TRUE] /\ child' = child
           \/ /\ \E how \in {"failed", "done"} : child' = [child EXCEPT ![e] = how]
              /\ output' = output
    BY DEF ChildWritesReceipt, ChildExits, categoryVars
  <1>2. /\ output \in [Envelopes -> BOOLEAN] /\ child \in [Envelopes -> Children]
        /\ receipt \in [Envelopes -> Receipts]
        /\ \A d \in Envelopes : EnvelopeSound(receipt[d], child[d], output[d], starts[d])
    BY DEF MaintenanceInv
  <1>3. output' \in [Envelopes -> BOOLEAN] /\ child' \in [Envelopes -> Children]
    BY <1>1, <1>2 DEF Children
  <1>4. \A d \in Envelopes :
            /\ output[d] => output'[d]
            /\ child[d] # "none" <=> child'[d] # "none"
            /\ child[d] = "done" => child'[d] = "done"
    BY <1>1, <1>2
  <1>5. ASSUME NEW d \in Envelopes
        PROVE  EnvelopeSound(receipt'[d], child'[d], output'[d], starts'[d])
    BY <1>1, <1>2, <1>4 DEF EnvelopeSound
  <1>6. ASSUME NEW w \in Schedulers
        PROVE  DispatchSound(worker'[w], w, dispatchLock', receipt', child', output', starts')
    <2>1. CASE worker[w].at \notin {"start", "wait", "seal"}
      BY <1>1, <2>1 DEF DispatchSound
    <2>2. CASE worker[w].at \in {"start", "wait", "seal"}
      <3>1. worker[w].envelope \in Envelopes
        BY <2>2, DispatchFacts
      <3>2. DispatchSound(worker[w], w, dispatchLock, receipt, child, output, starts)
        BY DEF MaintenanceInv
      <3> QED
        BY <1>1, <1>4, <3>1, <3>2 DEF DispatchSound
    <2> QED
      BY <2>1, <2>2
  <1>7. ASSUME NEW w \in Schedulers
        PROVE  CategorySound(worker'[w], w, categoryLock', category'.rows, changes')
    BY <1>1 DEF MaintenanceInv
  <1> QED
    BY <1>1, <1>3, <1>5, <1>6, <1>7 DEF MaintenanceInv

\* The child's exit is seen, or the child is killed.
LEMMA WaitSound ==
    ASSUME MaintenanceInv, NEW w \in Schedulers, Wait(w)
    PROVE  MaintenanceInv'
  <1> DEFINE e == worker[w].envelope
             x(status) == [worker[w] EXCEPT !.at = "seal", !.status = status]
  <1>1. /\ worker[w].at = "wait"
        /\ UNCHANGED <<dispatchLock, receipt, output, starts>>
        /\ UNCHANGED <<categoryLock, category, labels, changes, kills, foreign>>
        /\ \E status \in {"completed", "needs_reconciliation", "uncertain"} :
             /\ worker' = [worker EXCEPT ![w].at = "seal", ![w].status = status]
             /\ status = "completed" => child[e] = "done" /\ output[e] /\ child' = child
             /\ \/ child' = child
                \/ child[e] = "running" /\ child' = [child EXCEPT ![e] = "killed"]
    BY DEF Wait, Outcome, categoryVars
  <1>2. /\ worker[w] \in DispatchJobs /\ dispatchLock = w /\ e \in Envelopes
        /\ receipt[e] = "intent"
    BY <1>1, DispatchFacts
  <1>3. /\ receipt \in [Envelopes -> Receipts] /\ child \in [Envelopes -> Children]
        /\ starts \in [Envelopes -> {0, 1}] /\ dispatchLock \in Schedulers \cup {NoScheduler}
        /\ worker \in [Schedulers -> {Resting} \cup DispatchJobs \cup CategoryJobs]
        /\ \A d \in Envelopes : EnvelopeSound(receipt[d], child[d], output[d], starts[d])
    BY DEF MaintenanceInv
  <1>4. PICK status \in {"completed", "needs_reconciliation", "uncertain"} :
             /\ worker' = [worker EXCEPT ![w].at = "seal", ![w].status = status]
             /\ status = "completed" => child[e] = "done" /\ output[e] /\ child' = child
             /\ \/ child' = child
                \/ child[e] = "running" /\ child' = [child EXCEPT ![e] = "killed"]
    BY <1>1
  <1> DEFINE y == x(status)
  <1>5. worker' = [worker EXCEPT ![w] = y]
    BY <1>3, <1>4
  <1>6. y \in DispatchJobs /\ y.at = "seal" /\ y.envelope = e /\ y.status = status
    BY <1>2 DEF DispatchJobs
  <1> HIDE DEF y, e
  <1>7. child' \in [Envelopes -> Children]
    BY <1>3, <1>4 DEF Children
  <1>8. ASSUME NEW d \in Envelopes
        PROVE  EnvelopeSound(receipt'[d], child'[d], output'[d], starts'[d])
    <2>1. /\ child'[d] = child[d] \/ (child[d] = "running" /\ child'[d] = "killed")
      BY <1>2, <1>3, <1>4
    <2> QED
      BY <1>1, <1>3, <2>1 DEF EnvelopeSound
  <1>9. DispatchSound(y, w, dispatchLock', receipt', child', output', starts')
    BY <1>1, <1>2, <1>4, <1>6 DEF DispatchSound
  <1> QED
    BY <1>1, <1>2, <1>3, <1>5, <1>6, <1>7, <1>8, <1>9, DispatcherMoves

\* The receipt is sealed with what happened.
LEMMA SealSound ==
    ASSUME MaintenanceInv, NEW w \in Schedulers, SealReceipt(w)
    PROVE  MaintenanceInv'
  <1> DEFINE e == worker[w].envelope
             st == worker[w].status
  <1>1. /\ worker[w].at = "seal" /\ worker' = [worker EXCEPT ![w] = Resting]
        /\ dispatchLock' = NoScheduler /\ receipt' = [receipt EXCEPT ![e] = st]
        /\ UNCHANGED <<child, output, starts>>
        /\ UNCHANGED <<categoryLock, category, labels, changes, kills, foreign>>
    BY DEF SealReceipt, categoryVars
  <1>2. /\ worker[w] \in DispatchJobs /\ dispatchLock = w /\ e \in Envelopes
        /\ receipt[e] = "intent" /\ st # "intent"
        /\ st = "completed" => child[e] = "done" /\ output[e]
    BY <1>1, DispatchFacts
  <1>3. /\ receipt \in [Envelopes -> Receipts] /\ child \in [Envelopes -> Children]
        /\ starts \in [Envelopes -> {0, 1}]
        /\ \A d \in Envelopes : EnvelopeSound(receipt[d], child[d], output[d], starts[d])
    BY DEF MaintenanceInv
  <1>4. st \in {"completed", "needs_reconciliation", "uncertain"}
    BY <1>2 DEF DispatchJobs
  <1> HIDE DEF e, st
  <1>5. receipt' \in [Envelopes -> Receipts]
    BY <1>1, <1>3, <1>4 DEF Receipts
  <1>6. ASSUME NEW d \in Envelopes
        PROVE  EnvelopeSound(receipt'[d], child'[d], output'[d], starts'[d])
    <2>1. CASE d = e
      BY <1>1, <1>2, <1>3, <1>4, <2>1 DEF EnvelopeSound
    <2>2. CASE d # e
      BY <1>1, <1>3, <2>2
    <2> QED
      BY <2>1, <2>2
  <1>7. Resting.at = "idle"
    BY DEF Resting
  <1>8. DispatchSound(Resting, w, dispatchLock', receipt', child', output', starts')
    BY <1>7 DEF DispatchSound
  <1> QED
    BY <1>1, <1>2, <1>3, <1>5, <1>6, <1>8, DispatcherMoves

\* A process is killed: its locks go with it.
LEMMA KillSound ==
    ASSUME MaintenanceInv, NEW w \in Schedulers, Kill(w)
    PROVE  MaintenanceInv'
  <1>1. /\ kills < MaxKills /\ kills' = kills + 1
        /\ worker' = [worker EXCEPT ![w] = Resting]
        /\ dispatchLock' = IF dispatchLock = w THEN NoScheduler ELSE dispatchLock
        /\ categoryLock' = IF categoryLock = w THEN NoScheduler ELSE categoryLock
        /\ UNCHANGED <<receipt, child, output, category, labels, starts, changes, foreign>>
    BY DEF Kill
  <1>2. /\ worker \in [Schedulers -> {Resting} \cup DispatchJobs \cup CategoryJobs]
        /\ dispatchLock \in Schedulers \cup {NoScheduler}
        /\ categoryLock \in Schedulers \cup {NoScheduler} /\ kills \in 0..MaxKills
    BY DEF MaintenanceInv
  <1>3. kills' \in 0..MaxKills
    BY <1>1, <1>2, KillsAssumption
  <1>4. worker' \in [Schedulers -> {Resting} \cup DispatchJobs \cup CategoryJobs]
    BY <1>1, <1>2
  <1>5. Resting.at = "idle"
    BY DEF Resting
  <1>6. ASSUME NEW v \in Schedulers
        PROVE  /\ DispatchSound(worker'[v], v, dispatchLock', receipt', child',
                                output', starts')
               /\ CategorySound(worker'[v], v, categoryLock', category'.rows, changes')
    <2>1. CASE v = w
      <3>1. worker'[v] = Resting
        BY <1>1, <1>2, <2>1
      <3> QED
        BY <1>5, <3>1 DEF DispatchSound, CategorySound
    <2>2. CASE v # w
      <3>1. worker'[v] = worker[v]
        BY <1>1, <1>2, <2>2
      <3>2. /\ DispatchSound(worker[v], v, dispatchLock, receipt, child, output, starts)
            /\ CategorySound(worker[v], v, categoryLock, category.rows, changes)
        BY DEF MaintenanceInv
      <3>3. DispatchSound(worker[v], v, dispatchLock', receipt, child, output, starts)
        BY <1>1, <2>2, <3>2 DEF DispatchSound
      <3>4. CategorySound(worker[v], v, categoryLock', category.rows, changes)
        BY <1>1, <2>2, <3>2 DEF CategorySound
      <3> QED
        BY <1>1, <3>1, <3>3, <3>4
    <2> QED
      BY <2>1, <2>2
  <1> QED
    BY <1>1, <1>2, <1>3, <1>4, <1>6 DEF MaintenanceInv

\* Somebody else changes a label.
LEMMA RelabelSound ==
    ASSUME MaintenanceInv, NEW i \in Items, Relabel(i)
    PROVE  MaintenanceInv'
  <1>1. /\ foreign < MaxForeign /\ foreign' = foreign + 1
        /\ labels' = [labels EXCEPT ![i] = "foreign"]
        /\ UNCHANGED <<worker, dispatchLock, receipt, child, output, starts,
                       categoryLock, category, changes, kills>>
    BY DEF Relabel, dispatchVars
  <1>2. foreign' \in 0..MaxForeign
    BY <1>1, KillsAssumption DEF MaintenanceInv
  <1>3. labels' \in [Items -> {"before", "wanted", "foreign"}]
    BY <1>1 DEF MaintenanceInv
  <1> QED
    BY <1>1, <1>2, <1>3 DEF MaintenanceInv

\* What a labelling worker knows.
LEMMA CategoryFacts ==
    ASSUME MaintenanceInv, NEW w \in Schedulers,
           worker[w].at \in {"category", "modify", "record"}
    PROVE  /\ worker[w] \in CategoryJobs /\ categoryLock = w
           /\ worker[w].at \notin {"start", "wait", "seal"}
           /\ worker[w].done \in 0..Selected
           /\ worker[w].at = "category" => Len(category.rows) = worker[w].done
           /\ worker[w].at \in {"modify", "record"} =>
                  /\ worker[w].done < Selected
                  /\ worker[w].done + 1 \in Items
                  /\ Len(category.rows) = worker[w].done + 1
           /\ worker[w].at = "modify" => changes[worker[w].done + 1] = 0
           /\ worker[w].at = "record" =>
                  /\ changes[worker[w].done + 1] = 1
                  /\ worker[w].status \in {"verified", "conflicted", "uncertain"}
  <1>1. CategorySound(worker[w], w, categoryLock, category.rows, changes)
    BY DEF MaintenanceInv
  <1>2. worker[w] \in CategoryJobs
    BY <1>1 DEF CategorySound
  <1>3. /\ worker[w].done \in 0..Selected
        /\ worker[w].at = "record" =>
               worker[w].status \in {"verified", "conflicted", "uncertain"}
    BY <1>2 DEF CategoryJobs
  <1>4. worker[w].done < Selected => worker[w].done + 1 \in Items
    BY <1>3, SelectedAssumption DEF Items
  <1> QED
    BY <1>1, <1>2, <1>3, <1>4 DEF CategorySound

\* The category receipt and the changes have their types.
LEMMA CategoryTypes ==
    ASSUME MaintenanceInv
    PROVE  /\ category \in CategoryReceipts
           /\ category.status \in {"none", "prepared", "verified", "conflicted", "uncertain"}
           /\ category.rows \in Seq({"intent", "verified", "conflicted", "uncertain"})
           /\ Len(category.rows) \in Nat
           /\ changes \in [Items -> {0, 1}]
           /\ labels \in [Items -> {"before", "wanted", "foreign"}]
           /\ RowsSound(category, changes)
           /\ categoryLock \in Schedulers \cup {NoScheduler}
  <1>1. category \in CategoryReceipts
    BY DEF MaintenanceInv
  <1>2. category.rows \in Seq({"intent", "verified", "conflicted", "uncertain"})
    BY <1>1 DEF CategoryReceipts
  <1>3. Len(category.rows) \in Nat
    BY <1>2
  <1>4. category.status \in {"none", "prepared", "verified", "conflicted", "uncertain"}
    BY <1>1 DEF CategoryReceipts
  <1> QED
    BY <1>1, <1>2, <1>3, <1>4 DEF MaintenanceInv

\* A plan is taken up.
LEMMA OpenCategoriesSound ==
    ASSUME MaintenanceInv, NEW w \in Schedulers, OpenCategories(w)
    PROVE  MaintenanceInv'
  <1> DEFINE x == [at |-> "category", done |-> 0]
  <1>1. /\ worker[w].at = "idle" /\ categoryLock = NoScheduler
        /\ category.status = "none" /\ categoryLock' = w
        /\ worker' = [worker EXCEPT ![w] = x]
        /\ UNCHANGED <<category, labels, changes>>
        /\ UNCHANGED <<dispatchLock, receipt, child, output, starts, kills, foreign>>
    BY DEF OpenCategories, dispatchVars
  <1>2. x \in CategoryJobs
    BY SelectedAssumption DEF CategoryJobs
  <1>3. category.rows = <<>> /\ RowsSound(category, changes)
    BY <1>1, CategoryTypes DEF RowsSound
  <1>4. CategorySound(x, w, categoryLock', category'.rows, changes')
    BY <1>1, <1>2, <1>3 DEF CategorySound
  <1> HIDE DEF x
  <1> QED
    BY <1>1, <1>2, <1>3, <1>4, CategoryTypes, LabellerMoves

\* The intent of the next row is written.
LEMMA IntendSound ==
    ASSUME MaintenanceInv, NEW w \in Schedulers, Intend(w)
    PROVE  MaintenanceInv'
  <1> DEFINE d == worker[w].done
             x == [worker[w] EXCEPT !.at = "modify"]
             st == IF d = 0 THEN "prepared" ELSE category.status
             rows == Append(category.rows, "intent")
             cat == [status |-> st, rows |-> rows]
  <1>1. /\ worker[w].at = "category" /\ d < Selected
        /\ category' = cat
        /\ worker' = [worker EXCEPT ![w].at = "modify"]
        /\ UNCHANGED <<categoryLock, labels, changes>>
        /\ UNCHANGED <<dispatchLock, receipt, child, output, starts, kills, foreign>>
    BY DEF Intend, dispatchVars
  <1>2. /\ worker[w] \in CategoryJobs /\ categoryLock = w
        /\ worker[w].at \notin {"start", "wait", "seal"}
        /\ d \in 0..Selected /\ Len(category.rows) = d
    BY <1>1, CategoryFacts
  <1>3. /\ category.status \in {"none", "prepared", "verified", "conflicted", "uncertain"}
        /\ category.rows \in Seq({"intent", "verified", "conflicted", "uncertain"})
        /\ RowsSound(category, changes) /\ changes \in [Items -> {0, 1}]
    BY CategoryTypes
  <1>4. worker' = [worker EXCEPT ![w] = x]
    BY <1>1 DEF MaintenanceInv
  <1>5. x \in CategoryJobs /\ x.at = "modify" /\ x.done = d
    BY <1>1, <1>2 DEF CategoryJobs
  <1>6. /\ rows \in Seq({"intent", "verified", "conflicted", "uncertain"})
        /\ Len(rows) = d + 1 /\ rows[d + 1] = "intent"
        /\ \A i \in 1..d : rows[i] = category.rows[i]
    BY <1>2, <1>3
  <1>7. d + 1 \in Items /\ d + 1 <= Selected
    <2>1. d < Selected /\ d \in 0..Selected
      BY <1>1, <1>2
    <2>2. Selected \in Nat
      BY SelectedAssumption
    <2> HIDE DEF d
    <2> QED
      BY <2>1, <2>2 DEF Items
  <1>8. changes[d + 1] = 0
    BY <1>2, <1>3, <1>7 DEF RowsSound
  <1>9. st \in {"prepared", "verified", "conflicted", "uncertain"}
    BY <1>2, <1>3 DEF RowsSound
  <1> HIDE DEF x, d, rows, st
  <1>10. cat \in CategoryReceipts /\ cat.rows = rows /\ cat.status = st
    BY <1>6, <1>9 DEF CategoryReceipts
  <1>11. RowsSound(cat, changes)
    <2>1. ASSUME NEW i \in Items
          PROVE  /\ changes[i] = 1 => i <= Len(rows)
                 /\ i <= Len(rows) /\ rows[i] = "verified" => changes[i] = 1
      <3>1. /\ changes[i] = 1 => i <= d
            /\ i <= d /\ category.rows[i] = "verified" => changes[i] = 1
        BY <1>2, <1>3 DEF RowsSound
      <3>2. i \in 1..Selected
        BY DEF Items
      <3>3. CASE i <= d
        <4>1. rows[i] = category.rows[i]
          BY <1>6, <3>2, <3>3, <1>2
        <4> QED
          BY <3>1, <3>2, <3>3, <4>1, <1>2, <1>6
      <3>4. CASE i > d
        BY <3>1, <3>2, <3>4, <1>2, <1>6
      <3> QED
        BY <3>2, <3>3, <3>4, <1>2
    <2>2. Len(rows) <= Selected
      BY <1>6, <1>7
    <2> HIDE DEF cat
    <2> QED
      BY <2>1, <2>2, <1>9, <1>10 DEF RowsSound
  <1> HIDE DEF cat
  <1>12. CategorySound(x, w, categoryLock', category'.rows, changes')
    BY <1>1, <1>2, <1>5, <1>6, <1>8, <1>10 DEF CategorySound, d
  <1> QED
    BY <1>1, <1>2, <1>4, <1>5, <1>10, <1>11, <1>12, CategoryTypes, LabellerMoves

\* The change is asked for.
LEMMA ModifySound ==
    ASSUME MaintenanceInv, NEW w \in Schedulers, Modify(w)
    PROVE  MaintenanceInv'
  <1> DEFINE d == worker[w].done
             i == d + 1
             x(status) == [at |-> "record", done |-> d, status |-> status]
  <1>1. /\ worker[w].at = "modify"
        /\ changes' = [changes EXCEPT ![i] = @ + 1]
        /\ labels' = labels \/ labels' = [labels EXCEPT ![i] = "wanted"]
        /\ \E status \in {"verified", "conflicted", "uncertain"} :
             worker' = [worker EXCEPT ![w] =
                 [at |-> "record", done |-> @.done, status |-> status]]
        /\ UNCHANGED <<categoryLock, category>>
        /\ UNCHANGED <<dispatchLock, receipt, child, output, starts, kills, foreign>>
    BY DEF Modify, dispatchVars
  <1>2. /\ categoryLock = w /\ worker[w].at \notin {"start", "wait", "seal"}
        /\ d \in 0..Selected /\ d < Selected /\ i \in Items
        /\ Len(category.rows) = i /\ changes[i] = 0
    BY <1>1, CategoryFacts
  <1>3. /\ category \in CategoryReceipts /\ RowsSound(category, changes)
        /\ changes \in [Items -> {0, 1}]
        /\ labels \in [Items -> {"before", "wanted", "foreign"}]
        /\ categoryLock \in Schedulers \cup {NoScheduler}
    BY CategoryTypes
  <1>4. PICK status \in {"verified", "conflicted", "uncertain"} :
            worker' = [worker EXCEPT ![w] =
                [at |-> "record", done |-> @.done, status |-> status]]
    BY <1>1
  <1> DEFINE y == x(status)
  <1>5. worker' = [worker EXCEPT ![w] = y]
    BY <1>4 DEF MaintenanceInv
  <1>6. y \in CategoryJobs /\ y.at = "record" /\ y.done = d
    BY <1>2 DEF CategoryJobs
  <1>7. labels' \in [Items -> {"before", "wanted", "foreign"}]
    BY <1>1, <1>3
  <1>8. changes' = [changes EXCEPT ![i] = 1]
    <2>1. changes[i] + 1 = 1
      BY <1>2
    <2> HIDE DEF i
    <2> QED
      BY <1>1, <2>1
  <1>9. changes' \in [Items -> {0, 1}] /\ changes'[i] = 1
    BY <1>2, <1>3, <1>8
  <1>10. \A k \in Items : k # i => changes'[k] = changes[k]
    BY <1>3, <1>8
  <1> HIDE DEF y, d
  <1>11. RowsSound(category, changes')
    BY <1>2, <1>3, <1>9, <1>10 DEF RowsSound
  <1>12. CategorySound(y, w, categoryLock', category'.rows, changes')
    BY <1>1, <1>2, <1>6, <1>9 DEF CategorySound
  <1> QED
    BY <1>1, <1>2, <1>3, <1>5, <1>6, <1>7, <1>9, <1>11, <1>12, LabellerMoves

\* The outcome replaces the intent of the row.
LEMMA RecordSound ==
    ASSUME MaintenanceInv, NEW w \in Schedulers, Record(w)
    PROVE  MaintenanceInv'
  <1> DEFINE d == worker[w].done
             st == worker[w].status
             rows == [category.rows EXCEPT ![Len(category.rows)] = st]
             cat == [status |-> st, rows |-> rows]
             x == [at |-> "category", done |-> d + 1]
  <1>1. /\ worker[w].at = "record" /\ category' = cat
        /\ \/ worker' = [worker EXCEPT ![w] = [at |-> "category", done |-> @.done + 1]]
              /\ UNCHANGED categoryLock
           \/ worker' = [worker EXCEPT ![w] = Resting] /\ categoryLock' = NoScheduler
        /\ UNCHANGED <<labels, changes>>
        /\ UNCHANGED <<dispatchLock, receipt, child, output, starts, kills, foreign>>
    BY DEF Record, dispatchVars
  <1>2. /\ categoryLock = w /\ worker[w].at \notin {"start", "wait", "seal"}
        /\ d \in 0..Selected /\ d < Selected /\ d + 1 \in Items
        /\ Len(category.rows) = d + 1 /\ changes[d + 1] = 1
        /\ st \in {"verified", "conflicted", "uncertain"}
    BY <1>1, CategoryFacts
  <1>3. /\ category.rows \in Seq({"intent", "verified", "conflicted", "uncertain"})
        /\ RowsSound(category, changes) /\ changes \in [Items -> {0, 1}]
        /\ labels \in [Items -> {"before", "wanted", "foreign"}]
        /\ categoryLock \in Schedulers \cup {NoScheduler}
    BY CategoryTypes
  <1>4. /\ rows \in Seq({"intent", "verified", "conflicted", "uncertain"})
        /\ Len(rows) = d + 1
        /\ \A i \in 1..d : rows[i] = category.rows[i]
    BY <1>2, <1>3
  <1>5. \/ worker' = [worker EXCEPT ![w] = x] /\ UNCHANGED categoryLock
        \/ worker' = [worker EXCEPT ![w] = Resting] /\ categoryLock' = NoScheduler
    BY <1>1 DEF MaintenanceInv
  <1>6. x \in CategoryJobs /\ x.at = "category" /\ x.done = d + 1
    BY <1>2 DEF CategoryJobs, Items
  <1> HIDE DEF x, d, rows, st
  <1>7. cat \in CategoryReceipts /\ cat.rows = rows /\ cat.status = st
    BY <1>2, <1>4 DEF CategoryReceipts
  <1>8. RowsSound(cat, changes)
    <2>1. ASSUME NEW i \in Items
          PROVE  /\ changes[i] = 1 => i <= Len(rows)
                 /\ i <= Len(rows) /\ rows[i] = "verified" => changes[i] = 1
      <3>1. /\ changes[i] = 1 => i <= d + 1
            /\ i <= d + 1 /\ category.rows[i] = "verified" => changes[i] = 1
        BY <1>2, <1>3 DEF RowsSound
      <3>2. i \in 1..Selected /\ d \in Int
        BY <1>2 DEF Items
      <3>3. CASE i = d + 1
        BY <3>3, <1>2, <1>4
      <3>4. CASE i <= d
        <4>1. rows[i] = category.rows[i]
          BY <1>4, <3>2, <3>4
        <4> QED
          BY <3>1, <3>2, <3>4, <4>1, <1>4
      <3>5. CASE i > d + 1
        BY <3>1, <3>2, <3>5, <1>4
      <3> QED
        BY <3>2, <3>3, <3>4, <3>5
    <2>2. Len(rows) <= Selected
      <3>1. Selected \in Nat /\ d < Selected /\ d \in 0..Selected
        BY <1>2, SelectedAssumption
      <3>2. d + 1 <= Selected
        BY <3>1
      <3> QED
        BY <3>2, <1>4
    <2> HIDE DEF cat
    <2> QED
      BY <2>1, <2>2, <1>2, <1>7 DEF RowsSound
  <1> HIDE DEF cat
  <1>9. CASE worker' = [worker EXCEPT ![w] = x] /\ UNCHANGED categoryLock
    <2>1. CategorySound(x, w, categoryLock', category'.rows, changes')
      BY <1>1, <1>2, <1>4, <1>6, <1>7, <1>9 DEF CategorySound
    <2> QED
      BY <1>1, <1>2, <1>3, <1>6, <1>7, <1>8, <1>9, <2>1, LabellerMoves
  <1>10. CASE worker' = [worker EXCEPT ![w] = Resting] /\ categoryLock' = NoScheduler
    <2>1. CategorySound(Resting, w, categoryLock', category'.rows, changes')
      BY DEF Resting, CategorySound
    <2> QED
      BY <1>1, <1>2, <1>3, <1>7, <1>8, <1>10, <2>1, LabellerMoves
  <1> QED
    BY <1>5, <1>9, <1>10

\* The receipt is written once more.
LEMMA CloseSound ==
    ASSUME MaintenanceInv, NEW w \in Schedulers, CloseCategories(w)
    PROVE  MaintenanceInv'
  <1>1. /\ worker[w].at = "category"
        /\ worker' = [worker EXCEPT ![w] = Resting] /\ categoryLock' = NoScheduler
        /\ \/ category' = [category EXCEPT !.status = "conflicted"]
           \/ category' = category
        /\ UNCHANGED <<labels, changes>>
        /\ UNCHANGED <<dispatchLock, receipt, child, output, starts, kills, foreign>>
    BY DEF CloseCategories, dispatchVars
  <1>2. categoryLock = w /\ worker[w].at \notin {"start", "wait", "seal"}
    BY <1>1, CategoryFacts
  <1>3. /\ category \in CategoryReceipts
        /\ RowsSound(category, changes) /\ changes \in [Items -> {0, 1}]
        /\ labels \in [Items -> {"before", "wanted", "foreign"}]
    BY CategoryTypes
  <1> DEFINE cat == [category EXCEPT !.status = "conflicted"]
  <1>4. cat \in CategoryReceipts /\ cat.rows = category.rows /\ cat.status = "conflicted"
    BY <1>3 DEF CategoryReceipts
  <1> HIDE DEF cat
  <1>5. RowsSound(cat, changes)
    BY <1>3, <1>4 DEF RowsSound
  <1>6. category' \in CategoryReceipts /\ RowsSound(category', changes')
    BY <1>1, <1>3, <1>4, <1>5 DEF cat
  <1>7. CategorySound(Resting, w, categoryLock', category'.rows, changes')
    BY DEF Resting, CategorySound
  <1> QED
    BY <1>1, <1>2, <1>3, <1>6, <1>7, LabellerMoves

\* Nothing was dispatched at the start.
LEMMA MaintenanceStart ==
    ASSUME MaintenanceInit
    PROVE  MaintenanceInv
  <1>1. Resting.at = "idle"
    BY DEF Resting
  <1>2. category \in CategoryReceipts /\ RowsSound(category, changes)
    BY SelectedAssumption DEF MaintenanceInit, CategoryReceipts, RowsSound, Items
  <1>3. kills \in 0..MaxKills /\ foreign \in 0..MaxForeign
    BY KillsAssumption DEF MaintenanceInit
  <1>4. ASSUME NEW w \in Schedulers
        PROVE  /\ DispatchSound(worker[w], w, dispatchLock, receipt, child, output, starts)
               /\ CategorySound(worker[w], w, categoryLock, category.rows, changes)
    BY <1>1 DEF MaintenanceInit, DispatchSound, CategorySound
  <1>5. ASSUME NEW e \in Envelopes
        PROVE  EnvelopeSound(receipt[e], child[e], output[e], starts[e])
    BY DEF MaintenanceInit, EnvelopeSound
  <1> QED
    BY <1>2, <1>3, <1>4, <1>5
       DEF MaintenanceInit, MaintenanceInv, Receipts, Children

\* Every step of the scheduler keeps the invariant.
LEMMA MaintenanceStep ==
    ASSUME MaintenanceInv, MaintenanceNext
    PROVE  MaintenanceInv'
  <1>1. ASSUME NEW w \in Schedulers, NEW e \in Envelopes, Open(w, e)
        PROVE  MaintenanceInv'
    BY <1>1, OpenSound
  <1>2. ASSUME NEW w \in Schedulers,
               \/ Start(w) \/ Wait(w) \/ SealReceipt(w)
               \/ OpenCategories(w) \/ Intend(w) \/ Modify(w) \/ Record(w)
               \/ CloseCategories(w) \/ Kill(w)
        PROVE  MaintenanceInv'
    BY <1>2, StartSound, WaitSound, SealSound, OpenCategoriesSound, IntendSound,
       ModifySound, RecordSound, CloseSound, KillSound
  <1>3. ASSUME NEW e \in Envelopes, ChildWritesReceipt(e) \/ ChildExits(e)
        PROVE  MaintenanceInv'
    BY <1>3, ChildSound
  <1>4. ASSUME NEW i \in Items, Relabel(i)
        PROVE  MaintenanceInv'
    BY <1>4, RelabelSound
  <1> QED
    BY <1>1, <1>2, <1>3, <1>4 DEF MaintenanceNext
-----------------------------------------------------------------------------
(***************************************************************************)
(* From an audit to a canary and back (FlagActivation).                    *)
(***************************************************************************)
MailRows == [msg : Msgs, surface : Surfaces, flag : Flags]

\* What a snapshot, a plan and an approval are made of.
ShotSound(s) == s.kind = "snapshot" /\ s.rows \in SUBSET MailRows

PlanSound(p) ==
    /\ p.kind = "plan"
    /\ p = [kind |-> "plan", snapshot |-> p.snapshot, policy |-> p.policy,
            evidence |-> p.evidence, mutations |-> p.mutations]
    /\ ShotSound(p.snapshot)
    /\ p.mutations \in SUBSET MailRows

ApprovalSound(a) ==
    /\ a.kind = "approval"
    /\ PlanSound(a.plan)
    /\ a.targets \in SUBSET a.plan.mutations
    /\ \A row \in a.targets : a.flags[row] \in Flags
    /\ ~a.human => \A row \in a.targets :
                       a.flags[row] = Verdict(row, a.plan.evidence).to

\* What stays true of an approval once a command has loaded it: its plan is
\* all that follows from a scan that missed nothing, the approval names what
\* it may name, on one surface.
Vetted(a) ==
    /\ ApprovalSound(a)
    /\ a.plan.snapshot.complete
    /\ a.plan.mutations = Derived(a.plan.snapshot, a.plan.evidence)
    /\ MayChange(a)
    /\ Cardinality({row.surface : row \in a.targets}) = 1

\* Everything an undo needs was written, r telling where the bundle went.
Durable(a, r, k, sent) ==
    /\ {a.plan.snapshot, a.plan, a} \subseteq k
    /\ r = Default => Bundle(a) \in k
    /\ r \in Paths => Bundle(a) \in sent[r]

\* A command at x; the approval it loaded.
CallSound(x, k, sent) ==
    \/ x = Idle
    \/ /\ x = [stage |-> x.stage, approval |-> x.approval, receipt |-> x.receipt,
               proposal |-> x.proposal, todo |-> x.todo]
       /\ x.stage \in {"persist", "preflight", "engine", "writing"}
       /\ Vetted(x.approval)
       /\ x.approval.plan.snapshot \in k
       /\ x.receipt \in Paths \cup {Default}
       /\ x.todo \in SUBSET x.approval.targets
       /\ x.stage # "persist" => Durable(x.approval, x.receipt, k, sent)

\* A transaction t of the ledger.
WriteSound(t, k, sent) ==
    /\ t = [approval |-> t.approval, row |-> t.row, to |-> t.to, state |-> t.state,
            receipt |-> t.receipt]
    /\ t.state \in {"verified", "lost", "refused", "restored"}
    /\ Vetted(t.approval)
    /\ t.row \in t.approval.targets /\ t.to = t.approval.flags[t.row]
    /\ t.receipt \in Paths \cup {Default}
    /\ Durable(t.approval, t.receipt, k, sent)

\* The running scan x: what was read of the messages that stayed as they were.
ScanSound(x, srf, flg) ==
    /\ x \in [on : BOOLEAN, left : SUBSET Surfaces, rows : SUBSET MailRows,
              failed : BOOLEAN, quiet : SUBSET Msgs]
    /\ \A r \in x.rows : r.flag # "no_flag"
    /\ x.on /\ ~x.failed =>
         \A m \in x.quiet : srf[m] \notin x.left =>
             ((flg[m] # "no_flag") =
                  ([msg |-> m, surface |-> srf[m], flag |-> flg[m]] \in x.rows))

KeptSound(k) ==
    \A a \in k : /\ a.kind \in {"snapshot", "plan", "approval", "bundle"}
                 /\ a.kind = "snapshot" => ShotSound(a)
IssuedSound(i) == \A a \in i : PlanSound(a) \/ ApprovalSound(a)
HeldSound(h, sent) ==
    /\ DOMAIN h = Paths /\ DOMAIN sent = Paths
    /\ \A p \in Paths : sent[p] = {} \/ h[p] \in sent[p]

ActivationInv ==
    /\ surface \in [Msgs -> Surfaces] /\ flag \in [Msgs -> Flags]
    /\ mishaps \in 0..MaxMishaps
    /\ policy \in 1..(mishaps + 1) /\ review \in 1..(mishaps + 1)
    /\ ScanSound(scan, surface, flag)
    /\ KeptSound(kept) /\ IssuedSound(issued)
    /\ lapsed \subseteq ApprovalsIssued
    /\ HeldSound(held, sentTo)
    /\ DOMAIN call = Processes
    /\ \A c \in Processes : CallSound(call[c], kept, sentTo)
    /\ \A t \in ledger : WriteSound(t, kept, sentTo)
-----------------------------------------------------------------------------
\* Whatever the classifier makes of a message, what it proposes is a flag.
LEMMA VerdictIsFlag ==
  ASSUME NEW row \in MailRows, NEW evidence
  PROVE  Verdict(row, evidence).to \in Flags
<1>1. \A c : DeservedFlag(c) \in Flags
  BY DEF DeservedFlag, Flags
<1>2. \A c, observed : Proposal(c, observed).to = DeservedFlag(c)
  BY DEF Proposal
<1>3. row.msg \in Msgs /\ row.flag \in Flags
  BY DEF MailRows
<1>4. ByText[row.msg][row.flag] = Proposal(Classified[row.msg], row.flag)
  BY <1>3 DEF ByText
<1>5. "yellow" \in Flags
  BY DEF Flags
<1> QED
  BY <1>1, <1>2, <1>4, <1>5 DEF Verdict

\* What follows from a snapshot are rows of it.
LEMMA DerivedRows ==
  ASSUME NEW s, ShotSound(s), NEW evidence
  PROVE  Derived(s, evidence) \in SUBSET MailRows
BY DEF Derived, ShotSound

\* What is on disk and what was sent only grows, and so what was durable is.
LEMMA DurableGrows ==
  ASSUME NEW a, NEW r, NEW k, NEW sent, NEW k2, NEW sent2,
         k \subseteq k2, \A p \in Paths : sent[p] \subseteq sent2[p],
         Durable(a, r, k, sent)
  PROVE  Durable(a, r, k2, sent2)
BY DEF Durable

(* More knowledge and more dispatches leave a call sound. *)
LEMMA CallGrows ==
  ASSUME NEW x, NEW k, NEW sent, NEW k2, NEW sent2,
         k \subseteq k2, \A p \in Paths : sent[p] \subseteq sent2[p],
         CallSound(x, k, sent)
  PROVE  CallSound(x, k2, sent2)
<1>1. CASE x = Idle
  BY <1>1 DEF CallSound
<1>2. CASE x # Idle
  <2>1. x.stage # "persist" => Durable(x.approval, x.receipt, k2, sent2)
    BY <1>2, DurableGrows DEF CallSound
  <2> QED
    BY <1>2, <2>1 DEF CallSound
<1> QED
  BY <1>1, <1>2

(* More knowledge and more dispatches leave a write sound. *)
LEMMA WriteGrows ==
  ASSUME NEW t, NEW k, NEW sent, NEW k2, NEW sent2,
         k \subseteq k2, \A p \in Paths : sent[p] \subseteq sent2[p],
         WriteSound(t, k, sent)
  PROVE  WriteSound(t, k2, sent2)
<1>1. Durable(t.approval, t.receipt, k2, sent2)
  BY DurableGrows DEF WriteSound
<1> QED
  BY <1>1 DEF WriteSound

\* A scan is begun: nothing was read, and everything is still to be.
LEMMA StartAuditSound ==
  ASSUME ActivationInv, StartAudit
  PROVE  ActivationInv'
<1> USE DEF ActivationInv
<1>1. PICK discovered \in {{}, Surfaces} :
        scan' = [on |-> TRUE, left |-> discovered, rows |-> {},
                 failed |-> discovered = {}, quiet |-> Msgs]
  BY DEF StartAudit
<1>2. UNCHANGED <<surface, flag, policy, review, kept, issued, lapsed, held, call,
                  ledger, sentTo, mishaps>>
  BY DEF StartAudit, mail
<1>3. ScanSound(scan, surface, flag)'
  <2>1. scan' \in [on : BOOLEAN, left : SUBSET Surfaces, rows : SUBSET MailRows,
                   failed : BOOLEAN, quiet : SUBSET Msgs]
    BY <1>1
  <2>2. ~scan'.failed => scan'.left = Surfaces
    BY <1>1
  <2>3. \A m \in Msgs : surface'[m] \in Surfaces
    BY <1>2
  <2>4. scan'.quiet = Msgs /\ scan'.rows = {}
    BY <1>1
  <2> QED
    BY <2>1, <2>2, <2>3, <2>4 DEF ScanSound
<1> QED
  BY <1>2, <1>3 DEF ApprovalsIssued

\* A surface that is read adds its flagged messages and nothing else.
LEMMA ReadSurfaceSound ==
  ASSUME ActivationInv, NEW s \in Surfaces, ReadSurface(s)
  PROVE  ActivationInv'
<1> USE DEF ActivationInv
<1>1. /\ s \in scan.left
      /\ scan' = [scan EXCEPT !.left = @ \ {s}, !.rows = @ \cup Flagged(s)]
  BY DEF ReadSurface
<1>2. UNCHANGED <<surface, flag, policy, review, kept, issued, lapsed, held, call,
                  ledger, sentTo, mishaps>>
  BY DEF ReadSurface, mail
<1>3. ScanSound(scan, surface, flag)'
  <2>1. scan \in [on : BOOLEAN, left : SUBSET Surfaces, rows : SUBSET MailRows,
                  failed : BOOLEAN, quiet : SUBSET Msgs]
    BY DEF ScanSound
  <2>2. Flagged(s) \in SUBSET MailRows /\ \A r \in Flagged(s) : r.flag # "no_flag"
    BY DEF Flagged, Row, MailRows
  <2>3. /\ scan'.on = scan.on /\ scan'.failed = scan.failed
        /\ scan'.quiet = scan.quiet /\ scan'.left = scan.left \ {s}
        /\ scan'.rows = scan.rows \cup Flagged(s)
    BY <1>1, <2>1
  <2>4. scan' \in [on : BOOLEAN, left : SUBSET Surfaces, rows : SUBSET MailRows,
                   failed : BOOLEAN, quiet : SUBSET Msgs]
    BY <1>1, <2>1, <2>2
  <2>5. \A r \in scan'.rows : r.flag # "no_flag"
    BY <2>2, <2>3 DEF ScanSound
  <2>6. ASSUME scan.on, ~scan.failed, NEW m \in scan.quiet, surface[m] \notin scan.left \ {s}
        PROVE  (flag[m] # "no_flag") = (Row(m) \in scan.rows \cup Flagged(s))
    <3>1. m \in Msgs
      BY <2>1
    <3>2. CASE surface[m] = s
      <4>1. ASSUME flag[m] # "no_flag"
            PROVE  Row(m) \in Flagged(s)
        BY <3>1, <3>2, <4>1 DEF Flagged
      <4>2. ASSUME Row(m) \in scan.rows \cup Flagged(s)
            PROVE  flag[m] # "no_flag"
        <5>1. Row(m).flag # "no_flag"
          BY <4>2, <2>2 DEF ScanSound
        <5> QED
          BY <5>1 DEF Row
      <4> QED
        BY <4>1, <4>2
    <3>3. CASE surface[m] # s
      <4>1. (flag[m] # "no_flag") = (Row(m) \in scan.rows)
        BY <2>6, <3>3 DEF ScanSound, Row
      <4>2. Row(m) \notin Flagged(s)
        <5>1. Row(m).surface = surface[m]
          BY DEF Row
        <5>2. \A r \in Flagged(s) : r.surface = s
          BY DEF Flagged, Row
        <5> QED
          BY <5>1, <5>2, <3>3
      <4> QED
        BY <4>1, <4>2
    <3> QED
      BY <3>2, <3>3
  <2> QED
    BY <1>2, <2>3, <2>4, <2>5, <2>6 DEF ScanSound, Row
<1> QED
  BY <1>2, <1>3 DEF ApprovalsIssued

\* A surface that fails adds some of them, and the scan never counts as complete.
LEMMA SurfaceFailsSound ==
  ASSUME ActivationInv, NEW s \in Surfaces, SurfaceFails(s)
  PROVE  ActivationInv'
<1> USE DEF ActivationInv
<1>1. PICK some \in SUBSET Flagged(s) :
        scan' = [scan EXCEPT !.left = @ \ {s}, !.rows = @ \cup some, !.failed = TRUE]
  BY DEF SurfaceFails
<1>2. UNCHANGED <<surface, flag, policy, review, kept, issued, lapsed, held, call,
                  ledger, sentTo>>
  BY DEF SurfaceFails, mail
<1>3. mishaps < MaxMishaps /\ mishaps' = mishaps + 1
  BY DEF SurfaceFails
<1>4. ScanSound(scan, surface, flag)'
  <2>1. scan \in [on : BOOLEAN, left : SUBSET Surfaces, rows : SUBSET MailRows,
                  failed : BOOLEAN, quiet : SUBSET Msgs]
    BY DEF ScanSound
  <2>2. some \in SUBSET MailRows /\ \A r \in some : r.flag # "no_flag"
    BY DEF Flagged, Row, MailRows
  <2>3. scan'.failed /\ scan'.rows = scan.rows \cup some
    BY <1>1, <2>1
  <2>4. scan' \in [on : BOOLEAN, left : SUBSET Surfaces, rows : SUBSET MailRows,
                   failed : BOOLEAN, quiet : SUBSET Msgs]
    BY <1>1, <2>1, <2>2
  <2> QED
    BY <2>2, <2>3, <2>4 DEF ScanSound
<1>5. /\ mishaps' \in 0..MaxMishaps
      /\ policy' \in 1..(mishaps' + 1) /\ review' \in 1..(mishaps' + 1)
  BY <1>2, <1>3, MishapsAssumption
<1> QED
  BY <1>2, <1>4, <1>5 DEF ApprovalsIssued

\* A snapshot is one more artefact on disk.
LEMMA KeepSnapshotSound ==
  ASSUME ActivationInv, KeepSnapshot
  PROVE  ActivationInv'
<1> USE DEF ActivationInv
<1> DEFINE shot == [kind |-> "snapshot", id |-> Audits + 1, rows |-> scan.rows,
                    complete |-> ~scan.failed]
<1>1. kept' = kept \cup {shot} /\ scan' = NoScan
  BY DEF KeepSnapshot
<1>2. UNCHANGED <<surface, flag, policy, review, issued, lapsed, held, call, ledger,
                  sentTo, mishaps>>
  BY DEF KeepSnapshot, mail
<1>3. ShotSound(shot) /\ shot.kind = "snapshot"
  BY DEF ScanSound, ShotSound
<1>4. KeptSound(kept)'
  BY <1>1, <1>3 DEF KeptSound
<1>5. ScanSound(scan, surface, flag)'
  BY <1>1 DEF NoScan, ScanSound
<1>6. kept \subseteq kept' /\ \A p \in Paths : sentTo[p] \subseteq sentTo'[p]
  BY <1>1, <1>2
<1> HIDE DEF shot
<1>7. \A c \in Processes : CallSound(call[c], kept, sentTo)'
  BY <1>2, <1>6, CallGrows
<1>8. \A t \in ledger' : WriteSound(t, kept, sentTo)'
  BY <1>2, <1>6, WriteGrows
<1> QED
  BY <1>2, <1>4, <1>5, <1>7, <1>8 DEF ApprovalsIssued

\* What only adds a plan or an approval, or replaces a plan by another one,
\* needs a look at what it adds.
LEMMA IssueSound ==
  ASSUME ActivationInv, NEW old, NEW new,
         PlanSound(old),
         PlanSound(new) \/ ApprovalSound(new),
         issued' = issued \cup {new} \/ issued' = (issued \ {old}) \cup {new},
         UNCHANGED <<surface, flag, policy, review, scan, kept, lapsed, held, call,
                     ledger, sentTo, mishaps>>
  PROVE  ActivationInv'
<1> USE DEF ActivationInv
<1>1. old.kind = "plan"
  BY DEF PlanSound
<1>2. IssuedSound(issued)'
  BY DEF IssuedSound
<1>3. lapsed' \subseteq ApprovalsIssued'
  BY <1>1 DEF ApprovalsIssued
<1> QED
  BY <1>2, <1>3

(* A plan is written from a complete snapshot only. *)
LEMMA PlanStepSound ==
  ASSUME ActivationInv, NEW s \in Snapshots, Plan(s)
  PROVE  ActivationInv'
<1>1. PICK evidence \in {0, review} :
        issued' = issued \cup {[kind |-> "plan", snapshot |-> s, policy |-> policy,
                                evidence |-> evidence, mutations |-> Derived(s, evidence)]}
  BY DEF Plan
<1> DEFINE new == [kind |-> "plan", snapshot |-> s, policy |-> policy,
                   evidence |-> evidence, mutations |-> Derived(s, evidence)]
<1>2. UNCHANGED <<surface, flag, policy, review, scan, kept, lapsed, held, call,
                  ledger, sentTo, mishaps>>
  BY DEF Plan, mail
<1>3. ShotSound(s)
  BY DEF Snapshots, ActivationInv, KeptSound
<1>4. PlanSound(new)
  BY <1>3, DerivedRows DEF PlanSound
<1> HIDE DEF new
<1> QED
  BY <1>1, <1>2, <1>4, IssueSound DEF new

(* What the invariant says of one plan. *)
LEMMA PlansAreSound ==
  ASSUME ActivationInv, NEW p \in PlansIssued
  PROVE  PlanSound(p)
BY DEF ActivationInv, IssuedSound, PlansIssued, ApprovalSound

(* What the invariant says of one approval. *)
LEMMA ApprovalsAreSound ==
  ASSUME ActivationInv, NEW a \in ApprovalsIssued
  PROVE  ApprovalSound(a)
BY DEF ActivationInv, IssuedSound, ApprovalsIssued, PlanSound

\* A plan that was edited is still a plan, only not what follows from its scan.
LEMMA EditPlanSound ==
  ASSUME ActivationInv, NEW p \in PlansIssued, EditPlan(p)
  PROVE  ActivationInv'
<1>1. PICK fewer \in (SUBSET p.mutations) \ {p.mutations} :
        issued' = (issued \ {p}) \cup {[p EXCEPT !.mutations = fewer]}
  BY DEF EditPlan
<1> DEFINE new == [p EXCEPT !.mutations = fewer]
<1>2. UNCHANGED <<surface, flag, policy, review, scan, kept, lapsed, held, call,
                  ledger, sentTo, mishaps>>
  BY DEF EditPlan, mail
<1>3. PlanSound(p)
  BY PlansAreSound
<1>4. new = [kind |-> "plan", snapshot |-> p.snapshot, policy |-> p.policy,
             evidence |-> p.evidence, mutations |-> fewer]
  BY <1>3 DEF PlanSound
<1>5. PlanSound(new)
  BY <1>3, <1>4 DEF PlanSound
<1> HIDE DEF new
<1> QED
  BY <1>1, <1>2, <1>3, <1>5, IssueSound DEF new

(* An operator approves what the plan lists. *)
LEMMA ApproveByHandSound ==
  ASSUME ActivationInv, NEW p \in PlansIssued, ApproveByHand(p)
  PROVE  ActivationInv'
<1>1. PICK targets \in SUBSET p.mutations : \E flags \in [targets -> TemporaryFlags] :
        issued' = issued \cup {NewApproval(p, targets, TRUE, flags)}
  BY DEF ApproveByHand
<1>2. PICK flags \in [targets -> TemporaryFlags] :
        issued' = issued \cup {NewApproval(p, targets, TRUE, flags)}
  BY <1>1
<1> DEFINE new == NewApproval(p, targets, TRUE, flags)
<1>3. UNCHANGED <<surface, flag, policy, review, scan, kept, lapsed, held, call,
                  ledger, sentTo, mishaps>>
  BY DEF ApproveByHand, mail
<1>4. PlanSound(p)
  BY PlansAreSound
<1>5. ApprovalSound(new)
  BY <1>4, FlagsAssumption DEF NewApproval, ApprovalSound
<1> HIDE DEF new
<1> QED
  BY <1>2, <1>3, <1>4, <1>5, IssueSound DEF new

(* The policy approves only what it admits without a person. *)
LEMMA ApproveAutomaticallySound ==
  ASSUME ActivationInv, NEW p \in PlansIssued, ApproveAutomatically(p)
  PROVE  ActivationInv'
<1>1. PICK targets \in (SUBSET p.mutations) \ {{}} :
        issued' = issued \cup {NewApproval(p, targets, FALSE,
                       [row \in targets |-> Verdict(row, p.evidence).to])}
  BY DEF ApproveAutomatically
<1> DEFINE flags == [row \in targets |-> Verdict(row, p.evidence).to]
           new == NewApproval(p, targets, FALSE, flags)
<1>2. UNCHANGED <<surface, flag, policy, review, scan, kept, lapsed, held, call,
                  ledger, sentTo, mishaps>>
  BY DEF ApproveAutomatically, mail
<1>3. PlanSound(p)
  BY PlansAreSound
<1>4. \A row \in targets : flags[row] = Verdict(row, p.evidence).to /\ flags[row] \in Flags
  BY <1>3, VerdictIsFlag DEF PlanSound
<1> HIDE DEF flags
<1>5. ApprovalSound(new)
  BY <1>3, <1>4 DEF NewApproval, ApprovalSound
<1>6. issued' = issued \cup {new}
  BY <1>1 DEF flags
<1> HIDE DEF new
<1> QED
  BY <1>2, <1>3, <1>5, <1>6, IssueSound

\* What a command loads is vetted, and its snapshot is on disk.
LEMMA LoadedIsVetted ==
  ASSUME ActivationInv, NEW a \in ApprovalsIssued, NEW fresh, Loads(a, fresh)
  PROVE  Vetted(a) /\ a.plan.snapshot \in kept
<1>1. ApprovalSound(a)
  BY ApprovalsAreSound
<1> QED
  BY <1>1 DEF Loads, FollowsFromSnapshot, IsValid, Vetted, Snapshots

\* One process moves to x, what is on disk and what was sent only grow, and the
\* mail and the ledger stay.
LEMMA CommandMoves ==
  ASSUME ActivationInv, NEW c \in Processes, NEW x,
         call' = [call EXCEPT ![c] = x],
         UNCHANGED <<surface, flag, policy, review, scan, issued, lapsed, ledger>>,
         mishaps' \in mishaps..MaxMishaps,
         kept \subseteq kept', KeptSound(kept'),
         DOMAIN held' = Paths, DOMAIN sentTo' = Paths,
         \A p \in Paths : \/ held'[p] = held[p] /\ sentTo'[p] = sentTo[p]
                          \/ sentTo[p] \subseteq sentTo'[p] /\ held'[p] \in sentTo'[p],
         CallSound(x, kept', sentTo')
  PROVE  ActivationInv'
<1> USE DEF ActivationInv
<1>1. mishaps \in Nat /\ mishaps' \in 0..MaxMishaps /\ mishaps <= mishaps'
  BY MishapsAssumption
<1>2. policy' \in 1..(mishaps' + 1) /\ review' \in 1..(mishaps' + 1)
  <2>1. policy' = policy /\ review' = review
    OBVIOUS
  <2>2. policy \in 1..(mishaps + 1) /\ review \in 1..(mishaps + 1)
    OBVIOUS
  <2>3. \A n, a, b \in Nat : n \in 1..(a + 1) /\ a <= b => n \in 1..(b + 1)
    OBVIOUS
  <2>4. mishaps' \in Nat /\ policy \in Nat /\ review \in Nat
    BY <1>1, <2>2
  <2> HIDE DEF ActivationInv
  <2>5. policy \in 1..(mishaps' + 1) /\ review \in 1..(mishaps' + 1)
    BY <1>1, <2>2, <2>3, <2>4
  <2> QED
    BY <2>1, <2>5
<1>3. \A p \in Paths : sentTo[p] \subseteq sentTo'[p]
  OBVIOUS
<1>4. HeldSound(held, sentTo)'
  BY DEF HeldSound
<1>5. DOMAIN call' = Processes
  OBVIOUS
<1>6. \A d \in Processes : CallSound(call'[d], kept', sentTo')
  <2>1. \A d \in Processes : CallSound(call[d], kept', sentTo')
    BY <1>3, CallGrows
  <2>2. \A d \in Processes : call'[d] = IF d = c THEN x ELSE call[d]
    OBVIOUS
  <2> QED
    BY <2>1, <2>2
<1>7. \A t \in ledger' : WriteSound(t, kept', sentTo')
  BY <1>3, WriteGrows
<1> QED
  BY <1>1, <1>2, <1>4, <1>5, <1>6, <1>7 DEF ApprovalsIssued

\* A process that stays within its call has the shape of one.
LEMMA CallTyped ==
  ASSUME ActivationInv, NEW c \in Processes, call[c].stage # "idle"
  PROVE  /\ call[c] = [stage |-> call[c].stage, approval |-> call[c].approval,
                       receipt |-> call[c].receipt, proposal |-> call[c].proposal,
                       todo |-> call[c].todo]
         /\ Vetted(call[c].approval)
         /\ call[c].approval.plan.snapshot \in kept
         /\ call[c].receipt \in Paths \cup {Default}
         /\ call[c].todo \in SUBSET call[c].approval.targets
         /\ call[c].stage # "persist" => Durable(call[c].approval, call[c].receipt, kept, sentTo)
<1>1. CallSound(call[c], kept, sentTo)
  BY DEF ActivationInv
<1>2. call[c] # Idle
  BY DEF Idle
<1> QED
  BY <1>1, <1>2 DEF CallSound

\* An apply begins with an approval that was just vetted.
LEMMA BeginApplySound ==
  ASSUME ActivationInv, NEW c \in Processes, NEW a \in ApprovalsIssued, BeginApply(c, a)
  PROVE  ActivationInv'
<1>1. PICK into \in Paths \cup {Default}, proposal \in Paths \cup {Nothing} :
        call' = [call EXCEPT ![c] = [stage |-> "persist", approval |-> a,
                    receipt |-> into, proposal |-> proposal, todo |-> {}]]
  BY DEF BeginApply
<1> DEFINE x == [stage |-> "persist", approval |-> a, receipt |-> into,
                 proposal |-> proposal, todo |-> {}]
<1>2. UNCHANGED <<surface, flag, policy, review, scan, kept, issued, lapsed, held,
                  ledger, sentTo, mishaps>>
  BY DEF BeginApply, mail
<1>3. Loads(a, TRUE)
  BY DEF BeginApply
<1>4. CallSound(x, kept', sentTo')
  <2>1. Vetted(a) /\ a.plan.snapshot \in kept
    BY <1>3, LoadedIsVetted
  <2> QED
    BY <1>2, <2>1 DEF CallSound
<1>5. /\ mishaps' \in mishaps..MaxMishaps
      /\ KeptSound(kept') /\ DOMAIN held' = Paths /\ DOMAIN sentTo' = Paths
  BY <1>2, MishapsAssumption DEF ActivationInv, HeldSound
<1> HIDE DEF x
<1> QED
  BY <1>1, <1>2, <1>4, <1>5, CommandMoves DEF x

\* Of the four artefacts the first ones are on disk; if all of them are, the
\* call goes on, and otherwise it is over.
LEMMA PersistSound ==
  ASSUME ActivationInv, NEW c \in Processes, Persist(c)
  PROVE  ActivationInv'
<1> DEFINE a == call[c].approval
           r == call[c].receipt
<1>1. PICK written \in 0..4 :
        LET toPath == r \in Paths /\ written = 4
        IN  /\ written < 4 =>
                 IF written = 2 /\ ~InWindow(a) THEN UNCHANGED mishaps
                 ELSE mishaps < MaxMishaps /\ mishaps' = mishaps + 1
            /\ written = 4 => UNCHANGED mishaps
            /\ kept' = kept \cup {Material(a)[i] : i \in 1..(IF toPath THEN 3 ELSE written)}
            /\ IF toPath THEN SendTo(r, Bundle(a)) ELSE UNCHANGED <<held, sentTo>>
            /\ call' = [call EXCEPT ![c] =
                   IF written = 4 THEN [@ EXCEPT !.stage = "preflight"] ELSE Idle]
  BY DEF Persist
<1> DEFINE toPath == r \in Paths /\ written = 4
           x == IF written = 4 THEN [call[c] EXCEPT !.stage = "preflight"] ELSE Idle
<1>2. UNCHANGED <<surface, flag, policy, review, scan, issued, lapsed, ledger>>
  BY DEF Persist, mail
<1>3. call' = [call EXCEPT ![c] = x]
  BY <1>1
<1>4. call[c].stage = "persist"
  BY DEF Persist
<1>5. /\ call[c] = [stage |-> call[c].stage, approval |-> a, receipt |-> r,
                    proposal |-> call[c].proposal, todo |-> call[c].todo]
      /\ Vetted(a) /\ r \in Paths \cup {Default}
      /\ a.plan.snapshot \in kept /\ call[c].todo \in SUBSET a.targets
  BY <1>4, CallTyped
<1>6. ShotSound(a.plan.snapshot) /\ a.plan.kind = "plan" /\ a.kind = "approval"
  BY <1>5 DEF Vetted, ApprovalSound, PlanSound
<1>7. /\ Material(a)[1] = a.plan.snapshot /\ Material(a)[2] = a.plan
      /\ Material(a)[3] = a /\ Material(a)[4] = Bundle(a)
  BY DEF Material
<1>8. Bundle(a).kind = "bundle"
  BY DEF Bundle
<1>9. mishaps' \in mishaps..MaxMishaps
  BY <1>1, MishapsAssumption DEF ActivationInv
<1>10. kept' = kept \cup {Material(a)[i] : i \in 1..(IF toPath THEN 3 ELSE written)}
  BY <1>1
<1>11. kept \subseteq kept' /\ KeptSound(kept')
  <2>1. 1..(IF toPath THEN 3 ELSE written) \subseteq {1, 2, 3, 4}
    BY <1>1
  <2>2. \A i \in {1, 2, 3, 4} :
          /\ Material(a)[i].kind \in {"snapshot", "plan", "approval", "bundle"}
          /\ Material(a)[i].kind = "snapshot" => ShotSound(Material(a)[i])
    BY <1>6, <1>7, <1>8 DEF ShotSound
  <2> QED
    BY <1>10, <2>1, <2>2 DEF ActivationInv, KeptSound
<1>12. IF toPath THEN SendTo(r, Bundle(a)) ELSE UNCHANGED <<held, sentTo>>
  BY <1>1
<1>13. /\ DOMAIN held' = Paths /\ DOMAIN sentTo' = Paths
       /\ \A p \in Paths : \/ held'[p] = held[p] /\ sentTo'[p] = sentTo[p]
                           \/ sentTo[p] \subseteq sentTo'[p] /\ held'[p] \in sentTo'[p]
  BY <1>12 DEF ActivationInv, HeldSound, SendTo
<1>14. CallSound(x, kept', sentTo')
  <2>1. CASE written # 4
    BY <2>1 DEF CallSound
  <2>2. CASE written = 4
    <3>1. x = [stage |-> "preflight", approval |-> a, receipt |-> r,
               proposal |-> call[c].proposal, todo |-> call[c].todo]
      BY <1>5, <2>2
    <3>2. {Material(a)[1], Material(a)[2], Material(a)[3]} \subseteq kept'
      BY <1>10, <2>2
    <3>3. r = Default => Material(a)[4] \in kept'
      BY <1>10, <2>2, PathsAssumption
    <3>4. r \in Paths => Bundle(a) \in sentTo'[r]
      BY <1>12, <2>2 DEF SendTo, ActivationInv, HeldSound
    <3>5. Durable(a, r, kept', sentTo')
      BY <1>7, <3>2, <3>3, <3>4 DEF Durable
    <3>6. a.plan.snapshot \in kept'
      BY <1>5, <1>11
    <3> HIDE DEF x, a, r
    <3> QED
      BY <1>5, <3>1, <3>5, <3>6 DEF CallSound
  <2> QED
    BY <2>1, <2>2
<1> HIDE DEF x
<1> QED
  BY <1>2, <1>3, <1>9, <1>11, <1>13, <1>14, CommandMoves

\* The preflight passes: the call is over, or it goes on to the engine.
LEMMA CanaryPreflightSound ==
  ASSUME ActivationInv, NEW c \in Processes, CanaryPreflight(c)
  PROVE  ActivationInv'
<1> DEFINE a == call[c].approval
           on == [stage |-> "engine", approval |-> a, receipt |-> call[c].receipt,
                  proposal |-> Nothing, todo |-> call[c].todo]
<1>1. UNCHANGED <<surface, flag, policy, review, scan, kept, issued, lapsed, ledger,
                  mishaps>>
  BY DEF CanaryPreflight, mail
<1>2. call[c].stage = "preflight"
  BY DEF CanaryPreflight
<1>3. /\ call[c] = [stage |-> call[c].stage, approval |-> a,
                    receipt |-> call[c].receipt, proposal |-> call[c].proposal,
                    todo |-> call[c].todo]
      /\ Vetted(a) /\ call[c].receipt \in Paths \cup {Default}
      /\ a.plan.snapshot \in kept /\ call[c].todo \in SUBSET a.targets
      /\ Durable(a, call[c].receipt, kept, sentTo)
  BY <1>2, CallTyped
<1>4. IF call[c].proposal \in Paths THEN SendTo(call[c].proposal, ProposalOf(a))
      ELSE UNCHANGED <<held, sentTo>>
  BY DEF CanaryPreflight
<1>5. /\ DOMAIN held' = Paths /\ DOMAIN sentTo' = Paths
      /\ \A p \in Paths : \/ held'[p] = held[p] /\ sentTo'[p] = sentTo[p]
                          \/ sentTo[p] \subseteq sentTo'[p] /\ held'[p] \in sentTo'[p]
  BY <1>4 DEF ActivationInv, HeldSound, SendTo
<1>6. call' = [call EXCEPT ![c] = Idle] \/ call' = [call EXCEPT ![c] = on]
  <2>1. \/ call' = [call EXCEPT ![c] = Idle]
        \/ call' = [call EXCEPT ![c].stage = "engine", ![c].proposal = Nothing]
    BY DEF CanaryPreflight
  <2>2. DOMAIN call = Processes
    BY DEF ActivationInv
  <2>3. [call EXCEPT ![c].stage = "engine", ![c].proposal = Nothing]
        = [call EXCEPT ![c] = on]
    <3>1. [call EXCEPT ![c].stage = "engine", ![c].proposal = Nothing]
          = [call EXCEPT ![c] = [call[c] EXCEPT !.stage = "engine", !.proposal = Nothing]]
      BY <2>2
    <3>2. [call[c] EXCEPT !.stage = "engine", !.proposal = Nothing] = on
      <4> DEFINE z == call[c]  at == call[c].stage  re == call[c].receipt
                 pr == call[c].proposal  td == call[c].todo
      <4>1. z = [stage |-> at, approval |-> a, receipt |-> re, proposal |-> pr,
                 todo |-> td]
        BY <1>3
      <4> HIDE DEF z, at, re, pr, td, a
      <4> DEFINE y == [z EXCEPT !.stage = "engine"]
      <4>2. y = [stage |-> "engine", approval |-> a, receipt |-> re, proposal |-> pr,
                 todo |-> td]
        BY <4>1
      <4>3. [z EXCEPT !.stage = "engine", !.proposal = Nothing]
            = [y EXCEPT !.proposal = Nothing]
        BY Zenon
      <4> HIDE DEF y
      <4>4. [y EXCEPT !.proposal = Nothing]
            = [stage |-> "engine", approval |-> a, receipt |-> re,
               proposal |-> Nothing, todo |-> td]
        BY <4>2
      <4> QED
        BY <4>3, <4>4 DEF z, re, td
    <3> QED
      BY <3>1, <3>2
  <2> QED
    BY <2>1, <2>3
<1>7. CallSound(Idle, kept', sentTo')
  BY DEF CallSound
<1>8. CallSound(on, kept', sentTo')
  <2>1. Durable(a, call[c].receipt, kept', sentTo')
    BY <1>1, <1>3, <1>5, DurableGrows
  <2> HIDE DEF a
  <2> QED
    BY <1>1, <1>3, <2>1 DEF CallSound
<1>9. mishaps' \in mishaps..MaxMishaps /\ KeptSound(kept')
  BY <1>1, MishapsAssumption DEF ActivationInv
<1> HIDE DEF on
<1> QED
  BY <1>1, <1>5, <1>6, <1>7, <1>8, <1>9, CommandMoves

(* A call that goes on to write has its receipt path on disk. *)
LEMMA BeginWritesSound ==
  ASSUME ActivationInv, NEW c \in Processes, BeginWrites(c)
  PROVE  ActivationInv'
<1> DEFINE a == call[c].approval
           on == [stage |-> "writing", approval |-> a, receipt |-> call[c].receipt,
                  proposal |-> call[c].proposal, todo |-> a.targets]
<1>1. UNCHANGED <<surface, flag, policy, review, scan, kept, issued, lapsed, held,
                  ledger, sentTo, mishaps>>
  BY DEF BeginWrites, mail
<1>2. call[c].stage = "engine"
  BY DEF BeginWrites
<1>3. /\ call[c] = [stage |-> call[c].stage, approval |-> a,
                    receipt |-> call[c].receipt, proposal |-> call[c].proposal,
                    todo |-> call[c].todo]
      /\ Vetted(a) /\ call[c].receipt \in Paths \cup {Default}
      /\ a.plan.snapshot \in kept
      /\ Durable(a, call[c].receipt, kept, sentTo)
  BY <1>2, CallTyped
<1>4. call' = [call EXCEPT ![c] = on]
  <2>1. call' = [call EXCEPT ![c].stage = "writing", ![c].todo = a.targets]
    BY DEF BeginWrites
  <2>2. DOMAIN call = Processes
    BY DEF ActivationInv
  <2>3. call' = [call EXCEPT ![c] = [call[c] EXCEPT !.stage = "writing", !.todo = a.targets]]
    BY <2>1, <2>2
  <2>4. [call[c] EXCEPT !.stage = "writing", !.todo = a.targets] = on
    <3> DEFINE z == call[c]  at == call[c].stage  re == call[c].receipt
               pr == call[c].proposal  td == call[c].todo  new == a.targets
    <3>1. z = [stage |-> at, approval |-> a, receipt |-> re, proposal |-> pr,
               todo |-> td]
      BY <1>3
    <3> HIDE DEF z, at, re, pr, td, new, a
    <3> DEFINE y == [z EXCEPT !.stage = "writing"]
    <3>2. y = [stage |-> "writing", approval |-> a, receipt |-> re, proposal |-> pr,
               todo |-> td]
      BY <3>1
    <3>3. [z EXCEPT !.stage = "writing", !.todo = new] = [y EXCEPT !.todo = new]
      BY Zenon
    <3> HIDE DEF y
    <3>4. [y EXCEPT !.todo = new]
          = [stage |-> "writing", approval |-> a, receipt |-> re, proposal |-> pr,
             todo |-> new]
      BY <3>2
    <3> QED
      BY <3>3, <3>4 DEF z, re, pr, new
  <2> QED
    BY <2>3, <2>4
<1>5. CallSound(on, kept', sentTo')
  <2> HIDE DEF a
  <2> QED
    BY <1>1, <1>3 DEF CallSound
<1>6. /\ mishaps' \in mishaps..MaxMishaps /\ KeptSound(kept')
      /\ DOMAIN held' = Paths /\ DOMAIN sentTo' = Paths
  BY <1>1, MishapsAssumption DEF ActivationInv, HeldSound
<1> HIDE DEF on
<1> QED
  BY <1>1, <1>4, <1>5, <1>6, CommandMoves

(* A call that ends leaves everything it wrote where it can be found. *)
LEMMA GiveUpSound ==
  ASSUME ActivationInv, NEW c \in Processes, GiveUp(c)
  PROVE  ActivationInv'
<1>1. UNCHANGED <<surface, flag, policy, review, scan, kept, issued, lapsed, held,
                  ledger, sentTo>>
  BY DEF GiveUp, mail
<1>2. call' = [call EXCEPT ![c] = Idle]
  BY DEF GiveUp
<1>3. CallSound(Idle, kept', sentTo')
  BY DEF CallSound
<1>4. mishaps' \in mishaps..MaxMishaps
  BY MishapsAssumption DEF GiveUp, ActivationInv
<1>5. KeptSound(kept') /\ DOMAIN held' = Paths /\ DOMAIN sentTo' = Paths
  BY <1>1 DEF ActivationInv, HeldSound
<1> QED
  BY <1>1, <1>2, <1>3, <1>4, <1>5, CommandMoves

\* Messages that change are no longer quiet, so what a scan says stands.
LEMMA ScanStands ==
  ASSUME NEW x, NEW y, NEW srf, NEW flg, NEW srf2, NEW flg2, NEW gone,
         ScanSound(x, srf, flg),
         y.on = x.on, y.failed = x.failed, y.left = x.left, y.rows = x.rows,
         y.quiet = x.quiet \ gone,
         y \in [on : BOOLEAN, left : SUBSET Surfaces, rows : SUBSET MailRows,
                failed : BOOLEAN, quiet : SUBSET Msgs],
         \A m \in Msgs : m \notin gone => srf2[m] = srf[m] /\ flg2[m] = flg[m]
  PROVE  ScanSound(y, srf2, flg2)
<1>1. x.quiet \subseteq Msgs
  BY DEF ScanSound
<1>4. \A m \in y.quiet : m \in x.quiet /\ srf2[m] = srf[m] /\ flg2[m] = flg[m]
  BY <1>1
<1>5. ASSUME y.on, ~y.failed, NEW m \in y.quiet, srf2[m] \notin y.left
      PROVE  (flg2[m] # "no_flag")
             = ([msg |-> m, surface |-> srf2[m], flag |-> flg2[m]] \in y.rows)
  BY <1>4, <1>5 DEF ScanSound
<1>6. \A r \in y.rows : r.flag # "no_flag"
  BY DEF ScanSound
<1> QED
  BY <1>5, <1>6 DEF ScanSound

\* One message changes.
LEMMA OneMessageMoves ==
  ASSUME ScanSound(scan, surface, flag), NEW m,
         scan' = [scan EXCEPT !.quiet = @ \ {m}],
         \A n \in Msgs : n # m => surface'[n] = surface[n] /\ flag'[n] = flag[n]
  PROVE  ScanSound(scan', surface', flag')
<1> DEFINE gone == {m}
<1>1. scan \in [on : BOOLEAN, left : SUBSET Surfaces, rows : SUBSET MailRows,
                failed : BOOLEAN, quiet : SUBSET Msgs]
  BY DEF ScanSound
<1>2. /\ scan'.on = scan.on /\ scan'.failed = scan.failed
      /\ scan'.left = scan.left /\ scan'.rows = scan.rows
      /\ scan'.quiet = scan.quiet \ gone
      /\ scan' \in [on : BOOLEAN, left : SUBSET Surfaces, rows : SUBSET MailRows,
                   failed : BOOLEAN, quiet : SUBSET Msgs]
  BY <1>1
<1>3. \A n \in Msgs : n \notin gone => surface'[n] = surface[n] /\ flag'[n] = flag[n]
  OBVIOUS
<1> HIDE DEF gone
<1> QED
  BY SMTT(20), <1>2, <1>3, ScanStands

\* A write is recorded with what was approved for its target, and the message
\* it changed is no longer quiet.
LEMMA WriteStepSound ==
  ASSUME ActivationInv, NEW c \in Processes, NEW row \in call[c].todo, Write(c, row)
  PROVE  ActivationInv'
<1> DEFINE a == call[c].approval
<1>1. call[c].stage = "writing"
  BY DEF Write
<1>2. /\ call[c] = [stage |-> call[c].stage, approval |-> a,
                    receipt |-> call[c].receipt, proposal |-> call[c].proposal,
                    todo |-> call[c].todo]
      /\ Vetted(a) /\ call[c].receipt \in Paths \cup {Default}
      /\ a.plan.snapshot \in kept /\ call[c].todo \in SUBSET a.targets
      /\ Durable(a, call[c].receipt, kept, sentTo)
  BY <1>1, CallTyped
<1>3. PICK answer \in {"verified", "lost", "refused"} :
        /\ answer = "lost" => mishaps < MaxMishaps
        /\ mishaps' = IF answer = "lost" THEN mishaps + 1 ELSE mishaps
        /\ ledger' = ledger \cup {Transaction(c, row, answer)}
        /\ \E effect \in (IF answer = "lost" THEN BOOLEAN ELSE {answer = "verified"}) :
             flag' = IF effect THEN [flag EXCEPT ![row.msg] = a.flags[row]] ELSE flag
        /\ call' = [call EXCEPT ![c] =
               IF answer = "verified" /\ call[c].todo # {row}
               THEN [call[c] EXCEPT !.todo = call[c].todo \ {row}]
               ELSE Idle]
  BY DEF Write
<1>4. /\ scan' = [scan EXCEPT !.quiet = @ \ {row.msg}]
      /\ UNCHANGED <<surface, policy, review, kept, issued, lapsed, held, sentTo>>
  BY DEF Write
<1>5. row \in a.targets /\ row.msg \in Msgs /\ a.flags[row] \in Flags
  <2>1. row \in a.targets
    BY <1>2
  <2>2. ApprovalSound(a)
    BY <1>2 DEF Vetted
  <2> QED
    BY <2>1, <2>2 DEF ApprovalSound, PlanSound, MailRows
<1>6. flag' = flag \/ flag' = [flag EXCEPT ![row.msg] = a.flags[row]]
  BY <1>3
<1>7. surface' \in [Msgs -> Surfaces] /\ flag' \in [Msgs -> Flags]
  BY <1>4, <1>5, <1>6 DEF ActivationInv
<1> DEFINE m == row.msg
<1>8. /\ \A n \in Msgs : n # m => surface'[n] = surface[n] /\ flag'[n] = flag[n]
      /\ scan' = [scan EXCEPT !.quiet = @ \ {m}]
  BY <1>4, <1>6 DEF ActivationInv
<1> HIDE DEF m
<1>9. ScanSound(scan', surface', flag')
  BY <1>8, OneMessageMoves DEF ActivationInv
<1>10. \A d \in Processes : CallSound(call'[d], kept, sentTo)
  <2> DEFINE left == call[c].todo \ {row}
             on == [call[c] EXCEPT !.todo = left]
  <2>1. on = [stage |-> call[c].stage, approval |-> a,
              receipt |-> call[c].receipt, proposal |-> call[c].proposal, todo |-> left]
    <3> HIDE DEF left
    <3> QED
      BY <1>2
  <2>2. CallSound(on, kept, sentTo)
    <3> HIDE DEF a, on
    <3> QED
      BY <1>1, <1>2, <2>1 DEF CallSound
  <2>3. CallSound(Idle, kept, sentTo)
    BY DEF CallSound
  <2>4. \A d \in Processes : CallSound(call[d], kept, sentTo) /\ DOMAIN call = Processes
    BY DEF ActivationInv
  <2>5. call' = [call EXCEPT ![c] = on] \/ call' = [call EXCEPT ![c] = Idle]
    <3>1. CASE answer = "verified" /\ call[c].todo # {row}
      BY <1>3, <3>1
    <3>2. CASE ~(answer = "verified" /\ call[c].todo # {row})
      BY <1>3, <3>2
    <3> QED
      BY <3>1, <3>2
  <2> HIDE DEF on
  <2> QED
    BY <2>2, <2>3, <2>4, <2>5
<1>11. \A t \in ledger' : WriteSound(t, kept, sentTo)
  <2> DEFINE new == Transaction(c, row, answer)
  <2>1. new = [approval |-> a, row |-> row, to |-> a.flags[row], state |-> answer,
               receipt |-> call[c].receipt]
    BY DEF Transaction
  <2>2. WriteSound(new, kept, sentTo)
    <3> HIDE DEF a, new
    <3> QED
      BY <1>2, <1>5, <2>1 DEF WriteSound
  <2> QED
    BY <1>3, <2>2 DEF ActivationInv
<1>12. /\ mishaps' \in 0..MaxMishaps
       /\ policy' \in 1..(mishaps' + 1) /\ review' \in 1..(mishaps' + 1)
  BY <1>3, <1>4, MishapsAssumption DEF ActivationInv
<1>13. DOMAIN call' = Processes
  BY <1>3 DEF ActivationInv
<1>14. KeptSound(kept') /\ IssuedSound(issued') /\ HeldSound(held', sentTo')
       /\ lapsed' \subseteq ApprovalsIssued'
  BY <1>4 DEF ActivationInv, ApprovalsIssued
<1> HIDE DEF a
<1> QED
  BY <1>4, <1>7, <1>9, <1>10, <1>11, <1>12, <1>13, <1>14 DEF ActivationInv

\* What is taken back becomes what the scan saw, and its record says so.
LEMMA RollBackSound ==
  ASSUME ActivationInv, NEW a, NEW p, RollBack(a, p)
  PROVE  ActivationInv'
<1> DEFINE undone == {t \in ledger : /\ t.approval = a
                                     /\ t.state \in {"verified", "lost"}
                                     /\ surface[t.row.msg] = t.row.surface
                                     /\ flag[t.row.msg] = t.to}
           gone == {t.row.msg : t \in undone}
<1>1. /\ flag' = [m \in Msgs |-> IF \E t \in undone : t.row.msg = m
                                 THEN (CHOOSE t \in undone : t.row.msg = m).row.flag
                                 ELSE flag[m]]
      /\ ledger' = (ledger \ undone) \cup {[t EXCEPT !.state = "restored"] : t \in undone}
      /\ scan' = [scan EXCEPT !.quiet = @ \ gone]
  BY DEF RollBack
<1>2. UNCHANGED <<surface, policy, review, kept, issued, lapsed, held, call, sentTo,
                  mishaps>>
  BY DEF RollBack
<1>3. \A t \in ledger : WriteSound(t, kept, sentTo)
  BY DEF ActivationInv
<1>4. \A t \in ledger : t.row \in MailRows
  BY <1>3 DEF WriteSound, Vetted, ApprovalSound, PlanSound
<1>5. \A t \in undone : t \in ledger
  OBVIOUS
<1> HIDE DEF undone
<1>6. flag' \in [Msgs -> Flags]
  <2>1. ASSUME NEW m \in Msgs, \E t \in undone : t.row.msg = m
        PROVE  (CHOOSE t \in undone : t.row.msg = m).row.flag \in Flags
    <3> DEFINE t == CHOOSE t \in undone : t.row.msg = m
    <3>1. t \in undone
      BY <2>1
    <3> HIDE DEF t
    <3>2. t.row.flag \in Flags
      BY <3>1, <1>4, <1>5 DEF MailRows
    <3> QED
      BY <3>2 DEF t
  <2> QED
    BY <1>1, <2>1 DEF ActivationInv
<1>7. \A m \in Msgs : m \notin gone => surface'[m] = surface[m] /\ flag'[m] = flag[m]
  BY <1>1, <1>2
<1> HIDE DEF gone
<1>8. ScanSound(scan', surface', flag')
  <2>1. ScanSound(scan, surface, flag)
    BY DEF ActivationInv
  <2>2. scan \in [on : BOOLEAN, left : SUBSET Surfaces, rows : SUBSET MailRows,
                  failed : BOOLEAN, quiet : SUBSET Msgs]
    BY <2>1 DEF ScanSound
  <2>3. /\ scan'.on = scan.on /\ scan'.failed = scan.failed
        /\ scan'.left = scan.left /\ scan'.rows = scan.rows
        /\ scan'.quiet = scan.quiet \ gone
        /\ scan' \in [on : BOOLEAN, left : SUBSET Surfaces, rows : SUBSET MailRows,
                     failed : BOOLEAN, quiet : SUBSET Msgs]
    BY <1>1, <2>2
  <2> QED
    BY <1>7, <2>1, <2>3, ScanStands
<1>9. \A t \in ledger' : WriteSound(t, kept, sentTo)
  <2>1. ASSUME NEW t \in undone
        PROVE  WriteSound([t EXCEPT !.state = "restored"], kept, sentTo)
    <3>1. WriteSound(t, kept, sentTo)
      BY <1>3, <1>5
    <3>2. [t EXCEPT !.state = "restored"]
          = [approval |-> t.approval, row |-> t.row, to |-> t.to, state |-> "restored",
             receipt |-> t.receipt]
      BY <3>1 DEF WriteSound
    <3> QED
      BY <3>1, <3>2 DEF WriteSound
  <2> QED
    BY <1>1, <1>3, <2>1
<1>10. KeptSound(kept') /\ IssuedSound(issued') /\ HeldSound(held', sentTo')
       /\ lapsed' \subseteq ApprovalsIssued'
  BY <1>2 DEF ActivationInv, ApprovalsIssued
<1> QED
  BY <1>2, <1>6, <1>8, <1>9, <1>10 DEF ActivationInv

\* A mishap of the world around: a window lapses, new code, a new review.
LEMMA WorldSound ==
  ASSUME ActivationInv,
         \/ \E a \in ApprovalsIssued : Lapse(a)
         \/ Upgrade \/ RenewReview
  PROVE  ActivationInv'
<1>1. /\ mishaps < MaxMishaps /\ mishaps' = mishaps + 1
      /\ policy' \in {policy, policy + 1} /\ review' \in {review, review + 1}
  BY DEF Lapse, Upgrade, RenewReview
<1>2. UNCHANGED <<surface, flag, scan, kept, issued, held, call, ledger, sentTo>>
  BY DEF Lapse, Upgrade, RenewReview, mail
<1>3. lapsed' \subseteq ApprovalsIssued
  BY DEF Lapse, Upgrade, RenewReview, ActivationInv
<1>4. /\ mishaps' \in 0..MaxMishaps
      /\ policy' \in 1..(mishaps' + 1) /\ review' \in 1..(mishaps' + 1)
  BY <1>1, MishapsAssumption DEF ActivationInv
<1> QED
  BY <1>2, <1>3, <1>4 DEF ActivationInv, ApprovalsIssued

\* The owner moves or recolours a message.
LEMMA TouchSound ==
  ASSUME ActivationInv, NEW m \in Msgs, Touch(m)
  PROVE  ActivationInv'
<1>1. /\ mishaps < MaxMishaps /\ mishaps' = mishaps + 1
      /\ scan' = [scan EXCEPT !.quiet = @ \ {m}]
  BY DEF Touch
<1>2. UNCHANGED <<policy, review, kept, issued, lapsed, held, call, ledger, sentTo>>
  BY DEF Touch
<1>3. \/ \E s \in Surfaces : surface' = [surface EXCEPT ![m] = s] /\ flag' = flag
      \/ flag' = [flag EXCEPT ![m] = "gray"] /\ surface' = surface
  BY DEF Touch
<1>4. surface' \in [Msgs -> Surfaces] /\ flag' \in [Msgs -> Flags]
  BY <1>3 DEF ActivationInv, Flags
<1>5. \A n \in Msgs : n # m => surface'[n] = surface[n] /\ flag'[n] = flag[n]
  BY <1>3 DEF ActivationInv
<1>6. ScanSound(scan', surface', flag')
  BY <1>1, <1>5, OneMessageMoves DEF ActivationInv
<1>7. /\ mishaps' \in 0..MaxMishaps
      /\ policy' \in 1..(mishaps' + 1) /\ review' \in 1..(mishaps' + 1)
  BY <1>1, <1>2, MishapsAssumption DEF ActivationInv
<1> QED
  BY <1>2, <1>4, <1>6, <1>7 DEF ActivationInv, ApprovalsIssued

\* At first nothing was scanned, filed, approved, sent or written.
LEMMA ActivationStart ==
  ASSUME ActivationInit
  PROVE  ActivationInv
<1> USE DEF ActivationInit
<1>1. surface \in [Msgs -> Surfaces] /\ flag \in [Msgs -> Flags]
  BY HomeAssumption DEF Flags
<1>2. ScanSound(scan, surface, flag)
  BY DEF ScanSound, NoScan
<1>3. KeptSound(kept) /\ IssuedSound(issued) /\ HeldSound(held, sentTo)
  BY DEF KeptSound, IssuedSound, HeldSound
<1>4. mishaps \in 0..MaxMishaps /\ policy \in 1..(mishaps + 1) /\ review \in 1..(mishaps + 1)
  BY MishapsAssumption
<1>5. DOMAIN call = Processes /\ \A c \in Processes : CallSound(call[c], kept, sentTo)
  BY DEF CallSound
<1> QED
  BY <1>1, <1>2, <1>3, <1>4, <1>5 DEF ActivationInv

\* Each step of an audit, a plan, an approval or a command keeps the invariant.
LEMMA ActivationStep ==
  ASSUME ActivationInv, ActivationNext
  PROVE  ActivationInv'
<1>1. CASE StartAudit \/ KeepSnapshot
  BY <1>1, StartAuditSound, KeepSnapshotSound
<1>2. CASE \E s \in Surfaces : ReadSurface(s) \/ SurfaceFails(s)
  BY <1>2, ReadSurfaceSound, SurfaceFailsSound
<1>3. CASE \E s \in Snapshots : Plan(s)
  BY <1>3, PlanStepSound
<1>4. CASE \E p \in PlansIssued : EditPlan(p) \/ ApproveByHand(p) \/ ApproveAutomatically(p)
  BY <1>4, EditPlanSound, ApproveByHandSound, ApproveAutomaticallySound
<1>5. ASSUME NEW c \in Processes, CallStep(c)
      PROVE  ActivationInv'
  <2>1. CASE \E a \in ApprovalsIssued : BeginApply(c, a)
    BY <2>1, BeginApplySound
  <2>2. CASE Persist(c) \/ CanaryPreflight(c) \/ BeginWrites(c) \/ GiveUp(c)
    BY <2>2, PersistSound, CanaryPreflightSound, BeginWritesSound, GiveUpSound
  <2>3. CASE \E row \in call[c].todo : Write(c, row)
    BY <2>3, WriteStepSound
  <2> QED
    BY <1>5, <2>1, <2>2, <2>3 DEF CallStep
<1>6. CASE \E a \in ApprovalsIssued, p \in Paths \cup {Default} : RollBack(a, p)
  BY <1>6, RollBackSound
<1>7. CASE (\E a \in ApprovalsIssued : Lapse(a)) \/ Upgrade \/ RenewReview
  BY <1>7, WorldSound
<1>8. CASE \E m \in Msgs : Touch(m)
  BY <1>8, TouchSound
<1> QED
  BY <1>1, <1>2, <1>3, <1>4, <1>5, <1>6, <1>7, <1>8 DEF ActivationNext
-----------------------------------------------------------------------------
(***************************************************************************)
(* The classifier (FlagPolicy): what it says of any text.                  *)
(***************************************************************************)

\* The detectors are finitely many.
LEMMA SignalsFinite == IsFiniteSet(Signals)
<1> DEFINE A == {"confirmed_event", "operator_action", "other_party_action", "closed"}
           B == {"active_reference", "deferral", "ambiguous_actor", "marketing"}
           C == {"consequence", "date", "near_term"}
<1>1. \A S, x : IsFiniteSet(S) => IsFiniteSet(S \cup {x})
  BY FS_AddElement
<1>2. IsFiniteSet({})
  BY FS_EmptySet
<1>3. \A S, u, v, x, y : IsFiniteSet(S) => IsFiniteSet(S \cup {u, v, x, y})
  <2> SUFFICES ASSUME NEW S, NEW u, NEW v, NEW x, NEW y, IsFiniteSet(S)
               PROVE  IsFiniteSet(S \cup {u, v, x, y})
    OBVIOUS
  <2>1. IsFiniteSet((((S \cup {u}) \cup {v}) \cup {x}) \cup {y})
    BY <1>1
  <2>2. (((S \cup {u}) \cup {v}) \cup {x}) \cup {y} = S \cup {u, v, x, y}
    OBVIOUS
  <2> QED
    BY <2>1, <2>2
<1>4. IsFiniteSet({} \cup A)
  BY <1>2, <1>3
<1>5. IsFiniteSet(({} \cup A) \cup B)
  BY <1>3, <1>4
<1>6. IsFiniteSet((({} \cup A) \cup B) \cup {"consequence", "date", "near_term", "near_term"})
  BY <1>3, <1>5
<1>7. Signals = (({} \cup A) \cup B) \cup {"consequence", "date", "near_term", "near_term"}
  BY DEF Signals
<1> QED
  BY <1>6, <1>7

\* Of the strong signals, those that name who has to act are a part.
LEMMA SignalCounts ==
  ASSUME NEW s \in SUBSET Signals
  PROVE  /\ Cardinality(StrongSignals(s)) \in Nat /\ Cardinality(Axes(s)) \in Nat
         /\ Cardinality(Axes(s)) <= Cardinality(StrongSignals(s))
<1>1. StrongSignals(s) \in SUBSET Signals
  BY DEF StrongSignals
<1>2. IsFiniteSet(StrongSignals(s))
  BY <1>1, SignalsFinite, FS_Subset
<1>3. Axes(s) \in SUBSET StrongSignals(s)
  BY DEF Axes, StrongSignals
<1> QED
  BY <1>2, <1>3, FS_Subset, FS_CardinalityType

\* Confidence counts thousandths, and one strong signal is never enough.
LEMMA ConfidenceBounds ==
  ASSUME NEW s \in SUBSET Signals, NEW type
  PROVE  /\ Confidence(type, s) \in 0..1000
         /\ Confidence(type, s) >= AutoEligibleThreshold =>
                Cardinality(StrongSignals(s)) >= 2
<1> DEFINE k == Cardinality(StrongSignals(s))
           a == Cardinality(Axes(s))
           d == IF "date" \in s /\ type \in {"event_confirmed", "action_request"}
                THEN 150 ELSE 0
           m == IF "ambiguous_actor" \in s THEN 250 ELSE 0
           f == IF Conflicting(s) THEN 200 ELSE 0
           b == IF "marketing" \in s /\ type # "action_request" THEN 300 ELSE 0
           u == IF type \in {"unclassifiable", "unidentifiable_action"} /\ "date" \notin s
                THEN 100 ELSE 0
           raw == 300 + 200 * Least(k, 2) + Least(100 * a, 200) + d - m - f - b - u
<1>1. k \in Nat /\ a \in Nat /\ a <= k
  BY SignalCounts
<1>2. d \in {0, 150} /\ m \in {0, 250} /\ f \in {0, 200} /\ b \in {0, 300} /\ u \in {0, 100}
  OBVIOUS
<1>3. Confidence(type, s) = IF raw < 0 THEN 0 ELSE Least(raw, 1000)
  BY DEF Confidence
<1> HIDE DEF k, a, d, m, f, b, u
<1>4. raw \in Int
  BY <1>1, <1>2 DEF Least
<1>5. k < 2 => raw < 800
  BY <1>1, <1>2 DEF Least
<1> HIDE DEF raw
<1>6. Confidence(type, s) \in 0..1000
  BY <1>3, <1>4 DEF Least
<1>7. Confidence(type, s) >= AutoEligibleThreshold => raw >= 800
  BY <1>3, <1>4 DEF Least, AutoEligibleThreshold
<1>8. Confidence(type, s) >= AutoEligibleThreshold => k >= 2
  BY <1>1, <1>4, <1>5, <1>7
<1> QED
  BY <1>6, <1>8 DEF k

\* The type follows from the detectors, and signals that contradict each other
\* are told as such.
LEMMA TypeOfText ==
  ASSUME NEW s \in SUBSET Signals
  PROVE  /\ SemanticType(s) \in DOMAIN Contract
         /\ Conflicting(s) => SemanticType(s) = "conflicting_signals"
         /\ SemanticType(s) = "action_request" => "operator_action" \in s
BY DEF SemanticType, Contract, Conflicting

\* Every classification meets the contract of its type.
LEMMA EveryTextMeetsContract ==
  ASSUME NEW txt \in Texts
  PROVE  MeetsContract(ClassificationOf(txt))
<1> DEFINE s == txt.signals
           type == SemanticType(s)
           c == ClassificationOf(txt)
<1>1. s \in SUBSET Signals /\ ("near_term" \in s => "date" \in s) /\ txt.domain \in Domains
  BY DEF Texts
<1>2. /\ c.domain = txt.domain /\ c.type = type /\ c.owner = Owner(type)
      /\ c.state = OperatorState(type, s) /\ c.urgency = Urgency(type, s)
      /\ c.confidence = Confidence(type, s)
      /\ c.due <=> ("date" \in s /\ type \in {"action_request", "event_confirmed"})
      /\ c.due \in BOOLEAN /\ c.followUp \in BOOLEAN
      /\ c.followUp <=> (type = "awaiting_other_party")
  BY DEF ClassificationOf
<1>3. type \in DOMAIN Contract
  BY <1>1, TypeOfText
<1>4. type \in {"event_confirmed", "action_request", "awaiting_other_party", "deferred_item",
               "closed_or_receipt", "conflicting_signals", "active_reference",
               "unidentifiable_action", "unclassifiable"}
  BY <1>3 DEF Contract
<1>5. Confidence(type, s) \in 0..1000
  BY ZenonT(40), <1>1, ConfidenceBounds
<1> HIDE DEF type, s, c
<1>6. Owner(type) = Contract[type].owner
  BY <1>4 DEF Owner, Contract, ReviewOnlyTypes
<1>7. OperatorState(type, s) \in Contract[type].state
  BY <1>4 DEF OperatorState, Contract
<1>8. Urgency(type, s) \in Contract[type].urgency
  BY <1>4 DEF Urgency, Contract
<1>9. /\ type = "event_confirmed" => (Urgency(type, s) = "near_term" <=> "date" \in s)
      /\ type = "action_request" /\ Urgency(type, s) = "imminent" => "near_term" \in s
  BY DEF Urgency
<1>10. MeetsContract(c)
  <2>1. c.due => c.type \in {"event_confirmed", "action_request"}
    BY <1>2
  <2>2. c.type = "event_confirmed" => (c.urgency = "near_term") = c.due
    BY <1>2, <1>9
  <2>3. c.type = "action_request" /\ c.urgency = "imminent" => c.due
    BY <1>1, <1>2, <1>9
  <2>4. (c.type = "awaiting_other_party") = c.followUp
    BY <1>2
  <2> QED
    BY <1>1, <1>2, <1>3, <1>5, <1>6, <1>7, <1>8, <2>1, <2>2, <2>3, <2>4 DEF MeetsContract
<1> QED
  BY <1>10 DEF c

\* A proposal is one of three things.
LEMMA OneVerdict ==
  ASSUME NEW c, NEW observed
  PROVE  Cardinality({how \in {"identity", "auto", "review"} : Proposal(c, observed)[how]}) = 1
<1> DEFINE p == Proposal(c, observed)
           same == DeservedFlag(c) = observed
           auto == IsAutoEligible(c) /\ DeservedFlag(c) # "purple" /\ observed # "unknown"
<1>1. /\ p["identity"] <=> same
      /\ p["auto"] <=> (~same /\ auto)
      /\ p["review"] <=> (~same /\ ~auto)
  BY DEF Proposal
<1> HIDE DEF p, same, auto
<1>2. \E how \in {"identity", "auto", "review"} :
        {h \in {"identity", "auto", "review"} : p[h]} = {how}
  <2>1. CASE same
    <3>1. p["identity"] /\ ~p["auto"] /\ ~p["review"]
      BY <1>1, <2>1
    <3>2. {h \in {"identity", "auto", "review"} : p[h]} = {"identity"}
      BY <3>1
    <3> QED
      BY <3>2
  <2>2. CASE ~same /\ auto
    <3>1. ~p["identity"] /\ p["auto"] /\ ~p["review"]
      BY <1>1, <2>2
    <3>2. {h \in {"identity", "auto", "review"} : p[h]} = {"auto"}
      BY <3>1
    <3> QED
      BY <3>2
  <2>3. CASE ~same /\ ~auto
    <3>1. ~p["identity"] /\ ~p["auto"] /\ p["review"]
      BY <1>1, <2>3
    <3>2. {h \in {"identity", "auto", "review"} : p[h]} = {"review"}
      BY <3>1
    <3> QED
      BY <3>2
  <2> QED
    BY <2>1, <2>2, <2>3
<1>3. Cardinality({h \in {"identity", "auto", "review"} : p[h]}) = 1
  BY <1>2, FS_Singleton
<1> QED
  BY <1>3 DEF p

\* What may be changed without a person has two signals for it, none against
\* it, is no bulk mail, and its flag is known; red has all its reasons.
LEMMA ProposalRests ==
  ASSUME NEW txt \in Texts, NEW observed
  PROVE  LET proposal == Proposal(ClassificationOf(txt), observed)
         IN  /\ proposal.auto =>
                  /\ Cardinality(StrongSignals(txt.signals)) >= 2
                  /\ ~Conflicting(txt.signals)
                  /\ "marketing" \notin txt.signals
                  /\ observed # "unknown" /\ proposal.to # "purple"
             /\ proposal.to = "red" =>
                  {"operator_action", "consequence", "date"} \subseteq txt.signals
<1> DEFINE s == txt.signals
           type == SemanticType(s)
           c == ClassificationOf(txt)
           proposal == Proposal(c, observed)
<1>1. s \in SUBSET Signals /\ ("near_term" \in s => "date" \in s)
  BY DEF Texts
<1>2. /\ c.type = type /\ c.urgency = Urgency(type, s) /\ c.confidence = Confidence(type, s)
      /\ c.bulk <=> "marketing" \in s
  BY DEF ClassificationOf
<1>3. /\ proposal.to = DeservedFlag(c)
      /\ proposal.auto => IsAutoEligible(c) /\ DeservedFlag(c) # "purple"
                          /\ observed # "unknown"
  BY DEF Proposal
<1>4. /\ type \in DOMAIN Contract
      /\ Conflicting(s) => type = "conflicting_signals"
      /\ type = "action_request" => "operator_action" \in s
  BY <1>1, TypeOfText
<1>5. Confidence(type, s) >= AutoEligibleThreshold => Cardinality(StrongSignals(s)) >= 2
  BY <1>1, ConfidenceBounds
<1> HIDE DEF s, type, c, proposal
<1>6. IsAutoEligible(c) => /\ Cardinality(StrongSignals(s)) >= 2
                           /\ ~Conflicting(s) /\ "marketing" \notin s
  BY <1>2, <1>4, <1>5 DEF IsAutoEligible, ReviewOnlyTypes
<1>7. DeservedFlag(c) = "red" => c.type = "action_request" /\ c.urgency = "imminent"
  BY DEF DeservedFlag
<1>8. Urgency(type, s) = "imminent" => {"consequence", "near_term"} \subseteq s
  BY DEF Urgency
<1>9. DeservedFlag(c) = "red" => {"operator_action", "consequence", "date"} \subseteq s
  BY <1>1, <1>2, <1>4, <1>7, <1>8
<1> QED
  BY <1>3, <1>6, <1>9 DEF s, c, proposal

\* What the classifier says of any text at all, whatever flag it carries.
LEMMA EveryProposalSafe ==
  ASSUME text \in Texts
  PROVE  ProposalSafe
<1>1. MeetsContract(ClassificationOf(text))
  BY EveryTextMeetsContract
<1>2. ASSUME NEW observed \in Flags
      PROVE  LET proposal == Proposal(ClassificationOf(text), observed)
             IN  /\ Cardinality({how \in {"identity", "auto", "review"} : proposal[how]}) = 1
                 /\ proposal.auto =>
                      /\ Cardinality(StrongSignals(text.signals)) >= 2
                      /\ ~Conflicting(text.signals)
                      /\ "marketing" \notin text.signals
                      /\ observed # "unknown" /\ proposal.to # "purple"
                 /\ proposal.to = "red" =>
                      {"operator_action", "consequence", "date"} \subseteq text.signals
  BY OneVerdict, ProposalRests
<1> QED
  BY <1>1, <1>2 DEF ProposalSafe
-----------------------------------------------------------------------------
(***************************************************************************)
(* The sum of the programs (ApprovedChanges).                              *)
(***************************************************************************)
ChangesInv ==
    /\ program \in {"engine", "activation", "classifier", "maintenance"}
    /\ text \in Texts
    /\ MaintenanceInv
    /\ ActivationInv

\* Every behaviour keeps the invariant of both programs, whichever it drives.
THEOREM ChangesInvariant == ChangesSpec => []ChangesInv
<1>1. ChangesInit => ChangesInv
  <2> SUFFICES ASSUME ChangesInit
               PROVE  ChangesInv
    OBVIOUS
  <2>1. NoText \in Texts
    BY DEF NoText, Texts, Domains
  <2>2. text \in Texts
    BY <2>1 DEF ChangesInit
  <2>3. MaintenanceInit /\ ActivationInit
    BY DEF ChangesInit
  <2> QED
    BY <2>2, <2>3, MaintenanceStart, ActivationStart DEF ChangesInit, ChangesInv
<1>2. ChangesInv /\ [ChangesNext]_changesVars => ChangesInv'
  <2> SUFFICES ASSUME ChangesInv, [ChangesNext]_changesVars
               PROVE  ChangesInv'
    OBVIOUS
  <2>1. UNCHANGED <<program, text>>
    BY DEF ChangesNext, EngineOnly, changesVars
  <2>2. MaintenanceNext \/ UNCHANGED maintenanceVars
    BY DEF ChangesNext, EngineOnly, changesVars
  <2>3. ActivationNext \/ UNCHANGED activationVars
    BY DEF ChangesNext, EngineOnly, changesVars
  <2>4. MaintenanceInv /\ ActivationInv
    BY DEF ChangesInv
  <2>5. MaintenanceInv'
    <3>1. CASE MaintenanceNext
      BY <2>4, <3>1, MaintenanceStep
    <3>2. CASE UNCHANGED maintenanceVars
      BY <2>4, <3>2 DEF MaintenanceInv, maintenanceVars
    <3> QED
      BY <2>2, <3>1, <3>2
  <2>6. ActivationInv'
    <3>1. CASE ActivationNext
      BY <2>4, <3>1, ActivationStep
    <3>2. CASE UNCHANGED activationVars
      BY <2>4, <3>2 DEF ActivationInv, activationVars, mail, ApprovalsIssued
    <3> QED
      BY <2>3, <3>1, <3>2
  <2> QED
    BY <2>1, <2>5, <2>6 DEF ChangesInv
<1> QED
  BY <1>1, <1>2, PTL DEF ChangesSpec

\* Type correctness.
THEOREM TypeCorrectness == ChangesSpec => []ChangesTypeOK
<1>1. ActivationInv => ActivationTypeOK
  <2> SUFFICES ASSUME ActivationInv
               PROVE  ActivationTypeOK
    OBVIOUS
  <2> USE DEF ActivationInv
  <2>1. {policy, review} \subseteq 1..(MaxMishaps + 1)
    BY MishapsAssumption
  <2>2. scan.left \subseteq Surfaces /\ scan.quiet \subseteq Msgs
    BY DEF ScanSound
  <2>3. \A a \in kept : a.kind \in {"snapshot", "plan", "approval", "bundle"}
    BY DEF KeptSound
  <2>4. \A a \in issued : a.kind \in {"plan", "approval"}
    BY DEF IssuedSound, PlanSound, ApprovalSound
  <2>5. DOMAIN held = Paths
    BY DEF HeldSound
  <2>6. \A t \in ledger : t.state \in {"verified", "lost", "refused", "restored"}
    BY DEF WriteSound
  <2> QED
    BY <2>1, <2>2, <2>3, <2>4, <2>5, <2>6 DEF ActivationTypeOK
<1>2. MaintenanceInv => MaintenanceTypeOK
  <2> SUFFICES ASSUME MaintenanceInv
               PROVE  MaintenanceTypeOK
    OBVIOUS
  <2>1. Len(category.rows) \in 0..Selected
    <3>1. category.rows \in Seq({"intent", "verified", "conflicted", "uncertain"})
          /\ Len(category.rows) <= Selected
      BY DEF MaintenanceInv, RowsSound, CategoryReceipts
    <3>2. Len(category.rows) \in Nat
      BY <3>1, LenProperties
    <3> QED
      BY <3>1, <3>2, SelectedAssumption
  <2> QED
    BY <2>1 DEF MaintenanceInv, MaintenanceTypeOK, Receipts, Children
<1>3. ChangesInv => ChangesTypeOK
  BY <1>1, <1>2 DEF ChangesInv, ChangesTypeOK
<1> QED
  BY <1>3, ChangesInvariant, PTL

\* A scan that counts as complete missed no message that stayed as it was.
THEOREM CompleteScansMissNothing == ChangesSpec => []CompleteMissesNothing
<1>1. ChangesInv => CompleteMissesNothing
  <2> SUFFICES ASSUME ActivationInv
               PROVE  CompleteMissesNothing
    BY DEF ChangesInv
  <2>1. ScanSound(scan, surface, flag)
    BY DEF ActivationInv
  <2> QED
    BY <2>1 DEF CompleteMissesNothing, ScanSound, Row
<1> QED
  BY <1>1, ChangesInvariant, PTL

\* A write that was verified or lost can be taken back from what is on disk, as
\* long as its policy stands and nothing else was sent to its bundle's path.
THEOREM UndoIsKept == ChangesSpec => []UndoKept
<1>1. ChangesInv => UndoKept
  <2> SUFFICES ASSUME ActivationInv, NEW t \in ledger,
                      t.approval.plan.policy = policy,
                      t.receipt \in Paths => sentTo[t.receipt] = {Bundle(t.approval)}
               PROVE  CanRollBack(t.approval, t.receipt)
    BY DEF ChangesInv, UndoKept
  <2> DEFINE a == t.approval
  <2>1. /\ Vetted(a) /\ t.receipt \in Paths \cup {Default}
        /\ Durable(a, t.receipt, kept, sentTo)
    BY DEF ActivationInv, WriteSound
  <2>2. {a.plan.snapshot, a.plan, a} \subseteq kept
    BY <2>1 DEF Durable
  <2>3. a.plan.snapshot \in Snapshots
    BY <2>1, <2>2 DEF Snapshots, Vetted, ApprovalSound, PlanSound, ShotSound
  <2>4. Loads(a, FALSE)
    BY <2>1, <2>3 DEF Loads, FollowsFromSnapshot, IsValid, Vetted
  <2>5. Readable(t.receipt, Bundle(a))
    <3>1. CASE t.receipt = Default
      BY <2>1, <3>1 DEF Readable, Durable
    <3>2. CASE t.receipt \in Paths
      <4>1. t.receipt # Default
        BY <3>2, PathsAssumption
      <4>2. sentTo[t.receipt] = {Bundle(a)}
        BY <3>2
      <4>3. held[t.receipt] \in sentTo[t.receipt]
        BY <3>2, <4>2 DEF ActivationInv, HeldSound
      <4> QED
        BY <4>1, <4>2, <4>3 DEF Readable
    <3> QED
      BY <2>1, <3>1, <3>2
  <2> QED
    BY <2>2, <2>4, <2>5 DEF CanRollBack
<1> QED
  BY <1>1, ChangesInvariant, PTL

\* Only what a complete scan found, its plan lists and an approval names with
\* the authority its class needs is ever written.
THEOREM WritesWereApproved == ChangesSpec => []WrittenWasApproved
<1>1. ChangesInv => WrittenWasApproved
  <2> SUFFICES ASSUME ActivationInv, NEW t \in ledger
               PROVE  LET plan == t.approval.plan
                          verdict == Verdict(t.row, plan.evidence)
                      IN  /\ plan.snapshot.complete
                          /\ plan.mutations = Derived(plan.snapshot, plan.evidence)
                          /\ t.row \in t.approval.targets \cap plan.mutations
                          /\ IF t.approval.human
                             THEN verdict.review /\ t.row.msg \in Nominable
                             ELSE verdict.auto /\ t.to = verdict.to
    BY DEF ChangesInv, WrittenWasApproved
  <2> DEFINE a == t.approval
  <2>1. /\ Vetted(a) /\ t.row \in a.targets /\ t.to = a.flags[t.row]
    BY DEF ActivationInv, WriteSound
  <2>2. /\ a.plan.snapshot.complete
        /\ a.plan.mutations = Derived(a.plan.snapshot, a.plan.evidence)
        /\ MayChange(a) /\ ApprovalSound(a)
    BY <2>1 DEF Vetted
  <2>3. t.row \in a.plan.mutations
    BY <2>1, <2>2 DEF MayChange
  <2>4. IF a.human
        THEN Verdict(t.row, a.plan.evidence).review /\ t.row.msg \in Nominable
        ELSE Verdict(t.row, a.plan.evidence).auto
    BY <2>1, <2>2 DEF MayChange
  <2>5. ~a.human => t.to = Verdict(t.row, a.plan.evidence).to
    BY <2>1, <2>2 DEF ApprovalSound
  <2> QED
    BY <2>1, <2>2, <2>3, <2>4, <2>5
<1> QED
  BY <1>1, ChangesInvariant, PTL

\* The classifier is safe on every text.
THEOREM ProposalsAreSafe == ChangesSpec => []ProposalSafe
<1>1. ChangesInv => ProposalSafe
  BY EveryProposalSafe DEF ChangesInv
<1> QED
  BY <1>1, ChangesInvariant, PTL

\* An envelope is dispatched once, and a label is changed once.
THEOREM DispatchIsOnce == ChangesSpec => []DispatchedOnce
<1>1. ChangesInv => DispatchedOnce
  <2> SUFFICES ASSUME MaintenanceInv
               PROVE  DispatchedOnce
    BY DEF ChangesInv
  <2>1. \A e \in Envelopes : starts[e] \in {0, 1} /\
                             EnvelopeSound(receipt[e], child[e], output[e], starts[e])
    BY DEF MaintenanceInv
  <2>2. \A i \in Items : changes[i] \in {0, 1}
    BY DEF MaintenanceInv
  <2>3. RowsSound(category, changes)
    BY DEF MaintenanceInv
  <2> QED
    BY <2>1, <2>2, <2>3 DEF DispatchedOnce, EnvelopeSound, RowsSound
<1> QED
  BY <1>1, ChangesInvariant, PTL
=============================================================================
