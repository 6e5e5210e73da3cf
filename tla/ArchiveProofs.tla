--------------------------- MODULE ArchiveProofs ---------------------------
(***************************************************************************)
(* What holds of conditional archiving for any number of workers, plans,   *)
(* messages, approvals and interventions.                                  *)
(*                                                                         *)
(* The argument: a receipt is true of a plan when every row says no more   *)
(* than what happened and its counts cover what was handed out.  Both the  *)
(* receipt on disk and the one its worker is building are true after every *)
(* step, so it does not matter when, or whether, the one replaces the      *)
(* other.  Only the holder of the lock has a receipt in memory.            *)
(***************************************************************************)
EXTENDS ArchiveTransactions, FiniteSetTheorems, TLAPS

-----------------------------------------------------------------------------
(* The inductive invariant.  Its parts are operators of the values they    *)
(* speak about: s and d stand for sent and done.                           *)

RowTrue(x, status, s, d) ==
    /\ status \in {"none", "unattempted", "failed"} => s[<<x, "archive">>] = 0
    /\ s[<<x, "restore">>] > 0 =>
           status \in {"rollback_intent", "rollback_uncertain", "rolled_back"}
    /\ status \in {"verified", "rolled_back"} => <<x, "archive">> \in d
    /\ status = "rolled_back" => <<x, "restore">> \in d

Intent(kind) == IF kind = "archive" THEN "intent" ELSE "rollback_intent"
Count(r, kind) == IF kind = "archive" THEN r.writes ELSE r.undone

(* Moves that were handed out, but for the rows still at their intent.      *)
Given(p, kind, s) == {m \in PlanRows[p] : s[<<<<p, m>>, kind>>] > 0}
Settled(p, r, kind, s) ==
    {m \in Given(p, kind, s) : r.rows[m] # Intent(kind)}

Covers(p, r, s) ==
    \A kind \in Kinds : Cardinality(Settled(p, r, kind, s)) <= Count(r, kind)

(* The move of m that is about to be handed out is counted already.         *)
Reserved(p, r, kind, m, s) ==
    Cardinality(Settled(p, r, kind, s) \cup {m}) <= Count(r, kind)

RowsSound(p, r, s, d) ==
    /\ \A m \in Messages \ PlanRows[p] : r.rows[m] = "none"
    /\ \A m \in PlanRows[p] : RowTrue(<<p, m>>, r.rows[m], s, d)

Begun(r) == r.status = "none" => \A m \in Messages : r.rows[m] = "none"

ReceiptTrue(p, r, s, d) ==
    RowsSound(p, r, s, d) /\ Covers(p, r, s) /\ Begun(r)

(* The server is handed a move once, a restore after its archive only.     *)
ServerInv ==
    /\ \A x \in Moves : sent[x] <= 1
    /\ \A x \in requests : sent[x] = 1 /\ x \notin done
    /\ \A x \in done : sent[x] = 1
    /\ \A x \in Rows : sent[<<x, "restore">>] = 1 => <<x, "archive">> \in done

LockInv ==
    \A w \in Workers : /\ pc[w] # "idle" <=> lock = w
                       /\ pc[w] # "idle" => job[w].plan \in Plans

(* Rows the worker has not come to.                                        *)
Ahead(step, j, r) ==
    \A m \in j.todo :
        /\ m # j.cur
        /\ m \in PlanRows[j.plan]
        /\ r.rows[m] = IF step \in ApplySteps THEN "unattempted" ELSE "verified"

(* The row it is at: what the file f says of it and what its memory says.  *)
At(step, p, m, f, r, s, d) ==
    /\ step \in {"preflight", "loop", "undo_loop", "undo_finish"} =>
           m = NoMessage
    /\ step \in {"dispatch", "wait", "observe", "outcome"} =>
           m \in PlanRows[p] /\ f.rows[m] = "intent"
    /\ step \in {"undo_dispatch", "undo_wait", "undo_outcome"} =>
           /\ m \in PlanRows[p] /\ f.rows[m] = "rollback_intent"
           /\ <<<<p, m>>, "archive">> \in d
    /\ step = "dispatch" =>
           /\ r.rows[m] = "uncertain" /\ s[<<<<p, m>>, "archive">>] = 0
           /\ Reserved(p, r, "archive", m, s)
    /\ step = "wait" => r.rows[m] = "uncertain"
    /\ step = "observe" =>
           /\ r.rows[m] \in {"uncertain", "verified", "unchanged"}
           /\ <<<<p, m>>, "archive">> \in d
    /\ step = "outcome" =>
           r.rows[m] \in {"uncertain", "verified", "unchanged", "conflicted"}
    /\ step = "finish" =>
           \/ m = NoMessage
           \/ /\ m \in PlanRows[p] /\ f.rows[m] = "unattempted"
              /\ r.rows[m] \in {"conflicted", "failed"}
    /\ step \in {"undo_dispatch", "undo_wait"} =>
           /\ r.rows[m] = "rollback_intent"
           /\ Reserved(p, r, "restore", m, s)
    /\ step = "undo_dispatch" => s[<<<<p, m>>, "restore">>] = 0
    /\ step = "undo_outcome" =>
           r.rows[m] \in {"rollback_uncertain", "rolled_back",
                          "rollback_conflicted"}

(* The canary of a rollout that is being applied is another plan, and its   *)
(* receipt stands verified.                                                *)
CanaryHolds(p, a, files) ==
    /\ a \in Approvals
    /\ CanaryOf[a] # NoPlan =>
           /\ CanaryOf[a] # p
           /\ files[CanaryOf[a]].status = "verified"
           /\ \A m \in Messages :
                  files[CanaryOf[a]].rows[m] \in {"none", "verified"}

(* A worker at step with local variables j and receipt r.                  *)
WorkerSound(step, j, r, files, s, d) ==
    /\ ReceiptTrue(j.plan, r, s, d) /\ r.status # "none"
    /\ \A m \in Messages : m # j.cur => r.rows[m] = files[j.plan].rows[m]
    /\ Ahead(step, j, r)
    /\ At(step, j.plan, j.cur, files[j.plan], r, s, d)
    /\ step \in ApplySteps => CanaryHolds(j.plan, r.approval, files)

ArchiveInv ==
    /\ TypeOK
    /\ ServerInv
    /\ LockInv
    /\ \A p \in Plans : ReceiptTrue(p, disk[p], sent, done)
    /\ \A w \in Workers : pc[w] # "idle" =>
           WorkerSound(pc[w], job[w], mem[w], disk, sent, done)

-----------------------------------------------------------------------------
(* Receipts: what a rewritten row and a changed count do.                  *)

(* The fields of a receipt have their types. *)
LEMMA ReceiptFields ==
    ASSUME NEW r \in Receipts
    PROVE  /\ r.status \in ReceiptStatuses
           /\ r.approval \in Approvals \cup {NoApproval}
           /\ r.rows \in [Messages -> RowStatuses]
           /\ r.after \in [Messages -> Observations]
           /\ r.writes \in Nat /\ r.undone \in Nat
BY DEF Receipts

(* A row of a receipt is rewritten; nothing else of it changes.             *)
LEMMA RowRewritten ==
    ASSUME NEW r \in Receipts, NEW m \in Messages, NEW status \in RowStatuses
    PROVE  /\ Row(r, m, status) \in Receipts
           /\ Row(r, m, status).rows = [r.rows EXCEPT ![m] = status]
           /\ Row(r, m, status).status = r.status
           /\ Row(r, m, status).approval = r.approval
           /\ Row(r, m, status).after = r.after
           /\ Row(r, m, status).writes = r.writes
           /\ Row(r, m, status).undone = r.undone
BY DEF Receipts, Row

(* A plan names finitely many messages. *)
LEMMA PlanRowsFinite ==
    ASSUME NEW p \in Plans
    PROVE  PlanRows[p] \subseteq Messages /\ IsFiniteSet(PlanRows[p])
BY ArchiveAssumption

(* What is settled is a finite set, so its size is a number.                *)
LEMMA SettledFinite ==
    ASSUME NEW p \in Plans, NEW r, NEW kind, NEW s
    PROVE  /\ Settled(p, r, kind, s) \subseteq PlanRows[p]
           /\ IsFiniteSet(Settled(p, r, kind, s))
           /\ Cardinality(Settled(p, r, kind, s)) \in Nat
<1>1. Settled(p, r, kind, s) \subseteq PlanRows[p]
  BY DEF Settled, Given
<1>2. IsFiniteSet(Settled(p, r, kind, s))
  BY <1>1, PlanRowsFinite, FS_Subset
<1> QED BY <1>1, <1>2, FS_CardinalityType

(* The counts cover a receipt that settles no more than one they cover.     *)
LEMMA FewerSettled ==
    ASSUME NEW p \in Plans, NEW kind, NEW r, NEW s, NEW q, NEW t, NEW n \in Nat,
           NEW m,
           Settled(p, q, kind, t) \subseteq Settled(p, r, kind, s) \cup {m},
           Cardinality(Settled(p, r, kind, s) \cup {m}) <= n
    PROVE  Cardinality(Settled(p, q, kind, t)) <= n
<1> DEFINE small == Settled(p, q, kind, t)
           large == Settled(p, r, kind, s) \cup {m}
<1>1. IsFiniteSet(large) /\ Cardinality(large) \in Nat
  BY SettledFinite, FS_AddElement, FS_CardinalityType
<1>2. Cardinality(small) <= Cardinality(large) /\ Cardinality(small) \in Nat
  BY <1>1, FS_Subset, SettledFinite
<1> QED BY <1>1, <1>2

(* A smaller set of settled rows needs no larger count. *)
LEMMA NoMoreSettled ==
    ASSUME NEW p \in Plans, NEW kind, NEW r, NEW s, NEW q, NEW t, NEW n \in Nat,
           Settled(p, q, kind, t) \subseteq Settled(p, r, kind, s),
           Cardinality(Settled(p, r, kind, s)) <= n
    PROVE  Cardinality(Settled(p, q, kind, t)) <= n
<1>1. Cardinality(Settled(p, q, kind, t)) <= Cardinality(Settled(p, r, kind, s))
  BY SettledFinite, FS_Subset
<1> QED BY <1>1, SettledFinite

(* One more in the count makes room for one more move.                      *)
LEMMA RoomForOne ==
    ASSUME NEW p \in Plans, NEW kind, NEW r, NEW s, NEW n \in Nat, NEW m,
           Cardinality(Settled(p, r, kind, s)) <= n
    PROVE  Cardinality(Settled(p, r, kind, s) \cup {m}) <= n + 1
<1> DEFINE now == Settled(p, r, kind, s)
<1>1. IsFiniteSet(now) /\ Cardinality(now) \in Nat
  BY SettledFinite
<1>2. Cardinality(now) <= n
  OBVIOUS
<1> HIDE DEF now
<1>3. Cardinality(now \cup {m}) <= n + 1
  <2>1. Cardinality(now \cup {m}) =
            IF m \in now THEN Cardinality(now) ELSE Cardinality(now) + 1
    BY <1>1, FS_AddElement
  <2> QED BY <2>1, <1>1, <1>2
<1> QED BY <1>3 DEF now

(* A place that was kept for a move which was not handed out can be given   *)
(* up again.                                                               *)
LEMMA RoomGivenUp ==
    ASSUME NEW p \in Plans, NEW kind, NEW r, NEW s, NEW n \in Nat,
           NEW m \in PlanRows[p], ~(s[<<<<p, m>>, kind>>] > 0),
           Cardinality(Settled(p, r, kind, s) \cup {m}) <= n
    PROVE  n - 1 \in Nat /\ Cardinality(Settled(p, r, kind, s)) <= n - 1
<1>1. m \notin Settled(p, r, kind, s)
  BY DEF Settled, Given
<1>2. Cardinality(Settled(p, r, kind, s) \cup {m}) =
          Cardinality(Settled(p, r, kind, s)) + 1
  BY <1>1, SettledFinite, FS_AddElement
<1> QED BY <1>2, SettledFinite

(* A true receipt stays true when one row is rewritten truly.               *)
LEMMA RowMayChange ==
    ASSUME NEW p \in Plans, NEW r \in Receipts, NEW q \in Receipts,
           NEW m \in PlanRows[p], NEW status \in RowStatuses, NEW s, NEW d,
           q.rows = [r.rows EXCEPT ![m] = status],
           RowsSound(p, r, s, d), RowTrue(<<p, m>>, status, s, d)
    PROVE  RowsSound(p, q, s, d)
<1>1. m \in Messages
  BY PlanRowsFinite
<1>2. \A n \in Messages : q.rows[n] = IF n = m THEN status ELSE r.rows[n]
  BY <1>1, ReceiptFields
<1> QED BY <1>1, <1>2, PlanRowsFinite DEF RowsSound

(* What that does to the moves its counts have to cover.                    *)
LEMMA SettledChange ==
    ASSUME NEW p \in Plans, NEW r \in Receipts, NEW q \in Receipts,
           NEW m \in PlanRows[p], NEW status \in RowStatuses, NEW s,
           q.rows = [r.rows EXCEPT ![m] = status], NEW kind
    PROVE  /\ Settled(p, q, kind, s) \subseteq Settled(p, r, kind, s) \cup {m}
           /\ \/ status = Intent(kind)
              \/ r.rows[m] # Intent(kind)
              \/ ~(s[<<<<p, m>>, kind>>] > 0)
              => Settled(p, q, kind, s) \subseteq Settled(p, r, kind, s)
<1>1. m \in Messages
  BY PlanRowsFinite
<1>2. \A n \in Messages : q.rows[n] = IF n = m THEN status ELSE r.rows[n]
  BY <1>1, ReceiptFields
<1> QED BY <1>1, <1>2, PlanRowsFinite DEF Settled, Given

(* Rewriting a row that was no intent settles nothing new. *)
LEMMA SettledKept ==
    ASSUME NEW p \in Plans, NEW r \in Receipts, NEW q \in Receipts,
           NEW m \in PlanRows[p], NEW status \in RowStatuses, NEW s,
           q.rows = [r.rows EXCEPT ![m] = status], NEW kind,
           r.rows[m] # Intent(kind)
    PROVE  Settled(p, q, kind, s) \subseteq Settled(p, r, kind, s)
BY SettledChange

(* A row whose move was never sent is not settled by rewriting it. *)
LEMMA SettledUnsent ==
    ASSUME NEW p \in Plans, NEW r \in Receipts, NEW q \in Receipts,
           NEW m \in PlanRows[p], NEW status \in RowStatuses, NEW s,
           q.rows = [r.rows EXCEPT ![m] = status], NEW kind,
           ~(s[<<<<p, m>>, kind>>] > 0)
    PROVE  Settled(p, q, kind, s) \subseteq Settled(p, r, kind, s)
BY SettledChange

(* A receipt with the rows of a true one and no smaller counts is true.     *)
LEMMA SameRows ==
    ASSUME NEW p \in Plans, NEW r \in Receipts, NEW q \in Receipts,
           NEW s, NEW d, q.rows = r.rows, q.writes = r.writes,
           q.undone = r.undone, q.status # "none", ReceiptTrue(p, r, s, d)
    PROVE  ReceiptTrue(p, q, s, d)
<1>1. \A kind : Settled(p, q, kind, s) = Settled(p, r, kind, s)
  BY DEF Settled
<1> QED BY <1>1 DEF ReceiptTrue, RowsSound, Covers, Count, Begun

(* A rewritten row that was not at an intent, under the same counts.        *)
LEMMA RowTruelyRewritten ==
    ASSUME NEW p \in Plans, NEW r \in Receipts, NEW q \in Receipts,
           NEW m \in PlanRows[p], NEW status \in RowStatuses, NEW s, NEW d,
           q.rows = [r.rows EXCEPT ![m] = status],
           q.writes = r.writes, q.undone = r.undone, q.status # "none",
           \A kind \in Kinds : \/ status = Intent(kind)
                               \/ r.rows[m] # Intent(kind)
                               \/ ~(s[<<<<p, m>>, kind>>] > 0),
           ReceiptTrue(p, r, s, d), RowTrue(<<p, m>>, status, s, d)
    PROVE  ReceiptTrue(p, q, s, d)
<1>1. RowsSound(p, q, s, d)
  BY RowMayChange DEF ReceiptTrue
<1>2. ASSUME NEW kind \in Kinds
      PROVE  Cardinality(Settled(p, q, kind, s)) <= Count(q, kind)
  <2>1. Settled(p, q, kind, s) \subseteq Settled(p, r, kind, s)
    BY SettledChange
  <2>2. Count(q, kind) = Count(r, kind) /\ Count(r, kind) \in Nat
    BY ReceiptFields DEF Count
  <2>3. Cardinality(Settled(p, r, kind, s)) <= Count(r, kind)
    BY DEF ReceiptTrue, Covers
  <2> QED BY <2>1, <2>2, <2>3, NoMoreSettled
<1> QED BY <1>1, <1>2 DEF ReceiptTrue, Covers, Begun

-----------------------------------------------------------------------------
(* Steps of a worker.                                                      *)

(* The values a worker starts with are well typed. *)
LEMMA ReceiptsTyped ==
    NoReceipt \in Receipts /\ NoJob \in Jobs /\ "idle" \in Steps
<1>1. Unresolved \in Observations
  BY DEF Unresolved, Observations, Places
<1>2. NoReceipt \in Receipts
  BY <1>1 DEF NoReceipt, Receipts, ReceiptStatuses, RowStatuses
<1>3. NoJob \in Jobs
  <2>1. 0 \in 0..2
    OBVIOUS
  <2> QED BY <2>1 DEF NoJob, Jobs
<1> QED BY <1>2, <1>3 DEF Steps

(* A worker inside a call holds the lock, and what it carries is typed. *)
LEMMA HolderFacts ==
    ASSUME ArchiveInv, NEW w \in Workers, pc[w] # "idle"
    PROVE  /\ lock = w
           /\ Plan(w) = job[w].plan /\ Plan(w) \in Plans
           /\ job[w] \in Jobs
           /\ Cur(w) = job[w].cur
           /\ mem[w] \in Receipts
           /\ disk[Plan(w)] \in Receipts
           /\ ReceiptTrue(Plan(w), disk[Plan(w)], sent, done)
           /\ ReceiptTrue(Plan(w), mem[w], sent, done)
           /\ WorkerSound(pc[w], job[w], mem[w], disk, sent, done)
BY DEF ArchiveInv, LockInv, Plan, Cur, TypeOK, WorkerSound

(* The call ends; its last rewrite of the file, if there is one, was true.  *)
LEMMA Leaves ==
    ASSUME ArchiveInv, NEW w \in Workers, pc[w] # "idle", Leave(w),
           UNCHANGED <<serverVars, planned>>, NEW r \in Receipts,
           ReceiptTrue(job[w].plan, r, sent, done),
           UNCHANGED disk \/ Saved(w, r)
    PROVE  ArchiveInv'
<1> USE DEF ArchiveInv, serverVars
<1>0. UNCHANGED <<box, acts, planned, requests, sent, done>>
  OBVIOUS
<1>1. Plan(w) \in Plans /\ Plan(w) = job[w].plan /\ lock = w
  BY HolderFacts
<1>2. TypeOK'
  <2>1. NoReceipt \in Receipts /\ NoJob \in Jobs /\ "idle" \in Steps
    BY ReceiptsTyped
  <2>2. disk' \in [Plans -> Receipts]
    BY <1>1 DEF TypeOK, Saved
  <2> QED BY <2>1, <2>2, <1>0 DEF TypeOK, Leave
<1>3. ServerInv'
  BY <1>0 DEF ServerInv
<1>4. pc'[w] = "idle" /\ \A v \in Workers \ {w} : pc'[v] = pc[v] /\ pc[v] = "idle"
  BY <1>1 DEF Leave, TypeOK, LockInv
<1>5. LockInv'
  BY <1>4, ArchiveAssumption DEF LockInv, Leave
<1>6. \A p \in Plans : ReceiptTrue(p, disk'[p], sent', done')
  BY <1>0, <1>1 DEF Saved, TypeOK
<1> QED BY <1>2, <1>3, <1>4, <1>5, <1>6

(* The call goes on at step; the server and the files stay in order.        *)
LEMMA Goes ==
    ASSUME ArchiveInv, NEW w \in Workers, pc[w] # "idle",
           NEW step \in Steps \ {"idle"}, NEW j \in Jobs, NEW r \in Receipts,
           pc' = [pc EXCEPT ![w] = step], job' = [job EXCEPT ![w] = j],
           mem' = [mem EXCEPT ![w] = r], UNCHANGED <<lock, box, acts, planned>>,
           j.plan = job[w].plan,
           requests' \subseteq Moves, sent' \in [Moves -> Nat],
           done' \subseteq Moves, ServerInv',
           disk' \in [Plans -> Receipts],
           \A p \in Plans : ReceiptTrue(p, disk'[p], sent', done'),
           WorkerSound(step, j, r, disk', sent', done')
    PROVE  ArchiveInv'
<1>1. Plan(w) \in Plans /\ Plan(w) = job[w].plan /\ lock = w
  BY HolderFacts
<1>2. TypeOK'
  BY DEF TypeOK, ArchiveInv
<1>3. /\ pc'[w] = step /\ job'[w] = j /\ mem'[w] = r
      /\ \A v \in Workers \ {w} : pc'[v] = pc[v] /\ pc[v] = "idle"
  BY <1>1 DEF ArchiveInv, TypeOK, LockInv
<1>4. LockInv'
  BY <1>1, <1>3 DEF LockInv
<1>5. \A v \in Workers : pc'[v] # "idle" =>
          WorkerSound(pc'[v], job'[v], mem'[v], disk', sent', done')
  BY <1>3
<1> QED BY <1>2, <1>4, <1>5 DEF ArchiveInv

(* Nothing but the worker's own state changes.                              *)
LEMMA GoesOn ==
    ASSUME ArchiveInv, NEW w \in Workers, pc[w] # "idle",
           NEW step \in Steps \ {"idle"}, NEW j \in Jobs, NEW r \in Receipts,
           Go(w, step, j, r), UNCHANGED <<serverVars, planned>>,
           j.plan = job[w].plan,
           WorkerSound(step, j, r, disk, sent, done)
    PROVE  ArchiveInv'
<1>1. UNCHANGED <<box, acts, planned, requests, sent, done, disk, lock>>
  BY DEF serverVars, Go
<1>2. /\ requests' \subseteq Moves /\ sent' \in [Moves -> Nat]
      /\ done' \subseteq Moves /\ ServerInv' /\ disk' \in [Plans -> Receipts]
      /\ \A p \in Plans : ReceiptTrue(p, disk'[p], sent', done')
      /\ WorkerSound(step, j, r, disk', sent', done')
  BY <1>1 DEF ArchiveInv, TypeOK, ServerInv
<1>3. /\ pc' = [pc EXCEPT ![w] = step] /\ job' = [job EXCEPT ![w] = j]
      /\ mem' = [mem EXCEPT ![w] = r] /\ UNCHANGED <<lock, box, acts, planned>>
  BY <1>1 DEF Go
<1> QED BY <1>2, <1>3, Goes

(* The file is rewritten with a true receipt, or the call ends in trying.   *)
LEMMA Persists ==
    ASSUME ArchiveInv, NEW w \in Workers, pc[w] # "idle",
           NEW step \in Steps \ {"idle"}, NEW j \in Jobs, NEW r \in Receipts,
           NEW q \in Receipts,
           Persist(w, q, step, j, r), UNCHANGED <<serverVars, planned>>,
           j.plan = job[w].plan,
           ReceiptTrue(job[w].plan, q, sent, done),
           WorkerSound(step, j, r, [disk EXCEPT ![job[w].plan] = q], sent, done)
    PROVE  ArchiveInv'
<1>1. CASE SaveFails(w, q)
  BY <1>1, Leaves DEF SaveFails
<1>2. CASE /\ Saved(w, q) /\ pc' = [pc EXCEPT ![w] = step]
           /\ job' = [job EXCEPT ![w] = j] /\ mem' = [mem EXCEPT ![w] = r]
           /\ UNCHANGED lock
  <2>1. UNCHANGED <<box, acts, planned, requests, sent, done>>
    BY DEF serverVars
  <2>2. disk' = [disk EXCEPT ![job[w].plan] = q] /\ job[w].plan \in Plans
    BY <1>2, HolderFacts DEF Saved, Plan
  <2>3. /\ requests' \subseteq Moves /\ sent' \in [Moves -> Nat]
        /\ done' \subseteq Moves /\ ServerInv' /\ disk' \in [Plans -> Receipts]
    BY <2>1, <2>2 DEF ArchiveInv, TypeOK, ServerInv
  <2>4. \A p \in Plans : ReceiptTrue(p, disk'[p], sent', done')
    BY <2>1, <2>2 DEF ArchiveInv, TypeOK
  <2>5. WorkerSound(step, j, r, disk', sent', done')
    BY <2>1, <2>2
  <2>6. UNCHANGED <<lock, box, acts, planned>>
    BY <2>1, <1>2
  <2> QED BY <1>2, <2>3, <2>4, <2>5, <2>6, Goes
<1> QED BY <1>1, <1>2 DEF Persist

(* A worker that files a true receipt and returns keeps the invariant. *)
LEMMA Returns ==
    ASSUME ArchiveInv, NEW w \in Workers, pc[w] # "idle", NEW r \in Receipts,
           PersistAndReturn(w, r), UNCHANGED <<serverVars, planned>>,
           ReceiptTrue(job[w].plan, r, sent, done)
    PROVE  ArchiveInv'
BY Leaves DEF PersistAndReturn, SaveFails

(* A worker that returns with nothing filed keeps the invariant. *)
LEMMA Aborts ==
    ASSUME ArchiveInv, NEW w \in Workers, pc[w] # "idle", Abort(w),
           UNCHANGED <<serverVars, planned>>
    PROVE  ArchiveInv'
<1>1. mem[w] \in Receipts /\ ReceiptTrue(job[w].plan, mem[w], sent, done)
  BY HolderFacts
<1> QED BY <1>1, Leaves DEF Abort

LEMMA ArchiveInit == Init => ArchiveInv
<1> SUFFICES ASSUME Init PROVE ArchiveInv
  OBVIOUS
<1> USE DEF Init
<1>1. TypeOK
  <2>1. Unresolved \in Observations
    BY DEF Unresolved, Observations, Places
  <2>2. \A p \in Plans : NoReceipt \in Receipts /\ planned[p] \in [Messages -> Nat]
    BY ReceiptsTyped
  <2> QED BY <2>1, <2>2, ReceiptsTyped DEF TypeOK
<1>2. \A x \in Rows, kind \in Kinds : <<x, kind>> \in Moves
  BY DEF Moves
<1>3. ServerInv
  <2>1. \A x \in Rows : sent[<<x, "restore">>] = 0
    BY <1>2 DEF Kinds
  <2>2. \A x \in Moves : sent[x] = 0
    OBVIOUS
  <2> QED BY <2>1, <2>2 DEF ServerInv
<1>4. LockInv
  BY ArchiveAssumption DEF LockInv
<1>5. ASSUME NEW p \in Plans PROVE ReceiptTrue(p, disk[p], sent, done)
  <2>1. disk[p] = NoReceipt
    OBVIOUS
  <2>2. \A m \in PlanRows[p], kind \in Kinds : sent[<<<<p, m>>, kind>>] = 0
    BY DEF Moves, Rows
  <2>3. \A m \in Messages : NoReceipt.rows[m] = "none"
    BY DEF NoReceipt
  <2>4. RowsSound(p, NoReceipt, sent, done)
    <3>1. ASSUME NEW m \in PlanRows[p] PROVE RowTrue(<<p, m>>, "none", sent, done)
      <4>1. sent[<<<<p, m>>, "archive">>] = 0 /\ sent[<<<<p, m>>, "restore">>] = 0
        BY <2>2 DEF Kinds
      <4> QED BY <4>1 DEF RowTrue
    <3> QED BY <3>1, <2>3, PlanRowsFinite DEF RowsSound
  <2>5. \A kind \in Kinds : Settled(p, NoReceipt, kind, sent) = {}
    BY <2>2 DEF Settled, Given
  <2>6. NoReceipt.writes = 0 /\ NoReceipt.undone = 0
    BY DEF NoReceipt
  <2>7. Covers(p, NoReceipt, sent)
    BY SMTT(20), <2>5, <2>6, FS_EmptySet DEF Covers, Count
  <2> QED BY <2>1, <2>3, <2>4, <2>7 DEF ReceiptTrue, Begun
<1> QED BY <1>1, <1>3, <1>4, <1>5 DEF ArchiveInv

-----------------------------------------------------------------------------
(* apply.                                                                  *)

(* The receipt a fresh apply begins with is blank. *)
LEMMA PreparedFacts ==
    ASSUME NEW a \in Approvals, NEW p \in Plans
    PROVE  /\ Prepared(a, p) \in Receipts
           /\ Prepared(a, p).status = "prepared"
           /\ Prepared(a, p).approval = a
           /\ Prepared(a, p).writes = 0 /\ Prepared(a, p).undone = 0
           /\ \A m \in Messages : Prepared(a, p).rows[m] =
                  IF m \in Selection[a][p] THEN "unattempted" ELSE "none"
<1> DEFINE rows == [m \in Messages |-> IF m \in Selection[a][p]
                                       THEN "unattempted" ELSE "none"]
<1>1. rows \in [Messages -> RowStatuses]
  BY DEF RowStatuses
<1>2. "prepared" \in ReceiptStatuses
  BY DEF ReceiptStatuses
<1>3. Prepared(a, p) = [NoReceipt EXCEPT !.status = "prepared",
                                         !.approval = a, !.rows = rows]
  BY DEF Prepared
<1>4. \A m \in Messages : rows[m] = IF m \in Selection[a][p]
                                    THEN "unattempted" ELSE "none"
  OBVIOUS
<1> HIDE DEF rows
<1>5. NoReceipt.writes = 0 /\ NoReceipt.undone = 0
  BY DEF NoReceipt
<1>6. /\ Prepared(a, p).status = "prepared" /\ Prepared(a, p).approval = a
      /\ Prepared(a, p).rows = rows
      /\ Prepared(a, p).writes = 0 /\ Prepared(a, p).undone = 0
  BY <1>3, <1>5, ReceiptsTyped DEF Receipts
<1>7. Prepared(a, p) \in Receipts
  BY <1>1, <1>2, <1>3, ReceiptsTyped DEF Receipts
<1> QED BY <1>4, <1>6, <1>7

(* A new receipt is true: nothing was sent for a plan that has none.        *)
LEMMA PreparedTrue ==
    ASSUME ArchiveInv, NEW p \in Plans, NEW a \in Approvals, Fresh(p)
    PROVE  ReceiptTrue(p, Prepared(a, p), sent, done)
<1> DEFINE r == Prepared(a, p)
<1>1. /\ r \in Receipts /\ r.status = "prepared"
      /\ r.writes = 0 /\ r.undone = 0
      /\ \A m \in Messages : r.rows[m] = IF m \in Selection[a][p]
                                         THEN "unattempted" ELSE "none"
  BY PreparedFacts
<1>2. ReceiptTrue(p, disk[p], sent, done) /\ disk[p].status = "none"
  BY DEF ArchiveInv, Fresh
<1> HIDE DEF r
<1>3. \A m \in Messages : disk[p].rows[m] = "none"
  BY <1>2 DEF ReceiptTrue, Begun
<1>4. \A m \in PlanRows[p] : RowTrue(<<p, m>>, "none", sent, done)
  BY <1>2, <1>3, PlanRowsFinite DEF ReceiptTrue, RowsSound
<1>5. ASSUME NEW m \in PlanRows[p]
      PROVE  /\ sent[<<<<p, m>>, "archive">>] = 0
             /\ ~(sent[<<<<p, m>>, "restore">>] > 0)
  BY <1>4 DEF RowTrue
<1>6. \A m \in PlanRows[p] : r.rows[m] \in {"none", "unattempted"}
  BY <1>1, PlanRowsFinite
<1>7. \A m \in PlanRows[p] : RowTrue(<<p, m>>, r.rows[m], sent, done)
  BY <1>5, <1>6 DEF RowTrue
<1>8. Selection[a][p] \subseteq PlanRows[p]
  BY ArchiveAssumption
<1>9. RowsSound(p, r, sent, done)
  BY <1>1, <1>7, <1>8 DEF RowsSound
<1>10. \A kind \in Kinds : Settled(p, r, kind, sent) = {}
  <2>1. \A m \in PlanRows[p], kind \in Kinds : ~(sent[<<<<p, m>>, kind>>] > 0)
    <3>1. \A m \in PlanRows[p] : ~(sent[<<<<p, m>>, "archive">>] > 0)
      <4>1. ASSUME NEW m \in PlanRows[p]
            PROVE  ~(sent[<<<<p, m>>, "archive">>] > 0)
        <5>1. sent[<<<<p, m>>, "archive">>] = 0
          BY <1>5
        <5> QED BY <5>1
      <4> QED BY <4>1
    <3> QED BY <1>5, <3>1 DEF Kinds
  <2> QED BY <2>1 DEF Settled, Given
<1>11. Covers(p, r, sent)
  BY <1>10, <1>1, FS_EmptySet DEF Covers, Count
<1> QED BY <1>1, <1>9, <1>11 DEF ReceiptTrue, Begun, r

LEMMA ApplySound ==
    ASSUME ArchiveInv, NEW w \in Workers, NEW p \in Plans, NEW a \in Approvals,
           Apply(w, p, a)
    PROVE  ArchiveInv'
<1> DEFINE r == Prepared(a, p)
           j == [NoJob EXCEPT !.plan = p, !.todo = Selection[a][p]]
<1>1. /\ r \in Receipts /\ r.status = "prepared" /\ r.approval = a
      /\ r.writes = 0 /\ r.undone = 0
      /\ \A m \in Messages : r.rows[m] = IF m \in Selection[a][p]
                                         THEN "unattempted" ELSE "none"
  BY PreparedFacts
<1>2. /\ pc[w] = "idle" /\ lock = Nobody /\ CanaryStands(a, p) /\ Fresh(p)
      /\ disk' = [disk EXCEPT ![p] = r]
      /\ UNCHANGED <<box, acts, planned, requests, sent, done>>
      /\ \/ /\ lock' = w /\ pc' = [pc EXCEPT ![w] = "preflight"]
            /\ job' = [job EXCEPT ![w] = j] /\ mem' = [mem EXCEPT ![w] = r]
         \/ UNCHANGED <<lock, pc, job, mem>>
  BY DEF Apply, serverVars
<1>3. ReceiptTrue(p, r, sent, done)
  BY <1>2, PreparedTrue
<1>4. Selection[a][p] \subseteq PlanRows[p] /\ PlanRows[p] \subseteq Messages
  BY ArchiveAssumption
<1>5. j \in Jobs /\ j.plan = p /\ j.todo = Selection[a][p] /\ j.cur = NoMessage
  <2>1. 0 \in 0..2
    OBVIOUS
  <2> QED BY <1>4, <2>1 DEF NoJob, Jobs
<1>6. \A v \in Workers : pc[v] = "idle"
  BY <1>2, ArchiveAssumption DEF ArchiveInv, LockInv
<1> HIDE DEF r, j
<1>7. TypeOK'
  <2>1. disk' \in [Plans -> Receipts] /\ "preflight" \in Steps
    BY <1>1, <1>2 DEF ArchiveInv, TypeOK, Steps
  <2>2. /\ lock' \in Workers \cup {Nobody} /\ pc' \in [Workers -> Steps]
        /\ job' \in [Workers -> Jobs] /\ mem' \in [Workers -> Receipts]
    <3>1. CASE UNCHANGED <<lock, pc, job, mem>>
      BY <3>1 DEF ArchiveInv, TypeOK
    <3>2. CASE /\ lock' = w /\ pc' = [pc EXCEPT ![w] = "preflight"]
               /\ job' = [job EXCEPT ![w] = j] /\ mem' = [mem EXCEPT ![w] = r]
      BY <3>2, <1>1, <1>5, <2>1 DEF ArchiveInv, TypeOK
    <3> QED BY <1>2, <3>1, <3>2
  <2> QED BY <1>2, <2>1, <2>2 DEF ArchiveInv, TypeOK
<1>8. ServerInv'
  BY <1>2 DEF ArchiveInv, ServerInv
<1>9. \A q \in Plans : ReceiptTrue(q, disk'[q], sent', done')
  BY <1>2, <1>3 DEF ArchiveInv, TypeOK
<1>10. CASE UNCHANGED <<lock, pc, job, mem>>
  <2>1. LockInv'
    BY <1>10 DEF ArchiveInv, LockInv
  <2> QED BY <1>6, <1>7, <1>8, <1>9, <1>10, <2>1 DEF ArchiveInv
<1>11. CASE /\ lock' = w /\ pc' = [pc EXCEPT ![w] = "preflight"]
            /\ job' = [job EXCEPT ![w] = j] /\ mem' = [mem EXCEPT ![w] = r]
  <2>1. /\ pc'[w] = "preflight" /\ job'[w] = j /\ mem'[w] = r
        /\ \A v \in Workers \ {w} : pc'[v] = "idle"
    BY <1>6, <1>11 DEF ArchiveInv, TypeOK
  <2>2. LockInv'
    BY <1>5, <1>11, <2>1 DEF LockInv
  <2>3. disk'[p] = r
    BY <1>2 DEF ArchiveInv, TypeOK
  <2>4. CanaryHolds(p, a, disk')
    <3>1. CASE CanaryOf[a] = NoPlan
      BY <3>1 DEF CanaryHolds
    <3>2. CASE CanaryOf[a] # NoPlan
      <4>1. CanaryOf[a] \in Plans
        BY <3>2, ArchiveAssumption
      <4>2. /\ disk[CanaryOf[a]].status = "verified"
            /\ \A m \in Messages :
                   disk[CanaryOf[a]].rows[m] \in {"none", "verified"}
        BY <1>2, <3>2 DEF CanaryStands
      <4>3. CanaryOf[a] # p
        BY <1>2, <4>2 DEF Fresh
      <4>4. disk'[CanaryOf[a]] = disk[CanaryOf[a]]
        BY <1>2, <4>1, <4>3 DEF ArchiveInv, TypeOK
      <4> QED BY <4>2, <4>3, <4>4 DEF CanaryHolds
    <3> QED BY <3>1, <3>2
  <2>5. Ahead("preflight", j, r)
    BY <1>1, <1>4, <1>5, ArchiveAssumption DEF Ahead, ApplySteps
  <2>6. At("preflight", p, NoMessage, disk'[p], r, sent', done')
    BY DEF At
  <2>7. WorkerSound("preflight", j, r, disk', sent', done')
    BY <1>1, <1>2, <1>3, <1>5, <2>3, <2>4, <2>5, <2>6 DEF WorkerSound
  <2> QED BY <1>7, <1>8, <1>9, <2>1, <2>2, <2>7 DEF ArchiveInv
<1> QED BY <1>2, <1>10, <1>11

(* Changes of a single field of a receipt.                                  *)
LEMMA StatusSet ==
    ASSUME NEW r \in Receipts, NEW status \in ReceiptStatuses
    PROVE  /\ [r EXCEPT !.status = status] \in Receipts
           /\ [r EXCEPT !.status = status].status = status
           /\ [r EXCEPT !.status = status].rows = r.rows
           /\ [r EXCEPT !.status = status].approval = r.approval
           /\ [r EXCEPT !.status = status].writes = r.writes
           /\ [r EXCEPT !.status = status].undone = r.undone
BY DEF Receipts

(* Counting a write changes nothing else of a receipt. *)
LEMMA WritesSet ==
    ASSUME NEW r \in Receipts, NEW n \in Nat
    PROVE  /\ [r EXCEPT !.writes = n] \in Receipts
           /\ [r EXCEPT !.writes = n].status = r.status
           /\ [r EXCEPT !.writes = n].rows = r.rows
           /\ [r EXCEPT !.writes = n].approval = r.approval
           /\ [r EXCEPT !.writes = n].writes = n
           /\ [r EXCEPT !.writes = n].undone = r.undone
BY DEF Receipts

(* Counting a restore changes nothing else of a receipt. *)
LEMMA UndoneSet ==
    ASSUME NEW r \in Receipts, NEW n \in Nat
    PROVE  /\ [r EXCEPT !.undone = n] \in Receipts
           /\ [r EXCEPT !.undone = n].status = r.status
           /\ [r EXCEPT !.undone = n].rows = r.rows
           /\ [r EXCEPT !.undone = n].approval = r.approval
           /\ [r EXCEPT !.undone = n].writes = r.writes
           /\ [r EXCEPT !.undone = n].undone = n
BY DEF Receipts

(* Rewriting the plan's own file leaves the canary's alone.                 *)
LEMMA CanaryKept ==
    ASSUME NEW p \in Plans, NEW a, NEW files \in [Plans -> Receipts],
           NEW q \in Receipts, CanaryHolds(p, a, files)
    PROVE  CanaryHolds(p, a, [files EXCEPT ![p] = q])
<1>1. CASE CanaryOf[a] = NoPlan
  BY <1>1 DEF CanaryHolds
<1>2. CASE CanaryOf[a] # NoPlan
  <2>1. CanaryOf[a] \in Plans /\ CanaryOf[a] # p
    BY <1>2, ArchiveAssumption DEF CanaryHolds
  <2>2. [files EXCEPT ![p] = q][CanaryOf[a]] = files[CanaryOf[a]]
    BY <2>1
  <2> QED BY <2>1, <2>2 DEF CanaryHolds
<1> QED BY <1>1, <1>2

(* A row that was not attempted may become anything but closed, provided    *)
(* that "failed" is said before anything was sent.                         *)
LEMMA UnattemptedRow ==
    ASSUME ArchiveInv, NEW p \in Plans, NEW m \in PlanRows[p], NEW r,
           RowsSound(p, r, sent, done), r.rows[m] = "unattempted"
    PROVE  /\ sent[<<<<p, m>>, "archive">>] = 0
           /\ sent[<<<<p, m>>, "restore">>] = 0
           /\ \A status \in {"failed", "conflicted", "intent", "uncertain"} :
                  RowTrue(<<p, m>>, status, sent, done)
<1>1. RowTrue(<<p, m>>, "unattempted", sent, done)
  BY DEF RowsSound
<1>2. <<<<p, m>>, "restore">> \in Moves
  BY PlanRowsFinite DEF Moves, Rows, Kinds
<1>3. sent[<<<<p, m>>, "restore">>] \in Nat
  BY <1>2 DEF ArchiveInv, TypeOK
<1>4. /\ sent[<<<<p, m>>, "archive">>] = 0
      /\ ~(sent[<<<<p, m>>, "restore">>] > 0)
  BY <1>1 DEF RowTrue
<1>5. sent[<<<<p, m>>, "restore">>] = 0
  BY <1>3, <1>4
<1> QED BY <1>4, <1>5 DEF RowTrue

(* The two intents, and no other row status, announce a move. *)
LEMMA NotAnIntent ==
    ASSUME NEW kind
    PROVE  Intent(kind) \in {"intent", "rollback_intent"}
BY DEF Intent

LEMMA PreflightSound ==
    ASSUME ArchiveInv, NEW w \in Workers, Preflight(w)
    PROVE  ArchiveInv'
<1> DEFINE p == job[w].plan
<1>1. pc[w] = "preflight" /\ UNCHANGED <<serverVars, planned>>
  BY DEF Preflight
<1>2. /\ Plan(w) = p /\ p \in Plans /\ job[w] \in Jobs /\ mem[w] \in Receipts
      /\ ReceiptTrue(p, mem[w], sent, done)
      /\ WorkerSound("preflight", job[w], mem[w], disk, sent, done)
  BY <1>1, HolderFacts
<1>3. CASE Go(w, "loop", job[w], mem[w])
  <2>1. WorkerSound("loop", job[w], mem[w], disk, sent, done)
    BY <1>2 DEF WorkerSound, Ahead, At, ApplySteps
  <2>2. "loop" \in Steps \ {"idle"}
    BY DEF Steps
  <2> QED BY <1>1, <1>2, <1>3, <2>1, <2>2, GoesOn
<1>4. ASSUME NEW m \in job[w].todo, NEW status \in {"failed", "conflicted"},
             PersistAndReturn(w, [Row(mem[w], m, status)
                                      EXCEPT !.status = "blocked"])
      PROVE  ArchiveInv'
  <2> DEFINE row == Row(mem[w], m, status)
             r == [row EXCEPT !.status = "blocked"]
  <2>1. m \in PlanRows[p] /\ mem[w].rows[m] = "unattempted" /\ m \in Messages
    BY <1>2, PlanRowsFinite DEF WorkerSound, Ahead, ApplySteps
  <2>2. status \in RowStatuses /\ "blocked" \in ReceiptStatuses
    BY DEF RowStatuses, ReceiptStatuses
  <2>3. /\ row \in Receipts /\ row.rows = [mem[w].rows EXCEPT ![m] = status]
        /\ row.writes = mem[w].writes /\ row.undone = mem[w].undone
    BY <1>2, <2>1, <2>2, RowRewritten
  <2> HIDE DEF row
  <2>4. /\ r \in Receipts /\ r.rows = [mem[w].rows EXCEPT ![m] = status]
        /\ r.writes = mem[w].writes /\ r.undone = mem[w].undone
        /\ r.status # "none"
    BY <2>2, <2>3, StatusSet
  <2>5. RowTrue(<<p, m>>, status, sent, done)
    BY <1>2, <2>1, UnattemptedRow DEF ReceiptTrue
  <2>6. PersistAndReturn(w, r)
    BY <1>4 DEF row
  <2> HIDE DEF r
  <2>7. \A kind \in Kinds : mem[w].rows[m] # Intent(kind)
    BY <2>1, NotAnIntent
  <2>8. ReceiptTrue(p, r, sent, done)
    <3>1. \A kind \in Kinds : \/ status = Intent(kind)
                              \/ mem[w].rows[m] # Intent(kind)
                              \/ ~(sent[<<<<p, m>>, kind>>] > 0)
      BY <2>7
    <3>2. ReceiptTrue(p, mem[w], sent, done) /\ p \in Plans /\ mem[w] \in Receipts
      BY <1>2
    <3> HIDE DEF p
    <3> QED BY <2>1, <2>2, <2>4, <2>5, <3>1, <3>2, RowTruelyRewritten
  <2> QED BY <1>1, <2>4, <2>6, <2>8, Returns
<1> QED BY <1>3, <1>4 DEF Preflight

(* The worker takes up a row: the file says so before its memory counts the *)
(* move, and the count in memory has room for it.                          *)
LEMMA ClaimSound ==
    ASSUME ArchiveInv, NEW w \in Workers, Claim(w)
    PROVE  ArchiveInv'
<1> DEFINE p == job[w].plan
<1>1. pc[w] = "loop" /\ UNCHANGED <<serverVars, planned>>
  BY DEF Claim
<1>2. /\ Plan(w) = p /\ p \in Plans /\ job[w] \in Jobs /\ mem[w] \in Receipts
      /\ disk[p] \in Receipts /\ disk \in [Plans -> Receipts]
      /\ ReceiptTrue(p, mem[w], sent, done)
      /\ WorkerSound("loop", job[w], mem[w], disk, sent, done)
  BY <1>1, HolderFacts DEF ArchiveInv, TypeOK
<1>3. PICK m \in job[w].todo :
         LET j == [job[w] EXCEPT !.cur = m, !.todo = @ \ {m}]
             r == Row(mem[w], m, "intent")
             Stop(status) == Go(w, "finish", j,
                 [Row(mem[w], m, status) EXCEPT !.status = status])
         IN  \/ /\ Readable(m) /\ Unmoved(Plan(w), m)
                /\ Persist(w, r, "dispatch", j,
                     [Row(r, m, "uncertain") EXCEPT !.writes = @ + 1])
             \/ /\ Readable(m) /\ ~Unmoved(Plan(w), m)
                /\ Stop("conflicted")
             \/ Stop("failed")
  BY DEF Claim
<1> DEFINE j == [job[w] EXCEPT !.cur = m, !.todo = @ \ {m}]
<1>4. m \in PlanRows[p] /\ mem[w].rows[m] = "unattempted" /\ m \in Messages
  BY <1>2, PlanRowsFinite DEF WorkerSound, Ahead, ApplySteps
<1>5. /\ j \in Jobs /\ j.plan = p /\ j.cur = m /\ j.todo = job[w].todo \ {m}
  BY <1>2, <1>4 DEF Jobs
<1> HIDE DEF j
<1>6. job[w].cur = NoMessage /\ disk[p].rows[m] = "unattempted"
  BY <1>2, <1>4, ArchiveAssumption DEF WorkerSound, At
<1>7. /\ sent[<<<<p, m>>, "archive">>] = 0
      /\ \A status \in {"failed", "conflicted", "intent", "uncertain"} :
             RowTrue(<<p, m>>, status, sent, done)
  BY <1>2, <1>4, UnattemptedRow DEF ReceiptTrue
<1>8. \A kind \in Kinds : mem[w].rows[m] # Intent(kind)
  BY <1>4, NotAnIntent
<1>9. mem[w].status # "none" /\ CanaryHolds(p, mem[w].approval, disk)
  BY <1>2 DEF WorkerSound, ApplySteps
<1>10. \A n \in Messages \ {m} : mem[w].rows[n] = disk[p].rows[n]
  BY <1>2, <1>6, ArchiveAssumption DEF WorkerSound
<1>11. \A n \in job[w].todo :
          n \in PlanRows[p] /\ n \in Messages /\ mem[w].rows[n] = "unattempted"
  BY <1>2, PlanRowsFinite DEF WorkerSound, Ahead, ApplySteps
<1>12. ASSUME NEW status \in {"failed", "conflicted"},
              Go(w, "finish", j, [Row(mem[w], m, status) EXCEPT !.status = status])
       PROVE  ArchiveInv'
  <2> DEFINE row == Row(mem[w], m, status)
             r == [row EXCEPT !.status = status]
  <2>1. status \in RowStatuses /\ status \in ReceiptStatuses
    BY DEF RowStatuses, ReceiptStatuses
  <2>2. /\ row \in Receipts /\ row.rows = [mem[w].rows EXCEPT ![m] = status]
        /\ row.writes = mem[w].writes /\ row.undone = mem[w].undone
        /\ row.approval = mem[w].approval
    BY <1>2, <1>4, <2>1, RowRewritten
  <2>3. Go(w, "finish", j, r)
    BY <1>12
  <2> HIDE DEF row
  <2>4. /\ r \in Receipts /\ r.rows = [mem[w].rows EXCEPT ![m] = status]
        /\ r.writes = mem[w].writes /\ r.undone = mem[w].undone
        /\ r.status # "none" /\ r.approval = mem[w].approval
    BY <2>1, <2>2, StatusSet
  <2> HIDE DEF r
  <2>5. ReceiptTrue(p, r, sent, done)
    <3>1. RowTrue(<<p, m>>, status, sent, done)
      BY <1>7
    <3>2. \A kind \in Kinds : \/ status = Intent(kind)
                              \/ mem[w].rows[m] # Intent(kind)
                              \/ ~(sent[<<<<p, m>>, kind>>] > 0)
      BY <1>8
    <3>3. ReceiptTrue(p, mem[w], sent, done) /\ p \in Plans /\ mem[w] \in Receipts
      BY <1>2
    <3> HIDE DEF p
    <3> QED BY <1>4, <2>1, <2>4, <3>1, <3>2, <3>3, RowTruelyRewritten
  <2>6. /\ r.rows[m] = status
        /\ \A n \in Messages \ {m} : r.rows[n] = mem[w].rows[n]
    BY <1>2, <1>4, <2>4, ReceiptFields
  <2>7. Ahead("finish", j, r)
    BY <1>5, <1>11, <2>6 DEF Ahead, ApplySteps
  <2>8. At("finish", p, m, disk[p], r, sent, done)
    BY <1>4, <1>6, <2>6 DEF At
  <2>9. WorkerSound("finish", j, r, disk, sent, done)
    BY <1>5, <1>9, <1>10, <2>4, <2>5, <2>6, <2>7, <2>8 DEF WorkerSound
  <2>10. "finish" \in Steps \ {"idle"}
    BY DEF Steps
  <2> QED BY <1>1, <1>2, <1>5, <2>3, <2>4, <2>9, <2>10, GoesOn
<1>13. ASSUME Persist(w, Row(mem[w], m, "intent"), "dispatch", j,
                  [Row(Row(mem[w], m, "intent"), m, "uncertain")
                       EXCEPT !.writes = @ + 1])
       PROVE  ArchiveInv'
  <2> DEFINE q == Row(mem[w], m, "intent")
             row == Row(q, m, "uncertain")
             r == [row EXCEPT !.writes = row.writes + 1]
             files == [disk EXCEPT ![p] = q]
  <2>1. "intent" \in RowStatuses /\ "uncertain" \in RowStatuses
    BY DEF RowStatuses
  <2>2. /\ q \in Receipts /\ q.rows = [mem[w].rows EXCEPT ![m] = "intent"]
        /\ q.writes = mem[w].writes /\ q.undone = mem[w].undone
        /\ q.approval = mem[w].approval /\ q.status = mem[w].status
    BY <1>2, <1>4, <2>1, RowRewritten
  <2>3. Persist(w, q, "dispatch", j, r)
    BY <1>13
  <2> HIDE DEF q
  <2>4. /\ row \in Receipts /\ row.rows = [q.rows EXCEPT ![m] = "uncertain"]
        /\ row.writes = mem[w].writes /\ row.undone = mem[w].undone
        /\ row.approval = mem[w].approval /\ row.status = mem[w].status
    BY <1>4, <2>1, <2>2, RowRewritten
  <2>5. mem[w].writes \in Nat /\ mem[w].writes + 1 \in Nat
    BY <1>2, ReceiptFields
  <2> HIDE DEF row
  <2>6. /\ r \in Receipts /\ r.rows = row.rows
        /\ r.writes = mem[w].writes + 1 /\ r.undone = mem[w].undone
        /\ r.approval = mem[w].approval /\ r.status = mem[w].status
    BY <2>4, <2>5, WritesSet
  <2> HIDE DEF r
  <2>7. /\ q.rows[m] = "intent"
        /\ \A n \in Messages \ {m} : q.rows[n] = mem[w].rows[n]
    BY <1>2, <1>4, <2>2, ReceiptFields
  <2>8. /\ r.rows[m] = "uncertain"
        /\ \A n \in Messages \ {m} : r.rows[n] = mem[w].rows[n]
    BY <1>4, <2>2, <2>4, <2>6, <2>7, ReceiptFields
  <2>9. r.rows = [mem[w].rows EXCEPT ![m] = "uncertain"]
    BY <1>2, <1>4, <2>2, <2>4, <2>6, ReceiptFields
  <2>10. ReceiptTrue(p, q, sent, done)
    <3>1. RowTrue(<<p, m>>, "intent", sent, done)
      BY <1>7
    <3>2. \A kind \in Kinds : \/ "intent" = Intent(kind)
                              \/ mem[w].rows[m] # Intent(kind)
                              \/ ~(sent[<<<<p, m>>, kind>>] > 0)
      BY <1>8
    <3>3. ReceiptTrue(p, mem[w], sent, done) /\ p \in Plans /\ mem[w] \in Receipts
      BY <1>2
    <3>4. q.status # "none"
      BY <1>9, <2>2
    <3> HIDE DEF p
    <3> QED BY <1>4, <2>1, <2>2, <3>1, <3>2, <3>3, <3>4, RowTruelyRewritten
  <2>11. RowsSound(p, r, sent, done)
    BY <1>2, <1>4, <1>7, <2>1, <2>6, <2>9, RowMayChange DEF ReceiptTrue
  <2>12. ASSUME NEW kind \in Kinds
         PROVE  Cardinality(Settled(p, r, kind, sent)) <= Count(mem[w], kind)
    <3>1. Settled(p, r, kind, sent) \subseteq Settled(p, mem[w], kind, sent)
      <4>1. mem[w].rows[m] # Intent(kind)
        BY <1>8
      <4>2. p \in Plans /\ mem[w] \in Receipts /\ r \in Receipts
        BY <1>2, <2>6
      <4> HIDE DEF p
      <4> QED BY <1>4, <2>1, <2>9, <4>1, <4>2, SettledKept
    <3>2. /\ Count(mem[w], kind) \in Nat
          /\ Cardinality(Settled(p, mem[w], kind, sent)) <= Count(mem[w], kind)
      BY <1>2, ReceiptFields DEF ReceiptTrue, Covers, Count
    <3> QED BY <1>2, <3>1, <3>2, NoMoreSettled
  <2>13. Covers(p, r, sent)
    <3>1. ASSUME NEW kind \in Kinds
          PROVE  Cardinality(Settled(p, r, kind, sent)) <= Count(r, kind)
      <4>1. Count(mem[w], kind) \in Nat /\ Count(r, kind) \in Nat
            /\ Count(mem[w], kind) <= Count(r, kind)
        BY <1>2, <2>5, <2>6, ReceiptFields DEF Count
      <4>2. Cardinality(Settled(p, r, kind, sent)) \in Nat
        BY <1>2, SettledFinite
      <4> QED BY <2>12, <4>1, <4>2
    <3> QED BY <3>1 DEF Covers
  <2>14. Reserved(p, r, "archive", m, sent)
    <3>1. Cardinality(Settled(p, r, "archive", sent)) <= mem[w].writes
      BY <2>12 DEF Kinds, Count
    <3>2. Cardinality(Settled(p, r, "archive", sent) \cup {m}) <=
              mem[w].writes + 1
      BY <1>2, <2>5, <3>1, RoomForOne
    <3> QED BY <2>6, <3>2 DEF Reserved, Count
  <2>15. ReceiptTrue(p, r, sent, done)
    BY <1>9, <2>6, <2>11, <2>13 DEF ReceiptTrue, Begun
  <2>16. files[p] = q /\ files[p].rows[m] = "intent"
    BY <1>2, <2>7
  <2>17. CanaryHolds(p, r.approval, files)
    BY <1>2, <1>9, <2>2, <2>6, CanaryKept
  <2> HIDE DEF files
  <2>18. Ahead("dispatch", j, r)
    BY <1>5, <1>11, <2>8 DEF Ahead, ApplySteps
  <2>19. At("dispatch", p, m, files[p], r, sent, done)
    BY <1>4, <1>7, <2>8, <2>14, <2>16 DEF At
  <2>20. WorkerSound("dispatch", j, r, files, sent, done)
    BY <1>5, <1>9, <2>6, <2>7, <2>8, <2>15, <2>16, <2>17, <2>18, <2>19
       DEF WorkerSound
  <2>21. "dispatch" \in Steps \ {"idle"}
    BY DEF Steps
  <2> QED BY <1>1, <1>2, <1>5, <2>2, <2>3, <2>6, <2>10, <2>20, <2>21, Persists
          DEF files
<1> QED BY <1>3, <1>12, <1>13 DEF j

(* Only the run's status changes.                                          *)
LEMMA StatusSound ==
    ASSUME ArchiveInv, NEW w \in Workers, pc[w] = "loop",
           NEW status \in {"run_ceiling", "verified"},
           Go(w, "finish", job[w], [mem[w] EXCEPT !.status = status]),
           UNCHANGED <<serverVars, planned>>
    PROVE  ArchiveInv'
<1> DEFINE r == [mem[w] EXCEPT !.status = status]
<1>1. /\ job[w].plan \in Plans /\ job[w] \in Jobs /\ mem[w] \in Receipts
      /\ WorkerSound("loop", job[w], mem[w], disk, sent, done)
  BY HolderFacts
<1>2. status \in ReceiptStatuses
  BY DEF ReceiptStatuses, RowStatuses
<1>3. /\ r \in Receipts /\ r.rows = mem[w].rows /\ r.writes = mem[w].writes
      /\ r.undone = mem[w].undone /\ r.status # "none"
      /\ r.approval = mem[w].approval
  BY <1>1, <1>2, StatusSet
<1>4. Go(w, "finish", job[w], r) /\ "finish" \in Steps \ {"idle"}
  BY DEF Steps
<1> HIDE DEF r
<1>5. ReceiptTrue(job[w].plan, r, sent, done)
  BY <1>1, <1>3, SameRows DEF WorkerSound
<1>6. WorkerSound("finish", job[w], r, disk, sent, done)
  BY <1>1, <1>3, <1>5 DEF WorkerSound, Ahead, At, ApplySteps
<1> QED BY <1>1, <1>3, <1>4, <1>6, GoesOn

LEMMA LoopEndSound ==
    ASSUME ArchiveInv, NEW w \in Workers, Ceiling(w) \/ AllVerified(w)
    PROVE  ArchiveInv'
BY StatusSound DEF Ceiling, AllVerified

(* A move is handed to the server for the first time.                       *)
LEMMA MoveOf ==
    ASSUME NEW p \in Plans, NEW m \in PlanRows[p], NEW kind \in Kinds
    PROVE  <<<<p, m>>, kind>> \in Moves /\ <<p, m>> \in Rows
BY DEF Moves, Rows

(* A move that is handed to the server may be served at once or later. *)
LEMMA IssueServes ==
    ASSUME ArchiveInv, NEW w \in Workers, NEW kind \in Kinds,
           Plan(w) \in Plans, Cur(w) \in PlanRows[Plan(w)], Issue(w, kind),
           sent[<<<<Plan(w), Cur(w)>>, kind>>] = 0,
           kind = "restore" => <<<<Plan(w), Cur(w)>>, "archive">> \in done
    PROVE  /\ requests' \subseteq Moves /\ sent' \in [Moves -> Nat]
           /\ done' = done /\ done' \subseteq Moves /\ ServerInv'
           /\ sent' = [sent EXCEPT ![<<<<Plan(w), Cur(w)>>, kind>>] = 1]
           /\ UNCHANGED <<box, acts, planned>>
<1> DEFINE r == <<Plan(w), Cur(w)>>
           x == <<r, kind>>
<1>1. x \in Moves /\ r \in Rows
  BY MoveOf
<1>2. /\ requests' = requests \cup {x} /\ done' = done
      /\ sent' = [sent EXCEPT ![x] = sent[x] + 1]
      /\ UNCHANGED <<box, acts, planned>>
  BY DEF Issue
<1>3. sent[x] = 0 /\ (kind = "restore" => <<r, "archive">> \in done)
  OBVIOUS
<1>4. /\ sent \in [Moves -> Nat] /\ requests \subseteq Moves
      /\ done \subseteq Moves /\ ServerInv
  BY DEF ArchiveInv, TypeOK
<1> HIDE DEF x
<1>5. sent' = [sent EXCEPT ![x] = 1]
  BY <1>2, <1>3
<1>6. \A y \in Moves : sent'[y] = IF y = x THEN 1 ELSE sent[y]
  BY <1>1, <1>4, <1>5
<1>7. x \notin done
  BY <1>3, <1>4 DEF ServerInv
<1>8. \A y \in Rows : sent'[<<y, "restore">>] = 1 => <<y, "archive">> \in done
  <2> SUFFICES ASSUME NEW y \in Rows, sent'[<<y, "restore">>] = 1
               PROVE  <<y, "archive">> \in done
    OBVIOUS
  <2>1. CASE <<y, "restore">> = x
    BY <2>1, <1>3 DEF x
  <2>2. CASE <<y, "restore">> # x
    <3>1. <<y, "restore">> \in Moves
      BY DEF Moves, Kinds
    <3>2. sent[<<y, "restore">>] = 1
      BY <2>2, <3>1, <1>6
    <3> QED BY <3>2, <1>4 DEF ServerInv
  <2> QED BY <2>1, <2>2
<1>9. ServerInv'
  <2>1. \A y \in Moves : sent'[y] <= 1
    BY <1>4, <1>6 DEF ServerInv
  <2>2. \A y \in requests' : sent'[y] = 1 /\ y \notin done'
    BY <1>1, <1>2, <1>4, <1>6, <1>7 DEF ServerInv
  <2>3. \A y \in done' : sent'[y] = 1
    BY <1>2, <1>4, <1>6, <1>7 DEF ServerInv
  <2> QED BY <1>2, <1>8, <2>1, <2>2, <2>3 DEF ServerInv
<1>10. requests' \subseteq Moves /\ sent' \in [Moves -> Nat]
  BY <1>1, <1>2, <1>4, <1>5
<1> QED BY <1>2, <1>4, <1>5, <1>9, <1>10 DEF x

(* Receipts stay true when the row was claimed first and counted, or still  *)
(* stands at its intent.                                                   *)
LEMMA IssueKeeps ==
    ASSUME NEW p \in Plans, NEW m \in PlanRows[p], NEW kind \in Kinds,
           NEW s \in [Moves -> Nat], NEW d, NEW q \in Plans,
           NEW r \in Receipts, ReceiptTrue(q, r, s, d),
           q = p => /\ r.rows[m] = Intent(kind) \/
                           (kind = "archive" /\ r.rows[m] = "uncertain")
                    /\ r.rows[m] = Intent(kind) \/ Reserved(p, r, kind, m, s)
    PROVE  ReceiptTrue(q, r, [s EXCEPT ![<<<<p, m>>, kind>>] = 1], d)
<1> DEFINE x == <<<<p, m>>, kind>>
           t == [s EXCEPT ![x] = 1]
<1>1. \A n \in PlanRows[q], k \in Kinds :
          t[<<<<q, n>>, k>>] = IF q = p /\ n = m /\ k = kind THEN 1
                               ELSE s[<<<<q, n>>, k>>]
  BY MoveOf
<1> HIDE DEF t
<1>2. ASSUME NEW n \in PlanRows[q]
      PROVE  RowTrue(<<q, n>>, r.rows[n], t, d)
  <2>1. RowTrue(<<q, n>>, r.rows[n], s, d)
    BY DEF ReceiptTrue, RowsSound
  <2>2. /\ t[<<<<q, n>>, "archive">>] =
               IF q = p /\ n = m /\ "archive" = kind THEN 1
               ELSE s[<<<<q, n>>, "archive">>]
        /\ t[<<<<q, n>>, "restore">>] =
               IF q = p /\ n = m /\ "restore" = kind THEN 1
               ELSE s[<<<<q, n>>, "restore">>]
    BY <1>1 DEF Kinds
  <2>3. CASE q = p /\ n = m /\ kind = "archive"
    <3>1. r.rows[n] \in {"intent", "uncertain"}
      BY <2>3 DEF Intent
    <3> QED BY <2>1, <2>2, <2>3, <3>1 DEF RowTrue
  <2>4. CASE q = p /\ n = m /\ kind = "restore"
    <3>1. r.rows[n] = "rollback_intent"
      BY <2>4 DEF Intent
    <3> QED BY <2>1, <2>2, <2>4, <3>1 DEF RowTrue
  <2>5. CASE ~(q = p /\ n = m)
    BY <2>1, <2>2, <2>5 DEF RowTrue
  <2> QED BY <2>3, <2>4, <2>5 DEF Kinds
<1>3. ASSUME NEW k \in Kinds
      PROVE  Cardinality(Settled(q, r, k, t)) <= Count(r, k)
  <2>1. Count(r, k) \in Nat /\ Cardinality(Settled(q, r, k, s)) <= Count(r, k)
    BY ReceiptFields DEF ReceiptTrue, Covers, Count
  <2>2. CASE q = p /\ k = kind /\ r.rows[m] # Intent(kind)
    <3>1. Settled(q, r, k, t) \subseteq Settled(q, r, k, s) \cup {m}
      BY <1>1, <2>2 DEF Settled, Given
    <3>2. Cardinality(Settled(q, r, k, s) \cup {m}) <= Count(r, k)
      BY <2>2 DEF Reserved
    <3> QED BY <2>1, <3>1, <3>2, FewerSettled
  <2>3. CASE ~(q = p /\ k = kind /\ r.rows[m] # Intent(kind))
    <3>1. Settled(q, r, k, t) \subseteq Settled(q, r, k, s)
      BY <1>1, <2>3 DEF Settled, Given
    <3> QED BY <2>1, <3>1, NoMoreSettled
  <2> QED BY <2>2, <2>3
<1>4. RowsSound(q, r, t, d) /\ Covers(q, r, t) /\ Begun(r)
  BY <1>2, <1>3 DEF ReceiptTrue, RowsSound, Covers
<1> QED BY <1>4 DEF ReceiptTrue, t

(* A true receipt and the memory of its worker while no row is rewritten.   *)
LEMMA SameMemory ==
    ASSUME ArchiveInv, NEW w \in Workers, pc[w] # "idle",
           NEW step \in Steps \ {"idle"}, NEW j \in Jobs,
           Go(w, step, j, mem[w]), UNCHANGED <<serverVars, planned>>,
           j.plan = job[w].plan, j.cur = job[w].cur, j.todo = job[w].todo,
           step \in ApplySteps <=> pc[w] \in ApplySteps,
           At(step, Plan(w), Cur(w), disk[Plan(w)], mem[w], sent, done)
    PROVE  ArchiveInv'
<1>1. /\ mem[w] \in Receipts /\ Plan(w) = job[w].plan /\ Cur(w) = job[w].cur
      /\ WorkerSound(pc[w], job[w], mem[w], disk, sent, done)
  BY HolderFacts
<1>2. WorkerSound(step, j, mem[w], disk, sent, done)
  BY <1>1 DEF WorkerSound, Ahead
<1> QED BY <1>1, <1>2, GoesOn

(* Only the row the worker is at is rewritten in its memory.                *)
LEMMA OwnRow ==
    ASSUME ArchiveInv, NEW w \in Workers, pc[w] # "idle",
           NEW step \in Steps \ {"idle"}, NEW j \in Jobs, NEW q \in Receipts,
           NEW status, Go(w, step, j, q), UNCHANGED <<serverVars, planned>>,
           j.plan = job[w].plan, j.cur = job[w].cur, j.todo = job[w].todo,
           Cur(w) \in PlanRows[Plan(w)],
           step \in ApplySteps <=> pc[w] \in ApplySteps,
           q.rows = [mem[w].rows EXCEPT ![Cur(w)] = status],
           q.status = mem[w].status, q.approval = mem[w].approval,
           ReceiptTrue(Plan(w), q, sent, done),
           At(step, Plan(w), Cur(w), disk[Plan(w)], q, sent, done)
    PROVE  ArchiveInv'
<1>1. /\ mem[w] \in Receipts /\ Plan(w) = job[w].plan /\ Cur(w) = job[w].cur
      /\ WorkerSound(pc[w], job[w], mem[w], disk, sent, done)
      /\ Plan(w) \in Plans /\ job[w] \in Jobs
  BY HolderFacts
<1>2. \A n \in Messages : n # Cur(w) => q.rows[n] = mem[w].rows[n]
  BY <1>1, ReceiptFields
<1>3. \A n \in job[w].todo : n \in Messages /\ n # Cur(w)
  BY <1>1, PlanRowsFinite DEF WorkerSound, Ahead
<1>4. Ahead(step, j, q)
  BY <1>1, <1>2, <1>3 DEF WorkerSound, Ahead
<1>5. WorkerSound(step, j, q, disk, sent, done)
  BY <1>1, <1>2, <1>4 DEF WorkerSound
<1> QED BY <1>1, <1>5, GoesOn

(* The worker is at a row of its plan that is claimed in the file.          *)
LEMMA ClaimedFacts ==
    ASSUME ArchiveInv, NEW w \in Workers,
           pc[w] \in {"dispatch", "wait", "observe", "outcome"}
    PROVE  /\ Cur(w) \in PlanRows[Plan(w)] /\ Cur(w) \in Messages
           /\ disk[Plan(w)].rows[Cur(w)] = "intent"
           /\ mem[w].rows[Cur(w)] \in {"uncertain", "verified", "unchanged",
                                       "conflicted"}
           /\ ~(sent[<<<<Plan(w), Cur(w)>>, "restore">>] > 0)
           /\ \A status \in {"uncertain", "unchanged", "conflicted"} :
                  RowTrue(<<Plan(w), Cur(w)>>, status, sent, done)
<1>1. pc[w] # "idle"
  OBVIOUS
<1>2. /\ Plan(w) \in Plans /\ Plan(w) = job[w].plan /\ Cur(w) = job[w].cur
      /\ ReceiptTrue(Plan(w), mem[w], sent, done)
      /\ WorkerSound(pc[w], job[w], mem[w], disk, sent, done)
  BY <1>1, HolderFacts
<1>3. /\ Cur(w) \in PlanRows[Plan(w)]
      /\ disk[Plan(w)].rows[Cur(w)] = "intent"
      /\ mem[w].rows[Cur(w)] \in {"uncertain", "verified", "unchanged",
                                  "conflicted"}
  BY <1>2 DEF WorkerSound, At
<1>4. RowTrue(<<Plan(w), Cur(w)>>, mem[w].rows[Cur(w)], sent, done)
  BY <1>2, <1>3 DEF ReceiptTrue, RowsSound
<1>5. ~(sent[<<<<Plan(w), Cur(w)>>, "restore">>] > 0)
  BY <1>3, <1>4 DEF RowTrue
<1> QED BY <1>2, <1>3, <1>5, PlanRowsFinite DEF RowTrue

LEMMA DispatchSound ==
    ASSUME ArchiveInv, NEW w \in Workers, Dispatch(w)
    PROVE  ArchiveInv'
<1> DEFINE p == Plan(w)
           m == Cur(w)
<1>1. pc[w] = "dispatch" /\ pc[w] # "idle"
  BY DEF Dispatch
<1>2. /\ p \in Plans /\ p = job[w].plan /\ m = job[w].cur /\ job[w] \in Jobs
      /\ mem[w] \in Receipts /\ disk[p] \in Receipts
      /\ ReceiptTrue(p, mem[w], sent, done)
      /\ WorkerSound("dispatch", job[w], mem[w], disk, sent, done)
  BY <1>1, HolderFacts
<1>3. /\ m \in PlanRows[p] /\ m \in Messages /\ disk[p].rows[m] = "intent"
      /\ \A status \in {"uncertain", "unchanged", "conflicted"} :
             RowTrue(<<p, m>>, status, sent, done)
  BY <1>1, ClaimedFacts
<1>4. /\ mem[w].rows[m] = "uncertain" /\ sent[<<<<p, m>>, "archive">>] = 0
      /\ Reserved(p, mem[w], "archive", m, sent)
  BY <1>2 DEF WorkerSound, At
<1>5. {"wait", "outcome"} \subseteq Steps \ {"idle"}
  BY DEF Steps
<1>6. ASSUME Issue(w, "archive"), Go(w, "wait", job[w], mem[w])
      PROVE  ArchiveInv'
  <2>1. /\ requests' \subseteq Moves /\ sent' \in [Moves -> Nat]
        /\ done' = done /\ done' \subseteq Moves /\ ServerInv'
        /\ sent' = [sent EXCEPT ![<<<<p, m>>, "archive">>] = 1]
        /\ UNCHANGED <<box, acts, planned>>
    BY <1>2, <1>3, <1>4, <1>6, IssueServes DEF Kinds
  <2>2. /\ disk' = disk /\ disk \in [Plans -> Receipts]
        /\ sent \in [Moves -> Nat] /\ "archive" \in Kinds
    BY <1>6 DEF Go, ArchiveInv, TypeOK, Kinds
  <2>3. ASSUME NEW q \in Plans PROVE ReceiptTrue(q, disk'[q], sent', done')
    <3>1. ReceiptTrue(q, disk[q], sent, done) /\ disk[q] \in Receipts
      BY <2>2 DEF ArchiveInv
    <3>2. q = p => disk[q].rows[m] = Intent("archive")
      BY <1>3 DEF Intent
    <3> QED BY <1>2, <1>3, <2>1, <2>2, <3>1, <3>2, IssueKeeps
  <2>4. ReceiptTrue(p, mem[w], sent', done')
    BY <1>2, <1>3, <1>4, <2>1, <2>2, IssueKeeps
  <2>5. At("wait", p, m, disk[p], mem[w], sent', done')
    BY <1>3, <1>4 DEF At
  <2>6. WorkerSound("wait", job[w], mem[w], disk', sent', done')
    BY <1>2, <2>2, <2>4, <2>5 DEF WorkerSound, Ahead, ApplySteps
  <2>7. /\ pc' = [pc EXCEPT ![w] = "wait"] /\ job' = [job EXCEPT ![w] = job[w]]
        /\ mem' = [mem EXCEPT ![w] = mem[w]] /\ UNCHANGED lock
    BY <1>6 DEF Go
  <2> QED BY <1>1, <1>2, <1>5, <2>1, <2>2, <2>3, <2>6, <2>7, Goes
<1>7. ASSUME Go(w, "outcome", job[w],
                [Row(mem[w], m, "conflicted") EXCEPT !.writes = @ - 1]),
             UNCHANGED <<serverVars, planned>>
      PROVE  ArchiveInv'
  <2> DEFINE row == Row(mem[w], m, "conflicted")
             r == [row EXCEPT !.writes = row.writes - 1]
  <2>1. "conflicted" \in RowStatuses
    BY DEF RowStatuses
  <2>2. /\ row \in Receipts /\ row.rows = [mem[w].rows EXCEPT ![m] = "conflicted"]
        /\ row.writes = mem[w].writes /\ row.undone = mem[w].undone
        /\ row.approval = mem[w].approval /\ row.status = mem[w].status
    BY <1>2, <1>3, <2>1, RowRewritten
  <2>3. Go(w, "outcome", job[w], r)
    BY <1>7
  <2> HIDE DEF row
  <2>4. mem[w].writes \in Nat
    BY <1>2, ReceiptFields
  <2>5. /\ mem[w].writes - 1 \in Nat
        /\ Cardinality(Settled(p, mem[w], "archive", sent)) <= mem[w].writes - 1
    <3>1. Cardinality(Settled(p, mem[w], "archive", sent) \cup {m}) <=
              mem[w].writes
      BY <1>4 DEF Reserved, Count
    <3>2. ~(sent[<<<<p, m>>, "archive">>] > 0)
      BY <1>4
    <3> HIDE DEF p, m
    <3> QED BY <1>2, <1>3, <2>4, <3>1, <3>2, RoomGivenUp
  <2>6. /\ r \in Receipts /\ r.rows = [mem[w].rows EXCEPT ![m] = "conflicted"]
        /\ r.writes = mem[w].writes - 1 /\ r.undone = mem[w].undone
        /\ r.status = mem[w].status /\ r.approval = mem[w].approval
    BY <2>2, <2>5, WritesSet
  <2> HIDE DEF r
  <2>7. RowsSound(p, r, sent, done)
    <3>1. RowTrue(<<p, m>>, "conflicted", sent, done)
      BY <1>3
    <3> QED BY <1>2, <1>3, <2>1, <2>6, <3>1, RowMayChange DEF ReceiptTrue
  <2>8. ASSUME NEW kind \in Kinds
        PROVE  Cardinality(Settled(p, r, kind, sent)) <= Count(r, kind)
    <3>1. mem[w].rows[m] # Intent(kind)
      BY <1>4, NotAnIntent
    <3>2. Settled(p, r, kind, sent) \subseteq Settled(p, mem[w], kind, sent)
      <4> HIDE DEF p, m
      <4> QED BY <1>2, <1>3, <2>1, <2>6, <3>1, SettledKept
    <3>3. Cardinality(Settled(p, mem[w], kind, sent)) <= Count(r, kind)
      BY <1>2, <2>5, <2>6 DEF ReceiptTrue, Covers, Count, Kinds
    <3>4. Count(r, kind) \in Nat
      BY <2>6, ReceiptFields DEF Count
    <3> QED BY <1>2, <3>2, <3>3, <3>4, NoMoreSettled
  <2>9. mem[w].status # "none"
    BY <1>2 DEF WorkerSound
  <2>10. ReceiptTrue(p, r, sent, done)
    BY <2>6, <2>7, <2>8, <2>9 DEF ReceiptTrue, Covers, Begun
  <2>11. r.rows[m] = "conflicted"
    BY <1>2, <1>3, <2>6, ReceiptFields
  <2>12. At("outcome", p, m, disk[p], r, sent, done)
    BY <1>3, <2>11 DEF At
  <2>13. "outcome" \in ApplySteps /\ pc[w] \in ApplySteps
    BY <1>1 DEF ApplySteps
  <2> QED BY <1>1, <1>2, <1>3, <1>5, <1>7, <2>3, <2>6, <2>10, <2>12, <2>13, OwnRow
<1>8. ASSUME Go(w, "outcome", job[w], mem[w]), UNCHANGED <<serverVars, planned>>
      PROVE  ArchiveInv'
  <2>1. At("outcome", p, m, disk[p], mem[w], sent, done)
    BY <1>3, <1>4 DEF At
  <2> QED BY <1>1, <1>2, <1>5, <1>8, <2>1, SameMemory DEF ApplySteps
<1> QED BY <1>6, <1>7, <1>8 DEF Dispatch

LEMMA AwaitSound ==
    ASSUME ArchiveInv, NEW w \in Workers, Await(w)
    PROVE  ArchiveInv'
<1>1. /\ pc[w] = "wait" /\ pc[w] # "idle" /\ UNCHANGED <<serverVars, planned>>
      /\ \/ Answered(w, "archive") /\ Go(w, "observe", job[w], mem[w])
         \/ Go(w, "outcome", job[w], mem[w])
  BY DEF Await
<1>2. /\ Cur(w) \in PlanRows[Plan(w)]
      /\ disk[Plan(w)].rows[Cur(w)] = "intent"
  BY <1>1, ClaimedFacts
<1>3. /\ mem[w].rows[Cur(w)] = "uncertain" /\ job[w] \in Jobs
      /\ {"observe", "outcome"} \subseteq Steps \ {"idle"}
  BY <1>1, HolderFacts DEF WorkerSound, At, Steps
<1>4. At("outcome", Plan(w), Cur(w), disk[Plan(w)], mem[w], sent, done)
  BY <1>2, <1>3 DEF At
<1>5. Answered(w, "archive") =>
          At("observe", Plan(w), Cur(w), disk[Plan(w)], mem[w], sent, done)
  BY <1>2, <1>3 DEF At, Answered
<1> QED BY <1>1, <1>3, <1>4, <1>5, SameMemory DEF ApplySteps

(* What an observation is taken for. *)
LEMMA VerdictTyped ==
    ASSUME NEW o \in Observations
    PROVE  Verdict(o) \in {"verified", "unchanged", "uncertain", "conflicted"}
<1>1. o.hold \in BOOLEAN /\ o.place \in {"inbox", "archive", "trash"}
  BY DEF Observations, Places
<1>2. CASE o.hold
  BY <1>2 DEF Verdict
<1>3. CASE ~o.hold /\ o.place = "archive"
  BY <1>3 DEF Verdict
<1>4. CASE ~o.hold /\ o.place # "archive" /\ Provider # "gmail"
  BY <1>4 DEF Verdict
<1>5. CASE ~o.hold /\ o.place = "inbox" /\ Provider = "gmail"
  BY <1>5 DEF Verdict
<1>6. CASE ~o.hold /\ o.place = "trash" /\ Provider = "gmail"
  BY <1>6 DEF Verdict
<1> QED BY <1>1, <1>2, <1>3, <1>4, <1>5, <1>6

(* A receipt with a message's observation filed.                            *)
LEMMA AfterSet ==
    ASSUME NEW r \in Receipts, NEW m \in Messages, NEW o \in Observations
    PROVE  /\ [r EXCEPT !.after[m] = o] \in Receipts
           /\ [r EXCEPT !.after[m] = o].status = r.status
           /\ [r EXCEPT !.after[m] = o].rows = r.rows
           /\ [r EXCEPT !.after[m] = o].approval = r.approval
           /\ [r EXCEPT !.after[m] = o].writes = r.writes
           /\ [r EXCEPT !.after[m] = o].undone = r.undone
BY DEF Receipts

LEMMA ObserveSound ==
    ASSUME ArchiveInv, NEW w \in Workers, Observe(w)
    PROVE  ArchiveInv'
<1> DEFINE p == Plan(w)
           m == Cur(w)
           v == Verdict(box[m])
<1>1. pc[w] = "observe" /\ pc[w] # "idle" /\ UNCHANGED <<serverVars, planned>>
  BY DEF Observe
<1>2. /\ p \in Plans /\ p = job[w].plan /\ m = job[w].cur /\ job[w] \in Jobs
      /\ mem[w] \in Receipts /\ ReceiptTrue(p, mem[w], sent, done)
      /\ WorkerSound("observe", job[w], mem[w], disk, sent, done)
  BY <1>1, HolderFacts
<1>3. /\ m \in PlanRows[p] /\ m \in Messages /\ disk[p].rows[m] = "intent"
      /\ ~(sent[<<<<p, m>>, "restore">>] > 0)
  BY <1>1, ClaimedFacts
<1>4. /\ mem[w].rows[m] \in {"uncertain", "verified", "unchanged"}
      /\ <<<<p, m>>, "archive">> \in done /\ mem[w].status # "none"
  BY <1>2 DEF WorkerSound, At
<1>5. {"observe", "outcome"} \subseteq Steps \ {"idle"}
  BY DEF Steps
<1>6. box[m] \in Observations
  BY <1>3 DEF ArchiveInv, TypeOK
<1>7. v \in {"verified", "unchanged", "uncertain", "conflicted"}
  BY <1>6, VerdictTyped
<1> HIDE DEF v
<1>8. ASSUME NEW status \in {"verified", "unchanged", "uncertain", "conflicted"},
             NEW r \in Receipts, NEW step \in {"observe", "outcome"},
             NEW j \in Jobs, Go(w, step, j, r),
             j.plan = job[w].plan, j.cur = job[w].cur, j.todo = job[w].todo,
             r.rows = [mem[w].rows EXCEPT ![m] = status],
             r.status = mem[w].status, r.approval = mem[w].approval,
             r.writes = mem[w].writes, r.undone = mem[w].undone,
             step = "observe" => status # "conflicted"
      PROVE  ArchiveInv'
  <2>1. status \in RowStatuses
    BY DEF RowStatuses
  <2>2. RowTrue(<<p, m>>, status, sent, done)
    BY <1>3, <1>4 DEF RowTrue
  <2>3. ReceiptTrue(p, r, sent, done)
    <3>1. \A kind \in Kinds : \/ status = Intent(kind)
                              \/ mem[w].rows[m] # Intent(kind)
                              \/ ~(sent[<<<<p, m>>, kind>>] > 0)
      BY <1>4, NotAnIntent
    <3> HIDE DEF p, m
    <3> QED BY <1>2, <1>3, <1>4, <1>8, <2>1, <2>2, <3>1, RowTruelyRewritten
  <2>4. r.rows[m] = status
    BY <1>2, <1>3, <1>8, ReceiptFields
  <2>5. At(step, p, m, disk[p], r, sent, done)
    BY <1>3, <1>4, <1>8, <2>4 DEF At
  <2>6. step \in ApplySteps /\ pc[w] \in ApplySteps
    BY <1>1 DEF ApplySteps
  <2> QED BY <1>1, <1>2, <1>3, <1>5, <1>8, <2>3, <2>5, <2>6, OwnRow
<1>9. ASSUME NEW n \in 0..2
      PROVE  LET j == [job[w] EXCEPT !.looks = n]
             IN  /\ j \in Jobs /\ j.plan = job[w].plan
                 /\ j.cur = job[w].cur /\ j.todo = job[w].todo
  BY <1>2 DEF Jobs
<1>10. job[w].looks \in 0..2
  BY <1>2 DEF Jobs
<1>11. ASSUME NEW status \in {"verified", "unchanged", "uncertain", "conflicted"}
       PROVE  LET row == Row(mem[w], m, status)
              IN  /\ row \in Receipts
                  /\ row.rows = [mem[w].rows EXCEPT ![m] = status]
                  /\ row.status = mem[w].status
                  /\ row.approval = mem[w].approval
                  /\ row.writes = mem[w].writes /\ row.undone = mem[w].undone
  <2>1. status \in RowStatuses
    BY DEF RowStatuses
  <2> QED BY <1>2, <1>3, <2>1, RowRewritten
<1>12. ASSUME Go(w, "outcome", [job[w] EXCEPT !.looks = 0],
                 Row(mem[w], m, "uncertain"))
       PROVE  ArchiveInv'
  <2> DEFINE j == [job[w] EXCEPT !.looks = 0]
             r == Row(mem[w], m, "uncertain")
  <2>1. 0 \in 0..2 /\ Go(w, "outcome", j, r)
    BY <1>12
  <2>2. /\ j \in Jobs /\ j.plan = job[w].plan
        /\ j.cur = job[w].cur /\ j.todo = job[w].todo
    BY <1>9, <2>1
  <2>3. /\ r \in Receipts /\ r.rows = [mem[w].rows EXCEPT ![m] = "uncertain"]
        /\ r.status = mem[w].status /\ r.approval = mem[w].approval
        /\ r.writes = mem[w].writes /\ r.undone = mem[w].undone
    BY <1>11
  <2> HIDE DEF j, r
  <2> QED BY <1>8, <2>1, <2>2, <2>3
<1>13. ASSUME NEW step \in {"observe", "outcome"}, NEW n \in 0..2,
              Go(w, step, [job[w] EXCEPT !.looks = n],
                 [Row(mem[w], m, v) EXCEPT !.after[m] = box[m]]),
              step = "observe" => v # "conflicted"
       PROVE  ArchiveInv'
  <2> DEFINE j == [job[w] EXCEPT !.looks = n]
             row == Row(mem[w], m, v)
             r == [row EXCEPT !.after[m] = box[m]]
  <2>1. Go(w, step, j, r)
    BY <1>13
  <2>2. /\ j \in Jobs /\ j.plan = job[w].plan
        /\ j.cur = job[w].cur /\ j.todo = job[w].todo
    BY <1>9
  <2>3. /\ row \in Receipts /\ row.rows = [mem[w].rows EXCEPT ![m] = v]
        /\ row.status = mem[w].status /\ row.approval = mem[w].approval
        /\ row.writes = mem[w].writes /\ row.undone = mem[w].undone
    BY <1>7, <1>11
  <2> HIDE DEF j, row
  <2>4. /\ r \in Receipts /\ r.rows = [mem[w].rows EXCEPT ![m] = v]
        /\ r.status = mem[w].status /\ r.approval = mem[w].approval
        /\ r.writes = mem[w].writes /\ r.undone = mem[w].undone
    BY <1>3, <1>6, <2>3, AfterSet
  <2> HIDE DEF r
  <2> QED BY <1>7, <1>8, <1>13, <2>1, <2>2, <2>4
<1> DEFINE seen == [Row(mem[w], m, v) EXCEPT !.after[m] = box[m]]
<1>14. \/ Go(w, "outcome", [job[w] EXCEPT !.looks = 0], seen)
       \/ /\ v # "conflicted" /\ job[w].looks # 2
          /\ Go(w, "observe", [job[w] EXCEPT !.looks = job[w].looks + 1], seen)
       \/ Go(w, "outcome", [job[w] EXCEPT !.looks = 0],
             Row(mem[w], m, "uncertain"))
  BY DEF Observe, v
<1>15. CASE Go(w, "outcome", [job[w] EXCEPT !.looks = 0], seen)
  <2>1. 0 \in 0..2
    OBVIOUS
  <2> QED BY <1>13, <1>15, <2>1
<1>16. CASE /\ v # "conflicted" /\ job[w].looks # 2
            /\ Go(w, "observe", [job[w] EXCEPT !.looks = job[w].looks + 1], seen)
  <2>1. job[w].looks + 1 \in 0..2
    BY <1>10, <1>16
  <2> QED BY <1>13, <1>16, <2>1
<1> QED BY <1>12, <1>14, <1>15, <1>16

(* What the worker knows is written out; it goes on only after a success.   *)
LEMMA OutcomeSound ==
    ASSUME ArchiveInv, NEW w \in Workers, Outcome(w)
    PROVE  ArchiveInv'
<1> DEFINE p == job[w].plan
           m == job[w].cur
           j == [job[w] EXCEPT !.cur = NoMessage]
           files == [disk EXCEPT ![p] = mem[w]]
           status == mem[w].rows[m]
<1>1. pc[w] = "outcome" /\ pc[w] # "idle" /\ UNCHANGED <<serverVars, planned>>
  BY DEF Outcome
<1>2. /\ p \in Plans /\ job[w] \in Jobs /\ Plan(w) = p /\ Cur(w) = m
      /\ mem[w] \in Receipts /\ ReceiptTrue(p, mem[w], sent, done)
      /\ WorkerSound("outcome", job[w], mem[w], disk, sent, done)
      /\ disk \in [Plans -> Receipts]
  BY <1>1, HolderFacts DEF ArchiveInv, TypeOK
<1>3. /\ j \in Jobs /\ j.plan = p /\ j.cur = NoMessage /\ j.todo = job[w].todo
  BY <1>2 DEF Jobs
<1>4. \A n \in job[w].todo : n \in Messages /\ n # NoMessage
  BY <1>2, ArchiveAssumption DEF Jobs
<1>5. files[p] = mem[w]
  BY <1>2
<1>6. CanaryHolds(p, mem[w].approval, files)
  BY <1>2, CanaryKept DEF WorkerSound, ApplySteps
<1>7. status \in {"uncertain", "verified", "unchanged", "conflicted"}
  BY <1>2 DEF WorkerSound, At
<1>8. {"loop", "finish"} \subseteq Steps \ {"idle"}
  BY DEF Steps
<1>9. \/ Persist(w, mem[w], "loop", j, mem[w])
      \/ Persist(w, mem[w], "finish", j, [mem[w] EXCEPT !.status = status])
  BY <1>2 DEF Outcome
<1> HIDE DEF j, files
<1>10. ASSUME NEW r \in Receipts, NEW step \in {"loop", "finish"},
              r.rows = mem[w].rows, r.approval = mem[w].approval,
              r.status # "none", ReceiptTrue(p, r, sent, done)
       PROVE  WorkerSound(step, j, r, files, sent, done)
  <2>1. Ahead(step, j, r)
    BY <1>2, <1>3, <1>4, <1>10 DEF WorkerSound, Ahead, ApplySteps
  <2>2. At(step, p, NoMessage, files[p], r, sent, done)
    BY DEF At
  <2> QED BY <1>3, <1>5, <1>6, <1>10, <2>1, <2>2 DEF WorkerSound
<1>11. CASE Persist(w, mem[w], "loop", j, mem[w])
  <2>1. mem[w].status # "none"
    BY <1>2 DEF WorkerSound
  <2>2. WorkerSound("loop", j, mem[w], files, sent, done)
    BY <1>2, <1>10, <2>1
  <2> QED BY <1>1, <1>2, <1>3, <1>8, <1>11, <2>2, Persists DEF files
<1>12. CASE Persist(w, mem[w], "finish", j, [mem[w] EXCEPT !.status = status])
  <2> DEFINE r == [mem[w] EXCEPT !.status = status]
  <2>1. status \in ReceiptStatuses /\ status # "none"
    BY <1>7 DEF ReceiptStatuses, RowStatuses
  <2> HIDE DEF status
  <2>2. /\ r \in Receipts /\ r.rows = mem[w].rows /\ r.status # "none"
        /\ r.approval = mem[w].approval /\ r.writes = mem[w].writes
        /\ r.undone = mem[w].undone
    BY <1>2, <2>1, StatusSet
  <2>3. Persist(w, mem[w], "finish", j, r)
    BY <1>12
  <2> HIDE DEF r
  <2>4. ReceiptTrue(p, r, sent, done)
    BY <1>2, <2>2, SameRows
  <2>5. WorkerSound("finish", j, r, files, sent, done)
    BY <1>10, <2>2, <2>4
  <2> QED BY <1>1, <1>2, <1>3, <1>8, <2>2, <2>3, <2>5, Persists DEF files
<1> QED BY <1>9, <1>11, <1>12

LEMMA FinishSound ==
    ASSUME ArchiveInv, NEW w \in Workers, Finish(w)
    PROVE  ArchiveInv'
<1>1. pc[w] # "idle" /\ UNCHANGED <<serverVars, planned>>
      /\ PersistAndReturn(w, mem[w])
  BY DEF Finish
<1>2. mem[w] \in Receipts /\ ReceiptTrue(job[w].plan, mem[w], sent, done)
  BY <1>1, HolderFacts
<1> QED BY <1>1, <1>2, Returns

-----------------------------------------------------------------------------
(* rollback.                                                               *)

LEMMA RollbackSound ==
    ASSUME ArchiveInv, NEW w \in Workers, NEW p \in Plans, Rollback(w, p)
    PROVE  ArchiveInv'
<1> DEFINE todo == {m \in Messages : disk[p].rows[m] = "verified"}
           j == [NoJob EXCEPT !.plan = p, !.todo = todo]
<1>1. /\ pc[w] = "idle" /\ lock = Nobody /\ disk[p].status # "none"
      /\ lock' = w /\ pc' = [pc EXCEPT ![w] = "undo_loop"]
      /\ job' = [job EXCEPT ![w] = j] /\ mem' = [mem EXCEPT ![w] = disk[p]]
      /\ UNCHANGED <<box, acts, planned, requests, sent, done, disk>>
  BY DEF Rollback, serverVars
<1>2. j \in Jobs /\ j.plan = p /\ j.todo = todo /\ j.cur = NoMessage
  <2>1. 0 \in 0..2 /\ todo \subseteq Messages
    OBVIOUS
  <2> HIDE DEF todo
  <2> QED BY <2>1 DEF NoJob, Jobs
<1> HIDE DEF j
<1>3. \A v \in Workers : pc[v] = "idle"
  BY <1>1, ArchiveAssumption DEF ArchiveInv, LockInv
<1>4. disk[p] \in Receipts /\ ReceiptTrue(p, disk[p], sent, done)
  BY DEF ArchiveInv, TypeOK
<1>5. /\ pc'[w] = "undo_loop" /\ job'[w] = j /\ mem'[w] = disk[p]
      /\ \A v \in Workers \ {w} : pc'[v] = "idle"
  BY <1>1, <1>3 DEF ArchiveInv, TypeOK
<1>6. TypeOK'
  <2>1. "undo_loop" \in Steps
    BY DEF Steps
  <2> QED BY <1>1, <1>2, <1>4, <2>1 DEF ArchiveInv, TypeOK
<1>7. ServerInv' /\ LockInv'
  BY <1>1, <1>2, <1>5 DEF ArchiveInv, ServerInv, LockInv
<1>8. Ahead("undo_loop", j, disk[p])
  BY <1>2, <1>4, ArchiveAssumption
     DEF Ahead, ApplySteps, ReceiptTrue, RowsSound
<1>9. At("undo_loop", p, NoMessage, disk[p], disk[p], sent, done)
  BY DEF At
<1>10. WorkerSound("undo_loop", j, disk[p], disk, sent, done)
  BY <1>1, <1>2, <1>4, <1>8, <1>9 DEF WorkerSound, ApplySteps
<1> QED BY <1>1, <1>5, <1>6, <1>7, <1>10 DEF ArchiveInv

(* Higher counts cover what lower ones cover.                               *)
LEMMA MoreCounted ==
    ASSUME NEW p \in Plans, NEW q \in Receipts, NEW r \in Receipts, NEW s, NEW d,
           ReceiptTrue(p, q, s, d), r.rows = q.rows, r.status = q.status,
           q.writes <= r.writes, q.undone <= r.undone
    PROVE  ReceiptTrue(p, r, s, d)
<1>1. \A kind : Settled(p, r, kind, s) = Settled(p, q, kind, s)
  BY DEF Settled
<1>2. ASSUME NEW kind \in Kinds
      PROVE  Cardinality(Settled(p, r, kind, s)) <= Count(r, kind)
  <2>1. /\ Count(q, kind) \in Nat /\ Count(r, kind) \in Nat
        /\ Count(q, kind) <= Count(r, kind)
    BY ReceiptFields DEF Count
  <2>2. Cardinality(Settled(p, q, kind, s)) <= Count(q, kind)
    BY DEF ReceiptTrue, Covers
  <2>3. Cardinality(Settled(p, q, kind, s)) \in Nat
    BY SettledFinite
  <2> QED BY <1>1, <2>1, <2>2, <2>3
<1> QED BY <1>2 DEF ReceiptTrue, RowsSound, Covers, Begun

(* A kept row may be refused or claimed for its undo.                       *)
LEMMA VerifiedRow ==
    ASSUME ArchiveInv, NEW p \in Plans, NEW m \in PlanRows[p], NEW r,
           RowsSound(p, r, sent, done), r.rows[m] = "verified"
    PROVE  /\ sent[<<<<p, m>>, "restore">>] = 0
           /\ <<<<p, m>>, "archive">> \in done
           /\ \A status \in {"rollback_conflicted", "rollback_intent"} :
                  RowTrue(<<p, m>>, status, sent, done)
<1>1. RowTrue(<<p, m>>, "verified", sent, done)
  BY DEF RowsSound
<1>2. sent[<<<<p, m>>, "restore">>] \in Nat
  BY MoveOf DEF Kinds, ArchiveInv, TypeOK
<1>3. /\ <<<<p, m>>, "archive">> \in done
      /\ ~(sent[<<<<p, m>>, "restore">>] > 0)
  BY <1>1 DEF RowTrue
<1>4. sent[<<<<p, m>>, "restore">>] = 0
  BY <1>2, <1>3
<1> QED BY <1>3, <1>4 DEF RowTrue

LEMMA UndoClaimSound ==
    ASSUME ArchiveInv, NEW w \in Workers, UndoClaim(w)
    PROVE  ArchiveInv'
<1> DEFINE p == job[w].plan
<1>1. pc[w] = "undo_loop" /\ pc[w] # "idle" /\ UNCHANGED <<serverVars, planned>>
  BY DEF UndoClaim
<1>2. /\ Plan(w) = p /\ p \in Plans /\ job[w] \in Jobs /\ mem[w] \in Receipts
      /\ disk \in [Plans -> Receipts]
      /\ ReceiptTrue(p, mem[w], sent, done)
      /\ WorkerSound("undo_loop", job[w], mem[w], disk, sent, done)
  BY <1>1, HolderFacts DEF ArchiveInv, TypeOK
<1>3. PICK m \in job[w].todo :
         LET j == [job[w] EXCEPT !.cur = m, !.todo = @ \ {m}]
             no == Row(mem[w], m, "rollback_conflicted")
             yes == Row(mem[w], m, "rollback_intent")
         IN  \/ Abort(w)
             \/ Persist(w, no, "undo_loop", [j EXCEPT !.cur = NoMessage], no)
             \/ Persist(w, yes, "undo_dispatch", j,
                     [yes EXCEPT !.undone = @ + 1])
  BY DEF UndoClaim
<1> DEFINE j == [job[w] EXCEPT !.cur = m, !.todo = @ \ {m}]
           k == [j EXCEPT !.cur = NoMessage]
<1>4. m \in PlanRows[p] /\ mem[w].rows[m] = "verified" /\ m \in Messages
  BY <1>2, PlanRowsFinite DEF WorkerSound, Ahead, ApplySteps
<1>5. /\ j \in Jobs /\ j.plan = p /\ j.cur = m /\ j.todo = job[w].todo \ {m}
  BY <1>2, <1>4 DEF Jobs
<1> HIDE DEF j
<1>6. k \in Jobs /\ k.plan = p /\ k.cur = NoMessage /\ k.todo = j.todo
  BY <1>5 DEF Jobs
<1> HIDE DEF k
<1>7. /\ sent[<<<<p, m>>, "restore">>] = 0 /\ <<<<p, m>>, "archive">> \in done
      /\ RowTrue(<<p, m>>, "rollback_conflicted", sent, done)
      /\ RowTrue(<<p, m>>, "rollback_intent", sent, done)
  BY <1>2, <1>4, VerifiedRow DEF ReceiptTrue
<1>8. mem[w].status # "none"
  BY <1>2 DEF WorkerSound
<1>9. \A n \in Messages : mem[w].rows[n] = disk[p].rows[n]
  BY <1>2, ArchiveAssumption DEF WorkerSound, At
<1>10. \A n \in job[w].todo :
          n \in PlanRows[p] /\ n \in Messages /\ mem[w].rows[n] = "verified"
  BY <1>2, PlanRowsFinite DEF WorkerSound, Ahead, ApplySteps
<1>11. {"undo_loop", "undo_dispatch"} \subseteq Steps \ {"idle"}
  BY DEF Steps
<1>12. ASSUME NEW status \in {"rollback_conflicted", "rollback_intent"}
       PROVE  LET q == Row(mem[w], m, status)
              IN  /\ q \in Receipts /\ q.status = mem[w].status
                  /\ q.writes = mem[w].writes /\ q.undone = mem[w].undone
                  /\ q.rows[m] = status
                  /\ \A n \in Messages \ {m} : q.rows[n] = mem[w].rows[n]
                  /\ ReceiptTrue(p, q, sent, done)
  <2> DEFINE q == Row(mem[w], m, status)
  <2>1. status \in RowStatuses
    BY DEF RowStatuses
  <2>2. /\ q \in Receipts /\ q.rows = [mem[w].rows EXCEPT ![m] = status]
        /\ q.writes = mem[w].writes /\ q.undone = mem[w].undone
        /\ q.status = mem[w].status
    BY <1>2, <1>4, <2>1, RowRewritten
  <2> HIDE DEF q
  <2>3. ReceiptTrue(p, q, sent, done)
    <3>1. \A kind \in Kinds : \/ status = Intent(kind)
                              \/ mem[w].rows[m] # Intent(kind)
                              \/ ~(sent[<<<<p, m>>, kind>>] > 0)
      BY <1>4, NotAnIntent
    <3>2. RowTrue(<<p, m>>, status, sent, done)
      BY <1>7
    <3>3. ReceiptTrue(p, mem[w], sent, done) /\ p \in Plans /\ mem[w] \in Receipts
      BY <1>2
    <3> HIDE DEF p
    <3> QED BY <1>4, <1>8, <2>1, <2>2, <3>1, <3>2, <3>3, RowTruelyRewritten
  <2>4. /\ q.rows[m] = status
        /\ \A n \in Messages \ {m} : q.rows[n] = mem[w].rows[n]
    BY <1>2, <1>4, <2>2, ReceiptFields
  <2> QED BY <2>2, <2>3, <2>4 DEF q
<1>13. ASSUME Persist(w, Row(mem[w], m, "rollback_conflicted"), "undo_loop", k,
                      Row(mem[w], m, "rollback_conflicted"))
       PROVE  ArchiveInv'
  <2> DEFINE q == Row(mem[w], m, "rollback_conflicted")
             files == [disk EXCEPT ![p] = q]
  <2>1. /\ q \in Receipts /\ q.status = mem[w].status
        /\ \A n \in Messages \ {m} : q.rows[n] = mem[w].rows[n]
        /\ ReceiptTrue(p, q, sent, done)
    BY <1>12
  <2>2. Persist(w, q, "undo_loop", k, q)
    BY <1>13
  <2> HIDE DEF q
  <2>3. files[p] = q
    BY <1>2
  <2> HIDE DEF files
  <2>4. Ahead("undo_loop", k, q)
    BY <1>5, <1>6, <1>10, <2>1, ArchiveAssumption DEF Ahead, ApplySteps
  <2>5. At("undo_loop", p, NoMessage, files[p], q, sent, done)
    BY DEF At
  <2>6. WorkerSound("undo_loop", k, q, files, sent, done)
    BY <1>6, <1>8, <2>1, <2>3, <2>4, <2>5 DEF WorkerSound, ApplySteps
  <2> QED BY <1>1, <1>6, <1>11, <2>1, <2>2, <2>6, Persists DEF files
<1>14. ASSUME Persist(w, Row(mem[w], m, "rollback_intent"), "undo_dispatch", j,
                  [Row(mem[w], m, "rollback_intent") EXCEPT !.undone = @ + 1])
       PROVE  ArchiveInv'
  <2> DEFINE q == Row(mem[w], m, "rollback_intent")
             r == [q EXCEPT !.undone = q.undone + 1]
             files == [disk EXCEPT ![p] = q]
  <2>1. /\ q \in Receipts /\ q.status = mem[w].status
        /\ q.writes = mem[w].writes /\ q.undone = mem[w].undone
        /\ q.rows[m] = "rollback_intent"
        /\ \A n \in Messages \ {m} : q.rows[n] = mem[w].rows[n]
        /\ ReceiptTrue(p, q, sent, done)
    BY <1>12
  <2>2. Persist(w, q, "undo_dispatch", j, r)
    BY <1>14
  <2> HIDE DEF q
  <2>3. q.undone \in Nat /\ q.undone + 1 \in Nat /\ q.writes \in Nat
    BY <2>1, ReceiptFields
  <2>4. /\ r \in Receipts /\ r.rows = q.rows /\ r.undone = q.undone + 1
        /\ r.writes = q.writes /\ r.status = q.status
    BY <2>1, <2>3, UndoneSet
  <2> HIDE DEF r
  <2>5. files[p] = q
    BY <1>2
  <2> HIDE DEF files
  <2>6. ReceiptTrue(p, r, sent, done)
    <3>1. q.writes <= r.writes /\ q.undone <= r.undone
      BY <2>3, <2>4
    <3> QED BY <1>2, <2>1, <2>4, <3>1, MoreCounted
  <2>7. Reserved(p, r, "restore", m, sent)
    <3>1. Settled(p, r, "restore", sent) = Settled(p, q, "restore", sent)
      BY <2>4 DEF Settled
    <3>2. Cardinality(Settled(p, q, "restore", sent)) <= q.undone
      BY <2>1 DEF ReceiptTrue, Covers, Count, Kinds
    <3>3. Cardinality(Settled(p, q, "restore", sent) \cup {m}) <= q.undone + 1
      BY <1>2, <2>3, <3>2, RoomForOne
    <3> QED BY <2>4, <3>1, <3>3 DEF Reserved, Count
  <2>8. Ahead("undo_dispatch", j, r)
    BY <1>5, <1>10, <2>1, <2>4 DEF Ahead, ApplySteps
  <2>9. At("undo_dispatch", p, m, files[p], r, sent, done)
    BY <1>4, <1>7, <2>1, <2>4, <2>5, <2>7 DEF At
  <2>10. WorkerSound("undo_dispatch", j, r, files, sent, done)
    BY <1>5, <1>8, <2>1, <2>4, <2>5, <2>6, <2>8, <2>9
       DEF WorkerSound, ApplySteps
  <2> QED BY <1>1, <1>5, <1>11, <2>1, <2>2, <2>4, <2>10, Persists DEF files
<1> QED BY <1>1, <1>3, <1>13, <1>14, Aborts DEF j, k

(* The worker is at a row it is undoing.                                    *)
LEMMA UndoingFacts ==
    ASSUME ArchiveInv, NEW w \in Workers,
           pc[w] \in {"undo_dispatch", "undo_wait"}
    PROVE  /\ Cur(w) \in PlanRows[Plan(w)] /\ Cur(w) \in Messages
           /\ disk[Plan(w)].rows[Cur(w)] = "rollback_intent"
           /\ mem[w].rows[Cur(w)] = "rollback_intent"
           /\ mem[w].status # "none"
           /\ <<<<Plan(w), Cur(w)>>, "archive">> \in done
           /\ Reserved(Plan(w), mem[w], "restore", Cur(w), sent)
           /\ ~(pc[w] \in ApplySteps)
<1>1. pc[w] # "idle"
  OBVIOUS
<1>2. /\ Plan(w) \in Plans /\ Plan(w) = job[w].plan /\ Cur(w) = job[w].cur
      /\ WorkerSound(pc[w], job[w], mem[w], disk, sent, done)
  BY <1>1, HolderFacts
<1> QED BY <1>2, PlanRowsFinite DEF WorkerSound, At, ApplySteps

LEMMA UndoDispatchSound ==
    ASSUME ArchiveInv, NEW w \in Workers, UndoDispatch(w)
    PROVE  ArchiveInv'
<1> DEFINE p == Plan(w)
           m == Cur(w)
<1>1. pc[w] = "undo_dispatch" /\ pc[w] # "idle"
  BY DEF UndoDispatch
<1>2. /\ p \in Plans /\ p = job[w].plan /\ m = job[w].cur /\ job[w] \in Jobs
      /\ mem[w] \in Receipts /\ disk[p] \in Receipts
      /\ ReceiptTrue(p, mem[w], sent, done)
      /\ WorkerSound("undo_dispatch", job[w], mem[w], disk, sent, done)
  BY <1>1, HolderFacts
<1>3. /\ m \in PlanRows[p] /\ m \in Messages
      /\ disk[p].rows[m] = "rollback_intent"
      /\ mem[w].rows[m] = "rollback_intent"
      /\ mem[w].status # "none" /\ <<<<p, m>>, "archive">> \in done
      /\ Reserved(p, mem[w], "restore", m, sent)
  BY <1>1, UndoingFacts
<1>4. sent[<<<<p, m>>, "restore">>] = 0 /\ ~(sent[<<<<p, m>>, "restore">>] > 0)
  <2>1. sent[<<<<p, m>>, "restore">>] = 0
    BY <1>2 DEF WorkerSound, At
  <2> QED BY <2>1
<1>5. {"undo_wait", "undo_outcome"} \subseteq Steps \ {"idle"}
  BY DEF Steps
<1>6. \A step \in {"undo_wait", "undo_outcome", "undo_dispatch"} :
          step \notin ApplySteps
  BY DEF ApplySteps
<1>7. \A status \in {"rollback_conflicted", "rollback_uncertain"} :
          RowTrue(<<p, m>>, status, sent, done)
  BY <1>4 DEF RowTrue
<1>8. ASSUME Issue(w, "restore"), Go(w, "undo_wait", job[w], mem[w])
      PROVE  ArchiveInv'
  <2>1. /\ requests' \subseteq Moves /\ sent' \in [Moves -> Nat]
        /\ done' = done /\ done' \subseteq Moves /\ ServerInv'
        /\ sent' = [sent EXCEPT ![<<<<p, m>>, "restore">>] = 1]
        /\ UNCHANGED <<box, acts, planned>>
    BY <1>2, <1>3, <1>4, <1>8, IssueServes DEF Kinds
  <2>2. /\ disk' = disk /\ disk \in [Plans -> Receipts]
        /\ sent \in [Moves -> Nat] /\ "restore" \in Kinds
    BY <1>8 DEF Go, ArchiveInv, TypeOK, Kinds
  <2>3. Intent("restore") = "rollback_intent"
    BY DEF Intent
  <2>4. ASSUME NEW q \in Plans PROVE ReceiptTrue(q, disk'[q], sent', done')
    <3>1. ReceiptTrue(q, disk[q], sent, done) /\ disk[q] \in Receipts
      BY <2>2 DEF ArchiveInv
    <3>2. q = p => disk[q].rows[m] = Intent("restore")
      BY <1>3, <2>3
    <3> QED BY <1>2, <1>3, <2>1, <2>2, <3>1, <3>2, IssueKeeps
  <2>5. ReceiptTrue(p, mem[w], sent', done')
    BY <1>2, <1>3, <2>1, <2>2, <2>3, IssueKeeps
  <2>6. Settled(p, mem[w], "restore", sent') = Settled(p, mem[w], "restore", sent)
    <3>1. \A n \in PlanRows[p] : n # m =>
              sent'[<<<<p, n>>, "restore">>] = sent[<<<<p, n>>, "restore">>]
      BY <1>2, <1>3, <2>1, <2>2, MoveOf
    <3> QED BY <1>3, <2>3, <3>1 DEF Settled, Given
  <2>7. At("undo_wait", p, m, disk[p], mem[w], sent', done')
    BY <1>3, <2>1, <2>6 DEF At, Reserved
  <2>8. WorkerSound("undo_wait", job[w], mem[w], disk', sent', done')
    BY <1>2, <1>6, <2>2, <2>5, <2>7 DEF WorkerSound, Ahead
  <2>9. /\ pc' = [pc EXCEPT ![w] = "undo_wait"]
        /\ job' = [job EXCEPT ![w] = job[w]]
        /\ mem' = [mem EXCEPT ![w] = mem[w]] /\ UNCHANGED lock
    BY <1>8 DEF Go
  <2> QED BY <1>1, <1>2, <1>5, <2>1, <2>2, <2>4, <2>8, <2>9, Goes
<1>9. ASSUME Go(w, "undo_outcome", job[w],
                [Row(mem[w], m, "rollback_conflicted") EXCEPT !.undone = @ - 1]),
             UNCHANGED <<serverVars, planned>>
      PROVE  ArchiveInv'
  <2> DEFINE row == Row(mem[w], m, "rollback_conflicted")
             r == [row EXCEPT !.undone = row.undone - 1]
  <2>1. "rollback_conflicted" \in RowStatuses
    BY DEF RowStatuses
  <2>2. /\ row \in Receipts
        /\ row.rows = [mem[w].rows EXCEPT ![m] = "rollback_conflicted"]
        /\ row.writes = mem[w].writes /\ row.undone = mem[w].undone
        /\ row.approval = mem[w].approval /\ row.status = mem[w].status
    BY <1>2, <1>3, <2>1, RowRewritten
  <2>3. Go(w, "undo_outcome", job[w], r)
    BY <1>9
  <2> HIDE DEF row
  <2>4. mem[w].undone \in Nat
    BY <1>2, ReceiptFields
  <2>5. /\ mem[w].undone - 1 \in Nat
        /\ Cardinality(Settled(p, mem[w], "restore", sent)) <= mem[w].undone - 1
    <3>1. Cardinality(Settled(p, mem[w], "restore", sent) \cup {m}) <=
              mem[w].undone
      BY <1>3 DEF Reserved, Count
    <3> HIDE DEF p, m
    <3> QED BY <1>2, <1>3, <1>4, <2>4, <3>1, RoomGivenUp
  <2>6. /\ r \in Receipts
        /\ r.rows = [mem[w].rows EXCEPT ![m] = "rollback_conflicted"]
        /\ r.undone = mem[w].undone - 1 /\ r.writes = mem[w].writes
        /\ r.status = mem[w].status /\ r.approval = mem[w].approval
    BY <2>2, <2>5, UndoneSet
  <2> HIDE DEF r
  <2>7. RowsSound(p, r, sent, done)
    <3>1. RowTrue(<<p, m>>, "rollback_conflicted", sent, done)
      BY <1>7
    <3> QED BY <1>2, <1>3, <2>1, <2>6, <3>1, RowMayChange DEF ReceiptTrue
  <2>8. ASSUME NEW kind \in Kinds
        PROVE  Cardinality(Settled(p, r, kind, sent)) <= Count(r, kind)
    <3>1. \/ mem[w].rows[m] # Intent(kind)
          \/ ~(sent[<<<<p, m>>, kind>>] > 0)
      BY <1>3, <1>4 DEF Intent, Kinds
    <3>2. Settled(p, r, kind, sent) \subseteq Settled(p, mem[w], kind, sent)
      <4>1. p \in Plans /\ mem[w] \in Receipts /\ r \in Receipts
        BY <1>2, <2>6
      <4> HIDE DEF p, m
      <4>2. CASE mem[w].rows[m] # Intent(kind)
        BY <1>3, <2>1, <2>6, <4>1, <4>2, SettledKept
      <4>3. CASE ~(sent[<<<<p, m>>, kind>>] > 0)
        BY <1>3, <2>1, <2>6, <4>1, <4>3, SettledUnsent
      <4> QED BY <3>1, <4>2, <4>3
    <3>3. Cardinality(Settled(p, mem[w], kind, sent)) <= Count(r, kind)
      BY <1>2, <2>5, <2>6 DEF ReceiptTrue, Covers, Count, Kinds
    <3>4. Count(r, kind) \in Nat
      BY <2>6, ReceiptFields DEF Count
    <3> QED BY <1>2, <3>2, <3>3, <3>4, NoMoreSettled
  <2>9. ReceiptTrue(p, r, sent, done)
    BY <1>3, <2>6, <2>7, <2>8 DEF ReceiptTrue, Covers, Begun
  <2>10. r.rows[m] = "rollback_conflicted"
    BY <1>2, <1>3, <2>6, ReceiptFields
  <2>11. At("undo_outcome", p, m, disk[p], r, sent, done)
    BY <1>3, <2>10 DEF At
  <2> QED BY <1>1, <1>2, <1>3, <1>5, <1>6, <1>9, <2>3, <2>6, <2>9, <2>11, OwnRow
<1>10. ASSUME Go(w, "undo_outcome", job[w], Row(mem[w], m, "rollback_uncertain")),
              UNCHANGED <<serverVars, planned>>
       PROVE  ArchiveInv'
  <2> DEFINE r == Row(mem[w], m, "rollback_uncertain")
  <2>1. "rollback_uncertain" \in RowStatuses
    BY DEF RowStatuses
  <2>2. /\ r \in Receipts
        /\ r.rows = [mem[w].rows EXCEPT ![m] = "rollback_uncertain"]
        /\ r.writes = mem[w].writes /\ r.undone = mem[w].undone
        /\ r.approval = mem[w].approval /\ r.status = mem[w].status
    BY <1>2, <1>3, <2>1, RowRewritten
  <2>3. Go(w, "undo_outcome", job[w], r)
    BY <1>10
  <2> HIDE DEF r
  <2>4. ReceiptTrue(p, r, sent, done)
    <3>1. \A kind \in Kinds : \/ "rollback_uncertain" = Intent(kind)
                              \/ mem[w].rows[m] # Intent(kind)
                              \/ ~(sent[<<<<p, m>>, kind>>] > 0)
      BY <1>3, <1>4 DEF Intent, Kinds
    <3>2. RowTrue(<<p, m>>, "rollback_uncertain", sent, done)
      BY <1>7
    <3>3. p \in Plans /\ mem[w] \in Receipts /\ ReceiptTrue(p, mem[w], sent, done)
      BY <1>2
    <3> HIDE DEF p, m
    <3> QED BY <1>3, <2>1, <2>2, <3>1, <3>2, <3>3, RowTruelyRewritten
  <2>5. r.rows[m] = "rollback_uncertain"
    BY <1>2, <1>3, <2>2, ReceiptFields
  <2>6. At("undo_outcome", p, m, disk[p], r, sent, done)
    BY <1>3, <2>5 DEF At
  <2> QED BY <1>1, <1>2, <1>3, <1>5, <1>6, <1>10, <2>2, <2>3, <2>4, <2>6, OwnRow
<1> QED BY <1>8, <1>9, <1>10 DEF UndoDispatch

LEMMA UndoAwaitSound ==
    ASSUME ArchiveInv, NEW w \in Workers, UndoAwait(w)
    PROVE  ArchiveInv'
<1> DEFINE p == Plan(w)
           m == Cur(w)
<1>1. pc[w] = "undo_wait" /\ pc[w] # "idle" /\ UNCHANGED <<serverVars, planned>>
  BY DEF UndoAwait
<1>2. /\ p \in Plans /\ p = job[w].plan /\ m = job[w].cur /\ job[w] \in Jobs
      /\ mem[w] \in Receipts /\ ReceiptTrue(p, mem[w], sent, done)
  BY <1>1, HolderFacts
<1>3. /\ m \in PlanRows[p] /\ m \in Messages
      /\ disk[p].rows[m] = "rollback_intent"
      /\ mem[w].rows[m] = "rollback_intent"
      /\ mem[w].status # "none" /\ <<<<p, m>>, "archive">> \in done
      /\ Reserved(p, mem[w], "restore", m, sent)
  BY <1>1, UndoingFacts
<1>4. PICK status \in {"rolled_back", "rollback_uncertain"} :
          /\ Go(w, "undo_outcome", job[w], Row(mem[w], m, status))
          /\ status = "rolled_back" => <<<<p, m>>, "restore">> \in done
  BY DEF UndoAwait, Answered
<1> DEFINE r == Row(mem[w], m, status)
<1>5. status \in RowStatuses
  BY DEF RowStatuses
<1>6. /\ r \in Receipts /\ r.rows = [mem[w].rows EXCEPT ![m] = status]
      /\ r.writes = mem[w].writes /\ r.undone = mem[w].undone
      /\ r.approval = mem[w].approval /\ r.status = mem[w].status
  BY <1>2, <1>3, <1>5, RowRewritten
<1>7. Go(w, "undo_outcome", job[w], r)
  BY <1>4
<1> HIDE DEF r
<1>8. RowsSound(p, r, sent, done)
  <2>1. RowTrue(<<p, m>>, status, sent, done)
    BY <1>3, <1>4 DEF RowTrue
  <2> QED BY <1>2, <1>3, <1>5, <1>6, <2>1, RowMayChange DEF ReceiptTrue
<1>9. ASSUME NEW kind \in Kinds
      PROVE  Cardinality(Settled(p, r, kind, sent)) <= Count(r, kind)
  <2>1. p \in Plans /\ mem[w] \in Receipts /\ r \in Receipts
    BY <1>2, <1>6
  <2>2. Count(r, kind) = Count(mem[w], kind) /\ Count(r, kind) \in Nat
    BY <1>6, ReceiptFields DEF Count
  <2>3. CASE kind = "archive"
    <3>1. mem[w].rows[m] # Intent(kind)
      BY <1>3, <2>3 DEF Intent
    <3>2. Cardinality(Settled(p, mem[w], kind, sent)) <= Count(r, kind)
      BY <1>2, <2>2 DEF ReceiptTrue, Covers
    <3> HIDE DEF p, m
    <3>3. Settled(p, r, kind, sent) \subseteq Settled(p, mem[w], kind, sent)
      BY <1>3, <1>5, <1>6, <2>1, <3>1, SettledKept
    <3> QED BY <2>1, <2>2, <3>2, <3>3, NoMoreSettled
  <2>4. CASE kind = "restore"
    <3>1. Cardinality(Settled(p, mem[w], kind, sent) \cup {m}) <= Count(r, kind)
      BY <1>3, <2>2, <2>4 DEF Reserved
    <3> HIDE DEF p, m
    <3>2. Settled(p, r, kind, sent) \subseteq
              Settled(p, mem[w], kind, sent) \cup {m}
      BY <1>3, <1>5, <1>6, <2>1, SettledChange
    <3> QED BY <2>1, <2>2, <3>1, <3>2, FewerSettled
  <2> QED BY <2>3, <2>4 DEF Kinds
<1>10. ReceiptTrue(p, r, sent, done)
  BY <1>3, <1>6, <1>8, <1>9 DEF ReceiptTrue, Covers, Begun
<1>11. r.rows[m] = status
  BY <1>2, <1>3, <1>6, ReceiptFields
<1>12. At("undo_outcome", p, m, disk[p], r, sent, done)
  BY <1>3, <1>11 DEF At
<1>13. "undo_outcome" \in Steps \ {"idle"} /\ "undo_outcome" \notin ApplySteps
       /\ pc[w] \notin ApplySteps
  BY <1>1 DEF Steps, ApplySteps
<1> QED BY <1>1, <1>2, <1>3, <1>6, <1>7, <1>10, <1>12, <1>13, OwnRow

LEMMA UndoOutcomeSound ==
    ASSUME ArchiveInv, NEW w \in Workers, UndoOutcome(w)
    PROVE  ArchiveInv'
<1> DEFINE p == job[w].plan
           j == [job[w] EXCEPT !.cur = NoMessage]
           files == [disk EXCEPT ![p] = mem[w]]
<1>1. /\ pc[w] = "undo_outcome" /\ pc[w] # "idle"
      /\ UNCHANGED <<serverVars, planned>>
  BY DEF UndoOutcome
<1>2. PICK step \in {"undo_finish", "undo_loop"} :
          Persist(w, mem[w], step, j, mem[w])
  BY DEF UndoOutcome
<1>3. /\ p \in Plans /\ job[w] \in Jobs /\ mem[w] \in Receipts
      /\ ReceiptTrue(p, mem[w], sent, done)
      /\ WorkerSound("undo_outcome", job[w], mem[w], disk, sent, done)
      /\ disk \in [Plans -> Receipts]
  BY <1>1, HolderFacts DEF ArchiveInv, TypeOK
<1>4. /\ j \in Jobs /\ j.plan = p /\ j.cur = NoMessage /\ j.todo = job[w].todo
  BY <1>3 DEF Jobs
<1>5. \A n \in job[w].todo : n \in Messages /\ n # NoMessage
  BY <1>3, ArchiveAssumption DEF Jobs
<1>6. files[p] = mem[w]
  BY <1>3
<1> HIDE DEF j, files
<1>7. Ahead(step, j, mem[w])
  BY <1>3, <1>4, <1>5 DEF WorkerSound, Ahead, ApplySteps
<1>8. At(step, p, NoMessage, files[p], mem[w], sent, done)
  BY DEF At
<1>9. WorkerSound(step, j, mem[w], files, sent, done)
  BY <1>3, <1>4, <1>6, <1>7, <1>8 DEF WorkerSound, ApplySteps
<1>10. step \in Steps \ {"idle"}
  BY DEF Steps
<1> QED BY <1>1, <1>2, <1>3, <1>4, <1>9, <1>10, Persists DEF files

LEMMA UndoFinishSound ==
    ASSUME ArchiveInv, NEW w \in Workers, UndoFinish(w)
    PROVE  ArchiveInv'
<1>1. pc[w] # "idle" /\ UNCHANGED <<serverVars, planned>>
  BY DEF UndoFinish
<1>2. PICK status \in {"rolled_back", "rollback_incomplete"} :
          PersistAndReturn(w, [mem[w] EXCEPT !.status = status])
  BY DEF UndoFinish
<1> DEFINE r == [mem[w] EXCEPT !.status = status]
<1>3. /\ mem[w] \in Receipts /\ job[w].plan \in Plans
      /\ ReceiptTrue(job[w].plan, mem[w], sent, done)
  BY <1>1, HolderFacts
<1>4. status \in ReceiptStatuses
  BY DEF ReceiptStatuses, RowStatuses
<1>5. /\ r \in Receipts /\ r.rows = mem[w].rows /\ r.writes = mem[w].writes
      /\ r.undone = mem[w].undone /\ r.status # "none"
  BY <1>3, <1>4, StatusSet
<1>6. PersistAndReturn(w, r)
  BY <1>2
<1> HIDE DEF r
<1>7. ReceiptTrue(job[w].plan, r, sent, done)
  BY <1>3, <1>5, SameRows
<1> QED BY <1>1, <1>5, <1>6, <1>7, Returns

-----------------------------------------------------------------------------
(* The server, the person and the operating system.                        *)

(* What the server carries out makes no receipt less true.                  *)
LEMMA DoneGrows ==
    ASSUME NEW step, NEW j, NEW r, NEW files, NEW s, NEW d, NEW e, d \subseteq e
    PROVE  /\ \A p : ReceiptTrue(p, r, s, d) => ReceiptTrue(p, r, s, e)
           /\ WorkerSound(step, j, r, files, s, d) =>
                  WorkerSound(step, j, r, files, s, e)
<1>1. \A x, status : RowTrue(x, status, s, d) => RowTrue(x, status, s, e)
  BY DEF RowTrue
<1>2. \A p : ReceiptTrue(p, r, s, d) => ReceiptTrue(p, r, s, e)
  BY <1>1 DEF ReceiptTrue, RowsSound
<1>3. \A p, m, f : At(step, p, m, f, r, s, d) => At(step, p, m, f, r, s, e)
  BY DEF At
<1> QED BY <1>2, <1>3 DEF WorkerSound

(* A move is a row and a kind. *)
LEMMA MoveParts ==
    ASSUME NEW x \in Moves
    PROVE  /\ x[1] \in Rows /\ x[2] \in Kinds
           /\ x[1][1] \in Plans /\ x[1][2] \in PlanRows[x[1][1]]
           /\ x[1][2] \in Messages
<1>1. x[1] \in Rows /\ x[2] \in Kinds
  BY DEF Moves
<1>2. PICK p \in Plans : x[1] \in {p} \X PlanRows[p]
  BY <1>1 DEF Rows
<1>3. x[1][1] = p /\ x[1][2] \in PlanRows[p]
  BY <1>2
<1> QED BY <1>1, <1>3, PlanRowsFinite

(* Where a message is seen after a move. *)
LEMMA MovedTyped ==
    ASSUME NEW o \in Observations, NEW place \in Places
    PROVE  Moved(o, place) \in Observations
<1> DEFINE home == Provider # "icloud" /\ o.home
<1>1. home \in BOOLEAN
  OBVIOUS
<1>2. Moved(o, place) = [o EXCEPT !.place = place, !.rev = o.rev + 1,
                                  !.home = home]
  BY DEF Moved
<1> DEFINE rev == o.rev + 1
<1>3. rev \in Nat
  BY DEF Observations
<1>4. Moved(o, place) = [o EXCEPT !.place = place, !.rev = rev, !.home = home]
  BY <1>2
<1> HIDE DEF home, rev
<1> QED BY <1>1, <1>3, <1>4 DEF Observations

(* Mail and plans change; the workers and their files do not.               *)
LEMMA OutsideSound ==
    ASSUME ArchiveInv, UNCHANGED <<disk, lock, pc, job, mem, sent>>,
           box' \in [Messages -> Observations], acts' \in Nat,
           planned' \in [Plans -> [Messages -> Nat]],
           requests' \subseteq requests, done \subseteq done', done' \subseteq Moves,
           \A x \in requests' : x \notin done', \A x \in done' : sent[x] = 1
    PROVE  ArchiveInv'
<1>1. TypeOK'
  BY DEF ArchiveInv, TypeOK
<1>2. ServerInv'
  BY DEF ArchiveInv, ServerInv
<1>3. LockInv'
  BY DEF ArchiveInv, LockInv
<1>4. \A p \in Plans : ReceiptTrue(p, disk'[p], sent', done')
  BY DoneGrows DEF ArchiveInv
<1>5. \A w \in Workers : pc'[w] # "idle" =>
          WorkerSound(pc'[w], job'[w], mem'[w], disk', sent', done')
  BY DoneGrows DEF ArchiveInv
<1> QED BY <1>1, <1>2, <1>3, <1>4, <1>5 DEF ArchiveInv

LEMMA BuildPlanSound ==
    ASSUME ArchiveInv, NEW p \in Plans, BuildPlan(p)
    PROVE  ArchiveInv'
<1> DEFINE revs == [m \in Messages |-> IF m \in PlanRows[p] THEN box[m].rev ELSE 0]
<1>1. revs \in [Messages -> Nat]
  BY DEF ArchiveInv, TypeOK, Observations
<1>2. /\ planned' = [planned EXCEPT ![p] = revs]
      /\ UNCHANGED <<box, acts, requests, sent, done, disk, lock, pc, job, mem>>
  BY DEF BuildPlan, serverVars
<1> HIDE DEF revs
<1>3. planned' \in [Plans -> [Messages -> Nat]]
  BY <1>1, <1>2 DEF ArchiveInv, TypeOK
<1> QED BY <1>2, <1>3, OutsideSound DEF ArchiveInv, TypeOK, ServerInv

LEMMA LandSound ==
    ASSUME ArchiveInv, NEW x \in requests, Land(x) \/ Lose(x)
    PROVE  ArchiveInv'
<1>1. /\ x \in Moves /\ sent[x] = 1 /\ requests' = requests \ {x}
      /\ done \subseteq done' /\ done' \subseteq done \cup {x}
      /\ UNCHANGED <<acts, planned, sent, disk, lock, pc, job, mem>>
  BY DEF ArchiveInv, TypeOK, ServerInv, Land, Lose
<1>2. box' \in [Messages -> Observations]
  <2>1. box \in [Messages -> Observations]
    BY DEF ArchiveInv, TypeOK
  <2>2. Target(x[2]) \in Places /\ x[1][2] \in Messages
    BY <1>1, MoveParts DEF Target, Places
  <2>3. Moved(box[x[1][2]], Target(x[2])) \in Observations
    BY <2>1, <2>2, MovedTyped
  <2>4. \/ box' = box
        \/ box' = [box EXCEPT ![x[1][2]] = Moved(box[x[1][2]], Target(x[2]))]
    BY DEF Land, Lose
  <2> QED BY <2>1, <2>2, <2>3, <2>4
<1>3. done' \subseteq Moves /\ \A y \in done' : sent[y] = 1
  BY <1>1 DEF ArchiveInv, TypeOK, ServerInv
<1>4. \A y \in requests' : y \notin done'
  BY <1>1 DEF ArchiveInv, ServerInv
<1> QED BY <1>1, <1>2, <1>3, <1>4, OutsideSound DEF ArchiveInv, TypeOK

LEMMA PersonSound ==
    ASSUME ArchiveInv, Person
    PROVE  ArchiveInv'
<1>1. box \in [Messages -> Observations] /\ acts \in Nat
  BY DEF ArchiveInv, TypeOK
<1>2. PICK m \in Messages, o \in Observations :
          /\ box' = [box EXCEPT ![m] = o] /\ acts' = acts + 1
          /\ UNCHANGED <<planned, requests, sent, done, disk, lock, pc, job, mem>>
  <2>1. PICK m \in Messages :
            PersonClaims(m) \/ \E place \in Places : PersonMoves(m, place)
    BY DEF Person
  <2>2. ASSUME NEW place \in Places, PersonMoves(m, place)
        PROVE  \E o \in Observations :
                 /\ box' = [box EXCEPT ![m] = o] /\ acts' = acts + 1
                 /\ UNCHANGED <<planned, requests, sent, done, disk, lock, pc,
                                job, mem>>
    <3>1. Moved(box[m], place) \in Observations
      BY <1>1, MovedTyped
    <3> QED BY <2>2, <3>1 DEF PersonMoves
  <2>3. ASSUME PersonClaims(m)
        PROVE  \E o \in Observations :
                 /\ box' = [box EXCEPT ![m] = o] /\ acts' = acts + 1
                 /\ UNCHANGED <<planned, requests, sent, done, disk, lock, pc,
                                job, mem>>
    <3> DEFINE held == ~box[m].hold
               o == [box[m] EXCEPT !.hold = held]
    <3>1. box' = [box EXCEPT ![m] = o]
      BY <2>3 DEF PersonClaims
    <3>2. held \in BOOLEAN
      OBVIOUS
    <3> HIDE DEF held
    <3>3. o \in Observations
      BY <1>1, <3>2 DEF Observations
    <3> HIDE DEF o
    <3> QED BY <2>3, <3>1, <3>3 DEF PersonClaims
  <2> QED BY <2>1, <2>2, <2>3
<1>3. box' \in [Messages -> Observations] /\ acts' \in Nat
  BY <1>1, <1>2
<1> QED BY <1>2, <1>3, OutsideSound DEF ArchiveInv, TypeOK, ServerInv

LEMMA CrashSound ==
    ASSUME ArchiveInv, NEW w \in Workers, Crash(w)
    PROVE  ArchiveInv'
BY Aborts DEF Crash

(* A step that changes nothing keeps the invariant. *)
LEMMA StutterSound ==
    ASSUME ArchiveInv, UNCHANGED vars
    PROVE  ArchiveInv'
<1>1. UNCHANGED <<box, acts, planned, requests, sent, done, disk, lock, pc,
                  job, mem>>
  BY DEF vars
<1> QED BY <1>1, OutsideSound DEF ArchiveInv, TypeOK, ServerInv

-----------------------------------------------------------------------------
(* The theorems.                                                           *)

LEMMA ArchiveNext == ArchiveInv /\ [Next]_vars => ArchiveInv'
<1> SUFFICES ASSUME ArchiveInv, [Next]_vars PROVE ArchiveInv'
  OBVIOUS
<1>1. ASSUME NEW w \in Workers, Begin(w) PROVE ArchiveInv'
  BY <1>1, ApplySound, RollbackSound DEF Begin
<1>2. ASSUME NEW w \in Workers, Step(w) PROVE ArchiveInv'
  BY <1>2, PreflightSound, ClaimSound, LoopEndSound, DispatchSound, AwaitSound,
     ObserveSound, OutcomeSound, FinishSound, UndoClaimSound, UndoDispatchSound,
     UndoAwaitSound, UndoOutcomeSound, UndoFinishSound DEF Step
<1>3. ASSUME NEW w \in Workers, Crash(w) PROVE ArchiveInv'
  BY <1>3, CrashSound
<1>4. ASSUME NEW p \in Plans, BuildPlan(p) PROVE ArchiveInv'
  BY <1>4, BuildPlanSound
<1>5. ASSUME NEW x \in requests, Land(x) \/ Lose(x) PROVE ArchiveInv'
  BY <1>5, LandSound
<1>6. CASE Person
  BY <1>6, PersonSound
<1>7. CASE UNCHANGED vars
  BY <1>7, StutterSound
<1> QED BY <1>1, <1>2, <1>3, <1>4, <1>5, <1>6, <1>7 DEF Next

(* Both receipts of a plan, the file and the one its worker builds, are      *)
(* true after every step of every process, the server and the person       *)
(* (ArchiveEngine.apply and rollback).                                     *)
THEOREM ReceiptInvariant == Spec => []ArchiveInv
<1> QED BY ArchiveInit, ArchiveNext, PTL DEF Spec

(* Every variable keeps its type.                                          *)
THEOREM TypeCorrectness == Spec => []TypeOK
<1>1. ArchiveInv => TypeOK
  BY DEF ArchiveInv
<1> QED BY <1>1, ReceiptInvariant, PTL

(* No receipt settles more moves than it counts; a row at its intent stands *)
(* for one more.                                                           *)
LEMMA CountsCover ==
    ASSUME NEW p \in Plans, NEW r \in Receipts, NEW kind \in Kinds,
           RowsSound(p, r, sent, done), Covers(p, r, sent)
    PROVE  Cardinality(Issued(p, kind)) <=
               Count(r, kind)
               + Cardinality({m \in Messages : r.rows[m] = Intent(kind)})
<1> DEFINE open == {m \in Messages : r.rows[m] = Intent(kind)}
           all == Issued(p, kind)
           closed == Settled(p, r, kind, sent)
<1>1. all \subseteq closed \cup open
  BY PlanRowsFinite DEF Issued, Settled, Given
<1>2. open \subseteq PlanRows[p]
  BY DEF RowsSound, Intent
<1>3. /\ IsFiniteSet(open) /\ IsFiniteSet(closed)
      /\ Cardinality(open) \in Nat /\ Cardinality(closed) \in Nat
  BY <1>2, PlanRowsFinite, FS_Subset, FS_CardinalityType, SettledFinite
<1>4. Cardinality(closed) <= Count(r, kind) /\ Count(r, kind) \in Nat
  BY ReceiptFields DEF Covers, Count
<1> HIDE DEF open, closed, all
<1>5. /\ IsFiniteSet(closed \cup open)
      /\ Cardinality(closed \cup open) =
             Cardinality(closed) + Cardinality(open)
             - Cardinality(closed \cap open)
  BY <1>3, FS_Union
<1>6. Cardinality(closed \cap open) \in Nat
  BY <1>3, FS_Intersection, FS_CardinalityType
<1>7. /\ Cardinality(all) \in Nat
      /\ Cardinality(all) <= Cardinality(closed \cup open)
      /\ Cardinality(closed \cup open) \in Nat
  BY <1>1, <1>5, FS_Subset, FS_CardinalityType
<1>8. Cardinality(all) <= Count(r, kind) + Cardinality(open)
  BY <1>3, <1>4, <1>5, <1>6, <1>7
<1> QED BY <1>8 DEF open, all

(* What the receipt file says of a plan is what was handed to the server:   *)
(* each message out at most once and back at most once, rows that claim    *)
(* nothing the server contradicts, counts that cover every move, whenever  *)
(* a rewrite fails or a process dies.                                      *)
THEOREM ReceiptsAreTrue == Spec => []ReceiptTruth
<1>1. ArchiveInv => ReceiptTruth
  <2> SUFFICES ASSUME ArchiveInv PROVE ReceiptTruth
    OBVIOUS
  <2>1. MovesOnce
    BY DEF ArchiveInv, ServerInv, MovesOnce
  <2>2. RowsTrue
    BY DEF ArchiveInv, ReceiptTrue, RowsSound, RowTrue, RowsTrue
  <2>3. WritesCovered
    <3>1. ASSUME NEW p \in Plans
          PROVE  /\ disk[p] \in Receipts
                 /\ RowsSound(p, disk[p], sent, done) /\ Covers(p, disk[p], sent)
      BY DEF ArchiveInv, TypeOK, ReceiptTrue
    <3>2. ASSUME NEW p \in Plans
          PROVE  Cardinality(Issued(p, "archive")) <=
                     disk[p].writes + Cardinality(RowsAt(p, "intent"))
      BY <3>1, CountsCover DEF Count, Intent, RowsAt, Kinds
    <3>3. ASSUME NEW p \in Plans
          PROVE  Cardinality(Issued(p, "restore")) <=
                     disk[p].undone + Cardinality(RowsAt(p, "rollback_intent"))
      BY <3>1, CountsCover DEF Count, Intent, RowsAt, Kinds
    <3> QED BY <3>2, <3>3 DEF WritesCovered
  <2> QED BY <2>1, <2>2, <2>3 DEF ReceiptTruth
<1> QED BY <1>1, ReceiptInvariant, PTL

(* A rollout is applied only while its canary stands verified on record:    *)
(* nobody can roll the canary back until the rollout let go of the lock.   *)
THEOREM CanariesStand == Spec => []RolloutRestsOnCanary
<1>1. ArchiveInv => RolloutRestsOnCanary
  <2> SUFFICES ASSUME ArchiveInv, NEW w \in Workers, pc[w] \in ApplySteps,
                      CanaryOf[mem[w].approval] # NoPlan
               PROVE  /\ disk[CanaryOf[mem[w].approval]].status = "verified"
                      /\ \A m \in Messages :
                             disk[CanaryOf[mem[w].approval]].rows[m] \in
                                 {"none", "verified"}
    BY DEF RolloutRestsOnCanary
  <2>1. pc[w] # "idle"
    BY DEF ApplySteps
  <2>2. CanaryHolds(job[w].plan, mem[w].approval, disk)
    BY <2>1, HolderFacts DEF WorkerSound
  <2> QED BY <2>2 DEF CanaryHolds
<1> QED BY <1>1, ReceiptInvariant, PTL

-----------------------------------------------------------------------------
(* ArchiveLifecycle is implemented: every rewrite of a receipt advances one  *)
(* row by one step of the lifecycle, and every other step hands a move      *)
(* over, carries one out or changes nothing that the lifecycle speaks of.   *)

Record(files) == [r \in Rows |-> RecordOf[files[r[1]].rows[r[2]]]]

(* How the statuses of a row appear in the lifecycle. *)
LEMMA RecordValues ==
    /\ \A status \in {"none", "unattempted", "failed"} :
           RecordOf[status] = "open"
    /\ \A status \in {"intent", "uncertain", "unchanged", "conflicted"} :
           RecordOf[status] = "claimed"
    /\ RecordOf["verified"] = "kept"
    /\ \A status \in {"rollback_intent", "rollback_uncertain"} :
           RecordOf[status] = "undoing"
    /\ RecordOf["rollback_conflicted"] = "refused"
    /\ RecordOf["rolled_back"] = "returned"
BY DEF RecordOf, RowStatuses

(* What a rewrite may make of the record of row x.                          *)
Edge(x, a, b, s, d) ==
    \/ a = b
    \/ a = "open" /\ b = "claimed"
    \/ a = "claimed" /\ b = "kept" /\ <<x, "archive">> \in d
    \/ a = "kept" /\ b = "undoing"
    \/ a = "undoing" /\ b = "returned" /\ <<x, "restore">> \in d
    \/ a \in {"kept", "undoing"} /\ b = "refused" /\ s[<<x, "restore">>] = 0

LifecycleStep == [Lifecycle!LifecycleNext]_(Lifecycle!lifecycleVars)

(* A row is a plan and a message it names. *)
LEMMA RowParts ==
    ASSUME NEW x \in Rows
    PROVE  /\ x[1] \in Plans /\ x[2] \in PlanRows[x[1]] /\ x[2] \in Messages
           /\ x = <<x[1], x[2]>>
<1>1. PICK p \in Plans : x \in {p} \X PlanRows[p]
  BY DEF Rows
<1>2. x[1] = p /\ x[2] \in PlanRows[p] /\ x = <<x[1], x[2]>>
  BY <1>1
<1> QED BY <1>2, PlanRowsFinite

(* Without a change of record, mail or requests nothing happens there. *)
LEMMA NothingRecorded ==
    ASSUME Record(disk') = Record(disk), sent' = sent, done' = done
    PROVE  LifecycleStep
BY DEF LifecycleStep, Lifecycle!lifecycleVars, Record

(* One changed record along an edge of the lifecycle is one of its steps. *)
LEMMA RowRecorded ==
    ASSUME NEW x \in Rows, sent' = sent, done' = done, NEW b,
           Record(disk') = [Record(disk) EXCEPT ![x] = b],
           Edge(x, Record(disk)[x], b, sent, done)
    PROVE  LifecycleStep
<1> DEFINE a == Record(disk)[x]
<1>1. CASE a = b
  <2>1. Record(disk') = Record(disk)
    BY <1>1 DEF Record
  <2> QED BY <2>1, NothingRecorded
<1>2. ASSUME a # b PROVE Lifecycle!LifecycleNext
  <2>1. /\ [r \in Rows |-> RecordOf[disk'[r[1]].rows[r[2]]]] =
               [[r \in Rows |-> RecordOf[disk[r[1]].rows[r[2]]]] EXCEPT ![x] = b]
        /\ [r \in Rows |-> RecordOf[disk[r[1]].rows[r[2]]]][x] = a
    BY DEF Record
  <2>2. Lifecycle!Advance(x, a, b)
    BY <2>1 DEF Lifecycle!Advance
  <2> HIDE DEF a
  <2>3. CASE a = "open" /\ b = "claimed"
    BY <2>2, <2>3 DEF Lifecycle!LifecycleNext, Lifecycle!ClaimMove
  <2>4. CASE a = "claimed" /\ b = "kept" /\ <<x, "archive">> \in done
    BY <2>2, <2>4 DEF Lifecycle!LifecycleNext, Lifecycle!Keep
  <2>5. CASE a = "kept" /\ b = "undoing"
    BY <2>2, <2>5 DEF Lifecycle!LifecycleNext, Lifecycle!ClaimUndo
  <2>6. CASE a = "undoing" /\ b = "returned" /\ <<x, "restore">> \in done
    BY <2>2, <2>6 DEF Lifecycle!LifecycleNext, Lifecycle!Return
  <2>7. CASE a \in {"kept", "undoing"} /\ b = "refused"
             /\ sent[<<x, "restore">>] = 0
    BY <2>2, <2>7 DEF Lifecycle!LifecycleNext, Lifecycle!Refuse
  <2> QED BY <1>2, <2>3, <2>4, <2>5, <2>6, <2>7 DEF Edge, a
<1> QED BY <1>1, <1>2 DEF LifecycleStep

(* A rewrite that changes at most the row of m.                             *)
LEMMA FiledRow ==
    ASSUME ArchiveInv, NEW p \in Plans, NEW q \in Receipts, NEW m \in PlanRows[p],
           disk' = [disk EXCEPT ![p] = q], sent' = sent, done' = done,
           \A n \in Messages \ {m} : q.rows[n] = disk[p].rows[n],
           Edge(<<p, m>>, RecordOf[disk[p].rows[m]], RecordOf[q.rows[m]],
                sent, done)
    PROVE  LifecycleStep
<1> DEFINE x == <<p, m>>
<1>1. x \in Rows
  BY MoveOf DEF Kinds
<1>2. Record(disk)[x] = RecordOf[disk[p].rows[m]]
  BY <1>1 DEF Record
<1>3. disk \in [Plans -> Receipts]
  BY DEF ArchiveInv, TypeOK
<1>4. ASSUME NEW y \in Rows
      PROVE  Record(disk')[y] = IF y = x THEN RecordOf[q.rows[m]]
                                ELSE Record(disk)[y]
  <2>1. y[1] \in Plans /\ y[2] \in Messages /\ y = <<y[1], y[2]>>
    BY RowParts
  <2>2. /\ Record(disk')[y] = RecordOf[disk'[y[1]].rows[y[2]]]
        /\ Record(disk)[y] = RecordOf[disk[y[1]].rows[y[2]]]
    BY DEF Record
  <2>3. CASE y = x
    BY <1>3, <2>2, <2>3
  <2>4. CASE y # x /\ y[1] = p
    BY <1>3, <2>1, <2>2, <2>4
  <2>5. CASE y # x /\ y[1] # p
    BY <1>3, <2>1, <2>2, <2>5
  <2> QED BY <2>3, <2>4, <2>5
<1>5. Record(disk') = [Record(disk) EXCEPT ![x] = RecordOf[q.rows[m]]]
  BY <1>1, <1>4 DEF Record
<1> QED BY <1>1, <1>2, <1>5, RowRecorded

(* A rewrite that changes no row, or none at all.                           *)
LEMMA FiledAsIs ==
    ASSUME ArchiveInv, NEW p \in Plans, NEW q \in Receipts,
           disk' = [disk EXCEPT ![p] = q], sent' = sent, done' = done,
           \A n \in PlanRows[p] :
               RecordOf[q.rows[n]] = RecordOf[disk[p].rows[n]]
    PROVE  LifecycleStep
<1>1. ASSUME NEW y \in Rows PROVE Record(disk')[y] = Record(disk)[y]
  <2>1. y[1] \in Plans /\ y[2] \in PlanRows[y[1]]
    BY RowParts
  <2>2. /\ Record(disk')[y] = RecordOf[disk'[y[1]].rows[y[2]]]
        /\ Record(disk)[y] = RecordOf[disk[y[1]].rows[y[2]]]
    BY DEF Record
  <2> QED BY <2>1, <2>2 DEF ArchiveInv, TypeOK
<1>2. Record(disk') = Record(disk)
  BY <1>1 DEF Record
<1> QED BY <1>2, NothingRecorded

(* The ways a worker rewrites its file.                                     *)
Filed(w, q) == UNCHANGED disk \/ Saved(w, q)

(* A step that leaves the receipts and the mail alone is a stutter. *)
LEMMA FilesNothing ==
    ASSUME UNCHANGED <<disk, sent, done>>
    PROVE  LifecycleStep
BY NothingRecorded DEF Record

(* Filing a receipt that differs in one row moves that row along an edge. *)
LEMMA FilesRow ==
    ASSUME ArchiveInv, NEW w \in Workers, pc[w] # "idle", NEW q \in Receipts,
           Filed(w, q), UNCHANGED <<sent, done>>,
           NEW m \in PlanRows[Plan(w)],
           \A n \in Messages \ {m} : q.rows[n] = disk[Plan(w)].rows[n],
           Edge(<<Plan(w), m>>, RecordOf[disk[Plan(w)].rows[m]],
                RecordOf[q.rows[m]], sent, done)
    PROVE  LifecycleStep
<1>1. CASE UNCHANGED disk
  BY <1>1, FilesNothing
<1>2. CASE Saved(w, q)
  <2>1. Plan(w) \in Plans /\ disk' = [disk EXCEPT ![Plan(w)] = q]
    BY <1>2, HolderFacts DEF Saved
  <2> QED BY <2>1, FiledRow
<1> QED BY <1>1, <1>2 DEF Filed

(* Filing a receipt with the rows of the old one is a stutter. *)
LEMMA FilesAsIs ==
    ASSUME ArchiveInv, NEW w \in Workers, pc[w] # "idle", NEW q \in Receipts,
           Filed(w, q), UNCHANGED <<sent, done>>,
           \A n \in Messages : q.rows[n] = disk[Plan(w)].rows[n]
    PROVE  LifecycleStep
<1>1. CASE UNCHANGED disk
  BY <1>1, FilesNothing
<1>2. CASE Saved(w, q)
  <2>1. Plan(w) \in Plans
    BY HolderFacts
  <2>2. \A n \in PlanRows[Plan(w)] :
            RecordOf[q.rows[n]] = RecordOf[disk[Plan(w)].rows[n]]
    BY <2>1, PlanRowsFinite
  <2> QED BY <1>2, <2>1, <2>2, FiledAsIs DEF Saved
<1> QED BY <1>1, <1>2 DEF Filed

(* The receipt in memory at a row that the file still claims.               *)
LEMMA FilesOwnRow ==
    ASSUME ArchiveInv, NEW w \in Workers, pc[w] \in {"outcome", "undo_outcome"},
           Filed(w, mem[w]), UNCHANGED <<sent, done>>
    PROVE  LifecycleStep
<1> DEFINE p == Plan(w)
           m == Cur(w)
<1>1. /\ p \in Plans /\ p = job[w].plan /\ m = job[w].cur /\ mem[w] \in Receipts
      /\ ReceiptTrue(p, mem[w], sent, done)
      /\ WorkerSound(pc[w], job[w], mem[w], disk, sent, done)
  BY HolderFacts
<1>2. m \in PlanRows[p]
  BY <1>1 DEF WorkerSound, At
<1>3. \A n \in Messages \ {m} : mem[w].rows[n] = disk[p].rows[n]
  BY <1>1 DEF WorkerSound
<1>4. RowTrue(<<p, m>>, mem[w].rows[m], sent, done)
  BY <1>1, <1>2 DEF ReceiptTrue, RowsSound
<1>5. sent[<<<<p, m>>, "restore">>] \in Nat
  BY <1>2, <1>1, MoveOf DEF Kinds, ArchiveInv, TypeOK
<1>6. Edge(<<p, m>>, RecordOf[disk[p].rows[m]], RecordOf[mem[w].rows[m]],
           sent, done)
  <2>1. CASE pc[w] = "outcome"
    <3>1. /\ disk[p].rows[m] = "intent"
          /\ mem[w].rows[m] \in {"uncertain", "verified", "unchanged",
                                 "conflicted"}
      BY <1>1, <2>1 DEF WorkerSound, At
    <3>2. RecordOf[disk[p].rows[m]] = "claimed"
      BY <3>1, RecordValues
    <3>3. \/ RecordOf[mem[w].rows[m]] = "claimed"
          \/ /\ RecordOf[mem[w].rows[m]] = "kept"
             /\ <<<<p, m>>, "archive">> \in done
      BY <1>4, <3>1, RecordValues DEF RowTrue
    <3> QED BY <3>2, <3>3 DEF Edge
  <2>2. CASE pc[w] = "undo_outcome"
    <3>1. /\ disk[p].rows[m] = "rollback_intent"
          /\ mem[w].rows[m] \in {"rollback_uncertain", "rolled_back",
                                 "rollback_conflicted"}
      BY <1>1, <2>2 DEF WorkerSound, At
    <3>2. RecordOf[disk[p].rows[m]] = "undoing"
      BY <3>1, RecordValues
    <3>3. CASE mem[w].rows[m] = "rollback_uncertain"
      BY <3>2, <3>3, RecordValues DEF Edge
    <3>4. CASE mem[w].rows[m] = "rolled_back"
      <4>1. <<<<p, m>>, "restore">> \in done
        BY <1>4, <3>4 DEF RowTrue
      <4> QED BY <3>2, <3>4, <4>1, RecordValues DEF Edge
    <3>5. CASE mem[w].rows[m] = "rollback_conflicted"
      <4>1. ~(sent[<<<<p, m>>, "restore">>] > 0)
        BY <1>4, <3>5 DEF RowTrue
      <4>2. sent[<<<<p, m>>, "restore">>] = 0
        BY <1>5, <4>1
      <4> QED BY <3>2, <3>5, <4>2, RecordValues DEF Edge
    <3> QED BY <3>1, <3>3, <3>4, <3>5
  <2> QED BY <2>1, <2>2
<1> QED BY <1>1, <1>2, <1>3, <1>6, FilesRow

LEMMA ApplyRecorded ==
    ASSUME ArchiveInv, NEW w \in Workers, NEW p \in Plans, NEW a \in Approvals,
           Apply(w, p, a)
    PROVE  LifecycleStep
<1>1. /\ Fresh(p) /\ UNCHANGED <<sent, done>>
      /\ disk' = [disk EXCEPT ![p] = Prepared(a, p)]
  BY DEF Apply, serverVars
<1>2. \A m \in Messages : disk[p].rows[m] = "none"
  BY <1>1 DEF Fresh, ArchiveInv, ReceiptTrue, Begun
<1>3. /\ Prepared(a, p) \in Receipts
      /\ \A m \in Messages : Prepared(a, p).rows[m] \in {"none", "unattempted"}
  BY PreparedFacts
<1>4. \A n \in PlanRows[p] :
          RecordOf[Prepared(a, p).rows[n]] = RecordOf[disk[p].rows[n]]
  BY <1>2, <1>3, PlanRowsFinite, RecordValues
<1> QED BY <1>1, <1>3, <1>4, FiledAsIs

LEMMA PreflightRecorded ==
    ASSUME ArchiveInv, NEW w \in Workers, Preflight(w)
    PROVE  LifecycleStep
<1> DEFINE p == job[w].plan
<1>1. pc[w] = "preflight" /\ UNCHANGED <<sent, done>>
  BY DEF Preflight, serverVars
<1>2. /\ Plan(w) = p /\ p \in Plans /\ mem[w] \in Receipts
      /\ WorkerSound("preflight", job[w], mem[w], disk, sent, done)
      /\ job[w] \in Jobs
  BY <1>1, HolderFacts
<1>3. CASE UNCHANGED disk
  BY <1>1, <1>3, FilesNothing
<1>4. ASSUME NEW m \in job[w].todo, NEW status \in {"failed", "conflicted"},
             PersistAndReturn(w, [Row(mem[w], m, status)
                                      EXCEPT !.status = "blocked"])
      PROVE  LifecycleStep
  <2> DEFINE row == Row(mem[w], m, status)
             r == [row EXCEPT !.status = "blocked"]
  <2>1. /\ m \in PlanRows[p] /\ mem[w].rows[m] = "unattempted"
        /\ m \in Messages /\ m # job[w].cur /\ job[w].cur = NoMessage
    BY <1>2, PlanRowsFinite DEF WorkerSound, Ahead, At, ApplySteps
  <2>2. status \in RowStatuses /\ "blocked" \in ReceiptStatuses
    BY DEF RowStatuses, ReceiptStatuses
  <2>3. /\ row \in Receipts /\ row.rows = [mem[w].rows EXCEPT ![m] = status]
    BY <1>2, <2>1, <2>2, RowRewritten
  <2> HIDE DEF row
  <2>4. r \in Receipts /\ r.rows = [mem[w].rows EXCEPT ![m] = status]
    BY <2>2, <2>3, StatusSet
  <2>5. Filed(w, r)
    BY <1>4 DEF row, PersistAndReturn, SaveFails, Filed
  <2> HIDE DEF r
  <2>6. \A n \in Messages : mem[w].rows[n] = disk[p].rows[n]
    BY <1>2, <2>1, ArchiveAssumption DEF WorkerSound
  <2>7. \A n \in Messages : r.rows[n] = IF n = m THEN status ELSE disk[p].rows[n]
    BY <1>2, <2>1, <2>4, <2>6, ReceiptFields
  <2>8. /\ RecordOf[disk[p].rows[m]] = "open"
        /\ RecordOf[r.rows[m]] \in {"open", "claimed"}
    BY <2>1, <2>6, <2>7, RecordValues
  <2>9. Edge(<<p, m>>, RecordOf[disk[p].rows[m]], RecordOf[r.rows[m]], sent, done)
    BY <2>8 DEF Edge
  <2>10. \A n \in Messages \ {m} : r.rows[n] = disk[Plan(w)].rows[n]
    BY <1>2, <2>1, <2>7
  <2>11. m \in PlanRows[Plan(w)] /\ pc[w] # "idle"
    BY <1>1, <1>2, <2>1
  <2>12. Edge(<<Plan(w), m>>, RecordOf[disk[Plan(w)].rows[m]],
              RecordOf[r.rows[m]], sent, done)
    BY <1>2, <2>9
  <2>13. r \in Receipts
    BY <2>4
  <2> QED BY <1>1, <2>5, <2>10, <2>11, <2>12, <2>13, FilesRow
<1> QED BY <1>3, <1>4 DEF Preflight, Go

LEMMA ClaimRecorded ==
    ASSUME ArchiveInv, NEW w \in Workers, Claim(w)
    PROVE  LifecycleStep
<1> DEFINE p == job[w].plan
<1>1. pc[w] = "loop" /\ UNCHANGED <<sent, done>>
  BY DEF Claim, serverVars
<1>2. /\ Plan(w) = p /\ p \in Plans /\ mem[w] \in Receipts
      /\ WorkerSound("loop", job[w], mem[w], disk, sent, done)
  BY <1>1, HolderFacts
<1>3. PICK m \in job[w].todo : UNCHANGED disk \/ Filed(w, Row(mem[w], m, "intent"))
  BY DEF Claim, Go, Persist, SaveFails, Filed
<1> DEFINE r == Row(mem[w], m, "intent")
<1>4. /\ m \in PlanRows[p] /\ mem[w].rows[m] = "unattempted"
      /\ m \in Messages /\ job[w].cur = NoMessage
  BY <1>2, PlanRowsFinite DEF WorkerSound, Ahead, At, ApplySteps
<1>5. \A n \in Messages : mem[w].rows[n] = disk[p].rows[n]
  BY <1>2, <1>4, ArchiveAssumption DEF WorkerSound
<1>6. "intent" \in RowStatuses
  BY DEF RowStatuses
<1>7. r \in Receipts /\ r.rows = [mem[w].rows EXCEPT ![m] = "intent"]
  BY <1>2, <1>4, <1>6, RowRewritten
<1>8. UNCHANGED disk \/ Filed(w, r)
  BY <1>3
<1> HIDE DEF r
<1>9. \A n \in Messages : r.rows[n] = IF n = m THEN "intent" ELSE disk[p].rows[n]
  BY <1>2, <1>4, <1>5, <1>7, ReceiptFields
<1>10. /\ RecordOf[disk[p].rows[m]] = "open" /\ RecordOf[r.rows[m]] = "claimed"
  BY <1>4, <1>5, <1>9, RecordValues
<1>11. Edge(<<p, m>>, RecordOf[disk[p].rows[m]], RecordOf[r.rows[m]], sent, done)
  BY <1>10 DEF Edge
<1>12. Filed(w, r)
  BY <1>8 DEF Filed
<1>13. \A n \in Messages \ {m} : r.rows[n] = disk[Plan(w)].rows[n]
  BY <1>2, <1>4, <1>9
<1>14. m \in PlanRows[Plan(w)] /\ pc[w] # "idle"
  BY <1>1, <1>2, <1>4
<1>15. Edge(<<Plan(w), m>>, RecordOf[disk[Plan(w)].rows[m]],
           RecordOf[r.rows[m]], sent, done)
  BY <1>2, <1>11
<1>16. r \in Receipts
  BY <1>7
<1> QED BY <1>1, <1>12, <1>13, <1>14, <1>15, <1>16, FilesRow

LEMMA FinishRecorded ==
    ASSUME ArchiveInv, NEW w \in Workers, Finish(w)
    PROVE  LifecycleStep
<1> DEFINE p == job[w].plan
           m == job[w].cur
<1>1. pc[w] = "finish" /\ UNCHANGED <<sent, done>> /\ Filed(w, mem[w])
  BY DEF Finish, serverVars, PersistAndReturn, SaveFails, Filed
<1>2. /\ Plan(w) = p /\ p \in Plans /\ mem[w] \in Receipts
      /\ WorkerSound("finish", job[w], mem[w], disk, sent, done)
  BY <1>1, HolderFacts
<1>3. \A n \in Messages : n # m => mem[w].rows[n] = disk[p].rows[n]
  BY <1>2 DEF WorkerSound
<1>4. CASE m = NoMessage
  <2>1. \A n \in Messages : mem[w].rows[n] = disk[p].rows[n]
    BY <1>3, <1>4, ArchiveAssumption
  <2> QED BY <1>1, <1>2, <2>1, FilesAsIs
<1>5. CASE m # NoMessage
  <2>1. /\ m \in PlanRows[p] /\ disk[p].rows[m] = "unattempted"
        /\ mem[w].rows[m] \in {"conflicted", "failed"}
    BY <1>2, <1>5 DEF WorkerSound, At
  <2>2. Edge(<<p, m>>, RecordOf[disk[p].rows[m]], RecordOf[mem[w].rows[m]],
             sent, done)
    BY <2>1, RecordValues DEF Edge
  <2> QED BY <1>1, <1>2, <1>3, <2>1, <2>2, FilesRow
<1> QED BY <1>4, <1>5

LEMMA UndoClaimRecorded ==
    ASSUME ArchiveInv, NEW w \in Workers, UndoClaim(w)
    PROVE  LifecycleStep
<1> DEFINE p == job[w].plan
<1>1. pc[w] = "undo_loop" /\ UNCHANGED <<sent, done>>
  BY DEF UndoClaim, serverVars
<1>2. /\ Plan(w) = p /\ p \in Plans /\ mem[w] \in Receipts
      /\ ReceiptTrue(p, mem[w], sent, done)
      /\ WorkerSound("undo_loop", job[w], mem[w], disk, sent, done)
  BY <1>1, HolderFacts
<1>3. PICK m \in job[w].todo, status \in {"rollback_conflicted", "rollback_intent"} :
          Filed(w, Row(mem[w], m, status))
  BY DEF UndoClaim, Abort, Persist, SaveFails, Filed
<1> DEFINE r == Row(mem[w], m, status)
<1>4. /\ m \in PlanRows[p] /\ mem[w].rows[m] = "verified"
      /\ m \in Messages /\ job[w].cur = NoMessage
  BY <1>2, PlanRowsFinite DEF WorkerSound, Ahead, At, ApplySteps
<1>5. \A n \in Messages : mem[w].rows[n] = disk[p].rows[n]
  BY <1>2, <1>4, ArchiveAssumption DEF WorkerSound
<1>6. status \in RowStatuses
  BY DEF RowStatuses
<1>7. r \in Receipts /\ r.rows = [mem[w].rows EXCEPT ![m] = status]
  BY <1>2, <1>4, <1>6, RowRewritten
<1>8. Filed(w, r)
  BY <1>3
<1> HIDE DEF r
<1>9. \A n \in Messages : r.rows[n] = IF n = m THEN status ELSE disk[p].rows[n]
  BY <1>2, <1>4, <1>5, <1>7, ReceiptFields
<1>10. /\ RecordOf[disk[p].rows[m]] = "kept"
       /\ RecordOf[r.rows[m]] \in {"refused", "undoing"}
  BY <1>4, <1>5, <1>9, RecordValues
<1>11. sent[<<<<p, m>>, "restore">>] = 0
  BY <1>2, <1>4, VerifiedRow DEF ReceiptTrue
<1>12. Edge(<<p, m>>, RecordOf[disk[p].rows[m]], RecordOf[r.rows[m]], sent, done)
  BY <1>10, <1>11 DEF Edge
<1>13. \A n \in Messages \ {m} : r.rows[n] = disk[Plan(w)].rows[n]
  BY <1>2, <1>4, <1>9
<1>14. m \in PlanRows[Plan(w)] /\ pc[w] # "idle"
  BY <1>1, <1>2, <1>4
<1>15. Edge(<<Plan(w), m>>, RecordOf[disk[Plan(w)].rows[m]],
           RecordOf[r.rows[m]], sent, done)
  BY <1>2, <1>12
<1>16. r \in Receipts
  BY <1>7
<1> QED BY <1>1, <1>8, <1>13, <1>14, <1>15, <1>16, FilesRow

LEMMA UndoFinishRecorded ==
    ASSUME ArchiveInv, NEW w \in Workers, UndoFinish(w)
    PROVE  LifecycleStep
<1>1. pc[w] \in {"undo_finish", "undo_loop"} /\ UNCHANGED <<sent, done>>
  BY DEF UndoFinish, serverVars
<1>2. PICK status \in {"rolled_back", "rollback_incomplete"} :
          Filed(w, [mem[w] EXCEPT !.status = status])
  BY DEF UndoFinish, PersistAndReturn, SaveFails, Filed
<1> DEFINE r == [mem[w] EXCEPT !.status = status]
<1>3. /\ Plan(w) = job[w].plan /\ mem[w] \in Receipts
      /\ WorkerSound(pc[w], job[w], mem[w], disk, sent, done)
  BY <1>1, HolderFacts
<1>4. status \in ReceiptStatuses
  BY DEF ReceiptStatuses, RowStatuses
<1>5. r \in Receipts /\ r.rows = mem[w].rows
  BY <1>3, <1>4, StatusSet
<1>6. Filed(w, r)
  BY <1>2
<1> HIDE DEF r
<1>7. job[w].cur = NoMessage
  BY <1>1, <1>3 DEF WorkerSound, At
<1>8. \A n \in Messages : r.rows[n] = disk[Plan(w)].rows[n]
  BY <1>3, <1>5, <1>7, ArchiveAssumption DEF WorkerSound
<1> QED BY <1>1, <1>5, <1>6, <1>8, FilesAsIs

(* A move is handed over.                                                   *)
LEMMA HandRecorded ==
    ASSUME ArchiveInv, NEW w \in Workers, NEW kind \in Kinds, Issue(w, kind),
           Plan(w) \in Plans, Cur(w) \in PlanRows[Plan(w)], UNCHANGED disk,
           sent[<<<<Plan(w), Cur(w)>>, kind>>] = 0,
           RecordOf[disk[Plan(w)].rows[Cur(w)]] =
               (IF kind = "archive" THEN "claimed" ELSE "undoing")
    PROVE  LifecycleStep
<1> DEFINE x == <<Plan(w), Cur(w)>>
<1>1. x \in Rows
  BY MoveOf
<1>2. sent' = [sent EXCEPT ![<<x, kind>>] = 1] /\ done' = done
  BY DEF Issue
<1>3. [r \in Rows |-> RecordOf[disk[r[1]].rows[r[2]]]][x] =
          RecordOf[disk[Plan(w)].rows[Cur(w)]]
  BY <1>1
<1>4. Lifecycle!Hand(x, kind)
  BY <1>1, <1>2, <1>3 DEF Lifecycle!Hand
<1>5. \E k \in Lifecycle!Kinds : Lifecycle!Hand(x, k)
  BY <1>4 DEF Lifecycle!Kinds, Kinds
<1>6. Lifecycle!LifecycleNext
  BY <1>1, <1>5 DEF Lifecycle!LifecycleNext
<1> QED BY <1>6 DEF LifecycleStep

LEMMA DispatchRecorded ==
    ASSUME ArchiveInv, NEW w \in Workers, Dispatch(w)
    PROVE  LifecycleStep
<1>1. pc[w] = "dispatch" /\ UNCHANGED disk
  BY DEF Dispatch, Go
<1>2. /\ Plan(w) \in Plans /\ Cur(w) \in PlanRows[Plan(w)]
      /\ disk[Plan(w)].rows[Cur(w)] = "intent"
      /\ sent[<<<<Plan(w), Cur(w)>>, "archive">>] = 0
  BY <1>1, HolderFacts DEF WorkerSound, At
<1>3. CASE Issue(w, "archive")
  <2>1. RecordOf[disk[Plan(w)].rows[Cur(w)]] = "claimed"
    BY <1>2, RecordValues
  <2> QED BY <1>1, <1>2, <1>3, <2>1, HandRecorded DEF Kinds
<1>4. CASE UNCHANGED <<sent, done>>
  BY <1>1, <1>4, FilesNothing
<1> QED BY <1>3, <1>4 DEF Dispatch, serverVars

LEMMA UndoDispatchRecorded ==
    ASSUME ArchiveInv, NEW w \in Workers, UndoDispatch(w)
    PROVE  LifecycleStep
<1>1. pc[w] = "undo_dispatch" /\ UNCHANGED disk
  BY DEF UndoDispatch, Go
<1>2. /\ Plan(w) \in Plans /\ Cur(w) \in PlanRows[Plan(w)]
      /\ disk[Plan(w)].rows[Cur(w)] = "rollback_intent"
      /\ sent[<<<<Plan(w), Cur(w)>>, "restore">>] = 0
  BY <1>1, HolderFacts DEF WorkerSound, At
<1>3. CASE Issue(w, "restore")
  <2>1. RecordOf[disk[Plan(w)].rows[Cur(w)]] = "undoing"
    BY <1>2, RecordValues
  <2> QED BY <1>1, <1>2, <1>3, <2>1, HandRecorded DEF Kinds
<1>4. CASE UNCHANGED <<sent, done>>
  BY <1>1, <1>4, FilesNothing
<1> QED BY <1>3, <1>4 DEF UndoDispatch, serverVars

LEMMA LandRecorded ==
    ASSUME ArchiveInv, NEW x \in requests, Land(x)
    PROVE  LifecycleStep
<1>1. /\ x \in Moves /\ sent[x] = 1 /\ x \notin done
      /\ done' = done \cup {x} /\ UNCHANGED <<disk, sent>>
  BY DEF ArchiveInv, TypeOK, ServerInv, Land
<1>2. x \in Rows \X Lifecycle!Kinds
  BY <1>1 DEF Moves, Kinds, Lifecycle!Kinds
<1>3. Lifecycle!CarryOut(x)
  BY <1>1 DEF Lifecycle!CarryOut
<1>4. Lifecycle!LifecycleNext
  BY <1>2, <1>3 DEF Lifecycle!LifecycleNext
<1> QED BY <1>4 DEF LifecycleStep

LEMMA LifecycleNextStep == ArchiveInv /\ [Next]_vars => LifecycleStep
<1> SUFFICES ASSUME ArchiveInv, [Next]_vars PROVE LifecycleStep
  OBVIOUS
<1>1. ASSUME NEW w \in Workers, Begin(w) PROVE LifecycleStep
  <2>1. ASSUME NEW p \in Plans, NEW a \in Approvals, Apply(w, p, a)
        PROVE  LifecycleStep
    BY <2>1, ApplyRecorded
  <2>2. ASSUME NEW p \in Plans, Rollback(w, p) PROVE LifecycleStep
    BY <2>2, FilesNothing DEF Rollback, serverVars
  <2> QED BY <1>1, <2>1, <2>2 DEF Begin
<1>2. ASSUME NEW w \in Workers, Step(w) PROVE LifecycleStep
  <2>1. CASE Preflight(w) \/ Claim(w) \/ Finish(w)
    BY <2>1, PreflightRecorded, ClaimRecorded, FinishRecorded
  <2>2. CASE Ceiling(w) \/ AllVerified(w) \/ Await(w) \/ Observe(w)
             \/ UndoAwait(w)
    <3>1. UNCHANGED <<disk, sent, done>>
      BY <2>2 DEF Ceiling, AllVerified, Await, Observe, UndoAwait, Go, serverVars
    <3> QED BY <3>1, FilesNothing
  <2>3. CASE Outcome(w)
    <3>1. pc[w] = "outcome" /\ Filed(w, mem[w]) /\ UNCHANGED <<sent, done>>
      BY <2>3 DEF Outcome, Persist, SaveFails, Filed, serverVars
    <3> QED BY <3>1, FilesOwnRow
  <2>4. CASE UndoOutcome(w)
    <3>1. pc[w] = "undo_outcome" /\ Filed(w, mem[w]) /\ UNCHANGED <<sent, done>>
      BY <2>4 DEF UndoOutcome, Persist, SaveFails, Filed, serverVars
    <3> QED BY <3>1, FilesOwnRow
  <2>5. CASE Dispatch(w) \/ UndoDispatch(w)
    BY <2>5, DispatchRecorded, UndoDispatchRecorded
  <2>6. CASE UndoClaim(w) \/ UndoFinish(w)
    BY <2>6, UndoClaimRecorded, UndoFinishRecorded
  <2> QED BY <1>2, <2>1, <2>2, <2>3, <2>4, <2>5, <2>6 DEF Step
<1>3. ASSUME NEW w \in Workers, Crash(w) PROVE LifecycleStep
  BY <1>3, FilesNothing DEF Crash, Abort, serverVars
<1>4. ASSUME NEW p \in Plans, BuildPlan(p) PROVE LifecycleStep
  BY <1>4, FilesNothing DEF BuildPlan, serverVars
<1>5. ASSUME NEW x \in requests, Land(x) PROVE LifecycleStep
  BY <1>5, LandRecorded
<1>6. ASSUME NEW x \in requests, Lose(x) PROVE LifecycleStep
  BY <1>6, FilesNothing DEF Lose
<1>7. CASE Person
  <2>1. UNCHANGED <<disk, sent, done>>
    BY <1>7 DEF Person, PersonClaims, PersonMoves
  <2> QED BY <2>1, FilesNothing
<1>8. CASE UNCHANGED vars
  BY <1>8, FilesNothing DEF vars
<1> QED BY <1>1, <1>2, <1>3, <1>4, <1>5, <1>6, <1>7, <1>8 DEF Next

LEMMA LifecycleStarts == Init => Lifecycle!LifecycleInit
<1> SUFFICES ASSUME Init PROVE Lifecycle!LifecycleInit
  OBVIOUS
<1>1. ASSUME NEW r \in Rows PROVE RecordOf[disk[r[1]].rows[r[2]]] = "open"
  <2>1. r[1] \in Plans /\ r[2] \in Messages
    BY RowParts
  <2>2. disk[r[1]].rows[r[2]] = "none"
    BY <2>1 DEF Init, NoReceipt
  <2> QED BY <2>2, RecordValues
<1>2. sent = [x \in Rows \X Lifecycle!Kinds |-> 0] /\ done = {}
  BY DEF Init, Moves, Kinds, Lifecycle!Kinds
<1> QED BY <1>1, <1>2 DEF Lifecycle!LifecycleInit

(* Archiving implements its abstract specification: whatever the workers,   *)
(* the server, failing rewrites and people do, a reader of the receipts     *)
(* sees every message go through ArchiveLifecycle and nothing else.         *)
THEOREM ArchivingImplementsLifecycle == Spec => ImplementsLifecycle
<1>1. Init => Lifecycle!LifecycleInit
  BY LifecycleStarts
<1>2. ArchiveInv /\ [Next]_vars =>
          [Lifecycle!LifecycleNext]_(Lifecycle!lifecycleVars)
  BY LifecycleNextStep DEF LifecycleStep
<1> QED BY <1>1, <1>2, ReceiptInvariant, PTL
        DEF Spec, ImplementsLifecycle, Lifecycle!Spec
=============================================================================
