----------------------- MODULE FlagTransactionsProofs -----------------------
(***************************************************************************)
(* Type correctness of the transaction engine; that it writes at most once  *)
(* per mutation; and, at the end, why the two ledger answers it keeps stand *)
(* for the rows of the file: for every number of workers, plans, messages,  *)
(* approvals and mutations.                                                 *)
(*                                                                         *)
(* Every step of a worker is shown to be a Moved step: it leaves the other *)
(* workers alone and its own locals well formed; and to leave KeptData:    *)
(* the shared state keeps its types and no authoritative row is taken back.*)
(***************************************************************************)
EXTENDS FlagInvariants, TLAPS

LEMMA InitType == Init => TypeInv
  <1> SUFFICES ASSUME Init PROVE TypeInv
    OBVIOUS
  <1>1. NoJob \in Jobs
    BY FlagAssumption DEF NoJob, Jobs, Ops, Operations, ResultStates
  <1>2. TypeOK
    BY <1>1, FlagAssumption DEF Init, TypeOK, Records, Steps
  <1>3. Working
    BY DEF Init, Working, HoldingSteps, DispatchSteps, ApplySteps, RowSteps,
       RestoreSteps
  <1>4. QED
    BY <1>2, <1>3 DEF TypeInv

(* Rows worker p can write are well formed. *)
LEMMA RowType ==
    ASSUME TypeInv, NEW p \in Workers, pc[p] # "idle",
           NEW m \in Mutations, NEW s \in Statuses
    PROVE  RowFor(p, m, s) \in Rows
  <1>1. job[p].approval \in Approvals /\ To(p, m) \in Colors
    BY FlagAssumption DEF TypeInv, TypeOK, Working, To
  <1>2. QED
    BY <1>1 DEF RowFor, Rows

(* An append, whatever becomes of it, keeps the ledger well formed and never   *)
(* takes back an authoritative row.                                          *)
LEMMA AppendType ==
    ASSUME TypeOK, NEW row \in Rows, Appended(row) \/ AppendFailed(row)
    PROVE  /\ file' \in {"ok", "unterminated", "corrupt"}
           /\ latest' \in [Mutations -> Statuses \cup {"none"}]
           /\ auth' \in [Mutations -> Records]
           /\ \A m \in Mutations : auth[m].status # "none" => auth'[m].status # "none"
  <1>1. row.status \in AuthoritativeStatuses => RecordOf(row) \in Records
    BY DEF Rows, RecordOf, Records
  <1>2. row.status \in AuthoritativeStatuses => RecordOf(row).status # "none"
    BY DEF RecordOf, AuthoritativeStatuses
  <1>3. CASE Stored(row) /\ file' \in {"ok", "unterminated"}
    BY <1>1, <1>2, <1>3 DEF TypeOK, Stored, LatestAfter, AuthorityAfter, Rows
  <1>4. CASE UNCHANGED <<latest, auth>> /\ file' \in {file, "corrupt"}
    BY <1>4 DEF TypeOK
  <1>5. QED
    BY <1>3, <1>4 DEF Appended, AppendFailed, ledgerVars

(* Locals of the same call: its operation, approval and batch never change. *)
SameCall(j, k) == j.op = k.op /\ j.approval = k.approval /\ j.scope = k.scope

(* Worker p took a step that leaves the other workers and the types alone. *)
Moved(p) ==
    /\ pc' \in [Workers -> Steps]
    /\ cur' \in [Workers -> Mutations \cup {NoMutation}]
    /\ job' \in [Workers -> Jobs]
    /\ \A q \in Workers \ {p} :
          pc'[q] = pc[q] /\ cur'[q] = cur[q] /\ job'[q] = job[q]
    /\ pc'[p] # "idle" => job'[p].approval \in Approvals
    /\ pc'[p] \in ApplySteps => job'[p].op \in {"apply", "canary"}
    /\ pc'[p] \in RestoreSteps => job'[p].op \notin {"apply", "canary"}
    /\ pc'[p] \in HoldingSteps =>
          /\ cur'[p] \in Mutations
          /\ job'[p].op \notin {"apply", "canary"} => auth[cur'[p]].status # "none"
    /\ pc[p] # "idle" /\ pc'[p] # "idle" => SameCall(job'[p], job[p])
    /\ pc'[p] = "done" =>
          job'[p].todo = {} /\ job'[p].pending = {} /\ job'[p].bad = {}

(* The durable and the shared state keep their types, and no authoritative     *)
(* row is taken back.                                                        *)
KeptData ==
    /\ native' \in [Messages -> Colors]
    /\ requests' \subseteq Requests
    /\ lands' \in [Writes -> Nat]
    /\ overrides' \in [Messages -> Override \cup {NoOverride}]
    /\ file' \in {"ok", "unterminated", "corrupt"}
    /\ latest' \in [Mutations -> Statuses \cup {"none"}]
    /\ auth' \in [Mutations -> Records]
    /\ lock' \in [Plans -> Workers \cup {Nobody}]
    /\ \A m \in Mutations : auth[m].status # "none" => auth'[m].status # "none"

LEMMA MovedType ==
    ASSUME TypeInv, NEW p \in Workers, Moved(p), KeptData
    PROVE  TypeInv'
BY DEF TypeInv, TypeOK, Working, Kind, Moved, KeptData

(* Returning a result is a Moved step. *)
LEMMA FinishMoves ==
    ASSUME TypeInv, NEW p \in Workers, NEW j \in Jobs,
           j.approval \in Approvals, SameCall(j, job[p]), Finish(p, j)
    PROVE  Moved(p)
  <1> DEFINE f == [j EXCEPT !.todo = {}, !.pending = {}, !.bad = {}, !.seen = Unknown]
  <1>1. /\ f \in Jobs /\ f.approval \in Approvals /\ SameCall(f, job[p])
        /\ f.todo = {} /\ f.pending = {} /\ f.bad = {}
    BY DEF Jobs, SameCall
  <1>2. /\ pc' = [pc EXCEPT ![p] = "done"]
        /\ cur' = [cur EXCEPT ![p] = NoMutation]
        /\ job' = [job EXCEPT ![p] = f]
    BY DEF Finish, Goto, SetJob
  <1>3. QED
    <2> HIDE DEF f
    <2> QED
      BY <1>1, <1>2
      DEF TypeInv, TypeOK, Steps, Moved, HoldingSteps, DispatchSteps, ApplySteps,
          RowSteps, RestoreSteps

(* What TypeInv says of one worker's locals. *)
LEMMA JobType ==
    ASSUME TypeInv, NEW p \in Workers
    PROVE  /\ job[p] \in Jobs
           /\ pc[p] # "idle" => job[p].approval \in Approvals
           /\ job[p].scope \subseteq Mutations /\ job[p].todo \subseteq Mutations
           /\ job[p].pending \subseteq Mutations /\ job[p].bad \subseteq Mutations
           /\ job[p].already \subseteq Mutations
           /\ job[p].seen \in Colors \cup {Unknown}
           /\ pc[p] \in HoldingSteps => cur[p] \in Mutations
  <1>1. job[p] \in Jobs
    BY DEF TypeInv, TypeOK
  <1>2. QED
    BY <1>1 DEF TypeInv, Working, Jobs

(* So is the outer handler, *)
LEMMA HandlerMoves ==
    ASSUME TypeInv, NEW p \in Workers, pc[p] # "idle", OuterHandler(p)
    PROVE  Moved(p)
  <1> DEFINE k == job[p]
             j == [k EXCEPT !.status = "blocked", !.writes = 0,
                            !.verified = {}, !.failed = {},
                            !.unattempted = {}, !.already = {}]
  <1>1. k \in Jobs /\ k.approval \in Approvals
    BY JobType
  <1>2. Finish(p, j)
    BY DEF OuterHandler
  <1>3. j \in Jobs /\ SameCall(j, k)
    <2> HIDE DEF k
    <2> QED BY <1>1 DEF Jobs, ResultStates, SameCall
  <1>4. QED
    <2> HIDE DEF j
    <2> QED BY <1>1, <1>2, <1>3, FinishMoves DEF SameCall

(* a blocked batch, *)
LEMMA BlockedMoves ==
    ASSUME TypeInv, NEW p \in Workers, pc[p] # "idle",
           NEW B \in SUBSET Mutations, NEW R \in SUBSET Mutations,
           NEW A \in SUBSET Mutations, Blocked(p, B, R, A)
    PROVE  Moved(p)
  <1> DEFINE k == job[p]
             j == [k EXCEPT !.status = "blocked", !.failed = B,
                            !.unattempted = R, !.already = A]
  <1>1. k \in Jobs /\ k.approval \in Approvals
    BY JobType
  <1>2. Finish(p, j)
    BY DEF Blocked
  <1>3. j \in Jobs /\ SameCall(j, k)
    <2> HIDE DEF k
    <2> QED BY <1>1 DEF Jobs, ResultStates, SameCall
  <1>4. QED
    <2> HIDE DEF j
    <2> QED BY <1>1, <1>2, <1>3, FinishMoves DEF SameCall

(* A worker that goes on inside its call keeps the types when its new locals  *)
(* are well formed and a held mutation is one it may hold.                   *)
LEMMA StepMoves ==
    ASSUME TypeInv, NEW p \in Workers, NEW s \in Steps,
           NEW c \in Mutations \cup {NoMutation}, NEW j \in Jobs,
           j.approval \in Approvals,
           s \in ApplySteps => j.op \in {"apply", "canary"},
           s \in RestoreSteps => j.op \notin {"apply", "canary"},
           s \in HoldingSteps => c \in Mutations,
           s \in HoldingSteps /\ j.op \notin {"apply", "canary"} =>
               auth[c].status # "none",
           pc' = [pc EXCEPT ![p] = s], cur' = [cur EXCEPT ![p] = c],
           SetJob(p, j), s # "done", pc[p] # "idle" => SameCall(j, job[p])
    PROVE  Moved(p)
BY DEF TypeInv, TypeOK, Moved, SetJob

(* a failed item, *)
LEMMA FailMoves ==
    ASSUME TypeInv, NEW p \in Workers, pc[p] # "idle",
           NEW m \in Mutations,
           NEW why \in {"ambiguous", "refused", "private_state"},
           Fail(p, m, why)
    PROVE  Moved(p)
  <1> DEFINE k == job[p]
             st == FailureStatus(p, why)
             rest == k.pending \ {m}
             j == [k EXCEPT !.status = st,
                            !.failed = @ \cup {m}, !.unattempted = rest]
             f == [j EXCEPT !.todo = rest, !.pending = {}, !.seen = Unknown]
  <1>1. k \in Jobs /\ k.approval \in Approvals
    BY JobType
  <1>2. st \in ResultStates
    BY DEF FailureStatus, ApplyFailureStatus, RestoreFailureStatus, ResultStates
  <1>3. j \in Jobs /\ SameCall(j, k) /\ f \in Jobs /\ SameCall(f, k)
    <2> HIDE DEF k, st
    <2>1. rest \subseteq Mutations
      BY <1>1 DEF Jobs
    <2>2. j \in Jobs /\ SameCall(j, k)
      <3> HIDE DEF rest
      <3> QED BY <1>1, <1>2, <2>1 DEF Jobs, SameCall
    <2>3. QED
      <3> HIDE DEF rest, j
      <3> QED BY <2>1, <2>2 DEF Jobs, SameCall
  <1>4. CASE Kind(p) = "apply"
    <2>1. /\ pc' = [pc EXCEPT ![p] = "freeze"]
          /\ cur' = [cur EXCEPT ![p] = NoMutation]
          /\ SetJob(p, f)
      BY <1>4 DEF Fail, Goto
    <2>2. /\ "freeze" \in Steps
          /\ "freeze" \notin HoldingSteps
          /\ "freeze" \notin RestoreSteps /\ "freeze" # "done"
      BY DEF Steps, ApplySteps, RowSteps, RestoreSteps, HoldingSteps, DispatchSteps
    <2>3. k.op \in {"apply", "canary"}
      BY <1>4 DEF Kind
    <2>4. QED
      <3> HIDE DEF f
      <3> QED BY <1>1, <1>3, <2>1, <2>2, <2>3, StepMoves DEF SameCall
  <1>5. CASE Kind(p) # "apply"
    <2>1. Finish(p, j)
      BY <1>5 DEF Fail
    <2>2. QED
      <3> HIDE DEF j
      <3> QED BY <1>1, <1>3, <2>1, FinishMoves DEF SameCall
  <1>6. QED
    BY <1>4, <1>5
-----------------------------------------------------------------------------
(* The three shapes of a step that stays inside the call, and the three of    *)
(* what it does to shared state.                                             *)

(* going to another step, *)
LEMMA GotoMoves ==
    ASSUME TypeInv, NEW p \in Workers, pc[p] # "idle", NEW s \in Steps,
           s \in HoldingSteps => pc[p] \in HoldingSteps,
           s \in ApplySteps => Kind(p) = "apply",
           s \in RestoreSteps => Kind(p) = "restore",
           s # "done", Goto(p, s), UNCHANGED <<cur, job>>
    PROVE  Moved(p)
BY DEF TypeInv, TypeOK, Working, Kind, Moved, Goto, SameCall

(* changing a local variable, *)
LEMMA LocalMoves ==
    ASSUME TypeInv, NEW p \in Workers, pc[p] # "idle", NEW j \in Jobs,
           SameCall(j, job[p]), pc[p] # "done",
           SetJob(p, j), UNCHANGED <<pc, cur>>
    PROVE  Moved(p)
BY DEF TypeInv, TypeOK, Working, Kind, Moved, SetJob, SameCall

(* and doing both at once. *)
LEMMA JobMoves ==
    ASSUME TypeInv, NEW p \in Workers, pc[p] # "idle", NEW s \in Steps,
           NEW j \in Jobs, SameCall(j, job[p]), s # "done",
           s \in HoldingSteps => pc[p] \in HoldingSteps,
           s \in ApplySteps => Kind(p) = "apply",
           s \in RestoreSteps => Kind(p) = "restore",
           Goto(p, s), SetJob(p, j), UNCHANGED cur
    PROVE  Moved(p)
BY DEF TypeInv, TypeOK, Working, Kind, Moved, Goto, SetJob, SameCall

(* A step that leaves the shared state alone keeps its types. *)
LEMMA SameData ==
    ASSUME TypeInv, UNCHANGED <<mailVars, overrides, ledgerVars, lock>>
    PROVE  KeptData
BY DEF TypeInv, TypeOK, KeptData, mailVars, ledgerVars

(* An append keeps the types, however it fails. *)
LEMMA AppendKept ==
    ASSUME TypeInv, NEW row \in Rows, Appended(row) \/ AppendFailed(row),
           UNCHANGED <<mailVars, overrides, lock>>
    PROVE  KeptData
BY AppendType DEF TypeInv, TypeOK, KeptData, mailVars

(* So does saving an override. *)
LEMMA OverrideKept ==
    ASSUME TypeInv, NEW m \in Mutations, NEW e \in Colors,
           NEW o \in Colors \cup {Unknown},
           SaveOverride(m, e, o) \/ UNCHANGED overrides,
           UNCHANGED <<mailVars, ledgerVars, lock>>
    PROVE  KeptData
BY FlagAssumption DEF TypeInv, TypeOK, KeptData, mailVars, ledgerVars,
   SaveOverride, Override

-----------------------------------------------------------------------------
(* One lemma per action of a worker inside a call.                           *)

LEMMA AuthorizeMoves ==
    ASSUME TypeInv, NEW p \in Workers, Authorize(p)
    PROVE  Moved(p) /\ KeptData
  <1> DEFINE S == job[p].scope
             applied == {m \in S : State(m) = "verified"}
             undone == {m \in S : State(m) = "rolled_back"}
             k == job[p]
             j == [k EXCEPT !.todo = applied, !.already = applied, !.bad = undone,
                            !.pending = S \ (applied \cup undone)]
  <1>1. pc[p] = "authorize" /\ KeptData
    BY SameData DEF Authorize
  <1>2. k \in Jobs /\ S \subseteq Mutations
    BY JobType
  <1>3. \/ OuterHandler(p)
        \/ \E B, R, A \in SUBSET S : Blocked(p, B, R, A)
        \/ Goto(p, "replay") /\ SetJob(p, j) /\ UNCHANGED cur
    <2> DEFINE claimed == {m \in S : latest[m] # "none"}
               frozen == {m \in S : Frozen(m)}
               suppressed == {m \in S : Suppressed(m)}
    <2>1. CASE OuterHandler(p)
      BY <2>1
    <2>2. CASE Blocked(p, claimed, {}, {})
      BY <2>2
    <2>3. CASE \E B \in SUBSET S :
                  Blocked(p, B \cup undone, S \ (B \cup undone \cup applied),
                          applied \ B)
      BY <2>3
    <2>4. CASE Blocked(p, {}, S, {})
      BY <2>4
    <2>5. CASE Goto(p, "replay") /\ SetJob(p, j) /\ UNCHANGED cur
      BY <2>5
    <2>6. frozen \in SUBSET S /\ suppressed \in SUBSET S
      OBVIOUS
    <2>7. QED
      BY <2>1, <2>2, <2>3, <2>4, <2>5, <2>6 DEF Authorize
  <1>4. CASE OuterHandler(p)
    BY <1>1, <1>4, HandlerMoves
  <1>5. CASE \E B, R, A \in SUBSET S : Blocked(p, B, R, A)
    BY <1>1, <1>2, <1>5, BlockedMoves
  <1>6. CASE Goto(p, "replay") /\ SetJob(p, j) /\ UNCHANGED cur
    <2>1. j \in Jobs /\ SameCall(j, k)
      <3>1. applied \in SUBSET Mutations /\ undone \in SUBSET Mutations
        BY <1>2
      <3>2. S \ (applied \cup undone) \in SUBSET Mutations
        BY <1>2
      <3> HIDE DEF applied, undone, k, S
      <3>3. QED
        BY <1>2, <3>1, <3>2 DEF Jobs, SameCall
    <2>2. Kind(p) = "apply"
      BY <1>1 DEF TypeInv, Working, ApplySteps
    <2>3. QED
      <3> HIDE DEF j
      <3> QED
        BY <1>1, <1>6, <2>1, <2>2, JobMoves
        DEF Steps, ApplySteps, RowSteps, RestoreSteps, HoldingSteps, DispatchSteps
  <1>7. QED
    BY <1>1, <1>3, <1>4, <1>5, <1>6

LEMMA LogRowMoves ==
    ASSUME TypeInv, NEW p \in Workers, NEW m \in Mutations, LogRow(p, m)
    PROVE  Moved(p) /\ KeptData
  <1> DEFINE row == RowFor(p, m, RowStatus(pc[p]))
             k == job[p]
             t == [k EXCEPT !.todo = @ \ {m}]
             s == IF k.writes > 0 THEN "ambiguous" ELSE "blocked"
             f == [k EXCEPT !.status = s]
  <1>1. pc[p] # "idle" /\ pc[p] # "done"
    BY DEF LogRow, RowSteps
  <1>2. row \in Rows
    BY <1>1, RowType DEF RowStatus, Statuses
  <1>3. k \in Jobs /\ k.approval \in Approvals /\ k.todo \subseteq Mutations
    BY <1>1, JobType
  <1>4. KeptData
    BY <1>2, AppendKept DEF LogRow
  <1>5. CASE SetJob(p, t) /\ UNCHANGED <<pc, cur>>
    <2>1. t \in Jobs /\ SameCall(t, k)
      <3> HIDE DEF k
      <3> QED BY <1>3 DEF Jobs, SameCall
    <2>2. QED
      <3> HIDE DEF t
      <3> QED BY <1>1, <1>4, <1>5, <2>1, LocalMoves DEF SameCall
  <1>6. CASE Finish(p, f)
    <2>1. f \in Jobs /\ SameCall(f, k)
      <3>1. s \in ResultStates
        BY DEF ResultStates
      <3> HIDE DEF k, s
      <3> QED BY <1>3, <3>1 DEF Jobs, SameCall
    <2>2. QED
      <3> HIDE DEF f
      <3> QED BY <1>3, <1>4, <1>6, <2>1, FinishMoves DEF SameCall
  <1>7. CASE OuterHandler(p)
    BY <1>1, <1>4, <1>7, HandlerMoves
  <1>8. QED
    BY <1>5, <1>6, <1>7 DEF LogRow

(* A phase change: a new group of rows. *)
LEMMA ProceedMoves ==
    ASSUME TypeInv, NEW p \in Workers, pc[p] \in ApplySteps,
           NEW s \in {"refuse", "preflight", "refreeze", "block", "pass", "loop"},
           NEW S \in SUBSET Mutations, Proceed(p, s, S)
    PROVE  Moved(p)
  <1> DEFINE k == job[p]
             j == [k EXCEPT !.todo = S]
  <1>1. k \in Jobs
    BY JobType
  <1>2. j \in Jobs /\ SameCall(j, k)
    <2> HIDE DEF k
    <2> QED BY <1>1 DEF Jobs, SameCall
  <1>3. Kind(p) = "apply" /\ pc[p] # "idle"
    BY DEF TypeInv, Working, ApplySteps, RowSteps
  <1>4. Goto(p, s) /\ SetJob(p, j) /\ UNCHANGED cur
    BY DEF Proceed
  <1>5. QED
    <2> HIDE DEF j
    <2> QED
      BY <1>2, <1>3, <1>4, JobMoves
      DEF Steps, ApplySteps, RowSteps, RestoreSteps, HoldingSteps, DispatchSteps

(* A call that ends without touching anything but its status and one set. *)
LEMMA StatusMoves ==
    ASSUME TypeInv, NEW p \in Workers, pc[p] # "idle", NEW s \in ResultStates,
           NEW S \in SUBSET Mutations,
           \/ Finish(p, [job[p] EXCEPT !.status = s])
           \/ Finish(p, [job[p] EXCEPT !.status = s, !.unattempted = S])
           \/ Finish(p, [job[p] EXCEPT !.status = s, !.already = S])
           \/ Finish(p, job[p])
    PROVE  Moved(p)
  <1> DEFINE k == job[p]
             a == [k EXCEPT !.status = s]
             b == [k EXCEPT !.status = s, !.unattempted = S]
             c == [k EXCEPT !.status = s, !.already = S]
  <1>1. k \in Jobs /\ k.approval \in Approvals
    BY JobType
  <1>2. /\ a \in Jobs /\ SameCall(a, k)
        /\ b \in Jobs /\ SameCall(b, k)
        /\ c \in Jobs /\ SameCall(c, k)
    <2> HIDE DEF k
    <2>1. a \in Jobs /\ SameCall(a, k)
      BY <1>1 DEF Jobs, SameCall
    <2>2. b \in Jobs /\ SameCall(b, k)
      BY <1>1 DEF Jobs, SameCall
    <2>3. c \in Jobs /\ SameCall(c, k)
      BY <1>1 DEF Jobs, SameCall
    <2>4. QED
      BY <2>1, <2>2, <2>3
  <1>3. Finish(p, a) \/ Finish(p, b) \/ Finish(p, c) \/ Finish(p, k)
    OBVIOUS
  <1>4. QED
    <2> HIDE DEF a, b, c
    <2> QED BY <1>1, <1>2, <1>3, FinishMoves DEF SameCall

LEMMA NextPhaseMoves ==
    ASSUME TypeInv, NEW p \in Workers, NextPhase(p)
    PROVE  Moved(p) /\ KeptData
  <1>1. KeptData
    BY SameData DEF NextPhase
  <1>2. pc[p] \in ApplySteps /\ pc[p] # "idle"
    BY DEF NextPhase, ApplySteps, RowSteps
  <1>3. /\ job[p].pending \subseteq Mutations /\ job[p].bad \subseteq Mutations
        /\ job[p].already \subseteq Mutations
    BY JobType
  <1>4. \/ \E s \in {"refuse", "preflight", "refreeze", "block", "pass", "loop"},
             S \in {{}, job[p].bad, job[p].pending} : Proceed(p, s, S)
        \/ \E R \in {job[p].pending, job[p].pending \ job[p].bad} :
             Blocked(p, job[p].bad, R, job[p].already)
        \/ Finish(p, [job[p] EXCEPT !.status = "already_applied"])
        \/ Finish(p, job[p])
    BY DEF NextPhase
  <1>5. CASE \E s \in {"refuse", "preflight", "refreeze", "block", "pass", "loop"},
               S \in {{}, job[p].bad, job[p].pending} : Proceed(p, s, S)
    BY <1>1, <1>2, <1>3, <1>5, ProceedMoves
  <1>6. CASE \E R \in {job[p].pending, job[p].pending \ job[p].bad} :
               Blocked(p, job[p].bad, R, job[p].already)
    BY <1>1, <1>2, <1>3, <1>6, BlockedMoves
  <1>7. CASE \/ Finish(p, [job[p] EXCEPT !.status = "already_applied"])
             \/ Finish(p, job[p])
    BY <1>1, <1>2, <1>7, StatusMoves DEF ResultStates
  <1>8. QED
    BY <1>4, <1>5, <1>6, <1>7
LEMMA PreflightMoves ==
    ASSUME TypeInv, NEW p \in Workers, NEW m \in Mutations, Preflight(p, m)
    PROVE  Moved(p) /\ KeptData
  <1> DEFINE k == job[p]
             a == [k EXCEPT !.todo = @ \ {m}]
             b == [k EXCEPT !.todo = @ \ {m}, !.bad = @ \cup {m}]
  <1>1. KeptData /\ pc[p] = "preflight"
    BY SameData DEF Preflight
  <1>2. k \in Jobs
    BY JobType
  <1>3. a \in Jobs /\ SameCall(a, k)
    <2> HIDE DEF k
    <2> QED BY <1>2 DEF Jobs, SameCall
  <1>4. b \in Jobs /\ SameCall(b, k)
    <2> HIDE DEF k
    <2> QED BY <1>2 DEF Jobs, SameCall
  <1>5. /\ SetJob(p, a) \/ SetJob(p, b)
        /\ UNCHANGED <<pc, cur>>
    BY DEF Preflight
  <1>6. QED
    <2> HIDE DEF a, b
    <2> QED BY <1>1, <1>3, <1>4, <1>5, LocalMoves DEF SameCall

LEMMA LoopEndMoves ==
    ASSUME TypeInv, NEW p \in Workers,
           Deadline(p) \/ AllApplied(p) \/ AllRestored(p)
    PROVE  Moved(p) /\ KeptData
  <1> DEFINE st == IF job[p].writes > 0 THEN "partially_failed" ELSE "blocked"
  <1>1. KeptData /\ pc[p] # "idle"
    BY SameData DEF Deadline, AllApplied, AllRestored
  <1>2. st \in ResultStates /\ {"applied", "rolled_back"} \subseteq ResultStates
    BY DEF ResultStates
  <1>3. job[p].pending \in SUBSET Mutations
    BY JobType
  <1>4. \/ Finish(p, [job[p] EXCEPT !.status = st, !.unattempted = job[p].pending])
        \/ Finish(p, [job[p] EXCEPT !.status = "applied"])
        \/ Finish(p, [job[p] EXCEPT !.status = "rolled_back"])
    BY DEF Deadline, AllApplied, AllRestored
  <1>5. QED
    <2> HIDE DEF st
    <2> QED BY <1>1, <1>2, <1>3, <1>4, StatusMoves

LEMMA ClaimApplyMoves ==
    ASSUME TypeInv, NEW p \in Workers, NEW m \in Mutations, ClaimApply(p, m)
    PROVE  Moved(p) /\ KeptData
  <1> DEFINE row == RowFor(p, m, "applying")
             k == job[p]
             j == [k EXCEPT !.pending = @ \ {m}]
             st == IF k.writes > 0 THEN "ambiguous" ELSE "blocked"
  <1>1. pc[p] = "loop"
    BY DEF ClaimApply
  <1>2. row \in Rows
    BY <1>1, RowType DEF Statuses
  <1>3. KeptData
    BY <1>2, AppendKept DEF ClaimApply
  <1>4. k \in Jobs /\ k.approval \in Approvals /\ k.pending \in SUBSET Mutations
    BY <1>1, JobType
  <1>5. k.op \in {"apply", "canary"}
    BY <1>1 DEF TypeInv, Working, Kind, ApplySteps
  <1>6. CASE /\ pc' = [pc EXCEPT ![p] = "recheck"] /\ cur' = [cur EXCEPT ![p] = m]
             /\ SetJob(p, j)
    <2>1. j \in Jobs /\ SameCall(j, k)
      <3> HIDE DEF k
      <3> QED BY <1>4 DEF Jobs, SameCall
    <2>2. "recheck" \in Steps /\ "recheck" \notin RestoreSteps
      BY DEF Steps, ApplySteps, RestoreSteps
    <2>3. QED
      <3> HIDE DEF j
      <3> QED BY <1>3, <1>4, <1>5, <1>6, <2>1, <2>2, StepMoves DEF SameCall
  <1>7. CASE Finish(p, [k EXCEPT !.status = st, !.unattempted = k.pending])
    <2>1. st \in ResultStates
      BY DEF ResultStates
    <2>2. QED
      <3> HIDE DEF st
      <3> QED BY <1>1, <1>3, <1>4, <1>7, <2>1, StatusMoves
  <1>8. QED
    BY <1>6, <1>7 DEF ClaimApply, Goto

LEMMA GotoOnlyMoves ==
    ASSUME TypeInv, NEW p \in Workers, Recheck(p) \/ RecordAutomationState(p)
    PROVE  Moved(p) /\ KeptData
  <1>1. KeptData
    BY SameData DEF Recheck, RecordAutomationState
  <1>2. /\ pc[p] \in {"recheck", "private_state"}
        /\ UNCHANGED <<cur, job>>
        /\ \E s \in {"refused", "send", "final", "private_failed"} : Goto(p, s)
    BY DEF Recheck, RecordAutomationState
  <1>3. Kind(p) = "apply"
    BY <1>2 DEF TypeInv, Working, ApplySteps
  <1>4. QED
    BY <1>1, <1>2, <1>3, GotoMoves
    DEF Steps, ApplySteps, RowSteps, RestoreSteps, HoldingSteps, DispatchSteps

(* The flags a write works with are nameable ones. *)
LEMMA FlagTypes ==
    ASSUME TypeInv, NEW p \in Workers, pc[p] \in HoldingSteps
    PROVE  /\ cur[p] \in Mutations /\ pc[p] # "idle"
           /\ Kind(p) \in Kinds
           /\ From(p, cur[p]) \in Colors /\ To(p, cur[p]) \in Colors
           /\ Kind(p) = "restore" => auth[cur[p]].intended \in Colors
  <1>1. cur[p] \in Mutations /\ pc[p] # "idle"
    BY DEF TypeInv, Working, HoldingSteps, DispatchSteps
  <1>2. Kind(p) \in Kinds
    BY DEF Kind, Kinds
  <1>3. job[p].approval \in Approvals
    BY <1>1, JobType
  <1>4. CASE Kind(p) = "apply"
    BY <1>1, <1>2, <1>3, <1>4, FlagAssumption DEF From, To
  <1>5. CASE Kind(p) = "restore"
    <2>1. auth[cur[p]] \in Records /\ auth[cur[p]].status # "none"
      BY <1>1, <1>5 DEF TypeInv, TypeOK, Working
    <2>2. auth[cur[p]].intended \in Colors
      BY <2>1 DEF Records, NoRecord
    <2>3. QED
      BY <1>1, <1>2, <1>5, <2>2, FlagAssumption DEF From, To
  <1>6. QED
    BY <1>2, <1>4, <1>5 DEF Kinds

LEMMA SendMoves ==
    ASSUME TypeInv, NEW p \in Workers, Send(p)
    PROVE  Moved(p) /\ KeptData
  <1> DEFINE k == job[p]
             j == [k EXCEPT !.sent = @ \cup {cur[p]}]
             q == [mutation |-> cur[p], kind |-> Kind(p), by |-> p,
                   from |-> From(p, cur[p]), to |-> To(p, cur[p])]
  <1>1. pc[p] = "send"
    BY DEF Send
  <1>2. pc[p] \in HoldingSteps
    BY <1>1 DEF HoldingSteps, DispatchSteps
  <1>3. q \in Requests
    BY <1>2, FlagTypes DEF Requests
  <1>4. KeptData
    <2>1. requests' \subseteq Requests
      <3>1. requests' = requests \/ requests' = requests \cup {q}
        BY DEF Send
      <3> HIDE DEF q
      <3> QED BY <1>3, <3>1 DEF TypeInv, TypeOK
    <2>2. QED
      BY <2>1 DEF Send, TypeInv, TypeOK, KeptData, mailVars, ledgerVars
  <1>5. k \in Jobs /\ cur[p] \in Mutations
    BY <1>2, JobType
  <1>6. CASE Goto(p, "refused") /\ UNCHANGED job
    BY <1>1, <1>2, <1>4, <1>6, GotoMoves
    DEF Send, Steps, ApplySteps, RowSteps, RestoreSteps, DispatchSteps
  <1>7. CASE Goto(p, "wait") /\ SetJob(p, j)
    <2>1. j \in Jobs /\ SameCall(j, k)
      <3> HIDE DEF k
      <3> QED BY <1>5 DEF Jobs, SameCall
    <2>2. UNCHANGED cur
      BY DEF Send
    <2>3. QED
      <3> HIDE DEF j
      <3> QED
        BY <1>1, <1>2, <1>4, <1>7, <2>1, <2>2, JobMoves
        DEF Steps, ApplySteps, RowSteps, RestoreSteps, DispatchSteps
  <1>8. QED
    BY <1>6, <1>7 DEF Send

LEMMA AnswerMoves ==
    ASSUME TypeInv, NEW p \in Workers, Timeout(p) \/ Readback(p)
    PROVE  Moved(p) /\ KeptData
  <1> DEFINE k == job[p]
             j == [k EXCEPT !.writes = @ + 1]
  <1>1. KeptData
    BY SameData DEF Timeout, Readback
  <1>2. /\ pc[p] \in {"wait", "readback"} /\ pc[p] \in HoldingSteps
        /\ UNCHANGED cur
        /\ SetJob(p, j)
        /\ \/ Goto(p, "ambiguous")
           \/ Goto(p, "verify") /\ Kind(p) = "apply"
           \/ Goto(p, "restored") /\ Kind(p) # "apply"
    BY DEF Timeout, Readback, HoldingSteps, DispatchSteps
  <1>3. k \in Jobs
    BY JobType
  <1>4. j \in Jobs /\ SameCall(j, k)
    <2> HIDE DEF k
    <2> QED BY <1>3 DEF Jobs, SameCall
  <1>5. Kind(p) \in {"apply", "restore"}
    BY DEF Kind
  <1>6. QED
    <2> HIDE DEF j
    <2> QED
      BY <1>1, <1>2, <1>4, <1>5, JobMoves
      DEF Steps, ApplySteps, RowSteps, RestoreSteps, DispatchSteps

LEMMA FailureRowMoves ==
    ASSUME TypeInv, NEW p \in Workers,
           Ambiguous(p) \/ Refused(p) \/ PrivateStateFailed(p)
    PROVE  Moved(p) /\ KeptData
  <1>1. pc[p] \in HoldingSteps /\ pc[p] # "idle"
    BY DEF Ambiguous, Refused, PrivateStateFailed, HoldingSteps, DispatchSteps
  <1>2. cur[p] \in Mutations
    BY <1>1, JobType
  <1>3. /\ \E s \in {"ambiguous", "rollback_pending", "blocked", "rollback_blocked"} :
             Appended(RowFor(p, cur[p], s)) \/ AppendFailed(RowFor(p, cur[p], s))
        /\ UNCHANGED <<mailVars, overrides, lock>>
    BY DEF Ambiguous, Refused, PrivateStateFailed
  <1>4. KeptData
    BY <1>1, <1>2, <1>3, RowType, AppendKept DEF Statuses
  <1>5. \E why \in {"ambiguous", "refused", "private_state"} : Fail(p, cur[p], why)
    BY DEF Ambiguous, Refused, PrivateStateFailed
  <1>6. QED
    BY <1>1, <1>2, <1>4, <1>5, FailMoves

LEMMA RecordDriftMoves ==
    ASSUME TypeInv, NEW p \in Workers, RecordDrift(p)
    PROVE  Moved(p) /\ KeptData
  <1>1. pc[p] = "drift"
    BY DEF RecordDrift
  <1>2. pc[p] \in HoldingSteps
    BY <1>1 DEF HoldingSteps, DispatchSteps
  <1>3. cur[p] \in Mutations /\ job[p].seen \in Colors \cup {Unknown}
    BY <1>2, JobType
  <1>4. From(p, cur[p]) \in Colors
    BY <1>2, FlagTypes
  <1>5. KeptData
    BY <1>3, <1>4, OverrideKept DEF RecordDrift
  <1>6. CASE Goto(p, "refused") /\ UNCHANGED <<cur, job>>
    BY <1>1, <1>2, <1>5, <1>6, GotoMoves
    DEF Steps, ApplySteps, RowSteps, RestoreSteps, DispatchSteps
  <1>7. CASE Fail(p, cur[p], "private_state")
    BY <1>1, <1>3, <1>5, <1>7, FailMoves
  <1>8. QED
    BY <1>6, <1>7 DEF RecordDrift

LEMMA VerifyMoves ==
    ASSUME TypeInv, NEW p \in Workers, Verify(p)
    PROVE  Moved(p) /\ KeptData
  <1>1. pc[p] = "verify"
    BY DEF Verify
  <1>2. pc[p] \in HoldingSteps /\ Kind(p) = "apply"
    BY <1>1 DEF HoldingSteps, TypeInv, Working, ApplySteps
  <1>3. cur[p] \in Mutations
    BY <1>2, JobType
  <1>4. KeptData
    BY <1>1, <1>3, RowType, AppendKept DEF Verify, Statuses
  <1>5. CASE Goto(p, "private_state") /\ UNCHANGED <<cur, job>>
    BY <1>1, <1>2, <1>4, <1>5, GotoMoves
    DEF Steps, ApplySteps, RowSteps, RestoreSteps, DispatchSteps
  <1>6. CASE Fail(p, cur[p], "ambiguous")
    BY <1>1, <1>3, <1>4, <1>6, FailMoves
  <1>7. QED
    BY <1>5, <1>6 DEF Verify

(* The item is proved and the loop goes on. *)
LEMMA ConcludeMoves ==
    ASSUME TypeInv, NEW p \in Workers, Finalize(p) \/ RecordRestored(p)
    PROVE  Moved(p) /\ KeptData
  <1> DEFINE k == job[p]
             j == [k EXCEPT !.verified = @ \cup {cur[p]}]
  <1>1. pc[p] \in {"final", "restored"} /\ pc[p] \in HoldingSteps
    BY DEF Finalize, RecordRestored, HoldingSteps
  <1>2. cur[p] \in Mutations /\ k \in Jobs /\ k.approval \in Approvals
    BY <1>1, JobType
  <1>3. /\ \E s \in {"verified", "rolled_back"} :
             Appended(RowFor(p, cur[p], s)) \/ AppendFailed(RowFor(p, cur[p], s))
        /\ UNCHANGED <<mailVars, overrides, lock>>
    BY DEF Finalize, RecordRestored
  <1>4. KeptData
    BY <1>1, <1>2, <1>3, RowType, AppendKept DEF Statuses
  <1>5. CASE /\ \/ pc[p] = "final" /\ pc' = [pc EXCEPT ![p] = "loop"]
                \/ pc[p] = "restored" /\ pc' = [pc EXCEPT ![p] = "restore_loop"]
             /\ cur' = [cur EXCEPT ![p] = NoMutation]
             /\ SetJob(p, j)
    <2>1. j \in Jobs /\ SameCall(j, k)
      <3> HIDE DEF k
      <3> QED BY <1>2 DEF Jobs, SameCall
    <2>2. /\ pc[p] = "final" => k.op \in {"apply", "canary"}
          /\ pc[p] = "restored" => k.op \notin {"apply", "canary"}
      BY DEF TypeInv, Working, Kind, ApplySteps, RestoreSteps
    <2>3. /\ {"loop", "restore_loop"} \subseteq Steps \ HoldingSteps
          /\ "loop" \notin RestoreSteps /\ "restore_loop" \notin ApplySteps
      BY DEF Steps, ApplySteps, RowSteps, RestoreSteps, DispatchSteps, HoldingSteps
    <2>4. QED
      <3> HIDE DEF j
      <3> QED BY <1>2, <1>4, <1>5, <2>1, <2>2, <2>3, StepMoves DEF SameCall
  <1>6. CASE pc[p] = "final" /\ Fail(p, cur[p], "ambiguous")
    BY <1>1, <1>2, <1>4, <1>6, FailMoves
  <1>7. CASE pc[p] = "restored" /\ Goto(p, "ambiguous") /\ UNCHANGED <<cur, job>>
    BY <1>1, <1>4, <1>7, GotoMoves
    DEF Steps, ApplySteps, RowSteps, RestoreSteps, DispatchSteps
  <1>8. QED
    BY <1>5, <1>6, <1>7 DEF Finalize, RecordRestored, Goto

LEMMA ClassifyMoves ==
    ASSUME TypeInv, NEW p \in Workers, Classify(p)
    PROVE  Moved(p) /\ KeptData
  <1> DEFINE S == job[p].scope
             k == job[p]
             entry(C) == [k EXCEPT !.todo = C, !.pending = C, !.already = S \ C]
  <1>1. pc[p] = "classify" /\ KeptData
    BY SameData DEF Classify
  <1>2. k \in Jobs /\ S \subseteq Mutations
    BY JobType
  <1>3. \/ OuterHandler(p)
        \/ \E B \in SUBSET S : Blocked(p, B, S \ B, {})
        \/ \E C \in SUBSET S : Goto(p, "check") /\ SetJob(p, entry(C)) /\ UNCHANGED cur
    BY ZenonT(40) DEF Classify
  <1>4. CASE OuterHandler(p)
    BY <1>1, <1>4, HandlerMoves
  <1>5. CASE \E B \in SUBSET S : Blocked(p, B, S \ B, {})
    BY <1>1, <1>2, <1>5, BlockedMoves
  <1>6. CASE \E C \in SUBSET S :
                Goto(p, "check") /\ SetJob(p, entry(C)) /\ UNCHANGED cur
    <2>1. PICK C \in SUBSET S :
             Goto(p, "check") /\ SetJob(p, entry(C)) /\ UNCHANGED cur
      BY <1>6
    <2> DEFINE j == entry(C)
    <2>2. j \in Jobs /\ SameCall(j, k)
      <3> HIDE DEF k, S
      <3> QED BY <1>2 DEF Jobs, SameCall
    <2>3. Kind(p) = "restore"
      BY <1>1 DEF TypeInv, Working, RestoreSteps
    <2>4. Goto(p, "check") /\ SetJob(p, j) /\ UNCHANGED cur
      BY <2>1
    <2>5. QED
      <3> HIDE DEF j
      <3> QED
        BY <1>1, <2>2, <2>3, <2>4, JobMoves
        DEF Steps, ApplySteps, RowSteps, RestoreSteps, HoldingSteps, DispatchSteps
  <1>7. QED
    BY <1>3, <1>4, <1>5, <1>6

LEMMA CheckCandidateMoves ==
    ASSUME TypeInv, NEW p \in Workers, NEW m \in Mutations, CheckCandidate(p, m)
    PROVE  Moved(p) /\ KeptData
  <1> DEFINE k == job[p]
             a == [k EXCEPT !.todo = @ \ {m}]
             b == [k EXCEPT !.todo = @ \ {m}, !.bad = @ \cup {m}]
             c(x) == [k EXCEPT !.seen = x]
  <1>1. pc[p] = "check" /\ KeptData
    BY SameData DEF CheckCandidate
  <1>2. k \in Jobs /\ k.approval \in Approvals
    BY <1>1, JobType
  <1>3. k.op \notin {"apply", "canary"}
    BY <1>1 DEF TypeInv, Working, Kind, RestoreSteps
  <1>4. a \in Jobs /\ SameCall(a, k)
    <2> HIDE DEF k
    <2> QED BY <1>2 DEF Jobs, SameCall
  <1>5. b \in Jobs /\ SameCall(b, k)
    <2> HIDE DEF k
    <2> QED BY <1>2 DEF Jobs, SameCall
  <1>6. CASE OuterHandler(p)
    BY <1>1, <1>6, HandlerMoves
  <1>7. CASE (SetJob(p, a) \/ SetJob(p, b)) /\ UNCHANGED <<pc, cur>>
    <2> HIDE DEF a, b
    <2> QED BY <1>1, <1>4, <1>5, <1>7, LocalMoves
  <1>8. CASE /\ LineageMatches(p, m)
             /\ \E x \in {Unknown, native[MessageOf[m]]} :
                   /\ Goto(p, "diverged")
                   /\ cur' = [cur EXCEPT ![p] = m]
                   /\ SetJob(p, c(x))
    <2>1. PICK x \in {Unknown, native[MessageOf[m]]} :
             /\ Goto(p, "diverged") /\ cur' = [cur EXCEPT ![p] = m]
             /\ SetJob(p, c(x))
      BY <1>8
    <2> DEFINE j == c(x)
    <2>2. x \in Colors \cup {Unknown}
      BY FlagAssumption DEF TypeInv, TypeOK
    <2>3. j \in Jobs /\ SameCall(j, k)
      <3> HIDE DEF k
      <3> QED BY <1>2, <2>2 DEF Jobs, SameCall
    <2>4. auth[m].status # "none"
      BY <1>8 DEF LineageMatches
    <2>5. "diverged" \in Steps /\ "diverged" \notin ApplySteps
      BY DEF Steps, ApplySteps, RowSteps, RestoreSteps
    <2>6. /\ pc' = [pc EXCEPT ![p] = "diverged"] /\ cur' = [cur EXCEPT ![p] = m]
          /\ SetJob(p, j)
      BY <2>1 DEF Goto
    <2>7. QED
      <3> HIDE DEF j
      <3> QED BY <1>1, <1>2, <1>3, <2>3, <2>4, <2>5, <2>6, StepMoves DEF SameCall
  <1>9. QED
    BY <1>6, <1>7, <1>8 DEF CheckCandidate

LEMMA RecordDivergenceMoves ==
    ASSUME TypeInv, NEW p \in Workers, RecordDivergence(p)
    PROVE  Moved(p) /\ KeptData
  <1> DEFINE k == job[p]
             m == cur[p]
             j == [k EXCEPT !.todo = @ \ {m}, !.bad = @ \cup {m}, !.seen = Unknown]
  <1>1. pc[p] = "diverged" /\ pc[p] \in HoldingSteps
    BY DEF RecordDivergence, HoldingSteps
  <1>2. Kind(p) = "restore"
    BY <1>1 DEF TypeInv, Working, RestoreSteps
  <1>3. k \in Jobs /\ k.approval \in Approvals /\ m \in Mutations
    BY <1>1, JobType
  <1>4. KeptData
    <2>1. auth[m].intended \in Colors /\ k.seen \in Colors \cup {Unknown}
      BY <1>1, <1>2, FlagTypes, JobType
    <2>2. QED
      BY <1>3, <2>1, OverrideKept DEF RecordDivergence
  <1>5. j \in Jobs /\ SameCall(j, k)
    <2> HIDE DEF k, m
    <2> QED BY <1>3 DEF Jobs, SameCall
  <1>6. k.op \notin {"apply", "canary"}
    BY <1>2 DEF Kind
  <1>7. /\ pc' = [pc EXCEPT ![p] = "check"]
        /\ cur' = [cur EXCEPT ![p] = NoMutation]
        /\ SetJob(p, j)
    BY DEF RecordDivergence, Goto
  <1>8. "check" \in Steps /\ "check" \notin ApplySteps /\ "check" \notin HoldingSteps
    BY DEF Steps, ApplySteps, RowSteps, RestoreSteps, DispatchSteps, HoldingSteps
  <1>9. QED
    <2> HIDE DEF j
    <2> QED BY <1>3, <1>4, <1>5, <1>6, <1>7, <1>8, StepMoves DEF SameCall

LEMMA CheckDoneMoves ==
    ASSUME TypeInv, NEW p \in Workers, CheckDone(p)
    PROVE  Moved(p) /\ KeptData
  <1> DEFINE k == job[p]
             noop == \E m \in k.already : State(m) = "rolled_back"
             st == IF noop THEN "already_rolled_back" ELSE "rollback_not_required"
             R == (k.pending \ k.bad) \cup k.already
  <1>1. pc[p] = "check" /\ KeptData
    BY SameData DEF CheckDone
  <1>2. k.bad \subseteq Mutations /\ R \subseteq Mutations
    BY JobType
  <1>3. st \in ResultStates /\ "preflight_passed" \in ResultStates
    BY DEF ResultStates
  <1>4. CASE Blocked(p, k.bad, R, {})
    <2> HIDE DEF R
    <2> QED BY <1>1, <1>2, <1>4, BlockedMoves
  <1>5. CASE \/ Finish(p, [k EXCEPT !.status = st])
             \/ Finish(p, [k EXCEPT !.status = "preflight_passed"])
    <2> HIDE DEF st
    <2> QED BY <1>1, <1>3, <1>5, StatusMoves
  <1>6. CASE Goto(p, "restore_loop") /\ UNCHANGED <<cur, job>>
    <2>1. Kind(p) = "restore"
      BY <1>1 DEF TypeInv, Working, RestoreSteps
    <2>2. QED
      BY <1>1, <1>6, <2>1, GotoMoves
      DEF Steps, ApplySteps, RowSteps, RestoreSteps, DispatchSteps, HoldingSteps
  <1>7. QED
    BY <1>4, <1>5, <1>6 DEF CheckDone

LEMMA ScopeMoves ==
    ASSUME TypeInv, NEW p \in Workers, NEW m \in Mutations, Scope(p, m)
    PROVE  Moved(p) /\ KeptData
  <1> DEFINE k == job[p]
             c(x) == [k EXCEPT !.pending = @ \ {m}, !.seen = x]
             taken == {"noop", "lineage", "unresolved", "human_row", "claim_restore"}
  <1>1. pc[p] = "restore_loop" /\ KeptData
    BY SameData DEF Scope
  <1>2. k \in Jobs /\ k.approval \in Approvals
    BY <1>1, JobType
  <1>3. k.op \notin {"apply", "canary"}
    BY <1>1 DEF TypeInv, Working, Kind, RestoreSteps
  <1>4. \/ OuterHandler(p)
        \/ Fail(p, m, "refused")
        \/ /\ State(m) \in {"verified", "rolled_back"}
           /\ \E s \in taken, x \in {Unknown, native[MessageOf[m]]} :
                 Goto(p, s) /\ cur' = [cur EXCEPT ![p] = m] /\ SetJob(p, c(x))
    BY DEF Scope
  <1>5. CASE OuterHandler(p)
    BY <1>1, <1>5, HandlerMoves
  <1>6. CASE Fail(p, m, "refused")
    BY <1>1, <1>6, FailMoves
  <1>7. CASE /\ State(m) \in {"verified", "rolled_back"}
             /\ \E s \in taken, x \in {Unknown, native[MessageOf[m]]} :
                   Goto(p, s) /\ cur' = [cur EXCEPT ![p] = m] /\ SetJob(p, c(x))
    <2>1. PICK s \in taken, x \in {Unknown, native[MessageOf[m]]} :
             Goto(p, s) /\ cur' = [cur EXCEPT ![p] = m] /\ SetJob(p, c(x))
      BY <1>7
    <2> DEFINE j == c(x)
    <2>2. x \in Colors \cup {Unknown}
      BY FlagAssumption DEF TypeInv, TypeOK
    <2>3. j \in Jobs /\ SameCall(j, k)
      <3> HIDE DEF k
      <3> QED BY <1>2, <2>2 DEF Jobs, SameCall
    <2>4. auth[m].status # "none"
      BY <1>7 DEF State, AuthoritativeState
    <2>5. s \in Steps /\ s \notin ApplySteps
      BY <2>1 DEF Steps, ApplySteps, RowSteps, RestoreSteps
    <2>6. /\ pc' = [pc EXCEPT ![p] = s] /\ cur' = [cur EXCEPT ![p] = m]
          /\ SetJob(p, j)
      BY <2>1 DEF Goto
    <2>7. QED
      <3> HIDE DEF j
      <3> QED BY <1>1, <1>2, <1>3, <2>3, <2>4, <2>5, <2>6, StepMoves DEF SameCall
  <1>8. QED
    BY <1>4, <1>5, <1>6, <1>7

LEMMA LogRestoreRowMoves ==
    ASSUME TypeInv, NEW p \in Workers, LogRestoreRow(p)
    PROVE  Moved(p) /\ KeptData
  <1> DEFINE m == cur[p]
             row == RowFor(p, m, RestoreRowStatus(pc[p]))
  <1>1. pc[p] \in {"noop", "lineage", "unresolved", "human_row", "claim_restore"}
    BY DEF LogRestoreRow
  <1>2. pc[p] \in HoldingSteps /\ pc[p] # "idle"
    BY <1>1 DEF HoldingSteps
  <1>3. Kind(p) = "restore"
    BY <1>1 DEF TypeInv, Working, RestoreSteps
  <1>4. m \in Mutations
    BY <1>2, JobType
  <1>5. KeptData
    <2>1. row \in Rows
      BY <1>2, <1>4, RowType DEF RestoreRowStatus, Statuses
    <2>2. QED
      <3> HIDE DEF row
      <3> QED BY <2>1, AppendKept DEF LogRestoreRow, row
  <1>6. \/ \E s \in {"send", "human"} : Goto(p, s) /\ UNCHANGED <<cur, job>>
        \/ Finish(p, [job[p] EXCEPT !.status = "already_rolled_back", !.already = {m}])
        \/ Fail(p, m, "refused")
        \/ OuterHandler(p)
    BY DEF LogRestoreRow
  <1>7. CASE \E s \in {"send", "human"} : Goto(p, s) /\ UNCHANGED <<cur, job>>
    BY <1>2, <1>3, <1>5, <1>7, GotoMoves
    DEF Steps, ApplySteps, RowSteps, RestoreSteps, DispatchSteps
  <1>8. CASE Finish(p, [job[p] EXCEPT !.status = "already_rolled_back",
                                      !.already = {m}])
    <2>1. "already_rolled_back" \in ResultStates /\ {m} \in SUBSET Mutations
      BY <1>4 DEF ResultStates
    <2>2. QED
      <3> HIDE DEF m
      <3> QED BY <1>2, <1>5, <1>8, <2>1, StatusMoves
  <1>9. CASE Fail(p, m, "refused")
    BY <1>2, <1>4, <1>5, <1>9, FailMoves
  <1>10. CASE OuterHandler(p)
    BY <1>2, <1>5, <1>10, HandlerMoves
  <1>11. QED
    BY <1>6, <1>7, <1>8, <1>9, <1>10

LEMMA RecordHumanMoves ==
    ASSUME TypeInv, NEW p \in Workers, RecordHuman(p)
    PROVE  Moved(p) /\ KeptData
  <1>1. pc[p] = "human" /\ pc[p] \in HoldingSteps
    BY DEF RecordHuman, HoldingSteps
  <1>2. Kind(p) = "restore"
    BY <1>1 DEF TypeInv, Working, RestoreSteps
  <1>3. /\ cur[p] \in Mutations /\ auth[cur[p]].intended \in Colors
        /\ job[p].seen \in Colors \cup {Unknown}
    BY <1>1, <1>2, FlagTypes, JobType
  <1>4. KeptData
    BY <1>3, OverrideKept DEF RecordHuman
  <1>5. Fail(p, cur[p], "refused")
    BY DEF RecordHuman
  <1>6. QED
    BY <1>1, <1>3, <1>4, <1>5, FailMoves

-----------------------------------------------------------------------------
(* Starting and ending a call.                                               *)

LEMMA AcquireMoves ==
    ASSUME TypeInv, NEW p \in Workers, NEW o \in Calls, NEW a \in Approvals,
           NEW S \in SUBSET Mutations, Acquire(p, o, a, S)
    PROVE  Moved(p) /\ KeptData
  <1> DEFINE st == IF o \in {"apply", "canary"} THEN "authorize"
                   ELSE IF o = "rollback_one" THEN "restore_loop" ELSE "classify"
             P == IF o = "rollback_one" THEN S ELSE {}
             j == [NoJob EXCEPT !.op = o, !.approval = a, !.scope = S, !.pending = P]
  <1>1. KeptData
    BY FlagAssumption DEF Acquire, TypeInv, TypeOK, KeptData, mailVars, ledgerVars
  <1>2. o \in Ops /\ P \in SUBSET Mutations
    BY FlagAssumption DEF Ops
  <1>3. j \in Jobs /\ j.op = o /\ j.approval = a
    <2> HIDE DEF P
    <2> QED BY <1>2 DEF NoJob, Jobs, ResultStates
  <1>4. st \in Steps \ HoldingSteps /\ st # "done" /\ pc[p] = "idle"
    BY DEF Acquire, Steps, ApplySteps, RestoreSteps, HoldingSteps, DispatchSteps
  <1>5. /\ st \in ApplySteps => o \in {"apply", "canary"}
        /\ st \in RestoreSteps => o \notin {"apply", "canary"}
    BY DEF ApplySteps, RowSteps, RestoreSteps
  <1>6. Goto(p, st) /\ SetJob(p, j) /\ UNCHANGED cur
    BY DEF Acquire
  <1>7. cur[p] \in Mutations \cup {NoMutation} /\ cur = [cur EXCEPT ![p] = cur[p]]
    BY DEF TypeInv, TypeOK
  <1>8. QED
    <2> HIDE DEF j, st
    <2> QED BY <1>1, <1>3, <1>4, <1>5, <1>6, <1>7, StepMoves DEF Goto, SameCall

LEMMA LeaveMoves ==
    ASSUME TypeInv, NEW p \in Workers, Return(p) \/ Crash(p)
    PROVE  Moved(p) /\ KeptData
  <1>1. NoJob \in Jobs
    BY DEF NoJob, Jobs, Ops, ResultStates
  <1>2. KeptData
    BY DEF Return, Crash, TypeInv, TypeOK, KeptData, mailVars, ledgerVars
  <1>3. Moved(p)
    BY <1>1
    DEF Return, Crash, TypeInv, TypeOK, Moved, Goto, SetJob, Steps, ApplySteps,
        RowSteps, RestoreSteps, HoldingSteps, DispatchSteps
  <1>4. QED
    BY <1>2, <1>3

-----------------------------------------------------------------------------
(* The mail application and the human.                                       *)

(* An answer from Mail.app moves the worker that waits for it, if any. *)
LEMMA MailAppMoves ==
    ASSUME TypeInv, NEW q \in requests, Land(q) \/ Drift(q) \/ Lose(q)
    PROVE  /\ q.by \in Workers /\ KeptData
           /\ \/ UNCHANGED <<pc, cur, job>>
              \/ /\ Awaited(q) /\ Moved(q.by) /\ UNCHANGED cur
                 /\ pc'[q.by] \in {"readback", "drift"}
                 /\ job'[q.by].todo = job[q.by].todo
                 /\ job'[q.by].pending = job[q.by].pending
                 /\ job'[q.by].bad = job[q.by].bad
  <1> DEFINE p == q.by
             k == job[p]
             c(x) == [k EXCEPT !.seen = x]
  <1>1. q \in Requests /\ p \in Workers
    BY DEF TypeInv, TypeOK, Requests
  <1>2. KeptData
    <2>1. CASE Land(q)
      <3>1. native' \in [Messages -> Colors]
        BY <1>1, <2>1 DEF Land, TypeInv, TypeOK, Requests
      <3>2. lands' \in [Writes -> Nat]
        BY <1>1, <2>1 DEF Land, TypeInv, TypeOK, Requests, Writes
      <3>3. QED
        BY <2>1, <3>1, <3>2 DEF Land, TypeInv, TypeOK, KeptData, ledgerVars
    <2>2. CASE Drift(q) \/ Lose(q)
      BY <2>2 DEF Drift, Lose, TypeInv, TypeOK, KeptData, ledgerVars
    <2>3. QED
      BY <2>1, <2>2
  <1>3. pc \in [Workers -> Steps]
    BY DEF TypeInv, TypeOK
  <1>4. CASE UNCHANGED <<pc, cur, job>>
    BY <1>1, <1>2, <1>4
  <1>5. CASE Awaited(q) /\ Goto(p, "readback") /\ UNCHANGED <<cur, job>>
    <2>1. pc[p] = "wait"
      BY <1>5 DEF Awaited
    <2>2. Moved(p)
      BY <1>1, <1>5, <2>1, GotoMoves
      DEF Steps, ApplySteps, RowSteps, RestoreSteps, HoldingSteps, DispatchSteps
    <2>3. pc'[p] = "readback"
      BY <1>1, <1>3, <1>5 DEF Goto
    <2>4. QED
      BY <1>1, <1>2, <1>5, <2>2, <2>3
  <1>6. CASE /\ Awaited(q) /\ Goto(p, "drift") /\ UNCHANGED cur
             /\ \E x \in Colors \cup {Unknown} : SetJob(p, c(x))
    <2>1. PICK x \in Colors \cup {Unknown} : SetJob(p, c(x))
      BY <1>6
    <2> DEFINE j == c(x)
    <2>2. pc[p] = "wait" /\ pc'[p] = "drift"
      BY <1>1, <1>3, <1>6 DEF Awaited, Goto
    <2>3. k \in Jobs
      BY <1>1, JobType
    <2>4. /\ j \in Jobs /\ SameCall(j, k)
          /\ j.todo = k.todo /\ j.pending = k.pending /\ j.bad = k.bad
      <3> HIDE DEF k
      <3> QED BY <2>3 DEF Jobs, SameCall
    <2>5. SetJob(p, j) /\ job'[p] = j
      BY <1>1, <2>1 DEF SetJob, TypeInv, TypeOK
    <2> HIDE DEF j
    <2>6. Moved(p)
      BY <1>1, <1>6, <2>2, <2>4, <2>5, JobMoves
      DEF Steps, ApplySteps, RowSteps, RestoreSteps, HoldingSteps, DispatchSteps
    <2>7. QED
      BY <1>1, <1>2, <1>6, <2>2, <2>4, <2>5, <2>6
  <1>7. QED
    BY <1>4, <1>5, <1>6 DEF Land, Drift, Lose

LEMMA MailAppType ==
    ASSUME TypeInv, NEW q \in requests, Land(q) \/ Drift(q) \/ Lose(q)
    PROVE  TypeInv'
  <1>1. CASE UNCHANGED <<pc, cur, job>>
    BY <1>1, MailAppMoves DEF TypeInv, TypeOK, Working, Kind, KeptData
  <1>2. CASE Moved(q.by)
    BY <1>2, MailAppMoves, MovedType
  <1>3. QED
    BY <1>1, <1>2, MailAppMoves

LEMMA HumanType ==
    ASSUME TypeInv, Human
    PROVE  TypeInv'
  <1>1. KeptData
    <2>1. CASE \E r \in Messages, c \in HumanColors : HumanFlag(r, c)
      <3>1. PICK r \in Messages, c \in HumanColors : HumanFlag(r, c)
        BY <2>1
      <3>2. c \in Colors
        BY FlagAssumption
      <3>3. native' \in [Messages -> Colors]
        BY <3>1, <3>2 DEF HumanFlag, TypeInv, TypeOK
      <3>4. QED
        BY <3>1, <3>3 DEF HumanFlag, TypeInv, TypeOK, KeptData, ledgerVars
    <2>2. CASE \E r \in Messages : Unlock(r)
      BY <2>2 DEF Unlock, TypeInv, TypeOK, KeptData, mailVars, ledgerVars
    <2>3. QED
      BY <2>1, <2>2 DEF Human
  <1>2. UNCHANGED <<pc, cur, job>>
    BY DEF Human, HumanFlag, Unlock
  <1>3. QED
    BY <1>1, <1>2 DEF TypeInv, TypeOK, Working, Kind, KeptData

-----------------------------------------------------------------------------
(* The type invariant.                                                       *)

LEMMA NextType == TypeInv /\ [Next]_vars => TypeInv'
  <1> SUFFICES ASSUME TypeInv, [Next]_vars PROVE TypeInv'
    OBVIOUS
  <1>1. CASE UNCHANGED vars
    BY <1>1 DEF vars, TypeInv, TypeOK, Working, Kind
  <1>2. ASSUME NEW p \in Workers, Begin(p) PROVE TypeInv'
    <2>1. PICK o \in Calls, a \in Approvals, S \in SUBSET Mutations :
             Acquire(p, o, a, S)
      BY <1>2 DEF Begin
    <2>2. QED
      BY <2>1, AcquireMoves, MovedType
  <1>3. ASSUME NEW p \in Workers, Step(p) PROVE TypeInv'
    <2>1. CASE \E m \in Mutations :
                  \/ LogRow(p, m) \/ Preflight(p, m) \/ ClaimApply(p, m)
                  \/ CheckCandidate(p, m) \/ Scope(p, m)
      BY <2>1, LogRowMoves, PreflightMoves, ClaimApplyMoves, CheckCandidateMoves,
         ScopeMoves, MovedType
    <2>2. CASE \/ Authorize(p) \/ NextPhase(p) \/ Deadline(p) \/ AllApplied(p)
               \/ AllRestored(p) \/ Classify(p) \/ CheckDone(p)
      BY <2>2, AuthorizeMoves, NextPhaseMoves, LoopEndMoves, ClassifyMoves,
         CheckDoneMoves, MovedType
    <2>3. CASE \/ Recheck(p) \/ RecordAutomationState(p) \/ Send(p) \/ Timeout(p)
               \/ Readback(p) \/ Ambiguous(p) \/ Refused(p) \/ PrivateStateFailed(p)
               \/ RecordDrift(p)
      BY <2>3, GotoOnlyMoves, SendMoves, AnswerMoves, FailureRowMoves,
         RecordDriftMoves, MovedType
    <2>4. CASE \/ Verify(p) \/ Finalize(p) \/ RecordRestored(p)
               \/ RecordDivergence(p) \/ LogRestoreRow(p) \/ RecordHuman(p)
               \/ Return(p)
      BY <2>4, VerifyMoves, ConcludeMoves, RecordDivergenceMoves,
         LogRestoreRowMoves, RecordHumanMoves, LeaveMoves, MovedType
    <2>5. QED
      BY <1>3, <2>1, <2>2, <2>3, <2>4 DEF Step
  <1>4. ASSUME NEW p \in Workers, Crash(p) PROVE TypeInv'
    BY <1>4, LeaveMoves, MovedType
  <1>5. QED
    BY <1>1, <1>2, <1>3, <1>4, MailAppType, HumanType DEF Next, MailApp

(* Every variable keeps its type, a call its approval, and a rollback never    *)
(* holds a mutation the ledger has nothing authoritative about.              *)
THEOREM TypeCorrect == Spec => []TypeInv
  <1>1. QED
    BY InitType, NextType, PTL DEF Spec

(* The model's variables stay in their sets, for every number of workers,      *)
(* plans, messages and mutations.                                            *)
THEOREM TypeCorrectness == Spec => []TypeOK
  <1>1. TypeInv => TypeOK
    BY DEF TypeInv
  <1>2. QED
    BY <1>1, TypeCorrect, PTL
-----------------------------------------------------------------------------
(***************************************************************************)
(* At most one write per mutation: WriteInv is inductive.  A step of worker *)
(* p is split into what it means for p itself (Own), for the ledger and the *)
(* requests (WorldOK), and for everybody else, whom it cannot reach because *)
(* they work in other plans (Elsewhere).                                    *)
(***************************************************************************)

(* What WriteInv says of one worker inside a call. *)
Own(p) ==
    /\ OwnsPlan(p)
    /\ ClaimsFirst(p)
    /\ Kind(p) = "apply" => ApplyOnTrack(p)

WorldOK ==
    /\ \A m \in Mutations : LedgerTrue(m)
    /\ \A m \in Mutations, k \in Kinds : OneRequest(m, k)

(* Mutations outside plan P keep their ledger answers and stay untouched if    *)
(* they were, and the locks of workers other than p stay where they are.     *)
Elsewhere(p, P) ==
    /\ \A n \in Mutations : PlanOf[n] # P =>
          /\ \A k \in Kinds : Untouched(n, k) => Untouched(n, k)'
          /\ latest'[n] = latest[n] /\ auth'[n] = auth[n]
    /\ file = "corrupt" => file' = "corrupt"
    /\ \A Q \in Plans : lock[Q] \in Workers \ {p} => lock'[Q] = lock[Q]

PlanHeld(p) == ApprovalPlan[job[p].approval]

(* The invariant speaks of the world and of each worker. *)
LEMMA InvParts == WriteInv <=> WorldOK /\ \A p \in Workers : pc[p] # "idle" => Own(p)
BY DEF WriteInv, WorldOK, Own

(* It holds again once both parts do. *)
LEMMA PartsAfter ==
    ASSUME WorldOK', \A p \in Workers : pc'[p] # "idle" => Own(p)'
    PROVE  WriteInv'
BY DEF WriteInv, WorldOK, Own

LEMMA InitWrite == Init => WriteInv
  <1> SUFFICES ASSUME Init PROVE WriteInv
    OBVIOUS
  <1>1. \A m \in Mutations, k \in Kinds :
           InFlight(m, k) = {} /\ lands[<<m, k>>] = 0
    BY DEF Init, InFlight, Writes
  <1>2. \A m \in Mutations : LedgerTrue(m)
    BY <1>1 DEF LedgerTrue, Fresh, Untouched, Kinds
  <1>3. ASSUME NEW m \in Mutations, NEW k \in Kinds PROVE OneRequest(m, k)
    <2>1. InFlight(m, k) = {} /\ lands[<<m, k>>] = 0
      BY <1>1
    <2>2. QED
      BY <2>1 DEF OneRequest
  <1>4. \A p \in Workers : pc[p] = "idle"
    BY DEF Init
  <1>5. QED
    BY <1>2, <1>3, <1>4 DEF WriteInv

(* Two workers inside a call hold different plans. *)
LEMMA OtherPlan ==
    ASSUME WriteInv, NEW p \in Workers, NEW q \in Workers,
           pc[p] # "idle", pc[q] # "idle", p # q
    PROVE  PlanHeld(q) # PlanHeld(p)
BY DEF WriteInv, OwnsPlan, PlanHeld

(* A worker's batch lies in its plan. *)
LEMMA BatchInPlan ==
    ASSUME TypeInv, NEW p \in Workers, pc[p] # "idle", OwnsPlan(p)
    PROVE  /\ PlanHeld(p) \in Plans
           /\ \A m \in job[p].scope : m \in Mutations /\ PlanOf[m] = PlanHeld(p)
  <1>1. job[p].approval \in Approvals
    BY JobType
  <1>2. job[p].scope \subseteq Mutations
    BY JobType
  <1>3. QED
    BY <1>1, <1>2, FlagAssumption DEF OwnsPlan, PlanHeld

(* A worker that does not move, keeps its lock and loses nothing it knows. *)
LEMMA OwnStays ==
    ASSUME TypeInv, NEW q \in Workers, pc[q] # "idle", Own(q),
           pc'[q] = pc[q], cur'[q] = cur[q], job'[q] = job[q],
           lock'[PlanHeld(q)] = lock[PlanHeld(q)],
           file = "corrupt" => file' = "corrupt",
           \A n \in Mutations : PlanOf[n] = PlanHeld(q) =>
              /\ \A k \in Kinds : Untouched(n, k) => Untouched(n, k)'
              /\ latest'[n] = latest[n] /\ auth'[n] = auth[n]
    PROVE  Own(q)'
  <1>1. Kind(q)' = Kind(q) /\ Kind(q) \in Kinds
    BY DEF Kind, Kinds
  <1>2. OwnsPlan(q)'
    BY DEF Own, OwnsPlan, PlanHeld
  <1>3. \A n \in job[q].scope :
           /\ n \in Mutations
           /\ \A k \in Kinds : Untouched(n, k) => Untouched(n, k)'
           /\ Fresh(n) => Fresh(n)'
           /\ State(n)' = State(n)
           /\ Claimed(n) => Claimed(n)'
    <2>1. ASSUME NEW n \in job[q].scope
          PROVE  /\ n \in Mutations
                 /\ \A k \in Kinds : Untouched(n, k) => Untouched(n, k)'
                 /\ latest'[n] = latest[n] /\ auth'[n] = auth[n]
      BY BatchInPlan DEF Own
    <2>2. QED
      BY <2>1 DEF Fresh, State, Claimed, Kinds
  <1>4. pc[q] \in HoldingSteps => cur[q] \in job[q].scope
    BY DEF Own, OwnsPlan
  <1>5. ClaimsFirst(q)'
    <2>1. BeforeWriteSteps \subseteq HoldingSteps /\ {"recheck", "send"} \subseteq HoldingSteps
      BY DEF BeforeWriteSteps, HoldingSteps, DispatchSteps
    <2>2. QED
      BY <1>1, <1>3, <1>4, <2>1 DEF ClaimsFirst, Own
  <1>6. ASSUME Kind(q) = "apply" PROVE ApplyOnTrack(q)'
    <2>1. ApplyOnTrack(q) /\ OwnsPlan(q)
      BY <1>6 DEF Own
    <2>2. (\A m \in job[q].pending : Fresh(m))'
      BY <1>3, <2>1 DEF ApplyOnTrack, OwnsPlan
    <2>3. (pc[q] \in FreshRowSteps => \A m \in job[q].todo : Fresh(m))'
      BY <1>3, <2>1 DEF ApplyOnTrack, OwnsPlan
    <2>4. (pc[q] = "replay" => \A m \in job[q].todo :
              State(m) = "verified" /\ Untouched(m, "restore"))'
      BY <1>3, <2>1 DEF ApplyOnTrack, OwnsPlan, Kinds
    <2>5. (pc[q] \in {"replay", "refuse"} =>
              \A m \in job[q].bad : State(m) = "rolled_back")'
      BY <1>3, <2>1 DEF ApplyOnTrack, OwnsPlan
    <2>6. (pc[q] = "refuse" => job[q].todo \subseteq job[q].bad)'
      BY <2>1 DEF ApplyOnTrack
    <2>7. (pc[q] \in HoldingSteps =>
              cur[q] \notin job[q].pending /\ Untouched(cur[q], "restore"))'
      BY <1>3, <2>1 DEF ApplyOnTrack, OwnsPlan, Kinds
    <2>8. QED
      BY <2>2, <2>3, <2>4, <2>5, <2>6, <2>7 DEF ApplyOnTrack
  <1>7. QED
    BY <1>1, <1>2, <1>5, <1>6 DEF Own

(* A step of p inside plan P does not reach a worker of another plan. *)
LEMMA OthersKeep ==
    ASSUME TypeInv, NEW p \in Workers, NEW P \in Plans, Moved(p), Elsewhere(p, P),
           NEW q \in Workers, q # p, pc[q] # "idle", Own(q), PlanHeld(q) # P
    PROVE  Own(q)'
  <1>1. pc'[q] = pc[q] /\ cur'[q] = cur[q] /\ job'[q] = job[q]
    BY DEF Moved
  <1>2. PlanHeld(q) \in Plans /\ lock[PlanHeld(q)] = q
    BY BatchInPlan DEF Own, OwnsPlan, PlanHeld
  <1>3. lock'[PlanHeld(q)] = lock[PlanHeld(q)]
    BY <1>2 DEF Elsewhere
  <1>4. QED
    BY <1>1, <1>3, OwnStays DEF Elsewhere

-----------------------------------------------------------------------------
(* Steps that issue no request and change no mail.                           *)

Quiet == UNCHANGED <<requests, lands>>

(* Without a request or a landing every write stays as touched as it was. *)
LEMMA QuietUntouched ==
    ASSUME Quiet
    PROVE  /\ \A m \in Mutations, k \in Kinds : Untouched(m, k)' = Untouched(m, k)
           /\ \A m \in Mutations : Fresh(m)' = Fresh(m)
           /\ \A m \in Mutations, k \in Kinds : OneRequest(m, k)' = OneRequest(m, k)
BY DEF Quiet, Untouched, Fresh, OneRequest, InFlight

(* A step that does not write the ledger either. *)
LEMMA StillWorld ==
    ASSUME TypeInv, WorldOK, NEW p \in Workers, NEW P \in Plans,
           Quiet, UNCHANGED <<ledgerVars, lock>>
    PROVE  WorldOK' /\ Elsewhere(p, P)
  <1>1. \A m \in Mutations : LedgerTrue(m)'
    BY QuietUntouched DEF WorldOK, LedgerTrue, Claimed, State, ledgerVars, Kinds
  <1>2. \A m \in Mutations, k \in Kinds : OneRequest(m, k)'
    BY QuietUntouched DEF WorldOK
  <1>3. Elsewhere(p, P)
    BY QuietUntouched DEF Elsewhere, ledgerVars
  <1>4. QED
    BY <1>1, <1>2, <1>3 DEF WorldOK

(* A row that does not make the ledger say more than what is true. *)
TrueRow(row) ==
    \/ row.status \in HazardousLatestStatuses
    \/ row.status = "rolled_back"
    \/ row.status = "verified" /\ Untouched(row.mutation, "restore")
    \/ /\ row.status \notin AuthoritativeStatuses
       /\ State(row.mutation) = "none" => Fresh(row.mutation)
       /\ State(row.mutation) = "verified" => Untouched(row.mutation, "restore")

(* A row that tells the truth keeps the ledger true. *)
LEMMA RowWorld ==
    ASSUME TypeInv, WorldOK, NEW p \in Workers, NEW row \in Rows,
           Quiet, UNCHANGED lock, Appended(row) \/ AppendFailed(row),
           TrueRow(row)
    PROVE  WorldOK' /\ Elsewhere(p, PlanOf[row.mutation])
  <1>1. row.mutation \in Mutations /\ row.status \in Statuses
    BY DEF Rows
  <1>2. latest \in [Mutations -> Statuses \cup {"none"}] /\ auth \in [Mutations -> Records]
    BY DEF TypeInv, TypeOK
  <1>3. \/ UNCHANGED <<latest, auth>>
        \/ latest' = LatestAfter(latest, row) /\ auth' = AuthorityAfter(auth, row)
    BY DEF Appended, AppendFailed, Stored, ledgerVars
  <1>4. file = "corrupt" => file' = "corrupt"
    BY DEF Appended, AppendFailed, ledgerVars
  <1>5. \A n \in Mutations : n # row.mutation =>
           latest'[n] = latest[n] /\ auth'[n] = auth[n]
    BY <1>1, <1>2, <1>3 DEF LatestAfter, AuthorityAfter
  <1>6. ASSUME NEW m \in Mutations PROVE LedgerTrue(m)'
    <2>1. CASE m # row.mutation \/ UNCHANGED <<latest, auth>>
      BY <1>4, <1>5, <2>1, QuietUntouched DEF WorldOK, LedgerTrue, Claimed, State, Kinds
    <2>2. CASE /\ m = row.mutation
               /\ latest' = LatestAfter(latest, row)
               /\ auth' = AuthorityAfter(auth, row)
      <3>1. latest'[m] = row.status
        BY <1>2, <2>2 DEF LatestAfter
      <3>2. auth'[m] = IF row.status \in AuthoritativeStatuses THEN RecordOf(row)
                       ELSE auth[m]
        BY <1>2, <2>2 DEF AuthorityAfter
      <3>3. CASE row.status \in HazardousLatestStatuses
        BY <3>1, <3>3 DEF LedgerTrue, Claimed
      <3>4. CASE row.status = "rolled_back"
        BY <3>2, <3>4
        DEF LedgerTrue, State, AuthoritativeState, AuthoritativeStatuses, RecordOf
      <3>5. CASE row.status = "verified" /\ Untouched(row.mutation, "restore")
        BY <2>2, <3>2, <3>5, QuietUntouched
        DEF LedgerTrue, State, AuthoritativeState, AuthoritativeStatuses, RecordOf,
            Kinds
      <3>6. CASE /\ row.status \notin AuthoritativeStatuses
                 /\ State(row.mutation) = "none" => Fresh(row.mutation)
                 /\ State(row.mutation) = "verified" =>
                       Untouched(row.mutation, "restore")
        BY <2>2, <3>2, <3>6, QuietUntouched DEF LedgerTrue, State, Kinds
      <3>7. QED
        BY <3>3, <3>4, <3>5, <3>6 DEF TrueRow
    <2>3. QED
      BY <1>3, <2>1, <2>2
  <1>7. \A m \in Mutations, k \in Kinds : OneRequest(m, k)'
    BY QuietUntouched DEF WorldOK
  <1>8. Elsewhere(p, PlanOf[row.mutation])
    BY <1>4, <1>5, QuietUntouched DEF Elsewhere
  <1>9. QED
    BY <1>6, <1>7, <1>8 DEF WorldOK

-----------------------------------------------------------------------------
(* What a step of p means for p.                                             *)

Keeps(p) == Own(p)' /\ WorldOK' /\ Elsewhere(p, PlanHeld(p))

(* What the invariant says of a worker inside a call. *)
LEMMA Live ==
    ASSUME TypeInv, WriteInv, NEW p \in Workers, pc[p] # "idle"
    PROVE  /\ Own(p) /\ OwnsPlan(p) /\ ClaimsFirst(p) /\ WorldOK
           /\ Kind(p) = "apply" => ApplyOnTrack(p)
           /\ Kind(p) \in Kinds
           /\ PlanHeld(p) \in Plans
           /\ \A m \in job[p].scope : m \in Mutations /\ PlanOf[m] = PlanHeld(p)
           /\ job[p].todo \subseteq job[p].scope
           /\ job[p].pending \subseteq job[p].scope
           /\ job[p].bad \subseteq job[p].scope
           /\ pc[p] \in HoldingSteps => cur[p] \in job[p].scope
BY InvParts, BatchInPlan DEF Own, OwnsPlan, Kind, Kinds

(* A worker that stays in its batch stays on track if its new step allows it. *)
LEMMA NewOwn ==
    ASSUME TypeInv, WriteInv, NEW p \in Workers, pc[p] # "idle",
           Moved(p), UNCHANGED lock, pc'[p] # "idle",
           job'[p].todo \subseteq job[p].scope,
           job'[p].pending \subseteq job[p].scope,
           job'[p].bad \subseteq job[p].scope,
           pc'[p] \in HoldingSteps => cur'[p] \in job[p].scope,
           ClaimsFirst(p)', Kind(p) = "apply" => ApplyOnTrack(p)'
    PROVE  Own(p)'
  <1>1. SameCall(job'[p], job[p])
    BY DEF Moved
  <1>2. Kind(p)' = Kind(p)
    BY <1>1 DEF Kind, SameCall
  <1>3. OwnsPlan(p)
    BY Live
  <1>4. OwnsPlan(p)'
    BY <1>1, <1>3 DEF OwnsPlan, SameCall
  <1>5. QED
    BY <1>2, <1>4 DEF Own

(* A restoring worker has nothing but its claim to answer for. *)
LEMMA RestoreOwn ==
    ASSUME TypeInv, WriteInv, NEW p \in Workers, pc[p] # "idle",
           Moved(p), UNCHANGED lock, pc'[p] # "idle", Kind(p) = "restore",
           job'[p].todo \subseteq job[p].scope,
           job'[p].pending \subseteq job[p].scope,
           job'[p].bad \subseteq job[p].scope,
           pc'[p] \in HoldingSteps => cur'[p] \in job[p].scope,
           ClaimsFirst(p)'
    PROVE  Own(p)'
BY NewOwn

(* A call that is over has nothing left to do. *)
LEMMA DoneOwn ==
    ASSUME TypeInv, WriteInv, NEW p \in Workers, pc[p] # "idle",
           Moved(p), UNCHANGED lock, pc'[p] = "done"
    PROVE  Own(p)'
  <1>1. /\ "done" \notin HoldingSteps /\ "done" \notin BeforeWriteSteps
        /\ "done" \notin FreshRowSteps
    BY DEF HoldingSteps, DispatchSteps, BeforeWriteSteps, FreshRowSteps
  <1>2. job'[p].todo = {} /\ job'[p].pending = {} /\ job'[p].bad = {}
    BY DEF Moved
  <1>3. ClaimsFirst(p)'
    BY <1>1 DEF ClaimsFirst
  <1>4. ApplyOnTrack(p)'
    BY <1>1, <1>2 DEF ApplyOnTrack
  <1>5. QED
    BY <1>1, <1>2, <1>3, <1>4, NewOwn

(* A failed item ends a rollback; an apply goes on to freeze its siblings,     *)
(* which are still untouched.                                                *)
LEMMA FailOwn ==
    ASSUME TypeInv, WriteInv, NEW p \in Workers, pc[p] # "idle", NEW m, NEW why,
           Moved(p), UNCHANGED lock, Quiet, Fail(p, m, why)
    PROVE  Own(p)'
  <1>1. pc \in [Workers -> Steps] /\ job \in [Workers -> Jobs]
    BY DEF TypeInv, TypeOK
  <1>2. CASE Kind(p) # "apply"
    BY <1>1, <1>2, DoneOwn DEF Fail, Finish, Goto
  <1>3. CASE Kind(p) = "apply"
    <2> DEFINE k == job[p]
               rest == k.pending \ {m}
               st == FailureStatus(p, why)
               j == [k EXCEPT !.status = st,
                              !.failed = @ \cup {m}, !.unattempted = rest]
               f == [j EXCEPT !.todo = rest, !.pending = {}, !.seen = Unknown]
    <2>1. pc'[p] = "freeze" /\ job'[p] = f
      BY <1>1, <1>3 DEF Fail, Goto, SetJob
    <2>2. f.todo = rest /\ f.pending = {} /\ f.bad = k.bad
      <3>1. k \in Jobs
        BY <1>1
      <3> HIDE DEF k, rest, st
      <3>2. QED
        BY <3>1 DEF Jobs
    <2> HIDE DEF f
    <2>3. ClaimsFirst(p)'
      BY <2>1 DEF ClaimsFirst, BeforeWriteSteps
    <2>4. \A n \in rest : Fresh(n)'
      <3>1. \A n \in rest : Fresh(n) /\ n \in Mutations
        BY <1>3, Live DEF ApplyOnTrack
      <3>2. QED
        BY <3>1, QuietUntouched
    <2>5. ApplyOnTrack(p)'
      BY <2>1, <2>2, <2>4 DEF ApplyOnTrack, HoldingSteps, DispatchSteps
    <2>6. rest \subseteq job[p].scope /\ k.bad \subseteq job[p].scope
      BY Live
    <2>7. QED
      BY <2>1, <2>2, <2>3, <2>5, <2>6, NewOwn DEF HoldingSteps, DispatchSteps
  <1>4. QED
    BY <1>2, <1>3

(* A worker that keeps hold of its mutation. *)
LEMMA HoldOwn ==
    ASSUME TypeInv, WriteInv, NEW p \in Workers,
           pc[p] \in HoldingSteps, pc'[p] \in HoldingSteps,
           Moved(p), UNCHANGED <<lock, cur>>,
           job'[p].todo = job[p].todo, job'[p].pending = job[p].pending,
           job'[p].bad = job[p].bad,
           \A n \in job[p].pending : Fresh(n) => Fresh(n)',
           Kind(p) = "apply" =>
              (Untouched(cur[p], "restore") => Untouched(cur[p], "restore")'),
           pc'[p] \in BeforeWriteSteps => Untouched(cur[p], Kind(p))',
           pc'[p] \in {"recheck", "send"} => Claimed(cur[p])'
    PROVE  Own(p)'
  <1>1. pc[p] # "idle" /\ pc'[p] # "idle"
    BY DEF HoldingSteps, DispatchSteps
  <1>2. pc'[p] \notin FreshRowSteps \cup {"replay", "refuse"}
    BY DEF HoldingSteps, DispatchSteps, FreshRowSteps
  <1>3. ClaimsFirst(p)'
    BY DEF ClaimsFirst
  <1>4. ASSUME Kind(p) = "apply" PROVE ApplyOnTrack(p)'
    <2>1. ApplyOnTrack(p)
      BY <1>1, <1>4, Live
    <2>2. QED
      BY <1>2, <1>4, <2>1 DEF ApplyOnTrack
  <1>5. QED
    BY <1>1, <1>3, <1>4, Live, NewOwn

-----------------------------------------------------------------------------
(* One lemma per action of a worker inside a call.                           *)

(* A step that changes nothing shared disturbs nobody. *)
LEMMA StillKeeps ==
    ASSUME TypeInv, WriteInv, NEW p \in Workers, pc[p] # "idle", Own(p)',
           UNCHANGED <<requests, lands, ledgerVars, lock>>
    PROVE  Keeps(p)
BY Live, StillWorld DEF Keeps, Quiet

(* Nor does a true row about a mutation of its own batch. *)
LEMMA RowKeeps ==
    ASSUME TypeInv, WriteInv, NEW p \in Workers, pc[p] # "idle", Own(p)',
           NEW m \in job[p].scope, NEW s \in Statuses,
           Appended(RowFor(p, m, s)) \/ AppendFailed(RowFor(p, m, s)),
           TrueRow(RowFor(p, m, s)), UNCHANGED <<requests, lands, lock>>
    PROVE  Keeps(p)
  <1> DEFINE row == RowFor(p, m, s)
  <1>1. m \in Mutations /\ PlanOf[m] = PlanHeld(p) /\ WorldOK
    BY Live
  <1>2. row \in Rows /\ row.mutation = m
    BY <1>1, RowType DEF RowFor
  <1> HIDE DEF row
  <1>3. QED
    BY <1>1, <1>2, RowWorld DEF Keeps, Quiet, row

LEMMA AuthorizeKeeps ==
    ASSUME TypeInv, WriteInv, NEW p \in Workers, Authorize(p)
    PROVE  Keeps(p)
  <1> DEFINE S == job[p].scope
             k == job[p]
             applied == {m \in S : State(m) = "verified"}
             undone == {m \in S : State(m) = "rolled_back"}
             j == [k EXCEPT !.todo = applied, !.already = applied, !.bad = undone,
                            !.pending = S \ (applied \cup undone)]
  <1>1. /\ pc[p] = "authorize"
        /\ UNCHANGED <<requests, lands, ledgerVars, lock>>
    BY DEF Authorize, mailVars
  <1>2. Moved(p)
    BY AuthorizeMoves
  <1>3. pc \in [Workers -> Steps] /\ job \in [Workers -> Jobs]
    BY DEF TypeInv, TypeOK
  <1>4. \/ pc'[p] = "done"
        \/ /\ pc'[p] = "replay" /\ job'[p] = j
           /\ file # "corrupt" /\ \A m \in S : ~Frozen(m)
    BY <1>3 DEF Authorize, OuterHandler, Blocked, Finish, Goto, SetJob
  <1>5. CASE pc'[p] = "done"
    BY <1>1, <1>2, <1>5, DoneOwn, StillKeeps
  <1>6. CASE /\ pc'[p] = "replay" /\ job'[p] = j
             /\ file # "corrupt" /\ \A m \in S : ~Frozen(m)
    <2>1. /\ j.todo = applied /\ j.bad = undone
          /\ j.pending = S \ (applied \cup undone)
      <3>1. k \in Jobs
        BY <1>3
      <3> HIDE DEF k, applied, undone, S
      <3>2. QED
        BY <3>1 DEF Jobs
    <2>2. UNCHANGED auth /\ Quiet
      BY <1>1 DEF ledgerVars, Quiet
    <2>3. \A m \in S :
             /\ m \in Mutations
             /\ State(m) \in {"none", "verified", "rolled_back"}
             /\ State(m) = "none" => Fresh(m)
             /\ State(m) = "verified" => Untouched(m, "restore")
      <3>1. ASSUME NEW m \in S
            PROVE  m \in Mutations /\ ~Claimed(m) /\ LedgerTrue(m)
        BY <1>1, <1>6, Live
        DEF Claimed, Frozen, HazardousLatestStatuses, WorldOK
      <3>2. ASSUME NEW m \in S PROVE State(m) \in {"none", "verified", "rolled_back"}
        <4>1. auth[m] \in Records
          BY <3>1 DEF TypeInv, TypeOK
        <4>2. QED
          BY <4>1 DEF State, AuthoritativeState, Records, NoRecord,
             AuthoritativeStatuses
      <3>3. QED
        BY <3>1, <3>2 DEF LedgerTrue
    <2> HIDE DEF j
    <2>4. ApplyOnTrack(p)'
      <3>1. \A m \in S \ (applied \cup undone) : Fresh(m)'
        BY <2>2, <2>3, QuietUntouched
      <3>2. \A m \in applied : (State(m) = "verified" /\ Untouched(m, "restore"))'
        BY <2>2, <2>3, QuietUntouched DEF Kinds, State
      <3>3. \A m \in undone : State(m)' = "rolled_back"
        BY <2>2 DEF State
      <3>4. QED
        BY <1>6, <2>1, <3>1, <3>2, <3>3
        DEF ApplyOnTrack, FreshRowSteps, HoldingSteps, DispatchSteps
    <2>5. ClaimsFirst(p)' /\ pc'[p] # "idle" /\ pc'[p] \notin HoldingSteps
      BY <1>6 DEF ClaimsFirst, BeforeWriteSteps, HoldingSteps, DispatchSteps
    <2>6. Own(p)'
      BY <1>1, <1>2, <1>6, <2>1, <2>4, <2>5, NewOwn
    <2>7. QED
      BY <1>1, <2>6, StillKeeps
  <1>7. QED
    BY <1>4, <1>5, <1>6

LEMMA LogRowKeeps ==
    ASSUME TypeInv, WriteInv, NEW p \in Workers, NEW m \in Mutations, LogRow(p, m)
    PROVE  Keeps(p)
  <1> DEFINE s == RowStatus(pc[p])
             row == RowFor(p, m, s)
             k == job[p]
             t == [k EXCEPT !.todo = @ \ {m}]
  <1>1. /\ pc[p] \in RowSteps /\ m \in k.todo
        /\ UNCHANGED <<requests, lands, lock>> /\ Quiet
        /\ Appended(row) \/ AppendFailed(row)
    BY DEF LogRow, mailVars, Quiet
  <1>2. pc[p] # "idle" /\ Kind(p) = "apply"
    BY <1>1 DEF RowSteps, ApplySteps, TypeInv, Working
  <1>3. ApplyOnTrack(p) /\ m \in k.scope /\ k \in Jobs
    BY <1>1, <1>2, Live, JobType
  <1>4. s \in Statuses /\ s \notin AuthoritativeStatuses
    BY DEF RowStatus, Statuses, AuthoritativeStatuses
  <1>5. row.mutation = m /\ row.status = s
    BY DEF RowFor
  <1>6. TrueRow(row)
    <2>1. \/ Fresh(m)
          \/ State(m) = "verified" /\ Untouched(m, "restore")
          \/ State(m) = "rolled_back"
      BY <1>1, <1>3 DEF RowSteps, ApplyOnTrack, FreshRowSteps
    <2>2. QED
      BY <1>4, <1>5, <2>1 DEF TrueRow, Fresh
  <1>7. Moved(p)
    BY LogRowMoves
  <1>8. pc \in [Workers -> Steps] /\ job \in [Workers -> Jobs]
    BY DEF TypeInv, TypeOK
  <1>9. \/ pc'[p] = "done"
        \/ pc' = pc /\ cur' = cur /\ job'[p] = t
    BY <1>8 DEF LogRow, OuterHandler, Finish, Goto, SetJob
  <1>10. CASE pc'[p] = "done"
    BY <1>1, <1>2, <1>3, <1>4, <1>6, <1>7, <1>10, DoneOwn, RowKeeps
  <1>11. CASE pc' = pc /\ cur' = cur /\ job'[p] = t
    <2>1. t.todo = k.todo \ {m} /\ t.pending = k.pending /\ t.bad = k.bad
      <3> HIDE DEF k
      <3> QED BY <1>3 DEF Jobs
    <2>2. UNCHANGED auth
      BY <1>1, <1>4, <1>5 DEF Appended, AppendFailed, Stored, AuthorityAfter, ledgerVars
    <2>3. \A n \in Mutations : /\ State(n)' = State(n) /\ Fresh(n)' = Fresh(n)
                               /\ Untouched(n, "restore")' = Untouched(n, "restore")
      BY <1>1, <2>2, QuietUntouched DEF State, Kinds
    <2>4. pc[p] \notin HoldingSteps
      BY <1>1 DEF RowSteps, HoldingSteps, DispatchSteps
    <2>5. /\ k.todo \subseteq k.scope /\ k.pending \subseteq k.scope
          /\ k.bad \subseteq k.scope /\ k.scope \subseteq Mutations
      BY <1>2, Live
    <2> HIDE DEF t
    <2>6. ApplyOnTrack(p)'
      BY <1>3, <1>11, <2>1, <2>3, <2>4, <2>5 DEF ApplyOnTrack
    <2>7. ClaimsFirst(p)'
      BY <1>1, <1>11 DEF ClaimsFirst, RowSteps, BeforeWriteSteps
    <2>8. Own(p)'
      BY <1>1, <1>2, <1>7, <1>11, <2>1, <2>4, <2>5, <2>6, <2>7, NewOwn
    <2>9. QED
      BY <1>1, <1>2, <1>3, <1>4, <1>6, <2>8, RowKeeps
  <1>12. QED
    BY <1>9, <1>10, <1>11

LEMMA NextPhaseKeeps ==
    ASSUME TypeInv, WriteInv, NEW p \in Workers, NextPhase(p)
    PROVE  Keeps(p)
  <1> DEFINE k == job[p]
             t(rows) == [k EXCEPT !.todo = rows]
  <1>1. /\ pc[p] \in RowSteps \cup {"preflight"}
        /\ UNCHANGED <<requests, lands, ledgerVars, lock>>
    BY DEF NextPhase, mailVars
  <1>2. pc[p] # "idle" /\ Kind(p) = "apply"
    BY <1>1 DEF RowSteps, ApplySteps, TypeInv, Working
  <1>3. ApplyOnTrack(p) /\ k \in Jobs
    BY <1>2, Live, JobType
  <1>4. Moved(p)
    BY NextPhaseMoves
  <1>5. pc \in [Workers -> Steps] /\ job \in [Workers -> Jobs]
    BY DEF TypeInv, TypeOK
  <1>6. \/ pc'[p] = "done"
        \/ pc[p] = "replay" /\ pc'[p] = "refuse" /\ job'[p] = t(k.bad)
        \/ pc'[p] \in FreshRowSteps /\ job'[p] = t(k.pending)
        \/ pc'[p] = "loop" /\ job'[p] = t({})
    BY <1>5 DEF NextPhase, Proceed, Blocked, Finish, Goto, SetJob, FreshRowSteps
  <1>7. CASE pc'[p] = "done"
    BY <1>1, <1>2, <1>4, <1>7, DoneOwn, StillKeeps
  <1>8. ASSUME NEW rows \in {k.bad, k.pending, {}}, job'[p] = t(rows),
               \/ pc[p] = "replay" /\ pc'[p] = "refuse" /\ rows = k.bad
               \/ pc'[p] \in FreshRowSteps /\ rows = k.pending
               \/ pc'[p] = "loop" /\ rows = {}
        PROVE  Keeps(p)
    <2> DEFINE f == t(rows)
    <2>1. f.todo = rows /\ f.pending = k.pending /\ f.bad = k.bad /\ job'[p] = f
      <3>1. job'[p] = f
        BY <1>8
      <3> HIDE DEF k
      <3>2. f.todo = rows /\ f.pending = k.pending /\ f.bad = k.bad
        BY <1>3 DEF Jobs
      <3>3. QED
        BY <3>1, <3>2
    <2>2. Quiet /\ UNCHANGED auth
      BY <1>1 DEF Quiet, ledgerVars
    <2>3. \A n \in Mutations : State(n)' = State(n) /\ Fresh(n)' = Fresh(n)
      BY <2>2, QuietUntouched DEF State
    <2>4. pc'[p] \notin HoldingSteps /\ pc'[p] # "idle" /\ pc'[p] # "replay"
      BY <1>8 DEF FreshRowSteps, HoldingSteps, DispatchSteps
    <2>5. /\ k.pending \subseteq k.scope
          /\ k.bad \subseteq k.scope /\ k.scope \subseteq Mutations
      BY <1>2, Live
    <2>6. ClaimsFirst(p)'
      BY <1>8 DEF ClaimsFirst, FreshRowSteps, BeforeWriteSteps
    <2> HIDE DEF f
    <2>7. ApplyOnTrack(p)'
      <3>1. /\ pc'[p] \in FreshRowSteps => rows = k.pending
            /\ pc'[p] = "refuse" => rows = k.bad /\ pc[p] = "replay"
        BY <1>8 DEF FreshRowSteps
      <3>2. QED
        BY <1>3, <2>1, <2>3, <2>4, <2>5, <3>1 DEF ApplyOnTrack
    <2>8. Own(p)'
      BY <1>1, <1>2, <1>4, <2>1, <2>4, <2>5, <2>6, <2>7, NewOwn
    <2>9. QED
      BY <1>1, <1>2, <2>8, StillKeeps
  <1>9. QED
    BY <1>6, <1>7, <1>8

LEMMA PreflightKeeps ==
    ASSUME TypeInv, WriteInv, NEW p \in Workers, NEW m \in Mutations, Preflight(p, m)
    PROVE  Keeps(p)
  <1> DEFINE k == job[p]
             a == [k EXCEPT !.todo = @ \ {m}]
             b == [k EXCEPT !.todo = @ \ {m}, !.bad = @ \cup {m}]
  <1>1. /\ pc[p] = "preflight" /\ m \in k.todo
        /\ UNCHANGED <<requests, lands, ledgerVars, lock, pc, cur>>
        /\ SetJob(p, a) \/ SetJob(p, b)
    BY DEF Preflight, mailVars
  <1>2. job'[p] = a \/ job'[p] = b
    BY <1>1 DEF SetJob, TypeInv, TypeOK
  <1>3. Kind(p) = "apply"
    BY <1>1 DEF ApplySteps, TypeInv, Working
  <1>4. ApplyOnTrack(p) /\ k \in Jobs
    BY <1>1, <1>3, Live, JobType
  <1>5. /\ a.todo = k.todo \ {m} /\ a.pending = k.pending /\ a.bad = k.bad
        /\ b.todo = k.todo \ {m} /\ b.pending = k.pending /\ b.bad = k.bad \cup {m}
    <2> HIDE DEF k
    <2> QED BY <1>4 DEF Jobs
  <1>6. Moved(p)
    BY PreflightMoves
  <1>7. /\ k.todo \subseteq k.scope /\ k.pending \subseteq k.scope
        /\ k.bad \subseteq k.scope /\ k.scope \subseteq Mutations
    BY <1>1, Live
  <1>8. /\ job'[p].todo \subseteq k.todo /\ job'[p].pending = k.pending
        /\ job'[p].bad \subseteq k.scope
    <2> HIDE DEF a, b
    <2> QED BY <1>1, <1>2, <1>5, <1>7
  <1>9. \A n \in Mutations : Fresh(n)' = Fresh(n)
    BY <1>1, QuietUntouched DEF Quiet
  <1> HIDE DEF a, b
  <1>10. ApplyOnTrack(p)'
    BY <1>1, <1>4, <1>7, <1>8, <1>9
    DEF ApplyOnTrack, FreshRowSteps, HoldingSteps, DispatchSteps
  <1>11. ClaimsFirst(p)' /\ pc'[p] \notin HoldingSteps
    BY <1>1 DEF ClaimsFirst, BeforeWriteSteps, HoldingSteps, DispatchSteps
  <1>12. Own(p)'
    BY <1>1, <1>6, <1>7, <1>8, <1>10, <1>11, NewOwn
  <1>13. QED
    BY <1>1, <1>12, StillKeeps

LEMMA LoopEndKeeps ==
    ASSUME TypeInv, WriteInv, NEW p \in Workers,
           Deadline(p) \/ AllApplied(p) \/ AllRestored(p)
    PROVE  Keeps(p)
  <1>1. /\ pc[p] # "idle"
        /\ UNCHANGED <<requests, lands, ledgerVars, lock>>
    BY DEF Deadline, AllApplied, AllRestored, mailVars
  <1>2. pc'[p] = "done"
    BY DEF Deadline, AllApplied, AllRestored, Finish, Goto, TypeInv, TypeOK
  <1>3. Moved(p)
    BY LoopEndMoves
  <1>4. QED
    BY <1>1, <1>2, <1>3, DoneOwn, StillKeeps

LEMMA ClaimApplyKeeps ==
    ASSUME TypeInv, WriteInv, NEW p \in Workers, NEW m \in Mutations, ClaimApply(p, m)
    PROVE  Keeps(p)
  <1> DEFINE row == RowFor(p, m, "applying")
             k == job[p]
             t == [k EXCEPT !.pending = @ \ {m}]
  <1>1. /\ pc[p] = "loop" /\ m \in k.pending
        /\ UNCHANGED <<requests, lands, lock>> /\ Quiet
        /\ Appended(row) \/ AppendFailed(row)
    BY DEF ClaimApply, mailVars, Quiet
  <1>2. Kind(p) = "apply"
    BY <1>1 DEF ApplySteps, TypeInv, Working
  <1>3. /\ ApplyOnTrack(p) /\ m \in k.scope /\ k \in Jobs
        /\ k.todo \subseteq k.scope /\ k.pending \subseteq k.scope
        /\ k.bad \subseteq k.scope /\ k.scope \subseteq Mutations
    BY <1>1, <1>2, Live, JobType
  <1>4. TrueRow(row) /\ "applying" \in Statuses
    BY DEF TrueRow, RowFor, HazardousLatestStatuses, FrozenLatestStatuses, Statuses
  <1>5. Moved(p)
    BY ClaimApplyMoves
  <1>6. /\ pc \in [Workers -> Steps] /\ job \in [Workers -> Jobs]
        /\ cur \in [Workers -> Mutations \cup {NoMutation}]
        /\ latest \in [Mutations -> Statuses \cup {"none"}]
    BY DEF TypeInv, TypeOK
  <1>7. \/ pc'[p] = "done"
        \/ Appended(row) /\ pc'[p] = "recheck" /\ cur'[p] = m /\ job'[p] = t
    BY <1>6 DEF ClaimApply, Finish, Goto, SetJob
  <1>8. CASE pc'[p] = "done"
    BY <1>1, <1>3, <1>4, <1>5, <1>8, DoneOwn, RowKeeps
  <1>9. CASE Appended(row) /\ pc'[p] = "recheck" /\ cur'[p] = m /\ job'[p] = t
    <2>1. t.todo = k.todo /\ t.pending = k.pending \ {m} /\ t.bad = k.bad /\ t.op = k.op
      <3> HIDE DEF k
      <3> QED BY <1>3 DEF Jobs
    <2>2. Claimed(m)'
      BY <1>6, <1>9
      DEF Appended, Stored, LatestAfter, RowFor, Claimed, HazardousLatestStatuses,
          FrozenLatestStatuses
    <2>3. \A n \in Mutations : /\ Fresh(n)' = Fresh(n)
                               /\ Untouched(n, "restore")' = Untouched(n, "restore")
                               /\ Untouched(n, "apply")' = Untouched(n, "apply")
      BY <1>1, QuietUntouched DEF Kinds
    <2>4. Fresh(m)
      BY <1>1, <1>3 DEF ApplyOnTrack
    <2> HIDE DEF t
    <2>5. Kind(p)' = "apply"
      BY <1>2, <1>9, <2>1 DEF Kind
    <2>6. ClaimsFirst(p)'
      BY <1>9, <2>2, <2>3, <2>4, <2>5 DEF ClaimsFirst, Fresh
    <2>7. ApplyOnTrack(p)'
      BY <1>3, <1>9, <2>1, <2>3, <2>4 DEF ApplyOnTrack, FreshRowSteps, Fresh
    <2>8. Own(p)'
      BY <1>1, <1>3, <1>5, <1>9, <2>1, <2>6, <2>7, NewOwn
    <2>9. QED
      BY <1>1, <1>3, <1>4, <2>8, RowKeeps
  <1>10. QED
    BY <1>7, <1>8, <1>9

LEMMA GotoOnlyKeeps ==
    ASSUME TypeInv, WriteInv, NEW p \in Workers, Recheck(p) \/ RecordAutomationState(p)
    PROVE  Keeps(p)
  <1>1. /\ pc[p] \in {"recheck", "private_state"} /\ pc[p] # "idle"
        /\ UNCHANGED <<requests, lands, ledgerVars, lock, cur, job>> /\ Quiet
        /\ \E s \in {"refused", "send", "final", "private_failed"} :
              Goto(p, s) /\ (s \in {"refused", "send"} => pc[p] = "recheck")
    BY DEF Recheck, RecordAutomationState, mailVars, Quiet
  <1>2. /\ pc'[p] \in {"refused", "send", "final", "private_failed"}
        /\ pc'[p] \in {"refused", "send"} => pc[p] = "recheck"
    BY <1>1 DEF Goto, TypeInv, TypeOK
  <1>3. pc[p] \in HoldingSteps /\ pc'[p] \in HoldingSteps
    BY <1>1, <1>2 DEF HoldingSteps, DispatchSteps
  <1>4. Moved(p)
    BY GotoOnlyMoves
  <1>5. /\ cur[p] \in job[p].scope /\ job[p].scope \subseteq Mutations
        /\ job[p].pending \subseteq Mutations
        /\ Kind(p) \in Kinds /\ Kind(p)' = Kind(p)
        /\ ClaimsFirst(p)
    BY <1>1, <1>3, Live DEF Kind
  <1>6. pc'[p] \in BeforeWriteSteps =>
           Untouched(cur[p], Kind(p))' /\ Claimed(cur[p])'
    <2>1. pc'[p] \in BeforeWriteSteps => pc[p] = "recheck"
      BY <1>2 DEF BeforeWriteSteps
    <2>2. pc[p] = "recheck" => Untouched(cur[p], Kind(p)) /\ Claimed(cur[p])
      BY <1>5 DEF ClaimsFirst, BeforeWriteSteps
    <2>3. Claimed(cur[p])' = Claimed(cur[p])
      BY <1>1 DEF Claimed, ledgerVars
    <2>4. Untouched(cur[p], Kind(p))' = Untouched(cur[p], Kind(p))
      BY <1>1, <1>5 DEF Quiet, Untouched, InFlight
    <2>5. QED
      BY <2>1, <2>2, <2>3, <2>4
  <1>7. /\ \A n \in job[p].pending : Fresh(n) => Fresh(n)'
        /\ Untouched(cur[p], "restore") => Untouched(cur[p], "restore")'
    BY <1>1, <1>5, QuietUntouched DEF Kinds
  <1>8. pc'[p] \in {"recheck", "send"} => Claimed(cur[p])'
    BY <1>2, <1>6 DEF BeforeWriteSteps
  <1>9. Own(p)'
    BY <1>1, <1>3, <1>4, <1>6, <1>7, <1>8, HoldOwn
  <1>10. QED
    BY <1>1, <1>9, StillKeeps

(* The request is issued: the one step that stops a write being untouched. *)
LEMMA SendKeeps ==
    ASSUME TypeInv, WriteInv, NEW p \in Workers, Send(p)
    PROVE  Keeps(p)
  <1> DEFINE k == job[p]
             m == cur[p]
             kd == Kind(p)
             j == [k EXCEPT !.sent = @ \cup {m}]
             q == [mutation |-> m, kind |-> kd, by |-> p,
                   from |-> From(p, m), to |-> To(p, m)]
  <1>1. /\ pc[p] = "send"
        /\ UNCHANGED <<lands, ledgerVars, lock, cur>>
    BY DEF Send
  <1>2. pc[p] \in HoldingSteps /\ pc[p] # "idle"
    BY <1>1 DEF HoldingSteps, DispatchSteps
  <1>3. /\ m \in k.scope /\ k.scope \subseteq Mutations /\ m \in Mutations
        /\ k.pending \subseteq k.scope
        /\ kd \in Kinds /\ ClaimsFirst(p) /\ WorldOK /\ OwnsPlan(p) /\ k \in Jobs
        /\ kd = "apply" => ApplyOnTrack(p)
        /\ PlanHeld(p) \in Plans /\ PlanOf[m] = PlanHeld(p)
    BY <1>2, Live, JobType
  <1>4. Untouched(m, kd) /\ Claimed(m)
    BY <1>1, <1>3 DEF ClaimsFirst, BeforeWriteSteps
  <1>5. Moved(p)
    BY SendMoves
  <1>6. pc \in [Workers -> Steps] /\ job \in [Workers -> Jobs]
    BY DEF TypeInv, TypeOK
  <1>7. CASE Goto(p, "refused") /\ UNCHANGED <<requests, job>>
    <2>1. pc'[p] = "refused" /\ pc'[p] \in HoldingSteps
      BY <1>6, <1>7 DEF Goto, HoldingSteps, DispatchSteps
    <2>2. Quiet
      BY <1>1, <1>7 DEF Quiet
    <2>3. /\ \A n \in k.pending : Fresh(n) => Fresh(n)'
          /\ Untouched(cur[p], "restore") => Untouched(cur[p], "restore")'
      BY <1>3, <1>1, <2>2, QuietUntouched DEF Kinds
    <2>4. Untouched(cur[p], Kind(p))'
      BY <1>1, <1>4, <1>7 DEF Untouched, InFlight, Kind
    <2>5. Own(p)'
      BY <1>1, <1>2, <1>5, <1>7, <2>1, <2>3, <2>4, HoldOwn
    <2>6. QED
      BY <1>1, <1>2, <1>7, <2>5, StillKeeps
  <1>8. CASE /\ Goto(p, "wait") /\ SetJob(p, j)
             /\ requests' = requests \cup {q}
    <2>1. /\ pc'[p] = "wait" /\ pc'[p] \in HoldingSteps
          /\ pc'[p] \notin BeforeWriteSteps
      BY <1>6, <1>8 DEF Goto, HoldingSteps, DispatchSteps, BeforeWriteSteps
    <2>2. /\ job'[p].todo = k.todo /\ job'[p].pending = k.pending
          /\ job'[p].bad = k.bad
      <3>1. job'[p] = j
        BY <1>6, <1>8 DEF SetJob
      <3>2. j.todo = k.todo /\ j.pending = k.pending /\ j.bad = k.bad
        <4> HIDE DEF k, m
        <4> QED BY <1>3 DEF Jobs
      <3>3. QED
        BY <3>1, <3>2
    <2>3. ASSUME NEW n \in Mutations, NEW c \in Kinds, n # m \/ c # kd
          PROVE  InFlight(n, c)' = InFlight(n, c)
      <3>1. q.mutation = m /\ q.kind = kd
        OBVIOUS
      <3> HIDE DEF q, m, kd
      <3>2. QED
        BY <1>8, <2>3, <3>1 DEF InFlight
    <2>4. ASSUME NEW n \in Mutations, NEW c \in Kinds, n # m \/ c # kd
          PROVE  Untouched(n, c)' = Untouched(n, c)
      BY <1>1, <2>3, <2>4 DEF Untouched
    <2>5. InFlight(m, kd)' = {q}
      <3>1. q.mutation = m /\ q.kind = kd /\ InFlight(m, kd) = {}
        BY <1>4 DEF Untouched
      <3>2. {r \in requests' : r.mutation = m /\ r.kind = kd} = {q}
        <4> HIDE DEF q, m, kd
        <4> QED BY <1>8, <3>1 DEF InFlight
      <3>3. m' = m /\ kd' = kd
        <4>1. SameCall(job'[p], job[p])
          BY <1>2, <1>5, <2>1 DEF Moved, HoldingSteps, DispatchSteps
        <4>2. QED
          BY <1>1, <4>1 DEF Kind, SameCall
      <3>4. QED
        BY <3>2, <3>3 DEF InFlight
    <2>6. WorldOK'
      <3>1. ASSUME NEW n \in Mutations PROVE LedgerTrue(n)'
        <4>1. Claimed(n)' = Claimed(n) /\ State(n)' = State(n) /\ LedgerTrue(n)
          BY <1>1, <1>3 DEF Claimed, State, ledgerVars, WorldOK
        <4>2. CASE n = m
          BY <1>4, <4>1, <4>2 DEF LedgerTrue
        <4>3. CASE n # m
          BY <2>4, <4>1, <4>3 DEF LedgerTrue, Fresh, Kinds
        <4>4. QED
          BY <4>2, <4>3
      <3>2. ASSUME NEW n \in Mutations, NEW c \in Kinds PROVE OneRequest(n, c)'
        <4>1. OneRequest(n, c)
          BY <1>3 DEF WorldOK
        <4>2. CASE n = m /\ c = kd
          <5>1. InFlight(n, c)' = {q} /\ lands'[<<n, c>>] = 0
            <6>1. lands[<<m, kd>>] = 0
              BY <1>4 DEF Untouched
            <6>2. {r \in requests' : r.mutation = n /\ r.kind = c} = {q}
              <7>1. q.mutation = m /\ q.kind = kd /\ InFlight(m, kd) = {}
                BY <1>4 DEF Untouched
              <7>2. QED
                <8> HIDE DEF q, m, kd
                <8> QED BY <1>8, <4>2, <7>1 DEF InFlight
            <6>3. QED
              BY <1>1, <4>2, <6>1, <6>2 DEF InFlight
          <5> HIDE DEF q
          <5>2. QED
            BY <5>1 DEF OneRequest
        <4>3. CASE n # m \/ c # kd
          BY <1>1, <2>3, <4>1, <4>3 DEF OneRequest
        <4>4. QED
          BY <4>2, <4>3
      <3>3. QED
        BY <3>1, <3>2 DEF WorldOK
    <2>7. Elsewhere(p, PlanHeld(p))
      BY <1>1, <1>3, <2>4 DEF Elsewhere, ledgerVars
    <2>8. Own(p)'
      <3>1. ASSUME kd = "apply" PROVE /\ \A n \in k.pending : Fresh(n)'
                                      /\ Untouched(cur[p], "restore")'
        <4>1. /\ \A n \in k.pending : Fresh(n) /\ n # m /\ n \in Mutations
              /\ Untouched(m, "restore")
          BY <1>2, <1>3, <3>1 DEF ApplyOnTrack
        <4>2. Untouched(m, "restore")'
          <5>1. InFlight(m, "restore") = {} /\ lands'[<<m, "restore">>] = 0
            BY <1>1, <4>1 DEF Untouched
          <5>2. {r \in requests' : r.mutation = m /\ r.kind = "restore"} = {}
            <6>1. q.kind # "restore"
              BY <3>1
            <6> HIDE DEF q, m, kd
            <6>2. QED
              BY <1>8, <5>1, <6>1 DEF InFlight
          <5>3. QED
            BY <1>1, <5>1, <5>2 DEF Untouched, InFlight
        <4>3. QED
          BY <1>1, <2>4, <4>1, <4>2 DEF Fresh, Kinds
      <3>2. ClaimsFirst(p)'
        BY <2>1 DEF ClaimsFirst, BeforeWriteSteps
      <3>3. ASSUME kd = "apply" PROVE ApplyOnTrack(p)'
        <4>1. ApplyOnTrack(p)
          BY <1>3, <3>3
        <4>2. QED
          BY <1>1, <1>2, <2>1, <2>2, <3>1, <3>3, <4>1 DEF ApplyOnTrack, FreshRowSteps
      <3>4. QED
        BY <1>1, <1>2, <1>5, <2>1, <2>2, <3>2, <3>3, Live, NewOwn
        DEF HoldingSteps, DispatchSteps
    <2>9. QED
      BY <2>6, <2>7, <2>8 DEF Keeps
  <1>9. QED
    BY <1>7, <1>8 DEF Send

LEMMA AnswerKeeps ==
    ASSUME TypeInv, WriteInv, NEW p \in Workers, Timeout(p) \/ Readback(p)
    PROVE  Keeps(p)
  <1> DEFINE k == job[p]
             j == [k EXCEPT !.writes = @ + 1]
  <1>1. /\ pc[p] \in {"wait", "readback"} /\ pc[p] # "idle"
        /\ UNCHANGED <<requests, lands, ledgerVars, lock, cur>> /\ Quiet
        /\ SetJob(p, j)
        /\ \E s \in {"ambiguous", "verify", "restored"} : Goto(p, s)
    BY DEF Timeout, Readback, mailVars, Quiet
  <1>2. pc'[p] \in {"ambiguous", "verify", "restored"} /\ job'[p] = j /\ k \in Jobs
    BY <1>1 DEF Goto, SetJob, TypeInv, TypeOK
  <1>3. j.todo = k.todo /\ j.pending = k.pending /\ j.bad = k.bad
    <2> HIDE DEF k
    <2> QED BY <1>2 DEF Jobs
  <1>4. /\ pc[p] \in HoldingSteps /\ pc'[p] \in HoldingSteps
        /\ pc'[p] \notin BeforeWriteSteps
    BY <1>1, <1>2 DEF HoldingSteps, DispatchSteps, BeforeWriteSteps
  <1>5. Moved(p)
    BY AnswerMoves
  <1>6. /\ \A n \in k.pending : Fresh(n) => Fresh(n)'
        /\ Untouched(cur[p], "restore") => Untouched(cur[p], "restore")'
    BY <1>1, <1>4, Live, QuietUntouched DEF Kinds
  <1>7. Own(p)'
    <2> HIDE DEF j
    <2> QED
      BY <1>1, <1>2, <1>3, <1>4, <1>5, <1>6, HoldOwn DEF BeforeWriteSteps
  <1>8. QED
    BY <1>1, <1>7, StillKeeps

(* A released claim is true: the write it claimed is untouched. *)
LEMMA ReleaseTrue ==
    ASSUME TypeInv, WriteInv, NEW p \in Workers, pc[p] \in HoldingSteps,
           pc[p] \in BeforeWriteSteps, NEW s \in Statuses \ AuthoritativeStatuses
    PROVE  TrueRow(RowFor(p, cur[p], s))
  <1> DEFINE m == cur[p]
             row == RowFor(p, m, s)
  <1>1. pc[p] # "idle"
    BY DEF HoldingSteps, DispatchSteps
  <1>2. /\ m \in Mutations /\ Kind(p) \in Kinds /\ Untouched(m, Kind(p))
        /\ Kind(p) = "apply" => Untouched(m, "restore")
    BY <1>1, Live DEF ClaimsFirst, ApplyOnTrack
  <1>3. Kind(p) = "restore" => State(m) # "none"
    BY <1>2 DEF TypeInv, Working, State, AuthoritativeState
  <1>4. row.mutation = m /\ row.status = s
    BY DEF RowFor
  <1>5. QED
    BY <1>2, <1>3, <1>4 DEF TrueRow, Fresh, Kinds

LEMMA FailureRowKeeps ==
    ASSUME TypeInv, WriteInv, NEW p \in Workers,
           Ambiguous(p) \/ Refused(p) \/ PrivateStateFailed(p)
    PROVE  Keeps(p)
  <1>1. /\ pc[p] \in HoldingSteps /\ pc[p] # "idle"
        /\ UNCHANGED <<requests, lands, lock>> /\ Quiet
    BY DEF Ambiguous, Refused, PrivateStateFailed, HoldingSteps, DispatchSteps,
       mailVars, Quiet
  <1>2. cur[p] \in job[p].scope
    BY <1>1, Live
  <1>3. Moved(p)
    BY FailureRowMoves
  <1>4. \E why \in {"ambiguous", "refused", "private_state"} : Fail(p, cur[p], why)
    BY DEF Ambiguous, Refused, PrivateStateFailed
  <1>5. Own(p)'
    BY <1>1, <1>3, <1>4, FailOwn
  <1>6. \E s \in Statuses :
           /\ Appended(RowFor(p, cur[p], s)) \/ AppendFailed(RowFor(p, cur[p], s))
           /\ \/ s \in HazardousLatestStatuses
              \/ pc[p] = "refused" /\ s \notin AuthoritativeStatuses
    BY DEF Ambiguous, Refused, PrivateStateFailed, Statuses, HazardousLatestStatuses,
       FrozenLatestStatuses, AuthoritativeStatuses
  <1>7. PICK s \in Statuses :
           /\ Appended(RowFor(p, cur[p], s)) \/ AppendFailed(RowFor(p, cur[p], s))
           /\ \/ s \in HazardousLatestStatuses
              \/ pc[p] = "refused" /\ s \notin AuthoritativeStatuses
    BY <1>6
  <1>8. TrueRow(RowFor(p, cur[p], s))
    <2>1. CASE s \in HazardousLatestStatuses
      BY <2>1 DEF TrueRow, RowFor
    <2>2. CASE pc[p] = "refused" /\ s \notin AuthoritativeStatuses
      BY <1>1, <2>2, ReleaseTrue DEF BeforeWriteSteps
    <2>3. QED
      BY <1>7, <2>1, <2>2
  <1>9. QED
    BY <1>1, <1>2, <1>5, <1>7, <1>8, RowKeeps

LEMMA RecordDriftKeeps ==
    ASSUME TypeInv, WriteInv, NEW p \in Workers, RecordDrift(p)
    PROVE  Keeps(p)
  <1>1. /\ pc[p] = "drift" /\ pc[p] \in HoldingSteps /\ pc[p] # "idle"
        /\ UNCHANGED <<requests, lands, ledgerVars, lock>> /\ Quiet
    BY DEF RecordDrift, HoldingSteps, DispatchSteps, mailVars, Quiet
  <1>2. Moved(p)
    BY RecordDriftMoves
  <1>3. CASE Goto(p, "refused") /\ UNCHANGED <<cur, job>>
    <2>1. pc'[p] = "refused" /\ pc'[p] \in HoldingSteps
      BY <1>3 DEF Goto, HoldingSteps, DispatchSteps, TypeInv, TypeOK
    <2>2. Untouched(cur[p], Kind(p))
      BY <1>1, Live DEF ClaimsFirst, BeforeWriteSteps
    <2>3. Untouched(cur[p], Kind(p))'
      BY <1>1, <1>3, <2>2 DEF Untouched, InFlight, Kind
    <2>4. /\ \A n \in job[p].pending : Fresh(n) => Fresh(n)'
          /\ Untouched(cur[p], "restore") => Untouched(cur[p], "restore")'
      BY <1>1, <1>3, Live, QuietUntouched DEF Kinds
    <2>5. Own(p)'
      BY <1>1, <1>2, <1>3, <2>1, <2>3, <2>4, HoldOwn
    <2>6. QED
      BY <1>1, <2>5, StillKeeps
  <1>4. CASE Fail(p, cur[p], "private_state")
    BY <1>1, <1>2, <1>4, FailOwn, StillKeeps
  <1>5. QED
    BY <1>3, <1>4 DEF RecordDrift

LEMMA VerifyKeeps ==
    ASSUME TypeInv, WriteInv, NEW p \in Workers, Verify(p)
    PROVE  Keeps(p)
  <1> DEFINE s == "verified_pending_private_state"
             row == RowFor(p, cur[p], s)
  <1>1. /\ pc[p] = "verify" /\ pc[p] \in HoldingSteps /\ pc[p] # "idle"
        /\ UNCHANGED <<requests, lands, lock>> /\ Quiet
        /\ Appended(row) \/ AppendFailed(row)
    BY DEF Verify, HoldingSteps, mailVars, Quiet
  <1>2. cur[p] \in job[p].scope
    BY <1>1, Live
  <1>3. Moved(p)
    BY VerifyMoves
  <1>4. s \in Statuses /\ TrueRow(row)
    BY DEF TrueRow, RowFor, Statuses, HazardousLatestStatuses, FrozenLatestStatuses
  <1>5. CASE Goto(p, "private_state") /\ UNCHANGED <<cur, job>>
    <2>1. /\ pc'[p] = "private_state" /\ pc'[p] \in HoldingSteps
          /\ pc'[p] \notin BeforeWriteSteps
      BY <1>5 DEF Goto, HoldingSteps, BeforeWriteSteps, TypeInv, TypeOK
    <2>2. /\ \A n \in job[p].pending : Fresh(n) => Fresh(n)'
          /\ Untouched(cur[p], "restore") => Untouched(cur[p], "restore")'
      BY <1>1, <1>5, Live, QuietUntouched DEF Kinds
    <2>3. Own(p)'
      BY <1>1, <1>3, <1>5, <2>1, <2>2, HoldOwn
    <2>4. QED
      BY <1>1, <1>2, <1>4, <2>3, RowKeeps
  <1>6. CASE Fail(p, cur[p], "ambiguous")
    BY <1>1, <1>2, <1>3, <1>4, <1>6, FailOwn, RowKeeps
  <1>7. QED
    BY <1>5, <1>6 DEF Verify

LEMMA FinalizeKeeps ==
    ASSUME TypeInv, WriteInv, NEW p \in Workers, Finalize(p)
    PROVE  Keeps(p)
  <1> DEFINE k == job[p]
             j == [k EXCEPT !.verified = @ \cup {cur[p]}]
             row == RowFor(p, cur[p], "verified")
  <1>1. /\ pc[p] = "final" /\ pc[p] \in HoldingSteps /\ pc[p] # "idle"
        /\ UNCHANGED <<requests, lands, lock>> /\ Quiet
        /\ Appended(row) \/ AppendFailed(row)
    BY DEF Finalize, HoldingSteps, mailVars, Quiet
  <1>2. Kind(p) = "apply"
    BY <1>1 DEF TypeInv, Working, ApplySteps
  <1>3. /\ cur[p] \in k.scope /\ ApplyOnTrack(p) /\ k \in Jobs
        /\ k.todo \subseteq k.scope /\ k.pending \subseteq k.scope
        /\ k.bad \subseteq k.scope /\ k.scope \subseteq Mutations
    BY <1>1, <1>2, Live, JobType
  <1>4. Moved(p)
    BY ConcludeMoves
  <1>5. "verified" \in Statuses /\ TrueRow(row)
    <2>1. Untouched(cur[p], "restore")
      BY <1>1, <1>3 DEF ApplyOnTrack
    <2>2. row.status = "verified" /\ row.mutation = cur[p]
      BY DEF RowFor
    <2>3. QED
      BY <2>1, <2>2 DEF TrueRow, Statuses
  <1>6. CASE Goto(p, "loop") /\ SetJob(p, j)
    <2>1. pc'[p] = "loop" /\ job'[p] = j
      BY <1>6 DEF Goto, SetJob, TypeInv, TypeOK
    <2>2. j.todo = k.todo /\ j.pending = k.pending /\ j.bad = k.bad
      <3> HIDE DEF k
      <3> QED BY <1>3 DEF Jobs
    <2>3. \A n \in Mutations : Fresh(n)' = Fresh(n)
      BY <1>1, QuietUntouched
    <2> HIDE DEF j
    <2>4. ApplyOnTrack(p)'
      BY <1>3, <2>1, <2>2, <2>3
      DEF ApplyOnTrack, FreshRowSteps, HoldingSteps, DispatchSteps
    <2>5. ClaimsFirst(p)' /\ pc'[p] \notin HoldingSteps /\ pc'[p] # "idle"
      BY <2>1 DEF ClaimsFirst, BeforeWriteSteps, HoldingSteps, DispatchSteps
    <2>6. Own(p)'
      BY <1>1, <1>3, <1>4, <2>1, <2>2, <2>4, <2>5, NewOwn
    <2>7. QED
      BY <1>1, <1>3, <1>5, <2>6, RowKeeps
  <1>7. CASE Fail(p, cur[p], "ambiguous")
    BY <1>1, <1>3, <1>4, <1>5, <1>7, FailOwn, RowKeeps
  <1>8. QED
    BY <1>6, <1>7 DEF Finalize

-----------------------------------------------------------------------------
(* Rollback.                                                                 *)

LEMMA ClassifyKeeps ==
    ASSUME TypeInv, WriteInv, NEW p \in Workers, Classify(p)
    PROVE  Keeps(p)
  <1> DEFINE S == job[p].scope
             k == job[p]
             C == {m \in S : State(m) = "verified"}
  <1>1. /\ pc[p] = "classify"
        /\ UNCHANGED <<requests, lands, ledgerVars, lock>>
    BY DEF Classify, mailVars
  <1>2. Kind(p) = "restore" /\ k \in Jobs
    BY <1>1, JobType DEF TypeInv, Working, RestoreSteps
  <1>3. Moved(p)
    BY ClassifyMoves
  <1>4. pc \in [Workers -> Steps] /\ job \in [Workers -> Jobs]
    BY DEF TypeInv, TypeOK
  <1>5. \/ pc'[p] = "done"
        \/ /\ pc'[p] = "check"
           /\ \E D \in SUBSET S :
                 job'[p] = [k EXCEPT !.todo = D, !.pending = D, !.already = S \ D]
    BY <1>4 DEF Classify, OuterHandler, Blocked, Finish, Goto, SetJob
  <1>6. CASE pc'[p] = "done"
    BY <1>1, <1>3, <1>6, DoneOwn, StillKeeps
  <1>7. ASSUME pc'[p] = "check", NEW D \in SUBSET S,
               job'[p] = [k EXCEPT !.todo = D, !.pending = D, !.already = S \ D]
        PROVE  Keeps(p)
    <2> DEFINE j == [k EXCEPT !.todo = D, !.pending = D, !.already = S \ D]
    <2>1. j.todo = D /\ j.pending = D /\ j.bad = k.bad
      <3> HIDE DEF k, S
      <3> QED BY <1>2 DEF Jobs
    <2>2. job'[p] = j /\ k.bad \subseteq S
      BY <1>1, <1>7, Live
    <2>3. ClaimsFirst(p)' /\ pc'[p] \notin HoldingSteps /\ pc'[p] # "idle"
      BY <1>7 DEF ClaimsFirst, BeforeWriteSteps, HoldingSteps, DispatchSteps
    <2> HIDE DEF j
    <2>4. Own(p)'
      BY <1>1, <1>2, <1>3, <2>1, <2>2, <2>3, RestoreOwn
    <2>5. QED
      BY <1>1, <2>4, StillKeeps
  <1>8. QED
    BY <1>5, <1>6, <1>7

LEMMA CheckCandidateKeeps ==
    ASSUME TypeInv, WriteInv, NEW p \in Workers, NEW m \in Mutations,
           CheckCandidate(p, m)
    PROVE  Keeps(p)
  <1> DEFINE k == job[p]
             a == [k EXCEPT !.todo = @ \ {m}]
             b == [k EXCEPT !.todo = @ \ {m}, !.bad = @ \cup {m}]
             c(x) == [k EXCEPT !.seen = x]
  <1>1. /\ pc[p] = "check" /\ m \in k.todo
        /\ UNCHANGED <<requests, lands, ledgerVars, lock>>
    BY DEF CheckCandidate, mailVars
  <1>2. Kind(p) = "restore" /\ k \in Jobs
    BY <1>1, JobType DEF TypeInv, Working, RestoreSteps
  <1>3. Moved(p)
    BY CheckCandidateMoves
  <1>4. /\ pc \in [Workers -> Steps] /\ job \in [Workers -> Jobs]
        /\ cur \in [Workers -> Mutations \cup {NoMutation}]
    BY DEF TypeInv, TypeOK
  <1>5. \/ pc'[p] = "done"
        \/ pc'[p] = "check" /\ (job'[p] = a \/ job'[p] = b)
        \/ pc'[p] = "diverged" /\ cur'[p] = m /\ \E x : job'[p] = c(x)
    BY <1>1, <1>4 DEF CheckCandidate, OuterHandler, Finish, Goto, SetJob
  <1>6. CASE pc'[p] = "done"
    BY <1>1, <1>3, <1>6, DoneOwn, StillKeeps
  <1>7. /\ k.todo \subseteq k.scope /\ k.pending \subseteq k.scope
        /\ k.bad \subseteq k.scope
    BY <1>1, Live
  <1>8. ASSUME pc'[p] \in {"check", "diverged"}, pc'[p] = "diverged" => cur'[p] = m,
               NEW j, j.todo \subseteq k.todo, j.pending = k.pending,
               j.bad \subseteq k.bad \cup {m}, job'[p] = j
        PROVE  Keeps(p)
    <2>1. ClaimsFirst(p)' /\ pc'[p] # "idle" /\ "check" \notin HoldingSteps
      BY <1>8 DEF ClaimsFirst, BeforeWriteSteps, HoldingSteps, DispatchSteps
    <2>2. Own(p)'
      BY <1>1, <1>2, <1>3, <1>7, <1>8, <2>1, RestoreOwn
    <2>3. QED
      BY <1>1, <2>2, StillKeeps
  <1>9. CASE pc'[p] = "check" /\ (job'[p] = a \/ job'[p] = b)
    <2>1. /\ a.todo = k.todo \ {m} /\ a.pending = k.pending /\ a.bad = k.bad
          /\ b.todo = k.todo \ {m} /\ b.pending = k.pending /\ b.bad = k.bad \cup {m}
      <3> HIDE DEF k
      <3> QED BY <1>2 DEF Jobs
    <2> HIDE DEF a, b
    <2>2. QED
      BY <1>8, <1>9, <2>1
  <1>10. CASE pc'[p] = "diverged" /\ cur'[p] = m /\ \E x : job'[p] = c(x)
    <2>1. PICK x : job'[p] = c(x)
      BY <1>10
    <2>2. c(x).todo = k.todo /\ c(x).pending = k.pending /\ c(x).bad = k.bad
      <3> HIDE DEF k
      <3> QED BY <1>2 DEF Jobs
    <2> HIDE DEF c
    <2>3. QED
      BY <1>8, <1>10, <2>1, <2>2
  <1>11. QED
    BY <1>5, <1>6, <1>9, <1>10

LEMMA RecordDivergenceKeeps ==
    ASSUME TypeInv, WriteInv, NEW p \in Workers, RecordDivergence(p)
    PROVE  Keeps(p)
  <1> DEFINE k == job[p]
             m == cur[p]
             j == [k EXCEPT !.todo = @ \ {m}, !.bad = @ \cup {m}, !.seen = Unknown]
  <1>1. /\ pc[p] = "diverged" /\ pc[p] \in HoldingSteps
        /\ UNCHANGED <<requests, lands, ledgerVars, lock>>
        /\ pc'[p] = "check" /\ job'[p] = j
    BY DEF RecordDivergence, HoldingSteps, mailVars, Goto, SetJob, TypeInv, TypeOK
  <1>2. Kind(p) = "restore" /\ k \in Jobs
    BY <1>1, JobType DEF TypeInv, Working, RestoreSteps
  <1>3. Moved(p)
    BY RecordDivergenceMoves
  <1>4. j.todo = k.todo \ {m} /\ j.pending = k.pending /\ j.bad = k.bad \cup {m}
    <2> HIDE DEF k, m
    <2> QED BY <1>2 DEF Jobs
  <1>5. /\ k.todo \subseteq k.scope /\ k.pending \subseteq k.scope
        /\ k.bad \subseteq k.scope /\ m \in k.scope
    BY <1>1, Live
  <1>6. ClaimsFirst(p)' /\ pc'[p] \notin HoldingSteps /\ pc'[p] # "idle"
    BY <1>1 DEF ClaimsFirst, BeforeWriteSteps, HoldingSteps, DispatchSteps
  <1>7. Own(p)'
    <2> HIDE DEF j, m
    <2> QED BY <1>1, <1>2, <1>3, <1>4, <1>5, <1>6, RestoreOwn
  <1>8. QED
    BY <1>1, <1>7, StillKeeps

LEMMA CheckDoneKeeps ==
    ASSUME TypeInv, WriteInv, NEW p \in Workers, CheckDone(p)
    PROVE  Keeps(p)
  <1>1. /\ pc[p] = "check"
        /\ UNCHANGED <<requests, lands, ledgerVars, lock>>
    BY DEF CheckDone, mailVars
  <1>2. Kind(p) = "restore"
    BY <1>1 DEF TypeInv, Working, RestoreSteps
  <1>3. Moved(p)
    BY CheckDoneMoves
  <1>4. \/ pc'[p] = "done"
        \/ pc'[p] = "restore_loop" /\ UNCHANGED job
    BY DEF CheckDone, Blocked, Finish, Goto, TypeInv, TypeOK
  <1>5. CASE pc'[p] = "done"
    BY <1>1, <1>3, <1>5, DoneOwn, StillKeeps
  <1>6. CASE pc'[p] = "restore_loop" /\ UNCHANGED job
    <2>1. ClaimsFirst(p)' /\ pc'[p] \notin HoldingSteps /\ pc'[p] # "idle"
      BY <1>6 DEF ClaimsFirst, BeforeWriteSteps, HoldingSteps, DispatchSteps
    <2>2. Own(p)'
      BY <1>1, <1>2, <1>3, <1>6, <2>1, Live, RestoreOwn
    <2>3. QED
      BY <1>1, <2>2, StillKeeps
  <1>7. QED
    BY <1>4, <1>5, <1>6

LEMMA ScopeKeeps ==
    ASSUME TypeInv, WriteInv, NEW p \in Workers, NEW m \in Mutations, Scope(p, m)
    PROVE  Keeps(p)
  <1> DEFINE k == job[p]
             c(x) == [k EXCEPT !.pending = @ \ {m}, !.seen = x]
             taken == {"lineage", "unresolved", "human_row", "claim_restore"}
  <1>1. /\ pc[p] = "restore_loop" /\ m \in k.pending
        /\ UNCHANGED <<requests, lands, ledgerVars, lock>> /\ Quiet
    BY DEF Scope, mailVars, Quiet
  <1>2. Kind(p) = "restore" /\ k \in Jobs
    BY <1>1, JobType DEF TypeInv, Working, RestoreSteps
  <1>3. Moved(p)
    BY ScopeMoves
  <1>4. /\ pc \in [Workers -> Steps] /\ job \in [Workers -> Jobs]
        /\ cur \in [Workers -> Mutations \cup {NoMutation}]
    BY DEF TypeInv, TypeOK
  <1>5. /\ k.todo \subseteq k.scope /\ k.pending \subseteq k.scope
        /\ k.bad \subseteq k.scope /\ WorldOK
    BY <1>1, Live
  <1>6. \/ pc'[p] = "done"
        \/ /\ pc'[p] = "noop" \/ ( /\ pc'[p] \in taken /\ file # "corrupt"
                                  /\ ~Frozen(m) /\ State(m) = "verified" )
           /\ cur'[p] = m /\ \E x : job'[p] = c(x)
    BY <1>2, <1>4 DEF Scope, OuterHandler, Fail, Finish, Goto, SetJob, Kind
  <1>7. CASE pc'[p] = "done"
    BY <1>1, <1>3, <1>7, DoneOwn, StillKeeps
  <1>8. CASE /\ pc'[p] = "noop" \/ ( /\ pc'[p] \in taken /\ file # "corrupt"
                                    /\ ~Frozen(m) /\ State(m) = "verified" )
             /\ cur'[p] = m /\ \E x : job'[p] = c(x)
    <2>1. PICK x : job'[p] = c(x)
      BY <1>8
    <2>2. /\ c(x).todo = k.todo /\ c(x).pending = k.pending \ {m}
          /\ c(x).bad = k.bad /\ c(x).op = k.op
      <3> HIDE DEF k
      <3> QED BY <1>2 DEF Jobs
    <2>3. Kind(p)' = "restore"
      <3> HIDE DEF c
      <3> QED BY <1>2, <2>1, <2>2 DEF Kind
    <2>4. pc'[p] \in taken => Untouched(m, "restore")'
      <3>1. pc'[p] \in taken => ~Claimed(m) /\ State(m) = "verified"
        BY <1>8 DEF Claimed, Frozen, HazardousLatestStatuses
      <3>2. pc'[p] \in taken => Untouched(m, "restore")
        BY <1>5, <3>1 DEF WorldOK, LedgerTrue
      <3>3. QED
        BY <1>1, <3>2, QuietUntouched DEF Kinds
    <2>5. ClaimsFirst(p)' /\ pc'[p] # "idle"
      BY <1>8, <2>3, <2>4 DEF ClaimsFirst, BeforeWriteSteps
    <2>6. Own(p)'
      <3> HIDE DEF c
      <3> QED BY <1>1, <1>2, <1>3, <1>5, <1>8, <2>1, <2>2, <2>5, RestoreOwn
    <2>7. QED
      BY <1>1, <2>6, StillKeeps
  <1>9. QED
    BY <1>6, <1>7, <1>8

LEMMA LogRestoreRowKeeps ==
    ASSUME TypeInv, WriteInv, NEW p \in Workers, LogRestoreRow(p)
    PROVE  Keeps(p)
  <1> DEFINE m == cur[p]
             s == RestoreRowStatus(pc[p])
             row == RowFor(p, m, s)
  <1>1. /\ pc[p] \in {"noop", "lineage", "unresolved", "human_row", "claim_restore"}
        /\ UNCHANGED <<requests, lands, lock>> /\ Quiet
        /\ Appended(row) \/ AppendFailed(row)
    BY DEF LogRestoreRow, mailVars, Quiet
  <1>2. /\ pc[p] \in HoldingSteps /\ pc[p] # "idle"
        /\ pc[p] # "noop" => pc[p] \in BeforeWriteSteps
    BY <1>1 DEF HoldingSteps, BeforeWriteSteps
  <1>3. Kind(p) = "restore"
    BY <1>1 DEF TypeInv, Working, RestoreSteps
  <1>4. m \in job[p].scope /\ m \in Mutations /\ ClaimsFirst(p)
    BY <1>2, Live
  <1>5. s \in Statuses
    BY DEF RestoreRowStatus, Statuses
  <1>6. TrueRow(row)
    <2>1. CASE pc[p] = "noop"
      BY <2>1 DEF TrueRow, RowFor, RestoreRowStatus
    <2>2. CASE pc[p] = "claim_restore"
      BY <2>2 DEF TrueRow, RowFor, RestoreRowStatus, HazardousLatestStatuses,
         FrozenLatestStatuses
    <2>3. CASE pc[p] \notin {"noop", "claim_restore"}
      <3>1. s = "rollback_blocked" /\ s \in Statuses \ AuthoritativeStatuses
        BY <2>3 DEF RestoreRowStatus, Statuses, AuthoritativeStatuses
      <3>2. QED
        BY <1>2, <2>3, <3>1, ReleaseTrue
    <2>4. QED
      BY <2>1, <2>2, <2>3
  <1>7. Moved(p)
    BY LogRestoreRowMoves
  <1>8. pc \in [Workers -> Steps] /\ latest \in [Mutations -> Statuses \cup {"none"}]
    BY DEF TypeInv, TypeOK
  <1>9. \/ pc'[p] = "done"
        \/ pc'[p] = "send" /\ pc[p] = "claim_restore" /\ Appended(row)
              /\ UNCHANGED <<cur, job>>
        \/ pc'[p] = "human" /\ UNCHANGED <<cur, job>>
    BY <1>3, <1>8 DEF LogRestoreRow, OuterHandler, Fail, Finish, Goto
  <1>10. CASE pc'[p] = "done"
    BY <1>1, <1>2, <1>4, <1>5, <1>6, <1>7, <1>10, DoneOwn, RowKeeps
  <1>11. \A n \in job[p].pending : Fresh(n) => Fresh(n)'
    BY <1>1, <1>2, Live, QuietUntouched
  <1>12. CASE pc'[p] = "send" /\ pc[p] = "claim_restore" /\ Appended(row)
                 /\ UNCHANGED <<cur, job>>
    <2>1. Claimed(m)'
      BY <1>4, <1>8, <1>12
      DEF Appended, Stored, LatestAfter, RowFor, RestoreRowStatus, Claimed,
          HazardousLatestStatuses, FrozenLatestStatuses
    <2>2. Untouched(m, "restore")
      BY <1>2, <1>3, <1>4, <1>12 DEF ClaimsFirst
    <2>3. Untouched(cur[p], Kind(p))' /\ Claimed(cur[p])'
      <3>1. cur' = cur /\ Kind(p)' = "restore"
        BY <1>3, <1>12 DEF Kind
      <3>2. InFlight(m, "restore") = {} /\ lands[<<m, "restore">>] = 0
        BY <2>2 DEF Untouched
      <3>3. QED
        BY <1>1, <2>1, <3>1, <3>2 DEF Untouched, InFlight, Quiet, Claimed
    <2>4. Own(p)'
      BY <1>1, <1>2, <1>3, <1>7, <1>11, <1>12, <2>3, HoldOwn
      DEF HoldingSteps, DispatchSteps
    <2>5. QED
      BY <1>1, <1>2, <1>4, <1>5, <1>6, <2>4, RowKeeps
  <1>13. CASE pc'[p] = "human" /\ UNCHANGED <<cur, job>>
    <2>1. Own(p)'
      BY <1>1, <1>2, <1>3, <1>7, <1>11, <1>13, HoldOwn
      DEF HoldingSteps, BeforeWriteSteps
    <2>2. QED
      BY <1>1, <1>2, <1>4, <1>5, <1>6, <2>1, RowKeeps
  <1>14. QED
    BY <1>9, <1>10, <1>12, <1>13

LEMMA RecordHumanKeeps ==
    ASSUME TypeInv, WriteInv, NEW p \in Workers, RecordHuman(p)
    PROVE  Keeps(p)
  <1>1. /\ pc[p] = "human"
        /\ UNCHANGED <<requests, lands, ledgerVars, lock>> /\ Quiet
        /\ Fail(p, cur[p], "refused")
    BY DEF RecordHuman, mailVars, Quiet
  <1>2. Moved(p)
    BY RecordHumanMoves
  <1>3. QED
    BY <1>1, <1>2, FailOwn, StillKeeps

LEMMA RecordRestoredKeeps ==
    ASSUME TypeInv, WriteInv, NEW p \in Workers, RecordRestored(p)
    PROVE  Keeps(p)
  <1> DEFINE k == job[p]
             j == [k EXCEPT !.verified = @ \cup {cur[p]}]
             row == RowFor(p, cur[p], "rolled_back")
  <1>1. /\ pc[p] = "restored" /\ pc[p] \in HoldingSteps /\ pc[p] # "idle"
        /\ UNCHANGED <<requests, lands, lock>> /\ Quiet
        /\ Appended(row) \/ AppendFailed(row)
    BY DEF RecordRestored, HoldingSteps, mailVars, Quiet
  <1>2. Kind(p) = "restore"
    BY <1>1 DEF TypeInv, Working, RestoreSteps
  <1>3. /\ cur[p] \in k.scope /\ k \in Jobs
        /\ k.todo \subseteq k.scope /\ k.pending \subseteq k.scope
        /\ k.bad \subseteq k.scope
    BY <1>1, Live, JobType
  <1>4. Moved(p)
    BY ConcludeMoves
  <1>5. "rolled_back" \in Statuses /\ TrueRow(row)
    BY DEF TrueRow, RowFor, Statuses
  <1>6. CASE Goto(p, "restore_loop") /\ SetJob(p, j)
    <2>1. pc'[p] = "restore_loop" /\ job'[p] = j
      BY <1>6 DEF Goto, SetJob, TypeInv, TypeOK
    <2>2. j.todo = k.todo /\ j.pending = k.pending /\ j.bad = k.bad
      <3> HIDE DEF k
      <3> QED BY <1>3 DEF Jobs
    <2>3. ClaimsFirst(p)' /\ pc'[p] \notin HoldingSteps /\ pc'[p] # "idle"
      BY <2>1 DEF ClaimsFirst, BeforeWriteSteps, HoldingSteps, DispatchSteps
    <2> HIDE DEF j
    <2>4. Own(p)'
      BY <1>1, <1>2, <1>3, <1>4, <2>1, <2>2, <2>3, RestoreOwn
    <2>5. QED
      BY <1>1, <1>3, <1>5, <2>4, RowKeeps
  <1>7. CASE Goto(p, "ambiguous") /\ UNCHANGED <<cur, job>>
    <2>1. pc'[p] = "ambiguous"
      BY <1>7 DEF Goto, TypeInv, TypeOK
    <2>2. ClaimsFirst(p)' /\ pc'[p] # "idle"
      BY <2>1 DEF ClaimsFirst, BeforeWriteSteps
    <2>3. Own(p)'
      BY <1>1, <1>2, <1>3, <1>4, <1>7, <2>1, <2>2, RestoreOwn
    <2>4. QED
      BY <1>1, <1>3, <1>5, <2>3, RowKeeps
  <1>8. QED
    BY <1>6, <1>7 DEF RecordRestored

-----------------------------------------------------------------------------
(* Steps that begin or end a call, and the world.                            *)

(* A call begins with nothing pending but a rollback's receipt, under a plan   *)
(* nobody holds.                                                             *)
LEMMA AcquireKeeps ==
    ASSUME TypeInv, WriteInv, NEW p \in Workers, NEW o \in Calls,
           NEW a \in Approvals, NEW S \in SUBSET Mutations, Acquire(p, o, a, S)
    PROVE  /\ Own(p)' /\ WorldOK' /\ Elsewhere(p, ApprovalPlan[a])
           /\ \A q \in Workers : pc[q] # "idle" => PlanHeld(q) # ApprovalPlan[a]
  <1> DEFINE P == ApprovalPlan[a]
             R == IF o = "rollback_one" THEN S ELSE {}
             j == [NoJob EXCEPT !.op = o, !.approval = a, !.scope = S, !.pending = R]
             s == IF o \in {"apply", "canary"} THEN "authorize"
                  ELSE IF o = "rollback_one" THEN "restore_loop" ELSE "classify"
  <1>1. /\ pc[p] = "idle" /\ lock[P] = Nobody /\ S \subseteq Approved[a]
        /\ lock' = [lock EXCEPT ![P] = p]
        /\ UNCHANGED <<requests, lands, ledgerVars, cur>> /\ Quiet
    BY DEF Acquire, LockFree, mailVars, Quiet
  <1>2. pc'[p] = s /\ job'[p] = j
    BY DEF Acquire, Goto, SetJob, TypeInv, TypeOK
  <1>3. P \in Plans /\ Nobody \notin Workers
    BY FlagAssumption
  <1>4. lock'[P] = p /\ \A Q \in Plans : Q # P => lock'[Q] = lock[Q]
    BY <1>1, <1>3 DEF TypeInv, TypeOK
  <1>5. /\ j.op = o /\ j.approval = a /\ j.scope = S /\ j.pending = R
        /\ j.todo = {} /\ j.bad = {}
    BY DEF NoJob
  <1> HIDE DEF j
  <1>6. /\ s \notin HoldingSteps /\ s \notin BeforeWriteSteps
        /\ s \notin FreshRowSteps
        /\ s \notin {"replay", "refuse", "recheck", "send", "idle"}
    BY DEF HoldingSteps, DispatchSteps, BeforeWriteSteps, FreshRowSteps
  <1> HIDE DEF s
  <1>7. OwnsPlan(p)'
    BY <1>1, <1>2, <1>4, <1>5, <1>6 DEF OwnsPlan
  <1>8. ClaimsFirst(p)'
    BY <1>2, <1>6 DEF ClaimsFirst
  <1>9. ASSUME Kind(p)' = "apply" PROVE ApplyOnTrack(p)'
    <2>1. R = {}
      BY <1>2, <1>5, <1>9 DEF Kind
    <2>2. QED
      BY <1>2, <1>5, <1>6, <2>1 DEF ApplyOnTrack
  <1>10. WorldOK'
    <2>1. WorldOK
      BY InvParts
    <2>2. \A m \in Mutations : LedgerTrue(m)'
      BY <1>1, <2>1, QuietUntouched
      DEF WorldOK, LedgerTrue, Claimed, State, ledgerVars, Kinds
    <2>3. QED
      BY <1>1, <2>1, <2>2, QuietUntouched DEF WorldOK
  <1>11. Elsewhere(p, P)
    BY <1>1, <1>3, <1>4, QuietUntouched DEF Elsewhere, ledgerVars
  <1>12. \A q \in Workers : pc[q] # "idle" => PlanHeld(q) # P
    BY <1>1, <1>3, InvParts DEF Own, OwnsPlan, PlanHeld
  <1>13. QED
    BY <1>7, <1>8, <1>9, <1>10, <1>11, <1>12 DEF Own

(* A call that returns or dies gives back its own lock only. *)
LEMMA LeaveKeeps ==
    ASSUME TypeInv, WriteInv, NEW p \in Workers, Return(p) \/ Crash(p)
    PROVE  pc'[p] = "idle" /\ WorldOK' /\ \A P \in Plans : Elsewhere(p, P)
  <1>1. /\ Goto(p, "idle") /\ Quiet /\ UNCHANGED ledgerVars
        /\ lock' = [q \in Plans |-> IF lock[q] = p THEN Nobody ELSE lock[q]]
    BY DEF Return, Crash, mailVars, Quiet
  <1>2. pc'[p] = "idle"
    BY <1>1 DEF Goto, TypeInv, TypeOK
  <1>3. WorldOK
    BY InvParts
  <1>4. \A m \in Mutations : LedgerTrue(m)'
    BY <1>1, <1>3, QuietUntouched
    DEF WorldOK, LedgerTrue, Claimed, State, ledgerVars, Kinds
  <1>5. WorldOK'
    BY <1>1, <1>3, <1>4, QuietUntouched DEF WorldOK
  <1>6. \A P \in Plans : Elsewhere(p, P)
    BY <1>1, QuietUntouched DEF Elsewhere, ledgerVars
  <1>7. QED
    BY <1>2, <1>5, <1>6

(* A request that ends leaves no request of its write behind. *)
LEMMA LastRequest ==
    ASSUME TypeInv, WorldOK, NEW q \in requests, requests' = requests \ {q}
    PROVE  /\ q.mutation \in Mutations /\ q.kind \in Kinds /\ q.by \in Workers
           /\ InFlight(q.mutation, q.kind)' = {}
           /\ lands[<<q.mutation, q.kind>>] = 0
           /\ \A m \in Mutations, k \in Kinds :
                 <<m, k>> # <<q.mutation, q.kind>> =>
                    InFlight(m, k)' = InFlight(m, k)
  <1>1. q \in Requests
    BY DEF TypeInv, TypeOK
  <1>2. q.mutation \in Mutations /\ q.kind \in Kinds /\ q.by \in Workers
    BY <1>1 DEF Requests
  <1>3. OneRequest(q.mutation, q.kind)
    BY <1>2 DEF WorldOK
  <1>4. q \in InFlight(q.mutation, q.kind)
    BY DEF InFlight
  <1>5. InFlight(q.mutation, q.kind)' = {}
    BY <1>3, <1>4 DEF OneRequest, InFlight
  <1>6. lands[<<q.mutation, q.kind>>] = 0
    BY <1>3, <1>4 DEF OneRequest
  <1>7. \A m \in Mutations, k \in Kinds :
           <<m, k>> # <<q.mutation, q.kind>> => InFlight(m, k)' = InFlight(m, k)
    BY DEF InFlight
  <1>8. QED
    BY <1>2, <1>5, <1>6, <1>7

(* Mail.app acting on a request keeps every untouched write untouched. *)
LEMMA MailAppWorld ==
    ASSUME TypeInv, WorldOK, NEW q \in requests, Land(q) \/ Drift(q) \/ Lose(q)
    PROVE  /\ WorldOK'
           /\ \A m \in Mutations, k \in Kinds : Untouched(m, k) => Untouched(m, k)'
           /\ ~Land(q) => Untouched(q.mutation, q.kind)'
  <1> DEFINE w == <<q.mutation, q.kind>>
  <1>1. /\ requests' = requests \ {q}
        /\ UNCHANGED <<ledgerVars, lock>>
        /\ \/ Land(q) /\ lands' = [lands EXCEPT ![w] = @ + 1]
           \/ ~Land(q) /\ lands' = lands
    BY DEF Land, Drift, Lose
  <1>2. /\ q.mutation \in Mutations /\ q.kind \in Kinds
        /\ InFlight(q.mutation, q.kind)' = {} /\ lands[w] = 0
        /\ \A m \in Mutations, k \in Kinds :
              <<m, k>> # w => InFlight(m, k)' = InFlight(m, k)
    BY <1>1, LastRequest
  <1>3. w \in Writes /\ lands \in [Writes -> Nat]
    BY <1>2 DEF Writes, TypeInv, TypeOK
  <1>4. /\ lands'[w] <= 1
        /\ \A v \in Writes : v # w => lands'[v] = lands[v]
        /\ ~Land(q) => lands'[w] = 0
    BY <1>1, <1>2, <1>3
  <1>5. q \in InFlight(q.mutation, q.kind)
    BY DEF InFlight
  <1>6. ASSUME NEW m \in Mutations, NEW k \in Kinds
        PROVE  OneRequest(m, k)' /\ (Untouched(m, k) => Untouched(m, k)')
    <2>1. <<m, k>> \in Writes
      BY DEF Writes
    <2>2. CASE <<m, k>> = w
      <3>1. m = q.mutation /\ k = q.kind
        BY <2>2
      <3>2. InFlight(m, k)' = {} /\ lands'[<<m, k>>] <= 1 /\ ~Untouched(m, k)
        BY <1>2, <1>4, <1>5, <3>1 DEF Untouched
      <3>3. QED
        BY <3>2 DEF OneRequest
    <2>3. CASE <<m, k>> # w
      <3>1. InFlight(m, k)' = InFlight(m, k) /\ lands'[<<m, k>>] = lands[<<m, k>>]
        BY <1>2, <1>4, <2>1, <2>3
      <3>2. OneRequest(m, k)
        BY DEF WorldOK
      <3>3. QED
        BY <3>1, <3>2 DEF OneRequest, Untouched
    <2>4. QED
      BY <2>2, <2>3
  <1>7. \A m \in Mutations : LedgerTrue(m)'
    BY <1>1, <1>6 DEF WorldOK, LedgerTrue, Claimed, State, Fresh, ledgerVars, Kinds
  <1>8. QED
    BY <1>2, <1>4, <1>6, <1>7 DEF WorldOK, Untouched

LEMMA MailAppWrite ==
    ASSUME TypeInv, WriteInv, NEW q \in requests, Land(q) \/ Drift(q) \/ Lose(q)
    PROVE  WriteInv'
  <1>1. WorldOK /\ q.by \in Workers /\ UNCHANGED <<ledgerVars, lock>>
    BY InvParts, MailAppMoves DEF Land, Drift, Lose
  <1>2. /\ WorldOK'
        /\ \A m \in Mutations, k \in Kinds : Untouched(m, k) => Untouched(m, k)'
        /\ ~Land(q) => Untouched(q.mutation, q.kind)'
    BY <1>1, MailAppWorld
  <1>3. ASSUME NEW p \in Workers, pc'[p] # "idle",
               pc'[p] = pc[p], cur'[p] = cur[p], job'[p] = job[p]
        PROVE  Own(p)'
    BY <1>1, <1>2, <1>3, InvParts, OwnStays DEF ledgerVars
  <1>4. CASE UNCHANGED <<pc, cur, job>>
    BY <1>2, <1>3, <1>4, PartsAfter
  <1>5. CASE /\ Awaited(q) /\ Moved(q.by) /\ UNCHANGED cur
             /\ pc'[q.by] \in {"readback", "drift"}
             /\ job'[q.by].todo = job[q.by].todo
             /\ job'[q.by].pending = job[q.by].pending
             /\ job'[q.by].bad = job[q.by].bad
    <2> DEFINE p == q.by
    <2>1. pc[p] = "wait" /\ cur[p] = q.mutation /\ Kind(p) = q.kind
      BY <1>5 DEF Awaited
    <2>2. pc[p] \in HoldingSteps /\ pc'[p] \in HoldingSteps /\ pc[p] # "idle"
      BY <1>5, <2>1 DEF HoldingSteps, DispatchSteps
    <2>3. pc'[p] \in BeforeWriteSteps => Untouched(cur[p], Kind(p))'
      <3>1. Land(q) => pc'[p] = "readback"
        BY <1>1, <1>5 DEF Land, Goto, TypeInv, TypeOK
      <3>2. (cur[p])' = q.mutation /\ Kind(p)' = q.kind
        BY <1>5, <2>1, <2>2 DEF Moved, SameCall, Kind, HoldingSteps, DispatchSteps
      <3>3. QED
        BY <1>2, <3>1, <3>2 DEF BeforeWriteSteps
    <2>4. /\ \A n \in job[p].pending : Fresh(n) => Fresh(n)'
          /\ Untouched(cur[p], "restore") => Untouched(cur[p], "restore")'
      <3>1. job[p].pending \subseteq Mutations /\ cur[p] \in Mutations
        BY <1>1, <2>2, Live
      <3>2. QED
        BY <1>2, <1>5, <3>1 DEF Fresh, Kinds
    <2>5. Own(p)'
      BY <1>1, <1>5, <2>2, <2>3, <2>4, HoldOwn
    <2>6. \A r \in Workers \ {p} :
             pc'[r] = pc[r] /\ cur'[r] = cur[r] /\ job'[r] = job[r]
      BY <1>5 DEF Moved
    <2>7. QED
      BY <1>2, <1>3, <2>5, <2>6, PartsAfter
  <1>6. QED
    BY <1>4, <1>5, MailAppMoves

LEMMA HumanWrite ==
    ASSUME TypeInv, WriteInv, Human
    PROVE  WriteInv'
  <1>1. UNCHANGED <<requests, lands, ledgerVars, lock, pc, cur, job>>
    BY DEF Human, HumanFlag, Unlock, mailVars
  <1>2. QED
    BY <1>1
    DEF WriteInv, LedgerTrue, OneRequest, OwnsPlan, ClaimsFirst, ApplyOnTrack,
        Claimed, Fresh, Untouched, InFlight, State, Kind, ledgerVars

-----------------------------------------------------------------------------
(* The invariant and what it gives.                                          *)

LEMMA StepKeeps ==
    ASSUME TypeInv, WriteInv, NEW p \in Workers, Step(p), ~Return(p)
    PROVE  Keeps(p) /\ Moved(p) /\ pc[p] # "idle"
  <1>1. CASE \E m \in Mutations :
                \/ LogRow(p, m) \/ Preflight(p, m) \/ ClaimApply(p, m)
                \/ CheckCandidate(p, m) \/ Scope(p, m)
    <2>1. PICK m \in Mutations :
                \/ LogRow(p, m) \/ Preflight(p, m) \/ ClaimApply(p, m)
                \/ CheckCandidate(p, m) \/ Scope(p, m)
      BY <1>1
    <2>2. pc[p] # "idle"
      BY <2>1 DEF LogRow, Preflight, ClaimApply, CheckCandidate, Scope, RowSteps
    <2>3. QED
      BY <2>1, <2>2, LogRowKeeps, PreflightKeeps, ClaimApplyKeeps,
         CheckCandidateKeeps, ScopeKeeps, LogRowMoves, PreflightMoves,
         ClaimApplyMoves, CheckCandidateMoves, ScopeMoves
  <1>2. CASE \/ Authorize(p) \/ NextPhase(p) \/ Deadline(p) \/ AllApplied(p)
             \/ AllRestored(p) \/ Classify(p) \/ CheckDone(p)
    <2>1. pc[p] # "idle"
      BY <1>2 DEF Authorize, NextPhase, Deadline, AllApplied, AllRestored, Classify,
         CheckDone, RowSteps
    <2>2. QED
      BY <1>2, <2>1, AuthorizeKeeps, NextPhaseKeeps, LoopEndKeeps, ClassifyKeeps,
         CheckDoneKeeps, AuthorizeMoves, NextPhaseMoves, LoopEndMoves,
         ClassifyMoves, CheckDoneMoves
  <1>3. CASE \/ Recheck(p) \/ RecordAutomationState(p) \/ Send(p) \/ Timeout(p)
             \/ Readback(p) \/ Ambiguous(p) \/ Refused(p) \/ PrivateStateFailed(p)
             \/ RecordDrift(p)
    <2>1. pc[p] # "idle"
      BY <1>3 DEF Recheck, RecordAutomationState, Send, Timeout, Readback,
         Ambiguous, Refused, PrivateStateFailed, RecordDrift
    <2>2. QED
      BY <1>3, <2>1, GotoOnlyKeeps, SendKeeps, AnswerKeeps, FailureRowKeeps,
         RecordDriftKeeps, GotoOnlyMoves, SendMoves, AnswerMoves,
         FailureRowMoves, RecordDriftMoves
  <1>4. CASE \/ Verify(p) \/ Finalize(p) \/ RecordRestored(p)
             \/ RecordDivergence(p) \/ LogRestoreRow(p) \/ RecordHuman(p)
    <2>1. pc[p] # "idle"
      BY <1>4 DEF Verify, Finalize, RecordRestored, RecordDivergence,
         LogRestoreRow, RecordHuman
    <2>2. QED
      BY <1>4, <2>1, VerifyKeeps, FinalizeKeeps, RecordRestoredKeeps,
         RecordDivergenceKeeps, LogRestoreRowKeeps, RecordHumanKeeps,
         VerifyMoves, ConcludeMoves, RecordDivergenceMoves, LogRestoreRowMoves,
         RecordHumanMoves
  <1>5. QED
    BY <1>1, <1>2, <1>3, <1>4 DEF Step

LEMMA NextWrite == TypeInv /\ WriteInv /\ [Next]_vars => WriteInv'
  <1> SUFFICES ASSUME TypeInv, WriteInv, [Next]_vars PROVE WriteInv'
    OBVIOUS
  <1>1. CASE UNCHANGED vars
    BY <1>1
    DEF WriteInv, LedgerTrue, OneRequest, OwnsPlan, ClaimsFirst, ApplyOnTrack,
        Claimed, Fresh, Untouched, InFlight, State, Kind, vars
  <1>2. ASSUME NEW p \in Workers, Begin(p) PROVE WriteInv'
    <2>1. PICK o \in Calls, a \in Approvals, S \in SUBSET Mutations :
             Acquire(p, o, a, S)
      BY <1>2 DEF Begin
    <2>2. /\ Own(p)' /\ WorldOK' /\ Elsewhere(p, ApprovalPlan[a]) /\ Moved(p)
          /\ \A q \in Workers : pc[q] # "idle" => PlanHeld(q) # ApprovalPlan[a]
          /\ ApprovalPlan[a] \in Plans
      BY <2>1, AcquireKeeps, AcquireMoves, FlagAssumption
    <2>3. ASSUME NEW q \in Workers, q # p, pc'[q] # "idle" PROVE Own(q)'
      <3>1. pc[q] # "idle"
        BY <2>2, <2>3 DEF Moved
      <3>2. QED
        BY <2>2, <2>3, <3>1, InvParts, OthersKeep
    <2>4. QED
      BY <2>2, <2>3, PartsAfter
  <1>3. ASSUME NEW p \in Workers, Step(p), ~Return(p) PROVE WriteInv'
    <2>1. Own(p)' /\ WorldOK' /\ Elsewhere(p, PlanHeld(p)) /\ Moved(p) /\ pc[p] # "idle"
      BY <1>3, StepKeeps DEF Keeps
    <2>2. PlanHeld(p) \in Plans
      BY <2>1, Live
    <2>3. ASSUME NEW q \in Workers, q # p, pc'[q] # "idle" PROVE Own(q)'
      <3>1. pc[q] # "idle"
        BY <2>1, <2>3 DEF Moved
      <3>2. PlanHeld(q) # PlanHeld(p)
        BY <2>1, <2>3, <3>1, OtherPlan
      <3>3. QED
        BY <2>1, <2>2, <2>3, <3>1, <3>2, InvParts, OthersKeep
    <2>4. QED
      BY <2>1, <2>3, PartsAfter
  <1>4. ASSUME NEW p \in Workers, Return(p) \/ Crash(p) PROVE WriteInv'
    <2>1. /\ pc'[p] = "idle" /\ WorldOK' /\ Moved(p) /\ pc[p] # "idle"
          /\ \A P \in Plans : Elsewhere(p, P)
      BY <1>4, LeaveKeeps, LeaveMoves DEF Return, Crash
    <2>2. PlanHeld(p) \in Plans
      BY <2>1, Live
    <2>3. ASSUME NEW q \in Workers, pc'[q] # "idle" PROVE Own(q)'
      <3>1. q # p /\ pc[q] # "idle"
        BY <2>1, <2>3 DEF Moved
      <3>2. PlanHeld(q) # PlanHeld(p)
        BY <2>1, <3>1, OtherPlan
      <3>3. QED
        BY <2>1, <2>2, <3>1, <3>2, InvParts, OthersKeep
    <2>4. QED
      BY <2>1, <2>3, PartsAfter
  <1>5. QED
    BY <1>1, <1>2, <1>3, <1>4, MailAppWrite, HumanWrite DEF Next, MailApp, Step

LEMMA WriteBoundary == TypeInv /\ WriteInv => AtMostOneWrite
  <1> SUFFICES ASSUME TypeInv, WriteInv PROVE AtMostOneWrite
    OBVIOUS
  <1>1. \A m \in Mutations, k \in Kinds : OneRequest(m, k)
    BY DEF WriteInv
  <1>2. \A w \in Writes : lands[w] <= 1
    BY <1>1 DEF OneRequest, Writes
  <1>3. ASSUME NEW p \in Workers, pc[p] = "send"
        PROVE  InFlight(cur[p], Kind(p)) = {} /\ lands[<<cur[p], Kind(p)>>] = 0
    BY <1>3, Live DEF ClaimsFirst, BeforeWriteSteps, Untouched
  <1>4. QED
    BY <1>1, <1>2, <1>3 DEF AtMostOneWrite, OneRequest

(* The ledger never understates what the mailbox has seen, workers keep to     *)
(* their own plans, and every request goes out under a durable claim for a   *)
(* write nobody has requested before.                                        *)
THEOREM WriteInvariant == Spec => []WriteInv
  <1>1. QED
    BY InitWrite, NextWrite, TypeCorrect, PTL DEF Spec

(* However many workers, plans and mutations there are, and whatever crashes,  *)
(* times out, is retried or is lost from the ledger: a mutation's flag is    *)
(* changed at most once and restored at most once, and set_flag_color_ref is *)
(* never called while an earlier call for the same write may still land.     *)
THEOREM WriteOnce == Spec => []AtMostOneWrite
  <1>1. QED
    BY WriteBoundary, WriteInvariant, TypeCorrect, PTL
-----------------------------------------------------------------------------
(* The ledger.  The model keeps two answers per mutation instead of the rows   *)
(* of the file.  Nothing is lost: if the two answers are what a scan of the  *)
(* file returns, then after an append, LatestAfter and AuthorityAfter are    *)
(* what a scan of the longer file returns.                                   *)


(* The answers a scan of log gives for every mutation. *)
Answers(log, newest, record) ==
    \A m \in Mutations :
        IsLatestStatus(log, m, newest[m]) /\ IsAuthoritativeRecord(log, m, record[m])

(* A longer file has the old rows and one more. *)
LEMMA AppendedLog ==
    ASSUME NEW log \in Seq(Rows), NEW row \in Rows
    PROVE  /\ Len(Append(log, row)) = Len(log) + 1
           /\ Append(log, row)[Len(log) + 1] = row
           /\ \A i \in 1..Len(log) : Append(log, row)[i] = log[i]
           /\ Len(log) \in Nat
OBVIOUS

(* Which rows of m a longer file has. *)
LEMMA AppendedRows ==
    ASSUME NEW log \in Seq(Rows), NEW row \in Rows, NEW m \in Mutations
    PROVE  /\ RowsOf(Append(log, row), m) =
                 RowsOf(log, m) \cup (IF row.mutation = m THEN {Len(log) + 1} ELSE {})
           /\ AuthoritativeRowsOf(Append(log, row), m) =
                 AuthoritativeRowsOf(log, m) \cup
                 (IF row.mutation = m /\ row.status \in AuthoritativeStatuses
                  THEN {Len(log) + 1} ELSE {})
  <1> DEFINE long == Append(log, row)
             n == Len(log)
  <1>1. /\ Len(long) = n + 1 /\ long[n + 1] = row
        /\ \A i \in 1..n : long[i] = log[i]
        /\ n \in Nat
    BY AppendedLog
  <1> HIDE DEF long
  <1>2. 1..(n + 1) = (1..n) \cup {n + 1} /\ n + 1 \notin 1..n
    BY <1>1
  <1>3. RowsOf(long, m) =
           RowsOf(log, m) \cup (IF row.mutation = m THEN {n + 1} ELSE {})
    BY <1>1, <1>2 DEF RowsOf
  <1>4. AuthoritativeRowsOf(long, m) =
           AuthoritativeRowsOf(log, m) \cup
           (IF row.mutation = m /\ row.status \in AuthoritativeStatuses
            THEN {n + 1} ELSE {})
    BY <1>1, <1>2, <1>3 DEF AuthoritativeRowsOf, RowsOf
  <1>5. QED
    BY <1>3, <1>4 DEF long

(* A row appended after all others is the last one. *)
LEMMA NewestIsLast ==
    ASSUME NEW n \in Nat, NEW R \in SUBSET (1..n)
    PROVE  IsLast(n + 1, R \cup {n + 1})
BY DEF IsLast

(* One append moves the two answers exactly as LatestAfter and AuthorityAfter  *)
(* say: latest_status and latest_authoritative_record read the row that      *)
(* record() wrote last for the mutation, and a row of another mutation, or   *)
(* one that is not authoritative, does not disturb the other answers.        *)
THEOREM AnswersFollowAppends ==
    ASSUME NEW log \in Seq(Rows), NEW row \in Rows,
           NEW newest \in [Mutations -> Statuses \cup {"none"}],
           NEW record \in [Mutations -> Records],
           Answers(log, newest, record)
    PROVE  Answers(Append(log, row), LatestAfter(newest, row), AuthorityAfter(record, row))
  <1> DEFINE long == Append(log, row)
             n == Len(log)
  <1>1. /\ long[n + 1] = row /\ n \in Nat
        /\ \A i \in 1..n : long[i] = log[i]
    BY AppendedLog
  <1>2. \A m \in Mutations :
           /\ RowsOf(long, m) =
                 RowsOf(log, m) \cup (IF row.mutation = m THEN {n + 1} ELSE {})
           /\ AuthoritativeRowsOf(long, m) =
                 AuthoritativeRowsOf(log, m) \cup
                 (IF row.mutation = m /\ row.status \in AuthoritativeStatuses
                  THEN {n + 1} ELSE {})
    BY AppendedRows
  <1> HIDE DEF long, n
  <1>3. \A m : RowsOf(log, m) \subseteq 1..n /\ AuthoritativeRowsOf(log, m) \subseteq 1..n
    BY DEF RowsOf, AuthoritativeRowsOf, n
  <1>4. row.mutation \in Mutations
    BY DEF Rows
  <1> SUFFICES ASSUME NEW m \in Mutations
               PROVE  /\ IsLatestStatus(long, m, LatestAfter(newest, row)[m])
                      /\ IsAuthoritativeRecord(long, m, AuthorityAfter(record, row)[m])
    BY DEF Answers, long
  <1>5. IsLatestStatus(log, m, newest[m]) /\ IsAuthoritativeRecord(log, m, record[m])
    BY DEF Answers
  <1>6. IsLatestStatus(long, m, LatestAfter(newest, row)[m])
    <2>1. CASE row.mutation = m
      <3>1. LatestAfter(newest, row)[m] = row.status
        BY <2>1 DEF LatestAfter
      <3>2. IsLast(n + 1, RowsOf(long, m))
        <4>1. RowsOf(long, m) = RowsOf(log, m) \cup {n + 1}
          BY <1>2, <2>1
        <4>2. RowsOf(log, m) \in SUBSET (1..n)
          BY <1>3
        <4>3. QED
          BY <1>1, <4>1, <4>2, NewestIsLast
      <3>3. n + 1 \in RowsOf(long, m)
        BY <3>2 DEF IsLast
      <3>4. QED
        BY <1>1, <3>1, <3>2, <3>3 DEF IsLatestStatus
    <2>2. CASE row.mutation # m
      <3>1. LatestAfter(newest, row)[m] = newest[m]
        BY <2>2 DEF LatestAfter
      <3>2. RowsOf(long, m) = RowsOf(log, m)
        BY <1>2, <2>2
      <3>3. QED
        <4>1. CASE RowsOf(log, m) = {} /\ newest[m] = "none"
          BY <3>1, <3>2, <4>1 DEF IsLatestStatus
        <4>2. ASSUME NEW i \in RowsOf(log, m), IsLast(i, RowsOf(log, m)),
                     newest[m] = log[i].status
              PROVE  IsLatestStatus(long, m, newest[m])
          <5>1. long[i] = log[i] /\ i \in RowsOf(long, m) /\ IsLast(i, RowsOf(long, m))
            BY <1>1, <1>3, <3>2, <4>2
          <5>2. QED
            BY <4>2, <5>1 DEF IsLatestStatus
        <4>3. QED
          BY <1>5, <3>1, <4>1, <4>2 DEF IsLatestStatus
    <2>3. QED
      BY <2>1, <2>2
  <1>7. IsAuthoritativeRecord(long, m, AuthorityAfter(record, row)[m])
    <2>1. CASE row.mutation = m /\ row.status \in AuthoritativeStatuses
      <3>1. AuthorityAfter(record, row)[m] = RecordOf(row)
        BY <2>1 DEF AuthorityAfter
      <3>2. IsLast(n + 1, AuthoritativeRowsOf(long, m))
        <4>1. AuthoritativeRowsOf(long, m) = AuthoritativeRowsOf(log, m) \cup {n + 1}
          BY <1>2, <2>1
        <4>2. AuthoritativeRowsOf(log, m) \in SUBSET (1..n)
          BY <1>3
        <4>3. QED
          BY <1>1, <4>1, <4>2, NewestIsLast
      <3>3. n + 1 \in AuthoritativeRowsOf(long, m)
        BY <3>2 DEF IsLast
      <3>4. QED
        BY <1>1, <3>1, <3>2, <3>3 DEF IsAuthoritativeRecord
    <2>2. CASE ~(row.mutation = m /\ row.status \in AuthoritativeStatuses)
      <3>1. AuthorityAfter(record, row)[m] = record[m]
        BY <1>4, <2>2 DEF AuthorityAfter
      <3>2. AuthoritativeRowsOf(long, m) = AuthoritativeRowsOf(log, m)
        BY <1>2, <2>2
      <3>3. QED
        <4>1. CASE AuthoritativeRowsOf(log, m) = {} /\ record[m] = NoRecord
          BY <3>1, <3>2, <4>1 DEF IsAuthoritativeRecord
        <4>2. ASSUME NEW i \in AuthoritativeRowsOf(log, m),
                     IsLast(i, AuthoritativeRowsOf(log, m)), record[m] = RecordOf(log[i])
              PROVE  IsAuthoritativeRecord(long, m, record[m])
          <5>1. /\ long[i] = log[i] /\ i \in AuthoritativeRowsOf(long, m)
                /\ IsLast(i, AuthoritativeRowsOf(long, m))
            BY <1>1, <1>3, <3>2, <4>2
          <5>2. QED
            BY <4>2, <5>1 DEF IsAuthoritativeRecord
        <4>3. QED
          BY <1>5, <3>1, <4>1, <4>2 DEF IsAuthoritativeRecord
    <2>3. QED
      BY <2>1, <2>2
  <1>8. QED
    BY <1>6, <1>7
=============================================================================
