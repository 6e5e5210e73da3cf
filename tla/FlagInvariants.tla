--------------------------- MODULE FlagInvariants ---------------------------
(***************************************************************************)
(* Why the engine writes a mutation at most once: the inductive invariant  *)
(* behind AtMostOneWrite.  FlagTransactionsProofs proves it for every      *)
(* number of workers, plans and mutations; TLC checks it on the instance   *)
(* of MCFlagBatch.                                                         *)
(*                                                                         *)
(* The argument.  A worker that is inside a call owns its plan, hence every*)
(* mutation it works on.  A mutation that nobody has touched yet, as far   *)
(* as the ledger can tell, really is untouched; and before a request can   *)
(* be issued a claim is durable, which takes the mutation out of what the  *)
(* ledger calls untouched.  So the requests of a mutation never overlap.   *)
(***************************************************************************)
EXTENDS FlagTransactions

(* Steps at which a worker holds a mutation. *)
HoldingSteps ==
    DispatchSteps \cup
    {"recheck", "verify", "private_state", "private_failed", "final",
     "diverged", "noop", "lineage", "unresolved", "human_row", "human",
     "claim_restore", "restored"}

(* A call has an approval and keeps to its own steps, a holding worker has a   *)
(* mutation, and a rollback only ever holds a mutation the ledger has an     *)
(* authoritative row for.                                                    *)
Working ==
    \A p \in Workers :
        /\ pc[p] # "idle" => job[p].approval \in Approvals
        /\ pc[p] \in ApplySteps => Kind(p) = "apply"
        /\ pc[p] \in RestoreSteps => Kind(p) = "restore"
        /\ pc[p] \in HoldingSteps => cur[p] \in Mutations
        /\ pc[p] \in HoldingSteps /\ Kind(p) = "restore" =>
              auth[cur[p]].status # "none"

TypeInv == TypeOK /\ Working

-----------------------------------------------------------------------------
(* No request of this write exists, and none has changed the mailbox. *)
Untouched(m, k) == InFlight(m, k) = {} /\ lands[<<m, k>>] = 0
Fresh(m)        == Untouched(m, "apply") /\ Untouched(m, "restore")

(* The ledger says that a write may be under way. *)
Claimed(m) == file = "corrupt" \/ latest[m] \in HazardousLatestStatuses

(* A worker inside a call holds the lock of its plan and stays in its batch. *)
OwnsPlan(p) ==
    /\ lock[ApprovalPlan[job[p].approval]] = p
    /\ job[p].scope \subseteq Approved[job[p].approval]
    /\ job[p].todo \subseteq job[p].scope
    /\ job[p].pending \subseteq job[p].scope
    /\ job[p].bad \subseteq job[p].scope
    /\ pc[p] \in HoldingSteps => cur[p] \in job[p].scope

(* What the ledger says of an unclaimed mutation is what happened to it. *)
LedgerTrue(m) ==
    ~Claimed(m) => /\ State(m) = "none" => Fresh(m)
                   /\ State(m) = "verified" => Untouched(m, "restore")

(* One request at a time, and none after the write has landed. *)
OneRequest(m, k) ==
    /\ lands[<<m, k>>] <= 1
    /\ \A q, s \in InFlight(m, k) : q = s
    /\ InFlight(m, k) # {} => lands[<<m, k>>] = 0

(* Steps at which the rows about to be written are for untouched mutations. *)
FreshRowSteps == {"refreeze", "preflight", "block", "pass", "freeze"}

(* Steps at which the worker's own write has not been issued, or is known not  *)
(* to have happened.                                                         *)
BeforeWriteSteps ==
    {"recheck", "send", "refused", "drift", "lineage", "unresolved",
     "human_row", "claim_restore"}

(* An apply has only untouched mutations ahead of it, and replays or refuses   *)
(* the others as the ledger knows them.                                      *)
ApplyOnTrack(p) ==
    /\ \A m \in job[p].pending : Fresh(m)
    /\ pc[p] \in FreshRowSteps => \A m \in job[p].todo : Fresh(m)
    /\ pc[p] = "replay" => \A m \in job[p].todo :
          State(m) = "verified" /\ Untouched(m, "restore")
    /\ pc[p] \in {"replay", "refuse"} => \A m \in job[p].bad : State(m) = "rolled_back"
    /\ pc[p] = "refuse" => job[p].todo \subseteq job[p].bad
    /\ pc[p] \in HoldingSteps =>
          cur[p] \notin job[p].pending /\ Untouched(cur[p], "restore")

(* A worker issues its request under a durable claim, for an untouched write. *)
ClaimsFirst(p) ==
    /\ pc[p] \in BeforeWriteSteps => Untouched(cur[p], Kind(p))
    /\ pc[p] \in {"recheck", "send"} => Claimed(cur[p])

WriteInv ==
    /\ \A m \in Mutations : LedgerTrue(m)
    /\ \A m \in Mutations, k \in Kinds : OneRequest(m, k)
    /\ \A p \in Workers : pc[p] # "idle" =>
          /\ OwnsPlan(p)
          /\ ClaimsFirst(p)
          /\ Kind(p) = "apply" => ApplyOnTrack(p)
-----------------------------------------------------------------------------
(* Why the engine's other promises hold: FlagConductProofs.  The ledger only  *)
(* concludes what a worker has seen in the mailbox, a claim that nobody      *)
(* works on any more is left alone, a restore goes back to the receipt it    *)
(* was asked under, and a report adds up at every step of the call.          *)

(* Authority rests on a write that changed the mailbox, a restore comes after  *)
(* its apply, and a verified row names the flag its approval writes.         *)
Proved(m) ==
    /\ auth[m].status # "none" => lands[<<m, "apply">>] > 0
    /\ auth[m].status = "rolled_back" => lands[<<m, "restore">>] > 0
    /\ ~Untouched(m, "restore") => lands[<<m, "apply">>] > 0
    /\ State(m) = "verified" =>
          auth[m].intended = ExecutionFlag[auth[m].approval][m]

(* Steps at which the worker's write is known to have changed the mailbox. *)
ProvedSteps ==
    {"readback", "verify", "private_state", "private_failed", "final", "noop",
     "restored"}

(* Steps of an apply at which no mutation of its batch is frozen. *)
ThawedSteps == {"replay", "refuse", "preflight", "block", "pass"}

(* What a worker holds: a proved write, or a restore under its own receipt,    *)
(* and ahead of it nothing that is frozen.                                   *)
Grounded(p) ==
    /\ pc[p] \in ProvedSteps => lands[<<cur[p], Kind(p)>>] > 0
    /\ Kind(p) = "restore" /\ pc[p] \in {"claim_restore", "send", "wait"} =>
          LineageMatches(p, cur[p])
    /\ pc[p] \in ThawedSteps => \A m \in job[p].scope : ~Frozen(m)
    /\ Kind(p) = "apply" /\ pc[p] \notin {"refreeze", "freeze"} =>
          \A m \in job[p].pending : ~Frozen(m)

(* A restore that is waited for was requested under the receipt. *)
Matches(q) ==
    q.kind = "restore" /\ Awaited(q) =>
        /\ auth[q.mutation].approval = job[q.by].approval
        /\ q.from = ExecutionFlag[job[q.by].approval][q.mutation]

-----------------------------------------------------------------------------
(* Steps before a call may write, at which its report is still empty. *)
EarlySteps ==
    (RowSteps \ {"freeze"}) \cup
    {"authorize", "preflight", "classify", "check", "diverged"}

(* Steps of the write loops. *)
LoopSteps ==
    DispatchSteps \cup
    {"loop", "recheck", "verify", "private_state", "private_failed", "final",
     "restore_loop", "noop", "lineage", "unresolved", "human_row", "human",
     "claim_restore", "restored"}

Held(p) == IF pc[p] \in HoldingSteps THEN {cur[p]} ELSE {}

(* What a worker has verified so far: its own writes, as the ledger has them. *)
VerifiedTruly(p) ==
    /\ job[p].verified \subseteq job[p].sent
    /\ \A m \in job[p].verified :
          /\ lands[<<m, Kind(p)>>] > 0
          /\ file = "ok" => State(m) = IF Kind(p) = "apply" THEN "verified"
                                       ELSE "rolled_back"

(* Every mutation of the batch is in one place. *)
Early(p) ==
    /\ job[p].sent = {} /\ job[p].writes = 0 /\ job[p].verified = {}
    /\ job[p].failed = {} /\ job[p].unattempted = {}
    /\ pc[p] \notin {"authorize", "classify"} =>
          job[p].scope = job[p].already \cup job[p].bad \cup job[p].pending
    /\ pc[p] = "pass" => job[p].bad = {}

Looping(p) ==
    /\ job[p].bad = {} /\ job[p].failed = {} /\ job[p].unattempted = {}
    /\ job[p].scope =
          job[p].already \cup job[p].verified \cup job[p].pending \cup Held(p)
    /\ job[p].verified \cap (job[p].pending \cup Held(p)) = {}
    /\ job[p].pending \cap Held(p) = {}
    /\ pc[p] \in (ProvedSteps \ {"noop"}) \cup {"wait"} => cur[p] \in job[p].sent

Listed(p) ==
    job[p].verified \cup job[p].failed \cup job[p].unattempted
        \cup job[p].already = job[p].scope

(* The write a worker is waiting for, or has just proved, is not counted yet. *)
Uncounted(p) == IF pc[p] \in {"wait", "readback"} THEN {cur[p]} ELSE {}

Accounts(p) ==
    /\ pc[p] # "done" => job[p].status \notin {"applied", "rolled_back"}
    /\ job[p].op = "rollback_one" => \E m \in Mutations : job[p].scope = {m}
    /\ job[p].sent \subseteq job[p].scope /\ IsFiniteSet(job[p].sent)
    /\ Kind(p) = "apply" =>
          Cardinality(Crossed(p) \ Uncounted(p)) <= job[p].writes
    /\ pc[p] \in EarlySteps => Early(p)
    /\ pc[p] \in LoopSteps => Looping(p)
    /\ pc[p] = "freeze" => Listed(p)
    /\ pc[p] = "done" =>
          /\ job[p].writes > 0 => Listed(p)
          /\ job[p].status \in {"applied", "rolled_back"} =>
                job[p].failed = {} /\ job[p].unattempted = {}
    /\ VerifiedTruly(p)

ConductInv ==
    /\ \A m \in Mutations : Proved(m)
    /\ \A q \in requests : Matches(q)
    /\ \A p \in Workers : pc[p] # "idle" => Grounded(p) /\ Accounts(p)
=============================================================================
