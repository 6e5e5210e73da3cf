----------------------------- MODULE FlagLedger -----------------------------
(***************************************************************************)
(* The transaction ledger of core/flag_transactions.py: an append-only     *)
(* file of rows, one per lifecycle step of one mutation, and the questions *)
(* the engine asks of it.                                                  *)
(*                                                                         *)
(* The engine asks two of them, both answered by scanning the whole file:  *)
(* the newest row of a mutation (latest_status) and its newest             *)
(* AUTHORITATIVE row (authoritative_state).  The transaction model carries *)
(* those two answers rather than the row sequence; LatestAfter and         *)
(* AuthorityAfter say how one append moves them; FlagTransactionsProofs    *)
(* shows that this is what a scan of the longer file would return.         *)
(***************************************************************************)
EXTENDS Naturals, Sequences

CONSTANTS Mutations,   \* mutation ids of the plans in play
          Approvals,   \* approval content hashes
          Colors       \* writable flag colours

-----------------------------------------------------------------------------
(* Statuses.                                                               *)

Statuses == {"prepared", "preflight_passed", "applying",
             "verified_pending_private_state", "verified",
             "partially_failed", "blocked", "ambiguous",
             "frozen_unattempted", "already_verified",
             "rollback_pending", "rolled_back", "rollback_blocked"}

AuthoritativeStatuses ==
    {"verified_pending_private_state", "verified", "rolled_back"}

(* A write may be in flight, or may have landed without proof. *)
FrozenLatestStatuses ==
    {"applying", "verified_pending_private_state", "partially_failed",
     "ambiguous", "frozen_unattempted", "rollback_pending"}

(* A rollback batch treats a never-attempted sibling as harmless. *)
HazardousLatestStatuses == FrozenLatestStatuses \ {"frozen_unattempted"}

-----------------------------------------------------------------------------
(* Rows and scans of the row sequence.                                     *)

Rows == [mutation : Mutations, status : Statuses,
         approval : Approvals, intended : Colors]

RowsOf(log, m) == {i \in 1..Len(log) : log[i].mutation = m}

AuthoritativeRowsOf(log, m) ==
    {i \in RowsOf(log, m) : log[i].status \in AuthoritativeStatuses}

(* i is the index of the last row in a set of row indices. *)
IsLast(i, rows) == i \in rows /\ \A j \in rows : j <= i

(* s answers latest_status(m): the status of m's last row, "none" without one. *)
IsLatestStatus(log, m, s) ==
    \/ RowsOf(log, m) = {} /\ s = "none"
    \/ \E i \in RowsOf(log, m) : IsLast(i, RowsOf(log, m)) /\ s = log[i].status

NoRecord == [status |-> "none"]

(* The fields of an authoritative row that later decisions use. *)
RecordOf(row) == [status |-> row.status, approval |-> row.approval,
                  intended |-> row.intended]

Records == {NoRecord} \cup
           [status : AuthoritativeStatuses, approval : Approvals,
            intended : Colors]

(* r answers latest_authoritative_record(m). *)
IsAuthoritativeRecord(log, m, r) ==
    \/ AuthoritativeRowsOf(log, m) = {} /\ r = NoRecord
    \/ \E i \in AuthoritativeRowsOf(log, m) :
          /\ IsLast(i, AuthoritativeRowsOf(log, m))
          /\ r = RecordOf(log[i])

(* authoritative_state: a row that proved the write but still owes the      *)
(* private-state update already counts as verified.                         *)
AuthoritativeState(r) ==
    IF r.status = "verified_pending_private_state" THEN "verified" ELSE r.status

-----------------------------------------------------------------------------
(* What one appended row does to the two answers.                          *)

LatestAfter(latest, row) == [latest EXCEPT ![row.mutation] = row.status]

AuthorityAfter(auth, row) ==
    IF row.status \in AuthoritativeStatuses
    THEN [auth EXCEPT ![row.mutation] = RecordOf(row)]
    ELSE auth
=============================================================================
