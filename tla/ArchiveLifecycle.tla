--------------------------- MODULE ArchiveLifecycle ---------------------------
(***************************************************************************)
(* What conditional archiving promises about one message of one plan,      *)
(* without workers, locks or receipts: a move is claimed on record before  *)
(* it is handed to the server, it is handed over once, and the record is   *)
(* closed only by what the server did.  ArchiveTransactions implements it. *)
(***************************************************************************)
CONSTANT Rows           \* the messages of every plan

Kinds == {"archive", "restore"}

VARIABLES
    record,     \* what the receipt lets a reader conclude
    handed,     \* how often a move was handed to the server
    carried     \* moves it has carried out

lifecycleVars == <<record, handed, carried>>

LifecycleInit ==
    /\ record = [r \in Rows |-> "open"]
    /\ handed = [x \in Rows \X Kinds |-> 0]
    /\ carried = {}

Advance(r, from, to) ==
    /\ record[r] = from
    /\ record' = [record EXCEPT ![r] = to]
    /\ UNCHANGED <<handed, carried>>

ClaimMove(r) == Advance(r, "open", "claimed")
Keep(r)      == Advance(r, "claimed", "kept") /\ <<r, "archive">> \in carried
ClaimUndo(r) == Advance(r, "kept", "undoing")
Return(r)    == Advance(r, "undoing", "returned") /\ <<r, "restore">> \in carried

\* The undo is refused, which is only said when nothing was handed over.
Refuse(r) ==
    /\ Advance(r, "kept", "refused") \/ Advance(r, "undoing", "refused")
    /\ handed[<<r, "restore">>] = 0

Hand(r, kind) ==
    /\ record[r] = (IF kind = "archive" THEN "claimed" ELSE "undoing")
    /\ handed[<<r, kind>>] = 0
    /\ handed' = [handed EXCEPT ![<<r, kind>>] = 1]
    /\ UNCHANGED <<record, carried>>

CarryOut(x) ==
    /\ x \notin carried
    /\ handed[x] = 1
    /\ carried' = carried \cup {x}
    /\ UNCHANGED <<record, handed>>

LifecycleNext ==
    \/ \E r \in Rows : \/ ClaimMove(r) \/ Keep(r) \/ ClaimUndo(r)
                       \/ Return(r) \/ Refuse(r)
                       \/ \E kind \in Kinds : Hand(r, kind)
    \/ \E x \in Rows \X Kinds : CarryOut(x)

Spec == LifecycleInit /\ [][LifecycleNext]_lifecycleVars
=============================================================================
