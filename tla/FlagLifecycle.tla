---------------------------- MODULE FlagLifecycle ----------------------------
(***************************************************************************)
(* What the flag transaction engine promises about one mutation, without   *)
(* workers, locks, requests or a ledger: the mailbox is written at most    *)
(* once for it and restored at most once after that, and what the private  *)
(* record lets a reader conclude is never wrong.                           *)
(*                                                                         *)
(* FlagTransactions implements this module; the mapping is at its end.     *)
(***************************************************************************)
CONSTANT Mutations

VARIABLES written,   \* what has happened to the message in the mailbox
          belief     \* what a reader of the durable record may conclude

lifecycleVars == <<written, belief>>

WrittenStates == {"never", "applied", "restored"}
Beliefs       == {"clean", "in_doubt", "applied", "restored"}

(* The belief that matches a state of the mailbox. *)
TruthAbout(w) == IF w = "never" THEN "clean" ELSE w

LifecycleInit ==
    /\ written = [m \in Mutations |-> "never"]
    /\ belief  = [m \in Mutations |-> "clean"]

(* The intent to write is durable before the write can happen.  Doubt may     *)
(* also return to a settled mutation: a conclusion whose append reported an  *)
(* error is withdrawn although its row is there.                             *)
Claim(m) ==
    /\ belief' = [belief EXCEPT ![m] = "in_doubt"]
    /\ UNCHANGED written

(* The mailbox changes only under a claim, and only forwards. *)
Write(m) ==
    /\ belief[m] = "in_doubt"
    /\ \/ written[m] = "never"   /\ written' = [written EXCEPT ![m] = "applied"]
       \/ written[m] = "applied" /\ written' = [written EXCEPT ![m] = "restored"]
    /\ UNCHANGED belief

(* Doubt is lifted only by recording what really happened. *)
Conclude(m) ==
    /\ belief[m] = "in_doubt"
    /\ belief' = [belief EXCEPT ![m] = TruthAbout(written[m])]
    /\ UNCHANGED written

(* The record became unreadable: everything is in doubt from now on. *)
LoseRecord ==
    /\ belief' = [m \in Mutations |-> "in_doubt"]
    /\ UNCHANGED written

LifecycleNext ==
    \/ \E m \in Mutations : Claim(m) \/ Write(m) \/ Conclude(m)
    \/ LoseRecord

Spec == LifecycleInit /\ [][LifecycleNext]_lifecycleVars
=============================================================================
