----------------------------- MODULE SendDrafts -----------------------------
(***************************************************************************)
(* The batch sender (send_drafts.py): a scheduled run goes through the     *)
(* obligations ledger, sends the safe replies it has not sent before, and  *)
(* rewrites audit/drafts_sent.json after each one.                         *)
(*                                                                         *)
(* Runs are processes of their own and nothing keeps two from overlapping. *)
(* Replies stands for the ledger rows that need a reply and reach the      *)
(* sent-state test: tier safe, complete text, usable address.              *)
(***************************************************************************)
EXTENDS SendPolicy, Naturals, Sequences, FiniteSets

CONSTANTS
    Replies,      \* the safe replies, by _ob_key, in the order of the ledger
    Undeliverable,\* those whose recipient the server always refuses
    Runs,         \* runs of the script
    MaxSends,     \* --max
    Torn,         \* a sent-state file that holds no list
    MaxFaults     \* bound: lost answers, crashes and overlaps

Keys == {Replies[i] : i \in DOMAIN Replies}

ASSUME SendDraftsAssumption ==
    /\ Replies \in Seq(Keys)
    /\ \A i, j \in DOMAIN Replies : i # j => Replies[i] # Replies[j]
    /\ Undeliverable \subseteq Keys
    /\ \A keys \in SUBSET Keys : Torn # keys
    /\ MaxSends \in Nat /\ MaxFaults \in Nat

VARIABLES
    file,       \* drafts_sent.json: the keys in it, or Torn
    run,        \* the runs
    delivered,  \* how often the server accepted each reply, up to twice
    excused,    \* history: replies a fault may have hit
    faults      \* faults so far

draftsVars == <<file, run, delivered, excused, faults>>

\* known: sent_state; count: counts["sent"]; next: the row the loop is at.
RunStates == [step : {"off", "loop", "accepted", "truncated"},
              known : SUBSET Keys, count : 0..MaxSends,
              next : 1..Len(Replies) + 1]
Off == [step |-> "off", known |-> {}, count |-> 0, next |-> 1]

DraftsTypeOK ==
    /\ file = Torn \/ file \subseteq Keys
    /\ run \in [Runs -> RunStates]
    /\ delivered \in [Keys -> 0..2]
    /\ excused \subseteq Keys
    /\ faults \in 0..MaxFaults

DraftsInit ==
    /\ file = {}
    /\ run = [r \in Runs |-> Off]
    /\ delivered = [k \in Keys |-> 0]
    /\ excused = {}
    /\ faults = 0
-----------------------------------------------------------------------------
\* _load_sent: an unreadable file reads as an empty one.
Load == IF file = Torn THEN {} ELSE file

\* A run that is not armed sends nothing and writes nothing.  A second run
\* beside the first counts as a fault that may hit any reply.
Begin(r) ==
    /\ run[r].step = "off" /\ AutomatedSendAllowed
    /\ run' = [run EXCEPT ![r] = [Off EXCEPT !.step = "loop", !.known = Load]]
    /\ IF \A q \in Runs : run[q].step = "off"
       THEN UNCHANGED <<excused, faults>>
       ELSE /\ faults < MaxFaults /\ faults' = faults + 1
            /\ excused' = Keys
    /\ UNCHANGED <<file, delivered>>

\* Slip: --max is not looked at.
OffersUncapped(r, k) ==
    /\ run[r].step = "loop"
    /\ run[r].next <= Len(Replies) /\ Replies[run[r].next] = k
    /\ k \notin run[r].known

\* The run is at row k and would send it.
Offers(r, k) ==
    /\ run[r].step = "loop"
    /\ run[r].next <= Len(Replies) /\ Replies[run[r].next] = k
    /\ k \notin run[r].known
    /\ run[r].count < MaxSends

PassOn(r) == run' = [run EXCEPT ![r].next = @ + 1]

AlreadySent(r) ==
    /\ run[r].step = "loop" /\ run[r].next <= Len(Replies)
    /\ Replies[run[r].next] \in run[r].known
    /\ PassOn(r)
    /\ UNCHANGED <<file, delivered, excused, faults>>

Deliver(k) == delivered' = [delivered EXCEPT ![k] = IF @ = 2 THEN 2 ELSE @ + 1]

\* send_reply: the policy, then one SMTP transaction.
Accepted(r, k) ==
    /\ Offers(r, k) /\ AutomatedSendAllowed /\ k \notin Undeliverable
    /\ Deliver(k)
    /\ run' = [run EXCEPT ![r].step = "accepted"]
    /\ UNCHANGED <<file, excused, faults>>

\* The exception after an accepted DATA reads as a failed send.
AnswerLost(r, k) ==
    /\ Offers(r, k) /\ AutomatedSendAllowed /\ k \notin Undeliverable
    /\ faults < MaxFaults /\ faults' = faults + 1
    /\ Deliver(k) /\ excused' = excused \cup {k}
    /\ PassOn(r)
    /\ UNCHANGED file

\* Slip: a reply that could not be sent uses up the run.
RefusedEndsRun(r, k) ==
    /\ Offers(r, k)
    /\ run' = [run EXCEPT ![r] = Off]
    /\ UNCHANGED <<file, delivered, excused, faults>>

\* The policy has been closed, or the server refuses: the loop goes on.
Refused(r, k) ==
    /\ Offers(r, k)
    /\ PassOn(r)
    /\ UNCHANGED <<file, delivered, excused, faults>>

\* _save_sent opens the file for writing, which empties it.
Truncate(r) ==
    /\ run[r].step = "accepted"
    /\ file' = Torn
    /\ run' = [run EXCEPT ![r].step = "truncated",
                          ![r].known = @ \cup {Replies[run[r].next]}]
    /\ UNCHANGED <<delivered, excused, faults>>

Saved(r) == [run[r] EXCEPT !.step = "loop", !.count = @ + 1, !.next = @ + 1]

\* Slip: only the reply sent last is written.
WriteLast(r) ==
    /\ run[r].step = "truncated"
    /\ file' = {Replies[run[r].next]}
    /\ run' = [run EXCEPT ![r] = Saved(r)]
    /\ UNCHANGED <<delivered, excused, faults>>

Write(r) ==
    /\ run[r].step = "truncated"
    /\ file' = run[r].known
    /\ run' = [run EXCEPT ![r] = Saved(r)]
    /\ UNCHANGED <<delivered, excused, faults>>

End(r) ==
    /\ run[r].step = "loop"
    /\ \/ run[r].next > Len(Replies)
       \/ /\ run[r].next <= Len(Replies) /\ run[r].count = MaxSends
          /\ Replies[run[r].next] \notin run[r].known
    /\ run' = [run EXCEPT ![r] = Off]
    /\ UNCHANGED <<file, delivered, excused, faults>>

\* A process dies.  What it had handed to the server and not yet written is
\* forgotten; a file it had emptied stays empty.
Crash(r) ==
    /\ run[r].step # "off"
    /\ faults < MaxFaults /\ faults' = faults + 1
    /\ excused' = CASE run[r].step = "accepted"  -> excused \cup {Replies[run[r].next]}
                    [] run[r].step = "truncated" -> Keys
                    [] OTHER                     -> excused
    /\ run' = [run EXCEPT ![r] = Off]
    /\ UNCHANGED <<file, delivered>>

BatchStep(r) ==
    \/ AlreadySent(r) \/ Truncate(r) \/ Write(r) \/ End(r)
    \/ \E k \in Keys : Accepted(r, k) \/ Refused(r, k)

DraftsNext ==
    \/ (\E r \in Runs : Begin(r) \/ BatchStep(r) \/ Crash(r)) /\ UNCHANGED policy
    \/ (\E r \in Runs, k \in Keys : AnswerLost(r, k)) /\ UNCHANGED policy
    \/ PolicyOff /\ UNCHANGED draftsVars
-----------------------------------------------------------------------------
\* A reply goes out twice only after one of the faults the checkpoint cannot
\* cover: a process that died between the server's answer and the end of the
\* rewrite, an answer that was lost, or two runs at once.  Short of those,
\* no number of runs, refusals, crashes elsewhere or early ends repeats it.
RepeatHasACause == \A k \in Keys : delivered[k] > 1 => k \in excused
=============================================================================
