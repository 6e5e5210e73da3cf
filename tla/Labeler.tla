------------------------------ MODULE Labeler ------------------------------
(***************************************************************************)
(* The triage loop: run_labeler (cli.py) lists a mailbox page by page, lets *)
(* the rules act on each page and saves the token of the next one.         *)
(* StateManager (core/state.py) keeps the token in a file and, when a      *)
(* vault is configured, in a remote copy that the next run prefers         *)
(* (core/vault_sync.py).                                                   *)
(*                                                                         *)
(* The token of both providers modelled is an offset: imap pages newest    *)
(* first, mailapp oldest first.  One run at a time; it may be killed or    *)
(* raise at any step, and new mail and its owner change the mailbox beside *)
(* it.  A message whose details cannot be read counts as looked at.        *)
(***************************************************************************)
EXTENDS Integers, FiniteSetsExt

CONSTANTS
    MaxMail,     \* bound: messages, numbered as they arrive
    Present,     \* those that are there from the start are 1..Present
    Leaves,      \* messages the rules move out of the mailbox
    Held,        \* messages no action is made for (protected, not a VIP)
    PageSize,    \* messages asked for at once
    Limit,       \* --limit: messages acted on in a run
    MaxSweeps,   \* bound: sweeps begun from the top
    MaxMishaps,  \* bound: runs that end early, saves and pulls that fail
    NoCopy

Mail == 1..MaxMail

ASSUME LabelerAssumption ==
    /\ MaxMail \in Nat /\ Present \in 0..MaxMail
    /\ Leaves \subseteq Mail /\ Held \subseteq Mail /\ Leaves \cap Held = {}
    /\ PageSize \in Nat \ {0} /\ Limit \in Nat \ {0}
    /\ MaxSweeps \in Nat /\ MaxMishaps \in Nat

VARIABLES
    setup,    \* provider, and whether a vault is configured
    box,      \* the messages that match the query
    arrived,  \* how many have arrived
    file,     \* the state file
    vault,    \* the copy in the vault, NoCopy for none
    job,      \* the run
    sweep,    \* history: sweeps begun
    seen,     \* history: what this sweep found at its start, listed, finished
    spoilt,   \* history: the listing shifted, or the sweep was mixed up
    mishaps   \* mishaps so far

stored == <<file, vault>>
labelerVars == <<setup, box, arrived, file, vault, job, sweep, seen, spoilt,
                 mishaps>>
-----------------------------------------------------------------------------
\* token: next_page_token, 0 for null.  sweep, history: the sweep the token
\* was earned in.
Copies == [token : 0..MaxMail, sweep : 0..MaxSweeps]
Fresh  == [token |-> 0, sweep |-> 0]

\* synced: the run knows the sha of the vault's copy.
Jobs == [step : {"off", "list", "apply", "save", "nothing", "complete"},
         copy : Copies, page : SUBSET Mail, next : 0..MaxMail,
         count : 0..(Limit + MaxMail), synced : BOOLEAN]
Off  == [step |-> "off", copy |-> Fresh, page |-> {}, next |-> 0,
         count |-> 0, synced |-> FALSE]

LabelerTypeOK ==
    /\ setup \in [provider : {"imap", "mailapp"}, vaulted : BOOLEAN]
    /\ arrived \in Present..MaxMail
    /\ box \subseteq 1..arrived
    /\ file \in Copies
    /\ vault \in Copies \cup {NoCopy}
    /\ job \in Jobs
    /\ sweep \in 0..MaxSweeps
    /\ seen \in [due : SUBSET Mail, listed : SUBSET Mail, done : SUBSET Mail]
    /\ spoilt \in BOOLEAN
    /\ mishaps \in 0..MaxMishaps

LabelerInit ==
    /\ setup \in [provider : {"imap", "mailapp"}, vaulted : BOOLEAN]
    /\ arrived = Present
    /\ box = 1..Present
    /\ file = Fresh
    /\ vault = NoCopy
    /\ job = Off
    /\ sweep = 0
    /\ seen = [due |-> {}, listed |-> {}, done |-> {}]
    /\ spoilt = FALSE
    /\ mishaps = 0
-----------------------------------------------------------------------------
Mishap == mishaps < MaxMishaps /\ mishaps' = mishaps + 1
Total == Cardinality(box)
\* The place of a message in the mailbox, oldest first.
Place(m) == Cardinality({k \in box : k <= m})

\* list_messages: the n messages after the first `start`.  The slice of the
\* IMAP provider counts from the end, and an end below zero counts from the
\* end once more.
Page(start, n) ==
    IF setup.provider = "mailapp"
    THEN {m \in box : Place(m) > start /\ Place(m) <= start + n}
    ELSE LET low  == Max({0, Total - start - n})
             high == IF start <= Total THEN Total - start
                                       ELSE Max({0, 2 * Total - start})
         IN  {m \in box : Place(m) > low /\ Place(m) <= high}

\* StateManager.save: the file is replaced, then the copy is pushed, which
\* the vault takes only on top of the copy this run knows.
Save(copy) ==
    /\ file' = copy
    /\ vault' = IF setup.vaulted /\ job.synced THEN copy ELSE vault

\* Nothing is raised when the file cannot be replaced, when the push fails,
\* or when its answer is lost and the sha is out of date from then on.
SaveFails(copy) == UNCHANGED stored \/ (file' = copy /\ UNCHANGED vault)
PushUnanswered(copy) ==
    /\ setup.vaulted /\ job.synced
    /\ file' = copy /\ vault' = copy

\* A run takes up the copy: without a token it starts from the top.
Start(copy, synced) ==
    /\ IF copy.token = 0
       THEN /\ sweep < MaxSweeps /\ sweep' = sweep + 1
            /\ seen' = [due |-> box, listed |-> {}, done |-> {}]
            /\ spoilt' = FALSE
            /\ job' = [Off EXCEPT !.step = "list", !.synced = synced,
                                  !.copy.sweep = sweep + 1]
       ELSE /\ spoilt' = (spoilt \/ copy.sweep # sweep)
            /\ job' = [Off EXCEPT !.step = "list", !.synced = synced,
                                  !.copy = copy]
            /\ UNCHANGED <<sweep, seen>>
    /\ UNCHANGED <<setup, box, arrived, stored>>

\* StateManager._load: the vault's copy, or else the file.
Load ==
    /\ job.step = "off"
    /\ IF setup.vaulted /\ vault # NoCopy THEN Start(vault, TRUE)
                                          ELSE Start(file, TRUE)
    /\ UNCHANGED mishaps

\* The vault does not answer; a push without a sha is accepted only where
\* there is no copy.
LoadAlone ==
    /\ job.step = "off" /\ setup.vaulted
    /\ Mishap
    /\ Start(file, vault = NoCopy)

\* list_messages, and the token of the next page.
List ==
    /\ job.step = "list"
    /\ LET start == job.copy.token
           n     == Min({Limit - job.count, PageSize})
           page  == Page(start, n)
       IN  IF page = {}
           THEN job' = [job EXCEPT !.step = "nothing"] /\ UNCHANGED seen
           ELSE /\ job' = [job EXCEPT !.step = "apply", !.page = page,
                               !.next = IF start + n < Total THEN start + n
                                                             ELSE 0]
                /\ seen' = [seen EXCEPT !.listed = @ \cup page]
    /\ UNCHANGED <<setup, box, arrived, stored, sweep, spoilt, mishaps>>

\* MailAppProvider.list_messages turns a failing script into an empty page.
ListFails ==
    /\ job.step = "list" /\ setup.provider = "mailapp"
    /\ Mishap
    /\ job' = [job EXCEPT !.step = "nothing"]
    /\ UNCHANGED <<setup, box, arrived, stored, sweep, seen, spoilt>>

\* Messages leave the listing; unless they are still to be listed, those
\* behind them move up to places the sweep has passed.
Depart(ms) ==
    /\ box' = box \ ms
    /\ spoilt' = (spoilt \/ ~(ms \subseteq seen.due \ seen.listed))

\* apply_actions: an action that fails is counted and passed over.
ApplyActions ==
    /\ job.step = "apply"
    /\ \E ms \in SUBSET (job.page \cap Leaves \cap box) : Depart(ms)
    /\ job' = [job EXCEPT !.step = "save",
                   !.count = @ + Cardinality(job.page \ Held)]
    /\ seen' = [seen EXCEPT !.done = @ \cup job.page]
    /\ UNCHANGED <<setup, arrived, stored, sweep, mishaps>>

Following == [token |-> job.next, sweep |-> job.copy.sweep]

\* After the save the run ends, at the last page or at its limit, or goes on.
Turn(synced) ==
    job' = IF job.next = 0 THEN [job EXCEPT !.step = "complete"]
           ELSE IF job.count >= Limit THEN Off
           ELSE [job EXCEPT !.step = "list", !.copy = Following,
                     !.page = {}, !.next = 0, !.synced = synced]

SavePage ==
    /\ job.step = "save"
    /\ \/ Save(Following) /\ Turn(job.synced) /\ UNCHANGED mishaps
       \/ Mishap /\ SaveFails(Following) /\ Turn(job.synced)
       \/ Mishap /\ PushUnanswered(Following) /\ Turn(FALSE)
    /\ UNCHANGED <<setup, box, arrived, sweep, seen, spoilt>>

\* "No more messages found", or the last page is done.
Finish ==
    /\ job.step \in {"nothing", "complete"}
    /\ job' = Off
    /\ UNCHANGED <<setup, box, arrived, stored, sweep, seen, spoilt, mishaps>>

\* Part of a page's actions may have been carried out by the time a run ends.
PartOfPage ==
    \E ms \in SUBSET (IF job.step = "apply" THEN job.page \cap Leaves \cap box
                                           ELSE {}) : Depart(ms)

\* Slip: the token of the next page is saved although this one is not done.
RaiseAhead ==
    /\ job.step = "apply"
    /\ Mishap
    /\ PartOfPage
    /\ Save(Following) \/ SaveFails(Following)
    /\ job' = Off
    /\ UNCHANGED <<setup, arrived, sweep, seen>>

\* An exception or an interrupt: the token of the page at hand is saved, if
\* that works, and the run ends.
Raise ==
    /\ job.step \in {"list", "apply"}
    /\ Mishap
    /\ PartOfPage
    /\ Save(job.copy) \/ SaveFails(job.copy)
    /\ job' = Off
    /\ UNCHANGED <<setup, arrived, sweep, seen>>

Kill ==
    /\ job.step # "off"
    /\ Mishap
    /\ PartOfPage
    /\ job' = Off
    /\ UNCHANGED <<setup, arrived, stored, sweep, seen>>

Arrive ==
    /\ arrived < MaxMail
    /\ arrived' = arrived + 1
    /\ box' = box \cup {arrived + 1}
    /\ UNCHANGED <<setup, stored, job, sweep, seen, spoilt, mishaps>>

OwnerTakes(m) ==
    /\ Depart({m})
    /\ UNCHANGED <<setup, arrived, stored, job, sweep, seen,
                   mishaps>>

LabelerNext ==
    \/ Load \/ LoadAlone \/ List \/ ListFails \/ ApplyActions \/ SavePage
    \/ Finish \/ Raise \/ Kill \/ Arrive
    \/ \E m \in box : OwnerTakes(m)

LabelerSpec == LabelerInit /\ [][LabelerNext]_labelerVars
-----------------------------------------------------------------------------
\* When a sweep has come to the end of the mailbox, over however many runs,
\* crashes, failed saves and copies of different age, it has worked through
\* every message that was there when it began: unless messages left the
\* listing behind it, or the vault brought back a copy that belongs to an
\* earlier sweep (run_labeler, StateManager).
SweepCovers ==
    job.step = "complete" /\ ~spoilt => seen.due \cap box \subseteq seen.done

\* A run that finds "no more messages" has none left to find: the saved token
\* is there for resuming from the last processed page.
EmptyMeansNone ==
    job.step = "nothing" => seen.due \cap box \subseteq seen.done
=============================================================================
