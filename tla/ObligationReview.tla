-------------------------- MODULE ObligationReview --------------------------
(***************************************************************************)
(* From correspondence to an archive permission: reviewers record what a   *)
(* completely collected thread says of its obligations                     *)
(* (core/corpus_review.py), the state of an obligation is derived from     *)
(* that evidence (core/obligation_workflow.py), and the archive guard asks *)
(* again before every move (core/archive_guard.py).                        *)
(*                                                                         *)
(* A reviewer reports each message truthfully, or raises a question.  The  *)
(* guard's override store and protected mail are part of                   *)
(* ArchiveTransactions; here the guard answers from the reviews alone.     *)
(***************************************************************************)
EXTENDS CorpusResearch

CONSTANTS
    Obligations,
    Says,         \* what a message says of an obligation
    Questions,    \* sets of obligations a review may raise questions about
    MaxReviews,   \* bound: recorded reviews
    NoReview, NoGuard

Facts   == {"none", "request", "completed", "non_action"}
Closing == {"completed", "non_action"}

ASSUME ReviewAssumption ==
    /\ Says \in [Messages -> [Obligations -> Facts]]
    /\ \A m \in Messages : \E o \in Obligations : Says[m][o] # "none"
    /\ Questions \subseteq SUBSET Obligations
    /\ MaxReviews \in Nat

VARIABLES
    staffed,  \* does anybody review?
    log,      \* every review ever recorded; its index stands for its hash
    onFile,   \* the review in each thread's file, 0: none
    history,  \* the reviews in reviews/history
    writing,  \* the review being recorded, under reviews.lock
    guard     \* the guard evidence file

reviewVars == <<staffed, log, onFile, history, writing, guard>>
vars == <<researchVars, reviewVars>>

\* A review of the log rests on the first `covered' messages of its thread and
\* raises a question about the obligations in `doubts'.

Init ==
    /\ ResearchInit
    /\ staffed \in BOOLEAN
    /\ log = <<>>
    /\ onFile = [S \in SUBSET Messages |-> 0]
    /\ history = {}
    /\ writing = NoReview
    /\ guard = NoGuard
-----------------------------------------------------------------------------
(* derive and reconcile.                                                   *)

About(o, S) == {m \in S : Says[m][o] # "none"}

\* The messages a review rests on.
Evidence(v) == {m \in v.thread : Place(m, v.thread) <= v.covered}

Fresh(t) == now <= t + 1

\* Is the obligation closed on this evidence?  The last message by date
\* decides, if it was read lately, no other of the same date says otherwise,
\* and nobody raised a question.
Closed(v, o) ==
    LET E == About(o, Evidence(v))
    IN  /\ o \notin v.doubts
        /\ \E m \in E :
            /\ \A n \in E : n = m \/ Earlier(n, m)
            /\ Fresh(reads[v.corpus][m])
            /\ \A n \in E : at[n] = at[m] => Says[n][o] = Says[m][o]
            /\ Says[m][o] \in Closing

\* An open obligation keeps every message it shares with a closed one.
Eligible(v, o) ==
    /\ Closed(v, o)
    /\ \A p \in Obligations :
        About(o, Evidence(v)) \cap About(p, Evidence(v)) # {} => Closed(v, p)
-----------------------------------------------------------------------------
(* Recording a review.                                                     *)

\* What a reviewer may hand in: some of what was collected of a thread, and
\* as the review to be superseded one that was on file when the reviewer
\* looked, which may be long ago (0: there was none).
HandIn(c, i, k, doubts, old) ==
    [corpus |-> c, talk |-> i, thread |-> Thread(c, i), covered |-> k,
     doubts |-> doubts, supersedes |-> old]
Known(S) == {0} \cup {j \in 1..Len(log) : log[j].thread = S}

Reviewing == staffed /\ Quiet

Covers(v) == v.covered = Cardinality(v.thread)
Names(v)  == onFile[v.thread] # 0 => v.supersedes = onFile[v.thread]

\* Slip: a thread need not be collected to its end.
KeepPreviousOfPart(v) ==
    /\ Reviewing /\ writing = NoReview /\ Len(log) < MaxReviews
    /\ Names(v)
    /\ writing' = v
    /\ history' = IF onFile[v.thread] = 0 THEN history
                  ELSE history \cup {onFile[v.thread]}
    /\ UNCHANGED <<researchVars, staffed, log, onFile, guard>>

\* record_review up to the history file: the thread is completely collected,
\* and under the lock the previous review is the one the new one supersedes.
\* A call that is refused changes nothing.
KeepPrevious(v) ==
    /\ Reviewing /\ writing = NoReview /\ Len(log) < MaxReviews
    /\ Covers(v) /\ Names(v)
    /\ writing' = v
    /\ history' = IF onFile[v.thread] = 0 THEN history
                  ELSE history \cup {onFile[v.thread]}
    /\ UNCHANGED <<researchVars, staffed, log, onFile, guard>>

WriteReview ==
    /\ Reviewing /\ writing # NoReview
    /\ log' = Append(log, writing)
    /\ onFile' = [onFile EXCEPT ![writing.thread] = Len(log) + 1]
    /\ writing' = NoReview
    /\ UNCHANGED <<researchVars, staffed, history, guard>>

\* The process dies after the history file; the lock goes with it.
DieRecording ==
    /\ Reviewing /\ writing # NoReview
    /\ writing' = NoReview
    /\ UNCHANGED <<researchVars, staffed, log, onFile, history, guard>>
-----------------------------------------------------------------------------
(* The guard.                                                              *)

\* build_guard_evidence with the review on file and, out of whatever research
\* directory, a binding for each of its messages that was read lately.
BuildGuard(k, c) ==
    LET S == log[k].thread
    IN  /\ Reviewing /\ onFile[S] = k
        /\ \E m \in S : reads[c][m] # 0 /\ Fresh(reads[c][m])
        /\ guard' = [at |-> now, review |-> k, corpus |-> c]
        /\ UNCHANGED <<researchVars, staffed, log, onFile, history, writing>>

\* Slip: the copy of the reviews is trusted for as long as it is fresh.
SourceFromCopy(m) ==
    /\ guard # NoGuard
    /\ Fresh(guard.at)
    /\ reads[guard.corpus][m] \in 1..guard.at /\ Fresh(reads[guard.corpus][m])

\* ArchiveGuard._source: the file is fresh, the message is bound to evidence
\* that is fresh, and the review is still the one on file.
Source(m) ==
    /\ guard # NoGuard
    /\ Fresh(guard.at)
    /\ reads[guard.corpus][m] \in 1..guard.at /\ Fresh(reads[guard.corpus][m])
    /\ onFile[log[guard.review].thread] = guard.review

\* ArchiveGuard.__call__: may the message be moved?
Passes(m) ==
    /\ Source(m)
    /\ LET v == log[guard.review]
           siblings == {o \in Obligations : m \in About(o, Evidence(v))}
       IN  /\ siblings # {}
           /\ \A o \in siblings : Eligible(v, o)
-----------------------------------------------------------------------------
ReviewNext ==
    \/ \E c \in Corpora, i \in Ids, doubts \in Questions :
        \E k \in 1..Cursor(c, i), old \in Known(Thread(c, i)) :
            KeepPrevious(HandIn(c, i, k, doubts, old))
    \/ WriteReview
    \/ DieRecording
    \/ \E k \in 1..Len(log), c \in Corpora : BuildGuard(k, c)

Next ==
    \/ ResearchNext /\ UNCHANGED reviewVars
    \/ ReviewNext

Spec == Init /\ [][Next]_vars

ResearchOnly(A) == A /\ UNCHANGED reviewVars

\* Research of each corpus is run again until it is complete (strongly fair,
\* because the model lets the units of two corpora take turns), and a unit
\* that comes to a thread over and over attempts it at last: a unit lasts ten
\* minutes, a read seconds, and each read or failure moves the manifest.
Fairness == \A c \in Corpora :
    /\ SF_vars(ResearchOnly(Begin(c)))
    /\ \A i \in Ids : SF_vars(ResearchOnly(Attempt(c, i)))

FairSpec == Spec /\ Fairness
-----------------------------------------------------------------------------
\* A permission to archive is founded: the thread was read to its end, the
\* message and the last word on each of its obligations within two ticks,
\* and of all the thread says by date, the last words on each of them close
\* it (reconcile under ArchiveGuard.__call__).
PassIsFounded ==
    \A m \in Messages : Passes(m) =>
        LET v == log[guard.review]
        IN  /\ Collected(v.corpus, v.talk)
            /\ Fresh(reads[guard.corpus][m])
            /\ \A o \in Obligations : Says[m][o] # "none" =>
                \E n \in About(o, v.thread) :
                    /\ Fresh(reads[v.corpus][n])
                    /\ \A k \in About(o, v.thread) :
                        at[k] <= at[n] /\ (at[k] = at[n] => Says[k][o] \in Closing)

\* A recorded question about an obligation keeps its messages where they are
\* until a later review of the thread, by somebody who has read the question,
\* takes its place; and no recorded review is lost (record_review's supersedes
\* and history, and the guard's comparison with the file).
ObjectionStands ==
    /\ \A k \in 1..Len(log) : onFile[log[k].thread] = k \/ k \in history
    /\ \A m \in Messages : Passes(m) =>
        \A k \in 1..Len(log) :
            \/ log[k].thread # log[guard.review].thread
            \/ \E j \in 1..Len(log) : log[j].supersedes = k
            \/ \A o \in log[k].doubts : Says[m][o] = "none"

\* Of every corpus, the threads the provider can read are collected to the
\* end, although others fail every time and a unit visits only a few (the
\* rotation of research_corpus).  Reviewers do not touch research: it is
\* enough to look where there are none.
ReadableThreadsCollected ==
    ~staffed =>
        []<>(\A c \in Corpora, i \in Ids :
                Collected(c, i) \/ Thread(c, i) \cap Unreadable # {})
=============================================================================
