---------------------------- MODULE ReviewProofs ----------------------------
(***************************************************************************)
(* Proofs about ObligationReview: a permission to archive is founded, and a *)
(* recorded question stands, for any number of messages, conversations,    *)
(* corpora and reviews.                                                     *)
(*                                                                         *)
(* A review in the log was recorded of a thread that had been collected to *)
(* its end.  A corpus never changes once it is built and no read is taken  *)
(* back, so that stays true, and the review rests on the whole thread.  A   *)
(* review that is not on file is in the history, and one on file names it. *)
(***************************************************************************)
EXTENDS ObligationReview, FiniteSetTheorems, SequenceTheorems, TLAPS

Reviews ==
    [corpus : Corpora, talk : Ids, thread : SUBSET Messages, covered : Nat,
     doubts : SUBSET Obligations, supersedes : Nat]

\* The review rests on all of a thread that was collected.
Founded(v) ==
    /\ v \in Reviews
    /\ v.thread # {} /\ v.thread = Thread(v.corpus, v.talk)
    /\ Covers(v)
    /\ Collected(v.corpus, v.talk)

\* While a review is written, the one it takes the place of is in the history.
Kept(v) ==
    /\ Names(v)
    /\ onFile[v.thread] = 0 \/ onFile[v.thread] \in history

Superseded(k) == \E j \in 1..Len(log) : log[j].supersedes = k

ResearchTypes ==
    /\ now \in Nat \ {0}
    /\ at \in [Messages -> Nat]
    /\ corpus \in [Corpora -> SUBSET Messages]
    /\ reads \in [Corpora -> [Messages -> Nat]]

ReviewTypes ==
    /\ log \in Seq(Reviews)
    /\ onFile \in [SUBSET Messages -> Nat]
    /\ guard # NoGuard => guard.review \in 1..Len(log)

ReviewInv ==
    /\ ResearchTypes /\ ReviewTypes
    /\ \A k \in 1..Len(log) :
         /\ Founded(log[k])
         /\ onFile[log[k].thread] = k \/ (k \in history /\ Superseded(k))
    /\ writing # NoReview => Founded(writing) /\ Kept(writing)
-----------------------------------------------------------------------------
(* What the guard says follows from the invariant.                         *)

\* A review that covers as many messages as its thread has rests on them all.
LEMMA EvidenceIsWhole ==
    ASSUME NEW v, Founded(v)
    PROVE  Evidence(v) = v.thread
<1>1. v.thread \in SUBSET Messages /\ IsFiniteSet(v.thread)
  BY ResearchAssumption, FS_Subset DEF Founded, Reviews
<1>2. ASSUME NEW m \in v.thread PROVE Place(m, v.thread) <= v.covered
  <2>1. {n \in v.thread : n = m \/ Earlier(n, m)} \subseteq v.thread
    OBVIOUS
  <2> QED
    BY <1>1, <2>1, FS_Subset, FS_CardinalityType DEF Place, Founded, Covers
<1> QED
  BY <1>2 DEF Evidence

\* Closed evidence has a last word that closes the obligation.
LEMMA LastWordCloses ==
    ASSUME ResearchTypes, NEW v, Founded(v), NEW o, Closed(v, o)
    PROVE  \E n \in About(o, v.thread) :
             /\ Fresh(reads[v.corpus][n])
             /\ \A k \in About(o, v.thread) :
                  at[k] <= at[n] /\ (at[k] = at[n] => Says[k][o] \in Closing)
<1>1. Evidence(v) = v.thread /\ v.thread \subseteq Messages
  BY EvidenceIsWhole DEF Founded, Reviews
<1>2. PICK n \in About(o, v.thread) :
        /\ \A k \in About(o, v.thread) : k = n \/ Earlier(k, n)
        /\ Fresh(reads[v.corpus][n])
        /\ \A k \in About(o, v.thread) : at[k] = at[n] => Says[k][o] = Says[n][o]
        /\ Says[n][o] \in Closing
  BY <1>1 DEF Closed
<1>3. ASSUME NEW k \in About(o, v.thread)
      PROVE  at[k] <= at[n] /\ (at[k] = at[n] => Says[k][o] \in Closing)
  <2>1. k \in Messages /\ n \in Messages /\ at[k] \in Nat /\ at[n] \in Nat
    BY <1>1, <1>3 DEF About, ResearchTypes
  <2>2. at[k] <= at[n]
    BY <1>2, <2>1, <1>3 DEF Earlier
  <2> QED
    BY <1>2, <1>3, <2>2
<1> QED
  BY <1>2, <1>3

LEMMA PassesAreFounded == ReviewInv => PassIsFounded
<1> SUFFICES ASSUME ReviewInv, NEW m \in Messages, Passes(m)
             PROVE  LET v == log[guard.review]
                    IN  /\ Collected(v.corpus, v.talk)
                        /\ Fresh(reads[guard.corpus][m])
                        /\ \A o \in Obligations : Says[m][o] # "none" =>
                            \E n \in About(o, v.thread) :
                                /\ Fresh(reads[v.corpus][n])
                                /\ \A k \in About(o, v.thread) :
                                    /\ at[k] <= at[n]
                                    /\ at[k] = at[n] => Says[k][o] \in Closing
  BY DEF PassIsFounded
<1> DEFINE v == log[guard.review]
           siblings == {o \in Obligations : m \in About(o, Evidence(v))}
<1>1. Source(m) /\ siblings # {} /\ \A o \in siblings : Eligible(v, o)
  BY DEF Passes
<1>2. Founded(v)
  BY <1>1 DEF Source, ReviewInv, ReviewTypes
<1>3. Collected(v.corpus, v.talk) /\ Fresh(reads[guard.corpus][m])
  BY <1>1, <1>2 DEF Founded, Source
<1>4. ASSUME NEW o \in Obligations, Says[m][o] # "none"
      PROVE  Closed(v, o)
  <2>1. m \in Evidence(v)
    BY <1>1 DEF About
  <2>2. o \in siblings
    BY <1>4, <2>1 DEF About
  <2> QED
    BY <1>1, <2>2 DEF Eligible
<1>5. ResearchTypes
  BY DEF ReviewInv
<1> HIDE DEF v
<1>6. ASSUME NEW o \in Obligations, Says[m][o] # "none"
      PROVE  \E n \in About(o, v.thread) :
               /\ Fresh(reads[v.corpus][n])
               /\ \A k \in About(o, v.thread) :
                    at[k] <= at[n] /\ (at[k] = at[n] => Says[k][o] \in Closing)
  BY <1>2, <1>4, <1>5, <1>6, LastWordCloses
<1> QED
  BY <1>3, <1>6 DEF v

LEMMA QuestionsStand == ReviewInv => ObjectionStands
<1> SUFFICES ASSUME ReviewInv PROVE ObjectionStands
  OBVIOUS
<1>1. \A k \in 1..Len(log) : onFile[log[k].thread] = k \/ k \in history
  BY DEF ReviewInv
<1>2. ASSUME NEW m \in Messages, Passes(m), NEW k \in 1..Len(log),
             log[k].thread = log[guard.review].thread, ~Superseded(k)
      PROVE  \A o \in log[k].doubts : Says[m][o] = "none"
  <2> DEFINE v == log[guard.review]
             siblings == {o \in Obligations : m \in About(o, Evidence(v))}
  <2>1. Source(m) /\ siblings # {} /\ \A o \in siblings : Eligible(v, o)
    BY <1>2 DEF Passes
  <2>2. onFile[v.thread] = guard.review /\ onFile[log[k].thread] = k
    BY <1>2, <2>1 DEF Source, ReviewInv
  <2>3. k = guard.review
    BY <1>2, <2>2
  <2>4. log[k].doubts \subseteq Obligations
    BY <1>2 DEF ReviewInv, ReviewTypes, Reviews, Founded
  <2>5. ASSUME NEW o \in log[k].doubts, Says[m][o] # "none" PROVE FALSE
    <3>1. m \in Evidence(v)
      BY <2>1 DEF About
    <3>2. o \in siblings
      BY <2>4, <2>5, <3>1 DEF About
    <3>3. o \notin v.doubts
      BY <2>1, <3>2 DEF Eligible, Closed
    <3> QED
      BY <2>3, <2>5, <3>3
  <2> QED
    BY <2>5
<1> QED
  BY <1>1, <1>2 DEF ObjectionStands, Superseded
-----------------------------------------------------------------------------
(* The invariant holds.                                                    *)

LEMMA ReviewInit == Init => ReviewInv
<1> SUFFICES ASSUME Init PROVE ReviewInv
  OBVIOUS
<1>1. ResearchTypes
  BY DEF Init, ResearchInit, ResearchTypes
<1>2. log = <<>> /\ log \in Seq(Reviews) /\ Len(log) = 0
  BY DEF Init
<1>3. ReviewTypes
  BY <1>2 DEF Init, ReviewTypes
<1>4. writing = NoReview
  BY DEF Init
<1> QED
  BY <1>1, <1>2, <1>3, <1>4 DEF ReviewInv

\* A corpus is built once and what was read stays read.
LEMMA ResearchGrows ==
    ASSUME ResearchTypes, ResearchNext
    PROVE  /\ ResearchTypes'
           /\ \A c \in Corpora : corpus[c] # {} => corpus'[c] = corpus[c]
           /\ \A c \in Corpora, m \in Messages : reads[c][m] > 0 => reads'[c][m] > 0
<1>1. CASE Tick
  BY <1>1 DEF Tick, ResearchTypes
<1>2. CASE \E m \in Messages : Arrive(m)
  BY <1>2 DEF Arrive, ResearchTypes
<1>3. CASE \E c \in Corpora : BuildCorpus(c)
  BY <1>3 DEF BuildCorpus, ResearchTypes
<1>4. CASE \E c \in Corpora : Begin(c) \/ Stop(c)
  BY <1>4 DEF Begin, Stop, ResearchTypes
<1>5. ASSUME NEW c \in Corpora, NEW i \in Ids, Read(c, i)
      PROVE  /\ ResearchTypes'
             /\ \A d \in Corpora : corpus[d] # {} => corpus'[d] = corpus[d]
             /\ \A d \in Corpora, m \in Messages : reads[d][m] > 0 => reads'[d][m] > 0
  <2> DEFINE due == Due(c, i)
  <2>1. /\ reads' = [reads EXCEPT ![c] = [reads[c] EXCEPT ![due] = now]]
        /\ UNCHANGED <<now, at, corpus>>
    BY <1>5 DEF Read
  <2> HIDE DEF due
  <2>2. [reads[c] EXCEPT ![due] = now] \in [Messages -> Nat]
    BY DEF ResearchTypes
  <2>3. ResearchTypes'
    BY <2>1, <2>2 DEF ResearchTypes
  <2>4. ASSUME NEW d \in Corpora, NEW m \in Messages, reads[d][m] > 0
        PROVE  reads'[d][m] > 0
    <3>1. reads'[d][m] \in {reads[d][m], now}
      BY <2>1 DEF ResearchTypes
    <3> QED
      BY <2>4, <3>1 DEF ResearchTypes
  <2> QED
    BY <2>1, <2>3, <2>4
<1>6. CASE \E c \in Corpora, i \in Ids : Fail(c, i)
  BY <1>6 DEF Fail, ResearchTypes
<1> QED
  BY <1>1, <1>2, <1>3, <1>4, <1>5, <1>6 DEF ResearchNext, Attempt

\* So a founded review stays founded, whatever research does.
LEMMA FoundedStays ==
    ASSUME NEW v, Founded(v), ResearchTypes, ResearchTypes',
           \A c \in Corpora : corpus[c] # {} => corpus'[c] = corpus[c],
           \A c \in Corpora, m \in Messages : reads[c][m] > 0 => reads'[c][m] > 0
    PROVE  Founded(v)'
<1>1. v.corpus \in Corpora /\ corpus[v.corpus] # {}
  BY DEF Founded, Reviews, Thread
<1>2. corpus'[v.corpus] = corpus[v.corpus] /\ corpus[v.corpus] \subseteq Messages
  BY <1>1 DEF ResearchTypes
<1>3. Thread(v.corpus, v.talk)' = Thread(v.corpus, v.talk)
  BY <1>2 DEF Thread
<1>4. Collected(v.corpus, v.talk)'
  BY <1>1, <1>2, <1>3 DEF Collected, Thread, Founded
<1> QED
  BY <1>3, <1>4 DEF Founded, Covers

LEMMA ResearchStep ==
    ASSUME ReviewInv, ResearchNext, UNCHANGED reviewVars
    PROVE  ReviewInv'
<1>1. /\ ResearchTypes /\ ResearchTypes'
      /\ \A c \in Corpora : corpus[c] # {} => corpus'[c] = corpus[c]
      /\ \A c \in Corpora, m \in Messages : reads[c][m] > 0 => reads'[c][m] > 0
  BY ResearchGrows DEF ReviewInv
<1>2. \A v : Founded(v) => Founded(v)'
  BY <1>1, FoundedStays
<1>3. UNCHANGED <<log, onFile, history, writing, guard>>
  BY DEF reviewVars
<1>4. ReviewTypes'
  BY <1>3 DEF ReviewInv, ReviewTypes
<1>5. ASSUME NEW k \in 1..Len(log)
      PROVE  /\ Founded(log[k])'
             /\ onFile[log[k].thread] = k \/ (k \in history /\ Superseded(k))'
  BY <1>2, <1>3, <1>5 DEF ReviewInv, Superseded
<1>6. writing # NoReview => Founded(writing)' /\ Kept(writing)'
  BY <1>2, <1>3 DEF ReviewInv, Kept, Names
<1> QED
  BY <1>1, <1>3, <1>4, <1>5, <1>6 DEF ReviewInv, Superseded

\* Research leaves the reviews alone, so the rest is about recording one.
LEMMA KeepPreviousStep ==
    ASSUME ReviewInv, NEW c \in Corpora, NEW i \in Ids, NEW doubts \in Questions,
           NEW k \in 1..Cursor(c, i), NEW old \in Known(Thread(c, i)),
           NEW v, v = HandIn(c, i, k, doubts, old), KeepPrevious(v)
    PROVE  ReviewInv'
<1> DEFINE done == {m \in Thread(c, i) : reads[c][m] > 0}
<1>1. /\ writing' = v /\ Covers(v) /\ Names(v)
      /\ history' = IF onFile[v.thread] = 0 THEN history
                    ELSE history \cup {onFile[v.thread]}
      /\ UNCHANGED <<now, at, corpus, reads, log, onFile, guard>>
  BY DEF KeepPrevious, researchVars
<1>2. /\ v.corpus = c /\ v.talk = i /\ v.thread = Thread(c, i) /\ v.covered = k
      /\ v.doubts = doubts /\ v.supersedes = old
  BY DEF HandIn
<1>3. /\ Thread(c, i) \subseteq Messages /\ IsFiniteSet(Thread(c, i))
      /\ done \subseteq Thread(c, i) /\ IsFiniteSet(done)
  BY ResearchAssumption, FS_Subset DEF Thread, ReviewInv, ResearchTypes
<1>4. Cardinality(Thread(c, i)) \in Nat /\ Cardinality(done) \in Nat /\ k \in Nat
  BY <1>3, FS_CardinalityType DEF Cursor
<1>5. done = Thread(c, i) /\ done # {}
  <2>1. k = Cardinality(Thread(c, i)) /\ k >= 1 /\ k <= Cardinality(done)
    BY <1>1, <1>2, <1>4 DEF Covers, Cursor
  <2>2. done = Thread(c, i)
    BY <1>3, <1>4, <2>1, FS_Subset
  <2> QED
    BY <1>3, <2>1, <2>2, FS_EmptySet
<1>6. Founded(v)
  <2>1. v \in Reviews
    BY <1>3, <1>4, ReviewAssumption DEF HandIn, Reviews, Known
  <2>2. Collected(c, i)
    BY <1>5 DEF Collected
  <2> QED
    BY <1>1, <1>2, <1>5, <2>1, <2>2 DEF Founded
<1> HIDE DEF done
<1>7. Founded(v)' /\ Kept(v)'
  BY <1>1, <1>6 DEF Founded, Collected, Covers, Thread, Kept, Names
<1>8. \A j \in 1..Len(log) : Founded(log[j])' /\ (Superseded(j) => Superseded(j)')
  BY <1>1 DEF ReviewInv, Founded, Collected, Covers, Thread, Superseded
<1> QED
  BY <1>1, <1>7, <1>8 DEF ReviewInv, ResearchTypes, ReviewTypes

LEMMA WriteReviewStep ==
    ASSUME ReviewInv, WriteReview, NEW v, v = writing
    PROVE  ReviewInv'
<1> DEFINE n == Len(log) + 1
<1>1. /\ log' = Append(log, v) /\ onFile' = [onFile EXCEPT ![v.thread] = n]
      /\ writing' = NoReview
      /\ UNCHANGED <<now, at, corpus, reads, history, guard>>
      /\ Founded(v) /\ Kept(v) /\ log \in Seq(Reviews)
  BY DEF WriteReview, researchVars, ReviewInv, ReviewTypes
<1>2. v \in Reviews /\ v.thread \in SUBSET Messages
  BY <1>1 DEF Founded, Reviews
<1>3. /\ log' \in Seq(Reviews) /\ Len(log') = n /\ log'[n] = v /\ n \in Nat
      /\ \A j \in 1..Len(log) : log'[j] = log[j]
  BY <1>1, <1>2
<1>4. ReviewTypes'
  BY <1>1, <1>2, <1>3 DEF ReviewInv, ReviewTypes
<1>5. ASSUME NEW w, Founded(w) PROVE Founded(w)'
  BY <1>1, <1>5 DEF Founded, Collected, Covers, Thread
<1>6. ASSUME NEW k \in 1..Len(log)
      PROVE  onFile'[log[k].thread] = k \/ (k \in history /\ Superseded(k)')
  <2>1. CASE Superseded(k) /\ k \in history
    BY <1>3, <2>1 DEF Superseded
  <2>2. CASE onFile[log[k].thread] = k /\ log[k].thread # v.thread
    BY <1>1, <1>2, <2>2 DEF ReviewInv, ReviewTypes
  <2>3. CASE onFile[log[k].thread] = k /\ log[k].thread = v.thread
    <3>1. v.supersedes = k /\ k \in history
      BY <1>1, <2>3 DEF Kept, Names
    <3> QED
      BY <1>3, <3>1 DEF Superseded
  <2> QED
    BY <2>1, <2>2, <2>3 DEF ReviewInv
<1>7. onFile'[v.thread] = n
  BY <1>1, <1>2 DEF ReviewInv, ReviewTypes
<1>8. ASSUME NEW k \in 1..Len(log')
      PROVE  Founded(log[k])' /\ (onFile[log[k].thread] = k \/ (k \in history /\ Superseded(k)))'
  <2>1. CASE k = n
    <3>1. Founded(v)'
      BY <1>1, <1>5
    <3> QED
      BY <1>3, <1>7, <2>1, <3>1
  <2>2. CASE k \in 1..Len(log)
    <3>1. Founded(log[k]) /\ log'[k] = log[k]
      BY <1>3, <2>2 DEF ReviewInv
    <3>2. Founded(log[k])'
      BY <1>5, <3>1
    <3> QED
      BY <1>1, <1>6, <2>2, <3>1, <3>2
  <2> QED
    BY <1>3, <2>1, <2>2
<1>9. ResearchTypes'
  BY <1>1 DEF ReviewInv, ResearchTypes
<1> QED
  BY <1>1, <1>4, <1>8, <1>9 DEF ReviewInv

LEMMA ReviewStep ==
    ASSUME ReviewInv, ReviewNext
    PROVE  ReviewInv'
<1>1. CASE \E c \in Corpora, i \in Ids, doubts \in Questions :
             \E k \in 1..Cursor(c, i), old \in Known(Thread(c, i)) :
               KeepPrevious(HandIn(c, i, k, doubts, old))
  BY <1>1, KeepPreviousStep
<1>2. CASE WriteReview
  BY <1>2, WriteReviewStep
<1>3. CASE DieRecording
  BY <1>3 DEF DieRecording, researchVars, ReviewInv, ResearchTypes, ReviewTypes, Founded,
     Collected, Covers, Thread, Superseded
<1>4. CASE \E k \in 1..Len(log), c \in Corpora : BuildGuard(k, c)
  <2>1. PICK k \in 1..Len(log), c \in Corpora : BuildGuard(k, c)
    BY <1>4
  <2>2. /\ guard' = [at |-> now, review |-> k, corpus |-> c]
        /\ UNCHANGED <<now, at, corpus, reads, log, onFile, history, writing>>
    BY <2>1 DEF BuildGuard, researchVars
  <2> QED
    BY <2>1, <2>2 DEF ReviewInv, ResearchTypes, ReviewTypes, Founded, Collected, Covers,
       Thread, Superseded, Kept, Names
<1> QED
  BY <1>1, <1>2, <1>3, <1>4 DEF ReviewNext

LEMMA StutterStep ==
    ASSUME ReviewInv, UNCHANGED vars
    PROVE  ReviewInv'
  BY DEF vars, researchVars, reviewVars, ReviewInv, ResearchTypes, ReviewTypes, Founded,
     Collected, Covers, Thread, Superseded, Kept, Names

\* The inductive invariant: every review of the log was recorded of all of a
\* collected thread, and one that is no longer on file is in the history and was
\* named by the one that took its place.
THEOREM ReviewInvariant == Spec => []ReviewInv
<1>1. Init => ReviewInv
  BY ReviewInit
<1>2. ReviewInv /\ [Next]_vars => ReviewInv'
  BY ResearchStep, ReviewStep, StutterStep DEF Next
<1> QED
  BY <1>1, <1>2, PTL DEF Spec

\* A permission to archive rests on a thread that was read to its end and on
\* last words that close each obligation the message is about, read lately
\* (ArchiveGuard.__call__, reconcile).
THEOREM PassesRestOnWords == Spec => []PassIsFounded
  BY ReviewInvariant, PassesAreFounded, PTL

\* A recorded question keeps its messages until a review by somebody who has
\* read it takes its place, and no recorded review is lost (record_review).
THEOREM ObjectionsStand == Spec => []ObjectionStands
  BY ReviewInvariant, QuestionsStand, PTL
=============================================================================
