--------------------------- MODULE CorpusResearch ---------------------------
(***************************************************************************)
(* Reading the retained correspondence (core/corpus_research.py): a corpus *)
(* lists the messages a complete inventory saw, grouped into threads; a    *)
(* unit of research reads some of them and stops at its limits, and the    *)
(* next unit goes on where the manifest says.                              *)
(*                                                                         *)
(* Time passes in ticks of the 24 hours that evidence stays fresh; a unit  *)
(* takes at most ten minutes.  A unit touches its own directory only, and  *)
(* whoever looks at the manifest during it finds what it would find had    *)
(* the unit stopped there, so other steps are taken between units.         *)
(***************************************************************************)
EXTENDS Naturals, Sequences, SequencesExt, FiniteSets

CONSTANTS
    Messages,     \* message identities
    Talks,        \* conversations, in the order of research_priority
    TalkOf,       \* the conversation a message belongs to
    Rank,         \* the order of message ids
    Standing,     \* messages that are there from the start
    Unreadable,   \* messages the provider can never read
    MaxCorpora,   \* bound: corpora, each with a research directory of its own
    ThreadLimit,  \* thread_limit
    MessageLimit, \* message_limit
    MaxTime,      \* bound: the last tick
    MaxFaults     \* bound: reads that fail although the message is readable

Ids == DOMAIN Talks
Corpora == 1..MaxCorpora

ASSUME ResearchAssumption ==
    /\ IsFiniteSet(Messages)
    /\ TalkOf \in [Messages -> Range(Talks)]
    /\ Rank \in [Messages -> Nat]
    /\ \A m, n \in Messages : Rank[m] = Rank[n] => m = n
    /\ Standing \subseteq Messages /\ Unreadable \subseteq Messages
    /\ ThreadLimit \in Nat \ {0} /\ MessageLimit \in Nat \ {0}
    /\ MaxTime \in Nat \ {0} /\ MaxFaults \in Nat /\ MaxCorpora \in Nat

VARIABLES
    now,     \* the current tick
    at,      \* when each message arrived, 0: not yet
    corpus,  \* the messages each corpus lists, {}: not built
    reads,   \* when each message was read for each corpus, 0: not yet
    next,    \* next_thread of each manifest
    unit,    \* the unit running on each corpus
    faults   \* reads that failed although they could succeed

researchVars == <<now, at, corpus, reads, next, unit, faults>>

\* todo: the threads still to be visited; tried: attempted; left: reads left
\* in the first of them.  The unit is running while todo is not empty.
Idle == [todo |-> <<>>, tried |-> 0, left |-> 0]

ResearchInit ==
    /\ now = 1
    /\ at = [m \in Messages |-> IF m \in Standing THEN 1 ELSE 0]
    /\ corpus = [c \in Corpora |-> {}]
    /\ reads = [c \in Corpora |-> [m \in Messages |-> 0]]
    /\ next = [c \in Corpora |-> 1]
    /\ unit = [c \in Corpora |-> Idle]
    /\ faults = 0
-----------------------------------------------------------------------------
\* A thread is the messages of a conversation the corpus lists, by date.  Its
\* id is the hash of exactly these messages.
Thread(c, i) == {m \in corpus[c] : TalkOf[m] = Talks[i]}
Earlier(m, n) == at[m] < at[n] \/ (at[m] = at[n] /\ Rank[m] < Rank[n])
\* Where a message stands in its thread.
Place(m, S) == Cardinality({n \in S : n = m \/ Earlier(n, m)})

\* next_message: messages are read in the order of the thread.
Cursor(c, i)    == Cardinality({m \in Thread(c, i) : reads[c][m] > 0})
Collected(c, i) == \A m \in Thread(c, i) : reads[c][m] > 0
Due(c, i)       ==
    CHOOSE m \in Thread(c, i) : Place(m, Thread(c, i)) = Cursor(c, i) + 1

Quiet == \A c \in Corpora : unit[c] = Idle

Tick ==
    /\ now < MaxTime /\ Quiet
    /\ now' = now + 1
    /\ UNCHANGED <<at, corpus, reads, next, unit, faults>>

Arrive(m) ==
    /\ at[m] = 0 /\ Quiet
    /\ at' = [at EXCEPT ![m] = now]
    /\ UNCHANGED <<now, corpus, reads, next, unit, faults>>

\* build_corpus over a complete inventory of what has arrived.  Corpora are
\* numbered as they are built; one that lists the same messages is the same.
BuildCorpus(c) ==
    LET S == {m \in Messages : at[m] > 0}
    IN  /\ corpus[c] = {} /\ S # {} /\ Quiet
        /\ \A d \in 1..c - 1 : corpus[d] \notin {{}, S}
        /\ corpus' = [corpus EXCEPT ![c] = S]
        /\ UNCHANGED <<now, at, reads, next, unit, faults>>
-----------------------------------------------------------------------------
(* One unit.  The manifest is persisted after every read and every failure.*)

Following(i) == IF i = Len(Talks) THEN 1 ELSE i + 1

\* Where the unit is after it is done with the first thread of todo.
Visit(todo, tried) ==
    IF todo = <<>> \/ tried = ThreadLimit THEN Idle
    ELSE [todo |-> todo, tried |-> tried + 1, left |-> MessageLimit]

\* The rotation starts at next_thread and skips collected threads.
Begin(c) ==
    LET order == [k \in Ids |-> ((next[c] + k - 2) % Len(Talks)) + 1]
        open  == SelectSeq(order, LAMBDA i : ~Collected(c, i))
    IN  /\ Quiet /\ open # <<>>
        /\ unit' = [unit EXCEPT ![c] = Visit(open, 0)]
        /\ UNCHANGED <<now, at, corpus, reads, next, faults>>

Reading(c, i) ==
    /\ unit[c].todo # <<>> /\ Head(unit[c].todo) = i

\* A long thread keeps its turn: the unit ends and the next one resumes it.
Read(c, i) ==
    /\ Reading(c, i) /\ Due(c, i) \notin Unreadable
    /\ reads' = [reads EXCEPT ![c][Due(c, i)] = now]
    /\ IF Cursor(c, i) + 1 = Cardinality(Thread(c, i))
       THEN /\ next' = [next EXCEPT ![c] = Following(i)]
            /\ unit' = [unit EXCEPT ![c] =
                            Visit(Tail(unit[c].todo), unit[c].tried)]
       ELSE /\ next' = [next EXCEPT ![c] = i]
            /\ unit' = [unit EXCEPT ![c] =
                            IF @.left = 1 THEN Idle
                            ELSE [@ EXCEPT !.left = @ - 1]]
    /\ UNCHANGED <<now, at, corpus, faults>>

\* Slip: a failed read keeps its thread in front.
FailInPlace(c, i) ==
    /\ Reading(c, i)
    /\ IF Due(c, i) \in Unreadable THEN faults' = faults
       ELSE faults < MaxFaults /\ faults' = faults + 1
    /\ next' = [next EXCEPT ![c] = i]
    /\ unit' = [unit EXCEPT ![c] = Visit(Tail(unit[c].todo), unit[c].tried)]
    /\ UNCHANGED <<now, at, corpus, reads>>

\* A failed read is noted; the thread keeps its cursor and loses its turn.
Fail(c, i) ==
    /\ Reading(c, i)
    /\ IF Due(c, i) \in Unreadable THEN faults' = faults
       ELSE faults < MaxFaults /\ faults' = faults + 1
    /\ next' = [next EXCEPT ![c] = Following(i)]
    /\ unit' = [unit EXCEPT ![c] = Visit(Tail(unit[c].todo), unit[c].tried)]
    /\ UNCHANGED <<now, at, corpus, reads>>

\* The ceiling is reached, the process dies, or an exception of another type
\* escapes: what was persisted stands.
Stop(c) ==
    /\ unit[c] # Idle
    /\ unit' = [unit EXCEPT ![c] = Idle]
    /\ UNCHANGED <<now, at, corpus, reads, next, faults>>

Attempt(c, i) == Read(c, i) \/ Fail(c, i)

ResearchNext ==
    \/ Tick
    \/ \E m \in Messages : Arrive(m)
    \/ \E c \in Corpora : BuildCorpus(c) \/ Begin(c) \/ Stop(c)
    \/ \E c \in Corpora, i \in Ids : Attempt(c, i)
=============================================================================
