-------------------------------- MODULE News --------------------------------
(* The news poll: fetch, skip what is stored, add and announce the rest, flush, *)
(* commit. Two pollers are an overslept leader and its successor; an article   *)
(* is its content id, the primary key of news_articles.                        *)
EXTENDS Naturals, Sequences, FiniteSets, FiniteSetsExt, SequencesExt

CONSTANTS Pollers, Articles,
          MaxBatch,      \* articles of one fetch
          MaxPolls       \* bound
ASSUME NewsConstants == IsFiniteSet(Pollers)

VARIABLES
    poll,        \* poller -> Asleep, or its transaction: what is left, what was added
    stored,      \* committed ids
    polls,
    announced,   \* history: NewsReceived events published for an article
    undone       \* history: those whose transaction did not commit
newsVars == <<poll, stored, polls, announced, undone>>

Asleep == [at |-> "asleep"]
Count(a, seq) == Cardinality({i \in DOMAIN seq : seq[i] = a})
NewsInit ==
    /\ poll = [p \in Pollers |-> Asleep] /\ stored = {} /\ polls = 0
    /\ announced = [a \in Articles |-> 0] /\ undone = announced

(* provider.fetch: anything, an article twice included (the simulated provider *)
(* draws its headlines independently).                                         *)
FetchNews(p) ==
    /\ poll[p] = Asleep /\ polls < MaxPolls /\ polls' = polls + 1
    /\ \E n \in 1 .. MaxBatch : \E batch \in [1 .. n -> Articles] :
         poll' = [poll EXCEPT ![p] = [at |-> "ingest", rest |-> batch, added |-> <<>>]]
    /\ UNCHANGED <<stored, announced, undone>>

IngestAnnouncingAll(p) ==
    /\ poll[p].at = "ingest" /\ poll[p].rest # <<>>
    /\ LET a == Head(poll[p].rest)
       IN  /\ poll' = [poll EXCEPT ![p].rest = Tail(@), ![p].added = IF a \notin stored THEN Append(@, a) ELSE @]
           /\ announced' = [announced EXCEPT ![a] = @ + 1]
    /\ UNCHANGED <<stored, polls, undone>>

(* One article: session.get sees committed rows, not those this session has    *)
(* pending (no autoflush). The event goes out before anything is written.      *)
Ingest(p) ==
    /\ poll[p].at = "ingest" /\ poll[p].rest # <<>>
    /\ LET a == Head(poll[p].rest)
           isNew == a \notin stored
       IN  /\ poll' = [poll EXCEPT ![p].rest = Tail(@), ![p].added = IF isNew THEN Append(@, a) ELSE @]
           /\ announced' = IF isNew THEN [announced EXCEPT ![a] = @ + 1] ELSE announced
    /\ UNCHANGED <<stored, polls, undone>>

Insertable(p) ==
    /\ IsInjective(poll[p].added)
    /\ Range(poll[p].added) \cap stored = {}
(* flush: the INSERTs wait for the rows another transaction has inserted.      *)
FlushNews(p) ==
    /\ poll[p].at = "ingest" /\ poll[p].rest = <<>> /\ Insertable(p)
    /\ \A q \in Pollers : poll[q].at = "flushed" => Range(poll[q].added) \cap Range(poll[p].added) = {}
    /\ poll' = [poll EXCEPT ![p].at = "flushed"]
    /\ UNCHANGED <<stored, polls, announced, undone>>

CommitNews(p) ==
    /\ poll[p].at = "flushed"
    /\ stored' = stored \cup Range(poll[p].added)
    /\ poll' = [poll EXCEPT ![p] = Asleep]
    /\ UNCHANGED <<polls, announced, undone>>

(* A duplicate key, a deadlock of two flushes, a lost connection or a crash: the *)
(* transaction is rolled back and the supervised loop starts again.            *)
PollFails(p) ==
    /\ poll[p] # Asleep
    /\ undone' = [a \in Articles |-> undone[a] + Count(a, poll[p].added)]
    /\ poll' = [poll EXCEPT ![p] = Asleep]
    /\ UNCHANGED <<stored, polls, announced>>

NewsNext ==
    \E p \in Pollers : FetchNews(p) \/ Ingest(p) \/ FlushNews(p) \/ CommitNews(p) \/ PollFails(p)
NewsSpec == NewsInit /\ [][NewsNext]_newsVars

-----------------------------------------------------------------------------
(* Apart from announcements whose transaction failed or is still open, an       *)
(* article is announced once if it is stored and else not at all: overlapping   *)
(* polls and batches that repeat an article never announce a stored one twice.  *)
Pending(a) == [p \in Pollers |-> IF poll[p] = Asleep THEN 0 ELSE Count(a, poll[p].added)]
AnnouncedAsStored ==
    \A a \in Articles :
        announced[a] = undone[a] + (IF a \in stored THEN 1 ELSE 0)
                         + MapThenSumSet(LAMBDA p : Pending(a)[p], Pollers)
=============================================================================
