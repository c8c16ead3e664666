----------------------------- MODULE ExploreLists -----------------------------
(***************************************************************************)
(* The best tweets of a category (ExploreJobsService, its processor and    *)
(* its controller): a sorted set in Redis that an hourly job recomputes.   *)
(*                                                                         *)
(* The job scores anew what is in the set, then goes through the tweets    *)
(* that were posted or touched lately, latest first, page by page: a page  *)
(* is an offset into an order that changes with every like.  Each batch is *)
(* written by one pipeline and trimmed by another.  The commands of a      *)
(* pipeline that fail are errors among its results, which nobody looks at; *)
(* a page that throws is passed over; anything else ends the attempt, and  *)
(* Bull starts the job from its beginning.  One worker runs the jobs.      *)
(*                                                                         *)
(* Abstractions.  A score is a small number, 0 when it is below the        *)
(* threshold; time and engagement change it.  There is one category: the   *)
(* others are lists of their own, in the same pipelines.                   *)
(***************************************************************************)
EXTENDS Integers, Sequences, FiniteSets, SequencesExt

CONSTANTS
    Tweets,
    Percent,    \* tc.percentage: how much of a tweet is about the category
    MaxScore,   \* bound of the scores
    MaxSize,    \* MAX_CATEGORY_SIZE
    BatchSize,  \* batch_size
    MaxChanges  \* bound of what happens to the tweets

\* What the constants must be; Browsing assumes it.
PercentOfTweets == Percent \in [Tweets -> 1..100]
Sizes == {MaxSize, BatchSize} \subseteq Nat \ {0} /\ {MaxScore, MaxChanges} \subseteq Nat
FinitelyMany == IsFiniteSet(Tweets)

VARIABLES
    live,       \* rows of tweets
    score,      \* what calculateScore makes of each
    recent,     \* those in the window of the job, latest updated_at first
    list,       \* explore:category:<id>: the scores of its members, 0 for no member
    job,        \* what the running job has in hand
    clearing,   \* a request to clear has read the keys
    changes,
    scored,     \* history: members whose score the last job has written
    handled,    \* history: tweets of the pages it has written
    steady,     \* history: tweets that stayed in the window, untouched, since it was counted
    same,       \* history: tweets whose score is what it was when the job began
    moves,      \* history: changes to the window since it was counted
    clean,      \* history: nothing failed or was cleared since the job began, and
                \* the list was not too long then
    lowered     \* history: a page has lowered the score of a member

tweets == <<live, score, recent>>
history == <<scored, handled, steady, same, moves, clean, lowered>>
vars == <<tweets, list, job, clearing, changes, history>>

-----------------------------------------------------------------------------
Idle == [at |-> "idle"]
Scores == 0..MaxScore
Listed == {t \in Tweets : list[t] # 0}

\* ZREVRANGE key 0 n-1: n members with the highest scores.
Tops(l, n) ==
    LET members == {t \in Tweets : l[t] # 0} IN
    {T \in SUBSET members :
        /\ Cardinality(T) = n \/ (T = members /\ Cardinality(members) <= n)
        /\ \A t \in T : \A o \in members \ T : l[t] >= l[o]}

\* updateRedisCategoryScores: score * (percentage / 100).
Weighted(t, s) == (s * Percent[t]) \div 100

At(at) == job.at = at

\* What a job has in hand: the top it has read, and which of it was found, with
\* what scores; the page, how many tweets it has done of how many, and a batch.
Job(at) == [at |-> at, top |-> {}, found |-> {}, scores |-> [t \in Tweets |-> 0],
            page |-> 0, done |-> 0, total |-> 0, batch |-> <<>>]

TypeOK ==
    /\ live \subseteq Tweets /\ score \in [Tweets -> Scores] /\ list \in [Tweets -> Scores]
    /\ ToSet(recent) \subseteq live /\ IsInjective(recent)
    /\ At("idle") \/
        /\ job.at \in {"read", "find", "write", "trim", "count", "fetch", "put", "trimPage"}
        /\ job.top \subseteq Tweets /\ job.found \subseteq job.top
        /\ job.scores \in [Tweets -> Scores]
        /\ job.page \in Nat /\ job.done \in Nat /\ job.total \in Nat
        /\ IsInjective(job.batch) /\ Len(job.batch) <= BatchSize
    /\ clearing \in BOOLEAN /\ changes \in 0..MaxChanges
    /\ scored \cup handled \cup steady \cup same \subseteq Tweets
    /\ moves \in Nat /\ clean \in BOOLEAN /\ lowered \in BOOLEAN

Init ==
    /\ live = Tweets /\ score \in [Tweets -> Scores]
    /\ recent \in SetToSeqs(Tweets)
    /\ list = [t \in Tweets |-> 0] /\ job = Idle
    /\ clearing = FALSE /\ changes = 0
    /\ scored = {} /\ handled = {} /\ steady = {} /\ same = {}
    /\ moves = 0 /\ clean = TRUE /\ lowered = FALSE

-----------------------------------------------------------------------------
(* What happens to the tweets *)

Happens(new) ==
    /\ changes < MaxChanges /\ changes' = changes + 1
    /\ recent' = new
    /\ moves' = IF new # recent THEN moves + 1 ELSE moves
    /\ UNCHANGED <<list, job, clearing, scored, handled, clean, lowered>>

\* The window without one of its tweets, if it is there.
Without(t) ==
    LET places == {i \in DOMAIN recent : recent[i] = t}
    IN  IF places = {} THEN recent ELSE RemoveAt(recent, CHOOSE i \in places : TRUE)

\* A tweet is liked, answered or edited, and comes first.
Touch(t, s) ==
    /\ t \in live /\ s \in Scores
    /\ Happens(<<t>> \o Without(t))
    /\ score' = [score EXCEPT ![t] = s]
    /\ steady' = steady \ {t}
    /\ same' = IF s = score[t] THEN same ELSE same \ {t}
    /\ UNCHANGED live

Delete(t) ==
    /\ t \in live
    /\ live' = live \ {t}
    /\ Happens(Without(t))
    /\ steady' = steady \ {t} /\ same' = same \ {t}
    /\ UNCHANGED score

\* The longest untouched tweet leaves the window (since_date is the time of the query).
LeaveWindow ==
    /\ recent # <<>>
    /\ Happens(Front(recent))
    /\ steady' = steady \ {Last(recent)}
    /\ UNCHANGED <<live, score, same>>

\* A tweet grows older: nothing in its row changes.
Age(t) ==
    /\ t \in live /\ score[t] > 0
    /\ Happens(recent)
    /\ score' = [score EXCEPT ![t] = score[t] - 1]
    /\ same' = same \ {t}
    /\ UNCHANGED <<live, steady>>

-----------------------------------------------------------------------------
(* Step 1: what is in the list is scored anew *)

work == <<tweets, clearing, changes>>
record == <<scored, handled, steady, same, moves, lowered>>

\* The cron or the controller; a job that is queued meanwhile comes later, and a
\* second attempt is another job.
Start ==
    /\ At("idle")
    /\ job' = Job("read")
    /\ scored' = {} /\ handled' = {} /\ steady' = {} /\ same' = live
    /\ moves' = 0 /\ clean' = (Cardinality(Listed) <= MaxSize) /\ lowered' = FALSE
    /\ UNCHANGED <<work, list>>

\* getAllActiveCategoryIds and the first pipeline: the top of the list.
ReadTop ==
    /\ At("read")
    /\ \E T \in Tops(list, MaxSize) :
        job' = IF T = {} THEN Job("count") ELSE [job EXCEPT !.at = "find", !.top = T]
    /\ UNCHANGED <<work, list, history>>

\* When KEYS or the pipeline fails the step is left out.
ReadNothing ==
    /\ At("read") /\ job' = Job("count")
    /\ clean' = FALSE
    /\ UNCHANGED <<work, list, record>>

\* fetchTweetsByIds: a query that fails is taken for one that finds nothing.
FetchTop ==
    /\ At("find")
    /\ \E found \in {job.top \cap live, {}} :
        job' = [job EXCEPT !.at = "write", !.found = found, !.scores = score]
    /\ UNCHANGED <<work, list, history>>

\* Mutant of Rescored: what is not found is passed over.
RescoredIfFound(t) == IF t \in job.found THEN job.scores[t] ELSE list[t]

\* A member that is not found or scores too low is removed.  category_id is a
\* number in the row and a string in the key: no percentage is ever found here,
\* and the score counts in full.
Rescored(t) ==
    IF t \in job.found THEN job.scores[t] ELSE IF t \in job.top THEN 0 ELSE list[t]

\* The second pipeline.
WriteTop ==
    /\ At("write") /\ job' = Job("trim")
    /\ list' = [t \in Tweets |-> Rescored(t)]
    /\ scored' = job.found
    /\ UNCHANGED <<work, handled, steady, same, moves, clean, lowered>>

\* Mutant of Kept: ranks are counted from the best.
KeptWorst(T) == [t \in Tweets |-> IF t \in T THEN 0 ELSE list[t]]

\* ZREMRANGEBYRANK key 0 -(MAX_CATEGORY_SIZE + 1)
Kept(T) == [t \in Tweets |-> IF t \in T THEN list[t] ELSE 0]

TrimCategoryZSets == \E T \in Tops(list, MaxSize) : list' = Kept(T)

TrimTop ==
    /\ At("trim") /\ job' = Job("count")
    /\ TrimCategoryZSets
    /\ UNCHANGED <<work, history>>

-----------------------------------------------------------------------------
(* Step 2: the tweets in the window, page by page *)

\* countTweetsForRecalculation
Count ==
    /\ At("count")
    /\ job' = IF recent = <<>> THEN Idle
              ELSE [Job("fetch") EXCEPT !.total = Len(recent)]
    /\ steady' = ToSet(recent) /\ moves' = 0
    /\ UNCHANGED <<work, list, scored, handled, same, clean, lowered>>

\* Mutant of Skip: the first page is left out.
SkipOne == (job.page + 1) * BatchSize

Skip == job.page * BatchSize

\* fetchTweetsForRecalculation, calculateScore
FetchPage ==
    /\ At("fetch")
    /\ LET batch == SubSeq(recent, Skip + 1, IF Skip + BatchSize < Len(recent)
                                            THEN Skip + BatchSize ELSE Len(recent))
       IN  job' = IF batch = <<>> THEN Idle
                  ELSE [job EXCEPT !.at = "put", !.batch = batch, !.scores = score]
    /\ UNCHANGED <<work, list, history>>

\* processed_count decides whether there is another page.
Turned(n) ==
    IF job.done + n >= job.total THEN Idle
    ELSE [Job("fetch") EXCEPT !.page = job.page + 1, !.done = job.done + n, !.total = job.total]

Good == {t \in ToSet(job.batch) : Weighted(t, job.scores[t]) > 0}

\* updateRedisCategoryScores: what scores too low is not written, and stays.
UpdateScores ==
    /\ At("put")
    /\ list' = [t \in Tweets |-> IF t \in Good THEN Weighted(t, job.scores[t]) ELSE list[t]]
    /\ job' = IF Good = {} THEN Turned(Len(job.batch)) ELSE [job EXCEPT !.at = "trimPage"]
    /\ scored' = scored \cup Good /\ handled' = handled \cup ToSet(job.batch)
    /\ lowered' = (lowered \/ \E t \in Good : list'[t] < list[t])
    /\ UNCHANGED <<work, steady, same, moves, clean>>

TrimPage ==
    /\ At("trimPage") /\ job' = Turned(Len(job.batch))
    /\ TrimCategoryZSets
    /\ UNCHANGED <<work, history>>

\* The second or the third pipeline of a step is lost: the job goes on.
PipelineLost ==
    /\ \/ At("write") /\ job' = Job("trim")
       \/ At("trim") /\ job' = Job("count")
       \/ At("put") /\ Good # {} /\ job' = [job EXCEPT !.at = "trimPage"]
       \/ At("trimPage") /\ job' = Turned(Len(job.batch))
    /\ clean' = FALSE
    /\ UNCHANGED <<work, list, record>>

\* A page that throws is passed over, and does not count.
PageFails ==
    /\ job.at \in {"put", "trimPage"}
    /\ job' = Turned(0)
    /\ clean' = FALSE
    /\ UNCHANGED <<work, list, record>>

\* Any other failure, or a stop of the process, ends the attempt.
JobFails ==
    /\ ~At("idle") /\ job' = Idle
    /\ clean' = FALSE
    /\ UNCHANGED <<work, list, record>>

-----------------------------------------------------------------------------
(* The list goes *)

\* clearScoreRecalculation: KEYS, then DEL.
ClearKeys ==
    /\ ~clearing /\ Listed # {} /\ clearing' = TRUE
    /\ UNCHANGED <<tweets, list, job, changes, history>>

Gone ==
    /\ list' = [t \in Tweets |-> 0] /\ clean' = FALSE
    /\ UNCHANGED <<tweets, job, changes, record>>

ClearDelete == clearing /\ clearing' = FALSE /\ Gone

\* Two days without a job.
Expire == At("idle") /\ Listed # {} /\ Gone /\ UNCHANGED clearing

Next ==
    \/ \E t \in Tweets : Delete(t) \/ Age(t) \/ \E s \in Scores : Touch(t, s)
    \/ LeaveWindow
    \/ Start \/ ReadTop \/ ReadNothing \/ FetchTop \/ WriteTop \/ TrimTop
    \/ Count \/ FetchPage \/ UpdateScores \/ TrimPage \/ PipelineLost \/ PageFails \/ JobFails
    \/ ClearKeys \/ ClearDelete \/ Expire

Spec == Init /\ [][Next]_vars

-----------------------------------------------------------------------------
(* Properties.  They say what a job leaves behind when it has ended. *)

Ended == At("idle") /\ clean

\* recalculateExistingTopTweets: after a job the list holds nothing but what
\* that job has read and scored, so that a tweet that was deleted before it
\* is gone, unless something failed or an earlier failure had left the list too
\* long: what lies below its top is never looked at.
NothingStale == Ended => Listed \subseteq scored

\* handleRecalculateExploreScores: pages are offsets into an order that
\* changes, and their number is fixed at the start; yet of the tweets that
\* nobody touches a job misses at most one for every tweet that moves.
MissesOnePerMove == Ended => Cardinality(steady \ handled) <= moves

\* trimCategoryZSets after each page: the list is never too long after a job,
\* and of the tweets it has gone through none is left out for a worse one,
\* although trims go by scores of which some are yet to be written, unless a
\* page has lowered one.
BestListed == Ended =>
    /\ Cardinality(Listed) <= MaxSize
    /\ lowered \/ \A t \in (handled \cap same) \ Listed :
        LET s == Weighted(t, score[t]) IN
        s > 0 => Cardinality(Listed) = MaxSize /\ \A o \in Listed : list[o] >= s

\* Both: after a job a list is the best of what that job has scored.
ListsSound == NothingStale /\ BestListed
=============================================================================
