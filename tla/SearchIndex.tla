----------------------------- MODULE SearchIndex -----------------------------
(***************************************************************************)
(* How the search index follows the tweets table.  A handler commits and   *)
(* then queues a Bull job (queueJob, which swallows a failure); a worker   *)
(* reads the row and writes the document (EsSyncProcessor).  The trigger   *)
(* on tweets logs every deleted row, cascaded ones included, and a cron    *)
(* queues the deletion of their documents (DeletedTweetsCleanupService).   *)
(*                                                                         *)
(* The version of a row counts the changes that are announced to the index *)
(* (edits, likes, reposts).  Views and the counts that replies and quotes  *)
(* change are not announced and reach it with the next announced change.   *)
(* Bull runs one worker per job name and any of them takes any job, so     *)
(* that jobs overlap; retries come after a delay, so that they run in any  *)
(* order.                                                                  *)
(***************************************************************************)
EXTENDS Integers, FiniteSets

CONSTANTS
    Tweets,
    Parent,     \* what each tweet replies to or quotes, or NoTweet
    Seed,       \* tweets posted, and indexed, before the behaviour starts
    Owned,      \* tweets of the account that may be deleted
    MaxRequests,\* bound on the handlers that run, numbered as they begin
    MaxJobs,    \* bound on the jobs in the queue
    Attempts,   \* attempts of a job
    BatchSize,  \* rows of the log that one run of the cron takes
    MaxVersion, \* bound on the changes of a tweet
    NoTweet

\* What the constants must be; TweetStore assumes it.
ParentIsFunction == Parent \in [Tweets -> Tweets \cup {NoTweet}]
NoTweetIsNoTweet == NoTweet \notin Tweets
OwnedAreTweets == Owned \subseteq Tweets
SeedIsThread == Seed \subseteq Tweets /\ \A t \in Seed : Parent[t] \in Seed \cup {NoTweet}
SomeRequests == MaxRequests \in Nat
SomeJobs == MaxJobs \in Nat
SomeAttempts == Attempts \in Nat \ {0}
SomeBatch == BatchSize \in Nat \ {0}
SomeVersions == MaxVersion \in Nat \ {0}

VARIABLES
    row,        \* version of each row of tweets, 0 when there is none
    born,       \* ids ever inserted
    owner,      \* whether the row of the account that owns Owned exists
    log,        \* deleted_tweets_log
    doc,        \* version shown by each document, 0 when there is none
    docParent,  \* tweets whose document has a parent_id
    task,       \* what each running handler has still to do
    begun,      \* how many handlers have begun
    job,        \* the queue
    cron,       \* the run of processDeletedTweets
    astray      \* history: a failure or a race may have left the document wrong,
                \* and no job has put it right since

db == <<row, born, owner, log>>
index == <<doc, docParent>>
requests == <<task, begun>>
vars == <<db, index, requests, job, cron, astray>>

-----------------------------------------------------------------------------
Versions == 0..MaxVersion
Handlers == 1..MaxRequests
Jobs == 1..MaxJobs
Idle == [op |-> "none"]
Tasks == [op: {"index", "delete", "purge", "undoRepost"}, tweet: Tweets, parent: BOOLEAN]

\* parent: whether the job was given a parent_id, by the handler that inserts the
\* tweet; seen and old: what it has read so far, of the row and of the document.
JobStates == [kind: {"index", "delete", "purge"}, tweets: SUBSET Tweets, parent: BOOLEAN,
              at: {"waiting", "read", "ready"}, seen: Versions, old: BOOLEAN, left: 1..Attempts]
Free == [kind |-> "none"]
NewJob(kind, T, p) == [kind |-> kind, tweets |-> T, parent |-> p, at |-> "waiting",
                       seen |-> 0, old |-> FALSE, left |-> Attempts]
CronStates == [at: {"found", "queued"}, batch: SUBSET Tweets]

IsChild(t) == Parent[t] # NoTweet
Live == {t \in Tweets : row[t] > 0}
At(j, kind, at) == job[j] # Free /\ job[j].kind = kind /\ job[j].at = at

\* The rows that go with those of S, as in TweetEngagement.
Cascade(S) ==
    {t \in Live : \A D \in SUBSET Live :
        (S \cap Live \subseteq D /\ \A c \in Live : Parent[c] \in D => c \in D) => t \in D}

\* Types; in particular a worker past its first read has found the row.
TypeOK ==
    /\ row \in [Tweets -> Versions]
    /\ born \subseteq Tweets /\ Live \subseteq born /\ log \subseteq born
    /\ owner \in BOOLEAN
    /\ doc \in [Tweets -> Versions]
    /\ docParent \subseteq {t \in Tweets : IsChild(t) /\ doc[t] > 0}
    /\ task \in [Handlers -> Tasks \cup {Idle}]
    /\ begun \in 0..MaxRequests
    /\ job \in [Jobs -> JobStates \cup {Free}]
    /\ \A j \in Jobs : job[j] # Free /\ job[j].kind = "index" =>
            (job[j].at = "waiting" <=> job[j].seen = 0)
    /\ cron \in CronStates \cup {Idle}
    /\ astray \subseteq Tweets

Init ==
    /\ row = [t \in Tweets |-> IF t \in Seed THEN 1 ELSE 0]
    /\ born = Seed /\ owner = TRUE /\ log = {}
    /\ doc = row /\ docParent = {t \in Seed : IsChild(t)}
    /\ task = [r \in Handlers |-> Idle] /\ begun = 0
    /\ job = [j \in Jobs |-> Free]
    /\ cron = Idle /\ astray = {}

Begin(op, t, p) ==
    /\ begun < MaxRequests
    /\ begun' = begun + 1
    /\ task' = [task EXCEPT ![begun + 1] = [op |-> op, tweet |-> t, parent |-> p]]

Finish(r) ==
    /\ task' = [task EXCEPT ![r] = Idle]
    /\ UNCHANGED begun

Enqueue(kind, T, p) == \E j \in Jobs :
    /\ job[j] = Free /\ \A i \in 1..(j - 1) : job[i] # Free
    /\ job' = [job EXCEPT ![j] = NewJob(kind, T, p)]

Complete(j) == job' = [job EXCEPT ![j] = Free]

-----------------------------------------------------------------------------
(* The handlers: a commit, and then a job for the index *)

\* createTweet, replyToTweet, repostTweetWithQuote.
InsertTweet(t) ==
    /\ t \notin born
    /\ t \in Owned => owner
    /\ IsChild(t) => Parent[t] \in Live
    /\ row' = [row EXCEPT ![t] = 1]
    /\ born' = born \cup {t}
    /\ Begin("index", t, IsChild(t))
    /\ UNCHANGED <<owner, log, index, job, cron, astray>>

\* updateTweet, likeTweet, unlikeTweet, repostTweet: the job gets no parent_id.
ChangeTweet(t) ==
    /\ row[t] \in 1..(MaxVersion - 1)
    /\ row' = [row EXCEPT ![t] = @ + 1]
    /\ Begin("index", t, FALSE)
    /\ UNCHANGED <<born, owner, log, index, job, cron, astray>>

\* deleteRepost queues its job first ...
UndoRepostQueue(t) ==
    /\ t \in Live
    /\ Begin("undoRepost", t, FALSE)
    /\ Enqueue("index", {t}, FALSE) \/ UNCHANGED job
    /\ UNCHANGED <<db, index, cron, astray>>

\* ... and commits afterwards.
UndoRepostCommit(r) ==
    LET t == task[r].tweet IN
    /\ task[r].op = "undoRepost"
    /\ row[t] < MaxVersion
    /\ row' = IF t \in Live THEN [row EXCEPT ![t] = @ + 1] ELSE row
    /\ astray' = IF t \in Live /\ ~\E j \in Jobs : At(j, "index", "waiting") /\ t \in job[j].tweets
                 THEN astray \cup {t} ELSE astray
    /\ Finish(r)
    /\ UNCHANGED <<born, owner, log, index, job, cron>>

Gone(D) == row' = [t \in Tweets |-> IF t \in D THEN 0 ELSE row[t]]

\* The trigger's INSERT INTO deleted_tweets_log, once per deleted row.
LogDeleted(D) == log' = log \cup D

\* Mutant of DeleteTweet: the trigger logs the tweet and not what cascades.
DeleteLogsOne(t) ==
    /\ t \in Live
    /\ Gone(Cascade({t}))
    /\ LogDeleted({t})
    /\ Begin("delete", t, FALSE)
    /\ UNCHANGED <<born, owner, index, job, cron, astray>>

\* The job will name the tweet only; the trigger logs all that goes with it.
DeleteTweet(t) ==
    /\ t \in Live
    /\ Gone(Cascade({t}))
    /\ LogDeleted(Cascade({t}))
    /\ Begin("delete", t, FALSE)
    /\ UNCHANGED <<born, owner, index, job, cron, astray>>

\* deleteUser, whose job deletes the account's rows (any tweet stands for it).
DeleteUser ==
    /\ owner
    /\ \E t \in Owned : Begin("purge", t, FALSE)
    /\ UNCHANGED <<db, index, job, cron, astray>>

QueueJob(r) ==
    /\ task[r].op \in {"index", "delete", "purge"}
    /\ Enqueue(task[r].op, {task[r].tweet}, task[r].parent)
    /\ Finish(r)
    /\ UNCHANGED <<db, index, cron, astray>>

\* Redis refuses the job, which is only logged, or the process stops before.
\* A deletion is still in the log; the transaction of deleteRepost rolls back.
Abort(r) ==
    /\ task[r] # Idle
    /\ astray' = IF task[r].op = "index" THEN astray \cup {task[r].tweet} ELSE astray
    /\ Finish(r)
    /\ UNCHANGED <<db, index, job, cron>>

-----------------------------------------------------------------------------
(* The workers *)

Tweet(j) == CHOOSE t \in job[j].tweets : TRUE

\* handleIndexTweet: a tweet that is not found is skipped; for a reply or quote
\* without a parent_id the old document is asked.
IndexRead(j) ==
    LET t == Tweet(j) IN
    /\ At(j, "index", "waiting")
    /\ IF t \notin Live THEN Complete(j)
       ELSE job' = [job EXCEPT ![j].seen = row[t],
                       ![j].at = IF IsChild(t) /\ ~job[j].parent THEN "read" ELSE "ready"]
    /\ UNCHANGED <<db, index, requests, cron, astray>>

\* Any error of the request is taken for "No existing ES document".
IndexGet(j) ==
    /\ At(j, "index", "read")
    /\ \E found \in BOOLEAN :
           /\ found => Tweet(j) \in docParent
           /\ job' = [job EXCEPT ![j].at = "ready", ![j].old = found]
    /\ UNCHANGED <<db, index, requests, cron, astray>>

IndexWrite(j) ==
    LET t == Tweet(j)
        parent == job[j].parent \/ job[j].old
        right == job[j].seen = row[t] /\ (IsChild(t) => parent)
        worse == t \notin Live \/ job[j].seen < doc[t] \/ (t \in docParent /\ ~parent)
    IN  /\ At(j, "index", "ready")
        /\ doc' = [doc EXCEPT ![t] = job[j].seen]
        /\ docParent' = IF parent THEN docParent \cup {t} ELSE docParent \ {t}
        /\ astray' = IF right THEN astray \ {t} ELSE IF worse THEN astray \cup {t} ELSE astray
        /\ Complete(j)
        /\ UNCHANGED <<db, requests, cron>>

Unindex(D) ==
    /\ doc' = [t \in Tweets |-> IF t \in D THEN 0 ELSE doc[t]]
    /\ docParent' = docParent \ D

\* handleDeleteTweet: an item of the bulk request that fails is only logged.
DeleteDocs(j) ==
    /\ At(j, "delete", "waiting")
    /\ \E D \in SUBSET job[j].tweets :
           /\ Unindex(D)
           /\ astray' = (astray \ D) \cup (job[j].tweets \ D)
    /\ Complete(j)
    /\ UNCHANGED <<db, requests, cron>>

\* handleDeleteAuthor deletes the account's rows ...
PurgeRows(j) ==
    /\ At(j, "purge", "waiting")
    /\ owner' = FALSE
    /\ Gone(Cascade(Owned))
    /\ LogDeleted(Cascade(Owned))
    /\ job' = [job EXCEPT ![j].at = "ready"]
    /\ UNCHANGED <<born, index, requests, cron, astray>>

\* ... and then the documents that name it as author, as far as the query finds
\* them: a search does not see what was indexed a moment ago.
PurgeDocs(j) ==
    /\ At(j, "purge", "ready")
    /\ \E D \in SUBSET Owned : Unindex(D) /\ astray' = astray \ D
    /\ Complete(j)
    /\ UNCHANGED <<db, requests, cron>>

\* An attempt throws, or stalls with its process: the job is tried again from
\* the start, with the data it was queued with, and dropped after the last time.
JobFails(j) ==
    /\ job[j] # Free
    /\ IF job[j].left = 1
       THEN /\ Complete(j)
            /\ astray' = IF job[j].kind = "purge" THEN astray ELSE astray \cup job[j].tweets
       ELSE /\ job' = [job EXCEPT ![j].at = "waiting", ![j].seen = 0, ![j].old = FALSE,
                              ![j].left = @ - 1]
            /\ UNCHANGED astray
    /\ UNCHANGED <<db, index, requests, cron>>

-----------------------------------------------------------------------------
(* The cron (the one that drops rows a week old finds none while this runs) *)

\* The oldest rows of the log, up to a batch; which they are is left open.
CronFind ==
    /\ cron = Idle /\ log # {}
    /\ \E B \in SUBSET log :
           /\ B = log \/ Cardinality(B) = BatchSize
           /\ Cardinality(B) <= BatchSize
           /\ cron' = [at |-> "found", batch |-> B]
    /\ UNCHANGED <<db, index, requests, job, astray>>

\* Mutant of CronQueue: the job is forgotten.
CronForgets ==
    /\ cron # Idle /\ cron.at = "found"
    /\ cron' = [cron EXCEPT !.at = "queued"]
    /\ UNCHANGED <<db, index, requests, job, astray>>

\* The result of queueDeleteTweet, success or not, is not looked at.
CronQueue ==
    /\ cron # Idle /\ cron.at = "found"
    /\ \/ Enqueue("delete", cron.batch, FALSE) /\ UNCHANGED astray
       \/ UNCHANGED job /\ astray' = astray \cup cron.batch
    /\ cron' = [cron EXCEPT !.at = "queued"]
    /\ UNCHANGED <<db, index, requests>>

CronDelete ==
    /\ cron # Idle /\ cron.at = "queued"
    /\ log' = log \ cron.batch
    /\ cron' = Idle
    /\ UNCHANGED <<row, born, owner, index, requests, job, astray>>

\* A statement throws, or the process stops: the rows stay for the next minute.
CronAbort ==
    /\ cron # Idle
    /\ cron' = Idle
    /\ UNCHANGED <<db, index, requests, job, astray>>

-----------------------------------------------------------------------------
HandlerStep ==
    \/ \E t \in Tweets :
           \/ InsertTweet(t) \/ ChangeTweet(t) \/ DeleteTweet(t)
           \/ UndoRepostQueue(t)
    \/ DeleteUser

Continue(r) == QueueJob(r) \/ UndoRepostCommit(r) \/ Abort(r)

Work(j) ==
    \/ IndexRead(j) \/ IndexGet(j) \/ IndexWrite(j)
    \/ DeleteDocs(j) \/ PurgeRows(j) \/ PurgeDocs(j)
    \/ JobFails(j)

CronStep == CronFind \/ CronQueue \/ CronDelete \/ CronAbort

Next ==
    \/ HandlerStep
    \/ \E r \in Handlers : Continue(r)
    \/ \E j \in Jobs : Work(j)
    \/ CronStep

\* A handler that has begun goes on or fails; a worker takes every job and every
\* attempt ends; the cron runs every minute, and not every run of it fails.
Fairness ==
    /\ \A r \in Handlers : WF_vars(Continue(r))
    /\ \A j \in Jobs : WF_vars(Work(j))
    /\ WF_vars(CronStep) /\ SF_vars(CronQueue) /\ SF_vars(CronDelete)

Spec == Init /\ [][Next]_vars /\ Fairness

-----------------------------------------------------------------------------
(* Properties *)

\* Something will still look at the document of t.
Underway(t) ==
    \/ t \in log
    \/ \E r \in Handlers : task[r].op \in {"index", "undoRepost"} /\ task[r].tweet = t
    \/ \E j \in Jobs : job[j] # Free /\ job[j].kind # "purge" /\ t \in job[j].tweets

\* When nothing is under way for a tweet and no failure or race is on record,
\* its document shows the row as it is, parent included, or is gone with it.
IndexCaughtUp ==
    \A t \in Tweets : Underway(t) \/ t \in astray \/
        /\ doc[t] = row[t]
        /\ IsChild(t) /\ t \in Live => t \in docParent

\* The document of a deleted tweet goes, although the job of the handler names
\* only the tweet asked for: the log and its cron take care of the rest.
DeletedLeavesIndex ==
    \A t \in Tweets : (t \in born \ Live /\ t \notin astray) ~> (doc[t] = 0 \/ t \in astray)

\* An announced change reaches the index, unless the tweet is deleted or a
\* failure or race is on record.
ChangesReachIndex ==
    \A t \in Tweets : \A v \in 1..MaxVersion :
        row[t] = v ~> (doc[t] >= v \/ t \notin Live \/ t \in astray)

\* What was stored or deleted gets to the index, whichever of the job of the
\* handler, another job and the cron is the one to take it there.
IndexFollows == DeletedLeavesIndex /\ ChangesReachIndex
=============================================================================
