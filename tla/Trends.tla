-------------------------------- MODULE Trends --------------------------------
(***************************************************************************)
(* The hashtags of tweets (TweetsService, the triggers of the database) and *)
(* the trends computed from them (HashtagProcessor, TrendService).          *)
(*                                                                          *)
(* A post is a transaction.  It locks the rows of its hashtags one after    *)
(* the other, in the order of the text; a deletion does so in the order of  *)
(* the table.  The job that tells the trends about a post or an edit is     *)
(* queued before its transaction is over.  Several workers take the jobs in *)
(* any order, and a job that fails is run again from its start.             *)
(* Calculations are started by a clock and by a request, and may overlap.   *)
(*                                                                          *)
(* Abstractions. A text is known by the tweet it could be posted with; the  *)
(* new text of an edit is any of these. Time is counted in steps shorter    *)
(* than the window of the trends, over less than the day for which Redis    *)
(* keeps the keys. The buckets of a hashtag are one number. Which hashtags  *)
(* score best is left open, as is which score cannot be read: it is left    *)
(* out. Hashtags have the topics that the posts give them, always the same. *)
(***************************************************************************)
EXTENDS Integers, FiniteSets, Sequences

CONSTANTS
    Tags,
    Tweets,
    TagsOf,     \* the hashtags of a text, that of a tweet when posted, in their order
    Topics,
    TopicsOf,   \* the topics that a hashtag has in its posts, by the threshold
    Requests,   \* requests that may be under way at the same time
    Jobs,       \* jobs that may be in the queue at the same time
    Runs,       \* calculations that may be under way at the same time
    Attempts,   \* attempts of a job
    Window,     \* TRENDING_WINDOW_HOURS
    TopN,
    MaxTime, MaxCount   \* bounds

Elements(s) == {s[i] : i \in DOMAIN s}

ASSUME TagsAreTags == /\ TagsOf \in [Tweets -> Seq(Tags)]
                      /\ \A t \in Tweets : \A i, k \in DOMAIN TagsOf[t] :
                            TagsOf[t][i] = TagsOf[t][k] => i = k
ASSUME TopicsAreTopics == TopicsOf \in [Tags -> SUBSET Topics]
ASSUME Naturals == {Attempts, TopN, MaxTime} \subseteq Nat \ {0} /\ {Window, MaxCount} \subseteq Nat
ASSUME FinitelyMany == IsFiniteSet(Tweets) /\ IsFiniteSet(Jobs)

VARIABLES
    rows,       \* tweets
    revived,    \* history: of these, those that the save of an edit has put back
    links,      \* rows of tweet_hashtags
    usage,      \* usage_count of a hashtag; 0 when it has no row
    now,
    last,       \* candidates:active: the time of the last post, 0 for none
    counted,    \* the posts counted in the buckets of a hashtag
    topical,    \* candidates:<topic>
    list,       \* trending:global and trending:<topic>
    req,        \* what each request has in hand
    job,        \* the queue
    run,        \* what each calculation has in hand
    done,       \* history: jobs of the hashtag that are done
    recounted,  \* history: hashtags counted by an attempt that failed
    seen,       \* history: the latest post of the hashtag that was noted
    asOf        \* history: the start of the window of each list

db == <<rows, links, usage, revived>>
redis == <<last, counted, topical, list>>
history == <<done, recounted, seen, asOf>>
vars == <<db, now, redis, req, job, run, history>>

-----------------------------------------------------------------------------
Lists == {"global"} \cup Topics
Tagged(h) == {t \in Tweets : <<t, h>> \in links}
Linked(t) == {h \in Tags : <<t, h>> \in links}

Idle == [at |-> "idle"]
Free == [at |-> "none"]
\* took: the rows of hashtags that its transaction has locked, and had their
\* counts when it did.
Tasks == [op: {"post", "edit", "delete"}, tweet: Tweets, took: SUBSET Tags,
          had: [Tags -> Int], at: {"queue", "tags", "commit", "save"}]
\* next: the hashtags of which it has counted those before.
JobStates == [tweet: Tweets, time: 1..MaxTime, left: 1..Attempts, next: Nat \ {0},
              at: {"active", "topics", "counts"}]
Active(t, time, left) == [tweet |-> t, time |-> time, left |-> left, next |-> 1,
                          at |-> "active"]
RunStates == [since: Int, active: SUBSET Tags, scored: SUBSET Tags, todo: SUBSET Topics,
              at: {"global", "topics"}]

At(r, at) == req[r].at = at
Goes(r, at) == req' = [req EXCEPT ![r].at = at]
Ends(r) == req' = [req EXCEPT ![r] = Idle]
Locked(h) == \E r \in Requests : req[r] # Idle /\ h \in req[r].took
Take(r, h) == req' = [req EXCEPT ![r] = [req[r] EXCEPT !.took = req[r].took \cup {h},
                                                       !.had[h] = usage[h]]]

\* Mutant of Takes: a row is read without its lock.
TakesUnlocked(r, h) == Take(r, h)

Takes(r, h) == ~Locked(h) /\ Take(r, h)

TypeOK ==
    /\ rows \subseteq Tweets /\ revived \subseteq rows /\ links \subseteq rows \X Tags
    /\ usage \in [Tags -> Int]
    /\ now \in 1..MaxTime
    /\ last \in [Tags -> 0..MaxTime] /\ counted \in [Tags -> Nat]
    /\ topical \in [Topics -> SUBSET Tags] /\ list \in [Lists -> SUBSET Tags]
    /\ req \in [Requests -> Tasks \cup {Idle}]
    /\ job \in [Jobs -> JobStates \cup {Free}]
    /\ run \in [Runs -> RunStates \cup {Idle}]
    /\ done \in [Tags -> Nat] /\ recounted \subseteq Tags
    /\ seen \in [Tags -> 0..MaxTime] /\ asOf \in [Lists -> Int]

Init ==
    /\ rows = {} /\ revived = {} /\ links = {} /\ usage = [h \in Tags |-> 0]
    /\ now = 1
    /\ last = [h \in Tags |-> 0] /\ counted = [h \in Tags |-> 0]
    /\ topical = [c \in Topics |-> {}] /\ list = [l \in Lists |-> {}]
    /\ req = [r \in Requests |-> Idle]
    /\ job = [j \in Jobs |-> Free]
    /\ run = [k \in Runs |-> Idle]
    /\ done = [h \in Tags |-> 0] /\ recounted = {}
    /\ seen = [h \in Tags |-> 0] /\ asOf = [l \in Lists |-> 0]

Tick ==
    /\ now < MaxTime
    /\ now' = now + 1
    /\ UNCHANGED <<db, redis, req, job, run, history>>

-----------------------------------------------------------------------------
(* Posts, edits and deletions. *)

Begin(r, op, t, at) ==
    /\ req[r] = Idle
    /\ req' = [req EXCEPT ![r] = [op |-> op, tweet |-> t, took |-> {}, at |-> at,
                                 had |-> [h \in Tags |-> 0]]]
    /\ UNCHANGED <<db, now, redis, job, run, history>>

Has(r, op, t) == req[r] # Idle /\ req[r].op = op /\ req[r].tweet = t

\* The id of a post is new.
Post(r, t) ==
    /\ t \notin rows /\ \A s \in Requests : req[s] # Idle => req[s].tweet # t
    /\ Begin(r, "post", t, "queue")

\* updateTweet reads the row.  It asks whose tweet it is only after the job has
\* been queued: one who may not is stopped there.
Edit(r, t) == t \in rows /\ Begin(r, "edit", t, "queue")

\* The text of a post, or any new text of an edit.
Texts(r) == IF req[r].op = "post" THEN {req[r].tweet} ELSE Tweets

\* extractDataFromTweets, in the transaction; a failure to queue is only logged.
QueueHashtag(r) ==
    /\ At(r, "queue")
    /\ \/ \E j \in Jobs, t \in Texts(r) :
            /\ job[j] = Free
            /\ job' = [job EXCEPT ![j] = Active(t, now, Attempts)]
       \/ UNCHANGED job
    /\ Goes(r, IF req[r].op = "post" THEN "tags" ELSE "save")
    /\ UNCHANGED <<db, now, redis, run, history>>

\* The save of an edit leaves hashtags and associations alone.  It inserts the
\* row when it finds none; one that a deletion has locked it waits for, and
\* then updates nothing.
SaveEdit(r) ==
    LET t == req[r].tweet IN
    /\ At(r, "save")
    /\ rows' = rows \cup {t}
    /\ revived' = revived \cup ({t} \ rows)
    /\ Ends(r)
    /\ UNCHANGED <<links, usage, now, redis, job, run, history>>

\* updateHashtags: the upsert locks the rows one by one, or waits ...
Upsert(r) ==
    LET todo == {i \in DOMAIN TagsOf[req[r].tweet] : TagsOf[req[r].tweet][i] \notin req[r].took} IN
    /\ At(r, "tags") /\ req[r].op = "post"
    /\ \/ \E i \in todo : (\A k \in todo : i <= k) /\ Takes(r, TagsOf[req[r].tweet][i])
       \/ todo = {} /\ Goes(r, "commit")
    /\ UNCHANGED <<db, now, redis, job, run, history>>

\* ... and the increment and the associations are committed together.
CommitPost(r) ==
    LET t == req[r].tweet IN
    /\ At(r, "commit") /\ req[r].op = "post"
    /\ rows' = rows \cup {t}
    /\ usage' = [h \in Tags |-> IF h \in req[r].took THEN req[r].had[h] + 1 ELSE usage[h]]
    /\ links' = links \cup ({t} \X req[r].took)
    /\ Ends(r)
    /\ UNCHANGED <<revived, now, redis, job, run, history>>

\* A deletion waits for another of the same row, and then finds none.  Of the
\* tweets that deleteTweetsByUserId lists it deletes the first: its transaction
\* is committed in the loop, and the second commit throws.
Delete(r, t) ==
    /\ t \in rows
    /\ \A s \in Requests : ~Has(s, "delete", t)
    /\ Begin(r, "delete", t, "tags")

\* cleanup_hashtags_on_tweet_delete: one is taken off each count ...
Decrement(r) ==
    LET todo == Linked(req[r].tweet) \ req[r].took IN
    /\ At(r, "tags") /\ req[r].op = "delete"
    /\ (\E h \in todo : Takes(r, h)) \/ (todo = {} /\ Goes(r, "commit"))
    /\ UNCHANGED <<db, now, redis, job, run, history>>

\* ... the hashtags whose count is zero go, and with them their associations.
CommitDelete(r) ==
    LET t == req[r].tweet
        less == [h \in Tags |-> IF h \in req[r].took THEN req[r].had[h] - 1 ELSE usage[h]]
    IN
    /\ At(r, "commit") /\ req[r].op = "delete"
    /\ rows' = rows \ {t} /\ revived' = revived \ {t}
    /\ usage' = [h \in Tags |-> IF less[h] <= 0 THEN 0 ELSE less[h]]
    /\ links' = {l \in links : l[1] # t /\ less[l[2]] > 0}
    /\ Ends(r)
    /\ UNCHANGED <<now, redis, job, run, history>>

\* A request fails or the server stops, and its transaction is rolled back.
\* (Postgres so ends one of two that wait for each other.)
Stop(r) ==
    /\ req[r] # Idle
    /\ Ends(r)
    /\ UNCHANGED <<db, now, redis, job, run, history>>

-----------------------------------------------------------------------------
(* HashtagProcessor. *)

JobTags(j) == Elements(TagsOf[job[j].tweet])

\* ZADD without members is an error: the job of a text without hashtags fails
\* each time.  The time is written even over a later one.
InsertCandidateHashtags(j) ==
    /\ job[j].at = "active" /\ JobTags(j) # {}
    /\ last' = [h \in Tags |-> IF h \in JobTags(j) THEN job[j].time ELSE last[h]]
    /\ seen' = [h \in Tags |-> IF h \in JobTags(j) /\ job[j].time > seen[h]
                               THEN job[j].time ELSE seen[h]]
    /\ job' = [job EXCEPT ![j].at = "topics"]
    /\ UNCHANGED <<db, now, counted, topical, list, req, run, done, recounted, asOf>>

InsertCandidateCategories(j) ==
    /\ job[j].at = "topics"
    /\ topical' = [c \in Topics |-> topical[c] \cup {h \in JobTags(j) : c \in TopicsOf[h]}]
    /\ job' = [job EXCEPT ![j].at = "counts"]
    /\ UNCHANGED <<db, now, last, counted, list, req, run, history>>

\* Mutant of UpdateHashtagCount: the number of hashtags is added to each.
UpdateHashtagCountByAll(j) ==
    LET tags == TagsOf[job[j].tweet]
        n == job[j].next
    IN
    /\ job[j].at = "counts" /\ counted[tags[n]] < MaxCount
    /\ counted' = [counted EXCEPT ![tags[n]] = counted[tags[n]] + Len(tags)]
    /\ IF n = Len(tags)
       THEN /\ job' = [job EXCEPT ![j] = Free]
            /\ done' = [h \in Tags |-> IF h \in JobTags(j) THEN done[h] + 1 ELSE done[h]]
       ELSE job' = [job EXCEPT ![j].next = n + 1] /\ UNCHANGED done
    /\ UNCHANGED <<db, now, last, topical, list, req, run, recounted, seen, asOf>>

\* updateHashtagCounts, one hashtag after the other.
UpdateHashtagCount(j) ==
    LET tags == TagsOf[job[j].tweet]
        n == job[j].next
    IN
    /\ job[j].at = "counts" /\ counted[tags[n]] < MaxCount
    /\ counted' = [counted EXCEPT ![tags[n]] = counted[tags[n]] + 1]
    /\ IF n = Len(tags)
       THEN /\ job' = [job EXCEPT ![j] = Free]
            /\ done' = [h \in Tags |-> IF h \in JobTags(j) THEN done[h] + 1 ELSE done[h]]
       ELSE job' = [job EXCEPT ![j].next = n + 1] /\ UNCHANGED done
    /\ UNCHANGED <<db, now, last, topical, list, req, run, recounted, seen, asOf>>

\* The hashtags that the present attempt has counted.
Counted(j) == IF job[j].at = "counts"
              THEN {TagsOf[job[j].tweet][i] : i \in 1..(job[j].next - 1)} ELSE {}

\* A job fails, and is run again from its start while attempts are left.
Fail(j) ==
    /\ job[j] # Free
    /\ job' = [job EXCEPT ![j] = IF job[j].left = 1 THEN Free
                                 ELSE Active(job[j].tweet, job[j].time, job[j].left - 1)]
    /\ recounted' = recounted \cup Counted(j)
    /\ UNCHANGED <<db, now, redis, req, run, done, seen, asOf>>

-----------------------------------------------------------------------------
(* calculateTrend. *)

\* Mutant of Calculate: every candidate ever noted.
CalculateAll(k) ==
    /\ run[k] = Idle
    /\ run' = [run EXCEPT ![k] = [since |-> now - Window, scored |-> {}, todo |-> Topics,
                    at |-> "global", active |-> {h \in Tags : last[h] # 0}]]
    /\ UNCHANGED <<db, now, redis, req, job, history>>

Calculate(k) ==
    /\ run[k] = Idle
    /\ run' = [run EXCEPT ![k] = [since |-> now - Window, scored |-> {}, todo |-> Topics,
                    at |-> "global",
                    active |-> {h \in Tags : last[h] # 0 /\ last[h] >= now - Window}]]
    /\ UNCHANGED <<db, now, redis, req, job, history>>

\* The TopN of S, whichever they are.
Tops(S) == {T \in SUBSET S : Cardinality(T) = TopN \/ (T = S /\ Cardinality(S) <= TopN)}

\* updateTrendingList: without hashtags the old list stays.
UpdateTrendingList(k, l, S) ==
    IF S = {} THEN UNCHANGED <<list, asOf>>
    ELSE /\ \E T \in Tops(S) : list' = [list EXCEPT ![l] = T]
         /\ asOf' = [asOf EXCEPT ![l] = run[k].since]

\* A hashtag without a bucket, or whose buckets cannot be read, has no score.
ScoreGlobal(k) ==
    /\ run[k].at = "global"
    /\ \E S \in SUBSET {h \in run[k].active : counted[h] > 0} :
        /\ UpdateTrendingList(k, "global", S)
        /\ run' = [run EXCEPT ![k].scored = S, ![k].at = "topics"]
    /\ UNCHANGED <<db, now, last, counted, topical, req, job, done, recounted, seen>>

\* calculateCategoryTrendsFromScores: a category that fails is passed over.
ScoreTopic(k, c) ==
    /\ run[k].at = "topics" /\ c \in run[k].todo
    /\ \/ UpdateTrendingList(k, c, topical[c] \cap run[k].scored)
       \/ UNCHANGED <<list, asOf>>
    /\ run' = [run EXCEPT ![k] = IF run[k].todo = {c} THEN Idle
                                 ELSE [run[k] EXCEPT !.todo = run[k].todo \ {c}]]
    /\ UNCHANGED <<db, now, last, counted, topical, req, job, done, recounted, seen>>

\* The calculation fails, or the server stops.
Abandon(k) ==
    /\ run[k] # Idle
    /\ run' = [run EXCEPT ![k] = Idle]
    /\ UNCHANGED <<db, now, redis, req, job, history>>

-----------------------------------------------------------------------------
Serve(r) ==
    \/ \E t \in Tweets : Post(r, t) \/ Edit(r, t) \/ Delete(r, t)
    \/ QueueHashtag(r) \/ SaveEdit(r) \/ Upsert(r) \/ CommitPost(r)
    \/ Decrement(r) \/ CommitDelete(r) \/ Stop(r)

Work(j) ==
    \/ InsertCandidateHashtags(j) \/ InsertCandidateCategories(j)
    \/ UpdateHashtagCount(j) \/ Fail(j)

Trend(k) ==
    \/ Calculate(k) \/ ScoreGlobal(k) \/ \E c \in Topics : ScoreTopic(k, c)
    \/ Abandon(k)

Next ==
    \/ Tick
    \/ \E r \in Requests : Serve(r)
    \/ \E j \in Jobs : Work(j)
    \/ \E k \in Runs : Trend(k)

Spec == Init /\ [][Next]_vars

-----------------------------------------------------------------------------
\* getTrending, getHashtagCategories: of a list, the hashtags that have a row; the
\* category shown is the one of these in which the hashtag scores best.
GetTrending(l) ==
    {[hashtag |-> h, posts_count |-> usage[h], categories |-> {c \in Topics : h \in topical[c]}] :
        h \in {g \in list[l] : usage[g] # 0}}

-----------------------------------------------------------------------------
(* Properties. *)

\* updateHashtags, updateTweet and the trigger: whatever posts, edits and
\* deletions overlap, a hashtag's usage_count is the number of tweets that have
\* it, and a tweet has the hashtags of the text it was posted with: no edit
\* changes them, and none is lost when hashtags that nobody uses are removed.
\* Only a tweet that an edit has put back after its deletion has none.
UsageExact ==
    /\ \A h \in Tags : usage[h] = Cardinality(Tagged(h))
    /\ \A t \in rows : Linked(t) = IF t \in revived THEN {} ELSE Elements(TagsOf[t])

\* HashtagProcessor: a hashtag is counted once for every job that is done with
\* it, unless an attempt failed after counting it and counted it again.
CountsExact == \A h \in Tags \ recounted :
    counted[h] = done[h] + Cardinality({j \in Jobs : h \in Counted(j)})

\* calculateTrend: what a list shows was posted in the window of the
\* calculation that wrote it, however calculations and jobs overlap, and a
\* category shows what is a candidate of it, also to getHashtagCategories.
ListedWasActive == \A l \in Lists :
    /\ \A h \in list[l] : /\ seen[h] >= asOf[l] /\ counted[h] > 0
                          /\ l # "global" => h \in topical[l]
    /\ \A s \in GetTrending(l) : l # "global" => l \in s.categories
=============================================================================
