---------------------------- MODULE TrendsProofs ----------------------------
(***************************************************************************)
(* Trends proved for any number of hashtags, tweets, requests, jobs and    *)
(* calculations, and any bounds.                                           *)
(*                                                                         *)
(* UsageExact rests on what the locks of Postgres give: a row that a       *)
(* request has locked keeps the count that was read with the lock, no two  *)
(* requests have the same row, and what a deletion has locked when it      *)
(* commits is what the tweet's text names: nothing more, if an edit has    *)
(* put the tweet back.                                                     *)
(***************************************************************************)
EXTENDS Trends, FiniteSetTheorems, TLAPS

TagsIn(t) == Elements(TagsOf[t])
\* The hashtags of a row: those of its text, if no edit has put it back.
TagsLeft(t) == IF t \in revived THEN {} ELSE TagsIn(t)

\* A job counts the hashtags of its text, of which there is at least one.
JobOK(j) == job[j] # Free =>
    /\ job[j].at # "counts" => job[j].next = 1
    /\ job[j].at # "active" => job[j].next \in DOMAIN TagsOf[job[j].tweet]
JobsOK == \A j \in Jobs : JobOK(j)
Typed == TypeOK /\ JobsOK

\* What a request has locked, and what it knows of it.
ReqOK(r) == req[r] # Idle =>
    /\ req[r].took \subseteq TagsLeft(req[r].tweet)
    /\ req[r].op = "edit" => req[r].at \in {"queue", "save"} /\ req[r].took = {}
    /\ req[r].at = "save" => req[r].op = "edit"
    /\ req[r].at = "queue" => req[r].took = {}
    /\ req[r].op = "post" => req[r].tweet \notin rows
    /\ req[r].op = "delete" => req[r].tweet \in rows /\ req[r].at # "queue"
    /\ req[r].at = "commit" => req[r].took = TagsLeft(req[r].tweet)
    /\ \A h \in req[r].took : req[r].had[h] = usage[h]
ReqsOK == \A r \in Requests : ReqOK(r)
TookApart == \A r, s \in Requests : r # s /\ req[r] # Idle /\ req[s] # Idle =>
    req[r].took \cap req[s].took = {}
OneAtATime == \A r, s \in Requests :
    /\ r # s /\ req[r] # Idle /\ req[s] # Idle
    /\ req[r].op = "post" \/ (req[r].op = "delete" /\ req[s].op = "delete")
    => req[r].tweet # req[s].tweet

LocksOK == ReqsOK /\ TookApart /\ OneAtATime
\* Every row of a hashtag has the number of its tweets, and every tweet its hashtags.
RowsExact ==
    /\ \A h \in Tags : usage[h] = Cardinality(Tagged(h))
    /\ \A t \in rows : Linked(t) = TagsLeft(t)
DbInv == Typed /\ LocksOK /\ RowsExact

JobInv == Typed /\ CountsExact

\* A calculation knows hashtags that were posted in its window, and counted.
RunOK(k) == run[k] # Idle =>
    /\ \A h \in run[k].active : seen[h] >= run[k].since
    /\ run[k].scored \subseteq run[k].active
    /\ \A h \in run[k].scored : counted[h] > 0
RunsOK == \A k \in Runs : RunOK(k)
LastSeen == \A h \in Tags : last[h] <= seen[h]

Listed == \A l \in Lists : \A h \in list[l] :
    /\ seen[h] >= asOf[l] /\ counted[h] > 0
    /\ l # "global" => h \in topical[l]

ListInv == Typed /\ RunsOK /\ LastSeen /\ Listed

-----------------------------------------------------------------------------
(* Sequences of hashtags and sets of tweets *)

LEMMA TagsTyped == ASSUME NEW t \in Tweets PROVE
    /\ TagsOf[t] \in Seq(Tags) /\ TagsIn(t) \subseteq Tags
    /\ DOMAIN TagsOf[t] = 1..Len(TagsOf[t]) /\ Len(TagsOf[t]) \in Nat
    /\ \A i \in DOMAIN TagsOf[t] : TagsOf[t][i] \in TagsIn(t)
    /\ \A i, k \in DOMAIN TagsOf[t] : TagsOf[t][i] = TagsOf[t][k] => i = k
BY TagsAreTags DEF TagsIn, Elements

LEMMA TaggedFinite == ASSUME NEW h PROVE IsFiniteSet(Tagged(h)) /\ Cardinality(Tagged(h)) \in Nat
BY FinitelyMany, FS_Subset, FS_CardinalityType DEF Tagged

-----------------------------------------------------------------------------
(* Types and the positions of jobs, action by action *)

LEMMA TypedInit == Init => Typed
<1>. SUFFICES ASSUME Init PROVE Typed
  OBVIOUS
<1>1. TypeOK
  BY Naturals DEF Init, TypeOK, Lists
<1>2. JobsOK
  BY DEF Init, JobsOK, JobOK
<1>. QED  BY <1>1, <1>2 DEF Typed

LEMMA TickTyped == Typed /\ Tick => Typed'
BY Naturals DEF Typed, TypeOK, JobsOK, JobOK, Tick, db, redis, history

LEMMA BeginTyped ==
  ASSUME Typed, NEW r \in Requests, NEW t \in Tweets, NEW op \in {"post", "edit", "delete"},
         NEW at \in {"queue", "tags"}, Begin(r, op, t, at)
  PROVE  Typed'
<1>. DEFINE new == [op |-> op, tweet |-> t, took |-> {}, at |-> at, had |-> [h \in Tags |-> 0]]
<1>1. new \in Tasks
  BY DEF Tasks
<1>2. req' \in [Requests -> Tasks \cup {Idle}]
  BY <1>1 DEF Typed, TypeOK, Begin
<1>. QED  BY <1>2 DEF Typed, TypeOK, JobsOK, JobOK, Begin, db, redis, history

LEMMA EndsTyped ==
  ASSUME Typed, NEW r \in Requests, Ends(r), UNCHANGED <<db, now, redis, job, run, history>>
  PROVE  Typed'
BY DEF Typed, TypeOK, JobsOK, JobOK, Ends, db, redis, history

LEMMA GoesTyped ==
  ASSUME Typed, NEW r \in Requests, NEW at \in {"tags", "commit", "save"}, req[r] # Idle, Goes(r, at)
  PROVE  req' \in [Requests -> Tasks \cup {Idle}]
BY DEF Typed, TypeOK, Goes, Tasks

LEMMA TakesTyped ==
  ASSUME Typed, NEW r \in Requests, NEW h \in Tags, req[r] # Idle, Takes(r, h)
  PROVE  req' \in [Requests -> Tasks \cup {Idle}]
<1>1. req[r] \in Tasks /\ usage[h] \in Int
  BY DEF Typed, TypeOK
<1>2. [req[r].had EXCEPT ![h] = usage[h]] \in [Tags -> Int]
  BY <1>1 DEF Tasks
<1>3. [req[r] EXCEPT !.took = req[r].took \cup {h}, !.had[h] = usage[h]] \in Tasks
  BY <1>1, <1>2 DEF Tasks
<1>. QED  BY <1>3 DEF Typed, TypeOK, Takes, Take

LEMMA QueueHashtagTyped == ASSUME Typed, NEW r \in Requests, QueueHashtag(r) PROVE Typed'
<1>1. req[r] # Idle /\ req[r] \in Tasks
  BY DEF Typed, TypeOK, QueueHashtag, At, Idle
<1>2. req' \in [Requests -> Tasks \cup {Idle}]
  BY <1>1, GoesTyped DEF QueueHashtag
<1>3. job' \in [Jobs -> JobStates \cup {Free}] /\ JobsOK'
  <2>. DEFINE new(t) == Active(t, now, Attempts)
  <2>1. Texts(r) \subseteq Tweets /\ \A t \in Tweets : new(t) \in JobStates
    BY <1>1, Naturals DEF JobStates, Tasks, Typed, TypeOK, Active, Texts
  <2>2. CASE UNCHANGED job
    BY <2>2 DEF Typed, TypeOK, JobsOK, JobOK
  <2>3. CASE \E j \in Jobs, t \in Texts(r) : job[j] = Free /\ job' = [job EXCEPT ![j] = new(t)]
    BY <2>1, <2>3 DEF Typed, TypeOK, JobsOK, JobOK, Active
  <2>. QED  BY <2>2, <2>3 DEF QueueHashtag
<1>. QED  BY <1>2, <1>3 DEF Typed, TypeOK, QueueHashtag, db, redis, history

LEMMA SaveEditTyped == ASSUME Typed, NEW r \in Requests, SaveEdit(r) PROVE Typed'
<1>1. req[r] \in Tasks
  BY DEF Typed, TypeOK, SaveEdit, At, Idle
<1>2. rows' \subseteq Tweets /\ revived' \subseteq rows' /\ links' \subseteq rows' \X Tags
  BY <1>1 DEF Typed, TypeOK, SaveEdit, Tasks
<1>3. req' \in [Requests -> Tasks \cup {Idle}]
  BY DEF Typed, TypeOK, SaveEdit, Ends
<1>. QED  BY <1>2, <1>3 DEF Typed, TypeOK, JobsOK, JobOK, SaveEdit, redis, history

LEMMA UpsertTyped == ASSUME Typed, NEW r \in Requests, Upsert(r) PROVE Typed'
<1>1. req[r] # Idle /\ req[r] \in Tasks
  BY DEF Typed, TypeOK, Upsert, At, Idle
<1>2. req' \in [Requests -> Tasks \cup {Idle}]
  <2>1. CASE Goes(r, "commit")
    BY <1>1, <2>1, GoesTyped
  <2>2. CASE \E i \in DOMAIN TagsOf[req[r].tweet] : Takes(r, TagsOf[req[r].tweet][i])
    BY <1>1, <2>2, TakesTyped, TagsTyped DEF Tasks
  <2>. QED  BY <2>1, <2>2 DEF Upsert
<1>. QED  BY <1>2 DEF Typed, TypeOK, JobsOK, JobOK, Upsert, db, redis, history

LEMMA DecrementTyped == ASSUME Typed, NEW r \in Requests, Decrement(r) PROVE Typed'
<1>1. req[r] # Idle
  BY DEF Decrement, At, Idle
<1>2. req' \in [Requests -> Tasks \cup {Idle}]
  <2>1. CASE Goes(r, "commit")
    BY <1>1, <2>1, GoesTyped
  <2>2. CASE \E h \in Linked(req[r].tweet) : Takes(r, h)
    BY <1>1, <2>2, TakesTyped DEF Linked
  <2>. QED  BY <2>1, <2>2 DEF Decrement
<1>. QED  BY <1>2 DEF Typed, TypeOK, JobsOK, JobOK, Decrement, db, redis, history

LEMMA CommitPostTyped == ASSUME Typed, NEW r \in Requests, CommitPost(r) PROVE Typed'
<1>1. req[r] \in Tasks
  BY DEF Typed, TypeOK, CommitPost, At, Idle
<1>2. rows' \subseteq Tweets /\ revived' \subseteq rows' /\ links' \subseteq rows' \X Tags
  BY <1>1 DEF Typed, TypeOK, CommitPost, Tasks
<1>3. usage' \in [Tags -> Int] /\ req' \in [Requests -> Tasks \cup {Idle}]
  BY <1>1 DEF Typed, TypeOK, CommitPost, Tasks, Ends
<1>. QED  BY <1>2, <1>3 DEF Typed, TypeOK, JobsOK, JobOK, CommitPost, redis, history

LEMMA CommitDeleteTyped == ASSUME Typed, NEW r \in Requests, CommitDelete(r) PROVE Typed'
<1>1. req[r] \in Tasks
  BY DEF Typed, TypeOK, CommitDelete, At, Idle
<1>2. rows' \subseteq Tweets /\ revived' \subseteq rows' /\ links' \subseteq rows' \X Tags
  BY <1>1 DEF Typed, TypeOK, CommitDelete, Tasks
<1>3. usage' \in [Tags -> Int] /\ req' \in [Requests -> Tasks \cup {Idle}]
  BY <1>1 DEF Typed, TypeOK, CommitDelete, Tasks, Ends
<1>. QED  BY <1>2, <1>3 DEF Typed, TypeOK, JobsOK, JobOK, CommitDelete, redis, history

LEMMA JobTyped == ASSUME Typed, NEW j \in Jobs, job[j].at # "none" PROVE
    /\ job[j] # Free /\ job[j] \in JobStates /\ JobTags(j) \subseteq Tags
    /\ JobTags(j) = TagsIn(job[j].tweet)
    /\ DOMAIN TagsOf[job[j].tweet] = 1..Len(TagsOf[job[j].tweet])
<1>1. job[j] # Free /\ job[j] \in JobStates
  BY DEF Typed, TypeOK, Free
<1>. QED  BY <1>1, TagsTyped DEF JobStates, JobTags, TagsIn

LEMMA ActiveTyped == ASSUME Typed, NEW j \in Jobs, InsertCandidateHashtags(j) PROVE Typed'
<1>1. job[j] \in JobStates /\ job[j] # Free /\ JobTags(j) \subseteq Tags
  BY JobTyped DEF InsertCandidateHashtags
<1>2. last' \in [Tags -> 0..MaxTime] /\ seen' \in [Tags -> 0..MaxTime]
  BY <1>1, Naturals DEF Typed, TypeOK, InsertCandidateHashtags, JobStates
<1>3. job' \in [Jobs -> JobStates \cup {Free}]
  BY <1>1 DEF Typed, TypeOK, InsertCandidateHashtags, JobStates
<1>4. JobsOK'
  <2>1. 1 \in DOMAIN TagsOf[job[j].tweet]
    BY <1>1, TagsTyped DEF InsertCandidateHashtags, JobTags, TagsIn, Elements, JobStates
  <2>. QED  BY <1>1, <2>1 DEF Typed, TypeOK, JobsOK, JobOK, InsertCandidateHashtags, JobStates
<1>. QED  BY <1>2, <1>3, <1>4 DEF Typed, TypeOK, InsertCandidateHashtags, db

LEMMA TopicsTyped == ASSUME Typed, NEW j \in Jobs, InsertCandidateCategories(j) PROVE Typed'
<1>1. job[j] \in JobStates /\ job[j] # Free /\ JobTags(j) \subseteq Tags
  BY JobTyped DEF InsertCandidateCategories
<1>2. topical' \in [Topics -> SUBSET Tags]
  BY <1>1 DEF Typed, TypeOK, InsertCandidateCategories
<1>3. job' \in [Jobs -> JobStates \cup {Free}] /\ JobsOK'
  BY <1>1 DEF Typed, TypeOK, JobsOK, JobOK, InsertCandidateCategories, JobStates
<1>. QED  BY <1>2, <1>3 DEF Typed, TypeOK, InsertCandidateCategories, db, history

LEMMA CountTyped == ASSUME Typed, NEW j \in Jobs, UpdateHashtagCount(j) PROVE Typed'
<1>. DEFINE n == job[j].next
            tags == TagsOf[job[j].tweet]
<1>1. /\ job[j] \in JobStates /\ job[j] # Free
      /\ DOMAIN tags = 1..Len(tags)
  BY JobTyped DEF UpdateHashtagCount
<1>2. n \in 1..Len(tags) /\ Len(tags) \in Nat /\ tags[n] \in Tags
  BY <1>1, TagsTyped DEF Typed, JobsOK, JobOK, JobStates, UpdateHashtagCount
<1>3. counted' \in [Tags -> Nat] /\ done' \in [Tags -> Nat]
  <2>1. counted' = [counted EXCEPT ![tags[n]] = counted[tags[n]] + 1]
    BY DEF UpdateHashtagCount
  <2>2. counted \in [Tags -> Nat] /\ done \in [Tags -> Nat]
    BY DEF Typed, TypeOK
  <2>3. done' = [h \in Tags |-> IF h \in JobTags(j) THEN done[h] + 1 ELSE done[h]] \/ done' = done
    BY DEF UpdateHashtagCount
  <2>4. done' \in [Tags -> Nat]
    BY <2>2, <2>3
  <2>. HIDE DEF n, tags
  <2>. QED  BY <1>2, <2>1, <2>2, <2>4
<1>4. job' \in [Jobs -> JobStates \cup {Free}] /\ JobsOK'
  <2>1. CASE n = Len(tags)
    BY <2>1, <1>1 DEF Typed, TypeOK, JobsOK, JobOK, UpdateHashtagCount
  <2>2. CASE n # Len(tags)
    <3>1. job' = [job EXCEPT ![j].next = n + 1] /\ n + 1 \in 1..Len(tags)
      BY <1>2, <2>2 DEF UpdateHashtagCount
    <3>2. [job[j] EXCEPT !.next = n + 1] \in JobStates
      BY <1>1, <3>1 DEF JobStates
    <3>3. job' \in [Jobs -> JobStates \cup {Free}]
      BY <3>1, <3>2 DEF Typed, TypeOK
    <3>4. JobsOK'
      BY <1>1, <3>1 DEF Typed, TypeOK, JobsOK, JobOK, JobStates, UpdateHashtagCount
    <3>. QED  BY <3>3, <3>4
  <2>. QED  BY <2>1, <2>2
<1>. QED  BY <1>3, <1>4 DEF Typed, TypeOK, UpdateHashtagCount, db

LEMMA FailTyped == ASSUME Typed, NEW j \in Jobs, Fail(j) PROVE Typed'
<1>1. job[j] \in JobStates
  BY DEF Typed, TypeOK, Fail
<1>2. job' \in [Jobs -> JobStates \cup {Free}] /\ JobsOK'
  <2>1. CASE job[j].left = 1
    BY <2>1 DEF Typed, TypeOK, JobsOK, JobOK, Fail
  <2>2. CASE job[j].left # 1
    <3>1. job' = [job EXCEPT ![j] = Active(job[j].tweet, job[j].time, job[j].left - 1)]
      BY <2>2 DEF Fail
    <3>2. job[j].left \in 1..Attempts /\ Attempts \in Nat
      BY <1>1, Naturals DEF JobStates
    <3>3. Active(job[j].tweet, job[j].time, job[j].left - 1) \in JobStates
      BY <1>1, <2>2, <3>2 DEF JobStates, Active
    <3>. QED  BY <3>1, <3>3 DEF Typed, TypeOK, JobsOK, JobOK, Active
  <2>. QED  BY <2>1, <2>2
<1>3. recounted' \subseteq Tags
  <2>1. CASE job[j].at = "counts"
    <3>1. job[j].next \in 1..Len(TagsOf[job[j].tweet]) /\ Len(TagsOf[job[j].tweet]) \in Nat
      BY <1>1, <2>1, TagsTyped, JobTyped DEF Typed, JobsOK, JobOK, JobStates
    <3>2. \A i \in 1..(job[j].next - 1) : TagsOf[job[j].tweet][i] \in Tags
      BY <1>1, <3>1, TagsTyped DEF JobStates
    <3>3. Counted(j) \subseteq Tags
      BY <3>2, <2>1 DEF Counted
    <3>. QED  BY <3>3 DEF Typed, TypeOK, Fail
  <2>2. CASE job[j].at # "counts"
    <3>1. Counted(j) = {}
      BY <2>2 DEF Counted
    <3>. QED  BY <3>1 DEF Typed, TypeOK, Fail
  <2>. QED  BY <2>1, <2>2
<1>. QED  BY <1>2, <1>3 DEF Typed, TypeOK, Fail, db, redis

LEMMA CalculateTyped == ASSUME Typed, NEW k \in Runs, Calculate(k) PROVE Typed'
<1>. DEFINE new == [since |-> now - Window, scored |-> {}, todo |-> Topics, at |-> "global",
                    active |-> {h \in Tags : last[h] # 0 /\ last[h] >= now - Window}]
<1>1. new \in RunStates
  BY Naturals DEF RunStates, Typed, TypeOK
<1>2. run' = [run EXCEPT ![k] = new]
  BY DEF Calculate
<1>. HIDE DEF new
<1>. QED  BY <1>1, <1>2 DEF Typed, TypeOK, JobsOK, JobOK, Calculate, db, redis, history

LEMMA RunTyped == ASSUME Typed, NEW k \in Runs, run[k].at # "idle" PROVE
    run[k] # Idle /\ run[k] \in RunStates
BY DEF Typed, TypeOK, Idle

LEMMA TopsSub == ASSUME NEW S, NEW T \in Tops(S) PROVE T \subseteq S
BY DEF Tops

LEMMA UpdateListTyped ==
  ASSUME Typed, NEW k \in Runs, NEW l \in Lists, NEW S \in SUBSET Tags, run[k] \in RunStates,
         UpdateTrendingList(k, l, S)
  PROVE  list' \in [Lists -> SUBSET Tags] /\ asOf' \in [Lists -> Int]
BY TopsSub DEF Typed, TypeOK, UpdateTrendingList, RunStates

LEMMA ScoreGlobalTyped == ASSUME Typed, NEW k \in Runs, ScoreGlobal(k) PROVE Typed'
<1>1. run[k] \in RunStates
  BY RunTyped DEF ScoreGlobal
<1>2. PICK S \in SUBSET {h \in run[k].active : counted[h] > 0} :
        /\ UpdateTrendingList(k, "global", S)
        /\ run' = [run EXCEPT ![k].scored = S, ![k].at = "topics"]
  BY DEF ScoreGlobal
<1>3. S \subseteq Tags
  BY <1>1, <1>2 DEF RunStates
<1>4. run' \in [Runs -> RunStates \cup {Idle}]
  BY <1>1, <1>2, <1>3 DEF Typed, TypeOK, RunStates
<1>5. list' \in [Lists -> SUBSET Tags] /\ asOf' \in [Lists -> Int]
  BY <1>1, <1>2, <1>3, UpdateListTyped DEF Lists
<1>. QED  BY <1>4, <1>5 DEF Typed, TypeOK, JobsOK, JobOK, ScoreGlobal, db

LEMMA ScoreTopicTyped ==
  ASSUME Typed, NEW k \in Runs, NEW c \in Topics, ScoreTopic(k, c) PROVE Typed'
<1>1. run[k] \in RunStates
  BY RunTyped DEF ScoreTopic
<1>2. run' \in [Runs -> RunStates \cup {Idle}]
  BY <1>1 DEF Typed, TypeOK, RunStates, ScoreTopic
<1>3. list' \in [Lists -> SUBSET Tags] /\ asOf' \in [Lists -> Int]
  <2>1. topical[c] \cap run[k].scored \in SUBSET Tags
    BY DEF Typed, TypeOK
  <2>2. CASE UNCHANGED <<list, asOf>>
    BY <2>2 DEF Typed, TypeOK
  <2>. QED  BY <1>1, <2>1, <2>2, UpdateListTyped DEF ScoreTopic, Lists
<1>. QED  BY <1>2, <1>3 DEF Typed, TypeOK, JobsOK, JobOK, ScoreTopic, db

LEMMA AbandonTyped == ASSUME Typed, NEW k \in Runs, Abandon(k) PROVE Typed'
BY DEF Typed, TypeOK, JobsOK, JobOK, Abandon, db, redis, history

LEMMA ServeTyped == ASSUME Typed, NEW r \in Requests, Serve(r) PROVE Typed'
<1>1. ASSUME NEW t \in Tweets, Post(r, t) \/ Edit(r, t) \/ Delete(r, t) PROVE Typed'
  BY <1>1, BeginTyped DEF Post, Edit, Delete
<1>2. CASE QueueHashtag(r) \/ SaveEdit(r)
  BY <1>2, QueueHashtagTyped, SaveEditTyped
<1>3. CASE Upsert(r) \/ CommitPost(r)
  BY <1>3, UpsertTyped, CommitPostTyped
<1>4. CASE Decrement(r) \/ CommitDelete(r)
  BY <1>4, DecrementTyped, CommitDeleteTyped
<1>5. CASE Stop(r)
  BY <1>5, EndsTyped DEF Stop
<1>. QED  BY <1>1, <1>2, <1>3, <1>4, <1>5 DEF Serve

LEMMA TypedNext == Typed /\ [Next]_vars => Typed'
<1>. SUFFICES ASSUME Typed, [Next]_vars PROVE Typed'
  OBVIOUS
<1>1. CASE Tick
  BY <1>1, TickTyped
<1>2. ASSUME NEW r \in Requests, Serve(r) PROVE Typed'
  BY <1>2, ServeTyped
<1>3. ASSUME NEW j \in Jobs, Work(j) PROVE Typed'
  BY <1>3, ActiveTyped, TopicsTyped, CountTyped, FailTyped DEF Work
<1>4. ASSUME NEW k \in Runs, Trend(k) PROVE Typed'
  BY <1>4, CalculateTyped, ScoreGlobalTyped, ScoreTopicTyped, AbandonTyped DEF Trend
<1>5. CASE UNCHANGED vars
  BY <1>5 DEF Typed, TypeOK, JobsOK, JobOK, vars, db, redis, history
<1>. QED  BY <1>1, <1>2, <1>3, <1>4, <1>5 DEF Next

THEOREM TypedAlways == Spec => []Typed
<1>1. Init => Typed
  BY TypedInit
<1>2. Typed /\ [Next]_vars => Typed'
  BY TypedNext
<1>. QED  BY <1>1, <1>2, PTL DEF Spec

\* Every variable keeps its type, and the associations are of tweets that are
\* there: they go with the row (cleanup_hashtags_on_tweet_delete).
THEOREM TypeCorrect == Spec => []TypeOK
<1>1. Typed => TypeOK
  BY DEF Typed
<1>. QED  BY <1>1, TypedAlways, PTL

-----------------------------------------------------------------------------
(* The counts of the hashtags *)

LEMMA DbInit == Init => DbInv
<1>. SUFFICES ASSUME Init PROVE DbInv
  OBVIOUS
<1>1. Typed
  BY TypedInit
<1>2. \A h \in Tags : Tagged(h) = {}
  BY DEF Init, Tagged
<1>3. RowsExact
  BY <1>2, FS_EmptySet DEF Init, RowsExact
<1>4. LocksOK
  BY DEF Init, LocksOK, ReqsOK, ReqOK, TookApart, OneAtATime
<1>. QED  BY <1>1, <1>3, <1>4 DEF DbInv

\* What the counts say depends on the tweets, their associations and the counts.
LEMMA UsageKept == ASSUME RowsExact, UNCHANGED db PROVE RowsExact'
BY DEF RowsExact, Tagged, Linked, TagsLeft, db

LEMMA LocksKept == ASSUME LocksOK, UNCHANGED <<db, req>> PROVE LocksOK'
BY DEF LocksOK, ReqsOK, ReqOK, TagsLeft, TookApart, OneAtATime, db

\* A request that ends without a commit.
LEMMA EndsHeld ==
  ASSUME DbInv, NEW r \in Requests, Ends(r), UNCHANGED db
  PROVE  LocksOK' /\ RowsExact'
<1>1. req' = [req EXCEPT ![r] = Idle] /\ req \in [Requests -> Tasks \cup {Idle}]
  BY DEF Ends, DbInv, Typed, TypeOK
<1>. QED  BY <1>1, UsageKept
  DEF DbInv, LocksOK, ReqsOK, ReqOK, TagsLeft, TookApart, OneAtATime, Idle, db

\* A request that begins with t.
LEMMA BeginHeld ==
  ASSUME DbInv, NEW r \in Requests, NEW t \in Tweets, NEW op, NEW at,
         Begin(r, op, t, at),
         \/ /\ op = "post" /\ at = "queue" /\ t \notin rows
            /\ \A s \in Requests : req[s] # Idle => req[s].tweet # t
         \/ op = "edit" /\ at = "queue" /\ t \in rows
         \/ op = "delete" /\ at = "tags" /\ t \in rows /\ \A s \in Requests : ~Has(s, "delete", t)
  PROVE  LocksOK' /\ RowsExact'
<1>. DEFINE new == [op |-> op, tweet |-> t, took |-> {}, at |-> at, had |-> [h \in Tags |-> 0]]
<1>1. req' = [req EXCEPT ![r] = new] /\ req[r] = Idle /\ req \in [Requests -> Tasks \cup {Idle}]
  BY DEF Begin, DbInv, Typed, TypeOK
<1>2. UNCHANGED db /\ RowsExact'
  BY UsageKept DEF Begin, DbInv
<1>3. /\ new.op = op /\ new.tweet = t /\ new.took = {} /\ new.at = at
      /\ \A s \in Requests \ {r} : req'[s] = req[s]
      /\ req'[r] = new
  BY <1>1
<1>. HIDE DEF new
<1>4. ReqsOK'
  BY <1>2, <1>3 DEF DbInv, LocksOK, ReqsOK, ReqOK, TagsLeft, db
<1>5. TookApart'
  BY <1>3 DEF DbInv, LocksOK, TookApart
<1>6. OneAtATime'
  BY <1>3 DEF DbInv, LocksOK, ReqsOK, ReqOK, OneAtATime, Has
<1>. QED  BY <1>2, <1>4, <1>5, <1>6 DEF LocksOK

\* A request that goes on without a lock.
LEMMA GoesHeld ==
  ASSUME DbInv, NEW r \in Requests, NEW at, req[r] # Idle, Goes(r, at), UNCHANGED db,
         \/ at = "tags" /\ req[r].op # "edit"
         \/ at = "save" /\ req[r].op = "edit"
         \/ at = "commit" /\ req[r].op # "edit" /\ req[r].took = TagsLeft(req[r].tweet)
  PROVE  LocksOK' /\ RowsExact'
<1>1. req[r] \in Tasks /\ req \in [Requests -> Tasks \cup {Idle}]
  BY DEF DbInv, Typed, TypeOK
<1>2. /\ req'[r].op = req[r].op /\ req'[r].tweet = req[r].tweet /\ req'[r].took = req[r].took
      /\ req'[r].had = req[r].had /\ req'[r].at = at
      /\ \A s \in Requests \ {r} : req'[s] = req[s]
  BY <1>1 DEF Goes, Tasks
<1>3. ReqsOK'
  BY <1>2 DEF DbInv, LocksOK, ReqsOK, ReqOK, TagsLeft, db
<1>4. TookApart'
  BY <1>2 DEF DbInv, LocksOK, TookApart
<1>5. OneAtATime'
  BY <1>2 DEF DbInv, LocksOK, OneAtATime
<1>. QED  BY <1>3, <1>4, <1>5, UsageKept DEF LocksOK, DbInv

\* A request that locks a row of its text.
LEMMA TakesHeld ==
  ASSUME DbInv, NEW r \in Requests, req[r] # Idle, NEW h \in TagsLeft(req[r].tweet),
         Takes(r, h), UNCHANGED db, At(r, "tags")
  PROVE  LocksOK' /\ RowsExact'
<1>1. req[r] \in Tasks /\ req \in [Requests -> Tasks \cup {Idle}] /\ h \in Tags
  BY TagsTyped DEF TagsLeft, DbInv, Typed, TypeOK, Tasks
<1>2. /\ req'[r].op = req[r].op /\ req'[r].tweet = req[r].tweet /\ req'[r].at = "tags"
      /\ req'[r].took = req[r].took \cup {h} /\ req'[r].had[h] = usage[h]
      /\ \A s \in Requests \ {r} : req'[s] = req[s]
      /\ \A g \in Tags : g # h => req'[r].had[g] = req[r].had[g]
  BY <1>1 DEF Takes, Take, Tasks, At
<1>3. ReqsOK'
  <2>1. ASSUME NEW s \in Requests \ {r} PROVE ReqOK(s)'
    BY <1>2, <2>1 DEF DbInv, LocksOK, ReqsOK, ReqOK, TagsLeft, db
  <2>2. ReqOK(r)'
    <3>1. req[r].took \subseteq Tags
      BY <1>1 DEF Tasks
    <3>. QED  BY <1>2, <3>1 DEF DbInv, LocksOK, ReqsOK, ReqOK, TagsLeft, db, At
  <2>. QED  BY <2>1, <2>2 DEF ReqsOK
<1>4. TookApart'
  BY <1>2 DEF DbInv, LocksOK, TookApart, Takes, Locked
<1>5. OneAtATime'
  BY <1>2 DEF DbInv, LocksOK, OneAtATime
<1>. QED  BY <1>3, <1>4, <1>5, UsageKept DEF LocksOK, DbInv

\* A commit leaves the rows of hashtags alone that others have locked.
LEMMA CommitHeld ==
  ASSUME DbInv, NEW r \in Requests, req[r] # Idle, Ends(r),
         \A h \in Tags \ req[r].took : usage'[h] = usage[h],
         \/ req[r].op \in {"post", "edit"} /\ rows' = rows \cup {req[r].tweet}
         \/ req[r].op = "delete" /\ rows' = rows \ {req[r].tweet},
         \A t \in Tweets \ {req[r].tweet} : t \in revived' <=> t \in revived,
         req[r].op = "edit" => (req[r].tweet \in rows => UNCHANGED revived)
  PROVE  LocksOK'
<1>1. /\ req'[r] = Idle /\ \A s \in Requests \ {r} : req'[s] = req[s]
      /\ req \in [Requests -> Tasks \cup {Idle}]
  BY DEF Ends, DbInv, Typed, TypeOK
<1>2. ASSUME NEW s \in Requests, s # r, req[s] # Idle PROVE ReqOK(s)'
  <2>1. req[s] \in Tasks /\ req'[s] = req[s] /\ ReqOK(s) /\ ReqOK(r)
    BY <1>1, <1>2 DEF DbInv, LocksOK, ReqsOK
  <2>2. \A h \in req[s].took : usage'[h] = usage[h]
    BY <1>2, <2>1 DEF DbInv, LocksOK, TookApart, Tasks
  <2>3. /\ req[s].op = "post" => req[s].tweet # req[r].tweet
        /\ req[s].op = "delete" /\ req[r].op = "delete" => req[s].tweet # req[r].tweet
    BY <1>2 DEF DbInv, LocksOK, OneAtATime
  <2>4. req[s].op = "post" => req[s].tweet \notin rows'
    BY <2>1, <2>3, <1>2 DEF ReqOK
  <2>5. req[s].op = "delete" => req[s].tweet \in rows'
    BY <2>1, <2>3, <1>2 DEF ReqOK
  <2>6. req[s].op # "edit" => TagsLeft(req[s].tweet)' = TagsLeft(req[s].tweet)
    <3>1. CASE req[s].tweet # req[r].tweet
      BY <2>1, <3>1 DEF TagsLeft, Tasks
    <3>2. CASE req[s].tweet = req[r].tweet /\ req[s].op = "delete"
      BY <1>2, <2>1, <2>3, <3>2 DEF TagsLeft, ReqOK, Tasks
    <3>. QED  BY <2>1, <2>3, <3>1, <3>2 DEF Tasks
  <2>. QED  BY <1>2, <2>1, <2>2, <2>4, <2>5, <2>6 DEF ReqOK
<1>3. ReqsOK'
  BY <1>1, <1>2 DEF ReqsOK, ReqOK
<1>4. TookApart' /\ OneAtATime'
  BY <1>1 DEF DbInv, LocksOK, TookApart, OneAtATime
<1>. QED  BY <1>3, <1>4 DEF LocksOK

\* An edit that finds its row, or that puts it back without hashtags.
LEMMA SaveEditHeld ==
  ASSUME DbInv, NEW r \in Requests, SaveEdit(r) PROVE LocksOK' /\ RowsExact'
<1>. DEFINE t == req[r].tweet
<1>1. /\ req[r] # Idle /\ req[r] \in Tasks /\ t \in Tweets /\ req[r].op = "edit"
      /\ links \subseteq rows \X Tags /\ rows \subseteq Tweets
  BY DEF DbInv, Typed, TypeOK, LocksOK, ReqsOK, ReqOK, SaveEdit, At, Idle, Tasks
<1>2. LocksOK'
  BY <1>1, CommitHeld DEF SaveEdit
<1>3. /\ rows' = rows \cup {t} /\ revived' = revived \cup ({t} \ rows)
      /\ links' = links /\ usage' = usage
  BY DEF SaveEdit
<1>. HIDE DEF t
<1>4. ASSUME NEW u \in rows' PROVE Linked(u)' = TagsLeft(u)'
  <2>1. CASE u \in rows
    BY <1>3, <2>1 DEF Linked, TagsLeft, DbInv, RowsExact
  <2>2. CASE u \notin rows
    BY <1>1, <1>3, <2>2 DEF Linked, TagsLeft
  <2>. QED  BY <2>1, <2>2
<1>5. RowsExact'
  BY <1>3, <1>4 DEF Tagged, DbInv, RowsExact
<1>. QED  BY <1>2, <1>5

LEMMA CommitPostHeld ==
  ASSUME DbInv, NEW r \in Requests, CommitPost(r) PROVE LocksOK' /\ RowsExact'
<1>. DEFINE t == req[r].tweet
            T == req[r].took
<1>1. /\ req[r] # Idle /\ req[r] \in Tasks /\ t \in Tweets /\ T \subseteq Tags
      /\ usage \in [Tags -> Int] /\ links \subseteq rows \X Tags /\ rows \subseteq Tweets
  BY DEF DbInv, Typed, TypeOK, CommitPost, At, Idle, Tasks
<1>2. /\ t \notin rows /\ t \notin revived /\ T = TagsIn(t)
      /\ \A h \in T : req[r].had[h] = usage[h]
  BY <1>1 DEF DbInv, Typed, TypeOK, LocksOK, ReqsOK, ReqOK, TagsLeft, CommitPost, At
<1>3. /\ rows' = rows \cup {t} /\ revived' = revived /\ links' = links \cup ({t} \X T)
      /\ \A h \in Tags : usage'[h] = IF h \in T THEN usage[h] + 1 ELSE usage[h]
  BY <1>2 DEF CommitPost
<1>4. LocksOK'
  BY <1>1, <1>3, CommitHeld DEF CommitPost
<1>. HIDE DEF t, T
<1>5. ASSUME NEW h \in Tags PROVE usage'[h] = Cardinality(Tagged(h)')
  <2>1. IsFiniteSet(Tagged(h)) /\ Cardinality(Tagged(h)) \in Nat
    BY TaggedFinite
  <2>2. usage[h] = Cardinality(Tagged(h)) /\ t \notin Tagged(h)
    BY <1>1, <1>2 DEF DbInv, RowsExact, Tagged
  <2>3. CASE h \in T
    <3>1. Tagged(h)' = Tagged(h) \cup {t}
      BY <1>1, <1>3, <2>3 DEF Tagged
    <3>. QED  BY <1>3, <2>1, <2>2, <2>3, <3>1, FS_AddElement
  <2>4. CASE h \notin T
    <3>1. Tagged(h)' = Tagged(h)
      BY <1>1, <1>3, <2>4 DEF Tagged
    <3>. QED  BY <1>3, <2>2, <2>4, <3>1
  <2>. QED  BY <2>3, <2>4
<1>6. ASSUME NEW u \in rows' PROVE Linked(u)' = TagsLeft(u)'
  <2>1. CASE u = t
    <3>1. Linked(u)' = T
      BY <1>1, <1>2, <1>3, <2>1 DEF Linked
    <3>. QED  BY <1>2, <1>3, <2>1, <3>1 DEF TagsLeft
  <2>2. CASE u # t
    <3>1. Linked(u)' = Linked(u) /\ u \in rows
      BY <1>3, <2>2 DEF Linked
    <3>. QED  BY <1>3, <3>1 DEF DbInv, RowsExact, TagsLeft
  <2>. QED  BY <2>1, <2>2
<1>. QED  BY <1>4, <1>5, <1>6 DEF RowsExact

LEMMA CommitDeleteHeld ==
  ASSUME DbInv, NEW r \in Requests, CommitDelete(r) PROVE LocksOK' /\ RowsExact'
<1>. DEFINE t == req[r].tweet
            T == req[r].took
            less == [h \in Tags |-> IF h \in T THEN req[r].had[h] - 1 ELSE usage[h]]
            Rest(h) == Tagged(h) \ {t}
<1>1. /\ req[r] # Idle /\ req[r] \in Tasks /\ t \in Tweets /\ T \subseteq Tags
      /\ usage \in [Tags -> Int] /\ links \subseteq rows \X Tags /\ rows \subseteq Tweets
  BY DEF DbInv, Typed, TypeOK, CommitDelete, At, Idle, Tasks
<1>2. t \in rows /\ T = TagsLeft(t) /\ \A h \in T : req[r].had[h] = usage[h]
  BY <1>1 DEF DbInv, LocksOK, ReqsOK, ReqOK, CommitDelete, At
<1>3. Linked(t) = T
  BY <1>2 DEF DbInv, RowsExact
<1>4. /\ rows' = rows \ {t} /\ revived' = revived \ {t}
      /\ usage' = [h \in Tags |-> IF less[h] <= 0 THEN 0 ELSE less[h]]
      /\ links' = {l \in links : l[1] # t /\ less[l[2]] > 0}
  BY DEF CommitDelete
<1>5. ASSUME NEW h \in Tags
      PROVE  IsFiniteSet(Rest(h)) /\ Cardinality(Rest(h)) \in Nat /\ less[h] = Cardinality(Rest(h))
  <2>1. IsFiniteSet(Tagged(h)) /\ Cardinality(Tagged(h)) \in Nat
        /\ usage[h] = Cardinality(Tagged(h))
    BY TaggedFinite DEF DbInv, RowsExact
  <2>2. CASE h \in T
    <3>1. t \in Tagged(h)
      BY <1>1, <1>3, <2>2 DEF Linked, Tagged
    <3>2. less[h] = usage[h] - 1
      BY <1>2, <2>2
    <3>. HIDE DEF less, t, T
    <3>. QED  BY <2>1, <3>1, <3>2, FS_RemoveElement, FS_CardinalityType
  <2>3. CASE h \notin T
    <3>1. Rest(h) = Tagged(h)
      BY <1>3, <2>3 DEF Linked, Tagged
    <3>. QED  BY <2>1, <2>3, <3>1
  <2>. QED  BY <2>2, <2>3
<1>. HIDE DEF less
<1>6. links' = {l \in links : l[1] # t}
  <2>1. ASSUME NEW l \in links, l[1] # t PROVE less[l[2]] > 0
    <3>1. l[1] \in Rest(l[2]) /\ l[2] \in Tags
      BY <1>1, <2>1 DEF Tagged
    <3>2. Cardinality(Rest(l[2])) # 0
      BY <1>5, <3>1, FS_EmptySet
    <3>. HIDE DEF Rest
    <3>. QED  BY <1>5, <3>1, <3>2
  <2>. QED  BY <1>4, <2>1
<1>7. ASSUME NEW h \in Tags PROVE Tagged(h)' = Rest(h)
  BY <1>1, <1>6 DEF Tagged
<1>8. ASSUME NEW h \in Tags PROVE usage'[h] = Cardinality(Rest(h))
  <2>. HIDE DEF Rest
  <2>. QED  BY <1>4, <1>5
<1>9. LocksOK'
  <2>1. ASSUME NEW h \in Tags \ T PROVE usage'[h] = usage[h]
    <3>1. Rest(h) = Tagged(h)
      BY <1>3, <2>1 DEF Linked, Tagged
    <3>. HIDE DEF Rest, t, T
    <3>. QED  BY <1>8, <3>1 DEF DbInv, RowsExact
  <2>. QED  BY <1>1, <1>4, <2>1, CommitHeld DEF CommitDelete
<1>10. ASSUME NEW u \in rows' PROVE Linked(u)' = TagsLeft(u)'
  <2>1. u # t /\ u \in rows
    BY <1>4
  <2>2. Linked(u)' = Linked(u)
    BY <1>6, <2>1 DEF Linked
  <2>. QED  BY <1>4, <2>1, <2>2 DEF DbInv, RowsExact, TagsLeft
<1>. QED
  <2>1. \A h \in Tags : usage'[h] = Cardinality(Tagged(h)')
    BY <1>7, <1>8
  <2>. QED  BY <1>9, <1>10, <2>1 DEF RowsExact

LEMMA QueueHashtagHeld ==
  ASSUME DbInv, NEW r \in Requests, QueueHashtag(r) PROVE LocksOK' /\ RowsExact'
<1>1. req[r] # Idle /\ UNCHANGED db
  BY DEF QueueHashtag, At, Idle
<1>2. req[r].op # "post" => req[r].op = "edit"
  BY <1>1 DEF DbInv, Typed, TypeOK, Tasks, LocksOK, ReqsOK, ReqOK, QueueHashtag, At
<1>. QED  BY <1>1, <1>2, GoesHeld DEF QueueHashtag

LEMMA UpsertHeld ==
  ASSUME DbInv, NEW r \in Requests, Upsert(r) PROVE LocksOK' /\ RowsExact'
<1>. DEFINE text == TagsOf[req[r].tweet]
            todo == {i \in DOMAIN text : text[i] \notin req[r].took}
<1>1. req[r] # Idle /\ UNCHANGED db /\ At(r, "tags") /\ req[r].op = "post" /\ ReqOK(r)
  BY DEF Upsert, At, Idle, DbInv, LocksOK, ReqsOK
<1>2. TagsLeft(req[r].tweet) = TagsIn(req[r].tweet)
  BY <1>1 DEF ReqOK, TagsLeft, DbInv, Typed, TypeOK
<1>3. ASSUME NEW i \in DOMAIN text, Takes(r, text[i]) PROVE LocksOK' /\ RowsExact'
  <2>1. text[i] \in TagsIn(req[r].tweet)
    BY DEF TagsIn, Elements
  <2>. QED  BY <1>1, <1>2, <1>3, <2>1, TakesHeld
<1>4. CASE todo = {} /\ Goes(r, "commit")
  <2>1. req[r].took = TagsLeft(req[r].tweet)
    BY <1>1, <1>2, <1>4 DEF ReqOK, TagsIn, Elements
  <2>. QED  BY <1>1, <1>4, <2>1, GoesHeld
<1>. QED  BY <1>3, <1>4 DEF Upsert

LEMMA DecrementHeld ==
  ASSUME DbInv, NEW r \in Requests, Decrement(r) PROVE LocksOK' /\ RowsExact'
<1>1. req[r] # Idle /\ UNCHANGED db /\ At(r, "tags") /\ req[r].op = "delete" /\ ReqOK(r)
  BY DEF Decrement, At, Idle, DbInv, LocksOK, ReqsOK
<1>2. Linked(req[r].tweet) = TagsLeft(req[r].tweet)
  BY <1>1 DEF ReqOK, DbInv, RowsExact
<1>3. ASSUME NEW h \in Linked(req[r].tweet), Takes(r, h) PROVE LocksOK' /\ RowsExact'
  BY <1>1, <1>2, <1>3, TakesHeld
<1>4. CASE Linked(req[r].tweet) \ req[r].took = {} /\ Goes(r, "commit")
  <2>1. req[r].took = TagsLeft(req[r].tweet)
    BY <1>1, <1>2, <1>4 DEF ReqOK
  <2>. QED  BY <1>1, <1>4, <2>1, GoesHeld
<1>. QED  BY <1>3, <1>4 DEF Decrement

LEMMA ServeHeld == ASSUME DbInv, NEW r \in Requests, Serve(r) PROVE LocksOK' /\ RowsExact'
<1>1. ASSUME NEW t \in Tweets, Post(r, t) \/ Edit(r, t) \/ Delete(r, t)
      PROVE  LocksOK' /\ RowsExact'
  BY <1>1, BeginHeld DEF Post, Edit, Delete
<1>2. CASE QueueHashtag(r) \/ SaveEdit(r) \/ Upsert(r) \/ Decrement(r)
  BY <1>2, QueueHashtagHeld, SaveEditHeld, UpsertHeld, DecrementHeld
<1>3. CASE CommitPost(r) \/ CommitDelete(r)
  BY <1>3, CommitPostHeld, CommitDeleteHeld
<1>4. CASE Stop(r)
  BY <1>4, EndsHeld DEF Stop
<1>. QED  BY <1>1, <1>2, <1>3, <1>4 DEF Serve

LEMMA DbNext == DbInv /\ [Next]_vars => DbInv'
<1>. SUFFICES ASSUME DbInv, [Next]_vars PROVE DbInv'
  OBVIOUS
<1>1. Typed'
  BY TypedNext DEF DbInv
<1>2. ASSUME NEW r \in Requests, Serve(r) PROVE LocksOK' /\ RowsExact'
  BY <1>2, ServeHeld
<1>3. CASE UNCHANGED <<db, req>>
  BY <1>1, <1>3, LocksKept, UsageKept DEF DbInv
<1>4. Tick \/ (\E j \in Jobs : Work(j)) \/ (\E k \in Runs : Trend(k)) \/ UNCHANGED vars
        => UNCHANGED <<db, req>>
  BY DEF Tick, Work, Trend, InsertCandidateHashtags, InsertCandidateCategories,
         UpdateHashtagCount, Fail, Calculate, ScoreGlobal, ScoreTopic, Abandon, vars
<1>. QED  BY <1>1, <1>2, <1>3, <1>4 DEF Next, DbInv

\* updateHashtags, updateTweet and the trigger: every usage_count is the number
\* of tweets with the hashtag, and every tweet keeps the hashtags it was posted
\* with, or has none once an edit has put it back, for any number of requests
\* that post, edit and delete at the same time.
THEOREM UsageIsExact == Spec => []UsageExact
<1>1. Init => DbInv
  BY DbInit
<1>2. DbInv /\ [Next]_vars => DbInv'
  BY DbNext
<1>3. DbInv => UsageExact
  BY DEF DbInv, RowsExact, TagsLeft, TagsIn, UsageExact
<1>. QED  BY <1>1, <1>2, <1>3, PTL DEF Spec

-----------------------------------------------------------------------------
(* The counts of the trends *)

Counting(h) == {j \in Jobs : h \in Counted(j)}

LEMMA CountingFinite == ASSUME NEW h PROVE
    IsFiniteSet(Counting(h)) /\ Cardinality(Counting(h)) \in Nat
BY FinitelyMany, FS_Subset, FS_CardinalityType DEF Counting

\* A step that counts nothing; it may forget what an attempt has counted.
LEMMA CountsKept ==
  ASSUME JobInv, UNCHANGED <<counted, done>>, recounted \subseteq recounted',
         \A j \in Jobs : \A h \in Tags \ recounted' : h \in Counted(j)' <=> h \in Counted(j)
  PROVE  CountsExact'
<1>. SUFFICES ASSUME NEW h \in Tags \ recounted'
              PROVE  counted[h] = done[h] + Cardinality(Counting(h)')
  BY DEF CountsExact, Counting
<1>1. Counting(h)' = Counting(h)
  BY DEF Counting
<1>. QED  BY <1>1 DEF JobInv, CountsExact, Counting

LEMMA OthersCounts ==
  ASSUME JobInv, UNCHANGED <<counted, done, recounted, job>> PROVE CountsExact'
BY CountsKept DEF Counted

\* A step of a job that begins or ends without having counted.
LEMMA JobCountsNothing ==
  ASSUME JobInv, NEW j \in Jobs, UNCHANGED <<counted, done, recounted>>,
         \A i \in Jobs \ {j} : job'[i] = job[i], Counted(j) = {}, Counted(j)' = {}
  PROVE  CountsExact'
<1>1. \A i \in Jobs \ {j} : Counted(i)' = Counted(i)
  BY DEF Counted
<1>. QED  BY <1>1, CountsKept

LEMMA QueueHashtagCounts ==
  ASSUME JobInv, NEW r \in Requests, QueueHashtag(r) PROVE CountsExact'
<1>1. UNCHANGED <<counted, done, recounted>> /\ job \in [Jobs -> JobStates \cup {Free}]
  BY DEF QueueHashtag, redis, history, JobInv, Typed, TypeOK
<1>2. ASSUME NEW j \in Jobs, NEW t \in Texts(r), job[j] = Free,
             job' = [job EXCEPT ![j] = Active(t, now, Attempts)]
      PROVE  CountsExact'
  BY <1>1, <1>2, JobCountsNothing DEF Counted, Active, Free
<1>. QED  BY <1>1, <1>2, OthersCounts DEF QueueHashtag

LEMMA ActiveCounts ==
  ASSUME JobInv, NEW j \in Jobs, InsertCandidateHashtags(j) \/ InsertCandidateCategories(j)
  PROVE  CountsExact'
<1>1. /\ job \in [Jobs -> JobStates \cup {Free}] /\ job[j] # Free /\ JobOK(j)
      /\ job[j] \in JobStates /\ job[j].at # "counts"
  BY JobTyped DEF InsertCandidateHashtags, InsertCandidateCategories, JobInv, Typed, TypeOK, JobsOK
<1>2. /\ UNCHANGED <<counted, done, recounted>> /\ job'[j].next = job[j].next
      /\ \A i \in Jobs \ {j} : job'[i] = job[i]
  BY <1>1 DEF InsertCandidateHashtags, InsertCandidateCategories, history, JobStates
<1>3. job[j].next = 1
  BY <1>1 DEF JobOK
<1>4. Counted(j) = {} /\ Counted(j)' = {}
  BY <1>1, <1>2, <1>3 DEF Counted
<1>. QED  BY <1>2, <1>4, JobCountsNothing

LEMMA FailCounts == ASSUME JobInv, NEW j \in Jobs, Fail(j) PROVE CountsExact'
<1>1. /\ job \in [Jobs -> JobStates \cup {Free}] /\ UNCHANGED <<counted, done>>
      /\ recounted' = recounted \cup Counted(j)
  BY DEF JobInv, Typed, TypeOK, Fail, redis
<1>2. \A i \in Jobs \ {j} : Counted(i)' = Counted(i)
  BY <1>1 DEF Counted, Fail
<1>3. Counted(j)' = {}
  BY <1>1 DEF Counted, Fail, Active, Free
<1>. QED  BY <1>1, <1>2, <1>3, CountsKept

LEMMA UpdateCounts == ASSUME JobInv, NEW j \in Jobs, UpdateHashtagCount(j) PROVE CountsExact'
<1>. DEFINE n == job[j].next
            tags == TagsOf[job[j].tweet]
            g == tags[n]
<1>1. /\ job \in [Jobs -> JobStates \cup {Free}] /\ job[j] # Free /\ job[j] \in JobStates
      /\ JobTags(j) \subseteq Tags /\ job[j].tweet \in Tweets /\ JobOK(j)
      /\ counted \in [Tags -> Nat] /\ done \in [Tags -> Nat]
  BY JobTyped DEF UpdateHashtagCount, JobInv, Typed, TypeOK, JobsOK, JobStates
<1>2. /\ n \in 1..Len(tags) /\ Len(tags) \in Nat /\ g \in Tags
      /\ \A i, k \in 1..Len(tags) : tags[i] = tags[k] => i = k
      /\ DOMAIN tags = 1..Len(tags)
  BY <1>1, TagsTyped DEF JobOK, UpdateHashtagCount, JobStates
<1>3. Counted(j) = {tags[i] : i \in 1..(n - 1)} /\ JobTags(j) = {tags[i] : i \in 1..Len(tags)}
  BY <1>2 DEF Counted, JobTags, Elements, UpdateHashtagCount
<1>4. g \notin Counted(j) /\ g \in JobTags(j)
  BY <1>2, <1>3
<1>5. /\ counted' = [counted EXCEPT ![g] = counted[g] + 1] /\ recounted' = recounted
      /\ \A i \in Jobs \ {j} : job'[i] = job[i]
  <2>1. job' = [job EXCEPT ![j] = Free] \/ job' = [job EXCEPT ![j].next = n + 1]
    BY DEF UpdateHashtagCount
  <2>2. \A i \in Jobs \ {j} : job'[i] = job[i]
    BY <1>1, <2>1
  <2>. QED  BY <2>2 DEF UpdateHashtagCount
<1>6. \A i \in Jobs \ {j} : Counted(i)' = Counted(i)
  BY <1>5 DEF Counted
<1>7. ASSUME n = Len(tags) PROVE
        /\ Counted(j)' = {} /\ JobTags(j) = Counted(j) \cup {g}
        /\ done' = [h \in Tags |-> IF h \in JobTags(j) THEN done[h] + 1 ELSE done[h]]
  <2>1. /\ job'[j] = Free
        /\ done' = [h \in Tags |-> IF h \in JobTags(j) THEN done[h] + 1 ELSE done[h]]
    BY <1>1, <1>7 DEF UpdateHashtagCount
  <2>2. Counted(j)' = {}
    BY <2>1 DEF Counted, Free
  <2>3. JobTags(j) = Counted(j) \cup {g}
    BY <1>2, <1>3, <1>7
  <2>. QED  BY <2>1, <2>2, <2>3
<1>8. ASSUME n # Len(tags) PROVE Counted(j)' = Counted(j) \cup {g} /\ done' = done
  <2>1. /\ job'[j].next = n + 1 /\ job'[j].at = "counts" /\ job'[j].tweet = job[j].tweet
        /\ done' = done
    BY <1>1, <1>8 DEF UpdateHashtagCount, JobStates
  <2>2. Counted(j)' = {tags[i] : i \in 1..n}
    BY <1>2, <2>1 DEF Counted
  <2>. QED  BY <1>2, <1>3, <2>1, <2>2
<1>. HIDE DEF n, tags, g
<1>. SUFFICES ASSUME NEW h \in Tags \ recounted'
              PROVE  counted'[h] = done'[h] + Cardinality(Counting(h)')
  BY DEF CountsExact, Counting
<1>9. /\ counted[h] = done[h] + Cardinality(Counting(h)) /\ h \in Tags
      /\ IsFiniteSet(Counting(h)) /\ Cardinality(Counting(h)) \in Nat
      /\ j \in Counting(h) <=> h \in Counted(j)
  BY <1>5, CountingFinite DEF JobInv, CountsExact, Counting
<1>10. CASE n = Len(tags) /\ h \in Counted(j)
  <2>1. Counting(h)' = Counting(h) \ {j}
    BY <1>6, <1>7, <1>10 DEF Counting
  <2>2. Cardinality(Counting(h)') = Cardinality(Counting(h)) - 1
    BY <1>9, <1>10, <2>1, FS_RemoveElement
  <2>3. counted'[h] = counted[h] /\ done'[h] = done[h] + 1
    BY <1>1, <1>4, <1>5, <1>7, <1>9, <1>10
  <2>. QED  BY <1>1, <1>9, <2>2, <2>3
<1>11. CASE n = Len(tags) /\ h \notin Counted(j)
  <2>1. Counting(h)' = Counting(h)
    BY <1>6, <1>7, <1>9, <1>11 DEF Counting
  <2>2. CASE h = g
    <3>1. counted'[h] = counted[h] + 1 /\ done'[h] = done[h] + 1
      BY <1>1, <1>4, <1>5, <1>7, <1>9, <1>11, <2>2
    <3>. QED  BY <1>1, <1>9, <2>1, <3>1
  <2>3. CASE h # g
    <3>1. counted'[h] = counted[h] /\ done'[h] = done[h]
      BY <1>1, <1>4, <1>5, <1>7, <1>9, <1>11, <2>3
    <3>. QED  BY <1>9, <2>1, <3>1
  <2>. QED  BY <2>2, <2>3
<1>12. CASE n # Len(tags) /\ h = g
  <2>1. Counting(h)' = Counting(h) \cup {j}
    BY <1>6, <1>8, <1>12 DEF Counting
  <2>2. Cardinality(Counting(h)') = Cardinality(Counting(h)) + 1
    BY <1>4, <1>9, <1>12, <2>1, FS_AddElement
  <2>3. counted'[h] = counted[h] + 1 /\ done'[h] = done[h]
    BY <1>1, <1>5, <1>8, <1>9, <1>12
  <2>. QED  BY <1>1, <1>9, <2>2, <2>3
<1>13. CASE n # Len(tags) /\ h # g
  <2>1. Counting(h)' = Counting(h)
    BY <1>6, <1>8, <1>13 DEF Counting
  <2>2. counted'[h] = counted[h] /\ done'[h] = done[h]
    BY <1>1, <1>5, <1>8, <1>9, <1>13
  <2>. QED  BY <1>9, <2>1, <2>2
<1>. QED  BY <1>10, <1>11, <1>12, <1>13

LEMMA JobInit == Init => JobInv
<1>. SUFFICES ASSUME Init PROVE JobInv
  OBVIOUS
<1>1. \A h \in Tags : Counting(h) = {}
  BY DEF Init, Counting, Counted, Free
<1>2. \A h \in Tags : Cardinality(Counting(h)) = 0
  BY <1>1, FS_EmptySet
<1>3. CountsExact
  BY <1>2 DEF Init, CountsExact, Counting
<1>. QED  BY <1>3, TypedInit DEF JobInv

LEMMA JobNext == JobInv /\ [Next]_vars => JobInv'
<1>. SUFFICES ASSUME JobInv, [Next]_vars PROVE CountsExact'
  BY TypedNext DEF JobInv
<1>1. ASSUME NEW r \in Requests, Serve(r) PROVE CountsExact'
  <2>1. CASE QueueHashtag(r)
    BY <2>1, QueueHashtagCounts
  <2>2. CASE UNCHANGED <<counted, done, recounted, job>>
    BY <2>2, OthersCounts
  <2>3. ASSUME ~QueueHashtag(r) PROVE UNCHANGED <<counted, done, recounted, job>>
    BY <1>1, <2>3 DEF Serve, Post, Edit, Delete, Begin, SaveEdit, Upsert, CommitPost,
                      Decrement, CommitDelete, Stop, redis, history
  <2>. QED  BY <2>1, <2>2, <2>3
<1>2. ASSUME NEW j \in Jobs, Work(j) PROVE CountsExact'
  BY <1>2, ActiveCounts, UpdateCounts, FailCounts DEF Work
<1>3. CASE Tick \/ (\E k \in Runs : Trend(k)) \/ UNCHANGED vars
  BY <1>3, OthersCounts DEF Tick, Trend, Calculate, ScoreGlobal, ScoreTopic, Abandon,
                            vars, redis, history
<1>. QED  BY <1>1, <1>2, <1>3 DEF Next

\* HashtagProcessor: with any number of jobs, a hashtag is counted once for every
\* job that is done with it, unless an attempt failed after counting it.
THEOREM CountsAreExact == Spec => []CountsExact
<1>1. Init => JobInv
  BY JobInit
<1>2. JobInv /\ [Next]_vars => JobInv'
  BY JobNext
<1>3. JobInv => CountsExact
  BY DEF JobInv
<1>. QED  BY <1>1, <1>2, <1>3, PTL DEF Spec

-----------------------------------------------------------------------------
(* The lists *)

LEMMA ListInit == Init => ListInv
BY TypedInit DEF Init, ListInv, RunsOK, RunOK, LastSeen, Listed, Lists

\* A post that is noted, a count or a candidate never takes one off a list.
LEMMA ListsKept ==
  ASSUME ListInv, Typed', UNCHANGED <<list, asOf>>,
         \A h \in Tags : seen'[h] >= seen[h] /\ counted'[h] >= counted[h],
         \A c \in Topics : topical[c] \subseteq topical'[c]
  PROVE  Listed'
<1>. SUFFICES ASSUME NEW l \in Lists, NEW h \in list[l]
              PROVE  /\ seen'[h] >= asOf[l] /\ counted'[h] > 0
                     /\ l # "global" => h \in topical'[l]
  BY DEF Listed
<1>1. h \in Tags /\ asOf[l] \in Int /\ {seen[h], seen'[h], counted[h], counted'[h]} \subseteq Int
  BY DEF ListInv, Typed, TypeOK, Lists
<1>2. seen[h] >= asOf[l] /\ counted[h] > 0 /\ (l # "global" => h \in topical[l])
  BY DEF ListInv, Listed
<1>. QED  BY <1>1, <1>2 DEF Lists

LEMMA RunsKept ==
  ASSUME ListInv, Typed', NEW k \in Runs, run'[k] = run[k],
         \A h \in Tags : seen'[h] >= seen[h] /\ counted'[h] >= counted[h]
  PROVE  RunOK(k)'
<1>. SUFFICES ASSUME run[k] # Idle PROVE
        /\ \A h \in run[k].active : seen'[h] >= run[k].since
        /\ run[k].scored \subseteq run[k].active
        /\ \A h \in run[k].scored : counted'[h] > 0
  BY DEF RunOK
<1>1. run[k] \in RunStates /\ RunOK(k)
  BY DEF ListInv, Typed, TypeOK, RunsOK
<1>2. \A h \in Tags : {seen[h], seen'[h], counted[h], counted'[h]} \subseteq Int
  BY DEF ListInv, Typed, TypeOK
<1>. QED  BY <1>1, <1>2 DEF RunOK, RunStates

\* Steps of requests, jobs and the clock.
LEMMA NoRun ==
  ASSUME ListInv, Typed', UNCHANGED <<run, list, asOf>>,
         \A h \in Tags : seen'[h] >= seen[h] /\ counted'[h] >= counted[h] /\ last'[h] <= seen'[h],
         \A c \in Topics : topical[c] \subseteq topical'[c]
  PROVE  ListInv'
BY ListsKept, RunsKept DEF ListInv, RunsOK, LastSeen

LEMMA StaysListed ==
  ASSUME ListInv, Typed', UNCHANGED <<redis, run, seen, asOf>> PROVE ListInv'
<1>1. \A h \in Tags : seen[h] >= seen[h] /\ counted[h] >= counted[h] /\ last[h] <= seen[h]
  BY DEF ListInv, LastSeen, Typed, TypeOK
<1>. QED  BY <1>1, NoRun DEF redis

LEMMA WorkLists == ASSUME ListInv, Typed', NEW j \in Jobs, Work(j) PROVE ListInv'
<1>1. /\ \A h \in Tags : {seen[h], counted[h], last[h]} \subseteq Nat /\ last[h] <= seen[h]
      /\ last \in [Tags -> 0..MaxTime] /\ seen \in [Tags -> 0..MaxTime]
      /\ counted \in [Tags -> Nat] /\ MaxTime \in Nat
  BY Naturals DEF ListInv, LastSeen, Typed, TypeOK
<1>2. CASE InsertCandidateHashtags(j)
  <2>1. job[j] \in JobStates
    BY <1>2, JobTyped DEF ListInv, InsertCandidateHashtags
  <2>2. \A h \in Tags : seen'[h] >= seen[h] /\ last'[h] <= seen'[h]
    BY <1>1, <1>2, <2>1 DEF InsertCandidateHashtags, JobStates
  <2>. QED  BY <1>1, <1>2, <2>2, NoRun DEF InsertCandidateHashtags
<1>3. CASE InsertCandidateCategories(j)
  <2>1. \A c \in Topics : topical[c] \subseteq topical'[c]
    BY <1>3 DEF InsertCandidateCategories
  <2>. QED  BY <1>1, <1>3, <2>1, NoRun DEF InsertCandidateCategories, history
<1>4. CASE UpdateHashtagCount(j)
  <2>1. PICK g : counted' = [counted EXCEPT ![g] = counted[g] + 1]
    BY <1>4 DEF UpdateHashtagCount
  <2>2. \A h \in Tags : counted'[h] >= counted[h]
    BY <1>1, <2>1
  <2>. QED  BY <1>1, <1>4, <2>2, NoRun DEF UpdateHashtagCount
<1>5. CASE Fail(j)
  BY <1>5, StaysListed DEF Fail
<1>. QED  BY <1>2, <1>3, <1>4, <1>5 DEF Work

\* A calculation that changes no list.
LEMMA RunsOnly ==
  ASSUME ListInv, Typed', NEW k \in Runs, UNCHANGED <<redis, seen, asOf>>,
         \A i \in Runs \ {k} : run'[i] = run[i], RunOK(k)'
  PROVE  ListInv'
<1>1. \A h \in Tags : seen[h] >= seen[h] /\ counted[h] >= counted[h]
  BY DEF ListInv, Typed, TypeOK
<1>2. Listed'
  BY <1>1, ListsKept DEF redis
<1>3. RunsOK'
  BY <1>1, RunsKept DEF RunsOK, redis
<1>. QED  BY <1>2, <1>3 DEF ListInv, LastSeen, redis

LEMMA CalculateLists ==
  ASSUME ListInv, Typed', NEW k \in Runs, Calculate(k) PROVE ListInv'
<1>. DEFINE new == [since |-> now - Window, scored |-> {}, todo |-> Topics, at |-> "global",
                    active |-> {h \in Tags : last[h] # 0 /\ last[h] >= now - Window}]
<1>1. run' = [run EXCEPT ![k] = new] /\ run \in [Runs -> RunStates \cup {Idle}]
      /\ UNCHANGED <<redis, seen, asOf>>
  BY DEF Calculate, ListInv, Typed, TypeOK, history
<1>2. \A h \in new.active : seen[h] >= new.since
  BY Naturals DEF ListInv, LastSeen, Typed, TypeOK
<1>3. RunOK(k)'
  <2>1. run'[k] = new /\ new.scored = {}
    BY <1>1
  <2>. HIDE DEF new
  <2>. QED  BY <1>1, <1>2, <2>1 DEF RunOK, history
<1>. QED  BY <1>1, <1>3, RunsOnly

\* updateTrendingList keeps the lists right when what it shows is.
LEMMA UpdateListKept ==
  ASSUME ListInv, Typed', NEW k \in Runs, NEW l \in Lists, NEW S \in SUBSET Tags,
         run[k] \in RunStates, UpdateTrendingList(k, l, S), UNCHANGED <<seen, counted, topical>>,
         \A h \in S : seen[h] >= run[k].since /\ counted[h] > 0,
         l # "global" => S \subseteq topical[l]
  PROVE  Listed'
<1>1. CASE S = {}
  BY <1>1 DEF UpdateTrendingList, ListInv, Listed
<1>2. CASE S # {}
  <2>1. PICK T \in Tops(S) : list' = [list EXCEPT ![l] = T] /\ asOf' = [asOf EXCEPT ![l] = run[k].since]
    BY <1>2 DEF UpdateTrendingList
  <2>2. T \subseteq S
    BY TopsSub
  <2>3. list'[l] = T /\ asOf'[l] = run[k].since
        /\ \A i \in Lists \ {l} : list'[i] = list[i] /\ asOf'[i] = asOf[i]
    BY <2>1 DEF ListInv, Typed, TypeOK
  <2>. QED  BY <2>2, <2>3 DEF ListInv, Listed
<1>. QED  BY <1>1, <1>2

LEMMA RunsStay ==
  ASSUME ListInv, Typed', NEW k \in Runs, UNCHANGED <<seen, counted, last>>,
         \A i \in Runs \ {k} : run'[i] = run[i], RunOK(k)', Listed'
  PROVE  ListInv'
<1>1. \A h \in Tags : seen[h] >= seen[h] /\ counted[h] >= counted[h]
  BY DEF ListInv, Typed, TypeOK
<1>2. RunsOK'
  BY <1>1, RunsKept DEF RunsOK
<1>. QED  BY <1>2 DEF ListInv, LastSeen

LEMMA ScoreGlobalLists ==
  ASSUME ListInv, Typed', NEW k \in Runs, ScoreGlobal(k) PROVE ListInv'
<1>1. /\ run[k] # Idle /\ run[k] \in RunStates /\ RunOK(k)
      /\ run \in [Runs -> RunStates \cup {Idle}] /\ UNCHANGED <<seen, counted, topical, last>>
  BY RunTyped DEF ScoreGlobal, ListInv, Typed, TypeOK, RunsOK
<1>2. PICK S \in SUBSET {h \in run[k].active : counted[h] > 0} :
        /\ UpdateTrendingList(k, "global", S)
        /\ run' = [run EXCEPT ![k].scored = S, ![k].at = "topics"]
  BY DEF ScoreGlobal
<1>3. S \subseteq Tags /\ S \subseteq run[k].active /\ \A h \in S : counted[h] > 0
  BY <1>1, <1>2 DEF RunStates
<1>4. Listed'
  BY <1>1, <1>2, <1>3, UpdateListKept DEF RunOK, Lists
<1>5. /\ run'[k].scored = S /\ run'[k].active = run[k].active /\ run'[k].since = run[k].since
      /\ \A i \in Runs \ {k} : run'[i] = run[i]
  BY <1>1, <1>2 DEF RunStates
<1>6. RunOK(k)'
  BY <1>1, <1>3, <1>5 DEF RunOK
<1>. QED  BY <1>1, <1>4, <1>5, <1>6, RunsStay

LEMMA ScoreTopicLists ==
  ASSUME ListInv, Typed', NEW k \in Runs, NEW c \in Topics, ScoreTopic(k, c) PROVE ListInv'
<1>1. /\ run[k] # Idle /\ run[k] \in RunStates /\ RunOK(k)
      /\ run \in [Runs -> RunStates \cup {Idle}] /\ UNCHANGED <<seen, counted, topical, last>>
  BY RunTyped DEF ScoreTopic, ListInv, Typed, TypeOK, RunsOK
<1>2. Listed'
  <2>1. CASE UNCHANGED <<list, asOf>>
    BY <1>1, <2>1 DEF ListInv, Listed
  <2>2. CASE UpdateTrendingList(k, c, topical[c] \cap run[k].scored)
    <3>. DEFINE S == topical[c] \cap run[k].scored
    <3>1. S \in SUBSET Tags /\ S \subseteq topical[c] /\ c \in Lists
      BY DEF ListInv, Typed, TypeOK, Lists
    <3>2. \A h \in S : seen[h] >= run[k].since /\ counted[h] > 0
      BY <1>1 DEF RunOK
    <3>. HIDE DEF S
    <3>3. UpdateTrendingList(k, c, S)
      BY <2>2 DEF S
    <3>. QED  BY <1>1, <3>1, <3>2, <3>3, UpdateListKept
  <2>. QED  BY <2>1, <2>2 DEF ScoreTopic
<1>3. /\ \A i \in Runs \ {k} : run'[i] = run[i]
      /\ run'[k] = Idle \/ run'[k] = [run[k] EXCEPT !.todo = run[k].todo \ {c}]
  BY <1>1 DEF ScoreTopic
<1>4. RunOK(k)'
  <2>1. CASE run'[k] = Idle
    BY <2>1 DEF RunOK
  <2>2. CASE run'[k] = [run[k] EXCEPT !.todo = run[k].todo \ {c}]
    <3>1. /\ run'[k].active = run[k].active /\ run'[k].scored = run[k].scored
          /\ run'[k].since = run[k].since
      BY <1>1, <2>2 DEF RunStates
    <3>. QED  BY <1>1, <3>1 DEF RunOK
  <2>. QED  BY <1>3, <2>1, <2>2
<1>. QED  BY <1>1, <1>2, <1>3, <1>4, RunsStay

LEMMA ListNext == ListInv /\ [Next]_vars => ListInv'
<1>. SUFFICES ASSUME ListInv, [Next]_vars PROVE ListInv'
  OBVIOUS
<1>1. Typed'
  BY TypedNext DEF ListInv
<1>2. CASE Tick \/ (\E r \in Requests : Serve(r)) \/ UNCHANGED vars
  <2>1. UNCHANGED <<redis, run, seen, asOf>>
    BY <1>2 DEF Tick, Serve, Post, Edit, Delete, Begin, QueueHashtag, SaveEdit, Upsert,
                CommitPost, Decrement, CommitDelete, Stop, vars, history
  <2>. QED  BY <1>1, <2>1, StaysListed
<1>3. ASSUME NEW j \in Jobs, Work(j) PROVE ListInv'
  BY <1>1, <1>3, WorkLists
<1>4. ASSUME NEW k \in Runs, Trend(k) PROVE ListInv'
  <2>1. CASE Abandon(k)
    <3>1. run'[k] = Idle /\ (\A i \in Runs \ {k} : run'[i] = run[i]) /\ UNCHANGED <<redis, seen, asOf>>
      BY <2>1 DEF Abandon, ListInv, Typed, TypeOK, history
    <3>2. RunOK(k)'
      BY <3>1 DEF RunOK
    <3>. QED  BY <1>1, <3>1, <3>2, RunsOnly
  <2>. QED  BY <1>1, <1>4, <2>1, CalculateLists, ScoreGlobalLists, ScoreTopicLists DEF Trend
<1>. QED  BY <1>2, <1>3, <1>4 DEF Next

\* calculateTrend: whatever calculations and jobs overlap, a list shows what was
\* posted in the window of the calculation that wrote it.
THEOREM ListedIsActive == Spec => []ListedWasActive
<1>1. Init => ListInv
  BY ListInit
<1>2. ListInv /\ [Next]_vars => ListInv'
  BY ListNext
<1>3. ListInv => ListedWasActive
  BY DEF ListInv, Listed, ListedWasActive, GetTrending, Lists
<1>. QED  BY <1>1, <1>2, <1>3, PTL DEF Spec
=============================================================================
