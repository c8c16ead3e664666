---------------------------- MODULE TimelineQueue ----------------------------
(***************************************************************************)
(* The for-you timeline of one user: a list of tweets in Redis, a row of   *)
(* Postgres with the position up to which it has been read, and the jobs   *)
(* that fill, trim and clean the list (ForyouService, TimelineProcessor,   *)
(* TimelineRedisService, TimelineCandidatesService).                       *)
(*                                                                         *)
(* Nothing is taken off the list when it is read: the position moves on.   *)
(* What is taken off it, at its front or anywhere, moves the rest under    *)
(* the position.  Requests and jobs overlap: one command on Redis is       *)
(* atomic, a pipeline of pushes or removals is taken for one, and what was *)
(* read before may have changed.  A job that fails is run again.           *)
(*                                                                         *)
(* Abstractions.  Candidates are chosen by categories and scores: here any *)
(* tweets, in any order, so long as they are not excluded, and the same    *)
(* one at most twice (two categories, or a category and the fallback).     *)
(* Every tweet has an author of its own.                                   *)
(***************************************************************************)
EXTENDS Integers, Sequences, FiniteSets

CONSTANTS
    Tweets,
    Limits,     \* sizes of a page that are asked for
    Batch,      \* TIMELINE_REFILL_BATCH_SIZE
    QueueSize,  \* TIMELINE_QUEUE_SIZE: the first filling
    MaxSize,    \* TIMELINE_MAX_QUEUE_SIZE
    Requests,   \* requests that may be under way at the same time
    Jobs,       \* jobs that may be in the queue at the same time
    Attempts,   \* attempts of a job
    None        \* no row

ASSUME SomePages == Limits \subseteq Nat \ {0} /\ Batch \in Nat /\ QueueSize \in Nat
ASSUME Room == MaxSize \in Nat /\ QueueSize <= MaxSize
ASSUME SomeAttempts == Attempts \in Nat \ {0}
ASSUME NoneIsNothing == None \notin Nat

VARIABLES
    queue,      \* timeline:foryou:<user_id>
    cursor,     \* last_fetched_position
    interests,  \* whether the user has any
    refused,    \* tweets whose author the user has blocked or muted
    stale,      \* tweets that are older than the freshness limit
    req,        \* what each request has in hand
    job,        \* the queue of jobs
    served,     \* history: tweets of the list that were answered
    shifted,    \* history: something was taken off the list under a reader, or
                \* a page was lost
    starved,    \* history: a filling was lost, found nothing or was removed whole
    flooded     \* history: the list may stay too long

history == <<served, shifted, starved, flooded>>
tastes == <<interests, refused, stale>>
vars == <<queue, cursor, tastes, req, job, history>>

-----------------------------------------------------------------------------
Idle == [at |-> "idle"]
Tasks == [at: {"create", "fetch", "save", "answer"}, limit: Limits, start: Nat, page: Seq(Tweets)]
JobStates == [kind: {"init", "refill", "cleanup"}, count: Nat, left: 1..Attempts,
              at: {"waiting", "clear", "push", "size", "trim", "remove"},
              list: Seq(Tweets), excess: Nat]

At(r, at) == req[r].at = at
Goes(r, at) == req' = [req EXCEPT ![r].at = at]
Ends(r) == req' = [req EXCEPT ![r] = Idle]
Elements(s) == {s[i] : i \in 1..Len(s)}

NewJob(kind, n, left) == [kind |-> kind, count |-> n, left |-> left, at |-> "waiting",
                          list |-> <<>>, excess |-> 0]
\* The queue of jobs once one more is in it (queueJob); a failure is swallowed.
Queued(Q, kind, n) ==
    {[Q EXCEPT ![j] = NewJob(kind, n, Attempts)] : j \in {i \in Jobs : Q[i] = Idle}}
Is(j, kind, at) == job[j] # Idle /\ job[j].kind = kind /\ job[j].at = at
Step(j, at) == job' = [job EXCEPT ![j].at = at]
Complete(j) == job' = [job EXCEPT ![j] = Idle]

\* Types; in particular a page is never longer than was asked for.
TypeOK ==
    /\ queue \in Seq(Tweets)
    /\ cursor \in Nat \cup {None}
    /\ interests \in BOOLEAN
    /\ refused \subseteq Tweets /\ stale \subseteq Tweets
    /\ req \in [Requests -> Tasks \cup {Idle}]
    /\ \A r \in Requests : req[r] # Idle => Len(req[r].page) <= req[r].limit
    /\ job \in [Jobs -> JobStates \cup {Idle}]
    /\ served \subseteq Tweets
    /\ shifted \in BOOLEAN /\ starved \in BOOLEAN /\ flooded \in BOOLEAN

Init ==
    /\ queue = <<>> /\ cursor = None
    /\ interests = FALSE /\ refused = {} /\ stale = {}
    /\ req = [r \in Requests |-> Idle] /\ job = [j \in Jobs |-> Idle]
    /\ served = {} /\ shifted = FALSE /\ starved = FALSE /\ flooded = FALSE

\* getCandidates.
Candidates(excluded, n) ==
    {s \in UNION {[1..k -> Tweets \ (refused \cup excluded)] : k \in 0..n} :
        \A t \in Tweets : Cardinality({i \in 1..Len(s) : s[i] = t}) <= 2}

\* A reader would miss it if the list moved.
Reading == cursor \notin {None, 0} \/ \E r \in Requests : req[r] # Idle

-----------------------------------------------------------------------------
(* getForyouTimeline. *)

Open(r, n) ==
    /\ At(r, "idle")
    /\ req' = [req EXCEPT ![r] = [at |-> IF cursor = None THEN "create" ELSE "fetch",
                limit |-> n, start |-> IF cursor = None THEN 0 ELSE cursor, page |-> <<>>]]
    /\ UNCHANGED <<queue, cursor, tastes, job, history>>

\* save() updates the row if there is one by now.
CreateCursor(r) ==
    /\ At(r, "create")
    /\ cursor' = 0
    /\ Goes(r, "fetch")
    /\ UNCHANGED <<queue, tastes, job, history>>

\* getFromQueue finds something.
Fetch(r) ==
    LET s == req[r].start
        stop == IF s + req[r].limit <= Len(queue) THEN s + req[r].limit ELSE Len(queue)
    IN  /\ At(r, "fetch") /\ s < Len(queue)
        /\ req' = [req EXCEPT ![r].at = "save", ![r].page = SubSeq(queue, s + 1, stop)]
        /\ UNCHANGED <<queue, cursor, tastes, job, history>>

\* Or nothing: candidates are answered, the position stays and no job is queued
\* for the list, unless the user has no interests yet.
Fallback(r) ==
    /\ At(r, "fetch") /\ req[r].start >= Len(queue)
    /\ \/ interests /\ UNCHANGED <<interests, job, starved>>
       \/ /\ ~interests
          /\ interests' = TRUE
          /\ \/ job' \in Queued(job, "init", QueueSize) /\ UNCHANGED starved
             \/ UNCHANGED job /\ starved' = TRUE
    /\ Ends(r)
    /\ UNCHANGED <<queue, cursor, refused, stale, served, shifted, flooded>>

\* Mutant of Save: by what was asked for.
SaveByLimit(r) ==
    /\ At(r, "save")
    /\ cursor' = req[r].start + req[r].limit
    /\ Goes(r, "answer")
    /\ UNCHANGED <<queue, tastes, job, history>>

Save(r) ==
    /\ At(r, "save")
    /\ cursor' = req[r].start + Len(req[r].page)
    /\ Goes(r, "answer")
    /\ UNCHANGED <<queue, tastes, job, history>>

\* Mutant of Answer: a page that is not full is taken for the last one.
AnswerIfFull(r) ==
    LET n == IF req[r].limit > Batch THEN req[r].limit ELSE Batch IN
    /\ At(r, "answer")
    /\ \/ /\ Len(req[r].page) = req[r].limit
          /\ job' \in Queued(job, "refill", n) /\ UNCHANGED starved
       \/ Len(req[r].page) < req[r].limit /\ UNCHANGED <<job, starved>>
    /\ served' = served \cup Elements(req[r].page)
    /\ Ends(r)
    /\ UNCHANGED <<queue, cursor, tastes, shifted, flooded>>

\* queueRefillTimelineQueue, and the answer.
Answer(r) ==
    LET n == IF req[r].limit > Batch THEN req[r].limit ELSE Batch IN
    /\ At(r, "answer")
    /\ \/ job' \in Queued(job, "refill", n) /\ UNCHANGED starved
       \/ UNCHANGED job /\ starved' = TRUE
    /\ served' = served \cup Elements(req[r].page)
    /\ Ends(r)
    /\ UNCHANGED <<queue, cursor, tastes, shifted, flooded>>

\* A request fails, or the server stops under it.
Stop(r) ==
    /\ ~At(r, "idle")
    /\ Ends(r)
    /\ shifted' = (shifted \/ At(r, "answer"))
    /\ starved' = (starved \/ At(r, "answer"))
    /\ UNCHANGED <<queue, cursor, tastes, job, served, flooded>>

-----------------------------------------------------------------------------
(* handleInitQueue and handleRefillQueue. *)

\* UserService.assignInterests fills the list in the request: no second attempt.
AssignInterests ==
    /\ interests' = TRUE
    /\ \E j \in Jobs : job[j] = Idle /\ job' = [job EXCEPT ![j] = NewJob("init", QueueSize, 1)]
    /\ UNCHANGED <<queue, cursor, refused, stale, req, history>>

\* The tweets of the list are excluded; without interests, another job follows.
Pick(j) ==
    /\ Is(j, "init", "waiting") \/ Is(j, "refill", "waiting")
    /\ \E list \in Candidates(Elements(queue), job[j].count) :
        LET next == IF list = <<>> THEN [job EXCEPT ![j] = Idle]
                    ELSE [job EXCEPT ![j] = [job[j] EXCEPT !.list = list,
                            !.at = IF job[j].kind = "init" THEN "clear" ELSE "push"]]
        IN  /\ job' = next
            /\ starved' = (starved \/ list = <<>>)
    /\ UNCHANGED <<queue, cursor, tastes, req, served, shifted, flooded>>

\* initializeQueue: first DEL ...
Clear(j) ==
    /\ Is(j, "init", "clear")
    /\ queue' = <<>>
    /\ shifted' = (shifted \/ (queue # <<>> /\ Reading))
    /\ Step(j, "push")
    /\ UNCHANGED <<cursor, tastes, req, served, starved, flooded>>

\* ... then RPUSH, as in addToQueue.  Nothing trims after the first filling.
Push(j) ==
    /\ job[j] # Idle /\ job[j].at = "push"
    /\ queue' = queue \o job[j].list
    /\ IF job[j].kind = "init" THEN Complete(j) ELSE Step(j, "size")
    /\ flooded' = (flooded \/ (job[j].kind = "init" /\ queue # <<>>))
    /\ UNCHANGED <<cursor, tastes, req, served, shifted, starved>>

\* LLEN, twice in trimQueue.
Size(j) ==
    /\ Is(j, "refill", "size")
    /\ \/ Len(queue) <= MaxSize /\ Complete(j)
       \/ /\ Len(queue) > MaxSize
          /\ job' = [job EXCEPT ![j] = [job[j] EXCEPT !.at = "trim", !.excess = Len(queue) - MaxSize]]
    /\ UNCHANGED <<queue, cursor, tastes, req, history>>

From(s, n) == SubSeq(s, n, Len(s))

\* Mutant of Trim: one too few.
TrimLess(j) ==
    /\ Is(j, "refill", "trim")
    /\ queue' = From(queue, job[j].excess)
    /\ shifted' = (shifted \/ Reading)
    /\ starved' = (starved \/ queue' = <<>>)
    /\ Complete(j)
    /\ UNCHANGED <<cursor, tastes, req, served, flooded>>

\* LTRIM takes off what the job has counted, whatever the list has become.
Trim(j) ==
    /\ Is(j, "refill", "trim")
    /\ queue' = From(queue, job[j].excess + 1)
    /\ shifted' = (shifted \/ Reading)
    /\ starved' = (starved \/ queue' = <<>>)
    /\ Complete(j)
    /\ UNCHANGED <<cursor, tastes, req, served, flooded>>

-----------------------------------------------------------------------------
(* handleCleanupOldTweets, queued by a cron every night. *)

Nightly ==
    /\ job' \in Queued(job, "cleanup", 0)
    /\ UNCHANGED <<queue, cursor, tastes, req, history>>

\* The entries at these places, in order: a set with one sequence.
EntriesAt(s, places) ==
    {[k \in DOMAIN f |-> s[f[k]]] : f \in {g \in [1..Cardinality(places) -> places] :
        \A k, m \in DOMAIN g : k < m => g[k] < g[m]}}

FindOld(j) ==
    /\ Is(j, "cleanup", "waiting")
    /\ \E old \in EntriesAt(queue, {i \in 1..Len(queue) : queue[i] \in stale}) :
           job' = [job EXCEPT ![j] = IF old = <<>> THEN Idle
                                     ELSE [job[j] EXCEPT !.at = "remove", !.list = old]]
    /\ UNCHANGED <<queue, cursor, tastes, req, history>>

\* LREM key 1 item, for every item: as many of the first entries of a tweet go
\* as the tweet has in the list.
Times(s, t, n) == Cardinality({k \in 1..n : s[k] = t})
WithoutAll(s, list) ==
    EntriesAt(s, {i \in 1..Len(s) : Times(s, s[i], i) > Times(list, s[i], Len(list))})

RemoveOld(j) ==
    /\ Is(j, "cleanup", "remove")
    /\ queue' \in WithoutAll(queue, job[j].list)
    /\ shifted' = (shifted \/ (queue' # queue /\ Reading))
    /\ starved' = (starved \/ queue' = <<>>)
    /\ Complete(j)
    /\ UNCHANGED <<cursor, tastes, req, served, flooded>>

\* A job fails, and is run again from its start while attempts are left.
Fail(j) ==
    /\ job[j] # Idle
    /\ job' = [job EXCEPT ![j] = IF job[j].left = 1 THEN Idle
                                 ELSE NewJob(job[j].kind, job[j].count, job[j].left - 1)]
    /\ starved' = (starved \/ (job[j].left = 1 /\ job[j].kind # "cleanup"))
    /\ flooded' = (flooded \/ job[j].at \in {"size", "trim"})
    /\ UNCHANGED <<queue, cursor, tastes, req, served, shifted>>

-----------------------------------------------------------------------------
\* What the user and time do.
Refuse(t) ==
    /\ t \notin refused
    /\ refused' = refused \cup {t}
    /\ UNCHANGED <<queue, cursor, interests, stale, req, job, history>>

\* unmuteUser, unblockUser.
Accept(t) ==
    /\ t \in refused
    /\ refused' = refused \ {t}
    /\ UNCHANGED <<queue, cursor, interests, stale, req, job, history>>

Ages(t) ==
    /\ t \notin stale
    /\ stale' = stale \cup {t}
    /\ UNCHANGED <<queue, cursor, interests, refused, req, job, history>>

Next ==
    \/ \E r \in Requests :
        \/ \E n \in Limits : Open(r, n)
        \/ CreateCursor(r) \/ Fetch(r) \/ Fallback(r) \/ Save(r) \/ Answer(r) \/ Stop(r)
    \/ \E j \in Jobs :
        \/ Pick(j) \/ Clear(j) \/ Push(j) \/ Size(j) \/ Trim(j)
        \/ FindOld(j) \/ RemoveOld(j) \/ Fail(j)
    \/ AssignInterests \/ Nightly
    \/ \E t \in Tweets : Refuse(t) \/ Accept(t) \/ Ages(t)

Spec == Init /\ [][Next]_vars

-----------------------------------------------------------------------------
(* Properties. *)

\* getForyouTimeline: what lies before the position has been answered, or is
\* about to be, however requests and fillings overlap, unless something was
\* taken off the list under a reader or a page was lost.
NothingSkipped ==
    ~shifted /\ cursor # None =>
        /\ cursor <= Len(queue)
        /\ \A i \in 1..cursor : \/ queue[i] \in served
                                \/ \E r \in Requests : At(r, "answer") /\ queue[i] \in Elements(req[r].page)

\* handleRefillQueue: a list that is too long is about to be trimmed, although
\* jobs that trim it count before others have trimmed, unless a job failed
\* before it did or a first filling came on top of something.
TooLongForNow ==
    Len(queue) > MaxSize => flooded \/ \E j \in Jobs : Is(j, "refill", "size") \/ Is(j, "refill", "trim")

\* The position is at the end and nothing is under way: every later request is
\* answered from candidates, and moves nothing.
Stuck ==
    /\ interests /\ cursor # None /\ cursor >= Len(queue)
    /\ \A r \in Requests : req[r] = Idle
    /\ \A j \in Jobs : job[j] = Idle

\* A reader gets to the end for good only after a filling was lost, found
\* nothing or had grown old, or something was taken off the list under the
\* reader.
StuckForAReason == Stuck => starved \/ shifted
=============================================================================
