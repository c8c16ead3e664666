-------------------------- MODULE NotificationInbox --------------------------
(***************************************************************************)
(* The notifications document of one user (NotificationsService): at most  *)
(* Cap entries.  Likes and reposts of the last day are gathered in one     *)
(* entry per tweet or else per person, follows in one entry; replies,      *)
(* quotes and mentions get an entry each.                                  *)
(*                                                                         *)
(* The document is written by jobs.  Each named processor of the queue     *)
(* runs a job of its own, any of them takes any job, and a job that fails  *)
(* is run again from its start: jobs overlap and change order.  One        *)
(* statement is atomic for the document, and nothing but the array filters *)
(* of an update protects what was read before it.                          *)
(*                                                                         *)
(* Abstractions.  The array is a set: findIndex returns some entry that    *)
(* matches, and equal entries are one (every update treats them alike).    *)
(* Dates are days: an entry is recent for a job if its day is not before   *)
(* the job's horizon (one_day_ago).  A clear job has one id.  Left out:    *)
(* newest_count, a mention's parent tweet, message notifications.          *)
(***************************************************************************)
EXTENDS Integers, FiniteSets

CONSTANTS
    Tweets,     \* tweets of the owner of the document
    Posts,      \* replies, quotes and mentions written by others
    Actors,     \* the users whose actions are notified
    Events,     \* what may happen: records [type, tweet, post, actor]
    Jobs,       \* jobs of the notification queue, each queued at most once
    Tries,      \* attempts of a job
    Cap,        \* entries kept ($slice)
    MaxDay,     \* bound on the calendar
    NoTweet,    \* no tweet
    NoJob       \* a job that has not been queued

Gathered == {"LIKE", "REPOST"}
Singles == {"REPLY", "QUOTE", "MENTION"}
Types == Gathered \cup Singles \cup {"FOLLOW"}

ASSUME EventsTyped ==
    Events \subseteq [type: Types, tweet: Tweets \cup {NoTweet}, post: Posts \cup {NoTweet},
                      actor: Actors]
ASSUME EventsRefer == \A v \in Events :
    /\ v.tweet = NoTweet <=> v.type \in {"FOLLOW", "MENTION"}
    /\ v.post = NoTweet <=> v.type \notin Singles
\* A reply or a quote has one author and one parent, and mentions the owner once.
ASSUME PostsTellOne == \A v, w \in Events :
    v.type \in Singles /\ w.type = v.type /\ w.post = v.post => w = v
ASSUME KindsDisjoint ==
    /\ Tweets \cap Posts = {} /\ Tweets \cap Actors = {} /\ Posts \cap Actors = {}
    /\ NoTweet \notin Tweets \cup Posts \cup Actors
ASSUME SomeTries == Tries \in Nat \ {0}
ASSUME SomeRoom == Cap \in Nat \ {0}
ASSUME SomeDays == MaxDay \in Nat

VARIABLES
    box,        \* the entries
    job,        \* the queue, with what each running job has read
    facts,      \* the likes, follows, ... that are rows of Postgres
    gone,       \* tweets, posts and users deleted from Postgres
    today,      \* the day that new dates get
    horizon,    \* the first day that is within the last 24 hours
    cut,        \* history: an entry has been sliced off
    clashed,    \* history: the types whose jobs overlapped, failed or changed order
    scattered   \* history: those of which a job joined several entries, or none

rows == <<facts, gone>>
clock == <<today, horizon>>
history == <<cut, clashed, scattered>>
vars == <<box, job, rows, clock, history>>

-----------------------------------------------------------------------------
Days == 0..MaxDay
Entries == [type: Types, tweets: SUBSET (Tweets \cup Posts \cup {NoTweet}),
            actors: SUBSET Actors, day: Days]

Writing == {"joinTweet", "joinPerson", "push", "pullEntry", "pullActor",
            "pullTweet", "sweep", "clearLike", "clearRepost", "clearSingle", "clearSweep"}
Ended == {"done", "skipped", "dead"}
JobStates == [op: {"add", "remove", "clear"}, what: Events \cup Tweets \cup Posts \cup Actors,
              at: {"queued", "send"} \cup Writing \cup Ended, try: 1..Tries,
              day: Days, since: Days, shown: SUBSET (Tweets \cup Posts \cup Actors)]

ASSUME NoJobIsNoJob == NoJob \notin JobStates

\* The tweet that a removal is given, and the tweets that an entry stores.
Key(v) == IF v.type \in Singles THEN v.post ELSE v.tweet
Refers(v) == IF v.type \in Singles THEN {v.post, v.tweet} \ {NoTweet} ELSE {v.tweet}

\* BackgroundJobsService.queueJob.
NewJob(op, what) == [op |-> op, what |-> what, at |-> "queued", try |-> 1,
                     day |-> 0, since |-> 0, shown |-> {}]
Queue(j, op, what) == job[j] = NoJob /\ job' = [job EXCEPT ![j] = NewJob(op, what)]

Is(j, op) == job[j] # NoJob /\ job[j].op = op
At(j, op, at) == Is(j, op) /\ job[j].at = at
Goes(j, at) == job' = [job EXCEPT ![j].at = at]
\* Nothing is kept of what a job had read.
Ends(j, at) == job' = [job EXCEPT ![j] = [NewJob(job[j].op, job[j].what) EXCEPT !.at = at]]

\* Another job that is about the same type of entries.
Rival(i, j) == i # j /\ job[i] # NoJob /\ job[i].op # "clear" /\ job[i].what.type = job[j].what.type

\* Somebody's read and last write are on both sides of this read, or a job
\* about the same event is still to run.
Disturbed(j) == \E i \in Jobs : Rival(i, j) /\
    (job[i].at \in Writing \/ (job[i].at = "queued" /\ job[i].what = job[j].what))

\* The read of a job: one_day_ago is fixed and its date is stamped.
Reads(j, at) ==
    /\ job' = [job EXCEPT ![j] = [job[j] EXCEPT !.at = at, !.day = today, !.since = horizon]]
    /\ clashed' = IF Disturbed(j) THEN clashed \cup {job[j].what.type} ELSE clashed

Recent(S, type, since) == {e \in S : e.type = type /\ e.day >= since}
Mine(j, S) == Recent(S, job[j].what.type, job[j].since)

\* The entries about this tweet only, by this person only, naming both.
OfTweet(S, t) == {e \in S : e.tweets = {t}}
OfPerson(S, u) == {e \in S : e.actors = {u}}
Naming(S, t, u) == {e \in S : t \in e.tweets /\ u \in e.actors}

\* The tweets and the users that getUserNotifications finds missing.
MissingTweets(e) ==
    CASE e.type = "FOLLOW" -> {}
      [] e.type \in Gathered -> IF e.tweets \subseteq gone THEN e.tweets ELSE {}
      [] e.type = "REPLY" ->
            IF (e.actors \cup (e.tweets \cap Tweets)) \cap gone = {} THEN {} ELSE e.tweets \cap gone
      [] OTHER -> e.tweets \cap gone
MissingUsers(e) ==
    IF e.type \in Gathered /\ e.tweets \subseteq gone THEN {} ELSE e.actors \cap gone

\* Types; in particular the slice bounds the document.
TypeOK ==
    /\ box \subseteq Entries
    /\ Cardinality(box) <= Cap
    /\ job \in [Jobs -> JobStates \cup {NoJob}]
    /\ facts \subseteq Events
    /\ gone \subseteq Tweets \cup Posts \cup Actors
    /\ today \in Days /\ horizon \in 0..today
    /\ cut \in BOOLEAN
    /\ clashed \subseteq Types /\ scattered \subseteq Types

Init ==
    /\ box = {}
    /\ job = [j \in Jobs |-> NoJob]
    /\ facts = {} /\ gone = {}
    /\ today = 0 /\ horizon = 0
    /\ cut = FALSE /\ clashed = {} /\ scattered = {}

-----------------------------------------------------------------------------
(* What happens in Postgres, and the jobs that it queues. *)

\* likeTweet, repostTweet, followUser; a reply, a quote or a mention is posted.
\* An edit announces a mention that was there again.
Announce(j, v) ==
    /\ v \in facts => v.type = "MENTION"
    /\ {v.tweet, v.post, v.actor} \cap gone = {}
    /\ facts' = facts \cup {v}
    /\ Queue(j, "add", v)
    /\ UNCHANGED <<box, gone, clock, history>>

\* unlikeTweet, deleteRepost, unfollowUser.
Undo(j, v) ==
    /\ v \in facts /\ v.type \notin Singles
    /\ facts' = facts \ {v}
    /\ Queue(j, "remove", v)
    /\ UNCHANGED <<box, gone, clock, history>>

\* deleteRepost and deleteTweet queue their job before the commit.  The
\* transaction is rolled back, or another request had deleted the row: one
\* removal too many.
Abandon(j, v) ==
    /\ v \in facts /\ v.type \in {"REPOST", "REPLY", "QUOTE"}
    /\ Queue(j, "remove", v)
    /\ UNCHANGED <<box, rows, clock, history>>

\* removeFollower, blockUser: the row goes, and no job is queued.
RemoveFollower(v) ==
    /\ v \in facts /\ v.type = "FOLLOW"
    /\ facts' = facts \ {v}
    /\ UNCHANGED <<box, job, gone, clock, history>>

\* A reply or a quote is deleted.
DeletePost(j, v) ==
    /\ v \in facts /\ v.type \in {"REPLY", "QUOTE"}
    /\ facts' = {w \in facts : w.post # v.post}
    /\ gone' = gone \cup {v.post}
    /\ Queue(j, "remove", v)
    /\ UNCHANGED <<box, clock, history>>

\* A tweet with a mention is deleted.  queueMentionDeleteJobs hands on the
\* names in place of the users' ids, so that no job reaches this document.
DeleteMention(v) ==
    /\ v \in facts /\ v.type = "MENTION"
    /\ \A w \in facts : w.post = v.post => w.type = "MENTION"
    /\ facts' = {w \in facts : w.post # v.post}
    /\ gone' = gone \cup {v.post}
    /\ UNCHANGED <<box, job, clock, history>>

\* The posts of these events.
PostsOf(S) == {v.post : v \in S} \ {NoTweet}

\* A tweet is deleted: its likes, reposts, replies and quotes go with it,
\* without jobs.
DeleteTweet(t) ==
    LET below == PostsOf({v \in Events : v.tweet = t}) IN
    /\ t \notin gone
    /\ gone' = gone \cup {t} \cup below
    /\ facts' = {v \in facts : v.tweet # t /\ v.post \notin below}
    /\ UNCHANGED <<box, job, clock, history>>

\* A user is deleted, with everything of theirs.
DeleteUser(u) ==
    /\ u \notin gone
    /\ gone' = gone \cup {u} \cup PostsOf({v \in Events : v.actor = u})
    /\ facts' = {v \in facts : v.actor # u}
    /\ UNCHANGED <<box, job, clock, history>>

TimePasses ==
    /\ \/ today < MaxDay /\ today' = today + 1 /\ UNCHANGED horizon
       \/ horizon < today /\ horizon' = horizon + 1 /\ UNCHANGED today
    /\ UNCHANGED <<box, job, rows, history>>

-----------------------------------------------------------------------------
(* The owner looks at the notifications: getUserNotifications queues a job *)
(* for what it misses.                                                     *)

View(j) ==
    /\ \E e \in box : \E x \in MissingTweets(e) \cup MissingUsers(e) : Queue(j, "clear", x)
    /\ UNCHANGED <<box, rows, clock, history>>

-----------------------------------------------------------------------------
(* saveNotificationAndSend.  tryAggregateNotification reads the document   *)
(* and decides, and a later statement does what was decided.               *)

AimFollow(S) == IF S # {} THEN "joinTweet" ELSE "push"
AimGathered(S, v) ==
    IF OfTweet(S, v.tweet) # {} THEN "joinTweet"
    ELSE IF OfPerson(S, v.actor) # {} THEN "joinPerson" ELSE "push"
Aim(v) ==
    LET S == Recent(box, v.type, horizon) IN
    CASE v.type = "FOLLOW" -> AimFollow(S)
      [] v.type \in Gathered -> AimGathered(S, v)
      [] OTHER -> "push"

\* The actor is gone: the processor returns.  A follow's does not look.
Skip(j) ==
    /\ At(j, "add", "queued")
    /\ job[j].what.type # "FOLLOW" /\ job[j].what.actor \in gone
    /\ Ends(j, "skipped")
    /\ UNCHANGED <<box, rows, clock, history>>

ReadAdd(j) ==
    /\ At(j, "add", "queued")
    /\ job[j].what.type # "FOLLOW" => job[j].what.actor \notin gone
    /\ Reads(j, Aim(job[j].what))
    /\ UNCHANGED <<box, rows, clock, cut, scattered>>

\* The entries in old become new; if some entry of the updated document is in
\* found, it is the one that is shown, and if none is, the job has to push.
Join(j, old, new, found) ==
    /\ box' = (box \ old) \cup new
    /\ \/ found = {} /\ Goes(j, "push")
       \/ \E e \in found :
            job' = [job EXCEPT ![j] = [job[j] EXCEPT
                        !.at = "send", !.shown = (e.tweets \cup e.actors) \ {NoTweet}]]
    /\ scattered' = IF found = {} \/ \E e \in old : old = {e}
                    THEN scattered ELSE scattered \cup {job[j].what.type}
    /\ UNCHANGED <<rows, clock, cut, clashed>>

JoinTweet(j) ==
    LET v == job[j].what
        old == OfTweet(Mine(j, box), v.tweet)
        new == {[e EXCEPT !.actors = e.actors \cup {v.actor}, !.day = today] : e \in old}
    IN  /\ At(j, "add", "joinTweet")
        /\ Join(j, old, new, {e \in Mine(j, (box \ old) \cup new) : v.tweet \in e.tweets})

\* Mutant of JoinPerson: the filter does not ask for a single person.
JoinPersonUnfiltered(j) ==
    LET v == job[j].what
        old == {e \in Mine(j, box) : v.actor \in e.actors}
        new == {[e EXCEPT !.tweets = e.tweets \cup {v.tweet}, !.day = today] : e \in old}
    IN  /\ At(j, "add", "joinPerson")
        /\ Join(j, old, new, {e \in Mine(j, (box \ old) \cup new) : v.actor \in e.actors})

JoinPerson(j) ==
    LET v == job[j].what
        old == OfPerson(Mine(j, box), v.actor)
        new == {[e EXCEPT !.tweets = e.tweets \cup {v.tweet}, !.day = today] : e \in old}
    IN  /\ At(j, "add", "joinPerson")
        /\ Join(j, old, new, {e \in Mine(j, (box \ old) \cup new) : v.actor \in e.actors})

\* $push, $sort and $slice are one update.
Push(j) ==
    LET v == job[j].what
        all == box \cup {[type |-> v.type, tweets |-> Refers(v), actors |-> {v.actor},
                          day |-> job[j].day]}
    IN  /\ At(j, "add", "push")
        /\ \/ Cardinality(all) <= Cap /\ box' = all /\ UNCHANGED cut
           \/ /\ Cardinality(all) > Cap
              /\ \E e \in all : (\A f \in all : e.day <= f.day) /\ box' = all \ {e}
              /\ cut' = TRUE
        /\ Goes(j, "send")
        /\ UNCHANGED <<rows, clock, clashed, scattered>>

\* The socket or the device; fetchNotificationWithData may miss something.
Send(j) ==
    /\ At(j, "add", "send")
    /\ \/ Ends(j, "done")
       \/ \E c \in Jobs : \E x \in job[j].shown \cap gone :
            /\ job[c] = NoJob
            /\ job' = [job EXCEPT ![j] = [NewJob("add", job[j].what) EXCEPT !.at = "done"],
                               ![c] = NewJob("clear", x)]
    /\ UNCHANGED <<box, rows, clock, history>>

-----------------------------------------------------------------------------
(* removeFollowNotification, removeLikeNotification, ...: the entry that   *)
(* was found tells which update is made.                                   *)

\* Mutant of PullFrom: the two updates are swapped.
PullFromSwapped(type, e) ==
    IF type = "FOLLOW" THEN "pullActor"
    ELSE IF type \in Singles \/ (Cardinality(e.tweets) = 1 /\ Cardinality(e.actors) = 1)
    THEN "pullEntry"
    ELSE IF Cardinality(e.tweets) = 1 THEN "pullTweet" ELSE "pullActor"

PullFrom(type, e) ==
    CASE type = "FOLLOW" -> "pullActor"
      [] type \in Singles -> "pullEntry"
      [] OTHER -> LET oneTweet == \E t \in e.tweets : e.tweets = {t}
                      onePerson == \E u \in e.actors : e.actors = {u}
                  IN  IF oneTweet /\ onePerson THEN "pullEntry"
                      ELSE IF oneTweet THEN "pullActor"
                      ELSE IF onePerson THEN "pullTweet" ELSE "sweep"

\* A repost's removal finds the owner through the tweet: when that is gone, it
\* looks in the document of the reposter.
Misdirected(v) == v.type = "REPOST" /\ v.tweet \in gone

ReadRemove(j) ==
    LET v == job[j].what
        S == {e \in Naming(Recent(box, v.type, horizon), Key(v), v.actor) : ~Misdirected(v)}
    IN  /\ At(j, "remove", "queued")
        /\ \/ S = {} /\ Reads(j, "done")
           \/ \E e \in S : Reads(j, PullFrom(v.type, e))
        /\ UNCHANGED <<box, rows, clock, cut, scattered>>

PullEntry(j) ==
    /\ At(j, "remove", "pullEntry")
    /\ box' = box \ Naming(Mine(j, box), Key(job[j].what), job[j].what.actor)
    /\ IF job[j].what.type \in Singles THEN Ends(j, "done") ELSE Goes(j, "sweep")
    /\ UNCHANGED <<rows, clock, history>>

\* Mutant of PullActor: the whole entry is pulled.
PullActorWhole(j) ==
    /\ At(j, "remove", "pullActor")
    /\ box' = box \ Naming(Mine(j, box), job[j].what.tweet, job[j].what.actor)
    /\ Goes(j, "sweep")
    /\ UNCHANGED <<rows, clock, history>>

\* Mutant of PullActor: only the date is set.
PullActorStamps(j) ==
    LET old == {e \in Mine(j, box) : job[j].what.tweet \in e.tweets}
    IN  /\ At(j, "remove", "pullActor")
        /\ box' = (box \ old) \cup {[e EXCEPT !.day = job[j].day] : e \in old}
        /\ Goes(j, "sweep")
        /\ UNCHANGED <<rows, clock, history>>

\* These updates match every recent entry about the tweet, by the person.
PullActor(j) ==
    LET v == job[j].what
        old == {e \in Mine(j, box) : v.tweet \in e.tweets}
    IN  /\ At(j, "remove", "pullActor")
        /\ box' = (box \ old) \cup
                  {[e EXCEPT !.actors = e.actors \ {v.actor}, !.day = job[j].day] : e \in old}
        /\ Goes(j, "sweep")
        /\ UNCHANGED <<rows, clock, history>>

PullTweet(j) ==
    LET v == job[j].what
        old == {e \in Mine(j, box) : v.actor \in e.actors}
    IN  /\ At(j, "remove", "pullTweet")
        /\ box' = (box \ old) \cup
                  {[e EXCEPT !.tweets = e.tweets \ {v.tweet}, !.day = job[j].day] : e \in old}
        /\ Goes(j, "sweep")
        /\ UNCHANGED <<rows, clock, history>>

Empty(e) == e.tweets = {} \/ e.actors = {}

\* Mutant of Sweep: nothing is empty.
SweepNothing(j) ==
    /\ At(j, "remove", "sweep")
    /\ Ends(j, "done")
    /\ UNCHANGED <<box, rows, clock, history>>

Sweep(j) ==
    /\ At(j, "remove", "sweep")
    /\ box' = {e \in box : ~(e \in Mine(j, box) /\ Empty(e))}
    /\ Ends(j, "done")
    /\ UNCHANGED <<rows, clock, history>>

-----------------------------------------------------------------------------
(* A clear job: deleteNotificationsByTweetIds is one update,               *)
(* cleanupNotificationsByUserIds five.                                     *)

ClearTweet(j) ==
    /\ At(j, "clear", "queued") /\ job[j].what \notin Actors
    /\ box' = {e \in box : job[j].what \notin e.tweets}
    /\ Ends(j, "done")
    /\ UNCHANGED <<rows, clock, history>>

ClearPull(j, from, type, to) ==
    /\ At(j, "clear", from) /\ job[j].what \in Actors
    /\ box' = {IF e.type = type THEN [e EXCEPT !.actors = e.actors \ {job[j].what}] ELSE e : e \in box}
    /\ Goes(j, to)
    /\ UNCHANGED <<rows, clock, history>>

ClearSingle(j) ==
    /\ At(j, "clear", "clearSingle")
    /\ box' = {e \in box : ~(e.type \in Singles /\ job[j].what \in e.actors)}
    /\ Goes(j, "clearSweep")
    /\ UNCHANGED <<rows, clock, history>>

ClearSweep(j) ==
    /\ At(j, "clear", "clearSweep")
    /\ box' = {e \in box : e.type \in Singles \/ e.actors # {}}
    /\ Ends(j, "done")
    /\ UNCHANGED <<rows, clock, history>>

ClearUser(j) ==
    \/ ClearPull(j, "queued", "FOLLOW", "clearLike")
    \/ ClearPull(j, "clearLike", "LIKE", "clearRepost")
    \/ ClearPull(j, "clearRepost", "REPOST", "clearSingle")
    \/ ClearSingle(j)
    \/ ClearSweep(j)

-----------------------------------------------------------------------------
\* A statement fails, or the worker dies: the job runs again from its start,
\* Tries times in all.
Fail(j) ==
    /\ job[j] # NoJob /\ job[j].at \in Writing \cup {"send"}
    /\ job' = [job EXCEPT ![j] =
                IF job[j].try < Tries
                THEN [NewJob(job[j].op, job[j].what) EXCEPT !.try = job[j].try + 1]
                ELSE [NewJob(job[j].op, job[j].what) EXCEPT !.at = "dead"]]
    /\ clashed' = IF job[j].op = "clear" THEN clashed ELSE clashed \cup {job[j].what.type}
    /\ UNCHANGED <<box, rows, clock, cut, scattered>>

Add(j) ==
    \/ Skip(j) \/ ReadAdd(j) \/ JoinTweet(j) \/ JoinPerson(j)
    \/ Push(j) \/ Send(j)
Remove(j) ==
    ReadRemove(j) \/ PullEntry(j) \/ PullActor(j) \/ PullTweet(j) \/ Sweep(j)
Happens ==
    \/ \E j \in Jobs, v \in Events :
          Announce(j, v) \/ Undo(j, v) \/ Abandon(j, v) \/ DeletePost(j, v)
    \/ \E v \in Events : RemoveFollower(v) \/ DeleteMention(v)
    \/ \E t \in Tweets : DeleteTweet(t)
    \/ \E u \in Actors : DeleteUser(u)
    \/ TimePasses

Next ==
    \/ Happens
    \/ \E j \in Jobs : View(j) \/ Add(j) \/ Remove(j) \/ ClearTweet(j) \/ ClearUser(j) \/ Fail(j)

Spec == Init /\ [][Next]_vars

-----------------------------------------------------------------------------
(* Properties. *)

Named(v) == \E e \in box : e.type = v.type /\ Key(v) \in e.tweets /\ v.actor \in e.actors
Added(v) == \E j \in Jobs : At(j, "add", "done") /\ job[j].what = v
Removing(v) == \E j \in Jobs : Is(j, "remove") /\ job[j].what = v
Settled(v) == \A j \in Jobs : job[j] # NoJob /\ job[j].what = v => job[j].at \in Ended
Clearing(S) == \E j \in Jobs : Is(j, "clear") /\ job[j].what \in S

\* notification.swagger.ts: both aggregations do not mix.  An entry that
\* gathers likes or reposts is about one tweet or by one person, whatever jobs
\* interleave: each update's array filter looks again at what was read.
TypesDoNotMix == \A e \in box : e.type \in Gathered =>
    \/ \A t1, t2 \in e.tweets : t1 = t2
    \/ \A u1, u2 \in e.actors : u1 = u2

\* An entry that is gathered shows nothing that did not happen: each of its
\* people did it to each of its tweets, and a job told so.
OnlyWhatHappened == \A e \in box : e.type \notin Singles =>
    \A t \in e.tweets, u \in e.actors : \E j \in Jobs :
        Is(j, "add") /\ job[j].what.type = e.type /\ job[j].what.tweet = t /\ job[j].what.actor = u

\* A follow, reply, quote or mention whose job is done stays in the document
\* until it is retracted or cleared, however the jobs of others overlap with
\* it: follows meet in one entry and are swept out of it at the same time.
KeptUntilRetracted == \A v \in Events : v.type \notin Gathered =>
    (Added(v) /\ ~Removing(v) /\ ~Clearing(Refers(v) \cup {v.actor}) /\ ~cut => Named(v))

JobsFor(v, op) == {j \in Jobs : Is(j, op) /\ job[j].what = v}

\* A like or repost is kept too, by jobs of its type that kept to themselves
\* (no overlap, no failure, no change of order) and each found one entry to
\* join, when it was announced more often than removed and no tweet has been
\* cleared.  Who has joined two entries is taken out of them with all others:
\* getting there takes no overlap, since what is removed may leave two entries
\* of one tweet or of one person.
KeptWhenQuiet == \A v \in facts : v.type \in Gathered \ (clashed \cup scattered) =>
    (/\ Added(v) /\ Settled(v) /\ ~Clearing(Tweets \cup {v.actor}) /\ ~cut
     /\ Cardinality(JobsFor(v, "add")) > Cardinality(JobsFor(v, "remove"))
     => Named(v))

\* What was undone within the day, by as many jobs as announced it, is named no
\* longer once its jobs are done, if the jobs of its type kept to themselves
\* and neither its tweet nor its user is gone.
GoneWhenQuiet == \A v \in Events \ facts : v.type \notin clashed =>
    (/\ Settled(v) /\ horizon = 0 /\ {v.tweet, v.actor} \cap gone = {}
     /\ Cardinality(JobsFor(v, "add")) = Cardinality(JobsFor(v, "remove"))
     => ~Named(v))

\* Both: jobs that keep to themselves neither lose a like or a repost nor leave
\* behind what was undone, whichever of the two aggregations they met.
ExactWhenQuiet == KeptWhenQuiet /\ GoneWhenQuiet
=============================================================================
