------------------------- MODULE NotificationsProofs -------------------------
(***************************************************************************)
(* The notifications of one user, proved for every set of events, jobs,    *)
(* connections and documents.                                              *)
(*                                                                         *)
(* NotificationInbox comes first: the document is well formed and never    *)
(* exceeds its slice, the two aggregations do not mix, an aggregated entry *)
(* shows nothing that no job announced, a follow or a post stays until it  *)
(* is retracted, and jobs that keep to themselves neither lose a like or a *)
(* repost nor leave one behind.  NotificationFeed and NotificationList     *)
(* follow, each with its own invariant.                                    *)
(*                                                                         *)
(* The first invariant adds to the types that the document is finite and   *)
(* that a job is about an event unless it is a clear job.  Every action    *)
(* changes one job only, and neither its kind nor what it is about; the    *)
(* document it leaves is the old one with some entries dropped or          *)
(* replaced, except for the push, which slices it.                         *)
(***************************************************************************)
EXTENDS Notifications, Sequences, FiniteSetTheorems, WellFoundedInduction, TLAPS

All == Tweets \cup Posts \cup Actors
WhatOK(i) == job[i] # NoJob => job[i].op = "clear" \/ job[i].what \in Events
JobsOK == job \in [Jobs -> JobStates \cup {NoJob}] /\ \A i \in Jobs : WhatOK(i)
BoxOK == box \subseteq Entries /\ IsFiniteSet(box) /\ Cardinality(box) <= Cap
ClockOK == today \in Days /\ horizon \in 0..today
RestOK == facts \subseteq Events /\ gone \subseteq All /\ ClockOK /\ cut \in BOOLEAN
          /\ clashed \subseteq Types /\ scattered \subseteq Types
IInv == BoxOK /\ JobsOK /\ RestOK

\* A job stays what it is.
Carries(i) == job[i] # NoJob =>
    job'[i] # NoJob /\ job'[i].op = job[i].op /\ job'[i].what = job[i].what
JobsCarry == JobsOK' /\ \A i \in Jobs : Carries(i)

LEMMA IInvTypeOK == IInv => TypeOK
BY DEF IInv, BoxOK, JobsOK, RestOK, ClockOK, All, TypeOK

LEMMA InvInit == Init => IInv
<1>. SUFFICES ASSUME Init PROVE IInv
  OBVIOUS
<1>1. BoxOK
  BY FS_EmptySet, SomeRoom DEF Init, BoxOK
<1>2. JobsOK
  BY DEF Init, JobsOK, WhatOK
<1>3. RestOK
  <2>1. ClockOK
    BY SomeDays DEF Init, ClockOK, Days
  <2>. QED  BY <2>1 DEF Init, RestOK
<1>. QED  BY <1>1, <1>2, <1>3 DEF IInv

-----------------------------------------------------------------------------
(* The jobs. *)

LEMMA NewJobTyped ==
    ASSUME NEW op \in {"add", "remove", "clear"},
           NEW what \in Events \cup Tweets \cup Posts \cup Actors
    PROVE  NewJob(op, what) \in JobStates
BY SomeTries, SomeDays DEF NewJob, JobStates, Days

\* One job is replaced by another of its kind.
LEMMA OneJob ==
    ASSUME JobsOK, NEW j \in Jobs, NEW q \in JobStates, job' = [job EXCEPT ![j] = q],
           job[j] # NoJob, q.op = job[j].op, q.what = job[j].what
    PROVE  JobsCarry
<1>1. job' \in [Jobs -> JobStates \cup {NoJob}]
  BY DEF JobsOK
<1>2. \A i \in Jobs : Carries(i)
  BY NoJobIsNoJob DEF JobsOK, Carries
<1>3. \A i \in Jobs : WhatOK(i)'
  BY <1>2 DEF JobsOK, WhatOK
<1>. QED  BY <1>1, <1>2, <1>3 DEF JobsOK, JobsCarry

LEMMA QueueCarries ==
    ASSUME JobsOK, NEW j \in Jobs, NEW op \in {"add", "remove", "clear"},
           NEW what \in Events \cup All, op = "clear" \/ what \in Events, Queue(j, op, what)
    PROVE  JobsCarry
<1>1. NewJob(op, what) \in JobStates
  BY NewJobTyped DEF All
<1>2. job[j] = NoJob /\ job' = [job EXCEPT ![j] = NewJob(op, what)]
  BY DEF Queue
<1>3. job' \in [Jobs -> JobStates \cup {NoJob}]
  BY <1>1, <1>2 DEF JobsOK
<1>4. \A i \in Jobs : Carries(i)
  BY <1>2 DEF JobsOK, Carries
<1>5. NewJob(op, what).op = op /\ NewJob(op, what).what = what
  BY DEF NewJob
<1>6. \A i \in Jobs : WhatOK(i)'
  BY <1>2, <1>5 DEF JobsOK, WhatOK
<1>. QED  BY <1>3, <1>4, <1>6 DEF JobsOK, JobsCarry

LEMMA GoesCarries ==
    ASSUME JobsOK, NEW j \in Jobs, job[j] # NoJob,
           NEW at \in {"queued", "send"} \cup Writing \cup Ended, Goes(j, at)
    PROVE  JobsCarry
<1>. DEFINE q == [job[j] EXCEPT !.at = at]
<1>1. job[j] \in JobStates
  BY DEF JobsOK
<1>2. q \in JobStates /\ q.op = job[j].op /\ q.what = job[j].what
  BY <1>1 DEF JobStates
<1>3. job' = [job EXCEPT ![j] = q]
  BY DEF Goes
<1>. HIDE DEF q
<1>. QED  BY <1>2, <1>3, OneJob

LEMMA EndsCarries ==
    ASSUME JobsOK, NEW j \in Jobs, job[j] # NoJob, NEW at \in Ended, Ends(j, at)
    PROVE  JobsCarry
<1>. DEFINE n == NewJob(job[j].op, job[j].what)
            q == [n EXCEPT !.at = at]
<1>1. job[j] \in JobStates
  BY DEF JobsOK
<1>2. n \in JobStates /\ n.op = job[j].op /\ n.what = job[j].what
  <2>1. job[j].op \in {"add", "remove", "clear"} /\ job[j].what \in Events \cup Tweets \cup Posts \cup Actors
    BY <1>1 DEF JobStates
  <2>2. n \in JobStates
    BY <2>1, NewJobTyped
  <2>. QED  BY <2>2 DEF NewJob
<1>3. job' = [job EXCEPT ![j] = q]
  BY DEF Ends
<1>. HIDE DEF n
<1>4. q \in JobStates /\ q.op = job[j].op /\ q.what = job[j].what
  BY <1>2 DEF JobStates
<1>. HIDE DEF q
<1>. QED  BY <1>3, <1>4, OneJob

LEMMA ReadsCarries ==
    ASSUME IInv, NEW j \in Jobs, job[j] # NoJob, job[j].op # "clear",
           NEW at \in {"queued", "send"} \cup Writing \cup Ended, Reads(j, at)
    PROVE  JobsCarry /\ clashed' \subseteq Types
<1>. DEFINE q == [job[j] EXCEPT !.at = at, !.day = today, !.since = horizon]
<1>1. job[j] \in JobStates /\ job[j].what \in Events
  BY DEF IInv, JobsOK, WhatOK
<1>2. today \in Days /\ horizon \in Days
  BY SomeDays DEF IInv, RestOK, ClockOK, Days
<1>3. q \in JobStates /\ q.op = job[j].op /\ q.what = job[j].what
  BY <1>1, <1>2 DEF JobStates
<1>4. job' = [job EXCEPT ![j] = q]
  BY DEF Reads
<1>5. clashed' \subseteq Types
  BY <1>1, EventsTyped DEF Reads, IInv, RestOK
<1>. HIDE DEF q
<1>. QED  BY <1>3, <1>4, <1>5, OneJob DEF IInv

LEMMA SameJobs == ASSUME JobsOK, job' = job PROVE JobsCarry
<1>1. JobsOK'
  BY DEF JobsOK, WhatOK
<1>2. \A i \in Jobs : Carries(i)
  BY DEF Carries
<1>. QED  BY <1>1, <1>2 DEF JobsCarry

-----------------------------------------------------------------------------
(* The document. *)

\* Replacing some entries of a finite set, each by one, makes it no larger.
LEMMA ReplaceBounded ==
    ASSUME NEW B, IsFiniteSet(B), NEW old \in SUBSET B, NEW G
    PROVE  LET C == (B \ old) \cup {G[e] : e \in old}
           IN  IsFiniteSet(C) /\ Cardinality(C) <= Cardinality(B)
<1>. DEFINE C == (B \ old) \cup {G[e] : e \in old}
            f == [e \in B |-> IF e \in old THEN G[e] ELSE e]
<1>1. f \in [B -> C]
  OBVIOUS
<1>2. \A c \in C : \E e \in B : f[e] = c
  OBVIOUS
<1>3. f \in Surjection(B, C)
  BY <1>1, <1>2 DEF Surjection
<1>. HIDE DEF f, C
<1>4. IsFiniteSet(C) /\ Cardinality(C) <= Cardinality(B)
  BY <1>3, FS_Surjection
<1>. QED  BY <1>4 DEF C

LEMMA DroppedOK == ASSUME BoxOK, box' \subseteq box PROVE BoxOK'
<1>1. IsFiniteSet(box') /\ Cardinality(box') <= Cardinality(box)
  BY FS_Subset DEF BoxOK
<1>2. Cardinality(box') \in Nat /\ Cardinality(box) \in Nat
  BY <1>1, FS_CardinalityType DEF BoxOK
<1>. QED  BY <1>1, <1>2, SomeRoom DEF BoxOK

LEMMA ReplacedOK ==
    ASSUME BoxOK, NEW old \in SUBSET box, NEW G \in [box -> Entries],
           box' = (box \ old) \cup {G[e] : e \in old}
    PROVE  BoxOK'
<1>1. IsFiniteSet(box') /\ Cardinality(box') <= Cardinality(box)
  BY ReplaceBounded DEF BoxOK
<1>2. Cardinality(box') \in Nat /\ Cardinality(box) \in Nat
  BY <1>1, FS_CardinalityType DEF BoxOK
<1>3. box' \subseteq Entries
  BY DEF BoxOK
<1>. QED  BY <1>1, <1>2, <1>3, SomeRoom DEF BoxOK

LEMMA PushedOK ==
    ASSUME BoxOK, NEW new \in Entries, NEW all, all = box \cup {new},
           \/ Cardinality(all) <= Cap /\ box' = all
           \/ \E e \in all : box' = all \ {e}
    PROVE  BoxOK'
<1>1. IsFiniteSet(all) /\ Cardinality(all) <= Cardinality(box) + 1 /\ Cardinality(box) \in Nat
  <2>1. IsFiniteSet(box) /\ Cardinality(box) \in Nat
    BY FS_CardinalityType DEF BoxOK
  <2>2. /\ IsFiniteSet(box \cup {new})
        /\ Cardinality(box \cup {new}) = IF new \in box THEN Cardinality(box) ELSE Cardinality(box) + 1
    BY <2>1, FS_AddElement
  <2>. QED  BY <2>1, <2>2
<1>2. all \subseteq Entries
  BY DEF BoxOK
<1>3. CASE Cardinality(all) <= Cap /\ box' = all
  BY <1>1, <1>2, <1>3 DEF BoxOK
<1>4. CASE \E e \in all : box' = all \ {e}
  <2>1. PICK e \in all : box' = all \ {e}
    BY <1>4
  <2>2. IsFiniteSet(box') /\ Cardinality(box') = Cardinality(all) - 1
    BY <1>1, <2>1, FS_RemoveElement
  <2>3. Cardinality(all) \in Nat /\ Cardinality(box) <= Cap /\ Cap \in Nat
    BY <1>1, FS_CardinalityType, SomeRoom DEF BoxOK
  <2>4. Cardinality(box') <= Cap
    BY <1>1, <2>2, <2>3
  <2>. QED  BY <1>2, <2>1, <2>2, <2>4 DEF BoxOK
<1>. QED  BY <1>3, <1>4

-----------------------------------------------------------------------------
(* What happens in Postgres changes the rows, and queues at most one job. *)

LEMMA PostsOfTyped == ASSUME NEW S \in SUBSET Events PROVE PostsOf(S) \subseteq Posts
BY EventsTyped DEF PostsOf

LEMMA HappensInv == ASSUME IInv, Happens PROVE IInv' /\ JobsCarry
<1>. USE DEF IInv
<1>1. ASSUME NEW j \in Jobs, NEW v \in Events, Announce(j, v) PROVE IInv' /\ JobsCarry
  <2>1. JobsCarry
    BY <1>1, QueueCarries DEF Announce
  <2>2. RestOK' /\ BoxOK'
    BY <1>1 DEF Announce, RestOK, ClockOK, BoxOK, clock, history
  <2>. QED  BY <2>1, <2>2 DEF JobsCarry
<1>2. ASSUME NEW j \in Jobs, NEW v \in Events, Undo(j, v) PROVE IInv' /\ JobsCarry
  <2>1. JobsCarry
    BY <1>2, QueueCarries DEF Undo
  <2>2. RestOK' /\ BoxOK'
    BY <1>2 DEF Undo, RestOK, ClockOK, BoxOK, clock, history
  <2>. QED  BY <2>1, <2>2 DEF JobsCarry
<1>3. ASSUME NEW j \in Jobs, NEW v \in Events, DeletePost(j, v) PROVE IInv' /\ JobsCarry
  <2>1. JobsCarry
    BY <1>3, QueueCarries DEF DeletePost
  <2>2. v.post \in All
    BY <1>3, EventsTyped, EventsRefer DEF DeletePost, Singles, All
  <2>3. RestOK' /\ BoxOK'
    BY <1>3, <2>2 DEF DeletePost, RestOK, ClockOK, BoxOK, clock, history
  <2>. QED  BY <2>1, <2>3 DEF JobsCarry
<1>4. ASSUME NEW v \in Events, RemoveFollower(v) PROVE IInv' /\ JobsCarry
  <2>1. JobsCarry
    BY <1>4, SameJobs DEF RemoveFollower
  <2>2. RestOK' /\ BoxOK'
    BY <1>4 DEF RemoveFollower, RestOK, ClockOK, BoxOK, clock, history
  <2>. QED  BY <2>1, <2>2 DEF JobsCarry
<1>5. ASSUME NEW v \in Events, DeleteMention(v) PROVE IInv' /\ JobsCarry
  <2>1. JobsCarry
    BY <1>5, SameJobs DEF DeleteMention
  <2>2. v.post \in All
    BY <1>5, EventsTyped, EventsRefer DEF DeleteMention, Singles, All
  <2>3. RestOK' /\ BoxOK'
    BY <1>5, <2>2 DEF DeleteMention, RestOK, ClockOK, BoxOK, clock, history
  <2>. QED  BY <2>1, <2>3 DEF JobsCarry
<1>6. ASSUME NEW t \in Tweets, DeleteTweet(t) PROVE IInv' /\ JobsCarry
  <2>1. JobsCarry
    BY <1>6, SameJobs DEF DeleteTweet
  <2>2. PostsOf({v \in Events : v.tweet = t}) \subseteq All
    BY PostsOfTyped DEF All
  <2>3. facts' \subseteq facts
    BY <1>6 DEF DeleteTweet
  <2>4. RestOK' /\ BoxOK'
    BY <1>6, <2>2, <2>3 DEF DeleteTweet, RestOK, ClockOK, BoxOK, clock, All, history
  <2>. QED  BY <2>1, <2>4 DEF JobsCarry
<1>7. ASSUME NEW u \in Actors, DeleteUser(u) PROVE IInv' /\ JobsCarry
  <2>1. JobsCarry
    BY <1>7, SameJobs DEF DeleteUser
  <2>2. PostsOf({v \in Events : v.actor = u}) \subseteq All
    BY PostsOfTyped DEF All
  <2>3. RestOK' /\ BoxOK'
    BY <1>7, <2>2 DEF DeleteUser, RestOK, ClockOK, BoxOK, clock, All, history
  <2>. QED  BY <2>1, <2>3 DEF JobsCarry
<1>8. CASE TimePasses
  <2>1. JobsCarry
    BY <1>8, SameJobs DEF TimePasses
  <2>2. ClockOK'
    BY <1>8, SomeDays DEF TimePasses, RestOK, ClockOK, Days
  <2>3. RestOK' /\ BoxOK'
    BY <1>8, <2>2 DEF TimePasses, RestOK, BoxOK, rows, history
  <2>. QED  BY <2>1, <2>3 DEF JobsCarry
<1>9. ASSUME NEW j \in Jobs, NEW v \in Events, Abandon(j, v) PROVE IInv' /\ JobsCarry
  <2>1. JobsCarry
    BY <1>9, QueueCarries DEF Abandon
  <2>2. RestOK' /\ BoxOK'
    BY <1>9 DEF Abandon, RestOK, ClockOK, BoxOK, clock, rows, history
  <2>. QED  BY <2>1, <2>2 DEF JobsCarry
<1>. QED  BY <1>1, <1>2, <1>3, <1>4, <1>5, <1>6, <1>7, <1>8, <1>9 DEF Happens

-----------------------------------------------------------------------------
(* The steps of a job. *)

LEMMA MissingAreGone == ASSUME NEW e PROVE MissingTweets(e) \cup MissingUsers(e) \subseteq gone
<1>1. MissingTweets(e) \subseteq gone
  BY DEF MissingTweets
<1>2. MissingUsers(e) \subseteq gone
  BY DEF MissingUsers
<1>. QED  BY <1>1, <1>2

LEMMA ViewInv == ASSUME IInv, NEW j \in Jobs, View(j) PROVE IInv' /\ JobsCarry
<1>. USE DEF IInv
<1>1. PICK e \in box, x \in gone : Queue(j, "clear", x)
  BY MissingAreGone DEF View
<1>2. x \in All
  BY DEF RestOK
<1>3. JobsCarry
  BY <1>1, <1>2, QueueCarries
<1>4. RestOK' /\ BoxOK'
  BY DEF View, RestOK, ClockOK, BoxOK, clock, rows, history
<1>. QED  BY <1>3, <1>4 DEF JobsCarry

LEMMA SkipInv == ASSUME IInv, NEW j \in Jobs, Skip(j) PROVE IInv' /\ JobsCarry
<1>. USE DEF IInv
<1>1. JobsCarry
  BY EndsCarries DEF Skip, At, Is, Ended
<1>2. RestOK' /\ BoxOK'
  BY DEF Skip, RestOK, ClockOK, BoxOK, clock, rows, history
<1>. QED  BY <1>1, <1>2 DEF JobsCarry

LEMMA AimTyped == ASSUME NEW v PROVE Aim(v) \in Writing
BY DEF Aim, AimFollow, AimGathered, Writing

LEMMA ReadAddInv == ASSUME IInv, NEW j \in Jobs, ReadAdd(j) PROVE IInv' /\ JobsCarry
<1>1. job[j] # NoJob /\ job[j].op # "clear" /\ Reads(j, Aim(job[j].what))
  BY DEF ReadAdd, At, Is
<1>2. JobsCarry /\ clashed' \subseteq Types
  BY <1>1, AimTyped, ReadsCarries
<1>3. RestOK' /\ BoxOK'
  BY <1>2 DEF ReadAdd, IInv, RestOK, ClockOK, BoxOK, clock, rows
<1>. QED  BY <1>2, <1>3 DEF IInv, JobsCarry

\* A tweet or follow that is announced is no reply, quote or mention: only
\* tweets of the owner, or none, are joined.
LEMMA WhatTyped ==
    ASSUME IInv, NEW j \in Jobs, job[j] # NoJob, job[j].op # "clear"
    PROVE  /\ job[j] \in JobStates /\ job[j].what \in Events
           /\ job[j].what.tweet \in Tweets \cup {NoTweet} /\ job[j].what.actor \in Actors
           /\ job[j].what.post \in Posts \cup {NoTweet} /\ job[j].what.type \in Types
BY EventsTyped DEF IInv, JobsOK, WhatOK

\* What Join does to the jobs.
LEMMA JoinCarries ==
    ASSUME IInv, NEW j \in Jobs, job[j] # NoJob, job[j].op # "clear", NEW old, NEW new,
           NEW found \in SUBSET Entries, Join(j, old, new, found)
    PROVE  JobsCarry /\ RestOK'
<1>. USE DEF IInv
<1>1. RestOK'
  BY WhatTyped, Zenon DEF Join, RestOK, ClockOK, clock, rows
<1>2. ASSUME Goes(j, "push") PROVE JobsCarry
  BY <1>2, GoesCarries DEF Writing
<1>3. ASSUME NEW e \in found,
             job' = [job EXCEPT ![j] = [job[j] EXCEPT
                        !.at = "send", !.shown = (e.tweets \cup e.actors) \ {NoTweet}]]
      PROVE  JobsCarry
  <2>. DEFINE q == [job[j] EXCEPT !.at = "send", !.shown = (e.tweets \cup e.actors) \ {NoTweet}]
  <2>1. job[j] \in JobStates
    BY DEF JobsOK
  <2>2. (e.tweets \cup e.actors) \ {NoTweet} \subseteq All
    BY DEF Entries, All
  <2>3. q \in JobStates /\ q.op = job[j].op /\ q.what = job[j].what
    BY <2>1, <2>2 DEF JobStates, All
  <2>. HIDE DEF q
  <2>4. job' = [job EXCEPT ![j] = q]
    BY <1>3 DEF q
  <2>. QED  BY <2>3, <2>4, OneJob
<1>4. Goes(j, "push") \/ \E e \in found :
             job' = [job EXCEPT ![j] = [job[j] EXCEPT
                        !.at = "send", !.shown = (e.tweets \cup e.actors) \ {NoTweet}]]
  BY Zenon DEF Join
<1>5. JobsCarry
  BY <1>2, <1>3, <1>4, Zenon
<1>. QED  BY <1>1, <1>5

LEMMA JoinTweetInv == ASSUME IInv, NEW j \in Jobs, JoinTweet(j) PROVE IInv' /\ JobsCarry
<1>. DEFINE v == job[j].what
            old == OfTweet(Mine(j, box), v.tweet)
            G == [e \in box |-> [e EXCEPT !.actors = e.actors \cup {v.actor}, !.day = today]]
            new == {[e EXCEPT !.actors = e.actors \cup {v.actor}, !.day = today] : e \in old}
            found == {e \in Mine(j, (box \ old) \cup new) : v.tweet \in e.tweets}
<1>1. job[j] # NoJob /\ job[j].op # "clear" /\ Join(j, old, new, found)
  BY Zenon DEF JoinTweet, At, Is
<1>2. old \subseteq box
  BY DEF OfTweet, Mine, Recent
<1>3. v.actor \in Actors /\ today \in Days /\ box \subseteq Entries
  BY <1>1, WhatTyped, Zenon DEF IInv, RestOK, ClockOK, BoxOK
<1>4. G \in [box -> Entries]
  BY <1>3, Zenon DEF Entries
<1>5. new = {G[e] : e \in old}
  BY <1>2, Zenon
<1>6. found \subseteq Entries
  BY <1>2, <1>3, <1>4, <1>5, Zenon DEF Mine, Recent
<1>. HIDE DEF old, new, found, G
<1>7. JobsCarry /\ RestOK'
  BY <1>1, <1>6, JoinCarries
<1>8. box' = (box \ old) \cup {G[e] : e \in old}
  BY <1>1, <1>5, Zenon DEF Join
<1>9. BoxOK'
  BY <1>2, <1>4, <1>8, ReplacedOK DEF IInv
<1>. QED  BY <1>7, <1>9 DEF IInv, JobsCarry

LEMMA JoinPersonInv == ASSUME IInv, NEW j \in Jobs, JoinPerson(j) PROVE IInv' /\ JobsCarry
<1>. DEFINE v == job[j].what
            old == OfPerson(Mine(j, box), v.actor)
            G == [e \in box |-> [e EXCEPT !.tweets = e.tweets \cup {v.tweet}, !.day = today]]
            new == {[e EXCEPT !.tweets = e.tweets \cup {v.tweet}, !.day = today] : e \in old}
            found == {e \in Mine(j, (box \ old) \cup new) : v.actor \in e.actors}
<1>1. job[j] # NoJob /\ job[j].op # "clear" /\ Join(j, old, new, found)
  BY Zenon DEF JoinPerson, At, Is
<1>2. old \subseteq box
  BY DEF OfPerson, Mine, Recent
<1>3. v.tweet \in Tweets \cup {NoTweet} /\ today \in Days /\ box \subseteq Entries
  BY <1>1, WhatTyped, Zenon DEF IInv, RestOK, ClockOK, BoxOK
<1>4. G \in [box -> Entries]
  BY <1>3, Zenon DEF Entries
<1>5. new = {G[e] : e \in old}
  BY <1>2, Zenon
<1>6. found \subseteq Entries
  BY <1>2, <1>3, <1>4, <1>5, Zenon DEF Mine, Recent
<1>. HIDE DEF old, new, found, G
<1>7. JobsCarry /\ RestOK'
  BY <1>1, <1>6, JoinCarries
<1>8. box' = (box \ old) \cup {G[e] : e \in old}
  BY <1>1, <1>5, Zenon DEF Join
<1>9. BoxOK'
  BY <1>2, <1>4, <1>8, ReplacedOK DEF IInv
<1>. QED  BY <1>7, <1>9 DEF IInv, JobsCarry

LEMMA ReadDay == ASSUME IInv, NEW j \in Jobs, job[j] # NoJob PROVE job[j].day \in Days
BY DEF IInv, JobsOK, JobStates

LEMMA PushInv == ASSUME IInv, NEW j \in Jobs, Push(j) PROVE IInv' /\ JobsCarry
<1>. DEFINE v == job[j].what
            new == [type |-> v.type, tweets |-> Refers(v), actors |-> {v.actor}, day |-> job[j].day]
            all == box \cup {new}
<1>1. job[j] # NoJob /\ job[j].op # "clear" /\ Goes(j, "send")
  BY DEF Push, At, Is
<1>2. new \in Entries
  <2>1. v.type \in Types /\ {v.actor} \in SUBSET Actors /\ job[j].day \in Days
    BY <1>1, WhatTyped, ReadDay
  <2>2. Refers(v) \in SUBSET (Tweets \cup Posts \cup {NoTweet})
    BY <1>1, WhatTyped DEF Refers
  <2>. QED  BY <2>1, <2>2 DEF Entries
<1>3. \/ Cardinality(all) <= Cap /\ box' = all
      \/ \E e \in all : box' = all \ {e}
  BY DEF Push
<1>. HIDE DEF new
<1>4. BoxOK'
  BY <1>2, <1>3, PushedOK DEF IInv
<1>5. JobsCarry
  BY <1>1, GoesCarries DEF IInv
<1>6. RestOK'
  BY DEF Push, IInv, RestOK, ClockOK, clock, rows
<1>. QED  BY <1>4, <1>5, <1>6 DEF IInv, JobsCarry

LEMMA SendInv == ASSUME IInv, NEW j \in Jobs, Send(j) PROVE IInv' /\ JobsCarry
<1>. USE DEF IInv
<1>1. job[j] \in JobStates /\ job[j] # NoJob /\ job[j].op = "add" /\ job[j].what \in Events
  BY WhatTyped DEF Send, At, Is
<1>2. RestOK' /\ BoxOK'
  BY DEF Send, RestOK, ClockOK, BoxOK, clock, rows, history
<1>3. CASE Ends(j, "done")
  <2>1. JobsCarry
    BY <1>1, <1>3, EndsCarries DEF Ended
  <2>. QED  BY <2>1, <1>2 DEF JobsCarry
<1>4. ASSUME NEW c \in Jobs, NEW x \in job[j].shown \cap gone, job[c] = NoJob,
             job' = [job EXCEPT ![j] = [NewJob("add", job[j].what) EXCEPT !.at = "done"],
                                ![c] = NewJob("clear", x)]
      PROVE  JobsCarry
  <2>. DEFINE n == NewJob("add", job[j].what)
              q == [n EXCEPT !.at = "done"]
              k == NewJob("clear", x)
  <2>1. x \in Tweets \cup Posts \cup Actors
    BY DEF RestOK, All
  <2>2. k \in JobStates /\ k.op = "clear"
    <3>1. k \in JobStates
      BY <2>1, NewJobTyped
    <3>. QED  BY <3>1 DEF NewJob
  <2>3. n \in JobStates /\ n.op = "add" /\ n.what = job[j].what
    <3>1. n \in JobStates
      BY <1>1, NewJobTyped
    <3>. QED  BY <3>1 DEF NewJob
  <2>. HIDE DEF n, k
  <2>4. q \in JobStates /\ q.op = "add" /\ q.what = job[j].what
    BY <2>3 DEF JobStates, Ended
  <2>5. job' = [job EXCEPT ![j] = q, ![c] = k]
    BY <1>4 DEF n, k
  <2>. HIDE DEF q
  <2>6. job' \in [Jobs -> JobStates \cup {NoJob}]
    BY <2>2, <2>4, <2>5 DEF JobsOK
  <2>7. \A i \in Jobs : job'[i] = IF i = c THEN k ELSE IF i = j THEN q ELSE job[i]
    BY <2>5 DEF JobsOK
  <2>8. \A i \in Jobs : Carries(i)
    BY <1>1, <1>4, <2>4, <2>7, NoJobIsNoJob DEF Carries
  <2>9. \A i \in Jobs : WhatOK(i)'
    BY <1>1, <2>2, <2>4, <2>7 DEF JobsOK, WhatOK
  <2>. QED  BY <2>6, <2>8, <2>9 DEF JobsOK, JobsCarry
<1>5. Ends(j, "done") \/ \E c \in Jobs : \E x \in job[j].shown \cap gone :
          /\ job[c] = NoJob
          /\ job' = [job EXCEPT ![j] = [NewJob("add", job[j].what) EXCEPT !.at = "done"],
                                ![c] = NewJob("clear", x)]
  BY Zenon DEF Send
<1>6. JobsCarry
  <2>1. CASE Ends(j, "done")
    BY <1>3, <2>1
  <2>2. CASE \E c \in Jobs : \E x \in job[j].shown \cap gone :
          /\ job[c] = NoJob
          /\ job' = [job EXCEPT ![j] = [NewJob("add", job[j].what) EXCEPT !.at = "done"],
                                ![c] = NewJob("clear", x)]
    BY <1>4, <2>2, Zenon
  <2>. QED  BY <1>5, <2>1, <2>2
<1>. QED  BY <1>2, <1>6 DEF JobsCarry

LEMMA PullFromTyped == ASSUME NEW type, NEW e PROVE PullFrom(type, e) \in Writing
BY DEF PullFrom, Writing

LEMMA ReadRemoveInv == ASSUME IInv, NEW j \in Jobs, ReadRemove(j) PROVE IInv' /\ JobsCarry
<1>1. job[j] # NoJob /\ job[j].op # "clear"
  BY DEF ReadRemove, At, Is
<1>2. PICK at \in {"queued", "send"} \cup Writing \cup Ended : Reads(j, at)
  <2>1. Reads(j, "done") \/ \E e : Reads(j, PullFrom(job[j].what.type, e))
    BY DEF ReadRemove
  <2>2. CASE Reads(j, "done")
    BY <2>2 DEF Ended
  <2>3. CASE \E e : Reads(j, PullFrom(job[j].what.type, e))
    BY <2>3, PullFromTyped
  <2>. QED  BY <2>1, <2>2, <2>3
<1>3. JobsCarry /\ clashed' \subseteq Types
  BY <1>1, <1>2, ReadsCarries
<1>4. RestOK' /\ BoxOK'
  BY <1>3 DEF ReadRemove, IInv, RestOK, ClockOK, BoxOK, clock, rows
<1>. QED  BY <1>3, <1>4 DEF IInv, JobsCarry

LEMMA PullEntryInv == ASSUME IInv, NEW j \in Jobs, PullEntry(j) PROVE IInv' /\ JobsCarry
<1>1. job[j] # NoJob /\ (Goes(j, "sweep") \/ Ends(j, "done"))
  BY DEF PullEntry, At, Is
<1>2. JobsCarry
  BY <1>1, GoesCarries, EndsCarries DEF IInv, Writing, Ended
<1>3. BoxOK'
  BY DroppedOK DEF PullEntry, IInv
<1>4. RestOK'
  BY DEF PullEntry, IInv, RestOK, ClockOK, clock, rows, history
<1>. QED  BY <1>2, <1>3, <1>4 DEF IInv, JobsCarry

LEMMA PullActorInv == ASSUME IInv, NEW j \in Jobs, PullActor(j) PROVE IInv' /\ JobsCarry
<1>. DEFINE v == job[j].what
            old == {e \in Mine(j, box) : v.tweet \in e.tweets}
            G == [e \in box |-> [e EXCEPT !.actors = e.actors \ {v.actor}, !.day = job[j].day]]
<1>1. job[j] # NoJob /\ Goes(j, "sweep")
  BY Zenon DEF PullActor, At, Is
<1>2. old \subseteq box
  BY DEF Mine, Recent
<1>3. job[j].day \in Days /\ box \subseteq Entries
  BY <1>1, ReadDay DEF IInv, BoxOK
<1>4. G \in [box -> Entries]
  BY <1>3, Zenon DEF Entries
<1>5. box' = (box \ old) \cup {G[e] : e \in old}
  BY <1>2, Zenon DEF PullActor
<1>. HIDE DEF old, G
<1>6. BoxOK'
  BY <1>2, <1>4, <1>5, ReplacedOK DEF IInv
<1>7. JobsCarry
  BY <1>1, GoesCarries DEF IInv, Writing
<1>8. RestOK'
  BY Zenon DEF PullActor, IInv, RestOK, ClockOK, clock, rows, history
<1>. QED  BY <1>6, <1>7, <1>8 DEF IInv, JobsCarry

LEMMA PullTweetInv == ASSUME IInv, NEW j \in Jobs, PullTweet(j) PROVE IInv' /\ JobsCarry
<1>. DEFINE v == job[j].what
            old == {e \in Mine(j, box) : v.actor \in e.actors}
            G == [e \in box |-> [e EXCEPT !.tweets = e.tweets \ {v.tweet}, !.day = job[j].day]]
<1>1. job[j] # NoJob /\ Goes(j, "sweep")
  BY Zenon DEF PullTweet, At, Is
<1>2. old \subseteq box
  BY DEF Mine, Recent
<1>3. job[j].day \in Days /\ box \subseteq Entries
  BY <1>1, ReadDay DEF IInv, BoxOK
<1>4. G \in [box -> Entries]
  BY <1>3, Zenon DEF Entries
<1>5. box' = (box \ old) \cup {G[e] : e \in old}
  BY <1>2, Zenon DEF PullTweet
<1>. HIDE DEF old, G
<1>6. BoxOK'
  BY <1>2, <1>4, <1>5, ReplacedOK DEF IInv
<1>7. JobsCarry
  BY <1>1, GoesCarries DEF IInv, Writing
<1>8. RestOK'
  BY Zenon DEF PullTweet, IInv, RestOK, ClockOK, clock, rows, history
<1>. QED  BY <1>6, <1>7, <1>8 DEF IInv, JobsCarry

LEMMA SweepInv == ASSUME IInv, NEW j \in Jobs, Sweep(j) PROVE IInv' /\ JobsCarry
<1>1. JobsCarry
  BY EndsCarries DEF Sweep, At, Is, IInv, Ended
<1>2. BoxOK'
  BY DroppedOK DEF Sweep, IInv
<1>3. RestOK'
  BY DEF Sweep, IInv, RestOK, ClockOK, clock, rows, history
<1>. QED  BY <1>1, <1>2, <1>3 DEF IInv, JobsCarry

LEMMA ClearTweetInv == ASSUME IInv, NEW j \in Jobs, ClearTweet(j) PROVE IInv' /\ JobsCarry
<1>1. JobsCarry
  BY EndsCarries DEF ClearTweet, At, Is, IInv, Ended
<1>2. BoxOK'
  BY DroppedOK DEF ClearTweet, IInv
<1>3. RestOK'
  BY DEF ClearTweet, IInv, RestOK, ClockOK, clock, rows, history
<1>. QED  BY <1>1, <1>2, <1>3 DEF IInv, JobsCarry

LEMMA ClearPullInv ==
    ASSUME IInv, NEW j \in Jobs, NEW from, NEW type, NEW to \in Writing, ClearPull(j, from, type, to)
    PROVE  IInv' /\ JobsCarry
<1>. DEFINE G == [e \in box |-> IF e.type = type
                                THEN [e EXCEPT !.actors = e.actors \ {job[j].what}] ELSE e]
<1>1. JobsCarry
  BY GoesCarries DEF ClearPull, At, Is, IInv
<1>2. G \in [box -> Entries]
  BY DEF IInv, BoxOK, Entries
<1>3. box' = (box \ box) \cup {G[e] : e \in box}
  BY DEF ClearPull
<1>. HIDE DEF G
<1>4. BoxOK'
  BY <1>2, <1>3, ReplacedOK DEF IInv
<1>5. RestOK'
  BY DEF ClearPull, IInv, RestOK, ClockOK, clock, rows, history
<1>. QED  BY <1>1, <1>4, <1>5 DEF IInv, JobsCarry

LEMMA ClearUserInv == ASSUME IInv, NEW j \in Jobs, ClearUser(j) PROVE IInv' /\ JobsCarry
<1>1. CASE ClearSingle(j)
  <2>1. JobsCarry
    BY <1>1, GoesCarries DEF ClearSingle, At, Is, IInv, Writing
  <2>2. BoxOK'
    BY <1>1, DroppedOK DEF ClearSingle, IInv
  <2>3. RestOK'
    BY <1>1 DEF ClearSingle, IInv, RestOK, ClockOK, clock, rows, history
  <2>. QED  BY <2>1, <2>2, <2>3 DEF IInv, JobsCarry
<1>2. CASE ClearSweep(j)
  <2>1. JobsCarry
    BY <1>2, EndsCarries DEF ClearSweep, At, Is, IInv, Ended
  <2>2. BoxOK'
    BY <1>2, DroppedOK DEF ClearSweep, IInv
  <2>3. RestOK'
    BY <1>2 DEF ClearSweep, IInv, RestOK, ClockOK, clock, rows, history
  <2>. QED  BY <2>1, <2>2, <2>3 DEF IInv, JobsCarry
<1>3. "clearLike" \in Writing /\ "clearRepost" \in Writing /\ "clearSingle" \in Writing
  BY DEF Writing
<1>. QED  BY <1>1, <1>2, <1>3, ClearPullInv DEF ClearUser

LEMMA FailInv == ASSUME IInv, NEW j \in Jobs, Fail(j) PROVE IInv' /\ JobsCarry
<1>. DEFINE n == NewJob(job[j].op, job[j].what)
            q == IF job[j].try < Tries THEN [n EXCEPT !.try = job[j].try + 1] ELSE [n EXCEPT !.at = "dead"]
<1>1. job[j] # NoJob /\ job[j] \in JobStates
  BY DEF Fail, IInv, JobsOK
<1>2. n \in JobStates /\ n.op = job[j].op /\ n.what = job[j].what
  <2>1. job[j].op \in {"add", "remove", "clear"} /\ job[j].what \in Events \cup Tweets \cup Posts \cup Actors
    BY <1>1 DEF JobStates
  <2>2. n \in JobStates
    BY <2>1, NewJobTyped
  <2>. QED  BY <2>2 DEF NewJob
<1>3. job' = [job EXCEPT ![j] = q]
  BY DEF Fail
<1>. HIDE DEF n
<1>4. job[j].try \in 1..Tries
  BY <1>1 DEF JobStates
<1>5. q \in JobStates /\ q.op = job[j].op /\ q.what = job[j].what
  <2>1. CASE job[j].try < Tries
    <3>1. job[j].try + 1 \in 1..Tries
      BY <1>4, <2>1, SomeTries
    <3>. QED  BY <1>2, <2>1, <3>1 DEF JobStates
  <2>2. CASE ~(job[j].try < Tries)
    BY <1>2, <2>2 DEF JobStates, Ended
  <2>. QED  BY <2>1, <2>2
<1>. HIDE DEF q
<1>6. JobsCarry
  BY <1>1, <1>3, <1>5, OneJob DEF IInv
<1>7. clashed' \subseteq Types
  <2>1. job[j].op # "clear" => job[j].what.type \in Types
    BY <1>1, WhatTyped
  <2>. QED  BY <2>1 DEF Fail, IInv, RestOK
<1>8. RestOK' /\ BoxOK'
  BY <1>7 DEF Fail, IInv, RestOK, ClockOK, BoxOK, clock, rows
<1>. QED  BY <1>6, <1>8 DEF IInv, JobsCarry

\* Every step keeps the invariant, and the jobs what they are.
LEMMA StepInv == ASSUME IInv, Next PROVE IInv' /\ JobsCarry
<1>1. CASE Happens
  BY <1>1, HappensInv
<1>2. ASSUME NEW j \in Jobs, Add(j) PROVE IInv' /\ JobsCarry
  BY <1>2, SkipInv, ReadAddInv, JoinTweetInv, JoinPersonInv, PushInv, SendInv DEF Add
<1>3. ASSUME NEW j \in Jobs, Remove(j) PROVE IInv' /\ JobsCarry
  BY <1>3, ReadRemoveInv, PullEntryInv, PullActorInv, PullTweetInv, SweepInv DEF Remove
<1>4. ASSUME NEW j \in Jobs, View(j) \/ ClearTweet(j) \/ ClearUser(j) \/ Fail(j) PROVE IInv' /\ JobsCarry
  BY <1>4, ViewInv, ClearTweetInv, ClearUserInv, FailInv
<1>. QED  BY <1>1, <1>2, <1>3, <1>4 DEF Next

LEMMA StutterInv == ASSUME IInv, UNCHANGED vars PROVE IInv'
<1>1. JobsOK'
  BY DEF IInv, vars, JobsOK, WhatOK
<1>2. RestOK' /\ BoxOK'
  BY DEF IInv, vars, RestOK, ClockOK, BoxOK, clock, rows, history
<1>. QED  BY <1>1, <1>2 DEF IInv

\* The invariant that the other proofs rest on.
THEOREM Invariant == Spec => []IInv
<1>1. IInv /\ [Next]_vars => IInv'
  BY StepInv, StutterInv
<1>. QED  BY <1>1, InvInit, PTL DEF Spec

\* The document of a user is well formed and has at most Cap entries, however
\* many jobs push to it: $push slices in the update that adds.
THEOREM TypeCorrect == Spec => []TypeOK
<1>. QED  BY Invariant, IInvTypeOK, PTL

-----------------------------------------------------------------------------
(* What an entry shows.  Most steps only take from the entries; the two    *)
(* joins and the push add to them.                                         *)

Within(f, e) == f.type = e.type /\ f.tweets \subseteq e.tweets /\ f.actors \subseteq e.actors
Shrinks == \A f \in box' : \E e \in box : Within(f, e)

LEMMA SubsetShrinks == ASSUME box' \subseteq box PROVE Shrinks
BY DEF Shrinks, Within

LEMMA PullShrinks ==
    ASSUME IInv, NEW j \in Jobs, PullActor(j) \/ PullTweet(j) PROVE Shrinks
<1>1. box \subseteq Entries
  BY DEF IInv, BoxOK
<1>2. CASE PullActor(j)
  <2>1. \A f \in box' : f \in box \/ \E e \in box :
            f = [e EXCEPT !.actors = e.actors \ {job[j].what.actor}, !.day = job[j].day]
    BY <1>2, Zenon DEF PullActor, Mine, Recent
  <2>2. SUFFICES ASSUME NEW f \in box' PROVE \E e \in box : Within(f, e)
    BY DEF Shrinks
  <2>3. CASE f \in box
    BY <2>3 DEF Within
  <2>4. ASSUME NEW e \in box, f = [e EXCEPT !.actors = e.actors \ {job[j].what.actor}, !.day = job[j].day]
        PROVE  Within(f, e)
    BY <1>1, <2>4 DEF Within, Entries
  <2>. QED  BY <2>1, <2>3, <2>4, Zenon
<1>3. CASE PullTweet(j)
  <2>1. \A f \in box' : f \in box \/ \E e \in box :
            f = [e EXCEPT !.tweets = e.tweets \ {job[j].what.tweet}, !.day = job[j].day]
    BY <1>3, Zenon DEF PullTweet, Mine, Recent
  <2>2. SUFFICES ASSUME NEW f \in box' PROVE \E e \in box : Within(f, e)
    BY DEF Shrinks
  <2>3. CASE f \in box
    BY <2>3 DEF Within
  <2>4. ASSUME NEW e \in box, f = [e EXCEPT !.tweets = e.tweets \ {job[j].what.tweet}, !.day = job[j].day]
        PROVE  Within(f, e)
    BY <1>1, <2>4 DEF Within, Entries
  <2>. QED  BY <2>1, <2>3, <2>4, Zenon
<1>. QED  BY <1>2, <1>3

LEMMA ClearShrinks == ASSUME IInv, NEW j \in Jobs, ClearUser(j) PROVE Shrinks
<1>1. ASSUME NEW from, NEW type, NEW to, ClearPull(j, from, type, to) PROVE Shrinks
  <2>1. \A f \in box' : f \in box \/ \E e \in box :
            f = [e EXCEPT !.actors = e.actors \ {job[j].what}]
    BY <1>1 DEF ClearPull
  <2>. QED  BY <2>1 DEF Shrinks, Within, IInv, BoxOK, Entries
<1>2. CASE ClearSingle(j) \/ ClearSweep(j)
  BY <1>2, SubsetShrinks DEF ClearSingle, ClearSweep
<1>. QED  BY <1>1, <1>2 DEF ClearUser

\* Every step takes from the entries only, or is a join or a push.
LEMMA StepShrinks ==
    ASSUME IInv, [Next]_vars
    PROVE  Shrinks \/ \E j \in Jobs : JoinTweet(j) \/ JoinPerson(j) \/ Push(j)
<1>1. CASE Happens
  <2>1. box' = box
    BY <1>1 DEF Happens, Announce, Undo, Abandon, DeletePost, RemoveFollower, DeleteMention, DeleteTweet,
                DeleteUser, TimePasses
  <2>. QED  BY <2>1, SubsetShrinks
<1>2. ASSUME NEW j \in Jobs, Skip(j) \/ ReadAdd(j) \/ Send(j) \/ ReadRemove(j) \/ View(j) \/ Fail(j)
      PROVE Shrinks
  <2>1. box' = box
    BY <1>2 DEF Skip, ReadAdd, Send, ReadRemove, View, Fail
  <2>. QED  BY <2>1, SubsetShrinks
<1>3. ASSUME NEW j \in Jobs, PullEntry(j) \/ Sweep(j) \/ ClearTweet(j) PROVE Shrinks
  <2>1. box' \subseteq box
    BY <1>3 DEF PullEntry, Sweep, ClearTweet
  <2>. QED  BY <2>1, SubsetShrinks
<1>4. CASE UNCHANGED vars
  <2>1. box' = box
    BY <1>4 DEF vars
  <2>. QED  BY <2>1, SubsetShrinks
<1>. QED  BY <1>1, <1>2, <1>3, <1>4, PullShrinks, ClearShrinks DEF Next, Add, Remove

\* An entry after a join: it was there, or it is one that the filter let
\* through, with one more person, or with one more tweet.
LEMMA JoinTweetEntries ==
    ASSUME IInv, NEW j \in Jobs, JoinTweet(j), NEW f \in box', f \notin box
    PROVE  \E e \in box : /\ e \in Mine(j, box) /\ e.type = job[j].what.type /\ e.tweets = {job[j].what.tweet}
                          /\ f.type = e.type /\ f.tweets = e.tweets
                          /\ f.actors = e.actors \cup {job[j].what.actor}
<1>1. PICK e \in OfTweet(Mine(j, box), job[j].what.tweet) :
          f = [e EXCEPT !.actors = e.actors \cup {job[j].what.actor}, !.day = today]
  BY Zenon DEF JoinTweet, Join
<1>2. /\ e \in box /\ e \in Mine(j, box) /\ e.type = job[j].what.type
      /\ e.tweets = {job[j].what.tweet}
  BY DEF OfTweet, Mine, Recent
<1>3. e \in Entries
  BY <1>2 DEF IInv, BoxOK
<1>. QED  BY <1>1, <1>2, <1>3 DEF Entries

LEMMA JoinPersonEntries ==
    ASSUME IInv, NEW j \in Jobs, JoinPerson(j), NEW f \in box', f \notin box
    PROVE  \E e \in box : /\ e \in Mine(j, box) /\ e.type = job[j].what.type /\ e.actors = {job[j].what.actor}
                          /\ f.type = e.type /\ f.actors = e.actors
                          /\ f.tweets = e.tweets \cup {job[j].what.tweet}
<1>1. PICK e \in OfPerson(Mine(j, box), job[j].what.actor) :
          f = [e EXCEPT !.tweets = e.tweets \cup {job[j].what.tweet}, !.day = today]
  BY Zenon DEF JoinPerson, Join
<1>2. /\ e \in box /\ e \in Mine(j, box) /\ e.type = job[j].what.type
      /\ e.actors = {job[j].what.actor}
  BY DEF OfPerson, Mine, Recent
<1>3. e \in Entries
  BY <1>2 DEF IInv, BoxOK
<1>. QED  BY <1>1, <1>2, <1>3 DEF Entries

LEMMA PushEntries ==
    ASSUME NEW j \in Jobs, Push(j), NEW f \in box', f \notin box
    PROVE  /\ f.type = job[j].what.type /\ f.tweets = Refers(job[j].what)
           /\ f.actors = {job[j].what.actor}
BY DEF Push

-----------------------------------------------------------------------------
LEMMA MixStep == ASSUME IInv, TypesDoNotMix, [Next]_vars PROVE TypesDoNotMix'
<1>1. SUFFICES ASSUME NEW f \in box', f.type \in Gathered
               PROVE  (\A t1, t2 \in f.tweets : t1 = t2) \/ (\A u1, u2 \in f.actors : u1 = u2)
  BY DEF TypesDoNotMix
<1>2. CASE Shrinks
  <2>1. PICK e \in box : Within(f, e)
    BY <1>1, <1>2 DEF Shrinks
  <2>. QED  BY <1>1, <2>1 DEF TypesDoNotMix, Within
<1>3. CASE f \in box
  BY <1>1, <1>3 DEF TypesDoNotMix
<1>4. ASSUME f \notin box, NEW j \in Jobs, JoinTweet(j)
      PROVE  \A t1, t2 \in f.tweets : t1 = t2
  BY <1>4, JoinTweetEntries
<1>5. ASSUME f \notin box, NEW j \in Jobs, JoinPerson(j)
      PROVE  \A u1, u2 \in f.actors : u1 = u2
  BY <1>5, JoinPersonEntries
<1>6. ASSUME f \notin box, NEW j \in Jobs, Push(j)
      PROVE  \A u1, u2 \in f.actors : u1 = u2
  BY <1>6, PushEntries
<1>. QED  BY <1>2, <1>3, <1>4, <1>5, <1>6, StepShrinks

\* The two aggregations never mix: findOne and the update that follows it may
\* be separated by any other job, and the array filter of the update still lets
\* through only entries of one tweet, or of one person.
THEOREM AggregationsDoNotMix == Spec => []TypesDoNotMix
<1>1. Init => TypesDoNotMix
  BY DEF Init, TypesDoNotMix
<1>2. IInv /\ TypesDoNotMix /\ [Next]_vars => TypesDoNotMix'
  BY MixStep
<1>. QED  BY <1>1, <1>2, Invariant, PTL DEF Spec

-----------------------------------------------------------------------------
Told(type, t, u) == \E i \in Jobs :
    Is(i, "add") /\ job[i].what.type = type /\ job[i].what.tweet = t /\ job[i].what.actor = u

LEMMA ToldStays ==
    ASSUME JobsCarry, NEW type, NEW t, NEW u, Told(type, t, u) PROVE Told(type, t, u)'
BY DEF JobsCarry, Carries, Told, Is

LEMMA ShownStep == ASSUME IInv, OnlyWhatHappened, [Next]_vars PROVE OnlyWhatHappened'
<1>1. JobsCarry
  BY StepInv, SameJobs DEF IInv, vars
<1>2. SUFFICES ASSUME NEW f \in box', f.type \notin Singles, NEW t \in f.tweets, NEW u \in f.actors
               PROVE  Told(f.type, t, u)
  <2>1. \A type, t, u : Told(type, t, u) => Told(type, t, u)'
    BY <1>1, ToldStays
  <2>. QED  BY <1>2, <2>1 DEF OnlyWhatHappened, Told, Is
<1>3. \A e \in box : t \in e.tweets /\ u \in e.actors /\ e.type = f.type => Told(f.type, t, u)
  BY <1>2 DEF OnlyWhatHappened, Told
<1>4. CASE Shrinks
  BY <1>3, <1>4 DEF Shrinks, Within
<1>5. CASE f \in box
  BY <1>3, <1>5
<1>6. ASSUME f \notin box, NEW j \in Jobs, JoinTweet(j) PROVE Told(f.type, t, u)
  <2>1. PICK e \in box : /\ e.type = job[j].what.type /\ e.tweets = {job[j].what.tweet}
                         /\ f.type = e.type /\ f.tweets = e.tweets
                         /\ f.actors = e.actors \cup {job[j].what.actor}
    BY <1>6, JoinTweetEntries
  <2>2. Is(j, "add")
    BY <1>6, Zenon DEF JoinTweet, At
  <2>3. CASE u = job[j].what.actor
    BY <2>1, <2>2, <2>3 DEF Told
  <2>4. CASE u \in e.actors
    BY <1>3, <2>1, <2>4
  <2>. QED  BY <2>1, <2>3, <2>4
<1>7. ASSUME f \notin box, NEW j \in Jobs, JoinPerson(j) PROVE Told(f.type, t, u)
  <2>1. PICK e \in box : /\ e.type = job[j].what.type /\ e.actors = {job[j].what.actor}
                         /\ f.type = e.type /\ f.actors = e.actors
                         /\ f.tweets = e.tweets \cup {job[j].what.tweet}
    BY <1>7, JoinPersonEntries
  <2>2. Is(j, "add")
    BY <1>7, Zenon DEF JoinPerson, At
  <2>3. CASE t = job[j].what.tweet
    BY <2>1, <2>2, <2>3 DEF Told
  <2>4. CASE t \in e.tweets
    BY <1>3, <2>1, <2>4
  <2>. QED  BY <2>1, <2>3, <2>4
<1>8. ASSUME f \notin box, NEW j \in Jobs, Push(j) PROVE Told(f.type, t, u)
  <2>1. /\ f.type = job[j].what.type /\ f.tweets = Refers(job[j].what)
        /\ f.actors = {job[j].what.actor}
    BY <1>8, PushEntries
  <2>2. Is(j, "add")
    BY <1>8 DEF Push, At
  <2>3. t = job[j].what.tweet
    BY <1>2, <2>1 DEF Refers
  <2>. QED  BY <2>1, <2>2, <2>3 DEF Told
<1>. QED  BY <1>4, <1>5, <1>6, <1>7, <1>8, StepShrinks

\* An aggregated entry shows no person with a tweet that the person did not
\* like or repost: whatever order the jobs run in, each pair was announced.
THEOREM ShownHappened == Spec => []OnlyWhatHappened
<1>1. Init => OnlyWhatHappened
  BY DEF Init, OnlyWhatHappened
<1>2. IInv /\ OnlyWhatHappened /\ [Next]_vars => OnlyWhatHappened'
  BY ShownStep
<1>. QED  BY <1>1, <1>2, Invariant, PTL DEF Spec

-----------------------------------------------------------------------------
(* What is kept.  A follow, reply, quote or mention is landed when its job *)
(* has joined or pushed.  From then on an entry names it: the statements   *)
(* of other jobs take only their own actor from an entry of follows, and a *)
(* reply, quote or mention has an entry that no other event matches.  That *)
(* rests on the shape of these entries, and on the statements that a job   *)
(* of each type can be about to make.                                      *)

Shape(e) ==
    /\ e.type = "FOLLOW" => e.tweets = {NoTweet}
    /\ e.type \in Singles =>
        \E w \in Events : e.type = w.type /\ e.tweets = Refers(w) /\ e.actors = {w.actor}
ShapeInv == \A e \in box : Shape(e)

PlaceOf(q) ==
    /\ q.op = "clear" => q.what \in All
    /\ q.op # "clear" =>
        /\ q.at \in {"joinPerson", "pullTweet"} => q.what.type \in Gathered
        /\ q.at \in {"joinTweet", "pullActor", "sweep"} => q.what.type \notin Singles
        /\ q.at = "pullEntry" => q.what.type # "FOLLOW"
PlaceInv == \A i \in Jobs : job[i] # NoJob => PlaceOf(job[i])

LandedOf(q) == q.op = "add" /\ q.at \in {"send", "done"}
Landed(v) == \E i \in Jobs : job[i] # NoJob /\ LandedOf(job[i]) /\ job[i].what = v
Kept(v) == v.type \notin Gathered =>
    (Landed(v) /\ ~Removing(v) /\ ~Clearing(Refers(v) \cup {v.actor}) /\ ~cut => Named(v))
KeepInv == ShapeInv /\ PlaceInv /\ \A v \in Events : Kept(v)

LEMMA KeepImplies == KeepInv => KeptUntilRetracted
BY DEF KeepInv, Kept, KeptUntilRetracted, Added, At, Is, Landed, LandedOf

-----------------------------------------------------------------------------
(* Where the jobs are. *)

NoneLands == \A v \in Events : Landed(v)' => Landed(v)

LEMMA OnePlaced ==
    ASSUME JobsOK, PlaceInv, NEW j \in Jobs, NEW q \in JobStates, job' = [job EXCEPT ![j] = q],
           PlaceOf(q), LandedOf(q) => job[j] # NoJob /\ LandedOf(job[j]) /\ q.what = job[j].what
    PROVE  PlaceInv' /\ NoneLands
<1>1. \A i \in Jobs : job'[i] = IF i = j THEN q ELSE job[i]
  BY DEF JobsOK
<1>2. PlaceInv'
  BY <1>1 DEF PlaceInv
<1>3. NoneLands
  BY <1>1 DEF NoneLands, Landed
<1>. QED  BY <1>2, <1>3

LEMMA SamePlaced == ASSUME job' = job, PlaceInv PROVE PlaceInv' /\ NoneLands
BY DEF PlaceInv, NoneLands, Landed

LEMMA QueuePlaced ==
    ASSUME JobsOK, PlaceInv, NEW j \in Jobs, NEW op \in {"add", "remove", "clear"},
           NEW what \in Events \cup All, op = "clear" => what \in All, Queue(j, op, what)
    PROVE  PlaceInv' /\ NoneLands
<1>. DEFINE q == NewJob(op, what)
<1>1. q \in JobStates
  BY NewJobTyped DEF All
<1>2. q.op = op /\ q.what = what /\ q.at = "queued"
  BY DEF NewJob
<1>3. job' = [job EXCEPT ![j] = q]
  BY DEF Queue
<1>. HIDE DEF q
<1>4. PlaceOf(q) /\ ~LandedOf(q)
  BY <1>2 DEF PlaceOf, LandedOf
<1>. QED  BY <1>1, <1>3, <1>4, OnePlaced

\* Where a job goes next, by a statement or by reading.
LEMMA GoesPlaced ==
    ASSUME JobsOK, PlaceInv, NEW j \in Jobs, job[j] # NoJob,
           NEW at \in {"queued", "send"} \cup Writing \cup Ended, Goes(j, at),
           job[j].op # "clear" => PlaceOf([job[j] EXCEPT !.at = at]),
           job[j].op = "add" => at \notin {"send", "done"}
    PROVE  PlaceInv' /\ NoneLands
<1>. DEFINE q == [job[j] EXCEPT !.at = at]
<1>1. job[j] \in JobStates /\ PlaceOf(job[j])
  BY DEF JobsOK, PlaceInv
<1>2. q \in JobStates /\ q.op = job[j].op /\ q.what = job[j].what /\ q.at = at
  BY <1>1 DEF JobStates
<1>3. job' = [job EXCEPT ![j] = q]
  BY DEF Goes
<1>4. PlaceOf(q) /\ ~LandedOf(q)
  <2>1. CASE job[j].op = "clear"
    BY <1>1, <1>2, <2>1 DEF PlaceOf, LandedOf
  <2>2. CASE job[j].op # "clear"
    BY <1>2, <2>2 DEF LandedOf
  <2>. QED  BY <2>1, <2>2
<1>. HIDE DEF q
<1>. QED  BY <1>2, <1>3, <1>4, OnePlaced

LEMMA EndsPlaced ==
    ASSUME JobsOK, PlaceInv, NEW j \in Jobs, job[j] # NoJob, NEW at \in Ended, Ends(j, at),
           job[j].op = "add" => at # "done"
    PROVE  PlaceInv' /\ NoneLands
<1>. DEFINE n == NewJob(job[j].op, job[j].what)
            q == [n EXCEPT !.at = at]
<1>1. job[j] \in JobStates /\ PlaceOf(job[j])
  BY DEF JobsOK, PlaceInv
<1>2. n \in JobStates /\ n.op = job[j].op /\ n.what = job[j].what
  <2>1. job[j].op \in {"add", "remove", "clear"} /\ job[j].what \in Events \cup Tweets \cup Posts \cup Actors
    BY <1>1 DEF JobStates
  <2>2. n \in JobStates
    BY <2>1, NewJobTyped
  <2>. QED  BY <2>2 DEF NewJob
<1>3. job' = [job EXCEPT ![j] = q]
  BY DEF Ends
<1>. HIDE DEF n
<1>4. q \in JobStates /\ q.op = job[j].op /\ q.what = job[j].what /\ q.at = at
  BY <1>2 DEF JobStates
<1>. HIDE DEF q
<1>5. PlaceOf(q) /\ ~LandedOf(q)
  BY <1>1, <1>4 DEF PlaceOf, LandedOf, Ended
<1>. QED  BY <1>3, <1>4, <1>5, OnePlaced

LEMMA ReadsPlaced ==
    ASSUME IInv, PlaceInv, NEW j \in Jobs, job[j] # NoJob, job[j].op # "clear",
           NEW at \in {"queued", "send"} \cup Writing \cup Ended, Reads(j, at),
           PlaceOf([job[j] EXCEPT !.at = at]), job[j].op = "add" => at \notin {"send", "done"}
    PROVE  PlaceInv' /\ NoneLands
<1>. DEFINE q == [job[j] EXCEPT !.at = at, !.day = today, !.since = horizon]
<1>1. job[j] \in JobStates
  BY DEF IInv, JobsOK
<1>2. today \in Days /\ horizon \in Days
  BY SomeDays DEF IInv, RestOK, ClockOK, Days
<1>3. q \in JobStates /\ q.op = job[j].op /\ q.what = job[j].what /\ q.at = at
  BY <1>1, <1>2 DEF JobStates
<1>4. job' = [job EXCEPT ![j] = q]
  BY DEF Reads
<1>5. PlaceOf(q) /\ ~LandedOf(q)
  BY <1>1, <1>3 DEF PlaceOf, LandedOf, JobStates
<1>. HIDE DEF q
<1>. QED  BY <1>3, <1>4, <1>5, OnePlaced DEF IInv

-----------------------------------------------------------------------------
(* What a step leaves of an entry that names an event. *)

Quiet(v) == ~Removing(v)' /\ ~Clearing(Refers(v) \cup {v.actor})' /\ ~cut'
StillNamed == \A v \in Events : v.type \notin Gathered /\ Named(v) /\ Quiet(v) => Named(v)'
LandsNamed == \A v \in Events : Landed(v)' /\ ~Landed(v) => v.type \in Gathered \/ cut' \/ Named(v)'

\* A step that lands no event but those that it leaves named.
LEMMA KeptStep ==
    ASSUME KeepInv, JobsCarry, StillNamed, cut => cut', NoneLands \/ LandsNamed
    PROVE  \A v \in Events : Kept(v)'
<1>1. SUFFICES ASSUME NEW v \in Events, v.type \notin Gathered, Landed(v)', Quiet(v)
               PROVE  Named(v)'
  BY DEF Kept, Quiet
<1>2. Removing(v) => Removing(v)'
  BY DEF Removing, Is, JobsCarry, Carries
<1>3. ASSUME NEW S, Clearing(S) PROVE Clearing(S)'
  BY <1>3 DEF Clearing, Is, JobsCarry, Carries
<1>4. ~Clearing(Refers(v) \cup {v.actor}) /\ ~Removing(v) /\ ~cut
  <2>1. CASE Clearing(Refers(v) \cup {v.actor})
    BY <1>1, <1>3, <2>1 DEF Quiet
  <2>. QED  BY <1>1, <1>2, <2>1 DEF Quiet
<1>5. CASE Landed(v)
  BY <1>1, <1>4, <1>5 DEF KeepInv, Kept, StillNamed
<1>6. CASE ~Landed(v)
  BY <1>1, <1>6 DEF Quiet, NoneLands, LandsNamed
<1>. QED  BY <1>5, <1>6

LEMMA KeepSame ==
    ASSUME KeepInv, JobsCarry, box' = box, cut' = cut, PlaceInv', NoneLands PROVE KeepInv'
<1>1. StillNamed
  BY DEF StillNamed, Named
<1>2. ShapeInv'
  BY DEF KeepInv, ShapeInv
<1>3. \A v \in Events : Kept(v)'
  BY <1>1, KeptStep
<1>. QED  BY <1>2, <1>3 DEF KeepInv

\* An entry of a follow, or of a reply, quote or mention, after a step: itself,
\* or another with the same type and tweets.
LEMMA KeepChanged ==
    ASSUME KeepInv, JobsCarry, StillNamed, cut' = cut, PlaceInv', NoneLands \/ LandsNamed,
           \A f \in box' : f.type \in Gathered \/ \E e \in box :
               f.type = e.type /\ f.tweets = e.tweets /\ (e.type \in Singles => f.actors = e.actors)
    PROVE  KeepInv'
<1>1. ShapeInv'
  <2>1. SUFFICES ASSUME NEW f \in box' PROVE Shape(f)
    BY DEF ShapeInv
  <2>2. CASE f.type \in Gathered
    BY <2>2 DEF Shape, Gathered, Singles
  <2>3. ASSUME NEW e \in box, f.type = e.type, f.tweets = e.tweets,
               e.type \in Singles => f.actors = e.actors
        PROVE  Shape(f)
    BY <2>3 DEF KeepInv, ShapeInv, Shape
  <2>. QED  BY <2>2, <2>3
<1>2. \A v \in Events : Kept(v)'
  BY KeptStep
<1>. QED  BY <1>1, <1>2 DEF KeepInv

-----------------------------------------------------------------------------
(* Which events an entry can name. *)

LEMMA FollowsDiffer ==
    ASSUME NEW v \in Events, NEW w \in Events, v.type = "FOLLOW", w.type = "FOLLOW", v.actor = w.actor
    PROVE  v = w
<1>1. v.tweet = NoTweet /\ w.tweet = NoTweet /\ v.post = NoTweet /\ w.post = NoTweet
  BY EventsRefer DEF Singles
<1>2. /\ v = [type |-> v.type, tweet |-> v.tweet, post |-> v.post, actor |-> v.actor]
      /\ w = [type |-> w.type, tweet |-> w.tweet, post |-> w.post, actor |-> w.actor]
  BY EventsTyped
<1>. QED  BY <1>1, <1>2

LEMMA KeyOfSingle ==
    ASSUME NEW v \in Events, v.type \in Singles
    PROVE  v.post \in Posts /\ Key(v) = v.post /\ v.post \in Refers(v) /\ v.tweet \in Tweets \cup {NoTweet}
<1>1. v.post \in Posts /\ v.tweet \in Tweets \cup {NoTweet}
  BY EventsTyped, EventsRefer
<1>. QED  BY <1>1, KindsDisjoint DEF Key, Refers

LEMMA KeyOfFollow ==
    ASSUME NEW v \in Events, v.type = "FOLLOW"
    PROVE  Key(v) = NoTweet /\ Refers(v) = {NoTweet} /\ v.tweet = NoTweet
BY EventsRefer DEF Key, Refers, Singles

\* A post has one entry of each type, as its event left it.
LEMMA SingleEntry ==
    ASSUME ShapeInv, NEW e \in box, NEW v \in Events, v.type \in Singles, e.type = v.type,
           v.post \in e.tweets
    PROVE  e.tweets = Refers(v) /\ e.actors = {v.actor}
<1>1. PICK w \in Events : e.type = w.type /\ e.tweets = Refers(w) /\ e.actors = {w.actor}
  BY DEF ShapeInv, Shape
<1>2. v.post \in Posts /\ w.tweet \in Tweets \cup {NoTweet}
  BY <1>1, KeyOfSingle
<1>3. v.post = w.post
  BY <1>1, <1>2, KindsDisjoint DEF Refers
<1>4. w = v
  BY <1>1, <1>3, PostsTellOne
<1>. QED  BY <1>1, <1>4

\* The kinds of events that this section is about.
LEMMA NotGathered ==
    ASSUME NEW v \in Events, v.type \notin Gathered
    PROVE  v.type = "FOLLOW" \/ v.type \in Singles
BY EventsTyped DEF Types

-----------------------------------------------------------------------------
(* The steps that leave the document alone. *)

LEMMA HappensKeep == ASSUME IInv, KeepInv, Happens PROVE KeepInv'
<1>. USE DEF IInv
<1>1. JobsCarry
  BY HappensInv
<1>2. box' = box /\ cut' = cut
  BY DEF Happens, Announce, Undo, Abandon, DeletePost, RemoveFollower, DeleteMention, DeleteTweet,
         DeleteUser, TimePasses, history
<1>3. \/ job' = job
      \/ \E j \in Jobs, v \in Events : Queue(j, "add", v) \/ Queue(j, "remove", v)
  BY DEF Happens, Announce, Undo, Abandon, DeletePost, RemoveFollower, DeleteMention, DeleteTweet,
         DeleteUser, TimePasses
<1>4. PlaceInv' /\ NoneLands
  <2>1. CASE job' = job
    BY <2>1, SamePlaced DEF KeepInv
  <2>2. ASSUME NEW j \in Jobs, NEW v \in Events, Queue(j, "add", v) \/ Queue(j, "remove", v)
        PROVE  PlaceInv' /\ NoneLands
    BY <2>2, QueuePlaced DEF KeepInv
  <2>. QED  BY <1>3, <2>1, <2>2
<1>. QED  BY <1>1, <1>2, <1>4, KeepSame

LEMMA ViewKeep == ASSUME IInv, KeepInv, NEW j \in Jobs, View(j) PROVE KeepInv'
<1>. USE DEF IInv
<1>1. PICK e \in box, x \in gone : Queue(j, "clear", x)
  BY MissingAreGone DEF View
<1>2. x \in All
  BY DEF RestOK
<1>3. PlaceInv' /\ NoneLands
  BY <1>1, <1>2, QueuePlaced DEF KeepInv
<1>4. JobsCarry
  BY ViewInv
<1>. QED  BY <1>3, <1>4, KeepSame DEF View, history

LEMMA SkipKeep == ASSUME IInv, KeepInv, NEW j \in Jobs, Skip(j) PROVE KeepInv'
<1>1. job[j] # NoJob /\ Ends(j, "skipped")
  BY DEF Skip, At, Is
<1>2. PlaceInv' /\ NoneLands
  BY <1>1, EndsPlaced DEF IInv, KeepInv, Ended
<1>. QED  BY <1>2, SkipInv, KeepSame DEF Skip, history

LEMMA PlaceOfAt ==
    ASSUME IInv, NEW j \in Jobs, job[j] # NoJob, job[j].op # "clear", NEW at,
           at \in {"joinPerson", "pullTweet"} => job[j].what.type \in Gathered,
           at \in {"joinTweet", "pullActor", "sweep"} => job[j].what.type \notin Singles,
           at = "pullEntry" => job[j].what.type # "FOLLOW"
    PROVE  PlaceOf([job[j] EXCEPT !.at = at])
<1>1. job[j] \in JobStates
  BY DEF IInv, JobsOK
<1>. QED  BY <1>1 DEF PlaceOf, JobStates

LEMMA ReadAddKeep == ASSUME IInv, KeepInv, NEW j \in Jobs, ReadAdd(j) PROVE KeepInv'
<1>. DEFINE at == Aim(job[j].what)
<1>1. job[j] # NoJob /\ job[j].op = "add" /\ Reads(j, at)
  BY DEF ReadAdd, At, Is
<1>2. /\ at \in {"joinTweet", "joinPerson", "push"}
      /\ at = "joinPerson" => job[j].what.type \in Gathered
      /\ at = "joinTweet" => job[j].what.type \notin Singles
  BY DEF Aim, AimFollow, AimGathered, Gathered, Singles
<1>3. at \in Writing
  BY AimTyped
<1>. HIDE DEF at
<1>4. PlaceOf([job[j] EXCEPT !.at = at])
  BY <1>1, <1>2, PlaceOfAt
<1>5. PlaceInv' /\ NoneLands
  BY <1>1, <1>2, <1>3, <1>4, ReadsPlaced DEF KeepInv
<1>. QED  BY <1>5, ReadAddInv, KeepSame DEF ReadAdd

LEMMA ReadRemoveKeep == ASSUME IInv, KeepInv, NEW j \in Jobs, ReadRemove(j) PROVE KeepInv'
<1>1. job[j] # NoJob /\ job[j].op = "remove"
  BY DEF ReadRemove, At, Is
<1>2. PICK at : /\ Reads(j, at) /\ at \in Writing \cup Ended
                /\ at = "pullTweet" => job[j].what.type \in Gathered
                /\ at \in {"pullActor", "sweep"} => job[j].what.type \notin Singles
                /\ at = "pullEntry" => job[j].what.type # "FOLLOW"
                /\ at \notin {"joinPerson", "joinTweet"}
  <2>1. CASE Reads(j, "done")
    BY <2>1 DEF Ended
  <2>2. ASSUME NEW e, Reads(j, PullFrom(job[j].what.type, e))
        PROVE  \E at : /\ Reads(j, at) /\ at \in Writing \cup Ended
                       /\ at = "pullTweet" => job[j].what.type \in Gathered
                       /\ at \in {"pullActor", "sweep"} => job[j].what.type \notin Singles
                       /\ at = "pullEntry" => job[j].what.type # "FOLLOW"
                       /\ at \notin {"joinPerson", "joinTweet"}
    <3>1. job[j].what.type \in Types
      BY <1>1, WhatTyped
    <3>2. LET at == PullFrom(job[j].what.type, e)
          IN  /\ at = "pullTweet" => job[j].what.type \in Gathered
              /\ at \in {"pullActor", "sweep"} => job[j].what.type \notin Singles
              /\ at = "pullEntry" => job[j].what.type # "FOLLOW"
              /\ at \notin {"joinPerson", "joinTweet"}
      BY <3>1 DEF PullFrom, Types, Gathered, Singles
    <3>. QED  BY <2>2, <3>2, PullFromTyped
  <2>3. Reads(j, "done") \/ \E e : Reads(j, PullFrom(job[j].what.type, e))
    BY DEF ReadRemove
  <2>. QED  BY <2>1, <2>2, <2>3
<1>3. PlaceOf([job[j] EXCEPT !.at = at])
  BY <1>1, <1>2, PlaceOfAt
<1>4. PlaceInv' /\ NoneLands
  BY <1>1, <1>2, <1>3, ReadsPlaced DEF KeepInv
<1>. QED  BY <1>4, ReadRemoveInv, KeepSame DEF ReadRemove

LEMMA SendKeep == ASSUME IInv, KeepInv, NEW j \in Jobs, Send(j) PROVE KeepInv'
<1>1. JobsCarry /\ JobsOK'
  BY SendInv DEF JobsCarry
<1>2. box' = box /\ cut' = cut /\ Is(j, "add") /\ job[j].at = "send"
  BY DEF Send, At, history
<1>3. \A i \in Jobs : job'[i] # NoJob =>
          \/ job'[i] = job[i]
          \/ i = j /\ job'[i].op = "add" /\ job'[i].what = job[j].what /\ job'[i].at = "done"
          \/ job'[i].op = "clear" /\ job'[i].what \in All
  <2>1. CASE Ends(j, "done")
    BY <1>2, <2>1 DEF Ends, NewJob, Is, IInv, JobsOK
  <2>2. ASSUME NEW c \in Jobs, NEW x \in job[j].shown \cap gone, job[c] = NoJob,
               job' = [job EXCEPT ![j] = [NewJob("add", job[j].what) EXCEPT !.at = "done"],
                                  ![c] = NewJob("clear", x)]
        PROVE  \A i \in Jobs : job'[i] # NoJob =>
                  \/ job'[i] = job[i]
                  \/ i = j /\ job'[i].op = "add" /\ job'[i].what = job[j].what /\ job'[i].at = "done"
                  \/ job'[i].op = "clear" /\ job'[i].what \in All
    <3>1. x \in All
      BY DEF IInv, RestOK
    <3>2. \A i \in Jobs : job'[i] = IF i = c THEN NewJob("clear", x)
                                    ELSE IF i = j THEN [NewJob("add", job[j].what) EXCEPT !.at = "done"]
                                    ELSE job[i]
      BY <2>2 DEF IInv, JobsOK
    <3>. QED  BY <3>1, <3>2 DEF NewJob
  <2>3. Ends(j, "done") \/ \E c \in Jobs : \E x \in job[j].shown \cap gone :
            /\ job[c] = NoJob
            /\ job' = [job EXCEPT ![j] = [NewJob("add", job[j].what) EXCEPT !.at = "done"],
                                  ![c] = NewJob("clear", x)]
    BY Zenon DEF Send
  <2>4. CASE \E c \in Jobs : \E x \in job[j].shown \cap gone :
            /\ job[c] = NoJob
            /\ job' = [job EXCEPT ![j] = [NewJob("add", job[j].what) EXCEPT !.at = "done"],
                                  ![c] = NewJob("clear", x)]
    BY <2>2, <2>4, Zenon
  <2>. QED  BY <2>1, <2>3, <2>4
<1>4. PlaceInv'
  BY <1>3 DEF KeepInv, PlaceInv, PlaceOf
<1>5. NoneLands
  BY <1>2, <1>3 DEF NoneLands, Landed, LandedOf, Is
<1>. QED  BY <1>1, <1>2, <1>4, <1>5, KeepSame

LEMMA FailKeep == ASSUME IInv, KeepInv, NEW j \in Jobs, Fail(j) PROVE KeepInv'
<1>1. job[j] # NoJob /\ JobsCarry /\ PlaceOf(job[j])
  BY FailInv DEF Fail, KeepInv, PlaceInv
<1>2. \A i \in Jobs : i # j => job'[i] = job[i]
  BY DEF Fail, IInv, JobsOK
<1>3. /\ job'[j].op = job[j].op /\ job'[j].what = job[j].what
      /\ job'[j].at \in {"queued", "dead"}
  <2>1. job'[j] = IF job[j].try < Tries
                  THEN [NewJob(job[j].op, job[j].what) EXCEPT !.try = job[j].try + 1]
                  ELSE [NewJob(job[j].op, job[j].what) EXCEPT !.at = "dead"]
    BY DEF Fail, IInv, JobsOK
  <2>. QED  BY <2>1 DEF NewJob
<1>4. PlaceOf(job'[j]) /\ ~LandedOf(job'[j])
  BY <1>1, <1>3 DEF PlaceOf, LandedOf
<1>5. PlaceInv'
  BY <1>2, <1>4 DEF KeepInv, PlaceInv
<1>6. NoneLands
  BY <1>2, <1>4 DEF NoneLands, Landed
<1>. QED  BY <1>1, <1>5, <1>6, KeepSame DEF Fail

-----------------------------------------------------------------------------
(* The statements that take from the document. *)

\* Every entry that names an event and is not to be kept quiet about stays.
LEMMA DropKeeps ==
    ASSUME IInv, KeepInv, JobsCarry, cut' = cut, PlaceInv', NoneLands, box' \subseteq box,
           \A v \in Events : v.type \notin Gathered /\ Quiet(v) =>
               \A e \in box : e.type = v.type /\ Key(v) \in e.tweets /\ v.actor \in e.actors => e \in box'
    PROVE  KeepInv'
<1>1. StillNamed
  BY DEF StillNamed, Named
<1>2. \A f \in box' : \E e \in box :
          f.type = e.type /\ f.tweets = e.tweets /\ (e.type \in Singles => f.actors = e.actors)
  OBVIOUS
<1>. QED  BY <1>1, <1>2, KeepChanged

LEMMA RemovingStays ==
    ASSUME JobsCarry, NEW j \in Jobs, Is(j, "remove"), NEW v, job[j].what = v
    PROVE  Removing(v)'
BY DEF JobsCarry, Carries, Is, Removing

LEMMA ClearingStays ==
    ASSUME JobsCarry, NEW j \in Jobs, Is(j, "clear"), NEW S, job[j].what \in S
    PROVE  Clearing(S)'
BY DEF JobsCarry, Carries, Is, Clearing

LEMMA PullEntryKeep == ASSUME IInv, KeepInv, NEW j \in Jobs, PullEntry(j) PROVE KeepInv'
<1>. DEFINE w == job[j].what
<1>1. /\ JobsCarry /\ JobsOK /\ Is(j, "remove") /\ job[j].at = "pullEntry" /\ w \in Events
      /\ w.type # "FOLLOW"
  BY PullEntryInv, WhatTyped DEF PullEntry, At, Is, IInv, KeepInv, PlaceInv, PlaceOf
<1>2. PlaceInv' /\ NoneLands
  <2>1. CASE w.type \in Singles /\ Ends(j, "done")
    BY <1>1, <2>1, EndsPlaced DEF KeepInv, Is, Ended
  <2>2. CASE w.type \notin Singles /\ Goes(j, "sweep")
    <3>1. PlaceOf([job[j] EXCEPT !.at = "sweep"])
      BY <1>1, <2>2, PlaceOfAt DEF Is
    <3>. QED  BY <1>1, <2>2, <3>1, GoesPlaced DEF KeepInv, Is, Writing
  <2>. QED  BY <2>1, <2>2 DEF PullEntry
<1>3. ASSUME NEW v \in Events, v.type \notin Gathered, Quiet(v), NEW e \in box, e.type = v.type,
             Key(v) \in e.tweets, v.actor \in e.actors
      PROVE  e \in box'
  <2>1. SUFFICES ASSUME e \in Naming(Mine(j, box), Key(w), w.actor) PROVE FALSE
    BY DEF PullEntry
  <2>2. w.type = v.type /\ Key(w) \in e.tweets /\ w.actor \in e.actors
    BY <1>3, <2>1 DEF Naming, Mine, Recent
  <2>3. v.type \in Singles
    BY <1>1, <1>3, <2>2, NotGathered
  <2>4. e.tweets = Refers(v) /\ e.tweets = Refers(w)
    BY <1>1, <1>3, <2>2, <2>3, SingleEntry, KeyOfSingle DEF KeepInv
  <2>5. w.post = v.post
    <3>1. v.post \in Posts /\ v.post \in Refers(w) /\ w.tweet \in Tweets \cup {NoTweet}
      BY <1>1, <2>2, <2>3, <2>4, KeyOfSingle
    <3>2. v.post \in {w.post, w.tweet}
      BY <3>1 DEF Refers
    <3>. QED  BY <3>1, <3>2, KindsDisjoint
  <2>6. w = v
    BY <1>1, <2>2, <2>3, <2>5, PostsTellOne
  <2>. QED  BY <1>1, <1>3, <2>6, RemovingStays DEF Quiet
<1>. QED  BY <1>1, <1>2, <1>3, DropKeeps DEF PullEntry, history

LEMMA SweepKeep == ASSUME IInv, KeepInv, NEW j \in Jobs, Sweep(j) PROVE KeepInv'
<1>1. JobsCarry /\ Is(j, "remove")
  BY SweepInv DEF Sweep, At
<1>2. PlaceInv' /\ NoneLands
  BY <1>1, EndsPlaced DEF Sweep, IInv, KeepInv, Is, Ended
<1>3. \A e \in box : \A t \in e.tweets, u \in e.actors : e \in box'
  BY DEF Sweep, Empty
<1>. QED  BY <1>1, <1>2, <1>3, DropKeeps DEF Sweep, history

LEMMA ClearTweetKeep == ASSUME IInv, KeepInv, NEW j \in Jobs, ClearTweet(j) PROVE KeepInv'
<1>1. JobsCarry /\ Is(j, "clear")
  BY ClearTweetInv DEF ClearTweet, At
<1>2. PlaceInv' /\ NoneLands
  BY <1>1, EndsPlaced DEF ClearTweet, IInv, KeepInv, Is, Ended
<1>3. job[j].what \in All
  BY <1>1 DEF KeepInv, PlaceInv, PlaceOf, Is
<1>4. ASSUME NEW v \in Events, v.type \notin Gathered, Quiet(v), NEW e \in box, e.type = v.type,
             Key(v) \in e.tweets, v.actor \in e.actors
      PROVE  e \in box'
  <2>1. SUFFICES ASSUME job[j].what \in e.tweets PROVE FALSE
    BY DEF ClearTweet
  <2>2. CASE v.type = "FOLLOW"
    BY <1>3, <1>4, <2>1, <2>2, KindsDisjoint DEF KeepInv, ShapeInv, Shape, All
  <2>3. CASE v.type \in Singles
    <3>1. e.tweets = Refers(v)
      BY <1>4, <2>3, SingleEntry, KeyOfSingle DEF KeepInv
    <3>. QED  BY <1>1, <1>4, <2>1, <3>1, ClearingStays DEF Quiet
  <2>. QED  BY <1>4, <2>2, <2>3, NotGathered
<1>. QED  BY <1>1, <1>2, <1>4, DropKeeps DEF ClearTweet, history

LEMMA ClearSingleKeep == ASSUME IInv, KeepInv, NEW j \in Jobs, ClearSingle(j) PROVE KeepInv'
<1>1. JobsCarry /\ Is(j, "clear")
  BY ClearUserInv DEF ClearSingle, ClearUser, At
<1>2. PlaceInv' /\ NoneLands
  BY <1>1, GoesPlaced DEF ClearSingle, IInv, KeepInv, Is, Writing
<1>3. ASSUME NEW v \in Events, v.type \notin Gathered, Quiet(v), NEW e \in box, e.type = v.type,
             Key(v) \in e.tweets, v.actor \in e.actors
      PROVE  e \in box'
  <2>1. SUFFICES ASSUME e.type \in Singles, job[j].what \in e.actors PROVE FALSE
    BY DEF ClearSingle
  <2>2. e.actors = {v.actor}
    BY <1>3, <2>1, SingleEntry, KeyOfSingle DEF KeepInv
  <2>. QED  BY <1>1, <1>3, <2>1, <2>2, ClearingStays DEF Quiet
<1>. QED  BY <1>1, <1>2, <1>3, DropKeeps DEF ClearSingle, history

LEMMA ClearSweepKeep == ASSUME IInv, KeepInv, NEW j \in Jobs, ClearSweep(j) PROVE KeepInv'
<1>1. JobsCarry /\ Is(j, "clear")
  BY ClearUserInv DEF ClearSweep, ClearUser, At
<1>2. PlaceInv' /\ NoneLands
  BY <1>1, EndsPlaced DEF ClearSweep, IInv, KeepInv, Is, Ended
<1>3. \A e \in box : \A u \in e.actors : e \in box'
  BY DEF ClearSweep
<1>. QED  BY <1>1, <1>2, <1>3, DropKeeps DEF ClearSweep, history

\* The statements that take somebody from the entries.
LEMMA ClearPullKeep ==
    ASSUME IInv, KeepInv, NEW j \in Jobs, NEW from, NEW type \in Gathered \cup {"FOLLOW"},
           NEW to \in Writing, ClearPull(j, from, type, to)
    PROVE  KeepInv'
<1>. DEFINE G(e) == IF e.type = type THEN [e EXCEPT !.actors = e.actors \ {job[j].what}] ELSE e
<1>1. JobsCarry /\ Is(j, "clear")
  BY ClearPullInv DEF ClearPull, At
<1>2. PlaceInv' /\ NoneLands
  BY <1>1, GoesPlaced DEF ClearPull, IInv, KeepInv, Is
<1>3. box' = {G(e) : e \in box} /\ cut' = cut
  BY DEF ClearPull, history
<1>4. \A e \in box : /\ G(e).type = e.type /\ G(e).tweets = e.tweets
                     /\ e.type # type => G(e).actors = e.actors
                     /\ G(e).actors \in {e.actors, e.actors \ {job[j].what}}
  BY DEF IInv, BoxOK, Entries
<1>. HIDE DEF G
<1>5. StillNamed
  <2>1. SUFFICES ASSUME NEW v \in Events, v.type \notin Gathered, Named(v), Quiet(v) PROVE Named(v)'
    BY DEF StillNamed
  <2>2. PICK e \in box : e.type = v.type /\ Key(v) \in e.tweets /\ v.actor \in e.actors
    BY <2>1 DEF Named
  <2>3. v.actor # job[j].what
    BY <1>1, <2>1, ClearingStays DEF Quiet
  <2>4. G(e) \in box' /\ G(e).type = v.type /\ Key(v) \in G(e).tweets /\ v.actor \in G(e).actors
    BY <1>3, <1>4, <2>2, <2>3
  <2>. QED  BY <2>4 DEF Named
<1>6. ASSUME NEW f \in box'
      PROVE  \E e \in box :
          f.type = e.type /\ f.tweets = e.tweets /\ (e.type \in Singles => f.actors = e.actors)
  <2>1. PICK e \in box : f = G(e)
    BY <1>3
  <2>2. e.type \in Singles => e.type # type
    BY DEF Singles, Gathered
  <2>. QED  BY <1>4, <2>1, <2>2
<1>. QED  BY <1>1, <1>2, <1>3, <1>5, <1>6, KeepChanged

LEMMA ClearUserKeep == ASSUME IInv, KeepInv, NEW j \in Jobs, ClearUser(j) PROVE KeepInv'
<1>1. {"clearLike", "clearRepost", "clearSingle"} \subseteq Writing /\ {"LIKE", "REPOST"} \subseteq Gathered
  BY DEF Writing, Gathered
<1>. QED  BY <1>1, ClearPullKeep, ClearSingleKeep, ClearSweepKeep DEF ClearUser

LEMMA PullTweetKeep == ASSUME IInv, KeepInv, NEW j \in Jobs, PullTweet(j) PROVE KeepInv'
<1>. DEFINE w == job[j].what
            old == {e \in Mine(j, box) : w.actor \in e.actors}
            G(e) == [e EXCEPT !.tweets = e.tweets \ {w.tweet}, !.day = job[j].day]
<1>1. JobsCarry /\ Is(j, "remove") /\ w.type \in Gathered /\ job[j].at = "pullTweet"
  BY PullTweetInv, Zenon DEF PullTweet, At, Is, KeepInv, PlaceInv, PlaceOf
<1>2. PlaceInv' /\ NoneLands
  <2>1. PlaceOf([job[j] EXCEPT !.at = "sweep"])
    BY <1>1, PlaceOfAt DEF Is, Gathered, Singles
  <2>. QED  BY <1>1, <2>1, GoesPlaced, Zenon DEF PullTweet, IInv, KeepInv, Is, Writing
<1>3. box' = (box \ old) \cup {G(e) : e \in old} /\ cut' = cut
  BY Zenon DEF PullTweet, history
<1>4. \A e \in old : e \in box /\ e.type \in Gathered /\ G(e).type = e.type
  BY <1>1 DEF Mine, Recent, IInv, BoxOK, Entries
<1>. HIDE DEF old, G
<1>5. StillNamed
  BY <1>3, <1>4 DEF StillNamed, Named
<1>6. \A f \in box' : f.type \in Gathered \/ \E e \in box :
          f.type = e.type /\ f.tweets = e.tweets /\ (e.type \in Singles => f.actors = e.actors)
  BY <1>3, <1>4
<1>. QED  BY <1>1, <1>2, <1>3, <1>5, <1>6, KeepChanged

LEMMA PullActorKeep == ASSUME IInv, KeepInv, NEW j \in Jobs, PullActor(j) PROVE KeepInv'
<1>. DEFINE w == job[j].what
            old == {e \in Mine(j, box) : w.tweet \in e.tweets}
            G(e) == [e EXCEPT !.actors = e.actors \ {w.actor}, !.day = job[j].day]
<1>1. JobsCarry /\ Is(j, "remove") /\ w.type \notin Singles /\ w \in Events
  BY PullActorInv, WhatTyped, Zenon DEF PullActor, At, Is, KeepInv, PlaceInv, PlaceOf
<1>2. PlaceInv' /\ NoneLands
  <2>1. PlaceOf([job[j] EXCEPT !.at = "sweep"])
    BY <1>1, PlaceOfAt DEF Is
  <2>. QED  BY <1>1, <2>1, GoesPlaced, Zenon DEF PullActor, IInv, KeepInv, Is, Writing
<1>3. box' = (box \ old) \cup {G(e) : e \in old} /\ cut' = cut
  BY Zenon DEF PullActor, history
<1>4. \A e \in old : /\ e \in box /\ e.type = w.type /\ G(e).type = e.type /\ G(e).tweets = e.tweets
                     /\ G(e).actors = e.actors \ {w.actor}
  BY <1>1 DEF Mine, Recent, IInv, BoxOK, Entries
<1>. HIDE DEF old, G
<1>5. StillNamed
  <2>1. SUFFICES ASSUME NEW v \in Events, v.type \notin Gathered, Named(v), Quiet(v) PROVE Named(v)'
    BY DEF StillNamed
  <2>2. PICK e \in box : e.type = v.type /\ Key(v) \in e.tweets /\ v.actor \in e.actors
    BY <2>1 DEF Named
  <2>3. CASE e \notin old
    BY <1>3, <2>2, <2>3 DEF Named
  <2>4. CASE e \in old
    <3>1. v.type = "FOLLOW" /\ w.type = "FOLLOW"
      BY <1>1, <1>4, <2>1, <2>2, <2>4, NotGathered
    <3>2. v.actor # w.actor
      BY <1>1, <2>1, <3>1, FollowsDiffer, RemovingStays DEF Quiet
    <3>3. G(e) \in box' /\ G(e).type = v.type /\ Key(v) \in G(e).tweets /\ v.actor \in G(e).actors
      BY <1>3, <1>4, <2>2, <2>4, <3>2
    <3>. QED  BY <3>3 DEF Named
  <2>. QED  BY <2>3, <2>4
<1>6. \A f \in box' : f.type \in Gathered \/ \E e \in box :
          f.type = e.type /\ f.tweets = e.tweets /\ (e.type \in Singles => f.actors = e.actors)
  BY <1>1, <1>3, <1>4
<1>. QED  BY <1>1, <1>2, <1>3, <1>5, <1>6, KeepChanged

-----------------------------------------------------------------------------
(* The statements that add to the document. *)

LEMMA JoinLands ==
    ASSUME IInv, KeepInv, NEW j \in Jobs, Is(j, "add"), NEW old, NEW new, NEW found,
           Join(j, old, new, found)
    PROVE  /\ PlaceInv'
           /\ \A v \in Events : Landed(v)' /\ ~Landed(v) => v = job[j].what /\ found # {}
<1>1. job[j] \in JobStates /\ job[j] # NoJob /\ job[j].op = "add"
  BY DEF Is, IInv, JobsOK
<1>2. CASE Goes(j, "push")
  <2>1. PlaceOf([job[j] EXCEPT !.at = "push"])
    BY <1>1, PlaceOfAt
  <2>2. PlaceInv' /\ NoneLands
    BY <1>1, <1>2, <2>1, GoesPlaced DEF IInv, KeepInv, Writing
  <2>. QED  BY <2>2 DEF NoneLands
<1>3. ASSUME NEW e \in found,
             job' = [job EXCEPT ![j] = [job[j] EXCEPT
                        !.at = "send", !.shown = (e.tweets \cup e.actors) \ {NoTweet}]]
      PROVE  /\ PlaceInv'
             /\ \A v \in Events : Landed(v)' /\ ~Landed(v) => v = job[j].what /\ found # {}
  <2>. DEFINE q == [job[j] EXCEPT !.at = "send", !.shown = (e.tweets \cup e.actors) \ {NoTweet}]
  <2>1. q.op = "add" /\ q.what = job[j].what /\ q.at = "send"
    BY <1>1 DEF JobStates
  <2>2. \A i \in Jobs : job'[i] = IF i = j THEN q ELSE job[i]
    BY <1>3 DEF IInv, JobsOK
  <2>. HIDE DEF q
  <2>3. PlaceOf(q)
    BY <2>1 DEF PlaceOf
  <2>4. PlaceInv'
    BY <2>2, <2>3 DEF KeepInv, PlaceInv
  <2>5. \A v \in Events : Landed(v)' /\ ~Landed(v) => v = q.what
    BY <2>2 DEF Landed
  <2>. QED  BY <2>1, <2>4, <2>5
<1>4. Goes(j, "push") \/ \E e \in found :
             job' = [job EXCEPT ![j] = [job[j] EXCEPT
                        !.at = "send", !.shown = (e.tweets \cup e.actors) \ {NoTweet}]]
  BY Zenon DEF Join
<1>5. CASE \E e \in found :
             job' = [job EXCEPT ![j] = [job[j] EXCEPT
                        !.at = "send", !.shown = (e.tweets \cup e.actors) \ {NoTweet}]]
  BY <1>3, <1>5, Zenon
<1>. QED  BY <1>2, <1>4, <1>5, Zenon

\* Follows meet in one entry: the one that is found afterwards has been joined.
LEMMA JoinTweetKeep == ASSUME IInv, KeepInv, NEW j \in Jobs, JoinTweet(j) PROVE KeepInv'
<1>. DEFINE w == job[j].what
            old == OfTweet(Mine(j, box), w.tweet)
            G(e) == [e EXCEPT !.actors = e.actors \cup {w.actor}, !.day = today]
            new == {G(e) : e \in old}
            found == {e \in Mine(j, (box \ old) \cup new) : w.tweet \in e.tweets}
<1>1. /\ JobsCarry /\ Is(j, "add") /\ w.type \notin Singles /\ w \in Events
      /\ Join(j, old, new, found)
  BY JoinTweetInv, WhatTyped, Zenon DEF JoinTweet, At, Is, KeepInv, PlaceInv, PlaceOf
<1>2. PlaceInv' /\ \A v \in Events : Landed(v)' /\ ~Landed(v) => v = w /\ found # {}
  <2>. HIDE DEF old, new, found
  <2>. QED  BY <1>1, JoinLands
<1>3. box' = (box \ old) \cup new /\ cut' = cut
  BY <1>1, Zenon DEF Join
<1>4. \A e \in old : /\ e \in box /\ e.type = w.type /\ G(e).type = e.type /\ G(e).tweets = e.tweets
                     /\ G(e).actors = e.actors \cup {w.actor}
  BY DEF OfTweet, Mine, Recent, IInv, BoxOK, Entries
<1>5. ASSUME NEW v \in Events, v = w, v.type = "FOLLOW", found # {} PROVE Named(v)'
  <2>1. w.tweet = NoTweet /\ Key(v) = NoTweet
    BY <1>1, <1>5, KeyOfFollow, Zenon
  <2>2. PICK f \in found : TRUE
    BY <1>5, Zenon
  <2>3. f \in (box \ old) \cup new /\ f.type = "FOLLOW" /\ f.day >= job[j].since
    BY <1>5, Zenon DEF Mine, Recent
  <2>4. CASE f \in box \ old
    <3>1. f.tweets = {w.tweet}
      BY <2>1, <2>3, <2>4, Zenon DEF KeepInv, ShapeInv, Shape
    <3>2. f \in old
      BY <1>5, <2>3, <2>4, <3>1, Zenon DEF OfTweet, Mine, Recent
    <3>. QED  BY <2>4, <3>2, Zenon
  <2>5. CASE f \in new
    <3>1. PICK e \in old : f = G(e)
      BY <2>5, Zenon
    <3>2. e.tweets = {w.tweet}
      BY Zenon DEF OfTweet
    <3>3. f \in box' /\ f.type = v.type /\ Key(v) \in f.tweets /\ v.actor \in f.actors
      BY <1>3, <1>4, <1>5, <2>1, <2>3, <2>5, <3>1, <3>2, Zenon
    <3>. QED  BY <3>3, Zenon DEF Named
  <2>. QED  BY <2>3, <2>4, <2>5, Zenon
<1>. HIDE DEF old, G, found
<1>6. LandsNamed
  <2>1. SUFFICES ASSUME NEW v \in Events, v = w, found # {}, v.type \notin Gathered PROVE Named(v)'
    BY <1>2 DEF LandsNamed
  <2>. QED  BY <1>1, <1>5, <2>1, NotGathered
<1>7. StillNamed
  <2>1. SUFFICES ASSUME NEW v \in Events, Named(v) PROVE Named(v)'
    BY DEF StillNamed
  <2>2. PICK e \in box : e.type = v.type /\ Key(v) \in e.tweets /\ v.actor \in e.actors
    BY <2>1 DEF Named
  <2>3. CASE e \in old
    <3>1. G(e) \in box' /\ G(e).type = v.type /\ Key(v) \in G(e).tweets /\ v.actor \in G(e).actors
      BY <1>3, <1>4, <2>2, <2>3
    <3>. QED  BY <3>1 DEF Named
  <2>. QED  BY <1>3, <2>2, <2>3 DEF Named
<1>8. \A f \in box' : f.type \in Gathered \/ \E e \in box :
          f.type = e.type /\ f.tweets = e.tweets /\ (e.type \in Singles => f.actors = e.actors)
  BY <1>1, <1>3, <1>4
<1>. QED  BY <1>1, <1>2, <1>3, <1>6, <1>7, <1>8, KeepChanged

LEMMA JoinPersonKeep == ASSUME IInv, KeepInv, NEW j \in Jobs, JoinPerson(j) PROVE KeepInv'
<1>. DEFINE w == job[j].what
            old == OfPerson(Mine(j, box), w.actor)
            G(e) == [e EXCEPT !.tweets = e.tweets \cup {w.tweet}, !.day = today]
            new == {G(e) : e \in old}
            found == {e \in Mine(j, (box \ old) \cup new) : w.actor \in e.actors}
<1>1. /\ JobsCarry /\ Is(j, "add") /\ w.type \in Gathered
      /\ Join(j, old, new, found)
  BY JoinPersonInv, Zenon DEF JoinPerson, At, Is, KeepInv, PlaceInv, PlaceOf
<1>2. PlaceInv' /\ \A v \in Events : Landed(v)' /\ ~Landed(v) => v = w /\ found # {}
  <2>. HIDE DEF old, new, found
  <2>. QED  BY <1>1, JoinLands
<1>3. box' = (box \ old) \cup new /\ cut' = cut
  BY <1>1, Zenon DEF Join
<1>4. \A e \in old : e \in box /\ e.type \in Gathered /\ G(e).type = e.type
  BY <1>1, Zenon DEF OfPerson, Mine, Recent, IInv, BoxOK, Entries
<1>. HIDE DEF old, G, found
<1>5. LandsNamed
  BY <1>1, <1>2 DEF LandsNamed
<1>6. StillNamed
  BY <1>3, <1>4 DEF StillNamed, Named
<1>7. \A f \in box' : f.type \in Gathered \/ \E e \in box :
          f.type = e.type /\ f.tweets = e.tweets /\ (e.type \in Singles => f.actors = e.actors)
  BY <1>3, <1>4
<1>. QED  BY <1>1, <1>2, <1>3, <1>5, <1>6, <1>7, KeepChanged

LEMMA PushKeep == ASSUME IInv, KeepInv, NEW j \in Jobs, Push(j) PROVE KeepInv'
<1>. DEFINE w == job[j].what
            new == [type |-> w.type, tweets |-> Refers(w), actors |-> {w.actor}, day |-> job[j].day]
<1>1. JobsCarry /\ Is(j, "add") /\ w \in Events /\ job[j] \in JobStates
  BY PushInv, WhatTyped DEF Push, At, Is
<1>2. job' = [job EXCEPT ![j] = [job[j] EXCEPT !.at = "send"]]
  BY DEF Push, Goes
<1>3. box' \subseteq box \cup {new} /\ (~cut' => box' = box \cup {new}) /\ (cut => cut')
  BY DEF Push
<1>4. new.type = w.type /\ new.tweets = Refers(w) /\ new.actors = {w.actor}
  OBVIOUS
<1>. HIDE DEF new
<1>5. PlaceInv' /\ \A v \in Events : Landed(v)' /\ ~Landed(v) => v = w
  <2>1. \A i \in Jobs : i # j => job'[i] = job[i]
    BY <1>2 DEF IInv, JobsOK
  <2>2. job'[j].op = "add" /\ job'[j].what = w /\ job'[j].at = "send"
    BY <1>1, <1>2 DEF IInv, JobsOK, JobStates, Is
  <2>3. PlaceOf(job'[j])
    BY <2>2 DEF PlaceOf
  <2>. QED  BY <2>1, <2>2, <2>3 DEF KeepInv, PlaceInv, Landed
<1>6. ShapeInv'
  <2>1. Shape(new)
    BY <1>1, <1>4, KeyOfFollow DEF Shape
  <2>. QED  BY <1>3, <2>1 DEF KeepInv, ShapeInv
<1>7. LandsNamed
  <2>1. SUFFICES ASSUME NEW v \in Events, v = w, v.type \notin Gathered, ~cut' PROVE Named(v)'
    BY <1>5 DEF LandsNamed
  <2>2. Key(v) \in Refers(v)
    BY <2>1, NotGathered, KeyOfFollow, KeyOfSingle
  <2>3. new \in box' /\ new.type = v.type /\ Key(v) \in new.tweets /\ v.actor \in new.actors
    BY <1>3, <1>4, <2>1, <2>2
  <2>. QED  BY <2>3 DEF Named
<1>8. StillNamed
  BY <1>3 DEF StillNamed, Named, Quiet
<1>9. \A v \in Events : Kept(v)'
  BY <1>1, <1>3, <1>7, <1>8, KeptStep
<1>. QED  BY <1>5, <1>6, <1>9 DEF KeepInv

-----------------------------------------------------------------------------
LEMMA KeepStep == ASSUME IInv, KeepInv, [Next]_vars PROVE KeepInv'
<1>1. ASSUME NEW j \in Jobs, Add(j) PROVE KeepInv'
  BY <1>1, SkipKeep, ReadAddKeep, JoinTweetKeep, JoinPersonKeep, PushKeep, SendKeep DEF Add
<1>2. ASSUME NEW j \in Jobs, Remove(j) PROVE KeepInv'
  BY <1>2, ReadRemoveKeep, PullEntryKeep, PullActorKeep, PullTweetKeep, SweepKeep DEF Remove
<1>3. ASSUME NEW j \in Jobs, View(j) \/ ClearTweet(j) \/ ClearUser(j) \/ Fail(j) PROVE KeepInv'
  BY <1>3, ViewKeep, ClearTweetKeep, ClearUserKeep, FailKeep
<1>4. CASE UNCHANGED vars
  <2>1. JobsCarry /\ PlaceInv' /\ NoneLands
    BY <1>4, SameJobs, SamePlaced DEF vars, IInv, KeepInv
  <2>. QED  BY <1>4, <2>1, KeepSame DEF vars, history
<1>. QED  BY <1>1, <1>2, <1>3, <1>4, HappensKeep DEF Next

LEMMA KeepHolds == Spec => []KeepInv
<1>1. Init => KeepInv
  BY NoJobIsNoJob DEF Init, KeepInv, ShapeInv, PlaceInv, Kept, Landed
<1>2. IInv /\ KeepInv /\ [Next]_vars => KeepInv'
  BY KeepStep
<1>. QED  BY <1>1, <1>2, Invariant, PTL DEF Spec

\* A follow, reply, quote or mention whose job is done is named by an entry
\* until a removal or a clear job for it is queued or the slice drops an entry:
\* no join, pull or sweep of another's job loses it, in whatever order the
\* statements of any number of jobs come.
THEOREM FollowsAndPostsKept == Spec => []KeptUntilRetracted
BY KeepHolds, KeepImplies, PTL

-----------------------------------------------------------------------------
(* What jobs that keep to themselves achieve.  The invariant has two       *)
(* layers.  The first is about the queue: of a type that has not clashed   *)
(* one job runs at a time, an event is removed at most as often as it was  *)
(* announced, and the last of its jobs is the one that the rows call for.  *)
(* The second is about the document: what is away is named by no entry in  *)
(* sight, so that a person and a tweet meet in one entry only, so that a   *)
(* removal matches the one entry that it read, so that nobody else's event *)
(* goes with it.                                                           *)
(*                                                                         *)
(* A job is open while it may still write for its event, and busy between  *)
(* its read and its last write.                                            *)

Busy(i) == job[i] # NoJob /\ job[i].op # "clear" /\ job[i].at \in Writing
OpenFor(i, op, v) == Is(i, op) /\ job[i].what = v /\ (job[i].at = "queued" \/ job[i].at \in Writing)
QueuedFor(i, op, v) == At(i, op, "queued") /\ job[i].what = v
SweepsFor(i, v) == At(i, "remove", "sweep") /\ job[i].what = v
Opened(v) == \E i \in Jobs : OpenFor(i, "add", v) \/ OpenFor(i, "remove", v)
Here(v) == v.tweet \notin gone /\ v.actor \notin gone
NA(v) == Cardinality(JobsFor(v, "add"))
NR(v) == Cardinality(JobsFor(v, "remove"))

\* Jobs of a type run one after the other, or the type has clashed; what a job
\* ends in says what happened to it.
FiniteInv == IsFiniteSet({i \in Jobs : job[i] # NoJob /\ job[i].op # "clear"})
SerialInv == \A i, k \in Jobs :
    i # k /\ Busy(i) /\ Busy(k) /\ job[i].what.type = job[k].what.type => job[i].what.type \in clashed
EndInv == \A i \in Jobs : job[i] # NoJob /\ job[i].op # "clear" =>
    /\ job[i].at = "dead" => job[i].what.type \in clashed
    /\ job[i].at = "skipped" => job[i].what.actor \in gone
HereInv == \A v \in facts : Here(v)

\* How often an event was announced and removed.
Counted(v) ==
    /\ v.type \in Gathered => /\ v \in facts => NA(v) <= NR(v) + 1
                              /\ v \notin facts /\ Here(v) => NA(v) <= NR(v)
    /\ v.type = "FOLLOW" => /\ v \in facts => NA(v) >= NR(v) + 1
                            /\ v \notin facts => NA(v) >= NR(v)
    /\ v.type \in {"REPLY", "QUOTE"} =>
         (JobsFor(v, "add") # {} \/ JobsFor(v, "remove") # {} => v \in facts \/ ~Here(v) \/ v.post \in gone)
    /\ v.type = "MENTION" => JobsFor(v, "remove") = {}
CountInv == \A v \in Events : Counted(v)

\* No job that is still to come may announce the event again.
Retracted(v) == Here(v) /\
    \/ v.type \in Singles /\ JobsFor(v, "remove") # {}
    \/ v.type \notin Singles /\ v \notin facts /\ NA(v) <= NR(v)

\* The last job of an event is the one that its counts call for.
Ordered(v) ==
    /\ v.type \in Gathered /\ v \in facts /\ NA(v) > NR(v) =>
         (\E i \in Jobs : QueuedFor(i, "add", v)) \/ (\A i \in Jobs : ~OpenFor(i, "remove", v))
    /\ Retracted(v) =>
         (\E i \in Jobs : QueuedFor(i, "remove", v)) \/ (\A i \in Jobs : ~OpenFor(i, "add", v))
    /\ v.type \in Gathered => \A i, k \in Jobs : i # k /\ QueuedFor(i, "add", v) /\ OpenFor(k, "add", v) =>
         \E r \in Jobs : QueuedFor(r, "remove", v)
OrderInv == \A v \in Events : v.type \notin clashed => Ordered(v)

JobInv == FiniteInv /\ SerialInv /\ EndInv /\ HereInv /\ CountInv /\ OrderInv

\* A running job of the type, or the next one, would find the entry.
Names(e, v) == e.type = v.type /\ Key(v) \in e.tweets /\ v.actor \in e.actors
Seen(e) == e.day >= horizon \/ \E i \in Jobs : Busy(i) /\ job[i].what.type = e.type /\ e.day >= job[i].since
Unseen(v) == \A e \in box : Names(e, v) => ~Seen(e)

\* An event is away: retracted, or announced and not yet pushed, or removed
\* from every entry that the job saw.
Away(v) ==
    \/ Retracted(v) /\ ~Opened(v)
    \/ v.type \in Gathered /\ \E i \in Jobs : QueuedFor(i, "add", v) /\
          \A k \in Jobs : k # i => ~OpenFor(k, "add", v) /\ ~OpenFor(k, "remove", v)
    \/ v.type \in Gathered /\ \E i \in Jobs : OpenFor(i, "add", v) /\ Busy(i)
    \/ \E i \in Jobs : SweepsFor(i, v)
\* The next job of the type does not find what is away.
AwayInv == \A v \in Events : v.type \notin clashed /\ Away(v) => Unseen(v)
\* Only what was announced is named.
PostedInv == \A v \in Events : Named(v) => JobsFor(v, "add") # {}

\* The jobs of this type kept to themselves and each found one entry to join.
Quiets(type) == type \in Gathered \ (clashed \cup scattered)
\* Two entries in sight do not share a person and a tweet.
Overlap(e, f) == \E t \in e.tweets \cap f.tweets, u \in e.actors \cap f.actors : TRUE
OneInv == \A e, f \in box :
    Quiets(e.type) /\ f.type = e.type /\ Seen(e) /\ Seen(f) /\ Overlap(e, f) => e = f
\* What a removal takes from an entry is its own event and no other.
PullInv == \A i \in Jobs : Is(i, "remove") /\ Quiets(job[i].what.type) =>
    \A e \in Naming(Mine(i, box), job[i].what.tweet, job[i].what.actor) :
        /\ job[i].at \in {"pullEntry", "pullActor"} => e.tweets = {job[i].what.tweet}
        /\ job[i].at \in {"pullEntry", "pullTweet"} => e.actors = {job[i].what.actor}
TweetsInv == \A e \in box : e.type \in Gathered => e.tweets \subseteq Tweets
\* What was announced more often than removed is named when its jobs have run.
Stays(v) == ~Clearing(Tweets \cup {v.actor}) /\ ~cut /\ NA(v) > NR(v)
KeptInv == \A v \in facts : Quiets(v.type) /\ ~Opened(v) /\ Stays(v) => Named(v)

-----------------------------------------------------------------------------
(* How a step moves a job.  A step of a job may also queue a clear job; if *)
(* the job is about an event, it goes one place on, or its type clashes.   *)

Others(j) == \A i \in Jobs : i # j =>
    job'[i] = job[i] \/ (job[i] = NoJob /\ job'[i] # NoJob /\ job'[i].op = "clear")

Advances(j) ==
    \/ job[j].what.type \in clashed' /\ job'[j].at \in {"queued", "dead"}
    \/ /\ job[j].at = "queued" /\ job'[j].at \in Writing \cup {"done"} /\ job'[j].since = horizon
       /\ Disturbed(j) => job[j].what.type \in clashed'
    \/ job[j].at = "queued" /\ job'[j].at = "skipped" /\ job[j].what.actor \in gone /\ job[j].op = "add"
    \/ job[j].at \in Writing /\ job'[j].at \in Writing /\ job'[j].since = job[j].since
    \/ job[j].at \in Writing /\ job'[j].at = "done"
    \/ job[j].at \in Writing /\ job'[j].at = "send" /\ job[j].op = "add"
    \/ job[j].at = "send" /\ job'[j].at = "done"

Moves(j) ==
    /\ job[j] # NoJob /\ Others(j)
    /\ facts' = facts /\ gone' = gone /\ horizon' = horizon
    /\ clashed \subseteq clashed' /\ scattered \subseteq scattered' /\ (cut => cut')
    /\ job[j].op # "clear" => Advances(j)

LEMMA GoesTo ==
    ASSUME IInv, NEW j \in Jobs, job[j] # NoJob, NEW at, Goes(j, at)
    PROVE  job'[j].at = at /\ job'[j].since = job[j].since /\ Others(j)
<1>1. job[j] \in JobStates
  BY DEF IInv, JobsOK
<1>2. job'[j] = [job[j] EXCEPT !.at = at] /\ \A i \in Jobs : i # j => job'[i] = job[i]
  BY DEF Goes, IInv, JobsOK
<1>. QED  BY <1>1, <1>2 DEF JobStates, Others

LEMMA EndsTo ==
    ASSUME IInv, NEW j \in Jobs, job[j] # NoJob, NEW at, Ends(j, at)
    PROVE  job'[j].at = at /\ Others(j)
<1>1. job'[j] = [NewJob(job[j].op, job[j].what) EXCEPT !.at = at] /\ \A i \in Jobs : i # j => job'[i] = job[i]
  BY DEF Ends, IInv, JobsOK
<1>. QED  BY <1>1 DEF NewJob, Others

LEMMA ReadsTo ==
    ASSUME IInv, NEW j \in Jobs, job[j] # NoJob, NEW at, Reads(j, at)
    PROVE  /\ job'[j].at = at /\ job'[j].since = horizon /\ Others(j)
           /\ clashed \subseteq clashed' /\ (Disturbed(j) => job[j].what.type \in clashed')
<1>1. job[j] \in JobStates
  BY DEF IInv, JobsOK
<1>2. /\ job'[j] = [job[j] EXCEPT !.at = at, !.day = today, !.since = horizon]
      /\ \A i \in Jobs : i # j => job'[i] = job[i]
  BY DEF Reads, IInv, JobsOK
<1>3. clashed' = IF Disturbed(j) THEN clashed \cup {job[j].what.type} ELSE clashed
  BY DEF Reads
<1>4. clashed \subseteq clashed' /\ (Disturbed(j) => job[j].what.type \in clashed')
  BY <1>3
<1>. QED  BY <1>1, <1>2, <1>4 DEF JobStates, Others

LEMMA SkipMoves == ASSUME IInv, NEW j \in Jobs, Skip(j) PROVE Moves(j)
BY EndsTo DEF Skip, Moves, Advances, At, Is, rows, clock, history

LEMMA ReadAddMoves == ASSUME IInv, NEW j \in Jobs, ReadAdd(j) PROVE Moves(j)
<1>1. job[j] # NoJob /\ Reads(j, Aim(job[j].what)) /\ job[j].at = "queued"
  BY DEF ReadAdd, At, Is
<1>. QED  BY <1>1, ReadsTo, AimTyped DEF ReadAdd, Moves, Advances, rows, clock

LEMMA ReadRemoveMoves == ASSUME IInv, NEW j \in Jobs, ReadRemove(j) PROVE Moves(j)
<1>1. job[j] # NoJob /\ job[j].at = "queued"
  BY DEF ReadRemove, At, Is
<1>2. PICK at \in Writing \cup {"done"} : Reads(j, at)
  BY PullFromTyped DEF ReadRemove
<1>. QED  BY <1>1, <1>2, ReadsTo DEF ReadRemove, Moves, Advances, rows, clock

\* A statement after which the job goes on.
LEMMA WriteMoves ==
    ASSUME IInv, NEW j \in Jobs, job[j] # NoJob, job[j].at \in Writing,
           UNCHANGED <<rows, clock, clashed>>, scattered \subseteq scattered', cut => cut',
           \/ \E at \in Writing \cup {"send"} : Goes(j, at) /\ (at = "send" => job[j].op = "add")
           \/ Ends(j, "done")
    PROVE  Moves(j)
BY GoesTo, EndsTo DEF Moves, Advances, rows, clock

LEMMA JoinMoves ==
    ASSUME IInv, NEW j \in Jobs, job[j] # NoJob, job[j].at \in Writing, job[j].op = "add",
           NEW old, NEW new, NEW found,
           Join(j, old, new, found)
    PROVE  Moves(j)
<1>1. CASE Goes(j, "push")
  BY <1>1, WriteMoves, Zenon DEF Join, Writing
<1>2. ASSUME NEW e \in found,
             job' = [job EXCEPT ![j] = [job[j] EXCEPT
                        !.at = "send", !.shown = (e.tweets \cup e.actors) \ {NoTweet}]]
      PROVE  Moves(j)
  <2>1. job[j] \in JobStates
    BY DEF IInv, JobsOK
  <2>2. job'[j] = [job[j] EXCEPT !.at = "send", !.shown = (e.tweets \cup e.actors) \ {NoTweet}]
    BY <1>2 DEF IInv, JobsOK
  <2>3. job'[j].at = "send"
    BY <2>1, <2>2 DEF JobStates
  <2>4. Others(j)
    BY <1>2 DEF IInv, JobsOK, Others
  <2>. QED  BY <2>3, <2>4, Zenon DEF Moves, Advances, Join, rows, clock
<1>. QED  BY <1>1, <1>2, Zenon DEF Join

LEMMA JoinTweetMoves == ASSUME IInv, NEW j \in Jobs, JoinTweet(j) PROVE Moves(j)
<1>1. job[j] # NoJob /\ job[j].at \in Writing /\ job[j].op = "add"
  BY Zenon DEF JoinTweet, At, Is, Writing
<1>2. PICK old, new, found : Join(j, old, new, found)
  BY Zenon DEF JoinTweet
<1>. QED  BY <1>1, <1>2, JoinMoves

LEMMA JoinPersonMoves == ASSUME IInv, NEW j \in Jobs, JoinPerson(j) PROVE Moves(j)
<1>1. job[j] # NoJob /\ job[j].at \in Writing /\ job[j].op = "add"
  BY Zenon DEF JoinPerson, At, Is, Writing
<1>2. PICK old, new, found : Join(j, old, new, found)
  BY Zenon DEF JoinPerson
<1>. QED  BY <1>1, <1>2, JoinMoves

LEMMA PushMoves == ASSUME IInv, NEW j \in Jobs, Push(j) PROVE Moves(j)
<1>1. job[j] # NoJob /\ job[j].at \in Writing /\ job[j].op = "add" /\ Goes(j, "send") /\ (cut => cut')
  BY DEF Push, At, Is, Writing
<1>. QED  BY <1>1, WriteMoves DEF Push

LEMMA SendMoves == ASSUME IInv, NEW j \in Jobs, Send(j) PROVE Moves(j)
<1>1. job[j] # NoJob /\ job[j].at = "send"
  BY DEF Send, At, Is
<1>2. job'[j].at = "done" /\ Others(j)
  <2>1. CASE Ends(j, "done")
    BY <1>1, <2>1, EndsTo
  <2>2. ASSUME NEW c \in Jobs, NEW x \in job[j].shown \cap gone, job[c] = NoJob,
               job' = [job EXCEPT ![j] = [NewJob("add", job[j].what) EXCEPT !.at = "done"],
                                  ![c] = NewJob("clear", x)]
        PROVE  job'[j].at = "done" /\ Others(j)
    <3>1. c # j
      BY <1>1, <2>2
    <3>2. /\ job'[j] = [NewJob("add", job[j].what) EXCEPT !.at = "done"]
          /\ job'[c] = NewJob("clear", x)
          /\ \A i \in Jobs : i # j /\ i # c => job'[i] = job[i]
      BY <2>2, <3>1 DEF IInv, JobsOK
    <3>3. NewJob("clear", x) # NoJob
      <4>1. x \in All
        BY DEF IInv, RestOK
      <4>. QED  BY <4>1, NewJobTyped, NoJobIsNoJob DEF All
    <3>4. job'[j].at = "done" /\ job'[c].op = "clear"
      BY <3>2 DEF NewJob
    <3>5. job'[c] # NoJob /\ job[c] = NoJob
      BY <2>2, <3>2, <3>3
    <3>. QED  BY <3>2, <3>4, <3>5 DEF Others
  <2>3. \/ Ends(j, "done")
        \/ \E c \in Jobs : \E x \in job[j].shown \cap gone :
             /\ job[c] = NoJob
             /\ job' = [job EXCEPT ![j] = [NewJob("add", job[j].what) EXCEPT !.at = "done"],
                                ![c] = NewJob("clear", x)]
    BY Zenon DEF Send
  <2>4. CASE \E c \in Jobs : \E x \in job[j].shown \cap gone :
             /\ job[c] = NoJob
             /\ job' = [job EXCEPT ![j] = [NewJob("add", job[j].what) EXCEPT !.at = "done"],
                                ![c] = NewJob("clear", x)]
    BY <2>2, <2>4, Zenon
  <2>. QED  BY <2>1, <2>3, <2>4
<1>. QED  BY <1>1, <1>2 DEF Send, Moves, Advances, rows, clock, history

LEMMA PullEntryMoves == ASSUME IInv, NEW j \in Jobs, PullEntry(j) PROVE Moves(j)
<1>1. job[j] # NoJob /\ job[j].at \in Writing /\ (Ends(j, "done") \/ Goes(j, "sweep"))
  BY DEF PullEntry, At, Is, Writing
<1>. QED  BY <1>1, WriteMoves DEF PullEntry, history, Writing

LEMMA PullActorMoves == ASSUME IInv, NEW j \in Jobs, PullActor(j) PROVE Moves(j)
<1>1. job[j] # NoJob /\ job[j].at \in Writing /\ Goes(j, "sweep")
  BY Zenon DEF PullActor, At, Is, Writing
<1>2. UNCHANGED <<rows, clock, clashed, scattered, cut>>
  BY Zenon DEF PullActor, history
<1>3. "sweep" \in Writing
  BY DEF Writing
<1>. QED  BY <1>1, <1>2, <1>3, WriteMoves

LEMMA PullTweetMoves == ASSUME IInv, NEW j \in Jobs, PullTweet(j) PROVE Moves(j)
<1>1. job[j] # NoJob /\ job[j].at \in Writing /\ Goes(j, "sweep")
  BY Zenon DEF PullTweet, At, Is, Writing
<1>2. UNCHANGED <<rows, clock, clashed, scattered, cut>>
  BY Zenon DEF PullTweet, history
<1>3. "sweep" \in Writing
  BY DEF Writing
<1>. QED  BY <1>1, <1>2, <1>3, WriteMoves

LEMMA SweepMoves == ASSUME IInv, NEW j \in Jobs, Sweep(j) PROVE Moves(j)
<1>1. job[j] # NoJob /\ job[j].at \in Writing /\ Ends(j, "done")
  BY DEF Sweep, At, Is, Writing
<1>. QED  BY <1>1, WriteMoves DEF Sweep, history, Writing

LEMMA ClearMoves == ASSUME IInv, NEW j \in Jobs, ClearTweet(j) \/ ClearUser(j) PROVE Moves(j)
<1>1. /\ job[j] # NoJob /\ job[j].op = "clear"
      /\ (\E at : Goes(j, at)) \/ Ends(j, "done")
      /\ UNCHANGED <<rows, clock, history>>
  BY DEF ClearTweet, ClearUser, ClearPull, ClearSingle, ClearSweep, At, Is
<1>. QED  BY <1>1, GoesTo, EndsTo DEF Moves, rows, clock, history

LEMMA FailsTo ==
    ASSUME IInv, NEW j \in Jobs, Fail(j)
    PROVE  job'[j].at \in {"queued", "dead"} /\ Others(j)
<1>. DEFINE n == NewJob(job[j].op, job[j].what)
            q == IF job[j].try < Tries THEN [n EXCEPT !.try = job[j].try + 1] ELSE [n EXCEPT !.at = "dead"]
<1>1. job[j] # NoJob /\ job' = [job EXCEPT ![j] = q]
  BY DEF Fail
<1>2. q.at \in {"queued", "dead"}
  BY DEF NewJob
<1>. HIDE DEF q
<1>. QED  BY <1>1, <1>2 DEF IInv, JobsOK, Others

LEMMA FailMoves == ASSUME IInv, NEW j \in Jobs, Fail(j) PROVE Moves(j)
<1>1. job'[j].at \in {"queued", "dead"} /\ Others(j)
  BY FailsTo
<1>2. clashed' = IF job[j].op = "clear" THEN clashed ELSE clashed \cup {job[j].what.type}
  BY DEF Fail
<1>. QED  BY <1>1, <1>2 DEF Fail, Moves, Advances, rows, clock

-----------------------------------------------------------------------------
(* A moving job leaves the counts alone. *)

LEMMA CountsMoved ==
    ASSUME IInv, JobsCarry, NEW j \in Jobs, Moves(j)
    PROVE  /\ \A v : JobsFor(v, "add")' = JobsFor(v, "add") /\ JobsFor(v, "remove")' = JobsFor(v, "remove")
           /\ \A v : NA(v)' = NA(v) /\ NR(v)' = NR(v)
           /\ \A v : Retracted(v)' <=> Retracted(v)
           /\ FiniteInv' <=> FiniteInv
<1>1. \A i \in Jobs : /\ Is(i, "add")' <=> Is(i, "add")
                      /\ Is(i, "remove")' <=> Is(i, "remove")
                      /\ job[i] # NoJob => job'[i] # NoJob /\ job'[i].what = job[i].what /\ job'[i].op = job[i].op
                      /\ job'[i] # NoJob /\ job'[i].op # "clear" => job[i] # NoJob
  BY DEF Moves, Others, JobsCarry, Carries, Is
<1>2. \A v : JobsFor(v, "add")' = JobsFor(v, "add") /\ JobsFor(v, "remove")' = JobsFor(v, "remove")
  <2>. SUFFICES ASSUME NEW v, NEW i \in Jobs
                PROVE  /\ (Is(i, "add") /\ job[i].what = v)' <=> (Is(i, "add") /\ job[i].what = v)
                       /\ (Is(i, "remove") /\ job[i].what = v)' <=> (Is(i, "remove") /\ job[i].what = v)
    BY DEF JobsFor
  <2>. QED  BY <1>1 DEF Is
<1>3. \A v : NA(v)' = NA(v) /\ NR(v)' = NR(v)
  BY <1>2 DEF NA, NR
<1>4. \A v : Retracted(v)' <=> Retracted(v)
  BY <1>2, <1>3 DEF Retracted, Here, Moves
<1>5. {i \in Jobs : job[i] # NoJob /\ job[i].op # "clear"}' =
          {i \in Jobs : job[i] # NoJob /\ job[i].op # "clear"}
  BY <1>1
<1>. QED  BY <1>2, <1>3, <1>4, <1>5 DEF FiniteInv

LEMMA OpenMoved ==
    ASSUME IInv, JobsCarry, NEW j \in Jobs, Moves(j)
    PROVE  \A i \in Jobs, v \in Events :
           /\ i # j => /\ OpenFor(i, "add", v)' <=> OpenFor(i, "add", v)
                       /\ OpenFor(i, "remove", v)' <=> OpenFor(i, "remove", v)
                       /\ QueuedFor(i, "add", v)' <=> QueuedFor(i, "add", v)
                       /\ QueuedFor(i, "remove", v)' <=> QueuedFor(i, "remove", v)
                       /\ SweepsFor(i, v)' <=> SweepsFor(i, v)
                       /\ Busy(i)' <=> Busy(i)
                       /\ Busy(i) => job'[i] = job[i]
BY DEF SweepsFor, Moves, Others, JobsCarry, Carries, Is, At, OpenFor, QueuedFor, Busy

\* The job that moves, when its type stays quiet: it was open if it is open,
\* it is not queued again, and it reads only if it is alone.
LEMMA SelfMoved ==
    ASSUME IInv, JobsCarry, NEW j \in Jobs, Moves(j), NEW v \in Events, v.type \notin clashed'
    PROVE  /\ OpenFor(j, "add", v)' => OpenFor(j, "add", v)
           /\ OpenFor(j, "remove", v)' => OpenFor(j, "remove", v)
           /\ ~QueuedFor(j, "add", v)' /\ ~QueuedFor(j, "remove", v)'
           /\ QueuedFor(j, "add", v) \/ QueuedFor(j, "remove", v) =>
                 \/ \A i \in Jobs : i # j => ~OpenFor(i, "add", v) /\ ~OpenFor(i, "remove", v)
                 \/ job[j].op = "add" /\ v.actor \in gone /\ ~OpenFor(j, "add", v)'
<1>1. job[j] # NoJob /\ job'[j] # NoJob /\ job'[j].op = job[j].op /\ job'[j].what = job[j].what
  BY DEF Moves, JobsCarry, Carries
<1>2. CASE ~(job[j].op # "clear" /\ job[j].what = v)
  <2>1. ~OpenFor(j, "add", v)' /\ ~OpenFor(j, "remove", v)'
    BY <1>1, <1>2 DEF OpenFor, Is
  <2>2. ~QueuedFor(j, "add", v)' /\ ~QueuedFor(j, "remove", v)'
    BY <1>1, <1>2 DEF QueuedFor, At, Is
  <2>3. ~QueuedFor(j, "add", v) /\ ~QueuedFor(j, "remove", v)
    BY <1>1, <1>2 DEF QueuedFor, At, Is
  <2>. QED  BY <2>1, <2>2, <2>3
<1>3. CASE job[j].op # "clear" /\ job[j].what = v
  <2>1. job[j].op \in {"add", "remove"}
    BY <1>1, <1>3 DEF IInv, JobsOK, JobStates
  <2>2. Advances(j)
    BY <1>3 DEF Moves
  <2>3. job'[j].at \notin {"queued", "dead"}
    BY <1>3, <2>2 DEF Advances, Writing
  <2>4. ~QueuedFor(j, "add", v)' /\ ~QueuedFor(j, "remove", v)'
    BY <2>3 DEF QueuedFor, At
  <2>5. job'[j].at \in Writing => job[j].at \in Writing \/ job[j].at = "queued"
    BY <1>3, <2>2 DEF Advances, Writing
  <2>6. /\ OpenFor(j, "add", v)' => OpenFor(j, "add", v)
        /\ OpenFor(j, "remove", v)' => OpenFor(j, "remove", v)
    BY <1>1, <1>3, <2>3, <2>5 DEF OpenFor, Is
  <2>7. ASSUME job[j].at = "queued"
        PROVE  \/ \A i \in Jobs : i # j => ~OpenFor(i, "add", v) /\ ~OpenFor(i, "remove", v)
               \/ job[j].op = "add" /\ v.actor \in gone /\ ~OpenFor(j, "add", v)'
    <3>1. CASE job'[j].at = "skipped"
      BY <1>1, <1>3, <2>2, <2>7, <3>1 DEF Advances, OpenFor, Writing
    <3>2. CASE job'[j].at # "skipped"
      <4>1. ~Disturbed(j)
        BY <1>3, <2>2, <2>3, <2>7, <3>2 DEF Advances, Writing
      <4>2. \A i \in Jobs : i # j => ~OpenFor(i, "add", v) /\ ~OpenFor(i, "remove", v)
        BY <1>3, <4>1 DEF Disturbed, Rival, OpenFor, Is
      <4>. QED  BY <4>2
    <3>. QED  BY <3>1, <3>2
  <2>8. QueuedFor(j, "add", v) \/ QueuedFor(j, "remove", v) => job[j].at = "queued"
    BY DEF QueuedFor, At
  <2>. QED  BY <2>4, <2>6, <2>7, <2>8
<1>. QED  BY <1>2, <1>3

LEMMA MovedOrder ==
    ASSUME IInv, HereInv, JobsCarry, NEW j \in Jobs, Moves(j), NEW v \in Events, v.type \notin clashed',
           Ordered(v)
    PROVE  Ordered(v)'
<1>1. v \in facts' <=> v \in facts
  BY DEF Moves
<1>2. /\ NA(v)' = NA(v) /\ NR(v)' = NR(v)
      /\ Retracted(v)' <=> Retracted(v)
  BY CountsMoved
<1>3. ASSUME v.type \in Gathered, v \in facts, NA(v) > NR(v), NEW r \in Jobs, OpenFor(r, "remove", v)'
      PROVE  \E i \in Jobs : QueuedFor(i, "add", v)'
  <2>1. OpenFor(r, "remove", v)
    BY <1>3, OpenMoved, SelfMoved
  <2>2. PICK i \in Jobs : QueuedFor(i, "add", v)
    BY <1>3, <2>1 DEF Ordered
  <2>3. i # r
    BY <2>1, <2>2 DEF OpenFor, QueuedFor, At, Is
  <2>4. i # j
    <3>. SUFFICES ASSUME i = j PROVE FALSE
      OBVIOUS
    <3>1. v.actor \in gone
      BY <2>1, <2>2, <2>3, SelfMoved
    <3>. QED  BY <1>3, <3>1 DEF HereInv, Here
  <2>. QED  BY <2>2, <2>4, OpenMoved
<1>4. ASSUME Retracted(v), NEW a \in Jobs, OpenFor(a, "add", v)'
      PROVE  \E i \in Jobs : QueuedFor(i, "remove", v)'
  <2>1. OpenFor(a, "add", v)
    BY <1>4, OpenMoved, SelfMoved
  <2>2. PICK i \in Jobs : QueuedFor(i, "remove", v)
    BY <1>4, <2>1 DEF Ordered
  <2>3. i # a
    BY <2>1, <2>2 DEF OpenFor, QueuedFor, At, Is
  <2>4. i # j
    <3>. SUFFICES ASSUME i = j PROVE FALSE
      OBVIOUS
    <3>1. job[j].op = "remove"
      BY <2>2 DEF QueuedFor, At, Is
    <3>. QED  BY <2>1, <2>2, <2>3, <3>1, SelfMoved
  <2>. QED  BY <2>2, <2>4, OpenMoved
<1>5. ASSUME v.type \in Gathered, NEW i \in Jobs, NEW k \in Jobs, i # k, QueuedFor(i, "add", v)',
             OpenFor(k, "add", v)'
      PROVE  \E r \in Jobs : QueuedFor(r, "remove", v)'
  <2>1. i # j /\ QueuedFor(i, "add", v) /\ OpenFor(k, "add", v)
    BY <1>5, OpenMoved, SelfMoved
  <2>2. PICK r \in Jobs : QueuedFor(r, "remove", v)
    BY <1>5, <2>1 DEF Ordered
  <2>3. i # r
    BY <2>1, <2>2 DEF QueuedFor, At, Is
  <2>4. r # j
    <3>. SUFFICES ASSUME r = j PROVE FALSE
      OBVIOUS
    <3>1. job[j].op = "remove" /\ OpenFor(i, "add", v)
      BY <2>1, <2>2 DEF QueuedFor, OpenFor, At, Is
    <3>. QED  BY <2>2, <2>3, <3>1, SelfMoved
  <2>. QED  BY <2>2, <2>4, OpenMoved
<1>. QED  BY <1>1, <1>2, <1>3, <1>4, <1>5 DEF Ordered

LEMMA MovedJobs ==
    ASSUME IInv, IInv', JobInv, JobsCarry, NEW j \in Jobs, Moves(j)
    PROVE  JobInv'
<1>. USE DEF JobInv
<1>1. FiniteInv'
  BY CountsMoved
<1>2. SerialInv'
  <2>. SUFFICES ASSUME NEW i \in Jobs, NEW k \in Jobs, i # k, Busy(i)', Busy(k)',
                       job'[i].what.type = job'[k].what.type, job'[i].what.type \notin clashed'
                PROVE  FALSE
    BY DEF SerialInv
  <2>1. \A h \in Jobs : Busy(h)' => job[h] # NoJob /\ job[h].op # "clear" /\ job'[h].what = job[h].what
    BY DEF Busy, Moves, Others, JobsCarry, Carries
  <2>2. \A h, g \in Jobs : h # g /\ job[h].what.type = job[g].what.type /\ Busy(h) /\ Busy(g)
            => job[h].what.type \in clashed
    BY DEF SerialInv
  <2>3. clashed \subseteq clashed'
    BY DEF Moves
  <2>4. \A h, g \in Jobs : Busy(h)' /\ Busy(g)' /\ h = j /\ g # j
            /\ job[h].what.type = job[g].what.type => job[h].what.type \in clashed'
    <3>. SUFFICES ASSUME NEW g \in Jobs, Busy(j)', Busy(g)', g # j, job[j].what.type = job[g].what.type
                  PROVE  job[j].what.type \in clashed'
      OBVIOUS
    <3>1. job[g] # NoJob /\ job[g].op # "clear" /\ job[j].op # "clear"
      BY <2>1
    <3>2. Busy(g)
      BY <3>1 DEF Busy, Moves, Others
    <3>3. Rival(g, j) /\ job[g].at \in Writing
      BY <3>1, <3>2 DEF Rival, Busy
    <3>4. Disturbed(j)
      BY <3>3 DEF Disturbed
    <3>5. job'[j].at \in Writing /\ Advances(j)
      BY <3>1 DEF Busy, Moves
    <3>6. CASE job[j].at \in Writing
      BY <2>2, <2>3, <3>1, <3>2, <3>6 DEF Busy, Moves
    <3>7. CASE job[j].at = "queued"
      BY <3>4, <3>5, <3>7 DEF Advances, Writing
    <3>8. job[j].at \in Writing \/ job[j].at = "queued"
      BY <3>5 DEF Advances, Writing
    <3>. QED  BY <3>6, <3>7, <3>8
  <2>5. CASE i = j \/ k = j
    BY <2>1, <2>4, <2>5
  <2>6. CASE i # j /\ k # j
    <3>1. Busy(i) /\ Busy(k)
      BY <2>1, <2>6 DEF Busy, Moves, Others
    <3>. QED  BY <2>1, <2>2, <2>3, <3>1
  <2>. QED  BY <2>5, <2>6
<1>3. EndInv'
  <2>. SUFFICES ASSUME NEW i \in Jobs, job'[i] # NoJob, job'[i].op # "clear"
                PROVE  /\ job'[i].at = "dead" => job'[i].what.type \in clashed'
                       /\ job'[i].at = "skipped" => job'[i].what.actor \in gone'
    BY DEF EndInv
  <2>1. job[i] # NoJob /\ job'[i].op = job[i].op /\ job'[i].what = job[i].what
    BY DEF Moves, Others, JobsCarry, Carries
  <2>2. CASE i # j
    BY <2>1, <2>2 DEF Moves, Others, EndInv
  <2>3. CASE i = j
    <3>1. Advances(j)
      BY <2>1, <2>3 DEF Moves
    <3>. QED  BY <2>1, <2>3, <3>1 DEF Advances, Writing, Moves
  <2>. QED  BY <2>2, <2>3
<1>4. HereInv'
  BY DEF HereInv, Here, Moves
<1>5. CountInv'
  <2>. SUFFICES ASSUME NEW v \in Events PROVE Counted(v)'
    BY DEF CountInv
  <2>1. Counted(v)
    BY DEF CountInv
  <2>. QED  BY <2>1, CountsMoved DEF Counted, Moves, Here
<1>6. OrderInv'
  <2>. SUFFICES ASSUME NEW v \in Events, v.type \notin clashed' PROVE Ordered(v)'
    BY DEF OrderInv
  <2>1. v.type \notin clashed
    BY DEF Moves
  <2>2. Ordered(v)
    BY <2>1 DEF OrderInv
  <2>. QED  BY <2>2, MovedOrder
<1>. QED  BY <1>1, <1>2, <1>3, <1>4, <1>5, <1>6

-----------------------------------------------------------------------------
(* A job is queued. *)

LEMMA CountTyped ==
    ASSUME FiniteInv, NEW v
    PROVE  /\ NA(v) \in Nat /\ IsFiniteSet(JobsFor(v, "add"))
           /\ NR(v) \in Nat /\ IsFiniteSet(JobsFor(v, "remove"))
<1>1. /\ JobsFor(v, "add") \subseteq {i \in Jobs : job[i] # NoJob /\ job[i].op # "clear"}
      /\ JobsFor(v, "remove") \subseteq {i \in Jobs : job[i] # NoJob /\ job[i].op # "clear"}
  BY DEF JobsFor, Is
<1>2. IsFiniteSet(JobsFor(v, "add")) /\ IsFiniteSet(JobsFor(v, "remove"))
  BY <1>1, FS_Subset DEF FiniteInv
<1>. QED  BY <1>2, FS_CardinalityType DEF NA, NR

LEMMA QueueTo ==
    ASSUME IInv, NEW j \in Jobs, NEW op \in {"add", "remove", "clear"},
           NEW w \in Events \cup All, Queue(j, op, w)
    PROVE  /\ job[j] = NoJob /\ job'[j] # NoJob /\ job'[j].op = op /\ job'[j].what = w
           /\ job'[j].at = "queued"
           /\ \A i \in Jobs : i # j => job'[i] = job[i]
<1>1. NewJob(op, w) # NoJob
  BY NewJobTyped, NoJobIsNoJob DEF All
<1>2. /\ job[j] = NoJob /\ job'[j] = NewJob(op, w)
      /\ \A i \in Jobs : i # j => job'[i] = job[i]
  BY DEF Queue, IInv, JobsOK
<1>3. job'[j].op = op /\ job'[j].what = w /\ job'[j].at = "queued"
  BY <1>2 DEF NewJob
<1>4. job'[j] # NoJob
  BY <1>1, <1>2
<1>. QED  BY <1>2, <1>3, <1>4

LEMMA QueueCounts ==
    ASSUME IInv, FiniteInv, NEW j \in Jobs, NEW op \in {"add", "remove"}, NEW w \in Events, Queue(j, op, w)
    PROVE  /\ FiniteInv'
           /\ \A v : /\ JobsFor(v, "add")' = JobsFor(v, "add") \cup (IF op = "add" /\ v = w THEN {j} ELSE {})
                     /\ JobsFor(v, "remove")' =
                            JobsFor(v, "remove") \cup (IF op = "remove" /\ v = w THEN {j} ELSE {})
                     /\ NA(v)' = NA(v) + (IF op = "add" /\ v = w THEN 1 ELSE 0)
                     /\ NR(v)' = NR(v) + (IF op = "remove" /\ v = w THEN 1 ELSE 0)
<1>1. /\ job[j] = NoJob /\ job'[j] # NoJob /\ job'[j].op = op /\ job'[j].what = w
      /\ \A i \in Jobs : i # j => job'[i] = job[i]
  BY QueueTo
<1>2. FiniteInv'
  <2>. DEFINE S == {i \in Jobs : job[i] # NoJob /\ job[i].op # "clear"}
  <2>1. S' = S \cup {j}
    BY <1>1
  <2>2. IsFiniteSet(S \cup {j})
    BY FS_AddElement DEF FiniteInv
  <2>. QED  BY <2>1, <2>2 DEF FiniteInv
<1>3. ASSUME NEW v
      PROVE  /\ JobsFor(v, "add")' = JobsFor(v, "add") \cup (IF op = "add" /\ v = w THEN {j} ELSE {})
             /\ JobsFor(v, "remove")' = JobsFor(v, "remove") \cup (IF op = "remove" /\ v = w THEN {j} ELSE {})
             /\ j \notin JobsFor(v, "add") /\ j \notin JobsFor(v, "remove")
  <2>1. \A i \in Jobs : /\ (Is(i, "add") /\ job[i].what = v)' <=>
                             (Is(i, "add") /\ job[i].what = v) \/ (i = j /\ op = "add" /\ v = w)
                        /\ (Is(i, "remove") /\ job[i].what = v)' <=>
                             (Is(i, "remove") /\ job[i].what = v) \/ (i = j /\ op = "remove" /\ v = w)
    BY <1>1 DEF Is
  <2>2. j \notin JobsFor(v, "add") /\ j \notin JobsFor(v, "remove")
    BY <1>1 DEF JobsFor, Is
  <2>3. JobsFor(v, "add")' = JobsFor(v, "add") \cup (IF op = "add" /\ v = w THEN {j} ELSE {})
    BY <2>1 DEF JobsFor
  <2>4. JobsFor(v, "remove")' = JobsFor(v, "remove") \cup (IF op = "remove" /\ v = w THEN {j} ELSE {})
    BY <2>1 DEF JobsFor
  <2>. QED  BY <2>2, <2>3, <2>4
<1>4. ASSUME NEW v
      PROVE  /\ NA(v)' = NA(v) + (IF op = "add" /\ v = w THEN 1 ELSE 0)
             /\ NR(v)' = NR(v) + (IF op = "remove" /\ v = w THEN 1 ELSE 0)
  <2>1. IsFiniteSet(JobsFor(v, "add")) /\ IsFiniteSet(JobsFor(v, "remove")) /\ NA(v) \in Nat /\ NR(v) \in Nat
    BY CountTyped
  <2>2. /\ Cardinality(JobsFor(v, "add") \cup {j}) = NA(v) + 1
        /\ Cardinality(JobsFor(v, "remove") \cup {j}) = NR(v) + 1
    BY <1>3, <2>1, FS_AddElement DEF NA, NR
  <2>3. NA(v)' = NA(v) + (IF op = "add" /\ v = w THEN 1 ELSE 0)
    <3>1. CASE op = "add" /\ v = w
      <4>1. JobsFor(v, "add")' = JobsFor(v, "add") \cup {j}
        BY <1>3, <3>1
      <4>. QED  BY <2>2, <3>1, <4>1 DEF NA
    <3>2. CASE ~(op = "add" /\ v = w)
      <4>1. JobsFor(v, "add")' = JobsFor(v, "add")
        BY <1>3, <3>2
      <4>. QED  BY <2>1, <3>2, <4>1 DEF NA
    <3>. QED  BY <3>1, <3>2
  <2>4. NR(v)' = NR(v) + (IF op = "remove" /\ v = w THEN 1 ELSE 0)
    <3>1. CASE op = "remove" /\ v = w
      <4>1. JobsFor(v, "remove")' = JobsFor(v, "remove") \cup {j}
        BY <1>3, <3>1
      <4>. QED  BY <2>2, <3>1, <4>1 DEF NR
    <3>2. CASE ~(op = "remove" /\ v = w)
      <4>1. JobsFor(v, "remove")' = JobsFor(v, "remove")
        BY <1>3, <3>2
      <4>. QED  BY <2>1, <3>2, <4>1 DEF NR
    <3>. QED  BY <3>1, <3>2
  <2>. QED  BY <2>3, <2>4
<1>. QED  BY <1>2, <1>3, <1>4

\* What a queued job changes for an event.
SameFor(v) ==
    /\ JobsFor(v, "add")' = JobsFor(v, "add") /\ JobsFor(v, "remove")' = JobsFor(v, "remove")
    /\ NA(v)' = NA(v) /\ NR(v)' = NR(v)
    /\ \A i \in Jobs : /\ OpenFor(i, "add", v)' <=> OpenFor(i, "add", v)
                       /\ OpenFor(i, "remove", v)' <=> OpenFor(i, "remove", v)
                       /\ QueuedFor(i, "add", v)' <=> QueuedFor(i, "add", v)
                       /\ QueuedFor(i, "remove", v)' <=> QueuedFor(i, "remove", v)

LEMMA QueueSame ==
    ASSUME IInv, FiniteInv, NEW j \in Jobs, NEW op \in {"add", "remove"}, NEW w \in Events, Queue(j, op, w),
           NEW v \in Events, v # w
    PROVE  SameFor(v)
<1>1. /\ job[j] = NoJob /\ job'[j].what = w
      /\ \A i \in Jobs : i # j => job'[i] = job[i]
  BY QueueTo
<1>2. /\ JobsFor(v, "add")' = JobsFor(v, "add") /\ JobsFor(v, "remove")' = JobsFor(v, "remove")
      /\ NA(v)' = NA(v) /\ NR(v)' = NR(v)
  <2>1. NA(v) \in Nat /\ NR(v) \in Nat
    BY CountTyped
  <2>2. /\ JobsFor(v, "add")' = JobsFor(v, "add") \cup (IF op = "add" /\ v = w THEN {j} ELSE {})
        /\ JobsFor(v, "remove")' = JobsFor(v, "remove") \cup (IF op = "remove" /\ v = w THEN {j} ELSE {})
        /\ NA(v)' = NA(v) + (IF op = "add" /\ v = w THEN 1 ELSE 0)
        /\ NR(v)' = NR(v) + (IF op = "remove" /\ v = w THEN 1 ELSE 0)
    BY QueueCounts
  <2>3. /\ (IF op = "add" /\ v = w THEN {j} ELSE {}) = {} /\ (IF op = "remove" /\ v = w THEN {j} ELSE {}) = {}
        /\ (IF op = "add" /\ v = w THEN 1 ELSE 0) = 0 /\ (IF op = "remove" /\ v = w THEN 1 ELSE 0) = 0
    OBVIOUS
  <2>4. NA(v)' = NA(v) /\ NR(v)' = NR(v)
    BY <2>1, <2>2, <2>3
  <2>. QED  BY <2>2, <2>3, <2>4
<1>3. \A i \in Jobs : /\ OpenFor(i, "add", v)' <=> OpenFor(i, "add", v)
                      /\ OpenFor(i, "remove", v)' <=> OpenFor(i, "remove", v)
                      /\ QueuedFor(i, "add", v)' <=> QueuedFor(i, "add", v)
                      /\ QueuedFor(i, "remove", v)' <=> QueuedFor(i, "remove", v)
  BY <1>1 DEF OpenFor, QueuedFor, At, Is
<1>. QED  BY <1>2, <1>3 DEF SameFor

LEMMA StillSame == ASSUME job' = job, NEW v PROVE SameFor(v)
BY DEF SameFor, JobsFor, NA, NR, OpenFor, QueuedFor, At, Is

\* A row may go, with the post, the tweet or the user that it refers to.
RowsLose(v) ==
    /\ v \in facts' => v \in facts /\ Here(v)'
    /\ gone \subseteq gone'
    /\ v \in facts /\ v \notin facts' =>
          \/ ~Here(v)' \/ v.type \in {"FOLLOW", "MENTION"}
          \/ v.type \in {"REPLY", "QUOTE"} /\ v.post \in gone'

LEMMA RowsCount ==
    ASSUME FiniteInv, NEW v \in Events, RowsLose(v), SameFor(v), Counted(v)
    PROVE  Counted(v)'
<1>1. Here(v)' => Here(v)
  BY DEF RowsLose, Here
<1>2. NA(v) \in Nat /\ NR(v) \in Nat
  BY CountTyped
<1>3. v.type \in Gathered => v.type \notin {"FOLLOW", "MENTION", "REPLY", "QUOTE"}
  BY DEF Gathered
<1>4. v.type \in Gathered /\ v \notin facts' /\ Here(v)' => NA(v)' <= NR(v)'
  BY <1>1, <1>3 DEF RowsLose, SameFor, Counted
<1>5. v.type \in Gathered /\ v \in facts' => NA(v)' <= NR(v)' + 1
  BY DEF RowsLose, SameFor, Counted
<1>6. v.type = "FOLLOW" => /\ v \in facts' => NA(v)' >= NR(v)' + 1
                           /\ v \notin facts' => NA(v)' >= NR(v)'
  BY <1>2 DEF RowsLose, SameFor, Counted
<1>7. v.type \in {"REPLY", "QUOTE"} =>
         (JobsFor(v, "add")' # {} \/ JobsFor(v, "remove")' # {} =>
              v \in facts' \/ ~Here(v)' \/ v.post \in gone')
  BY <1>1 DEF RowsLose, SameFor, Counted
<1>8. v.type = "MENTION" => JobsFor(v, "remove")' = {}
  BY DEF SameFor, Counted
<1>. QED  BY <1>4, <1>5, <1>6, <1>7, <1>8 DEF Counted

LEMMA RowsRetracted ==
    ASSUME FiniteInv, NEW v \in Events, RowsLose(v), SameFor(v), Counted(v), Retracted(v)'
    PROVE  Retracted(v)
<1>1. Here(v)' => Here(v)
  BY DEF RowsLose, Here
<1>2. NA(v) \in Nat /\ NR(v) \in Nat
  BY CountTyped
<1>3. v.type \in Types
  BY EventsTyped
<1>4. v.type \notin Singles => v.type \notin {"MENTION", "REPLY", "QUOTE"}
  BY DEF Singles
<1>. QED  BY <1>1, <1>2, <1>4 DEF Retracted, RowsLose, SameFor, Counted

LEMMA RowsOrder ==
    ASSUME FiniteInv, NEW v \in Events, RowsLose(v), SameFor(v), Counted(v), Ordered(v)
    PROVE  Ordered(v)'
BY RowsRetracted DEF Ordered, RowsLose, SameFor

\* What happens to the rows when a job is queued.
Gains(w) ==
    /\ facts' = facts \cup {w} /\ gone' = gone /\ Here(w) /\ w.post \notin gone
    /\ w \in facts => w.type = "MENTION"
Loses(w) ==
    /\ w \in facts
    /\ \/ w \notin facts' /\ w.type \notin Singles
       \/ facts' = facts /\ gone' = gone /\ w.type \in {"REPOST", "REPLY", "QUOTE"}
       \/ w \notin facts' /\ w.type \in {"REPLY", "QUOTE"} /\ w.post \in gone'

LEMMA HappensRows ==
    ASSUME IInv, HereInv, Happens
    PROVE  /\ box' = box /\ clashed' = clashed /\ scattered' = scattered /\ cut' = cut
           /\ horizon' >= horizon /\ gone \subseteq gone'
           /\ \/ job' = job /\ \A v \in Events : RowsLose(v)
              \/ \E j \in Jobs, w \in Events :
                    Queue(j, "add", w) /\ Gains(w) /\ \A v \in Events : v # w => RowsLose(v)
              \/ \E j \in Jobs, w \in Events :
                    Queue(j, "remove", w) /\ Loses(w) /\ \A v \in Events : v # w => RowsLose(v)
<1>. DEFINE P == /\ box' = box /\ clashed' = clashed /\ scattered' = scattered /\ cut' = cut
                 /\ horizon' >= horizon /\ gone \subseteq gone'
            N == \A v \in Events : RowsLose(v)
            A(j, w) == Queue(j, "add", w) /\ Gains(w) /\ \A v \in Events : v # w => RowsLose(v)
            R(j, w) == Queue(j, "remove", w) /\ Loses(w) /\ \A v \in Events : v # w => RowsLose(v)
<1>0. horizon \in Int /\ \A v \in facts : Here(v)
  BY SomeDays DEF IInv, RestOK, ClockOK, Days, HereInv
<1>. USE DEF history, clock, rows
<1>1. ASSUME NEW j \in Jobs, NEW w \in Events, Announce(j, w) PROVE P /\ A(j, w)
  BY <1>0, <1>1 DEF Announce, Gains, RowsLose, Here
<1>2. ASSUME NEW j \in Jobs, NEW w \in Events, Undo(j, w) PROVE P /\ R(j, w)
  BY <1>0, <1>2 DEF Undo, Loses, RowsLose, Here
<1>3. ASSUME NEW j \in Jobs, NEW w \in Events, Abandon(j, w) PROVE P /\ R(j, w)
  BY <1>0, <1>3 DEF Abandon, Loses, RowsLose, Here
<1>p. \A v \in Events : /\ v.tweet \notin Posts /\ v.actor \notin Posts /\ v.tweet \notin Actors
                        /\ v.actor \notin Tweets
                        /\ v.type \in Singles => v.post \in Posts
                        /\ v.type \notin Singles => v.post = NoTweet
                        /\ v.type \in Types
  BY EventsTyped, EventsRefer, KindsDisjoint
<1>q. NoTweet \notin Posts
  BY KindsDisjoint
<1>r. \A v \in Events : v.type \notin Singles => v.type \notin {"MENTION", "REPLY", "QUOTE"}
  BY DEF Singles
<1>s. \A v \in Events : v.type \in Singles => v.type \in {"MENTION", "REPLY", "QUOTE"}
  BY DEF Singles
<1>4. ASSUME NEW j \in Jobs, NEW w \in Events, DeletePost(j, w) PROVE P /\ R(j, w)
  <2>1. P /\ Queue(j, "remove", w) /\ w \in facts /\ w.type \in {"REPLY", "QUOTE"} /\ gone' = gone \cup {w.post}
        /\ facts' = {v \in facts : v.post # w.post}
    BY <1>0, <1>4 DEF DeletePost
  <2>2. Loses(w)
    BY <2>1 DEF Loses
  <2>3. w.post \in Posts
    BY <1>p, <1>r, <2>1
  <2>4. ASSUME NEW v \in Events PROVE RowsLose(v)
    <3>1. v \in facts' => v \in facts /\ Here(v)'
      BY <1>0, <1>p, <2>1, <2>3 DEF Here
    <3>2. v \in facts /\ v \notin facts' => v.type \in {"MENTION", "REPLY", "QUOTE"} /\ v.post \in gone'
      BY <1>p, <1>q, <1>s, <2>1, <2>3
    <3>. QED  BY <2>1, <3>1, <3>2 DEF RowsLose
  <2>. QED  BY <2>1, <2>2, <2>4
<1>5. ASSUME NEW w \in Events, RemoveFollower(w) PROVE P /\ job' = job /\ N
  BY <1>0, <1>5 DEF RemoveFollower, RowsLose, Here
<1>6. ASSUME NEW w \in Events, DeleteMention(w) PROVE P /\ job' = job /\ N
  <2>1. P /\ job' = job /\ w \in facts /\ w.type = "MENTION" /\ gone' = gone \cup {w.post}
        /\ facts' = {v \in facts : v.post # w.post} /\ (\A v \in facts : v.post = w.post => v.type = "MENTION")
    BY <1>0, <1>6 DEF DeleteMention
  <2>3. w.post \in Posts
    BY <1>p, <1>r, <2>1
  <2>4. ASSUME NEW v \in Events PROVE RowsLose(v)
    BY <1>0, <1>p, <2>1, <2>3 DEF RowsLose, Here
  <2>. QED  BY <2>1, <2>4
<1>7. ASSUME NEW t \in Tweets, DeleteTweet(t) PROVE P /\ job' = job /\ N
  <2>. DEFINE below == PostsOf({v \in Events : v.tweet = t})
  <2>1. /\ P /\ job' = job /\ gone' = gone \cup {t} \cup below
        /\ facts' = {v \in facts : v.tweet # t /\ v.post \notin below}
    BY <1>0, <1>7 DEF DeleteTweet
  <2>2. below \subseteq Posts
    BY PostsOfTyped
  <2>. HIDE DEF below
  <2>3. ASSUME NEW v \in Events PROVE RowsLose(v)
    <3>1. v \in facts' => v \in facts /\ Here(v)'
      BY <1>0, <1>p, <2>1, <2>2 DEF Here
    <3>2. v \in facts /\ v \notin facts' =>
              ~Here(v)' \/ (v.type \in {"MENTION", "REPLY", "QUOTE"} /\ v.post \in gone')
      BY <1>p, <1>q, <1>s, <2>1, <2>2 DEF Here
    <3>. QED  BY <2>1, <3>1, <3>2 DEF RowsLose
  <2>. QED  BY <2>1, <2>3
<1>8. ASSUME NEW u \in Actors, DeleteUser(u) PROVE P /\ job' = job /\ N
  <2>. DEFINE below == PostsOf({v \in Events : v.actor = u})
  <2>1. P /\ job' = job /\ gone' = gone \cup {u} \cup below /\ facts' = {v \in facts : v.actor # u}
    BY <1>0, <1>8 DEF DeleteUser
  <2>2. below \subseteq Posts
    BY PostsOfTyped
  <2>. HIDE DEF below
  <2>3. ASSUME NEW v \in Events PROVE RowsLose(v)
    BY <1>0, <1>p, <2>1, <2>2 DEF Here, RowsLose
  <2>. QED  BY <2>1, <2>3
<1>9. ASSUME TimePasses PROVE P /\ job' = job /\ N
  BY <1>0, <1>9 DEF TimePasses, RowsLose, Here
<1>. HIDE DEF P, N, A, R
<1>10. P /\ \/ job' = job /\ N
            \/ \E j \in Jobs, w \in Events : A(j, w)
            \/ \E j \in Jobs, w \in Events : R(j, w)
  BY <1>1, <1>2, <1>3, <1>4, <1>5, <1>6, <1>7, <1>8, <1>9 DEF Happens
<1>. QED  BY <1>10 DEF P, N, A, R

\* What a queued job is for the others.
LEMMA QueueOpen ==
    ASSUME IInv, NEW j \in Jobs, NEW op \in {"add", "remove", "clear"}, NEW w \in Events \cup All,
           Queue(j, op, w)
    PROVE  /\ \A i \in Jobs : Busy(i)' <=> Busy(i)
           /\ \A i \in Jobs : Busy(i) => job'[i] = job[i]
           /\ \A i \in Jobs, v \in Events :
                /\ OpenFor(i, "add", v)' <=> OpenFor(i, "add", v) \/ (i = j /\ op = "add" /\ v = w)
                /\ OpenFor(i, "remove", v)' <=> OpenFor(i, "remove", v) \/ (i = j /\ op = "remove" /\ v = w)
                /\ QueuedFor(i, "add", v)' <=> QueuedFor(i, "add", v) \/ (i = j /\ op = "add" /\ v = w)
                /\ QueuedFor(i, "remove", v)' <=> QueuedFor(i, "remove", v) \/ (i = j /\ op = "remove" /\ v = w)
                /\ SweepsFor(i, v)' <=> SweepsFor(i, v)
<1>1. /\ job[j] = NoJob /\ job'[j] # NoJob /\ job'[j].op = op /\ job'[j].what = w
      /\ job'[j].at = "queued"
      /\ \A i \in Jobs : i # j => job'[i] = job[i]
  BY QueueTo
<1>. QED  BY <1>1 DEF SweepsFor, Busy, OpenFor, QueuedFor, At, Is, Writing

LEMMA QueueEnds ==
    ASSUME IInv, SerialInv, EndInv, NEW j \in Jobs,
           NEW op \in {"add", "remove", "clear"}, NEW w \in Events \cup All,
           Queue(j, op, w), clashed' = clashed, gone \subseteq gone'
    PROVE  SerialInv' /\ EndInv'
<1>1. /\ job[j] = NoJob /\ job'[j] # NoJob /\ job'[j].op = op /\ job'[j].what = w
      /\ job'[j].at = "queued"
      /\ \A i \in Jobs : i # j => job'[i] = job[i]
  BY QueueTo
<1>2. SerialInv'
  BY <1>1 DEF SerialInv, Busy, Writing
<1>3. EndInv'
  BY <1>1 DEF EndInv
<1>. QED  BY <1>2, <1>3

LEMMA AnnouncedBack ==
    ASSUME IInv, FiniteInv, NEW j \in Jobs, NEW w \in Events, Queue(j, "add", w), Gains(w), Counted(w)
    PROVE  ~Retracted(w)' /\ (w.type \in Gathered => Retracted(w))
<1>1. NA(w) \in Nat /\ NR(w) \in Nat
  BY CountTyped
<1>2. JobsFor(w, "remove")' = JobsFor(w, "remove")
  <2>1. JobsFor(w, "remove")' = JobsFor(w, "remove") \cup (IF "add" = "remove" /\ w = w THEN {j} ELSE {})
    BY QueueCounts
  <2>. QED  BY <2>1
<1>3. w \in facts' /\ Here(w) /\ w.post \notin gone
  BY DEF Gains
<1>4. w.type # "MENTION" => w \notin facts
  BY DEF Gains
<1>5. w.type \in Singles <=> w.type \in {"REPLY", "QUOTE", "MENTION"}
  BY DEF Singles
<1>6. w.type \in Gathered => w.type \notin {"REPLY", "QUOTE", "MENTION", "FOLLOW"}
  BY DEF Gathered
<1>7. ~Retracted(w)'
  <2>1. CASE w.type \in Singles
    BY <1>2, <1>3, <1>4, <1>5, <2>1 DEF Retracted, Counted
  <2>2. CASE w.type \notin Singles
    BY <1>3, <2>2 DEF Retracted
  <2>. QED  BY <2>1, <2>2
<1>8. w.type \in Gathered => Retracted(w)
  BY <1>3, <1>4, <1>5, <1>6 DEF Retracted, Counted
<1>. QED  BY <1>7, <1>8

LEMMA AnnouncedFor ==
    ASSUME IInv, FiniteInv, NEW j \in Jobs, NEW w \in Events, Queue(j, "add", w), Gains(w), Counted(w),
           w.type \notin clashed => Ordered(w)
    PROVE  Counted(w)' /\ (w.type \notin clashed => Ordered(w)')
<1>1. NA(w) \in Nat /\ NR(w) \in Nat
  BY CountTyped
<1>2. /\ JobsFor(w, "remove")' = JobsFor(w, "remove")
      /\ NA(w)' = NA(w) + 1 /\ NR(w)' = NR(w)
  <2>1. /\ JobsFor(w, "remove")' = JobsFor(w, "remove") \cup (IF "add" = "remove" /\ w = w THEN {j} ELSE {})
        /\ NA(w)' = NA(w) + (IF "add" = "add" /\ w = w THEN 1 ELSE 0)
        /\ NR(w)' = NR(w) + (IF "add" = "remove" /\ w = w THEN 1 ELSE 0)
    BY QueueCounts
  <2>. QED  BY <1>1, <2>1
<1>3. w \in facts' /\ Here(w) /\ w.post \notin gone
  BY DEF Gains
<1>4. \A i \in Jobs : /\ OpenFor(i, "add", w)' <=> OpenFor(i, "add", w) \/ i = j
                      /\ QueuedFor(i, "add", w)' <=> QueuedFor(i, "add", w) \/ i = j
                      /\ QueuedFor(i, "remove", w)' <=> QueuedFor(i, "remove", w)
  BY QueueOpen
<1>5. w.type \in Gathered \/ w.type \in Singles \/ w.type = "FOLLOW"
  BY EventsTyped DEF Types
<1>6. w.type \in Singles <=> w.type \in {"REPLY", "QUOTE", "MENTION"}
  BY DEF Singles
<1>7. w.type \in Gathered => w.type \notin {"REPLY", "QUOTE", "MENTION", "FOLLOW"}
  BY DEF Gathered
<1>8. w.type # "MENTION" => w \notin facts
  BY DEF Gains
<1>9. Counted(w)'
  <2>1. w.type \in Gathered => NA(w)' <= NR(w)' + 1
    BY <1>1, <1>2, <1>3, <1>7, <1>8 DEF Counted
  <2>2. w.type = "FOLLOW" => NA(w)' >= NR(w)' + 1
    BY <1>1, <1>2, <1>8 DEF Counted
  <2>3. w.type = "MENTION" => JobsFor(w, "remove")' = {}
    BY <1>2 DEF Counted
  <2>. QED  BY <1>3, <1>6, <2>1, <2>2, <2>3 DEF Counted
<1>10. ASSUME w.type \notin clashed PROVE Ordered(w)'
  <2>1. QueuedFor(j, "add", w)'
    BY <1>4
  <2>2. ~Retracted(w)'
    BY AnnouncedBack
  <2>3. ASSUME w.type \in Gathered, NEW i \in Jobs, NEW k \in Jobs, i # k,
               QueuedFor(i, "add", w)', OpenFor(k, "add", w)'
        PROVE  \E r \in Jobs : QueuedFor(r, "remove", w)'
    <3>1. CASE i # j /\ k # j
      BY <1>4, <1>10, <2>3, <3>1 DEF Ordered
    <3>2. CASE i = j \/ k = j
      <4>1. PICK h \in Jobs : OpenFor(h, "add", w)
        BY <1>4, <2>3, <3>2 DEF OpenFor, QueuedFor, At
      <4>2. Retracted(w)
        BY <2>3, AnnouncedBack
      <4>. QED  BY <1>4, <1>10, <4>1, <4>2 DEF Ordered
    <3>. QED  BY <3>1, <3>2
  <2>. QED  BY <2>1, <2>2, <2>3 DEF Ordered
<1>. QED  BY <1>9, <1>10

LEMMA RemovedFor ==
    ASSUME IInv, FiniteInv, NEW j \in Jobs, NEW w \in Events, Queue(j, "remove", w), Loses(w), Counted(w),
           gone \subseteq gone', \A v \in facts : Here(v)
    PROVE  Counted(w)' /\ Ordered(w)'
<1>1. NA(w) \in Nat /\ NR(w) \in Nat
  BY CountTyped
<1>2. NA(w)' = NA(w) /\ NR(w)' = NR(w) + 1
  <2>1. /\ NA(w)' = NA(w) + (IF "remove" = "add" /\ w = w THEN 1 ELSE 0)
        /\ NR(w)' = NR(w) + (IF "remove" = "remove" /\ w = w THEN 1 ELSE 0)
    BY QueueCounts
  <2>. QED  BY <1>1, <2>1
<1>3. QueuedFor(j, "remove", w)'
  BY QueueOpen
<1>6. w.type \in Singles <=> w.type \in {"REPLY", "QUOTE", "MENTION"}
  BY DEF Singles
<1>7. w.type \in Gathered => w.type \notin {"REPLY", "QUOTE", "MENTION", "FOLLOW"}
  BY DEF Gathered
<1>8. w \in facts /\ w.type # "MENTION"
  BY <1>6 DEF Loses
<1>9. w.type \in Gathered => NA(w)' <= NR(w)'
  BY <1>1, <1>2, <1>8 DEF Counted
<1>10. Counted(w)'
  <2>1. w.type \in Gathered => NA(w)' <= NR(w)' + 1
    BY <1>1, <1>2, <1>9
  <2>2. w.type = "FOLLOW" => w \notin facts' /\ NA(w)' >= NR(w)'
    BY <1>1, <1>2, <1>8 DEF Counted, Loses
  <2>3. w.type \in {"REPLY", "QUOTE"} => w \in facts' \/ w.post \in gone'
    BY <1>6 DEF Loses
  <2>. QED  BY <1>8, <1>9, <2>1, <2>2, <2>3 DEF Counted
<1>11. Ordered(w)'
  <2>1. w.type \in Gathered => ~(NA(w)' > NR(w)')
    BY <1>1, <1>2, <1>9
  <2>. QED  BY <1>3, <2>1 DEF Ordered
<1>. QED  BY <1>10, <1>11

LEMMA HappensJobs == ASSUME IInv, JobInv, Happens PROVE JobInv'
<1>. USE DEF JobInv
<1>1. /\ clashed' = clashed /\ gone \subseteq gone'
      /\ \/ job' = job /\ \A v \in Events : RowsLose(v)
         \/ \E j \in Jobs, w \in Events :
               Queue(j, "add", w) /\ Gains(w) /\ \A v \in Events : v # w => RowsLose(v)
         \/ \E j \in Jobs, w \in Events :
               Queue(j, "remove", w) /\ Loses(w) /\ \A v \in Events : v # w => RowsLose(v)
  BY HappensRows
<1>2. facts' \subseteq Events
  BY HappensInv DEF IInv, RestOK
<1>3. \A v \in Events : Counted(v) /\ (v.type \notin clashed => Ordered(v))
  BY DEF CountInv, OrderInv
<1>4. ASSUME NEW v \in Events, RowsLose(v), SameFor(v)
      PROVE  Counted(v)' /\ (v.type \notin clashed' => Ordered(v)') /\ (v \in facts' => Here(v)')
  BY <1>1, <1>3, <1>4, RowsCount, RowsOrder DEF RowsLose
<1>5. CASE job' = job /\ \A v \in Events : RowsLose(v)
  <2>1. \A v \in Events : SameFor(v)
    BY <1>5, StillSame
  <2>2. \A v \in Events : Counted(v)' /\ (v.type \notin clashed' => Ordered(v)') /\ (v \in facts' => Here(v)')
    BY <1>4, <1>5, <2>1
  <2>3. FiniteInv' /\ SerialInv' /\ EndInv'
    BY <1>1, <1>5 DEF FiniteInv, SerialInv, EndInv, Busy
  <2>. QED  BY <1>2, <2>2, <2>3 DEF CountInv, OrderInv, HereInv
<1>6. ASSUME NEW j \in Jobs, NEW op \in {"add", "remove"}, NEW w \in Events, Queue(j, op, w),
             \A v \in Events : v # w => RowsLose(v),
             Counted(w)' /\ (w.type \notin clashed' => Ordered(w)') /\ (w \in facts' => Here(w)')
      PROVE  JobInv'
  <2>1. ASSUME NEW v \in Events, v # w PROVE SameFor(v)
    BY <1>6, <2>1, QueueSame
  <2>2. \A v \in Events : Counted(v)' /\ (v.type \notin clashed' => Ordered(v)') /\ (v \in facts' => Here(v)')
    BY <1>4, <1>6, <2>1
  <2>3. FiniteInv' /\ SerialInv' /\ EndInv'
    BY <1>1, <1>6, QueueCounts, QueueEnds
  <2>. QED  BY <1>2, <2>2, <2>3 DEF CountInv, OrderInv, HereInv
<1>7. ASSUME NEW j \in Jobs, NEW w \in Events, Queue(j, "add", w), Gains(w),
             \A v \in Events : v # w => RowsLose(v)
      PROVE  JobInv'
  <2>1. Counted(w)' /\ (w.type \notin clashed' => Ordered(w)')
    BY <1>1, <1>3, <1>7, AnnouncedFor
  <2>2. w \in facts' => Here(w)'
    BY <1>7 DEF Gains, Here
  <2>. QED  BY <1>6, <1>7, <2>1, <2>2
<1>8. ASSUME NEW j \in Jobs, NEW w \in Events, Queue(j, "remove", w), Loses(w),
             \A v \in Events : v # w => RowsLose(v)
      PROVE  JobInv'
  <2>1. Counted(w)' /\ Ordered(w)'
    BY <1>1, <1>3, <1>8, RemovedFor DEF HereInv
  <2>2. w \in facts' => Here(w)'
    BY <1>8 DEF Loses, Here, HereInv
  <2>. QED  BY <1>6, <1>8, <2>1, <2>2
<1>. QED  BY <1>1, <1>5, <1>7, <1>8

LEMMA ViewQueues == ASSUME IInv, NEW j \in Jobs, View(j)
                    PROVE  /\ \E x \in All : Queue(j, "clear", x)
                           /\ UNCHANGED <<box, rows, clock, history>>
BY MissingAreGone DEF View, IInv, RestOK

LEMMA ViewJobs == ASSUME IInv, JobInv, NEW j \in Jobs, View(j) PROVE JobInv'
<1>. USE DEF JobInv
<1>1. PICK x \in All : Queue(j, "clear", x)
  BY ViewQueues
<1>2. UNCHANGED <<box, rows, clock, history>>
  BY ViewQueues
<1>3. /\ job[j] = NoJob /\ job'[j] # NoJob /\ job'[j].op = "clear"
      /\ \A i \in Jobs : i # j => job'[i] = job[i]
  BY <1>1, QueueTo
<1>4. \A v \in Events : SameFor(v)
  <2>1. \A v : JobsFor(v, "add")' = JobsFor(v, "add") /\ JobsFor(v, "remove")' = JobsFor(v, "remove")
    BY <1>3 DEF JobsFor, Is
  <2>2. \A i \in Jobs, v \in Events :
                /\ OpenFor(i, "add", v)' <=> OpenFor(i, "add", v)
                /\ OpenFor(i, "remove", v)' <=> OpenFor(i, "remove", v)
                /\ QueuedFor(i, "add", v)' <=> QueuedFor(i, "add", v)
                /\ QueuedFor(i, "remove", v)' <=> QueuedFor(i, "remove", v)
    BY <1>1, QueueOpen
  <2>. QED  BY <2>1, <2>2 DEF SameFor, NA, NR
<1>5. \A v \in Events : RowsLose(v)
  BY <1>2 DEF RowsLose, rows, HereInv, Here
<1>6. \A v \in Events : Counted(v)' /\ (v.type \notin clashed' => Ordered(v)')
  BY <1>2, <1>4, <1>5, RowsCount, RowsOrder DEF CountInv, OrderInv, history
<1>7. SerialInv' /\ EndInv'
  BY <1>1, <1>2, QueueEnds DEF rows, history
<1>8. FiniteInv'
  <2>1. {i \in Jobs : job[i] # NoJob /\ job[i].op # "clear"}' =
            {i \in Jobs : job[i] # NoJob /\ job[i].op # "clear"}
    BY <1>3
  <2>. QED  BY <2>1 DEF FiniteInv
<1>9. HereInv'
  BY <1>2 DEF HereInv, Here, rows
<1>. QED  BY <1>6, <1>7, <1>8, <1>9 DEF CountInv, OrderInv

LEMMA ActMoves ==
    ASSUME IInv, NEW j \in Jobs, Add(j) \/ Remove(j) \/ ClearTweet(j) \/ ClearUser(j) \/ Fail(j)
    PROVE  Moves(j)
BY SkipMoves, ReadAddMoves, JoinTweetMoves, JoinPersonMoves, PushMoves, SendMoves, ReadRemoveMoves,
   PullEntryMoves, PullActorMoves, PullTweetMoves, SweepMoves, ClearMoves, FailMoves DEF Add, Remove

LEMMA StepJobs == ASSUME IInv, JobInv, Next PROVE JobInv'
<1>1. IInv' /\ JobsCarry
  BY StepInv
<1>2. ASSUME NEW j \in Jobs, Add(j) \/ Remove(j) \/ ClearTweet(j) \/ ClearUser(j) \/ Fail(j) PROVE JobInv'
  BY <1>1, <1>2, ActMoves, MovedJobs
<1>. QED  BY <1>2, HappensJobs, ViewJobs DEF Next

LEMMA JobInvInit == Init => JobInv
<1>. SUFFICES ASSUME Init PROVE JobInv
  OBVIOUS
<1>1. \A i \in Jobs : job[i] = NoJob
  BY DEF Init
<1>2. \A v, op : JobsFor(v, op) = {}
  BY <1>1 DEF JobsFor, Is
<1>3. \A v : NA(v) = 0 /\ NR(v) = 0
  BY <1>2, FS_EmptySet DEF NA, NR
<1>4. {i \in Jobs : job[i] # NoJob /\ job[i].op # "clear"} = {}
  BY <1>1
<1>5. FiniteInv
  BY <1>4, FS_EmptySet DEF FiniteInv
<1>6. SerialInv /\ EndInv /\ HereInv
  BY <1>1 DEF SerialInv, EndInv, HereInv, Busy, Init
<1>7. CountInv
  BY <1>2, <1>3 DEF CountInv, Counted, Init
<1>8. OrderInv
  <2>1. \A v : ~(NA(v) > NR(v))
    BY <1>3
  <2>2. \A i \in Jobs : \A op, v : ~OpenFor(i, op, v)
    BY <1>1 DEF OpenFor, Is
  <2>. QED  BY <2>1, <2>2 DEF OrderInv, Ordered
<1>. QED  BY <1>5, <1>6, <1>7, <1>8 DEF JobInv

-----------------------------------------------------------------------------
(* What is away stays out of sight. *)

SinceInv == \A i \in Jobs : Busy(i) => job[i].since <= horizon

LEMMA SinceMoved == ASSUME IInv, SinceInv, JobsCarry, NEW j \in Jobs, Moves(j) PROVE SinceInv'
<1>. SUFFICES ASSUME NEW i \in Jobs, Busy(i)' PROVE job'[i].since <= horizon'
  BY DEF SinceInv
<1>1. horizon \in Int
  BY SomeDays DEF IInv, RestOK, ClockOK, Days
<1>2. CASE i # j
  <2>1. Busy(i) /\ job'[i] = job[i]
    BY <1>2, OpenMoved DEF Busy, Moves, Others
  <2>. QED  BY <2>1 DEF SinceInv, Moves
<1>3. CASE i = j
  <2>1. Advances(j) /\ job[j] # NoJob /\ job[j].op # "clear"
    BY <1>3 DEF Moves, Busy, JobsCarry, Carries
  <2>. QED  BY <1>1, <1>3, <2>1 DEF Advances, Busy, Writing, Moves, SinceInv
<1>. QED  BY <1>2, <1>3

LEMMA SeenMoved ==
    ASSUME IInv, JobsCarry, NEW j \in Jobs, Moves(j), NEW f \in Entries, Seen(f)'
    PROVE  Seen(f)
<1>1. CASE f.day >= horizon'
  BY <1>1 DEF Seen, Moves
<1>2. ASSUME NEW i \in Jobs, Busy(i)', job'[i].what.type = f.type, f.day >= job'[i].since
      PROVE  Seen(f)
  <2>1. CASE i # j
    BY <1>2, <2>1 DEF Busy, Moves, Others, Seen
  <2>2. CASE i = j
    <3>1. Advances(j) /\ job[j] # NoJob /\ job[j].op # "clear" /\ job'[j].what = job[j].what
      BY <1>2, <2>2 DEF Moves, Busy, JobsCarry, Carries
    <3>. QED  BY <1>2, <2>2, <3>1 DEF Advances, Busy, Writing, Moves, Seen
  <2>. QED  BY <2>1, <2>2
<1>. QED  BY <1>1, <1>2 DEF Seen

\* When the type stays quiet, the job that moves is the only one to see more
\* than the next one will.
LEMMA SeenAlone ==
    ASSUME IInv, SinceInv, SerialInv, JobsCarry, NEW j \in Jobs, Moves(j), job[j].op # "clear",
           job[j].what.type \notin clashed', NEW f \in Entries, f.type = job[j].what.type, Seen(f)'
    PROVE  /\ Busy(j) => f.day >= job[j].since
           /\ job[j].at = "queued" /\ job'[j].at # "skipped" => f.day >= horizon
<1>1. f.day \in Int /\ horizon \in Int /\ job[j].since \in Int
  BY SomeDays DEF Entries, Days, IInv, RestOK, ClockOK, JobsOK, Moves, JobStates
<1>2. CASE f.day >= horizon'
  <2>1. f.day >= horizon
    BY <1>2 DEF Moves
  <2>2. Busy(j) => job[j].since <= horizon
    BY DEF SinceInv
  <2>. QED  BY <1>1, <2>1, <2>2
<1>3. ASSUME NEW i \in Jobs, Busy(i)', job'[i].what.type = f.type, f.day >= job'[i].since, i # j
      PROVE  /\ ~Busy(j)
             /\ ~(job[j].at = "queued" /\ job'[j].at # "skipped")
  <2>1. Busy(i) /\ job[i].what.type = job[j].what.type
    BY <1>3 DEF Busy, Moves, Others
  <2>2. ~Busy(j)
    BY <1>3, <2>1 DEF SerialInv, Moves
  <2>3. Disturbed(j)
    BY <1>3, <2>1 DEF Disturbed, Rival, Busy
  <2>4. Advances(j)
    BY DEF Moves
  <2>. QED  BY <2>2, <2>3, <2>4 DEF Advances, Writing
<1>4. ASSUME Busy(j)', f.day >= job'[j].since
      PROVE  /\ Busy(j) => f.day >= job[j].since
             /\ job[j].at = "queued" => f.day >= horizon
  <2>1. Advances(j)
    BY DEF Moves
  <2>. QED  BY <1>4, <2>1 DEF Advances, Writing, Busy
<1>. QED  BY <1>2, <1>3, <1>4 DEF Seen

Leaves(j, v) == /\ job[j].op = "remove" /\ job[j].what = v
                /\ job[j].at = "queued" \/ job[j].at \in Writing
                /\ job'[j].at \in {"done", "sweep"}

LEMMA AwayMoved ==
    ASSUME IInv, JobInv, JobsCarry, NEW j \in Jobs, Moves(j), NEW v \in Events, v.type \notin clashed', Away(v)'
    PROVE  Away(v) \/ Leaves(j, v)
<1>. SUFFICES ASSUME ~Leaves(j, v) PROVE Away(v)
  OBVIOUS
<1>0. Ordered(v)
  BY DEF JobInv, OrderInv, Moves
<1>1. /\ job[j] # NoJob /\ job'[j] # NoJob /\ job'[j].op = job[j].op /\ job'[j].what = job[j].what
      /\ job[j].op \in {"add", "remove", "clear"}
  BY DEF Moves, JobsCarry, Carries, IInv, JobsOK, JobStates
<1>2. Retracted(v)' <=> Retracted(v)
  BY CountsMoved
<1>3. Advances(j) \/ job[j].op = "clear"
  BY DEF Moves
<1>4. OpenFor(j, "remove", v) => OpenFor(j, "remove", v)'
  <2>. SUFFICES ASSUME OpenFor(j, "remove", v) PROVE OpenFor(j, "remove", v)'
    OBVIOUS
  <2>1. job[j].op = "remove" /\ job[j].what = v /\ (job[j].at = "queued" \/ job[j].at \in Writing)
    BY DEF OpenFor, Is
  <2>2. job'[j].at \notin {"done", "sweep"}
    BY <2>1 DEF Leaves
  <2>3. job'[j].at \in Writing
    BY <1>3, <2>1, <2>2 DEF Advances, Writing, Moves
  <2>. QED  BY <1>1, <2>1, <2>3 DEF OpenFor, Is
<1>5. \A i \in Jobs : QueuedFor(i, "remove", v) => OpenFor(i, "remove", v)'
  <2>. SUFFICES ASSUME NEW i \in Jobs, QueuedFor(i, "remove", v) PROVE OpenFor(i, "remove", v)'
    OBVIOUS
  <2>1. OpenFor(i, "remove", v)
    BY DEF QueuedFor, OpenFor, At, Is
  <2>. QED  BY <1>4, <2>1, OpenMoved
<1>6. ASSUME OpenFor(j, "add", v), ~OpenFor(j, "add", v)', Retracted(v)
      PROVE  \E r \in Jobs : OpenFor(r, "remove", v)'
  BY <1>0, <1>5, <1>6 DEF Ordered
<1>7. CASE Retracted(v)' /\ ~Opened(v)'
  <2>1. ~OpenFor(j, "add", v) /\ ~OpenFor(j, "remove", v)
    BY <1>2, <1>4, <1>6, <1>7 DEF Opened
  <2>2. ~Opened(v)
    BY <1>7, <2>1, OpenMoved DEF Opened
  <2>. QED  BY <1>2, <1>7, <2>2 DEF Away
<1>8. ASSUME v.type \in Gathered, NEW i \in Jobs, QueuedFor(i, "add", v)',
             \A k \in Jobs : k # i => ~OpenFor(k, "add", v)' /\ ~OpenFor(k, "remove", v)'
      PROVE  Away(v)
  <2>1. i # j /\ QueuedFor(i, "add", v)
    BY <1>8, OpenMoved, SelfMoved
  <2>2. ~OpenFor(j, "remove", v)
    BY <1>4, <1>8, <2>1
  <2>3. ~OpenFor(j, "add", v)
    <3>. SUFFICES ASSUME OpenFor(j, "add", v) PROVE FALSE
      OBVIOUS
    <3>1. PICK r \in Jobs : QueuedFor(r, "remove", v)
      BY <1>0, <1>8, <2>1 DEF Ordered
    <3>2. r # i
      BY <2>1, <3>1 DEF QueuedFor, At, Is
    <3>. QED  BY <1>5, <1>8, <3>1, <3>2
  <2>4. \A k \in Jobs : k # i => ~OpenFor(k, "add", v) /\ ~OpenFor(k, "remove", v)
    BY <1>8, <2>2, <2>3, OpenMoved
  <2>. QED  BY <1>8, <2>1, <2>4 DEF Away
<1>9. ASSUME v.type \in Gathered, NEW i \in Jobs, OpenFor(i, "add", v)', Busy(i)'
      PROVE  Away(v)
  <2>1. OpenFor(i, "add", v)
    BY <1>9, OpenMoved, SelfMoved
  <2>2. CASE Busy(i)
    BY <1>9, <2>1, <2>2 DEF Away
  <2>3. CASE ~Busy(i)
    <3>1. i = j
      BY <1>9, <2>3, OpenMoved
    <3>2. QueuedFor(i, "add", v)
      BY <2>1, <2>3 DEF OpenFor, QueuedFor, At, Is, Busy
    <3>3. \A k \in Jobs : k # i => ~OpenFor(k, "add", v) /\ ~OpenFor(k, "remove", v)
      BY <1>9, <3>1, <3>2, SelfMoved
    <3>. QED  BY <1>9, <3>2, <3>3 DEF Away
  <2>. QED  BY <2>2, <2>3
<1>10. ASSUME NEW i \in Jobs, SweepsFor(i, v)'
       PROVE  Away(v)
  <2>1. CASE i # j
    BY <1>10, <2>1, OpenMoved DEF Away
  <2>2. CASE i = j
    <3>1. job[j].op = "remove" /\ job[j].what = v /\ job'[j].at = "sweep"
      BY <1>1, <1>10, <2>2 DEF SweepsFor, At, Is
    <3>2. job[j].at = "queued" \/ job[j].at \in Writing
      BY <1>3, <3>1 DEF Advances, Writing
    <3>. QED  BY <3>1, <3>2 DEF Leaves
  <2>. QED  BY <2>1, <2>2
<1>. QED  BY <1>7, <1>8, <1>9, <1>10 DEF Away

\* An announcement that has been written is away no longer.
LEMMA AddReturns ==
    ASSUME IInv, JobInv, JobsCarry, NEW j \in Jobs, Moves(j), NEW v \in Events, v.type \notin clashed',
           OpenFor(j, "add", v), Busy(j), job'[j].at = "send"
    PROVE  ~Away(v)'
<1>0. Ordered(v)
  BY DEF JobInv, OrderInv, Moves
<1>1. job[j].op = "add" /\ job[j].what = v
  BY DEF OpenFor, Is
<1>2. ASSUME NEW r \in Jobs, QueuedFor(r, "remove", v) PROVE OpenFor(r, "remove", v)'
  <2>1. r # j /\ OpenFor(r, "remove", v)
    BY <1>1, <1>2 DEF QueuedFor, OpenFor, At, Is
  <2>. QED  BY <2>1, OpenMoved
<1>3. ASSUME Retracted(v)', ~Opened(v)' PROVE FALSE
  <2>1. Retracted(v)
    BY <1>3, CountsMoved
  <2>. QED  BY <1>0, <1>2, <1>3, <2>1 DEF Ordered, Opened
<1>4. ASSUME v.type \in Gathered, NEW i \in Jobs, QueuedFor(i, "add", v)',
             \A k \in Jobs : k # i => ~OpenFor(k, "add", v)' /\ ~OpenFor(k, "remove", v)'
      PROVE  FALSE
  <2>1. i # j /\ QueuedFor(i, "add", v)
    BY <1>4, OpenMoved, SelfMoved
  <2>2. PICK r \in Jobs : QueuedFor(r, "remove", v)
    BY <1>0, <1>4, <2>1 DEF Ordered
  <2>3. r # i
    BY <2>1, <2>2 DEF QueuedFor, At, Is
  <2>. QED  BY <1>2, <1>4, <2>2, <2>3
<1>5. ASSUME NEW i \in Jobs, Busy(i)', job'[i].what = v PROVE FALSE
  <2>1. i # j
    BY <1>5 DEF Busy, Writing
  <2>2. Busy(i) /\ job[i].what = v
    BY <1>5, <2>1 DEF Busy, Moves, Others
  <2>. QED  BY <1>1, <2>1, <2>2 DEF JobInv, SerialInv, Moves
<1>6. \A i \in Jobs : SweepsFor(i, v)' => Busy(i)' /\ job'[i].what = v
  BY DEF SweepsFor, At, Is, Busy, Writing
<1>. QED  BY <1>3, <1>4, <1>5, <1>6 DEF Away, OpenFor, Is

-----------------------------------------------------------------------------
(* What a statement leaves in sight. *)

EffectFor(v) == \A f \in box' : Names(f, v) => \E e \in box : Names(e, v) /\ (Seen(f)' => Seen(e))
Fades == \A f \in box' : f \in box \/ \E e \in box : Within(f, e) /\ (e.day = f.day \/ Seen(e))

LEMMA FadesEffect ==
    ASSUME IInv, IInv', JobsCarry, NEW j \in Jobs, Moves(j), Fades, NEW v \in Events
    PROVE  EffectFor(v)
<1>. SUFFICES ASSUME NEW f \in box', Names(f, v)
              PROVE  \E e \in box : Names(e, v) /\ (Seen(f)' => Seen(e))
  BY DEF EffectFor
<1>1. f \in Entries
  BY DEF IInv, BoxOK
<1>2. Seen(f)' => Seen(f)
  BY <1>1, SeenMoved
<1>3. CASE f \in box
  BY <1>2, <1>3
<1>4. ASSUME NEW e \in box, Within(f, e), e.day = f.day \/ Seen(e)
      PROVE  Names(e, v) /\ (Seen(f)' => Seen(e))
  <2>1. Names(e, v)
    BY <1>4 DEF Names, Within
  <2>2. e.day = f.day /\ e.type = f.type /\ Seen(f) => Seen(e)
    BY DEF Seen
  <2>. QED  BY <1>2, <1>4, <2>1, <2>2 DEF Within
<1>. QED  BY <1>3, <1>4 DEF Fades

LEMMA AwayActs ==
    ASSUME IInv, IInv', JobInv, AwayInv, JobsCarry, NEW j \in Jobs, Moves(j),
           \A v \in Events : v.type \notin clashed' /\ Away(v)' => EffectFor(v),
           \A v \in Events : v.type \notin clashed' /\ Away(v)' /\ Leaves(j, v) /\ ~Away(v) => Unseen(v)'
    PROVE  AwayInv'
<1>. SUFFICES ASSUME NEW v \in Events, v.type \notin clashed', Away(v)' PROVE Unseen(v)'
  BY DEF AwayInv
<1>1. CASE Away(v)
  <2>1. v.type \notin clashed
    BY DEF Moves
  <2>2. Unseen(v)
    BY <1>1, <2>1 DEF AwayInv
  <2>3. EffectFor(v)
    OBVIOUS
  <2>. QED  BY <2>2, <2>3 DEF Unseen, EffectFor
<1>2. CASE ~Away(v)
  BY <1>2, AwayMoved
<1>. QED  BY <1>1, <1>2

LEMMA MineSeen ==
    ASSUME NEW j \in Jobs, Busy(j), NEW e \in Mine(j, box)
    PROVE  e \in box /\ Seen(e) /\ e.type = job[j].what.type
BY DEF Mine, Recent, Seen

\* The actions that neither join, push nor remove.
LEMMA QuietFades ==
    ASSUME IInv, NEW j \in Jobs,
           \/ Skip(j) \/ ReadAdd(j) \/ Send(j) \/ ReadRemove(j) \/ PullEntry(j) \/ Sweep(j)
           \/ PullActor(j) \/ PullTweet(j) \/ ClearTweet(j) \/ ClearUser(j) \/ Fail(j)
    PROVE  Fades
<1>1. CASE Skip(j) \/ ReadAdd(j) \/ Send(j) \/ ReadRemove(j) \/ Fail(j)
  BY <1>1 DEF Skip, ReadAdd, Send, ReadRemove, Fail, Fades
<1>2. CASE PullEntry(j) \/ Sweep(j) \/ ClearTweet(j) \/ ClearSingle(j) \/ ClearSweep(j)
  BY <1>2 DEF PullEntry, Sweep, ClearTweet, ClearSingle, ClearSweep, Fades
<1>b. box \subseteq Entries
  BY DEF IInv, BoxOK
<1>3. ASSUME PullActor(j) PROVE Fades
  <2>. DEFINE old == {e \in Mine(j, box) : job[j].what.tweet \in e.tweets}
  <2>1. box' = (box \ old) \cup
            {[e EXCEPT !.actors = e.actors \ {job[j].what.actor}, !.day = job[j].day] : e \in old}
    BY <1>3, Zenon DEF PullActor
  <2>2. Busy(j)
    BY <1>3, Zenon DEF PullActor, At, Is, Busy, Writing
  <2>3. \A e \in old : e \in box /\ Seen(e)
    BY <2>2, MineSeen
  <2>. HIDE DEF old
  <2>4. ASSUME NEW e \in old
        PROVE  Within([e EXCEPT !.actors = e.actors \ {job[j].what.actor}, !.day = job[j].day], e)
    BY <1>b, <2>3 DEF Within, Entries
  <2>. QED  BY <2>1, <2>3, <2>4, Zenon DEF Fades
<1>4. ASSUME PullTweet(j) PROVE Fades
  <2>. DEFINE old == {e \in Mine(j, box) : job[j].what.actor \in e.actors}
  <2>1. box' = (box \ old) \cup
            {[e EXCEPT !.tweets = e.tweets \ {job[j].what.tweet}, !.day = job[j].day] : e \in old}
    BY <1>4, Zenon DEF PullTweet
  <2>2. Busy(j)
    BY <1>4, Zenon DEF PullTweet, At, Is, Busy, Writing
  <2>3. \A e \in old : e \in box /\ Seen(e)
    BY <2>2, MineSeen
  <2>. HIDE DEF old
  <2>4. ASSUME NEW e \in old
        PROVE  Within([e EXCEPT !.tweets = e.tweets \ {job[j].what.tweet}, !.day = job[j].day], e)
    BY <1>b, <2>3 DEF Within, Entries
  <2>. QED  BY <2>1, <2>3, <2>4, Zenon DEF Fades
<1>5. ASSUME NEW from, NEW type, NEW to, ClearPull(j, from, type, to) PROVE Fades
  <2>1. ASSUME NEW f \in box' PROVE \E e \in box : Within(f, e) /\ e.day = f.day
    <3>1. PICK e \in box : f = IF e.type = type THEN [e EXCEPT !.actors = e.actors \ {job[j].what}] ELSE e
      BY <1>5 DEF ClearPull
    <3>2. Within(f, e) /\ e.day = f.day
      BY <1>b, <3>1 DEF Within, Entries
    <3>. QED  BY <3>2
  <2>. QED  BY <2>1 DEF Fades
<1>. QED  BY <1>1, <1>2, <1>3, <1>4, <1>5 DEF ClearUser

LEMMA SameEvent ==
    ASSUME NEW v \in Events, NEW w \in Events, v.type = w.type, v.actor = w.actor, Key(v) = Key(w)
    PROVE  v = w
<1>1. CASE v.type \in Singles
  BY <1>1, PostsTellOne DEF Key
<1>2. CASE v.type \notin Singles
  <2>1. v.tweet = w.tweet /\ v.post = w.post
    BY <1>2, EventsRefer DEF Key
  <2>2. /\ v = [type |-> v.type, tweet |-> v.tweet, post |-> v.post, actor |-> v.actor]
        /\ w = [type |-> w.type, tweet |-> w.tweet, post |-> w.post, actor |-> w.actor]
    BY EventsTyped
  <2>. QED  BY <2>1, <2>2
<1>. QED  BY <1>1, <1>2

LEMMA RefersKey ==
    ASSUME NEW v \in Events, NEW w \in Events, v.type = w.type, Key(v) \in Refers(w)
    PROVE  Key(v) = Key(w)
<1>1. CASE v.type \in Singles
  <2>1. Key(v) \in Posts /\ w.tweet \notin Posts /\ Key(w) = w.post
    BY <1>1, KeyOfSingle, KindsDisjoint DEF Key
  <2>. QED  BY <1>1, <2>1 DEF Refers
<1>2. CASE v.type \notin Singles
  BY <1>2 DEF Refers, Key
<1>. QED  BY <1>1, <1>2

\* What a join or a push brings into the document is its own event.
LEMMA AddEffect ==
    ASSUME IInv, IInv', KeepInv, JobsCarry, NEW j \in Jobs, Moves(j), JoinTweet(j) \/ JoinPerson(j) \/ Push(j),
           NEW v \in Events, v # job[j].what
    PROVE  EffectFor(v)
<1>. SUFFICES ASSUME NEW f \in box', Names(f, v)
              PROVE  \E e \in box : Names(e, v) /\ (Seen(f)' => Seen(e))
  BY DEF EffectFor
<1>. DEFINE w == job[j].what
<1>1. job[j] # NoJob /\ job[j].op = "add" /\ Busy(j)
  BY Zenon DEF JoinTweet, JoinPerson, Push, At, Is, Busy, Writing
<1>2. w \in Events
  BY <1>1, WhatTyped
<1>3. CASE f \in box
  <2>1. f \in Entries
    BY DEF IInv, BoxOK
  <2>. QED  BY <1>3, <2>1, SeenMoved
<1>4. ASSUME JoinTweet(j), f \notin box PROVE \E e \in box : Names(e, v) /\ Seen(e)
  <2>1. PICK e \in box : /\ e \in Mine(j, box) /\ e.type = w.type /\ e.tweets = {w.tweet}
                         /\ f.type = e.type /\ f.tweets = e.tweets
                         /\ f.actors = e.actors \cup {w.actor}
    BY <1>4, JoinTweetEntries
  <2>2. w.type \notin Singles
    BY <1>1, <1>4, Zenon DEF KeepInv, PlaceInv, PlaceOf, JoinTweet, At
  <2>3. v.type = w.type /\ Key(v) = Key(w)
    BY <2>1, <2>2 DEF Names, Key
  <2>4. v.actor # w.actor
    BY <1>2, <2>3, SameEvent
  <2>5. Names(e, v) /\ Seen(e)
    BY <1>1, <2>1, <2>4, MineSeen DEF Names
  <2>. QED  BY <2>5
<1>5. ASSUME JoinPerson(j), f \notin box PROVE \E e \in box : Names(e, v) /\ Seen(e)
  <2>1. PICK e \in box : /\ e \in Mine(j, box) /\ e.type = w.type /\ e.actors = {w.actor}
                         /\ f.type = e.type /\ f.actors = e.actors
                         /\ f.tweets = e.tweets \cup {w.tweet}
    BY <1>5, JoinPersonEntries
  <2>2. w.type \notin Singles
    BY <1>1, <1>5, Zenon DEF KeepInv, PlaceInv, PlaceOf, JoinPerson, At, Singles, Gathered
  <2>3. v.type = w.type /\ v.actor = w.actor
    BY <2>1 DEF Names
  <2>4. Key(v) # w.tweet
    BY <1>2, <2>2, <2>3, SameEvent DEF Key
  <2>5. Names(e, v) /\ Seen(e)
    BY <1>1, <2>1, <2>4, MineSeen DEF Names
  <2>. QED  BY <2>5
<1>6. ASSUME Push(j), f \notin box PROVE FALSE
  <2>1. f.type = w.type /\ f.tweets = Refers(w) /\ f.actors = {w.actor}
    BY <1>6, PushEntries
  <2>2. v.type = w.type /\ v.actor = w.actor /\ Key(v) \in Refers(w)
    BY <2>1 DEF Names
  <2>. QED  BY <1>2, <2>2, RefersKey, SameEvent
<1>. QED  BY <1>3, <1>4, <1>5, <1>6

\* Who joins an entry finds it: its date is set to today.
LEMMA JoinTweetFinds ==
    ASSUME IInv, SinceInv, NEW j \in Jobs, Busy(j), NEW e \in OfTweet(Mine(j, box), job[j].what.tweet),
           NEW f, f = [e EXCEPT !.actors = e.actors \cup {job[j].what.actor}, !.day = today]
    PROVE  /\ f.type = job[j].what.type /\ f.day >= job[j].since /\ f.day >= horizon
           /\ f.tweets = {job[j].what.tweet} /\ f.actors = e.actors \cup {job[j].what.actor}
<1>1. e \in Entries /\ e.type = job[j].what.type /\ e.tweets = {job[j].what.tweet}
  BY DEF OfTweet, Mine, Recent, IInv, BoxOK
<1>2. job[j].since \in Days /\ job[j].since <= horizon
  BY DEF Busy, IInv, JobsOK, JobStates, SinceInv
<1>3. today \in Int /\ horizon <= today /\ horizon \in Int
  BY SomeDays DEF IInv, RestOK, ClockOK, Days
<1>4. f.day = today /\ f.type = e.type /\ f.tweets = e.tweets /\ f.actors = e.actors \cup {job[j].what.actor}
  BY <1>1 DEF Entries
<1>. QED  BY <1>1, <1>2, <1>3, <1>4, SomeDays DEF Days

LEMMA JoinPersonFinds ==
    ASSUME IInv, SinceInv, NEW j \in Jobs, Busy(j), NEW e \in OfPerson(Mine(j, box), job[j].what.actor),
           NEW f, f = [e EXCEPT !.tweets = e.tweets \cup {job[j].what.tweet}, !.day = today]
    PROVE  /\ f.type = job[j].what.type /\ f.day >= job[j].since /\ f.day >= horizon
           /\ f.actors = {job[j].what.actor} /\ f.tweets = e.tweets \cup {job[j].what.tweet}
<1>1. e \in Entries /\ e.type = job[j].what.type /\ e.actors = {job[j].what.actor}
  BY DEF OfPerson, Mine, Recent, IInv, BoxOK
<1>2. job[j].since \in Days /\ job[j].since <= horizon
  BY DEF Busy, IInv, JobsOK, JobStates, SinceInv
<1>3. today \in Int /\ horizon <= today /\ horizon \in Int
  BY SomeDays DEF IInv, RestOK, ClockOK, Days
<1>4. f.day = today /\ f.type = e.type /\ f.actors = e.actors /\ f.tweets = e.tweets \cup {job[j].what.tweet}
  BY <1>1 DEF Entries
<1>. QED  BY <1>1, <1>2, <1>3, <1>4, SomeDays DEF Days

\* A join that found nothing changes nothing; otherwise the job sends next.
LEMMA JoinTweetDoes ==
    ASSUME IInv, SinceInv, NEW j \in Jobs, JoinTweet(j)
    PROVE  LET old == OfTweet(Mine(j, box), job[j].what.tweet)
               new == {[e EXCEPT !.actors = e.actors \cup {job[j].what.actor}, !.day = today] : e \in old}
           IN  /\ box' = (box \ old) \cup new
               /\ \/ old = {} /\ box' = box /\ job'[j].at = "push"
                  \/ job'[j].at = "send"
               /\ \/ old = {} /\ job'[j].at = "push"
                  \/ \E e \in old : old = {e}
                  \/ job[j].what.type \in scattered'
<1>. DEFINE w == job[j].what
            old == OfTweet(Mine(j, box), w.tweet)
            new == {[e EXCEPT !.actors = e.actors \cup {w.actor}, !.day = today] : e \in old}
            found == {e \in Mine(j, (box \ old) \cup new) : w.tweet \in e.tweets}
<1>1. Join(j, old, new, found) /\ Busy(j) /\ job[j] # NoJob
  BY Zenon DEF JoinTweet, At, Is, Busy, Writing
<1>2. job[j] \in JobStates
  BY <1>1, Zenon DEF IInv, JobsOK
<1>3. found = {} => old = {}
  <2>. SUFFICES ASSUME NEW e \in old PROVE found # {}
    BY Zenon
  <2>. DEFINE f == [e EXCEPT !.actors = e.actors \cup {w.actor}, !.day = today]
  <2>1. /\ f.type = job[j].what.type /\ f.day >= job[j].since
        /\ f.tweets = {w.tweet}
    BY <1>1, JoinTweetFinds, Zenon
  <2>2. f \in new
    BY Zenon
  <2>3. f \in found
    BY <2>1, <2>2, Zenon DEF Mine, Recent
  <2>. QED  BY <2>3, Zenon
<1>4. old = {} => new = {}
  OBVIOUS
<1>5. box' = (box \ old) \cup new
  BY <1>1, Zenon DEF Join
<1>6. \/ found = {} /\ job'[j].at = "push"
      \/ found # {} /\ job'[j].at = "send"
  <2>1. CASE found = {} /\ Goes(j, "push")
    BY <1>1, <2>1, GoesTo, Zenon
  <2>2. ASSUME NEW e \in found,
             job' = [job EXCEPT ![j] = [job[j] EXCEPT
                        !.at = "send", !.shown = (e.tweets \cup e.actors) \ {NoTweet}]]
        PROVE  job'[j].at = "send"
    <3>1. job'[j] = [job[j] EXCEPT !.at = "send", !.shown = (e.tweets \cup e.actors) \ {NoTweet}]
      BY <2>2, Zenon DEF IInv, JobsOK
    <3>. QED  BY <1>2, <3>1, Zenon DEF JobStates
  <2>. HIDE DEF found, old, new
  <2>. QED  BY <1>1, <2>1, <2>2, Zenon DEF Join
<1>7. \/ found = {} \/ (\E e \in old : old = {e}) \/ w.type \in scattered'
  <2>. HIDE DEF found, old, new
  <2>1. scattered' = IF found = {} \/ \E e \in old : old = {e} THEN scattered ELSE scattered \cup {w.type}
    BY <1>1, Zenon DEF Join
  <2>. QED  BY <2>1
<1>. HIDE DEF found, new, old
<1>8. /\ box' = (box \ old) \cup new
      /\ \/ old = {} /\ box' = box /\ job'[j].at = "push"
         \/ job'[j].at = "send"
      /\ \/ old = {} /\ job'[j].at = "push"
         \/ \E e \in old : old = {e}
         \/ w.type \in scattered'
  BY <1>3, <1>4, <1>5, <1>6, <1>7
<1>. QED  BY <1>8, Zenon DEF old, new

LEMMA JoinPersonDoes ==
    ASSUME IInv, SinceInv, NEW j \in Jobs, JoinPerson(j)
    PROVE  LET old == OfPerson(Mine(j, box), job[j].what.actor)
               new == {[e EXCEPT !.tweets = e.tweets \cup {job[j].what.tweet}, !.day = today] : e \in old}
           IN  /\ box' = (box \ old) \cup new
               /\ \/ old = {} /\ box' = box /\ job'[j].at = "push"
                  \/ job'[j].at = "send"
               /\ \/ old = {} /\ job'[j].at = "push"
                  \/ \E e \in old : old = {e}
                  \/ job[j].what.type \in scattered'
<1>. DEFINE w == job[j].what
            old == OfPerson(Mine(j, box), w.actor)
            new == {[e EXCEPT !.tweets = e.tweets \cup {w.tweet}, !.day = today] : e \in old}
            found == {e \in Mine(j, (box \ old) \cup new) : w.actor \in e.actors}
<1>1. Join(j, old, new, found) /\ Busy(j) /\ job[j] # NoJob
  BY Zenon DEF JoinPerson, At, Is, Busy, Writing
<1>2. job[j] \in JobStates
  BY <1>1, Zenon DEF IInv, JobsOK
<1>3. found = {} => old = {}
  <2>. SUFFICES ASSUME NEW e \in old PROVE found # {}
    BY Zenon
  <2>. DEFINE f == [e EXCEPT !.tweets = e.tweets \cup {w.tweet}, !.day = today]
  <2>1. /\ f.type = job[j].what.type /\ f.day >= job[j].since
        /\ f.actors = {w.actor}
    BY <1>1, JoinPersonFinds, Zenon
  <2>2. f \in new
    BY Zenon
  <2>3. f \in found
    BY <2>1, <2>2, Zenon DEF Mine, Recent
  <2>. QED  BY <2>3, Zenon
<1>4. old = {} => new = {}
  OBVIOUS
<1>5. box' = (box \ old) \cup new
  BY <1>1, Zenon DEF Join
<1>6. \/ found = {} /\ job'[j].at = "push"
      \/ found # {} /\ job'[j].at = "send"
  <2>1. CASE found = {} /\ Goes(j, "push")
    BY <1>1, <2>1, GoesTo, Zenon
  <2>2. ASSUME NEW e \in found,
             job' = [job EXCEPT ![j] = [job[j] EXCEPT
                        !.at = "send", !.shown = (e.tweets \cup e.actors) \ {NoTweet}]]
        PROVE  job'[j].at = "send"
    <3>1. job'[j] = [job[j] EXCEPT !.at = "send", !.shown = (e.tweets \cup e.actors) \ {NoTweet}]
      BY <2>2, Zenon DEF IInv, JobsOK
    <3>. QED  BY <1>2, <3>1, Zenon DEF JobStates
  <2>. HIDE DEF found, old, new
  <2>. QED  BY <1>1, <2>1, <2>2, Zenon DEF Join
<1>7. \/ found = {} \/ (\E e \in old : old = {e}) \/ w.type \in scattered'
  <2>. HIDE DEF found, old, new
  <2>1. scattered' = IF found = {} \/ \E e \in old : old = {e} THEN scattered ELSE scattered \cup {w.type}
    BY <1>1, Zenon DEF Join
  <2>. QED  BY <2>1
<1>. HIDE DEF found, new, old
<1>8. /\ box' = (box \ old) \cup new
      /\ \/ old = {} /\ box' = box /\ job'[j].at = "push"
         \/ job'[j].at = "send"
      /\ \/ old = {} /\ job'[j].at = "push"
         \/ \E e \in old : old = {e}
         \/ w.type \in scattered'
  BY <1>3, <1>4, <1>5, <1>6, <1>7
<1>. QED  BY <1>8, Zenon DEF old, new

\* Its own event is sent, or the document is as it was.
LEMMA AddOwn ==
    ASSUME IInv, IInv', JobInv, SinceInv, JobsCarry, NEW j \in Jobs, Moves(j),
           JoinTweet(j) \/ JoinPerson(j) \/ Push(j),
           job[j].what.type \notin clashed', Away(job[j].what)'
    PROVE  box' = box
<1>. DEFINE w == job[j].what
<1>1. job[j] # NoJob /\ job[j].op = "add" /\ Busy(j) /\ OpenFor(j, "add", w)
  BY Zenon DEF JoinTweet, JoinPerson, Push, At, Is, Busy, Writing, OpenFor
<1>2. w \in Events
  BY <1>1, WhatTyped
<1>3. job'[j].what = w
  BY <1>1 DEF JobsCarry, Carries
<1>4. job'[j].at # "send"
  BY <1>1, <1>2, <1>3, AddReturns
<1>5. ~Push(j)
  BY <1>1, <1>4, GoesTo DEF Push
<1>. QED  BY <1>4, <1>5, JoinTweetDoes, JoinPersonDoes, Zenon

LEMMA AddAway ==
    ASSUME IInv, IInv', KeepInv, JobInv, SinceInv, AwayInv, JobsCarry, NEW j \in Jobs,
           JoinTweet(j) \/ JoinPerson(j) \/ Push(j)
    PROVE  AwayInv'
<1>1. Moves(j)
  BY ActMoves DEF Add
<1>2. job[j] # NoJob /\ job[j].op = "add"
  BY Zenon DEF JoinTweet, JoinPerson, Push, At, Is
<1>3. \A v \in Events : ~Leaves(j, v)
  BY <1>2 DEF Leaves
<1>4. ASSUME NEW v \in Events, v.type \notin clashed', Away(v)' PROVE EffectFor(v)
  <2>1. CASE v # job[j].what
    BY <1>1, <2>1, AddEffect
  <2>2. CASE v = job[j].what
    <3>1. job'[j].what = job[j].what
      BY <1>2 DEF JobsCarry, Carries
    <3>2. box' = box
      BY <1>1, <1>4, <2>2, <3>1, AddOwn
    <3>3. Fades
      BY <3>2 DEF Fades
    <3>. QED  BY <1>1, <3>3, FadesEffect
  <2>. QED  BY <2>1, <2>2
<1>. QED  BY <1>1, <1>3, <1>4, AwayActs

\* What a removal leaves.
LEMMA PullLeaves ==
    ASSUME IInv, IInv', KeepInv, JobInv, SinceInv, JobsCarry, NEW j \in Jobs, Moves(j),
           PullEntry(j) \/ PullActor(j) \/ PullTweet(j),
           job[j].what.type \notin clashed'
    PROVE  Unseen(job[j].what)'
<1>. DEFINE w == job[j].what
<1>1. job[j] # NoJob /\ job[j].op = "remove" /\ Busy(j)
  BY Zenon DEF PullEntry, PullActor, PullTweet, At, Is, Busy, Writing
<1>2. w \in Events
  BY <1>1, WhatTyped
<1>3. job'[j].what = w
  BY <1>1 DEF JobsCarry, Carries
<1>4. SUFFICES ASSUME NEW f \in box', Names(f, w), Seen(f)' PROVE FALSE
  BY <1>3 DEF Unseen
<1>5. f \in Entries /\ f.type = w.type /\ Key(w) \in f.tweets /\ w.actor \in f.actors
  BY <1>4 DEF Names, IInv, BoxOK
<1>6. f.day >= job[j].since
  BY <1>1, <1>4, <1>5, SeenAlone DEF JobInv
<1>7. f \in box => f \in Mine(j, box)
  BY <1>5, <1>6 DEF Mine, Recent
<1>8. CASE PullEntry(j)
  BY <1>5, <1>7, <1>8 DEF PullEntry, Naming
<1>9. CASE PullActor(j)
  <2>1. w.type \notin Singles
    BY <1>1, <1>9, Zenon DEF KeepInv, PlaceInv, PlaceOf, PullActor, At
  <2>. DEFINE old == {e \in Mine(j, box) : w.tweet \in e.tweets}
  <2>2. f \notin box \ old
    BY <1>5, <1>7, <2>1 DEF Key
  <2>3. PICK e \in old : f = [e EXCEPT !.actors = e.actors \ {w.actor}, !.day = job[j].day]
    BY <1>9, <2>2, Zenon DEF PullActor
  <2>4. e \in Entries
    BY DEF Mine, Recent, IInv, BoxOK
  <2>. QED  BY <1>5, <2>3, <2>4 DEF Entries
<1>10. CASE PullTweet(j)
  <2>1. w.type \notin Singles
    BY <1>1, <1>10, Zenon DEF KeepInv, PlaceInv, PlaceOf, PullTweet, At, Singles, Gathered
  <2>. DEFINE old == {e \in Mine(j, box) : w.actor \in e.actors}
  <2>2. f \notin box \ old
    BY <1>5, <1>7
  <2>3. PICK e \in old : f = [e EXCEPT !.tweets = e.tweets \ {w.tweet}, !.day = job[j].day]
    BY <1>10, <2>2, Zenon DEF PullTweet
  <2>4. e \in Entries
    BY DEF Mine, Recent, IInv, BoxOK
  <2>. QED  BY <1>5, <2>1, <2>3, <2>4 DEF Entries, Key
<1>. QED  BY <1>8, <1>9, <1>10

LEMMA ReadLeaves ==
    ASSUME IInv, IInv', JobInv, SinceInv, TypesDoNotMix, JobsCarry, NEW j \in Jobs, Moves(j), ReadRemove(j),
           NEW v \in Events, v.type \notin clashed', Leaves(j, v), Away(v)'
    PROVE  Unseen(v)'
<1>. DEFINE S == {e \in Naming(Recent(box, v.type, horizon), Key(v), v.actor) : ~Misdirected(v)}
<1>1. job[j] # NoJob /\ job[j].op = "remove" /\ job[j].at = "queued" /\ job[j].what = v
  BY DEF ReadRemove, At, Is, Leaves
<1>2. \/ S = {}
      \/ \E e \in S : job'[j].at = PullFrom(v.type, e)
  BY <1>1, ReadsTo DEF ReadRemove
<1>3. job'[j].at # "skipped" /\ job'[j].at \in {"done", "sweep"} /\ job'[j].what = v
  BY <1>1 DEF Leaves, JobsCarry, Carries
<1>4. S = {}
  <2>. SUFFICES ASSUME NEW e \in S, job'[j].at = PullFrom(v.type, e) PROVE FALSE
    BY <1>2
  <2>1. e \in box /\ e.type = v.type /\ Key(v) \in e.tweets /\ v.actor \in e.actors
    BY DEF Naming, Recent
  <2>2. v.type \in Gathered /\ ~(\E t \in e.tweets : e.tweets = {t}) /\ ~(\E u \in e.actors : e.actors = {u})
    BY <1>3, EventsTyped DEF PullFrom, Types
  <2>. QED  BY <2>1, <2>2 DEF TypesDoNotMix
<1>5. ~Disturbed(j)
  BY <1>1, <1>3 DEF Moves, Advances, Writing
<1>6. SUFFICES ASSUME NEW f \in box', Names(f, v), Seen(f)', Misdirected(v) PROVE FALSE
  <2>. SUFFICES ASSUME NEW f \in box', Names(f, v), Seen(f)', ~Misdirected(v) PROVE FALSE
    BY DEF Unseen
  <2>1. f \in Entries /\ f \in box
    BY DEF IInv, BoxOK, ReadRemove
  <2>2. f.day >= horizon
    BY <1>1, <1>3, <2>1, SeenAlone DEF Names, JobInv
  <2>. QED  BY <1>4, <2>1, <2>2 DEF Names, Naming, Recent
<1>7. ~Retracted(v)'
  BY <1>6 DEF Misdirected, Retracted, Here, Moves
<1>8. ASSUME NEW i \in Jobs, QueuedFor(i, "add", v)' PROVE FALSE
  <2>1. i # j /\ QueuedFor(i, "add", v)
    BY <1>8, OpenMoved, SelfMoved
  <2>. QED  BY <1>1, <1>5, <2>1 DEF QueuedFor, At, Is, Disturbed, Rival
<1>9. ASSUME NEW i \in Jobs, i # j, Busy(i)', job'[i].what = v PROVE FALSE
  BY <1>1, <1>5, <1>9 DEF Busy, Moves, Others, Disturbed, Rival
<1>10. ASSUME NEW i \in Jobs, OpenFor(i, "add", v)', Busy(i)' PROVE FALSE
  <2>1. i # j
    BY <1>1, <1>10 DEF OpenFor, Is, JobsCarry, Carries
  <2>. QED  BY <1>9, <1>10, <2>1 DEF OpenFor
<1>11. ASSUME NEW i \in Jobs, SweepsFor(i, v)' PROVE FALSE
  <2>1. CASE i # j
    BY <1>9, <1>11, <2>1 DEF SweepsFor, At, Is, Busy, Writing
  <2>2. CASE i = j
    <3>1. job'[j].at = "done"
      <4>1. Reads(j, "done")
        BY <1>1, <1>4 DEF ReadRemove
      <4>. QED  BY <1>1, <4>1, ReadsTo
    <3>. QED  BY <1>11, <2>2, <3>1 DEF SweepsFor, At
  <2>. QED  BY <2>1, <2>2
<1>. QED  BY <1>7, <1>8, <1>10, <1>11 DEF Away

LEMMA ActAway ==
    ASSUME IInv, KeepInv, JobInv, SinceInv, AwayInv, TypesDoNotMix, NEW j \in Jobs,
           Add(j) \/ Remove(j) \/ ClearTweet(j) \/ ClearUser(j) \/ Fail(j)
    PROVE  AwayInv'
<1>1. IInv' /\ JobsCarry
  BY StepInv DEF Next
<1>2. Moves(j)
  BY ActMoves
<1>3. CASE JoinTweet(j) \/ JoinPerson(j) \/ Push(j)
  BY <1>1, <1>3, AddAway
<1>4. ASSUME \/ Skip(j) \/ ReadAdd(j) \/ Send(j) \/ ReadRemove(j) \/ PullEntry(j) \/ Sweep(j)
             \/ PullActor(j) \/ PullTweet(j) \/ ClearTweet(j) \/ ClearUser(j) \/ Fail(j),
             NEW v \in Events, v.type \notin clashed', Away(v)'
      PROVE  EffectFor(v) /\ (Leaves(j, v) /\ ~Away(v) => Unseen(v)')
  <2>1. EffectFor(v)
    BY <1>1, <1>2, <1>4, QuietFades, FadesEffect
  <2>2. ASSUME Leaves(j, v), ~Away(v) PROVE Unseen(v)'
    <3>1. CASE Skip(j) \/ ReadAdd(j) \/ Send(j) \/ ClearTweet(j) \/ ClearUser(j)
      BY <2>2, <3>1 DEF Skip, ReadAdd, Send, ClearTweet, ClearUser, ClearPull, ClearSingle,
                        ClearSweep, At, Is, Leaves
    <3>2. CASE Fail(j)
      BY <1>4, <2>2, <3>2 DEF Fail, Leaves
    <3>3. CASE ReadRemove(j)
      BY <1>1, <1>2, <1>4, <2>2, <3>3, ReadLeaves
    <3>4. CASE PullEntry(j) \/ PullActor(j) \/ PullTweet(j)
      <4>1. job'[j].what = v /\ job[j].what = v
        BY <1>1, <1>2, <2>2 DEF Leaves, JobsCarry, Carries, Moves
      <4>2. Unseen(job[j].what)'
        BY <1>1, <1>2, <1>4, <3>4, <4>1, PullLeaves
      <4>. QED  BY <4>1, <4>2
    <3>5. CASE Sweep(j)
      BY <2>2, <3>5 DEF SweepsFor, Sweep, Leaves, Away
    <3>. QED  BY <1>4, <3>1, <3>2, <3>3, <3>4, <3>5
  <2>. QED  BY <2>1, <2>2
<1>5. CASE \/ Skip(j) \/ ReadAdd(j) \/ Send(j) \/ ReadRemove(j) \/ PullEntry(j) \/ Sweep(j)
           \/ PullActor(j) \/ PullTweet(j) \/ ClearTweet(j) \/ ClearUser(j) \/ Fail(j)
  BY <1>1, <1>2, <1>4, <1>5, AwayActs
<1>. QED  BY <1>3, <1>5 DEF Add, Remove

LEMMA SeenQueued ==
    ASSUME IInv, horizon' >= horizon, horizon' \in Int, NEW f \in Entries, Seen(f)',
           \A i \in Jobs : (Busy(i)' => Busy(i)) /\ (Busy(i) => job'[i] = job[i])
    PROVE  Seen(f)
<1>1. f.day \in Int /\ horizon \in Int
  BY SomeDays DEF Entries, Days, IInv, RestOK, ClockOK
<1>2. CASE f.day >= horizon'
  BY <1>1, <1>2 DEF Seen
<1>3. ASSUME NEW i \in Jobs, Busy(i)', job'[i].what.type = f.type, f.day >= job'[i].since
      PROVE  Seen(f)
  BY <1>3 DEF Seen
<1>. QED  BY <1>2, <1>3 DEF Seen

LEMMA QueueAway ==
    ASSUME IInv, IInv', AwayInv, box' = box, clashed' = clashed, horizon' >= horizon,
           \A i \in Jobs : (Busy(i)' => Busy(i)) /\ (Busy(i) => job'[i] = job[i]),
           \A v \in Events : Away(v)' => Away(v)
    PROVE  AwayInv'
<1>. SUFFICES ASSUME NEW v \in Events, v.type \notin clashed', Away(v)', NEW f \in box', Names(f, v), Seen(f)'
              PROVE  FALSE
  BY DEF AwayInv, Unseen
<1>1. f \in Entries /\ horizon' \in Int
  BY SomeDays DEF IInv, BoxOK, RestOK, ClockOK, Days
<1>2. Seen(f)
  BY <1>1, SeenQueued
<1>. QED  BY <1>2 DEF AwayInv, Unseen

LEMMA AwaySame ==
    ASSUME NEW v \in Events, SameFor(v), Retracted(v)' => Retracted(v), Away(v)',
           \A i \in Jobs : /\ Busy(i)' => Busy(i)
                           /\ SweepsFor(i, v)' => SweepsFor(i, v)
    PROVE  Away(v)
BY DEF Away, SameFor, Opened

LEMMA HappensAway == ASSUME IInv, JobInv, AwayInv, Happens PROVE AwayInv'
<1>. USE DEF JobInv
<1>1. /\ box' = box /\ clashed' = clashed /\ horizon' >= horizon /\ gone \subseteq gone'
      /\ \/ job' = job /\ \A v \in Events : RowsLose(v)
         \/ \E j \in Jobs, w \in Events :
               Queue(j, "add", w) /\ Gains(w) /\ \A v \in Events : v # w => RowsLose(v)
         \/ \E j \in Jobs, w \in Events :
               Queue(j, "remove", w) /\ Loses(w) /\ \A v \in Events : v # w => RowsLose(v)
  BY HappensRows
<1>2. IInv'
  BY HappensInv
<1>3. \A v \in Events : Counted(v)
  BY DEF CountInv
<1>5. CASE job' = job /\ \A v \in Events : RowsLose(v)
  <2>1. \A v \in Events : SameFor(v) /\ (Retracted(v)' => Retracted(v))
    BY <1>3, <1>5, StillSame, RowsRetracted
  <2>2. \A i \in Jobs : /\ Busy(i)' <=> Busy(i)
                        /\ \A v : SweepsFor(i, v)' <=> SweepsFor(i, v)
    BY <1>5 DEF SweepsFor, Busy, At, Is
  <2>3. \A v \in Events : Away(v)' => Away(v)
    BY <2>1, <2>2, AwaySame
  <2>. QED  BY <1>1, <1>2, <1>5, <2>2, <2>3, QueueAway
<1>6. ASSUME NEW j \in Jobs, NEW op \in {"add", "remove"}, NEW w \in Events, Queue(j, op, w),
             \A v \in Events : v # w => RowsLose(v), Away(w)' => Away(w)
      PROVE  AwayInv'
  <2>1. \A i \in Jobs : /\ Busy(i)' <=> Busy(i)
                        /\ Busy(i) => job'[i] = job[i]
                        /\ \A v \in Events : SweepsFor(i, v)' <=> SweepsFor(i, v)
    BY <1>6, QueueOpen
  <2>2. ASSUME NEW v \in Events, v # w PROVE Away(v)' => Away(v)
    <3>1. SameFor(v) /\ (Retracted(v)' => Retracted(v))
      BY <1>3, <1>6, <2>2, QueueSame, RowsRetracted
    <3>. QED  BY <2>1, <3>1, AwaySame
  <2>3. \A v \in Events : Away(v)' => Away(v)
    BY <1>6, <2>2
  <2>. QED  BY <1>1, <1>2, <2>1, <2>3, QueueAway
<1>7. ASSUME NEW j \in Jobs, NEW op \in {"add", "remove"}, NEW w \in Events, Queue(j, op, w), Away(w)',
             op = "add" => ~Retracted(w)' /\ (w.type \in Gathered => Retracted(w))
      PROVE  Away(w)
  <2>1. \A i \in Jobs : /\ Busy(i)' <=> Busy(i)
                        /\ OpenFor(i, "add", w)' <=> OpenFor(i, "add", w) \/ (i = j /\ op = "add")
                        /\ OpenFor(i, "remove", w)' <=> OpenFor(i, "remove", w) \/ (i = j /\ op = "remove")
                        /\ QueuedFor(i, "add", w)' <=> QueuedFor(i, "add", w) \/ (i = j /\ op = "add")
                        /\ SweepsFor(i, w)' <=> SweepsFor(i, w)
    BY <1>7, QueueOpen
  <2>2. ~(Retracted(w)' /\ ~Opened(w)')
    BY <1>7, <2>1 DEF Opened
  <2>3. ASSUME w.type \in Gathered, NEW i \in Jobs, QueuedFor(i, "add", w)',
               \A k \in Jobs : k # i => ~OpenFor(k, "add", w)' /\ ~OpenFor(k, "remove", w)'
        PROVE  Away(w)
    <3>1. i = j /\ op = "add"
      <4>1. ~QueuedFor(j, "add", w)
        BY <1>7, QueueTo DEF QueuedFor, At, Is
      <4>2. OpenFor(j, "add", w)' \/ OpenFor(j, "remove", w)'
        BY <1>7, <2>1
      <4>. QED  BY <2>1, <2>3, <4>1, <4>2
    <3>2. ~OpenFor(j, "add", w) /\ ~OpenFor(j, "remove", w)
      BY <1>7, QueueTo DEF OpenFor, Is
    <3>3. ~Opened(w)
      BY <2>1, <2>3, <3>1, <3>2 DEF Opened
    <3>. QED  BY <1>7, <2>3, <3>1, <3>3 DEF Away
  <2>4. ASSUME w.type \in Gathered, NEW i \in Jobs, OpenFor(i, "add", w)', Busy(i)' PROVE Away(w)
    <3>1. Busy(i) /\ i # j
      BY <1>7, <2>1, <2>4, QueueTo DEF Busy
    <3>. QED  BY <2>1, <2>4, <3>1 DEF Away
  <2>. QED  BY <1>7, <2>1, <2>2, <2>3, <2>4 DEF Away
<1>8. ASSUME NEW j \in Jobs, NEW w \in Events, Queue(j, "add", w), Gains(w),
             \A v \in Events : v # w => RowsLose(v)
      PROVE  AwayInv'
  BY <1>3, <1>6, <1>7, <1>8, AnnouncedBack
<1>9. ASSUME NEW j \in Jobs, NEW w \in Events, Queue(j, "remove", w), \A v \in Events : v # w => RowsLose(v)
      PROVE  AwayInv'
  BY <1>6, <1>7, <1>9
<1>. QED  BY <1>1, <1>5, <1>8, <1>9

LEMMA ViewAway == ASSUME IInv, JobInv, AwayInv, NEW j \in Jobs, View(j) PROVE AwayInv'
<1>1. PICK x \in All : Queue(j, "clear", x)
  BY ViewQueues
<1>2. UNCHANGED <<box, rows, clock, history>>
  BY ViewQueues
<1>3. IInv'
  BY ViewInv
<1>4. \A i \in Jobs : /\ Busy(i)' <=> Busy(i)
                      /\ Busy(i) => job'[i] = job[i]
                      /\ \A v \in Events :
                           /\ OpenFor(i, "add", v)' <=> OpenFor(i, "add", v)
                           /\ OpenFor(i, "remove", v)' <=> OpenFor(i, "remove", v)
                           /\ QueuedFor(i, "add", v)' <=> QueuedFor(i, "add", v)
                           /\ SweepsFor(i, v)' <=> SweepsFor(i, v)
  BY <1>1, QueueOpen
<1>5. \A v \in Events : Retracted(v)' <=> Retracted(v)
  <2>1. /\ job[j] = NoJob /\ job'[j] # NoJob /\ job'[j].op = "clear"
        /\ \A i \in Jobs : i # j => job'[i] = job[i]
    BY <1>1, QueueTo
  <2>2. \A v : JobsFor(v, "add")' = JobsFor(v, "add") /\ JobsFor(v, "remove")' = JobsFor(v, "remove")
    BY <2>1 DEF JobsFor, Is
  <2>. QED  BY <1>2, <2>2 DEF Retracted, Here, NA, NR, rows
<1>6. \A v \in Events : Away(v)' => Away(v)
  BY <1>4, <1>5 DEF Away, Opened
<1>7. horizon \in Int
  BY SomeDays DEF IInv, RestOK, ClockOK, Days
<1>. QED  BY <1>2, <1>3, <1>4, <1>6, <1>7, QueueAway DEF clock, history

LEMMA StepAway ==
    ASSUME IInv, KeepInv, JobInv, SinceInv, AwayInv, TypesDoNotMix, Next PROVE AwayInv' /\ SinceInv'
<1>1. IInv' /\ JobsCarry
  BY StepInv
<1>2. ASSUME NEW j \in Jobs, Add(j) \/ Remove(j) \/ ClearTweet(j) \/ ClearUser(j) \/ Fail(j)
      PROVE  AwayInv' /\ SinceInv'
  BY <1>1, <1>2, ActMoves, ActAway, SinceMoved
<1>3. horizon \in Int
  BY SomeDays DEF IInv, RestOK, ClockOK, Days
<1>4. ASSUME NEW j \in Jobs, View(j) PROVE AwayInv' /\ SinceInv'
  <2>1. PICK x \in All : Queue(j, "clear", x)
    BY <1>4, ViewQueues
  <2>2. horizon' = horizon
    BY <1>4, ViewQueues DEF clock
  <2>. QED  BY <1>4, <2>1, <2>2, ViewAway, QueueOpen DEF SinceInv
<1>5. CASE Happens
  <2>1. horizon' >= horizon
    BY <1>5, HappensRows DEF JobInv
  <2>2. \A i \in Jobs : (Busy(i)' => Busy(i)) /\ (Busy(i) => job'[i] = job[i])
    <3>1. CASE job' = job
      BY <3>1 DEF Busy
    <3>2. ASSUME NEW j \in Jobs, NEW w \in Events, Queue(j, "add", w) \/ Queue(j, "remove", w)
          PROVE  \A i \in Jobs : (Busy(i)' => Busy(i)) /\ (Busy(i) => job'[i] = job[i])
      BY <3>2, QueueOpen
    <3>. QED  BY <1>5, <3>1, <3>2, HappensRows DEF JobInv
  <2>3. SinceInv'
    <3>. SUFFICES ASSUME NEW i \in Jobs, Busy(i)' PROVE job'[i].since <= horizon'
      BY DEF SinceInv
    <3>1. Busy(i) /\ job'[i] = job[i]
      BY <2>2
    <3>2. job[i].since \in Int /\ job[i].since <= horizon /\ horizon' \in Int
      BY <1>1, <3>1, SomeDays DEF SinceInv, Busy, IInv, JobsOK, JobStates, Days, RestOK, ClockOK
    <3>. QED  BY <1>3, <2>1, <3>1, <3>2
  <2>. QED  BY <1>5, <2>3, HappensAway
<1>. QED  BY <1>2, <1>4, <1>5 DEF Next

\* What is named was announced.
LEMMA NamesNamed == ASSUME NEW v PROVE Named(v) <=> \E e \in box : Names(e, v)
BY DEF Named, Names

LEMMA StepPosted == ASSUME IInv, KeepInv, PostedInv, JobInv, Next PROVE PostedInv'
<1>1. IInv' /\ JobsCarry
  BY StepInv
<1>2. ASSUME NEW v \in Events, JobsFor(v, "add") # {} PROVE JobsFor(v, "add")' # {}
  BY <1>1, <1>2 DEF JobsFor, Is, JobsCarry, Carries
<1>3. CASE box' = box
  BY <1>2, <1>3 DEF PostedInv, Named
<1>4. ASSUME NEW j \in Jobs, Add(j) \/ Remove(j) \/ ClearTweet(j) \/ ClearUser(j) \/ Fail(j)
      PROVE  PostedInv'
  <2>. SUFFICES ASSUME NEW v \in Events, Named(v)' PROVE JobsFor(v, "add")' # {}
    BY DEF PostedInv
  <2>1. Moves(j)
    BY <1>4, ActMoves
  <2>2. CASE JoinTweet(j) \/ JoinPerson(j) \/ Push(j)
    <3>1. CASE v = job[j].what
      <4>1. j \in JobsFor(v, "add")
        BY <2>2, <3>1, Zenon DEF JoinTweet, JoinPerson, Push, At, Is, JobsFor
      <4>. QED  BY <1>2, <4>1
    <3>2. CASE v # job[j].what
      <4>1. EffectFor(v)
        BY <1>1, <2>1, <2>2, <3>2, AddEffect
      <4>. QED  BY <1>2, <4>1 DEF EffectFor, PostedInv, Named, Names
    <3>. QED  BY <3>1, <3>2
  <2>3. CASE ~(JoinTweet(j) \/ JoinPerson(j) \/ Push(j))
    <3>1. EffectFor(v)
      BY <1>1, <1>4, <2>1, <2>3, QuietFades, FadesEffect DEF Add, Remove
    <3>. QED  BY <1>2, <3>1 DEF EffectFor, PostedInv, Named, Names
  <2>. QED  BY <2>2, <2>3
<1>5. Happens \/ (\E j \in Jobs : View(j)) => box' = box
  BY HappensRows, ViewQueues DEF JobInv
<1>. QED  BY <1>3, <1>4, <1>5 DEF Next

LEMMA QuietGone == ASSUME IInv, JobInv, AwayInv, PostedInv PROVE GoneWhenQuiet
<1>. SUFFICES ASSUME NEW v \in Events \ facts, v.type \notin clashed, Settled(v), horizon = 0,
                     {v.tweet, v.actor} \cap gone = {},
                     Cardinality(JobsFor(v, "add")) = Cardinality(JobsFor(v, "remove")), Named(v)
              PROVE  FALSE
  BY DEF GoneWhenQuiet
<1>1. NA(v) = NR(v) /\ NA(v) \in Nat /\ NR(v) \in Nat /\ Here(v)
  BY CountTyped DEF NA, NR, JobInv, Here
<1>2. JobsFor(v, "add") # {}
  BY DEF PostedInv
<1>3. JobsFor(v, "remove") # {}
  <2>1. IsFiniteSet(JobsFor(v, "add"))
    BY CountTyped DEF JobInv
  <2>2. NA(v) # 0
    BY <1>2, <2>1, FS_EmptySet DEF NA
  <2>. QED  BY <1>1, <2>2, FS_EmptySet DEF NR
<1>4. Retracted(v)
  BY <1>1, <1>3 DEF Retracted
<1>5. ~Opened(v)
  BY DEF Settled, Opened, OpenFor, Is, Ended, Writing
<1>6. Unseen(v)
  BY <1>4, <1>5 DEF AwayInv, Away
<1>7. PICK e \in box : Names(e, v)
  BY NamesNamed
<1>8. e.day \in 0..MaxDay
  BY DEF IInv, BoxOK, Entries, Days
<1>9. Seen(e)
  BY <1>8, SomeDays DEF Seen
<1>. QED  BY <1>6, <1>7, <1>9 DEF Unseen

-----------------------------------------------------------------------------
(* Where an entry comes from.                                              *)

\* A like or a repost is about a tweet.
LEMMA GatheredRefers ==
    ASSUME NEW w \in Events, w.type \in Gathered
    PROVE  Key(w) = w.tweet /\ Refers(w) = {w.tweet} /\ w.tweet \in Tweets
<1>1. w.type \notin Singles /\ w.type \notin {"FOLLOW", "MENTION"}
  BY DEF Gathered, Singles
<1>. QED  BY <1>1, EventsTyped, EventsRefer DEF Key, Refers

\* What is queued leaves the running jobs alone.
LEMMA QuietQueues ==
    ASSUME IInv, JobInv, Happens \/ \E j \in Jobs : View(j)
    PROVE  \A i \in Jobs : (Busy(i)' => Busy(i)) /\ (Busy(i) => job'[i] = job[i])
<1>1. CASE job' = job
  BY <1>1 DEF Busy
<1>2. ASSUME NEW j \in Jobs, NEW op \in {"add", "remove", "clear"}, NEW w \in Events \cup All, Queue(j, op, w)
      PROVE  \A i \in Jobs : (Busy(i)' => Busy(i)) /\ (Busy(i) => job'[i] = job[i])
  BY <1>2, QueueOpen
<1>. QED  BY <1>1, <1>2, HappensRows, ViewQueues DEF JobInv

\* Clear jobs do not count.
LEMMA ClearCounts ==
    ASSUME IInv, NEW j \in Jobs, NEW x \in All, Queue(j, "clear", x)
    PROVE  \A v : NA(v)' = NA(v) /\ NR(v)' = NR(v)
<1>1. /\ job[j] = NoJob /\ job'[j] # NoJob /\ job'[j].op = "clear"
      /\ \A i \in Jobs : i # j => job'[i] = job[i]
  BY QueueTo
<1>2. \A v : JobsFor(v, "add")' = JobsFor(v, "add") /\ JobsFor(v, "remove")' = JobsFor(v, "remove")
  BY <1>1 DEF JobsFor, Is
<1>. QED  BY <1>2 DEF NA, NR

LEMMA StepTweets == ASSUME IInv, KeepInv, TweetsInv, JobInv, Next PROVE TweetsInv'
<1>1. IInv' /\ JobsCarry
  BY StepInv
<1>2. CASE box' = box
  BY <1>2 DEF TweetsInv
<1>3. ASSUME NEW j \in Jobs, Add(j) \/ Remove(j) \/ ClearTweet(j) \/ ClearUser(j) \/ Fail(j)
      PROVE  TweetsInv'
  <2>. SUFFICES ASSUME NEW f \in box', f.type \in Gathered, f \notin box PROVE f.tweets \subseteq Tweets
    BY DEF TweetsInv
  <2>. DEFINE w == job[j].what
  <2>1. CASE JoinTweet(j)
    BY <2>1, JoinTweetEntries DEF TweetsInv
  <2>2. CASE JoinPerson(j) \/ Push(j)
    <3>1. w \in Events
      BY <2>2, WhatTyped, Zenon DEF JoinPerson, Push, At, Is
    <3>2. CASE JoinPerson(j)
      <4>1. PICK e \in box : e.type = w.type /\ f.type = e.type /\ f.tweets = e.tweets \cup {w.tweet}
        BY <3>2, JoinPersonEntries
      <4>2. w.tweet \in Tweets
        BY <3>1, <4>1, GatheredRefers
      <4>. QED  BY <4>1, <4>2 DEF TweetsInv
    <3>3. CASE Push(j)
      <4>1. f.type = w.type /\ f.tweets = Refers(w)
        BY <3>3, PushEntries
      <4>. QED  BY <3>1, <4>1, GatheredRefers
    <3>. QED  BY <2>2, <3>2, <3>3
  <2>3. CASE ~(JoinTweet(j) \/ JoinPerson(j) \/ Push(j))
    <3>1. Fades
      BY <1>3, <2>3, QuietFades DEF Add, Remove
    <3>. QED  BY <3>1 DEF Fades, Within, TweetsInv
  <2>. QED  BY <2>1, <2>2, <2>3
<1>4. Happens \/ (\E j \in Jobs : View(j)) => box' = box
  BY HappensRows, ViewQueues DEF JobInv
<1>. QED  BY <1>2, <1>3, <1>4 DEF Next

-----------------------------------------------------------------------------
(* A person and a tweet meet in one entry only.                            *)

\* Every entry comes from one that showed no less.
LEMMA FadesOne ==
    ASSUME IInv, IInv', OneInv, JobsCarry, NEW j \in Jobs, Moves(j), NEW G,
           \A f \in box' : \E e \in box : f = G[e],
           \A e \in box : Within(G[e], e) /\ (G[e].day = e.day \/ Seen(e))
    PROVE  OneInv'
<1>. SUFFICES ASSUME NEW f \in box', NEW g \in box', Quiets(f.type)', g.type = f.type,
                     Seen(f)', Seen(g)', Overlap(f, g)
              PROVE  f = g
  BY DEF OneInv
<1>1. Quiets(f.type)
  BY DEF Quiets, Moves
<1>2. PICK d, e \in box : f = G[d] /\ g = G[e]
  OBVIOUS
<1>3. Within(f, d) /\ Within(g, e) /\ (f.day = d.day \/ Seen(d)) /\ (g.day = e.day \/ Seen(e))
  BY <1>2
<1>4. Seen(f) /\ Seen(g)
  BY SeenMoved DEF IInv, BoxOK
<1>5. Seen(d) /\ Seen(e)
  BY <1>3, <1>4 DEF Seen, Within
<1>6. Overlap(d, e) /\ d.type = f.type /\ e.type = f.type
  BY <1>3 DEF Within, Overlap
<1>. QED  BY <1>1, <1>2, <1>5, <1>6 DEF OneInv

LEMMA DropOne ==
    ASSUME IInv, IInv', OneInv, JobsCarry, NEW j \in Jobs, Moves(j), box' \subseteq box
    PROVE  OneInv'
<1>. DEFINE G == [e \in box |-> e]
<1>1. \A f \in box' : \E e \in box : f = G[e]
  OBVIOUS
<1>2. \A e \in box : Within(G[e], e) /\ (G[e].day = e.day \/ Seen(e))
  BY DEF Within
<1>. HIDE DEF G
<1>. QED  BY <1>1, <1>2, FadesOne

LEMMA PullActorOne ==
    ASSUME IInv, IInv', OneInv, JobsCarry, NEW j \in Jobs, Moves(j), PullActor(j)
    PROVE  OneInv'
<1>. DEFINE old == {e \in Mine(j, box) : job[j].what.tweet \in e.tweets}
            H(e) == [e EXCEPT !.actors = e.actors \ {job[j].what.actor}, !.day = job[j].day]
            G == [e \in box |-> IF e \in old THEN H(e) ELSE e]
<1>1. box' = (box \ old) \cup {H(e) : e \in old}
  BY Zenon DEF PullActor
<1>2. Busy(j)
  BY Zenon DEF PullActor, At, Is, Busy, Writing
<1>3. \A e \in old : e \in box /\ Seen(e)
  BY <1>2, MineSeen
<1>4. \A e \in box : Within(H(e), e) /\ Within(e, e)
  BY DEF IInv, BoxOK, Entries, Within
<1>. HIDE DEF old, H
<1>5. \A f \in box' : \E e \in box : f = G[e]
  BY <1>1, <1>3
<1>6. \A e \in box : Within(G[e], e) /\ (G[e].day = e.day \/ Seen(e))
  BY <1>3, <1>4
<1>. HIDE DEF G
<1>. QED  BY <1>5, <1>6, FadesOne

LEMMA PullTweetOne ==
    ASSUME IInv, IInv', OneInv, JobsCarry, NEW j \in Jobs, Moves(j), PullTweet(j)
    PROVE  OneInv'
<1>. DEFINE old == {e \in Mine(j, box) : job[j].what.actor \in e.actors}
            H(e) == [e EXCEPT !.tweets = e.tweets \ {job[j].what.tweet}, !.day = job[j].day]
            G == [e \in box |-> IF e \in old THEN H(e) ELSE e]
<1>1. box' = (box \ old) \cup {H(e) : e \in old}
  BY Zenon DEF PullTweet
<1>2. Busy(j)
  BY Zenon DEF PullTweet, At, Is, Busy, Writing
<1>3. \A e \in old : e \in box /\ Seen(e)
  BY <1>2, MineSeen
<1>4. \A e \in box : Within(H(e), e) /\ Within(e, e)
  BY DEF IInv, BoxOK, Entries, Within
<1>. HIDE DEF old, H
<1>5. \A f \in box' : \E e \in box : f = G[e]
  BY <1>1, <1>3
<1>6. \A e \in box : Within(G[e], e) /\ (G[e].day = e.day \/ Seen(e))
  BY <1>3, <1>4
<1>. HIDE DEF G
<1>. QED  BY <1>5, <1>6, FadesOne

LEMMA ClearPullOne ==
    ASSUME IInv, IInv', OneInv, JobsCarry, NEW j \in Jobs, Moves(j), NEW from, NEW type, NEW to,
           ClearPull(j, from, type, to)
    PROVE  OneInv'
<1>. DEFINE H(e) == [e EXCEPT !.actors = e.actors \ {job[j].what}]
            G == [e \in box |-> IF e.type = type THEN H(e) ELSE e]
<1>1. box' = {IF e.type = type THEN H(e) ELSE e : e \in box}
  BY DEF ClearPull
<1>2. \A e \in box : Within(H(e), e) /\ H(e).day = e.day /\ Within(e, e)
  BY DEF IInv, BoxOK, Entries, Within
<1>. HIDE DEF H
<1>3. \A f \in box' : \E e \in box : f = G[e]
  BY <1>1
<1>4. \A e \in box : Within(G[e], e) /\ (G[e].day = e.day \/ Seen(e))
  BY <1>2
<1>. HIDE DEF G
<1>. QED  BY <1>3, <1>4, FadesOne

\* A like or a repost that is being added is away, so that no entry in sight
\* names it.
LEMMA AddUnseen ==
    ASSUME IInv, AwayInv, NEW j \in Jobs, Is(j, "add"), Busy(j), Quiets(job[j].what.type)
    PROVE  Unseen(job[j].what)
<1>1. job[j].what \in Events
  BY WhatTyped DEF Is
<1>2. OpenFor(j, "add", job[j].what)
  BY DEF OpenFor, Busy
<1>3. Away(job[j].what)
  BY <1>2 DEF Away, Quiets
<1>. QED  BY <1>1, <1>3 DEF AwayInv, Quiets

LEMMA JoinOne ==
    ASSUME IInv, IInv', OneInv, AwayInv, JobsCarry, NEW j \in Jobs, Moves(j), Is(j, "add"), Busy(j),
           NEW d \in Mine(j, box), NEW g, box' = (box \ {d}) \cup {g},
           g.type = job[j].what.type,
           \A t \in g.tweets, u \in g.actors :
               \/ t \in d.tweets /\ u \in d.actors
               \/ t = job[j].what.tweet /\ u = job[j].what.actor
    PROVE  OneInv'
<1>. DEFINE w == job[j].what
<1>0. w \in Events
  BY WhatTyped DEF Is
<1>1. d \in box /\ Seen(d) /\ d.type = w.type
  BY MineSeen
<1>2. \A f \in box' : Seen(f)' => Seen(f)
  BY SeenMoved DEF IInv, BoxOK
<1>3. \A type : Quiets(type)' => Quiets(type)
  BY DEF Quiets, Moves
<1>4. ASSUME NEW f \in box, f # d, f.type = w.type, Quiets(w.type), Seen(f), Overlap(g, f) PROVE FALSE
  <2>1. PICK t \in g.tweets \cap f.tweets, u \in g.actors \cap f.actors : TRUE
    BY <1>4 DEF Overlap
  <2>2. CASE t \in d.tweets /\ u \in d.actors
    BY <1>1, <1>4, <2>1, <2>2 DEF OneInv, Overlap
  <2>3. CASE t = w.tweet /\ u = w.actor
    <3>1. Names(f, w)
      BY <1>0, <1>4, <2>1, <2>3, GatheredRefers DEF Names, Quiets
    <3>. QED  BY <1>4, <3>1, AddUnseen DEF Unseen
  <2>. QED  BY <2>1, <2>2, <2>3
<1>5. \A e, f : Overlap(e, f) <=> Overlap(f, e)
  BY DEF Overlap
<1>. SUFFICES ASSUME NEW e \in box', NEW f \in box', Quiets(e.type)', f.type = e.type,
                     Seen(e)', Seen(f)', Overlap(e, f), e # f
              PROVE  FALSE
  BY DEF OneInv
<1>6. CASE e \in box /\ f \in box
  BY <1>2, <1>3, <1>6 DEF OneInv
<1>7. CASE e = g
  <2>1. f \in box /\ f # d
    BY <1>7
  <2>. QED  BY <1>2, <1>3, <1>4, <1>7, <2>1
<1>8. CASE f = g
  <2>1. e \in box /\ e # d
    BY <1>8
  <2>. QED  BY <1>2, <1>3, <1>4, <1>5, <1>8, <2>1
<1>. QED  BY <1>6, <1>7, <1>8

\* What a job does to a type that is not quiet, or to none.
LEMMA OtherOne ==
    ASSUME IInv, IInv', OneInv, JobsCarry, NEW j \in Jobs, Moves(j),
           \A f \in box' : f \in box \/ ~Quiets(f.type)'
    PROVE  OneInv'
<1>2. \A f \in box' : Seen(f)' => Seen(f)
  BY SeenMoved DEF IInv, BoxOK
<1>3. \A type : Quiets(type)' => Quiets(type)
  BY DEF Quiets, Moves
<1>. QED  BY <1>2, <1>3 DEF OneInv

LEMMA PushOne ==
    ASSUME IInv, IInv', OneInv, AwayInv, JobsCarry, NEW j \in Jobs, Moves(j), Push(j)
    PROVE  OneInv'
<1>. DEFINE w == job[j].what
<1>0. Is(j, "add") /\ Busy(j) /\ w \in Events
  BY WhatTyped DEF Push, At, Is, Busy, Writing
<1>2. \A f \in box' : Seen(f)' => Seen(f)
  BY SeenMoved DEF IInv, BoxOK
<1>3. \A type : Quiets(type)' => Quiets(type)
  BY DEF Quiets, Moves
<1>. DEFINE g == [type |-> w.type, tweets |-> Refers(w), actors |-> {w.actor}, day |-> job[j].day]
<1>4. box' \subseteq box \cup {g} /\ g.type = w.type /\ g.tweets = Refers(w) /\ g.actors = {w.actor}
  BY DEF Push
<1>. HIDE DEF g
<1>5. ASSUME NEW f \in box, Quiets(w.type), f.type = w.type, Seen(f), Overlap(g, f) PROVE FALSE
  <2>1. Names(f, w)
    BY <1>0, <1>4, <1>5, GatheredRefers DEF Names, Overlap, Quiets
  <2>. QED  BY <1>0, <1>5, <2>1, AddUnseen DEF Unseen
<1>6. \A e, f : Overlap(e, f) <=> Overlap(f, e)
  BY DEF Overlap
<1>. SUFFICES ASSUME NEW e \in box', NEW f \in box', Quiets(e.type)', f.type = e.type,
                     Seen(e)', Seen(f)', Overlap(e, f), e # f
              PROVE  FALSE
  BY DEF OneInv
<1>7. CASE e \in box /\ f \in box
  BY <1>2, <1>3, <1>7 DEF OneInv
<1>8. CASE e = g
  BY <1>2, <1>3, <1>4, <1>5, <1>8
<1>9. CASE f = g
  BY <1>2, <1>3, <1>4, <1>5, <1>6, <1>9
<1>. QED  BY <1>4, <1>7, <1>8, <1>9

LEMMA JoinTweetOne ==
    ASSUME IInv, IInv', OneInv, AwayInv, SinceInv, JobsCarry, NEW j \in Jobs, Moves(j), JoinTweet(j)
    PROVE  OneInv'
<1>. DEFINE w == job[j].what
            old == OfTweet(Mine(j, box), w.tweet)
            H(e) == [e EXCEPT !.actors = e.actors \cup {w.actor}, !.day = today]
<1>0. Is(j, "add") /\ Busy(j)
  BY Zenon DEF JoinTweet, At, Is, Busy, Writing
<1>1. /\ box' = (box \ old) \cup {H(e) : e \in old}
      /\ \/ old = {} /\ box' = box
         \/ \E e \in old : old = {e}
         \/ w.type \in scattered'
  BY JoinTweetDoes, Zenon
<1>2. CASE box' = box
  BY <1>2, OtherOne
<1>3. CASE w.type \in scattered'
  <2>1. \A f \in box' : f \in box \/ f.type = w.type
    BY JoinTweetEntries
  <2>. QED  BY <1>3, <2>1, OtherOne DEF Quiets
<1>4. ASSUME NEW d \in old, old = {d} PROVE OneInv'
  <2>1. d \in Mine(j, box)
    BY DEF OfTweet
  <2>2. /\ H(d).type = w.type /\ H(d).tweets = {w.tweet} /\ d.tweets = {w.tweet}
        /\ H(d).actors = d.actors \cup {w.actor}
    BY <1>0, JoinTweetFinds, Zenon DEF OfTweet
  <2>3. box' = (box \ {d}) \cup {H(d)}
    BY <1>1, <1>4
  <2>. HIDE DEF H, old
  <2>. QED  BY <1>0, <2>1, <2>2, <2>3, JoinOne
<1>. QED  BY <1>1, <1>2, <1>3, <1>4, Zenon

LEMMA JoinPersonOne ==
    ASSUME IInv, IInv', OneInv, AwayInv, SinceInv, JobsCarry, NEW j \in Jobs, Moves(j), JoinPerson(j)
    PROVE  OneInv'
<1>. DEFINE w == job[j].what
            old == OfPerson(Mine(j, box), w.actor)
            H(e) == [e EXCEPT !.tweets = e.tweets \cup {w.tweet}, !.day = today]
<1>0. Is(j, "add") /\ Busy(j)
  BY Zenon DEF JoinPerson, At, Is, Busy, Writing
<1>1. /\ box' = (box \ old) \cup {H(e) : e \in old}
      /\ \/ old = {} /\ box' = box
         \/ \E e \in old : old = {e}
         \/ w.type \in scattered'
  BY JoinPersonDoes, Zenon
<1>2. CASE box' = box
  BY <1>2, OtherOne
<1>3. CASE w.type \in scattered'
  <2>1. \A f \in box' : f \in box \/ f.type = w.type
    BY JoinPersonEntries
  <2>. QED  BY <1>3, <2>1, OtherOne DEF Quiets
<1>4. ASSUME NEW d \in old, old = {d} PROVE OneInv'
  <2>1. d \in Mine(j, box)
    BY DEF OfPerson
  <2>2. /\ H(d).type = w.type /\ H(d).actors = {w.actor} /\ d.actors = {w.actor}
        /\ H(d).tweets = d.tweets \cup {w.tweet}
    BY <1>0, JoinPersonFinds, Zenon DEF OfPerson
  <2>3. box' = (box \ {d}) \cup {H(d)}
    BY <1>1, <1>4
  <2>. HIDE DEF H, old
  <2>. QED  BY <1>0, <2>1, <2>2, <2>3, JoinOne
<1>. QED  BY <1>1, <1>2, <1>3, <1>4, Zenon

LEMMA StepOne == ASSUME IInv, JobInv, SinceInv, AwayInv, OneInv, Next PROVE OneInv'
<1>1. IInv' /\ JobsCarry
  BY StepInv
<1>2. ASSUME NEW j \in Jobs, Add(j) \/ Remove(j) \/ ClearTweet(j) \/ ClearUser(j) \/ Fail(j) PROVE OneInv'
  <2>1. Moves(j)
    BY <1>2, ActMoves
  <2>2. CASE \/ Skip(j) \/ ReadAdd(j) \/ Send(j) \/ ReadRemove(j) \/ Fail(j) \/ PullEntry(j) \/ Sweep(j)
             \/ ClearTweet(j) \/ ClearSingle(j) \/ ClearSweep(j)
    <3>1. box' \subseteq box
      BY <2>2 DEF Skip, ReadAdd, Send, ReadRemove, Fail, PullEntry, Sweep, ClearTweet, ClearSingle, ClearSweep
    <3>. QED  BY <1>1, <2>1, <3>1, DropOne
  <2>3. CASE JoinTweet(j) \/ JoinPerson(j) \/ Push(j)
    BY <1>1, <2>1, <2>3, JoinTweetOne, JoinPersonOne, PushOne
  <2>4. CASE PullActor(j) \/ PullTweet(j)
    BY <1>1, <2>1, <2>4, PullActorOne, PullTweetOne
  <2>5. CASE ClearUser(j)
    BY <1>1, <2>1, <2>2, <2>5, ClearPullOne DEF ClearUser
  <2>. QED  BY <1>2, <2>2, <2>3, <2>4, <2>5 DEF Add, Remove
<1>3. ASSUME Happens \/ (\E j \in Jobs : View(j)) PROVE OneInv'
  <2>1. box' = box /\ clashed' = clashed /\ scattered' = scattered /\ horizon' >= horizon
    <3>1. horizon \in Int
      BY SomeDays DEF IInv, RestOK, ClockOK, Days
    <3>. QED  BY <1>3, <3>1, HappensRows, ViewQueues DEF JobInv, clock, history
  <2>2. \A i \in Jobs : (Busy(i)' => Busy(i)) /\ (Busy(i) => job'[i] = job[i])
    BY <1>3, QuietQueues
  <2>3. horizon' \in Int
    BY <1>1, SomeDays DEF IInv, RestOK, ClockOK, Days
  <2>4. \A f \in box : Seen(f)' => Seen(f)
    BY <2>1, <2>2, <2>3, SeenQueued DEF IInv, BoxOK
  <2>. QED  BY <2>1, <2>4 DEF OneInv, Quiets
<1>. QED  BY <1>2, <1>3 DEF Next

-----------------------------------------------------------------------------
(* What a removal found is still what it will match.                       *)

\* An entry of this type shows no more than one that was as recent.
Local(type) == \A f \in box' : f.type = type =>
    f \in box \/ \E e \in box : Within(f, e) /\ e.day = f.day

LEMMA OthersLocal ==
    ASSUME IInv, NEW j \in Jobs, Add(j) \/ Remove(j) \/ ClearTweet(j) \/ ClearUser(j) \/ Fail(j),
           NEW type, Busy(j) => job[j].what.type # type
    PROVE  Local(type)
<1>b. box \subseteq Entries
  BY DEF IInv, BoxOK
<1>1. CASE \/ Skip(j) \/ ReadAdd(j) \/ Send(j) \/ ReadRemove(j) \/ Fail(j) \/ PullEntry(j) \/ Sweep(j)
           \/ ClearTweet(j) \/ ClearSingle(j) \/ ClearSweep(j)
  <2>1. box' \subseteq box
    BY <1>1 DEF Skip, ReadAdd, Send, ReadRemove, Fail, PullEntry, Sweep, ClearTweet, ClearSingle, ClearSweep
  <2>. QED  BY <2>1 DEF Local
<1>2. CASE JoinTweet(j) \/ JoinPerson(j) \/ Push(j)
  <2>1. Busy(j)
    BY <1>2, Zenon DEF JoinTweet, JoinPerson, Push, At, Is, Busy, Writing
  <2>2. \A f \in box' : f \in box \/ f.type = job[j].what.type
    BY <1>2, JoinTweetEntries, JoinPersonEntries, PushEntries
  <2>. QED  BY <2>1, <2>2 DEF Local
<1>3. CASE PullActor(j)
  <2>1. Busy(j)
    BY <1>3, Zenon DEF PullActor, At, Is, Busy, Writing
  <2>2. ASSUME NEW f \in box' PROVE f \in box \/ f.type = job[j].what.type
    <3>1. \/ f \in box
          \/ \E e \in Mine(j, box) :
                f = [e EXCEPT !.actors = e.actors \ {job[j].what.actor}, !.day = job[j].day]
      BY <1>3, Zenon DEF PullActor
    <3>. QED  BY <1>b, <3>1, Zenon DEF Mine, Recent, Entries
  <2>. QED  BY <2>1, <2>2 DEF Local
<1>4. CASE PullTweet(j)
  <2>1. Busy(j)
    BY <1>4, Zenon DEF PullTweet, At, Is, Busy, Writing
  <2>2. ASSUME NEW f \in box' PROVE f \in box \/ f.type = job[j].what.type
    <3>1. \/ f \in box
          \/ \E e \in Mine(j, box) :
                f = [e EXCEPT !.tweets = e.tweets \ {job[j].what.tweet}, !.day = job[j].day]
      BY <1>4, Zenon DEF PullTweet
    <3>. QED  BY <1>b, <3>1, Zenon DEF Mine, Recent, Entries
  <2>. QED  BY <2>1, <2>2 DEF Local
<1>5. ASSUME NEW from, NEW kind, NEW to, ClearPull(j, from, kind, to) PROVE Local(type)
  <2>1. ASSUME NEW f \in box' PROVE \E e \in box : Within(f, e) /\ e.day = f.day
    <3>1. PICK e \in box : f = IF e.type = kind THEN [e EXCEPT !.actors = e.actors \ {job[j].what}] ELSE e
      BY <1>5 DEF ClearPull
    <3>2. Within(f, e) /\ f.day = e.day
      BY <1>b, <3>1 DEF Within, Entries
    <3>. QED  BY <3>2
  <2>. QED  BY <2>1 DEF Local
<1>. QED  BY <1>1, <1>2, <1>3, <1>4, <1>5 DEF Add, Remove, ClearUser

\* What a removal decides on fits the only entry that it can find.
LEMMA ReadPulls ==
    ASSUME IInv, OneInv, NEW j \in Jobs, ReadRemove(j), Quiets(job[j].what.type),
           NEW e \in Naming(Recent(box, job[j].what.type, horizon), job[j].what.tweet, job[j].what.actor)
    PROVE  /\ job'[j].at \in {"pullEntry", "pullActor"} => e.tweets = {job[j].what.tweet}
           /\ job'[j].at \in {"pullEntry", "pullTweet"} => e.actors = {job[j].what.actor}
<1>. DEFINE v == job[j].what
            S == {f \in Naming(Recent(box, v.type, horizon), Key(v), v.actor) : ~Misdirected(v)}
<1>1. job[j] # NoJob /\ v \in Events
  BY WhatTyped DEF ReadRemove, At, Is
<1>2. Key(v) = v.tweet /\ v.type \in Gathered
  BY <1>1, GatheredRefers DEF Quiets
<1>3. \/ Reads(j, "done")
      \/ \E d \in S : Reads(j, PullFrom(v.type, d))
  BY DEF ReadRemove
<1>4. ASSUME NEW d \in S, Reads(j, PullFrom(v.type, d))
      PROVE  /\ job'[j].at \in {"pullEntry", "pullActor"} => e.tweets = {v.tweet}
             /\ job'[j].at \in {"pullEntry", "pullTweet"} => e.actors = {v.actor}
  <2>1. job'[j].at = PullFrom(v.type, d)
    BY <1>1, <1>4, ReadsTo
  <2>2. /\ d \in box /\ d.type = v.type /\ v.tweet \in d.tweets /\ v.actor \in d.actors /\ Seen(d)
        /\ e \in box /\ e.type = v.type /\ v.tweet \in e.tweets /\ v.actor \in e.actors /\ Seen(e)
    BY <1>2 DEF Naming, Recent, Seen
  <2>3. e = d
    BY <2>2 DEF OneInv, Overlap
  <2>4. v.type # "FOLLOW" /\ v.type \notin Singles
    BY <1>2 DEF Gathered, Singles
  <2>5. /\ PullFrom(v.type, d) \in {"pullEntry", "pullActor"} => \E t \in d.tweets : d.tweets = {t}
        /\ PullFrom(v.type, d) \in {"pullEntry", "pullTweet"} => \E u \in d.actors : d.actors = {u}
    BY <2>4 DEF PullFrom
  <2>. QED  BY <2>1, <2>2, <2>3, <2>5
<1>5. CASE Reads(j, "done")
  BY <1>1, <1>5, ReadsTo
<1>. QED  BY <1>3, <1>4, <1>5

LEMMA StepPull == ASSUME IInv, JobInv, OneInv, PullInv, Next PROVE PullInv'
<1>1. IInv' /\ JobsCarry
  BY StepInv
<1>2. ASSUME NEW j \in Jobs, Add(j) \/ Remove(j) \/ ClearTweet(j) \/ ClearUser(j) \/ Fail(j) PROVE PullInv'
  <2>1. Moves(j)
    BY <1>2, ActMoves
  <2>. SUFFICES ASSUME NEW i \in Jobs, Is(i, "remove")', Quiets(job[i].what.type)',
                       job'[i].at \in {"pullEntry", "pullActor", "pullTweet"},
                       NEW f \in Naming(Mine(i, box), job[i].what.tweet, job[i].what.actor)'
                PROVE  /\ job'[i].at \in {"pullEntry", "pullActor"} => f.tweets = {job'[i].what.tweet}
                       /\ job'[i].at \in {"pullEntry", "pullTweet"} => f.actors = {job'[i].what.actor}
    BY DEF PullInv
  <2>2. /\ job[i] # NoJob /\ job[i].op = "remove" /\ job'[i].what = job[i].what
        /\ Quiets(job[i].what.type) /\ job[i].what.type \notin clashed'
    BY <1>1, <2>1 DEF Moves, Others, JobsCarry, Carries, Is, Quiets
  <2>3. f \in box' /\ f.type = job[i].what.type /\ f.day >= job'[i].since
        /\ job[i].what.tweet \in f.tweets /\ job[i].what.actor \in f.actors
    BY <2>2 DEF Naming, Mine, Recent
  <2>4. CASE i = j
    <3>1. job[j].at = "queued" \/ job[j].at \in Writing
      BY <2>1, <2>2, <2>4 DEF Moves, Advances, Writing
    <3>2. ReadRemove(j)
      <4>1. ~Add(j) /\ ~ClearTweet(j) /\ ~ClearUser(j)
        BY <2>2, <2>4, Zenon DEF Add, Skip, ReadAdd, JoinTweet, JoinPerson, Push, Send, At, Is, ClearTweet, ClearUser,
                          ClearPull, ClearSingle, ClearSweep
      <4>2. ~Fail(j)
        <5>1. job'[j].at \notin {"queued", "dead"}
          BY <2>4
        <5>. QED  BY <5>1, FailsTo
      <4>3. ~PullEntry(j) /\ ~PullActor(j) /\ ~PullTweet(j) /\ ~Sweep(j)
        <5>1. ~Goes(j, "sweep") /\ ~Ends(j, "done")
          BY <2>2, <2>4, GoesTo, EndsTo
        <5>. QED  BY <5>1, Zenon DEF PullEntry, PullActor, PullTweet, Sweep
      <4>. QED  BY <1>2, <4>1, <4>2, <4>3 DEF Remove
    <3>3. box' = box /\ job'[j].since = horizon
      <4>1. job[j].at = "queued"
        BY <3>2 DEF ReadRemove, At
      <4>. QED  BY <2>1, <2>2, <2>4, <3>2, <4>1 DEF ReadRemove, Moves, Advances, Writing
    <3>4. f \in Naming(Recent(box, job[j].what.type, horizon), job[j].what.tweet, job[j].what.actor)
      BY <2>3, <2>4, <3>3 DEF Naming, Recent
    <3>. QED  BY <2>2, <2>4, <3>2, <3>4, ReadPulls
  <2>5. CASE i # j
    <3>1. job'[i] = job[i]
      BY <2>1, <2>2, <2>5 DEF Moves, Others
    <3>2. Busy(i)
      BY <2>2, <3>1 DEF Busy, Writing
    <3>3. Busy(j) => job[j].what.type # job[i].what.type
      BY <2>2, <2>5, <3>2 DEF JobInv, SerialInv, Quiets
    <3>4. Local(job[i].what.type)
      BY <1>2, <3>3, OthersLocal
    <3>5. PICK e \in box : (f = e \/ Within(f, e)) /\ e.day = f.day
      BY <2>3, <3>4 DEF Local
    <3>6. e.type = f.type /\ f.tweets \subseteq e.tweets /\ f.actors \subseteq e.actors
      BY <3>5 DEF Within
    <3>7. e \in Naming(Mine(i, box), job[i].what.tweet, job[i].what.actor)
      BY <2>3, <3>1, <3>5, <3>6 DEF Naming, Mine, Recent
    <3>8. /\ job[i].at \in {"pullEntry", "pullActor"} => e.tweets = {job[i].what.tweet}
          /\ job[i].at \in {"pullEntry", "pullTweet"} => e.actors = {job[i].what.actor}
      BY <2>2, <3>7 DEF PullInv, Is
    <3>. QED  BY <2>3, <3>1, <3>6, <3>8
  <2>. QED  BY <2>4, <2>5
<1>3. ASSUME Happens \/ (\E j \in Jobs : View(j)) PROVE PullInv'
  <2>1. box' = box /\ clashed' = clashed /\ scattered' = scattered
    BY <1>3, HappensRows, ViewQueues DEF JobInv, history
  <2>2. \A i \in Jobs : (Busy(i)' => Busy(i)) /\ (Busy(i) => job'[i] = job[i])
    BY <1>3, QuietQueues
  <2>3. ASSUME NEW i \in Jobs, Is(i, "remove")', job'[i].at \in {"pullEntry", "pullActor", "pullTweet"}
        PROVE  job'[i] = job[i]
    BY <2>2, <2>3 DEF Busy, Is, Writing
  <2>. QED  BY <2>1, <2>3 DEF PullInv, Naming, Mine, Recent, Quiets, Is
<1>. QED  BY <1>2, <1>3 DEF Next

-----------------------------------------------------------------------------
(* What has been announced once more than removed stays named.             *)

\* The announcement that is written brings its event into the document.
LEMMA AddNames ==
    ASSUME IInv, SinceInv, NEW j \in Jobs, JoinTweet(j) \/ JoinPerson(j) \/ Push(j),
           NEW w, w = job[j].what, w.type \in Gathered \ scattered', ~cut', job'[j].at = "send"
    PROVE  Named(w)'
<1>1. Busy(j) /\ w \in Events
  BY WhatTyped, Zenon DEF JoinTweet, JoinPerson, Push, At, Is, Busy, Writing
<1>2. Key(w) = w.tweet /\ Refers(w) = {w.tweet}
  BY <1>1, GatheredRefers
<1>3. SUFFICES \E f \in box' : f.type = w.type /\ w.tweet \in f.tweets /\ w.actor \in f.actors
  BY <1>2 DEF Named
<1>4. CASE JoinTweet(j)
  <2>. DEFINE old == OfTweet(Mine(j, box), w.tweet)
              H(e) == [e EXCEPT !.actors = e.actors \cup {w.actor}, !.day = today]
  <2>1. box' = (box \ old) \cup {H(e) : e \in old} /\ \E e \in old : TRUE
    BY <1>4, JoinTweetDoes, Zenon
  <2>2. PICK d \in old : TRUE
    BY <2>1, Zenon
  <2>3. H(d).type = w.type /\ H(d).tweets = {w.tweet} /\ H(d).actors = d.actors \cup {w.actor}
    <3>1. d \in OfTweet(Mine(j, box), job[j].what.tweet)
      OBVIOUS
    <3>2. H(d) = [d EXCEPT !.actors = d.actors \cup {job[j].what.actor}, !.day = today]
      OBVIOUS
    <3>3. /\ [d EXCEPT !.actors = d.actors \cup {job[j].what.actor}, !.day = today].type = job[j].what.type
          /\ [d EXCEPT !.actors = d.actors \cup {job[j].what.actor}, !.day = today].tweets = {job[j].what.tweet}
          /\ [d EXCEPT !.actors = d.actors \cup {job[j].what.actor}, !.day = today].actors =
                  d.actors \cup {job[j].what.actor}
      BY <1>1, <3>1, JoinTweetFinds, Zenon
    <3>. QED  BY <3>2, <3>3
  <2>4. H(d) \in box'
    BY <2>1, Zenon
  <2>. QED  BY <2>3, <2>4
<1>5. CASE JoinPerson(j)
  <2>. DEFINE old == OfPerson(Mine(j, box), w.actor)
              H(e) == [e EXCEPT !.tweets = e.tweets \cup {w.tweet}, !.day = today]
  <2>1. box' = (box \ old) \cup {H(e) : e \in old} /\ \E e \in old : TRUE
    BY <1>5, JoinPersonDoes, Zenon
  <2>2. PICK d \in old : TRUE
    BY <2>1, Zenon
  <2>3. H(d).type = w.type /\ H(d).actors = {w.actor} /\ H(d).tweets = d.tweets \cup {w.tweet}
    <3>1. d \in OfPerson(Mine(j, box), job[j].what.actor)
      OBVIOUS
    <3>2. H(d) = [d EXCEPT !.tweets = d.tweets \cup {job[j].what.tweet}, !.day = today]
      OBVIOUS
    <3>3. /\ [d EXCEPT !.tweets = d.tweets \cup {job[j].what.tweet}, !.day = today].type = job[j].what.type
          /\ [d EXCEPT !.tweets = d.tweets \cup {job[j].what.tweet}, !.day = today].actors = {job[j].what.actor}
          /\ [d EXCEPT !.tweets = d.tweets \cup {job[j].what.tweet}, !.day = today].tweets =
                  d.tweets \cup {job[j].what.tweet}
      BY <1>1, <3>1, JoinPersonFinds, Zenon
    <3>. QED  BY <3>2, <3>3
  <2>4. H(d) \in box'
    BY <2>1, Zenon
  <2>. QED  BY <2>3, <2>4
<1>6. CASE Push(j)
  <2>. DEFINE g == [type |-> w.type, tweets |-> Refers(w), actors |-> {w.actor}, day |-> job[j].day]
  <2>1. box' = box \cup {g}
    BY <1>6 DEF Push
  <2>2. g.type = w.type /\ g.tweets = Refers(w) /\ g.actors = {w.actor} /\ g \in box'
    BY <2>1
  <2>. QED  BY <1>2, <2>2
<1>. QED  BY <1>4, <1>5, <1>6

\* No statement of another event's job takes this event out of the document.
LEMMA NamedStays ==
    ASSUME IInv, KeepInv, TweetsInv, PullInv, JobsCarry, NEW j \in Jobs,
           Add(j) \/ Remove(j) \/ ClearTweet(j) \/ ClearUser(j) \/ Fail(j),
           NEW v \in Events, Quiets(v.type), ~Clearing(Tweets \cup {v.actor})', ~cut',
           ~OpenFor(j, "remove", v), Named(v)
    PROVE  Named(v)'
<1>. DEFINE w == job[j].what
<1>b. box \subseteq Entries
  BY DEF IInv, BoxOK
<1>1. Key(v) = v.tweet /\ v.type \in Gathered
  BY GatheredRefers DEF Quiets
<1>2. PICK e \in box : e.type = v.type /\ v.tweet \in e.tweets /\ v.actor \in e.actors
  BY <1>1 DEF Named
<1>3. SUFFICES \E f \in box' : f.type = v.type /\ v.tweet \in f.tweets /\ v.actor \in f.actors
  BY <1>1 DEF Named
<1>4. SUFFICES ASSUME e \notin box' PROVE \E f \in box' : Within(e, f) \/
                     (f.type = v.type /\ v.tweet \in f.tweets /\ v.actor \in f.actors)
  BY <1>2 DEF Within
<1>5. CASE Skip(j) \/ ReadAdd(j) \/ Send(j) \/ ReadRemove(j) \/ Fail(j)
  BY <1>4, <1>5 DEF Skip, ReadAdd, Send, ReadRemove, Fail
<1>6. CASE JoinTweet(j)
  <2>. DEFINE old == OfTweet(Mine(j, box), w.tweet)
              H(d) == [d EXCEPT !.actors = d.actors \cup {w.actor}, !.day = today]
  <2>1. box' = (box \ old) \cup {H(d) : d \in old}
    BY <1>6, Zenon DEF JoinTweet, Join
  <2>2. Within(e, H(e))
    BY <1>b DEF Within, Entries
  <2>. QED  BY <1>4, <2>1, <2>2, Zenon
<1>7. CASE JoinPerson(j)
  <2>. DEFINE old == OfPerson(Mine(j, box), w.actor)
              H(d) == [d EXCEPT !.tweets = d.tweets \cup {w.tweet}, !.day = today]
  <2>1. box' = (box \ old) \cup {H(d) : d \in old}
    BY <1>7, Zenon DEF JoinPerson, Join
  <2>2. Within(e, H(e))
    BY <1>b DEF Within, Entries
  <2>. QED  BY <1>4, <2>1, <2>2, Zenon
<1>8. CASE Push(j)
  BY <1>4, <1>8 DEF Push
<1>9. ASSUME Is(j, "remove"), job[j].at \in Writing, w.tweet = v.tweet, w.actor = v.actor, w.type = v.type
      PROVE  FALSE
  <2>1. w \in Events
    BY <1>9, WhatTyped DEF Is
  <2>2. Key(w) = w.tweet
    BY <1>1, <1>9, <2>1, GatheredRefers
  <2>3. w = v
    BY <1>1, <1>9, <2>1, <2>2, SameEvent
  <2>. QED  BY <1>9, <2>3 DEF OpenFor
<1>10. ASSUME Is(j, "remove"), job[j].at \in {"pullEntry", "pullActor", "pullTweet"}, e \in Mine(j, box)
       PROVE  /\ job[j].at = "pullActor" => v.actor # w.actor \/ w.tweet \notin e.tweets
              /\ job[j].at = "pullTweet" => v.tweet # w.tweet \/ w.actor \notin e.actors
              /\ job[j].at = "pullEntry" => w.tweet \notin e.tweets \/ w.actor \notin e.actors
  <2>1. w.type = v.type /\ job[j].at \in Writing
    BY <1>2, <1>10 DEF Mine, Recent, Writing
  <2>2. v.tweet # w.tweet \/ v.actor # w.actor
    BY <1>9, <1>10, <2>1
  <2>3. w.tweet \in e.tweets /\ w.actor \in e.actors =>
           /\ job[j].at \in {"pullEntry", "pullActor"} => e.tweets = {w.tweet}
           /\ job[j].at \in {"pullEntry", "pullTweet"} => e.actors = {w.actor}
    BY <1>10, <2>1 DEF PullInv, Naming
  <2>. QED  BY <1>2, <2>2, <2>3
<1>11. CASE PullEntry(j)
  <2>1. Is(j, "remove") /\ job[j].at = "pullEntry" /\ w \in Events
    BY <1>11, WhatTyped DEF PullEntry, At, Is
  <2>2. e \in Mine(j, box) /\ Key(w) \in e.tweets /\ w.actor \in e.actors
    BY <1>4, <1>11 DEF PullEntry, Naming
  <2>3. w.type = v.type
    BY <1>2, <2>2 DEF Mine, Recent
  <2>4. Key(w) = w.tweet
    BY <1>1, <2>1, <2>3, GatheredRefers
  <2>. QED  BY <1>10, <2>1, <2>2, <2>4
<1>12. CASE PullActor(j)
  <2>. DEFINE old == {d \in Mine(j, box) : w.tweet \in d.tweets}
              H(d) == [d EXCEPT !.actors = d.actors \ {w.actor}, !.day = job[j].day]
  <2>1. Is(j, "remove") /\ job[j].at = "pullActor"
    BY <1>12, Zenon DEF PullActor, At
  <2>2. box' = (box \ old) \cup {H(d) : d \in old}
    BY <1>12, Zenon DEF PullActor
  <2>3. e \in old
    BY <1>4, <2>2, Zenon
  <2>4. v.actor # w.actor
    BY <1>10, <2>1, <2>3
  <2>5. H(e).type = e.type /\ H(e).tweets = e.tweets /\ H(e).actors = e.actors \ {w.actor}
    BY <1>b DEF Entries
  <2>. QED  BY <1>2, <2>2, <2>3, <2>4, <2>5, Zenon
<1>13. CASE PullTweet(j)
  <2>. DEFINE old == {d \in Mine(j, box) : w.actor \in d.actors}
              H(d) == [d EXCEPT !.tweets = d.tweets \ {w.tweet}, !.day = job[j].day]
  <2>1. Is(j, "remove") /\ job[j].at = "pullTweet"
    BY <1>13, Zenon DEF PullTweet, At
  <2>2. box' = (box \ old) \cup {H(d) : d \in old}
    BY <1>13, Zenon DEF PullTweet
  <2>3. e \in old
    BY <1>4, <2>2, Zenon
  <2>4. v.tweet # w.tweet
    BY <1>10, <2>1, <2>3
  <2>5. H(e).type = e.type /\ H(e).tweets = e.tweets \ {w.tweet} /\ H(e).actors = e.actors
    BY <1>b DEF Entries
  <2>. QED  BY <1>2, <2>2, <2>3, <2>4, <2>5, Zenon
<1>14. CASE Sweep(j)
  BY <1>2, <1>4, <1>14 DEF Sweep, Empty
<1>15. ASSUME Is(j, "clear") PROVE w \notin Tweets \cup {v.actor}
  BY <1>15, ClearingStays
<1>16. CASE ClearTweet(j)
  <2>1. Is(j, "clear") /\ w \in e.tweets
    BY <1>4, <1>16 DEF ClearTweet, At
  <2>2. e.tweets \subseteq Tweets
    BY <1>1, <1>2 DEF TweetsInv
  <2>. QED  BY <1>15, <2>1, <2>2
<1>17. CASE ClearSingle(j) \/ ClearSweep(j)
  BY <1>1, <1>2, <1>4, <1>17 DEF ClearSingle, ClearSweep, Gathered, Singles
<1>18. ASSUME NEW from, NEW type, NEW to, ClearPull(j, from, type, to)
       PROVE  \E f \in box' : f.type = v.type /\ v.tweet \in f.tweets /\ v.actor \in f.actors
  <2>. DEFINE H(d) == [d EXCEPT !.actors = d.actors \ {w}]
  <2>1. box' = {IF d.type = type THEN H(d) ELSE d : d \in box}
    BY <1>18 DEF ClearPull
  <2>2. w # v.actor
    BY <1>15, <1>18 DEF ClearPull, At
  <2>3. H(e).type = e.type /\ H(e).tweets = e.tweets /\ H(e).actors = e.actors \ {w}
    BY <1>b DEF Entries
  <2>4. H(e) \in box' \/ e \in box'
    BY <2>1
  <2>. QED  BY <1>2, <2>2, <2>3, <2>4
<1>. QED  BY <1>5, <1>6, <1>7, <1>8, <1>11, <1>12, <1>13, <1>14, <1>16, <1>17, <1>18 DEF Add, Remove, ClearUser

\* The last job of an event that was announced once more than removed is an
\* announcement, and it writes the event.
LEMMA LastNames ==
    ASSUME IInv, JobInv, SinceInv, JobsCarry, NEW j \in Jobs,
           Add(j) \/ Remove(j) \/ ClearTweet(j) \/ ClearUser(j) \/ Fail(j),
           NEW v \in facts, v \in Events, Quiets(v.type)', ~cut', NA(v) > NR(v),
           Opened(v), ~Opened(v)'
    PROVE  Named(v)'
<1>1. Moves(j)
  BY ActMoves
<1>2. Quiets(v.type) /\ v.type \notin clashed' /\ v.type \in Gathered \ scattered'
  BY <1>1 DEF Quiets, Moves
<1>3. \A i \in Jobs : i # j => ~OpenFor(i, "add", v) /\ ~OpenFor(i, "remove", v)
  BY <1>1, OpenMoved DEF Opened
<1>4. ~OpenFor(j, "remove", v)
  <2>. SUFFICES ASSUME OpenFor(j, "remove", v) PROVE FALSE
    OBVIOUS
  <2>1. PICK i \in Jobs : QueuedFor(i, "add", v)
    BY <1>2 DEF JobInv, OrderInv, Ordered, Quiets
  <2>2. OpenFor(i, "add", v) /\ i # j
    BY <2>1 DEF QueuedFor, OpenFor, At, Is
  <2>. QED  BY <1>3, <2>2
<1>5. OpenFor(j, "add", v)
  BY <1>3, <1>4 DEF Opened
<1>6. job[j] # NoJob /\ job[j].op = "add" /\ job[j].what = v /\ (job[j].at = "queued" \/ job[j].at \in Writing)
  BY <1>5 DEF OpenFor, Is
<1>7. job'[j] # NoJob /\ job'[j].op = "add" /\ job'[j].what = v
  BY <1>6 DEF JobsCarry, Carries
<1>8. job'[j].at # "queued" /\ job'[j].at \notin Writing
  BY <1>7 DEF Opened, OpenFor, Is
<1>9. v.actor \notin gone
  BY DEF JobInv, HereInv, Here
<1>10. Advances(j)
  BY <1>1, <1>6 DEF Moves
<1>11. ~Fail(j)
  BY <1>2, <1>6, <1>8, <1>10, FailsTo DEF Advances, Writing
<1>12. ~Skip(j) /\ ~ReadAdd(j) /\ ~Send(j)
  <2>1. ~Skip(j)
    BY <1>6, <1>9 DEF Skip
  <2>2. ~ReadAdd(j)
    BY <1>6, <1>8, ReadsTo, AimTyped DEF ReadAdd
  <2>3. ~Send(j)
    BY <1>6 DEF Send, At, Writing
  <2>. QED  BY <2>1, <2>2, <2>3
<1>13. ~Remove(j) /\ ~ClearTweet(j) /\ ~ClearUser(j)
  BY <1>6 DEF Remove, ReadRemove, PullEntry, PullActor, PullTweet, Sweep, At, Is, ClearTweet, ClearUser,
              ClearPull, ClearSingle, ClearSweep
<1>14. JoinTweet(j) \/ JoinPerson(j) \/ Push(j)
  BY <1>11, <1>12, <1>13 DEF Add
<1>15. job'[j].at = "send"
  <2>1. CASE JoinTweet(j)
    BY <1>8, <2>1, JoinTweetDoes, Zenon DEF Writing, JobInv
  <2>2. CASE JoinPerson(j)
    BY <1>8, <2>2, JoinPersonDoes, Zenon DEF Writing, JobInv
  <2>3. CASE Push(j)
    BY <1>6, <2>3, GoesTo DEF Push
  <2>. QED  BY <1>14, <2>1, <2>2, <2>3
<1>. QED  BY <1>2, <1>6, <1>14, <1>15, AddNames

LEMMA StepKept ==
    ASSUME IInv, KeepInv, JobInv, SinceInv, TweetsInv, PullInv, KeptInv, Next PROVE KeptInv'
<1>1. IInv' /\ JobsCarry
  BY StepInv
<1>2. \A S : Clearing(S) => Clearing(S)'
  BY <1>1, ClearingStays DEF Clearing
<1>3. ASSUME NEW j \in Jobs, Add(j) \/ Remove(j) \/ ClearTweet(j) \/ ClearUser(j) \/ Fail(j) PROVE KeptInv'
  <2>. SUFFICES ASSUME NEW v \in facts', Quiets(v.type)', ~Opened(v)', Stays(v)' PROVE Named(v)'
    BY DEF KeptInv
  <2>1. Moves(j)
    BY <1>3, ActMoves
  <2>2. v \in facts /\ v \in Events
    BY <2>1 DEF Moves, IInv, RestOK
  <2>3. Quiets(v.type)
    BY <2>1 DEF Quiets, Moves
  <2>4. ~Clearing(Tweets \cup {v.actor})' /\ ~cut' /\ NA(v)' > NR(v)'
    BY DEF Stays
  <2>5. Stays(v)
    BY <1>1, <1>2, <2>1, <2>4, CountsMoved DEF Stays, Moves
  <2>6. CASE Opened(v)
    BY <1>1, <1>3, <2>2, <2>4, <2>5, <2>6, LastNames DEF Stays
  <2>7. CASE ~Opened(v)
    <3>1. Named(v)
      BY <2>2, <2>3, <2>5, <2>7 DEF KeptInv
    <3>2. ~OpenFor(j, "remove", v)
      BY <2>7 DEF Opened
    <3>. QED  BY <1>1, <1>3, <2>2, <2>3, <2>4, <3>1, <3>2, NamedStays
  <2>. QED  BY <2>6, <2>7
<1>4. ASSUME box' = box, clashed' = clashed, scattered' = scattered, cut' = cut,
             \A v \in facts' : ~Opened(v)' => v \in facts /\ ~Opened(v) /\ NA(v)' = NA(v) /\ NR(v)' = NR(v)
      PROVE  KeptInv'
  <2>. SUFFICES ASSUME NEW v \in facts', Quiets(v.type)', ~Opened(v)', Stays(v)' PROVE Named(v)'
    BY DEF KeptInv
  <2>1. Stays(v)
    BY <1>2, <1>4 DEF Stays
  <2>2. Named(v)
    BY <1>4, <2>1 DEF KeptInv, Quiets
  <2>. QED  BY <1>4, <2>2 DEF Named
<1>5. ASSUME NEW j \in Jobs, View(j) PROVE KeptInv'
  <2>1. PICK x \in All : Queue(j, "clear", x)
    BY <1>5, ViewQueues
  <2>2. UNCHANGED <<box, rows, clock, history>>
    BY <1>5, ViewQueues
  <2>3. \A v \in Events : Opened(v)' <=> Opened(v)
    BY <2>1, QueueOpen DEF Opened
  <2>4. \A v \in Events : NA(v)' = NA(v) /\ NR(v)' = NR(v)
    BY <2>1, ClearCounts
  <2>. QED  BY <1>4, <2>2, <2>3, <2>4 DEF rows, history, IInv, RestOK
<1>6. CASE Happens
  <2>1. /\ box' = box /\ clashed' = clashed /\ scattered' = scattered /\ cut' = cut
        /\ \/ job' = job /\ \A v \in Events : RowsLose(v)
           \/ \E j \in Jobs, w \in Events :
                 Queue(j, "add", w) /\ Gains(w) /\ \A v \in Events : v # w => RowsLose(v)
           \/ \E j \in Jobs, w \in Events :
                 Queue(j, "remove", w) /\ Loses(w) /\ \A v \in Events : v # w => RowsLose(v)
    BY <1>6, HappensRows DEF JobInv
  <2>2. facts' \subseteq Events
    BY <1>1 DEF IInv, RestOK
  <2>3. CASE job' = job /\ \A v \in Events : RowsLose(v)
    <3>1. \A v \in Events : SameFor(v)
      BY <2>3, StillSame
    <3>. QED  BY <1>4, <2>1, <2>2, <2>3, <3>1 DEF SameFor, RowsLose, Opened
  <2>4. ASSUME NEW j \in Jobs, NEW op \in {"add", "remove"}, NEW w \in Events, Queue(j, op, w),
               \A v \in Events : v # w => RowsLose(v)
        PROVE  KeptInv'
    <3>1. \A v \in Events : v # w => SameFor(v)
      BY <2>4, QueueSame DEF JobInv
    <3>2. Opened(w)'
      BY <2>4, QueueOpen DEF Opened
    <3>. QED  BY <1>4, <2>1, <2>2, <2>4, <3>1, <3>2 DEF SameFor, RowsLose, Opened
  <2>. QED  BY <2>1, <2>3, <2>4
<1>. QED  BY <1>3, <1>5, <1>6 DEF Next

LEMMA QuietKept == ASSUME KeptInv PROVE KeptWhenQuiet
<1>. SUFFICES ASSUME NEW v \in facts, v.type \in Gathered \ (clashed \cup scattered), Settled(v),
                     ~Clearing(Tweets \cup {v.actor}), ~cut,
                     Cardinality(JobsFor(v, "add")) > Cardinality(JobsFor(v, "remove"))
              PROVE  Named(v)
  BY DEF KeptWhenQuiet
<1>1. ~Opened(v)
  BY DEF Settled, Opened, OpenFor, Is, Ended, Writing
<1>. QED  BY <1>1 DEF KeptInv, Stays, Quiets, NA, NR

-----------------------------------------------------------------------------
(* Both halves.                                                            *)

QuietInv == /\ JobInv /\ SinceInv /\ AwayInv /\ PostedInv
            /\ TweetsInv /\ OneInv /\ PullInv /\ KeptInv

LEMMA QuietInit == Init => QuietInv
<1>. SUFFICES ASSUME Init PROVE QuietInv
  OBVIOUS
<1>1. box = {} /\ facts = {} /\ \A i \in Jobs : job[i] = NoJob
  BY DEF Init
<1>2. SinceInv /\ AwayInv /\ PostedInv
  BY <1>1 DEF SinceInv, AwayInv, PostedInv, Busy, Unseen, Named
<1>3. TweetsInv /\ OneInv /\ PullInv /\ KeptInv
  BY <1>1 DEF TweetsInv, OneInv, PullInv, KeptInv, Is
<1>. QED  BY <1>2, <1>3, JobInvInit DEF QuietInv

LEMMA QuietStep == ASSUME IInv, KeepInv, TypesDoNotMix, QuietInv, [Next]_vars PROVE QuietInv'
<1>1. CASE Next
  BY <1>1, StepJobs, StepAway, StepPosted, StepTweets, StepOne, StepPull, StepKept DEF QuietInv
<1>2. CASE UNCHANGED vars
  <2>. USE <1>2 DEF vars, rows, clock, history
  <2>1. \A v : /\ JobsFor(v, "add")' = JobsFor(v, "add") /\ JobsFor(v, "remove")' = JobsFor(v, "remove")
               /\ NA(v)' = NA(v) /\ NR(v)' = NR(v)
    BY DEF JobsFor, Is, NA, NR
  <2>2. \A v : Retracted(v)' <=> Retracted(v)
    BY <2>1 DEF Retracted, Here
  <2>3. \A i \in Jobs :
          /\ Busy(i)' <=> Busy(i)
          /\ \A v : /\ SweepsFor(i, v)' <=> SweepsFor(i, v)
                    /\ OpenFor(i, "add", v)' <=> OpenFor(i, "add", v)
                    /\ OpenFor(i, "remove", v)' <=> OpenFor(i, "remove", v)
                    /\ QueuedFor(i, "add", v)' <=> QueuedFor(i, "add", v)
                    /\ QueuedFor(i, "remove", v)' <=> QueuedFor(i, "remove", v)
    BY DEF SweepsFor, OpenFor, QueuedFor, At, Is, Busy
  <2>4. \A e : Seen(e)' <=> Seen(e)
    BY <2>3 DEF Seen
  <2>5. \A v : (Opened(v)' <=> Opened(v)) /\ (Away(v)' <=> Away(v)) /\ (Unseen(v)' <=> Unseen(v))
    BY <2>2, <2>3, <2>4 DEF Opened, Away, Unseen
  <2>6. JobInv'
    <3>1. FiniteInv' /\ SerialInv' /\ EndInv' /\ HereInv'
      BY <2>3 DEF QuietInv, JobInv, FiniteInv, SerialInv, EndInv, HereInv, Here
    <3>2. CountInv'
      BY <2>1 DEF QuietInv, JobInv, CountInv, Counted, Here
    <3>3. OrderInv'
      BY <2>1, <2>2, <2>3 DEF QuietInv, JobInv, OrderInv, Ordered
    <3>. QED  BY <3>1, <3>2, <3>3 DEF JobInv
  <2>7. SinceInv' /\ AwayInv' /\ PostedInv'
    BY <2>1, <2>3, <2>5 DEF QuietInv, SinceInv, AwayInv, PostedInv, Named
  <2>8. TweetsInv' /\ OneInv' /\ PullInv'
    BY <2>4 DEF QuietInv, TweetsInv, OneInv, PullInv, Quiets, Naming, Mine, Recent, Is
  <2>9. KeptInv'
    BY <2>1, <2>5 DEF QuietInv, KeptInv, Quiets, Stays, Clearing, Is, Named
  <2>. QED  BY <2>6, <2>7, <2>8, <2>9 DEF QuietInv
<1>. QED  BY <1>1, <1>2

\* Jobs of a type that keep to themselves, each finding one entry to join,
\* neither lose a like or a repost that stands nor leave behind one that was
\* undone, for every number of jobs and events (ExactWhenQuiet).
THEOREM QuietJobsAreExact == Spec => []ExactWhenQuiet
<1>1. IInv /\ KeepInv /\ TypesDoNotMix /\ QuietInv /\ [Next]_vars => QuietInv'
  BY QuietStep
<1>2. IInv /\ QuietInv => ExactWhenQuiet
  BY QuietGone, QuietKept DEF ExactWhenQuiet, QuietInv
<1>. QED  BY <1>1, <1>2, QuietInit, Invariant, KeepHolds, AggregationsDoNotMix, PTL DEF Spec

-----------------------------------------------------------------------------
(***************************************************************************)
(* NotificationFeed, as Feed.                                              *)
(*                                                                         *)
(* A connection only knows of entries that are there, that went without a  *)
(* word or whose removal is about to be told: for a job that is about to   *)
(* tell one, too, and whoever is not in the room has been told nothing.    *)
(* An event is heard once in a run because nothing that fails is left to   *)
(* do once it was, and a run that was broken off after it is on record: a  *)
(* job that has not told in this run was heard in recorded runs only.      *)
(***************************************************************************)
FeedEntries == [id: Feed!Ids, type: Types, tweets: SUBSET (Tweets \cup {None}), actors: SUBSET Actors]
FeedJobs == [op: {"add", "remove"}, what: Happenings \cup {None},
             at: {"new", "queued", "skipped", "fetch", "send", "tell", "told", "done", "dead"},
             try: 1..Tries, id: Feed!Ids \cup {None},
             shown: SUBSET (Tweets \cup Actors \cup {None}), held: BOOLEAN]

BoxTyped == stored \subseteq FeedEntries
Sane(r) == /\ r.at # "new" => r.what \in Happenings
           /\ r.at \in {"new", "queued"} => ~r.held
JobsTyped == work \in [Jobs -> FeedJobs] /\ \A j \in Jobs : Sane(work[j])

\* Only a connection in the room has been told anything.
ConnTyped == /\ conn \in [Sockets -> {"new", "joined", "on", "late", "ghost", "off"}]
             /\ told \in [Sockets -> [Feed!Ids -> {"nothing", "there", "removed"}]]
             /\ \A c \in Sockets : c \notin Feed!InRoom => told[c] = Feed!Untold

\* What a job is about to tell is there, or went without a word.
AboutToTell(j) == work[j].op = "add" /\ work[j].at \in {"fetch", "send"}
Known == \A j \in Jobs : AboutToTell(j) => work[j].id \in Feed!Listed(stored) \cup hushed

\* A job has told once when it is to end or has ended, and else only in runs that were
\* broken off; nothing is ever told of the blocked, and what is read of them held back.
Once(r) == IF r.op = "add" /\ r.at \in {"told", "done"} THEN 1 ELSE 0
Single(j) == work[j].what.type \in Feed!Singles
Unspared(j) == work[j].what.actor \notin spared \cup missing
HeardOK == /\ heard \in [Jobs -> Nat] /\ repeats \in [Jobs -> Nat]
           /\ \A j \in Jobs : /\ heard[j] <= repeats[j] + Once(work[j])
                              /\ work[j].at = "new" => heard[j] = 0
                              /\ Single(j) /\ Unspared(j) => heard[j] = 0
ReachOK == \A j \in Jobs : Feed!At(j, "add", "told") /\ heard[j] = 0 =>
    work[j].held \/ \E c \in Sockets : conn[c] = "ghost"
HeldOK == \A j \in Jobs : Feed!At(j, "add", "send") =>
    /\ work[j].held => Single(j)
    /\ Single(j) /\ Unspared(j) => work[j].held
BlockedOK == Actors \ spared \subseteq blocked

FeedInv == /\ BoxTyped /\ JobsTyped /\ ConnTyped /\ Known /\ Feed!LastWord
           /\ HeardOK /\ HeldOK /\ ReachOK /\ BlockedOK

-----------------------------------------------------------------------------
LEMMA NoJobTyped == Feed!Unqueued \in FeedJobs
BY SomeTries DEF Feed!Unqueued, FeedJobs

LEMMA EventFields == ASSUME NEW v \in Happenings
    PROVE v.type \in Types /\ v.tweet \in Tweets \cup {None} /\ v.actor \in Actors
BY HappeningsTyped DEF Types, Gathered, Singles

LEMMA FeedInit == Feed!Init => FeedInv
<1>. SUFFICES ASSUME Feed!Init PROVE FeedInv
  OBVIOUS
<1>. USE DEF Feed!Init
<1>1. BoxTyped
  BY DEF BoxTyped
<1>2. JobsTyped
  BY NoJobTyped DEF JobsTyped, Feed!Unqueued, Sane
<1>3. ConnTyped
  BY DEF ConnTyped, Feed!Untold, Feed!InRoom
<1>4. Known
  BY DEF Known, AboutToTell, Feed!Unqueued
<1>5. Feed!LastWord
  BY DEF Feed!LastWord, Feed!Untold
<1>6. HeardOK
  <2>1. \A j \in Jobs : heard[j] = 0 /\ repeats[j] = 0 /\ work[j] = Feed!Unqueued
    OBVIOUS
  <2>2. heard \in [Jobs -> Nat] /\ repeats \in [Jobs -> Nat] /\ Once(Feed!Unqueued) = 0
    BY DEF Once, Feed!Unqueued
  <2>. QED  BY <2>1, <2>2 DEF HeardOK
<1>7. HeldOK
  BY DEF HeldOK, Feed!At, Feed!Unqueued
<1>8. BlockedOK
  BY DEF BlockedOK
<1>9. ReachOK
  BY DEF ReachOK, Feed!At, Feed!Unqueued
<1>. QED  BY <1>1, <1>2, <1>3, <1>4, <1>5, <1>6, <1>7, <1>8, <1>9 DEF FeedInv

-----------------------------------------------------------------------------
(* Frames *)

\* What is heard depends on the jobs, and on who is spared and gone.
HeardPart == HeardOK /\ HeldOK /\ ReachOK
ToldPart == Known /\ Feed!LastWord

LEMMA HeardKept ==
    ASSUME FeedInv, UNCHANGED <<work, heard, repeats>>, spared \subseteq spared', missing \subseteq missing',
           \A c \in Sockets : conn[c] = "ghost" => conn'[c] = "ghost"
    PROVE  HeardPart'
<1>1. HeardOK'
  BY DEF FeedInv, HeardOK, Once, Single, Unspared
<1>2. HeldOK'
  BY DEF FeedInv, HeldOK, Feed!At, Single, Unspared
<1>3. ReachOK'
  BY DEF FeedInv, ReachOK, Feed!At
<1>. QED  BY <1>1, <1>2, <1>3 DEF HeardPart

LEMMA ToldKept ==
    ASSUME FeedInv, UNCHANGED <<work, told>>,
           Feed!Listed(stored) \cup hushed \subseteq Feed!Listed(stored)' \cup hushed'
    PROVE  ToldPart'
<1>1. Known'
  BY DEF FeedInv, Known, AboutToTell
<1>2. Feed!LastWord'
  <2>. SUFFICES ASSUME NEW c \in Sockets, NEW i \in Feed!Ids, told[c][i] = "there",
                       i \notin Feed!Listed(stored)' \cup hushed'
                PROVE  \E j \in Jobs : Feed!At(j, "remove", "tell")' /\ work'[j].id = i
    BY DEF Feed!LastWord
  <2>1. PICK j \in Jobs : Feed!At(j, "remove", "tell") /\ work[j].id = i
    BY DEF FeedInv, Feed!LastWord
  <2>. QED  BY <2>1 DEF Feed!At
<1>. QED  BY <1>1, <1>2 DEF ToldPart

\* A job that moves without telling anything.
LEMMA HeardMoves ==
    ASSUME FeedInv, NEW j \in Jobs, NEW r \in FeedJobs, work' = [work EXCEPT ![j] = r],
           UNCHANGED <<heard, Feed!people, conn>>,
           repeats' \in [Jobs -> Nat], \A i \in Jobs \ {j} : repeats'[i] = repeats[i],
           heard[j] <= repeats'[j] + Once(r), r.at # "new",
           heard[j] = 0 \/ r.what = work[j].what, ~(r.op = "add" /\ r.at = "told"),
           r.op = "add" /\ r.at = "send" =>
               /\ r.held => r.what.type \in Feed!Singles
               /\ r.what.type \in Feed!Singles /\ r.what.actor \notin spared \cup missing => r.held
    PROVE  HeardPart'
<1>0. work' \in [Jobs -> FeedJobs] /\ work'[j] = r /\ \A i \in Jobs \ {j} : work'[i] = work[i]
  BY DEF FeedInv, JobsTyped
<1>1. HeardOK'
  <2>. SUFFICES ASSUME NEW i \in Jobs
       PROVE /\ heard[i] <= repeats'[i] + Once(work'[i])
             /\ work'[i].at = "new" => heard[i] = 0
             /\ Single(i)' /\ Unspared(i)' => heard[i] = 0
    BY DEF FeedInv, HeardOK, Once
  <2>1. CASE i = j
    BY <1>0, <2>1 DEF FeedInv, HeardOK, Single, Unspared, Feed!people
  <2>2. CASE i # j
    BY <1>0, <2>2 DEF FeedInv, HeardOK, Single, Unspared, Feed!people
  <2>. QED  BY <2>1, <2>2
<1>2. HeldOK'
  BY <1>0 DEF FeedInv, HeldOK, Feed!At, Single, Unspared, Feed!people
<1>3. ReachOK'
  <2>. SUFFICES ASSUME NEW i \in Jobs, Feed!At(i, "add", "told")', heard[i] = 0
                PROVE  work'[i].held \/ \E c \in Sockets : conn[c] = "ghost"
    BY DEF ReachOK
  <2>1. i # j
    BY <1>0 DEF Feed!At
  <2>. QED  BY <1>0, <2>1 DEF FeedInv, ReachOK, Feed!At
<1>. QED  BY <1>1, <1>2, <1>3 DEF HeardPart

\* The same within a run.
LEMMA HeardGoes ==
    ASSUME FeedInv, NEW j \in Jobs, NEW r \in FeedJobs, work' = [work EXCEPT ![j] = r],
           UNCHANGED <<heard, repeats, Feed!people, conn>>, r.at # "new",
           work[j].op = "add" => work[j].at # "done",
           r.op = work[j].op, work[j].at = "told" => r.at = "done",
           r.what = work[j].what, ~(r.op = "add" /\ r.at = "told"),
           r.op = "add" /\ r.at = "send" =>
               /\ r.held => r.what.type \in Feed!Singles
               /\ r.what.type \in Feed!Singles /\ r.what.actor \notin spared \cup missing => r.held
    PROVE  HeardPart'
<1>1. heard[j] \in Nat /\ repeats \in [Jobs -> Nat] /\ heard[j] <= repeats[j] + Once(work[j])
  BY DEF FeedInv, HeardOK
<1>2. Once(work[j]) <= Once(r) /\ Once(r) \in Int /\ Once(work[j]) \in Int
  BY DEF Once
<1>3. heard[j] <= repeats[j] + Once(r)
  BY <1>1, <1>2
<1>. QED  BY <1>1, <1>3, HeardMoves

LEMMA Together ==
    ASSUME BoxTyped', JobsTyped', ConnTyped', ToldPart', HeardPart', BlockedOK' PROVE FeedInv'
BY DEF FeedInv, ToldPart, HeardPart

LEMMA BoxTypedKept == ASSUME FeedInv, UNCHANGED stored PROVE BoxTyped'
BY DEF FeedInv, BoxTyped
LEMMA JobsTypedKept == ASSUME FeedInv, UNCHANGED work PROVE JobsTyped'
BY DEF FeedInv, JobsTyped
LEMMA ConnTypedKept == ASSUME FeedInv, UNCHANGED <<conn, told>> PROVE ConnTyped'
BY DEF FeedInv, ConnTyped, Feed!InRoom
LEMMA BlockedKept == ASSUME FeedInv, UNCHANGED Feed!people PROVE BlockedOK'
BY DEF FeedInv, BlockedOK, Feed!people
LEMMA OneGoes ==
    ASSUME FeedInv, NEW j \in Jobs, NEW r \in FeedJobs, Sane(r),
           work' = [work EXCEPT ![j] = r]
    PROVE  JobsTyped' /\ work'[j] = r /\ \A i \in Jobs \ {j} : work'[i] = work[i]
BY DEF FeedInv, JobsTyped

\* A job that ends no removal, while nothing leaves the box.
LEMMA ToldGoes ==
    ASSUME FeedInv, NEW j \in Jobs, NEW r \in FeedJobs, work' = [work EXCEPT ![j] = r],
           UNCHANGED told, Feed!Listed(stored) \cup hushed \subseteq Feed!Listed(stored)' \cup hushed',
           ~Feed!At(j, "remove", "tell"),
           r.op = "add" /\ r.at \in {"fetch", "send"} => r.id \in Feed!Listed(stored)' \cup hushed'
    PROVE  ToldPart'
<1>0. work' \in [Jobs -> FeedJobs] /\ work'[j] = r /\ \A i \in Jobs \ {j} : work'[i] = work[i]
  BY DEF FeedInv, JobsTyped
<1>1. Known'
  BY <1>0 DEF FeedInv, Known, AboutToTell
<1>2. Feed!LastWord'
  <2>. SUFFICES ASSUME NEW c \in Sockets, NEW i \in Feed!Ids, told[c][i] = "there",
                       i \notin Feed!Listed(stored)' \cup hushed'
                PROVE  \E k \in Jobs : Feed!At(k, "remove", "tell")' /\ work'[k].id = i
    BY DEF Feed!LastWord
  <2>1. PICK k \in Jobs : Feed!At(k, "remove", "tell") /\ work[k].id = i
    BY DEF FeedInv, Feed!LastWord
  <2>2. k # j
    BY <2>1
  <2>. QED  BY <1>0, <2>1, <2>2 DEF Feed!At
<1>. QED  BY <1>1, <1>2 DEF ToldPart

-----------------------------------------------------------------------------
(* The actions *)

LEMMA QueueKept ==
    ASSUME FeedInv, NEW j \in Jobs, NEW op \in {"add", "remove"}, NEW v \in Happenings, Feed!Queue(j, op, v),
           UNCHANGED <<stored, Feed!people, conn, Feed!signals, due, hushed>>
    PROVE  FeedInv'
<1>1. PICK r : r = [Feed!Unqueued EXCEPT !.op = op, !.what = v, !.at = "queued"]
  OBVIOUS
<1>2. r \in FeedJobs /\ r.at = "queued" /\ r.what = v /\ r.held = FALSE
  <2>1. Feed!Unqueued.held = FALSE
    BY DEF Feed!Unqueued
  <2>. QED  BY <1>1, <2>1, NoJobTyped DEF FeedJobs
<1>3. work[j].at = "new" /\ work' = [work EXCEPT ![j] = r]
  BY <1>1 DEF Feed!Queue, Feed!Unqueued
<1>4. UNCHANGED <<stored, told, heard, repeats, hushed>>
  BY DEF Feed!signals
<1>5. HeardPart'
  <2>1. heard[j] = 0 /\ repeats \in [Jobs -> Nat]
    BY <1>3 DEF FeedInv, HeardOK
  <2>2. heard[j] <= repeats[j] + Once(r)
    BY <2>1 DEF Once
  <2>. QED  BY <1>2, <1>3, <1>4, <2>1, <2>2, HeardMoves
<1>6. ToldPart'
  BY <1>2, <1>3, <1>4, ToldGoes DEF Feed!At
<1>7. JobsTyped'
  BY <1>2, <1>3, OneGoes DEF Sane
<1>. QED  BY <1>4, <1>5, <1>6, <1>7, Together, BoxTypedKept, ConnTypedKept, BlockedKept

LEMMA AnnounceKept == ASSUME FeedInv, NEW j \in Jobs, NEW v \in Happenings, Feed!Announce(j, v)
                      PROVE  FeedInv'
BY QueueKept DEF Feed!Announce
LEMMA UndoKept == ASSUME FeedInv, NEW j \in Jobs, NEW v \in Happenings, Feed!Undo(j, v)
                  PROVE  FeedInv'
BY QueueKept DEF Feed!Undo

\* Neither the jobs nor what has been told changes.
LEMMA WorldKept ==
    ASSUME FeedInv, UNCHANGED <<stored, work, conn, Feed!signals, hushed>>,
           spared \subseteq spared', missing \subseteq missing', BlockedOK'
    PROVE  FeedInv'
BY HeardKept, ToldKept, Together, BoxTypedKept, JobsTypedKept, ConnTypedKept DEF Feed!signals

LEMMA DeleteKept == ASSUME FeedInv, NEW x, Feed!Delete(x) PROVE FeedInv'
BY WorldKept DEF Feed!Delete, FeedInv, BlockedOK
LEMMA BlockKept == ASSUME FeedInv, NEW u \in Actors, Feed!Block(u) PROVE FeedInv'
<1>1. BlockedOK'
  BY DEF Feed!Block, FeedInv, BlockedOK
<1>. QED  BY <1>1, WorldKept DEF Feed!Block
LEMMA UnblockKept == ASSUME FeedInv, NEW u \in Actors, Feed!Unblock(u) PROVE FeedInv'
<1>1. BlockedOK'
  BY DEF Feed!Unblock, FeedInv, BlockedOK
<1>. QED  BY <1>1, WorldKept DEF Feed!Unblock
LEMMA LookKept == ASSUME FeedInv, Feed!Look PROVE FeedInv'
<1>1. UNCHANGED <<stored, work, Feed!people, conn, Feed!signals, hushed>>
  BY DEF Feed!Look
<1>2. BlockedOK'
  BY <1>1, BlockedKept
<1>. QED  BY <1>1, <1>2, WorldKept DEF Feed!people

\* A connection that is no longer in the room has been told nothing.
LEMMA BecomesKept ==
    ASSUME FeedInv, NEW c \in Sockets, NEW to \in {"joined", "on", "late", "ghost", "off"}, Feed!Becomes(c, to),
           conn[c] # "ghost", to = "ghost" => conn[c] \in {"late"},
           to \in {"joined", "on"} => conn[c] \in {"new", "joined"}
    PROVE  FeedInv'
<1>1. UNCHANGED <<stored, work, Feed!people, heard, repeats, hushed, missing, blocked, spared>>
  BY DEF Feed!Becomes, Feed!people
<1>2. conn' \in [Sockets -> {"new", "joined", "on", "late", "ghost", "off"}]
      /\ conn'[c] = to /\ \A d \in Sockets \ {c} : conn'[d] = conn[d]
  BY DEF Feed!Becomes, FeedInv, ConnTyped
<1>3. told' \in [Sockets -> [Feed!Ids -> {"nothing", "there", "removed"}]]
      /\ (to \in {"joined", "on"} => told'[c] = told[c])
      /\ (to \notin {"joined", "on"} => told'[c] = Feed!Untold)
      /\ \A d \in Sockets \ {c} : told'[d] = told[d]
  <2>1. Feed!Untold \in [Feed!Ids -> {"nothing", "there", "removed"}]
    BY DEF Feed!Untold
  <2>. QED  BY <2>1 DEF Feed!Becomes, FeedInv, ConnTyped
<1>4. ConnTyped'
  <2>. SUFFICES ASSUME NEW d \in Sockets, d \notin Feed!InRoom' PROVE told'[d] = Feed!Untold
    BY <1>2, <1>3 DEF ConnTyped
  <2>1. CASE d = c
    BY <1>2, <1>3, <2>1 DEF Feed!InRoom
  <2>2. CASE d # c
    BY <1>2, <1>3, <2>2 DEF Feed!InRoom, FeedInv, ConnTyped
  <2>. QED  BY <2>1, <2>2
<1>5. HeardPart'
  BY <1>1, <1>2, HeardKept
<1>6. Known'
  BY <1>1 DEF FeedInv, Known, AboutToTell
<1>7. Feed!LastWord'
  <2>. SUFFICES ASSUME NEW d \in Sockets, NEW i \in Feed!Ids, told'[d][i] = "there"
                PROVE  \/ i \in Feed!Listed(stored) \cup hushed
                       \/ \E j \in Jobs : Feed!At(j, "remove", "tell") /\ work[j].id = i
    BY <1>1 DEF Feed!LastWord, Feed!At
  <2>1. told[d][i] = "there"
    BY <1>3 DEF Feed!Untold
  <2>. QED  BY <2>1 DEF FeedInv, Feed!LastWord
<1>. QED  BY <1>1, <1>4, <1>5, <1>6, <1>7, Together, BoxTypedKept, JobsTypedKept, BlockedKept DEF ToldPart

LEMMA ConnectKept == ASSUME FeedInv, NEW c \in Sockets, Feed!Connect(c) PROVE FeedInv'
BY BecomesKept DEF Feed!Connect
LEMMA RegisterKept == ASSUME FeedInv, NEW c \in Sockets, Feed!Register(c) PROVE FeedInv'
BY BecomesKept DEF Feed!Register
LEMMA DisconnectKept == ASSUME FeedInv, NEW c \in Sockets, Feed!Disconnect(c) PROVE FeedInv'
BY BecomesKept DEF Feed!Disconnect

\* The fields of a job that goes on.
LEMMA FieldsTyped ==
    ASSUME FeedInv, NEW j \in Jobs
    PROVE  /\ work[j] \in FeedJobs
           /\ work[j].at # "new" => work[j].what \in Happenings
           /\ work[j].at = "queued" => work[j].held = FALSE
<1>1. work[j] \in FeedJobs /\ Sane(work[j])
  BY DEF FeedInv, JobsTyped
<1>. QED  BY <1>1 DEF Sane, FeedJobs

LEMMA SkipKept == ASSUME FeedInv, NEW j \in Jobs, Feed!Skip(j) PROVE FeedInv'
<1>1. PICK r : r = [work[j] EXCEPT !.at = "skipped"]
  OBVIOUS
<1>2. r \in FeedJobs /\ r.at = "skipped" /\ r.what \in Happenings /\ r.what = work[j].what /\ r.op = work[j].op
  BY <1>1, FieldsTyped DEF FeedJobs, Feed!Skip, Feed!At
<1>3. work' = [work EXCEPT ![j] = r]
  BY <1>1 DEF Feed!Skip, Feed!Goes
<1>4. UNCHANGED <<stored, told, heard, repeats, hushed, Feed!people, conn>> /\ Feed!At(j, "add", "queued")
  BY DEF Feed!Skip, Feed!signals
<1>5. HeardPart'
  BY <1>2, <1>3, <1>4, HeardGoes DEF Feed!At
<1>6. ToldPart'
  BY <1>2, <1>3, <1>4, ToldGoes DEF Feed!At
<1>7. JobsTyped'
  BY <1>2, <1>3, OneGoes DEF Sane
<1>. QED  BY <1>4, <1>5, <1>6, <1>7, Together, BoxTypedKept, ConnTypedKept, BlockedKept

LEMMA JoinsTyped ==
    ASSUME FeedInv, NEW v \in Happenings
    PROVE  /\ Feed!Joins(v) \subseteq stored
           /\ v.type \in Feed!Singles => Feed!Joins(v) = {}
BY DEF Feed!Joins

LEMMA GatherKept == ASSUME FeedInv, NEW j \in Jobs, Feed!Gather(j) PROVE FeedInv'
<1> DEFINE v == work[j].what
           new == {[e EXCEPT !.tweets = @ \cup {v.tweet}, !.actors = @ \cup {v.actor}] : e \in Feed!Joins(v)}
<1>1. Feed!At(j, "add", "queued") /\ v \in Happenings /\ UNCHANGED <<told, heard, repeats, hushed, Feed!people, conn>>
  BY FieldsTyped DEF Feed!Gather, Feed!Starts, Feed!At, Feed!signals
<1>2. v.tweet \in Tweets \cup {None} /\ v.actor \in Actors
  BY <1>1, EventFields
<1>3. new \subseteq FeedEntries /\ Feed!Listed(new) = Feed!Listed(Feed!Joins(v))
  <2>1. ASSUME NEW e \in Feed!Joins(v),
               NEW f, f = [e EXCEPT !.tweets = @ \cup {v.tweet}, !.actors = @ \cup {v.actor}]
        PROVE  f \in FeedEntries /\ f.id = e.id
    <3>1. e \in FeedEntries
      BY <1>1, JoinsTyped DEF FeedInv, BoxTyped
    <3>. HIDE DEF v
    <3>. QED  BY <3>1, <2>1, <1>2 DEF FeedEntries
  <2>2. new \subseteq FeedEntries
    BY <2>1
  <2>3. ASSUME NEW f \in new PROVE f.id \in Feed!Listed(Feed!Joins(v))
    <3>. HIDE DEF v
    <3>. QED  BY <2>1 DEF Feed!Listed
  <2>4. ASSUME NEW e \in Feed!Joins(v) PROVE e.id \in Feed!Listed(new)
    <3>1. PICK f : f = [e EXCEPT !.tweets = @ \cup {v.tweet}, !.actors = @ \cup {v.actor}]
      OBVIOUS
    <3>2. f \in new /\ f.id = e.id
      BY <2>1, <3>1
    <3>. HIDE DEF new
    <3>. QED  BY <3>2 DEF Feed!Listed
  <2>. HIDE DEF new, v
  <2>. QED  BY <2>2, <2>3, <2>4 DEF Feed!Listed
<1>4. PICK e \in new : work' = [work EXCEPT ![j].at = "fetch", ![j].id = e.id, ![j].shown = e.tweets \cup e.actors]
  BY DEF Feed!Gather
<1>5. stored' = (stored \ Feed!Joins(v)) \cup new
  BY DEF Feed!Gather
<1>6. PICK r : r = [work[j] EXCEPT !.at = "fetch", !.id = e.id, !.shown = e.tweets \cup e.actors]
  OBVIOUS
<1>7. work' = [work EXCEPT ![j] = r]
  BY <1>4, <1>6
<1>8. e \in FeedEntries
  BY <1>3
<1>9. r \in FeedJobs /\ r.at = "fetch" /\ r.id = e.id /\ r.what \in Happenings /\ r.what = work[j].what
      /\ r.op = work[j].op
  <2>. HIDE DEF new
  <2>. QED  BY <1>1, <1>6, <1>8, FieldsTyped DEF FeedJobs, FeedEntries, Feed!At
<1>10. Feed!Listed(stored)' = Feed!Listed(stored)
  <2>1. Feed!Joins(v) \subseteq stored
    BY <1>1, JoinsTyped
  <2>. HIDE DEF new, v
  <2>. QED  BY <1>3, <1>5, <2>1 DEF Feed!Listed
<1>11. e.id \in Feed!Listed(stored)'
  <2>. HIDE DEF new, v
  <2>. QED  BY <1>5 DEF Feed!Listed
<1>12. BoxTyped'
  <2>. HIDE DEF new, v
  <2>. QED  BY <1>3, <1>5 DEF FeedInv, BoxTyped
<1>. HIDE DEF new, v
<1>13. HeardPart'
  BY <1>1, <1>7, <1>9, HeardGoes DEF Feed!At
<1>14. ToldPart'
  BY <1>1, <1>7, <1>9, <1>10, <1>11, ToldGoes DEF Feed!At
<1>15. JobsTyped'
  BY <1>7, <1>9, OneGoes DEF Sane
<1>. QED  BY <1>1, <1>12, <1>13, <1>14, <1>15, Together, ConnTypedKept, BlockedKept

LEMMA PushKept == ASSUME FeedInv, NEW j \in Jobs, Feed!Push(j) PROVE FeedInv'
<1> DEFINE v == work[j].what
           id == <<j, work[j].try>>
           next == IF v.type \in Feed!Singles THEN "fetch" ELSE "send"
<1>1. Feed!At(j, "add", "queued") /\ v \in Happenings /\ UNCHANGED <<told, heard, repeats, hushed, Feed!people, conn>>
  BY FieldsTyped DEF Feed!Push, Feed!Starts, Feed!At, Feed!signals
<1>2. v.tweet \in Tweets \cup {None} /\ v.actor \in Actors /\ v.type \in Types
  BY <1>1, EventFields
<1>3. id \in Feed!Ids
  BY FieldsTyped DEF Feed!Ids, FeedJobs
<1>4. PICK r : r = [work[j] EXCEPT !.at = next, !.id = id]
  OBVIOUS
<1>5. work' = [work EXCEPT ![j] = r]
  BY <1>4 DEF Feed!Push
<1>6. r \in FeedJobs /\ r.at = next /\ r.id = id /\ r.what = v /\ r.held = work[j].held /\ r.op = work[j].op
  <2>1. next \in {"fetch", "send"}
    OBVIOUS
  <2>. HIDE DEF next, id
  <2>. QED  BY <1>3, <1>4, <2>1, FieldsTyped DEF FeedJobs
<1>7. stored' = stored \cup {[id |-> id, type |-> v.type, tweets |-> {v.tweet}, actors |-> {v.actor}]}
  BY DEF Feed!Push
<1>8. BoxTyped'
  <2>. HIDE DEF v, id
  <2>. QED  BY <1>2, <1>3, <1>7 DEF FeedInv, BoxTyped, FeedEntries
<1>9. Feed!Listed(stored) \subseteq Feed!Listed(stored)' /\ id \in Feed!Listed(stored)'
  <2>1. PICK f : f = [id |-> id, type |-> v.type, tweets |-> {v.tweet}, actors |-> {v.actor}]
    OBVIOUS
  <2>2. f.id = id /\ stored' = stored \cup {f}
    BY <1>7, <2>1
  <2>. HIDE DEF v, id
  <2>. QED  BY <2>2 DEF Feed!Listed
<1>10. r.held = FALSE /\ r.at \in {"fetch", "send"} /\ (r.at = "send" => r.what.type \notin Feed!Singles)
  BY <1>1, <1>6, FieldsTyped DEF Feed!At
<1>11. r.what \in Happenings /\ r.what = work[j].what
  BY <1>1, <1>6
<1>. HIDE DEF v, id, next
<1>12. HeardPart'
  BY <1>1, <1>5, <1>6, <1>10, <1>11, HeardGoes DEF Feed!At
<1>13. ToldPart'
  BY <1>1, <1>5, <1>6, <1>9, ToldGoes DEF Feed!At
<1>14. JobsTyped'
  BY <1>5, <1>6, <1>10, <1>11, OneGoes DEF Sane
<1>. QED  BY <1>1, <1>8, <1>12, <1>13, <1>14, Together, ConnTypedKept, BlockedKept

LEMMA FetchKept == ASSUME FeedInv, NEW j \in Jobs, Feed!Fetch(j) PROVE FeedInv'
<1> DEFINE keep == work[j].what.type \in Feed!Singles /\ work[j].what.actor \in blocked \ missing
<1>1. PICK r : r = [work[j] EXCEPT !.at = "send", !.shown = {}, !.held = keep]
  OBVIOUS
<1>2. Feed!At(j, "add", "fetch") /\ work' = [work EXCEPT ![j] = r]
      /\ UNCHANGED <<stored, told, heard, repeats, hushed, Feed!people, conn>>
  BY <1>1 DEF Feed!Fetch, Feed!signals
<1>3. r \in FeedJobs /\ r.at = "send" /\ r.what = work[j].what /\ r.what \in Happenings /\ r.id = work[j].id
      /\ r.op = "add" /\ r.held = keep /\ r.op = work[j].op
  <2>1. keep \in BOOLEAN
    OBVIOUS
  <2>. HIDE DEF keep
  <2>. QED  BY <1>1, <1>2, <2>1, FieldsTyped DEF FeedJobs, Feed!At
<1>4. r.what.actor \in Actors
  BY <1>3, EventFields
<1>5. /\ r.held => r.what.type \in Feed!Singles
      /\ r.what.type \in Feed!Singles /\ r.what.actor \notin spared \cup missing => r.held
  BY <1>3, <1>4 DEF FeedInv, BlockedOK
<1>. HIDE DEF keep
<1>6. HeardPart'
  BY <1>2, <1>3, <1>5, HeardGoes DEF Feed!At
<1>7. r.id \in Feed!Listed(stored)' \cup hushed'
  BY <1>2, <1>3 DEF FeedInv, Known, AboutToTell, Feed!At
<1>8. ToldPart'
  BY <1>2, <1>3, <1>7, ToldGoes DEF Feed!At
<1>9. JobsTyped'
  BY <1>2, <1>3, OneGoes DEF Sane
<1>. QED  BY <1>2, <1>6, <1>8, <1>9, Together, BoxTypedKept, ConnTypedKept, BlockedKept

\* What the sockets are told.
LEMMA SendTyped ==
    ASSUME FeedInv, NEW id, NEW what \in {"nothing", "there", "removed"}, Feed!SendToUser(id, what), UNCHANGED conn
    PROVE  /\ ConnTyped'
           /\ \A c \in Sockets : \A i \in Feed!Ids :
                told'[c][i] = IF c \in Feed!InRoom /\ i = id THEN what ELSE told[c][i]
<1>1. \A c \in Sockets : told[c] \in [Feed!Ids -> {"nothing", "there", "removed"}]
  BY DEF FeedInv, ConnTyped
<1>2. \A c \in Sockets : told'[c] = IF c \in Feed!InRoom THEN [told[c] EXCEPT ![id] = what] ELSE told[c]
  BY DEF Feed!SendToUser
<1>3. told' \in [Sockets -> [Feed!Ids -> {"nothing", "there", "removed"}]]
  BY <1>1 DEF Feed!SendToUser
<1>4. Feed!InRoom' = Feed!InRoom
  BY DEF Feed!InRoom
<1>5. ConnTyped'
  BY <1>2, <1>3, <1>4 DEF FeedInv, ConnTyped
<1>. QED  BY <1>1, <1>2, <1>5

LEMMA SendKept == ASSUME FeedInv, NEW j \in Jobs, Feed!Send(j) PROVE FeedInv'
<1>1. PICK r : r = [work[j] EXCEPT !.at = "told"]
  OBVIOUS
<1>2. Feed!At(j, "add", "send") /\ work' = [work EXCEPT ![j] = r] /\ UNCHANGED <<stored, hushed, Feed!people, conn>>
  BY <1>1 DEF Feed!Send, Feed!Goes
<1>3. r \in FeedJobs /\ r.at = "told" /\ r.what = work[j].what /\ r.what \in Happenings /\ r.op = "add"
      /\ r.held = work[j].held
  BY <1>1, <1>2, FieldsTyped DEF FeedJobs, Feed!At
<1>4. JobsTyped' /\ work'[j] = r /\ \A i \in Jobs \ {j} : work'[i] = work[i]
  BY <1>2, <1>3, OneGoes DEF Sane
<1>5. Feed!Reaches(j)
  BY DEF Feed!Send
<1>6. ConnTyped' /\ \A c \in Sockets : \A i \in Feed!Ids : told'[c][i] = "there" => told[c][i] = "there" \/ i = work[j].id
  <2>1. CASE UNCHANGED told
    BY <1>2, <2>1, ConnTypedKept
  <2>2. CASE Feed!SendToUser(work[j].id, "there")
    BY <1>2, <2>2, SendTyped
  <2>. QED  BY <1>5, <2>1, <2>2 DEF Feed!Reaches
<1>7. Known'
  BY <1>2, <1>3, <1>4 DEF FeedInv, Known, AboutToTell
<1>8. work[j].id \in Feed!Listed(stored) \cup hushed
  BY <1>2 DEF FeedInv, Known, AboutToTell, Feed!At
<1>9. Feed!LastWord'
  <2>. SUFFICES ASSUME NEW c \in Sockets, NEW i \in Feed!Ids, told'[c][i] = "there",
                       i \notin Feed!Listed(stored) \cup hushed
                PROVE  \E k \in Jobs : Feed!At(k, "remove", "tell")' /\ work'[k].id = i
    BY <1>2 DEF Feed!LastWord
  <2>1. told[c][i] = "there"
    BY <1>6, <1>8
  <2>2. PICK k \in Jobs : Feed!At(k, "remove", "tell") /\ work[k].id = i
    BY <2>1 DEF FeedInv, Feed!LastWord
  <2>3. k # j
    BY <1>2, <2>2 DEF Feed!At
  <2>. QED  BY <1>4, <2>2, <2>3 DEF Feed!At
<1>10. /\ heard \in [Jobs -> Nat] /\ repeats \in [Jobs -> Nat] /\ UNCHANGED repeats
       /\ heard[j] <= repeats[j] /\ (Single(j) /\ Unspared(j) => heard[j] = 0)
  <2>1. Once(work[j]) = 0
    BY <1>2 DEF Once, Feed!At
  <2>. QED  BY <1>5, <2>1 DEF FeedInv, HeardOK, Feed!Reaches
<1>11. heard' \in [Jobs -> Nat] /\ (\A i \in Jobs \ {j} : heard'[i] = heard[i])
       /\ heard'[j] \in {heard[j], heard[j] + 1}
       /\ (heard'[j] = 0 => work[j].held \/ \E c \in Sockets : conn[c] = "ghost")
       /\ (work[j].held => heard'[j] = heard[j])
  <2>1. CASE work[j].held
    BY <1>5, <1>10, <2>1 DEF Feed!Reaches
  <2>2. CASE ~work[j].held /\ Feed!IsOnline
    BY <1>5, <1>10, <2>2 DEF Feed!Reaches, Feed!IsOnline, Feed!InRoom
  <2>3. CASE ~work[j].held /\ ~Feed!IsOnline
    BY <1>5, <1>10, <2>3 DEF Feed!Reaches
  <2>. QED  BY <2>1, <2>2, <2>3
<1>12. heard'[j] \in Nat /\ heard'[j] <= repeats[j] + Once(r) /\ (Single(j) /\ Unspared(j) => heard'[j] = 0)
  <2>1. Once(r) = 1 /\ heard[j] \in Nat /\ repeats[j] \in Nat
    BY <1>3, <1>10 DEF Once
  <2>2. heard'[j] \in Nat /\ heard'[j] <= repeats[j] + Once(r)
    BY <1>10, <1>11, <2>1
  <2>3. Single(j) /\ Unspared(j) => work[j].held
    BY <1>2 DEF FeedInv, HeldOK
  <2>. QED  BY <1>10, <1>11, <2>2, <2>3
<1>13. HeldOK'
  BY <1>2, <1>3, <1>4 DEF FeedInv, HeldOK, Feed!At, Single, Unspared, Feed!people
<1>14. HeardOK'
  <2>. SUFFICES ASSUME NEW i \in Jobs
       PROVE /\ heard'[i] <= repeats[i] + Once(work'[i])
             /\ work'[i].at = "new" => heard'[i] = 0
             /\ Single(i)' /\ Unspared(i)' => heard'[i] = 0
    BY <1>10, <1>11 DEF HeardOK, Once
  <2>1. CASE i = j
    BY <1>2, <1>3, <1>4, <1>12, <2>1 DEF Single, Unspared, Feed!people
  <2>2. CASE i # j
    BY <1>2, <1>4, <1>11, <2>2 DEF FeedInv, HeardOK, Single, Unspared, Feed!people
  <2>. QED  BY <2>1, <2>2
<1>15. ReachOK'
  <2>. SUFFICES ASSUME NEW i \in Jobs, Feed!At(i, "add", "told")', heard'[i] = 0
                PROVE  work'[i].held \/ \E c \in Sockets : conn[c] = "ghost"
    BY <1>2 DEF ReachOK
  <2>1. CASE i = j
    BY <1>3, <1>4, <1>11, <2>1
  <2>2. CASE i # j
    BY <1>4, <1>11, <2>2 DEF FeedInv, ReachOK, Feed!At
  <2>. QED  BY <2>1, <2>2
<1>. QED
  BY <1>2, <1>4, <1>6, <1>7, <1>9, <1>13, <1>14, <1>15, Together, BoxTypedKept, BlockedKept
     DEF HeardPart, ToldPart

\* What is pulled, swept or cleared is what was there, with fewer names.
LEMMA SweptTyped == ASSUME NEW S \in SUBSET FeedEntries PROVE Feed!Swept(S) \subseteq FeedEntries
BY DEF Feed!Swept

LEMMA PulledTyped ==
    ASSUME FeedInv, NEW v \in Happenings, NEW found \in stored
    PROVE  Feed!Pulled(v, found) \subseteq FeedEntries
<1>1. \A e \in stored : e \in FeedEntries /\ [e EXCEPT !.actors = @ \ {v.actor}] \in FeedEntries
                      /\ [e EXCEPT !.tweets = @ \ {v.tweet}] \in FeedEntries
  BY DEF FeedInv, BoxTyped, FeedEntries
<1>. QED  BY <1>1 DEF Feed!Pulled

\* What leaves goes without a word, but for what is told.
LEMMA LeavesHushed ==
    ASSUME FeedInv, NEW id, Feed!Leaves(stored, stored', id)
    PROVE  /\ Feed!Listed(stored) \cup hushed \subseteq Feed!Listed(stored)' \cup hushed' \cup {id}
           /\ hushed \subseteq hushed'
           /\ \A i \in Jobs : AboutToTell(i) => work[i].id \in Feed!Listed(stored)' \cup hushed'
BY DEF Feed!Leaves, AboutToTell, Feed!Listed

LEMMA RemoveKept == ASSUME FeedInv, NEW j \in Jobs, Feed!Remove(j) PROVE FeedInv'
<1> DEFINE v == work[j].what
           found == {e \in stored : e.type = v.type /\ v.tweet \in e.tweets /\ v.actor \in e.actors}
<1>1. Feed!At(j, "remove", "queued") /\ UNCHANGED <<told, heard, repeats, Feed!people, conn>>
  BY DEF Feed!Remove, Feed!signals
<1>2. v \in Happenings
  BY <1>1, FieldsTyped DEF Feed!At
<1>3. CASE Feed!Goes(j, "done") /\ UNCHANGED <<stored, hushed>>
  <2>1. PICK r : r = [work[j] EXCEPT !.at = "done"]
    OBVIOUS
  <2>2. r \in FeedJobs /\ r.at = "done" /\ r.what \in Happenings /\ r.op = "remove"
        /\ r.what = work[j].what /\ r.op = work[j].op
    BY <1>1, <2>1, FieldsTyped DEF FeedJobs, Feed!At
  <2>3. work' = [work EXCEPT ![j] = r]
    BY <1>3, <2>1 DEF Feed!Goes
  <2>4. HeardPart'
    BY <1>1, <2>2, <2>3, HeardGoes DEF Feed!At
  <2>5. ToldPart'
    BY <1>1, <1>3, <2>2, <2>3, ToldGoes DEF Feed!At
  <2>6. JobsTyped'
    BY <2>2, <2>3, OneGoes DEF Sane
  <2>. QED  BY <1>1, <1>3, <2>4, <2>5, <2>6, Together, BoxTypedKept, ConnTypedKept, BlockedKept
<1>4. ASSUME NEW e \in found, stored' = Feed!Swept(Feed!Pulled(v, e)), Feed!Leaves(stored, stored', e.id),
             work' = [work EXCEPT ![j].at = "tell", ![j].id = e.id]
      PROVE  FeedInv'
  <2>1. PICK r : r = [work[j] EXCEPT !.at = "tell", !.id = e.id]
    OBVIOUS
  <2>2. e \in stored /\ e \in FeedEntries
    BY DEF FeedInv, BoxTyped
  <2>3. r \in FeedJobs /\ r.at = "tell" /\ r.id = e.id /\ r.what \in Happenings /\ r.op = "remove"
        /\ r.what = work[j].what /\ r.op = work[j].op
    BY <1>1, <2>1, <2>2, FieldsTyped DEF FeedJobs, FeedEntries, Feed!At
  <2>4. work' = [work EXCEPT ![j] = r]
    BY <1>4, <2>1
  <2>5. BoxTyped'
    <3>1. Feed!Pulled(v, e) \subseteq FeedEntries
      BY <1>2, <2>2, PulledTyped
    <3>. HIDE DEF v
    <3>. QED  BY <1>4, <3>1, SweptTyped DEF BoxTyped
  <2>6. JobsTyped' /\ work'[j] = r /\ \A i \in Jobs \ {j} : work'[i] = work[i]
    BY <2>3, <2>4, OneGoes DEF Sane
  <2>7. HeardPart'
    BY <1>1, <2>3, <2>4, HeardGoes DEF Feed!At
  <2>8. /\ Feed!Listed(stored) \cup hushed \subseteq Feed!Listed(stored)' \cup hushed' \cup {e.id}
        /\ \A i \in Jobs : AboutToTell(i) => work[i].id \in Feed!Listed(stored)' \cup hushed'
    BY <1>4, LeavesHushed
  <2>9. Known'
    BY <2>3, <2>6, <2>8 DEF Known, AboutToTell
  <2>10. Feed!LastWord'
    <3>. SUFFICES ASSUME NEW c \in Sockets, NEW i \in Feed!Ids, told[c][i] = "there",
                         i \notin Feed!Listed(stored)' \cup hushed'
                  PROVE  \E k \in Jobs : Feed!At(k, "remove", "tell")' /\ work'[k].id = i
      BY <1>1 DEF Feed!LastWord
    <3>1. CASE i = e.id
      BY <2>3, <2>6, <3>1 DEF Feed!At
    <3>2. CASE i # e.id
      <4>1. PICK k \in Jobs : Feed!At(k, "remove", "tell") /\ work[k].id = i
        BY <2>8, <3>2 DEF FeedInv, Feed!LastWord
      <4>2. k # j
        BY <1>1, <4>1 DEF Feed!At
      <4>. QED  BY <2>6, <4>1, <4>2 DEF Feed!At
    <3>. QED  BY <3>1, <3>2
  <2>. QED  BY <1>1, <2>5, <2>6, <2>7, <2>9, <2>10, Together, ConnTypedKept, BlockedKept DEF ToldPart
<1>. QED  BY <1>3, <1>4 DEF Feed!Remove

LEMMA TellKept == ASSUME FeedInv, NEW j \in Jobs, Feed!Tell(j) PROVE FeedInv'
<1>1. PICK r : r = [work[j] EXCEPT !.at = "told"]
  OBVIOUS
<1>2. Feed!At(j, "remove", "tell") /\ work' = [work EXCEPT ![j] = r] /\ UNCHANGED <<stored, hushed, heard, repeats, Feed!people, conn>>
  BY <1>1 DEF Feed!Tell, Feed!Goes
<1>3. r \in FeedJobs /\ r.at = "told" /\ r.what \in Happenings /\ r.op = "remove"
      /\ r.what = work[j].what /\ r.op = work[j].op
  BY <1>1, <1>2, FieldsTyped DEF FeedJobs, Feed!At
<1>4. JobsTyped' /\ work'[j] = r /\ \A i \in Jobs \ {j} : work'[i] = work[i]
  BY <1>2, <1>3, OneGoes DEF Sane
<1>5. HeardPart'
  BY <1>2, <1>3, HeardGoes DEF Feed!At
<1>6. ConnTyped' /\ \A c \in Sockets : \A i \in Feed!Ids :
        told'[c][i] = IF c \in Feed!InRoom /\ i = work[j].id THEN "removed" ELSE told[c][i]
  BY <1>2, SendTyped DEF Feed!Tell
<1>7. Known'
  BY <1>2, <1>3, <1>4 DEF FeedInv, Known, AboutToTell
<1>8. Feed!LastWord'
  <2>. SUFFICES ASSUME NEW c \in Sockets, NEW i \in Feed!Ids, told'[c][i] = "there",
                       i \notin Feed!Listed(stored) \cup hushed
                PROVE  \E k \in Jobs : Feed!At(k, "remove", "tell")' /\ work'[k].id = i
    BY <1>2 DEF Feed!LastWord
  <2>1. told[c][i] = "there" /\ (c \notin Feed!InRoom \/ i # work[j].id)
    BY <1>6
  <2>2. c \in Feed!InRoom
    BY <2>1 DEF FeedInv, ConnTyped, Feed!Untold
  <2>3. PICK k \in Jobs : Feed!At(k, "remove", "tell") /\ work[k].id = i
    BY <2>1 DEF FeedInv, Feed!LastWord
  <2>4. k # j
    BY <2>1, <2>2, <2>3
  <2>. QED  BY <1>4, <2>3, <2>4 DEF Feed!At
<1>. QED  BY <1>2, <1>4, <1>5, <1>6, <1>7, <1>8, Together, BoxTypedKept, BlockedKept DEF ToldPart

LEMMA ClearKept == ASSUME FeedInv, NEW x, Feed!Clear(x) PROVE FeedInv'
<1>1. UNCHANGED <<work, Feed!people, conn, told, heard, repeats>> /\ Feed!Leaves(stored, stored', None)
  BY DEF Feed!Clear, Feed!signals
<1>2. BoxTyped'
  <2> DEFINE trim(e) == IF e.type \in Feed!Singles THEN e ELSE [e EXCEPT !.actors = @ \ {x}]
             kept == {f \in stored : x \notin f.tweets /\ (f.type \in Feed!Singles => x \notin f.actors)}
  <2>1. \A e \in stored : trim(e) \in FeedEntries
    BY DEF FeedInv, BoxTyped, FeedEntries
  <2>2. {trim(e) : e \in kept} \subseteq FeedEntries
    <3>. HIDE DEF trim
    <3>. QED  BY <2>1
  <2>3. stored' = Feed!Swept({trim(e) : e \in kept})
    BY DEF Feed!Clear
  <2>. HIDE DEF trim, kept
  <2>. QED  BY <2>2, <2>3, SweptTyped DEF BoxTyped
<1>3. Feed!Listed(stored) \cup hushed \subseteq Feed!Listed(stored)' \cup hushed' \cup {None}
      /\ \A i \in Jobs : AboutToTell(i) => work[i].id \in Feed!Listed(stored)' \cup hushed'
  BY <1>1, LeavesHushed
<1>4. HeardPart'
  BY <1>1, HeardKept DEF Feed!people
<1>5. Known'
  BY <1>1, <1>3 DEF Known, AboutToTell
<1>6. Feed!LastWord'
  <2>. SUFFICES ASSUME NEW c \in Sockets, NEW i \in Feed!Ids, told[c][i] = "there",
                       i \notin Feed!Listed(stored)' \cup hushed'
                PROVE  \E k \in Jobs : Feed!At(k, "remove", "tell") /\ work[k].id = i
    BY <1>1 DEF Feed!LastWord, Feed!At
  <2>1. i # None
    BY NoneIsNothing DEF Feed!Ids
  <2>. QED  BY <1>3, <2>1 DEF FeedInv, Feed!LastWord
<1>. QED
  BY <1>1, <1>2, <1>4, <1>5, <1>6, Together, JobsTypedKept, ConnTypedKept, BlockedKept DEF ToldPart

\* A job that runs again, or is given up.
LEMMA RestartedTyped ==
    ASSUME NEW r \in FeedJobs, r.what \in Happenings
    PROVE  /\ Feed!Restarted(r) \in FeedJobs /\ Feed!Restarted(r).at \in {"queued", "dead"}
           /\ Feed!Restarted(r).what = r.what /\ Feed!Restarted(r).op = r.op
           /\ Feed!Restarted(r).held = FALSE /\ Sane(Feed!Restarted(r)) /\ Once(Feed!Restarted(r)) = 0
<1> DEFINE again == r.try < Tries
           next == IF again THEN r.try + 1 ELSE Tries
           at == IF again THEN "queued" ELSE "dead"
<1>1. PICK q : q = [Feed!Unqueued EXCEPT !.op = r.op, !.what = r.what, !.try = next, !.at = at]
  OBVIOUS
<1>2. q = Feed!Restarted(r)
  BY <1>1 DEF Feed!Restarted
<1>3. next \in 1..Tries /\ at \in {"queued", "dead"} /\ r.op \in {"add", "remove"}
  BY SomeTries DEF FeedJobs
<1>. HIDE DEF next, at, again
<1>4. q \in FeedJobs /\ q.at = at /\ q.what = r.what /\ q.op = r.op /\ q.held = FALSE
  BY <1>1, <1>3 DEF FeedJobs, Feed!Unqueued
<1>. QED  BY <1>2, <1>3, <1>4 DEF Sane, Once

LEMMA AgainHeard ==
    ASSUME FeedInv, NEW j \in Jobs, Feed!Again(j), UNCHANGED <<heard, Feed!people, conn>>,
           \/ work[j].at \in {"fetch", "send", "tell"} /\ UNCHANGED repeats
           \/ Feed!At(j, "add", "told") /\ repeats' = [repeats EXCEPT ![j] = @ + 1]
    PROVE  HeardPart' /\ JobsTyped' /\ work'[j].at \in {"queued", "dead"}
           /\ \A i \in Jobs \ {j} : work'[i] = work[i]
<1>1. PICK r : r = Feed!Restarted(work[j])
  OBVIOUS
<1>2. work' = [work EXCEPT ![j] = r]
  BY <1>1 DEF Feed!Again
<1>3. work[j] \in FeedJobs /\ work[j].what \in Happenings
  BY FieldsTyped DEF Feed!At
<1>4. /\ r \in FeedJobs /\ r.at \in {"queued", "dead"} /\ Sane(r)
      /\ r.what = work[j].what /\ Once(r) = 0
  BY <1>1, <1>3, RestartedTyped
<1>5. JobsTyped' /\ work'[j] = r /\ \A i \in Jobs \ {j} : work'[i] = work[i]
  BY <1>2, <1>4, OneGoes
<1>6. heard[j] \in Nat /\ repeats \in [Jobs -> Nat] /\ heard[j] <= repeats[j] + Once(work[j])
  BY DEF FeedInv, HeardOK
<1>7. repeats' \in [Jobs -> Nat] /\ (\A i \in Jobs \ {j} : repeats'[i] = repeats[i])
      /\ heard[j] <= repeats'[j] + Once(r)
  <2>1. CASE work[j].at \in {"fetch", "send", "tell"} /\ UNCHANGED repeats
    BY <1>4, <1>6, <2>1 DEF Once
  <2>2. CASE Feed!At(j, "add", "told") /\ repeats' = [repeats EXCEPT ![j] = @ + 1]
    BY <1>4, <1>6, <2>2 DEF Once
  <2>. QED  BY <2>1, <2>2
<1>8. HeardPart'
  BY <1>2, <1>4, <1>7, HeardMoves
<1>. QED  BY <1>4, <1>5, <1>8

\* The handler has returned.
LEMMA CompleteKept == ASSUME FeedInv, NEW j \in Jobs, Feed!Complete(j) PROVE FeedInv'
<1>1. PICK r : r = [work[j] EXCEPT !.at = "done"]
  OBVIOUS
<1>2. r \in FeedJobs /\ r.at = "done" /\ r.what \in Happenings /\ r.what = work[j].what /\ r.op = work[j].op
  BY <1>1, FieldsTyped DEF FeedJobs, Feed!Complete
<1>3. work' = [work EXCEPT ![j] = r] /\ work[j].at = "told"
  BY <1>1 DEF Feed!Complete, Feed!Goes
<1>4. UNCHANGED <<stored, told, heard, repeats, hushed, Feed!people, conn>>
  BY DEF Feed!Complete, Feed!signals
<1>5. HeardPart'
  BY <1>2, <1>3, <1>4, HeardGoes
<1>6. ToldPart'
  BY <1>2, <1>3, <1>4, ToldGoes DEF Feed!At
<1>7. JobsTyped'
  BY <1>2, <1>3, OneGoes DEF Sane
<1>. QED  BY <1>4, <1>5, <1>6, <1>7, Together, BoxTypedKept, ConnTypedKept, BlockedKept

\* The process dies: no job tells or has told, and nobody is in the room.
LEMMA CrashKept == ASSUME FeedInv, Feed!Crash PROVE FeedInv'
<1>1. UNCHANGED <<stored, Feed!people, heard, hushed>>
  BY DEF Feed!Crash
<1>2. ASSUME NEW j \in Jobs
      PROVE  /\ work'[j] \in FeedJobs /\ Sane(work'[j]) /\ work'[j].what = work[j].what
             /\ work'[j].at \notin {"fetch", "send", "tell", "told"}
             /\ work'[j].at = "new" => work[j].at = "new"
             /\ repeats'[j] \in Nat /\ repeats[j] + Once(work[j]) <= repeats'[j] + Once(work'[j])
  <2>0. work[j] \in FeedJobs /\ Sane(work[j]) /\ repeats[j] \in Nat
    BY DEF FeedInv, JobsTyped, HeardOK
  <2>1. repeats'[j] = IF work[j].at = "told" THEN repeats[j] + 1 ELSE repeats[j]
    BY DEF Feed!Crash
  <2>2. CASE j \in Feed!UnderWay
    <3>1. work'[j] = Feed!Restarted(work[j]) /\ work[j].what \in Happenings
      BY <2>2, FieldsTyped DEF Feed!Crash, Feed!UnderWay
    <3>2. Once(work[j]) <= (IF work[j].at = "told" THEN 1 ELSE 0) /\ Once(work[j]) \in Int
      BY <2>2 DEF Once, Feed!UnderWay
    <3>3. PICK q : q = Feed!Restarted(work[j])
      OBVIOUS
    <3>4. /\ q \in FeedJobs /\ q.at \in {"queued", "dead"} /\ q.what = work[j].what
          /\ Sane(q) /\ Once(q) = 0
      BY <2>0, <3>1, <3>3, RestartedTyped
    <3>5. work'[j] = q
      BY <3>1, <3>3
    <3>. QED  BY <2>0, <2>1, <3>2, <3>4, <3>5
  <2>3. CASE j \notin Feed!UnderWay
    <3>1. work'[j] = work[j] /\ work[j].at \notin {"fetch", "send", "tell", "told"}
      BY <2>3 DEF Feed!Crash, Feed!UnderWay
    <3>2. Once(work[j]) \in Int
      BY DEF Once
    <3>. QED  BY <2>0, <2>1, <3>1, <3>2
  <2>. QED  BY <2>2, <2>3
<1>3. JobsTyped'
  BY <1>2 DEF JobsTyped, Feed!Crash
<1>4. ConnTyped' /\ \A c \in Sockets : told'[c] = Feed!Untold
  <2>1. Feed!Untold \in [Feed!Ids -> {"nothing", "there", "removed"}]
    BY DEF Feed!Untold
  <2>2. \A c \in Sockets : told'[c] = Feed!Untold
    BY DEF Feed!Crash
  <2>3. told' \in [Sockets -> [Feed!Ids -> {"nothing", "there", "removed"}]]
    BY <2>1 DEF Feed!Crash
  <2>4. conn' \in [Sockets -> {"new", "joined", "on", "late", "ghost", "off"}]
    BY DEF Feed!Crash
  <2>. QED  BY <2>2, <2>3, <2>4 DEF ConnTyped
<1>5. HeardOK'
  <2>1. heard \in [Jobs -> Nat] /\ repeats \in [Jobs -> Nat] /\ heard' = heard
    BY <1>1 DEF FeedInv, HeardOK
  <2>2. repeats' \in [Jobs -> Nat]
    BY <1>2, <2>1 DEF Feed!Crash
  <2>3. ASSUME NEW j \in Jobs
        PROVE  /\ heard[j] <= repeats'[j] + Once(work'[j])
               /\ work'[j].at = "new" => heard[j] = 0
               /\ Single(j)' /\ Unspared(j)' => heard[j] = 0
    <3>1. heard[j] <= repeats[j] + Once(work[j]) /\ (work[j].at = "new" => heard[j] = 0)
          /\ (Single(j) /\ Unspared(j) => heard[j] = 0)
      BY DEF FeedInv, HeardOK
    <3>2. heard[j] \in Int /\ repeats[j] \in Int /\ Once(work[j]) \in Int /\ Once(work'[j]) \in Int
          /\ repeats'[j] \in Int
      BY <2>1, <2>2 DEF Once
    <3>3. Single(j)' /\ Unspared(j)' => Single(j) /\ Unspared(j)
      BY <1>1, <1>2 DEF Single, Unspared, Feed!people
    <3>. QED  BY <1>2, <3>1, <3>2, <3>3
  <2>. QED  BY <2>1, <2>2, <2>3 DEF HeardOK
<1>6. HeldOK' /\ ReachOK' /\ Known'
  BY <1>2 DEF HeldOK, ReachOK, Known, AboutToTell, Feed!At
<1>7. Feed!LastWord'
  BY <1>4 DEF Feed!LastWord, Feed!Untold
<1>. QED
  BY <1>1, <1>3, <1>4, <1>5, <1>6, <1>7, Together, BoxTypedKept, BlockedKept DEF HeardPart, ToldPart

LEMMA FailKept == ASSUME FeedInv, NEW j \in Jobs, Feed!Fail(j) PROVE FeedInv'
<1>2. /\ work[j].at \in {"fetch", "send", "tell"} /\ Feed!Again(j)
      /\ UNCHANGED <<stored, told, heard, repeats, Feed!people, conn>>
  BY DEF Feed!Fail, Feed!signals
<1>4. HeardPart' /\ JobsTyped' /\ work'[j].at \in {"queued", "dead"} /\ \A i \in Jobs \ {j} : work'[i] = work[i]
  BY <1>2, AgainHeard
<1>6. hushed \subseteq hushed' /\ (work[j].at = "tell" => work[j].id \in Feed!Listed(stored) \cup hushed')
  BY DEF Feed!Fail
<1>7. Known'
  BY <1>2, <1>4, <1>6 DEF FeedInv, Known, AboutToTell
<1>8. Feed!LastWord'
  <2>. SUFFICES ASSUME NEW c \in Sockets, NEW i \in Feed!Ids, told[c][i] = "there",
                       i \notin Feed!Listed(stored) \cup hushed'
                PROVE  \E k \in Jobs : Feed!At(k, "remove", "tell")' /\ work'[k].id = i
    BY <1>2 DEF Feed!LastWord
  <2>1. PICK k \in Jobs : Feed!At(k, "remove", "tell") /\ work[k].id = i
    BY <1>6 DEF FeedInv, Feed!LastWord
  <2>2. k # j
    BY <1>6, <2>1 DEF Feed!At
  <2>. QED  BY <1>4, <2>1, <2>2 DEF Feed!At
<1>. QED
  BY <1>2, <1>4, <1>7, <1>8, Together, BoxTypedKept, ConnTypedKept, BlockedKept DEF ToldPart

LEMMA RerunKept == ASSUME FeedInv, NEW j \in Jobs, Feed!Rerun(j) PROVE FeedInv'
<1>1. /\ Feed!At(j, "add", "told") /\ Feed!Again(j) /\ repeats' = [repeats EXCEPT ![j] = @ + 1]
      /\ UNCHANGED <<stored, told, heard, Feed!people, conn, hushed>>
  BY DEF Feed!Rerun
<1>2. HeardPart' /\ JobsTyped' /\ work'[j].at \in {"queued", "dead"} /\ \A i \in Jobs \ {j} : work'[i] = work[i]
  BY <1>1, AgainHeard
<1>3. Known'
  BY <1>1, <1>2 DEF FeedInv, Known, AboutToTell
<1>4. Feed!LastWord'
  <2>. SUFFICES ASSUME NEW c \in Sockets, NEW i \in Feed!Ids, told'[c][i] = "there",
                       i \notin Feed!Listed(stored) \cup hushed
                PROVE  \E k \in Jobs : Feed!At(k, "remove", "tell")' /\ work'[k].id = i
    BY <1>1 DEF Feed!LastWord
  <2>1. PICK k \in Jobs : Feed!At(k, "remove", "tell") /\ work[k].id = i
    BY <1>1 DEF FeedInv, Feed!LastWord
  <2>2. k # j
    BY <1>1, <2>1 DEF Feed!At
  <2>. QED  BY <1>2, <2>1, <2>2 DEF Feed!At
<1>. QED
  BY <1>1, <1>2, <1>3, <1>4, Together, BoxTypedKept, ConnTypedKept, BlockedKept DEF ToldPart

-----------------------------------------------------------------------------
LEMMA FeedStep == FeedInv /\ [Feed!Next]_(Feed!vars) => FeedInv'
<1>. SUFFICES ASSUME FeedInv, [Feed!Next]_(Feed!vars) PROVE FeedInv'
  OBVIOUS
<1>1. ASSUME NEW j \in Jobs, NEW v \in Happenings, Feed!Announce(j, v) \/ Feed!Undo(j, v)
      PROVE  FeedInv'
  BY <1>1, AnnounceKept, UndoKept
<1>2. ASSUME NEW x \in Tweets \cup Actors, Feed!Delete(x) \/ Feed!Clear(x) PROVE FeedInv'
  BY <1>2, DeleteKept, ClearKept
<1>3. ASSUME NEW u \in Actors, Feed!Block(u) \/ Feed!Unblock(u) PROVE FeedInv'
  BY <1>3, BlockKept, UnblockKept
<1>4. ASSUME NEW c \in Sockets, Feed!Connect(c) \/ Feed!Register(c) \/ Feed!Disconnect(c)
      PROVE  FeedInv'
  BY <1>4, ConnectKept, RegisterKept, DisconnectKept
<1>5. CASE Feed!Look
  BY <1>5, LookKept
<1>6. ASSUME NEW j \in Jobs, \/ Feed!Skip(j) \/ Feed!Gather(j) \/ Feed!Push(j) \/ Feed!Fetch(j)
                             \/ Feed!Send(j) \/ Feed!Remove(j) \/ Feed!Tell(j) \/ Feed!Fail(j)
                             \/ Feed!Complete(j) \/ Feed!Rerun(j)
      PROVE  FeedInv'
  BY <1>6, CompleteKept, SkipKept, GatherKept, PushKept, FetchKept, SendKept, RemoveKept, TellKept, FailKept, RerunKept
<1>7. CASE Feed!Crash
  BY <1>7, CrashKept
<1>8. CASE UNCHANGED Feed!vars
  <2>1. UNCHANGED <<stored, work, conn, Feed!signals, hushed, Feed!people, blocked, spared, missing>>
    BY <1>8 DEF Feed!vars, Feed!people
  <2>2. BlockedOK'
    BY <2>1, BlockedKept
  <2>. QED  BY <2>1, <2>2, WorldKept
<1>. QED  BY <1>1, <1>2, <1>3, <1>4, <1>5, <1>6, <1>7, <1>8 DEF Feed!Next

LEMMA FeedInductive == Feed!Spec => []FeedInv
BY FeedInit, FeedStep, PTL DEF Feed!Spec

\* A connection never goes on showing an entry whose removal was told or that a clear
\* did not silence, whatever comes and goes meanwhile (sendNotificationOnly).
THEOREM LastWordHolds == Feed!Spec => []LastWord
<1>1. FeedInv => LastWord
  BY DEF FeedInv, LastWord
<1>. QED  BY <1>1, FeedInductive, PTL

\* An event reaches the sockets or the device once, and again only for every time that
\* its job was run again after it had told, when the process died before the job was
\* completed or a mention failed at somebody else; and never what a blocked user wrote
\* (saveNotificationAndSend, MentionProcessor).
THEOREM HeardOnceHolds == Feed!Spec => []HeardOnce
<1>1. ASSUME FeedInv PROVE HeardOnce
  <2>. SUFFICES ASSUME NEW j \in Jobs
       PROVE /\ heard[j] <= repeats[j] + 1
             /\ Feed!At(j, "add", "told") /\ heard[j] = 0 => work[j].held \/ \E c \in Sockets : conn[c] = "ghost"
             /\ Single(j) /\ Unspared(j) => heard[j] = 0
    BY DEF HeardOnce, Feed!HeardOnce, Single, Unspared
  <2>1. heard[j] \in Nat /\ repeats[j] \in Nat /\ heard[j] <= repeats[j] + Once(work[j])
        /\ (Single(j) /\ Unspared(j) => heard[j] = 0)
    BY <1>1 DEF FeedInv, HeardOK
  <2>2. Once(work[j]) \in {0, 1}
    BY DEF Once
  <2>. QED  BY <1>1, <2>1, <2>2 DEF FeedInv, ReachOK
<1>. QED  BY <1>1, FeedInductive, PTL

-----------------------------------------------------------------------------
(***************************************************************************)
(* NotificationList, as Lists.                                             *)
(*                                                                         *)
(* What a request has read is what it asked for, but for what was gone by  *)
(* then; so what is there at the end is in it.  Entries that say the same  *)
(* have a newest one, since they are finitely many: the one over which     *)
(* there are fewest.                                                       *)
(***************************************************************************)
Asked == Lists!Entries(req.tab)
Displayed == Lists!Deduplicated({Lists!Left(e) : e \in {f \in Asked : Lists!Kept(f)}})

ReqOK == req \in [tab: Lists!Tabs, at: {"idle", "fetch", "users", "tweets", "both", "done"},
                  users: SUBSET Actors, blocked: SUBSET Actors, tweets: SUBSET Tweets]
SparedOK == shunned \subseteq Actors /\ Actors \ shunned \subseteq friends

\* What was read is what has gone since or is there.
UsersRead == req.at \in {"users", "both", "done"} =>
    /\ (Lists!Named(req.tab) \cap Actors) \ lost \subseteq req.users
    /\ req.users \cap Lists!Related(req.tab) \subseteq req.blocked \cup friends
TweetsRead == req.at \in {"tweets", "both", "done"} =>
    (Lists!Named(req.tab) \cap Tweets) \ lost \subseteq req.tweets
ListRead == IF req.at = "done" /\ Asked # {}
            THEN list = Lists!Ordered(Displayed) /\ missed \subseteq lost
            ELSE list = <<>> /\ missed = {}
ListInv == document \in Documents /\ ReqOK /\ SparedOK /\ UsersRead /\ TweetsRead /\ ListRead

-----------------------------------------------------------------------------
LEMMA MineIsBox == Asked \subseteq document /\ \A tab : Lists!Entries(tab) \subseteq document
BY DEF Asked, Lists!Entries

LEMMA MineTyped ==
    ASSUME document \in Documents, NEW e \in Asked
    PROVE  /\ e \in [type: Lists!Gathered \cup Lists!Singles \cup {"MESSAGE"}, who: SUBSET Actors,
                     what: SUBSET Tweets, on: Tweets \cup {None}, date: Int]
           /\ e.type \in {"LIKE", "REPOST"} => e.what # {}
           /\ e.type \in Lists!Singles => (\E u \in Actors : e.who = {u}) /\ \E t \in Tweets : e.what = {t}
           /\ e.type \in {"REPLY", "QUOTE"} => e.on \in Tweets
BY MineIsBox, DocumentsTyped DEF Types, Gathered, Singles, Lists!Gathered, Lists!Singles

LEMMA NamedOf ==
    ASSUME document \in Documents, NEW e \in Asked
    PROVE  /\ e.who \subseteq Lists!Named(req.tab) \cap Actors
           /\ e.what \subseteq Lists!Named(req.tab) \cap Tweets
           /\ e.on # None => e.on \in Lists!Named(req.tab) \cap Tweets
           /\ e.type \in Lists!Singles => e.who \subseteq Lists!Related(req.tab)
<1>2. e.who \subseteq Actors /\ e.what \subseteq Tweets /\ e.on \in Tweets \cup {None}
  BY MineTyped
<1>3. e \in Lists!Entries(req.tab)
  BY DEF Asked
<1>4. e.who \cup e.what \cup {e.on} \subseteq Lists!Named(req.tab)
  <2>1. PICK X : X = e.who \cup e.what \cup {e.on}
    OBVIOUS
  <2>2. X \in {f.who \cup f.what \cup {f.on} : f \in Lists!Entries(req.tab)}
    BY <1>3, <2>1
  <2>3. X \subseteq Lists!Named(req.tab)
    BY <2>2 DEF Lists!Named
  <2>. QED  BY <2>1, <2>3
<1>5. e.type \in Lists!Singles => e.who \subseteq Lists!Related(req.tab)
  BY <1>3 DEF Lists!Related
<1>. QED  BY <1>2, <1>4, <1>5

\* Something is shown of what is kept, of the same type and date.
LEMMA LeftOf ==
    ASSUME document \in Documents, NEW e \in Asked
    PROVE  /\ Lists!Left(e).type = e.type /\ Lists!Left(e).date = e.date
           /\ Lists!Left(e).who = e.who \cap req.users
           /\ Lists!Left(e).what = e.what \cap req.tweets
<1>1. e \in [type: Lists!Gathered \cup Lists!Singles \cup {"MESSAGE"}, who: SUBSET Actors,
             what: SUBSET Tweets, on: Tweets \cup {None}, date: Int]
  BY MineTyped
<1>. QED  BY <1>1 DEF Lists!Left

-----------------------------------------------------------------------------
(* Lists in order *)

Dated(S) == /\ IsFiniteSet(S) /\ \A e \in S : e.date \in Int
            /\ \A e, f \in S : e # f => e.date # f.date

LEMMA SameSize == \A S : Lists!Cardinality(S) = Cardinality(S)
BY DEF Lists!Cardinality, Cardinality

\* The place of each entry is the number of newer ones.
LEMMA InOrder ==
    ASSUME NEW S, Dated(S)
    PROVE  \E l \in Lists!SetToSeqs(S) : \A i, k \in DOMAIN l : i < k => Lists!Newer(l[i], l[k])
<1> DEFINE n == Cardinality(S)
           D == 1..n
           Above(e) == {f \in S : Lists!Newer(f, e)}
           r == [e \in S |-> Cardinality(Above(e)) + 1]
<1>1. IsFiniteSet(S) /\ n \in Nat
  BY FS_CardinalityType DEF Dated
<1>2. ASSUME NEW e \in S
      PROVE  IsFiniteSet(Above(e)) /\ Cardinality(Above(e)) \in Nat /\ Cardinality(Above(e)) < n
  <2>1. Above(e) \subseteq S /\ e \notin Above(e)
    BY DEF Lists!Newer, Dated
  <2>2. IsFiniteSet(Above(e)) /\ Cardinality(Above(e)) <= n /\ (n = Cardinality(Above(e)) => S = Above(e))
    <3>. HIDE DEF Above
    <3>. QED  BY <1>1, <2>1, FS_Subset
  <2>3. Cardinality(Above(e)) \in Nat
    BY <2>2, FS_CardinalityType
  <2>. HIDE DEF Above
  <2>. QED  BY <1>1, <2>1, <2>2, <2>3
<1>3. ASSUME NEW e \in S, NEW f \in S, Lists!Newer(e, f)
      PROVE  r[e] < r[f]
  <2>1. Above(e) \subseteq Above(f) /\ e \in Above(f) /\ e \notin Above(e)
    BY <1>3 DEF Lists!Newer, Dated
  <2>2. Cardinality(Above(e)) <= Cardinality(Above(f))
        /\ (Cardinality(Above(f)) = Cardinality(Above(e)) => Above(f) = Above(e))
    <3>. HIDE DEF Above
    <3>. QED  BY <1>2, <2>1, FS_Subset
  <2>. HIDE DEF Above
  <2>. QED  BY <1>2, <2>1, <2>2
<1>4. r \in [S -> D]
  <2>. HIDE DEF Above, n
  <2>. QED  BY <1>1, <1>2
<1>5. \A e, f \in S : e # f => Lists!Newer(e, f) \/ Lists!Newer(f, e)
  BY DEF Dated, Lists!Newer
<1>6. r \in Injection(S, D)
  <2>. HIDE DEF r, D
  <2>1. \A e, f \in S : r[e] \in Int /\ r[f] \in Int
    BY <1>4 DEF D
  <2>. QED  BY <1>3, <1>4, <1>5, <2>1 DEF Injection, IsInjective
<1>7. IsFiniteSet(D) /\ Cardinality(D) = n
  BY <1>1, FS_Interval
<1>8. r \in Surjection(S, D)
  <2>. HIDE DEF r, D
  <2>. QED  BY <1>1, <1>6, <1>7, FS_Injection
<1>. DEFINE l == [i \in D |-> CHOOSE e \in S : r[e] = i]
<1>9. \A i \in D : l[i] \in S /\ r[l[i]] = i
  <2>. HIDE DEF r, D
  <2>. QED  BY <1>8 DEF Surjection
<1>10. l \in [D -> S] /\ DOMAIN l = D
  BY <1>9
<1>. HIDE DEF l, r
<1>11. \A i, j \in D : i # j => l[i] # l[j]
  BY <1>9
<1>12. l \in Lists!SetToSeqs(S)
  BY <1>10, <1>11, SameSize DEF Lists!SetToSeqs
<1>13. ASSUME NEW i \in D, NEW k \in D, i < k PROVE Lists!Newer(l[i], l[k])
  <2>1. l[i] # l[k] /\ l[i] \in S /\ l[k] \in S /\ ~(r[l[k]] < r[l[i]])
    BY <1>9, <1>11, <1>13
  <2>. QED  BY <1>3, <1>5, <2>1
<1>. QED  BY <1>10, <1>12, <1>13

LEMMA OrderedIs ==
    ASSUME NEW S, Dated(S)
    PROVE  LET l == Lists!Ordered(S) IN
           /\ l \in [1..Cardinality(S) -> S] /\ Cardinality(S) \in Nat
           /\ \A i, j \in DOMAIN l : i # j => l[i] # l[j]
           /\ \A e \in S : \E i \in DOMAIN l : l[i] = e
<1>1. PICK l : l = Lists!Ordered(S)
  OBVIOUS
<1>2. l \in Lists!SetToSeqs(S)
  BY <1>1, InOrder DEF Lists!Ordered
<1>3. IsFiniteSet(S) /\ Cardinality(S) \in Nat
  BY FS_CardinalityType DEF Dated
<1>. DEFINE D == 1..Cardinality(S)
<1>4. l \in [D -> S] /\ \A i, j \in D : i # j => l[i] # l[j]
  BY <1>2, SameSize DEF Lists!SetToSeqs
<1>5. IsFiniteSet(D) /\ Cardinality(D) = Cardinality(S)
  BY <1>3, FS_Interval
<1>. HIDE DEF D
<1>6. l \in Injection(D, S)
  BY <1>4 DEF Injection, IsInjective
<1>7. l \in Surjection(D, S)
  BY <1>3, <1>5, <1>6, FS_Injection
<1>8. \A e \in S : \E i \in D : l[i] = e
  BY <1>7 DEF Surjection
<1>9. DOMAIN l = D
  BY <1>4
<1>. QED  BY <1>1, <1>3, <1>4, <1>8, <1>9 DEF D

\* Of entries that say the same, one is the newest.
LEMMA NewestOf ==
    ASSUME NEW S, Dated(S), NEW e \in S
    PROVE  \E f \in Lists!Deduplicated(S) : f = e \/ Lists!Same(f, e)
<1> DEFINE Over(f) == {g \in S : Lists!Same(g, f) /\ Lists!Newer(g, f)}
           C == {f \in S : f = e \/ Lists!Same(f, e)}
           T == {Over(f) : f \in C}
<1>1. IsFiniteSet(S)
  BY DEF Dated
<1>2. T \subseteq FiniteSubsetsOf(S)
  <2>. SUFFICES ASSUME NEW f \in C PROVE Over(f) \in FiniteSubsetsOf(S)
    OBVIOUS
  <2>1. Over(f) \subseteq S
    OBVIOUS
  <2>. HIDE DEF Over
  <2>. QED  BY <1>1, <2>1, FS_Subset DEF FiniteSubsetsOf
<1>3. T # {}
  OBVIOUS
<1>4. IsWellFoundedOn(StrictSubsetOrdering(S), FiniteSubsetsOf(S))
  BY FS_StrictSubsetOrderingWellFounded
<1>5. PICK U \in T : \A V \in T : <<V, U>> \notin StrictSubsetOrdering(S)
  <2>. HIDE DEF T
  <2>. QED  BY <1>2, <1>3, <1>4, WFMin
<1>6. PICK f \in C : U = Over(f)
  OBVIOUS
<1>7. ASSUME NEW g \in Over(f) PROVE FALSE
  <2>1. g \in C
    BY <1>6 DEF Lists!Same
  <2>2. Over(g) \subseteq Over(f) /\ g \notin Over(g)
    BY DEF Lists!Same, Lists!Newer, Dated
  <2>3. Over(g) \in T /\ Over(g) # Over(f)
    BY <2>1, <2>2
  <2>4. Over(g) \subseteq S /\ Over(f) \subseteq S
    OBVIOUS
  <2>. HIDE DEF T, Over, C
  <2>. QED  BY <1>5, <1>6, <2>2, <2>3, <2>4 DEF StrictSubsetOrdering
<1>. QED  BY <1>6, <1>7 DEF Lists!Deduplicated, Lists!Same

LEMMA DisplayedDated ==
    ASSUME document \in Documents
    PROVE  LET S == {Lists!Left(e) : e \in {f \in Asked : Lists!Kept(f)}} IN Dated(S) /\ Dated(Displayed)
<1> DEFINE M == {f \in Asked : Lists!Kept(f)}
           S == {Lists!Left(e) : e \in M}
<1>1. IsFiniteSet(M)
  <2>1. M \subseteq document
    BY MineIsBox
  <2>. HIDE DEF M
  <2>. QED  BY <2>1, DatesDiffer, FS_Subset
<1>2. IsFiniteSet(S)
  <2>. DEFINE g == [e \in M |-> Lists!Left(e)]
  <2>1. g \in Surjection(M, S)
    BY DEF Surjection
  <2>. HIDE DEF g, M, S
  <2>. QED  BY <1>1, <2>1, FS_Surjection
<1>3. \A e \in M : Lists!Left(e).date = e.date /\ e.date \in Int
  BY LeftOf, MineTyped
<1>4. \A e, f \in M : e # f => e.date # f.date
  BY MineIsBox, DatesDiffer
<1>5. Dated(S)
  BY <1>2, <1>3, <1>4 DEF Dated
<1>6. Displayed \subseteq S
  BY DEF Displayed, Lists!Deduplicated
<1>. HIDE DEF S
<1>7. Dated(Displayed)
  BY <1>5, <1>6, FS_Subset DEF Dated
<1>. QED  BY <1>5, <1>7 DEF S

-----------------------------------------------------------------------------
LEMMA ListInit == Lists!Init => ListInv
<1>. SUFFICES ASSUME Lists!Init PROVE ListInv
  OBVIOUS
<1>1. req = Lists!Nothing /\ req.at = "idle"
  BY DEF Lists!Init, Lists!Nothing
<1>2. ReqOK
  BY <1>1 DEF ReqOK, Lists!Nothing, Lists!Tabs
<1>3. SparedOK
  BY DEF Lists!Init, SparedOK
<1>4. UsersRead /\ TweetsRead
  BY <1>1 DEF UsersRead, TweetsRead
<1>5. ListRead
  BY <1>1 DEF Lists!Init, ListRead
<1>. QED  BY <1>2, <1>3, <1>4, <1>5 DEF ListInv, Lists!Init

\* What others do meanwhile: more is gone, and more have been spared.
LEMMA HappensKept ==
    ASSUME ListInv, Lists!Happens, lost \subseteq lost', friends \subseteq friends', SparedOK'
    PROVE  ListInv'
<1>1. UNCHANGED <<document, req, list, missed>> /\ req.at # "done"
  BY DEF Lists!Happens
<1>2. Asked' = Asked
  BY <1>1 DEF Asked, Lists!Entries
<1>3. ReqOK' /\ ListRead'
  BY <1>1, <1>2 DEF ListInv, ReqOK, ListRead
<1>4. UsersRead' /\ TweetsRead'
  BY <1>1 DEF ListInv, UsersRead, TweetsRead, Lists!Named, Lists!Related, Lists!Entries
<1>. QED  BY <1>1, <1>3, <1>4 DEF ListInv

LEMMA ListDeleteKept == ASSUME ListInv, NEW x, Lists!Delete(x) PROVE ListInv'
<1>1. SparedOK'
  BY DEF Lists!Delete, ListInv, SparedOK
<1>. QED  BY <1>1, HappensKept DEF Lists!Delete
LEMMA ListBlockKept == ASSUME ListInv, NEW u \in Actors, Lists!Block(u) PROVE ListInv'
<1>1. SparedOK'
  BY DEF Lists!Block, ListInv, SparedOK
<1>. QED  BY <1>1, HappensKept DEF Lists!Block
LEMMA ListUnblockKept == ASSUME ListInv, NEW u \in Actors, Lists!Unblock(u) PROVE ListInv'
<1>1. SparedOK'
  BY DEF Lists!Unblock, ListInv, SparedOK
<1>. QED  BY <1>1, HappensKept DEF Lists!Unblock

LEMMA LoadKept == ASSUME ListInv, NEW tab \in Lists!Tabs, Lists!Load(tab) PROVE ListInv'
<1> DEFINE at == IF Lists!Entries(tab) = {} THEN "done" ELSE "fetch"
<1>1. UNCHANGED <<document, lost, shunned, friends, list, missed>> /\ req.at = "idle" /\ list = <<>> /\ missed = {}
  BY DEF Lists!Load, ListInv, ListRead
<1>2. req' = [tab |-> tab, at |-> at, users |-> {}, blocked |-> {}, tweets |-> {}]
  BY DEF Lists!Load, Lists!Nothing
<1>3. at \in {"done", "fetch"} /\ (at = "done" <=> Lists!Entries(tab) = {})
  OBVIOUS
<1>4. Asked' = Lists!Entries(tab)
  BY <1>1, <1>2 DEF Asked, Lists!Entries
<1>5. at = "done" => Lists!Named(tab) = {} /\ Lists!Related(tab) = {}
  BY <1>3 DEF Lists!Named, Lists!Related
<1>6. Lists!Named(tab)' = Lists!Named(tab) /\ Lists!Related(tab)' = Lists!Related(tab)
  BY <1>1 DEF Lists!Named, Lists!Related, Lists!Entries
<1>. HIDE DEF at
<1>7. ReqOK'
  BY <1>2, <1>3 DEF ReqOK
<1>8. UsersRead' /\ TweetsRead'
  BY <1>2, <1>3, <1>5, <1>6 DEF UsersRead, TweetsRead, Lists!Named, Lists!Related, Lists!Entries
<1>9. ListRead'
  BY <1>1, <1>2, <1>3, <1>4 DEF ListRead
<1>10. SparedOK' /\ document' \in Documents
  BY <1>1 DEF ListInv, SparedOK
<1>. QED  BY <1>7, <1>8, <1>9, <1>10 DEF ListInv

\* A read of the request, which is not over.
LEMMA ReadKept ==
    ASSUME ListInv, UNCHANGED <<document, lost, shunned, friends, list, missed>>, ReqOK',
           req.at # "done", req'.at # "done", UsersRead', TweetsRead'
    PROVE  ListInv'
<1>1. ListRead'
  BY DEF ListInv, ListRead
<1>2. SparedOK' /\ document' \in Documents
  BY DEF ListInv, SparedOK
<1>. QED  BY <1>1, <1>2 DEF ListInv

LEMMA FetchUsersKept == ASSUME ListInv, Lists!FetchUsers PROVE ListInv'
<1> DEFINE there == (Lists!Named(req.tab) \cap Actors) \ lost
           bad == there \cap Lists!Related(req.tab) \cap shunned
           at == IF req.at = "fetch" THEN "users" ELSE "both"
<1>1. UNCHANGED <<document, lost, shunned, friends, list, missed>> /\ req.at \in {"fetch", "tweets"}
  BY DEF Lists!FetchUsers
<1>2. req' = [req EXCEPT !.at = at, !.users = there, !.blocked = bad]
  BY DEF Lists!FetchUsers
<1>3. at \in {"users", "both"} /\ (at = "both" => req.at = "tweets")
  BY <1>1
<1>4. there \subseteq Actors /\ bad \subseteq Actors
  OBVIOUS
<1>5. there \cap Lists!Related(req.tab) \subseteq bad \cup friends
  BY DEF ListInv, SparedOK
<1>. HIDE DEF bad, at
<1>6. /\ ReqOK' /\ req'.tab = req.tab /\ req'.at = at /\ req'.users = there /\ req'.blocked = bad
      /\ req'.tweets = req.tweets
  <2>. HIDE DEF there
  <2>. QED  BY <1>2, <1>3, <1>4 DEF ListInv, ReqOK
<1>7. UsersRead'
  BY <1>1, <1>5, <1>6 DEF UsersRead, Lists!Named, Lists!Related, Lists!Entries
<1>8. TweetsRead'
  BY <1>1, <1>3, <1>6 DEF ListInv, TweetsRead, Lists!Named, Lists!Entries
<1>. QED  BY <1>1, <1>3, <1>6, <1>7, <1>8, ReadKept

LEMMA FetchTweetsKept == ASSUME ListInv, Lists!FetchTweets PROVE ListInv'
<1> DEFINE there == (Lists!Named(req.tab) \cap Tweets) \ lost
           at == IF req.at = "fetch" THEN "tweets" ELSE "both"
<1>1. UNCHANGED <<document, lost, shunned, friends, list, missed>> /\ req.at \in {"fetch", "users"}
  BY DEF Lists!FetchTweets
<1>2. req' = [req EXCEPT !.at = at, !.tweets = there]
  BY DEF Lists!FetchTweets
<1>3. at \in {"tweets", "both"} /\ (at = "both" => req.at = "users")
  BY <1>1
<1>4. there \subseteq Tweets
  OBVIOUS
<1>. HIDE DEF at
<1>6. /\ ReqOK' /\ req'.tab = req.tab /\ req'.at = at /\ req'.tweets = there
      /\ req'.users = req.users /\ req'.blocked = req.blocked
  <2>. HIDE DEF there
  <2>. QED  BY <1>2, <1>3, <1>4 DEF ListInv, ReqOK
<1>7. TweetsRead'
  BY <1>1, <1>6 DEF TweetsRead, Lists!Named, Lists!Entries
<1>8. UsersRead'
  BY <1>1, <1>3, <1>6 DEF ListInv, UsersRead, Lists!Named, Lists!Related, Lists!Entries
<1>. QED  BY <1>1, <1>3, <1>6, <1>7, <1>8, ReadKept

\* Only what is gone is missed.
LEMMA MissedIsGone ==
    ASSUME ListInv, req.at = "both", NEW e \in Asked PROVE Lists!Missing(e) \subseteq lost
<1>1. document \in Documents
  BY DEF ListInv
<1>2. e.who \ req.users \subseteq lost
  BY <1>1, NamedOf DEF ListInv, UsersRead
<1>3. e.what \ req.tweets \subseteq lost
  BY <1>1, NamedOf DEF ListInv, TweetsRead
<1>4. {e.on} \ (req.tweets \cup {None}) \subseteq lost
  BY <1>1, NamedOf DEF ListInv, TweetsRead
<1>. QED  BY <1>2, <1>3, <1>4 DEF Lists!Missing

LEMMA ShowKept == ASSUME ListInv, Lists!Show PROVE ListInv'
<1>1. UNCHANGED <<document, lost, shunned, friends>> /\ req.at = "both" /\ req' = [req EXCEPT !.at = "done"]
  BY DEF Lists!Show
<1>2. /\ ReqOK' /\ req'.tab = req.tab /\ req'.at = "done" /\ req'.tweets = req.tweets
      /\ req'.users = req.users /\ req'.blocked = req.blocked
  BY <1>1 DEF ListInv, ReqOK
<1>3. UsersRead' /\ TweetsRead'
  BY <1>1, <1>2 DEF ListInv, UsersRead, TweetsRead, Lists!Named, Lists!Related, Lists!Entries
<1>4. Asked' = Asked
  BY <1>1, <1>2 DEF Asked, Lists!Entries
<1>5. Displayed' = Displayed
  BY <1>2, <1>4 DEF Displayed, Lists!Left, Lists!Kept
<1>6. list' = Lists!Ordered(Displayed)
  BY DEF Lists!Show, Displayed, Asked
<1>7. Lists!Ordered(Displayed)' = Lists!Ordered(Displayed')
  OBVIOUS
<1>8. missed' = UNION {Lists!Missing(e) : e \in Asked}
  BY DEF Lists!Show, Asked
<1>9. missed' \subseteq lost
  BY <1>1, <1>8, MissedIsGone
<1>10. Asked = {} => list' = <<>> /\ missed' = {}
  <2>. SUFFICES ASSUME Asked = {} PROVE list' = <<>>
    BY <1>8
  <2>1. Displayed = {}
    BY DEF Displayed, Lists!Deduplicated
  <2>2. Dated({}) /\ Cardinality({}) = 0
    BY FS_EmptySet DEF Dated
  <2>3. list' \in [1..0 -> {}]
    BY <1>6, <2>1, <2>2, OrderedIs
  <2>. QED  BY <2>3
<1>11. ListRead'
  BY <1>1, <1>2, <1>4, <1>5, <1>6, <1>9, <1>10 DEF ListRead
<1>12. SparedOK' /\ document' \in Documents
  BY <1>1 DEF ListInv, SparedOK
<1>. QED  BY <1>2, <1>3, <1>11, <1>12 DEF ListInv

LEMMA ListStep == ListInv /\ [Lists!Next]_(Lists!vars) => ListInv'
<1>. SUFFICES ASSUME ListInv, [Lists!Next]_(Lists!vars) PROVE ListInv'
  OBVIOUS
<1>1. ASSUME NEW tab \in Lists!Tabs, Lists!Load(tab) PROVE ListInv'
  BY <1>1, LoadKept
<1>2. CASE Lists!FetchUsers \/ Lists!FetchTweets \/ Lists!Show
  BY <1>2, FetchUsersKept, FetchTweetsKept, ShowKept
<1>3. ASSUME NEW x \in Actors \cup Tweets, Lists!Delete(x) PROVE ListInv'
  BY <1>3, ListDeleteKept
<1>4. ASSUME NEW u \in Actors, Lists!Block(u) \/ Lists!Unblock(u) PROVE ListInv'
  BY <1>4, ListBlockKept, ListUnblockKept
<1>5. CASE UNCHANGED Lists!vars
  <2>1. UNCHANGED <<document, lost, shunned, friends, req, list, missed>>
    BY <1>5 DEF Lists!vars
  <2>2. ReqOK' /\ SparedOK' /\ UsersRead' /\ TweetsRead' /\ document' \in Documents
    BY <2>1 DEF ListInv, ReqOK, SparedOK, UsersRead, TweetsRead, Lists!Named, Lists!Related, Lists!Entries
  <2>3. Asked' = Asked /\ Displayed' = Displayed
    BY <2>1 DEF Asked, Displayed, Lists!Entries, Lists!Left, Lists!Kept
  <2>4. ListRead'
    BY <2>1, <2>3 DEF ListInv, ListRead
  <2>. QED  BY <2>2, <2>4 DEF ListInv
<1>. QED  BY <1>1, <1>2, <1>3, <1>4, <1>5 DEF Lists!Next

LEMMA ListInductive == Lists!Spec => []ListInv
BY ListInit, ListStep, PTL DEF Lists!Spec

-----------------------------------------------------------------------------
\* Whoever is there is kept with what is there.
LEMMA KeptOf ==
    ASSUME ListInv, req.at = "done", NEW e \in Asked, Lists!Answerable(e), NEW m \in Lists!Means(e)
    PROVE  /\ Lists!Kept(e) /\ m[1] = e.type /\ m[2] \in e.who \cap req.users
           /\ m[3] \in (e.what \cap req.tweets) \cup {None}
<1>0. document \in Documents
  BY DEF ListInv
<1>1. PICK u \in e.who \ lost, t \in IF e.what = {} THEN {None} ELSE e.what \ lost : m = <<e.type, u, t>>
  BY DEF Lists!Means
<1>2. u \in e.who \cap req.users
  BY <1>0, <1>1, NamedOf DEF ListInv, UsersRead
<1>3. t \in (e.what \cap req.tweets) \cup {None} /\ (e.what # {} => t \in e.what \cap req.tweets)
  BY <1>0, <1>1, NamedOf DEF ListInv, TweetsRead
<1>4. e.type \in {"LIKE", "REPOST"} => e.what \cap req.tweets # {}
  BY <1>0, <1>3, MineTyped
<1>5. e.type \in {"QUOTE", "MENTION"} => e.what \subseteq req.tweets
  BY <1>0, <1>3, MineTyped DEF Lists!Singles
<1>6. e.type \in {"REPLY", "QUOTE"} => e.on \in req.tweets
  <2>. SUFFICES ASSUME e.type \in {"REPLY", "QUOTE"} PROVE e.on \in req.tweets
    OBVIOUS
  <2>1. e.on \in Tweets /\ e.on # None /\ e.on \notin lost
    BY <1>0, MineTyped, NoneIsNothing DEF Lists!Answerable
  <2>. QED  BY <1>0, <2>1, NamedOf DEF ListInv, TweetsRead
<1>7. Lists!Kept(e)
  BY <1>2, <1>4, <1>5, <1>6 DEF Lists!Kept
<1>. QED  BY <1>1, <1>2, <1>3, <1>7

\* Of any document, whatever is deleted while it is read, a list leaves out nothing
\* that is there (getUserNotifications, getMentionsAndReplies).
LEMMA AllListedHolds == ListInv => Lists!AllListed
<1>1. ASSUME ListInv PROVE Lists!AllListed
  <2>. SUFFICES ASSUME req.at = "done", NEW e \in Asked, Lists!Answerable(e), NEW m \in Lists!Means(e)
                PROVE  \E i \in DOMAIN list :
                         m[1] = list[i].type /\ m[2] \in list[i].who /\ m[3] \in list[i].what \cup {None}
    BY DEF Lists!AllListed, Asked
  <2>0. document \in Documents
    BY <1>1 DEF ListInv
  <2> DEFINE S == {Lists!Left(f) : f \in {g \in Asked : Lists!Kept(g)}}
  <2>1. /\ Lists!Kept(e) /\ m[1] = e.type /\ m[2] \in e.who \cap req.users
        /\ m[3] \in (e.what \cap req.tweets) \cup {None}
    BY <1>1, KeptOf
  <2>2. Lists!Left(e) \in S /\ m[1] = Lists!Left(e).type /\ m[2] \in Lists!Left(e).who /\ m[3] \in Lists!Left(e).what \cup {None}
    BY <2>0, <2>1, LeftOf
  <2>3. Dated(S) /\ Dated(Displayed) /\ Displayed = Lists!Deduplicated(S)
    BY <2>0, DisplayedDated DEF Displayed
  <2>. HIDE DEF S
  <2>4. PICK f \in Displayed : f = Lists!Left(e) \/ Lists!Same(f, Lists!Left(e))
    BY <2>2, <2>3, NewestOf
  <2>5. m[1] = f.type /\ m[2] \in f.who /\ m[3] \in f.what \cup {None}
    BY <2>2, <2>4 DEF Lists!Same
  <2>6. list = Lists!Ordered(Displayed)
    BY <1>1 DEF ListInv, ListRead
  <2>7. PICK i \in DOMAIN list : list[i] = f
    BY <2>3, <2>6, OrderedIs
  <2>. QED  BY <2>5, <2>7
<1>. QED  BY <1>1

\* A list shows nothing twice and nobody who was blocked all the time, and what it
\* queues to be cleared is gone (filtered_paginated_notifications).
LEMMA ListedRightlyHolds == ListInv => Lists!ListedRightly
<1>1. ASSUME ListInv PROVE Lists!ListedRightly
  <2>0. document \in Documents
    BY <1>1 DEF ListInv
  <2>1. CASE ~(req.at = "done" /\ Asked # {})
    <3>1. list = <<>> /\ missed = {}
      BY <1>1, <2>1 DEF ListInv, ListRead
    <3>2. DOMAIN list = {}
      BY <3>1
    <3>. QED  BY <3>1, <3>2 DEF Lists!ListedRightly, Lists!BlockedHidden, Lists!NoTwins
  <2>2. CASE req.at = "done" /\ Asked # {}
    <3>1. list = Lists!Ordered(Displayed) /\ missed \subseteq lost
      BY <1>1, <2>2 DEF ListInv, ListRead
    <3>2. Dated(Displayed)
      BY <2>0, DisplayedDated
    <3>3. /\ list \in [1..Cardinality(Displayed) -> Displayed] /\ Cardinality(Displayed) \in Nat
          /\ \A i, j \in DOMAIN list : i # j => list[i] # list[j]
      BY <3>1, <3>2, OrderedIs
    <3>4. Lists!NoTwins
      <4>. SUFFICES ASSUME NEW i \in DOMAIN list, NEW k \in DOMAIN list,
                           i # k, Lists!Same(list[i], list[k])
                    PROVE  FALSE
        BY DEF Lists!NoTwins, Lists!Same
      <4>1. list[i] \in Displayed /\ list[k] \in Displayed /\ list[i] # list[k]
        BY <3>3
      <4>2. Lists!Newer(list[i], list[k]) \/ Lists!Newer(list[k], list[i])
        BY <3>2, <4>1 DEF Dated, Lists!Newer
      <4>. QED  BY <4>1, <4>2 DEF Displayed, Lists!Deduplicated, Lists!Same
    <3>5. ASSUME NEW e \in Displayed, ~Lists!Hidden(e), e.type \in Lists!Singles
          PROVE  e.who \subseteq friends
      <4>1. PICK f \in Asked : e = Lists!Left(f) /\ Lists!Kept(f)
        BY DEF Displayed, Lists!Deduplicated
      <4>2. e.type = f.type /\ e.who = f.who \cap req.users
        BY <2>0, <4>1, LeftOf
      <4>3. PICK u \in Actors : f.who = {u}
        BY <2>0, <3>5, <4>2, MineTyped
      <4>4. e.who \subseteq {u} /\ e.who \subseteq req.users \cap Lists!Related(req.tab)
        BY <2>0, <3>5, <4>2, <4>3, NamedOf
      <4>5. ~(e.who \subseteq req.blocked)
        BY <3>5 DEF Lists!Hidden
      <4>. QED  BY <1>1, <2>2, <4>4, <4>5 DEF ListInv, UsersRead
    <3>6. ASSUME NEW n \in DOMAIN list PROVE Lists!ToSet(Lists!Page(n)) \subseteq Displayed
      <4> DEFINE lo == (n - 1) * PageSize + 1
                 hi == Lists!Min({n * PageSize, Len(list)})
      <4>1. n \in Nat /\ n >= 1 /\ PageSize \in Nat /\ Len(list) = Cardinality(Displayed) /\ Len(list) \in Nat
        BY <3>3, SomePage
      <4>2. lo \in Nat /\ lo >= 1
        BY <4>1
      <4>3. n * PageSize \in Int
        BY <4>1
      <4>4. hi \in Int /\ hi <= Len(list)
        <5>. HIDE DEF lo
        <5>1. PICK p : p = n * PageSize
          OBVIOUS
        <5>2. hi = CHOOSE x \in {p, Len(list)} : \A y \in {p, Len(list)} : x <= y
          BY <5>1 DEF Lists!Min
        <5>3. \E x \in {p, Len(list)} : \A y \in {p, Len(list)} : x <= y
          BY <4>1, <4>3, <5>1
        <5>. HIDE DEF hi
        <5>. QED  BY <4>1, <4>3, <5>1, <5>2, <5>3
      <4>5. Lists!Page(n) = SubSeq(list, lo, hi)
        BY DEF Lists!Page
      <4>. HIDE DEF lo, hi
      <4>6. \A i \in lo..hi : list[i] \in Displayed
        BY <3>3, <4>1, <4>2, <4>4
      <4>7. \A i \in DOMAIN Lists!Page(n) : Lists!Page(n)[i] \in Displayed
        BY <4>2, <4>4, <4>5, <4>6
      <4>. QED  BY <4>7 DEF Lists!ToSet
    <3>7. Lists!BlockedHidden
      BY <3>5, <3>6 DEF Lists!BlockedHidden, Lists!Shown
    <3>. QED  BY <3>1, <3>4, <3>7 DEF Lists!ListedRightly
  <2>. QED  BY <2>1, <2>2
<1>. QED  BY <1>1

\* However documents, tweets and people go while a request reads them, a list is what
\* is left of the document at its end, and nothing else.
THEOREM ListFaithfulHolds == Lists!Spec => []ListFaithful
<1>1. ListInv => ListFaithful
  BY AllListedHolds, ListedRightlyHolds DEF ListFaithful, Lists!ListFaithful
<1>. QED  BY <1>1, ListInductive, PTL
==============================================================================
