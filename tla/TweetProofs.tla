----------------------------- MODULE TweetProofs -----------------------------
(***************************************************************************)
(* Tweets, for any users, tweets and requests: their rows and counters     *)
(* (TweetEngagement), then their documents (SearchIndex).                  *)
(*                                                                         *)
(* The counters are related to their rows only together with facts about   *)
(* the links between tweets and about what an open transaction remembers:  *)
(* Links is that strengthening, and IInv the inductive invariant.          *)
(***************************************************************************)
EXTENDS TweetStore, FiniteSetTheorems, TLAPS

\* Only replies and quotes have a parent; a link is never redirected, so what a
\* deletion read of it is still the link or the link is gone.
Links ==
    /\ \A t \in Tweets : parent[t] # NoTweet => kind[t] \in {"reply", "quote"}
    /\ \A r \in Requests : Doing(r, "deleteTweet") =>
           /\ task[r].tweet \in minted
           /\ parent[task[r].tweet] \in {task[r].parent, NoTweet}
    /\ \A r \in Requests : Doing(r, "update") =>
           /\ task[r].tweet \in minted
           /\ author[task[r].tweet] = task[r].user

Base == TypeOK /\ Links /\ NoOrphans

\* A counter starts at zero, so that it is right when its tweet is inserted.
Fresh == \A t \in Tweets \ minted : num[t] = Zero

\* What CountersExact and RacesOnlyUnderstate say of one tweet.
Counted(t) ==
    /\ t \notin skewed => CountsAtMostRows(t)
    /\ t \notin skewed \cup raced => CountsRows(t)

Counts == Fresh /\ \A t \in live : Counted(t)

IInv == Base /\ Counts

-----------------------------------------------------------------------------
(* Counting and cascading *)

LEMMA CountAdd ==
    ASSUME NEW S, NEW x, IsFiniteSet(S), x \notin S
    PROVE  Cardinality(S) \in Nat /\ Cardinality(S \cup {x}) = Cardinality(S) + 1
BY FS_AddElement, FS_CardinalityType

LEMMA CountRemove ==
    ASSUME NEW S, NEW x, IsFiniteSet(S), x \in S
    PROVE  Cardinality(S) \in Nat /\ Cardinality(S \ {x}) = Cardinality(S) - 1
BY FS_RemoveElement, FS_CardinalityType

LEMMA RowsFinite ==
    ASSUME TypeOK, NEW t \in Tweets, NEW k
    PROVE  /\ IsFiniteSet(likes[t]) /\ IsFiniteSet(bookmarks[t])
           /\ IsFiniteSet(reposts[t]) /\ IsFiniteSet(ChildRows(t, k))
<1>1. likes[t] \in SUBSET Users /\ bookmarks[t] \in SUBSET Users /\ reposts[t] \in SUBSET Users
  BY DEF TypeOK
<1>2. ChildRows(t, k) \in SUBSET Tweets
  BY DEF TypeOK, ChildRows
<1>. QED BY <1>1, <1>2, FS_Subset, FiniteUsers, FiniteTweets

\* A cascade holds the live tweets it starts from and is closed under children;
\* a tweet it takes away from a surviving parent is one it starts from.
LEMMA CascadeClosed ==
    ASSUME NEW S
    PROVE  /\ Cascade(S) \subseteq live
           /\ S \cap live \subseteq Cascade(S)
           /\ ChildClosed(Cascade(S))
           /\ \A c \in Cascade(S) : parent[c] \notin Cascade(S) => c \in S
<1>1. Cascade(S) \subseteq live /\ S \cap live \subseteq Cascade(S) /\ ChildClosed(Cascade(S))
  BY DEF Cascade, ChildClosed
<1>2. ASSUME NEW c \in Cascade(S), parent[c] \notin Cascade(S), c \notin S
      PROVE  FALSE
  <2> DEFINE D == Cascade(S) \ {c}
  <2>1. D \in SUBSET live /\ S \cap live \subseteq D
    BY <1>1, <1>2
  <2>2. ChildClosed(D)
    BY <1>1, <1>2 DEF ChildClosed
  <2>3. c \in D
    BY <2>1, <2>2 DEF Cascade
  <2>. QED BY <2>3
<1>. QED BY <1>1, <1>2

-----------------------------------------------------------------------------
(* Types, links and orphans *)

LEMMA BaseInit == Init => Base
<1>. SUFFICES ASSUME Init PROVE Base
  OBVIOUS
<1>1. TypeOK
  BY SeedAreTweets DEF Init, TypeOK, Zero, Counters, Kinds, TweetOrNone
<1>2. Links
  BY DEF Init, Links, Doing
<1>3. NoOrphans
  BY <1>1 DEF Init, NoOrphans, TypeOK
<1>. QED BY <1>1, <1>2, <1>3 DEF Base

\* A step that reads changes nothing but its own task.
LEMMA BeginBase ==
    ASSUME Base, NEW r \in Requests, NEW op, NEW u, NEW t, NEW p, NEW c, NEW n,
           [op |-> op, user |-> u, tweet |-> t, parent |-> p, conv |-> c, seen |-> n] \in Tasks,
           Begin(r, op, u, t, p, c, n),
           op = "deleteTweet" => t \in minted /\ parent[t] = p,
           op = "update" => t \in minted /\ author[t] = u
    PROVE  Base'
<1>1. TypeOK'
  BY DEF Base, TypeOK, Begin, Idle, shape, rows
<1>2. Links'
  BY DEF Base, TypeOK, Links, Begin, Idle, Doing, shape, rows
<1>3. NoOrphans'
  BY DEF Base, NoOrphans, Begin, shape, rows
<1>. QED BY <1>1, <1>2, <1>3 DEF Base

LEMMA InsertBase ==
    ASSUME Base, NEW u \in Users, NEW t \in Tweets, NEW k \in Kinds,
           NEW p \in TweetOrNone, NEW c \in TweetOrNone,
           Insert(u, t, k, p, c), p # NoTweet => k # "tweet" /\ p \in live,
           UNCHANGED <<users, rows, skewed>>,
           num' \in [Tweets -> Counters], raced' = raced,
           \A r \in Requests : task'[r] \in {task[r], NoTask},
           task' \in [Requests -> Tasks \cup {NoTask}],
           served' \subseteq Requests
    PROVE  Base'
<1>1. TypeOK'
  BY DEF Base, TypeOK, Insert, rows
<1>2. Links'
  <2>1. \A s \in Tweets : parent'[s] # NoTweet => kind'[s] \in {"reply", "quote"}
    BY DEF Base, TypeOK, Links, Insert, Kinds
  <2>2. \A s \in minted : s \in minted' /\ parent'[s] = parent[s] /\ author'[s] = author[s]
    BY DEF Base, TypeOK, Insert
  <2>3. \A r \in Requests : \A op : Doing(r, op)' => Doing(r, op) /\ task'[r] = task[r]
    BY DEF Doing
  <2>. QED BY <2>1, <2>2, <2>3 DEF Base, TypeOK, Links, Insert
<1>3. NoOrphans'
  BY DEF Base, TypeOK, NoOrphans, Insert, rows
<1>. QED BY <1>1, <1>2, <1>3 DEF Base

\* A step that changes marks and counters of live tweets, and no tweet.
LEMMA MarkBase ==
    ASSUME Base, UNCHANGED <<users, live, minted, shape>>,
           likes' \in [Tweets -> SUBSET Users], bookmarks' \in [Tweets -> SUBSET Users],
           reposts' \in [Tweets -> SUBSET Users],
           \A t \in Tweets \ live : likes'[t] \cup bookmarks'[t] \cup reposts'[t] = {},
           \A t \in live : likes'[t] \subseteq users,
           num' \in [Tweets -> Counters], skewed' \subseteq Tweets, raced' \subseteq Tweets,
           \A r \in Requests : task'[r] \in {task[r], NoTask},
           task' \in [Requests -> Tasks \cup {NoTask}],
           served' \subseteq Requests
    PROVE  Base'
<1>1. TypeOK'
  BY DEF Base, TypeOK, shape
<1>2. Links'
  <2>1. \A r \in Requests : \A op : Doing(r, op)' => Doing(r, op) /\ task'[r] = task[r]
    BY DEF Doing
  <2>. QED BY <2>1 DEF Base, Links, shape
<1>3. NoOrphans'
  BY DEF Base, TypeOK, NoOrphans, shape
<1>. QED BY <1>1, <1>2, <1>3 DEF Base

\* A step that deletes a set of tweets closed under children, and perhaps an
\* account all of whose tweets are in that set.
LEMMA DeleteBase ==
    ASSUME Base, NEW D \in SUBSET live, ChildClosed(D), live' = live \ D,
           users' \subseteq users, \A t \in live \ D : author[t] \in users',
           UNCHANGED <<minted, shape>>,
           likes' \in [Tweets -> SUBSET Users], bookmarks' \in [Tweets -> SUBSET Users],
           reposts' \in [Tweets -> SUBSET Users],
           \A t \in Tweets \ live : likes'[t] \cup bookmarks'[t] \cup reposts'[t] = {},
           \A t \in D : likes'[t] \cup bookmarks'[t] \cup reposts'[t] = {},
           \A t \in live : likes'[t] \subseteq users',
           num' \in [Tweets -> Counters], skewed' \subseteq Tweets, raced' \subseteq Tweets,
           \A r \in Requests : task'[r] \in {task[r], NoTask},
           task' \in [Requests -> Tasks \cup {NoTask}],
           served' \subseteq Requests
    PROVE  Base'
<1>1. TypeOK'
  BY DEF Base, TypeOK, shape
<1>2. Links'
  <2>1. \A r \in Requests : \A op : Doing(r, op)' => Doing(r, op) /\ task'[r] = task[r]
    BY DEF Doing
  <2>. QED BY <2>1 DEF Base, Links, shape
<1>3. NoOrphans'
  <2>1. \A t \in live' : parent'[t] \in live' \cup {NoTweet}
    BY DEF Base, NoOrphans, ChildClosed, shape
  <2>2. \A t \in Tweets \ live' : likes'[t] \cup bookmarks'[t] \cup reposts'[t] = {}
    OBVIOUS
  <2>3. \A t \in live' : author'[t] \in users' /\ likes'[t] \subseteq users'
    BY DEF shape
  <2>. QED BY <2>1, <2>2, <2>3 DEF NoOrphans
<1>. QED BY <1>1, <1>2, <1>3 DEF Base

LEMMA ServeTasks ==
    ASSUME TypeOK, NEW r \in Requests, Serve(r) \/ Finish(r)
    PROVE  /\ \A s \in Requests : task'[s] \in {task[s], NoTask}
           /\ task' \in [Requests -> Tasks \cup {NoTask}]
           /\ served' \subseteq Requests
BY DEF TypeOK, Serve, Finish

LEMMA TaskType ==
    ASSUME TypeOK, NEW r \in Requests, task[r] # NoTask
    PROVE  /\ task[r].user \in Users /\ task[r].tweet \in Tweets
           /\ task[r].parent \in TweetOrNone /\ task[r].conv \in TweetOrNone
           /\ task[r].seen \in Counters
BY DEF TypeOK, Tasks

\* Any of the five counters may be raised or lowered.
LEMMA CounterStep ==
    ASSUME num \in [Tweets -> Counters], NEW t \in Tweets
    PROVE  /\ [num EXCEPT ![t].likes = @ + 1] \in [Tweets -> Counters]
           /\ [num EXCEPT ![t].likes = @ - 1] \in [Tweets -> Counters]
           /\ [num EXCEPT ![t].bookmarks = @ + 1] \in [Tweets -> Counters]
           /\ [num EXCEPT ![t].bookmarks = @ - 1] \in [Tweets -> Counters]
           /\ [num EXCEPT ![t].reposts = @ + 1] \in [Tweets -> Counters]
           /\ [num EXCEPT ![t].reposts = @ - 1] \in [Tweets -> Counters]
           /\ [num EXCEPT ![t].replies = @ + 1] \in [Tweets -> Counters]
           /\ [num EXCEPT ![t].replies = @ - 1] \in [Tweets -> Counters]
           /\ [num EXCEPT ![t].quotes = @ + 1, ![t].reposts = @ + 1] \in [Tweets -> Counters]
           /\ [num EXCEPT ![t].quotes = @ - 1, ![t].reposts = @ - 1] \in [Tweets -> Counters]
<1>1. [num EXCEPT ![t].likes = @ + 1] \in [Tweets -> Counters]
  BY DEF Counters
<1>2. [num EXCEPT ![t].likes = @ - 1] \in [Tweets -> Counters]
  BY DEF Counters
<1>3. [num EXCEPT ![t].bookmarks = @ + 1] \in [Tweets -> Counters]
  BY DEF Counters
<1>4. [num EXCEPT ![t].bookmarks = @ - 1] \in [Tweets -> Counters]
  BY DEF Counters
<1>5. [num EXCEPT ![t].reposts = @ + 1] \in [Tweets -> Counters]
  BY DEF Counters
<1>6. [num EXCEPT ![t].reposts = @ - 1] \in [Tweets -> Counters]
  BY DEF Counters
<1>7. [num EXCEPT ![t].replies = @ + 1] \in [Tweets -> Counters]
  BY DEF Counters
<1>8. [num EXCEPT ![t].replies = @ - 1] \in [Tweets -> Counters]
  BY DEF Counters
<1>9. [num EXCEPT ![t].quotes = @ + 1, ![t].reposts = @ + 1] \in [Tweets -> Counters]
  <2>. DEFINE m == [num EXCEPT ![t].quotes = @ + 1]
  <2>1. m \in [Tweets -> Counters]
    BY DEF Counters
  <2>2. ASSUME NEW f \in [Tweets -> Counters]
        PROVE  [f EXCEPT ![t].reposts = @ + 1] \in [Tweets -> Counters]
    BY DEF Counters
  <2>3. [m EXCEPT ![t].reposts = @ + 1]
          = [num EXCEPT ![t].quotes = @ + 1, ![t].reposts = @ + 1]
    BY DEF Counters
  <2>. HIDE DEF m
  <2>4. [m EXCEPT ![t].reposts = @ + 1] \in [Tweets -> Counters]
    BY <2>1, <2>2
  <2>. QED BY <2>3, <2>4
<1>10. [num EXCEPT ![t].quotes = @ - 1, ![t].reposts = @ - 1] \in [Tweets -> Counters]
  <2>. DEFINE m == [num EXCEPT ![t].quotes = @ - 1]
  <2>1. m \in [Tweets -> Counters]
    BY DEF Counters
  <2>2. ASSUME NEW f \in [Tweets -> Counters]
        PROVE  [f EXCEPT ![t].reposts = @ - 1] \in [Tweets -> Counters]
    BY DEF Counters
  <2>3. [m EXCEPT ![t].reposts = @ - 1]
          = [num EXCEPT ![t].quotes = @ - 1, ![t].reposts = @ - 1]
    BY DEF Counters
  <2>. HIDE DEF m
  <2>4. [m EXCEPT ![t].reposts = @ - 1] \in [Tweets -> Counters]
    BY <2>1, <2>2
  <2>. QED BY <2>3, <2>4
<1>. QED BY <1>1, <1>2, <1>3, <1>4, <1>5, <1>6, <1>7, <1>8, <1>9, <1>10

LEMMA BaseMark == Base /\ Mark => Base'
<1>. SUFFICES ASSUME Base, NEW r \in Requests, NEW u \in Users, NEW t \in Tweets,
                     \/ LikeTweet(r, u, t)     \/ UnlikeTweet(r, u, t)
                     \/ BookmarkTweet(r, u, t) \/ UnbookmarkTweet(r, u, t)
                     \/ RepostTweet(r, u, t)
              PROVE  Base'
  BY DEF Mark
<1>. USE DEF LikeTweet, UnlikeTweet, BookmarkTweet, UnbookmarkTweet, RepostTweet
<1>1. TypeOK /\ Serve(r) /\ t \in live
  BY DEF Base
<1>2. num' \in [Tweets -> Counters]
  <2>1. num \in [Tweets -> Counters]
    BY <1>1 DEF TypeOK
  <2>2. CASE LikeTweet(r, u, t)
    BY <2>1, <2>2, CounterStep
  <2>3. CASE UnlikeTweet(r, u, t)
    BY <2>1, <2>3, CounterStep
  <2>4. CASE BookmarkTweet(r, u, t)
    BY <2>1, <2>4, CounterStep
  <2>5. CASE UnbookmarkTweet(r, u, t)
    BY <2>1, <2>5, CounterStep
  <2>6. CASE RepostTweet(r, u, t)
    BY <2>1, <2>6, CounterStep
  <2>. QED BY <2>2, <2>3, <2>4, <2>5, <2>6
<1>3. UNCHANGED <<users, live, minted, shape, skewed, raced>>
  OBVIOUS
<1>4. /\ likes' \in [Tweets -> SUBSET Users] /\ bookmarks' \in [Tweets -> SUBSET Users]
      /\ reposts' \in [Tweets -> SUBSET Users]
  BY <1>1 DEF TypeOK
<1>5. /\ \A s \in Tweets \ live : likes'[s] \cup bookmarks'[s] \cup reposts'[s] = {}
      /\ \A s \in live : likes'[s] \subseteq users
  BY <1>1 DEF TypeOK, Base, NoOrphans
<1>. QED BY <1>1, <1>2, <1>3, <1>4, <1>5, ServeTasks, MarkBase DEF TypeOK

LEMMA BasePost == Base /\ Post => Base'
<1>. SUFFICES ASSUME Base, NEW r \in Requests, NEW u \in Users, NEW t \in Tweets
              PROVE  /\ CreateTweet(r, u, t) => Base'
                     /\ \A p \in Tweets : RepostTweetWithQuote(r, u, t, p) => Base'
  BY DEF Post
<1>1. ASSUME CreateTweet(r, u, t) PROVE Base'
  BY <1>1, ServeTasks, InsertBase DEF CreateTweet, Base, TypeOK, Kinds, TweetOrNone
<1>2. ASSUME NEW p \in Tweets, RepostTweetWithQuote(r, u, t, p) PROVE Base'
  <2>1. num' \in [Tweets -> Counters]
    BY <1>2, CounterStep DEF Base, TypeOK, RepostTweetWithQuote
  <2>. QED BY <1>2, <2>1, ServeTasks, InsertBase
              DEF RepostTweetWithQuote, Base, TypeOK, Kinds, TweetOrNone
<1>. QED BY <1>1, <1>2

LEMMA BaseRead == Base /\ Read => Base'
<1>. SUFFICES ASSUME Base, NEW r \in Requests, NEW u \in Users, NEW t \in Tweets
              PROVE  /\ DeleteRepostFind(r, u, t) => Base'
                     /\ DeleteTweetFind(r, u, t) => Base'
                     /\ ReplyFind(r, u, t) => Base'
                     /\ UpdateFind(r, u, t) => Base'
  BY DEF Read
<1>. USE DEF Base, TypeOK, Tasks, TweetOrNone
<1>1. Zero \in Counters /\ num[t] \in Counters
  BY DEF Zero, Counters
<1>2. ASSUME DeleteRepostFind(r, u, t) PROVE Base'
  BY <1>1, <1>2, BeginBase DEF DeleteRepostFind
<1>3. ASSUME DeleteTweetFind(r, u, t) PROVE Base'
  BY <1>1, <1>3, BeginBase DEF DeleteTweetFind
<1>4. ASSUME ReplyFind(r, u, t) PROVE Base'
  BY <1>1, <1>4, BeginBase DEF ReplyFind, Conversation, HasReplyRow
<1>5. ASSUME UpdateFind(r, u, t) PROVE Base'
  BY <1>1, <1>5, BeginBase DEF UpdateFind
<1>. QED BY <1>2, <1>3, <1>4, <1>5

LEMMA BaseCommit == Base /\ Commit => Base'
<1>. SUFFICES ASSUME Base, NEW r \in Requests
              PROVE  /\ DeleteRepostCommit(r) => Base'
                     /\ DeleteTweetCommit(r) => Base'
                     /\ UpdateSave(r) => Base'
                     /\ UpdateReinsert(r) => Base'
                     /\ Abort(r) => Base'
                     /\ \A t \in Tweets : ReplyCommit(r, t) => Base'
  BY DEF Commit
<1>. DEFINE t == task[r].tweet
            p == task[r].parent
<1>0. TypeOK /\ Links /\ NoOrphans
  BY DEF Base
<1>1. ASSUME DeleteRepostCommit(r) PROVE Base'
  <2>. USE <1>1 DEF DeleteRepostCommit
  <2>1. t \in Tweets /\ Finish(r)
    BY <1>0, TaskType DEF Doing
  <2>2. num' \in [Tweets -> Counters]
    BY <1>0, <2>1, CounterStep DEF TypeOK
  <2>3. reposts' \in [Tweets -> SUBSET Users] /\ raced' \subseteq Tweets
    BY <1>0, <2>1 DEF TypeOK
  <2>4. /\ \A s \in Tweets \ live : likes'[s] \cup bookmarks'[s] \cup reposts'[s] = {}
        /\ \A s \in live : likes'[s] \subseteq users
    BY <1>0, <2>1 DEF TypeOK, NoOrphans
  <2>. QED BY <1>0, <2>1, <2>2, <2>3, <2>4, ServeTasks, MarkBase DEF TypeOK
<1>2. ASSUME DeleteTweetCommit(r) PROVE Base'
  <2>. USE <1>2 DEF DeleteTweetCommit
  <2>. DEFINE D == Cascade({t})
  <2>1. t \in Tweets /\ p \in TweetOrNone /\ Finish(r) /\ Remove(D)
    BY <1>0, TaskType DEF Doing
  <2>2. num' \in [Tweets -> Counters] /\ raced' \subseteq Tweets
    BY <1>0, <2>1, CounterStep DEF TypeOK
  <2>3. D \in SUBSET live /\ ChildClosed(D)
    BY CascadeClosed
  <2>4. /\ live' = live \ D
        /\ likes' \in [Tweets -> SUBSET Users] /\ bookmarks' \in [Tweets -> SUBSET Users]
        /\ reposts' \in [Tweets -> SUBSET Users]
        /\ \A s \in Tweets \ live : likes'[s] \cup bookmarks'[s] \cup reposts'[s] = {}
        /\ \A s \in D : likes'[s] \cup bookmarks'[s] \cup reposts'[s] = {}
        /\ \A s \in live : likes'[s] \subseteq users
    <3>. HIDE DEF D, DeleteTweetCommit
    <3>1. /\ live' = live \ D
          /\ likes' \in [Tweets -> SUBSET Users] /\ bookmarks' \in [Tweets -> SUBSET Users]
          /\ reposts' \in [Tweets -> SUBSET Users]
      BY <1>0, <2>1 DEF TypeOK, Remove
    <3>2. \A s \in Tweets : \/ /\ likes'[s] = {} /\ bookmarks'[s] = {} /\ reposts'[s] = {}
                             \/ /\ s \notin D /\ likes'[s] = likes[s]
                                /\ bookmarks'[s] = bookmarks[s] /\ reposts'[s] = reposts[s]
      BY <2>1 DEF Remove
    <3>3. \A s \in Tweets \ live : likes'[s] \cup bookmarks'[s] \cup reposts'[s] = {}
      BY <1>0, <3>2 DEF NoOrphans
    <3>4. \A s \in D : likes'[s] \cup bookmarks'[s] \cup reposts'[s] = {}
      BY <1>0, <2>3, <3>2 DEF TypeOK
    <3>5. \A s \in live : likes'[s] \subseteq users
      BY <1>0, <3>2 DEF NoOrphans, TypeOK
    <3>. QED BY <3>1, <3>3, <3>4, <3>5
  <2>5. users' = users /\ \A s \in live \ D : author[s] \in users'
    BY <1>0 DEF NoOrphans
  <2>6. UNCHANGED <<minted, shape>> /\ skewed' \subseteq Tweets
    BY <1>0 DEF TypeOK
  <2>. HIDE DEF D
  <2>. QED BY <1>0, <2>1, <2>2, <2>3, <2>4, <2>5, <2>6, ServeTasks, DeleteBase
<1>3. ASSUME UpdateSave(r) PROVE Base'
  <2>. USE <1>3 DEF UpdateSave
  <2>1. t \in Tweets /\ task[r].seen \in Counters /\ Finish(r)
    BY <1>0, TaskType DEF Doing
  <2>2. num' \in [Tweets -> Counters] /\ skewed' \subseteq Tweets
    BY <1>0, <2>1 DEF TypeOK
  <2>. QED BY <1>0, <2>1, <2>2, ServeTasks, MarkBase DEF TypeOK, NoOrphans, rows
<1>4. ASSUME UpdateReinsert(r) PROVE Base'
  <2>. USE <1>4 DEF UpdateReinsert
  <2>1. /\ t \in minted /\ t \notin live /\ author[t] \in users
        /\ task[r].seen \in Counters /\ Finish(r)
    BY <1>0, TaskType DEF Doing, Links
  <2>2. TypeOK'
    BY <1>0, <2>1, ServeTasks DEF TypeOK, TweetOrNone, rows
  <2>3. Links'
    <3>1. \A s \in Requests : \A op : Doing(s, op)' => Doing(s, op) /\ task'[s] = task[s]
      BY <1>0, <2>1, ServeTasks DEF Doing
    <3>2. parent' = [parent EXCEPT ![t] = NoTweet]
      OBVIOUS
    <3>. QED BY <1>0, <2>1, <3>1, <3>2 DEF Links, TypeOK
  <2>4. NoOrphans'
    BY <1>0, <2>1 DEF TypeOK, NoOrphans, rows
  <2>. QED BY <2>2, <2>3, <2>4 DEF Base
<1>5. ASSUME Abort(r) PROVE Base'
  BY <1>0, <1>5, ServeTasks, MarkBase DEF Abort, TypeOK, NoOrphans, rows
<1>6. ASSUME NEW s \in Tweets, ReplyCommit(r, s) PROVE Base'
  <2>. USE <1>6 DEF ReplyCommit
  <2>1. t \in Tweets /\ task[r].conv \in TweetOrNone /\ task[r].user \in Users /\ Finish(r)
    BY <1>0, TaskType DEF Doing
  <2>2. num' \in [Tweets -> Counters]
    BY <1>0, <2>1, CounterStep DEF TypeOK
  <2>3. t \in TweetOrNone /\ "reply" \in Kinds
    BY <2>1 DEF TweetOrNone, Kinds
  <2>. QED BY <1>0, <2>1, <2>2, <2>3, ServeTasks, InsertBase
<1>. QED BY <1>1, <1>2, <1>3, <1>4, <1>5, <1>6

LEMMA BasePurge == Base /\ (\E u \in Users : PurgeUser(u)) => Base'
<1>. SUFFICES ASSUME Base, NEW u \in Users, PurgeUser(u) PROVE Base'
  OBVIOUS
<1>. USE DEF PurgeUser
<1>. DEFINE D == Cascade({t \in live : author[t] = u})
<1>0. TypeOK /\ Links /\ NoOrphans
  BY DEF Base
<1>1. D \in SUBSET live /\ ChildClosed(D) /\ {t \in live : author[t] = u} \subseteq D
  BY CascadeClosed
<1>2. /\ live' = live \ D /\ users' = users \ {u}
      /\ likes' \in [Tweets -> SUBSET Users] /\ bookmarks' \in [Tweets -> SUBSET Users]
      /\ reposts' \in [Tweets -> SUBSET Users]
      /\ \A s \in Tweets \ live : likes'[s] \cup bookmarks'[s] \cup reposts'[s] = {}
      /\ \A s \in D : likes'[s] \cup bookmarks'[s] \cup reposts'[s] = {}
      /\ \A s \in live : likes'[s] \subseteq users'
  BY <1>0, <1>1 DEF TypeOK, NoOrphans
<1>3. \A s \in live \ D : author[s] \in users'
  BY <1>0, <1>1, <1>2 DEF NoOrphans
<1>4. /\ UNCHANGED <<minted, shape, num, task, served, raced>> /\ skewed' \subseteq Tweets
      /\ num' \in [Tweets -> Counters] /\ served' \subseteq Requests
      /\ task' \in [Requests -> Tasks \cup {NoTask}] /\ raced' \subseteq Tweets
  BY <1>0 DEF TypeOK
<1>5. users' \subseteq users
  BY <1>2
<1>. HIDE DEF D
<1>. QED BY <1>0, <1>1, <1>2, <1>3, <1>4, <1>5, DeleteBase

LEMMA BaseNext == Base /\ [Next]_vars => Base'
<1>1. Base /\ UNCHANGED vars => Base'
  BY DEF vars, shape, rows, Base, TypeOK, Links, NoOrphans, Doing
<1>. QED BY <1>1, BasePost, BaseMark, BaseRead, BaseCommit, BasePurge DEF Next

\* Types, links and the absence of orphans are inductive together.
THEOREM BaseInvariant == Spec => []Base
BY BaseInit, BaseNext, PTL DEF Spec

\* Every variable keeps its type: no handler, however interleaved, writes a
\* value outside its column, and no tweet is live that was never inserted.
THEOREM TypeCorrect == Spec => []TypeOK
<1>1. Base => TypeOK
  BY DEF Base
<1>. QED BY <1>1, BaseInvariant, PTL

\* No reply, quote, like, bookmark or repost ever outlives its tweet.
THEOREM OrphanFreedom == Spec => []NoOrphans
<1>1. Base => NoOrphans
  BY DEF Base
<1>. QED BY <1>1, BaseInvariant, PTL

-----------------------------------------------------------------------------
(* Counters *)

\* A tweet keeps its count when a step leaves its counters and rows alone.
LEMMA Untouched ==
    ASSUME NEW s, Counted(s), num'[s] = num[s], likes'[s] = likes[s],
           bookmarks'[s] = bookmarks[s], reposts'[s] = reposts[s],
           ReplyRows(s)' = ReplyRows(s), QuoteRows(s)' = QuoteRows(s),
           s \in skewed => s \in skewed', s \in raced => s \in raced'
    PROVE  Counted(s)'
BY DEF Counted, CountsRows, CountsAtMostRows

LEMMA RowsUnchanged ==
    ASSUME UNCHANGED <<live, kind, parent>>, NEW s
    PROVE  ReplyRows(s)' = ReplyRows(s) /\ QuoteRows(s)' = QuoteRows(s)
BY DEF ReplyRows, QuoteRows, ChildRows

LEMMA CountTypes ==
    ASSUME TypeOK, NEW s \in Tweets
    PROVE  /\ Cardinality(likes[s]) \in Nat /\ Cardinality(bookmarks[s]) \in Nat
           /\ Cardinality(reposts[s]) \in Nat
           /\ Cardinality(ReplyRows(s)) \in Nat /\ Cardinality(QuoteRows(s)) \in Nat
           /\ num[s] \in Counters
BY RowsFinite, FS_CardinalityType DEF TypeOK, ReplyRows, QuoteRows

\* Inserting a tweet adds one row below its parent and nothing elsewhere.
LEMMA InsertRows ==
    ASSUME Base, NEW u, NEW t \in Tweets, NEW k \in Kinds, NEW p \in TweetOrNone, NEW c,
           Insert(u, t, k, p, c), p # NoTweet => p \in live,
           NEW s \in live', NEW j \in {"reply", "quote"}
    PROVE  /\ t \notin live
           /\ s = t => ChildRows(s, j)' = {}
           /\ s # t /\ (s # p \/ j # k) => ChildRows(s, j)' = ChildRows(s, j)
           /\ s = p /\ j = k => ChildRows(s, j)' = ChildRows(s, j) \cup {t}
<1>1. t \notin live /\ p # t /\ s \in Tweets /\ s # NoTweet
  BY NoTweetIsNoTweet DEF Base, TypeOK, Insert
<1>2. \A x \in live : x # t /\ parent[x] # t /\ parent'[x] = parent[x] /\ kind'[x] = kind[x]
  BY <1>1, NoTweetIsNoTweet DEF Base, TypeOK, NoOrphans, Insert
<1>3. live' = live \cup {t} /\ parent'[t] = p /\ kind'[t] = k
  BY DEF Base, TypeOK, Insert
<1>. QED BY <1>1, <1>2, <1>3 DEF ChildRows

\* A deletion takes from a surviving tweet only the rows of deleted children.
LEMMA DeleteRows ==
    ASSUME NEW D, live' = live \ D, UNCHANGED <<kind, parent>>, NEW s, NEW j
    PROVE  /\ ChildRows(s, j)' = ChildRows(s, j) \ D
           /\ (\A c \in D : parent[c] # s) => ChildRows(s, j)' = ChildRows(s, j)
BY DEF ChildRows

LEMMA CountsInit == Init => Counts
<1>. SUFFICES ASSUME Init PROVE Counts
  OBVIOUS
<1>1. Fresh
  BY DEF Init, Fresh
<1>2. ASSUME NEW t \in live PROVE Counted(t)
  <2>1. t \in Tweets /\ t # NoTweet
    BY <1>2, SeedAreTweets, NoTweetIsNoTweet DEF Init
  <2>2. \A k : ChildRows(t, k) = {}
    BY <2>1, SeedAreTweets DEF Init, ChildRows
  <2>3. num[t] = Zero /\ likes[t] = {} /\ bookmarks[t] = {} /\ reposts[t] = {}
    BY <2>1 DEF Init
  <2>4. ReplyRows(t) = {} /\ QuoteRows(t) = {} /\ Cardinality({}) = 0
    BY <2>2, FS_EmptySet DEF ReplyRows, QuoteRows
  <2>5. CountsRows(t)
    BY <2>3, <2>4 DEF CountsRows, Zero
  <2>6. CountsAtMostRows(t)
    BY <2>3, <2>4 DEF CountsAtMostRows, Zero
  <2>. QED BY <2>5, <2>6 DEF Counted
<1>. QED BY <1>1, <1>2 DEF Counts

\* Steps that leave every counter and row alone.
LEMMA CountsKept ==
    ASSUME Counts, UNCHANGED <<live, minted, shape, rows, num, skewed, raced>>
    PROVE  Counts'
<1>1. Fresh'
  BY DEF Counts, Fresh
<1>2. ASSUME NEW s \in live' PROVE Counted(s)'
  BY <1>2, RowsUnchanged, Untouched DEF Counts, shape, rows
<1>. QED BY <1>1, <1>2 DEF Counts

\* A step that changes the marks of one live tweet, its counters or history,
\* and no tweet: only that tweet has to be counted again.
LEMMA CountsMark ==
    ASSUME Base, Counts, UNCHANGED <<live, minted, shape>>, NEW t \in live,
           \A s \in Tweets \ {t} : /\ num'[s] = num[s] /\ likes'[s] = likes[s]
                                   /\ bookmarks'[s] = bookmarks[s] /\ reposts'[s] = reposts[s]
                                   /\ s \in skewed => s \in skewed'
                                   /\ s \in raced => s \in raced',
           Counted(t)'
    PROVE  Counts'
<1>1. live \subseteq Tweets /\ live \subseteq minted
  BY DEF Base, TypeOK
<1>2. Fresh'
  BY <1>1 DEF Counts, Fresh
<1>3. ASSUME NEW s \in live', s # t PROVE Counted(s)'
  BY <1>1, <1>3, RowsUnchanged, Untouched DEF Counts, shape
<1>. QED BY <1>2, <1>3 DEF Counts

LEMMA MarkCounts == Base /\ Counts /\ Mark => Counts'
<1>. SUFFICES ASSUME Base, Counts, NEW r \in Requests, NEW u \in Users, NEW t \in Tweets
              PROVE  /\ LikeTweet(r, u, t) => Counts'
                     /\ UnlikeTweet(r, u, t) => Counts'
                     /\ BookmarkTweet(r, u, t) => Counts'
                     /\ UnbookmarkTweet(r, u, t) => Counts'
                     /\ RepostTweet(r, u, t) => Counts'
  BY DEF Mark
<1>0. /\ TypeOK /\ num[t] \in Counters
      /\ likes \in [Tweets -> SUBSET Users] /\ bookmarks \in [Tweets -> SUBSET Users]
      /\ reposts \in [Tweets -> SUBSET Users] /\ num \in [Tweets -> Counters]
  BY DEF Base, TypeOK
<1>1. /\ IsFiniteSet(likes[t]) /\ IsFiniteSet(bookmarks[t]) /\ IsFiniteSet(reposts[t])
      /\ Cardinality(reposts[t]) \in Nat /\ Cardinality(QuoteRows(t)) \in Nat
  BY <1>0, RowsFinite, CountTypes
<1>2. t \in live => Counted(t)
  BY DEF Counts
<1>3. ASSUME LikeTweet(r, u, t) PROVE Counts'
  <2>. USE <1>3 DEF LikeTweet
  <2>1. /\ ReplyRows(t)' = ReplyRows(t) /\ QuoteRows(t)' = QuoteRows(t)
    BY RowsUnchanged DEF shape
  <2>2. Cardinality(likes'[t]) = Cardinality(likes[t]) + 1 /\ Cardinality(likes[t]) \in Nat
    BY <1>0, <1>1, CountAdd
  <2>3. num'[t] = [num[t] EXCEPT !.likes = @ + 1]
    BY <1>0
  <2>4. Counted(t)'
    BY <1>0, <1>2, <2>1, <2>2, <2>3 DEF Counted, CountsRows, CountsAtMostRows, Counters
  <2>. QED BY <1>0, <2>4, CountsMark
<1>4. ASSUME UnlikeTweet(r, u, t) PROVE Counts'
  <2>. USE <1>4 DEF UnlikeTweet
  <2>1. /\ ReplyRows(t)' = ReplyRows(t) /\ QuoteRows(t)' = QuoteRows(t)
    BY RowsUnchanged DEF shape
  <2>2. Cardinality(likes'[t]) = Cardinality(likes[t]) - 1 /\ Cardinality(likes[t]) \in Nat
    BY <1>0, <1>1, CountRemove
  <2>3. num'[t] = [num[t] EXCEPT !.likes = @ - 1]
    BY <1>0
  <2>4. Counted(t)'
    BY <1>0, <1>2, <2>1, <2>2, <2>3 DEF Counted, CountsRows, CountsAtMostRows, Counters
  <2>. QED BY <1>0, <2>4, CountsMark
<1>5. ASSUME BookmarkTweet(r, u, t) PROVE Counts'
  <2>. USE <1>5 DEF BookmarkTweet
  <2>1. /\ ReplyRows(t)' = ReplyRows(t) /\ QuoteRows(t)' = QuoteRows(t)
    BY RowsUnchanged DEF shape
  <2>2. Cardinality(bookmarks'[t]) = Cardinality(bookmarks[t]) + 1 /\ Cardinality(bookmarks[t]) \in Nat
    BY <1>0, <1>1, CountAdd
  <2>3. num'[t] = [num[t] EXCEPT !.bookmarks = @ + 1]
    BY <1>0
  <2>4. Counted(t)'
    BY <1>0, <1>2, <2>1, <2>2, <2>3 DEF Counted, CountsRows, CountsAtMostRows, Counters
  <2>. QED BY <1>0, <2>4, CountsMark
<1>6. ASSUME UnbookmarkTweet(r, u, t) PROVE Counts'
  <2>. USE <1>6 DEF UnbookmarkTweet
  <2>1. /\ ReplyRows(t)' = ReplyRows(t) /\ QuoteRows(t)' = QuoteRows(t)
    BY RowsUnchanged DEF shape
  <2>2. Cardinality(bookmarks'[t]) = Cardinality(bookmarks[t]) - 1 /\ Cardinality(bookmarks[t]) \in Nat
    BY <1>0, <1>1, CountRemove
  <2>3. num'[t] = [num[t] EXCEPT !.bookmarks = @ - 1]
    BY <1>0
  <2>4. Counted(t)'
    BY <1>0, <1>2, <2>1, <2>2, <2>3 DEF Counted, CountsRows, CountsAtMostRows, Counters
  <2>. QED BY <1>0, <2>4, CountsMark
<1>7. ASSUME RepostTweet(r, u, t) PROVE Counts'
  <2>. USE <1>7 DEF RepostTweet
  <2>1. /\ ReplyRows(t)' = ReplyRows(t) /\ QuoteRows(t)' = QuoteRows(t)
    BY RowsUnchanged DEF shape
  <2>2. Cardinality(reposts'[t]) = Cardinality(reposts[t]) + 1
    BY <1>0, <1>1, CountAdd
  <2>3. num'[t] = [num[t] EXCEPT !.reposts = @ + 1]
    BY <1>0
  <2>4. Counted(t)'
    BY <1>0, <1>1, <1>2, <2>1, <2>2, <2>3 DEF Counted, CountsRows, CountsAtMostRows, Counters
  <2>. QED BY <1>0, <2>4, CountsMark
<1>. QED BY <1>3, <1>4, <1>5, <1>6, <1>7

\* A step that inserts t below p (or below no tweet) and counts it at p.
LEMMA CountsInsert ==
    ASSUME Base, Counts, NEW u, NEW t \in Tweets, NEW k \in Kinds, NEW p \in TweetOrNone, NEW c,
           Insert(u, t, k, p, c), p # NoTweet => p \in live,
           UNCHANGED <<rows, skewed, raced>>,
           \A s \in Tweets \ {p} : num'[s] = num[s],
           p \in live => Counted(p)',
           p = NoTweet => k = "tweet"
    PROVE  Counts'
<1>1. /\ TypeOK /\ NoOrphans /\ t \notin live /\ t \notin minted /\ live' = live \cup {t} /\ p # t
      /\ minted' = minted \cup {t} /\ live \subseteq minted /\ minted \subseteq Tweets
  BY NoTweetIsNoTweet DEF Base, TypeOK, Insert
<1>2. Fresh'
  BY <1>1, NoTweetIsNoTweet DEF Counts, Fresh
<1>3. ASSUME NEW s \in live', s # p PROVE Counted(s)'
  <2>1. num'[s] = num[s]
    BY <1>1, <1>3
  <2>2. CASE s = t
    <3>1. num[s] = Zero /\ likes[s] = {} /\ bookmarks[s] = {} /\ reposts[s] = {}
      BY <1>1, <2>2 DEF Counts, Fresh, NoOrphans
    <3>2. ReplyRows(s)' = {} /\ QuoteRows(s)' = {}
      BY <1>3, <2>2, InsertRows DEF ReplyRows, QuoteRows
    <3>. QED BY <2>1, <3>1, <3>2, FS_EmptySet
             DEF Counted, CountsRows, CountsAtMostRows, Zero, rows
  <2>3. CASE s # t
    <3>1. \A j \in {"reply", "quote"} : ChildRows(s, j)' = ChildRows(s, j)
      BY <1>3, <2>3, InsertRows DEF ChildRows
    <3>2. ReplyRows(s)' = ReplyRows(s) /\ QuoteRows(s)' = QuoteRows(s)
      BY <3>1 DEF ReplyRows, QuoteRows
    <3>3. Counted(s)
      BY <1>1, <1>3, <2>3 DEF Counts
    <3>. QED BY <2>1, <3>2, <3>3, Untouched DEF rows
  <2>. QED BY <2>2, <2>3
<1>4. ASSUME p \in live' PROVE Counted(p)'
  BY <1>1, <1>4
<1>. QED BY <1>2, <1>3, <1>4 DEF Counts

LEMMA PostCounts == Base /\ Counts /\ Post => Counts'
<1>. SUFFICES ASSUME Base, Counts, NEW r \in Requests, NEW u \in Users, NEW t \in Tweets
              PROVE  /\ CreateTweet(r, u, t) => Counts'
                     /\ \A p \in Tweets : RepostTweetWithQuote(r, u, t, p) => Counts'
  BY DEF Post
<1>0. TypeOK /\ num \in [Tweets -> Counters]
  BY DEF Base, TypeOK
<1>1. ASSUME CreateTweet(r, u, t) PROVE Counts'
  <2>1. NoTweet \notin live /\ NoTweet \in TweetOrNone /\ "tweet" \in Kinds
    BY <1>0, NoTweetIsNoTweet DEF TypeOK, TweetOrNone, Kinds
  <2>. QED BY <1>1, <2>1, CountsInsert DEF CreateTweet
<1>2. ASSUME NEW p \in Tweets, RepostTweetWithQuote(r, u, t, p) PROVE Counts'
  <2>. USE <1>2 DEF RepostTweetWithQuote
  <2>1. p \in TweetOrNone /\ "quote" \in Kinds /\ p # NoTweet /\ p \in live'
    BY NoTweetIsNoTweet DEF TweetOrNone, Kinds, Insert
  <2>2. /\ t \notin live /\ p # t /\ ReplyRows(p)' = ReplyRows(p)
        /\ QuoteRows(p)' = QuoteRows(p) \cup {t}
    BY <2>1, InsertRows DEF ReplyRows, QuoteRows, ChildRows
  <2>3. Cardinality(QuoteRows(p)') = Cardinality(QuoteRows(p)) + 1
    <3>1. IsFiniteSet(QuoteRows(p))
      BY <1>0, RowsFinite DEF QuoteRows
    <3>2. t \notin QuoteRows(p)
      BY <2>2 DEF QuoteRows, ChildRows
    <3>. QED BY <2>2, <3>1, <3>2, CountAdd
  <2>4. num'[p].quotes = num[p].quotes + 1 /\ num'[p].reposts = num[p].reposts + 1
        /\ num'[p].likes = num[p].likes /\ num'[p].bookmarks = num[p].bookmarks
        /\ num'[p].replies = num[p].replies
    <3>1. num[p] \in Counters
      BY <1>0
    <3>2. num'[p] = [num[p] EXCEPT !.quotes = @ + 1, !.reposts = @ + 1]
      BY <1>0
    <3>. HIDE <1>2
    <3>. QED BY <3>1, <3>2 DEF Counters
  <2>5. Counted(p)'
    <3>1. Counted(p)
      BY DEF Counts
    <3>2. /\ Cardinality(reposts[p]) \in Nat /\ Cardinality(QuoteRows(p)) \in Nat
          /\ num[p].quotes \in Int /\ num[p].reposts \in Int
      BY <1>0, CountTypes DEF Counters
    <3>. QED BY <2>2, <2>3, <2>4, <3>1, <3>2
             DEF Counted, CountsRows, CountsAtMostRows, rows
  <2>. QED BY <1>0, <2>1, <2>5, CountsInsert
<1>. QED BY <1>1, <1>2

LEMMA ReadCounts == Base /\ Counts /\ Read => Counts'
BY CountsKept DEF Read, DeleteRepostFind, DeleteTweetFind, ReplyFind, UpdateFind, Begin

\* Undoing a repost: a row that was gone already is counted down twice.
LEMMA DeleteRepostCounts ==
    ASSUME Base, Counts, NEW r \in Requests, DeleteRepostCommit(r)
    PROVE  Counts'
<1>. PICK t, u : t = task[r].tweet /\ u = task[r].user
  OBVIOUS
<1>. USE DEF DeleteRepostCommit
<1>0. /\ TypeOK /\ NoOrphans /\ t \in Tweets /\ live \subseteq Tweets
      /\ num \in [Tweets -> Counters] /\ reposts \in [Tweets -> SUBSET Users]
  BY TaskType DEF Base, Doing, TypeOK
<1>1. CASE t \notin live
  <2>1. reposts' = reposts
    BY <1>0, <1>1 DEF NoOrphans
  <2>2. Fresh'
    BY <1>1 DEF Counts, Fresh
  <2>3. ASSUME NEW s \in live' PROVE Counted(s)'
    BY <1>0, <1>1, <2>1, <2>3, RowsUnchanged, Untouched DEF Counts, shape
  <2>. QED BY <2>2, <2>3 DEF Counts
<1>2. CASE t \in live
  <2>1. ReplyRows(t)' = ReplyRows(t) /\ QuoteRows(t)' = QuoteRows(t)
    BY RowsUnchanged DEF shape
  <2>2. num'[t] = [num[t] EXCEPT !.reposts = @ - 1] /\ reposts'[t] = reposts[t] \ {u}
    BY <1>0, <1>2
  <2>3. /\ num[t] \in Counters /\ Cardinality(reposts[t]) \in Nat
        /\ Cardinality(QuoteRows(t)) \in Nat /\ IsFiniteSet(reposts[t])
    BY <1>0, CountTypes, RowsFinite
  <2>4. Counted(t)
    BY <1>2 DEF Counts
  <2>5. CASE u \in reposts[t]
    <3>1. Cardinality(reposts'[t]) = Cardinality(reposts[t]) - 1
      BY <2>2, <2>3, <2>5, CountRemove
    <3>2. Counted(t)'
      BY <2>1, <2>2, <2>3, <2>4, <2>5, <3>1 DEF Counted, CountsRows, CountsAtMostRows, Counters
    <3>. QED BY <1>0, <1>2, <3>2, CountsMark
  <2>6. CASE u \notin reposts[t]
    <3>1. reposts'[t] = reposts[t]
      <4>1. reposts[t] \ {u} = reposts[t]
        BY <2>6
      <4>. QED BY <2>2, <4>1
    <3>2. t \in raced'
      <4>1. raced' = raced \cup {t}
        BY <2>6
      <4>. QED BY <4>1
    <3>3. Counted(t)'
      BY <2>1, <2>2, <2>3, <2>4, <3>1, <3>2 DEF Counted, CountsAtMostRows, Counters
    <3>. QED BY <1>0, <1>2, <3>3, CountsMark
  <2>. QED BY <2>5, <2>6
<1>. QED BY <1>1, <1>2

\* Deleting a tweet: its parent is the one that was read or none, so that the
\* only counters to change are those of a tweet that loses the row, or of one
\* that has lost it before and is counted down again.
LEMMA DeleteTweetCounts ==
    ASSUME Base, Counts, NEW r \in Requests, DeleteTweetCommit(r)
    PROVE  Counts'
<1>. PICK t, p : t = task[r].tweet /\ p = task[r].parent
  OBVIOUS
<1>. PICK D : D = Cascade({t})
  OBVIOUS
<1>0. /\ TypeOK /\ t \in Tweets /\ p \in TweetOrNone /\ live \subseteq Tweets
      /\ live \subseteq minted /\ num \in [Tweets -> Counters]
      /\ parent[t] \in {p, NoTweet} /\ NoTweet \notin live
      /\ parent[t] # NoTweet => kind[t] \in {"reply", "quote"}
  <2>1. TypeOK /\ Links /\ task[r] # NoTask /\ Doing(r, "deleteTweet")
    BY DEF Base, Doing, DeleteTweetCommit
  <2>2. t \in Tweets /\ p \in TweetOrNone
    BY <2>1, TaskType
  <2>3. /\ live \subseteq Tweets /\ live \subseteq minted /\ NoTweet \notin live
        /\ num \in [Tweets -> Counters]
    BY <2>1, NoTweetIsNoTweet DEF TypeOK
  <2>. QED BY <2>1, <2>2, <2>3 DEF Links
<1>1. /\ D \subseteq live
      /\ t \in live => t \in D
      /\ \A c \in D : parent[c] \notin D => c = t
  BY CascadeClosed
<1>2. /\ Remove(D) /\ live' = live \ D /\ UNCHANGED <<kind, parent, minted, skewed>>
      /\ num' = IF p \notin live THEN num
                ELSE IF kind[t] = "reply" THEN [num EXCEPT ![p].replies = @ - 1]
                ELSE [num EXCEPT ![p].quotes = @ - 1, ![p].reposts = @ - 1]
      /\ raced' = IF t \in live /\ parent[t] = p THEN raced ELSE raced \cup ({p} \cap live)
  BY DEF DeleteTweetCommit, Remove, shape
<1>3. Fresh'
  BY <1>0, <1>2 DEF Counts, Fresh
<1>4. ASSUME NEW s \in live'
      PROVE  /\ s \in live /\ s \in Tweets /\ s # NoTweet /\ Counted(s)
             /\ likes'[s] = likes[s] /\ bookmarks'[s] = bookmarks[s] /\ reposts'[s] = reposts[s]
             /\ \A c \in D : parent[c] = s => c = t
  <2>1. s \in live /\ s \notin D /\ s \in Tweets /\ s # NoTweet
    BY <1>0, <1>2, <1>4
  <2>. QED BY <1>1, <1>2, <2>1 DEF Counts, Remove
<1>5. ASSUME NEW s \in live', s # p \/ parent[t] # p \/ t \notin live
      PROVE  ReplyRows(s)' = ReplyRows(s) /\ QuoteRows(s)' = QuoteRows(s)
  <2>0. s # NoTweet /\ \A c \in D : parent[c] = s => c = t
    BY <1>4, <1>5
  <2>1. \A c \in D : parent[c] # s
    BY <1>0, <1>1, <1>5, <2>0
  <2>2. \A j : ChildRows(s, j)' = ChildRows(s, j)
    BY <1>2, <2>1, DeleteRows DEF ChildRows
  <2>. QED BY <2>2 DEF ReplyRows, QuoteRows, ChildRows
<1>6. ASSUME NEW s \in live', s # p PROVE Counted(s)'
  <2>1. num'[s] = num[s]
    BY <1>0, <1>2, <1>4, <1>6
  <2>. QED BY <1>2, <1>4, <1>5, <1>6, <2>1, Untouched
<1>7. ASSUME p \in live' PROVE Counted(p)'
  <2>1. /\ p \in live /\ p \in Tweets /\ num[p] \in Counters /\ Counted(p)
        /\ Cardinality(reposts[p]) \in Nat /\ Cardinality(QuoteRows(p)) \in Nat
        /\ Cardinality(ReplyRows(p)) \in Nat
        /\ IsFiniteSet(QuoteRows(p)) /\ IsFiniteSet(ReplyRows(p))
    BY <1>0, <1>4, <1>7, CountTypes, RowsFinite DEF ReplyRows, QuoteRows
  <2>0. /\ likes'[p] = likes[p] /\ bookmarks'[p] = bookmarks[p] /\ reposts'[p] = reposts[p]
        /\ \A c \in D : parent[c] = p => c = t
        /\ skewed' = skewed
    BY <1>2, <1>4, <1>7
  <2>2. CASE t \in live /\ parent[t] = p
    <3>0. kind[t] \in {"reply", "quote"} /\ t \in D /\ raced' = raced
      BY <1>0, <1>1, <1>2, <2>1, <2>2
    <3>1. \A c \in live : parent[c] = p => (c \in live' <=> c # t)
      BY <1>1, <1>2, <2>0, <2>2
    <3>2. ASSUME NEW j
          PROVE  ChildRows(p, j)' = IF kind[t] = j THEN ChildRows(p, j) \ {t} ELSE ChildRows(p, j)
      BY <1>2, <3>1 DEF ChildRows
    <3>3. CASE kind[t] = "reply"
      <4>1. ReplyRows(p)' = ReplyRows(p) \ {t} /\ QuoteRows(p)' = QuoteRows(p) /\ t \in ReplyRows(p)
        BY <2>2, <3>2, <3>3 DEF ReplyRows, QuoteRows, ChildRows
      <4>2. Cardinality(ReplyRows(p)') = Cardinality(ReplyRows(p)) - 1
        BY <2>1, <4>1, CountRemove
      <4>3. num'[p] = [num[p] EXCEPT !.replies = @ - 1]
        BY <1>0, <1>2, <2>1, <3>3
      <4>. QED BY <2>0, <2>1, <3>0, <4>1, <4>2, <4>3
               DEF Counted, CountsRows, CountsAtMostRows, Counters
    <3>4. CASE kind[t] = "quote"
      <4>1. QuoteRows(p)' = QuoteRows(p) \ {t} /\ ReplyRows(p)' = ReplyRows(p) /\ t \in QuoteRows(p)
        BY <2>2, <3>2, <3>4 DEF ReplyRows, QuoteRows, ChildRows
      <4>2. Cardinality(QuoteRows(p)') = Cardinality(QuoteRows(p)) - 1
        BY <2>1, <4>1, CountRemove
      <4>3. /\ num'[p].quotes = num[p].quotes - 1 /\ num'[p].reposts = num[p].reposts - 1
            /\ num'[p].likes = num[p].likes /\ num'[p].bookmarks = num[p].bookmarks
            /\ num'[p].replies = num[p].replies
            /\ num[p].quotes \in Int /\ num[p].reposts \in Int
        BY <1>0, <1>2, <2>1, <3>4 DEF Counters
      <4>. QED BY <2>0, <2>1, <3>0, <4>1, <4>2, <4>3
               DEF Counted, CountsRows, CountsAtMostRows
    <3>. QED BY <3>0, <3>3, <3>4
  <2>3. CASE ~(t \in live /\ parent[t] = p)
    <3>1. p \in raced'
      BY <1>2, <2>1, <2>3
    <3>2. ReplyRows(p)' = ReplyRows(p) /\ QuoteRows(p)' = QuoteRows(p)
      BY <1>5, <1>7, <2>3
    <3>3. /\ num'[p].quotes <= num[p].quotes /\ num'[p].reposts <= num[p].reposts
          /\ num'[p].likes = num[p].likes /\ num'[p].bookmarks = num[p].bookmarks
          /\ num'[p].replies <= num[p].replies
          /\ num[p].quotes \in Int /\ num[p].reposts \in Int /\ num[p].replies \in Int
          /\ num'[p].quotes \in Int /\ num'[p].reposts \in Int /\ num'[p].replies \in Int
      <4>1. \/ num'[p] = [num[p] EXCEPT !.replies = @ - 1]
            \/ num'[p] = [num[p] EXCEPT !.quotes = @ - 1, !.reposts = @ - 1]
        BY <1>0, <1>2, <2>1
      <4>2. CASE num'[p] = [num[p] EXCEPT !.replies = @ - 1]
        BY <2>1, <4>2 DEF Counters
      <4>3. CASE num'[p] = [num[p] EXCEPT !.quotes = @ - 1, !.reposts = @ - 1]
        BY <2>1, <4>3 DEF Counters
      <4>. QED BY <4>1, <4>2, <4>3
    <3>4. p \notin skewed' => p \notin skewed /\ CountsAtMostRows(p)
      BY <2>0, <2>1 DEF Counted
    <3>5. CountsAtMostRows(p) => CountsAtMostRows(p)'
      BY <2>0, <2>1, <3>2, <3>3 DEF CountsAtMostRows
    <3>. QED BY <3>1, <3>4, <3>5 DEF Counted
  <2>. QED BY <2>2, <2>3
<1>. QED BY <1>3, <1>6, <1>7 DEF Counts

\* An edit: counters saved from a stale read, or saved into a row inserted
\* again, are those of a skewed tweet.
LEMMA UpdateCounts ==
    ASSUME Base, Counts, NEW r \in Requests, UpdateSave(r) \/ UpdateReinsert(r)
    PROVE  Counts'
<1>. PICK t : t = task[r].tweet
  OBVIOUS
<1>0. /\ TypeOK /\ NoOrphans /\ t \in Tweets /\ t \in minted /\ live \subseteq Tweets
      /\ live \subseteq minted /\ num \in [Tweets -> Counters] /\ NoTweet \notin live
  <2>1. TypeOK /\ Links /\ NoOrphans /\ task[r] # NoTask /\ Doing(r, "update")
    BY DEF Base, Doing, UpdateSave, UpdateReinsert
  <2>. QED BY <2>1, TaskType, NoTweetIsNoTweet DEF TypeOK, Links
<1>1. CASE UpdateSave(r)
  <2>1. /\ t \in live /\ UNCHANGED <<live, minted, shape, rows, raced>>
        /\ num' = [num EXCEPT ![t] = task[r].seen]
        /\ skewed' = IF num[t] = task[r].seen THEN skewed ELSE skewed \cup {t}
    BY <1>1 DEF UpdateSave
  <2>2. ReplyRows(t)' = ReplyRows(t) /\ QuoteRows(t)' = QuoteRows(t)
    BY <2>1, RowsUnchanged DEF shape
  <2>3. Counted(t)'
    <3>1. CASE num[t] = task[r].seen
      BY <1>0, <2>1, <2>2, <3>1, Untouched DEF Counts, rows
    <3>2. CASE num[t] # task[r].seen
      BY <2>1, <3>2 DEF Counted
    <3>. QED BY <3>1, <3>2
  <2>. QED BY <1>0, <2>1, <2>3, CountsMark DEF rows
<1>2. CASE UpdateReinsert(r)
  <2>1. /\ t \notin live /\ live' = live \cup {t} /\ minted' = minted /\ UNCHANGED <<kind, rows, raced>>
        /\ parent' = [parent EXCEPT ![t] = NoTweet]
        /\ num' = [num EXCEPT ![t] = task[r].seen]
        /\ skewed' = skewed \cup {t}
    BY <1>2 DEF UpdateReinsert
  <2>2. Fresh'
    BY <1>0, <2>1 DEF Counts, Fresh
  <2>3. ASSUME NEW s \in live', s # t PROVE Counted(s)'
    <3>1. /\ s \in live /\ s # NoTweet /\ s \in Tweets
          /\ num'[s] = num[s] /\ (s \in skewed => s \in skewed')
      BY <1>0, <2>1, <2>3
    <3>2. \A c \in live : c # t /\ parent'[c] = parent[c]
      BY <1>0, <2>1 DEF TypeOK
    <3>3. parent'[t] = NoTweet
      BY <1>0, <2>1 DEF TypeOK
    <3>4. ReplyRows(s)' = ReplyRows(s) /\ QuoteRows(s)' = QuoteRows(s)
      BY <2>1, <3>1, <3>2, <3>3 DEF ReplyRows, QuoteRows, ChildRows
    <3>. QED BY <2>1, <3>1, <3>4, Untouched DEF Counts, rows
  <2>4. Counted(t)'
    BY <2>1 DEF Counted
  <2>. QED BY <2>2, <2>3, <2>4 DEF Counts
<1>. QED BY <1>1, <1>2

LEMMA ReplyCounts ==
    ASSUME Base, Counts, NEW r \in Requests, NEW t \in Tweets, ReplyCommit(r, t)
    PROVE  Counts'
<1>. PICK p, u, c : p = task[r].tweet /\ u = task[r].user /\ c = task[r].conv
  OBVIOUS
<1>0. /\ TypeOK /\ p \in live /\ p \in Tweets /\ num \in [Tweets -> Counters]
      /\ Insert(u, t, "reply", p, c) /\ num' = [num EXCEPT ![p].replies = @ + 1]
      /\ UNCHANGED <<rows, skewed, raced>>
  BY DEF Base, TypeOK, ReplyCommit
<1>1. p \in TweetOrNone /\ "reply" \in Kinds /\ p # NoTweet /\ p \in live'
  BY <1>0, NoTweetIsNoTweet DEF TweetOrNone, Kinds, Insert
<1>2. /\ t \notin live /\ p # t /\ QuoteRows(p)' = QuoteRows(p)
      /\ ReplyRows(p)' = ReplyRows(p) \cup {t}
  BY <1>0, <1>1, InsertRows DEF ReplyRows, QuoteRows, ChildRows
<1>3. Cardinality(ReplyRows(p)') = Cardinality(ReplyRows(p)) + 1
  <2>1. IsFiniteSet(ReplyRows(p))
    BY <1>0, RowsFinite DEF ReplyRows
  <2>2. t \notin ReplyRows(p)
    BY <1>2 DEF ReplyRows, ChildRows
  <2>. QED BY <1>2, <2>1, <2>2, CountAdd
<1>4. num'[p] = [num[p] EXCEPT !.replies = @ + 1] /\ num[p] \in Counters
  BY <1>0
<1>5. Counted(p)'
  <2>1. Counted(p)
    BY <1>0 DEF Counts
  <2>2. Cardinality(ReplyRows(p)) \in Nat
    BY <1>0, CountTypes
  <2>. QED BY <1>0, <1>2, <1>3, <1>4, <2>1, <2>2
           DEF Counted, CountsRows, CountsAtMostRows, Counters, rows
<1>. QED BY <1>0, <1>1, <1>5, CountsInsert

LEMMA CommitCounts == Base /\ Counts /\ Commit => Counts'
<1>. SUFFICES ASSUME Base, Counts, NEW r \in Requests
              PROVE  /\ DeleteRepostCommit(r) => Counts'
                     /\ DeleteTweetCommit(r) => Counts'
                     /\ UpdateSave(r) \/ UpdateReinsert(r) => Counts'
                     /\ Abort(r) => Counts'
                     /\ \A t \in Tweets : ReplyCommit(r, t) => Counts'
  BY DEF Commit
<1>1. Abort(r) => Counts'
  BY CountsKept DEF Abort
<1>. QED BY <1>1, DeleteRepostCounts, DeleteTweetCounts, UpdateCounts, ReplyCounts

\* Purging an account: whatever loses a row without losing its count is skewed.
LEMMA PurgeCounts == Base /\ Counts /\ (\E u \in Users : PurgeUser(u)) => Counts'
<1>. SUFFICES ASSUME Base, Counts, NEW u \in Users, PurgeUser(u) PROVE Counts'
  OBVIOUS
<1>. PICK D : D = Cascade({t \in live : author[t] = u})
  OBVIOUS
<1>1. /\ TypeOK /\ live \subseteq Tweets /\ live' = live \ D
      /\ UNCHANGED <<minted, kind, parent, num, raced>>
  BY DEF Base, TypeOK, PurgeUser, shape
<1>2. Fresh'
  BY <1>1 DEF Counts, Fresh
<1>3. ASSUME NEW s \in live' PROVE Counted(s)'
  <2>1. s \in live /\ s \notin D /\ s \in Tweets
    BY <1>1, <1>3
  <2>2. CASE s \in skewed'
    BY <2>2 DEF Counted
  <2>3. CASE s \notin skewed'
    <3>1. /\ u \notin likes[s] /\ u \notin bookmarks[s] /\ u \notin reposts[s]
          /\ \A c \in D : parent[c] # s
      BY <2>1, <2>3 DEF PurgeUser
    <3>2. likes'[s] = likes[s] /\ bookmarks'[s] = bookmarks[s] /\ reposts'[s] = reposts[s]
      BY <2>1, <3>1 DEF PurgeUser
    <3>3. ReplyRows(s)' = ReplyRows(s) /\ QuoteRows(s)' = QuoteRows(s)
      BY <1>1, <3>1, DeleteRows DEF ReplyRows, QuoteRows, ChildRows
    <3>4. s \in skewed => s \in skewed'
      BY DEF PurgeUser
    <3>. QED BY <1>1, <2>1, <3>2, <3>3, <3>4, Untouched DEF Counts
  <2>. QED BY <2>2, <2>3
<1>. QED BY <1>2, <1>3 DEF Counts

LEMMA CountsNext == IInv /\ [Next]_vars => IInv'
<1>1. Counts /\ UNCHANGED vars => Counts'
  BY CountsKept DEF vars
<1>. QED BY <1>1, BaseNext, PostCounts, MarkCounts, ReadCounts, CommitCounts, PurgeCounts
         DEF Next, IInv

\* The inductive invariant: well-linked rows, and counters that follow them.
THEOREM InductiveInvariant == Spec => []IInv
<1>1. Init => IInv
  BY BaseInit, CountsInit DEF IInv
<1>. QED BY <1>1, CountsNext, PTL DEF Spec

\* Whatever the requests interleave, each counter of a tweet is the number of
\* its rows until a stale save, a purge or a doubled undo has hit that tweet.
THEOREM CountersCorrect == Spec => []CountersExact
<1>1. IInv => CountersExact
  BY DEF IInv, Counts, Counted, CountersExact
<1>. QED BY <1>1, InductiveInvariant, PTL

\* Doubled undos only lose counts: outside stale saves and purges no counter of
\* a tweet exceeds the number of its rows.
THEOREM CountersNeverOverstate == Spec => []RacesOnlyUnderstate
<1>1. IInv => RacesOnlyUnderstate
  BY DEF IInv, Counts, Counted, RacesOnlyUnderstate
<1>. QED BY <1>1, InductiveInvariant, PTL

-----------------------------------------------------------------------------
(* Conversations *)

\* What a reply has read of its parent still holds of a parent not reinserted.
Conversations ==
    /\ ConversationInherited
    /\ \A r \in Requests : Doing(r, "reply") =>
           /\ task[r].tweet \in minted
           /\ task[r].tweet \notin skewed => task[r].conv = Conversation(task[r].tweet)

\* Steps that may remove tweets, and neither insert nor change one.
LEMMA ConversationsKept ==
    ASSUME Conversations, UNCHANGED <<minted, shape>>, live' \subseteq live,
           skewed \subseteq skewed',
           \A r \in Requests : task'[r] \in {task[r], NoTask}
    PROVE  Conversations'
<1>1. ConversationInherited'
  BY DEF Conversations, ConversationInherited, HasReplyRow, Conversation, shape
<1>2. \A s \in Requests : \A op : Doing(s, op)' => Doing(s, op) /\ task'[s] = task[s]
  BY DEF Doing
<1>. QED BY <1>1, <1>2 DEF Conversations, HasReplyRow, Conversation, shape

LEMMA ConversationsBegin ==
    ASSUME TypeOK, Conversations, NEW r \in Requests, NEW op, NEW u, NEW t, NEW p, NEW c, NEW n,
           Begin(r, op, u, t, p, c, n), op = "reply" => t \in minted /\ c = Conversation(t)
    PROVE  Conversations'
<1>1. ConversationInherited'
  BY DEF Conversations, ConversationInherited, HasReplyRow, Conversation, Begin, shape
<1>2. UNCHANGED <<minted, kind, parent, conv, skewed>>
  BY DEF Begin, shape
<1>3. ASSUME NEW s \in Requests, Doing(s, "reply")'
      PROVE  /\ task'[s].tweet \in minted
             /\ task'[s].tweet \notin skewed => task'[s].conv = Conversation(task'[s].tweet)
  <2>1. CASE s = r
    BY <1>3, <2>1 DEF TypeOK, Begin, Doing
  <2>2. CASE s # r
    <3>1. task'[s] = task[s] /\ Doing(s, "reply")
      BY <1>3, <2>2 DEF TypeOK, Begin, Doing
    <3>. QED BY <3>1 DEF Conversations
  <2>. QED BY <2>1, <2>2
<1>. QED BY <1>1, <1>2, <1>3 DEF Conversations, Conversation, HasReplyRow

\* The new tweet has no replies yet, and no tweet inserted before changes.
LEMMA ConversationsInsert ==
    ASSUME Base, Conversations, NEW u, NEW t \in Tweets, NEW k \in Kinds,
           NEW p \in TweetOrNone, NEW c, Insert(u, t, k, p, c), p # NoTweet => p \in live,
           (k = "reply" /\ p \notin skewed) => c = Conversation(p),
           skewed' = skewed, \A r \in Requests : task'[r] \in {task[r], NoTask}
    PROVE  Conversations'
<1>1. /\ t \notin minted /\ live \subseteq minted /\ minted \subseteq minted'
      /\ live' = live \cup {t} /\ p # t /\ parent'[t] = p /\ kind'[t] = k /\ conv'[t] = c
      /\ \A s \in live : parent[s] \in live \cup {NoTweet}
  BY NoTweetIsNoTweet DEF Base, TypeOK, NoOrphans, Insert
<1>2. \A s \in minted : kind'[s] = kind[s] /\ parent'[s] = parent[s] /\ conv'[s] = conv[s]
  BY <1>1 DEF Base, TypeOK, Insert
<1>3. \A s \in minted : /\ HasReplyRow(s)' <=> HasReplyRow(s)
                        /\ Conversation(s)' = Conversation(s)
  BY <1>2 DEF HasReplyRow, Conversation
<1>4. ConversationInherited'
  <2>1. ASSUME NEW s \in live', HasReplyRow(s)', parent'[s] \notin skewed
        PROVE  conv'[s] = Conversation(parent[s])' /\ parent'[s] \in minted
    <3>1. CASE s = t
      BY <1>1, <1>3, <2>1, <3>1 DEF HasReplyRow, Conversation
    <3>2. CASE s # t
      <4>1. s \in live /\ s \in minted /\ parent[s] # NoTweet /\ parent[s] \in minted
        BY <1>1, <1>2, <2>1, <3>2 DEF HasReplyRow
      <4>. QED BY <1>2, <1>3, <2>1, <4>1
               DEF Conversations, ConversationInherited, HasReplyRow, Conversation
    <3>. QED BY <3>1, <3>2
  <2>. QED BY <2>1 DEF ConversationInherited, HasReplyRow, Conversation
<1>5. \A s \in Requests : \A op : Doing(s, op)' => Doing(s, op) /\ task'[s] = task[s]
  BY DEF Doing
<1>6. ASSUME NEW s \in Requests, Doing(s, "reply")'
      PROVE  /\ task'[s].tweet \in minted'
             /\ task'[s].tweet \notin skewed' => task'[s].conv = Conversation(task[s].tweet)'
  BY <1>1, <1>2, <1>5, <1>6 DEF Conversations, Conversation, HasReplyRow
<1>. QED BY <1>4, <1>6 DEF Conversations

LEMMA ConversationsReinsert ==
    ASSUME Base, Conversations, NEW r \in Requests, UpdateReinsert(r)
    PROVE  Conversations'
<1>. PICK t : t = task[r].tweet
  OBVIOUS
<1>1. /\ live' = live \cup {t} /\ t \notin live /\ minted' = minted /\ skewed' = skewed \cup {t}
      /\ parent' = [parent EXCEPT ![t] = NoTweet] /\ conv' = [conv EXCEPT ![t] = NoTweet]
      /\ kind' = kind /\ Finish(r) /\ t \in Tweets
  BY TaskType DEF Base, Doing, UpdateReinsert
<1>2. /\ parent'[t] = NoTweet
      /\ \A s : s # t => parent'[s] = parent[s] /\ conv'[s] = conv[s]
  BY <1>1 DEF Base, TypeOK
<1>3. ConversationInherited'
  BY <1>1, <1>2 DEF Base, NoOrphans, Conversations, ConversationInherited, HasReplyRow, Conversation
<1>4. \A s \in Requests : \A op : Doing(s, op)' => Doing(s, op) /\ task'[s] = task[s]
  BY <1>1, ServeTasks DEF Base, Doing
<1>. QED BY <1>1, <1>2, <1>3, <1>4 DEF Conversations, HasReplyRow, Conversation

LEMMA ConversationsNext == Base /\ Conversations /\ [Next]_vars => Conversations'
<1>. SUFFICES ASSUME Base, Conversations, [Next]_vars PROVE Conversations'
  OBVIOUS
<1>0. TypeOK
  BY DEF Base
<1>1. CASE UNCHANGED vars
  BY <1>1, ConversationsKept DEF vars
<1>2. CASE Post
  <2>. SUFFICES ASSUME NEW r \in Requests, NEW u \in Users, NEW t \in Tweets
                PROVE  /\ CreateTweet(r, u, t) => Conversations'
                       /\ \A p \in Tweets : RepostTweetWithQuote(r, u, t, p) => Conversations'
    BY <1>2 DEF Post
  <2>1. NoTweet \in TweetOrNone /\ Tweets \subseteq TweetOrNone /\ {"tweet", "quote"} \subseteq Kinds
    BY DEF TweetOrNone, Kinds
  <2>2. CreateTweet(r, u, t) => Conversations'
    BY <1>0, <2>1, ServeTasks, ConversationsInsert DEF CreateTweet
  <2>3. ASSUME NEW p \in Tweets, RepostTweetWithQuote(r, u, t, p) PROVE Conversations'
    BY <1>0, <2>1, <2>3, ServeTasks, ConversationsInsert DEF RepostTweetWithQuote
  <2>. QED BY <2>2, <2>3
<1>3. CASE Mark
  <2>1. PICK r \in Requests : Serve(r) /\ UNCHANGED <<live, minted, shape, skewed>>
    BY <1>3 DEF Mark, LikeTweet, UnlikeTweet, BookmarkTweet, UnbookmarkTweet, RepostTweet
  <2>. QED BY <1>0, <2>1, ServeTasks, ConversationsKept
<1>4. CASE Read
  <2>. SUFFICES ASSUME NEW r \in Requests, NEW u \in Users, NEW t \in Tweets,
                       \/ DeleteRepostFind(r, u, t) \/ DeleteTweetFind(r, u, t)
                       \/ ReplyFind(r, u, t)        \/ UpdateFind(r, u, t)
                PROVE  Conversations'
    BY <1>4 DEF Read
  <2>1. t \in live => t \in minted
    BY <1>0 DEF TypeOK
  <2>. QED BY <1>0, <2>1, ConversationsBegin
           DEF DeleteRepostFind, DeleteTweetFind, ReplyFind, UpdateFind
<1>5. CASE Commit
  <2>. SUFFICES ASSUME NEW r \in Requests
                PROVE  /\ DeleteRepostCommit(r) => Conversations'
                       /\ DeleteTweetCommit(r) => Conversations'
                       /\ UpdateSave(r) => Conversations'
                       /\ UpdateReinsert(r) => Conversations'
                       /\ Abort(r) => Conversations'
                       /\ \A t \in Tweets : ReplyCommit(r, t) => Conversations'
    BY <1>5 DEF Commit
  <2>1. Finish(r) => \A s \in Requests : task'[s] \in {task[s], NoTask}
    BY <1>0, ServeTasks
  <2>2. DeleteRepostCommit(r) => Conversations'
    BY <2>1, ConversationsKept DEF DeleteRepostCommit
  <2>3. DeleteTweetCommit(r) => Conversations'
    BY <2>1, ConversationsKept DEF DeleteTweetCommit, Remove
  <2>4. UpdateSave(r) => Conversations'
    BY <2>1, ConversationsKept DEF UpdateSave
  <2>5. Abort(r) => Conversations'
    BY <2>1, ConversationsKept DEF Abort
  <2>6. ASSUME NEW t \in Tweets, ReplyCommit(r, t) PROVE Conversations'
    <3>. PICK p, u, c : p = task[r].tweet /\ u = task[r].user /\ c = task[r].conv
      OBVIOUS
    <3>1. /\ Doing(r, "reply") /\ p \in live /\ Insert(u, t, "reply", p, c) /\ Finish(r)
          /\ UNCHANGED <<rows, skewed>>
      BY <2>6 DEF ReplyCommit
    <3>2. p \in TweetOrNone /\ "reply" \in Kinds /\ (p \notin skewed => c = Conversation(p))
      BY <1>0, <3>1 DEF TypeOK, TweetOrNone, Kinds, Conversations
    <3>. QED BY <2>1, <3>1, <3>2, ConversationsInsert
  <2>. QED BY <2>2, <2>3, <2>4, <2>5, <2>6, ConversationsReinsert
<1>6. CASE \E u \in Users : PurgeUser(u)
  <2>1. /\ UNCHANGED <<minted, shape, task>> /\ live' \subseteq live
        /\ skewed \subseteq skewed'
    BY <1>6 DEF PurgeUser
  <2>. QED BY <2>1, ConversationsKept
<1>. QED BY <1>1, <1>2, <1>3, <1>4, <1>5, <1>6 DEF Next

\* A reply is filed under the conversation of the tweet it answers, although
\* that tweet was read before the reply was committed.
THEOREM ConversationsCorrect == Spec => []ConversationInherited
<1>1. Init => Conversations
  BY SeedAreTweets DEF Init, Conversations, ConversationInherited, HasReplyRow, Doing
<1>2. Base /\ Conversations /\ [Next]_vars => Conversations'
  BY ConversationsNext
<1>3. Conversations => ConversationInherited
  BY DEF Conversations
<1>. QED BY <1>1, <1>2, <1>3, BaseInvariant, PTL DEF Spec

-----------------------------------------------------------------------------
(***************************************************************************)
(* SearchIndex, as Index, for any handlers, jobs, attempts and batches.    *)
(*                                                                         *)
(* A live tweet whose document is not right, and on whose account nothing  *)
(* is on record, has a handler or a job that will bring the row as it is,  *)
(* and one that will bring the parent; what is deleted stands in the log   *)
(* until its document is gone or a job has it in hand, which the cron must *)
(* see to before it clears the log.  Rows of a purged account are gone, so *)
(* that its documents are nobody's that lives.                             *)
(***************************************************************************)
\* Of the assumptions of SearchIndex, those that are needed.
IndexGiven == Owned \subseteq Tweets /\ MaxHandlers \in Nat /\ Attempts \in Nat

IndexTask(t) == \E r \in Index!Handlers : todo[r].op = "index" /\ todo[r].tweet = t
ParentTask(t) == \E r \in Index!Handlers : todo[r].op = "index" /\ todo[r].tweet = t
      /\ todo[r].parent
HasJob(j, k, t) == job[j] # Index!Free /\ job[j].kind = k /\ t \in job[j].tweets
IndexJob(j, t) == HasJob(j, "index", t) /\ (job[j].at = "waiting" \/ job[j].seen = row[t])

\* The row of t as it is, and its parent, will reach the document.
RowComes(t) == doc[t] = row[t] \/ IndexTask(t) \/ \E j \in Index!Jobs : IndexJob(j, t)
ParentComes(t) == t \in docParent \/ ParentTask(t)
      \/ \E j \in Index!Jobs : HasJob(j, "index", t) /\ job[j].parent
Followed(t) == t \in astray \/ (RowComes(t) /\ (Index!IsChild(t) => ParentComes(t)))
LiveOK == \A t \in Index!Live : Followed(t)

\* The document of t will go.
Handled(t) == doc[t] = 0 \/ t \in astray \/ \E j \in Index!Jobs : HasJob(j, "delete", t)
DeadOK == \A t \in Tweets \ Index!Live : t \in log \/ Handled(t)
\* The log is cleared of what a job deletes, or of what a failure is on record for.
Dead == (born \ Index!Live) \cap Tweets
CronOK == cron # Index!Idle => /\ cron.batch \subseteq Dead
                               /\ cron.at = "queued" => \A t \in cron.batch : Handled(t)

\* A job of the index has one tweet, and what it has read of the row is not newer than
\* the row; the documents that a deletion names are those of rows that are gone.
JobShapes == [kind: {"index", "delete", "purge"}, tweets: SUBSET Tweets, parent: BOOLEAN,
              at: {"waiting", "read", "ready"}, seen: Nat, old: BOOLEAN, left: Int]
JobShape(x) == x = Index!Free \/ x \in JobShapes
IndexJobOK(x) == \E t \in Tweets :
    /\ x.tweets = {t} /\ t \in born
    /\ x.at # "waiting" => 0 < x.seen /\ (t \in Index!Live => x.seen <= row[t])
JobOK(x) ==
    /\ x.kind = "index" => IndexJobOK(x)
    /\ x.kind = "delete" => x.tweets \subseteq Dead
    /\ x.kind = "purge" /\ x.at = "ready" => ~owner
JobsOK == /\ job = [j \in Index!Jobs |-> job[j]]
          /\ \A j \in Index!Jobs : JobShape(job[j]) /\ JobOK(job[j])
\* A handler announces what it has inserted, changed or deleted.
TaskShape(x) == x = Index!Idle \/
    /\ x = [op |-> x.op, tweet |-> x.tweet, parent |-> x.parent]
    /\ x.op \in {"index", "delete", "purge", "undoRepost"} /\ x.parent \in BOOLEAN
TaskOK(x) == /\ x.op # "none" => x.tweet \in Tweets
             /\ x.op \in {"index", "undoRepost"} => x.tweet \in born \cap Tweets
             /\ x.op = "delete" => x.tweet \in Dead
TasksOK == /\ todo = [r \in Index!Handlers |-> todo[r]]
           /\ \A r \in Index!Handlers : TaskShape(todo[r]) /\ TaskOK(todo[r])
           /\ begun \in Nat /\ \A r \in Index!Handlers : r > begun => todo[r] = Index!Idle
RowsOK == /\ row \in [Tweets -> Nat] /\ doc \in [Tweets -> Nat]
          /\ \A t \in Tweets : doc[t] > 0 => t \in born
          /\ Index!Live \subseteq born /\ log \subseteq Dead
          /\ ~owner => Owned \cap Index!Live = {}
IndexInv == IndexGiven /\ LiveOK /\ DeadOK /\ CronOK /\ JobsOK /\ TasksOK /\ RowsOK

LEMMA IndexInit == ASSUME IndexGiven, Index!Init PROVE IndexInv
<1>1. row \in [Tweets -> Nat] /\ doc = row /\ born = Indexed /\ log = {} /\ owner /\ cron = Index!Idle
      /\ \A t \in Tweets : row[t] > 0 => t \in Indexed
  BY DEF Index!Init
<1>2. RowsOK
  BY <1>1 DEF RowsOK, Index!Live
<1>3. LiveOK /\ DeadOK /\ CronOK
  BY <1>1 DEF Index!Init, LiveOK, DeadOK, CronOK, Followed, RowComes, ParentComes, Handled,
     Index!Live
<1>4. JobsOK
  BY DEF Index!Init, JobsOK, JobShape, JobOK, Index!Free
<1>5. TasksOK
  BY DEF Index!Init, TasksOK, TaskShape, TaskOK, Index!Idle
<1>. QED  BY <1>2, <1>3, <1>4, <1>5 DEF IndexInv

-----------------------------------------------------------------------------
(* What is posted stays so, what is deleted stays gone, versions grow. *)
Onward == /\ born \subseteq born' /\ Dead \subseteq Dead' /\ (owner' => owner)
          /\ \A t \in born \cap Index!Live' : t \in Index!Live /\ row[t] <= row'[t]

LEMMA JobStays == ASSUME Onward, RowsOK, RowsOK', NEW x, x.seen \in Nat, JobOK(x) PROVE JobOK(x)'
<1>1. ASSUME x.kind = "index" PROVE IndexJobOK(x)'
  <2>1. PICK t \in Tweets : /\ x.tweets = {t} /\ t \in born
                            /\ x.at # "waiting" => 0 < x.seen /\ (t \in Index!Live => x.seen <= row[t])
    BY <1>1 DEF JobOK, IndexJobOK
  <2>2. row[t] \in Nat /\ row'[t] \in Nat
    BY DEF RowsOK
  <2>3. t \in Index!Live' => t \in Index!Live /\ row[t] <= row'[t]
    BY <2>1 DEF Onward
  <2>. QED  BY <2>1, <2>2, <2>3 DEF Onward, IndexJobOK
<1>2. x.kind = "delete" => x.tweets \subseteq Dead'
  BY DEF JobOK, Onward
<1>3. x.kind = "purge" /\ x.at = "ready" => ~owner'
  BY DEF JobOK, Onward
<1>. QED  BY <1>1, <1>2, <1>3 DEF JobOK

LEMMA JobsStay == ASSUME Onward, RowsOK, RowsOK', JobsOK, job' = job PROVE JobsOK'
<1>1. ASSUME NEW j \in Index!Jobs PROVE JobShape(job[j])' /\ JobOK(job[j])'
  <2>1. PICK x : x = job[j]
    OBVIOUS
  <2>2. JobShape(x) /\ JobOK(x)
    BY <2>1 DEF JobsOK
  <2>3. CASE x = Index!Free
    <3>1. JobShape(x)' /\ JobOK(x)'
      BY <2>3 DEF Index!Free, JobShape, JobOK
    <3>. QED  BY <2>1, <3>1
  <2>4. CASE x # Index!Free
    <3>1. JobShape(x)' /\ JobOK(x)'
      BY <2>2, <2>4, JobStays DEF JobShape, JobShapes
    <3>. QED  BY <2>1, <3>1
  <2>. QED  BY <2>3, <2>4
<1>2. job' = [j \in Index!Jobs |-> job'[j]]
  BY DEF JobsOK
<1>. QED  BY <1>1, <1>2 DEF JobsOK

LEMMA JobSets ==
    ASSUME Onward, RowsOK, RowsOK', JobsOK, NEW i \in Index!Jobs, NEW x,
           job' = [job EXCEPT ![i] = x],
           JobShape(x), JobOK(x)'
    PROVE  JobsOK' /\ job'[i] = x /\ \A j \in Index!Jobs : j # i => job'[j] = job[j]
<1>1. job'[i] = x /\ \A j \in Index!Jobs : j # i => job'[j] = job[j]
  BY DEF JobsOK
<1>2. job' = [j \in Index!Jobs |-> job'[j]]
  BY DEF JobsOK
<1>3. ASSUME NEW j \in Index!Jobs PROVE JobShape(job[j])' /\ JobOK(job[j])'
  <2>1. PICK y : y = job'[j]
    OBVIOUS
  <2>2. JobShape(y)' /\ JobOK(y)'
    <3>1. CASE j = i
      BY <1>1, <2>1, <3>1 DEF JobShape
    <3>2. CASE j # i
      <4>1. y = job[j] /\ JobShape(y) /\ JobOK(y)
        BY <1>1, <2>1, <3>2 DEF JobsOK
      <4>2. CASE y = Index!Free
        BY <4>2 DEF Index!Free, JobShape, JobOK
      <4>3. CASE y # Index!Free
        BY <4>1, <4>3, JobStays DEF JobShape, JobShapes
      <4>. QED  BY <4>2, <4>3
    <3>. QED  BY <3>1, <3>2
  <2>. QED  BY <2>1, <2>2
<1>. QED  BY <1>1, <1>2, <1>3 DEF JobsOK

LEMMA TasksStay ==
    ASSUME TasksOK, Onward, UNCHANGED Index!requests
    PROVE  TasksOK' /\ \A t : IndexTask(t)' = IndexTask(t) /\ ParentTask(t)' = ParentTask(t)
BY DEF TasksOK, TaskShape, TaskOK, Onward, Index!requests, IndexTask, ParentTask

LEMMA BeginKeeps ==
    ASSUME TasksOK, Onward, IndexGiven, NEW op \in {"index", "delete", "purge", "undoRepost"},
           NEW t \in Tweets, NEW p \in BOOLEAN, Index!Begin(op, t, p),
           op \in {"index", "undoRepost"} => t \in born' \cap Tweets, op = "delete" => t \in Dead'
    PROVE  /\ TasksOK'
           /\ \A x : (IndexTask(x) => IndexTask(x)') /\ (ParentTask(x) => ParentTask(x)')
           /\ op = "index" => IndexTask(t)' /\ (p => ParentTask(t)')
<1>1. PICK s \in Index!Handlers : s = begun + 1 /\ todo[s] = Index!Idle
  BY DEF Index!Begin, TasksOK, Index!Handlers, IndexGiven
<1>2. PICK x : x = [op |-> op, tweet |-> t, parent |-> p]
  OBVIOUS
<1>3. /\ todo' = [todo EXCEPT ![s] = x] /\ begun' = s
  BY <1>1, <1>2 DEF Index!Begin
<1>4. todo'[s] = x /\ \A r \in Index!Handlers : r # s => todo'[r] = todo[r]
  BY <1>3 DEF TasksOK
<1>5. x.op = op /\ x.tweet = t /\ x.parent = p /\ TaskShape(x) /\ TaskOK(x)'
  BY <1>2 DEF TaskShape, TaskOK
<1>6. ASSUME NEW y, TaskOK(y) PROVE TaskOK(y)'
  BY <1>6 DEF TaskOK, Onward
<1>7. \A r \in Index!Handlers : TaskShape(todo'[r]) /\ TaskOK(todo[r])'
  <2>. SUFFICES ASSUME NEW r \in Index!Handlers PROVE TaskShape(todo'[r]) /\ TaskOK(todo[r])'
    OBVIOUS
  <2>1. PICK y : y = todo'[r]
    OBVIOUS
  <2>2. TaskShape(y) /\ TaskOK(y)'
    BY <1>4, <1>5, <1>6, <2>1 DEF TasksOK
  <2>. QED  BY <2>1, <2>2
<1>8. TasksOK'
  <2>1. todo' = [r \in Index!Handlers |-> todo'[r]]
    BY <1>3 DEF TasksOK
  <2>2. begun' \in Nat /\ \A r \in Index!Handlers : r > begun' => todo'[r] = Index!Idle
    BY <1>1, <1>3, <1>4 DEF TasksOK, Index!Handlers
  <2>. QED  BY <1>7, <2>1, <2>2 DEF TasksOK, TaskShape
<1>9. \A y : (IndexTask(y) => IndexTask(y)') /\ (ParentTask(y) => ParentTask(y)')
  BY <1>1, <1>4 DEF IndexTask, ParentTask, Index!Idle
<1>. QED  BY <1>4, <1>5, <1>8, <1>9 DEF IndexTask, ParentTask

LEMMA FinishKeeps ==
    ASSUME TasksOK, Onward, NEW s \in Index!Handlers, Index!Finish(s)
    PROVE  /\ TasksOK'
           /\ \A t : IndexTask(t) => IndexTask(t)' \/ (todo[s].op = "index" /\ todo[s].tweet = t)
           /\ \A t : ParentTask(t) => ParentTask(t)'
                \/ (todo[s].op = "index" /\ todo[s].tweet = t /\ todo[s].parent)
<1>1. todo' = [todo EXCEPT ![s] = Index!Idle] /\ begun' = begun
  BY DEF Index!Finish
<1>2. todo'[s] = Index!Idle /\ \A r \in Index!Handlers : r # s => todo'[r] = todo[r]
  BY <1>1 DEF TasksOK
<1>3. ASSUME NEW y, TaskOK(y) PROVE TaskOK(y)'
  BY <1>3 DEF TaskOK, Onward
<1>4. \A r \in Index!Handlers : TaskShape(todo'[r]) /\ TaskOK(todo[r])'
  <2>. SUFFICES ASSUME NEW r \in Index!Handlers PROVE TaskShape(todo'[r]) /\ TaskOK(todo[r])'
    OBVIOUS
  <2>1. PICK y : y = todo'[r]
    OBVIOUS
  <2>2. TaskShape(y) /\ TaskOK(y)'
    <3>1. CASE r = s
      BY <1>2, <2>1, <3>1 DEF TaskShape, TaskOK, Index!Idle
    <3>2. CASE r # s
      BY <1>2, <1>3, <2>1, <3>2 DEF TasksOK
    <3>. QED  BY <3>1, <3>2
  <2>. QED  BY <2>1, <2>2
<1>5. todo' = [r \in Index!Handlers |-> todo'[r]]
  BY <1>1 DEF TasksOK
<1>6. TasksOK'
  BY <1>1, <1>2, <1>4, <1>5 DEF TasksOK, TaskShape
<1>. QED  BY <1>2, <1>6 DEF IndexTask, ParentTask

-----------------------------------------------------------------------------
(* The handlers *)

JobsKept == \A j \in Index!Jobs : job[j] # Index!Free => job'[j] = job[j]

LEMMA FollowedStays ==
    ASSUME NEW t, Followed(t), doc' = doc, row'[t] = row[t], docParent' = docParent,
           astray \subseteq astray',
           IndexTask(t) => IndexTask(t)', ParentTask(t) => ParentTask(t)', JobsKept
    PROVE  Followed(t)'
<1>1. RowComes(t) => RowComes(t)'
  <2>1. \A j \in Index!Jobs : IndexJob(j, t) => IndexJob(j, t)'
    BY DEF JobsKept, IndexJob, HasJob
  <2>. QED  BY <2>1 DEF RowComes
<1>2. ParentComes(t) => ParentComes(t)'
  BY DEF JobsKept, ParentComes, HasJob
<1>. QED  BY <1>1, <1>2 DEF Followed, Index!IsChild

LEMMA HandledStays ==
    ASSUME NEW t, Handled(t), doc'[t] = doc[t], astray \subseteq astray', JobsKept
    PROVE  Handled(t)'
BY DEF Handled, JobsKept, HasJob

LEMMA EnqueueKeeps ==
    ASSUME Onward, RowsOK, RowsOK', JobsOK, NEW k \in {"index", "delete", "purge"},
           NEW T \in SUBSET Tweets, NEW p \in BOOLEAN,
           IndexGiven, Index!Enqueue(k, T, p), k = "index" => \E t \in Tweets \cap born' : T = {t},
           k = "delete" => T \subseteq Dead'
    PROVE  JobsOK' /\ JobsKept /\ \E j \in Index!Jobs : job'[j] = Index!NewJob(k, T, p)
<1>1. PICK x : x = Index!NewJob(k, T, p)
  OBVIOUS
<1>2. PICK j \in Index!Jobs : job[j] = Index!Free /\ job' = [job EXCEPT ![j] = x]
  BY <1>1 DEF Index!Enqueue
<1>3. x.kind = k /\ x.tweets = T /\ x.at = "waiting" /\ x.parent = p
  BY <1>1 DEF Index!NewJob
<1>4. JobShape(x)
  BY <1>1 DEF Index!NewJob, JobShape, JobShapes, IndexGiven
<1>5. JobOK(x)'
  BY <1>3 DEF JobOK, IndexJobOK
<1>6. JobsOK' /\ job'[j] = x /\ \A i \in Index!Jobs : i # j => job'[i] = job[i]
  BY <1>2, <1>4, <1>5, JobSets
<1>. QED  BY <1>1, <1>2, <1>6 DEF JobsKept

LEMMA InsertKeeps == ASSUME IndexInv, NEW t \in Tweets, Index!InsertTweet(t) PROVE IndexInv'
<1>1. /\ t \notin born /\ (t \in Owned => owner) /\ row' = [row EXCEPT ![t] = 1]
           /\ born' = born \cup {t}
      /\ owner' = owner /\ log' = log /\ doc' = doc /\ docParent' = docParent /\ job' = job
      /\ cron' = cron /\ astray' = astray /\ Index!Begin("index", t, Index!IsChild(t))
  BY DEF Index!InsertTweet, Index!index
<1>2. /\ row \in [Tweets -> Nat] /\ t \notin Index!Live
      /\ IndexGiven /\ RowsOK /\ LiveOK /\ DeadOK /\ CronOK /\ JobsOK /\ TasksOK
  BY <1>1 DEF IndexInv, RowsOK
<1>3. Index!Live' = Index!Live \cup {t} /\ row'[t] = 1 /\ \A x \in Tweets : x # t
      => row'[x] = row[x]
  BY <1>1, <1>2 DEF Index!Live
<1>4. Dead' = Dead /\ Onward
  BY <1>1, <1>2, <1>3 DEF Dead, Onward, Index!Live, RowsOK
<1>5. RowsOK'
  BY <1>1, <1>2, <1>3, <1>4 DEF RowsOK
<1>6. /\ TasksOK' /\ IndexTask(t)' /\ (Index!IsChild(t) => ParentTask(t)')
      /\ \A x : (IndexTask(x) => IndexTask(x)') /\ (ParentTask(x) => ParentTask(x)')
  <2>1. Index!IsChild(t) \in BOOLEAN
    BY DEF Index!IsChild
  <2>. QED  BY <1>1, <1>2, <1>4, <2>1, BeginKeeps
<1>7. JobsOK' /\ JobsKept
  BY <1>1, <1>2, <1>4, <1>5, JobsStay DEF JobsKept
<1>8. LiveOK'
  <2>1. Followed(t)'
    BY <1>6 DEF Followed, RowComes, ParentComes, Index!IsChild
  <2>2. \A x \in Index!Live : Followed(x)'
    BY <1>1, <1>2, <1>3, <1>6, <1>7, FollowedStays DEF LiveOK, Index!Live
  <2>. QED  BY <1>3, <2>1, <2>2 DEF LiveOK
<1>9. DeadOK'
  BY <1>1, <1>2, <1>3, <1>7, HandledStays DEF DeadOK
<1>10. CronOK'
  BY <1>1, <1>2, <1>4, <1>7, HandledStays DEF CronOK
<1>. QED  BY <1>5, <1>6, <1>7, <1>8, <1>9, <1>10 DEF IndexInv

LEMMA ChangeKeeps == ASSUME IndexInv, NEW t \in Tweets, Index!ChangeTweet(t) PROVE IndexInv'
<1>1. /\ row[t] \in 1..(MaxVersion - 1) /\ row' = [row EXCEPT ![t] = @ + 1] /\ born' = born
      /\ owner' = owner /\ log' = log /\ doc' = doc /\ docParent' = docParent /\ job' = job
      /\ cron' = cron /\ astray' = astray /\ Index!Begin("index", t, FALSE)
  BY DEF Index!ChangeTweet, Index!index
<1>2. /\ row \in [Tweets -> Nat] /\ t \in Index!Live /\ t \in born
      /\ IndexGiven /\ RowsOK /\ LiveOK /\ DeadOK /\ CronOK /\ JobsOK /\ TasksOK
  BY <1>1 DEF IndexInv, RowsOK, Index!Live
<1>3. Index!Live' = Index!Live /\ row'[t] = row[t] + 1 /\ \A x \in Tweets : x # t
      => row'[x] = row[x]
  BY <1>1, <1>2 DEF Index!Live
<1>4. Dead' = Dead /\ Onward
  BY <1>1, <1>2, <1>3 DEF Dead, Onward, Index!Live
<1>5. RowsOK'
  BY <1>1, <1>2, <1>3, <1>4 DEF RowsOK
<1>6. /\ TasksOK' /\ IndexTask(t)'
      /\ \A x : (IndexTask(x) => IndexTask(x)') /\ (ParentTask(x) => ParentTask(x)')
  BY <1>1, <1>2, <1>4, BeginKeeps
<1>7. JobsOK' /\ JobsKept
  BY <1>1, <1>2, <1>4, <1>5, JobsStay DEF JobsKept
<1>8. LiveOK'
  <2>1. Followed(t)'
    <3>1. RowComes(t)'
      BY <1>6 DEF RowComes
    <3>2. ParentComes(t) => ParentComes(t)'
      BY <1>1, <1>6 DEF ParentComes, HasJob
    <3>. QED  BY <1>1, <1>2, <3>1, <3>2 DEF LiveOK, Followed, Index!IsChild
  <2>2. \A x \in Index!Live \ {t} : Followed(x)'
    BY <1>1, <1>2, <1>3, <1>6, <1>7, FollowedStays DEF LiveOK, Index!Live
  <2>. QED  BY <1>3, <2>1, <2>2 DEF LiveOK
<1>9. DeadOK'
  BY <1>1, <1>2, <1>3, <1>7, HandledStays DEF DeadOK
<1>10. CronOK'
  BY <1>1, <1>2, <1>4, <1>7, HandledStays DEF CronOK
<1>. QED  BY <1>5, <1>6, <1>7, <1>8, <1>9, <1>10 DEF IndexInv

LEMMA CascadeOf ==
    ASSUME NEW S
    PROVE  Index!Cascade(S) \subseteq Index!Live /\ S \cap Index!Live \subseteq Index!Cascade(S)
BY DEF Index!Cascade

LEMMA GoneKeeps ==
    ASSUME RowsOK, NEW D \in SUBSET Index!Live, Index!Gone(D), Index!LogDeleted(D), born' = born,
           doc' = doc,
           owner' => owner, owner /\ ~owner' => Owned \cap Index!Live \subseteq D
    PROVE  RowsOK' /\ Onward /\ Index!Live' = Index!Live \ D
          /\ \A t \in Index!Live' : row'[t] = row[t]
<1>1. row' = [t \in Tweets |-> IF t \in D THEN 0 ELSE row[t]] /\ log' = log \cup D
  BY DEF Index!Gone, Index!LogDeleted
<1>2. Index!Live' = Index!Live \ D /\ \A t \in Index!Live' : row'[t] = row[t]
  BY <1>1 DEF Index!Live, RowsOK
<1>3. Dead' = Dead \cup D
  BY <1>2 DEF Dead, RowsOK, Index!Live
<1>4. Onward
  BY <1>2, <1>3 DEF Onward, RowsOK, Index!Live
<1>5. RowsOK'
  BY <1>1, <1>2, <1>3 DEF RowsOK
<1>. QED  BY <1>2, <1>4, <1>5

LEMMA DeleteKeeps == ASSUME IndexInv, NEW t \in Tweets, Index!DeleteTweet(t) PROVE IndexInv'
<1>1. /\ t \in Index!Live /\ Index!Gone(Index!Cascade({t}))
      /\ Index!LogDeleted(Index!Cascade({t})) /\ born' = born /\ Index!Begin("delete", t, FALSE)
      /\ owner' = owner /\ doc' = doc /\ docParent' = docParent /\ job' = job
      /\ cron' = cron /\ astray' = astray
  BY DEF Index!DeleteTweet, Index!index
<1>2. IndexGiven /\ RowsOK /\ LiveOK /\ DeadOK /\ CronOK /\ JobsOK /\ TasksOK
  BY DEF IndexInv
<1>3. PICK D \in SUBSET Index!Live : D = Index!Cascade({t}) /\ t \in D
  BY <1>1, CascadeOf
<1>4. /\ RowsOK' /\ Onward /\ Index!Live' = Index!Live \ D
           /\ (\A x \in Index!Live' : row'[x] = row[x])
      /\ log' = log \cup D
  BY <1>1, <1>2, <1>3, GoneKeeps DEF Index!LogDeleted
<1>5. t \in Dead'
  BY <1>1, <1>2, <1>3, <1>4 DEF Dead, RowsOK, Index!Live
<1>6. TasksOK' /\ \A x : (IndexTask(x) => IndexTask(x)') /\ (ParentTask(x) => ParentTask(x)')
  BY <1>1, <1>2, <1>4, <1>5, BeginKeeps
<1>7. JobsOK' /\ JobsKept
  BY <1>1, <1>2, <1>4, JobsStay DEF JobsKept
<1>8. LiveOK'
  BY <1>1, <1>2, <1>4, <1>6, <1>7, FollowedStays DEF LiveOK
<1>9. DeadOK'
  BY <1>1, <1>2, <1>4, <1>7, HandledStays DEF DeadOK
<1>10. CronOK'
  BY <1>1, <1>2, <1>4, <1>7, HandledStays DEF CronOK, Onward
<1>. QED  BY <1>4, <1>6, <1>7, <1>8, <1>9, <1>10 DEF IndexInv

\* Steps that leave the rows alone.
LEMMA RowsStay == ASSUME RowsOK, UNCHANGED <<row, born, owner, log, doc>>
    PROVE RowsOK' /\ Onward /\ Index!Live' = Index!Live /\ Dead' = Dead
<1>1. Index!Live' = Index!Live /\ Dead' = Dead
  BY DEF Index!Live, Dead
<1>. QED  BY <1>1 DEF RowsOK, Onward, Index!Live

LEMMA DeleteUserKeeps == ASSUME IndexInv, Index!DeleteUser PROVE IndexInv'
<1>1. PICK t \in Owned \cap Tweets : Index!Begin("purge", t, FALSE)
  BY DEF Index!DeleteUser, IndexInv, IndexGiven
<1>2. /\ row' = row /\ born' = born /\ log' = log /\ owner' = owner /\ doc' = doc
      /\ docParent' = docParent
      /\ job' = job /\ cron' = cron /\ astray' = astray
  BY DEF Index!DeleteUser, Index!db, Index!index
<1>3. IndexGiven /\ RowsOK /\ LiveOK /\ DeadOK /\ CronOK /\ JobsOK /\ TasksOK
  BY DEF IndexInv
<1>4. RowsOK' /\ Onward /\ Index!Live' = Index!Live /\ Dead' = Dead
  BY <1>2, <1>3, RowsStay
<1>5. TasksOK' /\ \A x : (IndexTask(x) => IndexTask(x)') /\ (ParentTask(x) => ParentTask(x)')
  BY <1>1, <1>3, <1>4, BeginKeeps
<1>6. JobsOK' /\ JobsKept
  BY <1>2, <1>3, <1>4, JobsStay DEF JobsKept
<1>. QED  BY <1>2, <1>3, <1>4, <1>5, <1>6, FollowedStays, HandledStays DEF IndexInv, LiveOK,
     DeadOK, CronOK

LEMMA UndoQueueKeeps == ASSUME IndexInv, NEW t \in Tweets, Index!UndoRepostQueue(t) PROVE IndexInv'
<1>1. /\ t \in Index!Live /\ Index!Begin("undoRepost", t, FALSE)
           /\ (Index!Enqueue("index", {t}, FALSE) \/ job' = job)
      /\ row' = row /\ born' = born /\ log' = log /\ owner' = owner /\ doc' = doc
      /\ docParent' = docParent
      /\ cron' = cron /\ astray' = astray
  BY DEF Index!UndoRepostQueue, Index!db, Index!index
<1>3. IndexGiven /\ RowsOK /\ LiveOK /\ DeadOK /\ CronOK /\ JobsOK /\ TasksOK /\ t \in born
  BY <1>1 DEF IndexInv, RowsOK
<1>4. RowsOK' /\ Onward /\ Index!Live' = Index!Live /\ Dead' = Dead
  BY <1>1, <1>3, RowsStay
<1>5. TasksOK' /\ \A x : (IndexTask(x) => IndexTask(x)') /\ (ParentTask(x) => ParentTask(x)')
  BY <1>1, <1>3, <1>4, BeginKeeps
<1>6. JobsOK' /\ JobsKept
  <2>1. CASE job' = job
    BY <1>3, <1>4, <2>1, JobsStay DEF JobsKept
  <2>2. CASE Index!Enqueue("index", {t}, FALSE)
    BY <1>1, <1>3, <1>4, <2>2, EnqueueKeeps
  <2>. QED  BY <1>1, <2>1, <2>2
<1>. QED  BY <1>1, <1>3, <1>4, <1>5, <1>6, FollowedStays, HandledStays DEF IndexInv, LiveOK,
     DeadOK, CronOK

LEMMA UndoCommitKeeps ==
    ASSUME IndexInv, NEW r \in Index!Handlers, Index!UndoRepostCommit(r)
    PROVE  IndexInv'
<1>1. PICK t : t = todo[r].tweet
  OBVIOUS
<1>2. /\ todo[r].op = "undoRepost" /\ row' = (IF t \in Index!Live THEN [row EXCEPT ![t] = @ + 1] ELSE row)
      /\ astray' = IF t \in Index!Live /\ ~\E j \in Index!Jobs : Index!At(j, "index", "waiting") /\ t \in job[j].tweets
                   THEN astray \cup {t} ELSE astray
      /\ Index!Finish(r)
      /\ born' = born /\ log' = log /\ owner' = owner /\ doc' = doc /\ docParent' = docParent
      /\ job' = job /\ cron' = cron
  BY <1>1 DEF Index!UndoRepostCommit, Index!index
<1>3. IndexGiven /\ RowsOK /\ LiveOK /\ DeadOK /\ CronOK /\ JobsOK /\ TasksOK
      /\ row \in [Tweets -> Nat]
  BY DEF IndexInv, RowsOK
<1>4. /\ Index!Live' = Index!Live /\ (t \in Index!Live => row'[t] = row[t] + 1)
      /\ \A x \in Tweets : x # t => row'[x] = row[x]
  BY <1>2, <1>3 DEF Index!Live
<1>5. Dead' = Dead /\ Onward
  BY <1>2, <1>3, <1>4 DEF Dead, Onward, Index!Live
<1>6. RowsOK'
  <2>1. row' \in [Tweets -> Nat]
    <3>1. CASE t \in Index!Live
      <4>1. row' = [row EXCEPT ![t] = row[t] + 1] /\ row[t] + 1 \in Nat
        BY <1>2, <1>3, <3>1 DEF Index!Live
      <4>. QED  BY <1>3, <4>1
    <3>2. CASE t \notin Index!Live
      BY <1>2, <1>3, <3>2
    <3>. QED  BY <3>1, <3>2
  <2>. QED  BY <1>2, <1>3, <1>4, <1>5, <2>1 DEF RowsOK
<1>7. TasksOK' /\ \A x : (IndexTask(x) => IndexTask(x)') /\ (ParentTask(x) => ParentTask(x)')
  BY <1>2, <1>3, <1>5, FinishKeeps
<1>8. JobsOK' /\ JobsKept /\ astray \subseteq astray'
  BY <1>2, <1>3, <1>5, <1>6, JobsStay DEF JobsKept
<1>9. LiveOK'
  <2>1. ASSUME t \in Index!Live PROVE Followed(t)'
    <3>1. CASE \E j \in Index!Jobs : Index!At(j, "index", "waiting") /\ t \in job[j].tweets
      <4>1. RowComes(t)'
        BY <1>2, <3>1 DEF RowComes, IndexJob, HasJob, Index!At
      <4>2. ParentComes(t) => ParentComes(t)'
        BY <1>2, <1>7 DEF ParentComes, HasJob
      <4>. QED  BY <1>2, <1>3, <1>8, <2>1, <4>1, <4>2 DEF LiveOK, Followed, Index!IsChild
    <3>2. CASE ~\E j \in Index!Jobs : Index!At(j, "index", "waiting") /\ t \in job[j].tweets
      BY <1>2, <2>1, <3>2 DEF Followed
    <3>. QED  BY <3>1, <3>2
  <2>2. \A x \in Index!Live \ {t} : Followed(x)'
    BY <1>2, <1>3, <1>4, <1>7, <1>8, FollowedStays DEF LiveOK, Index!Live
  <2>. QED  BY <1>4, <2>1, <2>2 DEF LiveOK
<1>10. DeadOK' /\ CronOK'
  BY <1>2, <1>3, <1>4, <1>5, <1>8, HandledStays DEF DeadOK, CronOK
<1>. QED  BY <1>6, <1>7, <1>8, <1>9, <1>10 DEF IndexInv

LEMMA QueueJobKeeps == ASSUME IndexInv, NEW r \in Index!Handlers, Index!QueueJob(r) PROVE IndexInv'
<1>1. PICK x : x = todo[r]
  OBVIOUS
<1>2. /\ x.op \in {"index", "delete", "purge"} /\ Index!Enqueue(x.op, {x.tweet}, x.parent)
      /\ Index!Finish(r)
      /\ row' = row /\ born' = born /\ log' = log /\ owner' = owner /\ doc' = doc
      /\ docParent' = docParent
      /\ cron' = cron /\ astray' = astray
  BY <1>1 DEF Index!QueueJob, Index!db, Index!index
<1>3. IndexGiven /\ RowsOK /\ LiveOK /\ DeadOK /\ CronOK /\ JobsOK /\ TasksOK
  BY DEF IndexInv
<1>4. RowsOK' /\ Onward /\ Index!Live' = Index!Live /\ Dead' = Dead
  BY <1>2, <1>3, RowsStay
<1>5. /\ TasksOK'
      /\ \A t : IndexTask(t) => IndexTask(t)' \/ (x.op = "index" /\ x.tweet = t)
      /\ \A t : ParentTask(t) => ParentTask(t)' \/ (x.op = "index" /\ x.tweet = t /\ x.parent)
  BY <1>1, <1>2, <1>3, <1>4, FinishKeeps
<1>6. TaskOK(x) /\ x.parent \in BOOLEAN
  BY <1>1, <1>2, <1>3 DEF TasksOK, TaskShape, Index!Idle
<1>7. JobsOK' /\ JobsKept /\ \E j \in Index!Jobs : job'[j] = Index!NewJob(x.op, {x.tweet}, x.parent)
  <2>1. x.op = "index" => \E t \in Tweets \cap born' : {x.tweet} = {t}
    BY <1>2, <1>6 DEF TaskOK
  <2>2. x.op = "delete" => {x.tweet} \subseteq Dead'
    BY <1>4, <1>6 DEF TaskOK
  <2>3. {x.tweet} \in SUBSET Tweets
    BY <1>2, <1>6 DEF TaskOK
  <2>. QED  BY <1>2, <1>3, <1>4, <1>6, <2>1, <2>2, <2>3, EnqueueKeeps
<1>8. ASSUME NEW t \in Index!Live PROVE Followed(t)'
  <2>. PICK y : y = Index!NewJob(x.op, {x.tweet}, x.parent)
    OBVIOUS
  <2>1. PICK j \in Index!Jobs : job'[j] = y
    BY <1>7
  <2>2. y # Index!Free /\ y.kind = x.op /\ y.tweets = {x.tweet} /\ y.at = "waiting"
        /\ y.parent = x.parent
    BY <1>2 DEF Index!NewJob, Index!Free
  <2>3. x.op = "index" /\ x.tweet = t => RowComes(t)'
    BY <2>1, <2>2 DEF RowComes, IndexJob, HasJob
  <2>4. x.op = "index" /\ x.tweet = t /\ x.parent => ParentComes(t)'
    BY <2>1, <2>2 DEF ParentComes, HasJob
  <2>5. RowComes(t) => RowComes(t)'
    <3>1. \A i \in Index!Jobs : IndexJob(i, t) => IndexJob(i, t)'
      BY <1>2, <1>7 DEF JobsKept, IndexJob, HasJob
    <3>. QED  BY <1>2, <1>5, <2>3, <3>1 DEF RowComes
  <2>6. ParentComes(t) => ParentComes(t)'
    <3>1. \A i \in Index!Jobs : HasJob(i, "index", t) /\ job[i].parent
          => HasJob(i, "index", t)' /\ job'[i].parent
      BY <1>7 DEF JobsKept, HasJob
    <3>. QED  BY <1>2, <1>5, <2>4, <3>1 DEF ParentComes
  <2>. QED  BY <1>2, <1>3, <2>5, <2>6 DEF LiveOK, Followed, Index!IsChild
<1>9. DeadOK' /\ CronOK'
  BY <1>2, <1>3, <1>4, <1>7, HandledStays DEF DeadOK, CronOK
<1>. QED  BY <1>4, <1>5, <1>7, <1>8, <1>9 DEF IndexInv, LiveOK

LEMMA AbortKeeps == ASSUME IndexInv, NEW r \in Index!Handlers, Index!Abort(r) PROVE IndexInv'
<1>1. PICK x : x = todo[r]
  OBVIOUS
<1>2. /\ astray' = (IF x.op = "index" THEN astray \cup {x.tweet} ELSE astray) /\ Index!Finish(r)
      /\ row' = row /\ born' = born /\ log' = log /\ owner' = owner /\ doc' = doc
      /\ docParent' = docParent
      /\ job' = job /\ cron' = cron
  BY <1>1 DEF Index!Abort, Index!db, Index!index
<1>3. IndexGiven /\ RowsOK /\ LiveOK /\ DeadOK /\ CronOK /\ JobsOK /\ TasksOK
  BY DEF IndexInv
<1>4. RowsOK' /\ Onward /\ Index!Live' = Index!Live /\ Dead' = Dead
  BY <1>2, <1>3, RowsStay
<1>5. /\ TasksOK'
      /\ \A t : IndexTask(t) => IndexTask(t)' \/ (x.op = "index" /\ x.tweet = t)
      /\ \A t : ParentTask(t) => ParentTask(t)' \/ (x.op = "index" /\ x.tweet = t /\ x.parent)
  BY <1>1, <1>2, <1>3, <1>4, FinishKeeps
<1>6. JobsOK' /\ JobsKept /\ astray \subseteq astray'
  BY <1>2, <1>3, <1>4, JobsStay DEF JobsKept
<1>7. ASSUME NEW t \in Index!Live PROVE Followed(t)'
  <2>1. CASE x.op = "index" /\ x.tweet = t
    BY <1>2, <2>1 DEF Followed
  <2>2. CASE ~(x.op = "index" /\ x.tweet = t)
    BY <1>2, <1>3, <1>5, <1>6, <2>2, FollowedStays DEF LiveOK
  <2>. QED  BY <2>1, <2>2
<1>8. DeadOK' /\ CronOK'
  BY <1>2, <1>3, <1>4, <1>6, HandledStays DEF DeadOK, CronOK
<1>. QED  BY <1>4, <1>5, <1>6, <1>7, <1>8 DEF IndexInv, LiveOK

-----------------------------------------------------------------------------
(* The workers *)

\* One job changes.
Worked(i, x) == /\ job' = [job EXCEPT ![i] = x] /\ UNCHANGED <<row, born, log, todo, begun, cron>>
                /\ owner' = owner

LEMMA WorkedFrame ==
    ASSUME IndexInv, NEW i \in Index!Jobs, NEW x, Worked(i, x), RowsOK', JobShape(x), JobOK(x)'
    PROVE  /\ Onward /\ Index!Live' = Index!Live /\ Dead' = Dead /\ TasksOK' /\ JobsOK'
           /\ job'[i] = x /\ \A j \in Index!Jobs : j # i => job'[j] = job[j]
           /\ \A t : (IndexTask(t) <=> IndexTask(t)') /\ (ParentTask(t) <=> ParentTask(t)')
<1>1. Index!Live' = Index!Live /\ Dead' = Dead /\ Onward
  BY DEF Worked, Index!Live, Dead, Onward, IndexInv, RowsOK
<1>2. TasksOK' /\ \A t : (IndexTask(t) <=> IndexTask(t)') /\ (ParentTask(t) <=> ParentTask(t)')
  BY <1>1, TasksStay DEF Worked, IndexInv, Index!requests
<1>3. JobsOK' /\ job'[i] = x /\ \A j \in Index!Jobs : j # i => job'[j] = job[j]
  BY <1>1, JobSets DEF Worked, IndexInv
<1>. QED  BY <1>1, <1>2, <1>3

\* A job that stays what it is, and does not lose what it has read of the row.
SameJob(x, y) == /\ y # Index!Free /\ x # Index!Free /\ y.kind = x.kind /\ y.tweets = x.tweets
                      /\ y.parent = x.parent
                 /\ x.kind = "index" => \A t \in x.tweets :
                        x.at = "waiting" \/ x.seen = row[t] => y.at = "waiting" \/ y.seen = row[t]

LEMMA SameKeeps ==
    ASSUME IndexInv, NEW i \in Index!Jobs, NEW x, Worked(i, x), doc' = doc,
           docParent' = docParent, astray' = astray,
           JobShape(x), JobOK(x), SameJob(job[i], x)
    PROVE  IndexInv'
<1>1. RowsOK'
  BY RowsStay DEF Worked, IndexInv
<1>2. JobOK(x)'
  <2>1. Index!Live' = Index!Live /\ Dead' = Dead /\ row' = row /\ born' = born /\ owner' = owner
    BY DEF Worked, Index!Live, Dead
  <2>. QED  BY <2>1 DEF JobOK, IndexJobOK
<1>3. /\ Onward /\ Index!Live' = Index!Live /\ Dead' = Dead /\ TasksOK' /\ JobsOK'
      /\ job'[i] = x /\ \A j \in Index!Jobs : j # i => job'[j] = job[j]
      /\ \A t : (IndexTask(t) <=> IndexTask(t)') /\ (ParentTask(t) <=> ParentTask(t)')
  BY <1>1, <1>2, WorkedFrame
<1>4. /\ row' = row /\ cron' = cron /\ log' = log
      /\ LiveOK /\ DeadOK /\ CronOK
  BY DEF Worked, IndexInv
<1>5. ASSUME NEW t, NEW j \in Index!Jobs
      PROVE  /\ IndexJob(j, t) => IndexJob(j, t)'
             /\ \A k : HasJob(j, k, t) => HasJob(j, k, t)'
             /\ HasJob(j, "index", t) /\ job[j].parent => job'[j].parent
  BY <1>3, <1>4 DEF SameJob, IndexJob, HasJob
<1>6. ASSUME NEW t, Followed(t) PROVE Followed(t)'
  BY <1>3, <1>4, <1>5, <1>6 DEF Followed, RowComes, ParentComes, Index!IsChild
<1>7. ASSUME NEW t, Handled(t) PROVE Handled(t)'
  BY <1>5, <1>7 DEF Handled
<1>8. LiveOK' /\ DeadOK' /\ CronOK'
  BY <1>3, <1>4, <1>6, <1>7 DEF LiveOK, DeadOK, CronOK
<1>. QED  BY <1>1, <1>3, <1>8 DEF IndexInv

\* What index and delete jobs are about.
LEMMA IndexJobIs ==
    ASSUME IndexInv, NEW i \in Index!Jobs, job[i] # Index!Free, job[i].kind = "index"
    PROVE  /\ Index!Tweet(i) \in Tweets /\ job[i].tweets = {Index!Tweet(i)}
           /\ Index!Tweet(i) \in born
           /\ job[i].at # "waiting" => 0 < job[i].seen
                /\ (Index!Tweet(i) \in Index!Live => job[i].seen <= row[Index!Tweet(i)])
<1>1. JobOK(job[i])
  BY DEF IndexInv, JobsOK
<1>2. PICK t \in Tweets : /\ job[i].tweets = {t} /\ t \in born
                          /\ job[i].at # "waiting" => 0 < job[i].seen
                               /\ (t \in Index!Live => job[i].seen <= row[t])
  BY <1>1 DEF JobOK, IndexJobOK
<1>3. Index!Tweet(i) = t
  BY <1>2 DEF Index!Tweet
<1>. QED  BY <1>2, <1>3

LEMMA JobFields ==
    ASSUME IndexInv, NEW i \in Index!Jobs, job[i] # Index!Free
    PROVE  job[i] \in JobShapes /\ JobOK(job[i])
BY DEF IndexInv, JobsOK, JobShape

LEMMA FreeOK == JobShape(Index!Free) /\ JobOK(Index!Free)'
BY DEF JobShape, JobOK, Index!Free

LEMMA Unmoved ==
    ASSUME IndexInv, NEW i \in Index!Jobs, NEW x, job'[i] = x,
           \A j \in Index!Jobs : j # i => job'[j] = job[j],
           NEW t, row' = row, doc'[t] = doc[t], t \in docParent
                 => t \in docParent', t \in astray => t \in astray',
           IndexTask(t) => IndexTask(t)', ParentTask(t) => ParentTask(t)'
    PROVE  /\ job[i].kind # "index" \/ t \notin job[i].tweets => (Followed(t) => Followed(t)')
           /\ job[i].kind # "delete" \/ t \notin job[i].tweets => (Handled(t) => Handled(t)')
<1>1. ASSUME job[i].kind # "index" \/ t \notin job[i].tweets, Followed(t) PROVE Followed(t)'
  <2>1. \A j \in Index!Jobs : HasJob(j, "index", t) => j # i
    BY <1>1 DEF HasJob
  <2>2. RowComes(t) => RowComes(t)'
    <3>1. \A j \in Index!Jobs : IndexJob(j, t) => IndexJob(j, t)'
      BY <2>1 DEF IndexJob, HasJob
    <3>. QED  BY <3>1 DEF RowComes
  <2>3. ParentComes(t) => ParentComes(t)'
    <3>1. \A j \in Index!Jobs : HasJob(j, "index", t) /\ job[j].parent
          => HasJob(j, "index", t)' /\ job'[j].parent
      BY <2>1 DEF HasJob
    <3>. QED  BY <3>1 DEF ParentComes
  <2>. QED  BY <1>1, <2>2, <2>3 DEF Followed, Index!IsChild
<1>2. ASSUME job[i].kind # "delete" \/ t \notin job[i].tweets, Handled(t) PROVE Handled(t)'
  <2>1. \A j \in Index!Jobs : HasJob(j, "delete", t) => HasJob(j, "delete", t)'
    BY <1>2 DEF HasJob
  <2>. QED  BY <1>2, <2>1 DEF Handled
<1>. QED  BY <1>1, <1>2

LEMMA IndexReadKeeps == ASSUME IndexInv, NEW i \in Index!Jobs, Index!IndexRead(i) PROVE IndexInv'
<1>1. PICK t : t = Index!Tweet(i)
  OBVIOUS
<1>2. /\ job[i] # Index!Free /\ job[i].kind = "index" /\ job[i].at = "waiting"
      /\ row' = row /\ born' = born /\ log' = log /\ owner' = owner /\ doc' = doc
      /\ docParent' = docParent
      /\ todo' = todo /\ begun' = begun /\ cron' = cron /\ astray' = astray
  BY DEF Index!IndexRead, Index!At, Index!db, Index!index, Index!requests
<1>3. t \in Tweets /\ job[i].tweets = {t} /\ t \in born
  BY <1>1, <1>2, IndexJobIs
<1>4. CASE t \notin Index!Live
  <2>1. Worked(i, Index!Free)
    BY <1>1, <1>2, <1>4 DEF Index!IndexRead, Index!Complete, Worked
  <2>2. RowsOK'
    BY <1>2, RowsStay DEF IndexInv
  <2>3. /\ Onward /\ Index!Live' = Index!Live /\ Dead' = Dead /\ TasksOK' /\ JobsOK'
        /\ job'[i] = Index!Free /\ \A j \in Index!Jobs : j # i => job'[j] = job[j]
        /\ \A u : (IndexTask(u) <=> IndexTask(u)') /\ (ParentTask(u) <=> ParentTask(u)')
    BY <2>1, <2>2, FreeOK, WorkedFrame
  <2>4. \A u : (u # t /\ Followed(u) => Followed(u)') /\ (Handled(u) => Handled(u)')
    BY <1>2, <1>3, <2>3, Unmoved
  <2>5. LiveOK' /\ DeadOK' /\ CronOK'
    BY <1>2, <1>4, <2>3, <2>4 DEF IndexInv, LiveOK, DeadOK, CronOK
  <2>. QED  BY <2>2, <2>3, <2>5 DEF IndexInv
<1>5. CASE t \in Index!Live
  <2>1. PICK a \in {"read", "ready"} :
          job' = [job EXCEPT ![i] = [job[i] EXCEPT !.seen = row[t], !.at = a]]
    <3>1. job' = [job EXCEPT ![i].seen = row[t],
                     ![i].at = IF Index!IsChild(t) /\ ~job[i].parent THEN "read" ELSE "ready"]
      BY <1>1, <1>5 DEF Index!IndexRead
    <3>. QED  BY <3>1 DEF IndexInv, JobsOK
  <2>. PICK x : x = [job[i] EXCEPT !.seen = row[t], !.at = a]
    OBVIOUS
  <2>2. row[t] \in Nat /\ row[t] > 0
    BY <1>5 DEF Index!Live, IndexInv, RowsOK
  <2>3. /\ x.kind = "index" /\ x.tweets = {t} /\ x.seen = row[t] /\ x.at = a
             /\ x.parent = job[i].parent
        /\ JobShape(x)
    <3>1. PICK y : y = job[i] /\ y \in JobShapes /\ x = [y EXCEPT !.seen = row[t], !.at = a]
      BY <1>2, JobFields
    <3>. QED  BY <1>2, <1>3, <2>2, <3>1 DEF JobShape, JobShapes
  <2>4. JobOK(x)
    BY <1>3, <2>2, <2>3 DEF JobOK, IndexJobOK
  <2>5. SameJob(job[i], x)
    BY <1>2, <1>3, <2>3 DEF SameJob, Index!Free
  <2>6. Worked(i, x)
    BY <1>2, <2>1 DEF Worked
  <2>. QED  BY <1>2, <2>3, <2>4, <2>5, <2>6, SameKeeps
<1>. QED  BY <1>4, <1>5

LEMMA IndexGetKeeps == ASSUME IndexInv, NEW i \in Index!Jobs, Index!IndexGet(i) PROVE IndexInv'
<1>1. PICK t : t = Index!Tweet(i)
  OBVIOUS
<1>2. /\ job[i] # Index!Free /\ job[i].kind = "index" /\ job[i].at = "read"
      /\ row' = row /\ born' = born /\ log' = log /\ owner' = owner /\ doc' = doc
      /\ docParent' = docParent
      /\ todo' = todo /\ begun' = begun /\ cron' = cron /\ astray' = astray
  BY DEF Index!IndexGet, Index!At, Index!db, Index!index, Index!requests
<1>3. /\ t \in Tweets /\ job[i].tweets = {t} /\ t \in born
      /\ 0 < job[i].seen /\ (t \in Index!Live => job[i].seen <= row[t])
  BY <1>1, <1>2, IndexJobIs
<1>4. PICK found \in BOOLEAN :
        job' = [job EXCEPT ![i].at = "ready", ![i].old = found]
  BY DEF Index!IndexGet
<1>. PICK x : x = [job[i] EXCEPT !.at = "ready", !.old = found]
  OBVIOUS
<1>5. job' = [job EXCEPT ![i] = x]
  BY <1>4 DEF IndexInv, JobsOK
<1>6. /\ x.kind = "index" /\ x.tweets = {t} /\ x.seen = job[i].seen /\ x.at = "ready"
      /\ x.parent = job[i].parent
      /\ JobShape(x)
  <2>1. PICK y : y = job[i] /\ y \in JobShapes /\ x = [y EXCEPT !.at = "ready", !.old = found]
    BY <1>2, JobFields
  <2>. QED  BY <1>2, <1>3, <2>1 DEF JobShape, JobShapes
<1>7. JobOK(x)
  BY <1>3, <1>6 DEF JobOK, IndexJobOK
<1>8. SameJob(job[i], x)
  BY <1>2, <1>3, <1>6 DEF SameJob, Index!Free
<1>9. Worked(i, x)
  BY <1>2, <1>5 DEF Worked
<1>. QED  BY <1>2, <1>6, <1>7, <1>8, <1>9, SameKeeps

LEMMA IndexWriteKeeps == ASSUME IndexInv, NEW i \in Index!Jobs, Index!IndexWrite(i) PROVE IndexInv'
<1>1. PICK t : t = Index!Tweet(i)
  OBVIOUS
<1>. PICK s : s = job[i].seen
  OBVIOUS
<1>2. PICK whole \in BOOLEAN : s = job[i].seen /\ (whole <=> job[i].parent \/ job[i].old)
  OBVIOUS
<1>3. /\ job[i] # Index!Free /\ job[i].kind = "index" /\ job[i].at = "ready"
      /\ row' = row /\ born' = born /\ log' = log /\ owner' = owner
      /\ todo' = todo /\ begun' = begun /\ cron' = cron /\ Worked(i, Index!Free)
  BY DEF Index!IndexWrite, Index!At, Index!db, Index!requests, Worked, Index!Complete
<1>4. /\ doc' = [doc EXCEPT ![t] = s]
      /\ docParent' = (IF whole THEN docParent \cup {t} ELSE docParent \ {t})
      /\ astray' = IF s = row[t] /\ (Index!IsChild(t) => whole) THEN astray \ {t}
                   ELSE IF t \notin Index!Live \/ s < doc[t] \/ (t \in docParent /\ ~whole)
                   THEN astray \cup {t} ELSE astray
  BY <1>1, <1>2 DEF Index!IndexWrite
<1>5. /\ t \in Tweets /\ job[i].tweets = {t} /\ t \in born /\ 0 < s
           /\ (t \in Index!Live => s <= row[t])
      /\ s \in Nat
  BY <1>1, <1>2, <1>3, IndexJobIs, JobFields DEF JobShapes
<1>6. /\ row \in [Tweets -> Nat] /\ doc \in [Tweets -> Nat] /\ RowsOK /\ LiveOK /\ DeadOK /\ CronOK
  BY DEF IndexInv, RowsOK
<1>7. doc'[t] = s /\ \A u \in Tweets : u # t => doc'[u] = doc[u]
  BY <1>4, <1>5, <1>6
<1>8. RowsOK'
  <2>1. doc' \in [Tweets -> Nat] /\ Index!Live' = Index!Live /\ Dead' = Dead
    BY <1>3, <1>4, <1>5, <1>6 DEF Index!Live, Dead
  <2>. QED  BY <1>3, <1>5, <1>6, <1>7, <2>1 DEF RowsOK
<1>9. /\ Onward /\ Index!Live' = Index!Live /\ Dead' = Dead /\ TasksOK' /\ JobsOK'
      /\ job'[i] = Index!Free /\ \A j \in Index!Jobs : j # i => job'[j] = job[j]
      /\ \A u : (IndexTask(u) <=> IndexTask(u)') /\ (ParentTask(u) <=> ParentTask(u)')
  BY <1>3, <1>8, FreeOK, WorkedFrame
<1>10. \A u \in Tweets : u # t => (Followed(u) => Followed(u)') /\ (Handled(u) => Handled(u)')
  BY <1>3, <1>4, <1>5, <1>7, <1>9, Unmoved
<1>11. t \notin Index!Live => t \in astray'
  <2>. SUFFICES ASSUME t \notin Index!Live PROVE t \in astray'
    OBVIOUS
  <2>1. row[t] = 0
    BY <1>5, <1>6 DEF Index!Live
  <2>. QED  BY <1>4, <1>5, <2>1
<1>12. ASSUME t \in Index!Live, t \notin astray' PROVE Followed(t)'
  <2>1. CASE s = row[t] /\ (Index!IsChild(t) => whole)
    BY <1>3, <1>4, <1>7, <2>1 DEF Followed, RowComes, ParentComes, Index!IsChild
  <2>2. CASE ~(s = row[t] /\ (Index!IsChild(t) => whole))
    <3>1. t \notin astray /\ ~(s < doc[t]) /\ (t \in docParent => whole)
      BY <1>4, <1>12, <2>2
    <3>2. RowComes(t) /\ (Index!IsChild(t) => ParentComes(t))
      BY <1>6, <1>12, <3>1 DEF LiveOK, Followed
    <3>3. RowComes(t)'
      <4>1. CASE s = row[t]
        BY <1>3, <1>7, <4>1 DEF RowComes
      <4>2. CASE s # row[t]
        <5>1. doc[t] # row[t]
          BY <1>5, <1>6, <1>12, <3>1, <4>2
        <5>2. \A j \in Index!Jobs : IndexJob(j, t) => j # i
          BY <1>2, <1>3, <4>2 DEF IndexJob
        <5>3. \A j \in Index!Jobs : IndexJob(j, t) => IndexJob(j, t)'
          BY <1>3, <1>9, <5>2 DEF IndexJob, HasJob
        <5>. QED  BY <1>9, <3>2, <5>1, <5>3 DEF RowComes
      <4>. QED  BY <4>1, <4>2
    <3>4. ParentComes(t) => ParentComes(t)'
      <4>1. whole => t \in docParent'
        BY <1>4
      <4>2. CASE t \in docParent \/ ParentTask(t)
        BY <1>9, <3>1, <4>1, <4>2 DEF ParentComes
      <4>3. ASSUME NEW j \in Index!Jobs, HasJob(j, "index", t), job[j].parent PROVE ParentComes(t)'
        <5>1. CASE j = i
          BY <1>2, <4>1, <4>3, <5>1 DEF ParentComes
        <5>2. CASE j # i
          BY <1>9, <4>3, <5>2 DEF ParentComes, HasJob
        <5>. QED  BY <5>1, <5>2
      <4>. QED  BY <4>2, <4>3 DEF ParentComes
    <3>. QED  BY <3>2, <3>3, <3>4 DEF Followed, Index!IsChild
  <2>. QED  BY <2>1, <2>2
<1>13. LiveOK'
  BY <1>6, <1>9, <1>10, <1>12 DEF LiveOK, Followed, Index!Live
<1>14. \A u \in Dead : Handled(u) => Handled(u)'
  BY <1>10, <1>11 DEF Handled, Dead
<1>15. DeadOK' /\ CronOK'
  <2>1. \A u \in Tweets \ Index!Live : Handled(u) => Handled(u)'
    BY <1>10, <1>11 DEF Handled
  <2>. QED  BY <1>3, <1>6, <1>9, <1>14, <2>1 DEF DeadOK, CronOK
<1>. QED  BY <1>8, <1>9, <1>13, <1>15 DEF IndexInv

\* Documents of deleted tweets go, or nothing but the record changes.
LEMMA UnindexKeeps ==
    ASSUME IndexInv, NEW i \in Index!Jobs, job[i] # Index!Free, Worked(i, Index!Free), NEW D,
           D \cap Index!Live = {}, Index!Unindex(D),
           astray \ D \subseteq astray',
           job[i].kind # "purge" => \A t \in job[i].tweets : t \in astray'
                 \/ (job[i].kind = "delete" /\ t \in D)
    PROVE  IndexInv'
<1>1. /\ row' = row /\ born' = born /\ log' = log /\ owner' = owner /\ cron' = cron
      /\ doc' = [t \in Tweets |-> IF t \in D THEN 0 ELSE doc[t]] /\ docParent' = docParent \ D
  BY DEF Worked, Index!Unindex
<1>2. doc \in [Tweets -> Nat] /\ IndexGiven /\ RowsOK /\ LiveOK /\ DeadOK /\ CronOK
  BY DEF IndexInv, RowsOK
<1>3. RowsOK'
  <2>1. Index!Live' = Index!Live /\ Dead' = Dead /\ doc' \in [Tweets -> Nat]
    BY <1>1, <1>2 DEF Index!Live, Dead
  <2>2. \A t \in Tweets : doc'[t] > 0 => doc[t] > 0
    BY <1>1
  <2>. QED  BY <1>1, <1>2, <2>1, <2>2 DEF RowsOK
<1>4. /\ Onward /\ Index!Live' = Index!Live /\ Dead' = Dead /\ TasksOK' /\ JobsOK'
      /\ job'[i] = Index!Free /\ \A j \in Index!Jobs : j # i => job'[j] = job[j]
      /\ \A u : (IndexTask(u) <=> IndexTask(u)') /\ (ParentTask(u) <=> ParentTask(u)')
  BY <1>3, FreeOK, WorkedFrame
<1>5. job[i].kind \in {"index", "delete", "purge"} /\ JobOK(job[i])
  BY JobFields DEF JobShapes
<1>6. ASSUME NEW t \in Index!Live PROVE Followed(t)'
  <2>1. t \notin D /\ t \in Tweets
    BY DEF Index!Live
  <2>2. CASE t \in astray'
    BY <2>2 DEF Followed
  <2>3. CASE t \notin astray'
    <3>1. job[i].kind # "index" \/ t \notin job[i].tweets
      BY <2>1, <2>3
    <3>2. doc'[t] = doc[t] /\ (t \in docParent => t \in docParent')
          /\ (t \in astray => t \in astray')
      BY <1>1, <2>1
    <3>3. Followed(t) => Followed(t)'
      BY <1>1, <1>4, <3>1, <3>2, Unmoved
    <3>. QED  BY <1>2, <3>3 DEF LiveOK
  <2>. QED  BY <2>2, <2>3
<1>7. ASSUME NEW t \in Tweets, Handled(t) PROVE Handled(t)'
  <2>1. CASE t \in D
    BY <1>1, <2>1 DEF Handled
  <2>2. CASE t \in astray'
    BY <2>2 DEF Handled
  <2>3. CASE t \notin D /\ t \notin astray'
    <3>1. job[i].kind # "delete" \/ t \notin job[i].tweets
      BY <2>3
    <3>2. doc'[t] = doc[t] /\ (t \in docParent => t \in docParent')
          /\ (t \in astray => t \in astray')
      BY <1>1, <2>3
    <3>. QED  BY <1>1, <1>4, <1>7, <3>1, <3>2, Unmoved
  <2>. QED  BY <2>1, <2>2, <2>3
<1>8. DeadOK' /\ CronOK' /\ LiveOK'
  BY <1>1, <1>2, <1>4, <1>6, <1>7 DEF DeadOK, CronOK, LiveOK, Dead
<1>. QED  BY <1>2, <1>3, <1>4, <1>8 DEF IndexInv

LEMMA DeleteDocsKeeps == ASSUME IndexInv, NEW i \in Index!Jobs, Index!DeleteDocs(i) PROVE IndexInv'
<1>1. /\ job[i] # Index!Free /\ job[i].kind = "delete" /\ Worked(i, Index!Free)
  BY DEF Index!DeleteDocs, Index!At, Index!db, Index!requests, Worked, Index!Complete
<1>2. PICK D \in SUBSET job[i].tweets : Index!Unindex(D)
      /\ astray' = (astray \ D) \cup (job[i].tweets \ D)
  BY DEF Index!DeleteDocs
<1>3. job[i].tweets \subseteq Dead
  BY <1>1, JobFields DEF JobOK
<1>4. D \cap Index!Live = {}
  BY <1>2, <1>3 DEF Dead
<1>. QED  BY <1>1, <1>2, <1>4, UnindexKeeps

LEMMA PurgeDocsKeeps == ASSUME IndexInv, NEW i \in Index!Jobs, Index!PurgeDocs(i) PROVE IndexInv'
<1>1. /\ job[i] # Index!Free /\ job[i].kind = "purge" /\ job[i].at = "ready"
      /\ Worked(i, Index!Free)
  BY DEF Index!PurgeDocs, Index!At, Index!db, Index!requests, Worked, Index!Complete
<1>2. PICK D \in SUBSET Owned : Index!Unindex(D) /\ astray' = astray \ D
  BY DEF Index!PurgeDocs
<1>3. Owned \cap Index!Live = {}
  BY <1>1, JobFields DEF JobOK, IndexInv, RowsOK
<1>. QED  BY <1>1, <1>2, <1>3, UnindexKeeps

LEMMA PurgeRowsKeeps == ASSUME IndexInv, NEW i \in Index!Jobs, Index!PurgeRows(i) PROVE IndexInv'
<1>1. /\ job[i] # Index!Free /\ job[i].kind = "purge" /\ owner' = FALSE
      /\ Index!Gone(Index!Cascade(Owned)) /\ Index!LogDeleted(Index!Cascade(Owned)) /\ born' = born
      /\ todo' = todo /\ begun' = begun /\ doc' = doc /\ docParent' = docParent
      /\ cron' = cron /\ astray' = astray
  BY DEF Index!PurgeRows, Index!At, Index!index, Index!requests
<1>2. IndexGiven /\ RowsOK /\ LiveOK /\ DeadOK /\ CronOK /\ JobsOK /\ TasksOK
  BY DEF IndexInv
<1>3. PICK D \in SUBSET Index!Live : D = Index!Cascade(Owned) /\ Owned \cap Index!Live \subseteq D
  BY CascadeOf
<1>4. /\ RowsOK' /\ Onward /\ Index!Live' = Index!Live \ D
           /\ (\A t \in Index!Live' : row'[t] = row[t])
      /\ log' = log \cup D
  BY <1>1, <1>2, <1>3, GoneKeeps DEF Index!LogDeleted
<1>5. PICK x : x = [job[i] EXCEPT !.at = "ready"] /\ job' = [job EXCEPT ![i] = x]
  BY <1>2 DEF Index!PurgeRows, JobsOK
<1>6. x.kind = "purge" /\ JobShape(x)
  <2>1. PICK y : y = job[i] /\ y \in JobShapes /\ x = [y EXCEPT !.at = "ready"]
    BY <1>1, <1>5, JobFields
  <2>. QED  BY <1>1, <2>1 DEF JobShape, JobShapes
<1>7. JobsOK' /\ job'[i] = x /\ \A j \in Index!Jobs : j # i => job'[j] = job[j]
  <2>1. JobOK(x)'
    BY <1>1, <1>6 DEF JobOK
  <2>. QED  BY <1>2, <1>4, <1>5, <1>6, <2>1, JobSets
<1>8. TasksOK' /\ \A t : (IndexTask(t) <=> IndexTask(t)') /\ (ParentTask(t) <=> ParentTask(t)')
  BY <1>1, <1>2, <1>4, TasksStay DEF Index!requests
<1>9. ASSUME NEW t \in Index!Live' PROVE Followed(t)'
  <2>1. row'[t] = row[t] /\ Followed(t)
    BY <1>2, <1>4 DEF LiveOK
  <2>2. \A j \in Index!Jobs : HasJob(j, "index", t) => j # i
    BY <1>1 DEF HasJob
  <2>3. RowComes(t) => RowComes(t)'
    <3>1. \A j \in Index!Jobs : IndexJob(j, t) => IndexJob(j, t)'
      BY <1>7, <2>1, <2>2 DEF IndexJob, HasJob
    <3>. QED  BY <1>1, <1>8, <2>1, <3>1 DEF RowComes
  <2>4. ParentComes(t) => ParentComes(t)'
    <3>1. \A j \in Index!Jobs : HasJob(j, "index", t) /\ job[j].parent
          => HasJob(j, "index", t)' /\ job'[j].parent
      BY <1>7, <2>2 DEF HasJob
    <3>. QED  BY <1>1, <1>8, <3>1 DEF ParentComes
  <2>. QED  BY <1>1, <2>1, <2>3, <2>4 DEF Followed, Index!IsChild
<1>10. ASSUME NEW t, Handled(t) PROVE Handled(t)'
  <2>1. \A j \in Index!Jobs : HasJob(j, "delete", t) => HasJob(j, "delete", t)'
    BY <1>1, <1>7 DEF HasJob
  <2>. QED  BY <1>1, <1>10, <2>1 DEF Handled
<1>11. DeadOK' /\ CronOK'
  BY <1>1, <1>2, <1>4, <1>10 DEF DeadOK, CronOK, Onward
<1>. QED  BY <1>2, <1>4, <1>7, <1>8, <1>9, <1>11 DEF IndexInv, LiveOK

LEMMA FailsKeeps == ASSUME IndexInv, NEW i \in Index!Jobs, Index!JobFails(i) PROVE IndexInv'
<1>1. /\ job[i] # Index!Free /\ row' = row /\ born' = born /\ log' = log /\ owner' = owner
      /\ doc' = doc
      /\ docParent' = docParent /\ todo' = todo /\ begun' = begun /\ cron' = cron
  BY DEF Index!JobFails, Index!db, Index!index, Index!requests
<1>2. CASE job[i].left = 1
  <2>1. /\ Worked(i, Index!Free)
        /\ astray' = IF job[i].kind = "purge" THEN astray ELSE astray \cup job[i].tweets
    BY <1>1, <1>2 DEF Index!JobFails, Index!Complete, Worked
  <2>2. Index!Unindex({})
    <3>1. doc = [t \in Tweets |-> doc[t]]
      BY DEF IndexInv, RowsOK
    <3>. QED  BY <1>1, <3>1 DEF Index!Unindex
  <2>. QED  BY <1>1, <2>1, <2>2, UnindexKeeps
<1>3. CASE job[i].left # 1
  <2>1. PICK x : /\ x = [job[i] EXCEPT !.at = "waiting", !.seen = 0, !.old = FALSE, !.left = @ - 1]
    OBVIOUS
  <2>2. job' = [job EXCEPT ![i] = x] /\ astray' = astray
    BY <1>3, <2>1 DEF Index!JobFails, IndexInv, JobsOK
  <2>3. /\ x.kind = job[i].kind /\ x.tweets = job[i].tweets /\ x.at = "waiting"
             /\ x.parent = job[i].parent
        /\ JobShape(x) /\ x # Index!Free
    <3>1. PICK y : /\ y = job[i] /\ y \in JobShapes
                   /\ x = [y EXCEPT !.at = "waiting", !.seen = 0, !.old = FALSE, !.left = y.left - 1]
      BY <1>1, <2>1, JobFields
    <3>2. PICK n \in Int : n = y.left - 1
      BY <3>1 DEF JobShapes
    <3>3. x = [y EXCEPT !.at = "waiting", !.seen = 0, !.old = FALSE, !.left = n]
      BY <3>1, <3>2
    <3>4. y = job[i] /\ y \in JobShapes /\ n \in Int
      BY <3>1, <3>2
    <3>5. PICK z : z = [y EXCEPT !.at = "waiting", !.seen = 0]
      OBVIOUS
    <3>6. z \in JobShapes /\ z.kind = y.kind /\ z.tweets = y.tweets /\ z.at = "waiting"
          /\ z.parent = y.parent
      BY <3>4, <3>5 DEF JobShapes
    <3>7. x = [z EXCEPT !.old = FALSE, !.left = n]
      BY <3>3, <3>5
    <3>8. x \in JobShapes /\ x.kind = z.kind /\ x.tweets = z.tweets /\ x.at = z.at
          /\ x.parent = z.parent
      BY <3>4, <3>6, <3>7 DEF JobShapes
    <3>9. x # Index!Free
      BY <3>8 DEF JobShapes, Index!Free
    <3>. QED  BY <3>4, <3>6, <3>8, <3>9 DEF JobShape
  <2>4. JobOK(x)
    BY <1>1, <2>3, JobFields DEF JobOK, IndexJobOK
  <2>5. SameJob(job[i], x)
    BY <1>1, <2>3 DEF SameJob
  <2>6. Worked(i, x)
    BY <1>1, <2>2 DEF Worked
  <2>. QED  BY <1>1, <2>2, <2>3, <2>4, <2>5, <2>6, SameKeeps
<1>. QED  BY <1>2, <1>3

-----------------------------------------------------------------------------
(* The cron *)

LEMMA CronFrame ==
    ASSUME IndexInv, UNCHANGED <<row, born, owner, doc, docParent, todo, begun, job>>, RowsOK',
           astray \subseteq astray'
    PROVE  /\ Onward /\ Index!Live' = Index!Live /\ Dead' = Dead /\ TasksOK' /\ JobsOK' /\ LiveOK'
           /\ \A t : Handled(t) => Handled(t)'
<1>1. Index!Live' = Index!Live /\ Dead' = Dead /\ Onward
  BY DEF Index!Live, Dead, Onward, IndexInv, RowsOK
<1>2. TasksOK' /\ \A t : (IndexTask(t) => IndexTask(t)') /\ (ParentTask(t) => ParentTask(t)')
  BY <1>1, TasksStay DEF IndexInv, Index!requests
<1>3. JobsOK' /\ JobsKept
  BY <1>1, JobsStay DEF IndexInv, JobsKept
<1>4. LiveOK'
  BY <1>1, <1>2, <1>3, FollowedStays DEF IndexInv, LiveOK
<1>. QED  BY <1>1, <1>2, <1>3, <1>4, HandledStays

LEMMA CronFindKeeps == ASSUME IndexInv, Index!CronFind PROVE IndexInv'
<1>1. /\ UNCHANGED <<row, born, owner, log, doc, docParent, todo, begun, job>> /\ astray' = astray
  BY DEF Index!CronFind, Index!db, Index!index, Index!requests
<1>2. RowsOK'
  BY <1>1, RowsStay DEF IndexInv
<1>3. /\ Index!Live' = Index!Live /\ Dead' = Dead /\ TasksOK' /\ JobsOK' /\ LiveOK'
           /\ (\A t : Handled(t) => Handled(t)')
  BY <1>1, <1>2, CronFrame
<1>4. PICK B \in SUBSET log : cron' = [at |-> "found", batch |-> B]
  BY DEF Index!CronFind
<1>5. cron'.batch = B /\ cron'.at = "found"
  BY <1>4
<1>6. CronOK'
  BY <1>3, <1>4, <1>5 DEF CronOK, IndexInv, RowsOK
<1>7. DeadOK'
  BY <1>1, <1>3 DEF IndexInv, DeadOK
<1>. QED  BY <1>2, <1>3, <1>6, <1>7 DEF IndexInv

LEMMA CronQueueKeeps == ASSUME IndexInv, Index!CronQueue PROVE IndexInv'
<1>1. /\ cron # Index!Idle /\ cron' = [cron EXCEPT !.at = "queued"]
      /\ UNCHANGED <<row, born, owner, log, doc, docParent, todo, begun>>
  BY DEF Index!CronQueue, Index!db, Index!index, Index!requests
<1>2. /\ IndexGiven /\ RowsOK /\ LiveOK /\ DeadOK /\ CronOK /\ JobsOK /\ TasksOK
  BY DEF IndexInv
<1>3. /\ RowsOK' /\ Onward /\ Index!Live' = Index!Live /\ Dead' = Dead
  BY <1>1, <1>2, RowsStay
<1>4. TasksOK' /\ \A t : (IndexTask(t) => IndexTask(t)') /\ (ParentTask(t) => ParentTask(t)')
  BY <1>1, <1>2, <1>3, TasksStay DEF Index!requests
<1>5. PICK B : B = cron.batch
  OBVIOUS
<1>6. cron' # Index!Idle => cron'.batch = B
  BY <1>1, <1>5
<1>7. B \subseteq Dead
  BY <1>1, <1>2, <1>5 DEF CronOK
<1>8. JobsOK' /\ JobsKept /\ astray \subseteq astray' /\ \A t \in B : Handled(t)'
  <2>1. CASE Index!Enqueue("delete", B, FALSE) /\ astray' = astray
    <3>1. B \in SUBSET Tweets /\ B \subseteq Dead'
      BY <1>3, <1>7 DEF Dead
    <3>2. JobsOK' /\ JobsKept /\ \E j \in Index!Jobs : job'[j] = Index!NewJob("delete", B, FALSE)
      BY <1>2, <1>3, <2>1, <3>1, EnqueueKeeps
    <3>3. PICK y : y = Index!NewJob("delete", B, FALSE)
      OBVIOUS
    <3>4. y # Index!Free /\ y.kind = "delete" /\ y.tweets = B
      BY <3>3 DEF Index!NewJob, Index!Free
    <3>. QED  BY <2>1, <3>2, <3>3, <3>4 DEF Handled, HasJob
  <2>2. CASE job' = job /\ astray' = astray \cup B
    BY <1>2, <1>3, <2>2, JobsStay DEF JobsKept, Handled
  <2>. QED  BY <1>5, <2>1, <2>2 DEF Index!CronQueue
<1>9. LiveOK'
  BY <1>1, <1>2, <1>3, <1>4, <1>8, FollowedStays DEF LiveOK
<1>10. DeadOK'
  BY <1>1, <1>2, <1>3, <1>8, HandledStays DEF DeadOK
<1>11. CronOK'
  BY <1>3, <1>6, <1>7, <1>8 DEF CronOK
<1>. QED  BY <1>2, <1>3, <1>4, <1>8, <1>9, <1>10, <1>11 DEF IndexInv

LEMMA CronDeleteKeeps == ASSUME IndexInv, Index!CronDelete PROVE IndexInv'
<1>1. /\ cron # Index!Idle /\ cron.at = "queued" /\ log' = log \ cron.batch /\ cron' = Index!Idle
      /\ UNCHANGED <<row, born, owner, doc, docParent, todo, begun, job>> /\ astray' = astray
  BY DEF Index!CronDelete, Index!index, Index!requests
<1>2. RowsOK'
  <2>1. Index!Live' = Index!Live /\ Dead' = Dead
    BY <1>1 DEF Index!Live, Dead
  <2>. QED  BY <1>1, <2>1 DEF RowsOK, IndexInv
<1>3. /\ Index!Live' = Index!Live /\ Dead' = Dead /\ TasksOK' /\ JobsOK' /\ LiveOK'
           /\ (\A t : Handled(t) => Handled(t)')
  BY <1>1, <1>2, CronFrame
<1>4. DeadOK'
  BY <1>1, <1>3 DEF IndexInv, DeadOK, CronOK
<1>. QED  BY <1>1, <1>2, <1>3, <1>4 DEF IndexInv, CronOK

LEMMA CronAbortKeeps == ASSUME IndexInv, Index!CronAbort PROVE IndexInv'
<1>1. /\ cron' = Index!Idle
      /\ UNCHANGED <<row, born, owner, log, doc, docParent, todo, begun, job>> /\ astray' = astray
  BY DEF Index!CronAbort, Index!db, Index!index, Index!requests
<1>2. RowsOK'
  BY <1>1, RowsStay DEF IndexInv
<1>3. /\ Index!Live' = Index!Live /\ TasksOK' /\ JobsOK' /\ LiveOK'
           /\ (\A t : Handled(t) => Handled(t)')
  BY <1>1, <1>2, CronFrame
<1>. QED  BY <1>1, <1>2, <1>3 DEF IndexInv, DeadOK, CronOK

-----------------------------------------------------------------------------
LEMMA IndexStutter == ASSUME IndexInv, UNCHANGED Index!vars PROVE IndexInv'
<1>1. UNCHANGED <<row, born, owner, log, doc, docParent, todo, begun, job, cron, astray>>
  BY DEF Index!vars, Index!db, Index!index, Index!requests
<1>2. RowsOK'
  BY <1>1, RowsStay DEF IndexInv
<1>3. /\ Index!Live' = Index!Live /\ Dead' = Dead /\ TasksOK' /\ JobsOK' /\ LiveOK'
           /\ (\A t : Handled(t) => Handled(t)')
  BY <1>1, <1>2, CronFrame
<1>. QED  BY <1>1, <1>2, <1>3 DEF IndexInv, DeadOK, CronOK

LEMMA IndexStep == IndexInv /\ [Index!Next]_(Index!vars) => IndexInv'
<1>. SUFFICES ASSUME IndexInv, [Index!Next]_(Index!vars) PROVE IndexInv'
  OBVIOUS
<1>1. CASE Index!HandlerStep
  BY <1>1, InsertKeeps, ChangeKeeps, DeleteKeeps, UndoQueueKeeps,
     DeleteUserKeeps DEF Index!HandlerStep
<1>2. ASSUME NEW r \in Index!Handlers, Index!Continue(r) PROVE IndexInv'
  BY <1>2, QueueJobKeeps, UndoCommitKeeps, AbortKeeps DEF Index!Continue
<1>3. ASSUME NEW j \in Index!Jobs, Index!Work(j) PROVE IndexInv'
  BY <1>3, IndexReadKeeps, IndexGetKeeps, IndexWriteKeeps, DeleteDocsKeeps, PurgeRowsKeeps,
     PurgeDocsKeeps,
     FailsKeeps DEF Index!Work
<1>4. CASE Index!CronStep
  BY <1>4, CronFindKeeps, CronQueueKeeps, CronDeleteKeeps, CronAbortKeeps DEF Index!CronStep
<1>5. CASE UNCHANGED Index!vars
  BY <1>5, IndexStutter
<1>. QED  BY <1>1, <1>2, <1>3, <1>4, <1>5 DEF Index!Next

LEMMA IndexSays == IndexInv => Index!IndexCaughtUp
<1>. SUFFICES ASSUME IndexInv, NEW t \in Tweets, ~Index!Underway(t), t \notin astray
              PROVE  doc[t] = row[t] /\ (Index!IsChild(t) /\ t \in Index!Live => t \in docParent)
  BY DEF Index!IndexCaughtUp
<1>1. \A j \in Index!Jobs : ~HasJob(j, "index", t) /\ ~HasJob(j, "delete", t)
  BY DEF Index!Underway, HasJob
<1>2. ~IndexTask(t) /\ t \notin log
  BY DEF Index!Underway, IndexTask
<1>3. CASE t \in Index!Live
  <2>1. Followed(t)
    BY <1>3 DEF IndexInv, LiveOK
  <2>. QED  BY <1>1, <1>2, <2>1 DEF Followed, RowComes, ParentComes, IndexJob, IndexTask, ParentTask
<1>4. CASE t \notin Index!Live
  <2>1. Handled(t)
    BY <1>2, <1>4 DEF IndexInv, DeadOK
  <2>2. row[t] = 0
    BY <1>4 DEF Index!Live, IndexInv, RowsOK
  <2>. QED  BY <1>1, <1>4, <2>1, <2>2 DEF Handled
<1>. QED  BY <1>3, <1>4

\* A tweet for which nothing is under way, and on whose account no failure or race is on
\* record, has the document of its row as it is, or none when it is deleted (EsSyncProcessor,
\* the trigger on tweets, DeletedTweetsCleanupService).
THEOREM IndexAlways == Index!Spec => []IndexCaughtUp
<1>1. IndexGiven
  BY ProperIndex DEF IndexGiven, Index!OwnedAreTweets, Index!SomeRequests, Index!SomeAttempts
<1>2. Index!Init => IndexInv
  BY <1>1, IndexInit
<1>3. IndexInv => IndexCaughtUp
  BY IndexSays DEF IndexCaughtUp
<1>. QED  BY <1>2, <1>3, IndexStep, PTL DEF Index!Spec
==============================================================================
