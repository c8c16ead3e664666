--------------------------- MODULE TweetEngagement ---------------------------
(***************************************************************************)
(* The Postgres side of TweetsService (src/src/tweets/tweets.service.ts):  *)
(* tweets, the like / bookmark / repost rows, the reply and quote rows     *)
(* that link a tweet to its parent, and the five denormalised counters     *)
(* kept on the parent row.                                                 *)
(*                                                                         *)
(* Every handler runs one READ COMMITTED transaction.  A handler whose     *)
(* decision is re-checked by the database when it writes (a unique key, a  *)
(* foreign key, an affected-row count) is one atomic action, its commit.   *)
(* A handler that writes what it concluded from an earlier read has two    *)
(* actions, the read and the commit, and any other commit may fall between *)
(* them: undoing a repost, deleting a tweet, replying and editing.  The    *)
(* jobs a handler queues (notifications, search index, hashtags) touch     *)
(* none of these rows and belong to other modules.                         *)
(***************************************************************************)
EXTENDS Integers, FiniteSets

CONSTANTS
    Users,      \* accounts
    Tweets,     \* tweet ids (uuids): each is minted at most once
    Requests,   \* HTTP requests: each runs one handler, once
    Seed,       \* tweets posted before the behaviour starts
    NoTweet     \* stands for "no such row"

ASSUME FiniteUsers == IsFiniteSet(Users)
ASSUME FiniteTweets == IsFiniteSet(Tweets)
ASSUME SeedAreTweets == Seed \subseteq Tweets
ASSUME NoTweetIsNoTweet == NoTweet \notin Tweets

VARIABLES
    users,      \* accounts whose row still exists
    live,       \* tweets whose row exists
    minted,     \* tweet ids ever inserted
    author,     \* tweets.user_id
    kind,       \* tweets.type
    parent,     \* original_tweet_id of the tweet_replies / tweet_quotes row
    conv,       \* tweet_replies.conversation_id
    likes,      \* tweet_likes: the users that like each tweet
    bookmarks,  \* tweet_bookmarks
    reposts,    \* tweet_reposts
    num,        \* the num_* columns of each tweet
    task,       \* what each request has read, while its transaction is open
    served,     \* requests that have finished
    skewed,     \* history: tweets whose counters a stale save or the purge
                \* of an account has separated from their rows
    raced       \* history: tweets decremented for a row that was gone already

rows == <<likes, bookmarks, reposts>>
shape == <<author, kind, parent, conv>>
vars == <<users, live, minted, shape, rows, num, task, served, skewed, raced>>

-----------------------------------------------------------------------------
Counters == [likes: Int, bookmarks: Int, reposts: Int, quotes: Int, replies: Int]
Zero == [likes |-> 0, bookmarks |-> 0, reposts |-> 0, quotes |-> 0, replies |-> 0]
TweetOrNone == Tweets \cup {NoTweet}
Kinds == {"tweet", "reply", "quote"}

\* What an open transaction remembers of its reads.
Tasks == [op: {"deleteRepost", "deleteTweet", "reply", "update"},
          user: Users, tweet: Tweets, parent: TweetOrNone, conv: TweetOrNone,
          seen: Counters]
NoTask == [op |-> "none"]

\* The tweet_replies and tweet_quotes rows that point at t.
ChildRows(t, k) == {c \in live : kind[c] = k /\ parent[c] = t}
ReplyRows(t) == ChildRows(t, "reply")
QuoteRows(t) == ChildRows(t, "quote")
HasReplyRow(t) == kind[t] = "reply" /\ parent[t] # NoTweet

\* S is closed under "the replies and quotes of its members".
ChildClosed(S) == \A c \in live : parent[c] \in S => c \in S

\* Mutant of Cascade: the trigger removes only the direct replies and quotes.
CascadeOneLevel(S) == {t \in live : t \in S \/ parent[t] \in S}

\* The live tweets that go when the tweets of S are deleted: the foreign keys
\* and the BEFORE DELETE trigger remove replies and quotes, and theirs in turn.
Cascade(S) ==
    {t \in live : \A D \in SUBSET live : (S \cap live \subseteq D /\ ChildClosed(D)) => t \in D}

\* Types; in particular a live tweet has an id that was minted for it once.
TypeOK ==
    /\ users \subseteq Users
    /\ live \subseteq minted
    /\ minted \subseteq Tweets
    /\ author \in [Tweets -> Users]
    /\ kind \in [Tweets -> Kinds]
    /\ parent \in [Tweets -> TweetOrNone]
    /\ conv \in [Tweets -> TweetOrNone]
    /\ likes \in [Tweets -> SUBSET Users]
    /\ bookmarks \in [Tweets -> SUBSET Users]
    /\ reposts \in [Tweets -> SUBSET Users]
    /\ num \in [Tweets -> Counters]
    /\ task \in [Requests -> Tasks \cup {NoTask}]
    /\ served \subseteq Requests
    /\ skewed \subseteq Tweets
    /\ raced \subseteq Tweets

Init ==
    /\ users = Users
    /\ live = Seed /\ minted = Seed
    /\ author \in {[t \in Tweets |-> u] : u \in Users}
    /\ kind = [t \in Tweets |-> "tweet"]
    /\ parent = [t \in Tweets |-> NoTweet]
    /\ conv = [t \in Tweets |-> NoTweet]
    /\ likes = [t \in Tweets |-> {}]
    /\ bookmarks = [t \in Tweets |-> {}]
    /\ reposts = [t \in Tweets |-> {}]
    /\ num = [t \in Tweets |-> Zero]
    /\ task = [r \in Requests |-> NoTask]
    /\ served = {} /\ skewed = {} /\ raced = {}

-----------------------------------------------------------------------------
(* Requests: a handler that needs one step is served at once; one that needs *)
(* two begins with what it read and finishes with what it commits            *)

Idle(r) == task[r] = NoTask /\ r \notin served
Doing(r, op) == task[r] # NoTask /\ task[r].op = op

Begin(r, op, u, t, p, c, n) ==
    /\ Idle(r)
    /\ task' = [task EXCEPT ![r] = [op |-> op, user |-> u, tweet |-> t,
                                    parent |-> p, conv |-> c, seen |-> n]]
    /\ UNCHANGED <<users, live, minted, shape, rows, num, served, skewed, raced>>

Serve(r) ==
    /\ Idle(r)
    /\ served' = served \cup {r}
    /\ UNCHANGED task

Finish(r) ==
    /\ task' = [task EXCEPT ![r] = NoTask]
    /\ served' = served \cup {r}

-----------------------------------------------------------------------------
(* Posting *)

\* The rows a new tweet t brings: the tweet and, for a reply or a quote, its link.
Insert(u, t, k, p, c) ==
    /\ u \in users
    /\ t \in Tweets \ minted
    /\ live' = live \cup {t}
    /\ minted' = minted \cup {t}
    /\ author' = [author EXCEPT ![t] = u]
    /\ kind' = [kind EXCEPT ![t] = k]
    /\ parent' = [parent EXCEPT ![t] = p]
    /\ conv' = [conv EXCEPT ![t] = c]

CreateTweet(r, u, t) ==
    /\ Serve(r)
    /\ Insert(u, t, "tweet", NoTweet, NoTweet)
    /\ UNCHANGED <<users, rows, num, skewed, raced>>

\* A quote counts as a repost of its parent as well.
RepostTweetWithQuote(r, u, t, p) ==
    /\ Serve(r)
    /\ p \in live
    /\ Insert(u, t, "quote", p, NoTweet)
    /\ num' = [num EXCEPT ![p].quotes = @ + 1, ![p].reposts = @ + 1]
    /\ UNCHANGED <<users, rows, skewed, raced>>

-----------------------------------------------------------------------------
(* Likes, bookmarks and reposts: a row and a counter in one transaction *)

LikeTweet(r, u, t) ==
    /\ Serve(r)
    /\ u \in users /\ t \in live
    /\ u \notin likes[t]
    /\ likes' = [likes EXCEPT ![t] = @ \cup {u}]
    /\ num' = [num EXCEPT ![t].likes = @ + 1]
    /\ UNCHANGED <<users, live, minted, shape, bookmarks, reposts, skewed, raced>>

\* Mutant of UnlikeTweet: the affected-row count of the delete is not checked.
UnlikeUnchecked(r, u, t) ==
    /\ Serve(r)
    /\ t \in live
    /\ likes' = [likes EXCEPT ![t] = @ \ {u}]
    /\ num' = [num EXCEPT ![t].likes = @ - 1]
    /\ UNCHANGED <<users, live, minted, shape, bookmarks, reposts, skewed, raced>>

UnlikeTweet(r, u, t) ==
    /\ Serve(r)
    /\ t \in live
    /\ u \in likes[t]
    /\ likes' = [likes EXCEPT ![t] = @ \ {u}]
    /\ num' = [num EXCEPT ![t].likes = @ - 1]
    /\ UNCHANGED <<users, live, minted, shape, bookmarks, reposts, skewed, raced>>

BookmarkTweet(r, u, t) ==
    /\ Serve(r)
    /\ u \in users /\ t \in live
    /\ u \notin bookmarks[t]
    /\ bookmarks' = [bookmarks EXCEPT ![t] = @ \cup {u}]
    /\ num' = [num EXCEPT ![t].bookmarks = @ + 1]
    /\ UNCHANGED <<users, live, minted, shape, likes, reposts, skewed, raced>>

UnbookmarkTweet(r, u, t) ==
    /\ Serve(r)
    /\ t \in live
    /\ u \in bookmarks[t]
    /\ bookmarks' = [bookmarks EXCEPT ![t] = @ \ {u}]
    /\ num' = [num EXCEPT ![t].bookmarks = @ - 1]
    /\ UNCHANGED <<users, live, minted, shape, likes, reposts, skewed, raced>>

RepostTweet(r, u, t) ==
    /\ Serve(r)
    /\ u \in users /\ t \in live
    /\ u \notin reposts[t]
    /\ reposts' = [reposts EXCEPT ![t] = @ \cup {u}]
    /\ num' = [num EXCEPT ![t].reposts = @ + 1]
    /\ UNCHANGED <<users, live, minted, shape, likes, bookmarks, skewed, raced>>

-----------------------------------------------------------------------------
(* The two-step handlers *)
\* The transaction rolls back: a refused write, a lost connection, a crash.
Abort(r) ==
    /\ task[r] # NoTask
    /\ Finish(r)
    /\ UNCHANGED <<users, live, minted, shape, rows, num, skewed, raced>>

DeleteRepostFind(r, u, t) ==
    /\ t \in live /\ u \in reposts[t]
    /\ Begin(r, "deleteRepost", u, t, NoTweet, NoTweet, Zero)

\* The delete's affected count is not read: the counter goes down regardless.
DeleteRepostCommit(r) ==
    /\ Doing(r, "deleteRepost")
    /\ LET t == task[r].tweet
           u == task[r].user
       IN  /\ reposts' = [reposts EXCEPT ![t] = @ \ {u}]
           /\ num' = IF t \in live THEN [num EXCEPT ![t].reposts = @ - 1] ELSE num
           /\ raced' = IF u \in reposts[t] THEN raced ELSE raced \cup {t}
    /\ Finish(r)
    /\ UNCHANGED <<users, live, minted, shape, likes, bookmarks, skewed>>

\* Reads the tweet, its owner and type, and the reply or quote row behind it.
DeleteTweetFind(r, u, t) ==
    /\ t \in live /\ author[t] = u
    /\ Begin(r, "deleteTweet", u, t, parent[t], NoTweet, Zero)

\* The rows that remain when the tweets of D are gone.
Remove(D) ==
    /\ live' = live \ D
    /\ likes' = [t \in Tweets |-> IF t \in D THEN {} ELSE likes[t]]
    /\ bookmarks' = [t \in Tweets |-> IF t \in D THEN {} ELSE bookmarks[t]]
    /\ reposts' = [t \in Tweets |-> IF t \in D THEN {} ELSE reposts[t]]

\* Mutant of DeleteTweetCommit: a deleted quote stays among the reposts.
DeleteQuoteKeepsRepost(r) ==
    /\ Doing(r, "deleteTweet")
    /\ LET t == task[r].tweet
           p == task[r].parent
       IN  /\ Remove(Cascade({t}))
           /\ num' = IF p \notin live THEN num
                     ELSE IF kind[t] = "reply" THEN [num EXCEPT ![p].replies = @ - 1]
                     ELSE [num EXCEPT ![p].quotes = @ - 1]
           /\ raced' = IF t \in live /\ parent[t] = p THEN raced
                       ELSE raced \cup ({p} \cap live)
    /\ Finish(r)
    /\ UNCHANGED <<users, minted, shape, skewed>>

\* queueRepostAndQuoteDeleteJobs takes the tweet off the counters of the parent
\* it read, whether or not another request has deleted the tweet since.
DeleteTweetCommit(r) ==
    /\ Doing(r, "deleteTweet")
    /\ LET t == task[r].tweet
           p == task[r].parent
       IN  /\ Remove(Cascade({t}))
           /\ num' = IF p \notin live THEN num
                     ELSE IF kind[t] = "reply" THEN [num EXCEPT ![p].replies = @ - 1]
                     ELSE [num EXCEPT ![p].quotes = @ - 1, ![p].reposts = @ - 1]
           /\ raced' = IF t \in live /\ parent[t] = p THEN raced
                       ELSE raced \cup ({p} \cap live)
    /\ Finish(r)
    /\ UNCHANGED <<users, minted, shape, skewed>>

\* conversation_id: the conversation of the tweet replied to, or that tweet.
Conversation(p) == IF HasReplyRow(p) THEN conv[p] ELSE p

ReplyFind(r, u, p) ==
    /\ u \in users /\ p \in live
    /\ Begin(r, "reply", u, p, NoTweet, Conversation(p), Zero)

\* The foreign keys refuse a reply whose parent or author is gone by now.
ReplyCommit(r, t) ==
    /\ Doing(r, "reply")
    /\ task[r].tweet \in live
    /\ Insert(task[r].user, t, "reply", task[r].tweet, task[r].conv)
    /\ num' = [num EXCEPT ![task[r].tweet].replies = @ + 1]
    /\ Finish(r)
    /\ UNCHANGED <<users, rows, skewed, raced>>

\* Loads the whole entity, counters included, before the topics are extracted.
UpdateFind(r, u, t) ==
    /\ t \in live /\ author[t] = u
    /\ Begin(r, "update", u, t, NoTweet, NoTweet, num[t])

\* save() compares the loaded entity with the row as it is now and writes back
\* every column that differs, the counters among them ...
UpdateSave(r) ==
    /\ Doing(r, "update")
    /\ task[r].tweet \in live
    /\ LET t == task[r].tweet IN
           /\ num' = [num EXCEPT ![t] = task[r].seen]
           /\ skewed' = IF num[t] = task[r].seen THEN skewed ELSE skewed \cup {t}
    /\ Finish(r)
    /\ UNCHANGED <<users, live, minted, shape, rows, raced>>

\* ... and inserts the entity when its row has been deleted meanwhile; the rows
\* that hung on it (likes, its reply or quote link) stay deleted.
UpdateReinsert(r) ==
    /\ Doing(r, "update")
    /\ task[r].tweet \notin live
    /\ task[r].user \in users
    /\ LET t == task[r].tweet IN
           /\ live' = live \cup {t}
           /\ parent' = [parent EXCEPT ![t] = NoTweet]
           /\ conv' = [conv EXCEPT ![t] = NoTweet]
           /\ num' = [num EXCEPT ![t] = task[r].seen]
           /\ skewed' = skewed \cup {t}
    /\ Finish(r)
    /\ UNCHANGED <<users, minted, author, kind, rows, raced>>

-----------------------------------------------------------------------------
(* The DELETE_USER job hard-deletes an account: its tweets and everything    *)
(* below them, and its rows on the tweets of others, without their counters. *)
(* Postgres may also refuse the statement (the trigger reaching a row of its *)
(* own delete a second time); then nothing changes.                          *)

PurgeUser(u) ==
    LET D == Cascade({t \in live : author[t] = u})
        touched == {t \in live \ D : \/ u \in likes[t] \cup bookmarks[t] \cup reposts[t]
                                     \/ \E c \in D : parent[c] = t}
    IN  /\ u \in users
        /\ users' = users \ {u}
        /\ live' = live \ D
        /\ likes' = [t \in Tweets |-> IF t \in D THEN {} ELSE likes[t] \ {u}]
        /\ bookmarks' = [t \in Tweets |-> IF t \in D THEN {} ELSE bookmarks[t] \ {u}]
        /\ reposts' = [t \in Tweets |-> IF t \in D THEN {} ELSE reposts[t] \ {u}]
        /\ skewed' = skewed \cup touched
        /\ UNCHANGED <<minted, shape, num, task, served, raced>>

-----------------------------------------------------------------------------
Post == \E r \in Requests, u \in Users, t \in Tweets :
            \/ CreateTweet(r, u, t)
            \/ \E p \in Tweets : RepostTweetWithQuote(r, u, t, p)

Mark == \E r \in Requests, u \in Users, t \in Tweets :
            \/ LikeTweet(r, u, t)     \/ UnlikeTweet(r, u, t)
            \/ BookmarkTweet(r, u, t) \/ UnbookmarkTweet(r, u, t)
            \/ RepostTweet(r, u, t)

Read == \E r \in Requests, u \in Users, t \in Tweets :
            \/ DeleteRepostFind(r, u, t) \/ DeleteTweetFind(r, u, t)
            \/ ReplyFind(r, u, t)        \/ UpdateFind(r, u, t)

Commit == \E r \in Requests :
            \/ DeleteRepostCommit(r) \/ DeleteTweetCommit(r)
            \/ UpdateSave(r)         \/ UpdateReinsert(r)
            \/ Abort(r)
            \/ \E t \in Tweets : ReplyCommit(r, t)

Next == Post \/ Mark \/ Read \/ Commit \/ \E u \in Users : PurgeUser(u)

Spec == Init /\ [][Next]_vars

-----------------------------------------------------------------------------
(* Properties *)

CountsRows(t) ==
    /\ num[t].likes = Cardinality(likes[t])
    /\ num[t].bookmarks = Cardinality(bookmarks[t])
    /\ num[t].reposts = Cardinality(reposts[t]) + Cardinality(QuoteRows(t))
    /\ num[t].quotes = Cardinality(QuoteRows(t))
    /\ num[t].replies = Cardinality(ReplyRows(t))

CountsAtMostRows(t) ==
    /\ num[t].likes = Cardinality(likes[t])
    /\ num[t].bookmarks = Cardinality(bookmarks[t])
    /\ num[t].reposts <= Cardinality(reposts[t]) + Cardinality(QuoteRows(t))
    /\ num[t].quotes <= Cardinality(QuoteRows(t))
    /\ num[t].replies <= Cardinality(ReplyRows(t))

\* Every counter of a tweet is the number of its rows, whatever the requests
\* interleave, until a stale save, a purge or a doubled undo has hit the tweet.
CountersExact == \A t \in live \ (skewed \cup raced) : CountsRows(t)

\* Two undos of one repost, or two deletions of one reply or quote, can only
\* lose counts: nothing but a stale save or a purge overstates a counter.
RacesOnlyUnderstate == \A t \in live \ skewed : CountsAtMostRows(t)

\* No reply, quote, like, bookmark or repost outlives the tweet it refers to,
\* whichever deletion (request, trigger, purge) took that tweet away.
NoOrphans ==
    /\ \A t \in live : parent[t] \in live \cup {NoTweet}
    /\ \A t \in Tweets \ live : likes[t] \cup bookmarks[t] \cup reposts[t] = {}
    /\ \A t \in live : author[t] \in users /\ likes[t] \subseteq users

\* A reply to a reply is in the same conversation, any other reply starts that
\* of the tweet it answers, although this tweet was read before the commit.
ConversationInherited ==
    \A t \in live : HasReplyRow(t) /\ parent[t] \notin skewed =>
        \/ HasReplyRow(parent[t]) /\ conv[t] = conv[parent[t]]
        \/ ~HasReplyRow(parent[t]) /\ conv[t] = parent[t]

=============================================================================
