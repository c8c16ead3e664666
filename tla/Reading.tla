-------------------------------- MODULE Reading --------------------------------
(***************************************************************************)
(* What a reader is shown of a conversation: by the search (SearchService),*)
(* on the timeline of followed users and on a profile (TweetsRepository,   *)
(* over user_posts_view), in a thread and where tweets are read by their   *)
(* ids (TweetsService).  With each tweet come the tweet it answers or      *)
(* quotes and the one its conversation began with, and whether the reader  *)
(* has liked it and follows its author.                                    *)
(*                                                                         *)
(* The search has three steps, on documents that lag behind the rows; a    *)
(* thread has two, and the others are one query.  What others and the      *)
(* reader do meanwhile is seen by the steps that come later.               *)
(*                                                                         *)
(* Abstractions.  What a query matches and the page it is on are data, see *)
(* Pages.  Reposts and bookmarks of the reader go with the likes, and who  *)
(* follows the reader goes with whom the reader follows.                   *)
(***************************************************************************)
EXTENDS Integers, FiniteSets

CONSTANTS
    Tweets,
    Users,
    Me,         \* the reader
    Shapes,     \* conversations: author, kind, parent and conv of each tweet, and posts
    None,       \* no parent, no conversation
    MaxChanges  \* bound of what happens during a request

\* A reply knows what it answers and where its conversation began, a quote what
\* it quotes; who posts a tweet without reposting it is its author.
WellFormed(s) ==
    /\ s.author \in [Tweets -> Users \cup {Me}] /\ s.kind \in [Tweets -> {"tweet", "reply", "quote"}]
    /\ \A t \in Tweets : /\ s.kind[t] # "tweet" => s.parent[t] \in Tweets
                         /\ s.kind[t] = "reply" => s.conv[t] \in Tweets
    /\ \A p \in s.posts : p.tweet \in Tweets /\ (~p.repost => p.by = s.author[p.tweet])
Given == None \notin Tweets /\ Me \notin Users /\ \A s \in Shapes : WellFormed(s)

VARIABLES
    shape,      \* the conversation that is read
    world,      \* rows, documents, likes, follows, blocks and mutes
    past,       \* history: what the world has been since the request began
    req,        \* what the request has in hand
    answer      \* what is shown, and where

vars == <<shape, world, past, req, answer>>

-----------------------------------------------------------------------------
Author(t) == shape.author[t]
Is(kind, t) == shape.kind[t] = kind
Silenced(w) == w.blocked \cup w.muted
Idle == [at |-> "idle", reader |-> "none", seen |-> [t \in {} |-> "full"], found |-> {}]

\* transformTweetForES: a document that was first written without the parent and
\* the conversation of the tweet has neither.
Docs == {"none", "full", "bare"}

TypeOK ==
    /\ shape \in Shapes
    /\ \A w \in past \cup {world} :
        /\ w.live \subseteq Tweets /\ w.docs \in [Tweets -> Docs] /\ w.liked \subseteq Tweets
        /\ w.follows \cup w.blocked \cup w.muted \subseteq Users
    /\ req.at \in {"idle", "related", "flags", "chain", "failed", "done"}
    /\ DOMAIN req.seen \cup req.found \subseteq Tweets
    /\ \A e \in answer :
        /\ {e.of, e.tweet} \subseteq Tweets /\ {e.liked, e.following} \subseteq BOOLEAN
        /\ e.as \in {"main", "parent", "conversation", "nested", "above"}

Init ==
    /\ shape \in Shapes
    /\ \E docs \in [Tweets -> Docs], liked \in SUBSET Tweets,
          follows, blocked, muted \in SUBSET Users :
        /\ \A t \in Tweets : docs[t] = "bare" => ~Is("tweet", t)
        /\ follows \cap blocked = {}
        /\ world = [live |-> Tweets, docs |-> docs, liked |-> liked, follows |-> follows,
                    blocked |-> blocked, muted |-> muted]
    /\ past = {world} /\ req = Idle /\ answer = {}

-----------------------------------------------------------------------------
(* What happens meanwhile *)

Happens(new) ==
    /\ req.at \in {"related", "flags", "chain"} /\ Cardinality(past) <= MaxChanges
    /\ world' = new /\ past' = past \cup {new}
    /\ UNCHANGED <<shape, req, answer>>

\* With what answers or quotes it, see TweetEngagement.
Delete(t) ==
    LET Below[x \in Tweets] == x = t \/ (shape.parent[x] # None /\ Below[shape.parent[x]])
    IN  t \in world.live /\ Happens([world EXCEPT !.live = {x \in @ : ~Below[x]},
                                                 !.liked = {x \in @ : ~Below[x]}])

\* An index job, which may be late; a delete job.
Index(t) == world.docs[t] = "none" /\ Happens([world EXCEPT !.docs[t] = "full"])
Drop(t) == world.docs[t] # "none" /\ t \notin world.live
           /\ Happens([world EXCEPT !.docs[t] = "none"])

Like(t) == t \in world.live \ world.liked /\ Happens([world EXCEPT !.liked = @ \cup {t}])
Unlike(t) == t \in world.liked /\ Happens([world EXCEPT !.liked = @ \ {t}])
Follow(u) == u \notin world.follows \cup world.blocked
             /\ Happens([world EXCEPT !.follows = @ \cup {u}])
Unfollow(u) == u \in world.follows /\ Happens([world EXCEPT !.follows = @ \ {u}])
Block(u) == u \notin world.blocked
            /\ Happens([world EXCEPT !.blocked = @ \cup {u}, !.follows = @ \ {u}])
Unblock(u) == u \in world.blocked /\ Happens([world EXCEPT !.blocked = @ \ {u}])
Mute(u) == u \notin world.muted /\ Happens([world EXCEPT !.muted = @ \cup {u}])
Unmute(u) == u \in world.muted /\ Happens([world EXCEPT !.muted = @ \ {u}])

-----------------------------------------------------------------------------
(* The queries that go with a tweet *)

\* attachUserInteractionBooleanFlags, get_interactions
Shown(of, as, t) == [of |-> of, as |-> as, tweet |-> t,
                     liked |-> t \in world.liked, following |-> Author(t) \in world.follows]

\* No is_following is copied to the author: attachUserFollowFlags goes no deeper
\* than the parent, and nothing reads current_user_follows.
Unfollowed(e) == [e EXCEPT !.following = FALSE]

\* getReplyWithUserById: is_liked is moved to the author, where nothing reads it.
Unliked(e) == [e EXCEPT !.liked = FALSE]

\* What a parent or a first tweet quotes.
Nested(of, p) == IF Is("quote", p) THEN {Unfollowed(Shown(of, "nested", shape.parent[p]))} ELSE {}

\* Mutant of Parents: what is answered comes without any of it, too.
ParentsBare(t) ==
    CASE Is("reply", t) -> {Unliked(Unfollowed(Shown(t, "parent", shape.parent[t])))}
                           \cup Nested(t, shape.parent[t])
      [] Is("quote", t) -> {Unliked(Unfollowed(Shown(t, "parent", shape.parent[t])))}
      [] OTHER -> {}

\* attachParentTweetQuery: what is quoted comes without any of it.
Parents(t) ==
    CASE Is("reply", t) -> {Shown(t, "parent", shape.parent[t])} \cup Nested(t, shape.parent[t])
      [] Is("quote", t) -> {Unliked(Unfollowed(Shown(t, "parent", shape.parent[t])))}
      [] OTHER -> {}

\* attachConversationTweetQuery
Conversation(t) ==
    IF Is("reply", t)
    THEN {Shown(t, "conversation", shape.conv[t])} \cup Nested(t, shape.conv[t]) ELSE {}

WithParents(t) == {Shown(t, "main", t)} \cup Parents(t) \cup Conversation(t)

-----------------------------------------------------------------------------
(* One query *)

Answers(reader, entries) ==
    /\ req.at = "idle"
    /\ req' = [Idle EXCEPT !.at = "done", !.reader = reader]
    /\ answer' = entries
    /\ UNCHANGED <<shape, world, past>>

\* user_posts_view
Posts == {p \in shape.posts : p.tweet \in world.live}

\* Mutant of Readable: whoever wrote the parent.
ReadableAnyParent(p) ==
    /\ p.by \in world.follows \cup {Me}
    /\ {Author(p.tweet), p.by} \cap world.muted = {}
    /\ Is("reply", p.tweet) => Author(shape.conv[p.tweet]) \notin Silenced(world)

\* The WHERE of getFollowingTweets.
Readable(p) ==
    /\ p.by \in world.follows \cup {Me}
    /\ {Author(p.tweet), p.by} \cap world.muted = {}
    /\ Is("reply", p.tweet) => Author(shape.conv[p.tweet]) \notin Silenced(world)
    /\ ~Is("tweet", p.tweet) => Author(shape.parent[p.tweet]) \notin Silenced(world)

\* ROW_NUMBER() = 1, by tweet: the last repost, or the tweet.
FirstOfTweet(p, P) == \A o \in P : o.tweet = p.tweet =>
    IF o.repost = p.repost THEN o.date <= p.date ELSE p.repost

\* ROW_NUMBER() = 1, by conversation: the last of them.
Topic(p) == IF Is("reply", p.tweet) THEN shape.conv[p.tweet] ELSE p.tweet
LastOfTopic(p, P) == \A o \in P : Topic(o) = Topic(p) => o.date <= p.date

GetFollowingTweets ==
    LET filtered == {p \in Posts : Readable(p)}
        deduped == {p \in filtered : FirstOfTweet(p, filtered)}
        ranked == {p \in deduped : LastOfTopic(p, deduped)}
    IN  Answers("following", UNION {WithParents(p.tweet) : p \in ranked})

\* The tabs of a profile, silenced or not; what the reader has liked is by anyone.
Profile(P) == Answers("profile", UNION {WithParents(p.tweet) : p \in P \cap Posts})
Reply(p) == ~p.repost /\ Is("reply", p.tweet)
GetPostsByUserId(u) == Profile({p \in shape.posts : p.by = u /\ ~Reply(p)})
GetRepliesByUserId(u) == Profile({p \in shape.posts : p.by = u /\ Reply(p)})
GetMediaByUserId(u, T) == Profile({p \in shape.posts : p.by = u /\ ~p.repost /\ p.tweet \in T})
GetLikedPostsByUserId == Profile({p \in shape.posts : ~p.repost /\ p.tweet \in world.liked})

\* getTweetsByIds of a list of Redis, see ExploreLists and TimelineQueue.
GetTweetsByIds(T) ==
    Answers("ids", {Unfollowed(Shown(t, "main", t)) : t \in T \cap world.live})

-----------------------------------------------------------------------------
(* A thread: the tweet, then the tweets above it *)

Goes(at) == req' = [req EXCEPT !.at = at]

\* getTweetWithUserById
ReadTweet(t) ==
    /\ req.at = "idle" /\ t \in world.live
    /\ req' = [Idle EXCEPT !.at = "chain", !.reader = "thread"]
    /\ answer' = {Unfollowed(Shown(t, "main", t))}
    /\ UNCHANGED <<shape, world, past>>

\* reply_chain, which stops at a depth of 100.
Above(t) ==
    {x \in Tweets : \A S \in SUBSET Tweets :
        (\A y \in S \cup {t} : shape.parent[y] # None => shape.parent[y] \in S) => x \in S}

\* getReplyWithUserById
ReadChain ==
    LET t == CHOOSE x \in Tweets : \E e \in answer : e.tweet = x IN
        /\ req.at = "chain"
        /\ IF t \in world.live
           THEN Goes("done") /\ answer' = answer \cup {Unliked(Shown(t, "above", x)) : x \in Above(t)}
           ELSE Goes("failed") /\ answer' = {}
        /\ UNCHANGED <<shape, world, past>>

-----------------------------------------------------------------------------
(* The search *)

\* buildTweetsSearchQuery, addHashtagFilters, applyTweetsBoosting: what a query may
\* match and put on a page, by words, hashtags, media, author and scores.
Matches == SUBSET Tweets

\* executeTweetsSearch: M is what the query matches.
Hits(M) ==
    LET hits == {t \in M : world.docs[t] # "none"} IN
    /\ req.at = "idle" /\ hits # {}
    /\ req' = [Idle EXCEPT !.at = "related", !.reader = "search",
                           !.seen = [t \in hits |-> world.docs[t]]]
    /\ UNCHANGED <<shape, world, past, answer>>

Refers(t) == IF Is("tweet", t) \/ req.seen[t] = "bare" THEN {}
             ELSE {shape.parent[t]} \cup (IF Is("reply", t) THEN {shape.conv[t]} ELSE {})

\* fetchRelatedTweets and mapTweet, which takes the mentions of the first tweet
\* from the parent and fails when there is the one and not the other.
Related ==
    LET asked == UNION {Refers(t) : t \in DOMAIN req.seen}
        there == {x \in asked : world.docs[x] # "none"}
        torn == \E t \in DOMAIN req.seen :
                    Refers(t) # {} /\ Is("reply", t) /\ shape.conv[t] \in there /\ shape.parent[t] \notin there
    IN  /\ req.at = "related"
        /\ req' = [req EXCEPT !.at = IF torn THEN "failed" ELSE "flags", !.found = there]
        /\ UNCHANGED <<shape, world, past, answer>>

Seen(t) == Author(t) \notin Silenced(world)
Comes(t, x) == x \in Refers(t) \cap req.found /\ Seen(x)

\* Mutants of Kept: a quote need not have what it quotes; everything must.
KeptQuotes(t) == Seen(t) /\ (Is("reply", t) => Comes(t, shape.parent[t]) /\ Comes(t, shape.conv[t]))
KeptReplies(t) == Seen(t) /\ Comes(t, shape.parent[t])

\* attachUserInteractions: what is silenced has no row.
Kept(t) ==
    /\ Seen(t)
    /\ ~Is("tweet", t) => Comes(t, shape.parent[t])
    /\ Is("reply", t) => Comes(t, shape.conv[t])

AttachUserInteractions ==
    LET kept == {t \in DOMAIN req.seen : Kept(t)}
        With(t, as, x) == IF Comes(t, x) THEN {Shown(t, as, x)} ELSE {}
    IN  /\ req.at = "flags" /\ Goes("done")
        /\ answer' = UNION {{Shown(t, "main", t)} \cup With(t, "parent", shape.parent[t])
                            \cup With(t, "conversation", shape.conv[t]) : t \in kept}
        /\ UNCHANGED <<shape, world, past>>

\* searchPosts answers nothing when a step fails.
Fail ==
    /\ req.at \in {"related", "flags", "chain"} /\ Goes("failed")
    /\ answer' = {}
    /\ UNCHANGED <<shape, world, past>>

Next ==
    \/ \E t \in Tweets : Delete(t) \/ Index(t) \/ Drop(t) \/ Like(t) \/ Unlike(t) \/ ReadTweet(t)
    \/ \E u \in Users : Follow(u) \/ Unfollow(u) \/ Block(u) \/ Unblock(u) \/ Mute(u) \/ Unmute(u)
    \/ GetFollowingTweets \/ GetLikedPostsByUserId
    \/ \E u \in Users : GetPostsByUserId(u) \/ GetRepliesByUserId(u)
                         \/ \E T \in SUBSET Tweets : GetMediaByUserId(u, T)
    \/ \E T \in SUBSET Tweets : GetTweetsByIds(T)
    \/ \E M \in Matches : Hits(M)
    \/ ReadChain \/ Related \/ AttachUserInteractions \/ Fail

Spec == Init /\ [][Next]_vars

-----------------------------------------------------------------------------
(* Properties *)

Always(P(_)) == \A w \in past : P(w)
Quoted(e) == e.as = "parent" /\ Is("quote", e.of) /\ req.reader \in {"following", "profile"}

\* getFollowingTweets, attachUserInteractions: whoever is blocked or muted all
\* the time is not shown, as author or above an answer, but on profiles, in
\* threads and by ids, where nobody asks; on the timeline, as author of what is
\* quoted above, and, when blocked only, of a tweet that someone has reposted.
SilencedHidden ==
    req.reader \in {"following", "search"} => \A e \in answer :
        \/ ~Always(LAMBDA w : Author(e.tweet) \in Silenced(w))
        \/ req.reader = "following" /\ e.as = "nested"
        \/ /\ req.reader = "following" /\ e.as = "main"
           /\ \E p \in shape.posts : p.tweet = e.tweet /\ p.repost
           /\ Author(e.tweet) \notin world.muted

\* mapTweet, attachUserInteractions: a tweet that the query has matched, with
\* what it answers in the index all the time and nobody silenced, is found,
\* unless one without its parent takes the whole answer with it (or it was first
\* indexed bare).
MatchesFound ==
    req.at = "done" /\ req.reader = "search" => \A t \in DOMAIN req.seen :
        LET with == {t} \cup Refers(t) IN
        \/ req.seen[t] = "bare" /\ ~Is("tweet", t)
        \/ \E w \in past : \E x \in with : w.docs[x] = "none" \/ Author(x) \in Silenced(w)
        \/ \E e \in answer : e.tweet = t /\ e.as = "main"

\* Nothing is shown without what it answers or quotes, whatever is deleted and
\* silenced meanwhile, but where tweets are read by their ids.
ShownWhole ==
    req.at = "done" /\ req.reader # "ids" =>
        \A e \in {f \in answer : f.as = "main" /\ ~Is("tweet", f.tweet)} :
            \E f \in answer : f.of = e.tweet /\ f.tweet = shape.parent[e.tweet] /\ f.as \in {"parent", "above"}

\* Both: what the reader may see is found, and comes with what it is about.
FoundWhole == MatchesFound /\ ShownWhole

\* attachParentTweetQuery, attachUserFollowFlags, getReplyWithUserById: a tweet is
\* shown as liked and its author as followed if they are, but for what is quoted,
\* and where the flags get lost.
FlagsAgree == \A e \in answer :
    /\ e.liked => \E w \in past : e.tweet \in w.liked
    /\ e.following => \E w \in past : Author(e.tweet) \in w.follows
    /\ \/ e.liked \/ Quoted(e) \/ e.as = "above"
       \/ \E w \in past : e.tweet \notin w.liked
    /\ \/ e.following \/ Quoted(e) \/ e.as = "nested"
       \/ e.as = "main" /\ req.reader \in {"thread", "ids"}
       \/ \E w \in past : Author(e.tweet) \notin w.follows
=============================================================================
