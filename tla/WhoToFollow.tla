----------------------------- MODULE WhoToFollow -----------------------------
(***************************************************************************)
(* Whom a user is advised to follow (WhoToFollowService).  Five queries    *)
(* run side by side, each of which sees the follows and blocks of its own  *)
(* moment and returns at most Multiplier times its quota.  Their results   *)
(* are merged: a quota of each, then the best of the rest; the rows of the *)
(* users are read, and the most followed users of all fill what is left.   *)
(*                                                                         *)
(* Abstractions.  What a source says of a user is the score it gets: up to *)
(* 100, 0 when the source does not know the user.  A list of entries is    *)
(* the set of them, each with its place in the list of its source; where a *)
(* list is cut, the order is said.                                         *)
(***************************************************************************)
EXTENDS Integers, Sequences, FiniteSets, SequencesExt

CONSTANTS
    Users,          \* all users but the one who asks
    Me,             \* the one who asks
    Limit,          \* entries asked for
    Share,          \* CONFIG.DISTRIBUTION: percents, by source
    Multiplier,     \* CANDIDATE_MULTIPLIER
    Appeals,        \* what the sources may say of the users
    ByFollowers     \* everybody, the most followed first

VARIABLES
    appeal,     \* the score of each user in each source
    follows,    \* whom the user follows
    refused,    \* blocks, of either side
    deleted,    \* users with deleted_at
    found,      \* what the sources have returned
    answer,     \* the entries of the answer
    at,         \* where the request is
    strangers   \* history: neither followed nor blocked at some time of the request

graph == <<follows, refused, deleted>>
vars == <<appeal, graph, found, answer, at, strangers>>

-----------------------------------------------------------------------------
\* The sources, in the order in which their results are put together.
Sources == [fof |-> 1, interests |-> 2, likes |-> 3, replies |-> 4, followers |-> 5]

\* Everybody is listed once, the one who asks too.
Given ==
    /\ IsFiniteSet(Users) /\ Limit \in Nat /\ Multiplier \in Nat /\ Share \in [DOMAIN Sources -> Nat]
    /\ ByFollowers \in Seq(Users \cup {Me})
    /\ \A i, k \in DOMAIN ByFollowers : ByFollowers[i] = ByFollowers[k] => i = k

Known(f, r) == Users \ (f \cup r)

First(n, s) == SubSeq(s, 1, IF n < Len(s) THEN n ELSE Len(s))
UsersOf(entries) == {e.user : e \in entries}

\* The first n of S.
Firsts(n, S, Before(_, _)) == {e \in S : Cardinality({o \in S : Before(o, e)}) < n}

Init ==
    /\ appeal \in Appeals
    /\ follows \in SUBSET Users /\ refused \in SUBSET (Users \ follows) /\ deleted = {}
    /\ found = [s \in {} |-> <<>>] /\ answer = {}
    /\ at = "sources" /\ strangers = Known(follows, refused)

-----------------------------------------------------------------------------
(* What others do meanwhile *)

Changes(f, r, d) ==
    /\ at # "done"
    /\ follows' = f /\ refused' = r /\ deleted' = d
    /\ strangers' = strangers \cup Known(f, r)
    /\ UNCHANGED <<appeal, found, answer, at>>

Follow(u) == u \notin follows \cup refused /\ Changes(follows \cup {u}, refused, deleted)
Block(u) == u \notin refused /\ Changes(follows \ {u}, refused \cup {u}, deleted)
Unfollow(u) == u \in follows /\ Changes(follows \ {u}, refused, deleted)
Unblock(u) == u \in refused /\ Changes(follows, refused \ {u}, deleted)
Delete(u) == u \notin deleted /\ Changes(follows, refused, deleted \cup {u})

-----------------------------------------------------------------------------
(* The five queries *)

Quota(s) == (Limit * Share[s] + 99) \div 100

\* calculateScore
Score(s, u) == IF s = "followers" THEN 50 ELSE appeal[s][u]

\* getFriendsOfFriends, getLikedUsers, getRepliedUsers: by the count that is
\* scored.  getInterestBasedUsers: by the categories in common, which count for
\* no more than two.  getFollowersNotFollowed: by fame.
Ordered(s, l) == s \in {"fof", "likes", "replies"} =>
    \A i, j \in DOMAIN l : i < j => Score(s, l[i]) >= Score(s, l[j])

\* Mutant of Candidates: nobody is left out.
CandidatesAll(s) == {u \in Users : appeal[s][u] > 0}

Candidates(s) == {u \in Known(follows, refused) : appeal[s][u] > 0}

Query(s) ==
    /\ at = "sources" /\ s \notin DOMAIN found
    /\ \E l \in SetToSeqs(Candidates(s)) :
        /\ Ordered(s, l)
        /\ found' = [f \in DOMAIN found \cup {s} |->
                        IF f = s THEN First(Quota(s) * Multiplier, l) ELSE found[f]]
    /\ UNCHANGED <<appeal, graph, answer, at, strangers>>

-----------------------------------------------------------------------------
(* combineByDistribution *)

Entry(u, score, s, i) == [user |-> u, score |-> score, source |-> s, place |-> i]
Scored(s) == {Entry(found[s][i], Score(s, found[s][i]), s, i) : i \in DOMAIN found[s]}

Earlier(o, e) == o.place < e.place

\* Array.sort keeps the order of equals.
Better(o, e) ==
    \/ o.score > e.score
    \/ o.score = e.score /\ Sources[o.source] < Sources[e.source]
    \/ o.score = e.score /\ o.source = e.source /\ Earlier(o, e)

Unseen(entries, seen) == {e \in entries : e.user \notin UsersOf(seen)}

\* Mutant of AddFromSource: what is seen is not looked at.
AddFromSourceAgain(result, s) == result \cup Firsts(Quota(s), Scored(s), Earlier)

AddFromSource(result, s) ==
    result \cup Firsts(Quota(s), Unseen(Scored(s), result), Earlier)

\* What the quotas take.
Shares ==
    LET fof == AddFromSource({}, "fof")
        interests == AddFromSource(fof, "interests")
        likes == AddFromSource(interests, "likes")
        replies == AddFromSource(likes, "replies")
    IN  AddFromSource(replies, "followers")

\* What a quota did not reach is filtered once, before the best are added: one
\* whom two sources have found is in it twice.
Extras ==
    Firsts(Limit - Cardinality(Shares), Unseen(UNION {Scored(s) : s \in DOMAIN Sources}, Shares), Better)

\* Of equals, what a quota took comes first.
Sooner(o, e) ==
    \/ o.score > e.score
    \/ o.score = e.score /\ o \in Shares /\ e \in Extras
    \/ Better(o, e) /\ (o \in Shares <=> e \in Shares)
Combined == Firsts(Limit, Shares \cup Extras, Sooner)

-----------------------------------------------------------------------------
(* getPersonalizedRecommendations, getWhoToFollow *)

\* The rows of the users are read when all sources have answered.
Load ==
    /\ at = "sources" /\ DOMAIN found = DOMAIN Sources
    /\ answer' = {e \in Combined : e.user \notin deleted}
    /\ at' = "fill"
    /\ UNCHANGED <<appeal, graph, found, strangers>>

\* getPopularUsers: of nobody is it asked who they are, not even of oneself.
Popular(n) ==
    Firsts(n, {Entry(ByFollowers[i], 0, "popular", i) :
                   i \in {k \in DOMAIN ByFollowers : ByFollowers[k] \notin deleted}}, Earlier)

Fill ==
    LET needed == Limit - Cardinality(answer) IN
    /\ at = "fill" /\ at' = "done"
    /\ answer' = answer \cup Firsts(needed, Unseen(Popular(2 * needed), answer), Earlier)
    /\ UNCHANGED <<appeal, graph, found, strangers>>

Next ==
    \/ \E u \in Users : Follow(u) \/ Block(u) \/ Unfollow(u) \/ Unblock(u) \/ Delete(u)
    \/ \E s \in DOMAIN Sources : Query(s)
    \/ Load \/ Fill

Spec == Init /\ [][Next]_vars

-----------------------------------------------------------------------------
(* Properties *)

Recommended(u) == {e \in answer : e.user = u}

\* combineByDistribution: nobody is recommended twice (who-to-follow.service.
\* spec.ts, "should deduplicate users across sources") but those whom two
\* sources had found and had more to offer than their quotas.
TwiceOnlyBeyondQuotas ==
    at # "sources" => \A u \in Users : Cardinality(Recommended(u)) <=
        LET beyond == {s \in DOMAIN Sources : u \in ToSet(found[s]) /\ Len(found[s]) > Quota(s)}
        IN  IF beyond = {} THEN 1 ELSE Cardinality(beyond)

\* Whoever is recommended by a source was a stranger at some time of the
\* request, whatever is followed and blocked while the queries run.
StrangersOnly ==
    \A e \in answer : e.source # "popular" => e.user \in strangers

\* Both: what the sources recommend is new to the reader, and said once.
AdviceSound == TwiceOnlyBeyondQuotas /\ StrangersOnly
=============================================================================
