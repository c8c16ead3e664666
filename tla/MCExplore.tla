------------------------------- MODULE MCExplore -------------------------------
(***************************************************************************)
(* What a reader comes upon: the lists of the explore page (three tweets,  *)
(* one of them half about the category, pages of one tweet), whom it       *)
(* advises to follow (three users whom up to three sources know), and a    *)
(* conversation of three tweets and a repost in the search, on timelines   *)
(* and in threads, each explored alone.  The pages of other lists are      *)
(* explored by MCPages.                                                    *)
(***************************************************************************)
EXTENDS Browsing, TLC
CONSTANTS t1, t2, t3, u1, u2, u3, root, middle, last
VARIABLE part      \* which of the three is explored

MCMillis == [k \in Keys |-> k]

MCPercent == [t \in Rated |-> IF t = t3 THEN 50 ELSE 100]
MCShare == [fof |-> 40, interests |-> 10, likes |-> 25, replies |-> 15, followers |-> 10]
MCByFollowers == <<u1, Me, u2, u3>>
Nobody == [u \in Users |-> 0]
MCAppeals == {[fof |-> f, interests |-> i, likes |-> Nobody, replies |-> Nobody, followers |-> w] :
    f \in {Nobody, [Nobody EXCEPT ![u2] = 40]}, i \in [Users -> {0, 60}], w \in [Users -> {0, 50}]}

\* A thread of three whose root is reposted, an answer to a quote, a quote of an
\* answer.
Three(x, y, z) ==
    [t \in {root, middle, last} |-> CASE t = root -> x [] t = middle -> y [] t = last -> z]
Posted(t, u, n) == [tweet |-> t, by |-> u, date |-> n, repost |-> FALSE]
Thread(kind, parent, conv, reposted) ==
    [author |-> Three(u1, u2, u3), kind |-> kind, parent |-> parent, conv |-> conv,
     posts |-> {Posted(root, u1, 1), Posted(middle, u2, 2), Posted(last, u3, 4),
                [Posted(reposted, u2, IF reposted = last THEN 5 ELSE 3) EXCEPT !.repost = TRUE]}]
MCShapes ==
    {Thread(Three("tweet", "reply", "reply"), Three(None, root, middle),
            Three(None, root, root), root),
     Thread(Three("tweet", "quote", "reply"), Three(None, root, middle),
            Three(None, None, middle), last),
     Thread(Three("tweet", "reply", "quote"), Three(None, root, middle),
            Three(None, root, None), last)}

NoReading ==
    /\ shape = Thread(Three("tweet", "tweet", "tweet"), Three(None, None, None),
                     Three(None, None, None), root)
    /\ world = [live |-> {}] /\ past = {} /\ req = Readers!Idle /\ answer = {}
NoAdvice ==
    /\ appeal \in MCAppeals /\ (\A s \in DOMAIN appeal : appeal[s] = Nobody)
    /\ follows = {} /\ refused = {} /\ deleted = {} /\ found = [s \in {} |-> <<>>]
    /\ advice = {} /\ at = "sources" /\ strangers = {}
NoRating ==
    /\ live = {} /\ score = [t \in Rated |-> 0] /\ recent = <<>>
    /\ best = [t \in Rated |-> 0] /\ job = Explored!Idle /\ clearing = FALSE /\ touches = 0
    /\ scored = {} /\ handled = {} /\ still = {} /\ same = {}
    /\ moves = 0 /\ clean = TRUE /\ lowered = FALSE
NoPages == Init /\ list = GetTweetLikes /\ Present = {}

ListsStep == part = "lists" /\ Explored!Next /\ UNCHANGED <<vars, advising, reading, part>>
AdviceStep == part = "advice" /\ Advice!Next /\ UNCHANGED <<vars, rating, reading, part>>
ReadingStep == part = "reading" /\ Readers!Next /\ UNCHANGED <<vars, rating, advising, part>>

\* Bounds: one thing each of what differs from a reader who has liked one tweet.
FewDiffer ==
    /\ Cardinality(world.blocked) + Cardinality(world.muted) <= 1
    /\ Cardinality(world.liked) <= 1 /\ Cardinality(world.follows) <= 1
    /\ Cardinality({t \in DOMAIN world.docs : world.docs[t] # "full"}) <= 1

MCInit ==
    /\ NoPages
    /\ \/ part = "lists" /\ Explored!Init /\ NoAdvice /\ NoReading
       \/ part = "advice" /\ Advice!Init /\ NoRating /\ NoReading
       \/ part = "reading" /\ Readers!Init /\ FewDiffer /\ NoRating /\ NoAdvice
MCSpec ==
    MCInit /\ [][ListsStep \/ AdviceStep \/ ReadingStep]_<<vars, rating, advising, reading, part>>

Symmetry == Permutations({t1, t2})

\* Bounds: after a failure or a request to clear nothing happens to the tweets;
\* one user at a time is followed, blocked or gone, and the sources that know
\* nobody answer last.
Knowing == {"fof", "interests", "followers"}
Bounds ==
    /\ (clean /\ ~clearing) \/ touches = 0
    /\ Cardinality(follows) + Cardinality(refused) + Cardinality(deleted) <= 1
    /\ part = "reading" => FewDiffer
    /\ DOMAIN found \subseteq Knowing \/ Knowing \subseteq DOMAIN found
=============================================================================
