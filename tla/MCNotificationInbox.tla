------------------------- MODULE MCNotificationInbox -------------------------
(* Two people: what they like, whom they follow, what they post.            *)
EXTENDS NotificationInbox, TLC
CONSTANTS t1, t2, r1, r2, a, b, j1, j2, j3
Event(type, t, p, u) == [type |-> type, tweet |-> t, post |-> p, actor |-> u]
MCLikes == {Event("LIKE", t1, NoTweet, a), Event("LIKE", t1, NoTweet, b),
            Event("LIKE", t2, NoTweet, a)}
MCReply == {Event("REPLY", t1, r1, b)}
MCFollows == {Event("FOLLOW", NoTweet, NoTweet, a), Event("FOLLOW", NoTweet, NoTweet, b),
              Event("MENTION", NoTweet, r2, b)}
MCReposts == {Event("REPOST", t1, NoTweet, a), Event("FOLLOW", NoTweet, NoTweet, a)}
MCEvents == MCLikes \cup MCReply \cup MCFollows \cup MCReposts
JobSymmetry == Permutations({j1, j2, j3})

\* Bounds: what the jobs of a behaviour announce.  Jobs are run again only among
\* likes, days pass only among follows and reposts, and what is of no matter to
\* the events is not deleted.
Announced == {job[j].what : j \in {i \in Jobs : Is(i, "add")}}
Once == \A j \in Jobs : job[j] # NoJob => job[j].try = 1
Bounds ==
    \/ Announced \subseteq MCLikes /\ today = 0 /\ gone \cap {t2, a} = {}
    \/ Announced \subseteq MCLikes \cup MCReply /\ today = 0 /\ gone \subseteq Posts /\ Once
    \/ Announced \subseteq MCFollows /\ gone \cap {t1, t2} = {} /\ Once
    \/ Announced \subseteq MCReposts /\ gone \cap {t2, b} = {} /\ Once
==============================================================================
