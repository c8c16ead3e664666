-------------------------- MODULE MCNotificationFeed --------------------------
(***************************************************************************)
(* What the owner of a notifications document learns of it: what the       *)
(* connection is told while it changes (two tweets, two actors, six        *)
(* events, three jobs), and what a request shows of it (documents of two   *)
(* entries).  The two meet in the document only, which the list takes as   *)
(* it finds it, so that each is explored alone.                            *)
(***************************************************************************)
EXTENDS Notifications, TLC
CONSTANTS a, b, s, t, j1, j2, j3, c1, c2
VARIABLE part      \* which of the two is explored

Event(type, tweet, u) == [type |-> type, tweet |-> tweet, actor |-> u]
MCHappenings == {Event("LIKE", s, a), Event("LIKE", s, b), Event("LIKE", t, a),
             Event("REPLY", t, b), Event("FOLLOW", None, a), Event("MENTION", t, b)}

Entry(type, who, what, on, date) ==
    [type |-> type, who |-> who, what |-> what, on |-> on, date |-> date]
Some(date) ==
    {Entry("LIKE", who, {s}, None, date) : who \in {{a}, {b}, {a, b}}}
    \cup {Entry("LIKE", {a}, what, None, date) : what \in {{t}, {s, t}}}
    \cup {Entry("FOLLOW", who, {}, None, date) : who \in {{a}, {a, b}}}
    \cup {Entry(type, {a}, {s}, t, date) : type \in {"REPLY", "QUOTE", "MENTION"}}
    \cup {Entry("MENTION", {b}, {t}, None, date), Entry("MESSAGE", {b}, {}, None, date)}
MCDocuments == {{}} \cup {{e, f} : e \in Some(1), f \in Some(2)}

MCInit == Init /\ Feed!Init /\ Lists!Init /\ part \in {"feed", "list"}
FeedStep == part = "feed" /\ Feed!Next /\ UNCHANGED <<vars, listed, part>>
ListStep == part = "list" /\ Lists!Next /\ UNCHANGED <<vars, feed, part>>
MCSpec == MCInit /\ [][FeedStep \/ ListStep]_<<vars, feed, listed, part>>

\* Bounds of the feed: jobs and connections are taken in order, since their names mean
\* nothing; of a deletion, a block, a run that fails or is broken off, a connection that
\* comes or goes otherwise and a like of a second tweet, one is there at a time; likes
\* meet one other event, a mention none.  The third job comes where all runs end well and
\* the connections stay, and then a job that has told completes before another starts.
InOrder ==
    /\ \A p \in {<<j1, j2>>, <<j2, j3>>} : work[p[2]] # Feed!Unqueued => work[p[1]] # Feed!Unqueued
    /\ conn[c2] # "new" => conn[c1] \notin {"new", "joined", "on"}
Subjects == {work[j].what : j \in {i \in Jobs : work[i] # Feed!Unqueued}}
SecondTweet == Subjects \cap {Event("LIKE", t, a)}
OneOther ==
    /\ Cardinality({e \in Subjects : e.type # "LIKE"}) <= 1
    /\ (\E e \in Subjects : e.type = "MENTION") => Cardinality(Subjects) = 1
Retried == {j \in Jobs : work[j].try > 1}
BackAfterCrash == Retried # {} /\ conn[c1] = "off" /\ conn[c2] \in {"new", "joined", "on"}
Moving == ~BackAfterCrash /\ (conn[c2] # "new" \/ conn[c1] \notin {"new", "on"})
OneAtATime ==
    Cardinality(missing \cup blocked) + Cardinality(SecondTweet)
        + (IF Retried = {} THEN 0 ELSE 1) + (IF Moving THEN 1 ELSE 0) <= 1
ThirdJob == work[j3] # Feed!Unqueued =>
    /\ ~Moving /\ Retried = {}
    /\ \A j \in Jobs : work[j].at = "told" => Feed!UnderWay = {j}

\* Each part leaves the other where it began.
Resting ==
    /\ part = "feed" => document = {} /\ lost = {} /\ shunned = {}
    /\ part = "list" => blocked = {}
Bounds == Resting /\ InOrder /\ OneOther /\ OneAtATime /\ ThirdJob
===============================================================================
