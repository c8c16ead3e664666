---------------------------- MODULE Notifications ----------------------------
(***************************************************************************)
(* The notifications of one owner as a whole: how jobs change the document *)
(* (NotificationInbox), what the owner is told of it while they do         *)
(* (NotificationFeed) and what a request shows of it (NotificationList).   *)
(* The three meet in the document only, each at its own grain: the feed    *)
(* takes an update as one step, and the list a document as it finds it, so *)
(* that each is a specification of its own.                                *)
(***************************************************************************)
EXTENDS NotificationInbox

CONSTANTS
    Happenings, \* what the feed is about: [type, tweet, actor]
    Sockets,
    Documents,  \* what the list may find: sets of entries
    PageSize, MaxChanges,
    None

VARIABLES
    stored, work, missing, blocked, spared, conn, told, heard, repeats, due, hushed,
    document, lost, shunned, friends, req, list, missed, changes

feed == <<stored, work, missing, blocked, spared, conn, told, heard, repeats, due, hushed>>
listed == <<document, lost, shunned, friends, req, list, missed, changes>>

Feed == INSTANCE NotificationFeed WITH
    Events <- Happenings, box <- stored, job <- work, gone <- missing
Lists == INSTANCE NotificationList WITH
    Users <- Actors, Boxes <- Documents, box <- document, gone <- lost, blocked <- shunned,
    spared <- friends, due <- missed

ASSUME HappeningsTyped ==
    Happenings \subseteq [type: {"LIKE", "FOLLOW"} \cup Singles, tweet: Tweets \cup {None}, actor: Actors]
ASSUME NoneIsNothing == None \notin Tweets \cup Actors \cup (Jobs \X (1..Tries))
ASSUME SomePage == PageSize \in Nat \ {0}

\* A like or a repost is of some tweets, what one user wrote has one writer and is one
\* tweet, and a reply or a quote says which tweet it is about.
ASSUME DocumentsTyped == \A B \in Documents :
    /\ B \subseteq [type: Types \cup {"MESSAGE"}, who: SUBSET Actors,
                   what: SUBSET Tweets, on: Tweets \cup {None}, date: Int]
    /\ \A e \in B :
        /\ e.type \in Gathered => e.what # {}
        /\ e.type \in Singles => (\E u \in Actors : e.who = {u}) /\ \E t \in Tweets : e.what = {t}
        /\ e.type \in {"REPLY", "QUOTE"} => e.on \in Tweets
ASSUME DatesDiffer == \A B \in Documents :
    IsFiniteSet(B) /\ \A e, f \in B : e # f => e.date # f.date

\* A connection that knows of an entry is told when it goes, unless it went without a word.
LastWord == Feed!LastWord
\* The owner hears of an event once, and again only if its job was run again after it had told.
HeardOnce == Feed!HeardOnce
\* Nothing that is there is left out of a list, it shows nobody blocked and nothing twice,
\* and only what is gone is missed.
ListFaithful == Lists!ListFaithful
=============================================================================
