--------------------------- MODULE NotificationList ---------------------------
(***************************************************************************)
(* What the owner is shown of the notifications document                   *)
(* (NotificationsService.getUserNotifications, getMentionsAndReplies).     *)
(* The document holds ids only.  A request reads it, then the users and    *)
(* the tweets that it names, and leaves out what is no longer there; what  *)
(* it misses is queued to be cleared, see NotificationInbox.  What others  *)
(* delete and the owner blocks meanwhile is seen by the later reads.       *)
(*                                                                         *)
(* Abstractions.  The two reads of users (those whose relation to the      *)
(* owner is needed, and the others) are one, as are those of tweets, whose *)
(* flags are left out.  The dates of a document differ, and it is kept in  *)
(* their order, which the tab of the mentions relies on.                   *)
(***************************************************************************)
EXTENDS Integers, FiniteSets, Sequences, SequencesExt

CONSTANTS
    Users, Tweets,
    Boxes,      \* documents: sets of entries
    PageSize,
    MaxChanges, \* bound of what happens during a request
    None        \* no tweet that is answered or quoted

VARIABLES
    box,        \* the entries: [type, who, what, on, date]
    gone,       \* users and tweets that have been deleted
    blocked,    \* by the owner
    spared,     \* history: users who have not been blocked all the time
    req,        \* what the request has read
    list,       \* what it shows, on all pages
    due,        \* what it has queued to be cleared
    changes

vars == <<box, gone, blocked, spared, req, list, due, changes>>

-----------------------------------------------------------------------------
Gathered == {"LIKE", "REPOST", "FOLLOW"}
Singles == {"REPLY", "QUOTE", "MENTION"}
Tabs == {"all", "mentions"}
Nothing == [tab |-> "all", at |-> "idle", users |-> {}, blocked |-> {}, tweets |-> {}]

Init ==
    /\ box \in Boxes /\ gone \in SUBSET (Users \cup Tweets) /\ blocked \in SUBSET Users
    /\ spared = Users \ blocked
    /\ req = Nothing /\ list = <<>> /\ due = {} /\ changes = 0

-----------------------------------------------------------------------------
(* What happens meanwhile *)

Happens ==
    /\ req.at \in {"fetch", "users", "tweets"} /\ changes < MaxChanges
    /\ changes' = changes + 1 /\ UNCHANGED <<box, req, list, due>>

Delete(x) ==
    /\ x \notin gone /\ gone' = gone \cup {x} /\ Happens /\ UNCHANGED <<blocked, spared>>
Block(u) ==
    /\ u \notin blocked /\ blocked' = blocked \cup {u} /\ Happens /\ UNCHANGED <<gone, spared>>
Unblock(u) ==
    /\ u \in blocked /\ blocked' = blocked \ {u} /\ spared' = spared \cup {u}
    /\ Happens /\ UNCHANGED gone

-----------------------------------------------------------------------------
(* The reads.  The entries of the box stand for the document that was read: *)
(* what jobs do to it later is not seen.                                    *)

Entries(tab) == IF tab = "all" THEN box ELSE {e \in box : e.type \in {"MENTION", "REPLY"}}
Named(tab) == UNION {e.who \cup e.what \cup {e.on} : e \in Entries(tab)}

Load(tab) ==
    /\ req.at = "idle"
    /\ req' = [Nothing EXCEPT !.tab = tab, !.at = IF Entries(tab) = {} THEN "done" ELSE "fetch"]
    /\ UNCHANGED <<box, gone, blocked, spared, list, due, changes>>

\* Only those who reply, quote or mention are read with what the owner has to do
\* with them.
Related(tab) == UNION {e.who : e \in {f \in Entries(tab) : f.type \in Singles}}

\* getUsersWithRelationships
FetchUsers ==
    LET there == (Named(req.tab) \cap Users) \ gone IN
    /\ req.at \in {"fetch", "tweets"}
    /\ req' = [req EXCEPT !.at = IF req.at = "fetch" THEN "users" ELSE "both",
                          !.users = there, !.blocked = there \cap Related(req.tab) \cap blocked]
    /\ UNCHANGED <<box, gone, blocked, spared, list, due, changes>>

\* getTweetsWithInteractions
FetchTweets ==
    /\ req.at \in {"fetch", "users"}
    /\ req' = [req EXCEPT !.at = IF req.at = "fetch" THEN "tweets" ELSE "both",
                          !.tweets = (Named(req.tab) \cap Tweets) \ gone]
    /\ UNCHANGED <<box, gone, blocked, spared, list, due, changes>>

-----------------------------------------------------------------------------
(* What is shown *)

\* Who and what of an entry is there.
Left(e) == [e EXCEPT !.who = @ \cap req.users, !.what = @ \cap req.tweets,
                     !.on = IF @ \in req.tweets THEN @ ELSE None]

\* Mutant of Kept: a like or a repost needs all of its tweets.
KeptWhole(e) ==
    /\ e.who \cap req.users # {}
    /\ e.type # "REPLY" => e.what \subseteq req.tweets
    /\ e.type \in {"REPLY", "QUOTE"} => e.on \in req.tweets

\* A like or a repost needs one of its people and one of its tweets, a follow one
\* of its people; a reply can do without its tweet, a mention without what it quotes.
Kept(e) ==
    /\ e.who \cap req.users # {}
    /\ e.type \in {"LIKE", "REPOST"} => e.what \cap req.tweets # {}
    /\ e.type \in {"QUOTE", "MENTION"} => e.what \subseteq req.tweets
    /\ e.type \in {"REPLY", "QUOTE"} => e.on \in req.tweets

\* What is queued to be cleared.  The tweets of a like are only missed together, and
\* its people are then not looked at; a reply that is shown misses nothing; the tab
\* of the mentions clears no users.
Missing(e) ==
    LET what == e.what \ req.tweets
        on == {e.on} \ (req.tweets \cup {None})
        who == IF req.tab = "all" THEN e.who \ req.users ELSE {}
    IN  CASE e.type \in {"LIKE", "REPOST"} -> IF what = e.what THEN what ELSE who
          [] e.type = "REPLY" /\ Kept(e) -> {}
          [] e.type = "MENTION" -> IF Kept(e) THEN on ELSE who \cup what
          [] OTHER -> who \cup what \cup on

\* The key of deduplicateNotifications: no two singles have the same.
Same(e, f) == e.type = f.type /\ e.type \in Gathered /\ e.who = f.who /\ e.what = f.what

\* Newest first, and of the entries of one key the newest.
Newer(e, f) == e.date > f.date
Ordered(S) == CHOOSE l \in SetToSeqs(S) : \A i, k \in DOMAIN l : i < k => Newer(l[i], l[k])
Deduplicated(S) == {e \in S : ~\E f \in S : Same(e, f) /\ Newer(f, e)}

\* The tab of the mentions has nothing to deduplicate.
Show ==
    /\ req.at = "both" /\ req' = [req EXCEPT !.at = "done"]
    /\ list' = Ordered(Deduplicated({Left(e) : e \in {f \in Entries(req.tab) : Kept(f)}}))
    /\ due' = UNION {Missing(e) : e \in Entries(req.tab)}
    /\ UNCHANGED <<box, gone, blocked, spared, changes>>

\* Mutant of Hidden: a quote is not asked who wrote it.
HiddenButQuotes(e) == e.type \in Singles \ {"QUOTE"} /\ e.who \subseteq req.blocked

\* The page is cut first, and what the blocked wrote is then left out of it.
Hidden(e) == e.type \in Singles /\ e.who \subseteq req.blocked

Page(n) == SubSeq(list, (n - 1) * PageSize + 1, Min({n * PageSize, Len(list)}))
Shown(n) == {e \in ToSet(Page(n)) : ~Hidden(e)}

Next ==
    \/ \E tab \in Tabs : Load(tab)
    \/ FetchUsers \/ FetchTweets \/ Show
    \/ \E x \in Users \cup Tweets : Delete(x)
    \/ \E u \in Users : Block(u) \/ Unblock(u)

Spec == Init /\ [][Next]_vars

-----------------------------------------------------------------------------
(* Properties *)

\* Nothing that is there is left out, whatever else an entry names is gone and
\* however entries are taken together: each of the people of an entry who is there
\* is listed with each of its tweets that is there (response_notifications and
\* deduplicateNotifications).
Means(e) == {<<e.type, u, t>> : u \in e.who \ gone, t \in IF e.what = {} THEN {None} ELSE e.what \ gone}
Answerable(e) == e.type \in {"REPLY", "QUOTE"} => e.on \notin gone
AllListed ==
    req.at = "done" => \A e \in Entries(req.tab) : Answerable(e) =>
        \A m \in Means(e) : \E i \in DOMAIN list :
            m[1] = list[i].type /\ m[2] \in list[i].who /\ m[3] \in list[i].what \cup {None}

\* No page shows what someone wrote who is blocked all the time, no two entries of
\* the list say the same, and only what is gone is queued to be cleared
\* (filtered_paginated_notifications, deduplicateNotifications, missing_tweet_ids).
BlockedHidden == \A n \in DOMAIN list : \A e \in Shown(n) :
    e.type \in Singles => e.who \subseteq spared
NoTwins == \A i, k \in DOMAIN list :
    /\ i # k /\ list[i].type = list[k].type /\ list[i].type \in Gathered
    => list[i].who # list[k].who \/ list[i].what # list[k].what
ListedRightly == BlockedHidden /\ NoTwins /\ due \subseteq gone

\* Both: a list is what the document says, no more and no less.
ListFaithful == AllListed /\ ListedRightly
=============================================================================
