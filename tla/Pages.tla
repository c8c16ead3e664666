--------------------------------- MODULE Pages ---------------------------------
(***************************************************************************)
(* The lists that a client reads page by page while their rows change.     *)
(*                                                                         *)
(* Most are read with a cursor (PaginationService): the time of the last   *)
(* row of the page before, in milliseconds, and its id.  The database      *)
(* keeps the times of rows in microseconds and sorts by them.  The search  *)
(* has cursors of its own, and notifications and the tweets of a category  *)
(* are read by the number of the page.                                     *)
(*                                                                         *)
(* A list is what its handler does about order, cursor and end; handlers   *)
(* that do the same are the same list.  The state is one list and one      *)
(* client, who asks for the next page until an answer says that there is   *)
(* no more, or has no cursor.                                              *)
(*                                                                         *)
(* Abstractions.  What a list filters by and shows of a row is left out: a *)
(* row comes, goes or gets another key when it is written, hidden by a     *)
(* later row of its conversation, blocked, muted, followed or scored,      *)
(* wherever in the list that puts it.                                      *)
(***************************************************************************)
EXTENDS Integers, FiniteSets

CONSTANTS
    Ids,        \* ids of rows, in their order
    MaxKey,     \* bound of the keys: times in microseconds, or scores; 0 for no row
    Millis,     \* the milliseconds of a time
    Limit,      \* rows on a page
    MaxChanges  \* bound of what happens to the rows while the client reads

Keys == 0..MaxKey

ASSUME IdsAreOrdered == Ids \subseteq Nat \ {0} /\ IsFiniteSet(Ids)
ASSUME MillisOfTime == /\ MaxKey \in Nat /\ Millis \in [Keys -> Nat]
                       /\ \A j, k \in Keys : j <= k => Millis[j] <= Millis[k]
ASSUME Bounded == Limit \in Nat \ {0} /\ MaxChanges \in Nat

VARIABLES
    list,       \* the list that is read
    rows,       \* the key of each row
    subject,    \* the tweet, the user or the chat whose list it is is there
    cursor,     \* what the client sends next
    page,       \* or the number of the page, from 0
    walk,       \* whether the client goes on
    changes,
    shown,      \* history: rows that were shown
    twice,      \* history: and those that were shown again
    steady,     \* history: rows that have been in the list all the time, at one key
    cuts,       \* history: the rows at which a page ended
    shifts,     \* history: where in the list rows came and went
    left        \* history: rows beyond an answer that ended the list too early

history == <<shown, twice, steady, cuts, shifts, left>>
vars == <<list, rows, subject, cursor, page, walk, changes, history>>

-----------------------------------------------------------------------------
(* The handlers *)

\* order: what breaks a tie of keys; exact: whether cursors have the whole key;
\* more: whether one row more than the page is asked for, to know if there is
\* more; next: when there is a cursor; needs: whether the subject must be there;
\* joined: whether a row takes several places among those asked for; caught:
\* whether an error is answered as an empty page, the last.
Handlers == [order: {"desc", "asc", "none"}, exact: BOOLEAN, more: BOOLEAN,
             next: {"always", "more", "last", "page"}, needs: BOOLEAN,
             joined: BOOLEAN, caught: BOOLEAN]

Sorted(order) == [order |-> order, exact |-> FALSE, more |-> FALSE, next |-> "always",
                  needs |-> FALSE, joined |-> FALSE, caught |-> FALSE]
Of(handler) == [handler EXCEPT !.needs = TRUE]
OneMore(handler) == [handler EXCEPT !.more = TRUE, !.next = "more"]

GetTweetLikes == Of(Sorted("desc"))
GetTweetReposts == Of(Sorted("desc"))
GetTweetQuotes == Of(Sorted("desc"))
GetUserBookmarks == Sorted("desc")

\* The replies have no order among those of one time, and a cursor only when
\* there are no more.
GetTweetReplies == [OneMore(Of(Sorted("none"))) EXCEPT !.next = "last"]

GetFollowingTweets == Sorted("desc")
GetPostsByUserId == Sorted("desc")
GetRepliesByUserId == Sorted("desc")
GetMediaByUserId == Sorted("desc")
GetLikedPosts == Sorted("desc")
GetPosts == Of(GetPostsByUserId)
GetReplies == Of(GetRepliesByUserId)
GetMedia == Of(GetMediaByUserId)

GetFollowersList == Sorted("desc")
GetFollowingList == Sorted("desc")
GetMutedUsersList == Sorted("desc")
GetBlockedUsersList == Sorted("desc")
GetFollowers == Of(GetFollowersList)
GetFollowing == Of(GetFollowingList)
GetMutedList == GetMutedUsersList
GetBlockedList == GetBlockedUsersList

\* A message has a place for each time of its reactions, by which it sorts too.
FindMessagesByChatId == [Sorted("none") EXCEPT !.more = TRUE, !.joined = TRUE]
GetMessages == OneMore(Of(FindMessagesByChatId))

\* The key of a chat is the time of its last message.
GetChats == OneMore(Sorted("desc"))

\* Elasticsearch goes on after the values by which it has sorted the last hit.
BuildBaseSearchBody == [Sorted("desc") EXCEPT !.exact = TRUE, !.more = TRUE]
ExecuteTweetsSearch == OneMore(BuildBaseSearchBody)
SearchPosts == [ExecuteTweetsSearch EXCEPT !.caught = TRUE]
SearchLatestPosts == [ExecuteTweetsSearch EXCEPT !.caught = TRUE]

ExecuteUsersSearch == [Sorted("asc") EXCEPT !.exact = TRUE, !.more = TRUE]
SearchUsers == OneMore(ExecuteUsersSearch)

GetUserNotifications == [Sorted("desc") EXCEPT !.next = "page"]
GetMentionsAndReplies == [Sorted("desc") EXCEPT !.next = "page"]
GetCategoryTrending == [Sorted("desc") EXCEPT !.next = "page"]

Lists == {GetTweetLikes, GetTweetReposts, GetTweetQuotes, GetTweetReplies, GetUserBookmarks,
          GetLikedPosts, GetPosts, GetReplies, GetMedia, GetFollowingTweets,
          GetFollowers, GetFollowing, GetMutedList, GetBlockedList, GetMessages, GetChats,
          SearchPosts, SearchLatestPosts, SearchUsers,
          GetUserNotifications, GetMentionsAndReplies, GetCategoryTrending}

ByPage == list.next = "page"

-----------------------------------------------------------------------------
(* A list *)

Rows == [key: Keys, id: Ids]
Present == {i \in Ids : rows[i] # 0}
Row(i) == [key |-> rows[i], id |-> i]

\* ORDER BY
Before(a, b) ==
    \/ a.key > b.key
    \/ a.key = b.key /\ list.order = "desc" /\ a.id > b.id
    \/ a.key = b.key /\ list.order = "asc" /\ a.id < b.id

\* Dates of JavaScript have milliseconds.
Sent(key) == IF list.exact THEN key ELSE Millis[key]

GenerateNextCursor(row) == [at |-> Sent(row.key), id |-> row.id]
NoCursor == [at |-> 0, id |-> 0]

\* Mutant of Beyond: the row of the cursor too.
BeyondOrAt(row, c) ==
    \/ Sent(row.key) < c.at
    \/ Sent(row.key) = c.at /\ IF list.order = "asc" THEN row.id >= c.id ELSE row.id <= c.id

\* Mutant of Beyond: not the rows of the same millisecond.
BeyondTime(row, c) == Sent(row.key) < c.at

\* date_trunc('milliseconds', key) < c.at OR ... = c.at AND id < c.id
Beyond(row, c) ==
    \/ Sent(row.key) < c.at
    \/ Sent(row.key) = c.at /\ IF list.order = "asc" THEN row.id > c.id ELSE row.id < c.id

ApplyCursorPagination == {i \in Present : cursor = NoCursor \/ Beyond(Row(i), cursor)}

\* P is first in S when nothing of S outside it goes before one of P.
First(P, S) == P \subseteq S /\ \A i \in P : \A j \in S \ P : ~Before(Row(j), Row(i))
Page(P, S) ==
    First(P, S) /\ (Cardinality(P) = Limit \/ (P = S /\ Cardinality(S) <= Limit))
Last(l, P) == l \in P /\ \A i \in P : ~Before(Row(l), Row(i))

\* How many rows go before a row.
Place(i) == Cardinality({j \in Present : Before(Row(j), Row(i))})

-----------------------------------------------------------------------------
\* TypeOK: every variable has a value of its kind; a cursor never says more
\* of a time than its milliseconds (generateNextCursor).
TypeOK ==
    /\ list \in Handlers /\ rows \in [Ids -> Keys] /\ subject \in BOOLEAN
    /\ cursor \in [at: IF list.exact THEN Keys ELSE {0} \cup {Millis[k] : k \in Keys},
                   id: {0} \cup Ids]
    /\ page \in Nat /\ walk \in {"on", "end", "failed"} /\ changes \in 0..MaxChanges
    /\ shown \subseteq Ids /\ twice \subseteq shown /\ steady \subseteq Present
    /\ cuts \subseteq Rows /\ shifts \subseteq (Rows \X {"in", "out"}) /\ left \subseteq Ids

Init ==
    /\ list \in Lists /\ rows \in [Ids -> Keys] /\ subject = TRUE
    /\ cursor = NoCursor /\ page = 0
    /\ walk = "on" /\ changes = 0
    /\ shown = {} /\ twice = {} /\ steady = Present /\ cuts = {} /\ shifts = {}
    /\ left = {}

Moved(new) == {i \in Ids : new[i] # rows[i]}

Change(new) ==
    /\ changes < MaxChanges
    /\ changes' = changes + 1
    /\ rows' = new
    /\ steady' = steady \ Moved(new)
    /\ shifts' = IF ByPage
         THEN shifts \cup {<<Row(i), "out">> : i \in Moved(new) \cap Present}
                     \cup {<<[key |-> new[i], id |-> i], "in">> : i \in {j \in Moved(new) : new[j] # 0}}
         ELSE shifts
    /\ UNCHANGED <<list, cursor, page, walk, shown, twice, cuts, left>>

\* A row comes, goes, or gets another key.
Write(i, key) ==
    /\ subject /\ rows[i] # key
    /\ Change([rows EXCEPT ![i] = key])
    /\ UNCHANGED subject

\* The subject of the list is deleted, and the rows with it.
Vanish ==
    /\ subject /\ subject' = FALSE
    /\ Change([i \in Ids |-> 0])

Show(P) ==
    /\ shown' = shown \cup P
    /\ twice' = twice \cup (shown \cap P)
    /\ UNCHANGED <<list, rows, subject, changes, steady, shifts>>

\* Without its subject a list is not found.
Refused ==
    /\ walk = "on" /\ list.needs /\ ~subject
    /\ walk' = "failed"
    /\ UNCHANGED <<list, rows, subject, cursor, page, changes, history>>

\* What an answer with page P of S says of the next one.
HasMore(P, S) == IF list.more THEN P # S ELSE Cardinality(P) = Limit
HasNext(P, S) ==
    /\ P # {}
    /\ list.next = "more" => HasMore(P, S)
    /\ list.next = "last" => ~HasMore(P, S)

\* A page after a cursor.
Fetch ==
    /\ walk = "on" /\ ~ByPage /\ (list.needs => subject)
    /\ LET S == ApplyCursorPagination IN
       \E P \in SUBSET S :
        /\ Page(P, S) /\ Show(P)
        /\ \/ /\ HasMore(P, S) /\ HasNext(P, S)
              /\ \E l \in P : /\ Last(l, P)
                              /\ cursor' = GenerateNextCursor(Row(l))
                              /\ cuts' = cuts \cup {Row(l)}
              /\ UNCHANGED walk
           \/ /\ ~(HasMore(P, S) /\ HasNext(P, S))
              /\ walk' = "end" /\ UNCHANGED <<cursor, cuts>>
    /\ UNCHANGED <<page, left>>

\* Some messages have the places of others: those that come are Limit or fewer,
\* and so the last, though there are more.
FetchJoined ==
    /\ walk = "on" /\ list.joined /\ (list.needs => subject)
    /\ LET S == ApplyCursorPagination IN
       \E P \in SUBSET S \ {{}, S} :
        /\ First(P, S) /\ Cardinality(P) <= Limit /\ Show(P)
        /\ left' = S \ P
    /\ walk' = "end"
    /\ UNCHANGED <<cursor, page, cuts>>

\* createEmptyResponse, after an error in any step of a search.
CaughtError ==
    /\ walk = "on" /\ list.caught
    /\ Show({}) /\ left' = ApplyCursorPagination
    /\ walk' = "end"
    /\ UNCHANGED <<cursor, page, cuts>>

\* A page by its number: those before it have Limit rows each, whatever was
\* in them when they were shown.
FetchPage ==
    /\ walk = "on" /\ ByPage
    /\ Show({i \in Present : page * Limit <= Place(i) /\ Place(i) < (page + 1) * Limit})
    /\ \/ /\ (page + 1) * Limit < Cardinality(Present)
          /\ page' = page + 1 /\ UNCHANGED walk
       \/ /\ (page + 1) * Limit >= Cardinality(Present)
          /\ walk' = "end" /\ UNCHANGED page
    /\ UNCHANGED <<cursor, cuts, left>>

Next ==
    \/ \E i \in Ids, key \in Keys : Write(i, key)
    \/ Vanish
    \/ Refused
    \/ Fetch
    \/ FetchJoined
    \/ FetchPage
    \/ CaughtError

\* The client goes on; nothing else has to happen.
Spec == Init /\ [][Next]_vars /\ WF_vars(Refused \/ Fetch \/ FetchJoined \/ FetchPage \/ CaughtError)

-----------------------------------------------------------------------------
(* Properties. *)

\* A row may be lost at a cut when it does not go before it, and be shown again
\* when it does or is the cut: if it is of the same millisecond, its id decides.
SameMillis(i, c) == Millis[rows[i]] = Millis[c.key]
LostAt(i, c) == ~Before(Row(i), c) /\ SameMillis(i, c) /\ i > c.id
AgainAt(i, c) == ~Before(c, Row(i)) /\ SameMillis(i, c) /\ i < c.id

WentAbove(i) == \E r \in Rows : <<r, "out">> \in shifts /\ Before(r, Row(i))
CameAbove(i) == \E r \in Rows : <<r, "in">> \in shifts /\ Before(r, Row(i))

\* NoneMissed: a client who gets to the end has seen every row that was in the
\* list all the time, whatever came, went or moved, unless a page was cut within
\* a millisecond of it, or a row above it went from a list that is read by the
\* number of the page, or the last answer left it out: messages whose places
\* were taken by reactions to others, or what a search had yet to show when one
\* of its pages failed.  Before that answer they miss nothing either.  The users
\* found, whose cursors are exact, are all seen.  The replies are RepliesReached.
NoneMissed ==
    walk = "end" /\ list.next # "last" => \A i \in steady \ shown :
        \/ i \in left /\ (list.joined \/ list.caught)
        \/ IF ByPage THEN WentAbove(i) ELSE ~list.exact /\ \E c \in cuts : LostAt(i, c)

\* NoneTwice: no row that was in the list all the time is shown twice, but for
\* a page that was cut within a millisecond of it, or a row that came above it
\* in a list that is read by the number of the page.
NoneTwice ==
    \A i \in steady \cap twice :
        IF ByPage THEN CameAbove(i) ELSE ~list.exact /\ \E c \in cuts : AgainAt(i, c)

\* WalkEnds: who goes on gets to the end; no cursor leads back.
WalkEnds == <>(walk # "on")

\* RepliesReached (tweets.swagger.ts:1179-1187): while there are more replies
\* the answer has the cursor of the next page, so that who goes on sees them all.
RepliesReached == list = GetTweetReplies /\ walk = "end" /\ changes = 0 => steady \subseteq shown
=============================================================================
