----------------------------- MODULE SocialGraph -----------------------------
(***************************************************************************)
(* Who follows and who blocks whom (UserService, UserRepository), until an *)
(* account ends.                                                           *)
(*                                                                         *)
(* A request checks and then writes: between the two others may write.  A  *)
(* block is a transaction of three statements at READ COMMITTED, so that   *)
(* each of them sees what is committed when it runs, and a row that it has *)
(* deleted is waited for.                                                  *)
(*                                                                         *)
(* Abstractions.  The queries of one validation are one read.  Mutes, which*)
(* nothing here reads, and the notifications are left out.  The numbers of *)
(* followers and followed that a profile or a document shows are columns   *)
(* of the user's row, which nothing in the repository keeps in step with   *)
(* these rows: they are in Profiles, and so is the row that an edit brings *)
(* back.                                                                   *)
(***************************************************************************)

CONSTANTS
    Users,
    Follows,    \* pairs: who may follow whom
    Blocks,     \* pairs: who may block whom
    Leavers,    \* users who may delete their account
    Requests    \* requests that may be under way at the same time

ASSUME NobodyAlone == \A p \in Follows \cup Blocks : p \in Users \X Users /\ p[1] # p[2]
ASSUME LeaversAreUsers == Leavers \subseteq Users

VARIABLES
    state,      \* of a user's row: there, with deleted_at set, deleted
    follows,    \* rows of user_follows: follower and followed
    blocks,     \* rows of user_blocks: blocker and blocked
    req,        \* what each request has in hand
    crossed     \* history: pairs whose follow and block overlapped

db == <<state, follows, blocks>>
vars == <<db, req, crossed>>

-----------------------------------------------------------------------------
Pairs == Users \X Users
Reverse(p) == <<p[2], p[1]>>
Both(p) == {p[1], p[2]}

Idle == [at |-> "idle"]
InHand == [op: {"follow", "block"}, pair: Pairs, took: SUBSET Pairs,
           at: {"insert", "first", "second", "commit"}]
Begin(r, op, p, at) ==
    /\ req[r] = Idle
    /\ req' = [req EXCEPT ![r] = [op |-> op, pair |-> p, took |-> {}, at |-> at]]
At(r, at) == req[r].at = at
Ends(r) == req' = [req EXCEPT ![r] = Idle]

\* Rows deleted by a transaction that is not over.
Locked(p) == \E r \in Requests : req[r] # Idle /\ p \in req[r].took

\* Types; in particular the foreign keys hold.
TypeOK ==
    /\ state \in [Users -> {"live", "left", "gone"}]
    /\ follows \subseteq Pairs /\ blocks \subseteq Pairs
    /\ \A p \in follows \cup blocks : p[1] # p[2] /\ \A u \in Both(p) : state[u] # "gone"
    /\ req \in [Requests -> InHand \cup {Idle}]
    /\ crossed \subseteq Pairs

Init ==
    /\ state = [u \in Users |-> "live"]
    /\ follows = {} /\ blocks = {}
    /\ req = [r \in Requests |-> Idle]
    /\ crossed = {}

-----------------------------------------------------------------------------
(* Follows. *)

\* Mutant of Follow: only one direction is looked for.
FollowUnlessBlocking(r, p) ==
    /\ \A u \in Both(p) : state[u] = "live"
    /\ p \notin follows
    /\ p \notin blocks
    /\ Begin(r, "follow", p, "insert")
    /\ UNCHANGED <<db, crossed>>

\* followUser: what is asked before the row is inserted.
Follow(r, p) ==
    /\ \A u \in Both(p) : state[u] = "live"
    /\ p \notin follows
    /\ {p, Reverse(p)} \cap blocks = {}
    /\ Begin(r, "follow", p, "insert")
    /\ UNCHANGED <<db, crossed>>

\* A block between the two has deleted this row, or found none.
Overtaken(p) == \E r \in Requests : req[r] # Idle /\ req[r].op = "block" /\
    \/ req[r].pair = p /\ req[r].at \in {"second", "commit"}
    \/ req[r].pair = Reverse(p) /\ req[r].at = "commit"

\* The primary key and the foreign keys refuse a row.
InsertFollow(r) ==
    LET p == req[r].pair IN
    /\ At(r, "insert") /\ ~Locked(p) /\ Ends(r)
    /\ \/ /\ p \in follows \/ \E u \in Both(p) : state[u] = "gone"
          /\ UNCHANGED <<follows, crossed>>
       \/ /\ p \notin follows /\ \A u \in Both(p) : state[u] # "gone"
          /\ follows' = follows \cup {p}
          /\ crossed' = IF Overtaken(p) THEN crossed \cup {p} ELSE crossed
    /\ UNCHANGED <<state, blocks>>

DeleteFollow(p) ==
    /\ p \in follows /\ ~Locked(p)
    /\ follows' = follows \ {p}
    /\ UNCHANGED <<state, blocks, req, crossed>>

\* By the follower, and by the followed.
UnfollowUser(u, w) == DeleteFollow(<<u, w>>)
RemoveFollower(u, w) == DeleteFollow(<<w, u>>)

-----------------------------------------------------------------------------
(* Blocks. *)

Block(r, p) ==
    /\ state[p[2]] = "live" /\ p \notin blocks
    /\ Begin(r, "block", p, "first")
    /\ UNCHANGED <<db, crossed>>

\* insertBlockRelationship: two deletions of follows ...
DeleteFirst(r) ==
    LET p == req[r].pair IN
    /\ At(r, "first") /\ ~Locked(p)
    /\ req' = [req EXCEPT ![r] = [req[r] EXCEPT !.at = "second", !.took = {p} \cap follows]]
    /\ UNCHANGED <<db, crossed>>

DeleteSecond(r) ==
    LET p == Reverse(req[r].pair) IN
    /\ At(r, "second") /\ ~Locked(p)
    /\ req' = [req EXCEPT ![r] = [req[r] EXCEPT
                    !.at = "commit", !.took = req[r].took \cup ({p} \cap follows)]]
    /\ UNCHANGED <<db, crossed>>

\* Follows between these two whose check is done.
Checked(p) == {q \in {p, Reverse(p)} : \E r \in Requests : At(r, "insert") /\ req[r].pair = q}

\* ... and the insertion, which a key may refuse: all is rolled back.
Commit(r) ==
    LET p == req[r].pair IN
    /\ At(r, "commit") /\ Ends(r)
    /\ \/ /\ p \in blocks \/ \E u \in Both(p) : state[u] = "gone"
          /\ UNCHANGED <<follows, blocks, crossed>>
       \/ /\ p \notin blocks /\ \A u \in Both(p) : state[u] # "gone"
          /\ follows' = follows \ req[r].took
          /\ blocks' = blocks \cup {p}
          /\ crossed' = crossed \cup Checked(p)
    /\ UNCHANGED state

\* unblockUser
Unblock(p) ==
    /\ p \in blocks
    /\ blocks' = blocks \ {p}
    /\ UNCHANGED <<state, follows, req, crossed>>

\* A request fails, or the server stops under it: a transaction is rolled back.
\* (Postgres ends one of two blocks that wait for each other.)
Stop(r) ==
    /\ req[r] # Idle /\ Ends(r)
    /\ UNCHANGED <<db, crossed>>

-----------------------------------------------------------------------------
(* The end of an account. *)

\* deleteUser sets deleted_at.
Leave(u) ==
    /\ state[u] = "live"
    /\ state' = [state EXCEPT ![u] = "left"]
    /\ UNCHANGED <<follows, blocks, req, crossed>>

Of(u, rows) == {p \in rows : u \in Both(p)}

\* handleDeleteAuthor deletes the row, once its follows are not locked; they and
\* the blocks go with it.
DeleteAuthor(u) ==
    /\ state[u] = "left"
    /\ \A p \in Of(u, follows) : ~Locked(p)
    /\ state' = [state EXCEPT ![u] = "gone"]
    /\ follows' = follows \ Of(u, follows)
    /\ blocks' = blocks \ Of(u, blocks)
    /\ UNCHANGED <<req, crossed>>

-----------------------------------------------------------------------------
Next ==
    \/ \E r \in Requests :
        \/ \E p \in Follows : Follow(r, p)
        \/ \E p \in Blocks : Block(r, p)
        \/ InsertFollow(r) \/ DeleteFirst(r) \/ DeleteSecond(r) \/ Commit(r) \/ Stop(r)
    \/ \E u, w \in Users : UnfollowUser(u, w) \/ RemoveFollower(u, w)
    \/ \E p \in Blocks : Unblock(p)
    \/ \E u \in Leavers : Leave(u) \/ DeleteAuthor(u)

Spec == Init /\ [][Next]_vars

-----------------------------------------------------------------------------
(* What a viewer is shown of others: one query each, on the rows as they are. *)

\* buildUserListQuery, and the context of the viewer in a profile.
ListItem(v, u) ==
    [user |-> u, is_blocked |-> <<v, u>> \in blocks,
     is_following |-> <<v, u>> \in follows, is_follower |-> <<u, v>> \in follows]

\* getUsersByIds, getUsersByUsernames: of those who are asked for, who is there.
Lookup(v, ids) == {ListItem(v, u) : u \in {w \in ids : state[w] = "live"}}

\* attachUserSearchQuery: of those who match, who is there and not blocked.
SearchUsers(v, ids) == {s \in Lookup(v, ids) : ~s.is_blocked}

\* mutual_followers_count, top_mutual_followers: a join of follows, whoever has left.
MutualFollowers(v, u) == {w \in Users : {<<v, w>>, <<w, u>>} \subseteq follows}
GetProfile(v, u) == [shown |-> Lookup(v, {u}), mutual |-> MutualFollowers(v, u)]

-----------------------------------------------------------------------------
(* Properties. *)

\* followUser and blockUser: two users of whom one blocks the other do not
\* follow each other, unless a follow that had been checked before the block
\* was committed is inserted after the block has deleted the follows.  So a list
\* or a profile shows nobody as both followed and blocked, and no mutual follower
\* whom a block keeps from either of the two (buildUserListQuery,
\* addViewerContextToProfileQuery), and the search hides nobody whom one follows
\* (attachUserSearchQuery).
BlockedDoNotFollow ==
    /\ \A b \in blocks : \A p \in {b, Reverse(b)} :
        /\ p \in follows => p \in crossed
        /\ \A s \in Lookup(p[1], {p[2]}) : s.is_following => p \in crossed
        /\ \A s \in Lookup(p[2], {p[1]}) : s.is_follower => p \in crossed
        /\ \A u \in Users :
            p[2] \in GetProfile(p[1], u).mutual \/ p[1] \in GetProfile(u, p[2]).mutual => p \in crossed
    /\ \A p \in follows \ crossed : state[p[2]] = "live" =>
        \E s \in SearchUsers(p[1], {p[2]}) : s.is_following
=============================================================================
