-------------------------- MODULE SocialGraphProofs --------------------------
(***************************************************************************)
(* SocialGraph, Profiles and SignIns proved for any number of users, rows, *)
(* requests, jobs and attempts.                                            *)
(*                                                                         *)
(* BlockedDoNotFollow rests on what a block knows at each of its three     *)
(* statements: of the follows that it has looked for it holds the rows it  *)
(* has found, and a row inserted behind it is in crossed.                  *)
(*                                                                         *)
(* ProfileSound rests on what a request knows of the row it is about to    *)
(* write: it agrees with it wherever no other one has come between, and a  *)
(* picture that it gives or is about to delete is nobody else's.           *)
(*                                                                         *)
(* SignInsSound rests on what a request has in hand: an address that the   *)
(* provider has reported and an account that has had it.  That nobody is   *)
(* on two accounts rests on the record of those who may come to be: what   *)
(* would put them on a second one was under way while they were on one.    *)
(***************************************************************************)
EXTENDS Members, Integers, TLAPS

\* Which positions the two kinds of requests go through, and whose rows they
\* hold.
ReqOK(r) == req[r] # Idle =>
    /\ req[r].op = "follow" => req[r].at = "insert" /\ req[r].took = {}
    /\ req[r].op = "block" => req[r].at \in {"first", "second", "commit"}
    /\ req[r].pair[1] # req[r].pair[2]
ReqsOK == \A r \in Requests : ReqOK(r)

Typed == TypeOK /\ ReqsOK

\* A follow that is about to be inserted although there is a block is known.
InsertsKnown == \A r \in Requests : At(r, "insert") =>
    ({req[r].pair, Reverse(req[r].pair)} \cap blocks # {} => req[r].pair \in crossed)
\* What is left of the follows when a block has run its deletions.
SecondKnows == \A r \in Requests : At(r, "second") =>
    {req[r].pair} \cap follows \subseteq req[r].took \cup crossed
CommitKnows == \A r \in Requests : At(r, "commit") =>
    {req[r].pair, Reverse(req[r].pair)} \cap follows \subseteq req[r].took \cup crossed
\* The rows of the two of a block.
Apart == \A p \in blocks : {p, Reverse(p)} \cap follows \subseteq crossed
BlockInv == InsertsKnown /\ SecondKnows /\ CommitKnows /\ Apart

-----------------------------------------------------------------------------
(* Pairs *)

LEMMA PairsAre == ASSUME NEW p \in Pairs PROVE
    /\ p = <<p[1], p[2]>> /\ p[1] \in Users /\ p[2] \in Users
    /\ Reverse(p) \in Pairs /\ Reverse(Reverse(p)) = p
    /\ Reverse(p)[1] = p[2] /\ Reverse(p)[2] = p[1]
    /\ Both(p) \subseteq Users
BY DEF Pairs, Reverse, Both

LEMMA Allowed == ASSUME NEW p \in Follows \cup Blocks PROVE p \in Pairs /\ p[1] # p[2]
BY NobodyAlone DEF Pairs

-----------------------------------------------------------------------------
(* Types and positions, action by action *)

LEMMA TypedInit == Init => Typed
BY DEF Init, Typed, TypeOK, ReqsOK, ReqOK, Idle

\* What of the types is about the rows and the requests.
RowsOK ==
    /\ state \in [Users -> {"live", "left", "gone"}]
    /\ follows \subseteq Pairs /\ blocks \subseteq Pairs
    /\ \A p \in follows \cup blocks : p[1] # p[2] /\ \A u \in Both(p) : state[u] # "gone"
ReqTyped == req \in [Requests -> InHand \cup {Idle}] /\ ReqsOK

LEMMA TypedParts == Typed <=> RowsOK /\ ReqTyped /\ crossed \subseteq Pairs
BY DEF Typed, TypeOK, RowsOK, ReqTyped

LEMMA TypedPartsNext == Typed' <=> RowsOK' /\ ReqTyped' /\ crossed' \subseteq Pairs
BY DEF Typed, TypeOK, RowsOK, ReqTyped

LEMMA RequestIs == ASSUME Typed, NEW r \in Requests, req[r] # Idle PROVE
    /\ req[r] \in InHand /\ ReqOK(r)
    /\ req[r].pair \in Pairs /\ req[r].took \subseteq Pairs /\ req[r].at # "idle"
BY DEF Typed, TypeOK, ReqsOK, InHand

LEMMA AtIs == ASSUME NEW r \in Requests, NEW at, at # "idle", At(r, at) PROVE req[r] # Idle
BY DEF At, Idle

LEMMA BeginTyped ==
  ASSUME Typed, NEW r \in Requests, NEW p \in Pairs, NEW op, NEW at, Begin(r, op, p, at),
         \/ op = "follow" /\ at = "insert"
         \/ op = "block" /\ at = "first",
         p[1] # p[2]
  PROVE  ReqTyped'
<1>. DEFINE new == [op |-> op, pair |-> p, took |-> {}, at |-> at]
<1>1. new \in InHand
  BY DEF InHand
<1>2. req' \in [Requests -> InHand \cup {Idle}]
  BY <1>1 DEF Typed, TypeOK, Begin
<1>3. ReqOK(r)'
  BY DEF Begin, ReqOK, Typed, TypeOK
<1>4. ASSUME NEW q \in Requests, q # r PROVE ReqOK(q)'
  BY <1>4 DEF Begin, ReqOK, Typed, TypeOK, ReqsOK
<1>. QED  BY <1>2, <1>3, <1>4 DEF ReqTyped, ReqsOK

LEMMA EndsTyped == ASSUME Typed, NEW r \in Requests, Ends(r) PROVE ReqTyped'
BY DEF Typed, TypeOK, ReqsOK, ReqOK, ReqTyped, Ends

LEMMA FollowTyped == ASSUME Typed, NEW r \in Requests, NEW p \in Follows, Follow(r, p) PROVE Typed'
<1>1. ReqTyped'
  BY BeginTyped, Allowed DEF Follow
<1>. QED  BY <1>1, TypedParts, TypedPartsNext DEF Follow, db, RowsOK

LEMMA BlockTyped == ASSUME Typed, NEW r \in Requests, NEW p \in Blocks, Block(r, p) PROVE Typed'
<1>1. ReqTyped'
  BY BeginTyped, Allowed DEF Block
<1>. QED  BY <1>1, TypedParts, TypedPartsNext DEF Block, db, RowsOK

LEMMA InsertFollowTyped == ASSUME Typed, NEW r \in Requests, InsertFollow(r) PROVE Typed'
<1>1. req[r] # Idle /\ req[r].pair \in Pairs /\ req[r].pair[1] # req[r].pair[2]
  BY AtIs, RequestIs DEF InsertFollow, ReqOK, At
<1>2. ReqTyped'
  BY EndsTyped DEF InsertFollow
<1>3. RowsOK' /\ crossed' \subseteq Pairs
  BY <1>1 DEF Typed, TypeOK, RowsOK, InsertFollow, Both
<1>. QED  BY <1>2, <1>3, TypedPartsNext

LEMMA DeleteFollowTyped == ASSUME Typed, NEW p, DeleteFollow(p) PROVE Typed'
BY DEF Typed, TypeOK, DeleteFollow, ReqsOK, ReqOK

LEMMA DeleteFirstTyped == ASSUME Typed, NEW r \in Requests, DeleteFirst(r) PROVE Typed'
<1>1. req[r] # Idle /\ req[r] \in InHand /\ req[r].op = "block" /\ req[r].pair \in Pairs
  BY AtIs, RequestIs DEF DeleteFirst, ReqOK, InHand, At
<1>2. ReqTyped'
  BY <1>1 DEF Typed, TypeOK, ReqTyped, ReqsOK, ReqOK, DeleteFirst, InHand
<1>. QED  BY <1>2, TypedParts, TypedPartsNext DEF DeleteFirst, db, RowsOK

LEMMA DeleteSecondTyped == ASSUME Typed, NEW r \in Requests, DeleteSecond(r) PROVE Typed'
<1>1. req[r] # Idle /\ req[r] \in InHand /\ req[r].op = "block" /\ Reverse(req[r].pair) \in Pairs
  BY AtIs, RequestIs, PairsAre DEF DeleteSecond, ReqOK, InHand, At
<1>2. ReqTyped'
  BY <1>1 DEF Typed, TypeOK, ReqTyped, ReqsOK, ReqOK, DeleteSecond, InHand
<1>. QED  BY <1>2, TypedParts, TypedPartsNext DEF DeleteSecond, db, RowsOK

LEMMA CommitTyped == ASSUME Typed, NEW r \in Requests, Commit(r) PROVE Typed'
<1>1. req[r] # Idle /\ req[r].pair \in Pairs /\ req[r].pair[1] # req[r].pair[2]
      /\ Reverse(req[r].pair) \in Pairs
  BY AtIs, RequestIs, PairsAre DEF Commit, ReqOK, InHand, At
<1>2. ReqTyped'
  BY EndsTyped DEF Commit
<1>3. RowsOK' /\ crossed' \subseteq Pairs
  BY <1>1 DEF Typed, TypeOK, RowsOK, Commit, Both, Checked
<1>. QED  BY <1>2, <1>3, TypedPartsNext

LEMMA UnblockTyped == ASSUME Typed, NEW p \in Blocks, Unblock(p) PROVE Typed'
BY DEF Typed, TypeOK, Unblock, ReqsOK, ReqOK

LEMMA StopTyped == ASSUME Typed, NEW r \in Requests, Stop(r) PROVE Typed'
<1>1. ReqTyped'
  BY EndsTyped DEF Stop
<1>. QED  BY <1>1, TypedParts, TypedPartsNext DEF Stop, db, RowsOK

LEMMA LeaveTyped == ASSUME Typed, NEW u \in Leavers, Leave(u) PROVE Typed'
<1>1. \A v \in Users : state[v] # "gone" => state'[v] # "gone"
  BY DEF Typed, TypeOK, Leave
<1>2. state' \in [Users -> {"live", "left", "gone"}]
  BY DEF Typed, TypeOK, Leave
<1>3. RowsOK'
  BY <1>1, <1>2, PairsAre DEF Typed, TypeOK, RowsOK, Leave
<1>. QED  BY <1>3, TypedParts, TypedPartsNext DEF Leave, ReqTyped, ReqsOK, ReqOK

LEMMA DeleteAuthorTyped == ASSUME Typed, NEW u \in Leavers, DeleteAuthor(u) PROVE Typed'
<1>1. ASSUME NEW v \in Users, v # u PROVE state'[v] = state[v]
  BY <1>1 DEF Typed, TypeOK, DeleteAuthor
<1>2. state' \in [Users -> {"live", "left", "gone"}]
  BY DEF Typed, TypeOK, DeleteAuthor
<1>3. \A p \in follows' \cup blocks' : p \in follows \cup blocks /\ u \notin Both(p)
  BY DEF DeleteAuthor, Of
<1>4. RowsOK'
  BY <1>1, <1>2, <1>3, PairsAre DEF Typed, TypeOK, RowsOK
<1>. QED  BY <1>4, TypedParts, TypedPartsNext DEF DeleteAuthor, ReqTyped, ReqsOK, ReqOK

LEMMA TypedNext == Typed /\ [Next]_vars => Typed'
<1>. SUFFICES ASSUME Typed, [Next]_vars PROVE Typed'
  OBVIOUS
<1>1. CASE UNCHANGED vars
  BY <1>1 DEF Typed, TypeOK, ReqsOK, ReqOK, vars, db
<1>2. CASE Next
  BY <1>2, FollowTyped, BlockTyped, InsertFollowTyped, DeleteFollowTyped, DeleteFirstTyped,
     DeleteSecondTyped, CommitTyped, StopTyped, UnblockTyped, LeaveTyped, DeleteAuthorTyped
  DEF Next, UnfollowUser, RemoveFollower
<1>. QED  BY <1>1, <1>2

\* SocialGraph's types; among them that rows and blocks name users whose row
\* is there, as the foreign keys of user_follows and user_blocks have it.
THEOREM TypeCorrect == Spec => []TypeOK
<1>1. Typed => TypeOK
  BY DEF Typed
<1>. QED  BY <1>1, TypedInit, TypedNext, PTL DEF Spec

-----------------------------------------------------------------------------
(* Blocks and follows *)

LEMMA BlockInit == Init => BlockInv
BY DEF Init, BlockInv, InsertsKnown, SecondKnows, CommitKnows, Apart, At, Idle


\* A step that adds no row, forgets no overlap and does not move requests.
LEMMA FewerRows ==
  ASSUME Typed, BlockInv, follows' \subseteq follows, blocks' \subseteq blocks,
         crossed \subseteq crossed',
         \A s \in Requests : req'[s].at \in {"insert", "second", "commit"} => req'[s] = req[s]
  PROVE  BlockInv'
BY DEF BlockInv, InsertsKnown, SecondKnows, CommitKnows, Apart, At

LEMMA EndsElsewhere ==
  ASSUME Typed, NEW r \in Requests, Ends(r)
  PROVE  \A s \in Requests : req'[s].at \in {"insert", "second", "commit"} => req'[s] = req[s]
BY DEF Ends, Typed, TypeOK, Idle

LEMMA FollowBlock ==
  ASSUME Typed, BlockInv, NEW r \in Requests, NEW p \in Follows, Follow(r, p) PROVE BlockInv'
<1>1. req'[r] = [op |-> "follow", pair |-> p, took |-> {}, at |-> "insert"]
      /\ \A s \in Requests : s # r => req'[s] = req[s]
  BY DEF Follow, Begin, Typed, TypeOK
<1>2. InsertsKnown'
  BY <1>1 DEF Follow, db, BlockInv, InsertsKnown, At
<1>3. SecondKnows' /\ CommitKnows'
  BY <1>1 DEF Follow, db, BlockInv, SecondKnows, CommitKnows, At
<1>. QED  BY <1>2, <1>3 DEF BlockInv, Apart, Follow, db

\* A row that comes behind the deletions of a block is in crossed.
LEMMA InsertBlock == ASSUME Typed, BlockInv, NEW r \in Requests, InsertFollow(r) PROVE BlockInv'
<1>. DEFINE p == req[r].pair
<1>1. req[r] # Idle /\ req[r] \in InHand /\ p \in Pairs /\ At(r, "insert")
  BY AtIs, RequestIs DEF InsertFollow
<1>2. CASE UNCHANGED <<follows, crossed>>
  BY <1>2, EndsElsewhere, FewerRows DEF InsertFollow
<1>3. CASE follows' = follows \cup {p}
           /\ crossed' = (IF Overtaken(p) THEN crossed \cup {p} ELSE crossed)
  <2>1. \A s \in Requests : req'[s].at \in {"insert", "second", "commit"} => s # r /\ req'[s] = req[s]
    BY <1>1 DEF InsertFollow, Ends, Idle, Typed, TypeOK
  <2>2. InsertsKnown'
    BY <1>3, <2>1 DEF BlockInv, InsertsKnown, InsertFollow, At
  <2>3. SecondKnows'
    <3>. SUFFICES ASSUME NEW s \in Requests, At(s, "second")', req'[s].pair \in follows'
                  PROVE  req'[s].pair \in req'[s].took \cup crossed'
      BY DEF SecondKnows
    <3>1. req'[s] = req[s] /\ At(s, "second") /\ req[s] # Idle
      BY <2>1, AtIs DEF At
    <3>2. req[s].op = "block"
      BY <3>1, RequestIs DEF ReqOK, At, InHand
    <3>3. CASE req[s].pair = p
      BY <1>3, <3>1, <3>2, <3>3 DEF Overtaken, At
    <3>4. CASE req[s].pair # p
      BY <1>3, <3>1, <3>4 DEF BlockInv, SecondKnows
    <3>. QED  BY <3>3, <3>4
  <2>4. CommitKnows'
    <3>. SUFFICES ASSUME NEW s \in Requests, At(s, "commit")',
                         NEW q \in {req'[s].pair, Reverse(req'[s].pair)} \cap follows'
                  PROVE  q \in req'[s].took \cup crossed'
      BY DEF CommitKnows
    <3>1. req'[s] = req[s] /\ At(s, "commit") /\ req[s] # Idle
      BY <2>1, AtIs DEF At
    <3>2. req[s].op = "block" /\ req[s].pair \in Pairs
      BY <3>1, RequestIs DEF ReqOK, At, InHand
    <3>3. CASE q = p
      BY <1>3, <3>1, <3>2, <3>3, PairsAre DEF Overtaken, At
    <3>4. CASE q # p
      BY <1>3, <3>1, <3>4 DEF BlockInv, CommitKnows
    <3>. QED  BY <3>3, <3>4
  <2>5. Apart'
    <3>. SUFFICES ASSUME NEW b \in blocks, NEW q \in {b, Reverse(b)} \cap follows'
                  PROVE  q \in crossed'
      BY DEF Apart, InsertFollow
    <3>1. b \in Pairs
      BY DEF Typed, TypeOK
    <3>2. CASE q = p
      <4>1. b \in {p, Reverse(p)}
        BY <3>1, <3>2, PairsAre
      <4>. QED  BY <1>1, <1>3, <3>2, <4>1 DEF BlockInv, InsertsKnown
    <3>3. CASE q # p
      BY <1>3, <3>3 DEF BlockInv, Apart
    <3>. QED  BY <3>2, <3>3
  <2>. QED  BY <2>2, <2>3, <2>4, <2>5 DEF BlockInv
<1>. QED  BY <1>2, <1>3 DEF InsertFollow

LEMMA DeleteFirstBlock ==
  ASSUME Typed, BlockInv, NEW r \in Requests, DeleteFirst(r) PROVE BlockInv'
<1>1. req[r] # Idle /\ req[r] \in InHand
  BY AtIs, RequestIs DEF DeleteFirst
<1>2. req'[r].pair = req[r].pair /\ req'[r].at = "second" /\ req'[r].took = {req[r].pair} \cap follows
      /\ \A s \in Requests : s # r => req'[s] = req[s]
  BY <1>1 DEF DeleteFirst, Typed, TypeOK, InHand
<1>3. InsertsKnown' /\ CommitKnows'
  BY <1>2 DEF BlockInv, InsertsKnown, CommitKnows, DeleteFirst, db, At
<1>4. SecondKnows'
  BY <1>2 DEF BlockInv, SecondKnows, DeleteFirst, db, At
<1>. QED  BY <1>3, <1>4 DEF BlockInv, Apart, DeleteFirst, db

LEMMA DeleteSecondBlock ==
  ASSUME Typed, BlockInv, NEW r \in Requests, DeleteSecond(r) PROVE BlockInv'
<1>1. req[r] # Idle /\ req[r] \in InHand /\ At(r, "second")
  BY AtIs, RequestIs DEF DeleteSecond
<1>2. req'[r].pair = req[r].pair /\ req'[r].at = "commit"
      /\ req'[r].took = req[r].took \cup ({Reverse(req[r].pair)} \cap follows)
      /\ \A s \in Requests : s # r => req'[s] = req[s]
  BY <1>1 DEF DeleteSecond, Typed, TypeOK, InHand
<1>3. InsertsKnown' /\ SecondKnows'
  BY <1>2 DEF BlockInv, InsertsKnown, SecondKnows, DeleteSecond, db, At
<1>4. CommitKnows'
  BY <1>1, <1>2 DEF BlockInv, SecondKnows, CommitKnows, DeleteSecond, db, At
<1>. QED  BY <1>3, <1>4 DEF BlockInv, Apart, DeleteSecond, db

LEMMA CommitBlock == ASSUME Typed, BlockInv, NEW r \in Requests, Commit(r) PROVE BlockInv'
<1>. DEFINE p == req[r].pair
<1>1. req[r] # Idle /\ req[r] \in InHand /\ At(r, "commit") /\ p \in Pairs
  BY AtIs, RequestIs DEF Commit
<1>2. \A s \in Requests : req'[s].at \in {"insert", "second", "commit"} => req'[s] = req[s]
  BY EndsElsewhere DEF Commit
<1>3. CASE UNCHANGED <<follows, blocks, crossed>>
  BY <1>2, <1>3, FewerRows
<1>4. CASE follows' = follows \ req[r].took /\ blocks' = blocks \cup {p} /\ crossed' = crossed \cup Checked(p)
  <2>1. InsertsKnown'
    <3>. SUFFICES ASSUME NEW s \in Requests, At(s, "insert")',
                         {req'[s].pair, Reverse(req'[s].pair)} \cap blocks' # {}
                  PROVE  req'[s].pair \in crossed'
      BY DEF InsertsKnown
    <3>1. req'[s] = req[s] /\ At(s, "insert") /\ req[s] # Idle
      BY <1>2, AtIs DEF At
    <3>2. req[s].pair \in Pairs
      BY <3>1, RequestIs
    <3>3. CASE p \in {req[s].pair, Reverse(req[s].pair)}
      <4>1. req[s].pair \in {p, Reverse(p)}
        BY <3>2, <3>3, PairsAre
      <4>. QED  BY <1>4, <3>1, <4>1 DEF Checked
    <3>4. CASE p \notin {req[s].pair, Reverse(req[s].pair)}
      BY <1>4, <3>1, <3>4 DEF BlockInv, InsertsKnown
    <3>. QED  BY <3>3, <3>4
  <2>2. SecondKnows' /\ CommitKnows'
    BY <1>2, <1>4 DEF BlockInv, SecondKnows, CommitKnows, At
  <2>3. Apart'
    BY <1>1, <1>4 DEF BlockInv, CommitKnows, Apart
  <2>. QED  BY <2>1, <2>2, <2>3 DEF BlockInv
<1>. QED  BY <1>3, <1>4 DEF Commit

LEMMA BlockNext == Typed /\ BlockInv /\ [Next]_vars => BlockInv'
<1>. SUFFICES ASSUME Typed, BlockInv, [Next]_vars PROVE BlockInv'
  OBVIOUS
<1>1. CASE UNCHANGED vars
  BY <1>1, FewerRows DEF vars, db
<1>2. ASSUME NEW r \in Requests, NEW p \in Blocks, Block(r, p) PROVE BlockInv'
  <2>1. \A s \in Requests : req'[s].at \in {"insert", "second", "commit"} => req'[s] = req[s]
    BY <1>2 DEF Block, Begin, Typed, TypeOK
  <2>. QED  BY <1>2, <2>1, FewerRows DEF Block, db
<1>3. ASSUME NEW r \in Requests, Stop(r) PROVE BlockInv'
  BY <1>3, EndsElsewhere, FewerRows DEF Stop, db
<1>4. ASSUME NEW p, DeleteFollow(p) PROVE BlockInv'
  BY <1>4, FewerRows DEF DeleteFollow
<1>5. ASSUME NEW p \in Blocks, Unblock(p) PROVE BlockInv'
  BY <1>5, FewerRows DEF Unblock
<1>6. ASSUME NEW u \in Leavers, Leave(u) \/ DeleteAuthor(u) PROVE BlockInv'
  BY <1>6, FewerRows DEF Leave, DeleteAuthor, Of
<1>7. CASE Next
  BY <1>2, <1>3, <1>4, <1>5, <1>6, <1>7, FollowBlock, InsertBlock, DeleteFirstBlock,
     DeleteSecondBlock, CommitBlock DEF Next, UnfollowUser, RemoveFollower
<1>. QED  BY <1>1, <1>7

\* Two users of whom one blocks the other do not follow each other, unless a
\* follow that was checked before the block is inserted behind its deletions.
THEOREM BlockedDoNotFollowHolds == Spec => []BlockedDoNotFollow
<1>1. Init => Typed /\ BlockInv
  BY TypedInit, BlockInit
<1>2. Typed /\ BlockInv /\ [Next]_vars => (Typed /\ BlockInv)'
  BY TypedNext, BlockNext
<1>3. Typed /\ BlockInv => BlockedDoNotFollow
  <2>. SUFFICES ASSUME Typed, Apart PROVE BlockedDoNotFollow
    BY DEF BlockInv
  <2>1. \A p \in Users \X Users : p \in follows /\ {p, Reverse(p)} \cap blocks # {} => p \in crossed
    BY DEF Apart, Reverse
  <2>2. ASSUME NEW b \in blocks, NEW p \in {b, Reverse(b)}
        PROVE  /\ p = <<p[1], p[2]>> /\ p[1] \in Users /\ p[2] \in Users
               /\ p \in follows => p \in crossed
    BY <2>1, <2>2, PairsAre DEF Apart, Typed, TypeOK, Reverse
  <2>3. ASSUME NEW b \in blocks, NEW p \in {b, Reverse(b)}
        PROVE  /\ \A s \in Lookup(p[1], {p[2]}) : s.is_following => p \in crossed
               /\ \A s \in Lookup(p[2], {p[1]}) : s.is_follower => p \in crossed
               /\ \A u \in Users : p[2] \in GetProfile(p[1], u).mutual \/ p[1] \in GetProfile(u, p[2]).mutual
                    => p \in crossed
    <3>. DEFINE v == p[1]  w == p[2]
    <3>1. Lookup(v, {w}) \subseteq {ListItem(v, w)} /\ Lookup(w, {v}) \subseteq {ListItem(w, v)}
      BY DEF Lookup
    <3>2. ListItem(v, w).is_following = (p \in follows) /\ ListItem(w, v).is_follower = (p \in follows)
      BY <2>2, <2>3 DEF ListItem
    <3>3. \A u \in Users : w \in GetProfile(v, u).mutual \/ v \in GetProfile(u, w).mutual => p \in follows
      BY <2>2, <2>3 DEF GetProfile, MutualFollowers
    <3>. QED  BY <2>2, <2>3, <3>1, <3>2, <3>3
  <2>4. ASSUME NEW p \in follows \ crossed, state[p[2]] = "live"
        PROVE  \E s \in SearchUsers(p[1], {p[2]}) : s.is_following
    <3>1. p \in Users \X Users /\ p = <<p[1], p[2]>> /\ p \notin blocks
      BY <2>1, <2>4, PairsAre DEF Typed, TypeOK
    <3>2. ListItem(p[1], p[2]) \in SearchUsers(p[1], {p[2]}) /\ ListItem(p[1], p[2]).is_following
      BY <2>4, <3>1 DEF SearchUsers, Lookup, ListItem
    <3>. QED  BY <3>2
  <2>. QED  BY <2>2, <2>3, <2>4 DEF Apart, BlockedDoNotFollow
<1>. QED  BY <1>1, <1>2, <1>3, PTL DEF Spec

-----------------------------------------------------------------------------
(* The profile of an account *)

LEMMA FieldFacts ==
    /\ Profile!Fields = {"name", "username", "language", "avatar", "cover", "followers", "following"}
    /\ Profile!Counts = {"followers", "following"} /\ Profile!Own = {"name", "username", "avatar"}
    /\ Profile!Pictures = {"avatar", "cover"} /\ Profile!Pictures \subseteq Profile!Fields
    /\ Profile!Shown = {"name", "username", "avatar", "followers", "following"} /\ Profile!Shown \subseteq Profile!Fields
    /\ \A f \in Profile!Fields : Profile!Values(f) \subseteq Profile!Anything
    /\ Avatars \cap Covers = {} /\ Null \notin Texts \cup Avatars \cup Covers
    /\ Profile!Values("avatar") = Avatars \cup {Null} /\ Profile!Values("cover") = Covers \cup {Null}
    /\ \A f \in {"name", "username", "language", "followers", "following"} : Profile!Values(f) = Texts
BY ProperProfiles DEF Profile!Given, Profile!Fields, Profile!Pictures, Profile!Counts, Profile!Own, Profile!Shown,
   Profile!Values, Profile!Anything

LEMMA RowFacts ==
    ASSUME NEW v, NEW w, v \in Profile!Rows, w \in Profile!Rows
    PROVE  /\ v \in [Profile!Fields -> Profile!Anything]
           /\ \A S \in SUBSET Profile!Fields : [f \in Profile!Fields |-> IF f \in S THEN w[f] ELSE v[f]] \in Profile!Rows
           /\ [v EXCEPT !["username"] = w["username"]] \in Profile!Rows
           /\ [f \in Profile!Shown |-> v[f]] \in [Profile!Shown -> Profile!Anything]
           /\ Null \in Profile!Anything
BY FieldFacts DEF Profile!Rows, Profile!Anything

LEMMA RowMix ==
    \A v \in Profile!Rows, w \in Profile!Rows : \A S \in SUBSET Profile!Fields :
        [f \in Profile!Fields |-> IF f \in S THEN w[f] ELSE v[f]] \in Profile!Rows
BY FieldFacts DEF Profile!Rows

LEMMA GivenRow ==
    ASSUME NEW v \in Profile!Rows, NEW F \in SUBSET Profile!Fields, NEW sets, \A f \in F : sets[f] \in Profile!Values(f)
    PROVE  [f \in Profile!Fields |-> IF f \in F THEN sets[f] ELSE v[f]] \in Profile!Rows
BY FieldFacts DEF Profile!Rows

LEMMA CallShape ==
    ASSUME Profile!TypeOK, NEW c \in Requests
    PROVE  /\ call \in [Requests -> Profile!Calls \cup {Profile!Idle}]
           /\ call[c] # Profile!Idle => call[c] \in Profile!Calls
           /\ call[c].at # "idle" => call[c] # Profile!Idle
           /\ call[c] = Profile!Idle <=> call[c].at = "idle"
BY DEF Profile!TypeOK, Profile!Calls, Profile!Idle

-----------------------------------------------------------------------------
(* Types *)

LEMMA RowTypeInit == Profile!Init => Profile!TypeOK
BY FieldFacts DEF Profile!Init, Profile!TypeOK, Profile!Free, Profile!NoDoc, Profile!Rows

LEMMA BeginType ==
    ASSUME Profile!TypeOK, NEW c \in Requests, NEW op \in {"edit", "language", "rename", "leave"},
           NEW at \in {"load", "update", "remove"}, NEW F \in SUBSET Profile!Fields,
           NEW sets, \A f \in F : sets[f] \in Profile!Values(f), Profile!Begin(c, op, at, F, sets)
    PROVE  call' \in [Requests -> Profile!Calls \cup {Profile!Idle}]
<1>1. value \in Profile!Rows /\ account = "live" /\ call \in [Requests -> Profile!Calls \cup {Profile!Idle}]
  BY DEF Profile!TypeOK, Profile!Begin
<1>2. [f \in Profile!Fields |-> IF f \in F THEN sets[f] ELSE value[f]] \in Profile!Rows
  BY <1>1, GivenRow
<1>3. [op |-> op, at |-> at, gives |-> F, old |-> value,
       new |-> [f \in Profile!Fields |-> IF f \in F THEN sets[f] ELSE value[f]],
       base |-> value, was |-> account] \in Profile!Calls
  BY <1>1, <1>2 DEF Profile!Calls
<1> QED  BY <1>1, <1>3 DEF Profile!Begin

LEMMA TaskType ==
    ASSUME Profile!TypeOK
    PROVE  /\ task \in [Jobs -> Profile!TaskStates \cup {Profile!Free}]
           /\ \A j \in Jobs : task[j].at \in {"waiting", "write", "docs"} => task[j] \in Profile!TaskStates
           /\ \A kind \in {"update", "index", "delete"} \cup Profile!Counts, n \in 1..Tries : Profile!NewTask(kind, n) \in Profile!TaskStates
           /\ \A kind \in {"update", "index", "delete"} \cup Profile!Counts : Profile!Add(kind) => task' \in [Jobs -> Profile!TaskStates \cup {Profile!Free}]
<1>1. task \in [Jobs -> Profile!TaskStates \cup {Profile!Free}] /\ Tries \in 1..Tries
  BY ProperProfiles DEF Profile!TypeOK, Profile!Given
<1>2. \A kind \in {"update", "index", "delete"} \cup Profile!Counts, n \in 1..Tries : Profile!NewTask(kind, n) \in Profile!TaskStates
  BY FieldFacts DEF Profile!NewTask, Profile!TaskStates, Profile!Anything
<1> QED  BY <1>1, <1>2 DEF Profile!Add, Profile!Free

LEMMA TypeStart ==
    ASSUME Profile!TypeOK, NEW c \in Requests,
           \/ \E F \in Edits : \E sets \in [F -> Profile!Anything] :
                 (\A f \in F : sets[f] \in Profile!Values(f)) /\ Profile!UpdateUser(c, sets)
           \/ \E v \in Texts : Profile!ChangeLanguage(c, v) \/ Profile!Rename(c, v)
           \/ Profile!DeleteUser(c)
    PROVE  Profile!TypeOK'
<1>1. CASE \E F \in Edits : \E sets \in [F -> Profile!Anything] :
              (\A f \in F : sets[f] \in Profile!Values(f)) /\ Profile!UpdateUser(c, sets)
  <2>1. PICK F \in Edits : \E sets \in [F -> Profile!Anything] :
              (\A f \in F : sets[f] \in Profile!Values(f)) /\ Profile!UpdateUser(c, sets)
    BY <1>1
  <2>2. PICK sets \in [F -> Profile!Anything] : (\A f \in F : sets[f] \in Profile!Values(f)) /\ Profile!UpdateUser(c, sets)
    BY <2>1
  <2>3. DOMAIN sets = F /\ F \in SUBSET Profile!Fields
    BY ProperProfiles DEF Profile!Given
  <2>4. call' \in [Requests -> Profile!Calls \cup {Profile!Idle}]
    BY <2>2, <2>3, BeginType DEF Profile!UpdateUser
  <2>5. files \subseteq Avatars \cup Covers
    BY DEF Profile!TypeOK
  <2>6. used' \subseteq Avatars \cup Covers /\ spent' \subseteq Avatars \cup Covers
    BY <2>2, <2>5 DEF Profile!UpdateUser, Profile!TypeOK
  <2> QED  BY <2>2, <2>4, <2>6 DEF Profile!UpdateUser, Profile!TypeOK, Profile!user
<1>2. ASSUME NEW v \in Texts, Profile!ChangeLanguage(c, v)  PROVE Profile!TypeOK'
  <2>1. call' \in [Requests -> Profile!Calls \cup {Profile!Idle}]
    <3>1. \A f \in {"language"} : [g \in {"language"} |-> v][f] \in Profile!Values(f)
      BY FieldFacts
    <3> QED  BY <1>2, <3>1, BeginType, FieldFacts DEF Profile!ChangeLanguage
  <2> QED  BY <1>2, <2>1 DEF Profile!ChangeLanguage, Profile!TypeOK, Profile!user, Profile!history
<1>3. ASSUME NEW v \in Texts, Profile!Rename(c, v)  PROVE Profile!TypeOK'
  <2>1. call' \in [Requests -> Profile!Calls \cup {Profile!Idle}]
    <3>1. \A f \in {"username"} : [g \in {"username"} |-> v][f] \in Profile!Values(f)
      BY FieldFacts
    <3> QED  BY <1>3, <3>1, BeginType, FieldFacts DEF Profile!Rename
  <2> QED  BY <1>3, <2>1 DEF Profile!Rename, Profile!TypeOK, Profile!user, Profile!history
<1>4. CASE Profile!DeleteUser(c)
  <2>1. call' \in [Requests -> Profile!Calls \cup {Profile!Idle}]
    BY <1>4, BeginType, FieldFacts DEF Profile!DeleteUser
  <2> QED  BY <1>4, <2>1 DEF Profile!DeleteUser, Profile!TypeOK, Profile!user, Profile!history
<1> QED  BY <1>1, <1>2, <1>3, <1>4

LEMMA TypeSave ==
    ASSUME Profile!TypeOK, NEW c \in Requests, Profile!Save(c)  PROVE Profile!TypeOK'
<1>1. call[c] \in Profile!Calls /\ value \in Profile!Rows /\ last \in Profile!Rows /\ call \in [Requests -> Profile!Calls \cup {Profile!Idle}]
  BY CallShape DEF Profile!Save, Profile!At, Profile!TypeOK, Profile!Idle
<1>2. /\ call[c].new \in Profile!Rows /\ call[c].old \in Profile!Rows /\ call[c].gives \in SUBSET Profile!Fields
  BY <1>1 DEF Profile!Calls
<1>3. call' \in [Requests -> Profile!Calls \cup {Profile!Idle}]
  <2>1. Profile!Forgets(call[c]) \in Profile!Calls
    BY <1>1, <1>2 DEF Profile!Forgets, Profile!Calls
  <2> QED  BY <1>1, <2>1 DEF Profile!Save, Profile!Ends
<1>4. value' \in Profile!Rows
  <2>1. CASE call[c].was # "gone" /\ account # "gone"
    <3>1. \A S \in SUBSET Profile!Fields : [f \in Profile!Fields |-> IF f \in S THEN call[c].new[f] ELSE value[f]] \in Profile!Rows
      BY <1>1, <1>2, RowMix
    <3> DEFINE D == {f \in Profile!Fields : call[c].base[f] # call[c].new[f]}
    <3>2. value' = [f \in Profile!Fields |-> IF f \in D THEN call[c].new[f] ELSE value[f]]
      BY <2>1 DEF Profile!Save
    <3>3. D \in SUBSET Profile!Fields
      OBVIOUS
    <3> HIDE DEF D
    <3> QED  BY <3>1, <3>2, <3>3
  <2> QED  BY <2>1, <1>1, <1>2 DEF Profile!Save, Profile!user
<1>5. last' \in Profile!Rows /\ raced' \subseteq Profile!Fields
  <2>1. CASE UNCHANGED <<last, raced>>
    BY <2>1 DEF Profile!TypeOK
  <2>2. CASE Profile!Sets(c, call[c].gives, call[c].base)
    <3>1. \A S \in SUBSET Profile!Fields : [f \in Profile!Fields |-> IF f \in S THEN call[c].new[f] ELSE last[f]] \in Profile!Rows
      BY <1>1, <1>2, RowMix
    <3> QED  BY <2>2, <3>1, <1>2 DEF Profile!Sets, Profile!TypeOK
  <2> QED  BY <2>1, <2>2 DEF Profile!Save
<1>6. account' \in {"live", "left", "gone"}
  BY DEF Profile!Save, Profile!TypeOK, Profile!user
<1> QED  BY <1>3, <1>4, <1>5, <1>6 DEF Profile!Save, Profile!TypeOK

LEMMA TypeOther ==
    ASSUME Profile!TypeOK, NEW c \in Requests,
           \/ Profile!Load(c) \/ Profile!DropOld(c, "avatar", "cover") \/ Profile!DropOld(c, "cover", "queue")
           \/ Profile!QueueUpdate(c) \/ Profile!UpdateUsername(c) \/ Profile!SoftDelete(c) \/ Profile!QueueDelete(c) \/ Profile!Stop(c)
    PROVE  Profile!TypeOK'
<1>1. call[c] \in Profile!Calls /\ call \in [Requests -> Profile!Calls \cup {Profile!Idle}]
  BY CallShape DEF Profile!Load, Profile!DropOld, Profile!QueueUpdate, Profile!UpdateUsername, Profile!SoftDelete, Profile!QueueDelete, Profile!Stop, Profile!At, Profile!Idle
<1>2. \A at \in {"avatar", "cover", "queue"} : [call[c] EXCEPT !.at = at] \in Profile!Calls
  BY <1>1 DEF Profile!Calls
<1>3. CASE Profile!Load(c)
  <2>1. [call[c] EXCEPT !.at = "save", !.base = value, !.was = account] \in Profile!Calls
    BY <1>1 DEF Profile!Calls, Profile!TypeOK
  <2> QED  BY <1>1, <1>3, <2>1 DEF Profile!Load, Profile!TypeOK, Profile!user, Profile!history
<1>4. CASE Profile!DropOld(c, "avatar", "cover") \/ Profile!DropOld(c, "cover", "queue")
  BY <1>1, <1>2, <1>4 DEF Profile!DropOld, Profile!Goes, Profile!TypeOK, Profile!user, Profile!history
<1>5. CASE Profile!QueueUpdate(c)
  BY <1>1, <1>5, TaskType DEF Profile!QueueUpdate, Profile!Ends, Profile!TypeOK, Profile!user, Profile!Shown
<1>6. CASE Profile!UpdateUsername(c)
  <2>1. call[c].new \in Profile!Rows /\ value \in Profile!Rows /\ last \in Profile!Rows /\ "username" \in Profile!Shown
    BY <1>1, FieldFacts DEF Profile!Calls, Profile!TypeOK
  <2>2. value' \in Profile!Rows
    BY <1>6, <2>1, RowFacts DEF Profile!UpdateUsername
  <2>3. last' \in Profile!Rows
    <3>1. \A S \in SUBSET Profile!Fields : [f \in Profile!Fields |-> IF f \in S THEN call[c].new[f] ELSE last[f]] \in Profile!Rows
      BY <2>1, RowMix
    <3>2. {"username"} \in SUBSET Profile!Fields
      BY FieldFacts
    <3> QED  BY <1>6, <2>1, <3>1, <3>2 DEF Profile!UpdateUsername, Profile!Sets
  <2>4. raced' \subseteq Profile!Fields /\ lapsed' \subseteq Profile!Shown
    BY <1>6, <2>1, FieldFacts DEF Profile!UpdateUsername, Profile!Sets, Profile!TypeOK
  <2> QED  BY <1>1, <1>6, <2>2, <2>3, <2>4 DEF Profile!UpdateUsername, Profile!Ends, Profile!TypeOK
<1>7. CASE Profile!SoftDelete(c)
  BY <1>1, <1>2, <1>7 DEF Profile!SoftDelete, Profile!Goes, Profile!TypeOK
<1>8. CASE Profile!QueueDelete(c)
  BY <1>1, <1>8, TaskType DEF Profile!QueueDelete, Profile!Ends, Profile!TypeOK, Profile!user, Profile!history
<1>9. CASE Profile!Stop(c)
  BY <1>1, <1>9 DEF Profile!Stop, Profile!Ends, Profile!TypeOK, Profile!user, Profile!Shown
<1> QED  BY <1>3, <1>4, <1>5, <1>6, <1>7, <1>8, <1>9

LEMMA TypeWork ==
    ASSUME Profile!TypeOK, NEW j \in Jobs, Profile!Work(j)  PROVE Profile!TypeOK'
<1>1. task[j] \in Profile!TaskStates /\ task \in [Jobs -> Profile!TaskStates \cup {Profile!Free}]
  BY TaskType DEF Profile!Work, Profile!ReadUser, Profile!WriteUser, Profile!ReadTweet, Profile!WriteTweet, Profile!ReadCount, Profile!WriteCount, Profile!DeleteRow, Profile!DeleteDocs, Profile!Fail, Profile!Is
<1>2. \A v \in [Profile!Shown -> Profile!Anything] : [task[j] EXCEPT !.at = "write", !.seen = v] \in Profile!TaskStates
  BY <1>1 DEF Profile!TaskStates
<1>3. Profile!Author \in [Profile!Shown -> Profile!Anything] /\ [f \in Profile!Shown |-> Null] \in [Profile!Shown -> Profile!Anything]
  BY FieldFacts DEF Profile!Author, Profile!TypeOK, Profile!Rows, Profile!Anything
<1>4. CASE Profile!ReadUser(j)
  BY <1>1, <1>2, <1>3, <1>4 DEF Profile!ReadUser, Profile!Reads, Profile!Complete, Profile!TypeOK, Profile!user, Profile!Shown
<1>5. CASE Profile!WriteUser(j) \/ Profile!WriteTweet(j)
  BY <1>1, <1>5 DEF Profile!WriteUser, Profile!WriteTweet, Profile!Complete, Profile!TypeOK, Profile!user, Profile!history, Profile!TaskStates
<1>6. CASE Profile!ReadTweet(j)
  BY <1>1, <1>2, <1>3, <1>6 DEF Profile!ReadTweet, Profile!Reads, Profile!Complete, Profile!TypeOK, Profile!user, Profile!history
<1>7. CASE Profile!DeleteRow(j)
  <2>1. [task[j] EXCEPT !.at = "docs"] \in Profile!TaskStates
    BY <1>1 DEF Profile!TaskStates
  <2> QED  BY <1>1, <2>1, <1>7 DEF Profile!DeleteRow, Profile!TypeOK, Profile!history
<1>8. CASE Profile!DeleteDocs(j)
  BY <1>1, <1>8 DEF Profile!DeleteDocs, Profile!Complete, Profile!TypeOK, Profile!user, Profile!history
<1>9. CASE Profile!Fail(j)
  <2>1. task[j].left \in 1..Tries /\ task[j].kind \in {"update", "index", "delete"} \cup Profile!Counts /\ Tries \in Nat
    BY <1>1, ProperProfiles DEF Profile!TaskStates, Profile!Given
  <2>2. task[j].left # 1 => task[j].left - 1 \in 1..Tries
    BY <2>1
  <2>3. task[j].left # 1 => Profile!NewTask(task[j].kind, task[j].left - 1) \in Profile!TaskStates
    BY <2>1, <2>2, TaskType
  <2>4. task' \in [Jobs -> Profile!TaskStates \cup {Profile!Free}]
    BY <1>1, <2>3, <1>9 DEF Profile!Fail
  <2> QED  BY <2>4, <1>9 DEF Profile!Fail, Profile!TypeOK, Profile!user, Profile!Shown
<1>10. ASSUME NEW k \in Profile!Counts, Profile!ReadCount(j, k)  PROVE Profile!TypeOK'
  BY <1>1, <1>2, <1>3, <1>10 DEF Profile!ReadCount, Profile!Reads, Profile!Complete, Profile!TypeOK, Profile!user, Profile!history
<1>11. ASSUME NEW k \in Profile!Counts, Profile!WriteCount(j, k)  PROVE Profile!TypeOK'
  <2>1. task[j].seen[k] \in Profile!Anything
    BY <1>1 DEF Profile!TaskStates, Profile!Shown
  <2>2. shown \in [Profile!Shown -> Profile!Anything] => [shown EXCEPT ![k] = task[j].seen[k]] \in [Profile!Shown -> Profile!Anything]
    BY <2>1
  <2>3. shown' \in [Profile!Shown -> Profile!Anything] \cup {Profile!NoDoc}
    BY <1>11, <2>2 DEF Profile!WriteCount, Profile!TypeOK
  <2> QED  BY <1>1, <1>11, <2>3 DEF Profile!WriteCount, Profile!Complete, Profile!TypeOK, Profile!user
<1> QED  BY <1>4, <1>5, <1>6, <1>7, <1>8, <1>9, <1>10, <1>11 DEF Profile!Work

LEMMA TypeRest ==
    ASSUME Profile!TypeOK,
           \/ Profile!UploadAvatar \/ Profile!UploadCover \/ Profile!DeleteAvatar \/ Profile!DeleteCover \/ Profile!Post
           \/ \E k \in Profile!Counts : Profile!QueueFollow(k) \/ Profile!Decrement(k)
    PROVE  Profile!TypeOK'
<1>1. CASE Profile!UploadAvatar \/ Profile!UploadCover \/ Profile!DeleteAvatar \/ Profile!DeleteCover
  BY <1>1 DEF Profile!UploadAvatar, Profile!UploadCover, Profile!DeleteAvatar, Profile!DeleteCover, Profile!Upload, Profile!Remove, Profile!TypeOK, Profile!user, Profile!history
<1>2. CASE Profile!Post
  BY <1>2, TaskType DEF Profile!Post, Profile!TypeOK, Profile!user, Profile!history
<1>3. ASSUME NEW k \in Profile!Counts, Profile!QueueFollow(k)  PROVE Profile!TypeOK'
  BY <1>3, TaskType DEF Profile!QueueFollow, Profile!TypeOK, Profile!user, Profile!history
<1>4. ASSUME NEW k \in Profile!Counts, Profile!Decrement(k)  PROVE Profile!TypeOK'
  BY <1>4 DEF Profile!Decrement, Profile!TypeOK, Profile!user, Profile!Shown, Profile!Anything
<1> QED  BY <1>1, <1>2, <1>3, <1>4

-----------------------------------------------------------------------------
(* A field keeps what it was last given. *)

\* Who has read the row agrees with it, but for the fields that raced, and changes
\* only what it gives.
AgreeInv ==
    /\ \A f \in Profile!Fields \ raced : value[f] = last[f]
    /\ \A c \in Requests : Profile!Editing(c) => \A f \in Profile!Fields \ raced : call[c].old[f] = value[f]
    /\ \A c \in Requests : Profile!At(c, "save") => \A f \in Profile!Fields \ raced : call[c].base[f] = value[f]
    /\ \A c \in Requests : Profile!Editing(c) => \A f \in Profile!Fields \ call[c].gives : call[c].new[f] = call[c].old[f]

\* The handlers that begin.
Starts(c) ==
    \/ \E F \in Edits : \E sets \in [F -> Profile!Anything] :
          (\A f \in F : sets[f] \in Profile!Values(f)) /\ Profile!UpdateUser(c, sets)
    \/ \E v \in Texts : Profile!ChangeLanguage(c, v) \/ Profile!Rename(c, v)
    \/ Profile!DeleteUser(c)

\* What a request that begins has in hand.
Begun(c) ==
    /\ account = "live" /\ call[c] = Profile!Idle
    /\ call'[c].at \in {"load", "update", "remove"} /\ call'[c].was = "live"
    /\ call'[c].op = "leave" <=> call'[c].at = "remove"
    /\ call'[c].op = "language" => call'[c].gives = {"language"}
    /\ call'[c].at = "load" <=> call'[c].op \in {"edit", "language"}
    /\ call'[c].old = value /\ call'[c].base = value /\ call'[c].gives \subseteq Profile!Fields \ Profile!Counts
    /\ \A f \in Profile!Fields \ call'[c].gives : call'[c].new[f] = value[f]
    /\ \A d \in Requests \ {c} : call'[d] = call[d]

LEMMA StartEffect ==
    ASSUME Profile!TypeOK, NEW c \in Requests, Starts(c)
    PROVE  Begun(c) /\ UNCHANGED <<Profile!user, files, posted, shown, task, last, raced, over, lapsed>>
<1> USE DEF Begun, Profile!Begin
<1>0. call \in [Requests -> Profile!Calls \cup {Profile!Idle}]
  BY DEF Profile!TypeOK
<1>1. CASE \E F \in Edits : \E sets \in [F -> Profile!Anything] :
              (\A f \in F : sets[f] \in Profile!Values(f)) /\ Profile!UpdateUser(c, sets)
  <2>1. PICK F \in Edits : \E sets \in [F -> Profile!Anything] : Profile!UpdateUser(c, sets)
    BY <1>1
  <2>2. PICK sets \in [F -> Profile!Anything] : Profile!UpdateUser(c, sets)
    BY <2>1
  <2>3. DOMAIN sets = F /\ F \subseteq Profile!Fields \ Profile!Counts
    BY ProperProfiles DEF Profile!Given
  <2> QED  BY <1>0, <2>2, <2>3 DEF Profile!UpdateUser
<1>2. CASE \E v \in Texts : Profile!ChangeLanguage(c, v)
  BY <1>0, <1>2, FieldFacts DEF Profile!ChangeLanguage, Profile!history
<1>3. CASE \E v \in Texts : Profile!Rename(c, v)
  BY <1>0, <1>3, FieldFacts DEF Profile!Rename, Profile!history
<1>4. CASE Profile!DeleteUser(c)
  BY <1>0, <1>4 DEF Profile!DeleteUser, Profile!history
<1> QED  BY <1>1, <1>2, <1>3, <1>4 DEF Starts

\* Steps that leave the row alone, and the requests that have read it.
Quiet(c) ==
    \/ Profile!DropOld(c, "avatar", "cover") \/ Profile!DropOld(c, "cover", "queue")
    \/ Profile!QueueUpdate(c) \/ Profile!SoftDelete(c) \/ Profile!QueueDelete(c) \/ Profile!Stop(c)
Elsewhere ==
    \/ Profile!UploadAvatar \/ Profile!UploadCover \/ Profile!DeleteAvatar \/ Profile!DeleteCover \/ Profile!Post
    \/ \E j \in Jobs : Profile!Work(j)
    \/ \E k \in Profile!Counts : Profile!QueueFollow(k) \/ Profile!Decrement(k)

LEMMA QuietEffect ==
    ASSUME Profile!TypeOK, NEW c \in Requests, Quiet(c)
    PROVE  /\ UNCHANGED <<value, last, raced, used, spent, posted, shown>>
           /\ \A d \in Requests \ {c} : call'[d] = call[d]
           /\ call'[c].at \in {"idle", "avatar", "cover", "queue"}
           /\ call'[c].at # "idle" => call' = [call EXCEPT ![c].at = call'[c].at]
           /\ call'[c].at = "idle" => call'[c] = Profile!Idle
           /\ call[c] # Profile!Idle
           /\ Profile!Stop(c) \/ ~Profile!Editing(c)
<1>1. call \in [Requests -> Profile!Calls \cup {Profile!Idle}] /\ (call[c] # Profile!Idle => call[c] \in Profile!Calls)
  BY CallShape DEF Profile!TypeOK
<1>2. call[c] # Profile!Idle
  BY DEF Quiet, Profile!DropOld, Profile!QueueUpdate, Profile!SoftDelete, Profile!QueueDelete, Profile!Stop, Profile!At, Profile!Idle
<1> QED
  BY <1>1, <1>2 DEF Quiet, Profile!DropOld, Profile!QueueUpdate, Profile!SoftDelete, Profile!QueueDelete, Profile!Stop, Profile!Goes, Profile!Ends, Profile!Idle, Profile!Calls,
     Profile!At, Profile!Editing, Profile!user, Profile!history

LEMMA ElsewhereEffect ==
    ASSUME Profile!TypeOK, Elsewhere
    PROVE  UNCHANGED <<value, call, last, raced, used, over>>
BY DEF Elsewhere, Profile!UploadAvatar, Profile!UploadCover, Profile!DeleteAvatar, Profile!DeleteCover, Profile!Upload, Profile!Remove, Profile!Post, Profile!QueueFollow, Profile!Decrement, Profile!Work,
   Profile!ReadUser, Profile!WriteUser, Profile!ReadTweet, Profile!WriteTweet, Profile!ReadCount, Profile!WriteCount, Profile!DeleteRow, Profile!DeleteDocs, Profile!Fail, Profile!user, Profile!history

LEMMA NextCases ==
    ASSUME Profile!Next
    PROVE  \/ Elsewhere
           \/ \E c \in Requests : Starts(c) \/ Profile!Load(c) \/ Profile!Save(c) \/ Profile!UpdateUsername(c) \/ Quiet(c)
BY DEF Profile!Next, Profile!Request, Elsewhere, Starts, Quiet

\* What a save makes of the row.
Written(c, f) == value'[f] = call[c].new[f] /\ last'[f] = call[c].new[f] /\ ~Profile!Others(c)

LEMMA SaveEffect ==
    ASSUME Profile!TypeOK, AgreeInv, NEW c \in Requests, Profile!Save(c)
    PROVE  /\ call[c] \in Profile!Calls /\ call[c].gives \subseteq Profile!Fields /\ Profile!At(c, "save") /\ Profile!Editing(c)
           /\ \/ call[c].op = "language" /\ call'[c] = Profile!Idle
              \/ call[c].op = "edit" /\ call'[c] = Profile!Forgets(call[c])
           /\ \A d \in Requests \ {c} : call'[d] = call[d]
           /\ \A f \in Profile!Fields : value'[f] \in {value[f], call[c].new[f]}
           /\ \A f \in Profile!Fields \ raced' :
                 /\ f \notin call[c].gives => f \notin raced /\ value'[f] = value[f] /\ last'[f] = last[f]
                 /\ f \in call[c].gives => Written(c, f) \/ (account # "live" /\ UNCHANGED <<value, last, raced>>)
           /\ account = "live" /\ call[c].was = "live" => account' = "live"
<1>1. call \in [Requests -> Profile!Calls \cup {Profile!Idle}] /\ call[c] \in Profile!Calls
  BY CallShape DEF Profile!Save, Profile!At, Profile!TypeOK, Profile!Idle
<1>2. call[c].gives \subseteq Profile!Fields /\ Profile!At(c, "save") /\ Profile!Editing(c)
  BY <1>1 DEF Profile!Calls, Profile!Save, Profile!At, Profile!Editing
<1>3. /\ \/ call[c].op = "language" /\ call'[c] = Profile!Idle
         \/ call[c].op = "edit" /\ call'[c] = Profile!Forgets(call[c])
      /\ \A d \in Requests \ {c} : call'[d] = call[d]
  BY <1>1 DEF Profile!Save, Profile!Ends
<1>4. \A f \in Profile!Fields \ raced : call[c].old[f] = value[f] /\ call[c].base[f] = value[f]
  BY <1>2 DEF AgreeInv
<1>5. \A f \in Profile!Fields \ call[c].gives : call[c].new[f] = call[c].old[f]
  BY <1>2 DEF AgreeInv
<1>6. CASE call[c].was # "gone" /\ account = "gone" /\ UNCHANGED <<Profile!user, last, raced>>
  BY <1>1, <1>2, <1>3, <1>6 DEF Profile!user
<1>7. ASSUME Profile!Sets(c, call[c].gives, call[c].base),
             \/ value' = call[c].new
             \/ value' = [f \in Profile!Fields |-> IF call[c].base[f] # call[c].new[f] THEN call[c].new[f] ELSE value[f]]
      PROVE  /\ \A f \in Profile!Fields : value'[f] \in {value[f], call[c].new[f]}
             /\ \A f \in Profile!Fields \ raced' :
                   /\ f \notin call[c].gives => f \notin raced /\ value'[f] = value[f] /\ last'[f] = last[f]
                   /\ f \in call[c].gives => Written(c, f)
  <2>1. \A f \in Profile!Fields : value'[f] \in {value[f], call[c].new[f]}
    BY <1>7
  <2>2. ASSUME NEW f \in Profile!Fields \ raced', f \notin call[c].gives
        PROVE  f \notin raced /\ value'[f] = value[f] /\ last'[f] = last[f]
    <3>1. f \notin raced /\ last'[f] = last[f]
      BY <1>7, <2>2 DEF Profile!Sets
    <3>2. call[c].new[f] = value[f] /\ call[c].base[f] = value[f]
      BY <3>1, <1>4, <1>5, <2>2
    <3> QED  BY <3>1, <3>2, <2>1
  <2>3. ASSUME NEW f \in Profile!Fields \ raced', f \in call[c].gives  PROVE Written(c, f)
    <3>1. ~Profile!Others(c) /\ call[c].base[f] = value[f] /\ last'[f] = call[c].new[f]
      BY <1>7, <2>3 DEF Profile!Sets
    <3>2. value'[f] = call[c].new[f]
      BY <1>7, <3>1
    <3> QED  BY <3>1, <3>2 DEF Written
  <2> QED  BY <2>1, <2>2, <2>3
<1>8. CASE /\ call[c].was # "gone" /\ account # "gone"
           /\ value' = [f \in Profile!Fields |-> IF call[c].base[f] # call[c].new[f] THEN call[c].new[f] ELSE value[f]]
           /\ account' = IF call[c].was = "left" THEN "live" ELSE account
           /\ Profile!Sets(c, call[c].gives, call[c].base)
  BY <1>1, <1>2, <1>3, <1>7, <1>8
<1>9. CASE /\ call[c].was = "gone" /\ account = "gone"
           /\ value' = call[c].new /\ account' = "live"
           /\ Profile!Sets(c, call[c].gives, call[c].base)
  BY <1>1, <1>2, <1>3, <1>7, <1>9
<1>10. \A f \in Profile!Fields : f \in {g \in Profile!Fields : call[c].base[g] # call[c].new[g]} <=> call[c].base[f] # call[c].new[f]
  OBVIOUS
<1> QED  BY <1>6, <1>8, <1>9, <1>10 DEF Profile!Save

LEMMA AgreeStep ==
    ASSUME Profile!TypeOK, AgreeInv, Profile!Next  PROVE AgreeInv'
<1>1. CASE Elsewhere
  <2>1. UNCHANGED <<value, call, last, raced>>
    BY <1>1, ElsewhereEffect
  <2> QED  BY <2>1 DEF AgreeInv, Profile!Editing, Profile!At
<1>2. ASSUME NEW c \in Requests, Starts(c)  PROVE AgreeInv'
  <2>1. Begun(c) /\ UNCHANGED <<value, last, raced>>
    BY <1>2, StartEffect DEF Profile!user
  <2> QED  BY <2>1 DEF Begun, AgreeInv, Profile!Editing, Profile!At
<1>3. ASSUME NEW c \in Requests, Profile!Load(c)  PROVE AgreeInv'
  <2>1. call \in [Requests -> Profile!Calls \cup {Profile!Idle}] /\ call[c] \in Profile!Calls /\ UNCHANGED <<value, last, raced>>
    BY <1>3, CallShape DEF Profile!Load, Profile!At, Profile!TypeOK, Profile!Idle, Profile!user, Profile!history
  <2>2. \A d \in Requests \ {c} : call'[d] = call[d]
    BY <2>1, <1>3 DEF Profile!Load
  <2>3. /\ call'[c].base = value /\ call'[c].old = call[c].old /\ call'[c].new = call[c].new
        /\ call'[c].gives = call[c].gives /\ Profile!Editing(c)
    BY <2>1, <1>3 DEF Profile!Load, Profile!Calls, Profile!Editing, Profile!At
  <2> QED  BY <2>1, <2>2, <2>3 DEF AgreeInv, Profile!Editing, Profile!At
<1>4. ASSUME NEW c \in Requests, Profile!Save(c)  PROVE AgreeInv'
  <2>0. call'[c].at \in {"idle", "avatar"}
    <3>1. call[c] \in Profile!Calls => Profile!Forgets(call[c]).at = "avatar"
      BY DEF Profile!Forgets, Profile!Calls
    <3> QED  BY <1>4, <3>1, SaveEffect DEF Profile!Idle
  <2>1. ~(Profile!Editing(c)') /\ ~(Profile!At(c, "save")')
    BY <2>0 DEF Profile!Editing, Profile!At
  <2>2. \A f \in Profile!Fields \ raced' : value'[f] = last'[f]
    BY <1>4, SaveEffect DEF AgreeInv, Written
  <2>3. ASSUME NEW d \in Requests \ {c}, Profile!Editing(d)', NEW f \in Profile!Fields \ raced'
        PROVE  f \notin raced /\ value'[f] = value[f] /\ call'[d] = call[d] /\ Profile!Editing(d)
    <3>1. call'[d] = call[d] /\ Profile!Editing(d)
      BY <1>4, <2>3, SaveEffect DEF Profile!Editing
    <3>2. ~Written(c, f)
      BY <3>1 DEF Profile!Others, Written
    <3> QED  BY <1>4, <3>1, <3>2, SaveEffect
  <2>4. \A d \in Requests \ {c} : Profile!Editing(d)' => \A f \in Profile!Fields \ raced' :
           /\ call'[d].old[f] = value'[f]
           /\ Profile!At(d, "save")' => call'[d].base[f] = value'[f]
    BY <2>3 DEF AgreeInv, Profile!At
  <2>5. \A d \in Requests : Profile!At(d, "save")' => Profile!Editing(d)'
    BY DEF Profile!At, Profile!Editing
  <2>6. \A d \in Requests \ {c} : call'[d] = call[d]
    BY <1>4, SaveEffect
  <2>7. \A d \in Requests : Profile!Editing(d)' => \A f \in Profile!Fields \ call'[d].gives : call'[d].new[f] = call'[d].old[f]
    BY <2>1, <2>6 DEF AgreeInv, Profile!Editing
  <2> QED  BY <2>1, <2>2, <2>4, <2>5, <2>7 DEF AgreeInv
<1>5. ASSUME NEW c \in Requests, Profile!UpdateUsername(c)  PROVE AgreeInv'
  <2>1. call \in [Requests -> Profile!Calls \cup {Profile!Idle}] /\ value \in [Profile!Fields -> Profile!Anything]
    BY DEF Profile!TypeOK, Profile!Rows
  <2>2. call'[c] = Profile!Idle /\ \A d \in Requests \ {c} : call'[d] = call[d]
    BY <2>1, <1>5 DEF Profile!UpdateUsername, Profile!Ends
  <2>3. CASE UNCHANGED <<value, last, raced>>
    BY <2>2, <2>3 DEF AgreeInv, Profile!Editing, Profile!At, Profile!Idle
  <2>4. CASE /\ value' = [value EXCEPT !["username"] = call[c].new["username"]]
             /\ Profile!Sets(c, {"username"}, value)
    <3>1. \A f \in Profile!Fields : f # "username" => value'[f] = value[f] /\ last'[f] = last[f] /\ (f \in raced' <=> f \in raced)
      BY <2>1, <2>4 DEF Profile!Sets
    <3>2. "username" \in Profile!Fields /\ value'["username"] = last'["username"]
      BY <2>1, <2>4, FieldFacts DEF Profile!Sets
    <3>3. "username" \notin raced' => ~Profile!Others(c)
      BY <2>4, <3>2 DEF Profile!Sets
    <3>4. "username" \notin raced' => \A d \in Requests : ~Profile!Editing(d)'
      BY <2>2, <3>3 DEF Profile!Others, Profile!Editing, Profile!Idle
    <3> QED  BY <2>2, <3>1, <3>2, <3>4 DEF AgreeInv, Profile!Editing, Profile!At, Profile!Idle
  <2> QED  BY <1>5, <2>3, <2>4 DEF Profile!UpdateUsername
<1>6. ASSUME NEW c \in Requests, Quiet(c)  PROVE AgreeInv'
  BY <1>6, QuietEffect DEF AgreeInv, Profile!Editing, Profile!At
<1> QED  BY <1>1, <1>2, <1>3, <1>4, <1>5, <1>6, NextCases

-----------------------------------------------------------------------------
(* A deleted account stays deleted. *)

AloneInv == over = "alone" => account # "live" /\ \A c \in Requests : ~Profile!Editing(c)

LEMMA AloneStep ==
    ASSUME Profile!TypeOK, AgreeInv, AloneInv, Profile!Next  PROVE AloneInv'
<1>1. CASE Elsewhere
  <2>1. UNCHANGED <<call, over>> /\ (account' = account \/ account' = "gone")
    BY <1>1, ElsewhereEffect DEF Elsewhere, Profile!UploadAvatar, Profile!UploadCover, Profile!DeleteAvatar, Profile!DeleteCover, Profile!Upload,
       Profile!Remove, Profile!Post, Profile!QueueFollow, Profile!Decrement, Profile!Work, Profile!ReadUser, Profile!WriteUser, Profile!ReadTweet, Profile!WriteTweet, Profile!ReadCount, Profile!WriteCount, Profile!DeleteRow, Profile!DeleteDocs, Profile!Fail, Profile!user
  <2> QED  BY <2>1 DEF AloneInv, Profile!Editing
<1>2. ASSUME NEW c \in Requests, Starts(c)  PROVE AloneInv'
  <2>1. account = "live" /\ UNCHANGED over
    BY <1>2, StartEffect DEF Begun
  <2> QED  BY <2>1 DEF AloneInv
<1>3. ASSUME NEW c \in Requests, Profile!Load(c) \/ Profile!Save(c)  PROVE AloneInv'
  <2>1. Profile!Editing(c) /\ UNCHANGED over
    BY <1>3 DEF Profile!Load, Profile!Save, Profile!Editing, Profile!At, Profile!history
  <2> QED  BY <2>1 DEF AloneInv
<1>4. ASSUME NEW c \in Requests, Profile!UpdateUsername(c)  PROVE AloneInv'
  <2>1. UNCHANGED <<account, over>>
    BY <1>4 DEF Profile!UpdateUsername
  <2>2. \A d \in Requests : Profile!Editing(d)' => Profile!Editing(d)
    BY <1>4 DEF Profile!UpdateUsername, Profile!Ends, Profile!Editing, Profile!Idle, Profile!TypeOK
  <2> QED  BY <2>1, <2>2 DEF AloneInv
<1>5. ASSUME NEW c \in Requests, Quiet(c)  PROVE AloneInv'
  <2>1. \A d \in Requests : Profile!Editing(d)' => d # c /\ Profile!Editing(d)
    BY <1>5, QuietEffect DEF Profile!Editing
  <2>2. CASE Profile!SoftDelete(c)
    <3>1. over' = "alone" => account' # "live"
      BY <2>2 DEF Profile!SoftDelete
    <3>2. over' = "alone" => ~Profile!Others(c) \/ over = "alone"
      BY <2>2 DEF Profile!SoftDelete
    <3> QED  BY <2>1, <3>1, <3>2 DEF AloneInv, Profile!Others
  <2>3. CASE ~Profile!SoftDelete(c)
    <3>1. UNCHANGED <<account, over>>
      BY <1>5, <2>3 DEF Quiet, Profile!DropOld, Profile!QueueUpdate, Profile!QueueDelete, Profile!Stop, Profile!user, Profile!history
    <3> QED  BY <2>1, <3>1 DEF AloneInv
  <2> QED  BY <2>2, <2>3
<1> QED  BY <1>1, <1>2, <1>3, <1>4, <1>5, NextCases

-----------------------------------------------------------------------------
(* The picture of a profile is there. *)

\* Until the account is deleted.
LiveInv == over = "no" =>
    /\ account = "live"
    /\ \A j \in Jobs : task[j].kind # "delete"
    /\ \A c \in Requests : call[c] # Profile!Idle =>
          call[c].was = "live" /\ (call[c].op = "leave" => call[c].at = "remove")

LEMMA LiveStep ==
    ASSUME Profile!TypeOK, AgreeInv, LiveInv, Profile!Next, over' = "no"
    PROVE  LiveInv' /\ over = "no"
<1>0. over = "no"
  BY NextCases, ElsewhereEffect, StartEffect DEF Profile!Load, Profile!Save, Profile!UpdateUsername, Quiet, Profile!DropOld, Profile!QueueUpdate,
     Profile!SoftDelete, Profile!QueueDelete, Profile!Stop, Profile!history
<1>1. CASE Elsewhere
  <2>1. UNCHANGED call
    BY <1>1, ElsewhereEffect
  <2>2. account' = account
    BY <1>0, <1>1 DEF LiveInv, Elsewhere, Profile!UploadAvatar, Profile!UploadCover, Profile!DeleteAvatar, Profile!DeleteCover, Profile!Upload,
       Profile!Remove, Profile!Post, Profile!QueueFollow, Profile!Decrement, Profile!Work, Profile!ReadUser, Profile!WriteUser, Profile!ReadTweet, Profile!WriteTweet, Profile!ReadCount, Profile!WriteCount, Profile!DeleteRow, Profile!DeleteDocs, Profile!Fail, Profile!user, Profile!Is
  <2>3. \A j \in Jobs : task'[j].kind # "delete"
    <3>1. ASSUME NEW j \in Jobs, Profile!Work(j)  PROVE \A i \in Jobs : task'[i].kind # "delete"
      <4>1. task[j] \in Profile!TaskStates /\ task \in [Jobs -> Profile!TaskStates \cup {Profile!Free}] /\ task[j].kind # "delete"
        BY <1>0, <3>1, TaskType DEF LiveInv, Profile!Work, Profile!ReadUser, Profile!WriteUser, Profile!ReadTweet, Profile!WriteTweet, Profile!ReadCount, Profile!WriteCount, Profile!DeleteRow,
           Profile!DeleteDocs, Profile!Fail, Profile!Is
      <4>2. \A i \in Jobs \ {j} : task'[i] = task[i]
        BY <3>1, <4>1 DEF Profile!Work, Profile!ReadUser, Profile!WriteUser, Profile!ReadTweet, Profile!WriteTweet, Profile!ReadCount, Profile!WriteCount, Profile!DeleteRow, Profile!DeleteDocs, Profile!Fail,
           Profile!Reads, Profile!Complete
      <4>3. task'[j].kind \in {task[j].kind, "none"}
        <5>1. ASSUME NEW v, Profile!Reads(j, v)  PROVE task'[j].kind = task[j].kind
          BY <4>1, <5>1 DEF Profile!Reads, Profile!TaskStates
        <5>2. CASE Profile!ReadUser(j) \/ Profile!ReadTweet(j) \/ \E k \in Profile!Counts : Profile!ReadCount(j, k)
          <6>1. (\E v : Profile!Reads(j, v)) \/ Profile!Complete(j)
            BY <5>2 DEF Profile!ReadUser, Profile!ReadTweet, Profile!ReadCount
          <6> QED  BY <4>1, <5>1, <6>1 DEF Profile!Complete, Profile!Free
        <5>3. CASE Profile!WriteUser(j) \/ Profile!WriteTweet(j) \/ \E k \in Profile!Counts : Profile!WriteCount(j, k)
          BY <4>1, <5>3 DEF Profile!WriteUser, Profile!WriteTweet, Profile!WriteCount, Profile!Complete, Profile!Free
        <5>4. CASE Profile!Fail(j)
          BY <4>1, <5>4 DEF Profile!Fail, Profile!Free, Profile!NewTask
        <5> QED  BY <3>1, <4>1, <5>2, <5>3, <5>4 DEF Profile!Work, Profile!DeleteRow, Profile!DeleteDocs, Profile!Is
      <4> QED  BY <1>0, <4>1, <4>2, <4>3 DEF LiveInv
    <3>2. CASE Profile!Post
      BY <1>0, <3>2 DEF LiveInv, Profile!Post, Profile!Add, Profile!NewTask, Profile!TypeOK
    <3>3. CASE UNCHANGED task
      BY <1>0, <3>3 DEF LiveInv
    <3>4. ASSUME NEW k \in Profile!Counts, Profile!QueueFollow(k)  PROVE \A i \in Jobs : task'[i].kind # "delete"
      BY <1>0, <3>4, FieldFacts DEF LiveInv, Profile!QueueFollow, Profile!Add, Profile!NewTask, Profile!TypeOK
    <3> QED  BY <1>1, <3>1, <3>2, <3>3, <3>4 DEF Profile!Decrement, Elsewhere, Profile!UploadAvatar, Profile!UploadCover, Profile!DeleteAvatar, Profile!DeleteCover, Profile!Upload, Profile!Remove
  <2> QED  BY <1>0, <2>1, <2>2, <2>3 DEF LiveInv
<1>2. ASSUME NEW c \in Requests, Starts(c)  PROVE LiveInv'
  <2>1. Begun(c) /\ UNCHANGED <<account, task>>
    BY <1>2, StartEffect DEF Profile!user
  <2> QED  BY <1>0, <2>1 DEF LiveInv, Begun
<1>3. ASSUME NEW c \in Requests, Profile!Load(c)  PROVE LiveInv'
  <2>1. call \in [Requests -> Profile!Calls \cup {Profile!Idle}] /\ call[c] \in Profile!Calls /\ UNCHANGED <<account, task>>
    BY <1>3, CallShape DEF Profile!Load, Profile!At, Profile!TypeOK, Profile!Idle, Profile!user, Profile!history
  <2>2. call[c].op # "leave"
    BY <1>0, <1>3, <2>1 DEF LiveInv, Profile!Load, Profile!At, Profile!Calls, Profile!Idle
  <2>3. /\ \A d \in Requests \ {c} : call'[d] = call[d]
        /\ call'[c].was = account /\ call'[c].op = call[c].op
    BY <2>1, <1>3 DEF Profile!Load, Profile!Calls
  <2> QED  BY <1>0, <2>1, <2>2, <2>3 DEF LiveInv
<1>4. ASSUME NEW c \in Requests, Profile!Save(c)  PROVE LiveInv'
  <2>1. call[c] \in Profile!Calls => Profile!Forgets(call[c]).was = "live" /\ Profile!Forgets(call[c]).op = call[c].op
    BY DEF Profile!Forgets, Profile!Calls
  <2>2. call'[c] = Profile!Idle \/ (call'[c].was = "live" /\ call'[c].op = "edit")
    BY <1>4, <2>1, SaveEffect
  <2>3. UNCHANGED task
    BY <1>4 DEF Profile!Save
  <2>4. call[c] # Profile!Idle /\ \A d \in Requests \ {c} : call'[d] = call[d]
    BY <1>4, SaveEffect DEF Profile!At, Profile!Idle
  <2>5. account' = "live"
    BY <1>0, <1>4, <2>4, SaveEffect DEF LiveInv
  <2> QED  BY <1>0, <2>2, <2>3, <2>4, <2>5 DEF LiveInv
<1>5. ASSUME NEW c \in Requests, Profile!UpdateUsername(c)  PROVE LiveInv'
  BY <1>0, <1>5 DEF LiveInv, Profile!UpdateUsername, Profile!Ends, Profile!TypeOK
<1>6. ASSUME NEW c \in Requests, Quiet(c)  PROVE LiveInv'
  <2>1. ~Profile!SoftDelete(c)
    BY <1>0 DEF Profile!SoftDelete
  <2>2. call[c] # Profile!Idle /\ call[c] \in Profile!Calls /\ call \in [Requests -> Profile!Calls \cup {Profile!Idle}]
    BY <1>6, QuietEffect, CallShape DEF Profile!TypeOK
  <2>3. call[c].op = "leave" => Profile!Stop(c)
    BY <1>0, <1>6, <2>1, <2>2 DEF LiveInv, Quiet, Profile!DropOld, Profile!QueueUpdate, Profile!QueueDelete, Profile!At
  <2>4. UNCHANGED account
    BY <1>6, <2>1 DEF Quiet, Profile!DropOld, Profile!QueueUpdate, Profile!QueueDelete, Profile!Stop, Profile!user
  <2>5. \A j \in Jobs : task'[j].kind # "delete"
    <3>1. CASE Profile!QueueUpdate(c)
      BY <1>0, <3>1 DEF LiveInv, Profile!QueueUpdate, Profile!Add, Profile!NewTask, Profile!TypeOK
    <3>2. CASE UNCHANGED task
      BY <1>0, <3>2 DEF LiveInv
    <3>3. Profile!QueueDelete(c) => call[c].op = "leave" /\ call[c].at = "queue"
      BY DEF Profile!QueueDelete, Profile!At
    <3> QED  BY <1>0, <1>6, <2>1, <2>2, <3>1, <3>2, <3>3 DEF Quiet, Profile!DropOld, Profile!Stop, Profile!history, LiveInv
  <2>6. /\ \A d \in Requests \ {c} : call'[d] = call[d]
        /\ call'[c] = Profile!Idle \/ (call'[c].was = call[c].was /\ call'[c].op = call[c].op /\ call[c].op # "leave")
    <3>1. CASE Profile!Stop(c)
      BY <2>2, <3>1 DEF Profile!Stop, Profile!Ends
    <3>2. CASE ~Profile!Stop(c)
      BY <1>6, <2>1, <2>2, <2>3, <3>2 DEF Quiet, Profile!DropOld, Profile!QueueUpdate, Profile!QueueDelete, Profile!Goes, Profile!Ends, Profile!Calls
    <3> QED  BY <3>1, <3>2
  <2> QED  BY <1>0, <2>2, <2>4, <2>5, <2>6 DEF LiveInv
<1> QED  BY <1>0, <1>1, <1>2, <1>3, <1>4, <1>5, <1>6, NextCases

\* Pictures are given before anybody has them.
UsedInv == \A k \in Profile!Pictures :
    /\ value[k] \in used \cup {Null}
    /\ \A c \in Requests : call[c] # Profile!Idle =>
          {call[c].old[k], call[c].base[k], call[c].new[k]} \subseteq used \cup {Null}

\* What a request begins with: what it gives is given now, and was not before, or is spent.
LEMMA GivenEffect ==
    ASSUME Profile!TypeOK, NEW c \in Requests, Starts(c)
    PROVE  /\ used \subseteq used' /\ spent \subseteq spent'
           /\ \A k \in Profile!Pictures \cap call'[c].gives : LET g == call'[c].new[k] IN
                 g # Null => g \in used' /\ g \in files /\ (g \in used => g \in spent')
<1>0. call \in [Requests -> Profile!Calls \cup {Profile!Idle}]
  BY DEF Profile!TypeOK
<1>1. CASE \E F \in Edits : \E sets \in [F -> Profile!Anything] :
              (\A f \in F : sets[f] \in Profile!Values(f)) /\ Profile!UpdateUser(c, sets)
  <2>1. PICK F \in Edits : \E sets \in [F -> Profile!Anything] : Profile!UpdateUser(c, sets)
    BY <1>1
  <2>2. PICK sets \in [F -> Profile!Anything] : Profile!UpdateUser(c, sets)
    BY <2>1
  <2>3. DOMAIN sets = F /\ F \subseteq Profile!Fields \ Profile!Counts
    BY ProperProfiles DEF Profile!Given
  <2>4. call'[c].gives = F /\ \A f \in F : call'[c].new[f] = sets[f]
    BY <1>0, <2>2, <2>3 DEF Profile!UpdateUser, Profile!Begin
  <2>5. \A k \in Profile!Pictures \cap F : sets[k] # Null =>
           sets[k] \in used' /\ sets[k] \in files /\ (sets[k] \in used => sets[k] \in spent')
    BY <2>2, <2>3 DEF Profile!UpdateUser
  <2>6. used \subseteq used' /\ spent \subseteq spent'
    BY <2>2 DEF Profile!UpdateUser
  <2> QED  BY <2>4, <2>5, <2>6
<1>2. CASE \/ \E v \in Texts : Profile!ChangeLanguage(c, v) \/ Profile!Rename(c, v)
           \/ Profile!DeleteUser(c)
  <2>1. UNCHANGED <<used, spent>> /\ call'[c].gives \cap Profile!Pictures = {}
    BY <1>0, <1>2, FieldFacts DEF Profile!ChangeLanguage, Profile!Rename, Profile!DeleteUser, Profile!Begin, Profile!history
  <2> QED  BY <2>1
<1> QED  BY <1>1, <1>2 DEF Starts

LEMMA UsedStep ==
    ASSUME Profile!TypeOK, AgreeInv, UsedInv, Profile!Next  PROVE UsedInv'
<1>0. Profile!Pictures \subseteq Profile!Fields
  BY FieldFacts
<1>1. CASE Elsewhere
  BY <1>1, ElsewhereEffect DEF UsedInv
<1>2. ASSUME NEW c \in Requests, Starts(c)  PROVE UsedInv'
  <2>1. Begun(c) /\ UNCHANGED value
    BY <1>2, StartEffect DEF Profile!user
  <2>2. \A k \in Profile!Pictures : call'[c].new[k] \in used' \cup {Null}
    BY <1>0, <1>2, <2>1, GivenEffect DEF Begun, UsedInv
  <2>3. used \subseteq used'
    BY <1>2, GivenEffect
  <2> QED  BY <2>1, <2>2, <2>3 DEF Begun, UsedInv
<1>3. ASSUME NEW c \in Requests, Profile!Load(c)  PROVE UsedInv'
  <2>1. call \in [Requests -> Profile!Calls \cup {Profile!Idle}] /\ call[c] \in Profile!Calls /\ UNCHANGED <<value, used>> /\ call[c] # Profile!Idle
    BY <1>3, CallShape DEF Profile!Load, Profile!At, Profile!TypeOK, Profile!Idle, Profile!user, Profile!history
  <2>2. \A d \in Requests \ {c} : call'[d] = call[d]
    BY <2>1, <1>3 DEF Profile!Load
  <2>3. call'[c].base = value /\ call'[c].old = call[c].old /\ call'[c].new = call[c].new
    BY <2>1, <1>3 DEF Profile!Load, Profile!Calls
  <2> QED  BY <2>1, <2>2, <2>3 DEF UsedInv
<1>4. ASSUME NEW c \in Requests, Profile!Save(c)  PROVE UsedInv'
  <2>1. call[c] \in Profile!Calls =>
           Profile!Forgets(call[c]).old = call[c].old /\ Profile!Forgets(call[c]).new = call[c].old /\ Profile!Forgets(call[c]).base = call[c].old
    BY DEF Profile!Forgets, Profile!Calls
  <2>2. call[c] # Profile!Idle /\ UNCHANGED used
    BY <1>4 DEF Profile!Save, Profile!At, Profile!Idle
  <2>3. /\ call'[c] = Profile!Idle \/ (call'[c].old = call[c].old /\ call'[c].new = call[c].old /\ call'[c].base = call[c].old)
        /\ \A d \in Requests \ {c} : call'[d] = call[d]
    BY <1>4, <2>1, SaveEffect
  <2>4. \A k \in Profile!Pictures : value'[k] \in {value[k], call[c].new[k]}
    BY <1>0, <1>4, SaveEffect
  <2> QED  BY <2>2, <2>3, <2>4 DEF UsedInv
<1>5. ASSUME NEW c \in Requests, Profile!UpdateUsername(c)  PROVE UsedInv'
  <2>1. \A k \in Profile!Pictures : value'[k] = value[k]
    BY <1>5, FieldFacts DEF Profile!UpdateUsername, Profile!TypeOK, Profile!Rows
  <2> QED  BY <1>5, <2>1 DEF UsedInv, Profile!UpdateUsername, Profile!Ends, Profile!TypeOK
<1>6. ASSUME NEW c \in Requests, Quiet(c)  PROVE UsedInv'
  <2>1. call'[c] = Profile!Idle \/ (call'[c].old = call[c].old /\ call'[c].new = call[c].new /\ call'[c].base = call[c].base)
    BY <1>6, QuietEffect, CallShape DEF Profile!Calls
  <2> QED  BY <1>6, <2>1, QuietEffect DEF UsedInv
<1> QED  BY <1>1, <1>2, <1>3, <1>4, <1>5, <1>6, NextCases

\* Which handlers go through which statements.
OpInv == \A c \in Requests :
    /\ call[c].at = "remove" => call[c].op = "leave"
    /\ call[c].at \in {"avatar", "cover", "queue"} => call[c].op \in {"edit", "leave"}
    /\ call[c] # Profile!Idle /\ call[c].op = "language" => call[c].gives = {"language"}

LEMMA OpStep ==
    ASSUME Profile!TypeOK, AgreeInv, OpInv, Profile!Next  PROVE OpInv'
<1>0. call \in [Requests -> Profile!Calls \cup {Profile!Idle}]
  BY DEF Profile!TypeOK
<1>1. CASE Elsewhere
  BY <1>1, ElsewhereEffect DEF OpInv
<1>2. ASSUME NEW c \in Requests, Starts(c)  PROVE OpInv'
  <2>1. Begun(c)
    BY <1>2, StartEffect
  <2> QED  BY <2>1 DEF Begun, OpInv
<1>3. ASSUME NEW c \in Requests, Profile!Load(c)  PROVE OpInv'
  <2>1. /\ call'[c].at = "save" /\ call'[c].op = call[c].op /\ call'[c].gives = call[c].gives
        /\ call[c] # Profile!Idle /\ \A d \in Requests \ {c} : call'[d] = call[d]
    BY <1>0, <1>3, CallShape DEF Profile!Load, Profile!At, Profile!Idle, Profile!Calls
  <2> QED  BY <2>1 DEF OpInv
<1>4. ASSUME NEW c \in Requests, Profile!Save(c)  PROVE OpInv'
  <2>1. call[c] \in Profile!Calls => Profile!Forgets(call[c]).at = "avatar" /\ Profile!Forgets(call[c]).op = call[c].op
    BY DEF Profile!Forgets, Profile!Calls
  <2>2. call'[c] = Profile!Idle \/ (call'[c].at = "avatar" /\ call'[c].op = "edit")
    BY <1>4, <2>1, SaveEffect
  <2> QED  BY <1>4, <2>2, SaveEffect DEF OpInv, Profile!Idle
<1>5. ASSUME NEW c \in Requests, Profile!UpdateUsername(c)  PROVE OpInv'
  BY <1>0, <1>5 DEF OpInv, Profile!UpdateUsername, Profile!Ends, Profile!Idle
<1>6. ASSUME NEW c \in Requests, Quiet(c)  PROVE OpInv'
  <2>1. call[c] \in Profile!Calls
    BY <1>6, QuietEffect, CallShape
  <2>2. call'[c].at = "idle" \/ (call'[c].op = call[c].op /\ call'[c].gives = call[c].gives)
    BY <1>0, <1>6, <2>1, QuietEffect DEF Profile!Calls
  <2>5. call[c] # Profile!Idle /\ (call'[c].at = "idle" => call'[c] = Profile!Idle)
    BY <1>6, QuietEffect
  <2>3. call'[c].at # "idle" => call[c].at \in {"remove", "avatar", "cover", "queue"}
    <3>1. Profile!Stop(c) => call'[c].at = "idle"
      BY <1>0 DEF Profile!Stop, Profile!Ends, Profile!Idle
    <3> QED  BY <1>6, <3>1 DEF Quiet, Profile!DropOld, Profile!QueueUpdate, Profile!SoftDelete, Profile!QueueDelete, Profile!At
  <2>4. call'[c].at # "idle" => call[c].op \in {"edit", "leave"}
    BY <2>3 DEF OpInv
  <2> QED  BY <1>6, <2>2, <2>4, <2>5, QuietEffect DEF OpInv, Profile!Idle
<1> QED  BY <1>1, <1>2, <1>3, <1>4, <1>5, <1>6, NextCases

\* A picture that has been given once, by c, is nobody else's, and no field's yet.
First(c, k) == call[c].new[k] \notin spent \cup {Null} =>
    /\ call[c].new[k] \in files
    /\ call[c].new[k] \notin {value[k], call[c].old[k], call[c].base[k]}
    /\ \A d \in Requests \ {c} : call[d] # Profile!Idle =>
          call[c].new[k] \notin {call[d].old[k], call[d].base[k], call[d].new[k]}
FirstInv == over = "no" =>
    \A c \in Requests : Profile!Editing(c) => \A k \in Profile!Pictures \cap call[c].gives : First(c, k)

LEMMA PictureValues ==
    ASSUME Profile!TypeOK, NEW c \in Requests, call[c] # Profile!Idle
    PROVE  /\ \A k \in Profile!Pictures, l \in Profile!Pictures : k # l =>
                 /\ call[c].old[k] = value[l] => value[l] = Null
                 /\ \A d \in Requests : call[d] # Profile!Idle /\ call[c].old[k] = call[d].new[l] => call[d].new[l] = Null
           /\ call[c] \in Profile!Calls
<1>1. \A d \in Requests : call[d] # Profile!Idle => call[d] \in Profile!Calls
  BY CallShape
<1>2. \A v \in Profile!Rows : v["avatar"] \in Avatars \cup {Null} /\ v["cover"] \in Covers \cup {Null}
  BY FieldFacts DEF Profile!Rows
<1>3. value \in Profile!Rows /\ \A d \in Requests : call[d] # Profile!Idle => call[d].old \in Profile!Rows /\ call[d].new \in Profile!Rows
  BY <1>1 DEF Profile!TypeOK, Profile!Calls
<1> QED  BY <1>1, <1>2, <1>3, FieldFacts

\* Files that leave the storage.
LEMMA FilesEffect ==
    ASSUME Profile!TypeOK, Elsewhere
    PROVE  spent \subseteq spent' /\ files \ spent' \subseteq files'
BY DEF Elsewhere, Profile!UploadAvatar, Profile!UploadCover, Profile!DeleteAvatar, Profile!DeleteCover, Profile!Upload, Profile!Remove, Profile!Post, Profile!QueueFollow, Profile!Decrement, Profile!Work,
   Profile!ReadUser, Profile!WriteUser, Profile!ReadTweet, Profile!WriteTweet, Profile!ReadCount, Profile!WriteCount, Profile!DeleteRow, Profile!DeleteDocs, Profile!Fail, Profile!user, Profile!history

LEMMA DropEffect ==
    ASSUME Profile!TypeOK, NEW c \in Requests, Quiet(c)
    PROVE  \/ UNCHANGED files
           \/ \E k \in Profile!Pictures : /\ files' = files \ {call[c].old[k]}
                                          /\ call[c].at \in {"avatar", "cover"}
                                          /\ call[c].op = "leave" \/ k \in call[c].gives
BY FieldFacts DEF Quiet, Profile!DropOld, Profile!QueueUpdate, Profile!SoftDelete, Profile!QueueDelete, Profile!Stop, Profile!At

LEMMA FirstStep ==
    ASSUME Profile!TypeOK, AgreeInv, LiveInv, UsedInv, FirstInv, Profile!Next, over' = "no"
    PROVE  FirstInv'
<1>0. over = "no" /\ Profile!Pictures \subseteq Profile!Fields
  BY LiveStep, FieldFacts
<1>1. CASE Elsewhere
  <2>1. UNCHANGED <<value, call>> /\ spent \subseteq spent' /\ files \ spent' \subseteq files'
    BY <1>1, ElsewhereEffect, FilesEffect
  <2> QED  BY <1>0, <2>1 DEF FirstInv, First, Profile!Editing
<1>2. ASSUME NEW e \in Requests, Starts(e)  PROVE FirstInv'
  <2>1. Begun(e) /\ UNCHANGED <<value, files>>
    BY <1>2, StartEffect DEF Profile!user
  <2>2. used \subseteq used' /\ spent \subseteq spent'
    BY <1>2, GivenEffect
  <2>3. ASSUME NEW k \in Profile!Pictures \cap call'[e].gives  PROVE First(e, k)'
    <3> DEFINE g == call'[e].new[k]
    <3>1. g \notin spent' \cup {Null} => g \in files /\ g \notin used
      BY <1>2, <2>3, GivenEffect
    <3>2. g \notin used /\ g # Null => /\ g # value[k]
                                   /\ \A d \in Requests \ {e} : call[d] # Profile!Idle =>
                                         g \notin {call[d].old[k], call[d].base[k], call[d].new[k]}
      BY DEF UsedInv
    <3> QED  BY <2>1, <3>1, <3>2 DEF First, Begun
  <2>4. ASSUME NEW c \in Requests \ {e}, Profile!Editing(c)', NEW k \in Profile!Pictures \cap call'[c].gives  PROVE First(c, k)'
    <3>1. call'[c] = call[c] /\ Profile!Editing(c) /\ k \in call[c].gives /\ call[c] # Profile!Idle
      BY <2>1, <2>4 DEF Begun, Profile!Editing, Profile!Idle
    <3>2. First(c, k)
      BY <1>0, <3>1 DEF FirstInv
    <3>3. call[c].new[k] \in used \cup {Null}
      BY <3>1 DEF UsedInv
    <3>4. call[c].new[k] \notin spent' \cup {Null} => call[c].new[k] # call'[e].new[k]
      <4>1. CASE k \in call'[e].gives
        BY <1>2, <3>3, <4>1, GivenEffect
      <4>2. CASE k \notin call'[e].gives
        BY <1>0, <2>1, <2>2, <3>2, <4>2 DEF First, Begun
      <4> QED  BY <4>1, <4>2
    <3> QED  BY <2>1, <2>2, <3>1, <3>2, <3>4 DEF First, Begun
  <2> QED  BY <2>3, <2>4 DEF FirstInv
<1>3. ASSUME NEW e \in Requests, Profile!Load(e)  PROVE FirstInv'
  <2>1. call \in [Requests -> Profile!Calls \cup {Profile!Idle}] /\ call[e] \in Profile!Calls /\ call[e] # Profile!Idle
    BY <1>3, CallShape DEF Profile!Load, Profile!At, Profile!TypeOK, Profile!Idle
  <2>2. \A d \in Requests \ {e} : call'[d] = call[d]
    BY <2>1, <1>3 DEF Profile!Load
  <2>3. /\ call'[e].base = value /\ call'[e].old = call[e].old /\ call'[e].new = call[e].new
        /\ call'[e].gives = call[e].gives /\ Profile!Editing(e)
    BY <2>1, <1>3 DEF Profile!Load, Profile!Calls, Profile!Editing, Profile!At
  <2>4. UNCHANGED <<value, files, spent>>
    BY <1>3 DEF Profile!Load, Profile!user, Profile!history
  <2>5. \A c \in Requests : Profile!Editing(c)' => Profile!Editing(c) /\ call'[c].gives = call[c].gives /\ call'[c].new = call[c].new
    BY <2>2, <2>3 DEF Profile!Editing
  <2>6. ASSUME NEW c \in Requests, NEW k, First(c, k)  PROVE First(c, k)'
    BY <2>1, <2>2, <2>3, <2>4, <2>6 DEF First
  <2> QED  BY <1>0, <2>5, <2>6 DEF FirstInv
<1>4. ASSUME NEW e \in Requests, Profile!Save(e)  PROVE FirstInv'
  <2>0. call'[e].at \in {"idle", "avatar"} /\ (call'[e] = Profile!Idle \/
           (call'[e].old = call[e].old /\ call'[e].new = call[e].old /\ call'[e].base = call[e].old))
    <3>1. call[e] \in Profile!Calls => /\ Profile!Forgets(call[e]).at = "avatar" /\ Profile!Forgets(call[e]).old = call[e].old
                                       /\ Profile!Forgets(call[e]).new = call[e].old /\ Profile!Forgets(call[e]).base = call[e].old
      BY DEF Profile!Forgets, Profile!Calls
    <3> QED  BY <1>4, <3>1, SaveEffect DEF Profile!Idle
  <2>1. ~(Profile!Editing(e)')
    BY <2>0 DEF Profile!Editing
  <2>2. UNCHANGED <<files, spent>> /\ call[e] # Profile!Idle
    BY <1>4 DEF Profile!Save, Profile!At, Profile!Idle
  <2>3. ASSUME NEW c \in Requests \ {e}, Profile!Editing(c)', NEW k \in Profile!Pictures \cap call'[c].gives  PROVE First(c, k)'
    <3>1. call'[c] = call[c] /\ Profile!Editing(c)
      BY <1>4, <2>3, SaveEffect DEF Profile!Editing
    <3>2. First(c, k)
      BY <1>0, <2>3, <3>1 DEF FirstInv
    <3>3. value'[k] \in {value[k], call[e].new[k]}
      BY <1>0, <1>4, <2>3, SaveEffect
    <3>4. \A d \in Requests \ {e} : call'[d] = call[d]
      BY <1>4, SaveEffect
    <3> QED  BY <2>0, <2>2, <3>1, <3>2, <3>3, <3>4 DEF First
  <2> QED  BY <2>1, <2>3 DEF FirstInv
<1>5. ASSUME NEW e \in Requests, Profile!UpdateUsername(e)  PROVE FirstInv'
  <2>1. \A k \in Profile!Pictures : value'[k] = value[k]
    BY <1>5, FieldFacts DEF Profile!UpdateUsername, Profile!TypeOK, Profile!Rows
  <2>2. call'[e] = Profile!Idle /\ \A d \in Requests \ {e} : call'[d] = call[d]
    BY <1>5 DEF Profile!UpdateUsername, Profile!Ends, Profile!TypeOK
  <2>3. UNCHANGED <<files, spent>>
    BY <1>5 DEF Profile!UpdateUsername
  <2> QED  BY <1>0, <2>1, <2>2, <2>3 DEF FirstInv, First, Profile!Editing, Profile!Idle
<1>6. ASSUME NEW e \in Requests, Quiet(e)  PROVE FirstInv'
  <2>1. /\ UNCHANGED <<value, spent>> /\ call[e] # Profile!Idle /\ ~(Profile!Editing(e)')
        /\ \A d \in Requests \ {e} : call'[d] = call[d]
    BY <1>6, QuietEffect DEF Profile!Editing
  <2>2. call'[e] = Profile!Idle \/ (call'[e].old = call[e].old /\ call'[e].new = call[e].new /\ call'[e].base = call[e].base)
    BY <1>6, QuietEffect, CallShape DEF Profile!Calls
  <2>3. ASSUME NEW c \in Requests \ {e}, Profile!Editing(c)', NEW k \in Profile!Pictures \cap call'[c].gives  PROVE First(c, k)'
    <3>1. call'[c] = call[c] /\ Profile!Editing(c) /\ call[c] # Profile!Idle
      BY <2>1, <2>3 DEF Profile!Editing, Profile!Idle
    <3>2. First(c, k)
      BY <1>0, <2>3, <3>1 DEF FirstInv
    <3>3. \A l \in Profile!Pictures : call[c].new[k] = call[e].old[l] => call[c].new[k] \in spent \cup {Null}
      BY <2>1, <2>3, <3>1, <3>2, PictureValues DEF First
    <3>4. call[c].new[k] \in files /\ call[c].new[k] \notin spent \cup {Null} => call[c].new[k] \in files'
      <4>1. CASE UNCHANGED files
        BY <4>1
      <4>2. CASE \E l \in Profile!Pictures : files' = files \ {call[e].old[l]}
        BY <3>3, <4>2
      <4> QED  BY <1>6, <4>1, <4>2, DropEffect
    <3> QED  BY <2>1, <2>2, <3>1, <3>2, <3>4 DEF First
  <2> QED  BY <2>1, <2>3 DEF FirstInv
<1> QED  BY <1>1, <1>2, <1>3, <1>4, <1>5, <1>6, NextCases

\* The picture that an edit replaces, and is about to delete, is nowhere else.
OldInv == over = "no" =>
    \A c \in Requests : Profile!Saved(c) => \A k \in (Profile!Pictures \cap call[c].gives) \ raced :
        value[k] = call[c].old[k] => value[k] \in spent \cup {Null}

LEMMA OldStep ==
    ASSUME Profile!TypeOK, AgreeInv, LiveInv, UsedInv, FirstInv, OldInv, OpInv, Profile!Next, over' = "no"
    PROVE  OldInv'
<1>0. over = "no" /\ Profile!Pictures \subseteq Profile!Fields /\ account = "live"
  BY LiveStep, FieldFacts DEF LiveInv
<1>1. CASE Elsewhere
  <2>1. UNCHANGED <<value, call, raced>> /\ spent \subseteq spent'
    BY <1>1, ElsewhereEffect, FilesEffect
  <2> QED  BY <1>0, <2>1 DEF OldInv, Profile!Saved
<1>2. ASSUME NEW e \in Requests, Starts(e)  PROVE OldInv'
  <2>1. Begun(e) /\ UNCHANGED <<value, raced>> /\ spent \subseteq spent'
    BY <1>2, StartEffect, GivenEffect DEF Profile!user
  <2> QED  BY <1>0, <2>1 DEF OldInv, Profile!Saved, Begun
<1>3. ASSUME NEW e \in Requests, Profile!Load(e)  PROVE OldInv'
  <2>1. /\ UNCHANGED <<value, raced, spent>> /\ call'[e].at = "save"
        /\ \A d \in Requests \ {e} : call'[d] = call[d]
    BY <1>3, CallShape DEF Profile!Load, Profile!At, Profile!Idle, Profile!Calls, Profile!user, Profile!history
  <2> QED  BY <1>0, <2>1 DEF OldInv, Profile!Saved
<1>4. ASSUME NEW e \in Requests, Profile!Save(e)  PROVE OldInv'
  <2>1. UNCHANGED spent /\ call[e] # Profile!Idle
    BY <1>4 DEF Profile!Save, Profile!At, Profile!Idle
  <2>2. ASSUME NEW c \in Requests, Profile!Saved(c)', NEW k \in (Profile!Pictures \cap call'[c].gives) \ raced',
               value'[k] = call'[c].old[k]
        PROVE  value'[k] \in spent \cup {Null}
    <3>1. /\ call'[c].old = call[c].old /\ call'[c].gives = call[c].gives /\ call[c] # Profile!Idle
          /\ c # e => Profile!Saved(c)
      <4>1. CASE c = e
        <5>1. call[e] \in Profile!Calls => /\ Profile!Forgets(call[e]).old = call[e].old /\ Profile!Forgets(call[e]).gives = call[e].gives
          BY DEF Profile!Forgets, Profile!Calls
        <5> QED  BY <1>4, <2>1, <2>2, <4>1, <5>1, SaveEffect DEF Profile!Saved, Profile!Idle
      <4>2. CASE c # e
        BY <1>4, <2>2, <4>2, SaveEffect DEF Profile!Saved, Profile!Idle
      <4> QED  BY <4>1, <4>2
    <3>2. CASE k \in call[e].gives
      <4>1. First(e, k)
        BY <1>0, <1>4, <2>2, <3>2, SaveEffect DEF FirstInv
      <4>2. value'[k] = call[e].new[k]
        BY <1>0, <1>4, <2>2, <3>2, SaveEffect DEF Written
      <4> QED  BY <2>2, <3>1, <4>1, <4>2 DEF First
    <3>3. CASE k \notin call[e].gives
      <4>1. k \notin raced /\ value'[k] = value[k]
        BY <1>0, <1>4, <2>2, <3>3, SaveEffect
      <4> QED  BY <1>0, <2>2, <3>1, <3>3, <4>1 DEF OldInv
    <3> QED  BY <3>2, <3>3
  <2> QED  BY <2>1, <2>2 DEF OldInv
<1>5. ASSUME NEW e \in Requests, Profile!UpdateUsername(e)  PROVE OldInv'
  <2>1. \A k \in Profile!Pictures : value'[k] = value[k] /\ (k \in raced => k \in raced')
    BY <1>5, FieldFacts DEF Profile!UpdateUsername, Profile!Sets, Profile!TypeOK, Profile!Rows
  <2>2. call'[e] = Profile!Idle /\ \A d \in Requests \ {e} : call'[d] = call[d]
    BY <1>5 DEF Profile!UpdateUsername, Profile!Ends, Profile!TypeOK
  <2>3. UNCHANGED spent
    BY <1>5 DEF Profile!UpdateUsername
  <2> QED  BY <1>0, <2>1, <2>2, <2>3 DEF OldInv, Profile!Saved, Profile!Idle
<1>6. ASSUME NEW e \in Requests, Quiet(e)  PROVE OldInv'
  <2>1. /\ UNCHANGED <<value, raced, spent>> /\ call[e] \in Profile!Calls
        /\ \A d \in Requests \ {e} : call'[d] = call[d]
    BY <1>6, QuietEffect, CallShape
  <2>2. Profile!Saved(e)' => Profile!Saved(e) /\ call'[e].old = call[e].old /\ call'[e].gives = call[e].gives
    <3>1. ~Profile!SoftDelete(e)
      BY <1>0 DEF Profile!SoftDelete
    <3>2. Profile!Stop(e) \/ Profile!QueueUpdate(e) \/ Profile!QueueDelete(e) => call'[e].at = "idle"
      BY DEF Profile!Stop, Profile!QueueUpdate, Profile!QueueDelete, Profile!Ends, Profile!Idle, Profile!TypeOK
    <3>3. call'[e].at # "idle" => call[e].at \in {"avatar", "cover"} /\ call' = [call EXCEPT ![e].at = call'[e].at]
      BY <1>6, <3>1, <3>2, QuietEffect DEF Quiet, Profile!DropOld, Profile!At
    <3> QED  BY <2>1, <3>3 DEF Profile!Saved, Profile!Calls, Profile!TypeOK
  <2> QED  BY <1>0, <2>1, <2>2 DEF OldInv, Profile!Saved
<1> QED  BY <1>1, <1>2, <1>3, <1>4, <1>5, <1>6, NextCases

LEMMA PictureStep ==
    ASSUME Profile!TypeOK, AgreeInv, LiveInv, UsedInv, FirstInv, OldInv, OpInv, Profile!PicturesThere, Profile!Next, over' = "no"
    PROVE  Profile!PicturesThere'
<1>0. over = "no" /\ Profile!Pictures \subseteq Profile!Fields /\ account = "live"
  BY LiveStep, FieldFacts DEF LiveInv
<1>1. CASE Elsewhere
  <2>1. UNCHANGED <<value, raced>> /\ spent \subseteq spent' /\ files \ spent' \subseteq files'
    BY <1>1, ElsewhereEffect, FilesEffect
  <2> QED  BY <1>0, <2>1 DEF Profile!PicturesThere
<1>2. ASSUME NEW e \in Requests, Starts(e)  PROVE Profile!PicturesThere'
  <2>1. UNCHANGED <<value, raced, files>> /\ spent \subseteq spent'
    BY <1>2, StartEffect, GivenEffect DEF Profile!user
  <2> QED  BY <1>0, <2>1 DEF Profile!PicturesThere
<1>3. ASSUME NEW e \in Requests, Profile!Load(e)  PROVE Profile!PicturesThere'
  BY <1>0, <1>3 DEF Profile!Load, Profile!PicturesThere, Profile!user, Profile!history
<1>4. ASSUME NEW e \in Requests, Profile!Save(e)  PROVE Profile!PicturesThere'
  <2>1. UNCHANGED <<files, spent>>
    BY <1>4 DEF Profile!Save
  <2>2. ASSUME NEW k \in Profile!Pictures \ raced'  PROVE value'[k] \in files \cup spent \cup {Null}
    <3>1. CASE k \in call[e].gives
      <4>1. First(e, k)
        BY <1>0, <1>4, <2>2, <3>1, SaveEffect DEF FirstInv
      <4>2. value'[k] = call[e].new[k]
        BY <1>0, <1>4, <2>2, <3>1, SaveEffect DEF Written
      <4> QED  BY <4>1, <4>2 DEF First
    <3>2. CASE k \notin call[e].gives
      <4>1. k \notin raced /\ value'[k] = value[k]
        BY <1>0, <1>4, <2>2, <3>2, SaveEffect
      <4> QED  BY <1>0, <4>1 DEF Profile!PicturesThere
    <3> QED  BY <3>1, <3>2
  <2> QED  BY <2>1, <2>2 DEF Profile!PicturesThere
<1>5. ASSUME NEW e \in Requests, Profile!UpdateUsername(e)  PROVE Profile!PicturesThere'
  <2>1. \A k \in Profile!Pictures : value'[k] = value[k] /\ (k \in raced => k \in raced')
    BY <1>5, FieldFacts DEF Profile!UpdateUsername, Profile!Sets, Profile!TypeOK, Profile!Rows
  <2>2. UNCHANGED <<files, spent>>
    BY <1>5 DEF Profile!UpdateUsername
  <2> QED  BY <1>0, <2>1, <2>2 DEF Profile!PicturesThere
<1>6. ASSUME NEW e \in Requests, Quiet(e)  PROVE Profile!PicturesThere'
  <2>1. UNCHANGED <<value, raced, spent>> /\ call[e] # Profile!Idle
    BY <1>6, QuietEffect
  <2>2. CASE UNCHANGED files
    BY <1>0, <2>1, <2>2 DEF Profile!PicturesThere
  <2>3. ASSUME NEW l \in Profile!Pictures, files' = files \ {call[e].old[l]}, call[e].at \in {"avatar", "cover"},
               call[e].op = "leave" \/ l \in call[e].gives
        PROVE  Profile!PicturesThere'
    <3>1. Profile!Saved(e) /\ l \in call[e].gives
      BY <1>0, <2>1, <2>3 DEF LiveInv, OpInv, Profile!Saved
    <3>2. ASSUME NEW k \in Profile!Pictures \ raced, value[k] = call[e].old[l]  PROVE value[k] \in spent \cup {Null}
      BY <1>0, <2>1, <3>1, <3>2, PictureValues DEF OldInv
    <3> QED  BY <1>0, <2>1, <2>3, <3>2 DEF Profile!PicturesThere
  <2> QED  BY <1>6, <2>2, <2>3, DropEffect
<1> QED  BY <1>1, <1>2, <1>3, <1>4, <1>5, <1>6, NextCases

-----------------------------------------------------------------------------
(* The numbers of a row stay as they are. *)

\* No request gives them, so that none of them has raced.
GivesInv ==
    /\ raced \cap Profile!Counts = {}
    /\ \A c \in Requests : call[c] # Profile!Idle => call[c].gives \cap Profile!Counts = {}

LEMMA GivesStep ==
    ASSUME Profile!TypeOK, AgreeInv, GivesInv, Profile!Next
    PROVE  GivesInv' /\ \A k \in Profile!Counts : last'[k] = last[k]
<1>0. call \in [Requests -> Profile!Calls \cup {Profile!Idle}] /\ last \in [Profile!Fields -> Profile!Anything]
      /\ Profile!Counts \subseteq Profile!Fields \ {"username"}
  BY FieldFacts DEF Profile!TypeOK, Profile!Rows
<1>1. CASE Elsewhere
  BY <1>1, ElsewhereEffect DEF GivesInv
<1>2. ASSUME NEW c \in Requests, Starts(c)
      PROVE  GivesInv' /\ \A k \in Profile!Counts : last'[k] = last[k]
  BY <1>2, StartEffect DEF GivesInv, Begun
<1>3. ASSUME NEW c \in Requests, Profile!Load(c)
      PROVE  GivesInv' /\ \A k \in Profile!Counts : last'[k] = last[k]
  <2>1. call[c] # Profile!Idle /\ call'[c].gives = call[c].gives /\ \A d \in Requests \ {c} : call'[d] = call[d]
    BY <1>0, <1>3 DEF Profile!Load, Profile!At, Profile!Idle, Profile!Calls
  <2>2. UNCHANGED <<last, raced>>
    BY <1>3 DEF Profile!Load, Profile!history
  <2> QED  BY <2>1, <2>2 DEF GivesInv
<1>4. ASSUME NEW c \in Requests, Profile!Save(c)
      PROVE  GivesInv' /\ \A k \in Profile!Counts : last'[k] = last[k]
  <2>1. call[c] \in Profile!Calls /\ call[c] # Profile!Idle /\ call[c].gives \cap Profile!Counts = {}
    BY <1>4, SaveEffect DEF GivesInv, Profile!At, Profile!Idle
  <2>2. Profile!Forgets(call[c]).gives = call[c].gives
    BY <2>1 DEF Profile!Forgets, Profile!Calls
  <2>3. \A d \in Requests : call'[d] # Profile!Idle => call'[d].gives \cap Profile!Counts = {}
    BY <1>4, <2>1, <2>2, SaveEffect DEF GivesInv
  <2>4. UNCHANGED <<last, raced>> \/ Profile!Sets(c, call[c].gives, call[c].base)
    BY <1>4 DEF Profile!Save
  <2>5. raced' \cap Profile!Counts = {} /\ \A k \in Profile!Counts : last'[k] = last[k]
    BY <1>0, <2>1, <2>4 DEF GivesInv, Profile!Sets
  <2> QED  BY <2>3, <2>5 DEF GivesInv
<1>5. ASSUME NEW c \in Requests, Profile!UpdateUsername(c)
      PROVE  GivesInv' /\ \A k \in Profile!Counts : last'[k] = last[k]
  <2>1. UNCHANGED <<last, raced>> \/ Profile!Sets(c, {"username"}, value)
    BY <1>5 DEF Profile!UpdateUsername
  <2>2. raced' \cap Profile!Counts = {} /\ \A k \in Profile!Counts : last'[k] = last[k]
    BY <1>0, <2>1 DEF GivesInv, Profile!Sets
  <2>3. call'[c] = Profile!Idle /\ \A d \in Requests \ {c} : call'[d] = call[d]
    BY <1>0, <1>5 DEF Profile!UpdateUsername, Profile!Ends
  <2> QED  BY <2>2, <2>3 DEF GivesInv
<1>6. ASSUME NEW c \in Requests, Quiet(c)
      PROVE  GivesInv' /\ \A k \in Profile!Counts : last'[k] = last[k]
  <2>1. call[c] \in Profile!Calls
    BY <1>6, QuietEffect, CallShape
  <2>2. call'[c] = Profile!Idle \/ call'[c].gives = call[c].gives
    BY <1>0, <1>6, <2>1, QuietEffect DEF Profile!Calls
  <2> QED  BY <1>6, <2>2, QuietEffect DEF GivesInv
<1> QED  BY <1>1, <1>2, <1>3, <1>4, <1>5, <1>6, NextCases

LEMMA NumbersStay ==
    ASSUME Profile!TypeOK, AgreeInv, GivesInv, Profile!Next
    PROVE  \A k \in Profile!Counts : value'[k] = value[k]
<1>1. GivesInv' /\ AgreeInv' /\ \A k \in Profile!Counts : last'[k] = last[k] /\ k \in Profile!Fields
  BY GivesStep, AgreeStep, FieldFacts
<1> QED  BY <1>1 DEF GivesInv, AgreeInv

-----------------------------------------------------------------------------
(* The documents say what the row does. *)

\* Every edit is told, or is being told by a job that has read the row.
Settled ==
    /\ \A c \in Requests : ~Profile!Saved(c)
    /\ \A j \in Jobs : ~Profile!Is(j, "update", "waiting")

\* A job that will write all that it has read.
Carries(j) == task[j].at = "write" /\ task[j].kind \notin Profile!Counts

\* When no edit is still to be told, nor told anew, jobs have read what the row says.
ToldInv == over = "no" /\ Settled =>
    \A f \in Profile!Own \ (raced \cup lapsed) :
        /\ \A j \in Jobs : Carries(j) => task[j].seen[f] = value[f]
        /\ (\A j \in Jobs : ~Profile!Is(j, "update", "write")) => shown = Profile!NoDoc \/ shown[f] = value[f]

\* The numbers are those of the row, in every job that has read it and, until a
\* neighbour ends, in the documents.
NumbersInv == over = "no" => \A k \in Profile!Counts :
    /\ \A j \in Jobs : task[j].at = "write" => task[j].seen[k] = value[k]
    /\ k \notin lapsed => shown = Profile!NoDoc \/ shown[k] = value[k]

LEMMA ToldWork ==
    ASSUME Profile!TypeOK, LiveInv, ToldInv, NEW j \in Jobs, Profile!Work(j), over = "no"
    PROVE  ToldInv'
<1>1. /\ task[j] \in Profile!TaskStates /\ task \in [Jobs -> Profile!TaskStates \cup {Profile!Free}]
      /\ task[j].kind # "delete" /\ account = "live"
  BY TaskType DEF LiveInv, Profile!Work, Profile!ReadUser, Profile!WriteUser, Profile!ReadTweet, Profile!WriteTweet, Profile!ReadCount, Profile!WriteCount, Profile!DeleteRow, Profile!DeleteDocs, Profile!Fail, Profile!Is
<1>2. UNCHANGED <<value, call, raced, over>>
  BY ElsewhereEffect DEF Elsewhere
<1>3. \A i \in Jobs \ {j} : task'[i] = task[i]
  BY <1>1 DEF Profile!Work, Profile!ReadUser, Profile!WriteUser, Profile!ReadTweet, Profile!WriteTweet, Profile!ReadCount, Profile!WriteCount, Profile!DeleteRow, Profile!DeleteDocs, Profile!Fail, Profile!Reads, Profile!Complete
<1>4. CASE Profile!ReadUser(j)
  <2>1. /\ task'[j].at = "write" /\ task'[j].kind = "update" /\ task'[j].seen = Profile!Author
        /\ UNCHANGED shown /\ lapsed' = IF Profile!InHand(j) THEN lapsed \cup Profile!Own ELSE lapsed \ Profile!Own
    <3>1. task[j].kind = "update" /\ Profile!Reads(j, Profile!Author) /\ UNCHANGED shown
          /\ lapsed' = IF Profile!InHand(j) THEN lapsed \cup Profile!Own ELSE lapsed \ Profile!Own
      BY <1>1, <1>4 DEF Profile!ReadUser, Profile!Is, Profile!user
    <3>2. task'[j] = [task[j] EXCEPT !.at = "write", !.seen = Profile!Author]
      BY <1>1, <3>1 DEF Profile!Reads
    <3>. QED  BY <1>1, <3>1, <3>2 DEF Profile!TaskStates
  <2>2. CASE Profile!InHand(j)
    BY <2>1, <2>2 DEF ToldInv
  <2>3. CASE ~Profile!InHand(j)
    <3>1. \A i \in Jobs \ {j} : ~Carries(i)'
      BY <1>3, <2>3 DEF Profile!InHand, Carries
    <3>2. Profile!Is(j, "update", "write")'
      BY <2>1 DEF Profile!Is
    <3>3. \A f \in Profile!Own : task'[j].seen[f] = value'[f]
      BY <1>2, <2>1, FieldFacts DEF Profile!Author
    <3> QED  BY <3>1, <3>2, <3>3 DEF ToldInv
  <2> QED  BY <2>2, <2>3
<1>5. CASE Profile!WriteUser(j) \/ Profile!WriteTweet(j)
  <2>1. /\ task'[j] = Profile!Free /\ lapsed' = lapsed \ Profile!Counts /\ Carries(j)
        /\ shown' = Profile!NoDoc \/ shown' = task[j].seen
    <3>1. task[j].at = "write" /\ task[j].kind \in {"update", "index"} /\ task' = [task EXCEPT ![j] = Profile!Free]
      BY <1>5 DEF Profile!WriteUser, Profile!WriteTweet, Profile!Complete, Profile!Is
    <3>2. lapsed' = lapsed \ Profile!Counts /\ (shown' = Profile!NoDoc \/ shown' = task[j].seen)
      BY <1>5 DEF Profile!WriteUser, Profile!WriteTweet
    <3>3. Carries(j)
      BY <3>1, FieldFacts DEF Carries
    <3> QED  BY <1>1, <3>1, <3>2, <3>3
  <2>2. Settled' => Settled
      <3>1. task[j].at = "write"
        BY <2>1 DEF Carries
      <3>2. \A i \in Jobs : Profile!Is(i, "update", "waiting") => Profile!Is(i, "update", "waiting")'
        BY <1>3, <3>1 DEF Profile!Is
      <3> QED  BY <1>2, <3>2 DEF Settled, Profile!Saved
  <2>3. ASSUME Settled', NEW f \in Profile!Own \ (raced \cup lapsed)
        PROVE  /\ \A i \in Jobs : Carries(i)' => task'[i].seen[f] = value'[f]
               /\ shown' = Profile!NoDoc \/ shown'[f] = value'[f]
    <3>1. \A i \in Jobs : Carries(i) => task[i].seen[f] = value[f]
      BY <2>2, <2>3 DEF ToldInv
    <3>2. \A i \in Jobs : Carries(i)' => Carries(i) /\ task'[i] = task[i]
      <4>1. ~Carries(j)'
        BY <2>1 DEF Profile!Free, Carries
      <4> QED  BY <1>3, <4>1 DEF Carries
    <3>3. value'[f] = value[f]
      BY <1>2
    <3>4. \A i \in Jobs : Carries(i)' => task'[i].seen[f] = value'[f]
      BY <3>1, <3>2, <3>3
    <3>5. shown' = Profile!NoDoc \/ shown'[f] = value'[f]
      BY <2>1, <3>1, <3>3
    <3> QED  BY <3>4, <3>5
  <2>4. \A f \in Profile!Own : f \in lapsed' <=> f \in lapsed
    BY <2>1, FieldFacts
  <2> QED  BY <1>2, <2>1, <2>3, <2>4 DEF ToldInv
<1>6. CASE Profile!ReadTweet(j)
  <2>1. /\ task[j].kind = "index" /\ task[j].at = "waiting" /\ UNCHANGED <<shown, lapsed>>
        /\ task'[j] = Profile!Free \/ (task'[j].at = "write" /\ task'[j].kind = "index" /\ task'[j].seen = Profile!Author)
    <3>1. Profile!Is(j, "index", "waiting") /\ UNCHANGED <<shown, lapsed>> /\ (Profile!Reads(j, Profile!Author) \/ Profile!Complete(j))
      BY <1>1, <1>6 DEF Profile!ReadTweet, Profile!user, Profile!history
    <3>2. Profile!Reads(j, Profile!Author) => task'[j].at = "write" /\ task'[j].kind = task[j].kind /\ task'[j].seen = Profile!Author
      BY <1>1 DEF Profile!Reads, Profile!TaskStates
    <3>3. Profile!Complete(j) => task'[j] = Profile!Free
      BY <1>1 DEF Profile!Complete
    <3> QED  BY <3>1, <3>2, <3>3 DEF Profile!Is
  <2>2. Settled' => Settled
    BY <1>2, <1>3, <2>1 DEF Settled, Profile!Saved, Profile!Is
  <2>3. \A f \in Profile!Own : task'[j].at = "write" => task'[j].seen[f] = value'[f]
    BY <1>2, <2>1, FieldFacts DEF Profile!Author, Profile!Free
  <2>4. (\A i \in Jobs : ~Profile!Is(i, "update", "write")') => \A i \in Jobs : ~Profile!Is(i, "update", "write")
    BY <1>3, <2>1 DEF Profile!Is
  <2> QED  BY <1>2, <1>3, <2>1, <2>2, <2>3, <2>4 DEF ToldInv, Carries
<1>7. CASE Profile!Fail(j)
  <2>1. /\ task'[j].at # "write" /\ UNCHANGED shown
        /\ \/ task'[j].at = "waiting" /\ task'[j].kind = task[j].kind /\ UNCHANGED lapsed
           \/ task[j].kind # "update" /\ UNCHANGED lapsed
           \/ lapsed' = lapsed \cup Profile!Own
    BY <1>1, <1>7 DEF Profile!Fail, Profile!Free, Profile!NewTask, Profile!user
  <2>2. CASE task[j].kind = "update"
    BY <2>1, <2>2, <1>2, <1>3, FieldFacts DEF ToldInv, Settled, Profile!Is, Carries
  <2>3. CASE task[j].kind # "update"
    <3>1. UNCHANGED lapsed
      BY <1>1, <1>7, <2>3 DEF Profile!Fail
    <3>2. Settled' => Settled
      BY <1>2, <1>3, <2>3 DEF Settled, Profile!Saved, Profile!Is
    <3>3. (\A i \in Jobs : ~Profile!Is(i, "update", "write")') => \A i \in Jobs : ~Profile!Is(i, "update", "write")
      BY <1>3, <2>3 DEF Profile!Is
    <3> QED  BY <1>2, <1>3, <2>1, <3>1, <3>2, <3>3 DEF ToldInv, Carries
  <2> QED  BY <2>2, <2>3
<1>8. ASSUME NEW k \in Profile!Counts, Profile!ReadCount(j, k) \/ Profile!WriteCount(j, k)  PROVE ToldInv'
  <2>1. /\ task[j].kind = k /\ k \notin Profile!Own /\ k # "update"
        /\ task'[j] = Profile!Free \/ task'[j].kind = k
        /\ \A f \in Profile!Own : f \in lapsed' <=> f \in lapsed
    <3>1. task[j].kind = k /\ k \notin Profile!Own /\ k # "update"
      BY <1>8, FieldFacts DEF Profile!ReadCount, Profile!WriteCount, Profile!Is
    <3>2. Profile!Complete(j) \/ Profile!Reads(j, Profile!Author)
      BY <1>8 DEF Profile!ReadCount, Profile!WriteCount
    <3>3. lapsed' \in {lapsed, lapsed \ {k}}
      BY <1>8 DEF Profile!ReadCount, Profile!WriteCount, Profile!history
    <3>4. Profile!Complete(j) => task'[j] = Profile!Free
      BY <1>1 DEF Profile!Complete
    <3>5. Profile!Reads(j, Profile!Author) => task'[j].kind = task[j].kind
      BY <1>1 DEF Profile!Reads, Profile!TaskStates
    <3> QED  BY <3>1, <3>2, <3>3, <3>4, <3>5
  <2>2. shown' = Profile!NoDoc \/ (shown # Profile!NoDoc /\ \A f \in Profile!Own : shown'[f] = shown[f])
    <3>1. shown # Profile!NoDoc => shown \in [Profile!Shown -> Profile!Anything] /\ Profile!Own \subseteq Profile!Shown
      BY FieldFacts DEF Profile!TypeOK
    <3> QED  BY <1>8, <2>1, <3>1 DEF Profile!ReadCount, Profile!WriteCount, Profile!user
  <2>3. ~(Carries(j)') /\ \A i \in Jobs \ {j} : Carries(i)' <=> Carries(i)
    BY <1>3, <2>1 DEF Carries, Profile!Free
  <2>4. /\ Settled' => Settled
        /\ (\A i \in Jobs : ~Profile!Is(i, "update", "write")') => \A i \in Jobs : ~Profile!Is(i, "update", "write")
    BY <1>2, <1>3, <2>1 DEF Settled, Profile!Saved, Profile!Is
  <2> QED  BY <1>2, <1>3, <2>1, <2>2, <2>3, <2>4 DEF ToldInv
<1> QED  BY <1>1, <1>4, <1>5, <1>6, <1>7, <1>8 DEF Profile!Work, Profile!DeleteRow, Profile!DeleteDocs, Profile!Is

LEMMA ToldStep ==
    ASSUME Profile!TypeOK, AgreeInv, LiveInv, OpInv, ToldInv, Profile!Next, over' = "no"
    PROVE  ToldInv'
<1>0. over = "no" /\ account = "live" /\ Profile!Own \subseteq Profile!Fields \ {"language"}
  BY LiveStep, FieldFacts DEF LiveInv
<1>1. CASE Elsewhere
  <2>1. CASE \E j \in Jobs : Profile!Work(j)
    BY <1>0, <2>1, ToldWork
  <2>2. CASE Profile!Post
    <3>1. UNCHANGED <<value, call, raced, lapsed, shown>>
      BY <2>2 DEF Profile!Post, Profile!user, Profile!history
    <3>2. PICK j \in Jobs : task[j] = Profile!Free /\ task' = [task EXCEPT ![j] = Profile!NewTask("index", Tries)]
      BY <2>2 DEF Profile!Post, Profile!Add
    <3>3. task'[j].kind = "index" /\ task'[j].at = "waiting" /\ \A i \in Jobs \ {j} : task'[i] = task[i]
      BY <3>2 DEF Profile!NewTask, Profile!TypeOK
    <3> QED  BY <1>0, <3>1, <3>2, <3>3 DEF ToldInv, Settled, Profile!Saved, Profile!Is, Profile!Free, Carries
  <2>3. CASE Profile!UploadAvatar \/ Profile!UploadCover \/ Profile!DeleteAvatar \/ Profile!DeleteCover
    <3>1. UNCHANGED <<value, call, raced, lapsed, shown, task>>
      BY <2>3 DEF Profile!UploadAvatar, Profile!UploadCover, Profile!DeleteAvatar, Profile!DeleteCover, Profile!Upload, Profile!Remove, Profile!user, Profile!history
    <3> QED  BY <1>0, <3>1 DEF ToldInv, Settled, Profile!Saved, Profile!Is, Carries
  <2>4. ASSUME NEW k \in Profile!Counts, Profile!QueueFollow(k)  PROVE ToldInv'
    <3>1. UNCHANGED <<value, call, raced, lapsed, shown>> /\ k # "update"
      BY <2>4, FieldFacts DEF Profile!QueueFollow, Profile!user, Profile!history
    <3>2. PICK j \in Jobs : task[j] = Profile!Free /\ task' = [task EXCEPT ![j] = Profile!NewTask(k, Tries)]
      BY <2>4 DEF Profile!QueueFollow, Profile!Add
    <3>3. task'[j].kind = k /\ task'[j].at = "waiting" /\ \A i \in Jobs \ {j} : task'[i] = task[i]
      BY <3>2 DEF Profile!NewTask, Profile!TypeOK
    <3> QED  BY <1>0, <3>1, <3>2, <3>3 DEF ToldInv, Settled, Profile!Saved, Profile!Is, Profile!Free, Carries
  <2>5. ASSUME NEW k \in Profile!Counts, Profile!Decrement(k)  PROVE ToldInv'
    <3>1. UNCHANGED <<value, call, raced, task>> /\ k \notin Profile!Own
      BY <2>5, FieldFacts DEF Profile!Decrement, Profile!user
    <3>2. lapsed' = lapsed \cup {k} /\ \A f \in Profile!Own : shown'[f] = shown[f]
      BY <2>5, <3>1, FieldFacts DEF Profile!Decrement, Profile!TypeOK
    <3>3. shown # Profile!NoDoc
      BY <2>5 DEF Profile!Decrement
    <3> QED  BY <1>0, <3>1, <3>2, <3>3 DEF ToldInv, Settled, Profile!Saved, Profile!Is, Carries
  <2> QED  BY <1>1, <2>1, <2>2, <2>3, <2>4, <2>5 DEF Elsewhere
<1>2. ASSUME NEW e \in Requests, Starts(e)  PROVE ToldInv'
  <2>1. Begun(e) /\ UNCHANGED <<value, raced, lapsed, shown, task>>
    BY <1>2, StartEffect DEF Profile!user
  <2>2. \A c \in Requests : Profile!Saved(c) => Profile!Saved(c)'
    BY <2>1 DEF Begun, Profile!Saved, Profile!Idle
  <2> QED  BY <1>0, <2>1, <2>2 DEF ToldInv, Settled, Profile!Is, Carries
<1>3. ASSUME NEW e \in Requests, Profile!Load(e)  PROVE ToldInv'
  <2>1. UNCHANGED <<value, raced, lapsed, shown, task>>
    BY <1>3 DEF Profile!Load, Profile!user, Profile!history
  <2>2. \A c \in Requests : Profile!Saved(c) => Profile!Saved(c)'
    BY <1>3, CallShape DEF Profile!Load, Profile!At, Profile!Saved
  <2> QED  BY <1>0, <2>1, <2>2 DEF ToldInv, Settled, Profile!Is, Carries
<1>4. ASSUME NEW e \in Requests, Profile!Save(e)  PROVE ToldInv'
  <2>1. UNCHANGED <<lapsed, shown, task>> /\ call[e] # Profile!Idle
    BY <1>4 DEF Profile!Save, Profile!At, Profile!Idle
  <2>2. CASE call[e].op = "edit"
    <3>1. call[e] \in Profile!Calls => Profile!Forgets(call[e]).at = "avatar" /\ Profile!Forgets(call[e]).op = call[e].op
      BY DEF Profile!Forgets, Profile!Calls
    <3>2. Profile!Saved(e)'
      BY <1>4, <2>2, <3>1, SaveEffect DEF Profile!Saved
    <3> QED  BY <3>2 DEF ToldInv, Settled
  <2>3. CASE call[e].op = "language"
    <3>1. call[e].gives = {"language"}
      BY <2>1, <2>3 DEF OpInv
    <3>2. \A f \in Profile!Own \ raced' : f \notin raced /\ value'[f] = value[f]
      BY <1>0, <1>4, <3>1, SaveEffect
    <3>3. \A c \in Requests : Profile!Saved(c) => Profile!Saved(c)'
      BY <1>4, <2>3, SaveEffect DEF Profile!Saved, Profile!At
    <3> QED  BY <1>0, <2>1, <3>2, <3>3 DEF ToldInv, Settled, Profile!Is, Carries
  <2> QED  BY <1>4, <2>2, <2>3, SaveEffect
<1>5. ASSUME NEW e \in Requests, Profile!UpdateUsername(e)  PROVE ToldInv'
  <2>1. \A f \in Profile!Own \ {"username"} : value'[f] = value[f] /\ (f \in raced => f \in raced')
    BY <1>0, <1>5 DEF Profile!UpdateUsername, Profile!Sets, Profile!TypeOK, Profile!Rows
  <2>2. lapsed' = lapsed \cup {"username"} /\ UNCHANGED <<shown, task>>
    BY <1>0, <1>5 DEF Profile!UpdateUsername
  <2>3. \A c \in Requests : Profile!Saved(c) => Profile!Saved(c)'
    BY <1>5 DEF Profile!UpdateUsername, Profile!At, Profile!Ends, Profile!Saved, Profile!TypeOK
  <2> QED  BY <1>0, <2>1, <2>2, <2>3 DEF ToldInv, Settled, Profile!Is, Carries
<1>6. ASSUME NEW e \in Requests, Quiet(e)  PROVE ToldInv'
  <2>0. ~Profile!SoftDelete(e) /\ ~Profile!QueueDelete(e)
    BY <1>0 DEF Profile!SoftDelete, Profile!QueueDelete, LiveInv, Profile!At, Profile!Idle
  <2>1. /\ UNCHANGED <<value, raced, shown>> /\ call[e] \in Profile!Calls
        /\ \A d \in Requests \ {e} : call'[d] = call[d]
    BY <1>6, QuietEffect, CallShape
  <2>2. CASE Profile!DropOld(e, "avatar", "cover") \/ Profile!DropOld(e, "cover", "queue")
    <3>1. UNCHANGED <<lapsed, task>> /\ (Profile!Saved(e) => Profile!Saved(e)')
      BY <2>1, <2>2 DEF Profile!DropOld, Profile!Goes, Profile!Saved, Profile!Calls, Profile!TypeOK, Profile!history
    <3> QED  BY <1>0, <2>1, <3>1 DEF ToldInv, Settled, Profile!Saved, Profile!Is, Carries
  <2>3. CASE Profile!QueueUpdate(e)
    <3>1. CASE Profile!Add("update")
      <4>1. \E j \in Jobs : Profile!Is(j, "update", "waiting")'
        BY <3>1 DEF Profile!Add, Profile!NewTask, Profile!Is, Profile!TypeOK
      <4> QED  BY <4>1 DEF ToldInv, Settled
    <3>2. CASE lapsed' = lapsed \cup Profile!Own
      BY <3>2 DEF ToldInv
    <3> QED  BY <2>3, <3>1, <3>2 DEF Profile!QueueUpdate
  <2>4. CASE Profile!Stop(e)
    <3>1. CASE Profile!Saved(e)
      BY <2>4, <3>1 DEF Profile!Stop, ToldInv
    <3>2. CASE ~Profile!Saved(e)
      <4>1. UNCHANGED <<lapsed, task>>
        BY <2>4, <3>2 DEF Profile!Stop
      <4> QED  BY <1>0, <2>1, <3>2, <4>1 DEF ToldInv, Settled, Profile!Saved, Profile!Is, Carries
    <3> QED  BY <3>1, <3>2
  <2> QED  BY <1>6, <2>0, <2>2, <2>3, <2>4 DEF Quiet
<1> QED  BY <1>1, <1>2, <1>3, <1>4, <1>5, <1>6, NextCases

LEMMA NumbersStep ==
    ASSUME Profile!TypeOK, AgreeInv, GivesInv, LiveInv, NumbersInv, Profile!Next, over' = "no"
    PROVE  NumbersInv'
<1>0. /\ over = "no" /\ account = "live" /\ \A k \in Profile!Counts : value'[k] = value[k]
      /\ Profile!Counts \subseteq Profile!Shown /\ Profile!Counts \cap Profile!Own = {}
      /\ \A k \in Profile!Counts : k \notin {"username", "update", "index", "delete"}
  BY LiveStep, NumbersStay, FieldFacts DEF LiveInv
<1>1. ASSUME UNCHANGED <<shown, task>>, \A k \in Profile!Counts : k \in lapsed' <=> k \in lapsed
      PROVE  NumbersInv'
  BY <1>0, <1>1 DEF NumbersInv
<1>2. ASSUME NEW j \in Jobs, Profile!Work(j)  PROVE NumbersInv'
  <2>1. /\ task[j] \in Profile!TaskStates /\ task \in [Jobs -> Profile!TaskStates \cup {Profile!Free}]
        /\ task[j].kind # "delete"
    BY <1>0, <1>2, TaskType DEF LiveInv, Profile!Work, Profile!ReadUser, Profile!WriteUser, Profile!ReadTweet, Profile!WriteTweet,
       Profile!ReadCount, Profile!WriteCount, Profile!DeleteRow, Profile!DeleteDocs, Profile!Fail, Profile!Is
  <2>2. \A i \in Jobs \ {j} : task'[i] = task[i]
    BY <1>2, <2>1 DEF Profile!Work, Profile!ReadUser, Profile!WriteUser, Profile!ReadTweet, Profile!WriteTweet,
       Profile!ReadCount, Profile!WriteCount, Profile!DeleteRow, Profile!DeleteDocs, Profile!Fail, Profile!Reads, Profile!Complete
  <2>3. ASSUME UNCHANGED shown, \A k \in Profile!Counts : k \in lapsed' <=> k \in lapsed,
               Profile!Complete(j) \/ Profile!Reads(j, Profile!Author)
        PROVE  NumbersInv'
    <3>1. Profile!Reads(j, Profile!Author) => task'[j].seen = Profile!Author
      BY <2>1 DEF Profile!Reads, Profile!TaskStates
    <3>2. Profile!Complete(j) => task'[j].at # "write"
      BY <2>1 DEF Profile!Complete, Profile!Free
    <3>3. \A k \in Profile!Counts : task'[j].at = "write" => task'[j].seen[k] = value'[k]
      BY <1>0, <2>3, <3>1, <3>2 DEF Profile!Author
    <3> QED  BY <1>0, <2>2, <2>3, <3>3 DEF NumbersInv
  <2>4. CASE Profile!ReadUser(j) \/ Profile!ReadTweet(j) \/ \E k \in Profile!Counts : Profile!ReadCount(j, k)
    <3>1. UNCHANGED shown /\ (Profile!Complete(j) \/ Profile!Reads(j, Profile!Author))
      BY <1>0, <2>4 DEF Profile!ReadUser, Profile!ReadTweet, Profile!ReadCount
    <3>2. lapsed' \in {lapsed, lapsed \cup Profile!Own, lapsed \ Profile!Own}
      BY <2>4 DEF Profile!ReadUser, Profile!ReadTweet, Profile!ReadCount, Profile!history
    <3> QED  BY <1>0, <2>3, <3>1, <3>2
  <2>5. CASE Profile!WriteUser(j) \/ Profile!WriteTweet(j)
    <3>1. task[j].at = "write" /\ task'[j].at # "write" /\ (shown' = Profile!NoDoc \/ shown' = task[j].seen)
      BY <2>1, <2>5 DEF Profile!WriteUser, Profile!WriteTweet, Profile!Is, Profile!Complete, Profile!Free
    <3> QED  BY <1>0, <2>2, <3>1 DEF NumbersInv
  <2>6. ASSUME NEW k \in Profile!Counts, Profile!WriteCount(j, k)  PROVE NumbersInv'
    <3>1. task[j].at = "write" /\ task'[j].at # "write" /\ lapsed' = lapsed \ {k}
      BY <2>1, <2>6 DEF Profile!WriteCount, Profile!Is, Profile!Complete, Profile!Free
    <3>2. shown' = Profile!NoDoc \/ (shown # Profile!NoDoc /\ shown'[k] = task[j].seen[k]
                                     /\ \A l \in Profile!Counts \ {k} : shown'[l] = shown[l])
      <4>1. shown # Profile!NoDoc => shown \in [Profile!Shown -> Profile!Anything]
        BY DEF Profile!TypeOK
      <4> QED  BY <1>0, <2>6, <4>1 DEF Profile!WriteCount
    <3> QED  BY <1>0, <2>2, <3>1, <3>2 DEF NumbersInv
  <2>7. CASE Profile!Fail(j)
    <3>1. task'[j].at # "write" /\ UNCHANGED shown /\ lapsed' \in {lapsed, lapsed \cup Profile!Own}
      BY <2>1, <2>7 DEF Profile!Fail, Profile!Free, Profile!NewTask, Profile!user
    <3> QED  BY <1>0, <2>2, <3>1 DEF NumbersInv
  <2> QED  BY <1>2, <2>1, <2>4, <2>5, <2>6, <2>7 DEF Profile!Work, Profile!DeleteRow, Profile!DeleteDocs, Profile!Is
<1>3. ASSUME NEW kind \in {"update", "index", "delete"} \cup Profile!Counts, Profile!Add(kind), UNCHANGED <<shown, lapsed>>
      PROVE  NumbersInv'
  <2>1. PICK j \in Jobs : task[j] = Profile!Free /\ task' = [task EXCEPT ![j] = Profile!NewTask(kind, Tries)]
    BY <1>3 DEF Profile!Add
  <2>2. task'[j].at # "write" /\ \A i \in Jobs \ {j} : task'[i] = task[i]
    BY <2>1 DEF Profile!NewTask, Profile!TypeOK
  <2> QED  BY <1>0, <1>3, <2>2 DEF NumbersInv
<1>4. ASSUME NEW k \in Profile!Counts, Profile!Decrement(k)  PROVE NumbersInv'
  <2>1. UNCHANGED task /\ lapsed' = lapsed \cup {k} /\ shown # Profile!NoDoc
        /\ \A l \in Profile!Counts \ {k} : shown'[l] = shown[l]
    BY <1>0, <1>4 DEF Profile!Decrement, Profile!TypeOK
  <2> QED  BY <1>0, <2>1 DEF NumbersInv
<1>5. CASE Elsewhere
  <2>1. CASE Profile!UploadAvatar \/ Profile!UploadCover \/ Profile!DeleteAvatar \/ Profile!DeleteCover
    BY <1>1, <2>1 DEF Profile!UploadAvatar, Profile!UploadCover, Profile!DeleteAvatar, Profile!DeleteCover, Profile!Upload,
       Profile!Remove, Profile!history
  <2>2. CASE Profile!Post
    BY <1>3, <2>2 DEF Profile!Post, Profile!history
  <2>3. ASSUME NEW k \in Profile!Counts, Profile!QueueFollow(k)  PROVE NumbersInv'
    BY <1>3, <2>3 DEF Profile!QueueFollow, Profile!history
  <2> QED  BY <1>2, <1>4, <1>5, <2>1, <2>2, <2>3 DEF Elsewhere
<1>6. ASSUME NEW c \in Requests, Starts(c) \/ Profile!Load(c) \/ Profile!Save(c) \/ Profile!UpdateUsername(c)
      PROVE  NumbersInv'
  <2>1. UNCHANGED <<shown, task>> /\ lapsed' \in {lapsed, lapsed \cup {"username"}}
    BY <1>6, StartEffect DEF Profile!Load, Profile!Save, Profile!UpdateUsername, Profile!history
  <2> QED  BY <1>0, <1>1, <2>1
<1>7. ASSUME NEW c \in Requests, Quiet(c)  PROVE NumbersInv'
  <2>0. ~Profile!SoftDelete(c)
    BY <1>0 DEF Profile!SoftDelete
  <2>1. CASE Profile!QueueUpdate(c) \/ Profile!QueueDelete(c)
    <3>1. UNCHANGED shown /\ lapsed' \in {lapsed, lapsed \cup Profile!Own}
          /\ (UNCHANGED task \/ ((Profile!Add("update") \/ Profile!Add("delete")) /\ UNCHANGED lapsed))
      BY <2>1 DEF Profile!QueueUpdate, Profile!QueueDelete, Profile!history
    <3> QED  BY <1>0, <1>1, <1>3, <3>1
  <2>2. CASE ~(Profile!QueueUpdate(c) \/ Profile!QueueDelete(c))
    <3>1. UNCHANGED <<shown, task>> /\ lapsed' \in {lapsed, lapsed \cup Profile!Own}
      BY <1>7, <2>0, <2>2 DEF Quiet, Profile!DropOld, Profile!Stop, Profile!history
    <3> QED  BY <1>0, <1>1, <3>1
  <2> QED  BY <2>1, <2>2
<1> QED  BY <1>5, <1>6, <1>7, NextCases

-----------------------------------------------------------------------------
ProfileInv == /\ Profile!TypeOK /\ AgreeInv /\ AloneInv /\ LiveInv /\ UsedInv /\ OpInv
              /\ FirstInv /\ OldInv /\ Profile!PicturesThere /\ GivesInv /\ ToldInv /\ NumbersInv

LEMMA ProfileInvInit == Profile!Init => ProfileInv
<1> SUFFICES ASSUME Profile!Init  PROVE ProfileInv
  OBVIOUS
<1>1. Profile!TypeOK
  BY RowTypeInit
<1>2. \A c \in Requests : call[c] = Profile!Idle /\ call[c].at = "idle"
  BY DEF Profile!Init, Profile!Idle
<1>3. \A j \in Jobs : task[j] = Profile!Free /\ task[j].at = "none" /\ task[j].kind = "none"
  BY DEF Profile!Init, Profile!Free
<1>4. AgreeInv /\ AloneInv /\ OpInv
  BY <1>2 DEF Profile!Init, AgreeInv, AloneInv, OpInv, Profile!Editing, Profile!At
<1>5. LiveInv /\ UsedInv /\ Profile!PicturesThere
  BY <1>2, <1>3 DEF Profile!Init, LiveInv, UsedInv, Profile!PicturesThere
<1>6. FirstInv /\ OldInv
  BY <1>2 DEF FirstInv, OldInv, Profile!Editing, Profile!Saved
<1>7. GivesInv /\ ToldInv /\ NumbersInv
  BY <1>2, <1>3 DEF Profile!Init, GivesInv, ToldInv, NumbersInv, Carries
<1> QED  BY <1>1, <1>4, <1>5, <1>6, <1>7 DEF ProfileInv

LEMMA ProfileInvStep == ProfileInv /\ [Profile!Next]_(Profile!vars) => ProfileInv'
<1> SUFFICES ASSUME ProfileInv, [Profile!Next]_(Profile!vars)  PROVE ProfileInv'
  OBVIOUS
<1> USE DEF ProfileInv
<1>1. CASE Profile!Next
  <2>1. Profile!TypeOK'
    <3>1. CASE \E c \in Requests : Profile!Request(c)
      <4>1. PICK c \in Requests : Profile!Request(c)
        BY <3>1
      <4> QED  BY <4>1, TypeStart, TypeSave, TypeOther DEF Profile!Request
    <3> QED  BY <1>1, <3>1, TypeWork, TypeRest DEF Profile!Next
  <2>2. AgreeInv' /\ AloneInv' /\ UsedInv' /\ OpInv' /\ GivesInv'
    BY <1>1, AgreeStep, AloneStep, UsedStep, OpStep, GivesStep
  <2>3. CASE over' = "no"
    BY <1>1, <2>1, <2>2, <2>3, LiveStep, FirstStep, OldStep, PictureStep, ToldStep, NumbersStep
  <2>4. CASE over' # "no"
    BY <2>1, <2>2, <2>4 DEF LiveInv, FirstInv, OldInv, Profile!PicturesThere, ToldInv, NumbersInv
  <2> QED  BY <2>3, <2>4
<1>2. CASE UNCHANGED Profile!vars
  BY <1>2 DEF Profile!vars, Profile!user, Profile!history, Profile!TypeOK, AgreeInv, AloneInv, LiveInv, UsedInv, OpInv, FirstInv, First, OldInv,
     Profile!PicturesThere, ToldInv, Settled, Profile!Saved, Profile!Editing, Profile!At, Profile!Is, Carries, GivesInv, NumbersInv
<1> QED  BY <1>1, <1>2

LEMMA ProfileInvSound == ProfileInv => Profile!ProfileSound
<1> SUFFICES ASSUME ProfileInv  PROVE Profile!ProfileSound
  OBVIOUS
<1>1. Profile!EditsKept /\ Profile!PicturesThere /\ Profile!StaysDeleted
  BY DEF ProfileInv, AgreeInv, AloneInv, Profile!EditsKept, Profile!StaysDeleted
<1>2. Profile!Told => Settled /\ \A j \in Jobs : ~Profile!Is(j, "update", "write")
  BY DEF Profile!Told, Settled, Profile!Is
<1>3. Profile!AuthorShown
  BY <1>2 DEF ProfileInv, ToldInv, NumbersInv, Profile!AuthorShown, Profile!Shown
<1> QED  BY <1>1, <1>3 DEF Profile!ProfileSound

\* updateUser, changeLanguage, updateUsername, deleteUser and the jobs: whatever overlaps, the row
\* keeps what it was given, its pictures are there, a deletion stays, and the documents follow,
\* but for what is on record.
THEOREM ProfileSoundHolds == Profile!Spec => []ProfileSound
<1>1. Profile!Init => ProfileInv
  BY ProfileInvInit
<1>2. ProfileInv /\ [Profile!Next]_(Profile!vars) => ProfileInv'
  BY ProfileInvStep
<1>3. ProfileInv => ProfileSound
  BY ProfileInvSound DEF ProfileSound
<1> QED  BY <1>1, <1>2, <1>3, PTL DEF Profile!Spec

-----------------------------------------------------------------------------
(* Signing in with a provider *)

\* What a request has in hand was reported by the provider, and the accounts that it has
\* found, like those in the row of an edit, have had a reported address.
OwnInv == \A r \in Requests :
    /\ asked[r].at \in SignIn!Steps => <<asked[r].id, asked[r].email>> \in proven
    /\ asked[r].at \in {"link", "forget", "answer"} => SignIn!Owns(asked[r].id, asked[r].user)
    /\ SignIn!At(r, "save") =>
          \A p \in SignIn!Providers :
              asked[r].row.ids[p] # None => SignIn!Owns(asked[r].row.ids[p], asked[r].user)

\* The addresses an account has, or will have once an edit is saved, are known.
HadInv ==
    /\ \A u \in Accounts : member[u] # None => <<u, member[u].email>> \in had
    /\ \A r \in Requests : SignIn!At(r, "save") => <<asked[r].user, asked[r].row.email>> \in had

\* The account in hand has a row.
HandInv == \A r \in Requests :
    asked[r].at \in {"link", "forget", "answer", "save"} =>
        asked[r].user \in Accounts /\ member[asked[r].user] # None

StartInv == \A e \in Emails : started[e] # None => <<started[e].id, e>> \in proven
CrossInv == SignIn!Crossed \subseteq met
NewInv == \A u \in Accounts : member[u] = None => chosen[u] = None
\* The picture that a link will give is the one that the owner has given.
PicInv == \A r \in Requests :
    SignIn!At(r, "link") /\ asked[r].user \notin hasty /\ chosen[asked[r].user] # None =>
        asked[r].picture = chosen[asked[r].user]

SignInInv ==
    /\ SignIn!TypeOK /\ HandInv
    /\ OwnInv /\ HadInv /\ StartInv /\ SignIn!LinkedByMail
    /\ CrossInv /\ SignIn!OneAccount
    /\ NewInv /\ PicInv /\ SignIn!PictureKept

-----------------------------------------------------------------------------
(* Shapes *)

LEMMA RowShape ==
    /\ None \notin SignIn!Rows /\ None \notin Accounts /\ None \notin Ids /\ None \notin Photos
    /\ SignIn!NoIds \in [SignIn!Providers -> Ids \cup {None}]
    /\ \A m \in SignIn!Rows : /\ m.state \in {"live", "left", "gone"} /\ m.email \in Emails
                              /\ m.picture \in Photos \cup {None}
                              /\ m.ids \in [SignIn!Providers -> Ids \cup {None}]
                              /\ \A p \in SignIn!Providers : m.ids[p] # None => ProviderOf[m.ids[p]] = p
    /\ \A i \in Ids : ProviderOf[i] \in SignIn!Providers /\ Photo[i] \in Photos \cup {None}
BY ProperProviders DEF SignIn!Given, SignIn!Rows, SignIn!NoIds

LEMMA NewRowType ==
    ASSUME NEW e \in Emails, NEW p \in Photos \cup {None}, NEW i \in Ids
    PROVE  /\ SignIn!NewRow(e, SignIn!NoIds, p) \in SignIn!Rows
           /\ SignIn!NewRow(e, SignIn!Linked(SignIn!NoIds, i), p) \in SignIn!Rows
BY RowShape DEF SignIn!Rows, SignIn!NewRow, SignIn!Linked, SignIn!NoIds

LEMMA LinkedType ==
    ASSUME NEW m \in SignIn!Rows, NEW i \in Ids, NEW p \in Photos \cup {None}
    PROVE  /\ [m EXCEPT !.ids = SignIn!Linked(m.ids, i), !.picture = p] \in SignIn!Rows
           /\ [m EXCEPT !.picture = p] \in SignIn!Rows
           /\ \A e \in Emails : [m EXCEPT !.email = e] \in SignIn!Rows
           /\ \A s \in {"live", "left", "gone"} : [m EXCEPT !.state = s] \in SignIn!Rows
BY RowShape DEF SignIn!Rows, SignIn!Linked

LEMMA AskShape ==
    ASSUME SignIn!TypeOK, NEW r \in Requests
    PROVE  /\ asked[r] = SignIn!Idle <=> asked[r].at = "idle"
           /\ asked[r].at \in SignIn!Steps => asked[r] \in SignIn!Calls
           /\ SignIn!At(r, "save") => asked[r] \in SignIn!Saves
           /\ asked[r] # SignIn!Idle => asked[r].at \in SignIn!Steps \cup {"save"}
           /\ asked[r] \in SignIn!Calls \cup SignIn!Saves \cup {SignIn!Idle}
BY DEF SignIn!TypeOK, SignIn!Calls, SignIn!Saves, SignIn!Idle, SignIn!Steps, SignIn!At

-----------------------------------------------------------------------------
(* Types *)

LEMMA TypeStep ==
    ASSUME SignIn!TypeOK, HandInv, SignIn!Next  PROVE SignIn!TypeOK'
<1> USE DEF SignIn!history
<1>1. met' \subseteq Ids
  BY DEF SignIn!Next, SignIn!Crossed, SignIn!TypeOK
<1>2. ASSUME NEW r \in Requests, SignIn!Arrives(r)  PROVE SignIn!TypeOK'
  <2>1. ASSUME NEW i \in Ids, NEW e \in Emails, SignIn!Reported(r, i, e)  PROVE SignIn!TypeOK'
    <3>1. SignIn!Task("byId", i, e) \in SignIn!Calls
      BY RowShape DEF SignIn!Task, SignIn!Calls, SignIn!Steps
    <3> QED  BY <1>1, <2>1, <3>1 DEF SignIn!TypeOK, SignIn!Reported, SignIn!Begins, SignIn!Task
  <2>2. ASSUME NEW e \in Emails, SignIn!Step1(r, e) \/ SignIn!Step2(r, e)  PROVE SignIn!TypeOK'
    <3>1. started[e].id \in Ids
      BY <2>2 DEF SignIn!TypeOK, SignIn!Step1, SignIn!Step2, SignIn!Sessions
    <3>2. SignIn!Task("date", started[e].id, e) \in SignIn!Calls
            /\ SignIn!Task("insert", started[e].id, e) \in SignIn!Calls
      BY <3>1, RowShape DEF SignIn!Task, SignIn!Calls, SignIn!Steps
    <3> QED  BY <1>1, <2>2, <3>2 DEF SignIn!TypeOK, SignIn!Step1, SignIn!Step2, SignIn!Begins, SignIn!Task
  <2>3. ASSUME NEW u \in Accounts, NEW p \in Photos \cup {None}, SignIn!Edit(r, u, p)  PROVE SignIn!TypeOK'
    <3>1. member[u] \in SignIn!Rows
      BY <2>3 DEF SignIn!TypeOK, SignIn!Edit, SignIn!Live
    <3>2. [at |-> "save", user |-> u, row |-> member[u], picture |-> p] \in SignIn!Saves
      BY <3>1 DEF SignIn!Saves
    <3> QED  BY <1>1, <2>3, <3>2 DEF SignIn!TypeOK, SignIn!Edit, SignIn!Begins
  <2> QED  BY <1>2, <2>1, <2>2, <2>3 DEF SignIn!Arrives, SignIn!Google, SignIn!Facebook, SignIn!GitHub,
              SignIn!MobileGoogle, SignIn!MobileGitHub
<1>3. ASSUME NEW r \in Requests, SignIn!GoesOn(r)  PROVE SignIn!TypeOK'
  <2>1. asked[r] \in SignIn!Calls \cup SignIn!Saves \cup {SignIn!Idle}
          /\ (asked[r].at \in SignIn!Steps => asked[r] \in SignIn!Calls)
        /\ (SignIn!At(r, "save") => asked[r] \in SignIn!Saves)
    BY AskShape
  <2>2. CASE SignIn!FindById(r)
    <3>1. \A u \in Accounts : [asked[r] EXCEPT !.user = u, !.at = "answer"] \in SignIn!Calls
      BY <2>1, <2>2 DEF SignIn!FindById, SignIn!At, SignIn!Calls, SignIn!Steps
    <3>2. [asked[r] EXCEPT !.at = "byMail"] \in SignIn!Calls
      BY <2>1, <2>2 DEF SignIn!FindById, SignIn!At, SignIn!Calls, SignIn!Steps
    <3>3. CASE \E u \in Accounts : SignIn!Found(r, u, "answer")
      <4>1. PICK u \in Accounts : SignIn!Found(r, u, "answer")
        BY <3>3
      <4>2. asked' = [asked EXCEPT ![r] = [asked[r] EXCEPT !.user = u, !.at = "answer"]]
        BY <4>1 DEF SignIn!Found, SignIn!TypeOK
      <4> QED  BY <1>1, <2>2, <3>1, <4>2, RowShape DEF SignIn!TypeOK, SignIn!FindById, SignIn!Calls
    <3>4. CASE SignIn!Goes(r, "byMail")
      <4>1. asked' = [asked EXCEPT ![r] = [asked[r] EXCEPT !.at = "byMail"]]
        BY <3>4 DEF SignIn!Goes, SignIn!TypeOK
      <4> QED  BY <1>1, <2>1, <2>2, <3>2, <4>1 DEF SignIn!TypeOK, SignIn!FindById, SignIn!Calls
    <3> QED  BY <2>2, <3>3, <3>4 DEF SignIn!FindById
  <2>3. CASE SignIn!FindByMail(r)
    <3>1. CASE SignIn!Goes(r, "store")
      <4>1. [asked[r] EXCEPT !.at = "store"] \in SignIn!Calls
        BY <2>1, <2>3 DEF SignIn!FindByMail, SignIn!At, SignIn!Calls, SignIn!Steps
      <4>2. asked' = [asked EXCEPT ![r] = [asked[r] EXCEPT !.at = "store"]]
        BY <3>1 DEF SignIn!Goes, SignIn!TypeOK
      <4> QED  BY <1>1, <2>1, <2>3, <4>1, <4>2 DEF SignIn!TypeOK, SignIn!FindByMail, SignIn!Calls
    <3>2. CASE ~SignIn!Goes(r, "store")
      <4>1. PICK u \in Accounts :
              /\ SignIn!Live(u)
              /\ asked' = [asked EXCEPT ![r].at = "link", ![r].user = u,
                      ![r].picture = IF member[u].picture = None THEN asked[r].picture ELSE member[u].picture]
        BY <2>3, <3>2 DEF SignIn!FindByMail
      <4> DEFINE pic == IF member[u].picture = None THEN asked[r].picture ELSE member[u].picture
      <4>2. member[u] \in SignIn!Rows /\ asked[r] \in SignIn!Calls
        BY <2>1, <2>3, <4>1 DEF SignIn!TypeOK, SignIn!Live, SignIn!FindByMail, SignIn!At, SignIn!Steps
      <4>3. pic \in Photos \cup {None}
        BY <4>2, RowShape DEF SignIn!Calls
      <4>4. [asked[r] EXCEPT !.at = "link", !.user = u, !.picture = pic] \in SignIn!Calls
        BY <4>2, <4>3 DEF SignIn!Calls, SignIn!Steps
      <4>5. asked' = [asked EXCEPT ![r] = [asked[r] EXCEPT !.at = "link", !.user = u, !.picture = pic]]
        BY <4>1 DEF SignIn!TypeOK
      <4> HIDE DEF pic
      <4> QED  BY <1>1, <2>3, <4>2, <4>4, <4>5, RowShape DEF SignIn!TypeOK, SignIn!FindByMail, SignIn!Calls
    <3> QED  BY <3>1, <3>2
  <2>4. CASE SignIn!Link(r)
    <3>1. asked[r] \in SignIn!Calls /\ asked[r].user \in Accounts /\ member[asked[r].user] \in SignIn!Rows
      BY <2>1, <2>4 DEF SignIn!Link, SignIn!At, SignIn!Steps, HandInv, SignIn!TypeOK
    <3>2. member' \in [Accounts -> SignIn!Rows \cup {None}]
      <4> DEFINE m == member[asked[r].user]
      <4>1. [m EXCEPT !.ids = SignIn!Linked(m.ids, asked[r].id), !.picture = asked[r].picture] \in SignIn!Rows
        BY <3>1, LinkedType DEF SignIn!Calls
      <4>2. \/ member' = member
            \/ member' = [member EXCEPT ![asked[r].user] =
                   [m EXCEPT !.ids = SignIn!Linked(m.ids, asked[r].id), !.picture = asked[r].picture]]
        BY <2>4 DEF SignIn!Link, SignIn!TypeOK
      <4> HIDE DEF m
      <4> QED  BY <3>1, <4>1, <4>2 DEF SignIn!TypeOK
    <3>3. [asked[r] EXCEPT !.at = "answer"] \in SignIn!Calls
      BY <3>1 DEF SignIn!Calls, SignIn!Steps
    <3>4. CASE SignIn!Ends(r)
      BY <1>1, <2>4, <3>2, <3>4 DEF SignIn!TypeOK, SignIn!Link, SignIn!Ends, SignIn!Idle
    <3>5. CASE SignIn!Goes(r, "answer")
      <4>1. asked' = [asked EXCEPT ![r] = [asked[r] EXCEPT !.at = "answer"]]
        BY <3>5 DEF SignIn!Goes, SignIn!TypeOK
      <4> QED  BY <1>1, <2>4, <3>1, <3>2, <3>3, <4>1, RowShape DEF SignIn!TypeOK, SignIn!Link, SignIn!Calls
    <3> QED  BY <2>4, <3>4, <3>5 DEF SignIn!Link
  <2>5. CASE SignIn!Answer(r)
    <3>1. asked[r] \in SignIn!Calls /\ asked[r].user \in Accounts
      BY <2>1, <2>5 DEF SignIn!Answer, SignIn!At, SignIn!Steps, HandInv
    <3>2. signed' \subseteq Ids \X Accounts
      BY <2>5, <3>1 DEF SignIn!Answer, SignIn!TypeOK, SignIn!Calls
    <3> QED  BY <1>1, <2>5, <3>2 DEF SignIn!TypeOK, SignIn!Answer, SignIn!Ends, SignIn!Idle
  <2>6. CASE SignIn!StoreSession(r) \/ SignIn!Date(r)
    <3>1. asked[r] \in SignIn!Calls
      BY <2>1, <2>6 DEF SignIn!StoreSession, SignIn!Date, SignIn!At, SignIn!Steps
    <3>2. asked[r].email \in Emails
            /\ \A b \in BOOLEAN : [id |-> asked[r].id, dated |-> b] \in SignIn!Sessions
      BY <3>1 DEF SignIn!Calls, SignIn!Sessions
    <3>3. \E b \in BOOLEAN : started' = [started EXCEPT ![asked[r].email] = [id |-> asked[r].id, dated |-> b]]
      BY <2>6 DEF SignIn!StoreSession, SignIn!Date
    <3>4. started' \in [Emails -> SignIn!Sessions \cup {None}]
      BY <3>2, <3>3 DEF SignIn!TypeOK
    <3> QED  BY <1>1, <2>6, <3>4 DEF SignIn!TypeOK, SignIn!StoreSession, SignIn!Date, SignIn!Ends, SignIn!Idle
  <2>7. CASE SignIn!Insert(r)
    <3>1. asked[r] \in SignIn!Calls
      BY <2>1, <2>7 DEF SignIn!Insert, SignIn!At, SignIn!Steps
    <3>2. CASE SignIn!Ends(r) /\ UNCHANGED <<member, had>>
      BY <1>1, <2>7, <3>2 DEF SignIn!TypeOK, SignIn!Insert, SignIn!Ends, SignIn!Idle
    <3>3. ASSUME NEW u \in Accounts,
                 member' = [member EXCEPT ![u] =
                     SignIn!NewRow(asked[r].email, SignIn!Linked(SignIn!NoIds, asked[r].id),
                         Photo[asked[r].id])],
                 had' = had \cup {<<u, asked[r].email>>}, SignIn!Found(r, u, "forget")
          PROVE  SignIn!TypeOK'
      <4>1. SignIn!NewRow(asked[r].email, SignIn!Linked(SignIn!NoIds, asked[r].id),
                Photo[asked[r].id]) \in SignIn!Rows
        BY <3>1, NewRowType, RowShape DEF SignIn!Calls
      <4>2. member' \in [Accounts -> SignIn!Rows \cup {None}] /\ had' \subseteq Accounts \X Emails
        BY <3>1, <3>3, <4>1 DEF SignIn!TypeOK, SignIn!Calls
      <4>3. [asked[r] EXCEPT !.user = u, !.at = "forget"] \in SignIn!Calls
        BY <3>1 DEF SignIn!Calls, SignIn!Steps
      <4>4. asked' = [asked EXCEPT ![r] = [asked[r] EXCEPT !.user = u, !.at = "forget"]]
        BY <3>3 DEF SignIn!Found, SignIn!TypeOK
      <4> QED  BY <1>1, <2>7, <3>1, <4>2, <4>3, <4>4 DEF SignIn!TypeOK, SignIn!Insert, SignIn!Calls
    <3> QED  BY <2>7, <3>2, <3>3 DEF SignIn!Insert
  <2>8. CASE SignIn!Forget(r)
    <3>1. asked[r] \in SignIn!Calls /\ asked[r].user \in Accounts
      BY <2>1, <2>8 DEF SignIn!Forget, SignIn!At, SignIn!Steps, HandInv
    <3>2. [asked[r] EXCEPT !.at = "answer"] \in SignIn!Calls
      BY <3>1 DEF SignIn!Calls, SignIn!Steps
    <3>3. asked' = [asked EXCEPT ![r] = [asked[r] EXCEPT !.at = "answer"]]
      BY <2>8 DEF SignIn!Forget, SignIn!Goes, SignIn!TypeOK
    <3> QED  BY <1>1, <2>8, <3>1, <3>2, <3>3, RowShape DEF SignIn!TypeOK, SignIn!Forget, SignIn!Calls
  <2>9. CASE SignIn!Save(r)
    <3>1. asked[r] \in SignIn!Saves
      BY <2>1, <2>9 DEF SignIn!Save
    <3>2. [asked[r].row EXCEPT !.picture = asked[r].picture] \in SignIn!Rows
      BY <3>1 DEF SignIn!Saves, SignIn!Rows
    <3>3. /\ member' \in [Accounts -> SignIn!Rows \cup {None}]
          /\ chosen' \in [Accounts -> Photos \cup {None}] /\ hasty' \subseteq Accounts
      BY <2>9, <3>1, <3>2 DEF SignIn!Save, SignIn!TypeOK, SignIn!Saves
    <3> QED  BY <1>1, <2>9, <3>3 DEF SignIn!TypeOK, SignIn!Save, SignIn!Ends, SignIn!Idle
  <2>10. CASE SignIn!Stop(r)
    BY <1>1, <2>10 DEF SignIn!TypeOK, SignIn!Stop, SignIn!Ends, SignIn!Idle
  <2> QED  BY <1>3, <2>2, <2>3, <2>4, <2>5, <2>6, <2>7, <2>8, <2>9, <2>10 DEF SignIn!GoesOn
<1>4. CASE SignIn!Elsewhere
  <2>1. ASSUME NEW e \in Emails, SignIn!Expire(e)  PROVE SignIn!TypeOK'
    BY <1>1, <2>1 DEF SignIn!TypeOK, SignIn!Expire
  <2>2. ASSUME NEW u \in Accounts, NEW e \in Emails, SignIn!SignUp(u, e)  PROVE SignIn!TypeOK'
    <3>1. SignIn!NewRow(e, SignIn!NoIds, None) \in SignIn!Rows
      BY RowShape DEF SignIn!NewRow, SignIn!NoIds, SignIn!Rows
    <3> QED  BY <1>1, <2>2, <3>1 DEF SignIn!TypeOK, SignIn!SignUp
  <2>3. ASSUME NEW u \in Accounts, NEW e \in Emails, SignIn!ChangeMail(u, e)  PROVE SignIn!TypeOK'
    <3>0. member[u] \in SignIn!Rows
      BY <2>3 DEF SignIn!TypeOK, SignIn!ChangeMail
    <3>1. [member[u] EXCEPT !.email = e] \in SignIn!Rows
      BY <3>0 DEF SignIn!Rows
    <3>2. member' = [member EXCEPT ![u] = [member[u] EXCEPT !.email = e]]
      BY <2>3 DEF SignIn!ChangeMail, SignIn!TypeOK
    <3> QED  BY <1>1, <2>3, <3>1, <3>2 DEF SignIn!TypeOK, SignIn!ChangeMail
  <2>4. ASSUME NEW u \in Accounts, SignIn!Leave(u) \/ SignIn!DeleteRow(u)  PROVE SignIn!TypeOK'
    <3>0. member[u] \in SignIn!Rows
      BY <2>4 DEF SignIn!TypeOK, SignIn!Leave, SignIn!DeleteRow, SignIn!Live
    <3>1. \A s \in {"live", "left", "gone"} : [member[u] EXCEPT !.state = s] \in SignIn!Rows
      BY <3>0 DEF SignIn!Rows
    <3>2. \E s \in {"left", "gone"} : member' = [member EXCEPT ![u] = [member[u] EXCEPT !.state = s]]
      BY <2>4 DEF SignIn!Leave, SignIn!DeleteRow, SignIn!TypeOK
    <3> QED  BY <1>1, <2>4, <3>1, <3>2 DEF SignIn!TypeOK, SignIn!Leave, SignIn!DeleteRow
  <2> QED  BY <1>4, <2>1, <2>2, <2>3, <2>4 DEF SignIn!Elsewhere
<1> QED  BY <1>2, <1>3, <1>4 DEF SignIn!Next

-----------------------------------------------------------------------------
(* What a step leaves of the requests that take no part in it *)

LEMMA OtherAsks ==
    ASSUME SignIn!TypeOK, SignIn!Next, NEW q \in Requests,
           \A r \in Requests : (SignIn!Arrives(r) \/ SignIn!GoesOn(r)) => r # q
    PROVE  asked'[q] = asked[q]
<1>1. CASE SignIn!Elsewhere
  BY <1>1 DEF SignIn!Elsewhere, SignIn!Expire, SignIn!SignUp, SignIn!ChangeMail, SignIn!Leave,
     SignIn!DeleteRow
<1>2. ASSUME NEW r \in Requests, SignIn!Arrives(r) \/ SignIn!GoesOn(r)  PROVE asked'[q] = asked[q]
  <2>1. r # q /\ asked \in [Requests -> SignIn!Calls \cup SignIn!Saves \cup {SignIn!Idle}]
    BY <1>2 DEF SignIn!TypeOK
  <2>2. CASE SignIn!Arrives(r)
    BY <2>1, <2>2 DEF SignIn!Arrives, SignIn!Google, SignIn!Facebook, SignIn!GitHub, SignIn!MobileGoogle,
       SignIn!MobileGitHub, SignIn!Reported,
       SignIn!Step1, SignIn!Step2, SignIn!Edit, SignIn!Begins
  <2>3. CASE SignIn!GoesOn(r)
    BY <2>1, <2>3 DEF SignIn!GoesOn, SignIn!FindById, SignIn!FindByMail, SignIn!Link, SignIn!Answer,
       SignIn!StoreSession, SignIn!Date, SignIn!Insert,
       SignIn!Forget, SignIn!Save, SignIn!Stop, SignIn!Goes, SignIn!Found, SignIn!Ends
  <2> QED  BY <1>2, <2>2, <2>3
<1> QED  BY <1>1, <1>2 DEF SignIn!Next

\* What was reported and what an account has had is only added to.
LEMMA Grows ==
    ASSUME SignIn!Next
    PROVE  /\ proven \subseteq proven' /\ had \subseteq had'
           /\ \A i, u : SignIn!Owns(i, u) => SignIn!Owns(i, u)'
<1>1. proven \subseteq proven' /\ had \subseteq had'
  BY DEF SignIn!Next, SignIn!Elsewhere, SignIn!Expire, SignIn!SignUp, SignIn!ChangeMail, SignIn!Leave,
     SignIn!DeleteRow, SignIn!Arrives, SignIn!GoesOn, SignIn!Google, SignIn!Facebook,
     SignIn!GitHub, SignIn!MobileGoogle, SignIn!MobileGitHub, SignIn!Reported, SignIn!Step1, SignIn!Step2,
     SignIn!Edit, SignIn!FindById, SignIn!FindByMail, SignIn!Link,
     SignIn!Answer, SignIn!StoreSession, SignIn!Date, SignIn!Insert, SignIn!Forget, SignIn!Save, SignIn!Stop
<1> QED  BY <1>1 DEF SignIn!Owns

\* A row stays a row.
LEMMA Stays ==
    ASSUME SignIn!TypeOK, HandInv, SignIn!Next, NEW u \in Accounts, member[u] # None
    PROVE  member'[u] # None
<1>1. None \notin SignIn!Rows /\ member \in [Accounts -> SignIn!Rows \cup {None}] /\ member[u] \in SignIn!Rows
  BY RowShape DEF SignIn!TypeOK
<1>2. SignIn!TypeOK'
  BY TypeStep
<1>3. ASSUME NEW r \in Requests, SignIn!Link(r)  PROVE member'[u] # None
  <2>1. asked[r].user \in Accounts /\ member[asked[r].user] \in SignIn!Rows /\ asked[r] \in SignIn!Calls
    BY <1>3, AskShape DEF SignIn!Link, SignIn!At, SignIn!Steps, HandInv, SignIn!TypeOK
  <2>2. [member[asked[r].user] EXCEPT !.ids = SignIn!Linked(member[asked[r].user].ids, asked[r].id),
                                     !.picture = asked[r].picture] \in SignIn!Rows
    BY <2>1, LinkedType DEF SignIn!Calls
  <2> QED  BY <1>1, <1>3, <2>1, <2>2 DEF SignIn!Link
<1>4. ASSUME NEW r \in Requests, SignIn!Save(r)  PROVE member'[u] # None
  <2>1. [asked[r].row EXCEPT !.picture = asked[r].picture] \in SignIn!Rows
    BY <1>4, AskShape DEF SignIn!Save, SignIn!Saves, SignIn!Rows
  <2> QED  BY <1>1, <1>4, <2>1 DEF SignIn!Save
<1>5. ASSUME NEW r \in Requests, SignIn!Insert(r)  PROVE member'[u] # None
  BY <1>1, <1>5 DEF SignIn!Insert
<1>6. ASSUME NEW r \in Requests, SignIn!Arrives(r) \/ SignIn!FindById(r) \/ SignIn!FindByMail(r)
               \/ SignIn!Answer(r) \/ SignIn!StoreSession(r)
                                 \/ SignIn!Date(r) \/ SignIn!Forget(r) \/ SignIn!Stop(r)
      PROVE  member'[u] # None
  BY <1>6 DEF SignIn!Arrives, SignIn!Google, SignIn!Facebook, SignIn!GitHub, SignIn!MobileGoogle,
     SignIn!MobileGitHub, SignIn!Reported, SignIn!Step1, SignIn!Step2, SignIn!Edit,
     SignIn!FindById, SignIn!FindByMail, SignIn!Answer, SignIn!StoreSession, SignIn!Date, SignIn!Forget,
     SignIn!Stop
<1>7. CASE SignIn!Elsewhere
  <2>1. ASSUME NEW w \in Accounts, NEW e \in Emails, SignIn!SignUp(w, e)  PROVE member'[u] # None
    BY <1>1, <2>1 DEF SignIn!SignUp
  <2>2. ASSUME NEW w \in Accounts, NEW e \in Emails, SignIn!ChangeMail(w, e)  PROVE member'[u] # None
    <3>1. [member[u] EXCEPT !.email = e] \in SignIn!Rows
      BY <1>1 DEF SignIn!Rows
    <3> QED  BY <1>1, <2>2, <3>1 DEF SignIn!ChangeMail
  <2>3. ASSUME NEW w \in Accounts, SignIn!Leave(w) \/ SignIn!DeleteRow(w)  PROVE member'[u] # None
    <3>1. \A s \in {"live", "left", "gone"} : [member[u] EXCEPT !.state = s] \in SignIn!Rows
      BY <1>1 DEF SignIn!Rows
    <3> QED  BY <1>1, <2>3, <3>1 DEF SignIn!Leave, SignIn!DeleteRow
  <2> QED  BY <1>7, <2>1, <2>2, <2>3 DEF SignIn!Elsewhere, SignIn!Expire
<1> QED  BY <1>3, <1>4, <1>5, <1>6, <1>7 DEF SignIn!Next, SignIn!GoesOn

LEMMA HandStep ==
    ASSUME SignIn!TypeOK, HandInv, SignIn!Next  PROVE HandInv'
<1> SUFFICES ASSUME NEW q \in Requests, asked'[q].at \in {"link", "forget", "answer", "save"}
             PROVE  asked'[q].user \in Accounts /\ member'[asked'[q].user] # None
  BY DEF HandInv
<1>1. CASE \A r \in Requests : (SignIn!Arrives(r) \/ SignIn!GoesOn(r)) => r # q
  BY <1>1, OtherAsks, Stays DEF HandInv
<1>2. CASE SignIn!Arrives(q)
  <2>1. PICK u \in Accounts, p \in Photos \cup {None} : SignIn!Edit(q, u, p)
    BY <1>2 DEF SignIn!Arrives, SignIn!Google, SignIn!Facebook, SignIn!GitHub, SignIn!MobileGoogle,
       SignIn!MobileGitHub, SignIn!Reported, SignIn!Step1, SignIn!Step2,
       SignIn!Begins, SignIn!Task, SignIn!TypeOK
  <2> QED  BY <2>1, Stays DEF SignIn!Edit, SignIn!Begins, SignIn!Live, SignIn!TypeOK
<1>3. CASE SignIn!GoesOn(q)
  <2>1. asked[q] \in SignIn!Calls \cup SignIn!Saves \cup {SignIn!Idle}
          /\ asked \in [Requests -> SignIn!Calls \cup SignIn!Saves \cup {SignIn!Idle}]
    BY AskShape DEF SignIn!TypeOK
  <2>2. CASE SignIn!FindById(q)
    <3>0. asked[q] \in SignIn!Calls /\ ~SignIn!Goes(q, "byMail")
      BY <2>1, <2>2, AskShape DEF SignIn!FindById, SignIn!Goes, SignIn!At, SignIn!Steps, SignIn!Calls
    <3>1. PICK u \in Accounts : SignIn!Carries(u, asked[q].id) /\ SignIn!Found(q, u, "answer")
      BY <2>2, <3>0 DEF SignIn!FindById
    <3>2. asked'[q].user = u
      BY <2>1, <2>2, <3>1, AskShape DEF SignIn!Found, SignIn!Calls, SignIn!FindById, SignIn!At, SignIn!Steps
    <3> QED  BY <3>1, <3>2, Stays DEF SignIn!Carries, SignIn!Live
  <2>3. CASE SignIn!FindByMail(q)
    <3>1. asked[q] \in SignIn!Calls
      BY <2>3, AskShape DEF SignIn!FindByMail, SignIn!At, SignIn!Steps
    <3>2. ~SignIn!Goes(q, "store")
      BY <2>1, <2>3, <3>1 DEF SignIn!Goes, SignIn!Calls
    <3>3. PICK u \in Accounts :
              /\ SignIn!Live(u)
              /\ asked' = [asked EXCEPT ![q].at = "link", ![q].user = u,
                      ![q].picture = IF member[u].picture = None THEN asked[q].picture ELSE member[u].picture]
      BY <2>3, <3>2 DEF SignIn!FindByMail
    <3>4. asked'[q].user = u
      BY <2>1, <3>1, <3>3 DEF SignIn!Calls
    <3> QED  BY <3>3, <3>4, Stays DEF SignIn!Live
  <2>4. CASE SignIn!Link(q) \/ SignIn!Forget(q)
    <3>1. asked[q] \in SignIn!Calls /\ asked'[q] # SignIn!Idle /\ asked[q].at \in {"link", "forget"}
      BY <2>4, AskShape DEF SignIn!Link, SignIn!Forget, SignIn!At, SignIn!Steps, SignIn!Idle
    <3>2. asked'[q].user = asked[q].user
      BY <2>1, <2>4, <3>1 DEF SignIn!Link, SignIn!Forget, SignIn!Goes, SignIn!Ends, SignIn!Calls
    <3> QED  BY <3>1, <3>2, Stays DEF HandInv
  <2>5. CASE SignIn!Insert(q)
    <3>1. asked[q] \in SignIn!Calls
      BY <2>5, AskShape DEF SignIn!Insert, SignIn!At, SignIn!Steps
    <3>2. ~SignIn!Ends(q)
      BY <2>1 DEF SignIn!Ends, SignIn!Idle
    <3>3. PICK u \in Accounts :
             /\ member' = [member EXCEPT ![u] =
                    SignIn!NewRow(asked[q].email, SignIn!Linked(SignIn!NoIds, asked[q].id),
                        Photo[asked[q].id])]
             /\ SignIn!Found(q, u, "forget")
      BY <2>5, <3>2 DEF SignIn!Insert
    <3>4. asked'[q].user = u
      BY <2>1, <3>1, <3>3 DEF SignIn!Found, SignIn!Calls
    <3>5. SignIn!NewRow(asked[q].email, SignIn!Linked(SignIn!NoIds, asked[q].id),
              Photo[asked[q].id]) \in SignIn!Rows
      BY <3>1, NewRowType, RowShape DEF SignIn!Calls
    <3> QED  BY <3>3, <3>4, <3>5, RowShape DEF SignIn!TypeOK
  <2>6. CASE SignIn!Answer(q) \/ SignIn!StoreSession(q) \/ SignIn!Date(q) \/ SignIn!Save(q) \/ SignIn!Stop(q)
    BY <2>1, <2>6 DEF SignIn!Answer, SignIn!StoreSession, SignIn!Date, SignIn!Save, SignIn!Stop,
       SignIn!Ends, SignIn!Idle
  <2> QED  BY <1>3, <2>2, <2>3, <2>4, <2>5, <2>6 DEF SignIn!GoesOn
<1> QED  BY <1>1, <1>2, <1>3

-----------------------------------------------------------------------------
(* Who owns what *)

LEMMA LiveOwns ==
    ASSUME SignIn!TypeOK, SignIn!LinkedByMail, NEW u \in Accounts, NEW i \in Ids, SignIn!Carries(u, i)
    PROVE  SignIn!Owns(i, u)
BY RowShape DEF SignIn!LinkedByMail, SignIn!Carries, SignIn!Live, SignIn!TypeOK

LEMMA OwnStep ==
    ASSUME SignIn!TypeOK, HandInv, OwnInv, StartInv, SignIn!LinkedByMail, SignIn!Next,
           HadInv
    PROVE  OwnInv'
<1> DEFINE Good(q) ==
        /\ asked[q].at \in SignIn!Steps => <<asked[q].id, asked[q].email>> \in proven
        /\ asked[q].at \in {"link", "forget", "answer"} => SignIn!Owns(asked[q].id, asked[q].user)
        /\ SignIn!At(q, "save") =>
              \A p \in SignIn!Providers :
                  asked[q].row.ids[p] # None => SignIn!Owns(asked[q].row.ids[p], asked[q].user)
<1> SUFFICES ASSUME NEW q \in Requests  PROVE Good(q)'
  BY DEF OwnInv
<1>0. Good(q) /\ asked \in [Requests -> SignIn!Calls \cup SignIn!Saves \cup {SignIn!Idle}]
        /\ asked[q] \in SignIn!Calls \cup SignIn!Saves \cup {SignIn!Idle}
  BY AskShape DEF OwnInv, SignIn!TypeOK
<1>a. proven \subseteq proven' /\ had \subseteq had' /\ \A i, u : SignIn!Owns(i, u) => SignIn!Owns(i, u)'
  BY Grows
<1>1. CASE \A r \in Requests : (SignIn!Arrives(r) \/ SignIn!GoesOn(r)) => r # q
  <2>1. asked'[q] = asked[q]
    BY <1>1, OtherAsks
  <2> QED  BY <1>0, <1>a, <2>1 DEF SignIn!At
<1>2. CASE SignIn!Arrives(q)
  <2>1. ASSUME NEW i \in Ids, NEW e \in Emails, SignIn!Reported(q, i, e)  PROVE Good(q)'
    BY <1>0, <2>1 DEF SignIn!Reported, SignIn!Begins, SignIn!Task, SignIn!At
  <2>2. ASSUME NEW e \in Emails, SignIn!Step1(q, e) \/ SignIn!Step2(q, e)  PROVE Good(q)'
    <3>1. <<started[e].id, e>> \in proven
      BY <2>2 DEF StartInv, SignIn!Step1, SignIn!Step2
    <3> QED  BY <1>0, <1>a, <2>2, <3>1 DEF SignIn!Step1, SignIn!Step2, SignIn!Begins, SignIn!Task, SignIn!At
  <2>3. ASSUME NEW u \in Accounts, NEW p \in Photos \cup {None}, SignIn!Edit(q, u, p)  PROVE Good(q)'
    <3>1. asked'[q] = [at |-> "save", user |-> u, row |-> member[u], picture |-> p] /\ member[u] # None
      BY <1>0, <2>3 DEF SignIn!Edit, SignIn!Begins, SignIn!Live
    <3>2. \A k \in SignIn!Providers : member[u].ids[k] # None => SignIn!Owns(member[u].ids[k], u)
      BY <3>1 DEF SignIn!LinkedByMail
    <3> QED  BY <1>a, <3>1, <3>2 DEF SignIn!At, SignIn!Steps
  <2> QED  BY <1>2, <2>1, <2>2, <2>3 DEF SignIn!Arrives, SignIn!Google, SignIn!Facebook, SignIn!GitHub,
              SignIn!MobileGoogle, SignIn!MobileGitHub
<1>3. CASE SignIn!GoesOn(q)
  <2>1. CASE SignIn!FindById(q)
    <3>1. asked[q] \in SignIn!Calls /\ asked[q].at \in SignIn!Steps /\ asked[q].id \in Ids
      BY <2>1, AskShape DEF SignIn!FindById, SignIn!At, SignIn!Steps, SignIn!Calls
    <3>2. ASSUME NEW u \in Accounts, SignIn!Carries(u, asked[q].id), SignIn!Found(q, u, "answer")
          PROVE Good(q)'
      <4>1. SignIn!Owns(asked[q].id, u)
        BY <3>1, <3>2, LiveOwns
      <4>2. asked'[q] = [asked[q] EXCEPT !.user = u, !.at = "answer"]
        BY <1>0, <3>2 DEF SignIn!Found
      <4> QED  BY <1>0, <1>a, <3>1, <4>1, <4>2 DEF SignIn!At, SignIn!Calls
    <3>3. CASE SignIn!Goes(q, "byMail")
      <4>1. asked'[q] = [asked[q] EXCEPT !.at = "byMail"]
        BY <1>0, <3>3 DEF SignIn!Goes
      <4> QED  BY <1>0, <1>a, <3>1, <4>1 DEF SignIn!At, SignIn!Calls
    <3> QED  BY <2>1, <3>2, <3>3 DEF SignIn!FindById
  <2>2. CASE SignIn!FindByMail(q)
    <3>1. asked[q] \in SignIn!Calls /\ asked[q].at \in SignIn!Steps
      BY <2>2, AskShape DEF SignIn!FindByMail, SignIn!At, SignIn!Steps
    <3>2. ASSUME NEW u \in Accounts, NEW p, SignIn!Live(u), member[u].email = asked[q].email,
                 asked' = [asked EXCEPT ![q].at = "link", ![q].user = u, ![q].picture = p]
          PROVE  Good(q)'
      <4>1. SignIn!Owns(asked[q].id, u)
        <5>1. <<u, asked[q].email>> \in had /\ <<asked[q].id, asked[q].email>> \in proven
          BY <1>0, <3>1, <3>2 DEF SignIn!Live, HadInv
        <5> QED  BY <3>1, <5>1 DEF SignIn!Owns, SignIn!Calls
      <4>2. asked'[q] = [asked[q] EXCEPT !.at = "link", !.user = u, !.picture = p]
        BY <1>0, <3>2
      <4> QED  BY <1>0, <1>a, <3>1, <4>1, <4>2 DEF SignIn!At, SignIn!Calls
    <3>3. CASE SignIn!Goes(q, "store")
      <4>1. asked'[q] = [asked[q] EXCEPT !.at = "store"]
        BY <1>0, <3>3 DEF SignIn!Goes
      <4> QED  BY <1>0, <1>a, <3>1, <4>1 DEF SignIn!At, SignIn!Calls
    <3> QED  BY <2>2, <3>2, <3>3 DEF SignIn!FindByMail
  <2>3. CASE SignIn!Link(q) \/ SignIn!Forget(q)
    <3>1. asked[q] \in SignIn!Calls /\ asked[q].at \in SignIn!Steps /\ SignIn!Owns(asked[q].id, asked[q].user)
      BY <1>0, <2>3, AskShape DEF SignIn!Link, SignIn!Forget, SignIn!At, SignIn!Steps
    <3>2. asked'[q] = [asked[q] EXCEPT !.at = "answer"] \/ asked'[q] = SignIn!Idle
      BY <1>0, <2>3 DEF SignIn!Link, SignIn!Forget, SignIn!Goes, SignIn!Ends
    <3> QED  BY <1>0, <1>a, <3>1, <3>2 DEF SignIn!At, SignIn!Calls, SignIn!Idle, SignIn!Steps
  <2>4. CASE SignIn!Insert(q)
    <3>1. asked[q] \in SignIn!Calls /\ asked[q].at \in SignIn!Steps
            /\ <<asked[q].id, asked[q].email>> \in proven
      BY <1>0, <2>4, AskShape DEF SignIn!Insert, SignIn!At, SignIn!Steps
    <3>2. ASSUME NEW u \in Accounts, had' = had \cup {<<u, asked[q].email>>}, SignIn!Found(q, u, "forget")
          PROVE  Good(q)'
      <4>1. asked'[q] = [asked[q] EXCEPT !.user = u, !.at = "forget"]
        BY <1>0, <3>2 DEF SignIn!Found
      <4>2. asked'[q].id = asked[q].id /\ asked'[q].user = u /\ asked'[q].email = asked[q].email
              /\ asked'[q].at = "forget"
        BY <3>1, <4>1 DEF SignIn!Calls
      <4>3. \E e \in Emails : <<asked'[q].id, e>> \in proven' /\ <<asked'[q].user, e>> \in had'
        BY <1>a, <3>1, <3>2, <4>2 DEF SignIn!Calls
      <4> QED  BY <1>a, <3>1, <4>2, <4>3 DEF SignIn!At, SignIn!Owns
    <3>3. CASE SignIn!Ends(q)
      BY <1>0, <3>3 DEF SignIn!Ends, SignIn!Idle, SignIn!Steps, SignIn!At
    <3> QED  BY <2>4, <3>2, <3>3 DEF SignIn!Insert
  <2>5. CASE SignIn!Answer(q) \/ SignIn!StoreSession(q) \/ SignIn!Date(q) \/ SignIn!Save(q) \/ SignIn!Stop(q)
    BY <1>0, <2>5 DEF SignIn!Answer, SignIn!StoreSession, SignIn!Date, SignIn!Save, SignIn!Stop,
       SignIn!Ends, SignIn!Idle, SignIn!Steps, SignIn!At
  <2> QED  BY <1>3, <2>1, <2>2, <2>3, <2>4, <2>5 DEF SignIn!GoesOn
<1> QED  BY <1>1, <1>2, <1>3

LEMMA StartStep ==
    ASSUME SignIn!TypeOK, OwnInv, StartInv, SignIn!Next  PROVE StartInv'
<1> SUFFICES ASSUME NEW e \in Emails, started'[e] # None  PROVE <<started'[e].id, e>> \in proven'
  BY DEF StartInv
<1>1. proven \subseteq proven'
  BY Grows
<1>2. ASSUME NEW r \in Requests, SignIn!StoreSession(r) \/ SignIn!Date(r)
      PROVE <<started'[e].id, e>> \in proven'
  <2>1. <<asked[r].id, asked[r].email>> \in proven
    BY <1>2 DEF OwnInv, SignIn!StoreSession, SignIn!Date, SignIn!At, SignIn!Steps
  <2> QED  BY <1>1, <1>2, <2>1 DEF StartInv, SignIn!StoreSession, SignIn!Date, SignIn!TypeOK
<1>3. CASE UNCHANGED started
  BY <1>1, <1>3 DEF StartInv
<1>4. ASSUME NEW r \in Requests, SignIn!Forget(r)  PROVE <<started'[e].id, e>> \in proven'
  BY <1>1, <1>4 DEF StartInv, SignIn!Forget, SignIn!TypeOK
<1>5. ASSUME NEW f \in Emails, SignIn!Expire(f)  PROVE <<started'[e].id, e>> \in proven'
  BY <1>1, <1>5 DEF StartInv, SignIn!Expire, SignIn!TypeOK
<1> QED  BY <1>2, <1>3, <1>4, <1>5 DEF SignIn!Next, SignIn!Elsewhere, SignIn!SignUp, SignIn!ChangeMail,
            SignIn!Leave, SignIn!DeleteRow, SignIn!Arrives, SignIn!GoesOn, SignIn!Google,
     SignIn!Facebook, SignIn!GitHub, SignIn!MobileGoogle, SignIn!MobileGitHub, SignIn!Reported,
     SignIn!Step1, SignIn!Step2, SignIn!Edit, SignIn!FindById, SignIn!FindByMail, SignIn!Link,
     SignIn!Answer, SignIn!Insert, SignIn!Save, SignIn!Stop

-----------------------------------------------------------------------------
(* What happens to a row *)

\* How one row changes: not at all, by its address, its state, a link, an edit, or it is new.
Kept(u) == member'[u] = member[u]
Moved(u) == \E e \in Emails :
    member[u] # None /\ member'[u] = [member[u] EXCEPT !.email = e] /\ had' = had \cup {<<u, e>>}
Closed(u) == \E s \in {"left", "gone"} : member[u] # None /\ member'[u] = [member[u] EXCEPT !.state = s]
LinkedBy(u, r) ==
    /\ SignIn!At(r, "link") /\ asked[r].user = u
    /\ member'[u] = [member[u] EXCEPT !.ids = SignIn!Linked(member[u].ids, asked[r].id), !.picture =
           asked[r].picture]
EditedBy(u, r) ==
    /\ SignIn!Save(r) /\ asked[r].user = u
    /\ member'[u] = [asked[r].row EXCEPT !.picture = asked[r].picture]
    /\ chosen'[u] = asked[r].picture
Made(u) == \E e \in Emails :
    /\ member[u] = None /\ member'[u] = SignIn!NewRow(e, SignIn!NoIds, None) /\ had' = had \cup {<<u, e>>}
CompletedBy(u, r) ==
    /\ SignIn!Insert(r) /\ member[u] = None /\ ~SignIn!Taken(asked[r].email)
    /\ member'[u] =
           SignIn!NewRow(asked[r].email, SignIn!Linked(SignIn!NoIds, asked[r].id), Photo[asked[r].id])
    /\ had' = had \cup {<<u, asked[r].email>>}

\* In a step at most one row changes, in one of these ways.
LEMMA RowStep ==
    ASSUME SignIn!TypeOK, HandInv, SignIn!Next
    PROVE  \/ \A w \in Accounts : Kept(w)
           \/ \E u \in Accounts :
                 /\ \A w \in Accounts \ {u} : Kept(w)
                 /\ \/ Moved(u) \/ Closed(u) \/ Made(u)
                    \/ \E q \in Requests : LinkedBy(u, q) \/ EditedBy(u, q) \/ CompletedBy(u, q)
<1> DEFINE Goal ==
           \/ \A w \in Accounts : Kept(w)
           \/ \E u \in Accounts :
                 /\ \A w \in Accounts \ {u} : Kept(w)
                 /\ \/ Moved(u) \/ Closed(u) \/ Made(u)
                    \/ \E q \in Requests : LinkedBy(u, q) \/ EditedBy(u, q) \/ CompletedBy(u, q)
<1>0. member \in [Accounts -> SignIn!Rows \cup {None}] /\ chosen \in [Accounts -> Photos \cup {None}]
  BY DEF SignIn!TypeOK
<1>1. ASSUME NEW r \in Requests, SignIn!Link(r)  PROVE Goal
  <2>1. asked[r].user \in Accounts
    BY <1>1 DEF SignIn!Link, SignIn!At, HandInv
  <2> QED  BY <1>0, <1>1, <2>1 DEF SignIn!Link, LinkedBy, Kept
<1>2. ASSUME NEW r \in Requests, SignIn!Save(r), asked[r].user \in Accounts  PROVE Goal
  <2>1. CASE UNCHANGED <<member, chosen, hasty>>
    BY <1>2, <2>1 DEF Kept
  <2>2. CASE ~UNCHANGED <<member, chosen, hasty>>
    <3>1. /\ member' = [member EXCEPT ![asked[r].user] = [asked[r].row EXCEPT !.picture = asked[r].picture]]
          /\ chosen' = [chosen EXCEPT ![asked[r].user] = asked[r].picture]
      BY <1>2, <2>2 DEF SignIn!Save
    <3> QED  BY <1>0, <1>2, <3>1 DEF EditedBy, Kept
  <2> QED  BY <2>1, <2>2
<1>3. ASSUME NEW r \in Requests, SignIn!Insert(r)  PROVE Goal
  <2>1. CASE UNCHANGED member
    BY <2>1 DEF Kept
  <2>2. CASE ~UNCHANGED member
    <3>1. PICK u \in Accounts :
            /\ ~SignIn!Taken(asked[r].email) /\ member[u] = None
            /\ member' = [member EXCEPT ![u] =
                   SignIn!NewRow(asked[r].email, SignIn!Linked(SignIn!NoIds, asked[r].id),
                       Photo[asked[r].id])]
            /\ had' = had \cup {<<u, asked[r].email>>}
      BY <1>3, <2>2 DEF SignIn!Insert
    <3> QED  BY <1>0, <1>3, <3>1 DEF CompletedBy, Kept
  <2> QED  BY <2>1, <2>2
<1>4. ASSUME NEW u \in Accounts, NEW e \in Emails, SignIn!SignUp(u, e)  PROVE Goal
  BY <1>0, <1>4 DEF SignIn!SignUp, Made, Kept
<1>5. ASSUME NEW u \in Accounts, NEW e \in Emails, SignIn!ChangeMail(u, e)  PROVE Goal
  <2>1. Moved(u)
    BY <1>0, <1>5 DEF SignIn!ChangeMail, Moved
  <2> QED  BY <1>0, <1>5, <2>1 DEF SignIn!ChangeMail, Kept
<1>6. ASSUME NEW u \in Accounts, SignIn!Leave(u) \/ SignIn!DeleteRow(u)  PROVE Goal
  <2>1. Closed(u)
    BY <1>0, <1>6 DEF SignIn!Leave, SignIn!DeleteRow, Closed, SignIn!Live
  <2> QED  BY <1>0, <1>6, <2>1 DEF SignIn!Leave, SignIn!DeleteRow, Kept
<1>7. CASE UNCHANGED member
  BY <1>7 DEF Kept
<1>8. ASSUME NEW r \in Requests, SignIn!Save(r)  PROVE asked[r].user \in Accounts
  BY <1>8 DEF SignIn!Save, SignIn!At, HandInv
<1>9. CASE SignIn!Elsewhere
  BY <1>4, <1>5, <1>6, <1>7, <1>9 DEF SignIn!Elsewhere, SignIn!Expire
<1>10. ASSUME NEW r \in Requests, SignIn!Arrives(r)  PROVE UNCHANGED member
  BY <1>10 DEF SignIn!Arrives, SignIn!Google, SignIn!Facebook, SignIn!GitHub, SignIn!MobileGoogle,
     SignIn!MobileGitHub, SignIn!Reported, SignIn!Step1, SignIn!Step2, SignIn!Edit
<1>11. ASSUME NEW r \in Requests, SignIn!GoesOn(r)  PROVE Goal
  <2>1. CASE SignIn!FindById(r) \/ SignIn!FindByMail(r) \/ SignIn!Answer(r) \/ SignIn!StoreSession(r)
               \/ SignIn!Date(r) \/ SignIn!Forget(r) \/ SignIn!Stop(r)
    BY <1>7, <2>1 DEF SignIn!FindById, SignIn!FindByMail, SignIn!Answer, SignIn!StoreSession, SignIn!Date,
       SignIn!Forget, SignIn!Stop
  <2> QED  BY <1>1, <1>2, <1>3, <1>8, <1>11, <2>1 DEF SignIn!GoesOn
<1>12. ASSUME NEW r \in Requests, SignIn!Arrives(r)  PROVE Goal
  BY <1>7, <1>10, <1>12
<1> QED  BY <1>9, <1>11, <1>12 DEF SignIn!Next

-----------------------------------------------------------------------------
(* Addresses and links *)

LEMMA LinkedFacts ==
    ASSUME NEW ids \in [SignIn!Providers -> Ids \cup {None}], NEW i \in Ids, NEW p \in SignIn!Providers
    PROVE  /\ SignIn!Linked(ids, i)[p] = IF p = ProviderOf[i] THEN i ELSE ids[p]
           /\ SignIn!NoIds[p] = None /\ SignIn!NoIds \in [SignIn!Providers -> Ids \cup {None}]
BY RowShape DEF SignIn!Linked, SignIn!NoIds

LEMMA HadStep ==
    ASSUME SignIn!TypeOK, HandInv, HadInv, SignIn!Next  PROVE HadInv'
<1>1. had \subseteq had'
  BY Grows
<1>2. \A u \in Accounts : Kept(u) /\ member'[u] # None => <<u, member'[u].email>> \in had'
  BY <1>1 DEF Kept, HadInv
<1>3. ASSUME NEW u \in Accounts, \/ Moved(u) \/ Closed(u) \/ Made(u)
                                 \/ \E r \in Requests : LinkedBy(u, r) \/ EditedBy(u, r) \/ CompletedBy(u, r)
      PROVE  <<u, member'[u].email>> \in had'
  <2>1. CASE Moved(u)
    <3>1. PICK e \in Emails : member[u] # None /\ member'[u] = [member[u] EXCEPT !.email = e]
                 /\ had' = had \cup {<<u, e>>}
      BY <2>1 DEF Moved
    <3> QED  BY <3>1, RowShape DEF SignIn!TypeOK, SignIn!Rows
  <2>2. CASE Closed(u)
    BY <1>1, <2>2 DEF Closed, SignIn!TypeOK, SignIn!Rows, HadInv
  <2>3. CASE Made(u)
    BY <2>3 DEF Made, SignIn!NewRow
  <2>4. ASSUME NEW r \in Requests, LinkedBy(u, r)  PROVE <<u, member'[u].email>> \in had'
    <3>1. member[u] \in SignIn!Rows /\ member[u] # None
      BY <2>4, RowShape DEF LinkedBy, HandInv, SignIn!At, SignIn!TypeOK
    <3> QED  BY <1>1, <2>4, <3>1 DEF LinkedBy, SignIn!Rows, HadInv
  <2>5. ASSUME NEW r \in Requests, EditedBy(u, r)  PROVE <<u, member'[u].email>> \in had'
    <3>1. asked[r] \in SignIn!Saves
      BY <2>5, AskShape DEF EditedBy, SignIn!Save
    <3> QED  BY <1>1, <2>5, <3>1 DEF EditedBy, SignIn!Save, SignIn!Saves, SignIn!Rows, HadInv
  <2>6. ASSUME NEW r \in Requests, CompletedBy(u, r)  PROVE <<u, member'[u].email>> \in had'
    BY <2>6 DEF CompletedBy, SignIn!NewRow
  <2> QED  BY <1>3, <2>1, <2>2, <2>3, <2>4, <2>5, <2>6
<1>4. \A u \in Accounts : member'[u] # None => <<u, member'[u].email>> \in had'
  BY <1>2, <1>3, RowStep
<1>5. ASSUME NEW q \in Requests, SignIn!At(q, "save")'  PROVE <<asked'[q].user, asked'[q].row.email>> \in had'
  <2>1. CASE \A r \in Requests : (SignIn!Arrives(r) \/ SignIn!GoesOn(r)) => r # q
    BY <1>1, <1>5, <2>1, OtherAsks DEF HadInv, SignIn!At
  <2>2. CASE SignIn!Arrives(q)
    <3>1. PICK u \in Accounts, p \in Photos \cup {None} : SignIn!Edit(q, u, p)
      BY <1>5, <2>2 DEF SignIn!Arrives, SignIn!Google, SignIn!Facebook, SignIn!GitHub, SignIn!MobileGoogle,
         SignIn!MobileGitHub, SignIn!Reported, SignIn!Step1, SignIn!Step2,
         SignIn!Begins, SignIn!Task, SignIn!TypeOK, SignIn!At
    <3> QED  BY <1>1, <3>1 DEF SignIn!Edit, SignIn!Begins, SignIn!Live, SignIn!TypeOK, HadInv
  <2>3. CASE SignIn!GoesOn(q)
    <3>1. asked[q] \in SignIn!Calls \cup SignIn!Saves \cup {SignIn!Idle}
            /\ asked \in [Requests -> SignIn!Calls \cup SignIn!Saves \cup {SignIn!Idle}]
      BY AskShape DEF SignIn!TypeOK
    <3>2. asked[q].at \in SignIn!Steps => asked[q] \in SignIn!Calls
      BY AskShape
    <3>3. CASE SignIn!Answer(q) \/ SignIn!StoreSession(q) \/ SignIn!Date(q) \/ SignIn!Save(q)
                 \/ SignIn!Stop(q)
      BY <1>5, <3>1, <3>3 DEF SignIn!Answer, SignIn!StoreSession, SignIn!Date, SignIn!Save, SignIn!Stop,
         SignIn!Ends, SignIn!Idle, SignIn!At
    <3>4. CASE SignIn!FindById(q) \/ SignIn!FindByMail(q) \/ SignIn!Link(q) \/ SignIn!Insert(q)
                 \/ SignIn!Forget(q)
      <4>1. asked[q] \in SignIn!Calls
        BY <3>2, <3>4 DEF SignIn!FindById, SignIn!FindByMail, SignIn!Link, SignIn!Insert, SignIn!Forget,
           SignIn!At, SignIn!Steps
      <4>2. asked'[q].at # "save"
        <5>1. CASE \E at \in {"byMail", "store", "answer"} : SignIn!Goes(q, at)
          BY <3>1, <4>1, <5>1 DEF SignIn!Goes, SignIn!Calls
        <5>2. CASE \E u \in Accounts, at \in {"answer", "forget"} : SignIn!Found(q, u, at)
          BY <3>1, <4>1, <5>2 DEF SignIn!Found, SignIn!Calls
        <5>3. CASE SignIn!Ends(q)
          BY <3>1, <5>3 DEF SignIn!Ends, SignIn!Idle
        <5>4. CASE \E u \in Accounts : \E p :
                       asked' = [asked EXCEPT ![q].at = "link", ![q].user = u, ![q].picture = p]
          BY <3>1, <4>1, <5>4 DEF SignIn!Calls
        <5> QED  BY <3>4, <5>1, <5>2, <5>3, <5>4 DEF SignIn!FindById, SignIn!FindByMail, SignIn!Link,
                    SignIn!Insert, SignIn!Forget
      <4> QED  BY <1>5, <4>2 DEF SignIn!At
    <3> QED  BY <2>3, <3>3, <3>4 DEF SignIn!GoesOn
  <2> QED  BY <2>1, <2>2, <2>3
<1> QED  BY <1>4, <1>5 DEF HadInv

\* Owns after the step.
OwnsThen(i, u) == \E e \in Emails : <<i, e>> \in proven' /\ <<u, e>> \in had'

LEMMA LinkedStep ==
    ASSUME SignIn!TypeOK, HandInv, OwnInv, SignIn!LinkedByMail, SignIn!Next  PROVE SignIn!LinkedByMail'
<1>1. \A i, u : SignIn!Owns(i, u) => OwnsThen(i, u)
  BY Grows DEF SignIn!Owns, OwnsThen
<1> DEFINE Mine(u) == \A p \in SignIn!Providers :
        member'[u] # None /\ member'[u].ids[p] # None => OwnsThen(member'[u].ids[p], u)
<1>2. ASSUME NEW u \in Accounts, Kept(u)  PROVE Mine(u)
  BY <1>1, <1>2 DEF Kept, SignIn!LinkedByMail
<1>3. ASSUME NEW u \in Accounts, \/ Moved(u) \/ Closed(u) \/ Made(u)
                                 \/ \E r \in Requests : LinkedBy(u, r) \/ EditedBy(u, r) \/ CompletedBy(u, r)
      PROVE  Mine(u)
  <2>1. CASE Moved(u) \/ Closed(u)
    <3>1. member[u] \in SignIn!Rows /\ member[u] # None
      BY <2>1 DEF Moved, Closed, SignIn!TypeOK
    <3>2. member'[u].ids = member[u].ids
      BY <2>1, <3>1 DEF Moved, Closed, SignIn!Rows
    <3> QED  BY <1>1, <3>1, <3>2 DEF SignIn!LinkedByMail
  <2>2. CASE Made(u)
    BY <2>2 DEF Made, SignIn!NewRow, SignIn!NoIds
  <2>3. ASSUME NEW r \in Requests, LinkedBy(u, r)  PROVE Mine(u)
    <3>1. member[u] \in SignIn!Rows /\ member[u] # None /\ asked[r] \in SignIn!Calls
      BY <2>3, RowShape, AskShape DEF LinkedBy, HandInv, SignIn!At, SignIn!TypeOK, SignIn!Steps
    <3>2. SignIn!Owns(asked[r].id, u)
      BY <2>3 DEF LinkedBy, SignIn!At, OwnInv
    <3>3. member'[u].ids = SignIn!Linked(member[u].ids, asked[r].id)
            /\ member[u].ids \in [SignIn!Providers -> Ids \cup {None}]
      BY <2>3, <3>1 DEF LinkedBy, SignIn!Rows
    <3>4. asked[r].id \in Ids
      BY <3>1 DEF SignIn!Calls
    <3> QED  BY <1>1, <3>1, <3>2, <3>3, <3>4, LinkedFacts DEF SignIn!LinkedByMail
  <2>4. ASSUME NEW r \in Requests, EditedBy(u, r)  PROVE Mine(u)
    <3>1. asked[r] \in SignIn!Saves /\ SignIn!At(r, "save")
      BY <2>4, AskShape DEF EditedBy, SignIn!Save
    <3>2. member'[u].ids = asked[r].row.ids
      BY <2>4, <3>1 DEF EditedBy, SignIn!Saves, SignIn!Rows
    <3> QED  BY <1>1, <2>4, <3>1, <3>2 DEF OwnInv, EditedBy
  <2>5. ASSUME NEW r \in Requests, CompletedBy(u, r)  PROVE Mine(u)
    <3>1. asked[r] \in SignIn!Calls /\ <<asked[r].id, asked[r].email>> \in proven
      BY <2>5, AskShape DEF CompletedBy, SignIn!Insert, SignIn!At, SignIn!Steps, OwnInv
    <3>2. <<asked[r].id, asked[r].email>> \in proven' /\ <<u, asked[r].email>> \in had'
      BY <2>5, <3>1, Grows DEF CompletedBy
    <3>3. \A p \in SignIn!Providers : member'[u].ids[p] # None => member'[u].ids[p] = asked[r].id
      <4>1. asked[r].id \in Ids /\ member'[u].ids = SignIn!Linked(SignIn!NoIds, asked[r].id)
        BY <2>5, <3>1 DEF CompletedBy, SignIn!NewRow, SignIn!Calls
      <4> QED  BY <4>1, RowShape DEF SignIn!Linked, SignIn!NoIds
    <3> QED  BY <3>1, <3>2, <3>3 DEF OwnsThen, SignIn!Calls
  <2> QED  BY <1>3, <2>1, <2>2, <2>3, <2>4, <2>5
<1>4. \A u \in Accounts : Mine(u)
  BY <1>2, <1>3, RowStep
<1>5. ASSUME NEW s \in signed'  PROVE OwnsThen(s[1], s[2])
  <2>1. CASE s \in signed
    BY <1>1, <2>1 DEF SignIn!LinkedByMail
  <2>2. ASSUME NEW r \in Requests, SignIn!Answer(r), s = <<asked[r].id, asked[r].user>>
        PROVE OwnsThen(s[1], s[2])
    BY <1>1, <2>2 DEF SignIn!Answer, SignIn!At, OwnInv
  <2> QED  BY <2>1, <2>2 DEF SignIn!Next, SignIn!Elsewhere, SignIn!Expire, SignIn!SignUp, SignIn!ChangeMail,
              SignIn!Leave, SignIn!DeleteRow, SignIn!Arrives, SignIn!GoesOn, SignIn!Google,
     SignIn!Facebook, SignIn!GitHub, SignIn!MobileGoogle, SignIn!MobileGitHub, SignIn!Reported,
     SignIn!Step1, SignIn!Step2, SignIn!Edit, SignIn!FindById, SignIn!FindByMail, SignIn!Link,
     SignIn!Answer, SignIn!StoreSession, SignIn!Date, SignIn!Insert, SignIn!Forget, SignIn!Save, SignIn!Stop
<1> QED  BY <1>4, <1>5 DEF SignIn!LinkedByMail, OwnsThen, SignIn!Owns

-----------------------------------------------------------------------------
(* One account *)

LEMMA CrossStep == SignIn!Next => CrossInv'
BY DEF SignIn!Next, CrossInv

\* A row that comes to carry i while another account does was crossed with it.
LEMMA NotTwice ==
    ASSUME SignIn!TypeOK, HandInv, SignIn!OneAccount, NEW i \in Ids \ (met \cup SignIn!Crossed),
           NEW u \in Accounts, NEW w \in Accounts, u # w, SignIn!Carries(w, i), SignIn!Carries(u, i)',
           \/ Kept(u) \/ Moved(u) \/ Closed(u) \/ Made(u)
           \/ \E q \in Requests : LinkedBy(u, q) \/ EditedBy(u, q) \/ CompletedBy(u, q)
    PROVE  FALSE
<1>0. ~SignIn!Carries(u, i)
  BY DEF SignIn!OneAccount
<1>p. /\ ProviderOf[i] \in SignIn!Providers /\ i # None
      /\ member'[u] # None /\ member'[u].state = "live" /\ member'[u].ids[ProviderOf[i]] = i
  BY RowShape DEF SignIn!Carries, SignIn!Live
<1>1. CASE Kept(u)
  BY <1>0, <1>1, <1>p DEF Kept, SignIn!Carries, SignIn!Live
<1>2. CASE Moved(u)
  <2>1. member[u] \in SignIn!Rows /\ member[u] # None
    BY <1>2 DEF Moved, SignIn!TypeOK
  <2>2. member'[u].state = member[u].state /\ member'[u].ids = member[u].ids
    BY <1>2, <2>1 DEF Moved, SignIn!Rows
  <2> QED  BY <1>0, <1>p, <2>1, <2>2 DEF SignIn!Carries, SignIn!Live
<1>3. CASE Closed(u)
  <2>1. member[u] \in SignIn!Rows
    BY <1>3 DEF Closed, SignIn!TypeOK
  <2> QED  BY <1>3, <1>p, <2>1 DEF Closed, SignIn!Rows
<1>4. CASE Made(u)
  BY <1>4, <1>p DEF Made, SignIn!NewRow, SignIn!NoIds
<1>5. ASSUME NEW q \in Requests, LinkedBy(u, q)  PROVE FALSE
  <2>1. member[u] \in SignIn!Rows /\ member[u] # None /\ asked[q] \in SignIn!Calls
    BY <1>5, RowShape, AskShape DEF LinkedBy, HandInv, SignIn!At, SignIn!TypeOK, SignIn!Steps
  <2>2. /\ member'[u].state = member[u].state /\ asked[q].id \in Ids
        /\ member'[u].ids = SignIn!Linked(member[u].ids, asked[q].id)
             /\ member[u].ids \in [SignIn!Providers -> Ids \cup {None}]
    BY <1>5, <2>1 DEF LinkedBy, SignIn!Rows, SignIn!Calls
  <2>3. CASE asked[q].id = i
    BY <1>5, <2>3 DEF LinkedBy, SignIn!Pending, SignIn!Crossed
  <2>4. CASE asked[q].id # i
    <3>1. member[u].ids[ProviderOf[i]] = i
      BY <1>p, <2>2, <2>4, LinkedFacts
    <3> QED  BY <1>0, <1>p, <2>1, <2>2, <3>1 DEF SignIn!Carries, SignIn!Live
  <2> QED  BY <2>3, <2>4
<1>6. ASSUME NEW q \in Requests, EditedBy(u, q)  PROVE FALSE
  <2>1. asked[q] \in SignIn!Saves /\ SignIn!At(q, "save")
    BY <1>6, AskShape DEF EditedBy, SignIn!Save
  <2>2. member'[u].ids = asked[q].row.ids
    BY <1>6, <2>1 DEF EditedBy, SignIn!Saves, SignIn!Rows
  <2>3. SignIn!Pending(q, i)
    BY <1>p, <2>1, <2>2 DEF SignIn!Pending
  <2> QED  BY <1>6, <2>3 DEF EditedBy, SignIn!Crossed
<1>7. ASSUME NEW q \in Requests, CompletedBy(u, q)  PROVE FALSE
  <2>1. asked[q] \in SignIn!Calls /\ SignIn!At(q, "insert")
    BY <1>7, AskShape DEF CompletedBy, SignIn!Insert, SignIn!At, SignIn!Steps
  <2>2. asked[q].id \in Ids /\ member'[u].ids = SignIn!Linked(SignIn!NoIds, asked[q].id)
    BY <1>7, <2>1 DEF CompletedBy, SignIn!NewRow, SignIn!Calls
  <2>3. asked[q].id = i
    BY <1>p, <2>2, RowShape DEF SignIn!Linked, SignIn!NoIds
  <2>4. w \in Accounts \ {None} /\ member[w] # None /\ member[w].state # "gone"
    BY RowShape DEF SignIn!Carries, SignIn!Live
  <2>5. asked[q].email # member[w].email
    BY <1>7, <2>4 DEF CompletedBy, SignIn!Taken, SignIn!TakenBut
  <2> QED  BY <2>1, <2>3, <2>5 DEF SignIn!Coming, SignIn!At, SignIn!Crossed
<1> QED  BY <1>1, <1>2, <1>3, <1>4, <1>5, <1>6, <1>7

LEMMA OneStep ==
    ASSUME SignIn!TypeOK, HandInv, CrossInv, SignIn!OneAccount, SignIn!Next  PROVE SignIn!OneAccount'
<1>1. SUFFICES ASSUME NEW i \in Ids, i \notin met', NEW u \in Accounts, NEW w \in Accounts,
                      SignIn!Carries(u, i)', SignIn!Carries(w, i)', u # w
               PROVE  FALSE
  BY DEF SignIn!OneAccount
<1>2. i \in Ids \ (met \cup SignIn!Crossed)
  BY <1>1 DEF SignIn!Next, CrossInv
<1>3. \A v \in Accounts : Kept(v) /\ SignIn!Carries(v, i)' => SignIn!Carries(v, i)
  BY DEF Kept, SignIn!Carries, SignIn!Live
<1>4. CASE Kept(u)
  <2>1. SignIn!Carries(u, i)
    BY <1>1, <1>3, <1>4
  <2> QED  BY <1>1, <1>2, <2>1, NotTwice, RowStep
<1>5. CASE Kept(w)
  <2>1. SignIn!Carries(w, i)
    BY <1>1, <1>3, <1>5
  <2> QED  BY <1>1, <1>2, <2>1, NotTwice, RowStep
<1> QED  BY <1>1, <1>4, <1>5, RowStep

-----------------------------------------------------------------------------
(* Pictures *)

LEMMA Edited ==
    ASSUME SignIn!TypeOK, HandInv, SignIn!Next
    PROVE  \/ UNCHANGED <<chosen, hasty>>
           \/ \E r \in Requests :
                 /\ SignIn!Save(r) /\ asked[r].user \in Accounts /\ member[asked[r].user] # None
                 /\ member' = [member EXCEPT ![asked[r].user] = [asked[r].row EXCEPT !.picture =
                        asked[r].picture]]
                 /\ chosen' = [chosen EXCEPT ![asked[r].user] = asked[r].picture]
                 /\ hasty' = IF \E q \in Requests : SignIn!At(q, "link") /\ asked[q].user = asked[r].user
                             THEN hasty \cup {asked[r].user} ELSE hasty \ {asked[r].user}
<1>1. ASSUME NEW r \in Requests, SignIn!Save(r)
      PROVE asked[r].user \in Accounts /\ member[asked[r].user] # None
  BY <1>1 DEF SignIn!Save, SignIn!At, HandInv
<1>2. ASSUME NEW r \in Requests, SignIn!Save(r)
      PROVE  \/ UNCHANGED <<chosen, hasty>>
             \/ /\ member' = [member EXCEPT ![asked[r].user] = [asked[r].row EXCEPT !.picture =
                       asked[r].picture]]
                /\ chosen' = [chosen EXCEPT ![asked[r].user] = asked[r].picture]
                /\ hasty' = IF \E q \in Requests : SignIn!At(q, "link") /\ asked[q].user = asked[r].user
                             THEN hasty \cup {asked[r].user} ELSE hasty \ {asked[r].user}
  BY <1>2 DEF SignIn!Save
<1>3. ASSUME NEW r \in Requests, SignIn!GoesOn(r), ~SignIn!Save(r)  PROVE UNCHANGED <<chosen, hasty>>
  BY <1>3 DEF SignIn!GoesOn, SignIn!FindById, SignIn!FindByMail, SignIn!Link, SignIn!Answer,
     SignIn!StoreSession, SignIn!Date, SignIn!Insert, SignIn!Forget, SignIn!Stop
<1>4. ASSUME NEW r \in Requests, SignIn!Arrives(r)  PROVE UNCHANGED <<chosen, hasty>>
  BY <1>4 DEF SignIn!Arrives, SignIn!Google, SignIn!Facebook, SignIn!GitHub, SignIn!MobileGoogle,
     SignIn!MobileGitHub, SignIn!Reported, SignIn!Step1, SignIn!Step2, SignIn!Edit
<1>5. CASE SignIn!Elsewhere
  BY <1>5 DEF SignIn!Elsewhere, SignIn!Expire, SignIn!SignUp, SignIn!ChangeMail, SignIn!Leave,
     SignIn!DeleteRow
<1> QED  BY <1>1, <1>2, <1>3, <1>4, <1>5 DEF SignIn!Next

LEMMA NewStep ==
    ASSUME SignIn!TypeOK, HandInv, NewInv, SignIn!Next  PROVE NewInv'
BY Stays, Edited DEF NewInv, SignIn!TypeOK

LEMMA PicStep ==
    ASSUME SignIn!TypeOK, HandInv, PicInv, SignIn!PictureKept, SignIn!Next  PROVE PicInv'
<1> SUFFICES ASSUME NEW q \in Requests, SignIn!At(q, "link")', asked'[q].user \notin hasty',
                        chosen'[asked'[q].user] # None
             PROVE  asked'[q].picture = chosen'[asked'[q].user]
  BY DEF PicInv
<1>0. asked[q] \in SignIn!Calls \cup SignIn!Saves \cup {SignIn!Idle}
        /\ asked \in [Requests -> SignIn!Calls \cup SignIn!Saves \cup {SignIn!Idle}]
      /\ (asked[q].at \in SignIn!Steps => asked[q] \in SignIn!Calls)
  BY AskShape DEF SignIn!TypeOK
<1>1. CASE asked'[q] = asked[q]
  <2>1. SignIn!At(q, "link") /\ asked[q].user \in Accounts
    BY <1>1 DEF SignIn!At, HandInv
  <2>2. CASE UNCHANGED <<chosen, hasty>>
    BY <1>1, <2>1, <2>2 DEF PicInv
  <2>3. ASSUME NEW r \in Requests, asked[r].user \in Accounts,
               chosen' = [chosen EXCEPT ![asked[r].user] = asked[r].picture],
               hasty' = IF \E k \in Requests : SignIn!At(k, "link") /\ asked[k].user = asked[r].user
                        THEN hasty \cup {asked[r].user} ELSE hasty \ {asked[r].user}
        PROVE  asked'[q].picture = chosen'[asked'[q].user]
    <3>1. asked[q].user # asked[r].user
      BY <1>1, <2>1, <2>3
    <3>2. asked[q].user \notin hasty /\ chosen'[asked[q].user] = chosen[asked[q].user]
      BY <1>1, <2>1, <2>3, <3>1 DEF SignIn!TypeOK
    <3> QED  BY <1>1, <2>1, <3>2 DEF PicInv
  <2> QED  BY <2>2, <2>3, Edited
<1>2. CASE SignIn!FindByMail(q)
  <2>1. asked[q] \in SignIn!Calls
    BY <1>0, <1>2 DEF SignIn!FindByMail, SignIn!At, SignIn!Steps
  <2>2. ~SignIn!Goes(q, "store")
    BY <1>0, <2>1 DEF SignIn!Goes, SignIn!At, SignIn!Calls
  <2>3. PICK u \in Accounts :
            /\ SignIn!Live(u)
            /\ asked' = [asked EXCEPT ![q].at = "link", ![q].user = u,
                    ![q].picture = IF member[u].picture = None THEN asked[q].picture ELSE member[u].picture]
    BY <1>2, <2>2 DEF SignIn!FindByMail
  <2>4. asked'[q].user = u
          /\ asked'[q].picture = IF member[u].picture = None THEN asked[q].picture ELSE member[u].picture
    BY <1>0, <2>1, <2>3 DEF SignIn!Calls
  <2>5. UNCHANGED <<chosen, hasty>>
    BY <1>2 DEF SignIn!FindByMail
  <2> QED  BY <2>3, <2>4, <2>5 DEF SignIn!PictureKept, SignIn!Live
<1>3. CASE SignIn!Arrives(q)
  <2>1. ASSUME NEW todo, SignIn!Begins(q, todo), todo.at # "link"  PROVE FALSE
    BY <1>0, <2>1 DEF SignIn!Begins, SignIn!At
  <2>2. ASSUME NEW i, NEW e, SignIn!Reported(q, i, e)  PROVE FALSE
    BY <2>1, <2>2 DEF SignIn!Reported, SignIn!Task
  <2>3. ASSUME NEW e, SignIn!Step1(q, e) \/ SignIn!Step2(q, e)  PROVE FALSE
    BY <2>1, <2>3 DEF SignIn!Step1, SignIn!Step2, SignIn!Task
  <2>4. ASSUME NEW u, NEW p, SignIn!Edit(q, u, p)  PROVE FALSE
    BY <2>1, <2>4 DEF SignIn!Edit
  <2> QED  BY <1>3, <2>2, <2>3, <2>4 DEF SignIn!Arrives, SignIn!Google, SignIn!Facebook, SignIn!GitHub,
              SignIn!MobileGoogle, SignIn!MobileGitHub
<1>4. CASE SignIn!GoesOn(q) /\ ~SignIn!FindByMail(q)
  <2>1. CASE \E at \in {"byMail", "answer"} : SignIn!At(q, "byId") /\ SignIn!Goes(q, at)
    BY <1>0, <2>1 DEF SignIn!Goes, SignIn!At, SignIn!Calls, SignIn!Steps
  <2>2. CASE \E u \in Accounts, at \in {"answer", "forget"} : SignIn!At(q, "byId") /\ SignIn!Found(q, u, at)
    BY <1>0, <2>2 DEF SignIn!Found, SignIn!At, SignIn!Calls, SignIn!Steps
  <2>3. CASE SignIn!Ends(q)
    BY <1>0, <2>3 DEF SignIn!Ends, SignIn!Idle, SignIn!At
  <2>4. CASE (SignIn!At(q, "link") \/ SignIn!At(q, "forget")) /\ SignIn!Goes(q, "answer")
    BY <1>0, <2>4 DEF SignIn!Goes, SignIn!At, SignIn!Calls, SignIn!Steps
  <2>5. CASE \E u \in Accounts : SignIn!At(q, "insert") /\ SignIn!Found(q, u, "forget")
    BY <1>0, <2>5 DEF SignIn!Found, SignIn!At, SignIn!Calls, SignIn!Steps
  <2> QED  BY <1>4, <2>1, <2>2, <2>3, <2>4, <2>5 DEF SignIn!GoesOn, SignIn!FindById, SignIn!Link,
              SignIn!Answer, SignIn!StoreSession, SignIn!Date, SignIn!Insert,
        SignIn!Forget, SignIn!Save, SignIn!Stop
<1> QED  BY <1>1, <1>2, <1>3, <1>4, OtherAsks

LEMMA PhotoStep ==
    ASSUME SignIn!TypeOK, HandInv, NewInv, PicInv, SignIn!PictureKept, SignIn!Next  PROVE SignIn!PictureKept'
<1> SUFFICES ASSUME NEW u \in Accounts, u \notin hasty', member'[u] # None, chosen'[u] # None
             PROVE  member'[u].picture = chosen'[u]
  BY DEF SignIn!PictureKept
<1>1. ASSUME NEW r \in Requests, SignIn!Save(r), asked[r].user = u, chosen' # chosen \/ hasty' # hasty
      PROVE  member'[u].picture = chosen'[u]
  <2>1. asked[r] \in SignIn!Saves
    BY <1>1, AskShape DEF SignIn!Save
  <2> QED  BY <1>1, <2>1 DEF SignIn!Save, SignIn!TypeOK, SignIn!Saves, SignIn!Rows
<1>2. CASE chosen'[u] = chosen[u] /\ u \notin hasty /\ ~(\E r \in Requests : EditedBy(u, r))
  <2>1. CASE Kept(u)
    <3>1. member[u] # None
      BY <2>1 DEF Kept
    <3> QED  BY <1>2, <2>1, <3>1 DEF Kept, SignIn!PictureKept
  <2>2. CASE Moved(u) \/ Closed(u)
    <3>1. member[u] \in SignIn!Rows /\ member[u] # None
      BY <2>2 DEF Moved, Closed, SignIn!TypeOK
    <3>2. member'[u].picture = member[u].picture
      BY <2>2, <3>1 DEF Moved, Closed, SignIn!Rows
    <3> QED  BY <1>2, <3>1, <3>2 DEF SignIn!PictureKept
  <2>3. CASE Made(u) \/ \E r \in Requests : CompletedBy(u, r)
    BY <1>2, <2>3 DEF Made, CompletedBy, NewInv
  <2>4. ASSUME NEW r \in Requests, LinkedBy(u, r)  PROVE member'[u].picture = chosen'[u]
    <3>1. member[u] \in SignIn!Rows
      BY <2>4, RowShape DEF LinkedBy, HandInv, SignIn!At, SignIn!TypeOK
    <3> QED  BY <1>2, <2>4, <3>1 DEF LinkedBy, PicInv, SignIn!Rows
  <2> QED  BY <1>2, <2>1, <2>2, <2>3, <2>4, RowStep
<1>3. ASSUME NEW r \in Requests, EditedBy(u, r)  PROVE member'[u].picture = chosen'[u]
  <2>1. asked[r] \in SignIn!Saves
    BY <1>3, AskShape DEF EditedBy, SignIn!Save
  <2> QED  BY <1>3, <2>1 DEF EditedBy, SignIn!Saves, SignIn!Rows
<1>4. ASSUME NEW r \in Requests, SignIn!Save(r), asked[r].user # u, asked[r].user \in Accounts,
             chosen' = [chosen EXCEPT ![asked[r].user] = asked[r].picture],
             hasty' = IF \E q \in Requests : SignIn!At(q, "link") /\ asked[q].user = asked[r].user
                             THEN hasty \cup {asked[r].user} ELSE hasty \ {asked[r].user}
      PROVE  chosen'[u] = chosen[u] /\ u \notin hasty
  BY <1>4 DEF SignIn!TypeOK
<1> QED  BY <1>1, <1>2, <1>3, <1>4, Edited

-----------------------------------------------------------------------------
(* The theorem *)

LEMMA SignInInvInit == SignIn!Init => SignInInv
<1> SUFFICES ASSUME SignIn!Init  PROVE SignInInv
  OBVIOUS
<1>1. \A r \in Requests : asked[r] = SignIn!Idle /\ asked[r].at = "idle"
  BY DEF SignIn!Init, SignIn!Idle
<1>2. SignIn!TypeOK
  BY <1>1 DEF SignIn!Init, SignIn!TypeOK
<1>3. HandInv /\ OwnInv /\ HadInv /\ StartInv /\ PicInv
  BY <1>1 DEF SignIn!Init, HandInv, OwnInv, HadInv, StartInv, PicInv, SignIn!Steps, SignIn!At
<1>4. SignIn!LinkedByMail /\ NewInv /\ SignIn!PictureKept
  BY DEF SignIn!Init, SignIn!LinkedByMail, NewInv, SignIn!PictureKept
<1>5. CrossInv /\ SignIn!OneAccount
  BY DEF SignIn!Init, CrossInv, SignIn!Crossed, SignIn!OneAccount, SignIn!Carries, SignIn!Live
<1> QED  BY <1>2, <1>3, <1>4, <1>5 DEF SignInInv

LEMMA SignInInvStep == SignInInv /\ [SignIn!Next]_(SignIn!vars) => SignInInv'
<1> SUFFICES ASSUME SignInInv, [SignIn!Next]_(SignIn!vars)  PROVE SignInInv'
  OBVIOUS
<1>1. CASE SignIn!Next
  BY <1>1, TypeStep, HandStep, OwnStep, HadStep, StartStep, LinkedStep, CrossStep, OneStep, NewStep, PicStep,
     PhotoStep DEF SignInInv
<1>2. CASE UNCHANGED SignIn!vars
  <2> USE <1>2 DEF SignIn!vars, SignIn!history
  <2>1. SignIn!TypeOK' /\ HandInv' /\ OwnInv' /\ HadInv' /\ StartInv'
    BY DEF SignInInv, SignIn!TypeOK, HandInv, OwnInv, HadInv, StartInv, SignIn!Owns, SignIn!At
  <2>2. SignIn!LinkedByMail' /\ NewInv' /\ PicInv' /\ SignIn!PictureKept'
    BY DEF SignInInv, SignIn!LinkedByMail, SignIn!Owns, NewInv, PicInv, SignIn!PictureKept, SignIn!At
  <2>3. CrossInv' /\ SignIn!OneAccount'
    BY DEF SignInInv, CrossInv, SignIn!Crossed, SignIn!Pending, SignIn!Coming, SignIn!OneAccount,
       SignIn!Carries, SignIn!Live, SignIn!At
  <2> QED  BY <2>1, <2>2, <2>3 DEF SignInInv
<1> QED  BY <1>1, <1>2

\* validateGoogleUser and the like, oauthCompletionStep1 and oauthCompletionStep2: however requests,
\* edits, sessions and deletions overlap, a provider's user gets at accounts that have had its address
\* only, at one of them unless it is on record, and a link keeps the picture of the owner.
THEOREM SignInsSoundHolds == SignIn!Spec => []SignInsSound
<1>1. SignInInv => SignInsSound
  BY DEF SignInInv, SignInsSound, SignIn!SignInsSound
<1> QED  BY <1>1, SignInInvInit, SignInInvStep, PTL DEF SignIn!Spec
=============================================================================
