---------------------------- MODULE BrowsingProofs ----------------------------
(***************************************************************************)
(* What a reader comes upon: any list that is read page by page (Pages), a *)
(* conversation in the search, on timelines and in threads (Reading), whom *)
(* the reader is advised to follow (WhoToFollow), and the best tweets of a *)
(* category (ExploreLists).                                                *)
(*                                                                         *)
(* Pages comes first, for any number of rows and times, any page size and  *)
(* any number of changes.  While the client goes on, what it has not seen  *)
(* lies beyond the cursor (or at a place after the pages it has asked      *)
(* for), what it has seen does not, and what breaks either is recorded:    *)
(* Walked.  A cursor only leads down, since Beyond is transitive.          *)
(***************************************************************************)
EXTENDS Browsing, Sequences, FiniteSetTheorems, SequenceTheorems, TLAPS

(* A row that is not seen yet, and one that is. *)
Ahead(i) == IF ByPage THEN WentAbove(i) \/ Place(i) >= page * Limit
            ELSE \/ cursor = NoCursor \/ Beyond(Row(i), cursor)
                 \/ ~list.exact /\ \E c \in cuts : LostAt(i, c)
Behind(i) == IF ByPage THEN CameAbove(i) \/ Place(i) < page * Limit
             ELSE \/ cursor # NoCursor /\ ~Beyond(Row(i), cursor)
                  \/ ~list.exact /\ \E c \in cuts : AgainAt(i, c)

Walked ==
    walk = "on" => /\ \A i \in steady \ shown : Ahead(i)
                   /\ \A i \in steady \cap shown : Behind(i)

\* What Walked needs of the handlers: an exact cursor goes with an order that
\* breaks ties, ascending ids only with an exact one, and a list that may end too
\* early is not read by the number of the page.
ListOK == /\ list \in Handlers
          /\ list.exact => list.order # "none"
          /\ list.order = "asc" => list.exact
          /\ list.joined \/ list.caught => list.next # "page"

Inv == TypeOK /\ ListOK /\ Walked /\ NoneMissed /\ NoneTwice

-----------------------------------------------------------------------------
LEMMA ListsOK == ASSUME list \in Lists PROVE ListOK
  <1> DEFINE OK(h) == /\ h \in Handlers
                      /\ h.exact => h.order # "none"
                      /\ h.order = "asc" => h.exact
                      /\ h.joined \/ h.caught => h.next # "page"
  <1>1. \A h : OK(h) => OK(Of(h))
    BY DEF Of, Handlers
  <1>2. \A h : OK(h) => OK(OneMore(h))
    <2> SUFFICES ASSUME NEW h, OK(h) PROVE OK(OneMore(h))
      OBVIOUS
    <2> DEFINE g == [h EXCEPT !.more = TRUE]
    <2>1. OK(g)
      BY DEF Handlers
    <2>2. OneMore(h) = [g EXCEPT !.next = "more"]
      BY DEF OneMore
    <2> HIDE DEF g
    <2> QED
      BY <2>1, <2>2 DEF Handlers
  <1>3. OK(Sorted("desc")) /\ OK(Sorted("none"))
    BY DEF Sorted, Handlers
  <1>4. OK(GetTweetReplies)
    <2> DEFINE g == OneMore(Of(Sorted("none")))
    <2>1. OK(g)
      BY <1>1, <1>2, <1>3
    <2> HIDE DEF g
    <2>2. OK([g EXCEPT !.next = "last"])
      BY <2>1 DEF Handlers
    <2> QED
      BY <2>2 DEF GetTweetReplies, g
  <1>5. OK(BuildBaseSearchBody)
    BY DEF BuildBaseSearchBody, Sorted, Handlers
  <1>6. OK(ExecuteUsersSearch)
    BY DEF ExecuteUsersSearch, Sorted, Handlers
  <1>7. OK(FindMessagesByChatId)
    BY DEF FindMessagesByChatId, Sorted, Handlers
  <1>8. OK(GetUserNotifications) /\ OK(GetMentionsAndReplies) /\ OK(GetCategoryTrending)
    BY DEF GetUserNotifications, GetMentionsAndReplies, GetCategoryTrending, Sorted, Handlers
  <1> HIDE DEF OK
  <1>9. OK(Of(Sorted("desc"))) /\ OK(OneMore(Sorted("desc"))) /\ OK(OneMore(Of(FindMessagesByChatId)))
    BY <1>1, <1>2, <1>3, <1>7
  <1>10. OK(SearchPosts) /\ OK(SearchLatestPosts) /\ OK(OneMore(ExecuteUsersSearch))
    <2> DEFINE g == OneMore(BuildBaseSearchBody)
    <2>1. OK(g) /\ g.next = "more"
      BY <1>2, <1>5 DEF OneMore, BuildBaseSearchBody, Sorted
    <2> HIDE DEF g
    <2>2. OK([g EXCEPT !.caught = TRUE])
      BY <2>1 DEF OK, Handlers
    <2> QED
      BY <1>2, <1>6, <2>2 DEF SearchPosts, SearchLatestPosts, ExecuteTweetsSearch, g
  <1>11. OK(list)
    BY <1>3, <1>4, <1>8, <1>9, <1>10
       DEF Lists, GetTweetLikes, GetTweetReposts, GetTweetQuotes, GetUserBookmarks,
           GetFollowingTweets, GetPostsByUserId, GetRepliesByUserId, GetMediaByUserId,
           GetLikedPosts, GetPosts, GetReplies, GetMedia, GetFollowersList, GetFollowingList,
           GetMutedUsersList, GetBlockedUsersList, GetFollowers, GetFollowing, GetMutedList,
           GetBlockedList, GetMessages, GetChats, SearchUsers
  <1> QED
    BY <1>11 DEF OK, ListOK

LEMMA SentIsNat == ASSUME NEW k \in Keys PROVE Sent(k) \in Nat
  BY MillisOfTime DEF Sent, Keys

LEMMA RowsOfIds == ASSUME TypeOK, NEW i \in Ids PROVE Row(i) \in Rows
  BY DEF TypeOK, Row, Rows

LEMMA IdsAreNat == \A i \in Ids : i \in Nat /\ i # 0
  BY IdsAreOrdered

\* A cursor leads down.
LEMMA BeyondTransitive ==
  ASSUME NEW x \in Rows, NEW y \in Rows, NEW c, c.at \in Nat, c.id \in Nat,
         Beyond(x, GenerateNextCursor(y)), Beyond(y, c)
  PROVE  Beyond(x, c)
  <1>1. /\ Sent(x.key) \in Nat /\ Sent(y.key) \in Nat /\ x.id \in Nat /\ y.id \in Nat
    BY SentIsNat, IdsAreNat DEF Rows
  <1> QED
    BY <1>1 DEF Beyond, GenerateNextCursor

\* What the order and the cursor of a cut disagree about is within a
\* millisecond, and nothing when cursors are exact.
LEMMA NotBefore ==
  ASSUME ListOK, NEW i \in Ids, NEW l \in Ids, i # l, TypeOK,
         ~Before(Row(i), Row(l)), ~Beyond(Row(i), GenerateNextCursor(Row(l)))
  PROVE  ~list.exact /\ LostAt(i, Row(l))
  <1>1. /\ rows[i] \in Keys /\ rows[l] \in Keys /\ i \in Nat /\ l \in Nat
        /\ rows[i] \in Int /\ rows[l] \in Int
    BY IdsAreNat, MillisOfTime DEF TypeOK, Keys
  <1>2. list.order \in {"desc", "asc", "none"} /\ list.exact \in BOOLEAN
    BY DEF ListOK, Handlers
  <1>3. rows[i] <= rows[l]
    BY <1>1 DEF Before, Row
  <1>4. CASE list.exact
    BY <1>1, <1>2, <1>3, <1>4 DEF ListOK, Before, Beyond, GenerateNextCursor, Row, Sent
  <1>5. CASE ~list.exact
    <2>1. Millis[rows[i]] <= Millis[rows[l]] /\ Millis[rows[i]] \in Nat /\ Millis[rows[l]] \in Nat
      BY <1>1, <1>3, MillisOfTime
    <2>2. list.order # "asc"
      BY <1>5 DEF ListOK
    <2>3. Millis[rows[i]] = Millis[rows[l]] /\ ~(i < l)
      BY <1>5, <2>1, <2>2, <1>1 DEF Beyond, GenerateNextCursor, Row, Sent
    <2>4. i > l
      BY <2>3, <1>1
    <2> QED
      BY <1>5, <2>3, <2>4 DEF LostAt, SameMillis, Row
  <1> QED
    BY <1>4, <1>5

LEMMA NotAfter ==
  ASSUME ListOK, NEW i \in Ids, NEW l \in Ids, TypeOK,
         ~Before(Row(l), Row(i)), Beyond(Row(i), GenerateNextCursor(Row(l)))
  PROVE  ~list.exact /\ AgainAt(i, Row(l))
  <1>1. /\ rows[i] \in Keys /\ rows[l] \in Keys /\ i \in Nat /\ l \in Nat
        /\ rows[i] \in Int /\ rows[l] \in Int
    BY IdsAreNat, MillisOfTime DEF TypeOK, Keys
  <1>2. list.order \in {"desc", "asc", "none"} /\ list.exact \in BOOLEAN
    BY DEF ListOK, Handlers
  <1>3. rows[l] <= rows[i]
    BY <1>1 DEF Before, Row
  <1>4. CASE list.exact
    BY <1>1, <1>2, <1>3, <1>4 DEF ListOK, Before, Beyond, GenerateNextCursor, Row, Sent
  <1>5. CASE ~list.exact
    <2>1. Millis[rows[l]] <= Millis[rows[i]] /\ Millis[rows[i]] \in Nat /\ Millis[rows[l]] \in Nat
      BY <1>1, <1>3, MillisOfTime
    <2>2. list.order # "asc"
      BY <1>5 DEF ListOK
    <2>3. Millis[rows[i]] = Millis[rows[l]] /\ i < l
      BY <1>5, <2>1, <2>2, <1>1 DEF Beyond, GenerateNextCursor, Row, Sent
    <2> QED
      BY <1>5, <2>3 DEF AgainAt, SameMillis, Row
  <1> QED
    BY <1>4, <1>5

-----------------------------------------------------------------------------
(* Places *)

LEMMA PresentIsFinite == IsFiniteSet(Present) /\ Cardinality(Present) \in Nat
  <1>1. IsFiniteSet(Present)
    BY IdsAreOrdered, FS_Subset DEF Present
  <1> QED
    BY <1>1, FS_CardinalityType

LEMMA PlaceBelow ==
  ASSUME TypeOK, NEW i \in Present
  PROVE  Place(i) \in Nat /\ Place(i) < Cardinality(Present)
  <1> DEFINE A == {j \in Present : Before(Row(j), Row(i))}
  <1>1. IsFiniteSet(Present) /\ Cardinality(Present) \in Nat
    BY PresentIsFinite
  <1>2. A \subseteq Present
    OBVIOUS
  <1>3. ~Before(Row(i), Row(i))
    <2>1. rows[i] \in Int /\ i \in Nat
      BY IdsAreNat, MillisOfTime DEF TypeOK, Present, Keys
    <2> QED
      BY <2>1 DEF Before, Row
  <1>4. A # Present
    BY <1>3
  <1>5. IsFiniteSet(A) /\ Cardinality(A) <= Cardinality(Present) /\ Cardinality(A) # Cardinality(Present)
    BY <1>1, <1>2, <1>4, FS_Subset
  <1>6. Cardinality(A) \in Nat
    BY <1>5, FS_CardinalityType
  <1> QED
    BY <1>1, <1>5, <1>6 DEF Place

LEMMA NextPage ==
  ASSUME NEW p \in Nat
  PROVE  p * Limit \in Nat /\ (p + 1) * Limit \in Nat /\ (p + 1) * Limit = p * Limit + Limit
  BY Bounded

-----------------------------------------------------------------------------
(* Changes *)

\* A row that stays where it is keeps what is recorded of it.
LEMMA SteadyStays ==
  ASSUME TypeOK, NEW new \in [Ids -> Keys], Change(new), NEW i \in steady'
  PROVE  /\ i \in steady /\ i \in Ids /\ rows'[i] = rows[i] /\ Row(i)' = Row(i)
         /\ i \in Present /\ i \in Present'
  BY DEF TypeOK, Change, Moved, Present, Row

LEMMA ShiftsKept ==
  ASSUME TypeOK, NEW new \in [Ids -> Keys], Change(new), NEW i \in steady'
  PROVE  (WentAbove(i) => WentAbove(i)') /\ (CameAbove(i) => CameAbove(i)')
  <1>1. rows'[i] = rows[i]
    BY SteadyStays
  <1>2. shifts \subseteq shifts' /\ list' = list
    BY DEF Change
  <1> QED
    BY <1>1, <1>2 DEF WentAbove, CameAbove, Before, Row

LEMMA PlacesKept ==
  ASSUME TypeOK, NEW new \in [Ids -> Keys], Change(new), ByPage, NEW i \in steady'
  PROVE  /\ Place(i) \in Nat /\ Place(i)' \in Nat
         /\ WentAbove(i)' \/ Place(i)' >= Place(i)
         /\ CameAbove(i)' \/ Place(i)' <= Place(i)
  <1> DEFINE A == {j \in Present : Before(Row(j), Row(i))}
             B == {j \in Ids : rows'[j] # 0
                                /\ Before([key |-> rows'[j], id |-> j], Row(i))}
  <1>1. rows'[i] = rows[i] /\ i \in Present /\ rows' = new /\ list' = list
    BY SteadyStays DEF Change
  <1>2. Place(i) = Cardinality(A) /\ Place(i)' = Cardinality(B)
    BY <1>1 DEF Place, Present, Before, Row
  <1>3. IsFiniteSet(A) /\ IsFiniteSet(B)
    BY IdsAreOrdered, FS_Subset DEF Present
  <1>4. Cardinality(A) \in Nat /\ Cardinality(B) \in Nat
    BY <1>3, FS_CardinalityType
  <1>5. WentAbove(i)' \/ A \subseteq B
    <2> SUFFICES ASSUME NEW j \in A, j \notin B PROVE WentAbove(i)'
      OBVIOUS
    <2>1. j \in Ids /\ rows[j] # 0 /\ Before(Row(j), Row(i))
      BY DEF Present
    <2>2. rows'[j] # rows[j]
      BY <2>1 DEF Row
    <2>3. j \in Moved(new) \cap Present
      BY <1>1, <2>1, <2>2 DEF Moved, Present
    <2>4. <<Row(j), "out">> \in shifts'
      BY <2>3 DEF Change
    <2>5. Row(j) \in Rows
      BY <2>1, RowsOfIds
    <2>6. \E r \in Rows : <<r, "out">> \in shifts' /\ Before(r, Row(i))
      BY <2>1, <2>4, <2>5
    <2> QED
      BY <2>6, <1>1 DEF WentAbove, Before, Row
  <1>6. CameAbove(i)' \/ B \subseteq A
    <2> SUFFICES ASSUME NEW j \in B, j \notin A PROVE CameAbove(i)'
      OBVIOUS
    <2> DEFINE r == [key |-> new[j], id |-> j]
    <2>1. j \in Ids /\ new[j] # 0 /\ Before(r, Row(i))
      BY <1>1
    <2>2. new[j] # rows[j]
      BY <2>1 DEF Row, Present
    <2>3. j \in Moved(new)
      BY <2>1, <2>2 DEF Moved
    <2>4. <<r, "in">> \in shifts'
      BY <2>1, <2>3 DEF Change
    <2>5. r \in Rows
      BY <2>1 DEF Rows
    <2> HIDE DEF r
    <2>6. \E q \in Rows : <<q, "in">> \in shifts' /\ Before(q, Row(i))
      BY <2>1, <2>4, <2>5
    <2> QED
      BY <2>6, <1>1 DEF CameAbove, Before, Row
  <1>7. A \subseteq B => Cardinality(A) <= Cardinality(B)
    BY <1>3, FS_Subset
  <1>8. B \subseteq A => Cardinality(B) <= Cardinality(A)
    BY <1>3, FS_Subset
  <1> HIDE DEF A, B
  <1> QED
    BY <1>2, <1>4, <1>5, <1>6, <1>7, <1>8

LEMMA CutsKept ==
  ASSUME TypeOK, NEW new \in [Ids -> Keys], Change(new), NEW i \in steady', NEW c
  PROVE  /\ LostAt(i, c)' = LostAt(i, c) /\ AgainAt(i, c)' = AgainAt(i, c)
         /\ Beyond(Row(i), c)' = Beyond(Row(i), c)
  <1>1. rows'[i] = rows[i] /\ list' = list
    BY SteadyStays DEF Change
  <1> QED
    BY <1>1 DEF LostAt, AgainAt, SameMillis, Before, Beyond, Row, Sent

LEMMA ChangeTyped ==
  ASSUME TypeOK, NEW new \in [Ids -> Keys], Change(new), subject' \in BOOLEAN
  PROVE  TypeOK'
  <1>1. list' \in Handlers /\ rows' \in [Ids -> Keys] /\ subject' \in BOOLEAN
    BY DEF TypeOK, Change
  <1>2. cursor' \in [at: IF list'.exact THEN Keys ELSE {0} \cup {Millis[k] : k \in Keys},
                     id: {0} \cup Ids]
    BY DEF TypeOK, Change
  <1>3. page' \in Nat /\ walk' \in {"on", "end", "failed"} /\ changes' \in 0..MaxChanges
    BY Bounded DEF TypeOK, Change
  <1>4. shown' \subseteq Ids /\ twice' \subseteq shown' /\ cuts' \subseteq Rows /\ left' \subseteq Ids
    BY DEF TypeOK, Change
  <1>5. steady' \subseteq Present'
    BY DEF TypeOK, Change, Moved, Present
  <1>6. {<<Row(i), "out">> : i \in Moved(new) \cap Present} \subseteq Rows \X {"in", "out"}
    BY RowsOfIds DEF Present
  <1>7. {<<[key |-> new[i], id |-> i], "in">> : i \in {j \in Moved(new) : new[j] # 0}}
            \subseteq Rows \X {"in", "out"}
    BY DEF Rows, Moved
  <1>8. shifts' \subseteq Rows \X {"in", "out"}
    BY <1>6, <1>7 DEF TypeOK, Change
  <1> QED
    BY <1>1, <1>2, <1>3, <1>4, <1>5, <1>8 DEF TypeOK

LEMMA ChangeInv ==
  ASSUME Inv, NEW new \in [Ids -> Keys], Change(new), subject' \in BOOLEAN
  PROVE  Inv'
  <1> USE DEF Inv
  <1>1. /\ list' = list /\ cursor' = cursor /\ page' = page /\ walk' = walk
        /\ shown' = shown /\ twice' = twice /\ cuts' = cuts /\ left' = left
    BY DEF Change
  <1>2. TypeOK'
    BY ChangeTyped
  <1>3. ListOK'
    BY <1>1 DEF ListOK
  <1>4. Walked'
    <2> SUFFICES ASSUME walk = "on", NEW i \in steady'
                 PROVE  (i \notin shown => Ahead(i)') /\ (i \in shown => Behind(i)')
      BY <1>1 DEF Walked
    <2>1. i \in steady
      BY SteadyStays
    <2>2. CASE ByPage
      <3>1. page * Limit \in Nat
        BY NextPage DEF TypeOK
      <3>2. WentAbove(i)' \/ Place(i)' >= Place(i)
        BY <2>2, PlacesKept
      <3>3. CameAbove(i)' \/ Place(i)' <= Place(i)
        BY <2>2, PlacesKept
      <3>4. Place(i) \in Nat /\ Place(i)' \in Nat
        BY <2>2, PlacesKept
      <3>5. (WentAbove(i) => WentAbove(i)') /\ (CameAbove(i) => CameAbove(i)')
        BY ShiftsKept
      <3>6. i \notin shown => WentAbove(i) \/ Place(i) >= page * Limit
        BY <2>1, <2>2 DEF Walked, Ahead
      <3>7. i \in shown => CameAbove(i) \/ Place(i) < page * Limit
        BY <2>1, <2>2 DEF Walked, Behind
      <3>8. i \notin shown => WentAbove(i)' \/ Place(i)' >= page * Limit
        BY <3>1, <3>2, <3>4, <3>5, <3>6
      <3>9. i \in shown => CameAbove(i)' \/ Place(i)' < page * Limit
        BY <3>1, <3>3, <3>4, <3>5, <3>7
      <3> QED
        BY <1>1, <2>2, <3>8, <3>9 DEF Ahead, Behind, ByPage
    <2>3. CASE ~ByPage
      <3>1. \A c : LostAt(i, c)' = LostAt(i, c) /\ AgainAt(i, c)' = AgainAt(i, c)
        BY CutsKept
      <3>2. Beyond(Row(i), cursor)' = Beyond(Row(i), cursor)
        <4>1. rows'[i] = rows[i]
          BY SteadyStays
        <4> QED
          BY <1>1, <4>1 DEF Beyond, Row, Sent
      <3>3. Ahead(i) => Ahead(i)'
        BY <1>1, <2>3, <3>1, <3>2 DEF Ahead, ByPage
      <3>4. Behind(i) => Behind(i)'
        BY <1>1, <2>3, <3>1, <3>2 DEF Behind, ByPage
      <3> QED
        BY <2>1, <3>3, <3>4 DEF Walked
    <2> QED
      BY <2>2, <2>3
  <1>5. \A i \in steady' : /\ i \in steady
                           /\ (WentAbove(i) => WentAbove(i)') /\ (CameAbove(i) => CameAbove(i)')
                           /\ \A c : LostAt(i, c)' = LostAt(i, c) /\ AgainAt(i, c)' = AgainAt(i, c)
    BY SteadyStays, ShiftsKept, CutsKept
  <1>6. NoneMissed'
    BY <1>1, <1>5 DEF NoneMissed, ByPage
  <1>7. NoneTwice'
    BY <1>1, <1>5 DEF NoneTwice, ByPage
  <1> QED
    BY <1>2, <1>3, <1>4, <1>6, <1>7

-----------------------------------------------------------------------------
(* Pages *)

LEMMA InitInv == ASSUME Init PROVE Inv
  <1>1. ListOK
    BY ListsOK DEF Init
  <1>2. 0 \in Keys /\ 0 \in Nat /\ 0 \in 0..MaxChanges
    BY MillisOfTime, Bounded DEF Keys
  <1>3. TypeOK
    BY <1>1, <1>2 DEF Init, TypeOK, ListOK, NoCursor, Present
  <1>4. page * Limit = 0
    BY Bounded DEF Init
  <1>5. \A i \in steady : Ahead(i)
    <2> SUFFICES ASSUME NEW i \in steady PROVE Ahead(i)
      OBVIOUS
    <2>1. Place(i) \in Nat
      BY <1>3, PlaceBelow DEF TypeOK
    <2>2. Place(i) >= page * Limit
      BY <1>4, <2>1
    <2> QED
      BY <2>2 DEF Ahead, Init
  <1> QED
    BY <1>1, <1>3, <1>5 DEF Init, Inv, Walked, NoneMissed, NoneTwice

LEMMA RefusedInv == ASSUME Inv, Refused PROVE Inv'
  <1>1. UNCHANGED <<list, rows, subject, cursor, page, changes, shown, twice, steady, cuts, shifts,
                    left>>
    BY DEF Refused, history
  <1>2. walk' = "failed"
    BY DEF Refused
  <1>3. TypeOK' /\ ListOK'
    BY <1>1, <1>2 DEF Inv, TypeOK, ListOK, Present
  <1>4. NoneTwice'
    BY <1>1 DEF Inv, NoneTwice, ByPage, CameAbove, AgainAt, SameMillis, Before, Row
  <1> QED
    BY <1>2, <1>3, <1>4 DEF Inv, Walked, NoneMissed

\* What a client sees of a page leaves the list as it is.
LEMMA ShowKeeps ==
  ASSUME NEW P, Show(P)
  PROVE  /\ list' = list /\ rows' = rows /\ steady' = steady /\ shifts' = shifts
         /\ Present' = Present /\ ByPage' = ByPage
         /\ \A i : /\ Row(i)' = Row(i) /\ Place(i)' = Place(i)
                   /\ WentAbove(i)' = WentAbove(i) /\ CameAbove(i)' = CameAbove(i)
                   /\ \A c : /\ LostAt(i, c)' = LostAt(i, c) /\ AgainAt(i, c)' = AgainAt(i, c)
                             /\ Beyond(Row(i), c)' = Beyond(Row(i), c)
  BY DEF Show, Present, ByPage, Row, Place, WentAbove, CameAbove, LostAt, AgainAt, SameMillis,
         Before, Beyond, Sent

LEMMA ShowTyped ==
  ASSUME Inv, NEW P \in SUBSET Present, Show(P), walk' \in {"on", "end"},
         cursor' \in [at: IF list.exact THEN Keys ELSE {0} \cup {Millis[k] : k \in Keys},
                      id: {0} \cup Ids],
         page' \in Nat, cuts' \subseteq Rows, left' \subseteq Ids
  PROVE  TypeOK' /\ ListOK'
  BY ShowKeeps DEF Inv, TypeOK, ListOK, Show, Present

LEMMA FetchPageInv == ASSUME Inv, FetchPage PROVE Inv'
  <1> DEFINE P == {i \in Present : page * Limit <= Place(i) /\ Place(i) < (page + 1) * Limit}
  <1>1. ByPage /\ walk = "on" /\ Show(P) /\ cursor' = cursor /\ cuts' = cuts /\ left' = left
    BY DEF FetchPage
  <1>2. /\ page \in Nat /\ page * Limit \in Nat /\ (page + 1) * Limit \in Nat
        /\ (page + 1) * Limit >= page * Limit
    <2>1. page \in Nat
      BY DEF Inv, TypeOK
    <2> QED
      BY <2>1, NextPage, Bounded
  <1>3. P \subseteq Present
    OBVIOUS
  <1>4. shown' = shown \cup P /\ twice' = twice \cup (shown \cap P)
    BY <1>1 DEF Show
  <1>5. \/ page' = page + 1 /\ walk' = walk
        \/ (page + 1) * Limit >= Cardinality(Present) /\ walk' = "end" /\ page' = page
    BY DEF FetchPage
  <1>6. TypeOK' /\ ListOK'
    <2>1. page' \in Nat /\ walk' \in {"on", "end"}
      BY <1>1, <1>2, <1>5
    <2> QED
      BY <1>1, <1>3, <2>1, ShowTyped DEF Inv, TypeOK
  <1>7. \A i \in steady : /\ i \in Present /\ Place(i) \in Nat /\ Place(i) < Cardinality(Present)
    BY PlaceBelow DEF Inv, TypeOK
  <1>8. \A i \in steady \ shown' : WentAbove(i) \/ Place(i) >= (page + 1) * Limit
    <2> SUFFICES ASSUME NEW i \in steady, i \notin shown, i \notin P
                 PROVE  WentAbove(i) \/ Place(i) >= (page + 1) * Limit
      BY <1>4
    <2>1. WentAbove(i) \/ Place(i) >= page * Limit
      BY <1>1 DEF Inv, Walked, Ahead
    <2> QED
      BY <1>2, <1>7, <2>1
  <1>9. \A i \in steady \cap shown' : CameAbove(i) \/ Place(i) < (page + 1) * Limit
    <2> SUFFICES ASSUME NEW i \in steady, i \in shown
                 PROVE  CameAbove(i) \/ Place(i) < (page + 1) * Limit
      BY <1>2, <1>4
    <2>1. CameAbove(i) \/ Place(i) < page * Limit
      BY <1>1 DEF Inv, Walked, Behind
    <2> QED
      BY <1>2, <1>7, <2>1
  <1>10. \A i \in steady \cap shown \cap P : CameAbove(i)
    <2> SUFFICES ASSUME NEW i \in steady, i \in shown, i \in P PROVE CameAbove(i)
      OBVIOUS
    <2>1. CameAbove(i) \/ Place(i) < page * Limit
      BY <1>1 DEF Inv, Walked, Behind
    <2> QED
      BY <1>2, <1>7, <2>1
  <1> HIDE DEF P
  <1>11. Walked'
    <2> SUFFICES ASSUME walk' = "on", NEW i \in steady
                 PROVE  (i \notin shown' => Ahead(i)') /\ (i \in shown' => Behind(i)')
      BY <1>1, ShowKeeps DEF Walked
    <2>1. page' = page + 1
      BY <1>5
    <2>2. Place(i)' = Place(i) /\ WentAbove(i)' = WentAbove(i) /\ CameAbove(i)' = CameAbove(i)
      BY <1>1, ShowKeeps
    <2>3. ByPage'
      BY <1>1, ShowKeeps
    <2> QED
      BY <1>8, <1>9, <2>1, <2>2, <2>3 DEF Ahead, Behind
  <1>12. NoneMissed'
    <2> SUFFICES ASSUME walk' = "end", NEW i \in steady, i \notin shown'
                 PROVE  WentAbove(i)
      BY <1>1, ShowKeeps DEF NoneMissed
    <2>1. (page + 1) * Limit >= Cardinality(Present)
      BY <1>1, <1>5
    <2> QED
      BY <1>2, <1>7, <1>8, <2>1, PresentIsFinite
  <1>13. NoneTwice'
    <2> SUFFICES ASSUME NEW i \in steady, i \in twice' PROVE CameAbove(i)
      BY <1>1, ShowKeeps DEF NoneTwice
    <2>1. i \in twice => CameAbove(i)
      BY <1>1 DEF Inv, NoneTwice
    <2> QED
      BY <1>4, <1>10, <2>1
  <1> QED
    BY <1>6, <1>11, <1>12, <1>13 DEF Inv

\* Rows on a page, its last row l, and what is not on it.
LEMMA CursorInv ==
  ASSUME Inv, ~ByPage, walk = "on", NEW P, Page(P, ApplyCursorPagination), Show(P),
         NEW l \in P, Last(l, P), cursor' = GenerateNextCursor(Row(l)),
         cuts' = cuts \cup {Row(l)}, walk' = walk, page' = page, left' = left
  PROVE  Inv'
  <1> DEFINE S == ApplyCursorPagination
  <1>1. P \subseteq S /\ S \subseteq Present /\ l \in Ids /\ l \in Present /\ l \in S
    BY DEF Page, First, ApplyCursorPagination, Present
  <1>2. TypeOK /\ ListOK
    BY DEF Inv
  <1>3. Row(l) \in Rows
    BY <1>1, <1>2, RowsOfIds
  <1>4. shown' = shown \cup P /\ twice' = twice \cup (shown \cap P)
    BY DEF Show
  <1>5. TypeOK' /\ ListOK'
    <2>1. rows[l] \in Keys
      BY <1>1, <1>2 DEF TypeOK
    <2>2. cursor' \in [at: IF list.exact THEN Keys ELSE {0} \cup {Millis[k] : k \in Keys},
                       id: {0} \cup Ids]
      BY <1>1, <2>1 DEF GenerateNextCursor, Sent, Row
    <2>3. P \in SUBSET Present
      BY <1>1
    <2>4. walk' \in {"on", "end"} /\ page' \in Nat /\ cuts' \subseteq Rows /\ left' \subseteq Ids
      BY <1>2, <1>3 DEF TypeOK
    <2> QED
      BY <2>2, <2>3, <2>4, ShowTyped
  <1>6. cursor' # NoCursor
    BY <1>1, IdsAreNat DEF GenerateNextCursor, NoCursor, Row
  <1>7. cursor.at \in Nat /\ cursor.id \in Nat
    <2>1. /\ cursor.at \in (IF list.exact THEN Keys ELSE {0} \cup {Millis[k] : k \in Keys})
          /\ cursor.id \in {0} \cup Ids
      BY <1>2 DEF TypeOK
    <2>2. \A k \in Keys : k \in Nat /\ Millis[k] \in Nat
      BY MillisOfTime DEF Keys
    <2> QED
      BY <2>1, <2>2, IdsAreNat
  <1> HIDE DEF S
  \* Nothing that was seen comes back: the cursor leads down.
  <1>8. ASSUME NEW i \in steady, i \in shown, cursor # NoCursor, ~Beyond(Row(i), cursor)
        PROVE  i \notin P /\ ~Beyond(Row(i), cursor')
    <2>1. i \notin P
      BY <1>1, <1>8 DEF S, ApplyCursorPagination
    <2>2. Beyond(Row(l), cursor)
      BY <1>1, <1>8 DEF S, ApplyCursorPagination
    <2>3. Row(i) \in Rows
      BY <1>2, RowsOfIds DEF TypeOK, Present
    <2> QED
      BY <1>3, <1>7, <1>8, <2>1, <2>2, <2>3, BeyondTransitive
  <1>9. ASSUME NEW i \in steady, i \in P
        PROVE  ~Beyond(Row(i), cursor') \/ (~list.exact /\ AgainAt(i, Row(l)))
    <2>1. i \in Ids /\ ~Before(Row(l), Row(i))
      BY <1>1, <1>9 DEF Last, Present
    <2> QED
      BY <1>1, <1>2, <2>1, NotAfter
  <1>10. ASSUME NEW i \in S, i \notin P
         PROVE  Beyond(Row(i), cursor') \/ (~list.exact /\ LostAt(i, Row(l)))
    <2>1. i \in Ids /\ i # l /\ ~Before(Row(i), Row(l))
      BY <1>1, <1>10 DEF Page, First, S, Present
    <2> QED
      BY <1>1, <1>2, <2>1, NotBefore
  <1>11. Walked'
    <2> SUFFICES ASSUME NEW i \in steady
                 PROVE  (i \notin shown' => Ahead(i)') /\ (i \in shown' => Behind(i)')
      BY ShowKeeps DEF Walked
    <2>1. /\ list' = list /\ ByPage' = ByPage /\ Row(i)' = Row(i)
          /\ \A c : LostAt(i, c)' = LostAt(i, c) /\ AgainAt(i, c)' = AgainAt(i, c)
      BY ShowKeeps
    <2>2. Beyond(Row(i), cursor)' = Beyond(Row(i), cursor')
      BY <2>1, ShowKeeps DEF Beyond, Sent
    <2>3. i \notin shown' => Ahead(i)'
      <3> SUFFICES ASSUME i \notin shown, i \notin P PROVE Ahead(i)'
        BY <1>4
      <3>1. \/ i \in S
            \/ ~list.exact /\ \E c \in cuts : LostAt(i, c)
        BY <1>2 DEF Inv, Walked, Ahead, S, ApplyCursorPagination, TypeOK
      <3>2. \/ Beyond(Row(i), cursor')
            \/ ~list.exact /\ \E c \in cuts' : LostAt(i, c)
        BY <1>10, <3>1
      <3> QED
        BY <2>1, <2>2, <3>2 DEF Ahead
    <2>4. i \in shown' => Behind(i)'
      <3> SUFFICES ASSUME i \in shown \/ i \in P PROVE Behind(i)'
        BY <1>4
      <3>1. i \in shown => \/ cursor # NoCursor /\ ~Beyond(Row(i), cursor)
                           \/ ~list.exact /\ \E c \in cuts : AgainAt(i, c)
        BY DEF Inv, Walked, Behind
      <3>2. \/ ~Beyond(Row(i), cursor')
            \/ ~list.exact /\ \E c \in cuts' : AgainAt(i, c)
        BY <1>8, <1>9, <3>1
      <3> QED
        BY <1>6, <2>1, <2>2, <3>2 DEF Behind
    <2> QED
      BY <2>3, <2>4
  <1>12. NoneMissed'
    BY DEF NoneMissed
  <1>13. NoneTwice'
    <2> SUFFICES ASSUME NEW i \in steady, i \in twice'
                 PROVE  ~list.exact /\ \E c \in cuts' : AgainAt(i, c)
      BY ShowKeeps DEF NoneTwice
    <2>1. i \in twice => ~list.exact /\ \E c \in cuts : AgainAt(i, c)
      BY DEF Inv, NoneTwice
    <2>2. i \in shown => \/ cursor # NoCursor /\ ~Beyond(Row(i), cursor)
                         \/ ~list.exact /\ \E c \in cuts : AgainAt(i, c)
      BY DEF Inv, Walked, Behind
    <2> QED
      BY <1>4, <1>8, <2>1, <2>2
  <1> QED
    BY <1>5, <1>11, <1>12, <1>13 DEF Inv

\* The answer that ends the walk has all that was left, or it is recorded.
LEMMA EndInv ==
  ASSUME Inv, ~ByPage, walk = "on", NEW P \in SUBSET ApplyCursorPagination, Show(P),
         \/ list.next = "last" \/ P = ApplyCursorPagination
         \/ left' = ApplyCursorPagination \ P /\ (list.joined \/ list.caught),
         left' \subseteq Ids, walk' = "end", cursor' = cursor, cuts' = cuts, page' = page
  PROVE  Inv'
  <1> DEFINE S == ApplyCursorPagination
  <1>1. P \subseteq S /\ S \subseteq Present
    BY DEF ApplyCursorPagination
  <1>2. TypeOK /\ ListOK
    BY DEF Inv
  <1>3. shown' = shown \cup P /\ twice' = twice \cup (shown \cap P)
    BY DEF Show
  <1>4. TypeOK' /\ ListOK'
    <2>1. P \in SUBSET Present
      BY <1>1
    <2> QED
      BY <1>2, <2>1, ShowTyped DEF TypeOK
  <1>5. NoneMissed'
    <2> SUFFICES ASSUME list.next # "last", NEW i \in steady, i \notin shown',
                        ~(i \in left' /\ (list.joined \/ list.caught))
                 PROVE  ~list.exact /\ \E c \in cuts : LostAt(i, c)
      BY ShowKeeps DEF NoneMissed
    <2>1. i \notin S /\ i \in Present
      BY <1>2, <1>3 DEF TypeOK
    <2> QED
      BY <1>3, <2>1 DEF Inv, Walked, Ahead, ApplyCursorPagination
  <1>6. NoneTwice'
    <2> SUFFICES ASSUME NEW i \in steady, i \in twice'
                 PROVE  ~list.exact /\ \E c \in cuts : AgainAt(i, c)
      BY ShowKeeps DEF NoneTwice
    <2>1. i \in twice => ~list.exact /\ \E c \in cuts : AgainAt(i, c)
      BY DEF Inv, NoneTwice
    <2>2. i \in shown => \/ cursor # NoCursor /\ ~Beyond(Row(i), cursor)
                         \/ ~list.exact /\ \E c \in cuts : AgainAt(i, c)
      BY DEF Inv, Walked, Behind
    <2>3. i \in P => cursor = NoCursor \/ Beyond(Row(i), cursor)
      BY <1>1 DEF ApplyCursorPagination
    <2> QED
      BY <1>3, <2>1, <2>2, <2>3
  <1> QED
    BY <1>4, <1>5, <1>6 DEF Inv, Walked

\* A page that is the last has all that is left, or the list is one of replies.
LEMMA LastPage ==
  ASSUME NEW S, NEW P, Page(P, S), ~(HasMore(P, S) /\ HasNext(P, S)), list.next # "last"
  PROVE  P = S
  <1> SUFFICES ASSUME P # S PROVE FALSE
    OBVIOUS
  <1>1. Cardinality(P) = Limit
    BY DEF Page
  <1>2. P # {}
    BY <1>1, FS_EmptySet, Bounded
  <1>3. HasMore(P, S)
    BY <1>1 DEF HasMore
  <1> QED
    BY <1>2, <1>3 DEF HasNext

LEMMA FetchInv == ASSUME Inv, Fetch PROVE Inv'
  <1>1. ~ByPage /\ walk = "on" /\ page' = page /\ left' = left /\ left \subseteq Ids
    BY DEF Fetch, Inv, TypeOK
  <1>2. PICK P \in SUBSET ApplyCursorPagination :
          /\ Page(P, ApplyCursorPagination) /\ Show(P)
          /\ \/ /\ \E l \in P : /\ Last(l, P)
                                /\ cursor' = GenerateNextCursor(Row(l))
                                /\ cuts' = cuts \cup {Row(l)}
                /\ walk' = walk
             \/ /\ ~(HasMore(P, ApplyCursorPagination) /\ HasNext(P, ApplyCursorPagination))
                /\ walk' = "end" /\ cursor' = cursor /\ cuts' = cuts
    BY DEF Fetch
  <1>3. CASE walk' = walk
    BY <1>1, <1>2, <1>3, CursorInv
  <1>4. CASE walk' # walk
    BY <1>1, <1>2, <1>4, LastPage, EndInv
  <1> QED
    BY <1>3, <1>4

LEMMA EarlyEndInv == ASSUME Inv, FetchJoined \/ CaughtError PROVE Inv'
  <1>1. ~ByPage /\ walk = "on" /\ walk' = "end" /\ UNCHANGED <<cursor, page, cuts>>
    BY DEF FetchJoined, CaughtError, Inv, ListOK, ByPage
  <1>2. PICK P \in SUBSET ApplyCursorPagination :
          Show(P) /\ left' = ApplyCursorPagination \ P /\ (list.joined \/ list.caught)
    BY DEF FetchJoined, CaughtError
  <1>3. left' \subseteq Ids
    BY <1>2 DEF ApplyCursorPagination, Present
  <1> QED
    BY <1>1, <1>2, <1>3, EndInv

LEMMA NextInv == ASSUME Inv, [Next]_vars PROVE Inv'
  <1>1. ASSUME NEW i \in Ids, NEW key \in Keys, Write(i, key) PROVE Inv'
    <2>1. [rows EXCEPT ![i] = key] \in [Ids -> Keys]
      BY <1>1 DEF Inv, TypeOK
    <2>2. Change([rows EXCEPT ![i] = key]) /\ subject' \in BOOLEAN
      BY <1>1 DEF Write, Inv, TypeOK
    <2> QED
      BY <2>1, <2>2, ChangeInv
  <1>2. ASSUME Vanish PROVE Inv'
    <2>1. [i \in Ids |-> 0] \in [Ids -> Keys]
      BY MillisOfTime DEF Keys
    <2>2. Change([i \in Ids |-> 0]) /\ subject' \in BOOLEAN
      BY <1>2 DEF Vanish
    <2> QED
      BY <2>1, <2>2, ChangeInv
  <1>3. ASSUME UNCHANGED vars PROVE Inv'
    <2>1. UNCHANGED <<list, rows, subject, cursor, page, walk, changes,
                      shown, twice, steady, cuts, shifts, left>>
      BY <1>3 DEF vars, history
    <2>2. TypeOK' /\ ListOK'
      BY <2>1 DEF Inv, TypeOK, ListOK, Present
    <2>3. Walked'
      <3>1. \A i : /\ Place(i)' = Place(i) /\ Row(i)' = Row(i)
                   /\ WentAbove(i)' = WentAbove(i) /\ CameAbove(i)' = CameAbove(i)
                   /\ \A c : /\ LostAt(i, c)' = LostAt(i, c) /\ AgainAt(i, c)' = AgainAt(i, c)
                             /\ Beyond(Row(i), c)' = Beyond(Row(i), c)
        BY <2>1 DEF Row, Place, Present, WentAbove, CameAbove, LostAt, AgainAt, SameMillis,
                    Before, Beyond, Sent
      <3>2. \A i : Beyond(Row(i), cursor)' = Beyond(Row(i), cursor)
        BY <2>1 DEF Row, Beyond, Sent
      <3>3. \A i : Ahead(i)' = Ahead(i) /\ Behind(i)' = Behind(i)
        BY <2>1, <3>1, <3>2 DEF Ahead, Behind, ByPage
      <3> QED
        BY <2>1, <3>3 DEF Inv, Walked
    <2>4. NoneMissed' /\ NoneTwice'
      BY <2>1 DEF Inv, NoneMissed, NoneTwice, ByPage, WentAbove, CameAbove,
                  LostAt, AgainAt, SameMillis, Before, Row
    <2> QED
      BY <2>2, <2>3, <2>4 DEF Inv
  <1> QED
    BY <1>1, <1>2, <1>3, RefusedInv, FetchInv, EarlyEndInv, FetchPageInv DEF Next

-----------------------------------------------------------------------------
\* The inductive invariant: what the client has seen lies behind it and what it
\* has not seen ahead, in a list that is read by cursor and in one read by the
\* number of the page.
THEOREM Invariant == Spec => []Inv
  BY InitInv, NextInv, PTL DEF Spec

\* Every reachable state is well typed; no cursor has more of a time than its
\* milliseconds.
THEOREM TypeCorrect == Spec => []TypeOK
  <1>1. Inv => TypeOK
    BY DEF Inv
  <1> QED
    BY <1>1, Invariant, PTL

\* At the end of a list nothing that was in it all the time is missing, but for
\* rows of the millisecond of a cut, rows below one that went, and what an answer
\* left out that came short by the reactions to its messages or after an error.
THEOREM NothingMissed == Spec => []NoneMissed
  <1>1. Inv => NoneMissed
    BY DEF Inv
  <1> QED
    BY <1>1, Invariant, PTL

\* Nothing that was in a list all the time is shown twice, but for rows of the
\* millisecond of a cut, and rows below one that came.
THEOREM NothingTwice == Spec => []NoneTwice
  <1>1. Inv => NoneTwice
    BY DEF Inv
  <1> QED
    BY <1>1, Invariant, PTL

-----------------------------------------------------------------------------
(***************************************************************************)
(* Reading, as Readers: any conversations whose tweets are whole, readers, *)
(* documents and changes meanwhile.                                        *)
(*                                                                         *)
(* What is shown was looked up in a world of the request, so that a flag   *)
(* or a name in it was right in some world that the request has seen, and  *)
(* what the search asked for it has found or has missed in one: ReadInv.   *)
(***************************************************************************)
\* What a request has in hand, by where it is.
Worlds == [live: SUBSET Tweets, docs: [Tweets -> Readers!Docs], liked: SUBSET Tweets,
           follows: SUBSET Users, blocked: SUBSET Users, muted: SUBSET Users]
WorldOK == Readers!Given /\ world \in past /\ past \subseteq Worlds /\ shape \in Shapes
ReqTyped == /\ req.at \in {"idle", "related", "flags", "chain", "failed", "done"}
            /\ req.reader \in {"none", "following", "profile", "ids", "thread", "search"}
            /\ req = [at |-> req.at, reader |-> req.reader, seen |-> req.seen, found |-> req.found]
            /\ DOMAIN req.seen \subseteq Tweets /\ req.found \subseteq Tweets
            /\ \A t \in DOMAIN req.seen : req.seen[t] \in Readers!Docs

\* Until a request begins nothing happens, and nothing is shown before it is over but
\* the tweet of a thread.
IdleOK == req.at = "idle" => past = {world} /\ world.follows \cap world.blocked = {}
Untold == req.at \in {"idle", "related", "flags", "failed"} => answer = {}
ChainOK == req.at = "chain" => req.reader = "thread"
      /\ \E t \in Tweets, e \in answer : answer = {e} /\ e.of = t /\ e.as = "main" /\ e.tweet = t
SearchOK == req.at \in {"related", "flags"} => req.reader = "search"
FoundOK == req.at = "flags" => \A t \in DOMAIN req.seen : \A x \in Readers!Refers(t) :
    x \in req.found \/ \E w \in past : w.docs[x] = "none"
Told == Readers!SilencedHidden /\ Readers!MatchesFound /\ Readers!ShownWhole /\ Readers!FlagsAgree

ReadInv == WorldOK /\ ReqTyped /\ IdleOK /\ Untold /\ ChainOK /\ SearchOK /\ FoundOK /\ Told

LEMMA ShapeOf ==
    ASSUME Readers!Given, shape \in Shapes, NEW t \in Tweets
    PROVE  /\ Readers!Author(t) \in Users \cup {Me}
           /\ Readers!Is("tweet", t) \/ Readers!Is("reply", t) \/ Readers!Is("quote", t)
           /\ ~(Readers!Is("tweet", t) /\ Readers!Is("reply", t))
                /\ ~(Readers!Is("tweet", t) /\ Readers!Is("quote", t))
                     /\ ~(Readers!Is("reply", t) /\ Readers!Is("quote", t))
           /\ ~Readers!Is("tweet", t) => shape.parent[t] \in Tweets
           /\ Readers!Is("reply", t) => shape.conv[t] \in Tweets
BY DEF Readers!Given, Readers!WellFormed, Readers!Author, Readers!Is

LEMMA ReadInit == ASSUME Readers!Given, Readers!Init PROVE ReadInv
<1>1. WorldOK /\ IdleOK
  BY DEF Readers!Init, WorldOK, IdleOK, Worlds
<1>2. ReqTyped
  BY DEF Readers!Init, ReqTyped, Readers!Idle
<1>3. Untold /\ ChainOK /\ SearchOK /\ FoundOK /\ Told
  BY DEF Readers!Init, Readers!Idle, Untold, ChainOK, SearchOK, FoundOK, Told,
     Readers!SilencedHidden, Readers!MatchesFound, Readers!ShownWhole, Readers!FlagsAgree
<1>. QED  BY <1>1, <1>2, <1>3 DEF ReadInv

-----------------------------------------------------------------------------
\* What happens meanwhile only adds to the past.
LEMMA HappensKeeps ==
    ASSUME ReadInv, NEW new \in Worlds, Readers!Happens(new)
    PROVE  ReadInv'
<1>1. /\ req.at \in {"related", "flags", "chain"} /\ world' = new /\ past' = past \cup {new}
      /\ shape' = shape /\ req' = req /\ answer' = answer
  BY DEF Readers!Happens
<1>2. WorldOK' /\ ReqTyped' /\ IdleOK' /\ Untold' /\ ChainOK' /\ SearchOK'
  BY <1>1 DEF ReadInv, WorldOK, ReqTyped, IdleOK, Untold, ChainOK, SearchOK
<1>3. FoundOK'
  BY <1>1 DEF ReadInv, FoundOK, Readers!Refers, Readers!Is
<1>4. Readers!FlagsAgree'
  BY <1>1 DEF ReadInv, Told, Readers!FlagsAgree, Readers!Quoted, Readers!Is, Readers!Author
<1>5. Readers!SilencedHidden' /\ Readers!MatchesFound' /\ Readers!ShownWhole'
  BY <1>1 DEF ReadInv, Untold, ChainOK, Readers!SilencedHidden, Readers!MatchesFound,
     Readers!ShownWhole
<1>. QED  BY <1>2, <1>3, <1>4, <1>5 DEF ReadInv, Told

LEMMA TweetsKeep ==
    ASSUME ReadInv, NEW t \in Tweets,
           Readers!Delete(t) \/ Readers!Index(t) \/ Readers!Drop(t) \/ Readers!Like(t)
                 \/ Readers!Unlike(t)
    PROVE  ReadInv'
<1>1. world \in Worlds
  BY DEF ReadInv, WorldOK
<1>2. CASE Readers!Delete(t)
  <2>1. PICK L, K : Readers!Happens([world EXCEPT !.live = L, !.liked = K])
        /\ L \subseteq world.live /\ K \subseteq world.liked
    BY <1>2, Zenon DEF Readers!Delete
  <2>2. [world EXCEPT !.live = L, !.liked = K] \in Worlds
    BY <1>1, <2>1 DEF Worlds
  <2>. QED  BY <2>1, <2>2, HappensKeeps
<1>3. CASE Readers!Index(t)
  <2>1. [world EXCEPT !.docs[t] = "full"] \in Worlds
    BY <1>1 DEF Worlds, Readers!Docs
  <2>. QED  BY <1>3, <2>1, HappensKeeps DEF Readers!Index
<1>4. CASE Readers!Drop(t)
  <2>1. [world EXCEPT !.docs[t] = "none"] \in Worlds
    BY <1>1 DEF Worlds, Readers!Docs
  <2>. QED  BY <1>4, <2>1, HappensKeeps DEF Readers!Drop
<1>5. CASE Readers!Like(t) \/ Readers!Unlike(t)
  <2>1. [world EXCEPT !.liked = @ \cup {t}] \in Worlds
        /\ [world EXCEPT !.liked = @ \ {t}] \in Worlds
    BY <1>1 DEF Worlds
  <2>. QED  BY <1>5, <2>1, HappensKeeps DEF Readers!Like, Readers!Unlike
<1>. QED  BY <1>2, <1>3, <1>4, <1>5

LEMMA UsersKeep ==
    ASSUME ReadInv, NEW u \in Users,
           Readers!Follow(u) \/ Readers!Unfollow(u) \/ Readers!Block(u) \/ Readers!Unblock(u)
                 \/ Readers!Mute(u) \/ Readers!Unmute(u)
    PROVE  ReadInv'
<1>1. world \in Worlds
  BY DEF ReadInv, WorldOK
<1>6. CASE Readers!Follow(u) \/ Readers!Unfollow(u)
  <2>1. [world EXCEPT !.follows = @ \cup {u}] \in Worlds
        /\ [world EXCEPT !.follows = @ \ {u}] \in Worlds
    BY <1>1 DEF Worlds
  <2>. QED  BY <1>6, <2>1, HappensKeeps DEF Readers!Follow, Readers!Unfollow
<1>7. CASE Readers!Block(u) \/ Readers!Unblock(u)
  <2>1. /\ [world EXCEPT !.blocked = @ \cup {u}, !.follows = @ \ {u}] \in Worlds
        /\ [world EXCEPT !.blocked = @ \ {u}] \in Worlds
    BY <1>1 DEF Worlds
  <2>. QED  BY <1>7, <2>1, HappensKeeps DEF Readers!Block, Readers!Unblock
<1>8. CASE Readers!Mute(u) \/ Readers!Unmute(u)
  <2>1. [world EXCEPT !.muted = @ \cup {u}] \in Worlds
        /\ [world EXCEPT !.muted = @ \ {u}] \in Worlds
    BY <1>1 DEF Worlds
  <2>. QED  BY <1>8, <2>1, HappensKeeps DEF Readers!Mute, Readers!Unmute
<1>. QED  BY <1>6, <1>7, <1>8

-----------------------------------------------------------------------------
\* Flags as they are in the world of now.
AgreesNow(e, reader) ==
    /\ e.liked => e.tweet \in world.liked
    /\ e.following => Readers!Author(e.tweet) \in world.follows
    /\ \/ e.liked \/ e.as = "above" \/ e.tweet \notin world.liked
       \/ e.as = "parent" /\ Readers!Is("quote", e.of) /\ reader \in {"following", "profile"}
    /\ \/ e.following \/ e.as = "nested" \/ Readers!Author(e.tweet) \notin world.follows
       \/ e.as = "parent" /\ Readers!Is("quote", e.of) /\ reader \in {"following", "profile"}
       \/ e.as = "main" /\ reader \in {"thread", "ids"}
HiddenNow(e, reader) ==
    \/ Readers!Author(e.tweet) \notin Readers!Silenced(world)
    \/ reader = "following" /\ e.as = "nested"
    \/ /\ reader = "following" /\ e.as = "main"
       /\ \E p \in shape.posts : p.tweet = e.tweet /\ p.repost
       /\ Readers!Author(e.tweet) \notin world.muted
WholeNow(entries) == \A e \in entries : e.as = "main" /\ ~Readers!Is("tweet", e.tweet) =>
    \E f \in entries : f.of = e.tweet /\ f.tweet = shape.parent[e.tweet]
          /\ f.as \in {"parent", "above"}

LEMMA AnswersKeep ==
    ASSUME ReadInv, NEW reader \in {"following", "profile", "ids"}, NEW entries,
           Readers!Answers(reader, entries),
           \A e \in entries : AgreesNow(e, reader),
           reader = "following" => \A e \in entries : HiddenNow(e, reader),
           reader # "ids" => WholeNow(entries)
    PROVE  ReadInv'
<1>1. /\ req.at = "idle" /\ req' = [Readers!Idle EXCEPT !.at = "done", !.reader = reader]
      /\ answer' = entries /\ shape' = shape /\ world' = world /\ past' = past
  BY DEF Readers!Answers
<1>2. req'.at = "done" /\ req'.reader = reader
  BY <1>1 DEF Readers!Idle
<1>3. WorldOK' /\ IdleOK' /\ Untold' /\ ChainOK' /\ SearchOK' /\ FoundOK'
  BY <1>1, <1>2 DEF ReadInv, WorldOK, IdleOK, Untold, ChainOK, SearchOK, FoundOK
<1>4. ReqTyped'
  BY <1>1, <1>2 DEF ReqTyped, Readers!Idle
<1>5. past' = {world} /\ world' = world
  BY <1>1 DEF ReadInv, IdleOK
<1>6. Readers!FlagsAgree'
  BY <1>1, <1>2, <1>5 DEF Readers!FlagsAgree, AgreesNow, Readers!Quoted, Readers!Is, Readers!Author
<1>7. Readers!SilencedHidden'
  BY <1>1, <1>2, <1>5 DEF Readers!SilencedHidden, HiddenNow, Readers!Always, Readers!Author,
     Readers!Silenced
<1>8. Readers!MatchesFound'
  BY <1>2 DEF Readers!MatchesFound
<1>9. Readers!ShownWhole'
  BY <1>1, <1>2 DEF Readers!ShownWhole, WholeNow, Readers!Is
<1>. QED  BY <1>3, <1>4, <1>6, <1>7, <1>8, <1>9 DEF ReadInv, Told

LEMMA ShownFields ==
    ASSUME NEW of, NEW as, NEW t
    PROVE  /\ Readers!Shown(of, as, t).of = of /\ Readers!Shown(of, as, t).as = as
           /\ Readers!Shown(of, as, t).tweet = t
           /\ Readers!Shown(of, as, t).liked <=> t \in world.liked
           /\ Readers!Shown(of, as, t).following <=> Readers!Author(t) \in world.follows
           /\ Readers!Unliked(Readers!Shown(of, as, t)).of = of
           /\ Readers!Unliked(Readers!Shown(of, as, t)).as = as
           /\ Readers!Unliked(Readers!Shown(of, as, t)).tweet = t
                /\ ~Readers!Unliked(Readers!Shown(of, as, t)).liked
           /\ Readers!Unliked(Readers!Shown(of, as, t)).following
                <=> Readers!Author(t) \in world.follows
BY DEF Readers!Shown, Readers!Unliked

\* What comes with a tweet.
LEMMA ComesWith ==
    ASSUME NEW t \in Tweets, NEW e \in Readers!WithParents(t)
    PROVE  \/ e = Readers!Shown(t, "main", t)
           \/ Readers!Is("reply", t) /\ e = Readers!Shown(t, "parent", shape.parent[t])
           \/ Readers!Is("reply", t) /\ e = Readers!Shown(t, "conversation", shape.conv[t])
           \/ \E x : e = Readers!Unfollowed(Readers!Shown(t, "nested", x))
           \/ Readers!Is("quote", t) /\ e = Readers!Unliked(Readers!Unfollowed(Readers!Shown(t, "parent", shape.parent[t])))
<1>1. e \in {Readers!Shown(t, "main", t)} \/ e \in Readers!Parents(t)
      \/ e \in Readers!Conversation(t)
  BY DEF Readers!WithParents
<1>2. \A p : e \in Readers!Nested(t, p) => e = Readers!Unfollowed(Readers!Shown(t, "nested", shape.parent[p]))
  BY DEF Readers!Nested
<1>3. CASE e \in Readers!Parents(t)
  <2>1. CASE Readers!Is("reply", t)
    <3>1. Readers!Parents(t) = {Readers!Shown(t, "parent", shape.parent[t])}
          \cup Readers!Nested(t, shape.parent[t])
      BY <2>1 DEF Readers!Parents, Readers!Is
    <3>. QED  BY <1>2, <1>3, <2>1, <3>1
  <2>2. CASE ~Readers!Is("reply", t) /\ Readers!Is("quote", t)
    BY <1>3, <2>2 DEF Readers!Parents, Readers!Is
  <2>3. CASE ~Readers!Is("reply", t) /\ ~Readers!Is("quote", t)
    BY <1>3, <2>3 DEF Readers!Parents
  <2>. QED  BY <2>1, <2>2, <2>3
<1>4. CASE e \in Readers!Conversation(t)
  <2>1. CASE Readers!Is("reply", t)
    <3>1. Readers!Conversation(t) = {Readers!Shown(t, "conversation", shape.conv[t])}
          \cup Readers!Nested(t, shape.conv[t])
      BY <2>1 DEF Readers!Conversation
    <3>. QED  BY <1>2, <1>4, <2>1, <3>1
  <2>2. CASE ~Readers!Is("reply", t)
    BY <1>4, <2>2 DEF Readers!Conversation
  <2>. QED  BY <2>1, <2>2
<1>. QED  BY <1>1, <1>3, <1>4

LEMMA WithParentsAgree ==
    ASSUME NEW t \in Tweets, NEW e \in Readers!WithParents(t), NEW reader \in {"following",
           "profile"}
    PROVE  AgreesNow(e, reader)
<1>. USE DEF AgreesNow, Readers!Shown, Readers!Unfollowed, Readers!Unliked
<1>1. CASE \E as, x : e = Readers!Shown(t, as, x)
  <2>1. PICK as, x : e = Readers!Shown(t, as, x)
    BY <1>1
  <2>2. e.as = as /\ e.tweet = x /\ (e.liked <=> x \in world.liked)
        /\ (e.following <=> Readers!Author(x) \in world.follows)
    BY <2>1, ShownFields, Zenon
  <2>. QED  BY <2>2
<1>2. CASE \E x : e = Readers!Unfollowed(Readers!Shown(t, "nested", x))
  BY <1>2
<1>3. CASE Readers!Is("quote", t) /\ e = Readers!Unliked(Readers!Unfollowed(Readers!Shown(t, "parent", shape.parent[t])))
  BY <1>3
<1>. QED  BY <1>1, <1>2, <1>3, ComesWith

LEMMA WithParentsWhole ==
    ASSUME Readers!Given, shape \in Shapes, NEW T \in SUBSET Tweets
    PROVE  WholeNow(UNION {Readers!WithParents(t) : t \in T})
<1>. SUFFICES ASSUME NEW t \in T, NEW e \in Readers!WithParents(t), e.as = "main",
      ~Readers!Is("tweet", e.tweet)
              PROVE  \E f \in Readers!WithParents(t) : /\ f.of = e.tweet /\ f.tweet = shape.parent[e.tweet]
                                               /\ f.as \in {"parent", "above"}
  BY DEF WholeNow
<1>1. e = Readers!Shown(t, "main", t)
  <2>1. \A of, as, x : Readers!Unfollowed(Readers!Shown(of, as, x)).as = as
        /\ Readers!Unliked(Readers!Unfollowed(Readers!Shown(of, as, x))).as = as
    BY DEF Readers!Shown, Readers!Unfollowed, Readers!Unliked
  <2>2. \A of, as, x : Readers!Shown(of, as, x).as = as
    BY DEF Readers!Shown
  <2>. QED  BY <2>1, <2>2, ComesWith
<1>2. e.tweet = t
  BY <1>1 DEF Readers!Shown
<1>3. CASE Readers!Is("reply", t)
  <2>1. Readers!Shown(t, "parent", shape.parent[t]) \in Readers!WithParents(t)
    BY <1>3 DEF Readers!WithParents, Readers!Parents, Readers!Is
  <2>. QED  BY <1>2, <2>1 DEF Readers!Shown
<1>4. CASE ~Readers!Is("reply", t)
  <2>1. Readers!Is("quote", t)
    BY <1>2, <1>4, ShapeOf
  <2>2. Readers!Unliked(Readers!Unfollowed(Readers!Shown(t, "parent", shape.parent[t]))) \in Readers!WithParents(t)
    BY <1>4, <2>1 DEF Readers!WithParents, Readers!Parents, Readers!Is
  <2>. QED  BY <1>2, <2>2 DEF Readers!Shown, Readers!Unliked, Readers!Unfollowed
<1>. QED  BY <1>3, <1>4

LEMMA FollowingKeeps == ASSUME ReadInv, Readers!GetFollowingTweets PROVE ReadInv'
<1>1. PICK R \in SUBSET {p \in Readers!Posts : Readers!Readable(p)} :
          Readers!Answers("following", UNION {Readers!WithParents(p.tweet) : p \in R})
  BY DEF Readers!GetFollowingTweets
<1>2. PICK T : T = {p.tweet : p \in R}
  OBVIOUS
<1>3. UNION {Readers!WithParents(p.tweet) : p \in R} = UNION {Readers!WithParents(t) : t \in T}
  BY <1>2
<1>4. Readers!Given /\ shape \in Shapes /\ world.follows \cap world.blocked = {} /\ world \in Worlds
  BY <1>1 DEF ReadInv, WorldOK, IdleOK, Readers!Answers
<1>5. \A p \in R : p \in shape.posts /\ p.tweet \in Tweets
      /\ (~p.repost => p.by = Readers!Author(p.tweet))
  BY <1>1, <1>4 DEF Readers!Given, Readers!WellFormed, Readers!Posts, Readers!Author
<1>6. T \subseteq Tweets
  BY <1>2, <1>5
<1>7. ASSUME NEW p \in R, NEW e \in Readers!WithParents(p.tweet)
      PROVE  AgreesNow(e, "following") /\ HiddenNow(e, "following")
  <2>1. p.tweet \in Tweets /\ Readers!Readable(p)
    BY <1>1, <1>5
  <2>2. AgreesNow(e, "following")
    BY <2>1, WithParentsAgree
  <2>8. HiddenNow(e, "following")
    <3>3. CASE e = Readers!Shown(p.tweet, "main", p.tweet)
      <4>1. Readers!Author(p.tweet) \notin world.muted
        BY <2>1 DEF Readers!Readable
      <4>2. CASE p.repost
        BY <1>5, <3>3, <4>1, <4>2 DEF HiddenNow, Readers!Shown
      <4>3. CASE ~p.repost
        <5>1. Readers!Author(p.tweet) \in world.follows \cup {Me}
          BY <1>5, <2>1, <4>3 DEF Readers!Readable
        <5>2. Readers!Author(p.tweet) \notin world.blocked
          BY <1>4, <5>1 DEF Readers!Given, Worlds
        <5>. QED  BY <3>3, <4>1, <5>2 DEF HiddenNow, Readers!Shown, Readers!Silenced
      <4>. QED  BY <4>2, <4>3
    <3>4. CASE \E x : e = Readers!Unfollowed(Readers!Shown(p.tweet, "nested", x))
      BY <3>4 DEF HiddenNow, Readers!Shown, Readers!Unfollowed
    <3>5. CASE Readers!Is("reply", p.tweet) /\ e = Readers!Shown(p.tweet, "parent", shape.parent[p.tweet])
      <4>1. ~Readers!Is("tweet", p.tweet)
        BY <3>5 DEF Readers!Is
      <4>. QED  BY <2>1, <3>5, <4>1 DEF HiddenNow, Readers!Shown, Readers!Readable
    <3>6. CASE Readers!Is("reply", p.tweet) /\ e = Readers!Shown(p.tweet, "conversation", shape.conv[p.tweet])
      BY <2>1, <3>6 DEF HiddenNow, Readers!Shown, Readers!Readable
    <3>7. CASE Readers!Is("quote", p.tweet) /\ e = Readers!Unliked(Readers!Unfollowed(Readers!Shown(p.tweet, "parent", shape.parent[p.tweet])))
      <4>1. ~Readers!Is("tweet", p.tweet)
        BY <3>7 DEF Readers!Is
      <4>. QED  BY <2>1, <3>7, <4>1 DEF HiddenNow, Readers!Shown, Readers!Readable,
           Readers!Unliked, Readers!Unfollowed
    <3>. QED  BY <2>1, <3>3, <3>4, <3>5, <3>6, <3>7, ComesWith
  <2>. QED  BY <2>2, <2>8
<1>8. WholeNow(UNION {Readers!WithParents(t) : t \in T})
  BY <1>4, <1>6, WithParentsWhole
<1>9. \A e \in UNION {Readers!WithParents(p.tweet) : p \in R} : AgreesNow(e, "following")
      /\ HiddenNow(e, "following")
  BY <1>7
<1>. QED  BY <1>1, <1>3, <1>8, <1>9, AnswersKeep

LEMMA ProfileKeeps ==
    ASSUME ReadInv, NEW P \in SUBSET shape.posts, Readers!Profile(P)
    PROVE  ReadInv'
<1>1. PICK T : T = {p.tweet : p \in P \cap Readers!Posts}
  OBVIOUS
<1>2. UNION {Readers!WithParents(p.tweet) : p \in P \cap Readers!Posts} = UNION {Readers!WithParents(t) : t \in T}
  BY <1>1
<1>3. Readers!Given /\ shape \in Shapes
  BY DEF ReadInv, WorldOK
<1>4. T \subseteq Tweets
  BY <1>1, <1>3 DEF Readers!Given, Readers!WellFormed
<1>5. Readers!Answers("profile", UNION {Readers!WithParents(t) : t \in T})
  BY <1>2 DEF Readers!Profile
<1>6. \A e \in UNION {Readers!WithParents(t) : t \in T} : AgreesNow(e, "profile")
  BY <1>4, WithParentsAgree
<1>7. WholeNow(UNION {Readers!WithParents(t) : t \in T})
  BY <1>3, <1>4, WithParentsWhole
<1>. QED  BY <1>5, <1>6, <1>7, AnswersKeep

LEMMA TabsKeep ==
    ASSUME ReadInv, NEW u \in Users, NEW T \in SUBSET Tweets,
           Readers!GetPostsByUserId(u) \/ Readers!GetRepliesByUserId(u)
                 \/ Readers!GetMediaByUserId(u, T)
    PROVE  ReadInv'
<1>1. \E P \in SUBSET shape.posts : Readers!Profile(P)
  BY DEF Readers!GetPostsByUserId, Readers!GetRepliesByUserId, Readers!GetMediaByUserId
<1>. QED  BY <1>1, ProfileKeeps

LEMMA LikedKeeps == ASSUME ReadInv, Readers!GetLikedPostsByUserId PROVE ReadInv'
BY ProfileKeeps DEF Readers!GetLikedPostsByUserId

LEMMA IdsKeep == ASSUME ReadInv, NEW T \in SUBSET Tweets, Readers!GetTweetsByIds(T) PROVE ReadInv'
<1>1. PICK entries : /\ entries = {Readers!Unfollowed(Readers!Shown(t, "main", t)) : t \in T \cap world.live}
                     /\ Readers!Answers("ids", entries)
  BY DEF Readers!GetTweetsByIds
<1>2. \A e \in entries : AgreesNow(e, "ids")
  BY <1>1 DEF AgreesNow, Readers!Shown, Readers!Unfollowed
<1>. QED  BY <1>1, <1>2, AnswersKeep

-----------------------------------------------------------------------------
LEMMA ReadTweetKeeps == ASSUME ReadInv, NEW t \in Tweets, Readers!ReadTweet(t) PROVE ReadInv'
<1>1. /\ req.at = "idle" /\ req' = [Readers!Idle EXCEPT !.at = "chain", !.reader = "thread"]
      /\ answer' = {Readers!Unfollowed(Readers!Shown(t, "main", t))}
      /\ shape' = shape /\ world' = world /\ past' = past
  BY DEF Readers!ReadTweet
<1>2. req'.at = "chain" /\ req'.reader = "thread"
  BY <1>1 DEF Readers!Idle
<1>3. WorldOK' /\ IdleOK' /\ Untold' /\ SearchOK' /\ FoundOK'
  BY <1>1, <1>2 DEF ReadInv, WorldOK, IdleOK, Untold, SearchOK, FoundOK
<1>4. ReqTyped'
  BY <1>1, <1>2 DEF ReqTyped, Readers!Idle
<1>5. ChainOK'
  BY <1>1, <1>2 DEF ChainOK, Readers!Shown, Readers!Unfollowed
<1>6. Readers!FlagsAgree'
  BY <1>1, <1>2 DEF ReadInv, WorldOK, Readers!FlagsAgree, Readers!Shown, Readers!Unfollowed,
     Readers!Author
<1>7. Readers!SilencedHidden' /\ Readers!MatchesFound' /\ Readers!ShownWhole'
  BY <1>2 DEF Readers!SilencedHidden, Readers!MatchesFound, Readers!ShownWhole
<1>. QED  BY <1>3, <1>4, <1>5, <1>6, <1>7 DEF ReadInv, Told

LEMMA AboveTyped ==
    ASSUME Readers!Given, shape \in Shapes, NEW t \in Tweets, ~Readers!Is("tweet", t)
    PROVE shape.parent[t] \in Readers!Above(t) /\ Readers!Above(t) \subseteq Tweets
<1>1. shape.parent[t] \in Tweets /\ shape.parent[t] # None
  BY ShapeOf DEF Readers!Given
<1>. QED  BY <1>1 DEF Readers!Above

LEMMA FailedKeeps ==
    ASSUME ReadInv, req' = [req EXCEPT !.at = "failed"], answer' = {},
           shape' = shape, world' = world, past' = past
    PROVE  ReadInv'
<1>1. req'.at = "failed"
  BY DEF ReadInv, ReqTyped
<1>2. WorldOK' /\ IdleOK' /\ Untold' /\ ChainOK' /\ SearchOK' /\ FoundOK'
  BY <1>1 DEF ReadInv, WorldOK, IdleOK, Untold, ChainOK, SearchOK, FoundOK
<1>3. ReqTyped'
  BY <1>1 DEF ReadInv, ReqTyped
<1>4. Told'
  BY <1>1 DEF Told, Readers!SilencedHidden, Readers!MatchesFound, Readers!ShownWhole,
     Readers!FlagsAgree
<1>. QED  BY <1>2, <1>3, <1>4 DEF ReadInv

LEMMA ReadChainKeeps == ASSUME ReadInv, Readers!ReadChain PROVE ReadInv'
<1>1. req.at = "chain" /\ shape' = shape /\ world' = world /\ past' = past
  BY DEF Readers!ReadChain
<1>2. req.reader = "thread"
  BY <1>1 DEF ReadInv, ChainOK
<1>3. PICK t \in Tweets, e \in answer : answer = {e} /\ e.of = t /\ e.as = "main" /\ e.tweet = t
  BY <1>1 DEF ReadInv, ChainOK
<1>4. (CHOOSE x \in Tweets : \E f \in answer : f.tweet = x) = t
  BY <1>3
<1>5. CASE t \notin world.live
  BY <1>1, <1>4, <1>5, FailedKeeps DEF Readers!ReadChain, Readers!Goes
<1>6. CASE t \in world.live
  <2>1. /\ req' = [req EXCEPT !.at = "done"]
        /\ answer' = answer \cup {Readers!Unliked(Readers!Shown(t, "above", x)) : x \in Readers!Above(t)}
    BY <1>4, <1>6 DEF Readers!ReadChain, Readers!Goes
  <2>2. req'.at = "done" /\ req'.reader = "thread" /\ req'.seen = req.seen /\ req'.found = req.found
    BY <1>2, <2>1 DEF ReadInv, ReqTyped
  <2>3. WorldOK' /\ IdleOK' /\ Untold' /\ ChainOK' /\ SearchOK' /\ FoundOK'
    BY <1>1, <2>2 DEF ReadInv, WorldOK, IdleOK, Untold, ChainOK, SearchOK, FoundOK
  <2>4. ReqTyped'
    BY <2>1, <2>2 DEF ReadInv, ReqTyped
  <2>5. world \in past /\ Readers!Given /\ shape \in Shapes
    BY DEF ReadInv, WorldOK
  <2>6. Readers!FlagsAgree'
    <3>1. \A f \in answer : /\ f.liked => \E w \in past : f.tweet \in w.liked
                            /\ f.following => \E w \in past : Readers!Author(f.tweet) \in w.follows
                            /\ f.liked \/ \E w \in past : f.tweet \notin w.liked
      BY <1>2, <1>3 DEF ReadInv, Told, Readers!FlagsAgree, Readers!Quoted
    <3>3. ASSUME NEW f \in answer'
          PROVE  /\ f.liked => \E w \in past : f.tweet \in w.liked
                 /\ f.following => \E w \in past : Readers!Author(f.tweet) \in w.follows
                 /\ \/ f.liked \/ f.as = "above" \/ \E w \in past : f.tweet \notin w.liked
                 /\ \/ f.following \/ f.as = "main" \/ \E w \in past :
                         Readers!Author(f.tweet) \notin w.follows
      <4>1. CASE f \in answer
        BY <1>3, <3>1, <4>1
      <4>2. CASE f \notin answer
        <5>1. f.as = "above" /\ ~f.liked /\ (f.following <=> Readers!Author(f.tweet) \in world.follows)
          <6>1. PICK x : f = Readers!Unliked(Readers!Shown(t, "above", x))
            BY <2>1, <4>2
          <6>. QED  BY <6>1, ShownFields
        <5>. QED  BY <2>5, <5>1, Zenon
      <4>. QED  BY <4>1, <4>2
    <3>. QED  BY <1>1, <2>2, <3>3 DEF Readers!FlagsAgree, Readers!Author
  <2>7. Readers!ShownWhole'
    <3>1. SUFFICES ASSUME NEW f \in answer', f.as = "main", ~Readers!Is("tweet", f.tweet)
          PROVE  \E g \in answer' : g.of = f.tweet /\ g.tweet = shape.parent[f.tweet]
                /\ g.as = "above"
      BY <1>1 DEF Readers!ShownWhole, Readers!Is
    <3>2. f = e
      BY <1>3, <2>1, <3>1 DEF Readers!Shown, Readers!Unliked
    <3>3. Readers!Unliked(Readers!Shown(t, "above", shape.parent[t])) \in answer'
      BY <1>3, <2>1, <2>5, <3>1, <3>2, AboveTyped
    <3>. QED  BY <1>3, <3>2, <3>3 DEF Readers!Shown, Readers!Unliked
  <2>8. Readers!SilencedHidden' /\ Readers!MatchesFound'
    BY <2>2 DEF Readers!SilencedHidden, Readers!MatchesFound
  <2>. QED  BY <2>3, <2>4, <2>6, <2>7, <2>8 DEF ReadInv, Told
<1>. QED  BY <1>5, <1>6

-----------------------------------------------------------------------------
LEMMA HitsKeep == ASSUME ReadInv, NEW M \in Readers!Matches, Readers!Hits(M) PROVE ReadInv'
<1>1. PICK hits : hits = {t \in M : world.docs[t] # "none"}
  OBVIOUS
<1>2. /\ req.at = "idle" /\ shape' = shape /\ world' = world /\ past' = past /\ answer' = answer
      /\ req' = [Readers!Idle EXCEPT !.at = "related", !.reader = "search", !.seen = [t \in hits |-> world.docs[t]]]
  BY <1>1 DEF Readers!Hits
<1>3. req'.at = "related" /\ req'.reader = "search" /\ req'.seen = [t \in hits |-> world.docs[t]]
  BY <1>2 DEF Readers!Idle
<1>4. world \in Worlds /\ answer = {}
  BY <1>2 DEF ReadInv, WorldOK, Untold
<1>5. WorldOK' /\ IdleOK' /\ Untold' /\ ChainOK' /\ SearchOK' /\ FoundOK'
  BY <1>2, <1>3 DEF ReadInv, WorldOK, IdleOK, Untold, ChainOK, SearchOK, FoundOK
<1>6. ReqTyped'
  BY <1>1, <1>2, <1>3, <1>4 DEF ReqTyped, Readers!Idle, Readers!Matches, Worlds
<1>7. Told'
  BY <1>2, <1>3, <1>4 DEF Told, Readers!SilencedHidden, Readers!MatchesFound, Readers!ShownWhole,
     Readers!FlagsAgree
<1>. QED  BY <1>5, <1>6, <1>7 DEF ReadInv

LEMMA RefersTyped ==
    ASSUME ReadInv, NEW t \in DOMAIN req.seen
    PROVE  Readers!Refers(t) \subseteq Tweets /\ t \in Tweets
<1>1. t \in Tweets /\ Readers!Given /\ shape \in Shapes
  BY DEF ReadInv, ReqTyped, WorldOK
<1>. QED  BY <1>1, ShapeOf DEF Readers!Refers

LEMMA RelatedKeeps == ASSUME ReadInv, Readers!Related PROVE ReadInv'
<1>1. PICK there : there = {x \in UNION {Readers!Refers(t) : t \in DOMAIN req.seen} : world.docs[x] # "none"}
  OBVIOUS
<1>2. PICK to \in {"failed", "flags"} : req' = [req EXCEPT !.at = to, !.found = there]
  BY <1>1 DEF Readers!Related
<1>3. req.at = "related" /\ shape' = shape /\ world' = world /\ past' = past /\ answer' = answer
  BY DEF Readers!Related
<1>4. /\ req'.at = to /\ req'.reader = req.reader /\ req'.seen = req.seen /\ req'.found = there
      /\ req.reader = "search" /\ answer = {} /\ world \in past
  BY <1>2, <1>3 DEF ReadInv, ReqTyped, SearchOK, Untold, WorldOK
<1>5. WorldOK' /\ IdleOK' /\ Untold' /\ ChainOK' /\ SearchOK'
  BY <1>3, <1>4 DEF ReadInv, WorldOK, IdleOK, Untold, ChainOK, SearchOK
<1>6. there \subseteq Tweets
  BY <1>1, RefersTyped
<1>7. ReqTyped'
  BY <1>2, <1>4, <1>6 DEF ReadInv, ReqTyped
<1>8. FoundOK'
  <2>1. \A t : Readers!Refers(t)' = Readers!Refers(t)
    BY <1>3, <1>4 DEF Readers!Refers, Readers!Is
  <2>2. \A t \in DOMAIN req.seen : \A x \in Readers!Refers(t) : x \in there
        \/ world.docs[x] = "none"
    BY <1>1
  <2>. QED  BY <1>3, <1>4, <2>1, <2>2 DEF FoundOK
<1>9. Told'
  BY <1>3, <1>4 DEF Told, Readers!SilencedHidden, Readers!MatchesFound, Readers!ShownWhole,
     Readers!FlagsAgree
<1>. QED  BY <1>5, <1>7, <1>8, <1>9 DEF ReadInv

LEMMA AttachKeeps == ASSUME ReadInv, Readers!AttachUserInteractions PROVE ReadInv'
<1>. DEFINE Entry(t, as, x) == IF Readers!Comes(t, x) THEN {Readers!Shown(t, as, x)} ELSE {}
            Entries(t) == {Readers!Shown(t, "main", t)} \cup Entry(t, "parent", shape.parent[t])
                          \cup Entry(t, "conversation", shape.conv[t])
<1>1. PICK kept : kept = {t \in DOMAIN req.seen : Readers!Kept(t)}
  OBVIOUS
<1>2. /\ req.at = "flags" /\ shape' = shape /\ world' = world /\ past' = past
      /\ req' = [req EXCEPT !.at = "done"] /\ answer' = UNION {Entries(t) : t \in kept}
  BY <1>1 DEF Readers!AttachUserInteractions, Readers!Goes
<1>3. /\ req'.at = "done" /\ req'.reader = "search" /\ req'.seen = req.seen
      /\ req'.found = req.found
      /\ world \in past /\ shape \in Shapes
  BY <1>2 DEF ReadInv, ReqTyped, SearchOK, WorldOK
<1>4. WorldOK' /\ IdleOK' /\ Untold' /\ ChainOK' /\ SearchOK' /\ FoundOK'
  BY <1>2, <1>3 DEF ReadInv, WorldOK, IdleOK, Untold, ChainOK, SearchOK, FoundOK
<1>5. ReqTyped'
  BY <1>2, <1>3 DEF ReadInv, ReqTyped
<1>6. \A t, as, x : Entry(t, as, x) = IF Readers!Comes(t, x) THEN {Readers!Shown(t, as, x)} ELSE {}
  OBVIOUS
<1>. HIDE DEF Entry
<1>7. ASSUME NEW e \in answer'
      PROVE  \E t \in kept :
                 \/ e = Readers!Shown(t, "main", t) /\ Readers!Seen(t)
                 \/ e = Readers!Shown(t, "parent", shape.parent[t]) /\ Readers!Seen(shape.parent[t])
                 \/ e = Readers!Shown(t, "conversation", shape.conv[t])
                      /\ Readers!Seen(shape.conv[t])
  <2>1. PICK t \in kept : e \in Entries(t)
    BY <1>2
  <2>2. Readers!Seen(t)
    BY <1>1, <2>1 DEF Readers!Kept
  <2>. QED  BY <2>1, <2>2, <1>6 DEF Readers!Comes
<1>8. Readers!FlagsAgree'
  <2>1. \A e \in answer' :
            /\ e.liked <=> e.tweet \in world.liked
            /\ e.following <=> Readers!Author(e.tweet) \in world.follows
    BY <1>7, ShownFields
  <2>2. \A e \in answer' :
            /\ e.liked => \E w \in past : e.tweet \in w.liked
            /\ e.following => \E w \in past : Readers!Author(e.tweet) \in w.follows
            /\ e.liked \/ \E w \in past : e.tweet \notin w.liked
            /\ e.following \/ \E w \in past : Readers!Author(e.tweet) \notin w.follows
    BY <1>3, <2>1
  <2>3. shape' = shape /\ past' = past
    BY <1>2
  <2>. QED  BY <2>2, <2>3 DEF Readers!FlagsAgree, Readers!Author
<1>9. Readers!SilencedHidden'
  BY <1>2, <1>3, <1>7 DEF Readers!SilencedHidden, Readers!Shown, Readers!Seen, Readers!Always,
     Readers!Author, Readers!Silenced
<1>10. \A t : Readers!Refers(t)' = Readers!Refers(t) /\ Readers!Author(t)' = Readers!Author(t)
      /\ \A k : Readers!Is(k, t)' = Readers!Is(k, t)
  BY <1>2, <1>3 DEF Readers!Refers, Readers!Is, Readers!Author
<1>11. Readers!MatchesFound'
  <2>. SUFFICES ASSUME NEW t \in DOMAIN req.seen, req.seen[t] # "bare" \/ Readers!Is("tweet", t),
                       \A w \in past : \A x \in {t} \cup Readers!Refers(t) :
                             w.docs[x] # "none" /\ Readers!Author(x) \notin Readers!Silenced(w)
                PROVE  \E e \in answer' : e.tweet = t /\ e.as = "main"
    BY <1>2, <1>3, <1>10 DEF Readers!MatchesFound
  <2>1. \A x \in Readers!Refers(t) : x \in req.found
    BY <1>2 DEF ReadInv, FoundOK
  <2>2. \A x \in {t} \cup Readers!Refers(t) : Readers!Seen(x)
    BY <1>3 DEF Readers!Seen
  <2>3. Readers!Kept(t)
    BY <2>1, <2>2 DEF Readers!Kept, Readers!Comes, Readers!Refers, Readers!Is
  <2>4. Readers!Shown(t, "main", t) \in answer'
    BY <1>1, <1>2, <2>3
  <2>. QED  BY <2>4 DEF Readers!Shown
<1>12. Readers!ShownWhole'
  <2>. SUFFICES ASSUME NEW e \in answer', e.as = "main", ~Readers!Is("tweet", e.tweet)
                PROVE  \E f \in answer' : f.of = e.tweet /\ f.tweet = shape.parent[e.tweet]
                      /\ f.as = "parent"
    BY <1>2, <1>10 DEF Readers!ShownWhole
  <2>1. PICK t \in kept : e = Readers!Shown(t, "main", t)
    BY <1>7 DEF Readers!Shown
  <2>2. e.tweet = t
    BY <2>1 DEF Readers!Shown
  <2>3. Readers!Comes(t, shape.parent[t])
    BY <1>1, <2>1, <2>2 DEF Readers!Kept
  <2>4. Readers!Shown(t, "parent", shape.parent[t]) \in answer'
    BY <1>2, <1>6, <2>1, <2>3
  <2>. QED  BY <2>2, <2>4 DEF Readers!Shown
<1>. QED  BY <1>4, <1>5, <1>8, <1>9, <1>11, <1>12 DEF ReadInv, Told

LEMMA FailKeeps == ASSUME ReadInv, Readers!Fail PROVE ReadInv'
BY FailedKeeps DEF Readers!Fail, Readers!Goes

-----------------------------------------------------------------------------
LEMMA ReadStutter == ASSUME ReadInv, UNCHANGED Readers!vars PROVE ReadInv'
<1>1. shape' = shape /\ world' = world /\ past' = past /\ req' = req /\ answer' = answer
  BY DEF Readers!vars
<1>2. WorldOK' /\ ReqTyped' /\ IdleOK' /\ Untold' /\ ChainOK' /\ SearchOK'
  BY <1>1 DEF ReadInv, WorldOK, ReqTyped, IdleOK, Untold, ChainOK, SearchOK
<1>3. FoundOK'
  BY <1>1 DEF ReadInv, FoundOK, Readers!Refers, Readers!Is
<1>4. Readers!FlagsAgree' /\ Readers!SilencedHidden'
  BY <1>1 DEF ReadInv, Told, Readers!FlagsAgree, Readers!Quoted, Readers!Is, Readers!Author,
     Readers!SilencedHidden, Readers!Always, Readers!Silenced
<1>5. Readers!MatchesFound' /\ Readers!ShownWhole'
  BY <1>1 DEF ReadInv, Told, Readers!MatchesFound, Readers!ShownWhole, Readers!Is, Readers!Refers,
     Readers!Author, Readers!Silenced
<1>. QED  BY <1>2, <1>3, <1>4, <1>5 DEF ReadInv, Told

LEMMA ReadStep == ASSUME ReadInv, [Readers!Next]_(Readers!vars) PROVE ReadInv'
<1>1. ASSUME NEW t \in Tweets,
             Readers!Delete(t) \/ Readers!Index(t) \/ Readers!Drop(t) \/ Readers!Like(t)
                   \/ Readers!Unlike(t) \/ Readers!ReadTweet(t)
      PROVE  ReadInv'
  BY <1>1, TweetsKeep, ReadTweetKeeps
<1>2. ASSUME NEW u \in Users,
             \/ Readers!Follow(u) \/ Readers!Unfollow(u) \/ Readers!Block(u)
                  \/ Readers!Unblock(u) \/ Readers!Mute(u) \/ Readers!Unmute(u)
             \/ Readers!GetPostsByUserId(u) \/ Readers!GetRepliesByUserId(u)
             \/ \E T \in SUBSET Tweets : Readers!GetMediaByUserId(u, T)
      PROVE  ReadInv'
  <2>1. CASE \/ Readers!Follow(u) \/ Readers!Unfollow(u) \/ Readers!Block(u)
                  \/ Readers!Unblock(u) \/ Readers!Mute(u) \/ Readers!Unmute(u)
    BY <2>1, UsersKeep
  <2>2. CASE \/ Readers!GetPostsByUserId(u) \/ Readers!GetRepliesByUserId(u)
             \/ \E T \in SUBSET Tweets : Readers!GetMediaByUserId(u, T)
    BY <2>2, TabsKeep
  <2>. QED  BY <1>2, <2>1, <2>2
<1>3. ASSUME NEW T \in SUBSET Tweets, Readers!GetTweetsByIds(T) PROVE ReadInv'
  BY <1>3, IdsKeep
<1>4. ASSUME NEW M \in Readers!Matches, Readers!Hits(M) PROVE ReadInv'
  BY <1>4, HitsKeep
<1>. QED  BY <1>1, <1>2, <1>3, <1>4, FollowingKeeps, LikedKeeps, ReadChainKeeps, RelatedKeeps,
     AttachKeeps, FailKeeps, ReadStutter DEF Readers!Next

\* What a request has in hand, and all it shows, was so in a world that it has seen
\* (SearchService, TweetsRepository, TweetsService).
THEOREM ReadAlways == Readers!Spec => []ReadInv
<1>1. Readers!Init => ReadInv
  BY ReadInit, ProperReaders
<1>. QED  BY <1>1, ReadStep, PTL DEF Readers!Spec

\* Whoever is blocked or muted all the time is not shown on the timeline or by the
\* search, but where nobody asks (getFollowingTweets, attachUserInteractions).
THEOREM SilencedStayHidden == Readers!Spec => []SilencedHidden
<1>1. ReadInv => SilencedHidden
  BY DEF ReadInv, Told, SilencedHidden
<1>. QED  BY <1>1, ReadAlways, PTL

\* What the search has matched and may be seen is found, and nothing is shown without
\* what it answers or quotes (mapTweet, attachUserInteractions, reply_chain).
THEOREM FoundAndWhole == Readers!Spec => []FoundWhole
<1>1. ReadInv => FoundWhole
  BY DEF ReadInv, Told, FoundWhole, Readers!FoundWhole
<1>. QED  BY <1>1, ReadAlways, PTL

\* A flag that is shown was true at some time of the request, and one that is not shown
\* was false at some time, where somebody asked (attachUserInteractionBooleanFlags).
THEOREM FlagsTell == Readers!Spec => []FlagsAgree
<1>1. ReadInv => FlagsAgree
  BY DEF ReadInv, Told, FlagsAgree
<1>. QED  BY <1>1, ReadAlways, PTL

-----------------------------------------------------------------------------
(***************************************************************************)
(* WhoToFollow, as Advice: any users, quotas and scores.                   *)
(*                                                                         *)
(* A source returns strangers, each once.  Adding the quota of a source    *)
(* keeps what was added before and whom it adds was not there, so that the *)
(* quotas take nobody twice; one that no quota took is beyond the quota of *)
(* every source that knows them, and comes once from each of these.        *)
(***************************************************************************)
SomeSources == {"fof", "interests", "likes", "replies", "followers"}
\* What a source has returned: strangers, each once.
EachOnce(l, S) == /\ l = [i \in 1..Len(l) |-> l[i]] /\ Len(l) \in Nat
                  /\ \A i \in 1..Len(l) : l[i] \in S
                  /\ \A i, k \in 1..Len(l) : l[i] = l[k] => i = k
SourceOK(s) == EachOnce(found[s], strangers)
Searching == /\ Advice!Given
             /\ at \in {"sources", "fill", "done"}
             /\ at = "sources" => advice = {} /\ Advice!Known(follows, refused) \subseteq strangers
             /\ at # "sources" => DOMAIN found = DOMAIN Advice!Sources
             /\ DOMAIN found \subseteq SomeSources /\ \A s \in DOMAIN found : SourceOK(s)
AdviceInv == Searching /\ Advice!TwiceOnlyBeyondQuotas /\ Advice!StrangersOnly

\* The module brings its own FiniteSets.
LEMMA SameSize ==
    \A S : Advice!Cardinality(S) = Cardinality(S) /\ (Advice!IsFiniteSet(S) <=> IsFiniteSet(S))
BY DEF Advice!Cardinality, Cardinality, Advice!IsFiniteSet, IsFiniteSet

LEMMA TheSources == DOMAIN Advice!Sources = SomeSources
BY DEF Advice!Sources, SomeSources

LEMMA QuotaNat ==
    ASSUME Advice!Given, NEW s \in SomeSources
    PROVE  Advice!Quota(s) \in Nat /\ Advice!Quota(s) * Multiplier \in Nat
<1>1. Share[s] \in Nat /\ Wanted \in Nat /\ Multiplier \in Nat
  BY TheSources DEF Advice!Given
<1>2. PICK m \in Nat : m = Wanted * Share[s]
  BY <1>1
<1>3. Advice!Quota(s) = (m + 99) \div 100
  BY <1>2 DEF Advice!Quota
<1>4. Advice!Quota(s) \in Nat
  BY <1>3
<1>. QED  BY <1>1, <1>4

LEMMA AdviceInit == ASSUME Advice!Given, Advice!Init PROVE AdviceInv
BY DEF Advice!Init, AdviceInv, Searching, Advice!TwiceOnlyBeyondQuotas, Advice!StrangersOnly

-----------------------------------------------------------------------------
LEMMA ChangesKeep ==
    ASSUME AdviceInv, NEW f, NEW r, NEW d, Advice!Changes(f, r, d)
    PROVE  AdviceInv'
<1>1. /\ follows' = f /\ refused' = r /\ strangers' = strangers \cup Advice!Known(f, r)
      /\ found' = found /\ advice' = advice /\ at' = at
  BY DEF Advice!Changes
<1>2. Searching'
  BY <1>1 DEF AdviceInv, Searching, SourceOK, EachOnce, Advice!Known
<1>3. Advice!TwiceOnlyBeyondQuotas'
  BY <1>1 DEF AdviceInv, Advice!TwiceOnlyBeyondQuotas, Advice!Recommended, Advice!Quota
<1>4. Advice!StrangersOnly'
  BY <1>1 DEF AdviceInv, Advice!StrangersOnly
<1>. QED  BY <1>2, <1>3, <1>4 DEF AdviceInv

LEMMA QueryKeeps ==
    ASSUME AdviceInv, NEW s \in DOMAIN Advice!Sources, Advice!Query(s)
    PROVE  AdviceInv'
<1>. DEFINE C == Advice!Candidates(s)
            D == 1..Cardinality(C)
            n == Advice!Quota(s) * Multiplier
<1>1. PICK l \in [D -> C] :
        /\ \A i, k \in D : i # k => l[i] # l[k]
        /\ found' = [f \in DOMAIN found \cup {s} |-> IF f = s THEN Advice!First(n, l) ELSE found[f]]
  BY SameSize DEF Advice!Query, Advice!SetToSeqs
<1>2. /\ at = "sources" /\ at' = at /\ follows' = follows /\ refused' = refused
      /\ advice' = advice /\ strangers' = strangers
  BY DEF Advice!Query, Advice!graph
<1>3. s \in SomeSources /\ n \in Nat
  BY TheSources, QuotaNat DEF AdviceInv, Searching
<1>4. C \subseteq strangers /\ IsFiniteSet(C) /\ Cardinality(C) \in Nat
  <2>1. C \subseteq Users /\ C \subseteq strangers /\ IsFiniteSet(Users)
    BY <1>2, SameSize DEF Advice!Given, Advice!Candidates, Advice!Known, AdviceInv, Searching
  <2>. QED  BY <2>1, FS_Subset, FS_CardinalityType
<1>5. PICK m \in Nat : /\ m <= Cardinality(C) /\ Advice!First(n, l) = SubSeq(l, 1, m)
  <2>1. Len(l) = Cardinality(C)
    BY <1>4
  <2>. QED  BY <1>3, <1>4, <2>1 DEF Advice!First
<1>6. Advice!First(n, l) = [i \in 1..m |-> l[i]]
  BY <1>4, <1>5
<1>7. PICK g : g = Advice!First(n, l)
  OBVIOUS
<1>8. EachOnce(g, strangers)
  <2>1. DOMAIN g = 1..m /\ \A i \in 1..m : g[i] = l[i]
    BY <1>6, <1>7
  <2>2. Len(g) = m
    BY <1>6, <1>7
  <2>3. g = [i \in 1..m |-> g[i]]
    BY <1>6, <1>7, <2>1
  <2>4. \A i \in 1..m : i \in D /\ l[i] \in strangers
    BY <1>4, <1>5
  <2>. QED  BY <1>1, <2>1, <2>2, <2>3, <2>4 DEF EachOnce
<1>. HIDE DEF C, D, n
<1>9. \A f \in DOMAIN found' : SourceOK(f)'
  <2>. SUFFICES ASSUME NEW f \in DOMAIN found' PROVE SourceOK(f)'
    OBVIOUS
  <2>1. CASE f = s
    <3>1. found'[f] = g
      BY <1>1, <1>7, <2>1
    <3>2. strangers' = strangers
      BY <1>2
    <3>. QED  BY <1>8, <3>1, <3>2 DEF SourceOK
  <2>2. CASE f # s
    BY <1>1, <1>2, <2>2 DEF SourceOK, AdviceInv, Searching
  <2>. QED  BY <2>1, <2>2
<1>10. Searching'
  BY <1>1, <1>2, <1>3, <1>9 DEF AdviceInv, Searching, Advice!Known
<1>. QED  BY <1>2, <1>10 DEF AdviceInv, Advice!TwiceOnlyBeyondQuotas, Advice!StrangersOnly

-----------------------------------------------------------------------------
\* A source offers nobody twice.
LEMMA ScoredOnce ==
    ASSUME NEW s \in SomeSources, SourceOK(s)
    PROVE  /\ \A e \in Advice!Scored(s) : /\ e.source = s /\ e.user \in strangers /\ e.place \in 1..Len(found[s])
                                 /\ e.user = found[s][e.place]
           /\ \A e, f \in Advice!Scored(s) : e.user = f.user \/ e.place = f.place => e = f
<1>1. DOMAIN found[s] = 1..Len(found[s])
  BY DEF SourceOK, EachOnce
<1>. QED  BY <1>1 DEF SourceOK, EachOnce, Advice!Scored, Advice!Entry

LEMMA FirstsIn ==
    ASSUME NEW n, NEW S
    PROVE  Advice!Firsts(n, S, Advice!Earlier) \subseteq S
          /\ Advice!Firsts(n, S, Advice!Better) \subseteq S
               /\ Advice!Firsts(n, S, Advice!Sooner) \subseteq S
BY DEF Advice!Firsts

\* Whom a source offers and its quota did not take, it offers beyond its quota.
LEMMA BeyondQuota ==
    ASSUME Advice!Given, NEW s \in SomeSources, SourceOK(s), NEW R, NEW e \in Advice!Scored(s),
           e.user \notin Advice!UsersOf(Advice!AddFromSource(R, s))
    PROVE  Len(found[s]) > Advice!Quota(s)
<1>. DEFINE U == Advice!Unseen(Advice!Scored(s), R)
            B == {o \in U : Advice!Earlier(o, e)}
<1>1. e \in U /\ e \notin Advice!Firsts(Advice!Quota(s), U, Advice!Earlier)
  <2>1. Advice!AddFromSource(R, s) = R \cup Advice!Firsts(Advice!Quota(s), U, Advice!Earlier)
    BY DEF Advice!AddFromSource
  <2>2. e.user \notin Advice!UsersOf(R) /\ e \notin Advice!Firsts(Advice!Quota(s), U, Advice!Earlier)
    BY <2>1 DEF Advice!UsersOf
  <2>. QED  BY <2>2 DEF Advice!Unseen
<1>2. ~(Cardinality(B) < Advice!Quota(s))
  BY <1>1, SameSize DEF Advice!Firsts
<1>3. U \subseteq Advice!Scored(s)
  BY DEF Advice!Unseen
<1>4. e.place \in 1..Len(found[s]) /\ Len(found[s]) \in Nat
  BY ScoredOnce DEF SourceOK, EachOnce
<1>5. \A o \in B : o \in Advice!Scored(s) /\ o.place \in 1..(e.place - 1)
  BY <1>3, <1>4, ScoredOnce DEF Advice!Earlier
<1>6. [o \in B |-> o.place] \in Injection(B, 1..(e.place - 1))
  BY <1>5, ScoredOnce DEF Injection, IsInjective
<1>7. IsFiniteSet(1..(e.place - 1)) /\ Cardinality(1..(e.place - 1)) = e.place - 1
  <2>1. PICK k \in Nat : k = e.place - 1
    BY <1>4
  <2>2. IsFiniteSet(1..k) /\ Cardinality(1..k) = k
    <3>1. 1 \in Int /\ k \in Int
      OBVIOUS
    <3>2. IsFiniteSet(1..k) /\ Cardinality(1..k) = IF 1 > k THEN 0 ELSE k - 1 + 1
      BY <3>1, FS_Interval
    <3>. QED  BY <3>2
  <2>. QED  BY <2>1, <2>2
<1>. HIDE DEF B
<1>8. IsFiniteSet(B) /\ Cardinality(B) <= e.place - 1 /\ Cardinality(B) \in Nat
  BY <1>6, <1>7, FS_Injection, FS_CardinalityType
<1>. QED  BY <1>2, <1>4, <1>8, QuotaNat

Once(R) == \A e, f \in R : e.user = f.user => e = f
From(R) == \A e \in R : \E s \in SomeSources : e \in Advice!Scored(s)

LEMMA AddKeeps ==
    ASSUME NEW R, Once(R), From(R), NEW s \in SomeSources, SourceOK(s)
    PROVE  Once(Advice!AddFromSource(R, s)) /\ From(Advice!AddFromSource(R, s))
          /\ R \subseteq Advice!AddFromSource(R, s)
<1>1. PICK F : Advice!AddFromSource(R, s) = R \cup F
      /\ F \subseteq Advice!Unseen(Advice!Scored(s), R)
  BY FirstsIn DEF Advice!AddFromSource
<1>2. \A e \in F : e \in Advice!Scored(s) /\ e.user \notin Advice!UsersOf(R)
  BY <1>1 DEF Advice!Unseen
<1>. QED  BY <1>1, <1>2, ScoredOnce DEF Once, From, Advice!UsersOf

\* The quotas take nobody twice, and whom they leave out is beyond the quota of each
\* source that offers them.
LEMMA SharesOnce ==
    ASSUME Advice!Given, \A s \in SomeSources : SourceOK(s)
    PROVE  /\ Once(Advice!Shares) /\ From(Advice!Shares)
           /\ \A s \in SomeSources : \A e \in Advice!Scored(s) :
                e.user \notin Advice!UsersOf(Advice!Shares) => Len(found[s]) > Advice!Quota(s)
<1>1. PICK r1 : r1 = Advice!AddFromSource({}, "fof")
  OBVIOUS
<1>2. PICK r2 : r2 = Advice!AddFromSource(r1, "interests")
  OBVIOUS
<1>3. PICK r3 : r3 = Advice!AddFromSource(r2, "likes")
  OBVIOUS
<1>4. PICK r4 : r4 = Advice!AddFromSource(r3, "replies")
  OBVIOUS
<1>5. PICK r5 : r5 = Advice!AddFromSource(r4, "followers")
  OBVIOUS
<1>6. Advice!Shares = r5
  BY <1>1, <1>2, <1>3, <1>4, <1>5 DEF Advice!Shares
<1>7. "fof" \in SomeSources /\ "interests" \in SomeSources /\ "likes" \in SomeSources
      /\ "replies" \in SomeSources /\ "followers" \in SomeSources
  BY DEF SomeSources
<1>8. Once(r1) /\ From(r1)
  <2>1. Once({}) /\ From({})
    BY DEF Once, From
  <2>. QED  BY <1>1, <1>7, <2>1, AddKeeps
<1>9. Once(r2) /\ From(r2) /\ r1 \subseteq r2
  BY <1>2, <1>7, <1>8, AddKeeps
<1>10. Once(r3) /\ From(r3) /\ r2 \subseteq r3
  BY <1>3, <1>7, <1>9, AddKeeps
<1>11. Once(r4) /\ From(r4) /\ r3 \subseteq r4
  BY <1>4, <1>7, <1>10, AddKeeps
<1>12. Once(r5) /\ From(r5) /\ r4 \subseteq r5
  BY <1>5, <1>7, <1>11, AddKeeps
<1>13. ASSUME NEW s \in SomeSources, NEW e \in Advice!Scored(s), e.user \notin Advice!UsersOf(r5)
       PROVE  Len(found[s]) > Advice!Quota(s)
  <2>1. /\ e.user \notin Advice!UsersOf(r1) /\ e.user \notin Advice!UsersOf(r2)
             /\ e.user \notin Advice!UsersOf(r3)
        /\ e.user \notin Advice!UsersOf(r4)
    BY <1>9, <1>10, <1>11, <1>12, <1>13 DEF Advice!UsersOf
  <2>. QED  BY <1>1, <1>2, <1>3, <1>4, <1>5, <1>13, <2>1, BeyondQuota DEF SomeSources
<1>. QED  BY <1>6, <1>12, <1>13

Offering(u) == {s \in DOMAIN Advice!Sources : u \in Advice!ToSet(found[s]) /\ Len(found[s]) > Advice!Quota(s)}
Bound(u) == IF Offering(u) = {} THEN 1 ELSE Cardinality(Offering(u))

LEMMA BeyondFinite == ASSUME NEW u PROVE
    IsFiniteSet(Offering(u)) /\ Cardinality(Offering(u)) \in Nat /\ Bound(u) \in Nat
          /\ Bound(u) >= 1
<1>1. IsFiniteSet(SomeSources)
  <2>1. IsFiniteSet({}) /\ \A S, x : IsFiniteSet(S) => IsFiniteSet(S \cup {x})
    BY FS_EmptySet, FS_AddElement
  <2>2. SomeSources = (((({} \cup {"fof"}) \cup {"interests"}) \cup {"likes"}) \cup {"replies"}) \cup {"followers"}
    BY DEF SomeSources
  <2>. QED  BY <2>1, <2>2
<1>2. Offering(u) \subseteq SomeSources
  BY TheSources DEF Offering
<1>3. IsFiniteSet(Offering(u)) /\ Cardinality(Offering(u)) \in Nat
  BY <1>1, <1>2, FS_Subset, FS_CardinalityType
<1>4. Offering(u) # {} => Cardinality(Offering(u)) # 0
  BY <1>3, FS_EmptySet
<1>. QED  BY <1>3, <1>4 DEF Bound

LEMMA AtMostOne == ASSUME NEW S, \A e, f \in S : e = f
    PROVE IsFiniteSet(S) /\ Cardinality(S) <= 1 /\ Cardinality(S) \in Nat
<1>1. CASE S = {}
  <2>1. IsFiniteSet({}) /\ Cardinality({}) = 0
    BY FS_EmptySet
  <2>. QED  BY <1>1, <2>1
<1>2. CASE S # {}
  <2>1. PICK x : S = {x}
    BY <1>2
  <2>2. IsFiniteSet({x}) /\ Cardinality({x}) = 1
    BY FS_Singleton
  <2>. QED  BY <2>1, <2>2
<1>. QED  BY <1>1, <1>2

LEMMA CombinedBounded ==
    ASSUME Advice!Given, \A s \in SomeSources : SourceOK(s), NEW A \in SUBSET Advice!Combined, NEW u
    PROVE  /\ IsFiniteSet({e \in A : e.user = u}) /\ Cardinality({e \in A : e.user = u}) <= Bound(u)
           /\ \A e \in A : e.user \in strangers
<1>. DEFINE S == {e \in A : e.user = u}
<1>1. /\ Once(Advice!Shares) /\ From(Advice!Shares)
      /\ \A s \in SomeSources : \A e \in Advice!Scored(s) :
           e.user \notin Advice!UsersOf(Advice!Shares) => Len(found[s]) > Advice!Quota(s)
  BY SharesOnce
<1>2. A \subseteq Advice!Shares \cup Advice!Extras
  BY FirstsIn DEF Advice!Combined
<1>3. \A e \in Advice!Extras : e.user \notin Advice!UsersOf(Advice!Shares) /\ \E s \in SomeSources : e \in Advice!Scored(s)
  <2>1. Advice!Extras \subseteq Advice!Unseen(UNION {Advice!Scored(s) : s \in DOMAIN Advice!Sources}, Advice!Shares)
    BY FirstsIn DEF Advice!Extras
  <2>. QED  BY <2>1, TheSources DEF Advice!Unseen
<1>4. \A e \in A : \E s \in SomeSources : e \in Advice!Scored(s)
  BY <1>1, <1>2, <1>3 DEF From
<1>5. \A e \in A : e.user \in strangers
  BY <1>4, ScoredOnce
<1>6. CASE u \in Advice!UsersOf(Advice!Shares)
  <2>1. \A e \in S : e \in Advice!Shares
    BY <1>2, <1>3, <1>6 DEF Advice!UsersOf
  <2>2. \A e, f \in S : e = f
    BY <1>1, <2>1 DEF Once
  <2>. QED  BY <1>5, <2>2, AtMostOne, BeyondFinite
<1>7. CASE u \notin Advice!UsersOf(Advice!Shares)
  <2>1. ASSUME NEW e \in S
        PROVE  e.source \in Offering(u) /\ e \in Advice!Scored(e.source) /\ e.source \in SomeSources
    <3>1. PICK s \in SomeSources : e \in Advice!Scored(s)
      BY <1>4
    <3>2. e.source = s /\ e.user = found[s][e.place] /\ e.place \in 1..Len(found[s])
      BY <3>1, ScoredOnce
    <3>3. Len(found[s]) > Advice!Quota(s)
      BY <1>1, <1>7, <3>1
    <3>4. DOMAIN found[s] = 1..Len(found[s])
      BY DEF SourceOK, EachOnce
    <3>5. u \in Advice!ToSet(found[s])
      BY <3>2, <3>4 DEF Advice!ToSet
    <3>. QED  BY <3>1, <3>2, <3>3, <3>5, TheSources DEF Offering
  <2>2. [e \in S |-> e.source] \in Injection(S, Offering(u))
    <3>1. \A e, f \in S : e.source = f.source => e = f
      BY <2>1, ScoredOnce
    <3>. QED  BY <2>1, <3>1 DEF Injection, IsInjective
  <2>. HIDE DEF S
  <2>3. IsFiniteSet(S) /\ Cardinality(S) <= Cardinality(Offering(u)) /\ Cardinality(S) \in Nat
    BY <2>2, BeyondFinite, FS_Injection, FS_CardinalityType
  <2>4. Offering(u) = {} => Cardinality(Offering(u)) = 0
    BY FS_EmptySet
  <2>5. Cardinality(S) <= Bound(u)
    BY <2>3, <2>4, BeyondFinite DEF Bound
  <2>. QED  BY <1>5, <2>3, <2>5 DEF S
<1>. QED  BY <1>6, <1>7

LEMMA TwiceIs == Advice!TwiceOnlyBeyondQuotas <=>
    (at # "sources" => \A u \in Users : Cardinality(Advice!Recommended(u)) <= Bound(u))
BY SameSize DEF Advice!TwiceOnlyBeyondQuotas, Bound, Offering

LEMMA LoadKeeps == ASSUME AdviceInv, Advice!Load PROVE AdviceInv'
<1>1. /\ at' = "fill" /\ DOMAIN found = DOMAIN Advice!Sources /\ found' = found
      /\ strangers' = strangers
      /\ advice' \subseteq Advice!Combined
  BY DEF Advice!Load
<1>2. Advice!Given /\ \A s \in SomeSources : SourceOK(s)
  BY <1>1, TheSources DEF AdviceInv, Searching
<1>3. Searching'
  BY <1>1 DEF AdviceInv, Searching, SourceOK
<1>4. Advice!StrangersOnly'
  BY <1>1, <1>2, CombinedBounded DEF Advice!StrangersOnly
<1>5. \A u : Bound(u)' = Bound(u)
  BY <1>1 DEF Bound, Offering, Advice!Quota
<1>6. Advice!TwiceOnlyBeyondQuotas'
  <2>1. \A u \in Users : Cardinality({e \in advice' : e.user = u}) <= Bound(u)
    BY <1>1, <1>2, CombinedBounded
  <2>2. Advice!TwiceOnlyBeyondQuotas' <=>
          (at' # "sources" => \A u \in Users : Cardinality(Advice!Recommended(u)') <= Bound(u)')
    BY SameSize DEF Advice!TwiceOnlyBeyondQuotas, Bound, Offering
  <2>. QED  BY <1>5, <2>1, <2>2 DEF Advice!Recommended
<1>. QED  BY <1>3, <1>4, <1>6 DEF AdviceInv

LEMMA FillKeeps == ASSUME AdviceInv, Advice!Fill PROVE AdviceInv'
<1>1. /\ at = "fill" /\ at' = "done" /\ found' = found /\ strangers' = strangers
      /\ follows' = follows /\ refused' = refused
  BY DEF Advice!Fill, Advice!graph
<1>2. PICK n, F : F \subseteq Advice!Unseen(Advice!Popular(n), advice) /\ advice' = advice \cup F
  BY FirstsIn DEF Advice!Fill
<1>3. \A e \in F : e \in Advice!Popular(n) /\ e.user \notin Advice!UsersOf(advice)
  BY <1>2 DEF Advice!Unseen
<1>4. \A e \in Advice!Popular(n) : \E i \in DOMAIN ByFollowers :
      e = Advice!Entry(ByFollowers[i], 0, "popular", i)
  BY FirstsIn DEF Advice!Popular
<1>5. \A e \in Advice!Popular(n) : /\ e.source = "popular" /\ e.place \in DOMAIN ByFollowers
                            /\ e.user = ByFollowers[e.place]
                            /\ e = Advice!Entry(e.user, 0, "popular", e.place)
  BY <1>4 DEF Advice!Entry
<1>6. \A e, f \in F : e.user = f.user => e = f
  <2>1. \A i, k \in DOMAIN ByFollowers : ByFollowers[i] = ByFollowers[k] => i = k
    BY DEF AdviceInv, Searching, Advice!Given
  <2>. QED  BY <1>3, <1>5, <2>1
<1>7. Searching'
  BY <1>1 DEF AdviceInv, Searching, SourceOK, Advice!Known
<1>8. Advice!StrangersOnly'
  BY <1>1, <1>2, <1>3, <1>5 DEF AdviceInv, Advice!StrangersOnly
<1>9. \A u : Bound(u)' = Bound(u)
  BY <1>1 DEF Bound, Offering, Advice!Quota
<1>10. ASSUME NEW u \in Users PROVE Cardinality({e \in advice' : e.user = u}) <= Bound(u)
  <2>1. CASE u \in Advice!UsersOf(advice)
    <3>1. {e \in advice' : e.user = u} = Advice!Recommended(u)
      BY <1>2, <1>3, <2>1 DEF Advice!Recommended
    <3>2. Cardinality(Advice!Recommended(u)) <= Bound(u)
      BY <1>1, TwiceIs DEF AdviceInv
    <3>. QED  BY <3>1, <3>2
  <2>2. CASE u \notin Advice!UsersOf(advice)
    <3>1. \A e, f \in {e \in advice' : e.user = u} : e = f
      BY <1>2, <1>6, <2>2 DEF Advice!UsersOf
    <3>2. Cardinality({e \in advice' : e.user = u}) <= 1
          /\ Cardinality({e \in advice' : e.user = u}) \in Nat
      BY <3>1, AtMostOne
    <3>. QED  BY <3>2, BeyondFinite
  <2>. QED  BY <2>1, <2>2
<1>11. Advice!TwiceOnlyBeyondQuotas'
  <2>1. Advice!TwiceOnlyBeyondQuotas' <=>
          (at' # "sources" => \A u \in Users : Cardinality(Advice!Recommended(u)') <= Bound(u)')
    BY SameSize DEF Advice!TwiceOnlyBeyondQuotas, Bound, Offering
  <2>. QED  BY <1>9, <1>10, <2>1 DEF Advice!Recommended
<1>. QED  BY <1>7, <1>8, <1>11 DEF AdviceInv

-----------------------------------------------------------------------------
LEMMA AdviceStep == ASSUME AdviceInv, [Advice!Next]_(Advice!vars) PROVE AdviceInv'
<1>1. ASSUME NEW u \in Users, Advice!Follow(u) \/ Advice!Block(u) \/ Advice!Unfollow(u)
      \/ Advice!Unblock(u) \/ Advice!Delete(u)
      PROVE  AdviceInv'
  BY <1>1, ChangesKeep DEF Advice!Follow, Advice!Block, Advice!Unfollow, Advice!Unblock,
     Advice!Delete
<1>2. ASSUME UNCHANGED Advice!vars PROVE AdviceInv'
  <2>1. /\ at' = at /\ found' = found /\ strangers' = strangers /\ advice' = advice
        /\ follows' = follows /\ refused' = refused
    BY <1>2 DEF Advice!vars, Advice!graph
  <2>2. Searching'
    BY <2>1 DEF AdviceInv, Searching, SourceOK, Advice!Known
  <2>3. Advice!TwiceOnlyBeyondQuotas'
    BY <2>1 DEF AdviceInv, Advice!TwiceOnlyBeyondQuotas, Advice!Recommended, Advice!Quota
  <2>4. Advice!StrangersOnly'
    BY <2>1 DEF AdviceInv, Advice!StrangersOnly
  <2>. QED  BY <2>2, <2>3, <2>4 DEF AdviceInv
<1>. QED  BY <1>1, <1>2, QueryKeeps, LoadKeeps, FillKeeps DEF Advice!Next

\* Nobody is recommended twice but those whom sources have found beyond their quotas,
\* and only strangers are, whatever is followed and blocked while the queries run
\* (combineByDistribution, getPersonalizedRecommendations).
THEOREM AdviceAlways == Advice!Spec => []AdviceSound
<1>1. AdviceInv => AdviceSound
  BY DEF AdviceInv, AdviceSound, Advice!AdviceSound
<1>2. Advice!Init => AdviceInv
  BY AdviceInit, ProperAdvice
<1>. QED  BY <1>1, <1>2, AdviceStep, PTL DEF Advice!Spec

-----------------------------------------------------------------------------
(***************************************************************************)
(* ExploreLists, as Explored: any tweets, percentages and scores, any size *)
(* of the list and of a batch, and any number of changes.                  *)
(*                                                                         *)
(* While nothing fails, the list holds nothing but what the job has read   *)
(* and then scored (StaleInv).  A tweet that a page has gone through has   *)
(* its score in the list, or MaxSize members have as much: a trim takes    *)
(* none of these before the others, and a page that lowers no score leaves *)
(* them as good (BestInv).                                                 *)
(*                                                                         *)
(* What the pages of a job pass over goes by the length of the window: it  *)
(* is what was counted, less the tweets that left, more those that came.   *)
(* One that leaves moves at most one tweet before the pages to come, and   *)
(* one that comes moves none; so as many are missed before the place the   *)
(* pages have reached as have left (MissInv), and as many lie beyond the   *)
(* last page as have come.                                                 *)
(***************************************************************************)
Busy == {"read", "find", "write", "trim", "count", "fetch", "put", "trimPage"}
JobTyped == Explored!At("idle") \/
    /\ job = [at |-> job.at, top |-> job.top, found |-> job.found, scores |-> job.scores,
              page |-> job.page, done |-> job.done, total |-> job.total, batch |-> job.batch]
    /\ job.at \in Busy
    /\ job.top \subseteq Rated /\ job.found \subseteq Rated /\ job.scores \in [Rated -> Nat]
    /\ job.page \in Nat /\ job.done \in Nat /\ job.total \in Nat /\ job.batch \in Seq(Rated)
ListsTyped ==
    /\ live \subseteq Rated /\ score \in [Rated -> Nat] /\ best \in [Rated -> Nat]
    /\ same \subseteq Rated /\ JobTyped

\* What the list holds, step by step.
StaleInv == clean =>
    /\ Explored!At("read") => Cardinality(Explored!Listed) <= MaxSize
    /\ job.at \in {"find", "write"} =>
        Explored!Listed \subseteq job.top /\ Cardinality(job.top) <= MaxSize
    /\ Explored!At("write") => job.found \subseteq job.top
    /\ job.at \notin {"read", "find", "write"} => Explored!Listed \subseteq scored

\* MaxSize members have scores from s up.
AtLeast(s) == \E T \in SUBSET Explored!Listed :
    Cardinality(T) = MaxSize /\ \A o \in T : best[o] >= s

\* A tweet has its score in the list, or is left out for none worse.
Ranked(t) ==
    LET s == Explored!Weighted(t, score[t]) IN
    s > 0 => IF t \in Explored!Listed THEN best[t] = s ELSE AtLeast(s)

BestInv == clean =>
    /\ job.at \in {"idle", "trim", "count", "fetch", "put"} =>
        Cardinality(Explored!Listed) <= MaxSize
    /\ job.at \in {"read", "find", "write", "trim", "count"} => handled = {}
    /\ job.at \in {"put", "trimPage"} => \A t \in same : job.scores[t] = score[t]
    /\ ~lowered => \A t \in handled \cap same : Ranked(t)

ListsInv == ListsTyped /\ StaleInv /\ BestInv

\* The window has no tweet twice, and has every steady one.
Window ==
    /\ recent \in Seq(Rated) /\ \A j, k \in 1..Len(recent) : recent[j] = recent[k] => j = k
    /\ \A u \in still : \E k \in 1..Len(recent) : recent[k] = u
    /\ moves \in Nat

\* The place the pages have reached, the tweets they have had, and the steady
\* ones that have got past them.
Paging == {"fetch", "put", "trimPage"}
Reach == IF Explored!At("fetch") THEN Explored!Skip ELSE Explored!Skip + BatchSize
Taken == IF Explored!At("fetch") THEN handled ELSE handled \cup Explored!ToSet(job.batch)
Missing(u) == u \in still \ Taken /\ \E k \in 1..Len(recent) : k <= Reach /\ recent[k] = u
Missed == {u \in Rated : Missing(u)}

\* Of the moves, d have taken a tweet out of the window and i have brought one in.
Balance == \E d, i \in Nat :
    d + i <= moves /\ Len(recent) = job.total - d + i /\ Cardinality(Missed) <= d

MissInv == clean =>
    /\ Explored!At("fetch") => job.done <= Reach
    /\ job.at \in {"put", "trimPage"} => job.done + Len(job.batch) <= Reach
    /\ Explored!At("trimPage") => Explored!ToSet(job.batch) \subseteq handled
    /\ job.at \in Paging => Balance
    /\ Explored!At("idle") => Cardinality(still \ handled) <= moves

\* The module brings its own FiniteSets.
LEMMA SameSets ==
    \A S : Explored!Cardinality(S) = Cardinality(S) /\ (Explored!IsFiniteSet(S) <=> IsFiniteSet(S))
BY DEF Explored!Cardinality, Cardinality, Explored!IsFiniteSet, IsFiniteSet

LEMMA WeightedNat ==
    ASSUME NEW t \in Rated, NEW s \in Nat
    PROVE  Explored!Weighted(t, s) \in Nat
<1>1. PICK p : p = Percent[t]
  OBVIOUS
<1>2. p \in Nat
  BY <1>1, ProperLists DEF Explored!PercentOfTweets
<1>3. PICK q : q = s * p
  OBVIOUS
<1>4. q \in Nat
  BY <1>2, <1>3
<1>5. q \div 100 \in Nat
  BY <1>4
<1>. QED  BY <1>1, <1>3, <1>5 DEF Explored!Weighted

LEMMA ListedFinite == IsFiniteSet(Explored!Listed) /\ Cardinality(Explored!Listed) \in Nat
<1>1. Explored!Listed \in SUBSET Rated
  BY DEF Explored!Listed
<1>. QED  BY <1>1, ProperLists, FS_Subset, FS_CardinalityType, SameSets DEF Explored!FinitelyMany

LEMMA TopsAre ==
    ASSUME NEW T \in Explored!Tops(best, MaxSize)
    PROVE  /\ T \subseteq Explored!Listed /\ IsFiniteSet(T) /\ Cardinality(T) <= MaxSize
           /\ T # Explored!Listed => Cardinality(T) = MaxSize
           /\ Cardinality(Explored!Listed) <= MaxSize => T = Explored!Listed
           /\ \A t \in T : \A o \in Explored!Listed \ T : best[t] >= best[o]
<1>1. /\ T \in SUBSET Explored!Listed
      /\ Cardinality(T) = MaxSize 
         \/ (T = Explored!Listed /\ Cardinality(Explored!Listed) <= MaxSize)
      /\ \A t \in T : \A o \in Explored!Listed \ T : best[t] >= best[o]
  BY SameSets DEF Explored!Tops, Explored!Listed
<1>2. IsFiniteSet(T) /\ Cardinality(T) <= Cardinality(Explored!Listed) /\ Cardinality(T) \in Nat
      /\ (Cardinality(Explored!Listed) = Cardinality(T) => Explored!Listed = T)
  BY <1>1, ListedFinite, FS_Subset, FS_CardinalityType
<1>3. MaxSize \in Nat
  BY ProperLists DEF Explored!Sizes
<1>. QED  BY <1>1, <1>2, <1>3, ListedFinite

LEMMA ListsInit == Explored!Init => ListsInv
<1>. SUFFICES ASSUME Explored!Init PROVE ListsInv
  OBVIOUS
<1>1. live = Rated /\ score \in [Rated -> Nat] /\ best = [t \in Rated |-> 0] /\ job.at = "idle"
      /\ same = {} /\ handled = {}
  BY ProperLists DEF Explored!Init, Explored!Scores, Explored!Idle, Explored!Sizes
<1>2. Explored!Listed = {}
  BY <1>1 DEF Explored!Listed
<1>3. Cardinality(Explored!Listed) <= MaxSize
  BY <1>2, FS_EmptySet, ProperLists DEF Explored!Sizes
<1>4. ListsTyped
  BY <1>1 DEF ListsTyped, JobTyped, Explored!At
<1>. QED  BY <1>1, <1>2, <1>3, <1>4 DEF ListsInv, StaleInv, BestInv, Explored!At

\* What happens to the tweets.
LEMMA TweetsMove ==
    ASSUME ListsInv, UNCHANGED <<best, job, clean, handled, lowered, scored>>,
           live' \subseteq Rated, score' \in [Rated -> Nat], same' \subseteq same,
           \A t \in same' : score'[t] = score[t]
    PROVE  ListsInv'
<1>1. Explored!Listed' = Explored!Listed
  BY DEF Explored!Listed
<1>2. \A s : AtLeast(s)' = AtLeast(s)
  BY <1>1 DEF AtLeast
<1>3. ListsTyped'
  BY DEF ListsInv, ListsTyped, JobTyped, Explored!At
<1>4. StaleInv'
  BY <1>1 DEF ListsInv, StaleInv, Explored!At
<1>5. \A t \in same' : Ranked(t)' = Ranked(t)
  BY <1>1, <1>2 DEF Ranked, Explored!Weighted
<1>6. BestInv'
  BY <1>1, <1>5 DEF ListsInv, BestInv
<1>. QED  BY <1>3, <1>4, <1>6 DEF ListsInv

LEMMA NewJob ==
    ASSUME NEW x \in Busy
    PROVE  Explored!Job(x) = [at |-> x, top |-> {}, found |-> {}, scores |-> [t \in Rated |-> 0],
                     page |-> 0, done |-> 0, total |-> 0, batch |-> <<>>]
           /\ Explored!Job(x).at = x
BY DEF Explored!Job

LEMMA NewJobTyped == ASSUME NEW x \in Busy, job' = Explored!Job(x) PROVE JobTyped' /\ job'.at = x
<1>1. job' = [at |-> x, top |-> {}, found |-> {}, scores |-> [t \in Rated |-> 0],
                     page |-> 0, done |-> 0, total |-> 0, batch |-> <<>>]
  BY NewJob
<1>2. <<>> \in Seq(Rated)
  OBVIOUS
<1>. QED  BY <1>1, <1>2 DEF JobTyped

\* After a failure nothing is promised.
LEMMA Unclean == ASSUME ListsTyped', ~clean' PROVE ListsInv'
BY DEF ListsInv, StaleInv, BestInv

LEMMA StartKeeps == ASSUME ListsInv, Explored!Start PROVE ListsInv'
<1>1. /\ job' = Explored!Job("read") /\ scored' = {} /\ handled' = {} /\ same' = live
      /\ live' = live /\ score' = score /\ best' = best
      /\ clean' = (Cardinality(Explored!Listed) <= MaxSize)
  BY SameSets DEF Explored!Start, Explored!work, Explored!tweets
<1>2. JobTyped' /\ job'.at = "read"
  BY <1>1, NewJobTyped DEF Busy
<1>3. Explored!Listed' = Explored!Listed
  BY <1>1 DEF Explored!Listed
<1>4. ListsTyped'
  BY <1>1, <1>2 DEF ListsInv, ListsTyped
<1>. QED  BY <1>1, <1>2, <1>3, <1>4 DEF ListsInv, StaleInv, BestInv, Explored!At

LEMMA ReadTopKeeps == ASSUME ListsInv, Explored!ReadTop PROVE ListsInv'
<1>1. /\ job.at = "read" /\ UNCHANGED <<best, live, score, scored, handled, same, clean, lowered>>
  BY DEF Explored!ReadTop, Explored!At, Explored!work, Explored!tweets, Explored!history
<1>2. PICK T \in Explored!Tops(best, MaxSize) :
        job' = IF T = {} THEN Explored!Job("count") ELSE [job EXCEPT !.at = "find", !.top = T]
  BY DEF Explored!ReadTop
<1>3. /\ T \subseteq Explored!Listed /\ Cardinality(T) <= MaxSize
      /\ Cardinality(Explored!Listed) <= MaxSize => T = Explored!Listed
  BY TopsAre
<1>4. Explored!Listed' = Explored!Listed /\ Explored!Listed \subseteq Rated
  BY <1>1 DEF Explored!Listed
<1>5. CASE T = {}
  <2>1. JobTyped' /\ job'.at = "count"
    BY <1>2, <1>5, NewJobTyped DEF Busy
  <2>2. ListsTyped'
    BY <1>1, <2>1 DEF ListsInv, ListsTyped
  <2>3. clean => Explored!Listed = {} /\ handled = {}
    BY <1>1, <1>3, <1>5 DEF ListsInv, StaleInv, BestInv, Explored!At
  <2>4. clean' => Cardinality(Explored!Listed') <= MaxSize
    BY <1>1, <1>4 DEF ListsInv, StaleInv, Explored!At
  <2>. QED  BY <1>1, <1>4, <2>1, <2>2, <2>3, <2>4 DEF ListsInv, StaleInv, BestInv, Explored!At
<1>6. CASE T # {}
  <2>1. job' = [job EXCEPT !.at = "find", !.top = T]
    BY <1>2, <1>6
  <2>2. /\ job = [at |-> job.at, top |-> job.top, found |-> job.found, scores |-> job.scores,
                  page |-> job.page, done |-> job.done, total |-> job.total, batch |-> job.batch]
    BY <1>1 DEF ListsInv, ListsTyped, JobTyped, Explored!At
  <2>3. JobTyped' /\ job'.at = "find" /\ job'.top = T
    <3>. DEFINE j == job'
    <3>1. j = [at |-> "find", top |-> T, found |-> job.found, scores |-> job.scores,
               page |-> job.page, done |-> job.done, total |-> job.total, batch |-> job.batch]
      BY <2>1, <2>2
    <3>2. /\ job.found \subseteq Rated /\ job.scores \in [Rated -> Nat] /\ job.page \in Nat
          /\ job.done \in Nat /\ job.total \in Nat /\ job.batch \in Seq(Rated)
      BY <1>1 DEF ListsInv, ListsTyped, JobTyped, Explored!At
    <3>. QED  BY <3>1, <3>2, <1>3, <1>4 DEF JobTyped, Busy
  <2>4. ListsTyped'
    BY <1>1, <2>3 DEF ListsInv, ListsTyped
  <2>5. clean => Explored!Listed \subseteq T /\ handled = {}
    BY <1>1, <1>3 DEF ListsInv, StaleInv, BestInv, Explored!At
  <2>. QED  BY <1>1, <1>3, <1>4, <2>3, <2>4, <2>5 DEF ListsInv, StaleInv, BestInv, Explored!At
<1>. QED  BY <1>5, <1>6

LEMMA ListsUnlessDone ==
    ASSUME ListsInv, job.at # "idle"
    PROVE  /\ job = [at |-> job.at, top |-> job.top, found |-> job.found, scores |-> job.scores,
                     page |-> job.page, done |-> job.done, total |-> job.total, batch |-> job.batch]
           /\ job.at \in Busy
           /\ job.top \subseteq Rated /\ job.found \subseteq Rated
           /\ job.scores \in [Rated -> Nat]
           /\ job.page \in Nat /\ job.done \in Nat /\ job.total \in Nat /\ job.batch \in Seq(Rated)
BY DEF ListsInv, ListsTyped, JobTyped, Explored!At

LEMMA FetchTopKeeps == ASSUME ListsInv, Explored!FetchTop PROVE ListsInv'
<1>1. /\ job.at = "find" /\ UNCHANGED <<best, live, score, scored, handled, same, clean, lowered>>
  BY DEF Explored!FetchTop, Explored!At, Explored!work, Explored!tweets, Explored!history
<1>2. PICK F \in {job.top \cap live, {}} :
        job' = [job EXCEPT !.at = "write", !.found = F, !.scores = score]
  BY DEF Explored!FetchTop
<1>3. Explored!Listed' = Explored!Listed
  BY <1>1 DEF Explored!Listed
<1>4. /\ job' = [at |-> "write", top |-> job.top, found |-> F, scores |-> score, page |-> job.page,
                 done |-> job.done, total |-> job.total, batch |-> job.batch]
  BY <1>1, <1>2, ListsUnlessDone
<1>5. JobTyped' /\ job'.at = "write" /\ job'.top = job.top /\ job'.found = F
  <2>1. score \in [Rated -> Nat]
    BY DEF ListsInv, ListsTyped
  <2>. QED  BY <1>1, <1>2, <1>4, <2>1, ListsUnlessDone DEF JobTyped, Busy
<1>6. ListsTyped'
  BY <1>1, <1>5 DEF ListsInv, ListsTyped
<1>. QED  BY <1>1, <1>2, <1>3, <1>5, <1>6 DEF ListsInv, StaleInv, BestInv, Explored!At

LEMMA WriteTopKeeps == ASSUME ListsInv, Explored!WriteTop PROVE ListsInv'
<1>1. /\ job.at = "write" /\ UNCHANGED <<live, score, handled, same, clean, lowered>>
      /\ job' = Explored!Job("trim") /\ best' = [t \in Rated |-> Explored!Rescored(t)]
           /\ scored' = job.found
  BY DEF Explored!WriteTop, Explored!At, Explored!work, Explored!tweets
<1>2. JobTyped' /\ job'.at = "trim"
  BY <1>1, NewJobTyped DEF Busy
<1>3. ListsTyped'
  BY <1>1, <1>2, ListsUnlessDone DEF ListsInv, ListsTyped, Explored!Rescored
<1>4. clean => /\ Explored!Listed \subseteq job.top /\ Cardinality(job.top) <= MaxSize
               /\ job.found \subseteq job.top /\ handled = {}
  BY <1>1 DEF ListsInv, StaleInv, BestInv, Explored!At
<1>5. clean => Explored!Listed' \subseteq job.found
  BY <1>1, <1>4 DEF Explored!Listed, Explored!Rescored, ListsInv, ListsTyped
<1>6. clean => Cardinality(Explored!Listed') <= MaxSize
  <2>. SUFFICES ASSUME clean PROVE Cardinality(Explored!Listed') <= MaxSize
    OBVIOUS
  <2>1. job.top \in SUBSET Rated /\ Explored!Listed' \in SUBSET job.top
    BY <1>1, <1>4, <1>5, ListsUnlessDone
  <2>2. IsFiniteSet(job.top)
    BY <2>1, ProperLists, FS_Subset, SameSets DEF Explored!FinitelyMany
  <2>3. /\ Cardinality(Explored!Listed') <= Cardinality(job.top) /\ IsFiniteSet(Explored!Listed')
        /\ Cardinality(Explored!Listed') \in Nat /\ Cardinality(job.top) \in Nat /\ MaxSize \in Nat
    BY <2>1, <2>2, FS_Subset, FS_CardinalityType, ProperLists DEF Explored!Sizes
  <2>. QED  BY <1>4, <2>3
<1>. QED  BY <1>1, <1>2, <1>3, <1>4, <1>5, <1>6 DEF ListsInv, StaleInv, BestInv, Explored!At

\* A trim leaves the best, and what it takes is not better than any of MaxSize that stay.
LEMMA Trimmed ==
    ASSUME ListsTyped, Explored!TrimCategoryZSets
    PROVE  /\ best' \in [Rated -> Nat] /\ Explored!Listed' \subseteq Explored!Listed
                /\ Cardinality(Explored!Listed') <= MaxSize
           /\ \A t \in Explored!Listed' : best'[t] = best[t]
           /\ \A s \in Nat : AtLeast(s) => AtLeast(s)'
           /\ \A s \in Nat : \A t \in Explored!Listed \ Explored!Listed' : best[t] >= s
                => AtLeast(s)'
<1>1. PICK T \in Explored!Tops(best, MaxSize) : best' = Explored!Kept(T)
  BY DEF Explored!TrimCategoryZSets
<1>2. /\ T \subseteq Explored!Listed /\ IsFiniteSet(T) /\ Cardinality(T) <= MaxSize
      /\ T # Explored!Listed => Cardinality(T) = MaxSize
      /\ \A t \in T : \A o \in Explored!Listed \ T : best[t] >= best[o]
  BY TopsAre
<1>3. best \in [Rated -> Nat] /\ Explored!Listed \subseteq Rated
      /\ \A t \in Rated : t \in Explored!Listed <=> best[t] # 0
  BY DEF ListsTyped, Explored!Listed
<1>4. best' \in [Rated -> Nat] /\ \A t \in Rated : best'[t] = IF t \in T THEN best[t] ELSE 0
  BY <1>1, <1>3 DEF Explored!Kept
<1>5. Explored!Listed' = T
  <2>1. Explored!Listed' = {t \in Rated : best'[t] # 0}
    BY DEF Explored!Listed
  <2>. QED  BY <1>2, <1>3, <1>4, <2>1
<1>6. \A t \in Explored!Listed' : best'[t] = best[t]
  BY <1>2, <1>3, <1>4, <1>5
<1>7. ASSUME NEW s \in Nat, T # Explored!Listed, \A o \in T : best[o] >= s PROVE AtLeast(s)'
  BY <1>2, <1>5, <1>6, <1>7 DEF AtLeast
<1>8. ASSUME NEW s \in Nat, AtLeast(s) PROVE AtLeast(s)'
  <2>1. PICK W \in SUBSET Explored!Listed : Cardinality(W) = MaxSize /\ \A o \in W : best[o] >= s
    BY <1>8 DEF AtLeast
  <2>2. CASE T = Explored!Listed
    BY <2>1, <2>2, <1>5, <1>6 DEF AtLeast
  <2>3. CASE T # Explored!Listed
    <3>1. ASSUME NEW o \in T, ~(best[o] >= s) PROVE FALSE
      <4>1. o \notin W /\ best[o] \in Nat
        BY <2>1, <3>1, <1>2, <1>3
      <4>2. PICK x \in W : x \notin T
        <5>1. SUFFICES ASSUME W \subseteq T PROVE FALSE
          OBVIOUS
        <5>2. W = T
          BY <5>1, <2>1, <2>3, <1>2, FS_Subset
        <5>. QED  BY <5>2, <4>1
      <4>3. best[x] \in Nat /\ best[x] >= s /\ best[o] >= best[x]
        BY <2>1, <4>2, <1>2, <1>3
      <4>. QED  BY <3>1, <4>1, <4>3
    <3>. QED  BY <3>1, <2>3, <1>7
  <2>. QED  BY <2>2, <2>3
<1>9. ASSUME NEW s \in Nat, NEW t \in Explored!Listed \ Explored!Listed', best[t] >= s
      PROVE  AtLeast(s)'
  <2>1. \A o \in T : best[o] \in Nat /\ best[t] \in Nat /\ best[o] >= best[t]
    BY <1>2, <1>3, <1>5, <1>9
  <2>2. \A o \in T : best[o] >= s
    BY <2>1, <1>9
  <2>. QED  BY <2>2, <1>5, <1>7, <1>9
<1>. QED  BY <1>2, <1>4, <1>5, <1>6, <1>8, <1>9

LEMMA TrimTopKeeps == ASSUME ListsInv, Explored!TrimTop PROVE ListsInv'
<1>1. /\ job.at = "trim" /\ UNCHANGED <<live, score, scored, handled, same, clean, lowered>>
      /\ job' = Explored!Job("count") /\ Explored!TrimCategoryZSets
  BY DEF Explored!TrimTop, Explored!At, Explored!work, Explored!tweets, Explored!history
<1>2. JobTyped' /\ job'.at = "count"
  BY <1>1, NewJobTyped DEF Busy
<1>3. best' \in [Rated -> Nat] /\ Explored!Listed' \subseteq Explored!Listed
      /\ Cardinality(Explored!Listed') <= MaxSize
  BY <1>1, Trimmed DEF ListsInv
<1>4. ListsTyped'
  BY <1>1, <1>2, <1>3 DEF ListsInv, ListsTyped
<1>. QED  BY <1>1, <1>2, <1>3, <1>4 DEF ListsInv, StaleInv, BestInv, Explored!At

LEMMA TurnedTo ==
    ASSUME ListsInv, job.at # "idle", NEW n \in Nat, job' = Explored!Turned(n)
    PROVE  /\ JobTyped' /\ job'.at \in {"idle", "fetch"}
           /\ job'.at = "idle" <=> job.done + n >= job.total
           /\ job'.at = "fetch" => /\ job'.page = job.page + 1 /\ job'.done = job.done + n
                                   /\ job'.total = job.total
<1>1. /\ job.page \in Nat /\ job.done \in Nat /\ job.total \in Nat
  BY ListsUnlessDone
<1>2. CASE job.done + n >= job.total
  BY <1>2 DEF Explored!Turned, Explored!Idle, JobTyped, Explored!At
<1>3. CASE ~(job.done + n >= job.total)
  <2>1. job' = [at |-> "fetch", top |-> {}, found |-> {}, scores |-> [t \in Rated |-> 0],
                page |-> job.page + 1, done |-> job.done + n, total |-> job.total, batch |-> <<>>]
    BY <1>3 DEF Explored!Turned, Explored!Job
  <2>2. <<>> \in Seq(Rated)
    OBVIOUS
  <2>. QED  BY <1>1, <1>3, <2>1, <2>2 DEF JobTyped, Busy
<1>. QED  BY <1>2, <1>3

-----------------------------------------------------------------------------
\* The window: no tweet twice, and what is steady is there.

LEMMA WithoutIs ==
    ASSUME Window, NEW t \in Rated
    PROVE  \/ Explored!Without(t) = recent /\ \A k \in 1..Len(recent) : recent[k] # t
           \/ \E k \in 1..Len(recent) :
                /\ recent[k] = t /\ Explored!Without(t) \in Seq(Rated)
                /\ Len(Explored!Without(t)) = Len(recent) - 1
                /\ \A i \in 1..Len(recent) - 1 :
                       /\ i < k => Explored!Without(t)[i] = recent[i]
                       /\ i >= k => Explored!Without(t)[i] = recent[i + 1]
<1>. PICK places : places = {k \in 1..Len(recent) : recent[k] = t}
  OBVIOUS
<1>1. recent \in Seq(Rated) /\ DOMAIN recent = 1..Len(recent)
  BY DEF Window
<1>2. Explored!Without(t) = IF places = {} THEN recent
                            ELSE Explored!RemoveAt(recent, CHOOSE k \in places : TRUE)
  BY <1>1 DEF Explored!Without
<1>3. CASE places = {}
  BY <1>2, <1>3
<1>4. CASE places # {}
  <2>1. PICK k : k = CHOOSE p \in places : TRUE
    OBVIOUS
  <2>2. k \in 1..Len(recent) /\ recent[k] = t
    BY <1>4, <2>1
  <2>3. Explored!Without(t) = SubSeq(recent, 1, k - 1) \o SubSeq(recent, k + 1, Len(recent))
    BY <1>2, <1>4, <2>1 DEF Explored!RemoveAt
  <2>4. PICK a, b : a = SubSeq(recent, 1, k - 1) /\ b = SubSeq(recent, k + 1, Len(recent))
    OBVIOUS
  <2>5. /\ a \in Seq(Rated) /\ Len(a) = k - 1 /\ \A i \in 1..k - 1 : a[i] = recent[i]
        /\ b \in Seq(Rated) /\ Len(b) = Len(recent) - k
        /\ \A i \in 1..Len(recent) - k : b[i] = recent[k + i]
    <3>1. /\ k - 1 \in Int /\ k + 1 \in Int /\ Len(recent) \in Int
          /\ \A i \in 1..k - 1 : recent[i] \in Rated
          /\ \A i \in k + 1..Len(recent) : recent[i] \in Rated
      BY <1>1, <2>2
    <3>2. /\ a \in Seq(Rated) /\ Len(a) = IF 1 <= k - 1 THEN k - 1 - 1 + 1 ELSE 0
          /\ \A i \in 1..k - 1 - 1 + 1 : a[i] = recent[1 + i - 1]
      BY <2>4, <3>1, SubSeqProperties
    <3>3. /\ b \in Seq(Rated)
          /\ Len(b) = IF k + 1 <= Len(recent) THEN Len(recent) - (k + 1) + 1 ELSE 0
          /\ \A i \in 1..Len(recent) - (k + 1) + 1 : b[i] = recent[k + 1 + i - 1]
      BY <2>4, <3>1, SubSeqProperties
    <3>0. Len(recent) \in Nat
      BY <1>1
    <3>. PICK n \in Nat : n = Len(recent)
      BY <3>0
    <3>4. Len(a) = k - 1 /\ Len(b) = n - k
      BY <2>2, <3>2, <3>3
    <3>5. ASSUME NEW i \in 1..k - 1 PROVE a[i] = recent[i]
      <4>1. i \in 1..k - 1 - 1 + 1 /\ 1 + i - 1 = i
        BY <2>2
      <4>. QED  BY <3>2, <4>1
    <3>6. ASSUME NEW i \in 1..n - k PROVE b[i] = recent[k + i]
      <4>1. i \in 1..Len(recent) - (k + 1) + 1 /\ k + 1 + i - 1 = k + i
        BY <2>2
      <4>. QED  BY <3>3, <4>1
    <3>. QED  BY <3>2, <3>3, <3>4, <3>5, <3>6
  <2>6. Explored!Without(t) = a \o b
    BY <2>3, <2>4
  <2>7. Explored!Without(t) \in Seq(Rated) /\ Len(Explored!Without(t)) = Len(recent) - 1
    <3>1. a \o b \in Seq(Rated) /\ Len(a \o b) = Len(a) + Len(b)
      BY <2>5, ConcatProperties
    <3>2. Len(recent) \in Nat /\ k \in Nat
      BY <1>1, <2>2
    <3>. QED  BY <2>5, <2>6, <3>1, <3>2
  <2>8. ASSUME NEW i \in 1..Len(recent) - 1
        PROVE  /\ i < k => Explored!Without(t)[i] = recent[i]
               /\ i >= k => Explored!Without(t)[i] = recent[i + 1]
    <3>1. CASE i < k
      BY <1>1, <2>2, <2>5, <2>6, <3>1, ConcatProperties
    <3>2. CASE ~(i < k)
      <4>1. (a \o b)[i] = b[i - (k - 1)]
        BY <1>1, <2>2, <2>5, <3>2, ConcatProperties
      <4>2. i - (k - 1) \in 1..Len(recent) - k /\ k + (i - (k - 1)) = i + 1
        BY <1>1, <2>2, <3>2
      <4>. QED  BY <2>5, <2>6, <3>2, <4>1, <4>2
    <3>. QED  BY <3>1, <3>2
  <2>. QED  BY <2>2, <2>7, <2>8
<1>. QED  BY <1>3, <1>4

LEMMA Prepended ==
    ASSUME NEW t \in Rated, NEW w \in Seq(Rated), NEW rr, rr = <<t>> \o w
    PROVE  /\ rr \in Seq(Rated) /\ Len(w) \in Nat /\ Len(rr) = Len(w) + 1 /\ rr[1] = t
           /\ \A i \in 1..Len(w) : rr[i + 1] = w[i]
           /\ \A m \in 1..Len(rr) : m = 1 \/ (m - 1 \in 1..Len(w) /\ rr[m] = w[m - 1])
<1>3. w \in Seq(Rated) /\ Len(w) \in Nat
  OBVIOUS
<1>4. rr \in Seq(Rated) /\ Len(rr) = Len(w) + 1 /\ rr[1] = t
      /\ \A i \in 1..Len(w) : rr[i + 1] = w[i]
  <2>1. <<t>> \in Seq(Rated) /\ Len(<<t>>) = 1 /\ <<t>>[1] = t
    OBVIOUS
  <2>2. rr = <<t>> \o w
    OBVIOUS
  <2>0. PICK r : r = rr
    OBVIOUS
  <2>3. /\ r \in Seq(Rated) /\ Len(r) = 1 + Len(w)
        /\ \A i \in 1..1 + Len(w) : r[i] = IF i <= 1 THEN t ELSE w[i - 1]
    <3>1. PICK a : a = <<t>>
      OBVIOUS
    <3>2. a \in Seq(Rated) /\ Len(a) = 1 /\ a[1] = t /\ r = a \o w
      BY <2>0, <2>1, <2>2, <3>1
    <3>3. \A i \in 1..Len(a) + Len(w) : (a \o w)[i] = IF i <= Len(a) THEN a[i] ELSE w[i - Len(a)]
      BY <1>3, <3>2, ConcatProperties
    <3>4. a \o w \in Seq(Rated) /\ Len(a \o w) = Len(a) + Len(w)
      BY <1>3, <3>2, ConcatProperties
    <3>5. ASSUME NEW i \in 1..1 + Len(w) PROVE r[i] = IF i <= 1 THEN t ELSE w[i - 1]
      <4>1. i <= 1 => i = 1
        BY <1>3
      <4>. QED  BY <3>2, <3>3, <4>1
    <3>. QED  BY <3>2, <3>4, <3>5
  <2>4. r[1] = t
    BY <1>3, <2>3
  <2>5. ASSUME NEW i \in 1..Len(w) PROVE r[i + 1] = w[i]
    <3>1. i + 1 \in 1..1 + Len(w) /\ ~(i + 1 <= 1) /\ i + 1 - 1 = i
      BY <1>3
    <3>. QED  BY <2>3, <3>1
  <2>. QED  BY <1>3, <2>0, <2>3, <2>4, <2>5
<1>5. ASSUME NEW m \in 1..Len(rr), m # 1 PROVE m - 1 \in 1..Len(w) /\ rr[m] = w[m - 1]
  <2>1. m - 1 \in 1..Len(w) /\ m - 1 + 1 = m
    BY <1>3, <1>4, <1>5
  <2>. QED  BY <1>4, <2>1
<1>. QED  BY <1>3, <1>4, <1>5

LEMMA WithoutKeeps ==
    ASSUME Window, NEW t \in Rated
    PROVE  /\ Explored!Without(t) \in Seq(Rated) /\ Len(Explored!Without(t)) \in Nat
           /\ \A i \in 1..Len(Explored!Without(t)) : Explored!Without(t)[i] # t
           /\ \A i, j \in 1..Len(Explored!Without(t)) :
                Explored!Without(t)[i] = Explored!Without(t)[j] => i = j
           /\ \A k \in 1..Len(recent) :
                  recent[k] # t => \E i \in 1..Len(Explored!Without(t)) :
                        Explored!Without(t)[i] = recent[k]
<1>. PICK w : w = Explored!Without(t)
  OBVIOUS
<1>1. recent \in Seq(Rated) /\ Len(recent) \in Nat
  BY DEF Window
<1>5. /\ \A i \in 1..Len(w) : w[i] # t
      /\ \A i, j \in 1..Len(w) : w[i] = w[j] => i = j
      /\ \A k \in 1..Len(recent) : recent[k] # t => \E i \in 1..Len(w) : w[i] = recent[k]
  <2>1. CASE w = recent /\ \A k \in 1..Len(recent) : recent[k] # t
    BY <2>1 DEF Window
  <2>2. ASSUME NEW k \in 1..Len(recent), recent[k] = t, Len(w) = Len(recent) - 1,
               \A i \in 1..Len(recent) - 1 :
                   (i < k => w[i] = recent[i]) /\ (i >= k => w[i] = recent[i + 1])
        PROVE  <1>5!:
    <3>1. ASSUME NEW i \in 1..Len(w), w[i] = t PROVE FALSE
      <4>1. PICK p \in 1..Len(recent) : p # k /\ w[i] = recent[p]
        <5>1. CASE i < k
          BY <1>1, <2>2, <5>1
        <5>2. CASE ~(i < k)
          <6>1. i + 1 \in 1..Len(recent) /\ i + 1 # k /\ w[i] = recent[i + 1]
            BY <1>1, <2>2, <5>2
          <6>. QED  BY <6>1
        <5>. QED  BY <5>1, <5>2
      <4>. QED  BY <2>2, <3>1, <4>1 DEF Window
    <3>2. ASSUME NEW i \in 1..Len(w), NEW j \in 1..Len(w), w[i] = w[j] PROVE i = j
      <4>1. ASSUME NEW x \in 1..Len(w)
            PROVE  /\ x < k => w[x] = recent[x] /\ x \in 1..Len(recent)
                   /\ x >= k => w[x] = recent[x + 1] /\ x + 1 \in 1..Len(recent)
        BY <1>1, <2>2
      <4>2. \A x, y \in 1..Len(recent) : recent[x] = recent[y] => x = y
        BY DEF Window
      <4>3. CASE i < k /\ j < k
        BY <3>2, <4>1, <4>2, <4>3
      <4>4. CASE i < k /\ j >= k
        BY <3>2, <4>1, <4>2, <4>4
      <4>5. CASE i >= k /\ j < k
        BY <3>2, <4>1, <4>2, <4>5
      <4>6. CASE i >= k /\ j >= k
        <5>1. i + 1 = j + 1
          BY <3>2, <4>1, <4>2, <4>6
        <5>. QED  BY <5>1
      <4>. QED  BY <4>3, <4>4, <4>5, <4>6
    <3>3. ASSUME NEW m \in 1..Len(recent), recent[m] # t
          PROVE  \E i \in 1..Len(w) : w[i] = recent[m]
      <4>1. CASE m < k
        BY <1>1, <2>2, <4>1
      <4>2. CASE m > k
        <5>1. m - 1 \in 1..Len(w) /\ m - 1 >= k /\ m - 1 + 1 = m
          BY <1>1, <2>2, <4>2
        <5>. QED  BY <2>2, <5>1
      <4>. QED  BY <1>1, <2>2, <3>3, <4>1, <4>2
    <3>. QED  BY <3>1, <3>2, <3>3
  <2>. QED  BY <2>1, <2>2, WithoutIs
<1>6. w \in Seq(Rated) /\ Len(w) \in Nat
  BY <1>1, WithoutIs
<1>. QED  BY <1>5, <1>6

LEMMA WindowAfterTouch ==
    ASSUME Window, NEW t \in Rated, recent' = <<t>> \o Explored!Without(t), still' = still \ {t},
           moves' = IF recent' # recent THEN moves + 1 ELSE moves
    PROVE  Window'
<1>1. moves' \in Nat
  BY DEF Window
<1>2. PICK w : w = Explored!Without(t)
  OBVIOUS
<1>3. /\ w \in Seq(Rated) /\ Len(w) \in Nat
      /\ \A i \in 1..Len(w) : w[i] # t
      /\ \A i, j \in 1..Len(w) : w[i] = w[j] => i = j
      /\ \A k \in 1..Len(recent) : recent[k] # t => \E i \in 1..Len(w) : w[i] = recent[k]
  <2>1. /\ Explored!Without(t) \in Seq(Rated) /\ Len(Explored!Without(t)) \in Nat
        /\ \A i \in 1..Len(Explored!Without(t)) : Explored!Without(t)[i] # t
        /\ \A i, j \in 1..Len(Explored!Without(t)) :
             Explored!Without(t)[i] = Explored!Without(t)[j] => i = j
        /\ \A k \in 1..Len(recent) :
               recent[k] # t => \E i \in 1..Len(Explored!Without(t)) :
                     Explored!Without(t)[i] = recent[k]
    BY WithoutKeeps
  <2>. QED  BY <2>1, <1>2
<1>4. /\ recent' \in Seq(Rated) /\ Len(recent') = Len(w) + 1 /\ recent'[1] = t
      /\ \A i \in 1..Len(w) : recent'[i + 1] = w[i]
      /\ \A m \in 1..Len(recent') : m = 1 \/ (m - 1 \in 1..Len(w) /\ recent'[m] = w[m - 1])
  BY <1>2, <1>3, Prepended
<1>6. ASSUME NEW i \in 1..Len(recent'), NEW j \in 1..Len(recent'), recent'[i] = recent'[j]
      PROVE  i = j
  BY <1>3, <1>4, <1>6
<1>7. ASSUME NEW u \in still' PROVE \E m \in 1..Len(recent') : recent'[m] = u
  <2>1. PICK k \in 1..Len(recent) : recent[k] = u /\ u # t
    BY <1>7 DEF Window
  <2>2. PICK i \in 1..Len(w) : w[i] = u
    BY <1>3, <2>1
  <2>. QED  BY <1>3, <1>4, <2>2
<1>. QED  BY <1>1, <1>4, <1>6, <1>7 DEF Window

LEMMA WindowAfterDelete ==
    ASSUME Window, NEW t \in Rated, recent' = Explored!Without(t), still' = still \ {t},
           moves' = IF recent' # recent THEN moves + 1 ELSE moves
    PROVE  Window'
<1>1. moves' \in Nat
  BY DEF Window
<1>2. /\ recent' \in Seq(Rated)
      /\ \A i, j \in 1..Len(recent') : recent'[i] = recent'[j] => i = j
      /\ \A k \in 1..Len(recent) :
             recent[k] # t => \E i \in 1..Len(recent') : recent'[i] = recent[k]
  <2>1. /\ Explored!Without(t) \in Seq(Rated) /\ Len(Explored!Without(t)) \in Nat
        /\ \A i \in 1..Len(Explored!Without(t)) : Explored!Without(t)[i] # t
        /\ \A i, j \in 1..Len(Explored!Without(t)) :
             Explored!Without(t)[i] = Explored!Without(t)[j] => i = j
        /\ \A k \in 1..Len(recent) :
               recent[k] # t => \E i \in 1..Len(Explored!Without(t)) :
                     Explored!Without(t)[i] = recent[k]
    BY WithoutKeeps
  <2>. QED  BY <2>1
<1>3. ASSUME NEW u \in still' PROVE \E m \in 1..Len(recent') : recent'[m] = u
  BY <1>2, <1>3 DEF Window
<1>. QED  BY <1>1, <1>2, <1>3 DEF Window

LEMMA FrontIs ==
    ASSUME NEW s \in Seq(Rated), s # <<>>
    PROVE  /\ Explored!Front(s) \in Seq(Rated) /\ Len(s) \in Nat /\ Len(s) > 0
           /\ Len(Explored!Front(s)) = Len(s) - 1 /\ \A i \in 1..Len(s) - 1 :
                Explored!Front(s)[i] = s[i]
<1>1. Len(s) \in Nat /\ Len(s) > 0
  BY EmptySeq, LenProperties
<1>2. \A i \in 1..Len(s) - 1 : s[i] \in Rated
  BY <1>1
<1>3. PICK n \in Int : n = Len(s) - 1
  BY <1>1
<1>4. PICK f : f = SubSeq(s, 1, n)
  OBVIOUS
<1>5. /\ f \in Seq(Rated) /\ Len(f) = IF 1 <= n THEN n - 1 + 1 ELSE 0
      /\ \A i \in 1..n - 1 + 1 : f[i] = s[1 + i - 1]
  BY <1>2, <1>3, <1>4, SubSeqProperties
<1>6. ASSUME NEW i \in 1..n PROVE f[i] = s[i]
  <2>1. i \in 1..n - 1 + 1 /\ 1 + i - 1 = i
    OBVIOUS
  <2>. QED  BY <1>5, <2>1
<1>7. Len(f) = n
  BY <1>1, <1>3, <1>5
<1>. QED  BY <1>1, <1>3, <1>4, <1>5, <1>6, <1>7 DEF Explored!Front

LEMMA WindowAfterLeave ==
    ASSUME Window, recent # <<>>, recent' = Explored!Front(recent),
           still' = still \ {Explored!Last(recent)},
           moves' = IF recent' # recent THEN moves + 1 ELSE moves
    PROVE  Window'
<1>1. moves' \in Nat
  BY DEF Window
<1>2. /\ recent' \in Seq(Rated) /\ Len(recent) \in Nat /\ Len(recent) > 0
      /\ Len(recent') = Len(recent) - 1 /\ \A i \in 1..Len(recent) - 1 : recent'[i] = recent[i]
  BY FrontIs DEF Window
<1>3. ASSUME NEW u \in still' PROVE \E m \in 1..Len(recent') : recent'[m] = u
  <2>1. PICK k \in 1..Len(recent) : recent[k] = u
    BY <1>3 DEF Window
  <2>2. k # Len(recent)
    BY <1>3, <2>1 DEF Explored!Last
  <2>. QED  BY <1>2, <2>1, <2>2
<1>. QED  BY <1>1, <1>2, <1>3 DEF Window

LEMMA WindowSame ==
    ASSUME Window, recent' = recent, still' \subseteq still, moves' \in Nat
    PROVE  Window'
BY DEF Window

LEMMA WindowInit == Explored!Init => Window
<1>. SUFFICES ASSUME Explored!Init PROVE Window
  OBVIOUS
<1>1. recent \in Explored!SetToSeqs(Rated) /\ still = {} /\ moves = 0
  BY DEF Explored!Init
<1>2. /\ recent \in [1..Cardinality(Rated) -> Rated]
      /\ \A j, k \in 1..Cardinality(Rated) : j # k => recent[j] # recent[k]
  BY <1>1, SameSets DEF Explored!SetToSeqs
<1>3. Cardinality(Rated) \in Nat
  BY FS_CardinalityType, ProperLists, SameSets DEF Explored!FinitelyMany
<1>4. recent \in Seq(Rated)
  BY <1>2, <1>3
<1>5. Len(recent) = Cardinality(Rated)
  BY <1>2, <1>3
<1>6. \A j, k \in 1..Len(recent) : recent[j] = recent[k] => j = k
  BY <1>2, <1>5
<1>. QED  BY <1>1, <1>4, <1>6 DEF Window

LEMMA WindowStep == ASSUME Window, [Explored!Next]_(Explored!vars) PROVE Window'
<1>1. ASSUME NEW t \in Rated, Explored!Delete(t) PROVE Window'
  BY <1>1, WindowAfterDelete DEF Explored!Delete, Explored!Happens
<1>2. ASSUME NEW t \in Rated, Explored!Age(t) PROVE Window'
  BY <1>2, WindowSame DEF Explored!Age, Explored!Happens, Window
<1>3. ASSUME NEW t \in Rated, NEW s \in Explored!Scores, Explored!Touch(t, s) PROVE Window'
  BY <1>3, WindowAfterTouch DEF Explored!Touch, Explored!Happens
<1>4. CASE Explored!LeaveWindow
  BY <1>4, WindowAfterLeave DEF Explored!LeaveWindow, Explored!Happens
<1>5. CASE Explored!Start
  <2>1. recent' = recent /\ still' = {} /\ moves' = 0
    BY <1>5 DEF Explored!Start, Explored!work, Explored!tweets
  <2>. QED  BY <2>1, WindowSame
<1>6. CASE Explored!Count
  <2>1. recent' = recent /\ still' = Explored!ToSet(recent) /\ moves' = 0
    BY <1>6 DEF Explored!Count, Explored!work, Explored!tweets
  <2>2. DOMAIN recent = 1..Len(recent)
    BY DEF Window
  <2>. QED  BY <2>1, <2>2 DEF Window, Explored!ToSet
<1>7. CASE \/ Explored!ReadTop \/ Explored!ReadNothing \/ Explored!FetchTop
                \/ Explored!WriteTop \/ Explored!TrimTop \/ Explored!FetchPage
           \/ Explored!UpdateScores \/ Explored!TrimPage \/ Explored!PipelineLost
                \/ Explored!PageFails \/ Explored!JobFails
           \/ Explored!ClearKeys \/ Explored!ClearDelete \/ Explored!Expire
                \/ UNCHANGED Explored!vars
  <2>1. UNCHANGED <<recent, still, moves>>
    BY <1>7 DEF Explored!ReadTop, Explored!ReadNothing, Explored!FetchTop,
                Explored!WriteTop, Explored!TrimTop, Explored!FetchPage, Explored!UpdateScores,
                Explored!TrimPage,
                Explored!PipelineLost, Explored!PageFails, Explored!JobFails, Explored!ClearKeys,
                      Explored!ClearDelete, Explored!Expire, Explored!Gone, Explored!vars,
                            Explored!work,
                Explored!tweets, Explored!history, Explored!record
  <2>. QED  BY <2>1, WindowSame DEF Window
<1>. QED  BY <1>1, <1>2, <1>3, <1>4, <1>5, <1>6, <1>7 DEF Explored!Next

-----------------------------------------------------------------------------
\* What is listed, step by step.

LEMMA CountKeeps == ASSUME ListsInv, Window, Explored!Count PROVE ListsInv'
<1>1. /\ job.at = "count" /\ UNCHANGED <<best, live, score, scored, handled, same, clean, lowered>>
      /\ job' = IF recent = <<>> THEN Explored!Idle
                ELSE [Explored!Job("fetch") EXCEPT !.total = Len(recent)]
  BY DEF Explored!Count, Explored!At, Explored!work, Explored!tweets
<1>2. Explored!Listed' = Explored!Listed
  BY <1>1 DEF Explored!Listed
<1>3. JobTyped' /\ job'.at \in {"idle", "fetch"}
  <2>1. CASE recent = <<>>
    BY <1>1, <2>1 DEF Explored!Idle, JobTyped, Explored!At
  <2>2. CASE recent # <<>>
    <3>1. job' = [at |-> "fetch", top |-> {}, found |-> {}, scores |-> [t \in Rated |-> 0],
                  page |-> 0, done |-> 0, total |-> Len(recent), batch |-> <<>>]
      BY <1>1, <2>2 DEF Explored!Job
    <3>2. Len(recent) \in Nat /\ <<>> \in Seq(Rated)
      BY DEF Window
    <3>. QED  BY <3>1, <3>2 DEF JobTyped, Busy
  <2>. QED  BY <2>1, <2>2
<1>4. ListsTyped'
  BY <1>1, <1>3 DEF ListsInv, ListsTyped
<1>5. StaleInv'
  BY <1>1, <1>2, <1>3 DEF ListsInv, StaleInv, Explored!At
<1>6. clean' => handled' = {} /\ Cardinality(Explored!Listed') <= MaxSize
  BY <1>1, <1>2 DEF ListsInv, BestInv
<1>7. BestInv'
  BY <1>3, <1>6 DEF BestInv
<1>. QED  BY <1>4, <1>5, <1>7 DEF ListsInv

LEMMA FetchPageIs ==
    ASSUME ListsInv, Window, Explored!FetchPage
    PROVE  /\ job.at = "fetch"
           /\ UNCHANGED <<Explored!tweets, best, Explored!history>>
           /\ \/ job' = Explored!Idle /\ Explored!Skip >= Len(recent)
              \/ \E batch \in Seq(Rated) :
                   /\ job' = [at |-> "put", top |-> job.top, found |-> job.found, scores |-> score,
                              page |-> job.page, done |-> job.done, total |-> job.total,
                              batch |-> batch]
                   /\ Len(batch) <= BatchSize /\ Explored!Skip + Len(batch) <= Len(recent)
                   /\ Len(batch) = BatchSize \/ Explored!Skip + Len(batch) = Len(recent)
                   /\ \A i \in 1..Len(batch) : batch[i] = recent[Explored!Skip + i]
<1>1. /\ job.at = "fetch" /\ UNCHANGED <<Explored!tweets, best, Explored!history>>
  BY DEF Explored!FetchPage, Explored!At, Explored!work
<1>2. PICK n \in Nat : n = Len(recent)
  BY DEF Window
<1>3. PICK k \in Nat : k = Explored!Skip
  BY <1>1, ListsUnlessDone, ProperLists DEF Explored!Skip, Explored!Sizes
<1>4. PICK m \in Nat : m = IF k + BatchSize < n THEN k + BatchSize ELSE n
  BY ProperLists DEF Explored!Sizes
<1>5. PICK batch : batch = SubSeq(recent, k + 1, m)
  OBVIOUS
<1>6. job' = IF batch = <<>> THEN Explored!Idle
             ELSE [job EXCEPT !.at = "put", !.batch = batch, !.scores = score]
  BY <1>2, <1>3, <1>4, <1>5 DEF Explored!FetchPage
<1>7. /\ batch \in Seq(Rated) /\ Len(batch) = IF k + 1 <= m THEN m - (k + 1) + 1 ELSE 0
      /\ \A i \in 1..m - (k + 1) + 1 : batch[i] = recent[k + 1 + i - 1]
  <2>1. \A i \in k + 1..m : recent[i] \in Rated
    BY <1>2, <1>4 DEF Window
  <2>. QED  BY <1>5, <2>1, SubSeqProperties
<1>8. BatchSize \in Nat /\ BatchSize > 0
  BY ProperLists DEF Explored!Sizes
<1>9. CASE batch = <<>>
  BY <1>1, <1>2, <1>3, <1>4, <1>6, <1>7, <1>8, <1>9
<1>10. CASE batch # <<>>
  <2>1. job' = [at |-> "put", top |-> job.top, found |-> job.found, scores |-> score,
                page |-> job.page, done |-> job.done, total |-> job.total, batch |-> batch]
    BY <1>1, <1>6, <1>10, ListsUnlessDone
  <2>2. Len(batch) > 0
    BY <1>7, <1>10, EmptySeq, LenProperties
  <2>3. k + 1 <= m /\ Len(batch) = m - k
    BY <1>7, <2>2
  <2>4. ASSUME NEW i \in 1..Len(batch) PROVE batch[i] = recent[k + i]
    <3>1. i \in 1..m - (k + 1) + 1 /\ k + 1 + i - 1 = k + i
      BY <2>3
    <3>. QED  BY <1>7, <3>1
  <2>5. /\ Len(batch) <= BatchSize /\ k + Len(batch) <= n
        /\ Len(batch) = BatchSize \/ k + Len(batch) = n
    BY <1>4, <1>8, <2>3
  <2>. QED  BY <1>1, <1>2, <1>3, <1>7, <2>1, <2>4, <2>5
<1>. QED  BY <1>9, <1>10

LEMMA UpdateScoresKeeps == ASSUME ListsInv, Explored!UpdateScores PROVE ListsInv'
<1>1. /\ job.at = "put" /\ UNCHANGED <<live, score, same, clean>>
      /\ best' = [t \in Rated |->
                   IF t \in Explored!Good THEN Explored!Weighted(t, job.scores[t]) ELSE best[t]]
      /\ job' = IF Explored!Good = {} THEN Explored!Turned(Len(job.batch))
                ELSE [job EXCEPT !.at = "trimPage"]
      /\ scored' = scored \cup Explored!Good /\ handled' = handled \cup Explored!ToSet(job.batch)
      /\ lowered' = (lowered \/ \E t \in Explored!Good : best'[t] < best[t])
  BY DEF Explored!UpdateScores, Explored!At, Explored!work, Explored!tweets
<1>2. /\ job = [at |-> job.at, top |-> job.top, found |-> job.found, scores |-> job.scores,
                page |-> job.page, done |-> job.done, total |-> job.total, batch |-> job.batch]
      /\ job.top \subseteq Rated /\ job.found \subseteq Rated /\ job.scores \in [Rated -> Nat]
      /\ job.page \in Nat /\ job.done \in Nat /\ job.total \in Nat /\ job.batch \in Seq(Rated)
      /\ Len(job.batch) \in Nat
  BY <1>1, ListsUnlessDone
<1>3. Explored!Good \subseteq Explored!ToSet(job.batch) /\ Explored!ToSet(job.batch) \subseteq Rated
  <2>1. DOMAIN job.batch = 1..Len(job.batch)
    BY <1>2
  <2>. QED  BY <1>2, <2>1 DEF Explored!Good, Explored!ToSet
<1>4. /\ JobTyped'
      /\ Explored!Good = {} => job'.at \in {"idle", "fetch"}
      /\ Explored!Good # {} => job'.at = "trimPage" /\ job'.scores = job.scores
  <2>1. CASE Explored!Good = {}
    BY <1>1, <1>2, <2>1, TurnedTo
  <2>2. CASE Explored!Good # {}
    <3>1. job' = [at |-> "trimPage", top |-> job.top, found |-> job.found, scores |-> job.scores,
                  page |-> job.page, done |-> job.done, total |-> job.total, batch |-> job.batch]
      BY <1>1, <1>2, <2>2
    <3>. QED  BY <1>2, <2>2, <3>1 DEF JobTyped, Busy
  <2>. QED  BY <2>1, <2>2
<1>5. best \in [Rated -> Nat] /\ score \in [Rated -> Nat] /\ same \subseteq Rated
  BY DEF ListsInv, ListsTyped
<1>6. \A t \in Explored!Good : Explored!Weighted(t, job.scores[t]) \in Nat
      /\ Explored!Weighted(t, job.scores[t]) > 0
  BY <1>2, <1>3, WeightedNat DEF Explored!Good
<1>7. best' \in [Rated -> Nat] /\ Explored!Listed' = Explored!Listed \cup Explored!Good
  <2>1. best' \in [Rated -> Nat]
    BY <1>1, <1>3, <1>5, <1>6
  <2>2. \A t \in Rated : best'[t] # 0 <=> t \in Explored!Good \/ best[t] # 0
    BY <1>1, <1>3, <1>5, <1>6
  <2>. QED  BY <1>3, <2>1, <2>2 DEF Explored!Listed
<1>8. ListsTyped'
  BY <1>1, <1>4, <1>7 DEF ListsInv, ListsTyped
<1>9. StaleInv'
  BY <1>1, <1>4, <1>7 DEF ListsInv, StaleInv, Explored!At
<1>10. ASSUME clean PROVE BestInv'
  <2>1. Cardinality(Explored!Listed) <= MaxSize /\ \A t \in same : job.scores[t] = score[t]
    BY <1>1, <1>10 DEF ListsInv, BestInv
  <2>2. Explored!Good = {} => Cardinality(Explored!Listed') <= MaxSize
    BY <1>7, <2>1
  <2>3. ASSUME ~lowered', NEW t \in handled' \cap same PROVE Ranked(t)'
    <3>1. ~lowered /\ \A o \in Explored!Good : best'[o] >= best[o]
      <4>1. ~lowered /\ ~(\E o \in Explored!Good : best'[o] < best[o])
        <5>. PICK low : low <=> \E o \in Explored!Good : best'[o] < best[o]
          OBVIOUS
        <5>1. lowered' = (lowered \/ low)
          BY <1>1
        <5>. QED  BY <2>3, <5>1
      <4>2. \A o \in Explored!Good : best'[o] \in Nat /\ best[o] \in Nat
        BY <1>3, <1>5, <1>7
      <4>. QED  BY <4>1, <4>2
    <3>2. PICK s : s = Explored!Weighted(t, score[t])
      OBVIOUS
    <3>3. t \in Rated /\ s \in Nat /\ score[t] \in Nat
      BY <1>5, <2>3, <3>2, WeightedNat
    <3>4. CASE t \in Explored!ToSet(job.batch)
      <4>1. s > 0 => t \in Explored!Good /\ best'[t] = s
        BY <1>1, <2>1, <2>3, <3>2, <3>3, <3>4 DEF Explored!Good
      <4>2. Explored!Weighted(t, score'[t]) = s
        BY <1>1, <3>2
      <4>. QED  BY <1>7, <4>1, <4>2 DEF Ranked, Explored!Weighted
    <3>5. CASE t \notin Explored!ToSet(job.batch)
      <4>1. Ranked(t)
        BY <1>1, <1>10, <2>3, <3>1, <3>5 DEF ListsInv, BestInv
      <4>2. t \notin Explored!Good /\ best'[t] = best[t]
            /\ (t \in Explored!Listed' <=> t \in Explored!Listed)
        BY <1>1, <1>3, <1>7, <3>3, <3>5
      <4>3. ASSUME AtLeast(s) PROVE AtLeast(s)'
        <5>1. PICK W \in SUBSET Explored!Listed : Cardinality(W) = MaxSize
              /\ \A o \in W : best[o] >= s
          BY <4>3 DEF AtLeast
        <5>2. ASSUME NEW o \in W PROVE best'[o] >= s
          <6>1. o \in Rated
            BY <5>1, <5>2 DEF Explored!Listed
          <6>2. best'[o] \in Nat /\ best[o] \in Nat /\ best[o] >= s
            BY <1>5, <1>7, <5>1, <5>2, <6>1
          <6>3. best'[o] >= best[o]
            BY <1>1, <3>1, <6>1, <6>2
          <6>. QED  BY <3>3, <6>2, <6>3
        <5>3. W \in SUBSET Explored!Listed'
          BY <1>7, <5>1
        <5>. QED  BY <5>1, <5>2, <5>3 DEF AtLeast
      <4>4. Explored!Weighted(t, score'[t]) = s
        BY <1>1, <3>2
      <4>5. s > 0 => IF t \in Explored!Listed THEN best[t] = s ELSE AtLeast(s)
        BY <3>2, <4>1 DEF Ranked
      <4>. QED  BY <3>2, <4>2, <4>3, <4>4, <4>5 DEF Ranked, Explored!Weighted
    <3>. QED  BY <3>4, <3>5
  <2>4. \A t \in same' : job'.at = "trimPage" => job'.scores[t] = score'[t]
    BY <1>1, <1>4, <2>1
  <2>. QED  BY <1>1, <1>4, <2>2, <2>3, <2>4 DEF BestInv
<1>11. BestInv'
  <2>1. CASE clean
    BY <2>1, <1>10
  <2>2. CASE ~clean
    BY <1>1, <2>2 DEF BestInv
  <2>. QED  BY <2>1, <2>2
<1>. QED  BY <1>8, <1>9, <1>11 DEF ListsInv

LEMMA TrimPageKeeps == ASSUME ListsInv, Explored!TrimPage PROVE ListsInv'
<1>1. /\ job.at = "trimPage" /\ UNCHANGED <<live, score, scored, handled, same, clean, lowered>>
      /\ job' = Explored!Turned(Len(job.batch)) /\ Explored!TrimCategoryZSets
  BY DEF Explored!TrimPage, Explored!At, Explored!work, Explored!tweets, Explored!history
<1>2. JobTyped' /\ job'.at \in {"idle", "fetch"}
  <2>1. Len(job.batch) \in Nat
    BY <1>1, ListsUnlessDone
  <2>. QED  BY <1>1, <2>1, TurnedTo
<1>3. /\ best' \in [Rated -> Nat] /\ Explored!Listed' \subseteq Explored!Listed
           /\ Cardinality(Explored!Listed') <= MaxSize
      /\ \A t \in Explored!Listed' : best'[t] = best[t]
      /\ \A s \in Nat : AtLeast(s) => AtLeast(s)'
      /\ \A s \in Nat : \A t \in Explored!Listed \ Explored!Listed' : best[t] >= s => AtLeast(s)'
  BY <1>1, Trimmed DEF ListsInv
<1>4. ListsTyped'
  BY <1>1, <1>2, <1>3 DEF ListsInv, ListsTyped
<1>5. StaleInv'
  BY <1>1, <1>2, <1>3 DEF ListsInv, StaleInv, Explored!At
<1>6. ASSUME clean, ~lowered, NEW t \in handled \cap same PROVE Ranked(t)'
  <2>1. PICK s : s = Explored!Weighted(t, score[t])
    OBVIOUS
  <2>2. t \in Rated /\ s \in Nat /\ Explored!Weighted(t, score'[t]) = s
    BY <1>1, <1>6, <2>1, WeightedNat DEF ListsInv, ListsTyped
  <2>3. s > 0 => IF t \in Explored!Listed THEN best[t] = s ELSE AtLeast(s)
    BY <1>6, <2>1 DEF ListsInv, BestInv, Ranked
  <2>4. s > 0 => IF t \in Explored!Listed' THEN best'[t] = s ELSE AtLeast(s)'
    BY <1>3, <2>2, <2>3
  <2>. QED  BY <2>2, <2>4 DEF Ranked, Explored!Weighted
<1>7. BestInv'
  BY <1>1, <1>2, <1>3, <1>6 DEF BestInv
<1>. QED  BY <1>4, <1>5, <1>7 DEF ListsInv

LEMMA FetchPageKeeps == ASSUME ListsInv, Window, Explored!FetchPage PROVE ListsInv'
<1>1. /\ job.at = "fetch" /\ UNCHANGED <<best, live, score, scored, handled, same, clean, lowered>>
  BY FetchPageIs DEF Explored!tweets, Explored!history
<1>2. Explored!Listed' = Explored!Listed
  BY <1>1 DEF Explored!Listed
<1>3. JobTyped' /\ (job'.at = "idle" \/ (job'.at = "put" /\ job'.scores = score))
  <2>1. CASE job' = Explored!Idle
    BY <2>1 DEF Explored!Idle, JobTyped, Explored!At
  <2>2. ASSUME NEW batch \in Seq(Rated),
               job' = [at |-> "put", top |-> job.top, found |-> job.found, scores |-> score,
                       page |-> job.page, done |-> job.done, total |-> job.total, batch |-> batch]
        PROVE  JobTyped' /\ job'.at = "put" /\ job'.scores = score
    <3>1. score \in [Rated -> Nat]
      BY DEF ListsInv, ListsTyped
    <3>. QED  BY <1>1, <2>2, <3>1, ListsUnlessDone DEF JobTyped, Busy
  <2>. QED  BY <2>1, <2>2, FetchPageIs
<1>4. ListsTyped'
  BY <1>1, <1>3 DEF ListsInv, ListsTyped
<1>5. StaleInv'
  BY <1>1, <1>2, <1>3 DEF ListsInv, StaleInv, Explored!At
<1>6. \A s : AtLeast(s)' = AtLeast(s)
  BY <1>1, <1>2 DEF AtLeast
<1>7. \A t : Ranked(t)' = Ranked(t)
  BY <1>1, <1>2, <1>6 DEF Ranked, Explored!Weighted
<1>8. BestInv'
  BY <1>1, <1>2, <1>3, <1>7 DEF ListsInv, BestInv
<1>. QED  BY <1>4, <1>5, <1>8 DEF ListsInv

\* What fails, or is cleared.
LEMMA FailureKeeps ==
    ASSUME ListsInv, Explored!ReadNothing \/ Explored!PipelineLost \/ Explored!PageFails
          \/ Explored!JobFails \/ Explored!ClearDelete \/ Explored!Expire
    PROVE  ListsInv'
<1>1. ~clean' /\ UNCHANGED <<live, score, same>>
  BY DEF Explored!ReadNothing, Explored!PipelineLost, Explored!PageFails, Explored!JobFails,
        Explored!ClearDelete, Explored!Expire, Explored!Gone, Explored!work, Explored!tweets,
              Explored!record
<1>2. best' \in [Rated -> Nat]
  <2>1. best' = best \/ best' = [t \in Rated |-> 0]
    BY DEF Explored!ReadNothing, Explored!PipelineLost, Explored!PageFails, Explored!JobFails,
          Explored!ClearDelete, Explored!Expire, Explored!Gone
  <2>. QED  BY <2>1 DEF ListsInv, ListsTyped
<1>3. JobTyped'
  <2>1. CASE Explored!ReadNothing
    BY <2>1, NewJobTyped DEF Explored!ReadNothing, Busy
  <2>2. CASE Explored!PipelineLost
    <3>1. CASE job' = Explored!Job("trim") \/ job' = Explored!Job("count")
      BY <3>1, NewJobTyped DEF Busy
    <3>2. CASE Explored!At("put") /\ job' = [job EXCEPT !.at = "trimPage"]
      <4>1. /\ job = [at |-> job.at, top |-> job.top, found |-> job.found, scores |-> job.scores,
                      page |-> job.page, done |-> job.done, total |-> job.total,
                            batch |-> job.batch]
            /\ job.top \subseteq Rated /\ job.found \subseteq Rated
            /\ job.scores \in [Rated -> Nat]
            /\ job.page \in Nat /\ job.done \in Nat /\ job.total \in Nat /\ job.batch \in Seq(Rated)
        BY <3>2, ListsUnlessDone DEF Explored!At
      <4>2. job' = [at |-> "trimPage", top |-> job.top, found |-> job.found, scores |-> job.scores,
                    page |-> job.page, done |-> job.done, total |-> job.total, batch |-> job.batch]
        BY <3>2, <4>1
      <4>. QED  BY <4>1, <4>2 DEF JobTyped, Busy
    <3>3. CASE Explored!At("trimPage") /\ job' = Explored!Turned(Len(job.batch))
      <4>1. job.at # "idle" /\ Len(job.batch) \in Nat
        BY <3>3, ListsUnlessDone DEF Explored!At
      <4>. QED  BY <3>3, <4>1, TurnedTo
    <3>. QED  BY <2>2, <3>1, <3>2, <3>3 DEF Explored!PipelineLost
  <2>3. CASE Explored!PageFails
    BY <2>3, TurnedTo DEF Explored!PageFails
  <2>4. CASE Explored!JobFails
    BY <2>4 DEF Explored!JobFails, Explored!Idle, JobTyped, Explored!At
  <2>5. CASE Explored!ClearDelete \/ Explored!Expire
    BY <2>5 DEF Explored!ClearDelete, Explored!Expire, Explored!Gone, ListsInv, ListsTyped,
          JobTyped, Explored!At
  <2>. QED  BY <2>1, <2>2, <2>3, <2>4, <2>5
<1>4. ListsTyped'
  BY <1>1, <1>2, <1>3 DEF ListsInv, ListsTyped
<1>. QED  BY <1>1, <1>4, Unclean

LEMMA ScoresAreNat == Explored!Scores \subseteq Nat
BY ProperLists DEF Explored!Scores, Explored!Sizes

LEMMA ListsStep == ASSUME ListsInv, Window, [Explored!Next]_(Explored!vars) PROVE ListsInv'
<1>1. live \subseteq Rated /\ score \in [Rated -> Nat] /\ same \subseteq Rated
  BY DEF ListsInv, ListsTyped
<1>2. ASSUME NEW t \in Rated, Explored!Delete(t) PROVE ListsInv'
  BY <1>1, <1>2, TweetsMove DEF Explored!Delete, Explored!Happens
<1>3. ASSUME NEW t \in Rated, Explored!Age(t) PROVE ListsInv'
  <2>1. score' = [score EXCEPT ![t] = score[t] - 1] /\ score[t] > 0 /\ same' = same \ {t}
    BY <1>3 DEF Explored!Age
  <2>2. score' \in [Rated -> Nat] /\ \A u \in same' : score'[u] = score[u]
    BY <1>1, <2>1
  <2>. QED  BY <1>1, <1>3, <2>1, <2>2, TweetsMove DEF Explored!Age, Explored!Happens
<1>4. ASSUME NEW t \in Rated, NEW s \in Explored!Scores, Explored!Touch(t, s) PROVE ListsInv'
  <2>1. /\ score' = [score EXCEPT ![t] = s]
        /\ same' = IF s = score[t] THEN same ELSE same \ {t}
    BY <1>4 DEF Explored!Touch
  <2>2. score' \in [Rated -> Nat] /\ same' \subseteq same /\ \A u \in same' : score'[u] = score[u]
    BY <1>1, <2>1, ScoresAreNat
  <2>. QED  BY <1>1, <1>4, <2>2, TweetsMove DEF Explored!Touch, Explored!Happens
<1>5. CASE Explored!LeaveWindow
  BY <1>1, <1>5, TweetsMove DEF Explored!LeaveWindow, Explored!Happens
<1>6. CASE Explored!Start
  BY <1>6, StartKeeps
<1>7. CASE Explored!ReadTop
  BY <1>7, ReadTopKeeps
<1>8. CASE Explored!FetchTop
  BY <1>8, FetchTopKeeps
<1>9. CASE Explored!WriteTop
  BY <1>9, WriteTopKeeps
<1>10. CASE Explored!TrimTop
  BY <1>10, TrimTopKeeps
<1>11. CASE Explored!Count
  BY <1>11, CountKeeps
<1>12. CASE Explored!FetchPage
  BY <1>12, FetchPageKeeps
<1>13. CASE Explored!UpdateScores
  BY <1>13, UpdateScoresKeeps
<1>14. CASE Explored!TrimPage
  BY <1>14, TrimPageKeeps
<1>15. CASE Explored!ReadNothing \/ Explored!PipelineLost \/ Explored!PageFails
      \/ Explored!JobFails \/ Explored!ClearDelete \/ Explored!Expire
  BY <1>15, FailureKeeps
<1>16. CASE Explored!ClearKeys \/ UNCHANGED Explored!vars
  <2>1. UNCHANGED <<Explored!tweets, best, job, Explored!history>>
    BY <1>16 DEF Explored!ClearKeys, Explored!vars
  <2>. QED  BY <1>1, <2>1, TweetsMove DEF Explored!tweets, Explored!history
<1>. QED  BY <1>2, <1>3, <1>4, <1>5, <1>6, <1>7, <1>8, <1>9, <1>10, <1>11, <1>12, <1>13, <1>14,
             <1>15, <1>16 DEF Explored!Next

LEMMA ListsSays == ListsInv => Explored!ListsSound
<1>. SUFFICES ASSUME ListsInv PROVE Explored!ListsSound
  OBVIOUS
<1>1. Explored!NothingStale
  BY DEF ListsInv, StaleInv, Explored!NothingStale, Explored!Ended, Explored!At
<1>2. ASSUME Explored!Ended PROVE Cardinality(Explored!Listed) <= MaxSize
  BY <1>2 DEF ListsInv, BestInv, Explored!Ended, Explored!At
<1>3. ASSUME Explored!Ended, ~lowered, NEW t \in (handled \cap same) \ Explored!Listed, NEW s,
             s = Explored!Weighted(t, score[t]), s > 0
      PROVE  Cardinality(Explored!Listed) = MaxSize /\ \A o \in Explored!Listed : best[o] >= s
  <2>1. AtLeast(s)
    BY <1>3 DEF ListsInv, BestInv, Explored!Ended, Explored!At, Ranked
  <2>2. PICK W \in SUBSET Explored!Listed : Cardinality(W) = MaxSize /\ \A o \in W : best[o] >= s
    BY <2>1 DEF AtLeast
  <2>3. IsFiniteSet(Explored!Listed) /\ Cardinality(Explored!Listed) \in Nat /\ MaxSize \in Nat
    BY ListedFinite, ProperLists DEF Explored!Sizes
  <2>4. Cardinality(W) <= Cardinality(Explored!Listed)
        /\ (Cardinality(Explored!Listed) = Cardinality(W) => Explored!Listed = W)
    BY <2>3, FS_Subset
  <2>. QED  BY <1>2, <1>3, <2>2, <2>3, <2>4
<1>. QED  BY <1>1, <1>2, <1>3, SameSets DEF Explored!ListsSound, Explored!BestListed

\* After a job a list holds only what the job has scored, and of what its
\* pages have gone through none is left out for a worse one
\* (recalculateExistingTopTweets, trimCategoryZSets), for any tweets, scores and sizes.
THEOREM ListsSoundHolds == Explored!Spec => []ListsSound
<1>1. Explored!Init => ListsInv /\ Window
  BY ListsInit, WindowInit
<1>2. ListsInv /\ Window /\ [Explored!Next]_(Explored!vars) => (ListsInv /\ Window)'
  BY ListsStep, WindowStep
<1>3. ListsInv => ListsSound
  BY ListsSays DEF ListsSound
<1>. QED  BY <1>1, <1>2, <1>3, PTL DEF Explored!Spec

-----------------------------------------------------------------------------
\* What is missed: as many as moves.

LEMMA TweetSets ==
    ASSUME NEW S, S \subseteq Rated
    PROVE  IsFiniteSet(S) /\ Cardinality(S) \in Nat
BY ProperLists, FS_Subset, FS_CardinalityType, SameSets DEF Explored!FinitelyMany

LEMMA NoMore ==
    ASSUME NEW S, NEW T, S \subseteq T, T \subseteq Rated
    PROVE  Cardinality(S) <= Cardinality(T)
BY TweetSets, FS_Subset

LEMMA AtMostOneMore ==
    ASSUME NEW S, NEW T, NEW x, S \subseteq T \cup {x}, T \subseteq Rated
    PROVE  Cardinality(S) <= Cardinality(T) + 1
<1>1. IsFiniteSet(T) /\ Cardinality(T) \in Nat
  BY TweetSets
<1>2. IsFiniteSet(T \cup {x}) /\ Cardinality(T \cup {x}) \in Nat
      /\ Cardinality(T \cup {x}) <= Cardinality(T) + 1
  BY <1>1, FS_AddElement, FS_CardinalityType
<1>3. S \in SUBSET (T \cup {x})
  OBVIOUS
<1>4. Cardinality(S) <= Cardinality(T \cup {x}) /\ Cardinality(S) \in Nat
  BY <1>2, <1>3, FS_Subset, FS_CardinalityType
<1>. QED  BY <1>1, <1>2, <1>4

LEMMA PagingTyped ==
    ASSUME ListsInv, job.at \in Paging
    PROVE  /\ job.page \in Nat /\ job.done \in Nat /\ job.total \in Nat
           /\ job.batch \in Seq(Rated) /\ Len(job.batch) \in Nat
           /\ BatchSize \in Nat /\ BatchSize > 0 /\ Explored!Skip \in Nat /\ Reach \in Nat
<1>1. /\ job.page \in Nat /\ job.done \in Nat /\ job.total \in Nat
      /\ job.batch \in Seq(Rated) /\ Len(job.batch) \in Nat
  BY ListsUnlessDone DEF Paging
<1>2. BatchSize \in Nat /\ BatchSize > 0
  BY ProperLists DEF Explored!Sizes
<1>3. Explored!Skip \in Nat
  BY <1>1, <1>2 DEF Explored!Skip
<1>. QED  BY <1>1, <1>2, <1>3 DEF Reach

LEMMA MissedAre == Missed \subseteq Rated /\ \A u \in Rated : u \in Missed <=> Missing(u)
BY DEF Missed

LEMMA SteadyAre == ASSUME Window PROVE still \subseteq Rated
<1>1. recent \in Seq(Rated)
  BY DEF Window
<1>2. \A k \in 1..Len(recent) : recent[k] \in Rated
  BY <1>1
<1>. QED  BY <1>2 DEF Window

LEMMA BalanceOf ==
    ASSUME NEW n1 \in Int, NEW n \in Int, NEW m \in Int, NEW d \in Int, NEW i \in Int,
           NEW d0 \in Int, NEW i0 \in Int, n1 = n - d + i, n = m - d0 + i0
    PROVE  n1 = m - (d0 + d) + (i0 + i)
OBVIOUS

\* A tweet that moves takes at most one past the pages that are still to come.
LEMMA MovesKeep ==
    ASSUME ListsInv, Window, Window', MissInv, UNCHANGED <<job, handled, clean>>,
           still' \subseteq still,
           NEW d \in {0, 1}, NEW i \in Nat, moves' >= moves + d + i,
           Len(recent') = Len(recent) - d + i,
           \A k \in 1..Len(recent') : recent'[k] \in still' =>
               \E j \in 1..Len(recent) : recent[j] = recent'[k] /\ j <= k + d
    PROVE  MissInv'
<1>1. /\ moves \in Nat /\ moves' \in Nat /\ Len(recent) \in Nat /\ Len(recent') \in Nat
      /\ still \subseteq Rated
  BY SteadyAre DEF Window
<1>2. /\ Reach' = Reach /\ Taken' = Taken /\ job' = job
  BY DEF Reach, Explored!Skip, Taken, Explored!At
<1>3. ASSUME job.at \in Paging
      PROVE  \E x : Missed' \subseteq (IF d = 0 THEN Missed ELSE Missed \cup {x})
  <2>. PICK reach \in Nat : reach = Reach
    BY <1>3, PagingTyped
  <2>1. ASSUME NEW u \in Missed' PROVE u \in Missed \/ (d = 1 /\ u = recent[reach + 1])
    <3>1. /\ u \in Rated /\ u \in still' \ Taken
          /\ \E k \in 1..Len(recent') : k <= reach /\ recent'[k] = u
      BY <1>2, <2>1 DEF Missed, Missing
    <3>2. PICK k \in 1..Len(recent') : k <= reach /\ recent'[k] = u
      BY <3>1
    <3>3. PICK j \in 1..Len(recent) : recent[j] = u /\ j <= k + d
      BY <3>1, <3>2
    <3>4. CASE j <= reach
      BY <3>1, <3>3, <3>4, <1>1, MissedAre DEF Missing
    <3>5. CASE ~(j <= reach)
      <4>1. d = 1 /\ j = reach + 1
        BY <3>2, <3>3, <3>5, <1>1
      <4>. QED  BY <4>1, <3>3
    <3>. QED  BY <3>4, <3>5
  <2>2. Missed' \subseteq (IF d = 0 THEN Missed ELSE Missed \cup {recent[reach + 1]})
    BY <2>1
  <2>. QED  BY <2>2
<1>4. ASSUME job.at \in Paging, clean PROVE Balance'
  <2>1. PICK x : Missed' \subseteq (IF d = 0 THEN Missed ELSE Missed \cup {x})
    BY <1>3, <1>4
  <2>2. PICK d0, i0 \in Nat : /\ d0 + i0 <= moves /\ Len(recent) = job.total - d0 + i0
                              /\ Cardinality(Missed) <= d0
    BY <1>4 DEF MissInv, Balance
  <2>3. /\ Cardinality(Missed') <= Cardinality(Missed) + d
        /\ Cardinality(Missed) \in Nat /\ Cardinality(Missed') \in Nat
    <3>1. Missed \subseteq Rated /\ Missed' \subseteq Rated
      BY DEF Missed
    <3>2. Cardinality(Missed) \in Nat /\ Cardinality(Missed') \in Nat
      BY <3>1, TweetSets
    <3>3. CASE d = 0
      BY <2>1, <3>1, <3>2, <3>3, NoMore
    <3>4. CASE d = 1
      BY <2>1, <3>1, <3>2, <3>4, AtMostOneMore
    <3>. QED  BY <3>2, <3>3, <3>4
  <2>4. job.total \in Nat
    BY <1>4, PagingTyped
  <2>5. /\ d0 + d \in Nat /\ i0 + i \in Nat /\ (d0 + d) + (i0 + i) <= moves'
        /\ Len(recent') = job.total - (d0 + d) + (i0 + i) /\ Cardinality(Missed') <= d0 + d
    <3>1. d \in Nat /\ d0 \in Nat /\ i0 \in Nat
      BY <2>2
    <3>2. d0 + d \in Nat /\ i0 + i \in Nat
      BY <3>1
    <3>3. (d0 + d) + (i0 + i) <= moves'
      BY <1>1, <2>2, <3>1
    <3>4. Len(recent') = job.total - (d0 + d) + (i0 + i)
      <4>0. Len(recent) \in Int /\ Len(recent') \in Int /\ job.total \in Int
        BY <1>1, <2>4
      <4>1. PICK n, n1, m \in Int : n = Len(recent) /\ n1 = Len(recent') /\ m = job.total
        BY <4>0
      <4>2. n1 = n - d + i /\ n = m - d0 + i0
        BY <2>2, <4>1
      <4>3. d \in Int /\ i \in Int /\ d0 \in Int /\ i0 \in Int
        BY <3>1
      <4>4. n1 = m - (d0 + d) + (i0 + i)
        BY <4>2, <4>3, BalanceOf
      <4>. QED  BY <4>1, <4>4
    <3>5. Cardinality(Missed') <= d0 + d
      BY <2>2, <2>3, <3>1
    <3>. QED  BY <3>2, <3>3, <3>4, <3>5
  <2>. QED  BY <1>2, <2>5 DEF Balance
<1>5. ASSUME Explored!At("idle"), clean PROVE Cardinality((still \ handled)') <= moves'
  <2>1. (still \ handled)' \subseteq still \ handled /\ still \ handled \subseteq Rated
    BY <1>1
  <2>2. Cardinality((still \ handled)') <= Cardinality(still \ handled)
    BY <2>1, NoMore
  <2>3. Cardinality((still \ handled)') \in Nat /\ Cardinality(still \ handled) \in Nat
    BY <2>1, TweetSets
  <2>4. Cardinality(still \ handled) <= moves
    BY <1>5 DEF MissInv
  <2>. QED  BY <1>1, <2>2, <2>3, <2>4
<1>. QED  BY <1>2, <1>4, <1>5 DEF MissInv, Explored!At

\* The tweets beyond a place in the window.
LEMMA BeyondBound ==
    ASSUME Window, NEW reach \in Nat
    PROVE  LET beyond == {recent[k] : k \in reach + 1..Len(recent)} IN
           /\ IsFiniteSet(beyond) /\ Cardinality(beyond) \in Nat
           /\ Cardinality(beyond) <= IF Len(recent) > reach THEN Len(recent) - reach ELSE 0
<1>1. PICK n \in Nat : n = Len(recent)
  BY DEF Window
<1>2. PICK places : places = reach + 1..n
  OBVIOUS
<1>3. PICK beyond : beyond = {recent[k] : k \in reach + 1..Len(recent)}
  OBVIOUS
<1>4. PICK f : f = [k \in places |-> recent[k]]
  OBVIOUS
<1>5. IsFiniteSet(places) /\ Cardinality(places) = IF reach + 1 > n THEN 0 ELSE n - (reach + 1) + 1
  BY <1>2, FS_Interval
<1>6. f \in Surjection(places, beyond)
  BY <1>1, <1>2, <1>3, <1>4 DEF Surjection
<1>7. IsFiniteSet(beyond) /\ Cardinality(beyond) <= Cardinality(places)
  BY <1>5, <1>6, FS_Surjection
<1>8. Cardinality(beyond) \in Nat
  BY <1>7, FS_CardinalityType
<1>. QED  BY <1>1, <1>3, <1>5, <1>7, <1>8

LEMMA TwoParts ==
    ASSUME NEW S, NEW A, NEW B, S \subseteq A \cup B, A \subseteq Rated, IsFiniteSet(B),
           Cardinality(B) \in Nat
    PROVE  Cardinality(S) <= Cardinality(A) + Cardinality(B) /\ Cardinality(S) \in Nat
<1>1. IsFiniteSet(A) /\ Cardinality(A) \in Nat
  BY TweetSets
<1>2. /\ IsFiniteSet(A \cup B)
      /\ Cardinality(A \cup B) = Cardinality(A) + Cardinality(B) - Cardinality(A \cap B)
  BY <1>1, FS_Union
<1>3. A \cap B \in SUBSET A /\ S \in SUBSET (A \cup B)
  OBVIOUS
<1>4. Cardinality(A \cap B) \in Nat
  BY <1>1, <1>3, FS_Subset, FS_CardinalityType
<1>5. Cardinality(S) <= Cardinality(A \cup B) /\ Cardinality(S) \in Nat
  BY <1>2, <1>3, FS_Subset, FS_CardinalityType
<1>. QED  BY <1>1, <1>2, <1>4, <1>5

LEMMA Sums ==
    ASSUME NEW d \in Nat, NEW i \in Nat, NEW n \in Nat, NEW total \in Nat, NEW reach \in Nat,
           NEW m \in Nat, NEW b \in Nat, NEW c \in Nat, NEW s \in Nat,
           d + i <= m, n = total - d + i, reach >= total \/ reach >= n, c <= d,
           b <= IF n > reach THEN n - reach ELSE 0, s <= c + b
    PROVE  s <= m
OBVIOUS

\* When the pages end, what no page has had was missed, or lies beyond the last.
LEMMA AtTheEnd ==
    ASSUME ListsInv, Window, job.at \in Paging, Balance, Reach >= job.total \/ Reach >= Len(recent)
    PROVE  Cardinality(still \ Taken) <= moves
<1>1. PICK reach \in Nat : reach = Reach
  BY PagingTyped
<1>2. PICK d, i \in Nat : /\ d + i <= moves /\ Len(recent) = job.total - d + i
                          /\ Cardinality(Missed) <= d
  BY DEF Balance
<1>3. PICK beyond : beyond = {recent[k] : k \in reach + 1..Len(recent)}
  OBVIOUS
<1>4. /\ IsFiniteSet(beyond) /\ Cardinality(beyond) \in Nat
      /\ Cardinality(beyond) <= IF Len(recent) > reach THEN Len(recent) - reach ELSE 0
  BY <1>3, BeyondBound
<1>5. ASSUME NEW u \in still \ Taken, u \notin beyond PROVE u \in Missed
  <2>1. PICK k \in 1..Len(recent) : recent[k] = u
    BY <1>5 DEF Window
  <2>2. Len(recent) \in Nat
    BY DEF Window
  <2>3. k <= reach
    <3>1. SUFFICES ASSUME k > reach PROVE FALSE
      BY <2>1, <2>2
    <3>2. k \in reach + 1..Len(recent)
      BY <2>2, <3>1
    <3>. QED  BY <1>3, <1>5, <2>1, <3>2
  <2>4. u \in Rated
    BY <1>5, SteadyAre
  <2>. QED  BY <1>1, <1>5, <2>1, <2>3, <2>4, MissedAre DEF Missing
<1>6. /\ Cardinality(still \ Taken) <= Cardinality(Missed) + Cardinality(beyond)
      /\ Cardinality(still \ Taken) \in Nat
  <2>1. Missed \subseteq Rated /\ still \ Taken \subseteq Missed \cup beyond
    BY <1>5, MissedAre
  <2>. QED  BY <1>4, <2>1, TwoParts
<1>7. Cardinality(Missed) \in Nat /\ moves \in Nat /\ Len(recent) \in Nat /\ job.total \in Nat
  BY MissedAre, TweetSets, PagingTyped DEF Window
<1>. QED  BY <1>1, <1>2, <1>4, <1>6, <1>7, Sums

LEMMA PageAfter ==
    ASSUME NEW p \in Nat
    PROVE  BatchSize \in Nat /\ p * BatchSize \in Nat
          /\ (p + 1) * BatchSize = p * BatchSize + BatchSize
BY ProperLists DEF Explored!Sizes

\* The pipeline of a page has gone through: the next page, or the end.
LEMMA TurnKeeps ==
    ASSUME ListsInv, Window, MissInv, job.at \in {"put", "trimPage"},
           job' = Explored!Turned(Len(job.batch)),
           UNCHANGED <<recent, still, moves, clean>>, handled' = Taken
    PROVE  MissInv'
<1>1. /\ job.page \in Nat /\ job.done \in Nat /\ job.total \in Nat
      /\ Len(job.batch) \in Nat /\ Reach \in Nat /\ job.at \in Paging
  BY PagingTyped DEF Paging
<1>2. /\ job'.at \in {"idle", "fetch"}
      /\ job'.at = "idle" <=> job.done + Len(job.batch) >= job.total
      /\ job'.at = "fetch" => /\ job'.page = job.page + 1 /\ job'.done = job.done + Len(job.batch)
                              /\ job'.total = job.total
  BY <1>1, TurnedTo
<1>. SUFFICES ASSUME clean PROVE MissInv'
  BY DEF MissInv
<1>3. Balance /\ job.done + Len(job.batch) <= Reach
  BY <1>1 DEF MissInv
<1>4. CASE job'.at = "idle"
  <2>1. Reach >= job.total
    BY <1>1, <1>2, <1>3, <1>4
  <2>2. Cardinality(still \ Taken) <= moves
    BY <1>1, <1>3, <2>1, AtTheEnd
  <2>3. Cardinality((still \ handled)') <= moves'
    BY <2>2
  <2>. QED  BY <1>4, <2>3 DEF MissInv, Paging, Explored!At
<1>5. CASE job'.at = "fetch"
  <2>1. Reach' = Reach
    <3>1. Reach = job.page * BatchSize + BatchSize
      BY DEF Reach, Explored!Skip, Explored!At
    <3>2. Reach' = job'.page * BatchSize
      BY <1>5 DEF Reach, Explored!Skip, Explored!At
    <3>. QED  BY <1>1, <1>2, <1>5, <3>1, <3>2, PageAfter
  <2>2. Taken' = Taken
    BY <1>5 DEF Taken, Explored!At
  <2>3. Missed' = Missed
    BY <2>1, <2>2 DEF Missed, Missing
  <2>4. Balance'
    BY <1>2, <1>3, <1>5, <2>3 DEF Balance
  <2>5. job'.done <= Reach'
    BY <1>2, <1>3, <1>5, <2>1
  <2>. QED  BY <1>5, <2>4, <2>5 DEF MissInv, Explored!At
<1>. QED  BY <1>2, <1>4, <1>5

LEMMA UpdateScoresMisses == ASSUME ListsInv, Window, MissInv, Explored!UpdateScores PROVE MissInv'
<1>1. /\ job.at = "put" /\ UNCHANGED <<recent, still, moves, clean>>
      /\ job' = IF Explored!Good = {} THEN Explored!Turned(Len(job.batch))
                ELSE [job EXCEPT !.at = "trimPage"]
      /\ handled' = handled \cup Explored!ToSet(job.batch)
  BY DEF Explored!UpdateScores, Explored!At, Explored!work, Explored!tweets
<1>2. handled' = Taken
  BY <1>1 DEF Taken, Explored!At
<1>3. CASE Explored!Good = {}
  BY <1>1, <1>2, <1>3, TurnKeeps
<1>4. CASE Explored!Good # {}
  <2>1. job = [at |-> job.at, top |-> job.top, found |-> job.found, scores |-> job.scores,
               page |-> job.page, done |-> job.done, total |-> job.total, batch |-> job.batch]
    BY <1>1, ListsUnlessDone
  <2>2. job' = [at |-> "trimPage", top |-> job.top, found |-> job.found, scores |-> job.scores,
                page |-> job.page, done |-> job.done, total |-> job.total, batch |-> job.batch]
    BY <1>1, <1>4, <2>1
  <2>3. /\ job'.at = "trimPage" /\ job'.batch = job.batch /\ job'.page = job.page
        /\ job'.done = job.done /\ job'.total = job.total
    BY <2>2
  <2>4. Reach' = Reach
    BY <1>1, <2>3 DEF Reach, Explored!Skip, Explored!At
  <2>5. Taken' = Taken
    BY <1>1, <2>3 DEF Taken, Explored!At
  <2>6. Missed' = Missed
    BY <1>1, <2>4, <2>5 DEF Missed, Missing
  <2>7. clean => Balance /\ job.done + Len(job.batch) <= Reach
    BY <1>1 DEF MissInv, Paging
  <2>8. clean => Balance'
    BY <1>1, <2>3, <2>6, <2>7 DEF Balance
  <2>. QED  BY <1>1, <2>3, <2>4, <2>7, <2>8 DEF MissInv, Explored!At
<1>. QED  BY <1>3, <1>4

LEMMA TrimPageMisses == ASSUME ListsInv, Window, MissInv, Explored!TrimPage PROVE MissInv'
<1>1. /\ job.at = "trimPage" /\ UNCHANGED <<recent, still, moves, clean, handled>>
      /\ job' = Explored!Turned(Len(job.batch))
  BY DEF Explored!TrimPage, Explored!At, Explored!work, Explored!tweets, Explored!history
<1>2. CASE clean
  <2>1. Explored!ToSet(job.batch) \subseteq handled
    BY <1>1, <1>2 DEF MissInv, Explored!At
  <2>2. handled' = Taken
    BY <1>1, <2>1 DEF Taken, Explored!At
  <2>. QED  BY <1>1, <2>2, TurnKeeps
<1>3. CASE ~clean
  BY <1>1, <1>3 DEF MissInv
<1>. QED  BY <1>2, <1>3

LEMMA CountMisses == ASSUME ListsInv, Window, Explored!Count PROVE MissInv'
<1>1. /\ UNCHANGED <<recent, clean, handled>> /\ still' = Explored!ToSet(recent) /\ moves' = 0
      /\ job' = IF recent = <<>> THEN Explored!Idle
                ELSE [Explored!Job("fetch") EXCEPT !.total = Len(recent)]
  BY DEF Explored!Count, Explored!work, Explored!tweets
<1>2. CASE recent = <<>>
  <2>1. still' = {}
    BY <1>1, <1>2 DEF Explored!ToSet
  <2>2. Cardinality((still \ handled)') = 0
    BY <2>1, FS_EmptySet
  <2>3. job'.at = "idle"
    BY <1>1, <1>2 DEF Explored!Idle
  <2>. QED  BY <1>1, <2>2, <2>3 DEF MissInv, Explored!At, Paging
<1>3. CASE recent # <<>>
  <2>1. job' = [at |-> "fetch", top |-> {}, found |-> {}, scores |-> [t \in Rated |-> 0],
                page |-> 0, done |-> 0, total |-> Len(recent), batch |-> <<>>]
    BY <1>1, <1>3 DEF Explored!Job
  <2>2. job'.at = "fetch" /\ job'.page = 0 /\ job'.done = 0 /\ job'.total = Len(recent)
    BY <2>1
  <2>3. BatchSize \in Nat /\ Len(recent) \in Nat
    BY ProperLists DEF Explored!Sizes, Window
  <2>4. Reach' = 0
    BY <2>2, <2>3 DEF Reach, Explored!Skip, Explored!At
  <2>5. Missed' = {}
    BY <1>1, <2>3, <2>4 DEF Missed, Missing
  <2>6. Cardinality(Missed') = 0
    BY <2>5, FS_EmptySet
  <2>7. Balance'
    <3>1. 0 \in Nat /\ 0 + 0 <= moves' /\ Len(recent') = job'.total - 0 + 0
          /\ Cardinality(Missed') <= 0
      BY <1>1, <2>2, <2>3, <2>6
    <3>. QED  BY <3>1 DEF Balance
  <2>. QED  BY <2>2, <2>4, <2>7 DEF MissInv, Explored!At
<1>. QED  BY <1>2, <1>3

LEMMA FetchPageMisses == ASSUME ListsInv, Window, MissInv, Explored!FetchPage PROVE MissInv'
<1>1. /\ job.at = "fetch" /\ job.at \in Paging /\ UNCHANGED <<recent, still, moves, clean, handled>>
  BY FetchPageIs DEF Explored!tweets, Explored!history, Paging
<1>2. /\ Reach = Explored!Skip /\ Explored!Skip \in Nat /\ Taken = handled /\ job.done \in Nat
      /\ BatchSize \in Nat /\ Len(recent) \in Nat
  BY <1>1, PagingTyped DEF Reach, Taken, Explored!At, Window
<1>. SUFFICES ASSUME clean PROVE MissInv'
  BY <1>1 DEF MissInv
<1>3. Balance /\ job.done <= Explored!Skip
  BY <1>1, <1>2 DEF MissInv, Explored!At
<1>4. CASE job' = Explored!Idle /\ Explored!Skip >= Len(recent)
  <2>1. Cardinality(still \ handled) <= moves
    BY <1>1, <1>2, <1>3, <1>4, AtTheEnd
  <2>2. job'.at = "idle"
    BY <1>4 DEF Explored!Idle
  <2>. QED  BY <1>1, <2>1, <2>2 DEF MissInv, Explored!At, Paging
<1>5. ASSUME NEW batch \in Seq(Rated),
             job' = [at |-> "put", top |-> job.top, found |-> job.found, scores |-> score,
                     page |-> job.page, done |-> job.done, total |-> job.total, batch |-> batch],
             Len(batch) <= BatchSize, Explored!Skip + Len(batch) <= Len(recent),
             Len(batch) = BatchSize \/ Explored!Skip + Len(batch) = Len(recent),
             \A i \in 1..Len(batch) : batch[i] = recent[Explored!Skip + i]
      PROVE  MissInv'
  <2>1. /\ job'.at = "put" /\ job'.page = job.page /\ job'.done = job.done /\ job'.total = job.total
        /\ job'.batch = batch
    BY <1>5
  <2>2. Explored!Skip' = Explored!Skip
    BY <2>1 DEF Explored!Skip
  <2>3. Reach' = Explored!Skip + BatchSize /\ Taken' = handled \cup Explored!ToSet(batch)
    BY <1>1, <2>1, <2>2 DEF Reach, Taken, Explored!At
  <2>4. Len(batch) \in Nat
    OBVIOUS
  <2>5. ASSUME NEW u \in Missed' PROVE u \in Missed
    <3>1. /\ u \in Rated /\ u \in still /\ u \notin handled /\ u \notin Explored!ToSet(batch)
          /\ \E k \in 1..Len(recent) : k <= Explored!Skip + BatchSize /\ recent[k] = u
      BY <1>1, <2>3, <2>5 DEF Missed, Missing
    <3>2. PICK k \in 1..Len(recent) : k <= Explored!Skip + BatchSize /\ recent[k] = u
      BY <3>1
    <3>3. k <= Explored!Skip
      <4>1. SUFFICES ASSUME k > Explored!Skip PROVE FALSE
        BY <1>2, <3>2
      <4>. PICK skip \in Nat : skip = Explored!Skip
        BY <1>2
      <4>2. k - skip \in 1..Len(batch) /\ skip + (k - skip) = k
        BY <1>2, <1>5, <2>4, <3>2, <4>1
      <4>3. batch[k - skip] = u
        BY <1>5, <3>2, <4>2
      <4>4. DOMAIN batch = 1..Len(batch)
        OBVIOUS
      <4>5. u \in Explored!ToSet(batch)
        BY <4>2, <4>3, <4>4 DEF Explored!ToSet
      <4>. QED  BY <3>1, <4>5
    <3>. QED  BY <1>2, <3>1, <3>2, <3>3, MissedAre DEF Missing
  <2>6. Cardinality(Missed') <= Cardinality(Missed)
    BY <2>5, MissedAre, NoMore
  <2>7. Cardinality(Missed) \in Nat /\ Cardinality(Missed') \in Nat
    BY <2>5, MissedAre, TweetSets
  <2>8. Balance'
    <3>1. PICK d, i \in Nat : /\ d + i <= moves /\ Len(recent) = job.total - d + i
                              /\ Cardinality(Missed) <= d
      BY <1>3 DEF Balance
    <3>2. Cardinality(Missed') <= d
      BY <2>6, <2>7, <3>1
    <3>. QED  BY <1>1, <2>1, <3>1, <3>2 DEF Balance
  <2>9. job'.done + Len(job'.batch) <= Reach'
    BY <1>2, <1>3, <1>5, <2>1, <2>3, <2>4
  <2>. QED  BY <2>1, <2>8, <2>9 DEF MissInv, Explored!At
<1>. QED  BY <1>4, <1>5, FetchPageIs

LEMMA DeleteMisses == ASSUME ListsInv, Window, Window', MissInv, NEW t \in Rated,
      Explored!Delete(t) PROVE MissInv'
<1>1. /\ UNCHANGED <<job, handled, clean>> /\ recent' = Explored!Without(t)
           /\ still' \subseteq still
      /\ moves' = IF recent' # recent THEN moves + 1 ELSE moves
  BY DEF Explored!Delete, Explored!Happens
<1>2. Len(recent) \in Nat /\ moves \in Nat
  BY DEF Window
<1>3. CASE Explored!Without(t) = recent
  <2>1. Len(recent') = Len(recent) - 0 + 0 /\ moves' >= moves + 0 + 0 /\ 0 \in {0, 1} /\ 0 \in Nat
    BY <1>1, <1>2, <1>3
  <2>2. ASSUME NEW k \in 1..Len(recent'), recent'[k] \in still'
        PROVE  \E j \in 1..Len(recent) : recent[j] = recent'[k] /\ j <= k + 0
    BY <1>1, <1>2, <1>3, <2>2
  <2>. QED  BY <1>1, <2>1, <2>2, MovesKeep
<1>4. ASSUME NEW p \in 1..Len(recent), Len(Explored!Without(t)) = Len(recent) - 1,
             \A i \in 1..Len(recent) - 1 : /\ i < p => Explored!Without(t)[i] = recent[i]
                                           /\ i >= p => Explored!Without(t)[i] = recent[i + 1]
      PROVE  MissInv'
  <2>1. Len(recent') = Len(recent) - 1
    BY <1>1, <1>4
  <2>2. recent' # recent
    BY <1>2, <2>1
  <2>3. Len(recent') = Len(recent) - 1 + 0 /\ moves' >= moves + 1 + 0 /\ 1 \in {0, 1} /\ 0 \in Nat
    BY <1>1, <1>2, <2>1, <2>2
  <2>4. ASSUME NEW k \in 1..Len(recent'), recent'[k] \in still'
        PROVE  \E j \in 1..Len(recent) : recent[j] = recent'[k] /\ j <= k + 1
    <3>1. k \in 1..Len(recent) - 1 /\ k \in 1..Len(recent) /\ k + 1 \in 1..Len(recent) /\ k <= k + 1
      BY <1>2, <2>1
    <3>2. recent'[k] = recent[k] \/ recent'[k] = recent[k + 1]
      BY <1>1, <1>4, <3>1
    <3>. QED  BY <3>1, <3>2
  <2>. QED  BY <1>1, <2>3, <2>4, MovesKeep
<1>. QED  BY <1>3, <1>4, WithoutIs

LEMMA TouchMisses ==
    ASSUME ListsInv, Window, Window', MissInv, NEW t \in Rated, NEW s, Explored!Touch(t, s)
    PROVE  MissInv'
<1>1. /\ UNCHANGED <<job, handled, clean>> /\ recent' = <<t>> \o Explored!Without(t)
           /\ still' = still \ {t}
      /\ moves' = IF recent' # recent THEN moves + 1 ELSE moves
  BY DEF Explored!Touch, Explored!Happens
<1>2. Len(recent) \in Nat /\ moves \in Nat /\ Len(recent') \in Nat
  BY DEF Window
<1>3. Explored!Without(t) \in Seq(Rated)
  BY WithoutIs DEF Window
<1>4. /\ Len(Explored!Without(t)) \in Nat /\ Len(recent') = Len(Explored!Without(t)) + 1
           /\ recent'[1] = t
      /\ \A m \in 1..Len(recent') :
             m = 1 \/ (/\ m - 1 \in 1..Len(Explored!Without(t))
                       /\ recent'[m] = Explored!Without(t)[m - 1])
  BY <1>1, <1>3, Prepended
<1>5. CASE Explored!Without(t) = recent
  <2>1. Len(recent') = Len(recent) + 1 /\ recent' # recent
    BY <1>2, <1>4, <1>5
  <2>2. Len(recent') = Len(recent) - 0 + 1 /\ moves' >= moves + 0 + 1 /\ 0 \in {0, 1} /\ 1 \in Nat
    BY <1>1, <1>2, <2>1
  <2>3. ASSUME NEW k \in 1..Len(recent'), recent'[k] \in still'
        PROVE  \E j \in 1..Len(recent) : recent[j] = recent'[k] /\ j <= k + 0
    <3>1. k - 1 \in 1..Len(recent) /\ recent'[k] = recent[k - 1] /\ k - 1 <= k + 0
      BY <1>1, <1>2, <1>4, <1>5, <2>3
    <3>. QED  BY <3>1
  <2>. QED  BY <1>1, <2>2, <2>3, MovesKeep
<1>6. ASSUME NEW p \in 1..Len(recent), Len(Explored!Without(t)) = Len(recent) - 1,
             \A i \in 1..Len(recent) - 1 : /\ i < p => Explored!Without(t)[i] = recent[i]
                                           /\ i >= p => Explored!Without(t)[i] = recent[i + 1]
      PROVE  MissInv'
  <2>1. Len(recent') = Len(recent) - 0 + 0 /\ moves' >= moves + 0 + 0 /\ 0 \in {0, 1} /\ 0 \in Nat
    BY <1>1, <1>2, <1>4, <1>6
  <2>2. ASSUME NEW k \in 1..Len(recent'), recent'[k] \in still'
        PROVE  \E j \in 1..Len(recent) : recent[j] = recent'[k] /\ j <= k + 0
    <3>1. k - 1 \in 1..Len(recent) - 1 /\ recent'[k] = Explored!Without(t)[k - 1]
      BY <1>1, <1>4, <1>6, <2>2
    <3>2. k \in 1..Len(recent) /\ k - 1 \in 1..Len(recent) /\ k - 1 <= k + 0 /\ k <= k + 0
          /\ k - 1 + 1 = k
      BY <1>2, <3>1
    <3>3. Explored!Without(t)[k - 1] = recent[k - 1] \/ Explored!Without(t)[k - 1] = recent[k]
      BY <1>6, <3>1, <3>2
    <3>. QED  BY <3>1, <3>2, <3>3
  <2>. QED  BY <1>1, <2>1, <2>2, MovesKeep
<1>. QED  BY <1>5, <1>6, WithoutIs

LEMMA LeaveMisses == ASSUME ListsInv, Window, Window', MissInv, Explored!LeaveWindow PROVE MissInv'
<1>1. /\ UNCHANGED <<job, handled, clean>> /\ recent' = Explored!Front(recent) /\ recent # <<>>
      /\ still' \subseteq still /\ moves' = IF recent' # recent THEN moves + 1 ELSE moves
  BY DEF Explored!LeaveWindow, Explored!Happens
<1>2. /\ Len(recent) \in Nat /\ moves \in Nat /\ Len(recent') = Len(recent) - 1
      /\ \A i \in 1..Len(recent) - 1 : recent'[i] = recent[i]
  BY <1>1, FrontIs DEF Window
<1>3. recent' # recent
  BY <1>2
<1>4. Len(recent') = Len(recent) - 1 + 0 /\ moves' >= moves + 1 + 0 /\ 1 \in {0, 1} /\ 0 \in Nat
  BY <1>1, <1>2, <1>3
<1>5. ASSUME NEW k \in 1..Len(recent'), recent'[k] \in still'
      PROVE  \E j \in 1..Len(recent) : recent[j] = recent'[k] /\ j <= k + 1
  <2>1. k \in 1..Len(recent) - 1 /\ k \in 1..Len(recent) /\ k <= k + 1
    BY <1>2
  <2>. QED  BY <1>2, <2>1
<1>. QED  BY <1>1, <1>4, <1>5, MovesKeep

LEMMA MissInit == Explored!Init => MissInv
<1>. SUFFICES ASSUME Explored!Init PROVE MissInv
  OBVIOUS
<1>1. still \ handled = {} /\ moves = 0 /\ job.at = "idle"
  BY DEF Explored!Init, Explored!Idle
<1>2. Cardinality(still \ handled) = 0
  BY <1>1, FS_EmptySet
<1>. QED  BY <1>1, <1>2 DEF MissInv, Explored!At, Paging

LEMMA ReadTopTo == ASSUME ListsInv, Explored!ReadTop PROVE job'.at \in {"find", "count"}
<1>1. PICK T \in Explored!Tops(best, MaxSize) :
        job' = IF T = {} THEN Explored!Job("count") ELSE [job EXCEPT !.at = "find", !.top = T]
  BY DEF Explored!ReadTop
<1>2. job.at # "idle"
  BY DEF Explored!ReadTop, Explored!At
<1>3. job'.at = IF T = {} THEN "count" ELSE "find"
  <2>1. CASE T = {}
    BY <1>1, <2>1, NewJob DEF Busy
  <2>2. CASE T # {}
    BY <1>1, <1>2, <2>2, ListsUnlessDone
  <2>. QED  BY <2>1, <2>2
<1>. QED  BY <1>3

LEMMA FetchTopTo == ASSUME ListsInv, Explored!FetchTop PROVE job'.at = "write"
<1>1. PICK F \in {job.top \cap live, {}} :
        job' = [job EXCEPT !.at = "write", !.found = F, !.scores = score]
  BY DEF Explored!FetchTop
<1>2. job.at # "idle"
  BY DEF Explored!FetchTop, Explored!At
<1>. QED  BY <1>1, <1>2, ListsUnlessDone

LEMMA MissStep == ASSUME ListsInv, Window, Window', MissInv,
      [Explored!Next]_(Explored!vars) PROVE MissInv'
<1>1. ASSUME NEW t \in Rated, Explored!Delete(t) PROVE MissInv'
  BY <1>1, DeleteMisses
<1>2. ASSUME NEW t \in Rated, NEW s, Explored!Touch(t, s) PROVE MissInv'
  BY <1>2, TouchMisses
<1>3. CASE Explored!LeaveWindow
  BY <1>3, LeaveMisses
<1>4. CASE Explored!Count
  BY <1>4, CountMisses
<1>5. CASE Explored!FetchPage
  BY <1>5, FetchPageMisses
<1>6. CASE Explored!UpdateScores
  BY <1>6, UpdateScoresMisses
<1>7. CASE Explored!TrimPage
  BY <1>7, TrimPageMisses
<1>8. CASE \/ Explored!ReadNothing \/ Explored!PipelineLost \/ Explored!PageFails
           \/ Explored!JobFails \/ Explored!ClearDelete \/ Explored!Expire
  <2>1. ~clean'
    BY <1>8 DEF Explored!ReadNothing, Explored!PipelineLost, Explored!PageFails,
          Explored!JobFails, Explored!ClearDelete, Explored!Expire, Explored!Gone
  <2>. QED  BY <2>1 DEF MissInv
<1>9. CASE \/ Explored!Start \/ Explored!ReadTop \/ Explored!FetchTop
           \/ Explored!WriteTop \/ Explored!TrimTop
  <2>1. job'.at \in {"read", "find", "write", "trim", "count"}
    <3>1. CASE Explored!Start
      BY <3>1, NewJob DEF Explored!Start, Busy
    <3>2. CASE Explored!ReadTop
      BY <3>2, ReadTopTo
    <3>3. CASE Explored!FetchTop
      BY <3>3, FetchTopTo
    <3>4. CASE Explored!WriteTop
      BY <3>4, NewJob DEF Explored!WriteTop, Busy
    <3>5. CASE Explored!TrimTop
      BY <3>5, NewJob DEF Explored!TrimTop, Busy
    <3>. QED  BY <1>9, <3>1, <3>2, <3>3, <3>4, <3>5
  <2>. QED  BY <2>1 DEF MissInv, Explored!At, Paging
<1>10. CASE (\E t \in Rated : Explored!Age(t)) \/ Explored!ClearKeys \/ UNCHANGED Explored!vars
  <2>1. UNCHANGED <<recent, job, clean, handled, moves>> /\ still' = still
    BY <1>10 DEF Explored!Age, Explored!Happens, Explored!ClearKeys, Explored!vars,
          Explored!tweets, Explored!history
  <2>2. Reach' = Reach /\ Taken' = Taken
    BY <2>1 DEF Reach, Taken, Explored!Skip, Explored!At
  <2>3. Missed' = Missed
    BY <2>1, <2>2 DEF Missed, Missing
  <2>4. Balance' <=> Balance
    BY <2>1, <2>3 DEF Balance
  <2>. QED  BY <2>1, <2>2, <2>4 DEF MissInv, Explored!At
<1>. QED  BY <1>1, <1>2, <1>3, <1>4, <1>5, <1>6, <1>7, <1>8, <1>9, <1>10 DEF Explored!Next

\* Of the tweets that nobody touches a job misses at most one for every tweet
\* that moves (handleRecalculateExploreScores), for any window and batches.
THEOREM MissesHold == Explored!Spec => []MissesOnePerMove
<1>1. Explored!Init => ListsInv /\ Window /\ MissInv
  BY ListsInit, WindowInit, MissInit
<1>2. ListsInv /\ Window /\ MissInv /\ [Explored!Next]_(Explored!vars)
      => (ListsInv /\ Window /\ MissInv)'
  BY ListsStep, WindowStep, MissStep
<1>3. MissInv => MissesOnePerMove
  BY SameSets DEF MissInv, MissesOnePerMove, Explored!MissesOnePerMove, Explored!Ended
<1>. QED  BY <1>1, <1>2, <1>3, PTL DEF Explored!Spec

===============================================================================
